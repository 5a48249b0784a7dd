---------------------------- MODULE ConfigFlows ----------------------------
(***************************************************************************)
(* How wifi_geolocation is configured: dialogs that create its config      *)
(* entries and change them, the entries being set up, unloaded and         *)
(* reloaded, the one service wifi_geolocation.resolve they all register,   *)
(* and the patch that lets a selector be reordered.                        *)
(*                                                                         *)
(* Any number of dialogs are open together, and each keeps what it has     *)
(* collected to itself until its last step.  A backend's credentials are   *)
(* one fact, there or not; the order of the backends is left out.          *)
(***************************************************************************)
EXTENDS Naturals

CONSTANTS
  Entries,      \* bound: the config entries that can be created
  ConfigFlows,  \* dialogs of "Add integration"
  OptionsFlows, \* dialogs of "Configure"
  Backends,     \* the geolocation backends
  NeedCreds,    \* those with a schema in _CREDENTIAL_SCHEMAS
  NoEntry,      \* no entry
  MaxRestarts   \* bound: restarts of Home Assistant

ASSUME ConfigFlowsAssumption ==
  /\ ConfigFlows \cap OptionsFlows = {}
  /\ NeedCreds \subseteq Backends
  /\ NoEntry \notin Entries
  /\ MaxRestarts \in Nat

VARIABLES
  state,    \* entry -> its ConfigEntryState, and why it is being unloaded
  data,     \* entry -> entry.data: backends, and those with credentials
  built,    \* entry -> the data its backend chain was built from
  due,      \* entry -> its update listener is to reload it
  service,  \* the entry whose handler is registered as resolve, or NoEntry
  flow,     \* flow -> the step shown, its _data and _pending, its entry
  patch,    \* SelectSelector: "none", "half" or "done"
  fits,     \* Home Assistant has all the patch calls
  raised,   \* a request for a form has raised
  restarts  \* counter of restarts

vars == <<state, data, built, due, service, flow, patch, fits, raised, restarts>>

Flows == ConfigFlows \cup OptionsFlows
Data == [backends : SUBSET Backends, creds : SUBSET Backends]
NoData == [backends |-> {}, creds |-> {}]

\* "setup" is an entry HA is about to set up; "reloading" and "removing" are
\* between async_unload_entry's removal of the service and its end.
EntryStates == {"none", "setup", "loaded", "reloading", "removing", "gone"}
Existing == {e \in Entries : state[e] \notin {"none", "gone"}}

Shown(s, e, d, p) == [step |-> s, entry |-> e, data |-> d, pending |-> p]
Closed == Shown("closed", NoEntry, NoData, {})
FlowStates ==
  [step : {"closed", "select", "creds"}, entry : Entries \cup {NoEntry},
   data : Data, pending : SUBSET Backends]

\* patch_select_selector_reorder: the annotation is set first, and is what a
\* later call takes for "already patched".
Patched == IF patch # "none" THEN patch ELSE IF fits THEN "done" ELSE "half"
PatchReported == patch # "none" \/ fits

\* _backend_field_schema: the reorder field when the patch is
\* reported, which an unpatched selector refuses, else the priority fields.
Refused == PatchReported /\ Patched = "half"
FieldSchema ==
  /\ patch' = Patched
  /\ raised' = (raised \/ Refused)

\* ConfigFlow.async_step_user(None).
OpenUser(f) ==
  /\ flow[f].step = "closed"
  /\ Existing = {}
  /\ FieldSchema
  /\ flow' = IF Refused THEN flow
             ELSE [flow EXCEPT ![f] = Shown("select", NoEntry, NoData, {})]
  /\ UNCHANGED <<state, data, built, due, service, fits, restarts>>

\* OptionsFlow.__init__ copies the entry's data; async_step_init(None).
OpenInit(f, e) ==
  /\ flow[f].step = "closed"
  /\ e \in Existing
  /\ FieldSchema
  /\ flow' = IF Refused THEN flow
             ELSE [flow EXCEPT ![f] = Shown("select", e, data[e], {})]
  /\ UNCHANGED <<state, data, built, due, service, fits, restarts>>

\* Nothing was selected: the form again, with an error.
SelectNone(f) ==
  /\ flow[f].step = "select"
  /\ f \in ConfigFlows => Existing = {}
  /\ FieldSchema
  /\ UNCHANGED <<state, data, built, due, service, flow, fits, restarts>>

\* Another entry was created since the form was shown.
AbortUser(f) ==
  /\ flow[f].step = "select"
  /\ Existing # {}
  /\ flow' = [flow EXCEPT ![f] = Closed]
  /\ UNCHANGED <<state, data, built, due, service, patch, fits, raised, restarts>>

\* async_create_entry: the entry exists before it is set up.
Create(f, d) ==
  /\ \E e \in Entries :
       /\ state[e] = "none"
       /\ state' = [state EXCEPT ![e] = "setup"]
       /\ data' = [data EXCEPT ![e] = d]
  /\ flow' = [flow EXCEPT ![f] = Closed]
  /\ UNCHANGED due

\* async_update_entry calls the update listeners of an entry whose data
\* changed; they are registered from its set-up to the end of its unload.
\* Unlistened is a mutant: no listener is added.
Listening(e) == state[e] \in {"loaded", "reloading", "removing"}
Unlistened(e, d) == due[e]

UpdateListenerDue(e, d) == due[e] \/ (Listening(e) /\ d # data[e])

\* An entry removed meanwhile is unknown to async_update_entry.
Save(f, d) ==
  LET e == flow[f].entry IN
  /\ IF e \in Existing
     THEN /\ data' = [data EXCEPT ![e] = d]
          /\ due' = [due EXCEPT ![e] = UpdateListenerDue(e, d)]
     ELSE UNCHANGED <<data, due>>
  /\ flow' = [flow EXCEPT ![f] = Closed]
  /\ UNCHANGED state

\* _async_step_next_backend, with d and p for _data and _pending.
NextBackend(f, d, p) ==
  \/ /\ p # {}
     /\ flow' = [flow EXCEPT ![f] = Shown("creds", flow[f].entry, d, p)]
     /\ UNCHANGED <<state, data, due>>
  \/ p = {} /\ f \in ConfigFlows /\ Create(f, d)
  \/ p = {} /\ f \in OptionsFlows /\ Save(f, d)

\* ConfigFlow.async_step_user with a selection.
SelectUser(f, selected) ==
  /\ flow[f].step = "select"
  /\ Existing = {}
  /\ NextBackend(f, [backends |-> selected, creds |-> {}], selected \cap NeedCreds)
  /\ UNCHANGED <<built, service, patch, fits, raised, restarts>>

\* A mutant: what the entry itself does not hold by now.
InitPendingOfEntry(f, selected) ==
  (selected \cap NeedCreds) \ data[flow[f].entry].creds

\* What an options flow still asks for: what its own copy does not hold.
InitPending(f, selected) == (selected \cap NeedCreds) \ flow[f].data.creds

\* OptionsFlow.async_step_init with a selection: the credentials of what is no
\* longer selected are dropped, those of the rest are kept.
SelectInit(f, selected) ==
  /\ flow[f].step = "select"
  /\ NextBackend(f, [backends |-> selected, creds |-> flow[f].data.creds \cap selected],
                 InitPending(f, selected))
  /\ UNCHANGED <<built, service, patch, fits, raised, restarts>>

\* async_step_backend_config: one backend's credentials.
EnterCreds(f, b) ==
  /\ flow[f].step = "creds"
  /\ b \in flow[f].pending
  /\ NextBackend(f, [backends |-> flow[f].data.backends,
                     creds |-> flow[f].data.creds \cup {b}], flow[f].pending \ {b})
  /\ UNCHANGED <<built, service, patch, fits, raised, restarts>>

\* The dialog is closed.
Dismiss(f) ==
  /\ flow[f].step # "closed"
  /\ flow' = [flow EXCEPT ![f] = Closed]
  /\ UNCHANGED <<state, data, built, due, service, patch, fits, raised, restarts>>

\* async_setup_entry: the chain is built, its handler registered over any other.
Setup(e) ==
  /\ state[e] = "setup"
  /\ state' = [state EXCEPT ![e] = "loaded"]
  /\ built' = [built EXCEPT ![e] = data[e]]
  /\ service' = e
  /\ UNCHANGED <<data, due, flow, patch, fits, raised, restarts>>

\* async_unload_entry removes the service, whoever registered it, and awaits the
\* close of the entry's session.
BeginUnload(e, next) ==
  /\ state[e] = "loaded"
  /\ state' = [state EXCEPT ![e] = next]
  /\ built' = [built EXCEPT ![e] = NoData]
  /\ service' = NoEntry
  /\ UNCHANGED <<data, flow, patch, fits, raised, restarts>>

\* A mutant: the entry waits for the dialogs opened on it.
ReloadWhenIdle(e) ==
  /\ due[e]
  /\ \A f \in OptionsFlows : flow[f].entry # e
  /\ due' = [due EXCEPT ![e] = FALSE]
  /\ BeginUnload(e, "reloading")

\* _async_reload_entry.
Reload(e) ==
  /\ due[e]
  /\ due' = [due EXCEPT ![e] = FALSE]
  /\ BeginUnload(e, "reloading")

\* The user reloads the entry, or removes it.
ReloadByHand(e) == BeginUnload(e, "reloading") /\ UNCHANGED due
Remove(e) == BeginUnload(e, "removing") /\ UNCHANGED due

\* The session is closed: HA drops the listener, and sets the entry up again or
\* forgets it.
Unloaded(e) ==
  /\ state[e] \in {"reloading", "removing"}
  /\ state' = [state EXCEPT ![e] = IF @ = "reloading" THEN "setup" ELSE "gone"]
  /\ data' = [data EXCEPT ![e] = IF state[e] = "reloading" THEN @ ELSE NoData]
  /\ due' = [due EXCEPT ![e] = @ /\ state[e] = "reloading"]
  /\ UNCHANGED <<built, service, flow, patch, fits, raised, restarts>>

\* Home Assistant restarts: entries are stored, nothing else is.
Restart ==
  /\ restarts < MaxRestarts
  /\ restarts' = restarts + 1
  /\ state' = [e \in Entries |-> IF e \in Existing THEN "setup" ELSE state[e]]
  /\ built' = [e \in Entries |-> NoData]
  /\ due' = [e \in Entries |-> FALSE]
  /\ service' = NoEntry
  /\ flow' = [f \in Flows |-> Closed]
  /\ patch' = "none"
  /\ raised' = FALSE
  /\ UNCHANGED <<data, fits>>

\* "done" is a Home Assistant whose selector can be reordered without the patch.
Init ==
  /\ state = [e \in Entries |-> "none"]
  /\ data = [e \in Entries |-> NoData]
  /\ built = [e \in Entries |-> NoData]
  /\ due = [e \in Entries |-> FALSE]
  /\ service = NoEntry
  /\ flow = [f \in Flows |-> Closed]
  /\ patch = "none"
  /\ fits \in BOOLEAN
  /\ raised = FALSE
  /\ restarts = 0

Selections == (SUBSET Backends) \ {{}}

UserStep(f) ==
  \/ OpenUser(f)
  \/ AbortUser(f)
  \/ \E s \in Selections : SelectUser(f, s)
InitStep(f) ==
  \/ \E e \in Entries : OpenInit(f, e)
  \/ \E s \in Selections : SelectInit(f, s)
FlowStep(f) ==
  \/ SelectNone(f)
  \/ \E b \in Backends : EnterCreds(f, b)
  \/ Dismiss(f)
EntryStep(e) ==
  \/ Setup(e) \/ Reload(e) \/ Unloaded(e)
  \/ ReloadByHand(e) \/ Remove(e)

Next ==
  \/ \E f \in ConfigFlows : UserStep(f)
  \/ \E f \in OptionsFlows : InitStep(f)
  \/ \E f \in Flows : FlowStep(f)
  \/ \E e \in Entries : EntryStep(e)
  \/ Restart

Spec == Init /\ [][Next]_vars

\* Home Assistant runs the set-ups, unloads and listeners it has started.
\* No dialog is ever finished.
Fairness == \A e \in Entries : WF_vars(Setup(e)) /\ WF_vars(Reload(e)) /\ WF_vars(Unloaded(e))
FairSpec == Spec /\ Fairness

TypeOK ==
  /\ state \in [Entries -> EntryStates]
  /\ data \in [Entries -> Data]
  /\ built \in [Entries -> Data]
  /\ due \in [Entries -> BOOLEAN]
  /\ service \in Entries \cup {NoEntry}
  /\ flow \in [Flows -> FlowStates]
  /\ patch \in {"none", "half", "done"}
  /\ fits \in BOOLEAN
  /\ raised \in BOOLEAN
  /\ restarts \in 0..MaxRestarts

\* Some backend, and the credentials of those that need them and of no other:
\* _build_one_backend raises for no data of this kind.
Complete(d) ==
  /\ d.backends # {}
  /\ d.creds = d.backends \cap NeedCreds

EntryComplete == \A e \in Existing : Complete(data[e])

FlowComplete ==
  \A f \in Flows :
    /\ flow[f].step = "creds" =>
         /\ flow[f].pending # {}
         /\ flow[f].pending \cap flow[f].data.creds = {}
         /\ flow[f].pending \cup flow[f].data.creds = flow[f].data.backends \cap NeedCreds
         /\ flow[f].data.backends # {}
    /\ f \in OptionsFlows /\ flow[f].step = "select" => Complete(flow[f].data)

\* A request for a form raises only once the patch has failed half-way, which it
\* does only in a Home Assistant that has not all it calls.
PatchInv ==
  /\ raised => patch = "half"
  /\ patch = "half" => ~fits

\* Whatever dialogs overlap and whenever the entry they were opened on changes
\* or goes, an entry always holds what its set-up needs: some backend, and the
\* credentials of each that takes any; and no request for a form raises where
\* the patch can be applied.
FlowsInv == TypeOK /\ EntryComplete /\ FlowComplete /\ PatchInv

\* The handler in service is of a loaded entry, so its session is open, and its
\* chain is the one last saved, or a reload is due; and the only entry there
\* ever was is served while it is loaded.
ServedIsSaved ==
  /\ service # NoEntry =>
       /\ state[service] = "loaded"
       /\ built[service] = data[service] \/ due[service]
  /\ \A e \in Entries :
       state[e] = "loaded" /\ (\A o \in Entries \ {e} : state[o] = "none")
         => service = e

\* What was saved for a loaded entry is what its chain is built from in the end,
\* even while other dialogs are open on it.
SavedIsBuilt ==
  \A e \in Entries :
    state[e] = "loaded" /\ built[e] # data[e]
      ~> (state[e] = "loaded" /\ built[e] = data[e]) \/ state[e] = "gone"
=============================================================================
