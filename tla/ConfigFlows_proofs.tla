------------------------- MODULE ConfigFlows_proofs -------------------------
(***************************************************************************)
(* For any number of entries, dialogs and backends: an entry always has    *)
(* the credentials its set-up needs, and the handler in service is built   *)
(* from what was last saved, or a reload is due.                           *)
(***************************************************************************)
EXTENDS ConfigFlows, TLAPS

\* FlowsInv in three parts: the entries, ...
EntriesInv ==
  /\ state \in [Entries -> EntryStates]
  /\ data \in [Entries -> Data]
  /\ built \in [Entries -> Data]
  /\ due \in [Entries -> BOOLEAN]
  /\ service \in Entries \cup {NoEntry}
  /\ restarts \in 0..MaxRestarts
  /\ EntryComplete

\* ... each dialog, ...
DialogInv(f, k) ==
  /\ k \in FlowStates
  /\ k.step = "creds" =>
       /\ k.pending # {}
       /\ k.pending \cap k.data.creds = {}
       /\ k.pending \cup k.data.creds = k.data.backends \cap NeedCreds
       /\ k.data.backends # {}
  /\ f \in OptionsFlows /\ k.step = "select" => Complete(k.data)

DialogsInv ==
  /\ flow \in [Flows -> FlowStates]
  /\ \A f \in Flows : DialogInv(f, flow[f])

\* ... and the form.
FormInv ==
  /\ patch \in {"none", "half", "done"}
  /\ fits \in BOOLEAN
  /\ raised \in BOOLEAN
  /\ PatchInv

LEMMA Parts == FlowsInv <=> EntriesInv /\ DialogsInv /\ FormInv
BY DEF FlowsInv, TypeOK, FlowComplete, EntriesInv, DialogsInv, DialogInv, FormInv

LEMMA PartsAfter == EntriesInv' /\ DialogsInv' /\ FormInv' => FlowsInv'
BY DEF FlowsInv, TypeOK, FlowComplete, EntriesInv, DialogsInv, DialogInv, FormInv

\* A form keeps its part, ...
LEMMA FieldSchemaKeeps ==
  ASSUME FormInv, FieldSchema, fits' = fits
  PROVE  FormInv'
BY DEF FormInv, FieldSchema, PatchInv, Patched, PatchReported, Refused

\* ... a dialog that goes to a consistent step keeps the others, ...
LEMMA DialogMoves ==
  ASSUME DialogsInv, NEW f \in Flows, NEW k, DialogInv(f, k),
         flow' = [flow EXCEPT ![f] = k]
  PROVE  DialogsInv'
<1>1. k \in FlowStates
  BY DEF DialogInv
<1>2. flow' \in [Flows -> FlowStates]
  BY <1>1 DEF DialogsInv
<1>3. ASSUME NEW g \in Flows PROVE DialogInv(g, flow'[g])
  BY <1>3 DEF DialogsInv
<1> QED BY <1>2, <1>3 DEF DialogsInv, DialogInv

LEMMA ClosedIsFine == \A f \in Flows : DialogInv(f, Closed)
BY DEF DialogInv, Closed, Shown, FlowStates, NoData, Data

\* ... and so does what every step of a dialog ends in: what is still asked for
\* and what there is make up what the selection needs.
LEMMA NextBackendKeeps ==
  ASSUME EntriesInv, DialogsInv, NEW f \in Flows, NEW d \in Data,
         NEW p \in SUBSET Backends, d.backends # {}, p \cap d.creds = {},
         p \cup d.creds = d.backends \cap NeedCreds,
         NextBackend(f, d, p), UNCHANGED <<built, service, restarts>>
  PROVE  EntriesInv' /\ DialogsInv'
<1>1. CASE p # {} /\ flow' = [flow EXCEPT ![f] = Shown("creds", flow[f].entry, d, p)]
           /\ UNCHANGED <<state, data, due>>
  <2>1. flow[f].entry \in Entries \cup {NoEntry}
    BY DEF DialogsInv, FlowStates
  <2>2. DialogInv(f, Shown("creds", flow[f].entry, d, p))
    BY <1>1, <2>1 DEF DialogInv, Shown, FlowStates
  <2>3. DialogsInv'
    BY <1>1, <2>2, DialogMoves
  <2>4. EntriesInv'
    BY <1>1 DEF EntriesInv, EntryComplete, Existing
  <2> QED BY <2>3, <2>4
<1>2. CASE p = {} /\ Create(f, d)
  <2>1. DialogsInv'
    BY <1>2, ClosedIsFine, DialogMoves DEF Create
  <2>2. Complete(d)
    BY <1>2 DEF Complete
  <2>3. PICK e \in Entries : /\ state[e] = "none"
                             /\ state' = [state EXCEPT ![e] = "setup"]
                             /\ data' = [data EXCEPT ![e] = d]
    BY <1>2 DEF Create
  <2>4. \A x \in Entries : state'[x] \notin {"none", "gone"} => Complete(data'[x])
    BY <2>2, <2>3 DEF EntriesInv, EntryComplete, Existing
  <2>5. state' \in [Entries -> EntryStates] /\ data' \in [Entries -> Data]
    BY <2>3 DEF EntriesInv, EntryStates
  <2>6. EntryComplete'
    BY <2>4 DEF EntryComplete, Existing, Complete
  <2>7. EntriesInv'
    BY <1>2, <2>5, <2>6 DEF EntriesInv, Create
  <2> QED BY <2>1, <2>7
<1>3. CASE p = {} /\ Save(f, d)
  <2>1. DialogsInv'
    BY <1>3, ClosedIsFine, DialogMoves DEF Save
  <2>2. Complete(d)
    BY <1>3 DEF Complete
  <2>3. data' \in [Entries -> Data] /\ due' \in [Entries -> BOOLEAN]
    BY <1>3 DEF Save, EntriesInv, UpdateListenerDue
  <2>4. \A x \in Entries : state'[x] \notin {"none", "gone"} => Complete(data'[x])
    BY <1>3, <2>2 DEF Save, EntriesInv, EntryComplete, Existing
  <2>5. EntryComplete'
    BY <2>4 DEF EntryComplete, Existing, Complete
  <2>6. EntriesInv'
    BY <1>3, <2>3, <2>5 DEF EntriesInv, Save
  <2> QED BY <2>1, <2>6
<1> QED BY <1>1, <1>2, <1>3 DEF NextBackend

LEMMA FlowsInit == Init => FlowsInv
<1> SUFFICES ASSUME Init PROVE FlowsInv
  OBVIOUS
<1>1. EntriesInv
  BY ConfigFlowsAssumption
  DEF Init, EntriesInv, EntryStates, EntryComplete, Existing, NoData, Data
<1>2. DialogsInv
  BY ClosedIsFine DEF Init, DialogsInv, DialogInv
<1>3. FormInv
  BY DEF Init, FormInv, PatchInv
<1> QED BY <1>1, <1>2, <1>3, Parts

\* The steps of the dialogs.
LEMMA DialogStepInv ==
  ASSUME FlowsInv,
         \/ \E f \in ConfigFlows : UserStep(f)
         \/ \E f \in OptionsFlows : InitStep(f)
         \/ \E f \in Flows : FlowStep(f)
  PROVE  FlowsInv'
<1>1. EntriesInv /\ DialogsInv /\ FormInv
  BY Parts
<1>2. ASSUME NEW f \in ConfigFlows, OpenUser(f) PROVE FlowsInv'
  <2>1. f \in Flows
    BY DEF Flows
  <2>2. DialogInv(f, Shown("select", NoEntry, NoData, {}))
    BY ConfigFlowsAssumption DEF DialogInv, Shown, FlowStates, NoData, Data
  <2>3. CASE Refused
    BY <1>1, <1>2, <2>3, FieldSchemaKeeps, PartsAfter
    DEF OpenUser, EntriesInv, DialogsInv, DialogInv, EntryComplete, Existing
  <2>4. CASE ~Refused
    <3>1. DialogsInv'
      BY <1>1, <1>2, <2>1, <2>2, <2>4, DialogMoves DEF OpenUser
    <3> QED BY <1>1, <1>2, <3>1, FieldSchemaKeeps, PartsAfter
            DEF OpenUser, EntriesInv, EntryComplete, Existing
  <2> QED BY <2>3, <2>4
<1>3. ASSUME NEW f \in OptionsFlows, NEW e \in Entries, OpenInit(f, e) PROVE FlowsInv'
  <2>1. f \in Flows
    BY DEF Flows
  <2>2. Complete(data[e]) /\ data[e] \in Data
    BY <1>1, <1>3 DEF OpenInit, EntriesInv, EntryComplete
  <2>3. DialogInv(f, Shown("select", e, data[e], {}))
    BY <2>2 DEF DialogInv, Shown, FlowStates
  <2>4. CASE Refused
    BY <1>1, <1>3, <2>4, FieldSchemaKeeps, PartsAfter
    DEF OpenInit, EntriesInv, DialogsInv, DialogInv, EntryComplete, Existing
  <2>5. CASE ~Refused
    <3>1. DialogsInv'
      BY <1>1, <1>3, <2>1, <2>3, <2>5, DialogMoves DEF OpenInit
    <3> QED BY <1>1, <1>3, <3>1, FieldSchemaKeeps, PartsAfter
            DEF OpenInit, EntriesInv, EntryComplete, Existing
  <2> QED BY <2>4, <2>5
<1>4. ASSUME NEW f \in Flows, SelectNone(f) PROVE FlowsInv'
  BY <1>1, <1>4, FieldSchemaKeeps, PartsAfter
  DEF SelectNone, EntriesInv, DialogsInv, DialogInv, EntryComplete, Existing
<1>5. ASSUME NEW f \in Flows, AbortUser(f) \/ Dismiss(f) PROVE FlowsInv'
  <2>1. DialogsInv'
    BY <1>1, <1>5, ClosedIsFine, DialogMoves DEF AbortUser, Dismiss
  <2> QED BY <1>1, <1>5, <2>1, PartsAfter
          DEF AbortUser, Dismiss, EntriesInv, FormInv, PatchInv, EntryComplete, Existing
<1>6. ASSUME NEW f \in ConfigFlows, NEW s \in Selections, SelectUser(f, s) PROVE FlowsInv'
  <2> DEFINE d == [backends |-> s, creds |-> {}]
  <2>1. f \in Flows /\ d \in Data /\ s \cap NeedCreds \in SUBSET Backends /\ d.backends # {}
    BY DEF Flows, Data, Selections
  <2>2. (s \cap NeedCreds) \cap d.creds = {}
    OBVIOUS
  <2>3. (s \cap NeedCreds) \cup d.creds = d.backends \cap NeedCreds
    OBVIOUS
  <2>4. NextBackend(f, d, s \cap NeedCreds) /\ UNCHANGED <<built, service, restarts>>
    BY <1>6 DEF SelectUser
  <2> HIDE DEF d
  <2>5. EntriesInv' /\ DialogsInv'
    BY <1>1, <2>1, <2>2, <2>3, <2>4, NextBackendKeeps
  <2> QED BY <1>1, <1>6, <2>5, PartsAfter DEF SelectUser, FormInv, PatchInv
<1>7. ASSUME NEW f \in OptionsFlows, NEW s \in Selections, SelectInit(f, s) PROVE FlowsInv'
  <2> DEFINE c == flow[f].data.creds
             d == [backends |-> s, creds |-> c \cap s]
             p == (s \cap NeedCreds) \ c
  <2>1. f \in Flows
    BY DEF Flows
  <2>2. c \subseteq NeedCreds /\ c \subseteq Backends
    BY <1>1, <1>7, <2>1, ConfigFlowsAssumption
    DEF SelectInit, DialogsInv, DialogInv, Complete
  <2>3. s \subseteq Backends /\ s # {}
    BY DEF Selections
  <2>4. NextBackend(f, d, p) /\ UNCHANGED <<built, service, restarts>>
    BY <1>7 DEF SelectInit, InitPending
  <2> HIDE DEF c
  <2>5. d \in Data /\ p \in SUBSET Backends /\ d.backends # {}
    BY <2>2, <2>3 DEF Data
  <2>6. p \cap d.creds = {} /\ p \cup d.creds = d.backends \cap NeedCreds
    BY <2>2
  <2> HIDE DEF d, p
  <2>7. EntriesInv' /\ DialogsInv'
    BY <1>1, <2>1, <2>4, <2>5, <2>6, NextBackendKeeps
  <2> QED BY <1>1, <1>7, <2>7, PartsAfter DEF SelectInit, FormInv, PatchInv
<1>8. ASSUME NEW f \in Flows, NEW b \in Backends, EnterCreds(f, b) PROVE FlowsInv'
  <2> DEFINE o == flow[f].data
             q == flow[f].pending
             d == [backends |-> o.backends, creds |-> o.creds \cup {b}]
             p == q \ {b}
  <2>1. /\ o.backends \subseteq Backends /\ o.creds \subseteq Backends /\ q \subseteq Backends
        /\ o.backends # {} /\ b \in q /\ q \cap o.creds = {}
        /\ q \cup o.creds = o.backends \cap NeedCreds
    BY <1>1, <1>8 DEF EnterCreds, DialogsInv, DialogInv, FlowStates, Data
  <2>2. NextBackend(f, d, p) /\ UNCHANGED <<built, service, restarts>>
    BY <1>8 DEF EnterCreds
  <2> HIDE DEF o, q
  <2>3. d \in Data /\ p \in SUBSET Backends /\ d.backends # {}
    BY <2>1 DEF Data
  <2>4. p \cap d.creds = {} /\ p \cup d.creds = d.backends \cap NeedCreds
    BY <2>1
  <2> HIDE DEF d, p
  <2>5. EntriesInv' /\ DialogsInv'
    BY <1>1, <2>2, <2>3, <2>4, NextBackendKeeps
  <2> QED BY <1>1, <1>8, <2>5, PartsAfter DEF EnterCreds, FormInv, PatchInv
<1>9. ConfigFlows \subseteq Flows
  BY DEF Flows
<1> QED BY <1>2, <1>3, <1>4, <1>5, <1>6, <1>7, <1>8, <1>9 DEF UserStep, InitStep, FlowStep

\* The steps of the entries, and a restart.
LEMMA EntryStepInv ==
  ASSUME FlowsInv, (\E e \in Entries : EntryStep(e)) \/ Restart
  PROVE  FlowsInv'
<1>1. EntriesInv /\ DialogsInv /\ FormInv
  BY Parts
<1>2. ASSUME NEW e \in Entries, Setup(e) PROVE FlowsInv'
  <2>1. EntriesInv'
    BY <1>1, <1>2 DEF Setup, EntriesInv, EntryStates, EntryComplete, Existing
  <2> QED BY <1>1, <1>2, <2>1, PartsAfter
          DEF Setup, FormInv, PatchInv, DialogsInv, DialogInv
<1>3. ASSUME NEW e \in Entries, NEW next \in {"reloading", "removing"},
             BeginUnload(e, next), due' \in [Entries -> BOOLEAN]
      PROVE FlowsInv'
  <2>1. NoData \in Data
    BY DEF NoData, Data
  <2>2. EntriesInv'
    BY <1>1, <1>3, <2>1 DEF BeginUnload, EntriesInv, EntryStates, EntryComplete, Existing
  <2> QED BY <1>1, <1>3, <2>2, PartsAfter
          DEF BeginUnload, FormInv, PatchInv, DialogsInv, DialogInv
<1>4. ASSUME NEW e \in Entries, Unloaded(e) PROVE FlowsInv'
  <2>1. NoData \in Data
    BY DEF NoData, Data
  <2>2. /\ state' \in [Entries -> EntryStates] /\ data' \in [Entries -> Data]
        /\ due' \in [Entries -> BOOLEAN]
    BY <1>1, <1>4, <2>1 DEF Unloaded, EntriesInv, EntryStates
  <2>3. EntryComplete'
    BY <1>1, <1>4 DEF Unloaded, EntriesInv, EntryComplete, Existing
  <2>4. EntriesInv'
    BY <1>1, <1>4, <2>2, <2>3 DEF Unloaded, EntriesInv
  <2> QED BY <1>1, <1>4, <2>4, PartsAfter
          DEF Unloaded, FormInv, PatchInv, DialogsInv, DialogInv
<1>5. ASSUME Restart PROVE FlowsInv'
  <2>1. NoData \in Data
    BY DEF NoData, Data
  <2>2. EntriesInv'
    BY <1>1, <1>5, <2>1, ConfigFlowsAssumption
    DEF Restart, EntriesInv, EntryStates, EntryComplete, Existing
  <2>3. DialogsInv'
    BY <1>5, ClosedIsFine DEF Restart, DialogsInv, DialogInv
  <2>4. FormInv'
    BY <1>1, <1>5 DEF Restart, FormInv, PatchInv
  <2> QED BY <2>2, <2>3, <2>4, PartsAfter
<1>6. ASSUME NEW e \in Entries, Reload(e) PROVE FlowsInv'
  BY <1>1, <1>3, <1>6 DEF Reload, EntriesInv
<1>7. ASSUME NEW e \in Entries, ReloadByHand(e) \/ Remove(e) PROVE FlowsInv'
  BY <1>1, <1>3, <1>7 DEF ReloadByHand, Remove, EntriesInv
<1> QED BY <1>2, <1>4, <1>5, <1>6, <1>7 DEF EntryStep

LEMMA FlowsStep == FlowsInv /\ [Next]_vars => FlowsInv'
<1> SUFFICES ASSUME FlowsInv, [Next]_vars PROVE FlowsInv'
  OBVIOUS
<1>1. CASE UNCHANGED vars
  BY <1>1, Parts, PartsAfter
  DEF vars, EntriesInv, DialogsInv, DialogInv, FormInv, PatchInv, EntryComplete, Existing
<1>2. CASE Next
  BY <1>2, DialogStepInv, EntryStepInv DEF Next
<1> QED BY <1>1, <1>2

\* Whatever dialogs overlap, an entry has some backend and the credentials of
\* each that takes any, so async_setup_entry never lacks one.
THEOREM FlowsInvariant == Spec => []FlowsInv
BY FlowsInit, FlowsStep, PTL DEF Spec

\* The end of a dialog creates an entry that is not yet served, or makes the
\* entry's reload due if it changes what a loaded one holds.
LEMMA NextBackendServes ==
  ASSUME FlowsInv, ServedIsSaved, NEW f \in Flows, NEW d, NEW p, NextBackend(f, d, p),
         UNCHANGED <<built, service>>
  PROVE  ServedIsSaved'
<1>1. EntriesInv
  BY Parts
<1>2. CASE UNCHANGED <<state, data, due>>
  BY <1>2 DEF ServedIsSaved
<1>3. CASE Create(f, d)
  <2>1. PICK e \in Entries : /\ state[e] = "none"
                             /\ state' = [state EXCEPT ![e] = "setup"]
                             /\ data' = [data EXCEPT ![e] = d]
    BY <1>3 DEF Create
  <2> QED BY <1>1, <1>3, <2>1 DEF Create, ServedIsSaved, EntriesInv
<1>4. CASE Save(f, d)
  BY <1>1, <1>4 DEF Save, UpdateListenerDue, Listening, Existing, ServedIsSaved, EntriesInv
<1> QED BY <1>2, <1>3, <1>4 DEF NextBackend

LEMMA ServedStep == FlowsInv /\ ServedIsSaved /\ [Next]_vars => ServedIsSaved'
<1> SUFFICES ASSUME FlowsInv, ServedIsSaved, [Next]_vars PROVE ServedIsSaved'
  OBVIOUS
<1>1. EntriesInv /\ NoEntry \notin Entries
  BY Parts, ConfigFlowsAssumption
<1>2. ASSUME UNCHANGED <<state, data, built, due, service>> PROVE ServedIsSaved'
  BY <1>2 DEF ServedIsSaved
<1>3. ASSUME NEW f \in Flows, NEW s, SelectUser(f, s) \/ SelectInit(f, s)
      PROVE ServedIsSaved'
  BY <1>3, NextBackendServes DEF SelectUser, SelectInit
<1>4. ASSUME NEW f \in Flows, NEW b, EnterCreds(f, b) PROVE ServedIsSaved'
  BY <1>4, NextBackendServes DEF EnterCreds
<1>5. ASSUME NEW e \in Entries, Setup(e) PROVE ServedIsSaved'
  BY <1>1, <1>5 DEF Setup, ServedIsSaved, EntriesInv
<1>6. ASSUME NEW e \in Entries, NEW next \in {"reloading", "removing"}, BeginUnload(e, next)
      PROVE ServedIsSaved'
  BY <1>1, <1>6 DEF BeginUnload, ServedIsSaved, EntriesInv
<1>7. ASSUME NEW e \in Entries, Unloaded(e) PROVE ServedIsSaved'
  BY <1>1, <1>7 DEF Unloaded, ServedIsSaved, EntriesInv
<1>8. ASSUME Restart PROVE ServedIsSaved'
  BY <1>1, <1>8 DEF Restart, ServedIsSaved, EntriesInv, Existing
<1>9. ASSUME NEW f \in Flows,
             OpenUser(f) \/ SelectNone(f) \/ AbortUser(f) \/ Dismiss(f)
             \/ \E e \in Entries : OpenInit(f, e)
      PROVE ServedIsSaved'
  BY <1>2, <1>9 DEF OpenUser, SelectNone, AbortUser, Dismiss, OpenInit
<1>10. ASSUME NEW e \in Entries, EntryStep(e) PROVE ServedIsSaved'
  BY <1>5, <1>6, <1>7, <1>10 DEF EntryStep, Reload, ReloadByHand, Remove
<1>11. CASE UNCHANGED vars
  BY <1>2, <1>11 DEF vars
<1>12. ConfigFlows \subseteq Flows /\ OptionsFlows \subseteq Flows
  BY DEF Flows
<1> QED BY <1>3, <1>4, <1>8, <1>9, <1>10, <1>11, <1>12
        DEF Next, UserStep, InitStep, FlowStep

\* The handler in service is of a loaded entry and its chain the one last saved,
\* or a reload is due, however saves, reloads and removals overlap.
THEOREM ServesWhatIsSaved == Spec => []ServedIsSaved
<1>1. Init => ServedIsSaved
  BY DEF Init, ServedIsSaved
<1> QED BY <1>1, ServedStep, FlowsInvariant, PTL DEF Spec
=============================================================================
