----------------------------- MODULE EyeFiEntry -----------------------------
(***************************************************************************)
(* custom_components.eyefi: the config entries, the cards their flows save *)
(* in them, set-up and unload, and the backfill service, which goes        *)
(* through all entries while they come and go.                             *)
(*                                                                         *)
(* A set-up listens on the entry's port, files the running server in       *)
(* hass.data[DOMAIN] and then waits for the camera platform.  When that    *)
(* raises, Home Assistant marks the entry and never calls the unload: the  *)
(* server goes on.  The service iterates over hass.data[DOMAIN] and awaits *)
(* in the loop, so the iteration has the semantics of CPython's dict:      *)
(* deleted items leave a gap, new ones go to the end, the table is rebuilt *)
(* without gaps when its room is used up, and an iterator raises when the  *)
(* number of items changed or when it has met all and finds one more.      *)
(***************************************************************************)
EXTENDS FiniteSets, Functions, Naturals, SequencesExt

CONSTANTS
  Entries,      \* identifiers of config entries
  Ports,        \* ports an entry may listen on
  Macs, Keys,   \* cards, in the form _normalize_mac and _normalize_upload_key give
  Calls,        \* calls of the backfill service that may be under way together
  None,         \* no entry
  RoomFor,      \* number of items -> items, gaps included, that a dict takes which
                \* is built with them, before it is rebuilt
  MaxCards      \* bound: cards saved in one entry

ASSUME EyeFiEntryAssumption ==
  /\ None \notin Entries
  /\ IsFiniteSet(Entries) /\ MaxCards \in Nat \ {0}
  /\ RoomFor \in [0..Cardinality(Entries) -> Nat]
  /\ \A n \in DOMAIN RoomFor : RoomFor[n] > n

VARIABLES
  state,     \* entry -> where Home Assistant has it
  port,      \* entry -> the port the user gives for it
  saved,     \* entry -> the cards in its data, in the order they were added
  read,      \* entry -> the cards its set-up has read, which is starting the server
  built,     \* entry -> upload keys of the cards its filed server was set up with
  known,     \* entry -> how many cards its data had when that set-up began (history)
  listener,  \* port -> the entry whose server listens there, or None
  place,     \* entry -> its place in the table of hass.data[DOMAIN], 0 if not there
  filled,    \* places of the table taken, by items and gaps
  room,      \* places it has
  service,   \* eyefi.backfill_geotags is registered
  call,      \* call -> its iteration over the entries
  throughout,\* call -> entries in the table ever since it began (history)
  rebuilt    \* call -> the table was rebuilt since (history)

table == <<place, filled, room>>
calls == <<call, throughout, rebuilt>>
vars == <<state, port, saved, read, built, known, listener, table, service, calls>>

States == {"none", "not_loaded", "starting", "forwarding", "loaded", "setup_error",
           "unloading", "stopping", "failed_unload"}

Card == Macs \X Keys
Dicts == UNION {[ms -> Keys] : ms \in SUBSET Macs}

\* The iterator's number of items at the start and its place in the table; the
\* entries visited, by whose number its count of items left has gone down.
At(pc, used, pos, visited) == [pc |-> pc, used |-> used, pos |-> pos, visited |-> visited]

CallStates ==
  [pc : {"idle", "visiting", "returned", "raised"}, used : Nat, pos : Nat, visited : Seq(Entries)]

Idle == At("idle", 0, 0, << >>)

NoCards == [m \in {} |-> None]

Init ==
  /\ state = [e \in Entries |-> "none"]
  /\ port \in [Entries -> Ports]
  /\ saved = [e \in Entries |-> << >>]
  /\ read = [e \in Entries |-> << >>]
  /\ built = [e \in Entries |-> NoCards]
  /\ known = [e \in Entries |-> 0]
  /\ listener = [t \in Ports |-> None]
  /\ place = [e \in Entries |-> 0] /\ filled = 0 /\ room = RoomFor[0]
  /\ service = FALSE
  /\ call = [c \in Calls |-> Idle]
  /\ throughout = [c \in Calls |-> {}] /\ rebuilt = [c \in Calls |-> FALSE]

Goes(e, s) == state' = [state EXCEPT ![e] = s]

------------------------------------------------------------------------------
(* hass.data[DOMAIN].                                                       *)

Filed == {e \in Entries : place[e] > 0}

Visiting(c) == call[c].pc = "visiting"

\* The place of an entry once the gaps are gone.
Rank(e) == Cardinality({f \in Filed : place[f] <= place[e]})

\* hass.data[DOMAIN][entry_id] = ..., of an entry that is not there.
File(e) ==
  \/ /\ filled < room
     /\ place' = [place EXCEPT ![e] = filled + 1]
     /\ filled' = filled + 1
     /\ UNCHANGED <<room, rebuilt>>
  \/ /\ filled = room
     /\ place' = [f \in Entries |-> IF f = e THEN Cardinality(Filed) + 1 ELSE Rank(f)]
     /\ filled' = Cardinality(Filed) + 1
     /\ room' = RoomFor[Cardinality(Filed)]
     /\ rebuilt' = [c \in Calls |-> rebuilt[c] \/ Visiting(c)]

Pop(e) ==
  /\ place' = [place EXCEPT ![e] = 0]
  /\ throughout' = [c \in Calls |-> throughout[c] \ {e}]
  /\ UNCHANGED <<filled, room>>

------------------------------------------------------------------------------
(* The flows.                                                               *)

\* The user step and the destination step; nothing else sees _data between them.
CreateEntry(e, card) ==
  /\ state[e] = "none" /\ e \notin Filed
  /\ Goes(e, "not_loaded")
  /\ saved' = [saved EXCEPT ![e] = <<card>>]
  /\ UNCHANGED <<port, read, built, known, listener, table, service, calls>>

\* The options flow appends to what the entry has when the form is submitted.
AddCard(e, card) ==
  /\ state[e] # "none" /\ Len(saved[e]) < MaxCards
  /\ saved' = [saved EXCEPT ![e] = Append(@, card)]
  /\ UNCHANGED <<state, port, read, built, known, listener, table, service, calls>>

------------------------------------------------------------------------------
(* async_setup_entry.                                                       *)

\* Mutant of KeyOf: the first card with the mac counts.
KeyOfFirst(cards, m) ==
  cards[CHOOSE i \in DOMAIN cards : cards[i][1] = m /\ \A j \in 1..(i - 1) : cards[j][1] # m][2]

\* The dict comprehension: of two cards with one mac the last counts.
KeyOf(cards, m) ==
  cards[CHOOSE i \in DOMAIN cards :
          cards[i][1] = m /\ \A j \in (i + 1)..Len(cards) : cards[j][1] # m][2]

CardsOf(cards) == [m \in {cards[i][1] : i \in DOMAIN cards} |-> KeyOf(cards, m)]

\* Home Assistant sets up what is not loaded, again after an error.  The cards are
\* read before server.start() is awaited.  What an earlier set-up has left running
\* is not stopped first.
BeginSetup(e) ==
  /\ state[e] \in {"not_loaded", "setup_error"}
  /\ Goes(e, "starting")
  /\ read' = [read EXCEPT ![e] = saved[e]]
  /\ UNCHANGED <<port, saved, built, known, listener, table, service, calls>>

\* server.start() finds the port taken.
StartFails(e) ==
  /\ state[e] = "starting" /\ listener[port[e]] # None
  /\ Goes(e, "setup_error")
  /\ read' = [read EXCEPT ![e] = << >>]
  /\ UNCHANGED <<port, saved, built, known, listener, table, service, calls>>

\* From the await of server.start() to that of the platforms.
Started(e) ==
  /\ state[e] = "starting" /\ listener[port[e]] = None
  /\ Goes(e, "forwarding")
  /\ built' = [built EXCEPT ![e] = CardsOf(read[e])]
  /\ known' = [known EXCEPT ![e] = Len(read[e])]
  /\ read' = [read EXCEPT ![e] = << >>]
  /\ listener' = [listener EXCEPT ![port[e]] = e]
  /\ File(e)
  /\ service' = TRUE
  /\ UNCHANGED <<port, saved, call, throughout>>

Forwarded(e) ==
  /\ state[e] = "forwarding"
  /\ Goes(e, "loaded")
  /\ UNCHANGED <<port, saved, read, built, known, listener, table, service, calls>>

ForwardRaises(e) ==
  /\ state[e] = "forwarding"
  /\ Goes(e, "setup_error")
  /\ UNCHANGED <<port, saved, read, built, known, listener, table, service, calls>>

------------------------------------------------------------------------------
(* async_unload_entry.                                                      *)

BeginUnload(e) ==
  /\ state[e] = "loaded"
  /\ Goes(e, "unloading")
  /\ UNCHANGED <<port, saved, read, built, known, listener, table, service, calls>>

\* The platforms refuse.
UnloadRefused(e) ==
  /\ state[e] = "unloading"
  /\ Goes(e, "failed_unload")
  /\ UNCHANGED <<port, saved, read, built, known, listener, table, service, calls>>

\* Up to where stop() awaits the handlers; the port is closed by then.
Popped(e) ==
  /\ state[e] = "unloading"
  /\ Goes(e, "stopping")
  /\ Pop(e)
  /\ listener' = [listener EXCEPT ![port[e]] = None]
  /\ built' = [built EXCEPT ![e] = NoCards]
  /\ known' = [known EXCEPT ![e] = 0]
  /\ UNCHANGED <<port, saved, read, service, call, rebuilt>>

\* Mutant of Stopped: the service goes with every entry.
StoppedWithService(e) ==
  /\ state[e] = "stopping"
  /\ Goes(e, "not_loaded")
  /\ service' = FALSE
  /\ UNCHANGED <<port, saved, read, built, known, listener, table, calls>>

\* stop() is over; the service goes with the last entry there is by now.
Stopped(e) ==
  /\ state[e] = "stopping"
  /\ Goes(e, "not_loaded")
  /\ service' = (service /\ Filed # {})
  /\ UNCHANGED <<port, saved, read, built, known, listener, table, calls>>

\* An entry whose set-up or unload failed is removed as it stands.
RemoveEntry(e) ==
  /\ state[e] \in {"not_loaded", "setup_error", "failed_unload"}
  /\ Goes(e, "none")
  /\ saved' = [saved EXCEPT ![e] = << >>]
  /\ UNCHANGED <<port, read, built, known, listener, table, service, calls>>

------------------------------------------------------------------------------
(* The backfill service.                                                    *)

Moves(c, k) == call' = [call EXCEPT ![c] = k]

Returns(c, visited) == Moves(c, At("returned", 0, 0, visited))

\* Mutant of Raises: the exception is caught, what there is so far is returned.
RaisesCaught(c, visited) == Returns(c, visited)

\* RuntimeError, and the counts of the entries visited are gone.
Raises(c, visited) == Moves(c, At("raised", 0, 0, << >>))

\* next() of the iterator.
NextEntry(c, used, pos, visited) ==
  LET ahead == {e \in Entries : place[e] > pos}
      sameSize == used = Cardinality(Filed)
  IN \/ ~sameSize /\ Raises(c, visited)
     \/ sameSize /\ ahead = {} /\ Returns(c, visited)
     \/ sameSize /\ ahead # {} /\ Len(visited) = used /\ Raises(c, visited)
     \/ /\ sameSize /\ Len(visited) < used
        /\ \E e \in ahead :
             /\ \A f \in ahead : place[e] <= place[f]
             /\ Moves(c, At("visiting", used, place[e], Append(visited, e)))

BeginCall(c) ==
  /\ ~Visiting(c) /\ service
  /\ NextEntry(c, Cardinality(Filed), 0, << >>)
  /\ throughout' = [throughout EXCEPT ![c] = Filed]
  /\ rebuilt' = [rebuilt EXCEPT ![c] = FALSE]
  /\ UNCHANGED <<state, port, saved, read, built, known, listener, table, service>>

\* backfill_geotags of the entry is over.
EntryDone(c) ==
  /\ Visiting(c)
  /\ NextEntry(c, call[c].used, call[c].pos, call[c].visited)
  /\ UNCHANGED <<state, port, saved, read, built, known, listener, table, service, throughout,
                 rebuilt>>

------------------------------------------------------------------------------
\* Home Assistant restarts: what is saved stays.
Restart ==
  /\ state' = [e \in Entries |-> IF state[e] = "none" THEN "none" ELSE "not_loaded"]
  /\ read' = [e \in Entries |-> << >>]
  /\ built' = [e \in Entries |-> NoCards]
  /\ known' = [e \in Entries |-> 0]
  /\ listener' = [t \in Ports |-> None]
  /\ place' = [e \in Entries |-> 0] /\ filled' = 0 /\ room' = RoomFor[0]
  /\ service' = FALSE
  /\ call' = [c \in Calls |-> Idle]
  /\ throughout' = [c \in Calls |-> {}] /\ rebuilt' = [c \in Calls |-> FALSE]
  /\ UNCHANGED <<port, saved>>

FlowStep ==
  \/ \E e \in Entries, card \in Card : CreateEntry(e, card)
  \/ \E e \in Entries, card \in Card : AddCard(e, card)

EntryStep(e) ==
  \/ BeginSetup(e) \/ StartFails(e) \/ Started(e) \/ Forwarded(e) \/ ForwardRaises(e)
  \/ BeginUnload(e) \/ UnloadRefused(e) \/ Popped(e) \/ Stopped(e) \/ RemoveEntry(e)

CallStep(c) == BeginCall(c) \/ EntryDone(c)

Next ==
  \/ FlowStep \/ Restart
  \/ \E e \in Entries : EntryStep(e)
  \/ \E c \in Calls : CallStep(c)

Spec == Init /\ [][Next]_vars

------------------------------------------------------------------------------
(* Properties.                                                              *)

TypeOK ==
  /\ state \in [Entries -> States] /\ port \in [Entries -> Ports]
  /\ saved \in [Entries -> Seq(Card)] /\ \A e \in Entries : Len(saved[e]) <= MaxCards
  /\ read \in [Entries -> Seq(Card)] /\ \A e \in Entries : Len(read[e]) <= MaxCards
  /\ built \in [Entries -> Dicts]
  /\ known \in [Entries -> 0..MaxCards]
  /\ listener \in [Ports -> Entries \cup {None}]
  /\ place \in [Entries -> Nat] /\ filled \in Nat /\ room \in Nat
  /\ service \in BOOLEAN
  /\ call \in [Calls -> CallStates]
  /\ throughout \in [Calls -> SUBSET Entries] /\ rebuilt \in [Calls -> BOOLEAN]

\* The table: items have places of their own, within what is taken.
PlacesDiffer ==
  /\ filled <= room /\ \A e \in Entries : place[e] <= filled
  /\ \A e, f \in Filed : place[e] = place[f] => e = f

ServersFiled ==
  /\ \A e \in Entries :
       /\ e \in Filed <=> listener[port[e]] = e
       /\ state[e] \in {"forwarding", "loaded", "unloading", "failed_unload"} => e \in Filed
       /\ state[e] \in {"not_loaded", "stopping"} => e \notin Filed
  /\ \A t \in Ports : listener[t] # None => port[listener[t]] = t

ServiceThere ==
  /\ Filed # {} => service
  /\ service => Filed # {} \/ \E e \in Entries : state[e] = "stopping"

\* Set-ups, listeners, hass.data and the service fit together: a server listens
\* exactly while it is filed, once, where an unload can find it, even if its
\* set-up failed half-way; the backfill service is there while some entry is
\* filed, whatever set-ups and unloads overlap, and goes with the last one.
EntryInv == TypeOK /\ PlacesDiffer /\ ServersFiled /\ ServiceThere

\* __init__.py:100 with config_flow.py:207-210: a running server knows the first
\* cards of its entry, all there were when its set-up began, each with the key that
\* was saved last for its mac; a card added since then, also while server.start()
\* was awaited, waits for a reload.
ServedWasSaved ==
  \A e \in Filed : state[e] # "none" =>
    LET n == known[e]
    IN /\ n \in DOMAIN saved[e]
       /\ DOMAIN built[e] = {saved[e][i][1] : i \in 1..n}
       /\ \A i \in 1..n :
            \/ \E j \in (i + 1)..n : saved[e][j][1] = saved[e][i][1]
            \/ built[e][saved[e][i][1]] = saved[e][i][2]

Once(s) == \A i, j \in DOMAIN s : s[i] = s[j] => i = j

\* services.yaml:3-6, as far as the dictionary was not rebuilt meanwhile: a call
\* of the backfill service that returns has gone through every entry that was
\* there throughout, and through none twice, whatever entries were reloaded,
\* added and unloaded while it was waiting.
VisitsEach ==
  \A c \in Calls :
    call[c].pc = "returned" /\ ~rebuilt[c] =>
      throughout[c] \subseteq Range(call[c].visited) /\ Once(call[c].visited)
=============================================================================
