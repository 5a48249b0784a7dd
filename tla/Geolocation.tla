----------------------------- MODULE Geolocation -----------------------------
(***************************************************************************)
(* The wifi_geolocation.resolve service: concurrent lookups going through  *)
(* the configured backends in priority order, the pause a backend takes    *)
(* when its service answers 429, and the config entry that is unloaded and *)
(* set up again, for an options change, whatever lookups are under way.    *)
(*                                                                         *)
(* A backend in Limited (WiGLE, WifiDB) asks its service once for each     *)
(* access point and keeps a RateLimitCooldown; any other sends one request *)
(* for all of them.  A lookup is suspended only while a request is out, so *)
(* one action is the answer to a request and all that follows up to the    *)
(* next request, or to the end.                                            *)
(***************************************************************************)
EXTENDS Naturals

CONSTANTS
  Lookups,     \* calls of the service that may be under way together
  Backends,    \* the configured backends, numbered by priority
  Limited,     \* those that ask for each access point and keep a cooldown
  MaxAPs,      \* bound: access points in a call
  Pause,       \* RateLimitCooldown.duration_seconds
  MaxTime,     \* bound: the clock
  MaxReloads   \* bound: times the entry is set up again

ASSUME GeolocationAssumption ==
  /\ Backends \subseteq Nat \ {0}
  /\ Limited \subseteq Backends
  /\ {MaxAPs, Pause, MaxTime, MaxReloads} \subseteq Nat

VARIABLES
  now,      \* time.monotonic()
  loaded,   \* the entry is set up: service registered, session open
  gen,      \* how often it was set up: the backends and session in use
  until,    \* set-up -> backend -> _until of its cooldown (0: never triggered)
  lookup    \* call -> where it stands

vars == <<now, loaded, gen, until, lookup>>

Gens == 0..MaxReloads
Ended == {"idle", "resolved", "unresolved"}

\* pc; the set-up whose backends it goes through; the backend being asked; the
\* access points of the call and those not yet answered for, counting the one
\* whose request is out; whether one was recognised; and how many requests it
\* sent to this backend while the backend's cooldown was active.
LookupStates ==
  [pc : Ended \cup {"asking"}, gen : Gens, at : Backends \cup {0}, aps : 0..MaxAPs,
   left : 0..MaxAPs, found : BOOLEAN, late : 0..MaxAPs]

AtRest(pc) == [pc |-> pc, gen |-> 0, at |-> 0, aps |-> 0, left |-> 0, found |-> FALSE, late |-> 0]

TypeOK ==
  /\ now \in 0..MaxTime
  /\ loaded \in BOOLEAN
  /\ gen \in Gens
  /\ until \in [Gens -> [Limited -> 0..(MaxTime + Pause)]]
  /\ lookup \in [Lookups -> LookupStates]

Init ==
  /\ now = 0
  /\ loaded = TRUE
  /\ gen = 0
  /\ until = [g \in Gens |-> [b \in Limited |-> 0]]
  /\ lookup = [l \in Lookups |-> AtRest("idle")]

------------------------------------------------------------------------------
(* RateLimitCooldown and the aiohttp session.                               *)

Active(g, b) == b \in Limited /\ now < until[g][b]

\* Mutant of Trigger: the pause is added to one that is still running.
TriggerAgain(g, b) ==
  until' = [until EXCEPT ![g][b] = (IF Active(g, b) THEN @ ELSE now) + Pause]

Trigger(g, b) == until' = [until EXCEPT ![g][b] = now + Pause]

\* The session of set-up g can still send requests.
Open(g) == loaded /\ g = gen

\* A lookup with a request out.
Out(g, b, n, left, found, late) ==
  [pc |-> "asking", gen |-> g, at |-> b, aps |-> n, left |-> left, found |-> found, late |-> late]

Asking(l) == lookup[l].pc = "asking" /\ Open(lookup[l].gen)
AskingLimited(l) == Asking(l) /\ lookup[l].at \in Limited

End(l, pc) == lookup' = [lookup EXCEPT ![l] = AtRest(pc)]

------------------------------------------------------------------------------
(* FallbackGeolocationBackend.resolve and the loops of the backends.        *)

\* The number of requests backend b sends for n access points.
RequestsFor(b, n) == IF b \in Limited THEN n ELSE 1

\* Lookup l, with n access points and the backends of set-up g, goes on after
\* the backend b: it asks the next one that is not paused, if there is one.
EnterAfter(l, g, n, b) ==
  LET ready == {c \in Backends : b < c /\ ~Active(g, c)}
  IN \/ \E c \in ready :
          /\ \A d \in ready : c <= d
          /\ lookup' = [lookup EXCEPT ![l] = Out(g, c, n, RequestsFor(c, n), FALSE, 0)]
     \/ ready = {} /\ End(l, "unresolved")

NextBackend(l) == EnterAfter(l, lookup[l].gen, lookup[l].aps, lookup[l].at)

\* Mutant of Call: the loop over the backends does not look at the cooldown of
\* the first one.
CallAnyway(l) ==
  /\ lookup[l].pc \in Ended /\ loaded
  /\ \E n \in 1..MaxAPs, c \in Backends :
       /\ \A d \in Backends : c <= d
       /\ lookup' = [lookup EXCEPT ![l] =
                       Out(gen, c, n, RequestsFor(c, n), FALSE, IF Active(gen, c) THEN 1 ELSE 0)]
  /\ UNCHANGED <<now, loaded, gen, until>>

\* A call of the service, with at least one access point.
Call(l) ==
  /\ lookup[l].pc \in Ended /\ loaded
  /\ \E n \in 1..MaxAPs : EnterAfter(l, gen, n, 0)
  /\ UNCHANGED <<now, loaded, gen, until>>

\* The loop over the access points ends: the centroid of what was recognised,
\* or the next backend.
Finish(l, found) ==
  IF found THEN End(l, "resolved") ELSE NextBackend(l)

\* ... or it goes on with the request for the next access point, whether or
\* not the backend is paused by now.
GoOn(l, found, paused) ==
  LET k == lookup[l]
      late == IF paused THEN k.late + 1 ELSE k.late
  IN \/ k.left = 1 /\ Finish(l, found)
     \/ /\ k.left > 1
        /\ lookup' = [lookup EXCEPT ![l] = Out(k.gen, k.at, k.aps, k.left - 1, found, late)]

Recognised(l) ==
  /\ AskingLimited(l)
  /\ GoOn(l, TRUE, Active(lookup[l].gen, lookup[l].at))
  /\ UNCHANGED <<now, loaded, gen, until>>

\* Mutant of NotRecognised: a request that failed starts the loop over.
NotRecognisedAgain(l) ==
  /\ AskingLimited(l)
  /\ LET k == lookup[l]
     IN lookup' = [lookup EXCEPT ![l] = Out(k.gen, k.at, k.aps, k.aps, k.found, 0)]
  /\ UNCHANGED <<now, loaded, gen, until>>

\* No record, an HTTP error, a connection error or a timeout.
NotRecognised(l) ==
  /\ AskingLimited(l)
  /\ GoOn(l, lookup[l].found, Active(lookup[l].gen, lookup[l].at))
  /\ UNCHANGED <<now, loaded, gen, until>>

\* 429: the rest of the access points is not asked for.
RateLimited(l) ==
  /\ AskingLimited(l)
  /\ Trigger(lookup[l].gen, lookup[l].at)
  /\ Finish(l, lookup[l].found)
  /\ UNCHANGED <<now, loaded, gen>>

\* 429, and the body of the answer, read for the log message, is lost: the
\* exception is caught inside the loop, and the break is never reached.
RateLimitedBodyLost(l) ==
  /\ AskingLimited(l)
  /\ Trigger(lookup[l].gen, lookup[l].at)
  /\ GoOn(l, lookup[l].found, Pause > 0)
  /\ UNCHANGED <<now, loaded, gen>>

\* Google, HERE, Unwired Labs and the Ichnaea services: one answer for all.
Located(l) ==
  /\ Asking(l) /\ lookup[l].at \notin Limited
  /\ End(l, "resolved")
  /\ UNCHANGED <<now, loaded, gen, until>>

\* They answer None, or a backend of either kind raises (a body that is not
\* JSON; a timeout, which only the Limited ones catch): the next one is tried,
\* and what a Limited one had recognised is dropped.
NoneOrRaises(l) ==
  /\ Asking(l)
  /\ NextBackend(l)
  /\ UNCHANGED <<now, loaded, gen, until>>

\* The session was closed under the request.  It fails, and every later one is
\* refused at once; only a lookup that needs no more of them has a position.
SessionGone(l) ==
  /\ lookup[l].pc = "asking" /\ ~Open(lookup[l].gen)
  /\ \/ End(l, "unresolved")
     \/ /\ lookup[l].left = 1 \/ lookup[l].found
        /\ End(l, "resolved")
  /\ UNCHANGED <<now, loaded, gen, until>>

------------------------------------------------------------------------------
(* The config entry, and time.                                              *)

Unload ==
  /\ loaded
  /\ loaded' = FALSE
  /\ UNCHANGED <<now, gen, until, lookup>>

\* A new session and new backends, with cooldowns of their own.
Setup ==
  /\ ~loaded /\ gen < MaxReloads
  /\ loaded' = TRUE /\ gen' = gen + 1
  /\ UNCHANGED <<now, until, lookup>>

Tick ==
  /\ now < MaxTime
  /\ now' = now + 1
  /\ UNCHANGED <<loaded, gen, until, lookup>>

LookupStep(l) ==
  \/ Recognised(l) \/ NotRecognised(l) \/ RateLimited(l) \/ RateLimitedBodyLost(l)
  \/ Located(l) \/ NoneOrRaises(l) \/ SessionGone(l)

Next ==
  \/ \E l \in Lookups : Call(l) \/ LookupStep(l)
  \/ Unload \/ Setup \/ Tick

Spec == Init /\ [][Next]_vars

\* Every request ends: by its answer, an error, or its ten-second timeout.
FairSpec == Spec /\ \A l \in Lookups : WF_vars(LookupStep(l))

------------------------------------------------------------------------------
(* Properties.                                                              *)

\* Lookups, set-ups and cooldowns fit together: a lookup uses the backends of
\* one set-up that exists, only an access point asked one by one can have been
\* recognised before the end, a pause never lasts longer than Pause from now,
\* and a backend nobody set up was never paused.
GeoInv ==
  /\ TypeOK
  /\ \A g \in Gens, b \in Limited : /\ until[g][b] <= now + Pause
                                    /\ g > gen => until[g][b] = 0
  /\ \A l \in Lookups : lookup[l].pc = "asking" =>
       LET k == lookup[l]
       IN /\ k.gen <= gen /\ k.at \in Backends /\ k.aps > 0
          /\ k.left \in 1..RequestsFor(k.at, k.aps)
          /\ k.left + k.late <= RequestsFor(k.at, k.aps)
          /\ k.found => k.at \in Limited

\* wigle.py:26-30: a 429 pauses the backend.  Lookups that were asking it go
\* on (the cooldown is read once, at the top of resolve), and so does the one
\* that got the 429 when its body is lost, but each sends at most its remaining
\* requests, and never its first: no lookup begins with a paused backend,
\* whichever backend it comes from.
OverrunBounded ==
  \A l \in Lookups : lookup[l].pc = "asking" => lookup[l].late < RequestsFor(lookup[l].at, lookup[l].aps)

\* README.md:93-95: no answer holds a lookup up.  Each ends it, or leaves it with
\* a later backend, or with fewer requests to the same one, whatever the others
\* and the entry do meanwhile; it keeps its access points and the backends it
\* began with.
Advances(l) ==
  LET k == lookup[l]
      next == lookup'[l]
  IN \/ next.pc \in {"resolved", "unresolved"}
     \/ /\ next.pc = "asking" /\ next.gen = k.gen /\ next.aps = k.aps
        /\ next.at > k.at \/ (next.at = k.at /\ next.left < k.left)

MovesAdvance ==
  \A l \in Lookups : lookup[l].pc = "asking" /\ lookup'[l] # lookup[l] => Advances(l)

LookupAdvances == [][MovesAdvance]_vars

\* README.md:93-95: a slow or failed lookup never blocks delivery.  Every call
\* of the service ends, whatever the services answer, and when the session is
\* closed under it.
LookupEnds == \A l \in Lookups : lookup[l].pc = "asking" ~> lookup[l].pc \in Ended
==============================================================================
