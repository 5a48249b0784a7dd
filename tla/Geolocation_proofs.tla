------------------------- MODULE Geolocation_proofs -------------------------
(***************************************************************************)
(* For any number of lookups, backends, access points and reloads: lookups *)
(* and cooldowns stay consistent, and a rate limit is overrun only by the  *)
(* requests that lookups under way still had to send.                      *)
(***************************************************************************)
EXTENDS Geolocation, TLAPS

\* GeoInv in two halves: the entry with its cooldowns, ...
EntryInv ==
  /\ now \in 0..MaxTime /\ loaded \in BOOLEAN /\ gen \in Gens
  /\ until \in [Gens -> [Limited -> 0..(MaxTime + Pause)]]
  /\ \A g \in Gens, b \in Limited : /\ until[g][b] <= now + Pause
                                    /\ g > gen => until[g][b] = 0

\* ... and the lookups.
LookupInv(k) ==
  /\ k \in LookupStates
  /\ k.pc = "asking" =>
       /\ k.gen <= gen /\ k.at \in Backends /\ k.aps > 0
       /\ k.left \in 1..RequestsFor(k.at, k.aps)
       /\ k.left + k.late <= RequestsFor(k.at, k.aps)
       /\ k.found => k.at \in Limited

LookupsInv ==
  /\ lookup \in [Lookups -> LookupStates]
  /\ \A l \in Lookups : LookupInv(lookup[l])

LEMMA Halves == GeoInv <=> EntryInv /\ LookupsInv
BY DEF GeoInv, TypeOK, EntryInv, LookupsInv, LookupInv

LEMMA HalvesAfter == EntryInv' /\ LookupsInv' => GeoInv'
BY DEF GeoInv, TypeOK, EntryInv, LookupsInv, LookupInv

\* A step that moves one lookup to a consistent place keeps the lookups ...
LEMMA LookupMoves ==
  ASSUME LookupsInv, NEW l \in Lookups, NEW k, LookupInv(k),
         lookup' = [lookup EXCEPT ![l] = k], gen' = gen
  PROVE  LookupsInv'
<1>1. k \in LookupStates
  BY DEF LookupInv
<1>2. lookup' \in [Lookups -> LookupStates]
  BY <1>1 DEF LookupsInv
<1>3. ASSUME NEW m \in Lookups PROVE LookupInv(lookup[m])'
  BY <1>3 DEF LookupsInv, LookupInv, RequestsFor
<1> QED BY <1>2, <1>3 DEF LookupsInv

\* ... such as the end of a lookup ...
LEMMA EndKeeps ==
  ASSUME LookupsInv, NEW l \in Lookups, NEW pc \in Ended, End(l, pc), gen' = gen
  PROVE  LookupsInv'
<1>1. MaxAPs \in Nat /\ MaxReloads \in Nat
  BY GeolocationAssumption
<1>2. AtRest(pc) \in LookupStates
  BY <1>1 DEF LookupStates, Gens, AtRest
<1>3. LookupInv(AtRest(pc))
  BY <1>2 DEF LookupInv, Ended, AtRest
<1> QED BY <1>3, LookupMoves DEF End

\* ... and its first request to another backend, ...
LEMMA EnterKeeps ==
  ASSUME LookupsInv, NEW l \in Lookups, NEW g \in Gens, g <= gen, NEW n \in 1..MaxAPs, NEW b,
         EnterAfter(l, g, n, b), gen' = gen
  PROVE  LookupsInv'
<1>1. CASE End(l, "unresolved")
  BY <1>1, EndKeeps DEF Ended
<1>2. ASSUME NEW c \in Backends,
             lookup' = [lookup EXCEPT ![l] = Out(g, c, n, RequestsFor(c, n), FALSE, 0)]
      PROVE  LookupsInv'
  <2> DEFINE k == Out(g, c, n, RequestsFor(c, n), FALSE, 0)
  <2>1. MaxAPs \in Nat /\ RequestsFor(c, n) \in 1..MaxAPs
    BY GeolocationAssumption DEF RequestsFor
  <2>2. k \in LookupStates
    BY <2>1 DEF LookupStates, Out
  <2>3. LookupInv(k)
    BY <2>1, <2>2 DEF LookupInv, Out
  <2> QED BY <1>2, <2>3, LookupMoves
<1> QED BY <1>1, <1>2 DEF EnterAfter

\* ... what is known of a lookup under way being enough for the latter, ...
LEMMA UnderWay ==
  ASSUME LookupsInv, NEW l \in Lookups, lookup[l].pc = "asking"
  PROVE  /\ lookup[l] \in LookupStates /\ LookupInv(lookup[l])
         /\ lookup[l].gen \in Gens /\ lookup[l].gen <= gen
         /\ lookup[l].aps \in 1..MaxAPs
<1>1. lookup[l] \in LookupStates /\ LookupInv(lookup[l])
  BY DEF LookupsInv
<1>2. lookup[l].gen \in Gens /\ lookup[l].aps \in 0..MaxAPs /\ MaxAPs \in Nat
  BY <1>1, GeolocationAssumption DEF LookupStates
<1> QED BY <1>1, <1>2 DEF LookupInv

\* ... the end of the loop over the access points ...
LEMMA FinishKeeps ==
  ASSUME LookupsInv, NEW l \in Lookups, lookup[l].pc = "asking",
         NEW found \in BOOLEAN, Finish(l, found), gen' = gen
  PROVE  LookupsInv'
<1>1. CASE found
  BY <1>1, EndKeeps DEF Finish, Ended
<1>2. CASE ~found
  BY <1>2, UnderWay, EnterKeeps DEF Finish, NextBackend
<1> QED BY <1>1, <1>2

\* ... and its next request: one fewer is left to send, one more may be late.
LEMMA GoOnKeeps ==
  ASSUME LookupsInv, NEW l \in Lookups, lookup[l].pc = "asking", lookup[l].at \in Limited,
         NEW found \in BOOLEAN, NEW paused \in BOOLEAN, GoOn(l, found, paused), gen' = gen
  PROVE  LookupsInv'
<1>1. CASE Finish(l, found)
  BY <1>1, FinishKeeps
<1> DEFINE old == lookup[l]
           late == IF paused THEN old.late + 1 ELSE old.late
           k == Out(old.gen, old.at, old.aps, old.left - 1, found, late)
<1>2. CASE old.left > 1 /\ lookup' = [lookup EXCEPT ![l] = k]
  <2>1. LookupInv(old) /\ old \in LookupStates
    BY UnderWay
  <2>2. /\ old.at \in Backends /\ old.aps \in 1..MaxAPs /\ old.gen \in Gens /\ old.gen <= gen
        /\ old.left \in 2..old.aps /\ old.late \in Nat /\ old.left + old.late <= old.aps
        /\ MaxAPs \in Nat
    BY <1>2, <2>1, UnderWay, GeolocationAssumption DEF LookupInv, LookupStates, RequestsFor
  <2>3. /\ old.left - 1 \in 1..old.aps /\ late \in 0..MaxAPs
        /\ old.left - 1 + late <= old.aps
    BY <2>2
  <2> HIDE DEF old, late
  <2>4. k \in LookupStates
    BY <2>2, <2>3 DEF LookupStates, Out
  <2>5. LookupInv(k)
    BY <2>2, <2>3, <2>4 DEF LookupInv, Out, RequestsFor, old
  <2> QED BY <1>2, <2>5, LookupMoves
<1> QED BY <1>1, <1>2 DEF GoOn

LEMMA InitInv == Init => GeoInv
<1> SUFFICES ASSUME Init PROVE EntryInv /\ LookupsInv
  BY Halves
<1>1. MaxAPs \in Nat /\ Pause \in Nat /\ MaxTime \in Nat /\ MaxReloads \in Nat
  BY GeolocationAssumption
<1>2. EntryInv
  BY <1>1 DEF Init, EntryInv, Gens
<1>3. AtRest("idle") \in LookupStates
  BY <1>1 DEF LookupStates, Gens, AtRest, Ended
<1>4. LookupsInv
  BY <1>3 DEF Init, LookupsInv, LookupInv, AtRest
<1> QED BY <1>2, <1>4

\* A 429 answered to a lookup: its backend is paused from now.
LEMMA TriggerKeeps ==
  ASSUME EntryInv, NEW g \in Gens, g <= gen, NEW b \in Limited, Trigger(g, b),
         UNCHANGED <<now, loaded, gen>>
  PROVE  EntryInv'
<1>1. Pause \in Nat /\ MaxTime \in Nat /\ MaxReloads \in Nat
  BY GeolocationAssumption
<1>2. now + Pause \in 0..(MaxTime + Pause)
  BY <1>1 DEF EntryInv
<1>3. until' \in [Gens -> [Limited -> 0..(MaxTime + Pause)]]
  BY <1>2 DEF EntryInv, Trigger
<1>4. ASSUME NEW h \in Gens, NEW c \in Limited
      PROVE  until'[h][c] = IF h = g /\ c = b THEN now + Pause ELSE until[h][c]
  BY DEF EntryInv, Trigger
<1>5. gen \in Nat /\ g \in Nat
  BY <1>1 DEF EntryInv, Gens
<1>6. ASSUME NEW h \in Gens, NEW c \in Limited
      PROVE  until'[h][c] <= now' + Pause /\ (h > gen' => until'[h][c] = 0)
  BY <1>1, <1>2, <1>4, <1>5 DEF EntryInv
<1> QED BY <1>3, <1>6 DEF EntryInv

LEMMA LookupStepInv ==
  ASSUME GeoInv, NEW l \in Lookups, Call(l) \/ LookupStep(l)
  PROVE  GeoInv'
<1>0. EntryInv /\ LookupsInv
  BY Halves
<1>1. ASSUME UNCHANGED <<now, loaded, gen, until>> PROVE EntryInv'
  BY <1>0, <1>1 DEF EntryInv
<1>2. CASE Call(l)
  <2>1. gen \in Gens /\ gen <= gen
    BY <1>0, GeolocationAssumption DEF EntryInv, Gens
  <2> QED BY <1>0, <1>1, <1>2, <2>1, EnterKeeps, HalvesAfter DEF Call
<1> DEFINE paused == Active(lookup[l].gen, lookup[l].at)
<1>2a. lookup[l].found \in BOOLEAN
  BY <1>0 DEF LookupsInv, LookupStates
<1>2b. paused \in BOOLEAN
  BY DEF Active
<1> HIDE DEF paused
<1>3. CASE Recognised(l)
  <2>1. lookup[l].pc = "asking" /\ lookup[l].at \in Limited /\ GoOn(l, TRUE, paused)
    BY <1>3 DEF Recognised, AskingLimited, Asking, paused
  <2> QED BY <1>0, <1>1, <1>3, <1>2b, <2>1, GoOnKeeps, HalvesAfter DEF Recognised
<1>4. CASE NotRecognised(l)
  <2>1. lookup[l].pc = "asking" /\ lookup[l].at \in Limited /\ GoOn(l, lookup[l].found, paused)
    BY <1>4 DEF NotRecognised, AskingLimited, Asking, paused
  <2> QED BY <1>0, <1>1, <1>4, <1>2a, <1>2b, <2>1, GoOnKeeps, HalvesAfter DEF NotRecognised
<1>5. CASE RateLimited(l)
  <2>1. lookup[l].pc = "asking" /\ lookup[l].at \in Limited
    BY <1>5 DEF RateLimited, AskingLimited, Asking
  <2>3. LookupsInv'
    BY <1>0, <1>5, <1>2a, <2>1, FinishKeeps DEF RateLimited
  <2>4. EntryInv'
    BY <1>0, <1>5, <2>1, UnderWay, TriggerKeeps DEF RateLimited
  <2> QED BY <2>3, <2>4, HalvesAfter
<1>5a. CASE RateLimitedBodyLost(l)
  <2>1. lookup[l].pc = "asking" /\ lookup[l].at \in Limited
    BY <1>5a DEF RateLimitedBodyLost, AskingLimited, Asking
  <2>2. (Pause > 0) \in BOOLEAN
    OBVIOUS
  <2>3. LookupsInv'
    BY <1>0, <1>5a, <1>2a, <2>1, <2>2, GoOnKeeps DEF RateLimitedBodyLost
  <2>4. EntryInv'
    BY <1>0, <1>5a, <2>1, UnderWay, TriggerKeeps DEF RateLimitedBodyLost
  <2> QED BY <2>3, <2>4, HalvesAfter
<1>6. CASE Located(l)
  BY <1>0, <1>1, <1>6, EndKeeps, HalvesAfter DEF Located, Ended
<1>7. CASE NoneOrRaises(l)
  BY <1>0, <1>1, <1>7, UnderWay, EnterKeeps, HalvesAfter DEF NoneOrRaises, NextBackend, Asking
<1>8. CASE SessionGone(l)
  BY <1>0, <1>1, <1>8, EndKeeps, HalvesAfter DEF SessionGone, Ended
<1> QED BY <1>2, <1>3, <1>4, <1>5, <1>5a, <1>6, <1>7, <1>8 DEF LookupStep

LEMMA EntryStepInv == ASSUME GeoInv, Unload \/ Setup \/ Tick PROVE GeoInv'
<1>0. EntryInv /\ LookupsInv
  BY Halves
<1>1. Pause \in Nat /\ MaxTime \in Nat /\ MaxReloads \in Nat
  BY GeolocationAssumption
<1>2. now \in Nat /\ gen \in Nat /\ \A g \in Gens, b \in Limited : until[g][b] \in Nat
  BY <1>0, <1>1 DEF EntryInv, Gens
<1>3. CASE Unload
  BY <1>0, <1>3, HalvesAfter DEF Unload, EntryInv, LookupsInv, LookupInv, RequestsFor
<1>4. CASE Setup
  <2>1. EntryInv'
    BY <1>0, <1>1, <1>2, <1>4 DEF Setup, EntryInv, Gens
  <2>2. ASSUME NEW l \in Lookups PROVE LookupInv(lookup[l])'
    <3>1. LookupInv(lookup[l]) /\ lookup[l].gen \in Nat
      BY <1>0, <1>1 DEF LookupsInv, LookupStates, Gens
    <3> QED BY <1>2, <1>4, <3>1 DEF Setup, LookupInv, RequestsFor
  <2> QED BY <1>0, <1>4, <2>1, <2>2, HalvesAfter DEF Setup, LookupsInv
<1>5. CASE Tick
  <2>1. EntryInv'
    BY <1>0, <1>1, <1>2, <1>5 DEF Tick, EntryInv
  <2>2. LookupsInv'
    BY <1>0, <1>5 DEF Tick, LookupsInv, LookupInv, RequestsFor
  <2> QED BY <2>1, <2>2, HalvesAfter
<1> QED BY <1>3, <1>4, <1>5

LEMMA StutterInv == ASSUME GeoInv, UNCHANGED vars PROVE GeoInv'
BY DEF GeoInv, TypeOK, vars, RequestsFor

\* GeoInv is inductive: lookups, set-ups and cooldowns (fallback.py,
\* cooldown.py, wigle.py, wifidb.py) stay consistent for ever.
THEOREM GeoInvariant == Spec => []GeoInv
<1>1. GeoInv /\ [Next]_vars => GeoInv'
  BY LookupStepInv, EntryStepInv, StutterInv DEF Next
<1> QED BY <1>1, InitInv, PTL DEF Spec

\* wigle.py:39, wifidb.py:48: a paused backend is sent fewer requests by a lookup
\* than it has access points, and those only by a lookup that asked it before.
THEOREM OverrunIsBounded == Spec => []OverrunBounded
<1>1. GeoInv => OverrunBounded
  <2> SUFFICES ASSUME GeoInv, NEW l \in Lookups, lookup[l].pc = "asking"
               PROVE  lookup[l].late < RequestsFor(lookup[l].at, lookup[l].aps)
    BY DEF OverrunBounded
  <2>1. /\ lookup[l].left > 0 /\ lookup[l].left \in Nat /\ lookup[l].late \in Nat
        /\ lookup[l].aps \in Nat
        /\ lookup[l].left + lookup[l].late <= RequestsFor(lookup[l].at, lookup[l].aps)
    BY GeolocationAssumption DEF GeoInv, TypeOK, LookupStates, RequestsFor
  <2> QED BY <2>1 DEF RequestsFor
<1> QED BY <1>1, GeoInvariant, PTL

------------------------------------------------------------------------------
(* No answer holds a lookup up.                                             *)

LEMMA EndAdvances ==
  ASSUME LookupsInv, NEW l \in Lookups, NEW pc \in {"resolved", "unresolved"}, End(l, pc)
  PROVE  Advances(l)
<1>1. lookup'[l] = AtRest(pc)
  BY DEF End, LookupsInv
<1> QED BY <1>1 DEF Advances, AtRest

\* The next backend is a later one.
LEMMA NextBackendAdvances ==
  ASSUME LookupsInv, NEW l \in Lookups, NextBackend(l)
  PROVE  Advances(l)
<1> DEFINE k == lookup[l]
<1>1. CASE End(l, "unresolved")
  BY <1>1, EndAdvances
<1>2. ASSUME NEW c \in Backends, k.at < c,
             lookup' = [lookup EXCEPT ![l] = Out(k.gen, c, k.aps, RequestsFor(c, k.aps), FALSE, 0)]
      PROVE  Advances(l)
  <2>1. lookup'[l] = Out(k.gen, c, k.aps, RequestsFor(c, k.aps), FALSE, 0)
    BY <1>2 DEF LookupsInv
  <2> HIDE DEF k
  <2>2. /\ lookup'[l].pc = "asking" /\ lookup'[l].gen = k.gen /\ lookup'[l].aps = k.aps
        /\ lookup'[l].at = c
    BY <2>1 DEF Out
  <2>3. k.at \in Backends \cup {0} /\ k.at < c
    BY <1>2 DEF LookupsInv, LookupStates, k
  <2>4. k.at \in Nat /\ c \in Nat /\ c > k.at
    <3>1. \A b \in Backends : b \in Nat
      BY GeolocationAssumption
    <3> QED BY <2>3, <3>1
  <2> QED BY <2>2, <2>4 DEF Advances, k
<1> QED BY <1>1, <1>2 DEF NextBackend, EnterAfter

LEMMA FinishAdvances ==
  ASSUME LookupsInv, NEW l \in Lookups, NEW found \in BOOLEAN, Finish(l, found)
  PROVE  Advances(l)
BY EndAdvances, NextBackendAdvances DEF Finish

LEMMA GoOnAdvances ==
  ASSUME LookupsInv, NEW l \in Lookups, NEW found \in BOOLEAN, NEW paused, GoOn(l, found, paused)
  PROVE  Advances(l)
<1> DEFINE k == lookup[l]
<1>1. CASE Finish(l, found)
  BY <1>1, FinishAdvances
<1>2. ASSUME NEW late, lookup' = [lookup EXCEPT ![l] =
                                    Out(k.gen, k.at, k.aps, k.left - 1, found, late)]
      PROVE  Advances(l)
  <2>1. lookup'[l] = Out(k.gen, k.at, k.aps, k.left - 1, found, late)
    BY <1>2 DEF LookupsInv
  <2> HIDE DEF k
  <2>2. /\ lookup'[l].pc = "asking" /\ lookup'[l].gen = k.gen /\ lookup'[l].aps = k.aps
        /\ lookup'[l].at = k.at /\ lookup'[l].left = k.left - 1
    BY <2>1 DEF Out
  <2>3. k.left \in Nat
    BY GeolocationAssumption DEF LookupsInv, LookupStates, k
  <2> QED BY <2>2, <2>3 DEF Advances, k
<1> QED BY <1>1, <1>2 DEF GoOn

\* Whoever answers, the lookup that asked gets on ...
LEMMA StepAdvances ==
  ASSUME LookupsInv, NEW l \in Lookups, LookupStep(l)
  PROVE  Advances(l)
<1>1. lookup[l].found \in BOOLEAN
  BY DEF LookupsInv, LookupStates
<1>2. CASE Recognised(l) \/ NotRecognised(l) \/ RateLimitedBodyLost(l)
  BY <1>1, <1>2, GoOnAdvances DEF Recognised, NotRecognised, RateLimitedBodyLost
<1>3. CASE RateLimited(l)
  BY <1>1, <1>3, FinishAdvances DEF RateLimited
<1>4. CASE Located(l) \/ SessionGone(l)
  BY <1>4, EndAdvances DEF Located, SessionGone
<1>5. CASE NoneOrRaises(l)
  BY <1>5, NextBackendAdvances DEF NoneOrRaises
<1> QED BY <1>2, <1>3, <1>4, <1>5 DEF LookupStep

\* ... and no other moves.
LEMMA OthersStay ==
  ASSUME LookupsInv, NEW l \in Lookups, Call(l) \/ LookupStep(l), NEW m \in Lookups, m # l
  PROVE  lookup'[m] = lookup[m]
<1> DEFINE OnlyIt == \E k : lookup' = [lookup EXCEPT ![l] = k]
<1>1. OnlyIt
  <2>1. ASSUME NEW g, NEW n, NEW b, EnterAfter(l, g, n, b) PROVE OnlyIt
    BY <2>1 DEF EnterAfter, End
  <2>2. ASSUME NEW pc, End(l, pc) PROVE OnlyIt
    BY <2>2 DEF End
  <2>3. ASSUME NEW found, Finish(l, found) PROVE OnlyIt
    BY <2>1, <2>2, <2>3 DEF Finish, NextBackend
  <2>4. ASSUME NEW found, NEW paused, GoOn(l, found, paused) PROVE OnlyIt
    BY <2>3, <2>4 DEF GoOn
  <2> QED BY <2>1, <2>2, <2>3, <2>4 DEF Call, LookupStep, Recognised, NotRecognised,
            RateLimited, RateLimitedBodyLost, Located, NoneOrRaises, NextBackend, SessionGone
<1> QED BY <1>1 DEF LookupsInv

\* fallback.py:22-31, wigle.py:47-93: every answer ends the lookup, or leaves it
\* with a later backend or fewer requests, for any number of either: the
\* measure by which a lookup whose requests end comes to an end itself.
THEOREM LookupsAdvance == Spec => LookupAdvances
<1>1. GeoInv /\ [Next]_vars => MovesAdvance
  <2> SUFFICES ASSUME GeoInv, [Next]_vars, NEW m \in Lookups,
                      lookup[m].pc = "asking", lookup'[m] # lookup[m]
               PROVE  Advances(m)
    BY DEF MovesAdvance
  <2>1. PICK l \in Lookups : Call(l) \/ LookupStep(l)
    BY DEF Next, Unload, Setup, Tick, vars
  <2>2. m = l
    BY <2>1, OthersStay, Halves
  <2>3. ~Call(m)
    BY DEF Call, Ended
  <2> QED BY <2>1, <2>2, <2>3, StepAdvances, Halves
<1> QED BY <1>1, GeoInvariant, PTL DEF Spec, LookupAdvances
=============================================================================
