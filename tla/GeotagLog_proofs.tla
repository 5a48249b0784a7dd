-------------------------- MODULE GeotagLog_proofs --------------------------
(***************************************************************************)
(* For logs of any length, any access points, times, readings and lag:     *)
(* parse_log returns the power cycle of the photo, the sightings selected  *)
(* are the nearest ones, and the tags written are the coordinates.         *)
(***************************************************************************)
EXTENDS GeotagLog, SequenceTheorems, WellFoundedInduction, TLAPS

------------------------------------------------------------------------------
(* One more line of the log.                                                *)

LEMMA Grows ==
  ASSUME TypeOK, NEW line \in Line, Read(line)
  PROVE  /\ log' \in Seq(Line) /\ Len(log) \in Nat /\ Len(log') = Len(log) + 1
         /\ Len(log') <= MaxLines
         /\ Lines = 1..Len(log) /\ Lines' = 1..(Len(log) + 1)
         /\ log'[Len(log) + 1] = line
         /\ \A i \in Lines : log'[i] = log[i]
<1>1. log \in Seq(Line) /\ log' = Append(log, line) /\ Len(log) < MaxLines
  BY DEF TypeOK, Read
<1>2. /\ log' \in Seq(Line) /\ Len(log') = Len(log) + 1
      /\ \A i \in 1..Len(log) : log'[i] = log[i] /\ log'[Len(log) + 1] = line
  BY <1>1, AppendProperties
<1>3. Len(log) \in Nat /\ MaxLines \in Nat
  BY <1>1, LenProperties, LogAssumption
<1>4. log'[Len(log) + 1] = line
  BY <1>1
<1> QED BY <1>1, <1>2, <1>3, <1>4 DEF Lines

\* The lines read before are in the same cycles, ...
LEMMA CyclesStay ==
  ASSUME TypeOK, NEW line \in Line, Read(line), NEW i \in Lines, NEW j \in Lines
  PROVE  SameCycle(i, j)' <=> SameCycle(i, j)
BY Grows DEF SameCycle, PowerOn

\* ... the cycle under way goes on or ends, ...
LEMMA CycleGoesOn ==
  ASSUME TypeOK, NEW line \in Line, Read(line), line.action # "POWERON",
         NEW n, n = Len(log) + 1
  PROVE  /\ \A i \in Lines : Current(i)' <=> Current(i)
         /\ Current(n)'
BY Grows DEF Current, PowerOn

LEMMA CycleEnds ==
  ASSUME TypeOK, NEW line \in Line, Read(line), line.action = "POWERON"
  PROVE  \A i \in 1..(Len(log) + 1) : ~Current(i)'
BY Grows DEF Current, PowerOn

\* ... and no shot is added but by a marker, nor taken away but by a marker.
LEMMA ShotsStay ==
  ASSUME TypeOK, NEW line \in Line, Read(line), NEW n, n = Len(log) + 1
  PROVE  /\ \A i \in Lines : Shot(i)' => Shot(i)
         /\ line.action # "NEWPHOTO" => \A i \in Lines : Shot(i) => Shot(i)'
         /\ line.action # "NEWPHOTO" => ~Shot(n)'
         /\ \A i : Shot(i)' => i \in Lines \/ i = n
<1>1. ASSUME NEW i \in Lines, Shot(i)' PROVE Shot(i)
  <2>1. ASSUME NEW j \in Lines, Marker(j), SameCycle(i, j) PROVE j <= i
    <3>1. Marker(j)' /\ SameCycle(i, j)' /\ j \in Lines'
      BY <2>1, Grows, CyclesStay DEF Marker
    <3> QED BY <1>1, <3>1 DEF Shot
  <2>2. Marker(i) /\ log[i].time > 0
    BY <1>1, Grows DEF Shot, Marker
  <2> QED BY <2>1, <2>2 DEF Shot
<1>2. ASSUME line.action # "NEWPHOTO", NEW i \in Lines, Shot(i) PROVE Shot(i)'
  <2>1. ASSUME NEW j \in Lines', Marker(j)', SameCycle(i, j)' PROVE j <= i
    <3>1. j \in Lines /\ Marker(j)
      BY <1>2, <2>1, Grows DEF Marker
    <3> QED BY <1>2, <2>1, <3>1, CyclesStay DEF Shot
  <2>2. i \in Lines' /\ Marker(i)' /\ log'[i].time > 0
    BY <1>2, Grows DEF Shot, Marker
  <2> QED BY <2>1, <2>2 DEF Shot
<1>3. line.action # "NEWPHOTO" => ~Shot(n)'
  BY Grows DEF Shot, Marker
<1>4. \A i : Shot(i)' => i \in Lines \/ i = n
  BY Grows DEF Shot
<1> QED BY <1>1, <1>2, <1>3, <1>4

------------------------------------------------------------------------------
(* Types.                                                                   *)

LEMMA LineKinds ==
  /\ Sighting \subseteq Line
  /\ [action : {"NEWPHOTO"}, time : Times] \subseteq Line
  /\ [action : {"POWERON"}] \subseteq Line /\ [action : {"skip"}] \subseteq Line
  /\ [action : {"bad"}] \subseteq Line
  /\ \A x \in Sighting : x.action = "AP" /\ x.bssid \in Bssids /\ x.time \in Times
  /\ \A x \in [action : {"NEWPHOTO"}, time : Times] : x.action = "NEWPHOTO" /\ x.time \in Times
  /\ \A x \in [action : {"POWERON"}] : x.action = "POWERON"
  /\ \A x \in [action : {"skip"}] : x.action = "skip"
  /\ \A x \in [action : {"bad"}] : x.action = "bad"
BY DEF Line, Sighting

\* Reading a line keeps the types of what it leaves alone.
LEMMA ReadTypes ==
  ASSUME TypeOK, NEW line \in Line, Read(line),
         shotTime' \in Times \cup {0}, pc' \in {"reading", "parsed", "raised"},
         aps' \in [Bssids -> SUBSET Lines'],
         \A b \in Bssids : \A i \in aps'[b] : log'[i] \in Sighting
  PROVE  TypeOK'
<1>1. selected' = selected /\ UNCHANGED <<coordinates, gps>>
  BY DEF Read
<1>2. selected' \in [Bssids -> 0..Len(log')]
  BY <1>1, Grows DEF TypeOK
<1>3. TagsTypeOK'
  BY <1>1 DEF TypeOK, TagsTypeOK
<1> QED BY <1>2, <1>3, Grows DEF TypeOK, Lines

\* ... its sightings among them.
LEMMA ReadKeepsSightings ==
  ASSUME TypeOK, NEW line \in Line, Read(line)
  PROVE  /\ aps \in [Bssids -> SUBSET Lines']
         /\ \A b \in Bssids : \A i \in aps[b] : log'[i] \in Sighting /\ i \in Lines
BY Grows DEF TypeOK

LEMMA ReadLineTypes == ASSUME TypeOK, ReadLine PROVE TypeOK'
<1>1. ASSUME NEW line \in Sighting, ReadSighting(line) PROVE TypeOK'
  <2>1. line \in Line /\ line.bssid \in Bssids /\ Read(line)
    BY <1>1, LineKinds DEF ReadSighting
  <2>2. Len(log) + 1 \in Lines' /\ log'[Len(log) + 1] \in Sighting
    BY <1>1, <2>1, Grows
  <2>3. aps' \in [Bssids -> SUBSET Lines']
    BY <1>1, <2>1, <2>2, ReadKeepsSightings DEF ReadSighting
  <2>4. \A b \in Bssids : \A i \in aps'[b] : log'[i] \in Sighting
    BY <1>1, <2>1, <2>2, ReadKeepsSightings DEF ReadSighting
  <2>5. pc' = "reading" /\ shotTime' \in Times \cup {0}
    BY <1>1 DEF ReadSighting, Read, TypeOK
  <2> QED BY <2>1, <2>3, <2>4, <2>5, ReadTypes
<1>2. ASSUME NEW line \in [action : {"NEWPHOTO"}, time : Times], ReadNewPhoto(line) PROVE TypeOK'
  <2>1. line \in Line /\ line.time \in Times /\ Read(line) /\ aps' = aps
    BY <1>2, LineKinds DEF ReadNewPhoto
  <2>2. pc' = "reading" /\ shotTime' \in Times \cup {0}
    BY <1>2, <2>1 DEF ReadNewPhoto, Read
  <2> QED BY <2>1, <2>2, ReadTypes, ReadKeepsSightings
<1>3. ASSUME NEW line \in [action : {"POWERON"}], ReadPowerOn(line) PROVE TypeOK'
  <2>1. line \in Line /\ Read(line)
    BY <1>3, LineKinds DEF ReadPowerOn
  <2>2. pc' \in {"reading", "parsed", "raised"} /\ shotTime' \in Times \cup {0}
    BY <1>3 DEF ReadPowerOn, Read, TypeOK
  <2>3. aps' = aps \/ aps' = NoSightings
    BY <1>3 DEF ReadPowerOn
  <2>4. /\ aps' \in [Bssids -> SUBSET Lines']
        /\ \A b \in Bssids : \A i \in aps'[b] : log'[i] \in Sighting
    BY <2>1, <2>3, ReadKeepsSightings DEF NoSightings
  <2> QED BY <2>1, <2>2, <2>4, ReadTypes
<1>4. ASSUME NEW line \in [action : {"skip"}], ReadSkipped(line) PROVE TypeOK'
  <2>1. line \in Line /\ Read(line) /\ aps' = aps
    BY <1>4, LineKinds DEF ReadSkipped
  <2>2. pc' = "reading" /\ shotTime' \in Times \cup {0}
    BY <1>4 DEF ReadSkipped, Read, TypeOK
  <2> QED BY <2>1, <2>2, ReadTypes, ReadKeepsSightings
<1>5. ASSUME NEW line \in [action : {"bad"}], ReadBad(line) PROVE TypeOK'
  <2>1. line \in Line /\ Read(line) /\ aps' = aps
    BY <1>5, LineKinds DEF ReadBad
  <2>2. pc' = "raised" /\ shotTime' \in Times \cup {0}
    BY <1>5 DEF ReadBad, TypeOK
  <2> QED BY <2>1, <2>2, ReadTypes, ReadKeepsSightings
<1> QED BY <1>1, <1>2, <1>3, <1>4, <1>5 DEF ReadLine

------------------------------------------------------------------------------
(* While parse_log reads on.                                                *)

\* The cycle under way has the shot, or no cycle has.
ShotKnown ==
  /\ shotTime = 0 => \A i \in Lines : ~Shot(i)
  /\ shotTime > 0 => \E i \in Lines : /\ Shot(i) /\ Current(i) /\ shotTime = log[i].time
                                     /\ \A j \in Lines : Shot(j) => j = i

CurrentSightings(b) == {j \in Lines : log[j].action = "AP" /\ log[j].bssid = b /\ Current(j)}

ReadingInv ==
  pc = "reading" => ShotKnown /\ \A b \in Bssids : aps[b] = CurrentSightings(b)

LEMMA ParserParts == ParserInv <=> TypeOK /\ ReadingInv
BY DEF ParserInv, ReadingInv, ShotKnown, CurrentSightings

LEMMA ParserPartsAfter == TypeOK' /\ ReadingInv' => ParserInv'
BY DEF ParserInv, ReadingInv, ShotKnown, CurrentSightings

\* A line other than a marker and POWERON leaves the shot as it is known.
LEMMA ShotKnownStays ==
  ASSUME TypeOK, ShotKnown, NEW line \in Line, Read(line),
         line.action # "NEWPHOTO", line.action # "POWERON", shotTime' = shotTime
  PROVE  ShotKnown'
<1> PICK n : n = Len(log) + 1
  OBVIOUS
<1>1. \A i : Shot(i)' => i \in Lines /\ Shot(i)
  BY ShotsStay
<1>2. CASE shotTime = 0
  BY <1>1, <1>2 DEF ShotKnown
<1>3. CASE shotTime > 0
  <2>1. PICK i \in Lines : /\ Shot(i) /\ Current(i) /\ shotTime = log[i].time
                           /\ \A j \in Lines : Shot(j) => j = i
    BY <1>3 DEF ShotKnown
  <2>2. /\ i \in Lines' /\ shotTime' = log'[i].time
        /\ Shot(i)' /\ Current(i)'
    BY <2>1, ShotsStay, CycleGoesOn, Grows
  <2>3. shotTime' # 0
    BY <1>3
  <2> QED BY <1>1, <2>1, <2>2, <2>3 DEF ShotKnown
<1>4. shotTime = 0 \/ shotTime > 0
  BY LogAssumption DEF TypeOK
<1> QED BY <1>2, <1>3, <1>4

\* A line other than POWERON adds itself, or nothing, to the sightings.
LEMMA SightingsGrow ==
  ASSUME TypeOK, NEW line \in Line, Read(line), line.action # "POWERON", NEW b \in Bssids,
         NEW n, n = Len(log) + 1
  PROVE  CurrentSightings(b)' =
           IF line.action = "AP" /\ line.bssid = b
           THEN CurrentSightings(b) \cup {n} ELSE CurrentSightings(b)
<1>1. \A j : j \in Lines' <=> j \in Lines \/ j = n
  BY Grows
<1>2. n \notin Lines /\ log'[n] = line
  BY Grows
<1>3. ASSUME NEW j \in Lines PROVE j \in CurrentSightings(b)' <=> j \in CurrentSightings(b)
  BY <1>1, Grows, CycleGoesOn DEF CurrentSightings
<1>4. n \in CurrentSightings(b)' <=> line.action = "AP" /\ line.bssid = b
  BY <1>1, <1>2, CycleGoesOn DEF CurrentSightings
<1>5. \A j : /\ j \in CurrentSightings(b) => j \in Lines
             /\ j \in CurrentSightings(b)' => j \in Lines'
  BY DEF CurrentSightings
<1> DEFINE S == CurrentSightings(b)
           T == CurrentSightings(b)'
<1>6. \A j : j \in T <=> j \in S \/ (j = n /\ line.action = "AP" /\ line.bssid = b)
  BY <1>1, <1>2, <1>3, <1>4, <1>5
<1> HIDE DEF S, T
<1>7. T = IF line.action = "AP" /\ line.bssid = b THEN S \cup {n} ELSE S
  BY <1>6
<1> QED BY <1>7 DEF S, T

\* A shot of the cycle under way is outdone by a new marker.
LEMMA MarkerOutdoes ==
  ASSUME TypeOK, ShotKnown, NEW line \in Line, Read(line), line.action = "NEWPHOTO",
         NEW i \in Lines
  PROVE  ~Shot(i)'
<1> SUFFICES ASSUME Shot(i)' PROVE FALSE
  OBVIOUS
<1> PICK n : n = Len(log) + 1
  OBVIOUS
<1>1. Shot(i)
  BY ShotsStay
<1>2. Current(i)
  <2>1. shotTime > 0
    BY <1>1, LogAssumption DEF ShotKnown, TypeOK
  <2>2. PICK k \in Lines : Current(k) /\ \A j \in Lines : Shot(j) => j = k
    BY <2>1 DEF ShotKnown
  <2> QED BY <1>1, <2>2
<1>3. SameCycle(i, n)'
  BY <1>2, Grows DEF SameCycle, Current, PowerOn
<1>4. n \in Lines' /\ Marker(n)'
  BY Grows DEF Marker
<1>5. n <= i
  BY <1>3, <1>4 DEF Shot
<1> QED BY <1>5, Grows

LEMMA ReadLineReads ==
  ASSUME TypeOK, ReadingInv, ReadLine, pc' = "reading"
  PROVE  ShotKnown' /\ \A b \in Bssids : aps'[b] = CurrentSightings(b)'
<1> PICK n : n = Len(log) + 1
  OBVIOUS
<1>0. pc = "reading" => ShotKnown /\ \A b \in Bssids : aps[b] = CurrentSightings(b)
  BY DEF ReadingInv
<1>1. ASSUME NEW line \in Sighting, ReadSighting(line)
      PROVE  ShotKnown' /\ \A b \in Bssids : aps'[b] = CurrentSightings(b)'
  <2>1. /\ line \in Line /\ line.action = "AP" /\ line.bssid \in Bssids /\ Read(line)
        /\ pc = "reading" /\ shotTime' = shotTime
    BY <1>1, LineKinds DEF ReadSighting, Read
  <2>2. ShotKnown'
    BY <1>0, <2>1, ShotKnownStays
  <2>3. ASSUME NEW b \in Bssids PROVE aps'[b] = CurrentSightings(b)'
    <3>1. aps'[b] = IF line.bssid = b THEN aps[b] \cup {n} ELSE aps[b]
      BY <1>1, <2>1 DEF ReadSighting, TypeOK
    <3> QED BY <1>0, <2>1, <3>1, SightingsGrow
  <2> QED BY <2>2, <2>3
<1>2. ASSUME NEW line \in [action : {"NEWPHOTO"}, time : Times], ReadNewPhoto(line)
      PROVE  ShotKnown' /\ \A b \in Bssids : aps'[b] = CurrentSightings(b)'
  <2>1. /\ line \in Line /\ line.action = "NEWPHOTO" /\ line.time \in Times /\ Read(line)
        /\ pc = "reading" /\ shotTime' = line.time /\ aps' = aps
    BY <1>2, LineKinds DEF ReadNewPhoto, Read
  <2>2. \A i : Shot(i)' => i = n
    BY <1>0, <2>1, ShotsStay, MarkerOutdoes
  <2>3. n \in Lines' /\ log'[n] = line /\ n \in Nat /\ (\A j \in Lines' : j <= n)
    BY <2>1, Grows
  <2>4. Marker(n)' /\ Current(n)'
    BY <2>1, <2>3, CycleGoesOn DEF Marker
  <2>5. CASE line.time = 0
    <3>1. ~Shot(n)'
      BY <2>3, <2>5 DEF Shot
    <3> QED BY <1>0, <2>1, <2>2, <2>5, <3>1, SightingsGrow DEF ShotKnown
  <2>6. CASE line.time > 0
    <3>1. Shot(n)'
      BY <2>3, <2>4, <2>6 DEF Shot
    <3>2. ShotKnown'
      BY <2>1, <2>2, <2>3, <2>4, <2>6, <3>1 DEF ShotKnown
    <3> QED BY <1>0, <2>1, <3>2, SightingsGrow
  <2> QED BY <2>1, <2>5, <2>6, LogAssumption
<1>3. ASSUME NEW line \in [action : {"POWERON"}], ReadPowerOn(line)
      PROVE  ShotKnown' /\ \A b \in Bssids : aps'[b] = CurrentSightings(b)'
  <2>1. /\ line \in Line /\ line.action = "POWERON" /\ Read(line) /\ pc = "reading"
        /\ shotTime = 0 /\ shotTime' = 0 /\ aps' = NoSightings
    BY <1>3, LineKinds DEF ReadPowerOn, Read
  <2>2. \A i : ~Shot(i)'
    BY <1>0, <2>1, ShotsStay DEF ShotKnown
  <2>3. \A b \in Bssids : CurrentSightings(b)' = {}
    BY <2>1, CycleEnds, Grows DEF CurrentSightings
  <2> QED BY <2>1, <2>2, <2>3 DEF ShotKnown, NoSightings
<1>4. ASSUME NEW line \in [action : {"skip"}], ReadSkipped(line)
      PROVE  ShotKnown' /\ \A b \in Bssids : aps'[b] = CurrentSightings(b)'
  <2>1. /\ line \in Line /\ line.action = "skip" /\ Read(line) /\ pc = "reading"
        /\ shotTime' = shotTime /\ aps' = aps
    BY <1>4, LineKinds DEF ReadSkipped, Read
  <2> QED BY <1>0, <2>1, ShotKnownStays, SightingsGrow
<1>5. ASSUME NEW line \in [action : {"bad"}], ReadBad(line) PROVE FALSE
  BY <1>5 DEF ReadBad
<1> QED BY <1>1, <1>2, <1>3, <1>4, <1>5 DEF ReadLine

------------------------------------------------------------------------------
(* What parse_log returns.                                                  *)

\* The cycle under way is the one around a line of it.
LEMMA AroundCurrent ==
  ASSUME NEW i \in Lines, Current(i), NEW b \in Bssids
  PROVE  SightingsAround(i, b) = CurrentSightings(b)
<1>1. ASSUME NEW j \in Lines PROVE SameCycle(i, j) <=> Current(j)
  BY DEF SameCycle, Current
<1> QED BY <1>1 DEF SightingsAround, CurrentSightings

\* The shot, its cycle and the cycle's sightings.
Session(i) == TheShot(i) /\ shotTime = log[i].time
              /\ \A b \in Bssids : aps[b] = SightingsAround(i, b)

LEMMA SessionUnderWay ==
  ASSUME TypeOK, ReadingInv, pc = "reading", shotTime > 0
  PROVE  \E i \in Lines : Session(i)
<1>1. PICK i \in Lines : /\ Shot(i) /\ Current(i) /\ shotTime = log[i].time
                         /\ \A j \in Lines : Shot(j) => j = i
  BY DEF ReadingInv, ShotKnown
<1>2. \A b \in Bssids : aps[b] = SightingsAround(i, b)
  BY <1>1, AroundCurrent DEF ReadingInv
<1>3. i \in Nat
  BY LenProperties DEF TypeOK, Lines
<1>4. TheShot(i)
  BY <1>1, <1>3 DEF TheShot
<1> QED BY <1>1, <1>2, <1>4 DEF Session

\* POWERON changes nothing about the session it ends.
LEMMA SessionEnds ==
  ASSUME TypeOK, NEW line \in Line, Read(line), line.action = "POWERON",
         NEW i \in Lines, Session(i), shotTime' = shotTime, aps' = aps
  PROVE  i \in Lines' /\ Session(i)'
<1> PICK n : n = Len(log) + 1
  OBVIOUS
<1>1. i \in Lines' /\ log'[i] = log[i]
  BY Grows
<1>2. Shot(i)' /\ \A j : Shot(j)' => j \in Lines /\ Shot(j)
  BY ShotsStay DEF Session, TheShot
<1>3. TheShot(i)'
  BY <1>2 DEF Session, TheShot
<1>4. ASSUME NEW b \in Bssids PROVE SightingsAround(i, b)' = SightingsAround(i, b)
  <2>1. \A j \in Lines : SameCycle(i, j)' <=> SameCycle(i, j)
    BY CyclesStay
  <2>2. Lines' = Lines \cup {n} /\ log'[n] = line /\ \A j \in Lines : log'[j] = log[j]
    BY Grows
  <2> QED BY <2>1, <2>2 DEF SightingsAround
<1> QED BY <1>1, <1>3, <1>4 DEF Session

------------------------------------------------------------------------------
(* select_access_points.                                                    *)

\* Least element of a set of naturals.
LEMMA Least ==
  ASSUME NEW S, S \subseteq Nat, S # {}
  PROVE  \E m \in S : \A k \in S : m <= k
<1> DEFINE R == OpToRel(<, Nat)
<1>1. IsWellFoundedOn(R, Nat)
  BY NatLessThanWellFounded
<1>2. \A x, y \in Nat : <<x, y>> \in R <=> x < y
  BY DEF OpToRel
<1> HIDE DEF R
<1>3. PICK m \in S : \A k \in S : ~ (<<k, m>> \in R)
  BY <1>1, WFMin
<1>4. m \in Nat /\ \A k \in S : k \in Nat /\ ~(k < m)
  BY <1>2, <1>3
<1>5. \A k \in S : m <= k
  BY <1>4
<1> QED BY <1>5

\* Some sighting is the closest one, the first of them if several are.
LEMMA ClosestExists ==
  ASSUME TypeOK, NEW b \in Bssids, aps[b] # {}
  PROVE  \E i \in aps[b] : Closest(aps[b], i)
<1>1. aps[b] \subseteq Nat /\ \A i \in aps[b] : Distance(i) \in Nat
  <2>1. ASSUME NEW i \in aps[b] PROVE i \in Nat /\ log[i].time \in Nat
    <3>1. i \in 1..Len(log) /\ log[i] \in Sighting
      BY DEF TypeOK
    <3>2. Len(log) \in Nat
      BY LenProperties DEF TypeOK
    <3>3. log[i].time \in Nat
      BY <3>1, LineKinds, LogAssumption
    <3> QED BY <3>1, <3>2, <3>3
  <2>2. shotTime \in Nat
    BY LogAssumption DEF TypeOK
  <2> QED BY <2>1, <2>2 DEF Distance
<1> DEFINE D == {Distance(i) : i \in aps[b]}
<1>2. PICK d \in D : \A k \in D : d <= k
  BY <1>1, Least
<1> DEFINE N == {i \in aps[b] : Distance(i) = d}
<1>3. PICK i \in N : \A k \in N : i <= k
  BY <1>1, <1>2, Least
<1>4. ASSUME NEW j \in aps[b]
      PROVE  Distance(i) < Distance(j) \/ (Distance(i) = Distance(j) /\ i <= j)
  <2>1. Distance(i) <= Distance(j) /\ Distance(i) \in Nat /\ Distance(j) \in Nat
    BY <1>1, <1>2, <1>3
  <2>2. Distance(i) = Distance(j) => i <= j
    BY <1>3
  <2> QED BY <2>1, <2>2
<1> QED BY <1>3, <1>4 DEF Closest

\* Chosen(b) is empty exactly if no sighting is within the lag.
LEMMA ChosenNearest ==
  ASSUME TypeOK, NEW b \in Bssids
  PROVE  /\ \A j \in aps[b] : Distance(j) <= GeotagLag => Chosen(b) # {}
         /\ \A i \in Chosen(b) : /\ i \in aps[b] /\ Distance(i) <= GeotagLag
                                 /\ \A j \in aps[b] : Distance(i) <= Distance(j)
<1>1. \A i \in aps[b] : Distance(i) \in Nat
  <2>1. ASSUME NEW i \in aps[b] PROVE log[i].time \in Nat
    BY LineKinds, LogAssumption DEF TypeOK
  <2>2. shotTime \in Nat
    BY LogAssumption DEF TypeOK
  <2> QED BY <2>1, <2>2 DEF Distance
<1>2. ASSUME NEW j \in aps[b], Distance(j) <= GeotagLag PROVE Chosen(b) # {}
  <2>1. PICK i \in aps[b] : Closest(aps[b], i)
    BY <1>2, ClosestExists
  <2>2. Distance(i) <= Distance(j)
    BY <1>1, <2>1 DEF Closest
  <2>3. Distance(i) <= GeotagLag
    BY <1>1, <1>2, <2>2, LogAssumption
  <2> QED BY <2>1, <2>3 DEF Chosen
<1>3. \A i \in Chosen(b) : /\ i \in aps[b] /\ Distance(i) <= GeotagLag
                           /\ \A j \in aps[b] : Distance(i) <= Distance(j)
  BY <1>1 DEF Chosen, Closest
<1> QED BY <1>2, <1>3

------------------------------------------------------------------------------
(* write_gps_exif.                                                          *)

\* However the floats come out, what is left over of a degree is split up.
LEMMA Splits ==
  ASSUME NEW rest \in Nat, rest < 3600000, NEW m \in Truncated(rest, 60000),
         NEW s \in Seconds(rest - 60000 * m)
  PROVE  /\ m \in 0..59 /\ s \in 0..6000
         /\ -5 <= (60000 * m + 10 * s) - rest /\ (60000 * m + 10 * s) - rest <= 5
<1> DEFINE q == rest \div 60000
           x == rest - 60000 * m
<1>1. q \in 0..59 /\ 0 <= rest - 60000 * q /\ rest - 60000 * q <= 59999
  BY SMT
<1>2. m = q \/ (rest = 60000 * q /\ rest > 0 /\ m = q - 1)
  <2>1. m = q \/ (rest % 60000 = 0 /\ rest > 0 /\ m = q - 1)
    BY SMT DEF Truncated
  <2>2. rest % 60000 = 0 => rest = 60000 * q
    BY SMT
  <2> QED BY SMT, <2>1, <2>2
<1>3. m \in 0..59 /\ x \in Int /\ 0 <= x /\ x <= 60000
  <2> HIDE DEF q
  <2> QED BY SMT, <1>1, <1>2
<1>4. s = (x + 4) \div 10 \/ s = (x + 5) \div 10
  BY SMT DEF Seconds, Tenths
<1>5. s \in 0..6000 /\ -5 <= 10 * s - x /\ 10 * s - x <= 5
  <2> HIDE DEF x
  <2>1. s \in Int /\ x - 5 <= 10 * s /\ 10 * s <= x + 5
    <3>1. CASE s = (x + 4) \div 10
      BY SMT, <1>3, <3>1
    <3>2. CASE s = (x + 5) \div 10
      BY SMT, <1>3, <3>2
    <3> QED BY SMT, <1>4, <3>1, <3>2
  <2>2. 0 <= s /\ s <= 6000
    BY SMT, <1>3, <2>1
  <2> QED BY SMT, <1>3, <2>1, <2>2
<1>6. 60000 * m + 10 * s - rest = 10 * s - x
  BY SMT, <1>3, <1>5
<1>7. 60000 * m + 10 * s \in Int
  BY SMT, <1>3, <1>5
<1> HIDE DEF x
<1> QED BY SMT, <1>3, <1>5, <1>6, <1>7

\* Read back with its sign, that is the value.
LEMMA ToDmsReadsBack ==
  ASSUME NEW value \in Int, NEW x \in ToDms(value), NEW positive, NEW negative,
         positive # negative
  PROVE  /\ x \in Dms
         /\ \A tag : tag.ref = Ref(value, positive, negative) /\ tag.dms = x
              => ReadsBack(tag, value, negative)
<1> DEFINE v == IF value < 0 THEN -value ELSE value
           rest == v % 3600000
<1>1. v \in Nat
  BY SMT
<1>2a. PICK m \in Truncated(rest, 60000) : \E s \in Seconds(rest - 60000 * m) :
        x = [degrees |-> v \div 3600000, minutes |-> m, seconds |-> s]
  BY SMT DEF ToDms
<1>2. PICK s \in Seconds(rest - 60000 * m) :
        x = [degrees |-> v \div 3600000, minutes |-> m, seconds |-> s]
  BY SMT, <1>2a
<1>3. rest \in Nat /\ rest < 3600000 /\ v \div 3600000 \in Nat /\ v = 3600000 * (v \div 3600000) + rest
  <2> HIDE DEF v
  <2> QED BY SMT, <1>1
<1>4. /\ m \in 0..59 /\ s \in 0..6000
      /\ -5 <= (60000 * m + 10 * s) - rest /\ (60000 * m + 10 * s) - rest <= 5
  BY SMT, <1>2, <1>3, Splits
<1>5. x \in Dms
  BY SMT, <1>2, <1>3, <1>4 DEF Dms
<1> DEFINE read == 3600000 * x.degrees + 60000 * x.minutes + 10 * x.seconds
<1>6. read \in Int /\ -5 <= read - v /\ read - v <= 5
  <2>1. read = 3600000 * (v \div 3600000) + (60000 * m + 10 * s)
    BY SMT, <1>2, <1>3, <1>4
  <2> HIDE DEF rest, read, v
  <2> QED BY SMT, <1>1, <1>3, <1>4, <2>1
<1>7. ASSUME NEW tag, tag.ref = Ref(value, positive, negative), tag.dms = x
      PROVE  ReadsBack(tag, value, negative)
  <2>1. (tag.ref = negative) <=> value < 0
    BY SMT, <1>7 DEF Ref
  <2> HIDE DEF read
  <2>2. LET off == (IF tag.ref = negative THEN -read ELSE read) - value
        IN -5 <= off /\ off <= 5
    BY SMT, <1>6, <2>1
  <2> QED BY SMT, <1>7, <2>2 DEF ReadsBack, read
<1> QED BY SMT, <1>5, <1>7

\* Whatever follows the question drops what was read.
LEMMA DropTypes ==
  ASSUME TypeOK, Drop, TagsTypeOK', pc' \in {"raised", "unresolved", "tagged"}
  PROVE  TypeOK' /\ ParserInv' /\ ParsedSession' /\ SelectedNearest'
<1>1. log' \in Seq(Line) /\ Len(log') = 0
  BY EmptySeq DEF Drop
<1>2. TypeOK'
  BY <1>1, LogAssumption DEF Drop, NoSightings, NoneSelected, TypeOK
<1> QED BY <1>2 DEF ParserInv, ParsedSession, SelectedNearest

LEMMA WriteGpsExifTypes ==
  ASSUME TypeOK, NEW lat \in Positions, NEW lon \in Positions, WriteGpsExif(lat, lon)
  PROVE  TagsTypeOK' /\ TagsAreCoordinates'
<1>0. lat \in Int /\ lon \in Int
  BY LogAssumption
<1>1. PICK x \in ToDms(lat), y \in ToDms(lon) :
        gps' = [latitude |-> [ref |-> Ref(lat, "N", "S"), dms |-> x],
                longitude |-> [ref |-> Ref(lon, "E", "W"), dms |-> y]]
  BY DEF WriteGpsExif
<1>2. coordinates' = [latitude |-> lat, longitude |-> lon]
  BY DEF WriteGpsExif
<1>3. /\ x \in Dms
      /\ \A tag : tag.ref = Ref(lat, "N", "S") /\ tag.dms = x => ReadsBack(tag, lat, "S")
  BY <1>0, ToDmsReadsBack
<1>4. /\ y \in Dms
      /\ \A tag : tag.ref = Ref(lon, "E", "W") /\ tag.dms = y => ReadsBack(tag, lon, "W")
  BY <1>0, ToDmsReadsBack
<1>5. TagsTypeOK'
  BY <1>1, <1>2, <1>3, <1>4 DEF TagsTypeOK, Tag, Ref
<1>6. /\ gps'.latitude.ref = Ref(lat, "N", "S") /\ gps'.latitude.dms = x
      /\ gps'.longitude.ref = Ref(lon, "E", "W") /\ gps'.longitude.dms = y
      /\ coordinates'.latitude = lat /\ coordinates'.longitude = lon
  BY <1>1, <1>2
<1>7. TagsAreCoordinates'
  BY <1>3, <1>4, <1>6 DEF TagsAreCoordinates
<1> QED BY <1>5, <1>7

------------------------------------------------------------------------------
(* The invariant.                                                           *)

Inv == ParserInv /\ ParsedSession /\ SelectedNearest /\ TagsAreCoordinates

\* No step but write_gps_exif ends with the tags written.
LEMMA NotTagged == pc' # "tagged" => TagsAreCoordinates'
BY DEF TagsAreCoordinates

LEMMA SessionParts ==
  /\ pc \in {"parsed", "no_aps", "asking"} /\ ParsedSession => \E i \in Lines : Session(i)
  /\ pc = "none" /\ ParsedSession => \A i \in Lines : ~Shot(i)
BY DEF ParsedSession, Session

LEMMA SessionPartsAfter ==
  /\ pc' \in {"parsed", "no_aps", "asking"} => \E i \in Lines' : Session(i)'
  /\ pc' = "none" => \A i \in Lines' : ~Shot(i)'
  => ParsedSession'
BY DEF ParsedSession, Session

LEMMA ReadLineInv == ASSUME Inv, ReadLine PROVE Inv'
<1>0. TypeOK /\ ReadingInv
  BY ParserParts DEF Inv
<1>1. TypeOK'
  BY <1>0, ReadLineTypes
<1>2. ReadingInv'
  BY <1>0, ReadLineReads DEF ReadingInv
<1>3. pc = "reading" /\ pc' \in {"reading", "parsed", "raised"}
  BY DEF ReadLine, ReadSighting, ReadNewPhoto, ReadPowerOn, ReadSkipped, ReadBad, Read
<1>4. ASSUME pc' = "parsed" PROVE \E i \in Lines' : Session(i)'
  <2>1. PICK line \in [action : {"POWERON"}] : ReadPowerOn(line)
    BY <1>3, <1>4 DEF ReadLine, ReadSighting, ReadNewPhoto, ReadSkipped, ReadBad
  <2>2. /\ line \in Line /\ line.action = "POWERON" /\ Read(line)
        /\ shotTime > 0 /\ shotTime' = shotTime /\ aps' = aps
    BY <1>3, <1>4, <2>1, LineKinds DEF ReadPowerOn
  <2>3. PICK i \in Lines : Session(i)
    BY <1>0, <1>3, <2>2, SessionUnderWay
  <2> QED BY <1>0, <2>2, <2>3, SessionEnds
<1>5. ParsedSession'
  BY <1>3, <1>4, SessionPartsAfter
<1>6. SelectedNearest'
  BY <1>3 DEF SelectedNearest
<1> QED BY <1>1, <1>2, <1>3, <1>5, <1>6, NotTagged, ParserPartsAfter DEF Inv

LEMMA EndOfLogInv == ASSUME Inv, EndOfLog PROVE Inv'
<1>0. TypeOK /\ ReadingInv /\ pc = "reading"
  BY ParserParts DEF Inv, EndOfLog
<1>1. /\ UNCHANGED <<log, shotTime, aps, selected, coordinates, gps>>
      /\ pc' = IF shotTime > 0 THEN "parsed" ELSE "none"
  BY DEF EndOfLog
<1>2. ParserInv' /\ TagsAreCoordinates'
  BY <1>0, <1>1, NotTagged DEF ParserInv, TypeOK, TagsTypeOK
<1>3. Lines' = Lines /\ \A i : (Session(i)' <=> Session(i)) /\ (Shot(i)' <=> Shot(i))
  BY <1>1 DEF Lines, Session, TheShot, Shot, Marker, SameCycle, PowerOn, SightingsAround
<1>4. CASE shotTime > 0
  <2>1. PICK i \in Lines : Session(i)
    BY <1>0, <1>4, SessionUnderWay
  <2> QED BY <1>1, <1>2, <1>3, <1>4, <2>1, SessionPartsAfter DEF Inv, SelectedNearest
<1>5. CASE ~(shotTime > 0)
  <2>1. shotTime = 0
    BY <1>0, <1>5, LogAssumption DEF TypeOK
  <2>2. \A i \in Lines : ~Shot(i)
    BY <1>0, <2>1 DEF ReadingInv, ShotKnown
  <2> QED BY <1>1, <1>2, <1>3, <1>5, <2>2, SessionPartsAfter DEF Inv, SelectedNearest
<1> QED BY <1>4, <1>5

LEMMA SelectInv == ASSUME Inv, Select PROVE Inv'
<1>0. TypeOK /\ pc = "parsed" /\ ParsedSession
  BY ParserParts DEF Inv, Select
<1>1. /\ UNCHANGED <<log, shotTime, aps, coordinates, gps>>
      /\ pc' \in {"raised", "no_aps", "asking"}
  BY DEF Select
<1>2. PICK i \in Lines : Session(i)
  BY <1>0, SessionParts
<1>3. Lines' = Lines /\ Session(i)'
  BY <1>1, <1>2 DEF Lines, Session, TheShot, Shot, Marker, SameCycle, PowerOn, SightingsAround
<1>4. ParsedSession' /\ TagsAreCoordinates'
  BY <1>1, <1>3, NotTagged, SessionPartsAfter
<1>5. CASE ~Convertible /\ pc' = "raised" /\ UNCHANGED selected
  <2>1. ParserInv'
    BY <1>0, <1>1, <1>5 DEF ParserInv, TypeOK, TagsTypeOK
  <2> QED BY <1>4, <1>5, <2>1 DEF Inv, SelectedNearest
<1>6. CASE selected' = [b \in Bssids |-> IF Chosen(b) = {} THEN 0 ELSE CHOOSE j \in Chosen(b) : TRUE]
  <2>1. ASSUME NEW b \in Bssids
        PROVE  selected'[b] = IF Chosen(b) = {} THEN 0 ELSE CHOOSE j \in Chosen(b) : TRUE
    BY <1>6
  <2>2. ASSUME NEW b \in Bssids, Chosen(b) # {} PROVE selected'[b] \in Chosen(b)
    BY <2>1, <2>2
  <2>3. ASSUME NEW b \in Bssids PROVE selected'[b] \in 0..Len(log)
    <3>1. \A j \in Chosen(b) : j \in 0..Len(log)
      BY <1>0 DEF Chosen, TypeOK
    <3>2. 0 \in 0..Len(log)
      BY <1>0, LenProperties DEF TypeOK
    <3> QED BY <2>1, <2>2, <3>1, <3>2
  <2>4. selected' \in [Bssids -> 0..Len(log)]
    BY <1>6, <2>3
  <2>5. ParserInv'
    BY <1>0, <1>1, <2>4 DEF ParserInv, TypeOK, TagsTypeOK
  <2>6. \A j : Distance(j)' = Distance(j)
    BY <1>1 DEF Distance
  <2>7. ASSUME NEW b \in Bssids
        PROVE  LET near == {j \in aps[b] : Distance(j) <= GeotagLag}
               IN IF near = {} THEN selected'[b] = 0
                  ELSE /\ selected'[b] \in near
                       /\ \A j \in near : Distance(selected'[b]) <= Distance(j)
    <3>1. CASE Chosen(b) = {}
      BY <1>0, <2>1, <3>1, ChosenNearest
    <3>2. CASE Chosen(b) # {}
      BY <1>0, <2>2, <3>2, ChosenNearest
    <3> QED BY <3>1, <3>2
  <2>8. TheShot(i)' /\ \A b \in Bssids : SightingsAround(i, b)' = aps[b]
    BY <1>1, <1>3 DEF Session
  <2>9. SelectedNearest'
    BY <1>3, <2>6, <2>7, <2>8 DEF SelectedNearest
  <2> QED BY <1>4, <2>5, <2>9 DEF Inv
<1> QED BY <1>5, <1>6 DEF Select

LEMMA AnswerInv ==
  ASSUME Inv,
         Unresolved \/ WriteFails \/ \E lat, lon \in Positions : WriteGpsExif(lat, lon)
  PROVE  Inv'
<1>0. TypeOK
  BY ParserParts DEF Inv
<1>1. CASE Unresolved \/ WriteFails
  <2>1. Drop /\ UNCHANGED <<coordinates, gps>> /\ pc' \in {"raised", "unresolved"}
    BY <1>1 DEF Unresolved, WriteFails
  <2>2. TagsTypeOK'
    BY <1>0, <2>1 DEF TypeOK, TagsTypeOK
  <2> QED BY <1>0, <2>1, <2>2, DropTypes, NotTagged DEF Inv
<1>2. CASE \E lat, lon \in Positions : WriteGpsExif(lat, lon)
  <2>1. PICK lat \in Positions, lon \in Positions : WriteGpsExif(lat, lon)
    BY <1>2
  <2>2. Drop /\ pc' = "tagged"
    BY <2>1 DEF WriteGpsExif
  <2> QED BY <1>0, <2>1, <2>2, WriteGpsExifTypes, DropTypes DEF Inv
<1> QED BY <1>1, <1>2

LEMMA StutterInv == ASSUME Inv, UNCHANGED vars PROVE Inv'
<1>1. UNCHANGED <<log, shotTime, aps, pc, selected, coordinates, gps>>
  BY DEF vars
<1>2. ParserInv'
  BY <1>1 DEF Inv, ParserInv, TypeOK, TagsTypeOK, Lines, Shot, Current, Marker, SameCycle, PowerOn
<1>5. TagsAreCoordinates'
  BY SMT, <1>1 DEF Inv, TagsAreCoordinates, ReadsBack
<1>3. ParsedSession'
  <2>1. Lines' = Lines /\ \A i : (Session(i)' <=> Session(i)) /\ (Shot(i)' <=> Shot(i))
    BY <1>1 DEF Lines, Session, TheShot, Shot, Marker, SameCycle, PowerOn, SightingsAround
  <2> QED BY <1>1, <2>1, SessionParts, SessionPartsAfter DEF Inv
<1>4. SelectedNearest'
  BY <1>1 DEF Inv, SelectedNearest, Lines, Shot, TheShot, Marker, SameCycle, PowerOn,
              SightingsAround, Distance
<1> QED BY <1>2, <1>3, <1>4, <1>5 DEF Inv

LEMMA InitInv == Init => Inv
<1> SUFFICES ASSUME Init PROVE Inv
  OBVIOUS
<1>1. log \in Seq(Line) /\ Len(log) = 0 /\ Lines = {}
  BY EmptySeq DEF Init, Lines
<1>2. TagsTypeOK
  BY DEF Init, TagsTypeOK, Tag, Dms
<1>3. ParserInv
  BY <1>1, <1>2, LogAssumption DEF Init, NoSightings, NoneSelected, ParserInv, TypeOK
<1> QED BY <1>3 DEF Init, Inv, ParsedSession, SelectedNearest, TagsAreCoordinates

\* The properties of the sidecar's reading and of the tags together are inductive.
THEOREM LogInvariant == Spec => []Inv
<1>1. Inv /\ [Next]_vars => Inv'
  BY ReadLineInv, EndOfLogInv, SelectInv, AnswerInv, StutterInv DEF Next
<1> QED BY <1>1, InitInv, PTL DEF Spec

\* While parse_log reads, shot_time and aps are those of the power cycle under
\* way (geotag.py:80-108).
THEOREM ParserInvariant == Spec => []ParserInv
BY LogInvariant, PTL DEF Inv

\* parse_log returns the photo's power cycle, for logs of any length
\* (geotag.py:76-112).
THEOREM ReturnsSession == Spec => []ParsedSession
BY LogInvariant, PTL DEF Inv

\* select_access_points returns the nearest sightings (geotag.py:122-137).
THEOREM SelectsNearest == Spec => []SelectedNearest
BY LogInvariant, PTL DEF Inv

\* write_gps_exif writes the coordinates, to half a hundredth of a second, for any
\* value and however the floats come out (geotag.py:144-170).
THEOREM WritesCoordinates == Spec => []TagsAreCoordinates
BY LogInvariant, PTL DEF Inv
=============================================================================
