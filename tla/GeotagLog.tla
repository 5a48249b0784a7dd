------------------------------ MODULE GeotagLog ------------------------------
(***************************************************************************)
(* eyefi_core.geotag: what geotag_image reads out of a card's .log sidecar *)
(* and writes into the photo.  parse_log goes through the lines once and   *)
(* stops at the power cycle of the photo; select_access_points takes, for  *)
(* each access point of that cycle, the sighting nearest to the shot;      *)
(* write_gps_exif writes the coordinates the backend answers with in       *)
(* degrees, minutes and seconds.                                           *)
(*                                                                         *)
(* The log is any sequence of lines: it is built line by line as parse_log *)
(* reads it, so the parser's state is compared with the log at every       *)
(* prefix.  A line that parse_log skips (blank, too few fields, another    *)
(* action, another photo's NEWPHOTO) is a "skip", one whose numbers int()  *)
(* refuses is "bad".                                                       *)
(*                                                                         *)
(* Coordinates are in thousandths of a second of arc.  The code computes   *)
(* with floats, whose error is far below that: it matters only where the   *)
(* exact value is a whole minute, or midway between two hundredths of a    *)
(* second, and then either result may come out.                            *)
(***************************************************************************)
EXTENDS Integers, Sequences

CONSTANTS
  Bssids,     \* the access points seen
  Times,      \* values of the <time> field
  Powers,     \* raw signal readings
  GeotagLag,  \* geotag_lag
  Positions,  \* latitudes and longitudes the backend answers with
  MaxLines    \* bound: lines of the log

ASSUME LogAssumption ==
  /\ Times \subseteq Nat /\ Powers \subseteq Nat
  /\ GeotagLag \in Nat /\ MaxLines \in Nat
  /\ Positions \subseteq Int

VARIABLES
  log,       \* the lines read so far
  shotTime,  \* shot_time
  aps,       \* access point -> the lines of its sightings in this power cycle
  pc,        \* "reading", "parsed", "none", "raised", "no_aps", "asking",
             \* "unresolved" or "tagged"
  selected,  \* access point -> the line selected for it (0: none)
  coordinates,  \* what backend.resolve returned
  gps        \* the GPS tags of the photo

vars == <<log, shotTime, aps, pc, selected, coordinates, gps>>

Sighting == [action : {"AP"}, bssid : Bssids, time : Times, pwr : Powers]
Line == Sighting \cup [action : {"NEWPHOTO"}, time : Times]
                 \cup [action : {"POWERON", "skip", "bad"}]

Dms == [degrees : Nat, minutes : 0..59, seconds : 0..6000]
Tag == [ref : {"N", "S", "E", "W"}, dms : Dms]

TagsTypeOK ==
  /\ coordinates \in [latitude : Positions \cup {0}, longitude : Positions \cup {0}]
  /\ gps \in [latitude : Tag, longitude : Tag]

TypeOK ==
  /\ log \in Seq(Line) /\ Len(log) <= MaxLines
  /\ shotTime \in Times \cup {0}
  /\ aps \in [Bssids -> SUBSET (1..Len(log))]
  /\ \A b \in Bssids : \A i \in aps[b] : log[i] \in Sighting
  /\ pc \in {"reading", "parsed", "none", "raised", "no_aps", "asking", "unresolved", "tagged"}
  /\ selected \in [Bssids -> 0..Len(log)]
  /\ TagsTypeOK

NoSightings == [b \in Bssids |-> {}]
NoneSelected == [b \in Bssids |-> 0]

Init ==
  /\ log = << >>
  /\ shotTime = 0
  /\ aps = NoSightings
  /\ pc = "reading"
  /\ selected = NoneSelected
  /\ coordinates = [latitude |-> 0, longitude |-> 0]
  /\ LET zero == [degrees |-> 0, minutes |-> 0, seconds |-> 0]
     IN gps = [latitude |-> [ref |-> "N", dms |-> zero], longitude |-> [ref |-> "E", dms |-> zero]]

------------------------------------------------------------------------------
(* parse_log.                                                               *)

Read(line) ==
  /\ pc = "reading" /\ Len(log) < MaxLines
  /\ log' = Append(log, line)
  /\ UNCHANGED <<selected, coordinates, gps>>

ReadSighting(line) ==
  /\ Read(line)
  /\ aps' = [aps EXCEPT ![line.bssid] = @ \cup {Len(log) + 1}]
  /\ UNCHANGED <<shotTime, pc>>

\* Mutant of ReadNewPhoto: the first one counts.
ReadNewPhotoOnce(line) ==
  /\ Read(line)
  /\ shotTime' = IF shotTime > 0 THEN shotTime ELSE line.time
  /\ UNCHANGED <<aps, pc>>

\* NEWPHOTO of the image: its latest one counts.
ReadNewPhoto(line) ==
  /\ Read(line)
  /\ shotTime' = line.time
  /\ UNCHANGED <<aps, pc>>

\* Mutant of ReadPowerOn: the sightings of the cycle before are kept.
ReadPowerOnKeeps(line) ==
  /\ Read(line)
  /\ pc' = IF shotTime > 0 THEN "parsed" ELSE "reading"
  /\ UNCHANGED <<shotTime, aps>>

\* POWERON ends the search if the photo was taken in the cycle before.
ReadPowerOn(line) ==
  /\ Read(line)
  /\ \/ shotTime > 0 /\ pc' = "parsed" /\ UNCHANGED <<shotTime, aps>>
     \/ shotTime = 0 /\ aps' = NoSightings /\ UNCHANGED <<shotTime, pc>>

ReadSkipped(line) == Read(line) /\ UNCHANGED <<shotTime, aps, pc>>

\* int() raises ValueError.
ReadBad(line) == Read(line) /\ pc' = "raised" /\ UNCHANGED <<shotTime, aps>>

ReadLine ==
  \/ \E line \in Sighting : ReadSighting(line)
  \/ \E line \in [action : {"NEWPHOTO"}, time : Times] : ReadNewPhoto(line)
  \/ \E line \in [action : {"POWERON"}] : ReadPowerOn(line)
  \/ \E line \in [action : {"skip"}] : ReadSkipped(line)
  \/ \E line \in [action : {"bad"}] : ReadBad(line)

EndOfLog ==
  /\ pc = "reading"
  /\ pc' = IF shotTime > 0 THEN "parsed" ELSE "none"
  /\ UNCHANGED <<log, shotTime, aps, selected, coordinates, gps>>

------------------------------------------------------------------------------
(* select_access_points.                                                    *)

Distance(i) == LET d == log[i].time - shotTime IN IF d < 0 THEN -d ELSE d

\* min() returns the first of the nearest sightings.
Closest(S, i) ==
  /\ i \in S
  /\ \A j \in S : Distance(i) < Distance(j) \/ (Distance(i) = Distance(j) /\ i <= j)

\* Mutant of Chosen: the last sighting, without regard to the shot.
ChosenLast(b) ==
  {i \in aps[b] : (\A j \in aps[b] : j <= i) /\ Distance(i) <= GeotagLag}

Chosen(b) == {i \in aps[b] : Closest(aps[b], i) /\ Distance(i) <= GeotagLag}

\* _pwr_to_dbm takes the logarithm of the reading.
Convertible == \A b \in Bssids : \A i \in Chosen(b) : log[i].pwr > 0

Select ==
  /\ pc = "parsed"
  /\ \/ ~Convertible /\ pc' = "raised" /\ UNCHANGED selected
     \/ /\ Convertible
        /\ selected' = [b \in Bssids |-> IF Chosen(b) = {} THEN 0 ELSE CHOOSE i \in Chosen(b) : TRUE]
        /\ pc' = IF \A b \in Bssids : Chosen(b) = {} THEN "no_aps" ELSE "asking"
  /\ UNCHANGED <<log, shotTime, aps, coordinates, gps>>

------------------------------------------------------------------------------
(* The coordinates.  geotag_image returns: what it read is dropped.         *)

\* int(): down, and from a whole number perhaps to the one before.
Truncated(x, unit) ==
  {x \div unit} \cup (IF x % unit = 0 /\ x > 0 THEN {x \div unit - 1} ELSE {})

\* round() to a tenth of the unit: midway between two, either.
Tenths(x) == {(x + 4) \div 10, (x + 5) \div 10}

\* Mutant of Seconds: 60.00 becomes 0.00, without a carry.
SecondsWrapped(x) == {s % 6000 : s \in Tenths(x)}

\* In hundredths.
Seconds(x) == Tenths(x)

\* _to_dms_rational: what is left over of a degree, and of a minute, goes on.
ToDms(value) ==
  LET v == IF value < 0 THEN -value ELSE value
      rest == v % 3600000
  IN UNION {{[degrees |-> v \div 3600000, minutes |-> m, seconds |-> s] :
                s \in Seconds(rest - 60000 * m)} : m \in Truncated(rest, 60000)}

Ref(value, positive, negative) == IF value >= 0 THEN positive ELSE negative

Drop ==
  /\ log' = << >> /\ shotTime' = 0 /\ aps' = NoSightings /\ selected' = NoneSelected

\* The backend answers None.
Unresolved ==
  /\ pc = "asking"
  /\ pc' = "unresolved" /\ Drop
  /\ UNCHANGED <<coordinates, gps>>

\* piexif raises before it writes the file; a write cut short is left out.
WriteFails ==
  /\ pc = "asking"
  /\ pc' = "raised" /\ Drop
  /\ UNCHANGED <<coordinates, gps>>

WriteGpsExif(lat, lon) ==
  /\ pc = "asking"
  /\ coordinates' = [latitude |-> lat, longitude |-> lon]
  /\ \E x \in ToDms(lat), y \in ToDms(lon) :
       gps' = [latitude |-> [ref |-> Ref(lat, "N", "S"), dms |-> x],
               longitude |-> [ref |-> Ref(lon, "E", "W"), dms |-> y]]
  /\ pc' = "tagged" /\ Drop

Next ==
  \/ ReadLine \/ EndOfLog \/ Select
  \/ Unresolved \/ WriteFails
  \/ \E lat, lon \in Positions : WriteGpsExif(lat, lon)

Spec == Init /\ [][Next]_vars

------------------------------------------------------------------------------
(* The log itself, by quantifiers over its lines.                           *)

Lines == 1..Len(log)

PowerOn(i) == log[i].action = "POWERON"
Marker(i) == log[i].action = "NEWPHOTO"

\* No card was switched on between the lines i and j.
SameCycle(i, j) == \A k \in Lines : PowerOn(k) => (k < i <=> k < j)

\* The last marker of its power cycle; a shot at second 0 is not found.
Shot(i) ==
  /\ i \in Lines /\ Marker(i) /\ log[i].time > 0
  /\ \A j \in Lines : Marker(j) /\ SameCycle(i, j) => j <= i

\* The shot that counts: that of the first cycle that has one.
TheShot(i) == Shot(i) /\ \A j \in Lines : Shot(j) => i <= j

SightingsAround(i, b) ==
  {j \in Lines : log[j].action = "AP" /\ log[j].bssid = b /\ SameCycle(i, j)}

------------------------------------------------------------------------------
(* Properties.                                                              *)

\* No card was switched on after the line i.
Current(i) == \A k \in Lines : PowerOn(k) => k < i

\* While parse_log reads on, no earlier cycle has the shot, shot_time is that
\* of this cycle, or 0, and aps are this cycle's sightings.
ParserInv ==
  /\ TypeOK
  /\ pc = "reading" =>
       /\ \A b \in Bssids :
            aps[b] = {j \in Lines : log[j].action = "AP" /\ log[j].bssid = b /\ Current(j)}
       /\ shotTime = 0 => \A i \in Lines : ~Shot(i)
       /\ shotTime > 0 => \E i \in Lines : /\ Shot(i) /\ Current(i) /\ shotTime = log[i].time
                                          /\ \A j \in Lines : Shot(j) => j = i

\* geotag.py:77-79: parse_log returns the photo's last NEWPHOTO in the first
\* power cycle that has one, with exactly that cycle's sightings, before and
\* after it; "none" means that there is none, in whatever order the lines come.
ParsedSession ==
  /\ pc \in {"parsed", "no_aps", "asking"} =>
       \E i \in Lines : /\ TheShot(i) /\ shotTime = log[i].time
                        /\ \A b \in Bssids : aps[b] = SightingsAround(i, b)
  /\ pc = "none" => \A i \in Lines : ~Shot(i)

\* geotag.py:22-23: the service is asked about an access point exactly if the
\* log has a sighting of it within the lag of the shot in the same power cycle,
\* and with the reading of one that no other is nearer than.
SelectedNearest ==
  pc \in {"asking", "no_aps"} =>
    \E i \in Lines :
      /\ TheShot(i)
      /\ \A b \in Bssids :
           LET near == {j \in SightingsAround(i, b) : Distance(j) <= GeotagLag}
           IN IF near = {} THEN selected[b] = 0
              ELSE selected[b] \in near /\ \A j \in near : Distance(selected[b]) <= Distance(j)

\* Read back, a tag is within half a hundredth of a second of the value.
ReadsBack(tag, value, negative) ==
  LET v == 3600000 * tag.dms.degrees + 60000 * tag.dms.minutes + 10 * tag.dms.seconds
      off == (IF tag.ref = negative THEN -v ELSE v) - value
  IN -5 <= off /\ off <= 5

\* geotag.py:144: degrees, minutes and seconds written are the coordinates, at
\* whole minutes and degrees and on either side of 0 too, though int() may fall
\* to the minute before and the seconds are rounded on their own, up to 60.00.
TagsAreCoordinates ==
  pc = "tagged" =>
    /\ ReadsBack(gps.latitude, coordinates.latitude, "S")
    /\ ReadsBack(gps.longitude, coordinates.longitude, "W")
==============================================================================
