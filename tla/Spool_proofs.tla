---------------------------- MODULE Spool_proofs ----------------------------
(***************************************************************************)
(* Proofs about Spool, for any number of photos, spool ids and retry runs  *)
(* and any number of outages, full disks and crashes.                      *)
(***************************************************************************)
EXTENDS Spool, TLAPS

\* Every run starts and ends as Idle.
LEMMA IdleState == Idle \in RunStates /\ Idle.pc = "idle"
BY DEF Idle, RunStates

\* The loop of retry_spool: it removes only a .json that is complete and has
\* no image, moves no run but its own, and stops at an entry it can upload or
\* not at all.
LEMMA ScanEffect ==
  ASSUME NEW r \in Runs, NEW todo \in SUBSET Ids,
         NEW im \in [Ids -> {"none", "partial", "whole"}],
         NEW mt \in [Ids -> {"none", "torn", "whole"}],
         run \in [Runs -> RunStates],
         Scan(r, todo, im, mt)
  PROVE  /\ meta' \in [Ids -> {"none", "torn", "whole"}]
         /\ \A i \in Ids : \/ meta'[i] = mt[i]
                           \/ meta'[i] = "none" /\ mt[i] = "whole" /\ im[i] = "none"
         /\ run' \in [Runs -> RunStates]
         /\ \A q \in Runs \ {r} : run'[q] = run[q]
         /\ \/ run'[r].pc = "idle"
            \/ /\ run'[r].pc = "uploading" /\ run'[r].at \in Ids
               /\ mt[run'[r].at] = "whole"
<1> DEFINE stops == {i \in todo : im[i] # "none" \/ mt[i] # "whole"}
           Unlinked(S) == [i \in Ids |-> IF i \in S THEN "none" ELSE mt[i]]
<1>1. CASE stops = {} /\ meta' = Unlinked(todo) /\ run' = [run EXCEPT ![r] = Idle]
  BY <1>1, IdleState
<1>2. ASSUME NEW m \in stops, \A k \in stops : m <= k,
             meta' = Unlinked({i \in todo : i < m}),
             \/ /\ mt[m] = "whole"
                /\ run' = [run EXCEPT ![r] =
                     [pc |-> "uploading", at |-> m, todo |-> {i \in todo : m < i}]]
             \/ mt[m] # "whole" /\ run' = [run EXCEPT ![r] = Idle]
      PROVE  /\ meta' \in [Ids -> {"none", "torn", "whole"}]
             /\ \A i \in Ids : \/ meta'[i] = mt[i]
                               \/ meta'[i] = "none" /\ mt[i] = "whole" /\ im[i] = "none"
             /\ run' \in [Runs -> RunStates]
             /\ \A q \in Runs \ {r} : run'[q] = run[q]
             /\ \/ run'[r].pc = "idle"
                \/ /\ run'[r].pc = "uploading" /\ run'[r].at \in Ids
                   /\ mt[run'[r].at] = "whole"
  <2>1. \A i \in todo : i < m => mt[i] = "whole" /\ im[i] = "none"
    BY <1>2, SpoolAssumption
  <2>2. [pc |-> "uploading", at |-> m, todo |-> {i \in todo : m < i}] \in RunStates
    BY DEF RunStates
  <2> QED
    BY <1>2, <2>1, <2>2, IdleState
<1> QED
  BY <1>1, <1>2 DEF Scan

\* What the loop does to an entry: it keeps it, or removes it for want of an image.
LEMMA ScanRemoves ==
  ASSUME NEW r \in Runs, NEW todo \in SUBSET Ids,
         NEW im \in [Ids -> {"none", "partial", "whole"}],
         NEW mt \in [Ids -> {"none", "torn", "whole"}],
         run \in [Runs -> RunStates],
         Scan(r, todo, im, mt)
  PROVE  \A i \in Ids : \/ meta'[i] = mt[i]
                        \/ meta'[i] = "none" /\ im[i] = "none"
BY ScanEffect

\* The spool directory is empty and nothing is under way at the start.
LEMMA InitInv == Init => SpoolInv
BY SpoolAssumption, IdleState
   DEF Init, SpoolInv, TypeOK, FilesInv, CallsInv, RunsInv, NoPhotoLost, CallStates, Ongoing

\* Writing an entry under a fresh id leaves every other entry alone.
LEMMA EntryWritten ==
  ASSUME TypeOK, NEW p \in Photos, NEW i \in Ids,
         NEW img \in {"partial", "whole"}, NEW met \in {"none", "torn", "whole"},
         WriteEntry(p, i, img, met)
  PROVE  /\ holds[i] = NoPhoto /\ holds'[i] = p /\ image'[i] = img /\ meta'[i] = met
         /\ \A j \in Ids \ {i} : /\ holds'[j] = holds[j]
                                 /\ image'[j] = image[j] /\ meta'[j] = meta[j]
         /\ image' \in [Ids -> {"none", "partial", "whole"}]
         /\ meta' \in [Ids -> {"none", "torn", "whole"}]
         /\ holds' \in [Ids -> Photos \cup {NoPhoto}]
BY DEF WriteEntry, TypeOK

\* No step of a store() call breaks the invariant.
LEMMA StoreStepInv ==
  ASSUME SpoolInv, NEW p \in Photos, StoreStep(p)
  PROVE  SpoolInv'
<1> USE SpoolAssumption
<1> SUFFICES ASSUME TypeOK, FilesInv, CallsInv, RunsInv, NoPhotoLost
             PROVE  TypeOK' /\ FilesInv' /\ CallsInv' /\ RunsInv' /\ NoPhotoLost'
  BY DEF SpoolInv
<1>1. CASE StoreBegin(p)
  BY <1>1 DEF StoreBegin, files, faults, TypeOK, FilesInv, CallsInv, RunsInv,
              NoPhotoLost, Spooled, CallStates
<1>2. CASE StoreLands(p)
  BY <1>2 DEF StoreLands, files, faults, TypeOK, FilesInv, CallsInv, RunsInv,
              NoPhotoLost, Spooled, CallStates
<1>3. CASE StoreReturns(p)
  BY <1>3 DEF StoreReturns, files, faults, TypeOK, FilesInv, CallsInv, RunsInv,
              NoPhotoLost, Spooled, CallStates
<1>4. CASE StoreRaises(p)
  BY <1>4 DEF StoreRaises, files, faults, TypeOK, FilesInv, CallsInv, RunsInv,
              NoPhotoLost, Spooled, CallStates
<1>5. CASE StoreSpools(p)
  <2>1. PICK i \in Ids : WriteEntry(p, i, "whole", "whole")
    BY <1>5 DEF StoreSpools
  <2>2. call' = [call EXCEPT ![p] = "returned"] /\ UNCHANGED <<run, delivered, faults>>
    BY <1>5 DEF StoreSpools
  <2> DEFINE Rest == \A j \in Ids \ {i} : /\ holds'[j] = holds[j]
                                          /\ image'[j] = image[j] /\ meta'[j] = meta[j]
  <2>3. /\ holds[i] = NoPhoto /\ holds'[i] = p /\ image'[i] = "whole" /\ meta'[i] = "whole"
        /\ Rest
    BY <2>1, EntryWritten
  <2>4. TypeOK'
    BY <2>1, <2>2, EntryWritten DEF TypeOK, CallStates, faults
  <2>5. FilesInv'
    BY <2>2, <2>3 DEF FilesInv
  <2>6. CallsInv'
    BY <2>2, <2>3 DEF CallsInv, TypeOK
  <2>7. RunsInv'
    <3>1. \A j \in Ids : holds[j] \in Photos => /\ holds'[j] = holds[j]
                                              /\ image'[j] = image[j] /\ meta'[j] = meta[j]
      BY <2>3
    <3>2. run' = run /\ delivered' = delivered
      BY <2>2
    <3> QED
      BY <3>1, <3>2 DEF RunsInv, Ongoing
  <2>8. NoPhotoLost'
    BY <2>2, <2>3 DEF NoPhotoLost, Spooled, TypeOK
  <2> QED
    BY <2>4, <2>5, <2>6, <2>7, <2>8
<1>6. CASE StoreSpoolFails(p)
  <2>1. PICK i \in Ids : WriteTornEntry(p, i)
    BY <1>6 DEF StoreSpoolFails
  <2>2. PICK img \in {"partial", "whole"}, met \in {"none", "torn"} : WriteEntry(p, i, img, met)
    BY <2>1 DEF WriteTornEntry
  <2>3. /\ call' = [call EXCEPT ![p] = "raised"]
        /\ diskFull < MaxDiskFull /\ diskFull' = diskFull + 1
        /\ UNCHANGED <<run, delivered, up, outages, crashes>>
    BY <1>6 DEF StoreSpoolFails
  <2> DEFINE Rest == \A j \in Ids \ {i} : /\ holds'[j] = holds[j]
                                          /\ image'[j] = image[j] /\ meta'[j] = meta[j]
  <2>4. holds[i] = NoPhoto /\ holds'[i] = p /\ image'[i] = img /\ meta'[i] = met /\ Rest
    BY <2>2, EntryWritten
  <2>5. TypeOK'
    <3>1. diskFull' \in 0..MaxDiskFull
      BY <2>3 DEF TypeOK
    <3> QED
      BY <2>2, <2>3, <3>1, EntryWritten DEF TypeOK, CallStates
  <2>6. FilesInv'
    BY <2>3, <2>4 DEF FilesInv
  <2>7. CallsInv'
    BY <2>3, <2>4 DEF CallsInv, TypeOK
  <2>8. RunsInv'
    <3>1. \A j \in Ids : holds[j] \in Photos => /\ holds'[j] = holds[j]
                                              /\ image'[j] = image[j] /\ meta'[j] = meta[j]
      BY <2>4
    <3>2. run' = run /\ delivered' = delivered
      BY <2>3
    <3> QED
      BY <3>1, <3>2 DEF RunsInv, Ongoing
  <2>9. NoPhotoLost'
    BY <2>3, <2>4 DEF NoPhotoLost, Spooled, TypeOK, FilesInv
  <2> QED
    BY <2>5, <2>6, <2>7, <2>8, <2>9
<1> QED
  BY <1>1, <1>2, <1>3, <1>4, <1>5, <1>6 DEF StoreStep

\* No step of a retry run breaks the invariant.
LEMMA RetryStepInv ==
  ASSUME SpoolInv, NEW r \in Runs, RetryStep(r)
  PROVE  SpoolInv'
<1> USE SpoolAssumption
<1> SUFFICES ASSUME TypeOK, FilesInv, CallsInv, RunsInv, NoPhotoLost
             PROVE  TypeOK' /\ FilesInv' /\ CallsInv' /\ RunsInv' /\ NoPhotoLost'
  BY DEF SpoolInv
\* A pass over the listing in which the files of a delivered entry may go.
<1>1. ASSUME NEW im \in [Ids -> {"none", "partial", "whole"}],
             NEW mt \in [Ids -> {"none", "torn", "whole"}],
             NEW todo \in SUBSET Ids, Scan(r, todo, im, mt), image' = im,
             \A i \in Ids : \/ im[i] = image[i] /\ mt[i] = meta[i]
                            \/ im[i] = "none" /\ mt[i] = "none" /\ holds[i] \in delivered,
             UNCHANGED <<holds, call, delivered, faults>>
      PROVE  TypeOK' /\ FilesInv' /\ CallsInv' /\ RunsInv' /\ NoPhotoLost'
  <2>1. /\ meta' \in [Ids -> {"none", "torn", "whole"}]
        /\ \A i \in Ids : \/ meta'[i] = mt[i]
                          \/ meta'[i] = "none" /\ mt[i] = "whole" /\ im[i] = "none"
        /\ run' \in [Runs -> RunStates]
        /\ \A q \in Runs \ {r} : run'[q] = run[q]
        /\ \/ run'[r].pc = "idle"
           \/ run'[r].pc = "uploading" /\ run'[r].at \in Ids /\ mt[run'[r].at] = "whole"
    BY <1>1, ScanEffect DEF TypeOK
  <2>2. TypeOK'
    BY <1>1, <2>1 DEF TypeOK, faults
  <2>3. FilesInv'
    BY <1>1, <2>1 DEF FilesInv
  <2>4. CallsInv'
    BY <1>1 DEF CallsInv
  <2>5. RunsInv'
    <3>1. \A i \in Ids : mt[i] = "whole" => holds[i] \in Photos
      BY <1>1 DEF FilesInv, TypeOK
    <3>2. ASSUME NEW i \in Ids, mt[i] = "whole", holds[i] \notin delivered
          PROVE  image'[i] = "whole" /\ meta'[i] = "whole"
      <4>1. im[i] = image[i] /\ mt[i] = meta[i] /\ image' = im
        BY <1>1, <3>2
      <4>2. image[i] = "whole"
        BY <4>1, <3>2 DEF FilesInv
      <4>3. meta'[i] = mt[i]
        BY <2>1, <4>1, <4>2
      <4> QED
        BY <3>2, <4>1, <4>2, <4>3
    <3>3. \A i \in Ids : image[i] = "whole" /\ meta[i] = "whole"
                       => \/ holds[i] \in delivered
                          \/ image'[i] = "whole" /\ meta'[i] = "whole"
      BY <1>1, <2>1
    <3>4. /\ Ongoing(run'[r].pc) => /\ run'[r].at \in Ids /\ holds[run'[r].at] \in Photos
                                   /\ \/ holds[run'[r].at] \in delivered
                                      \/ /\ image'[run'[r].at] = "whole"
                                         /\ meta'[run'[r].at] = "whole"
          /\ run'[r].pc # "landed"
      <4> DEFINE at == run'[r].at
      <4>1. run'[r].pc = "uploading" => at \in Ids /\ mt[at] = "whole"
        BY <2>1
      <4>2. run'[r].pc = "idle" \/ run'[r].pc = "uploading"
        BY <2>1
      <4> HIDE DEF at
      <4>3. run'[r].pc = "uploading" => /\ at \in Ids /\ holds[at] \in Photos
                                       /\ \/ holds[at] \in delivered
                                          \/ image'[at] = "whole" /\ meta'[at] = "whole"
        BY <4>1, <3>1, <3>2
      <4> QED
        BY <4>2, <4>3 DEF Ongoing, at
    <3>5. holds' = holds /\ delivered' = delivered
      BY <1>1
    <3>6. ASSUME NEW q \in Runs \ {r}
          PROVE  /\ Ongoing(run'[q].pc) => /\ run'[q].at \in Ids /\ holds[run'[q].at] \in Photos
                                          /\ \/ holds[run'[q].at] \in delivered
                                             \/ /\ image'[run'[q].at] = "whole"
                                                /\ meta'[run'[q].at] = "whole"
                 /\ run'[q].pc = "landed" => holds[run'[q].at] \in delivered
      <4>1. run'[q] = run[q]
        BY <2>1, <3>6
      <4> QED
        BY <3>3, <3>6, <4>1 DEF RunsInv
    <3> QED
      BY <3>4, <3>5, <3>6 DEF RunsInv
  <2>6. NoPhotoLost'
    <3>1. ASSUME NEW p \in Photos, Spooled(p), p \notin delivered
          PROVE  Spooled(p)'
      BY <1>1, <2>1, <3>1 DEF Spooled
    <3> QED
      BY <1>1, <3>1 DEF NoPhotoLost
  <2> QED
    BY <2>2, <2>3, <2>4, <2>5, <2>6
<1>2. CASE RetryStart(r)
  BY <1>1, <1>2 DEF RetryStart, TypeOK
<1>3. CASE RetryLands(r)
  <2>1. run[r].at \in Ids /\ holds[run[r].at] \in Photos
    BY <1>3 DEF RetryLands, RunsInv, Ongoing
  <2>2. run' \in [Runs -> RunStates]
    BY <1>3 DEF RetryLands, TypeOK, RunStates
  <2>3. \A q \in Runs : /\ run'[q].at = run[q].at
                        /\ q # r => run'[q].pc = run[q].pc
    BY <1>3 DEF RetryLands, TypeOK, RunStates
  <2>4. run[r].pc = "uploading" /\ run'[r].pc = "landed"
    BY <1>3 DEF RetryLands, TypeOK, RunStates
  <2> QED
    BY <1>3, <2>1, <2>2, <2>3, <2>4 DEF RetryLands, files, faults, TypeOK, FilesInv, CallsInv,
       RunsInv, NoPhotoLost, Spooled, Ongoing
<1>4. CASE RetryFlushes(r)
  <2>1. run[r].at \in Ids /\ holds[run[r].at] \in delivered
    BY <1>4 DEF RetryFlushes, RunsInv, Ongoing
  <2>2. run[r].todo \in SUBSET Ids
    BY DEF TypeOK, RunStates
  <2> DEFINE im == [image EXCEPT ![run[r].at] = "none"]
             mt == [meta EXCEPT ![run[r].at] = "none"]
  <2>3. /\ im \in [Ids -> {"none", "partial", "whole"}]
        /\ mt \in [Ids -> {"none", "torn", "whole"}]
        /\ \A i \in Ids : \/ im[i] = image[i] /\ mt[i] = meta[i]
                          \/ im[i] = "none" /\ mt[i] = "none" /\ holds[i] \in delivered
    BY <2>1 DEF TypeOK
  <2>4. /\ Scan(r, run[r].todo, image', mt) /\ image' = im
        /\ UNCHANGED <<holds, call, delivered, faults>>
    BY <1>4 DEF RetryFlushes
  <2>5. Scan(r, run[r].todo, im, mt)
    BY <2>4 DEF Scan
  <2> HIDE DEF im, mt
  <2> QED
    BY <1>1, <2>2, <2>3, <2>4, <2>5
<1>5. CASE RetryStaysSpooled(r)
  <2>1. run[r].todo \in SUBSET Ids
    BY DEF TypeOK, RunStates
  <2> QED
    BY <1>1, <1>5, <2>1 DEF RetryStaysSpooled, TypeOK
<1>6. CASE RetryAborts(r)
  BY <1>6, IdleState DEF RetryAborts, files, faults, TypeOK, FilesInv, CallsInv, RunsInv,
     NoPhotoLost, Spooled, Ongoing
<1> QED
  BY <1>2, <1>3, <1>4, <1>5, <1>6 DEF RetryStep

\* The destination going down or up and the process dying break nothing,
\* wherever in _spool or retry_spool the process stops.
LEMMA FaultInv ==
  ASSUME SpoolInv, Fault
  PROVE  SpoolInv'
<1> USE SpoolAssumption
<1> SUFFICES ASSUME TypeOK, FilesInv, CallsInv, RunsInv, NoPhotoLost
             PROVE  TypeOK' /\ FilesInv' /\ CallsInv' /\ RunsInv' /\ NoPhotoLost'
  BY DEF SpoolInv
<1>1. CASE DestinationGoesDown
  <2>1. outages' \in 0..MaxOutages
    BY <1>1 DEF DestinationGoesDown, TypeOK
  <2>2. UNCHANGED <<image, meta, holds, call, run, delivered, diskFull, crashes>> /\ up' = FALSE
    BY <1>1 DEF DestinationGoesDown, files
  <2>3. TypeOK'
    BY <2>1, <2>2 DEF TypeOK
  <2> QED
    BY <2>2, <2>3 DEF FilesInv, CallsInv, RunsInv, NoPhotoLost, Spooled
<1>2. CASE DestinationComesUp
  BY <1>2 DEF DestinationComesUp, files, TypeOK, FilesInv, CallsInv, RunsInv,
              NoPhotoLost, Spooled
<1>3. ASSUME ProcessDies
      PROVE  /\ crashes' \in 0..MaxCrashes
             /\ call' \in [Photos -> CallStates]
             /\ run' \in [Runs -> RunStates]
             /\ UNCHANGED <<delivered, up, outages, diskFull>>
             /\ RunsInv'
             /\ \A p \in Photos : \/ call'[p] = call[p] /\ ~Ongoing(call[p])
                                  \/ call'[p] = "lost" /\ Ongoing(call[p])
  BY <1>3, IdleState DEF ProcessDies, TypeOK, CallStates, RunsInv, Ongoing
<1>4. CASE Crash
  BY <1>3, <1>4 DEF Crash, files, TypeOK, FilesInv, CallsInv, NoPhotoLost, Spooled
<1>5. ASSUME NEW p \in Photos, CrashInSpool(p)
      PROVE  TypeOK' /\ FilesInv' /\ CallsInv' /\ RunsInv' /\ NoPhotoLost'
  <2>1. PICK i \in Ids : WriteTornEntry(p, i)
    BY <1>5 DEF CrashInSpool
  <2>2. PICK img \in {"partial", "whole"}, met \in {"none", "torn"} : WriteEntry(p, i, img, met)
    BY <2>1 DEF WriteTornEntry
  <2>3. ProcessDies /\ Ongoing(call[p])
    BY <1>5 DEF CrashInSpool
  <2> DEFINE Rest == \A j \in Ids \ {i} : /\ holds'[j] = holds[j]
                                          /\ image'[j] = image[j] /\ meta'[j] = meta[j]
  <2>4. holds[i] = NoPhoto /\ holds'[i] = p /\ image'[i] = img /\ meta'[i] = met /\ Rest
    BY <2>2, EntryWritten
  <2>5. TypeOK'
    BY <1>3, <2>2, <2>3, EntryWritten DEF TypeOK
  <2>6. FilesInv'
    BY <1>3, <2>3, <2>4 DEF FilesInv
  <2>7. CallsInv'
    BY <1>3, <2>3, <2>4 DEF CallsInv, Ongoing
  <2>8. NoPhotoLost'
    BY <1>3, <2>3, <2>4 DEF NoPhotoLost, Spooled, FilesInv
  <2> QED
    BY <1>3, <2>3, <2>5, <2>6, <2>7, <2>8
<1>6. ASSUME NEW r \in Runs, CrashInFlush(r)
      PROVE  TypeOK' /\ FilesInv' /\ CallsInv' /\ RunsInv' /\ NoPhotoLost'
  <2>1. run[r].at \in Ids /\ holds[run[r].at] \in delivered
    BY <1>6 DEF CrashInFlush, RunsInv, Ongoing
  <2>2. /\ image' = [image EXCEPT ![run[r].at] = "none"]
        /\ UNCHANGED <<meta, holds>> /\ ProcessDies
    BY <1>6 DEF CrashInFlush
  <2>3. TypeOK'
    BY <1>3, <2>1, <2>2 DEF TypeOK
  <2>4. FilesInv'
    BY <1>3, <2>1, <2>2 DEF FilesInv, TypeOK
  <2>5. CallsInv'
    BY <1>3, <2>2 DEF CallsInv
  <2>6. NoPhotoLost'
    BY <1>3, <2>1, <2>2 DEF NoPhotoLost, Spooled, TypeOK
  <2> QED
    BY <1>3, <2>2, <2>3, <2>4, <2>5, <2>6
<1> QED
  BY <1>1, <1>2, <1>4, <1>5, <1>6 DEF Fault

\* Files, calls and retry runs fit together in every reachable state.
THEOREM SpoolInvariant == Spec => []SpoolInv
<1>1. Init => SpoolInv
  BY InitInv
<1>2. SpoolInv /\ [Next]_vars => SpoolInv'
  <2> SUFFICES ASSUME SpoolInv, [Next]_vars
               PROVE  SpoolInv'
    OBVIOUS
  <2>1. CASE Next
    BY <2>1, StoreStepInv, RetryStepInv, FaultInv DEF Next
  <2>2. CASE UNCHANGED vars
    BY <2>2 DEF vars, SpoolInv, TypeOK, FilesInv, CallsInv, RunsInv, NoPhotoLost, Spooled
  <2> QED
    BY <2>1, <2>2
<1> QED
  BY <1>1, <1>2, PTL DEF Spec

\* What store() accepted is at the destination or in the spool, whatever the
\* number of photos, overlapping retry runs, outages and crashes.
THEOREM NoPhotoIsLost == Spec => []NoPhotoLost
<1>1. SpoolInv => NoPhotoLost
  BY DEF SpoolInv
<1> QED
  BY <1>1, SpoolInvariant, PTL

\* No step, of a retry run, a store() call or a crash, empties a complete
\* spool entry whose photo the destination has not got.
LEMMA OwedKept == SpoolInv /\ [Next]_vars => KeepsOwedEntries
<1> SUFFICES ASSUME SpoolInv, [Next]_vars, NEW i \in Ids,
                    image[i] = "whole", meta[i] = "whole",
                    ~(image'[i] = "whole" /\ meta'[i] = "whole")
             PROVE  holds[i] \in delivered
  BY DEF KeepsOwedEntries
<1> USE DEF SpoolInv
<1>1. holds[i] # NoPhoto
  BY DEF FilesInv
<1>2. ASSUME NEW p \in Photos, StoreStep(p)
      PROVE  FALSE
  BY <1>1, <1>2 DEF StoreStep, StoreBegin, StoreLands, StoreReturns, StoreSpools,
     StoreSpoolFails, StoreRaises, WriteTornEntry, WriteEntry, files, TypeOK
<1>3. ASSUME NEW r \in Runs, RetryStep(r)
      PROVE  holds[i] \in delivered
  <2>1. /\ run[r].todo \in SUBSET Ids
        /\ run \in [Runs -> RunStates]
        /\ image \in [Ids -> {"none", "partial", "whole"}]
        /\ meta \in [Ids -> {"none", "torn", "whole"}]
    BY <1>3 DEF TypeOK, RunStates
  <2>2. CASE RetryStart(r)
    <3>1. Scan(r, {k \in Ids : meta[k] # "none"}, image, meta) /\ image' = image
      BY <2>2 DEF RetryStart
    <3> QED
      BY <1>3, <2>1, <3>1, ScanRemoves
  <2>3. CASE RetryFlushes(r)
    <3> DEFINE im == [image EXCEPT ![run[r].at] = "none"]
               mt == [meta EXCEPT ![run[r].at] = "none"]
    <3>1. run[r].at \in Ids /\ holds[run[r].at] \in delivered
      BY <1>3, <2>3 DEF RetryFlushes, RunsInv, Ongoing
    <3>2. /\ im \in [Ids -> {"none", "partial", "whole"}]
          /\ mt \in [Ids -> {"none", "torn", "whole"}]
          /\ i # run[r].at => im[i] = "whole" /\ mt[i] = "whole"
      BY DEF TypeOK
    <3>3. Scan(r, run[r].todo, im, mt) /\ image' = im
      BY <2>3 DEF RetryFlushes, Scan
    <3> HIDE DEF im, mt
    <3>4. i # run[r].at => meta'[i] = "whole" /\ image'[i] = "whole"
      <4>1. meta'[i] = mt[i] \/ im[i] = "none"
        BY <1>3, <2>1, <3>2, <3>3, ScanRemoves
      <4> QED
        BY <3>2, <3>3, <4>1
    <3> QED
      BY <3>1, <3>4
  <2>4. CASE RetryStaysSpooled(r)
    <3>1. Scan(r, run[r].todo, image, meta) /\ image' = image
      BY <2>4 DEF RetryStaysSpooled
    <3> QED
      BY <1>3, <2>1, <3>1, ScanRemoves
  <2>5. CASE RetryLands(r) \/ RetryAborts(r)
    BY <2>5 DEF RetryLands, RetryAborts, files
  <2> QED
    BY <1>3, <2>2, <2>3, <2>4, <2>5 DEF RetryStep
<1>4. ASSUME NEW r \in Runs, CrashInFlush(r)
      PROVE  holds[i] \in delivered
  BY <1>4 DEF CrashInFlush, RunsInv, Ongoing, TypeOK
<1>5. ASSUME NEW p \in Photos, CrashInSpool(p)
      PROVE  FALSE
  BY <1>1, <1>5 DEF CrashInSpool, WriteTornEntry, WriteEntry, TypeOK
<1>6. CASE Crash \/ DestinationGoesDown \/ DestinationComesUp \/ UNCHANGED vars
  BY <1>6 DEF Crash, DestinationGoesDown, DestinationComesUp, files, vars
<1> QED
  BY <1>2, <1>3, <1>4, <1>5, <1>6 DEF Next, Fault

\* ... in every behaviour.
THEOREM FlushesOnlyDelivered == Spec => FlushOnlyDelivered
BY OwedKept, SpoolInvariant, PTL DEF Spec, FlushOnlyDelivered

\* The ledger of a photo depends on nothing but its delivery and its entry.
LEMMA LedgerOf ==
  ASSUME NEW p \in Photos
  PROVE  /\ p \in delivered => Ledger[p] = "delivered"
         /\ p \notin delivered /\ Spooled(p) => Ledger[p] = "owed"
         /\ p \notin delivered /\ ~Spooled(p) => Ledger[p] = "offered"
BY DEF Ledger

\* The answer of a call is "pending" until it ends.
LEMMA AnswerOf ==
  ASSUME NEW p \in Photos
  PROVE  /\ call[p] \in {"none", "uploading", "landed"} => Answer[p] = "pending"
         /\ call[p] \in {"returned", "raised", "lost"} => Answer[p] = call[p]
BY DEF Answer

\* A step that keeps every undelivered entry and every answer is a stutter of
\* the promise, or one delivery when the destination gains a photo.
LEMMA SameLedger ==
  ASSUME delivered' = delivered,
         \A p \in Photos : p \notin delivered => (Spooled(p)' <=> Spooled(p))
  PROVE  Ledger' = Ledger
BY DEF Ledger

\* Same answers, call by call.
LEMMA SameAnswer ==
  ASSUME \A p \in Photos :
           \/ call'[p] = call[p]
           \/ {call[p], call'[p]} \subseteq {"none", "uploading", "landed"}
  PROVE  Answer' = Answer
BY DEF Answer

\* The destination gains q and nothing else changes: the ledger moves at q.
LEMMA LedgerDelivers ==
  ASSUME NEW q \in Photos, delivered' = delivered \cup {q}, UNCHANGED files
  PROVE  Ledger' = [Ledger EXCEPT ![q] = "delivered"]
BY DEF Ledger, files, Spooled

\* One answer is given, the others stay.
LEMMA AnswerGiven ==
  ASSUME NEW p \in Photos, NEW a \in {"returned", "raised", "lost"},
         call \in [Photos -> CallStates], call' = [call EXCEPT ![p] = a]
  PROVE  Answer' = [Answer EXCEPT ![p] = a]
BY DEF Answer

\* Writing an entry changes what is spooled for its photo only, and only when
\* both files are complete.
LEMMA EntrySpooled ==
  ASSUME SpoolInv, NEW p \in Photos, NEW i \in Ids,
         NEW img \in {"partial", "whole"}, NEW met \in {"none", "torn", "whole"},
         WriteEntry(p, i, img, met)
  PROVE  /\ \A q \in Photos \ {p} : Spooled(q)' <=> Spooled(q)
         /\ img = "whole" /\ met = "whole" => Spooled(p)'
         /\ met # "whole" => (Spooled(p)' <=> Spooled(p))
<1>1. /\ holds[i] = NoPhoto /\ holds'[i] = p /\ image'[i] = img /\ meta'[i] = met
      /\ \A j \in Ids \ {i} : /\ holds'[j] = holds[j]
                             /\ image'[j] = image[j] /\ meta'[j] = meta[j]
  BY EntryWritten DEF SpoolInv
<1>2. meta[i] = "none"
  BY <1>1 DEF SpoolInv, FilesInv
<1> QED
  BY <1>1, <1>2, SpoolAssumption DEF Spooled

\* Every step of a store() call is a step of the promise, or none.
LEMMA StoreStepPromised ==
  ASSUME SpoolInv, NEW p \in Photos, StoreStep(p)
  PROVE  Promise!DeliveryNext \/ UNCHANGED <<Ledger, Answer>>
<1> USE DEF SpoolInv
<1>0. call \in [Photos -> CallStates]
  BY DEF TypeOK
<1>1. CASE StoreBegin(p)
  <2>1. UNCHANGED <<delivered, image, meta, holds>> /\ Answer' = Answer
    BY <1>0, <1>1, SameAnswer DEF StoreBegin, files
  <2> QED
    BY <2>1, SameLedger DEF Spooled
<1>2. CASE StoreLands(p)
  <2>1. /\ delivered' = delivered \cup {p} /\ UNCHANGED files
        /\ Answer' = Answer /\ Answer[p] = "pending"
    BY <1>0, <1>2, SameAnswer, AnswerOf DEF StoreLands
  <2>2. Ledger' = [Ledger EXCEPT ![p] = "delivered"]
    BY <2>1, LedgerDelivers
  <2>3. CASE p \in delivered
    BY <2>1, <2>2, <2>3, LedgerOf DEF Ledger
  <2>4. CASE p \notin delivered
    BY <2>1, <2>2, <2>4, LedgerOf DEF Promise!DeliveryNext, Promise!Deliver
  <2> QED
    BY <2>3, <2>4
<1>3. CASE StoreReturns(p) \/ StoreRaises(p)
  <2>1. PICK a \in {"returned", "raised"} :
          /\ call' = [call EXCEPT ![p] = a] /\ (a = "returned" => call[p] = "landed")
          /\ call[p] \in {"none", "uploading", "landed"}
          /\ UNCHANGED <<delivered, image, meta, holds>>
    BY <1>3 DEF StoreReturns, StoreRaises, files, Ongoing
  <2>2. Answer' = [Answer EXCEPT ![p] = a] /\ Answer[p] = "pending"
    BY <1>0, <2>1, AnswerGiven, AnswerOf
  <2>3. Ledger' = Ledger
    BY <2>1, SameLedger DEF Spooled
  <2>4. a = "returned" => Ledger[p] # "offered"
    BY <2>1, LedgerOf DEF CallsInv
  <2> QED
    BY <2>2, <2>3, <2>4 DEF Promise!DeliveryNext, Promise!Confirm, Promise!Refuse
<1>4. CASE StoreSpools(p)
  <2>1. PICK i \in Ids : WriteEntry(p, i, "whole", "whole")
    BY <1>4 DEF StoreSpools
  <2>2. /\ call' = [call EXCEPT ![p] = "returned"] /\ delivered' = delivered
        /\ call[p] \in {"none", "uploading", "landed"}
    BY <1>4 DEF StoreSpools, Ongoing
  <2>3. Answer' = [Answer EXCEPT ![p] = "returned"] /\ Answer[p] = "pending"
    BY <1>0, <2>2, AnswerGiven, AnswerOf
  <2>4. (\A q \in Photos \ {p} : Spooled(q)' <=> Spooled(q)) /\ Spooled(p)' /\ ~Spooled(p)
    BY <2>1, <2>2, EntrySpooled DEF CallsInv, Spooled
  <2>5. CASE p \in delivered
    <3>1. Ledger' = Ledger /\ Ledger[p] = "delivered"
      BY <2>2, <2>4, <2>5, SameLedger, LedgerOf
    <3> QED
      BY <2>3, <3>1 DEF Promise!DeliveryNext, Promise!Confirm
  <2>6. CASE p \notin delivered
    <3>1. Ledger[p] = "offered"
      BY <2>4, <2>6, LedgerOf
    <3>2. Ledger' = [Ledger EXCEPT ![p] = "owed"]
      BY <2>2, <2>4, <2>6 DEF Ledger
    <3> QED
      BY <2>3, <3>1, <3>2 DEF Promise!DeliveryNext, Promise!TakeOver
  <2> QED
    BY <2>5, <2>6
<1>5. CASE StoreSpoolFails(p)
  <2>1. PICK i \in Ids, img \in {"partial", "whole"}, met \in {"none", "torn"} :
          WriteEntry(p, i, img, met)
    BY <1>5 DEF StoreSpoolFails, WriteTornEntry
  <2>2. /\ call' = [call EXCEPT ![p] = "raised"] /\ delivered' = delivered
        /\ call[p] \in {"none", "uploading", "landed"}
    BY <1>5 DEF StoreSpoolFails, Ongoing
  <2>3. Answer' = [Answer EXCEPT ![p] = "raised"] /\ Answer[p] = "pending"
    BY <1>0, <2>2, AnswerGiven, AnswerOf
  <2>4. \A q \in Photos : Spooled(q)' <=> Spooled(q)
    BY <2>1, EntrySpooled
  <2>5. Ledger' = Ledger
    BY <2>2, <2>4, SameLedger
  <2> QED
    BY <2>3, <2>5 DEF Promise!DeliveryNext, Promise!Refuse
<1> QED
  BY <1>1, <1>2, <1>3, <1>4, <1>5 DEF StoreStep

\* Every step of a retry run is a delivery, or none of the promise's business.
LEMMA RetryStepPromised ==
  ASSUME SpoolInv, NEW r \in Runs, RetryStep(r)
  PROVE  Promise!DeliveryNext \/ UNCHANGED <<Ledger, Answer>>
<1> USE DEF SpoolInv
<1>1. UNCHANGED <<call, holds>>
  BY DEF RetryStep, RetryStart, RetryLands, RetryFlushes, RetryStaysSpooled, RetryAborts, files
<1>2. Answer' = Answer
  BY <1>1, SameAnswer
<1>3. CASE RetryLands(r)
  <2> DEFINE q == holds[run[r].at]
  <2>1. q \in Photos /\ (q \in delivered \/ Spooled(q))
    BY <1>3 DEF RetryLands, RunsInv, Ongoing, Spooled
  <2>2. delivered' = delivered \cup {q} /\ UNCHANGED files
    BY <1>3 DEF RetryLands
  <2> HIDE DEF q
  <2>3. Ledger' = [Ledger EXCEPT ![q] = "delivered"]
    BY <2>1, <2>2, LedgerDelivers
  <2>4. CASE q \in delivered
    BY <1>2, <2>1, <2>3, <2>4, LedgerOf DEF Ledger
  <2>5. CASE q \notin delivered
    <3>1. Ledger[q] = "owed"
      BY <2>1, <2>5, LedgerOf
    <3> QED
      BY <1>2, <2>1, <2>3, <3>1 DEF Promise!DeliveryNext, Promise!Deliver
  <2> QED
    BY <2>4, <2>5
<1>4. CASE ~RetryLands(r)
  <2>1. delivered' = delivered
    BY <1>4 DEF RetryStep, RetryStart, RetryFlushes, RetryStaysSpooled, RetryAborts
  <2>2. \A i \in Ids : image'[i] = "whole" /\ meta'[i] = "whole"
                     => image[i] = "whole" /\ meta[i] = "whole"
    <3>1. /\ run[r].todo \in SUBSET Ids
          /\ run \in [Runs -> RunStates]
          /\ image \in [Ids -> {"none", "partial", "whole"}]
          /\ meta \in [Ids -> {"none", "torn", "whole"}]
      BY DEF TypeOK, RunStates
    <3>2. CASE RetryStart(r)
      <4>1. Scan(r, {k \in Ids : meta[k] # "none"}, image, meta) /\ image' = image
        BY <3>2 DEF RetryStart
      <4> QED
        BY <3>1, <4>1, ScanRemoves
    <3>3. CASE RetryFlushes(r)
      <4> DEFINE im == [image EXCEPT ![run[r].at] = "none"]
                 mt == [meta EXCEPT ![run[r].at] = "none"]
      <4>1. /\ im \in [Ids -> {"none", "partial", "whole"}]
            /\ mt \in [Ids -> {"none", "torn", "whole"}]
            /\ \A i \in Ids : /\ im[i] = "whole" => image[i] = "whole"
                              /\ mt[i] = "whole" => meta[i] = "whole"
        BY DEF TypeOK
      <4>2. Scan(r, run[r].todo, im, mt) /\ image' = im
        BY <3>3 DEF RetryFlushes, Scan
      <4> HIDE DEF im, mt
      <4>3. \A i \in Ids : meta'[i] = "whole" => mt[i] = "whole"
        BY <3>1, <4>1, <4>2, ScanRemoves
      <4> QED
        BY <4>1, <4>2, <4>3
    <3>4. CASE RetryStaysSpooled(r)
      <4>1. Scan(r, run[r].todo, image, meta) /\ image' = image
        BY <3>4 DEF RetryStaysSpooled
      <4> QED
        BY <3>1, <4>1, ScanRemoves
    <3>5. CASE RetryAborts(r)
      BY <3>5 DEF RetryAborts, files
    <3> QED
      BY <1>4, <3>2, <3>3, <3>4, <3>5 DEF RetryStep
  <2>3. KeepsOwedEntries
    BY OwedKept DEF Next
  <2>4. ASSUME NEW p \in Photos, p \notin delivered
        PROVE  Spooled(p)' <=> Spooled(p)
    BY <1>1, <2>2, <2>3, <2>4 DEF KeepsOwedEntries, Spooled
  <2> QED
    BY <1>2, <2>1, <2>4, SameLedger
<1> QED
  BY <1>3, <1>4

\* An outage is invisible in the promise, and a crash abandons the calls under way.
LEMMA FaultPromised ==
  ASSUME SpoolInv, Fault
  PROVE  Promise!DeliveryNext \/ UNCHANGED <<Ledger, Answer>>
<1> USE DEF SpoolInv
<1>1. CASE DestinationGoesDown \/ DestinationComesUp
  <2>1. UNCHANGED <<call, delivered, image, meta, holds>>
    BY <1>1 DEF DestinationGoesDown, DestinationComesUp, files
  <2> QED
    BY <2>1, SameLedger, SameAnswer DEF Spooled
<1>2. ASSUME ProcessDies, \A p \in Photos : p \notin delivered => (Spooled(p)' <=> Spooled(p))
      PROVE  Promise!DeliveryNext
  <2>1. Ledger' = Ledger
    BY <1>2, SameLedger DEF ProcessDies
  <2>2. Promise!Abandon({p \in Photos : Ongoing(call[p])})
    BY <1>2, <2>1 DEF Promise!Abandon, ProcessDies, Answer, Ongoing, TypeOK, CallStates
  <2> QED
    BY <2>2 DEF Promise!DeliveryNext
<1>3. CASE Crash
  BY <1>2, <1>3 DEF Crash, files, Spooled
<1>4. ASSUME NEW p \in Photos, CrashInSpool(p)
      PROVE  Promise!DeliveryNext
  <2>1. PICK i \in Ids, img \in {"partial", "whole"}, met \in {"none", "torn"} :
          WriteEntry(p, i, img, met)
    BY <1>4 DEF CrashInSpool, WriteTornEntry
  <2>2. \A q \in Photos : Spooled(q)' <=> Spooled(q)
    BY <2>1, EntrySpooled
  <2> QED
    BY <1>2, <1>4, <2>2 DEF CrashInSpool
<1>5. ASSUME NEW r \in Runs, CrashInFlush(r)
      PROVE  Promise!DeliveryNext
  <2>1. run[r].at \in Ids /\ holds[run[r].at] \in delivered
    BY <1>5 DEF CrashInFlush, RunsInv, Ongoing
  <2>2. image' = [image EXCEPT ![run[r].at] = "none"] /\ UNCHANGED <<meta, holds>>
    BY <1>5 DEF CrashInFlush
  <2>3. \A p \in Photos : p \notin delivered => (Spooled(p)' <=> Spooled(p))
    BY <2>1, <2>2 DEF Spooled, TypeOK
  <2> QED
    BY <1>2, <1>5, <2>3 DEF CrashInFlush
<1> QED
  BY <1>1, <1>3, <1>4, <1>5 DEF Fault

\* The spool implements the promise of Delivery, step by step.
THEOREM SpoolImplementsDelivery == Spec => ImplementsDelivery
<1>1. Init => Promise!DeliveryInit
  BY DEF Init, Promise!DeliveryInit, Ledger, Answer, Spooled
<1>2. SpoolInv /\ [Next]_vars => [Promise!DeliveryNext]_(Promise!dvars)
  <2> SUFFICES ASSUME SpoolInv, [Next]_vars
               PROVE  Promise!DeliveryNext \/ UNCHANGED <<Ledger, Answer>>
    BY DEF Promise!dvars
  <2>1. CASE Next
    BY <2>1, StoreStepPromised, RetryStepPromised, FaultPromised DEF Next
  <2>2. CASE UNCHANGED vars
    BY <2>2 DEF vars, Ledger, Answer, Spooled
  <2> QED
    BY <2>1, <2>2
<1> QED
  BY <1>1, <1>2, SpoolInvariant, PTL DEF Spec, ImplementsDelivery, Promise!DeliverySpec

\* With a backend that turns every fault into StorageError and room on the
\* disk, store() never raises, so an outage costs no upload.  Both conditions
\* are needed: the runs cloud and poison drop one each.
THEOREM UnreachableIsHarmless ==
  ASSUME ~Escapes, MaxDiskFull = 0
  PROVE  Spec => []UnreachableLosesNothing
<1> DEFINE NoneRaised == \A p \in Photos : call[p] # "raised"
<1>1. Init => NoneRaised
  BY DEF Init
<1>2. SpoolInv /\ NoneRaised /\ [Next]_vars => NoneRaised'
  <2> SUFFICES ASSUME SpoolInv, NoneRaised, [Next]_vars
               PROVE  NoneRaised'
    OBVIOUS
  <2>1. call \in [Photos -> CallStates] /\ diskFull = 0
    BY SpoolAssumption DEF SpoolInv, TypeOK
  <2>2. ASSUME NEW p \in Photos, StoreStep(p)
        PROVE  NoneRaised'
    BY <2>1, <2>2 DEF StoreStep, StoreBegin, StoreLands, StoreReturns, StoreSpools,
       StoreSpoolFails, StoreRaises
  <2>3. ASSUME NEW r \in Runs, RetryStep(r)
        PROVE  NoneRaised'
    BY <2>3 DEF RetryStep, RetryStart, RetryLands, RetryFlushes, RetryStaysSpooled, RetryAborts
  <2>4. CASE Fault
    BY <2>1, <2>4 DEF Fault, DestinationGoesDown, DestinationComesUp, Crash, CrashInSpool,
       CrashInFlush, ProcessDies
  <2>5. CASE UNCHANGED vars
    BY <2>5 DEF vars
  <2> QED
    BY <2>2, <2>3, <2>4, <2>5 DEF Next
<1>3. SpoolInv /\ NoneRaised => UnreachableLosesNothing
  BY DEF SpoolInv, NoPhotoLost, UnreachableLosesNothing
<1> QED
  BY <1>1, <1>2, <1>3, SpoolInvariant, PTL DEF Spec

------------------------------------------------------------------------------
(* A run goes through all it has listed.                                    *)

\* The entry a run is at is not one of those still to come.
BehindTodo == \A r \in Runs : run[r].at \notin run[r].todo

\* A .json that is gone from what a run has listed was unlinked by another run,
\* and its photo is delivered.
FlushedAhead ==
  \A r \in Runs : \A j \in run[r].todo : meta[j] = "none" => holds[j] \in delivered

\* What is delivered stays so, under the id it was spooled under.
LEMMA DeliveredHeld ==
  ASSUME SpoolInv, [Next]_vars, NEW j \in Ids, holds[j] \in delivered
  PROVE  holds'[j] = holds[j] /\ delivered \subseteq delivered'
<1>1. holds \in [Ids -> Photos \cup {NoPhoto}] /\ holds[j] # NoPhoto
  BY SpoolAssumption DEF SpoolInv, TypeOK
<1>2. ASSUME NEW p \in Photos, StoreStep(p)
      PROVE  holds'[j] = holds[j] /\ delivered \subseteq delivered'
  BY <1>1, <1>2 DEF StoreStep, StoreBegin, StoreLands, StoreReturns, StoreSpools,
     StoreSpoolFails, StoreRaises, WriteTornEntry, WriteEntry, files
<1>3. ASSUME NEW r \in Runs, RetryStep(r)
      PROVE  holds' = holds /\ delivered \subseteq delivered'
  BY <1>3 DEF RetryStep, RetryStart, RetryLands, RetryFlushes, RetryStaysSpooled, RetryAborts,
     files
<1>4. ASSUME NEW p \in Photos, CrashInSpool(p)
      PROVE  holds'[j] = holds[j] /\ delivered' = delivered
  BY <1>1, <1>4 DEF CrashInSpool, ProcessDies, WriteTornEntry, WriteEntry
<1>5. CASE Crash \/ DestinationGoesDown \/ DestinationComesUp \/ UNCHANGED vars
           \/ \E r \in Runs : CrashInFlush(r)
  BY <1>5 DEF Crash, ProcessDies, DestinationGoesDown, DestinationComesUp, CrashInFlush, files,
     vars
<1> QED
  BY <1>2, <1>3, <1>4, <1>5 DEF Next, Fault

\* What a run has ahead after a step, it had before, or it has just listed it.
LEMMA TodoShrinks ==
  ASSUME SpoolInv, [Next]_vars, NEW r \in Runs, NEW j \in run'[r].todo
  PROVE  j \in Ids /\ (j \in run[r].todo \/ meta[j] # "none")
<1>1. run \in [Runs -> RunStates] /\ run[r].todo \in SUBSET Ids
  BY DEF SpoolInv, TypeOK, RunStates
<1>2. ASSUME NEW q \in Runs, NEW todo \in SUBSET Ids, NEW im, NEW mt, Scan(q, todo, im, mt)
      PROVE  j \in run[r].todo \/ (q = r /\ j \in todo)
  <2>1. ASSUME NEW k, run' = [run EXCEPT ![q] = k], k.todo \subseteq todo
        PROVE  j \in run[r].todo \/ (q = r /\ j \in todo)
    <3>1. CASE q = r
      <4>1. run'[r] = k
        BY <1>1, <2>1, <3>1
      <4> QED
        BY <2>1, <3>1, <4>1
    <3>2. CASE q # r
      <4>1. run'[r] = run[r]
        BY <1>1, <2>1, <3>2
      <4> QED
        BY <4>1
    <3> QED
      BY <3>1, <3>2
  <2>2. \E k : run' = [run EXCEPT ![q] = k] /\ k.todo \subseteq todo
    <3>1. Idle.todo = {}
      BY DEF Idle
    <3>2. CASE run' = [run EXCEPT ![q] = Idle]
      BY <3>1, <3>2
    <3>3. ASSUME NEW m,
                 run' = [run EXCEPT ![q] = [pc |-> "uploading", at |-> m,
                                            todo |-> {i \in todo : m < i}]]
          PROVE  \E k : run' = [run EXCEPT ![q] = k] /\ k.todo \subseteq todo
      <4> DEFINE k == [pc |-> "uploading", at |-> m, todo |-> {i \in todo : m < i}]
      <4>1. k.todo \subseteq todo
        OBVIOUS
      <4> QED
        BY <3>3, <4>1
    <3> QED
      BY <1>2, <3>2, <3>3 DEF Scan
  <2> QED
    BY <2>1, <2>2
<1>3. ASSUME NEW q \in Runs, RetryStep(q)
      PROVE  j \in Ids /\ (j \in run[r].todo \/ meta[j] # "none")
  <2>1. run[q].todo \in SUBSET Ids
    BY <1>1 DEF RunStates
  <2>2. CASE RetryStart(q)
    BY <1>1, <1>2, <2>2 DEF RetryStart
  <2>3. CASE RetryFlushes(q)
    <3>1. Scan(q, run[q].todo, image', [meta EXCEPT ![run[q].at] = "none"])
      BY <2>3 DEF RetryFlushes
    <3>2. \E im, mt : Scan(q, run[q].todo, im, mt)
      BY <3>1
    <3> QED
      BY <1>1, <1>2, <2>1, <3>2
  <2>4. CASE RetryStaysSpooled(q)
    BY <1>1, <1>2, <2>1, <2>4 DEF RetryStaysSpooled
  <2>5. CASE RetryLands(q)
    <3>1. run' = [run EXCEPT ![q].pc = "landed"]
      BY <2>5 DEF RetryLands
    <3>2. run'[r].todo = run[r].todo
      BY <1>1, <3>1 DEF RunStates
    <3> QED
      BY <1>1, <3>2
  <2>6. CASE RetryAborts(q)
    <3>1. run' = [run EXCEPT ![q] = Idle] /\ Idle.todo = {}
      BY <2>6 DEF RetryAborts, Idle
    <3>2. run'[r].todo = run[r].todo \/ run'[r].todo = {}
      BY <1>1, <3>1
    <3> QED
      BY <1>1, <3>2
  <2> QED
    BY <1>3, <2>2, <2>3, <2>4, <2>5, <2>6 DEF RetryStep
<1>4. CASE UNCHANGED run
  BY <1>1, <1>4
<1>5. CASE ProcessDies
  BY <1>5 DEF ProcessDies, Idle
<1> QED
  BY <1>3, <1>4, <1>5 DEF Next, StoreStep, StoreBegin, StoreLands, StoreReturns, StoreSpools,
     StoreSpoolFails, StoreRaises, Fault, DestinationGoesDown, DestinationComesUp, Crash,
     CrashInSpool, CrashInFlush, vars

\* Only a delivered photo's .json is unlinked, by whatever step.
LEMMA UnlinkedIsDelivered ==
  ASSUME SpoolInv, [Next]_vars, NEW j \in Ids, meta[j] # "none", meta'[j] = "none"
  PROVE  holds[j] \in delivered
<1>1. /\ image \in [Ids -> {"none", "partial", "whole"}]
      /\ meta \in [Ids -> {"none", "torn", "whole"}]
      /\ run \in [Runs -> RunStates]
  BY DEF SpoolInv, TypeOK
<1>2. holds[j] # NoPhoto
  BY DEF SpoolInv, FilesInv
<1>3. ASSUME NEW p \in Photos, StoreStep(p)
      PROVE  FALSE
  BY <1>1, <1>2, <1>3 DEF StoreStep, StoreBegin, StoreLands, StoreReturns, StoreSpools,
     StoreSpoolFails, StoreRaises, WriteTornEntry, WriteEntry, files
<1>4. ASSUME NEW r \in Runs, RetryStep(r)
      PROVE  holds[j] \in delivered
  <2>1. run[r].todo \in SUBSET Ids
    BY <1>1, <1>4 DEF RunStates
  <2>2. ASSUME NEW im \in [Ids -> {"none", "partial", "whole"}],
               NEW mt \in [Ids -> {"none", "torn", "whole"}],
               NEW todo \in SUBSET Ids, Scan(r, todo, im, mt),
               im[j] = image[j], mt[j] = meta[j]
        PROVE  holds[j] \in delivered
    <3>1. meta[j] = "whole" /\ image[j] = "none"
      BY <1>1, <2>2, ScanEffect
    <3> QED
      BY <3>1 DEF SpoolInv, FilesInv
  <2>3. CASE RetryStart(r)
    <3>1. Scan(r, {k \in Ids : meta[k] # "none"}, image, meta)
      BY <2>3 DEF RetryStart
    <3> QED
      BY <1>1, <2>2, <3>1
  <2>4. CASE RetryFlushes(r)
    <3>1. CASE run[r].at = j
      BY <2>4, <3>1 DEF RetryFlushes, SpoolInv, RunsInv
    <3>2. CASE run[r].at # j
      <4> DEFINE im == [image EXCEPT ![run[r].at] = "none"]
                 mt == [meta EXCEPT ![run[r].at] = "none"]
      <4>1. /\ im \in [Ids -> {"none", "partial", "whole"}] /\ im[j] = image[j]
            /\ mt \in [Ids -> {"none", "torn", "whole"}] /\ mt[j] = meta[j]
        BY <1>1, <3>2
      <4>2. Scan(r, run[r].todo, im, mt)
        BY <2>4 DEF RetryFlushes, Scan
      <4> HIDE DEF im, mt
      <4> QED
        BY <2>1, <2>2, <4>1, <4>2
    <3> QED
      BY <3>1, <3>2
  <2>5. CASE RetryStaysSpooled(r)
    <3>1. Scan(r, run[r].todo, image, meta)
      BY <2>5 DEF RetryStaysSpooled
    <3> QED
      BY <1>1, <2>1, <2>2, <3>1
  <2>6. CASE RetryLands(r) \/ RetryAborts(r)
    BY <2>6 DEF RetryLands, RetryAborts, files
  <2> QED
    BY <1>4, <2>3, <2>4, <2>5, <2>6 DEF RetryStep
<1>5. ASSUME NEW p \in Photos, CrashInSpool(p)
      PROVE  FALSE
  BY <1>1, <1>2, <1>5 DEF CrashInSpool, WriteTornEntry, WriteEntry
<1>6. CASE Crash \/ DestinationGoesDown \/ DestinationComesUp \/ UNCHANGED vars
           \/ \E r \in Runs : CrashInFlush(r)
  BY <1>6 DEF Crash, DestinationGoesDown, DestinationComesUp, CrashInFlush, files, vars
<1> QED
  BY <1>3, <1>4, <1>5, <1>6 DEF Next, Fault

\* What a run has listed, or has still to look at after a step, had a .json.
LEMMA FlushedAheadInv ==
  SpoolInv /\ FlushedAhead /\ [Next]_vars => FlushedAhead'
<1> SUFFICES ASSUME SpoolInv, FlushedAhead, [Next]_vars,
                    NEW r \in Runs, NEW j \in run'[r].todo, meta'[j] = "none"
             PROVE  holds'[j] \in delivered'
  BY DEF FlushedAhead
<1>1. /\ run \in [Runs -> RunStates] /\ meta \in [Ids -> {"none", "torn", "whole"}]
      /\ holds \in [Ids -> Photos \cup {NoPhoto}] /\ delivered \subseteq Photos
      /\ NoPhoto \notin Photos
  BY SpoolAssumption DEF SpoolInv, TypeOK
<1>2. j \in Ids /\ (j \in run[r].todo \/ meta[j] # "none")
  BY <1>1, TodoShrinks DEF RunStates
<1>3. holds[j] \in delivered
  BY <1>2, UnlinkedIsDelivered DEF FlushedAhead
<1>4. holds'[j] = holds[j] /\ delivered \subseteq delivered'
  BY <1>1, <1>2, <1>3, DeliveredHeld
<1> QED
  BY <1>3, <1>4

\* Run r goes on with the entries todo whose files are im and mt.
Covers(r, todo, im, mt) ==
  /\ run'[r].at \notin run'[r].todo
  /\ \A q \in Runs \ {r} : run'[q] = run[q]
  /\ \A i \in todo : im[i] # "none" =>
       \/ run'[r].pc = "uploading" /\ i \in run'[r].todo \cup {run'[r].at}
       \/ run'[r].pc = "idle" /\ \E j \in todo : (j < i \/ j = i) /\ mt[j] # "whole"

\* The rest of the loop passes over no entry that has its image, up to the first
\* whose .json it cannot read.
LEMMA ScanCovers ==
  ASSUME NEW r \in Runs, NEW todo \in SUBSET Ids,
         NEW im \in [Ids -> {"none", "partial", "whole"}],
         NEW mt \in [Ids -> {"none", "torn", "whole"}],
         run \in [Runs -> RunStates], Scan(r, todo, im, mt)
  PROVE  Covers(r, todo, im, mt)
<1> DEFINE stops == {i \in todo : im[i] # "none" \/ mt[i] # "whole"}
           Entered(m) == [pc |-> "uploading", at |-> m, todo |-> {i \in todo : m < i}]
<1> SUFFICES /\ run'[r].at \notin run'[r].todo
             /\ \A q \in Runs \ {r} : run'[q] = run[q]
             /\ \A i \in todo : im[i] # "none" =>
                  \/ run'[r].pc = "uploading" /\ i \in run'[r].todo \cup {run'[r].at}
                  \/ run'[r].pc = "idle" /\ \E j \in todo : (j < i \/ j = i) /\ mt[j] # "whole"
  BY DEF Covers
<1>1. \A i \in todo : i \in Nat
  BY SpoolAssumption
<1>2. CASE stops = {} /\ run' = [run EXCEPT ![r] = Idle]
  <2>1. run'[r] = Idle /\ \A q \in Runs \ {r} : run'[q] = run[q]
    BY <1>2
  <2> QED BY <1>2, <2>1 DEF Idle
<1>3. ASSUME NEW m \in stops, \A k \in stops : m <= k, mt[m] = "whole",
             run' = [run EXCEPT ![r] = Entered(m)]
      PROVE  /\ run'[r].at \notin run'[r].todo
             /\ \A q \in Runs \ {r} : run'[q] = run[q]
             /\ \A i \in todo : im[i] # "none" =>
                  run'[r].pc = "uploading" /\ i \in run'[r].todo \cup {run'[r].at}
  <2>1. run'[r] = Entered(m) /\ \A q \in Runs \ {r} : run'[q] = run[q]
    BY <1>3
  <2>2. run'[r].pc = "uploading" /\ run'[r].at = m /\ run'[r].todo = {i \in todo : m < i}
    BY <2>1
  <2>3. \A i \in todo : im[i] # "none" => m = i \/ m < i
    BY <1>1, <1>3
  <2> QED BY <1>1, <2>1, <2>2, <2>3
<1>4. ASSUME NEW m \in stops, \A k \in stops : m <= k, mt[m] # "whole",
             run' = [run EXCEPT ![r] = Idle]
      PROVE  /\ run'[r] = Idle
             /\ \A q \in Runs \ {r} : run'[q] = run[q]
             /\ \A i \in todo : im[i] # "none" =>
                  \E j \in todo : (j < i \/ j = i) /\ mt[j] # "whole"
  <2>1. \A i \in todo : im[i] # "none" => m = i \/ m < i
    BY <1>1, <1>4
  <2> QED BY <1>4, <2>1
<1> QED BY <1>2, <1>3, <1>4 DEF Scan, Idle

LEMMA RetryStepCovers ==
  ASSUME SpoolInv, BehindTodo, FlushedAhead, NEW r \in Runs, RetryStep(r)
  PROVE  BehindTodo' /\ PassesOverNone
<1>1. /\ run \in [Runs -> RunStates] /\ meta \in [Ids -> {"none", "torn", "whole"}]
      /\ image \in [Ids -> {"none", "partial", "whole"}]
  BY DEF SpoolInv, TypeOK
<1>2. run[r].todo \in SUBSET Ids /\ run[r] \in RunStates
  BY <1>1 DEF RunStates
<1>9. \A j \in Ahead(r) : meta[j] = "none" => holds[j] \in delivered
  BY DEF Ahead, FlushedAhead
\* The loop goes on over the entries ahead; the entry it was at may be gone.
<1>3. ASSUME NEW im \in [Ids -> {"none", "partial", "whole"}],
             NEW mt \in [Ids -> {"none", "torn", "whole"}],
             NEW todo \in SUBSET Ids, todo = Ahead(r),
             Scan(r, todo, im, mt), image' = im,
             \A j \in todo : mt[j] = meta[j],
             \A j \in todo : meta'[j] = "whole" => mt[j] = "whole"
      PROVE  BehindTodo' /\ PassesOverNone
  <2>1. /\ run'[r].at \notin run'[r].todo
        /\ \A q \in Runs \ {r} : run'[q] = run[q]
        /\ \A i \in todo : im[i] # "none" =>
             \/ run'[r].pc = "uploading" /\ i \in run'[r].todo \cup {run'[r].at}
             \/ run'[r].pc = "idle" /\ \E j \in todo : (j < i \/ j = i) /\ mt[j] # "whole"
    <3>1. run \in [Runs -> RunStates] /\ Scan(r, todo, im, mt)
      BY <1>1, <1>3
    <3>2. Covers(r, todo, im, mt)
      BY <3>1, ScanCovers
    <3> QED BY <3>2 DEF Covers
  <2>2. BehindTodo'
    BY <2>1 DEF BehindTodo
  <2>3. ASSUME NEW i \in Ahead(r), image'[i] = "whole", meta'[i] = "whole"
        PROVE  \/ Ongoing(run'[r].pc) /\ i \in run'[r].todo \cup {run'[r].at}
               \/ run'[r].pc = "idle" /\ CutShort(r, i)
    <3>1. i \in todo /\ im[i] # "none" /\ mt[i] = "whole"
      BY <1>3, <2>3
    <3>2. CASE run'[r].pc = "uploading" /\ i \in run'[r].todo \cup {run'[r].at}
      BY <3>2 DEF Ongoing
    <3>3. CASE run'[r].pc = "idle" /\ \E j \in todo : (j < i \/ j = i) /\ mt[j] # "whole"
      <4>1. PICK j \in todo : (j < i \/ j = i) /\ mt[j] # "whole"
        BY <3>3
      <4>2. j \in Ahead(r) /\ j < i /\ meta[j] # "whole" /\ meta[j] \in {"none", "torn", "whole"}
        BY <1>1, <1>3, <3>1, <4>1
      <4>3. \/ meta[j] = "torn"
            \/ meta[j] = "none" /\ holds[j] \in delivered
        BY <1>9, <4>2
      <4> QED BY <3>3, <4>2, <4>3 DEF CutShort
    <3> QED BY <2>1, <3>1, <3>2, <3>3
  <2> QED BY <2>1, <2>2, <2>3 DEF PassesOverNone
<1>4. CASE RetryStart(r)
  <2>1. Ahead(r) = {i \in Ids : meta[i] # "none"} /\ Ahead(r) \in SUBSET Ids
    BY <1>4 DEF RetryStart, Ahead
  <2>2. Scan(r, Ahead(r), image, meta) /\ image' = image
    BY <1>4, <2>1 DEF RetryStart
  <2>3. \A j \in Ids : meta'[j] = "whole" => meta[j] = "whole"
    BY <1>1, <2>1, <2>2, ScanRemoves
  <2> HIDE DEF Ahead
  <2> QED BY <1>1, <1>3, <2>1, <2>2, <2>3
<1>5. CASE RetryLands(r)
  <2>1. run' = [run EXCEPT ![r].pc = "landed"] /\ run[r].pc = "uploading"
    BY <1>5 DEF RetryLands
  <2>2. /\ run'[r].pc = "landed" /\ run'[r].at = run[r].at /\ run'[r].todo = run[r].todo
        /\ \A q \in Runs \ {r} : run'[q] = run[q]
    BY <1>1, <2>1 DEF RunStates
  <2>3. BehindTodo'
    BY <2>2 DEF BehindTodo
  <2>4. Ahead(r) = run[r].todo
    BY <2>1 DEF Ahead
  <2> QED BY <2>2, <2>3, <2>4 DEF PassesOverNone, Ongoing
<1>6. CASE RetryFlushes(r)
  <2> DEFINE mt == [meta EXCEPT ![run[r].at] = "none"]
  <2>1. Ahead(r) = run[r].todo /\ Scan(r, run[r].todo, image', mt)
    BY <1>6 DEF RetryFlushes, Ahead
  <2>2. image' \in [Ids -> {"none", "partial", "whole"}] /\ mt \in [Ids -> {"none", "torn", "whole"}]
    BY <1>1, <1>6 DEF RetryFlushes
  <2>3. run[r].at \notin run[r].todo
    BY DEF BehindTodo
  <2>4. \A j \in run[r].todo : mt[j] = meta[j]
    BY <1>1, <1>2, <2>3
  <2> HIDE DEF mt
  <2>5. PICK im : im = image'
    OBVIOUS
  <2>6. Scan(r, run[r].todo, im, mt) /\ im \in [Ids -> {"none", "partial", "whole"}]
    BY <2>1, <2>2, <2>5 DEF Scan
  <2>7. \A j \in Ids : meta'[j] = "whole" => mt[j] = "whole"
    BY <1>1, <1>2, <2>2, <2>6, ScanRemoves
  <2> QED BY <1>2, <1>3, <2>1, <2>2, <2>4, <2>5, <2>6, <2>7
<1>7. CASE RetryStaysSpooled(r)
  <2>1. Ahead(r) = run[r].todo
    BY <1>7 DEF RetryStaysSpooled, AttemptFails, Ongoing, Ahead
  <2>2. Scan(r, run[r].todo, image, meta) /\ image' = image
    BY <1>7 DEF RetryStaysSpooled
  <2>3. \A j \in Ids : meta'[j] = "whole" => meta[j] = "whole"
    BY <1>1, <1>2, <2>2, ScanRemoves
  <2> QED BY <1>1, <1>2, <1>3, <2>1, <2>2, <2>3
<1>8. CASE RetryAborts(r)
  <2>1. run'[r] = Idle /\ \A q \in Runs \ {r} : run'[q] = run[q]
    BY <1>1, <1>8 DEF RetryAborts
  <2>2. Escapes /\ AttemptFails(r)
    BY <1>8 DEF RetryAborts
  <2> QED BY <2>1, <2>2 DEF BehindTodo, PassesOverNone, CutShort, Idle
<1> QED BY <1>4, <1>5, <1>6, <1>7, <1>8 DEF RetryStep

LEMMA OthersCover ==
  ASSUME SpoolInv, BehindTodo, (\E p \in Photos : StoreStep(p)) \/ Fault \/ UNCHANGED vars
  PROVE  BehindTodo' /\ PassesOverNone
<1>1. CASE UNCHANGED run
  BY <1>1 DEF BehindTodo, PassesOverNone
<1>2. CASE ProcessDies
  <2>1. crashes \in Nat /\ crashes' = crashes + 1
    BY <1>2, SpoolAssumption DEF ProcessDies, SpoolInv, TypeOK
  <2>2. \A r \in Runs : run'[r] = Idle
    BY <1>2 DEF ProcessDies
  <2> QED BY <2>1, <2>2 DEF BehindTodo, PassesOverNone, CutShort, Idle
<1>3. UNCHANGED run \/ ProcessDies
  BY DEF StoreStep, StoreBegin, StoreLands, StoreReturns, StoreSpools, StoreSpoolFails,
     StoreRaises, Fault, DestinationGoesDown, DestinationComesUp, Crash, CrashInSpool,
     CrashInFlush, vars
<1> QED BY <1>1, <1>2, <1>3

\* retry_spool attempts every complete entry it has listed unless it is cut short
\* before it by a torn .json, by one that another run has unlinked for a delivered
\* photo, by an exception other than StorageError, or by the end of the process.
THEOREM RetriesSkipNone == Spec => RunsSkipNone
<1>1. Init => BehindTodo /\ FlushedAhead
  BY DEF Init, BehindTodo, FlushedAhead, Idle
<1>2. SpoolInv /\ BehindTodo /\ FlushedAhead /\ [Next]_vars
        => BehindTodo' /\ FlushedAhead' /\ PassesOverNone
  BY RetryStepCovers, OthersCover, FlushedAheadInv DEF Next
<1> QED BY <1>1, <1>2, SpoolInvariant, PTL DEF Spec, RunsSkipNone
=============================================================================
