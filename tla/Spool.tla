-------------------------------- MODULE Spool --------------------------------
(***************************************************************************)
(* eyefi_core.storage: SpoolingStorageBackend around one destination.      *)
(*                                                                         *)
(* A call store(p) attempts the upload; when the destination fails it with *)
(* StorageError the image and a .json file naming it are written to the    *)
(* spool directory under a fresh random id.  Runs of retry_spool() list    *)
(* the .json files and attempt each entry again, in file-name order.       *)
(*                                                                         *)
(* One action is what the event loop runs between two awaits: the only     *)
(* suspension points are the awaits of the wrapped backend's store(), so   *)
(* "unlink image, unlink meta, go on to the next entry" is one step for    *)
(* the other coroutines, but not for a process that dies in the middle.    *)
(***************************************************************************)
EXTENDS Naturals

CONSTANTS
  Photos,       \* images handed to store(), one call for each
  Ids,          \* spool ids in the order of their file names (uuid4, sorted)
  Runs,         \* runs of retry_spool() that may be active together
  NoPhoto,      \* "no spool entry has this id yet"
  Escapes,      \* the backend lets faults other than StorageError escape
  MaxOutages,   \* bound: times the destination becomes unreachable
  MaxDiskFull,  \* bound: times the spool directory runs out of space
  MaxCrashes    \* bound: times the process dies

ASSUME SpoolAssumption ==
  /\ Ids \subseteq Nat
  /\ NoPhoto \notin Photos
  /\ Escapes \in BOOLEAN
  /\ {MaxOutages, MaxDiskFull, MaxCrashes} \subseteq Nat

VARIABLES
  image,      \* id -> content of <id>_<name>:  "none", "partial" or "whole"
  meta,       \* id -> content of <id>.json:    "none", "torn" or "whole"
  holds,      \* id -> the photo spooled under it
  call,       \* photo -> where its store() call stands
  run,        \* run -> where it stands: pc, entry being uploaded, ids left
  delivered,  \* photos the destination has
  up,         \* the destination is reachable
  outages, diskFull, crashes    \* counters of the bounded faults

files == <<image, meta, holds>>
faults == <<up, outages, diskFull, crashes>>
vars == <<image, meta, holds, call, run, delivered, up, outages, diskFull, crashes>>

Idle == [pc |-> "idle", at |-> 0, todo |-> {}]

RunStates == [pc : {"idle", "uploading", "landed"},
              at : Ids \cup {0},
              todo : SUBSET Ids]

CallStates == {"none", "uploading", "landed", "returned", "raised", "lost"}

TypeOK ==
  /\ image \in [Ids -> {"none", "partial", "whole"}]
  /\ meta \in [Ids -> {"none", "torn", "whole"}]
  /\ holds \in [Ids -> Photos \cup {NoPhoto}]
  /\ call \in [Photos -> CallStates]
  /\ run \in [Runs -> RunStates]
  /\ delivered \subseteq Photos
  /\ up \in BOOLEAN
  /\ outages \in 0..MaxOutages
  /\ diskFull \in 0..MaxDiskFull
  /\ crashes \in 0..MaxCrashes

Init ==
  /\ image = [i \in Ids |-> "none"]
  /\ meta = [i \in Ids |-> "none"]
  /\ holds = [i \in Ids |-> NoPhoto]
  /\ call = [p \in Photos |-> "none"]
  /\ run = [r \in Runs |-> Idle]
  /\ delivered = {}
  /\ up = TRUE
  /\ outages = 0 /\ diskFull = 0 /\ crashes = 0

\* The photo can still be flushed: its image is in the spool and so is the
\* .json file that retry_spool() finds it by.
Spooled(p) == \E i \in Ids : /\ holds[i] = p
                             /\ image[i] = "whole" /\ meta[i] = "whole"

Ongoing(s) == s \in {"uploading", "landed"}

------------------------------------------------------------------------------
(* store(): the upload pipeline's call, soap_server.py and backfill.py.     *)

\* A caller hands a photo to store(): the upload attempt starts.
StoreBegin(p) ==
  /\ call[p] = "none"
  /\ call' = [call EXCEPT ![p] = "uploading"]
  /\ UNCHANGED <<files, run, delivered, faults>>

\* The destination takes the bytes; store() does not know yet.
StoreLands(p) ==
  /\ call[p] = "uploading" /\ up
  /\ call' = [call EXCEPT ![p] = "landed"]
  /\ delivered' = delivered \cup {p}
  /\ UNCHANGED <<files, run, faults>>

StoreReturns(p) ==
  /\ call[p] = "landed" /\ up
  /\ call' = [call EXCEPT ![p] = "returned"]
  /\ UNCHANGED <<files, run, delivered, faults>>

\* Mutant of WriteEntry: the id is not fresh, an older entry is overwritten.
WriteEntryAgain(p, i, img, met) ==
  /\ holds' = [holds EXCEPT ![i] = p]
  /\ image' = [image EXCEPT ![i] = img]
  /\ meta' = [meta EXCEPT ![i] = met]

\* What one call of _spool leaves under a fresh id i: img and met are the
\* contents of the image copied first and of the .json file written second.
WriteEntry(p, i, img, met) ==
  /\ holds[i] = NoPhoto
  /\ holds' = [holds EXCEPT ![i] = p]
  /\ image' = [image EXCEPT ![i] = img]
  /\ meta' = [meta EXCEPT ![i] = met]

\* Mutant of WriteTornEntry: the .json is written before the image.
WriteTornEntryJsonFirst(p, i) ==
  \/ WriteEntry(p, i, "none", "torn")
  \/ WriteEntry(p, i, "partial", "whole")

\* copy2() or write_text() stops in the middle, before or after the image is
\* complete.
WriteTornEntry(p, i) ==
  \/ WriteEntry(p, i, "partial", "none")
  \/ WriteEntry(p, i, "whole", "none")
  \/ WriteEntry(p, i, "whole", "torn")

\* The attempt fails with StorageError (possibly after the bytes landed: the
\* answer is lost) and _spool completes.
StoreSpools(p) ==
  /\ Ongoing(call[p]) /\ ~up
  /\ \E i \in Ids : WriteEntry(p, i, "whole", "whole")
  /\ call' = [call EXCEPT ![p] = "returned"]
  /\ UNCHANGED <<run, delivered, faults>>

\* Mutant of StoreSpoolFails: the OSError of _spool is swallowed.
StoreSpoolFailsSilently(p) ==
  /\ Ongoing(call[p]) /\ ~up
  /\ diskFull < MaxDiskFull
  /\ diskFull' = diskFull + 1
  /\ \E i \in Ids : WriteTornEntry(p, i)
  /\ call' = [call EXCEPT ![p] = "returned"]
  /\ UNCHANGED <<run, delivered, up, outages, crashes>>

\* The disk of the spool directory is full: _spool raises OSError half-way
\* and nothing cleans up after it.
StoreSpoolFails(p) ==
  /\ Ongoing(call[p]) /\ ~up
  /\ diskFull < MaxDiskFull
  /\ diskFull' = diskFull + 1
  /\ \E i \in Ids : WriteTornEntry(p, i)
  /\ call' = [call EXCEPT ![p] = "raised"]
  /\ UNCHANGED <<run, delivered, up, outages, crashes>>

\* Mutant of StoreRaises: a backend on the file system forgets to turn its
\* OSError into StorageError.
StoreRaisesOSError(p) ==
  /\ Ongoing(call[p]) /\ ~up
  /\ call' = [call EXCEPT ![p] = "raised"]
  /\ UNCHANGED <<files, run, delivered, faults>>

\* A connection error of a cloud backend is not a StorageError: store()
\* lets it out and spools nothing.
StoreRaises(p) ==
  /\ Escapes
  /\ Ongoing(call[p]) /\ ~up
  /\ call' = [call EXCEPT ![p] = "raised"]
  /\ UNCHANGED <<files, run, delivered, faults>>

------------------------------------------------------------------------------
(* retry_spool(): every five minutes from __init__.py, one call not waiting *)
(* for the previous one.                                                    *)

\* Mutant of Scan: an entry whose image is gone ends the run.
ScanReturns(r, todo, im, mt) ==
  \/ todo = {} /\ meta' = mt /\ run' = [run EXCEPT ![r] = Idle]
  \/ \E m \in todo :
       /\ \A k \in todo : m <= k
       /\ meta' = IF im[m] = "none" THEN [mt EXCEPT ![m] = "none"] ELSE mt
       /\ run' = [run EXCEPT ![r] =
            IF im[m] # "none" /\ mt[m] = "whole"
            THEN [pc |-> "uploading", at |-> m, todo |-> todo \ {m}] ELSE Idle]

\* Run r goes on with the listed entries todo, the files being im and mt: it
\* unlinks the .json files whose image is gone up to the first entry m that
\* has one (its upload begins) or whose .json it cannot read (the exception
\* ends the run, with the entries after m untried).
Scan(r, todo, im, mt) ==
  LET stops == {i \in todo : im[i] # "none" \/ mt[i] # "whole"}
      UnlinkStale(S) == meta' = [i \in Ids |-> IF i \in S THEN "none" ELSE mt[i]]
  IN \/ /\ stops = {}
        /\ UnlinkStale(todo)
        /\ run' = [run EXCEPT ![r] = Idle]
     \/ \E m \in stops :
          /\ \A k \in stops : m <= k
          /\ UnlinkStale({i \in todo : i < m})
          /\ \/ /\ mt[m] = "whole"
                /\ run' = [run EXCEPT ![r] =
                             [pc |-> "uploading", at |-> m, todo |-> {i \in todo : m < i}]]
             \/ /\ mt[m] # "whole"
                /\ run' = [run EXCEPT ![r] = Idle]

RetryStart(r) ==
  /\ run[r].pc = "idle"
  /\ Scan(r, {i \in Ids : meta[i] # "none"}, image, meta)
  /\ UNCHANGED <<image, holds, call, delivered, faults>>

RetryLands(r) ==
  /\ run[r].pc = "uploading" /\ up
  /\ run' = [run EXCEPT ![r].pc = "landed"]
  /\ delivered' = delivered \cup {holds[run[r].at]}
  /\ UNCHANGED <<files, call, faults>>

\* store() returned: both files are unlinked (another run may have done so
\* already) and the loop goes on.
RetryFlushes(r) ==
  /\ run[r].pc = "landed" /\ up
  /\ image' = [image EXCEPT ![run[r].at] = "none"]
  /\ Scan(r, run[r].todo, image', [meta EXCEPT ![run[r].at] = "none"])
  /\ UNCHANGED <<holds, call, delivered, faults>>

\* The attempt of run r fails: the destination is out of reach, or another
\* run has unlinked the image before the backend opened it.
AttemptFails(r) ==
  /\ Ongoing(run[r].pc)
  /\ ~up \/ (run[r].pc = "uploading" /\ image[run[r].at] = "none")

\* Mutant of RetryStaysSpooled: no "continue", the entry is unlinked anyway.
RetryDropsEntry(r) ==
  /\ AttemptFails(r)
  /\ image' = [image EXCEPT ![run[r].at] = "none"]
  /\ Scan(r, run[r].todo, image', [meta EXCEPT ![run[r].at] = "none"])
  /\ UNCHANGED <<holds, call, delivered, faults>>

\* ... with StorageError: the entry stays and the loop goes on.
RetryStaysSpooled(r) ==
  /\ AttemptFails(r)
  /\ Scan(r, run[r].todo, image, meta)
  /\ UNCHANGED <<image, holds, call, delivered, faults>>

\* ... with another exception: it ends the run.
RetryAborts(r) ==
  /\ Escapes
  /\ AttemptFails(r)
  /\ run' = [run EXCEPT ![r] = Idle]
  /\ UNCHANGED <<files, call, delivered, faults>>

------------------------------------------------------------------------------
(* The destination and the process.                                         *)

DestinationGoesDown ==
  /\ up /\ outages < MaxOutages
  /\ up' = FALSE /\ outages' = outages + 1
  /\ UNCHANGED <<files, call, run, delivered, diskFull, crashes>>

DestinationComesUp ==
  /\ ~up
  /\ up' = TRUE
  /\ UNCHANGED <<files, call, run, delivered, outages, diskFull, crashes>>

\* The process dies: every coroutine is gone, the files stay.
ProcessDies ==
  /\ crashes < MaxCrashes
  /\ crashes' = crashes + 1
  /\ call' = [p \in Photos |-> IF Ongoing(call[p]) THEN "lost" ELSE call[p]]
  /\ run' = [r \in Runs |-> Idle]
  /\ UNCHANGED <<delivered, up, outages, diskFull>>

Crash == ProcessDies /\ UNCHANGED files

\* ... between the writes of _spool,
CrashInSpool(p) ==
  /\ Ongoing(call[p]) /\ ~up
  /\ \E i \in Ids : WriteTornEntry(p, i)
  /\ ProcessDies

\* ... or between the two unlinks of retry_spool.
CrashInFlush(r) ==
  /\ run[r].pc = "landed" /\ up
  /\ image' = [image EXCEPT ![run[r].at] = "none"]
  /\ UNCHANGED <<meta, holds>>
  /\ ProcessDies

StoreStep(p) ==
  \/ StoreBegin(p) \/ StoreLands(p) \/ StoreReturns(p)
  \/ StoreSpools(p) \/ StoreSpoolFails(p) \/ StoreRaises(p)

RetryStep(r) ==
  \/ RetryStart(r) \/ RetryLands(r) \/ RetryFlushes(r)
  \/ RetryStaysSpooled(r) \/ RetryAborts(r)

Fault ==
  \/ DestinationGoesDown \/ DestinationComesUp
  \/ Crash
  \/ \E p \in Photos : CrashInSpool(p)
  \/ \E r \in Runs : CrashInFlush(r)

Next ==
  \/ \E p \in Photos : StoreStep(p)
  \/ \E r \in Runs : RetryStep(r)
  \/ Fault

Spec == Init /\ [][Next]_vars

\* The event loop runs every coroutine that can go on, the five-minute timer
\* keeps ticking, an attempt ends one way or the other, and an outage ends.
FairSpec ==
  /\ Spec
  /\ WF_vars(DestinationComesUp)
  /\ \A p \in Photos : WF_vars(StoreStep(p))
  /\ \A r \in Runs : WF_vars(RetryStep(r))

------------------------------------------------------------------------------
(* Properties.                                                              *)

\* A photo whose store() returned is at the destination, or still in the spool
\* as a complete entry: across outages, lost answers, overlapping retry runs
\* and a process that dies anywhere, StorageError never costs a photo.
NoPhotoLost ==
  \A p \in Photos : call[p] = "returned" => p \in delivered \/ Spooled(p)

\* An id is written once, and a complete .json has its image unless the photo
\* was delivered: what the "not image_path.exists()" branch of retry_spool
\* unlinks is owed to nobody.
FilesInv ==
  \A i \in Ids : /\ holds[i] = NoPhoto => image[i] = "none" /\ meta[i] = "none"
                 /\ meta[i] = "whole" => image[i] = "whole" \/ holds[i] \in delivered

\* A call that has not ended has spooled nothing.
CallsInv ==
  \A p \in Photos : /\ call[p] = "landed" => p \in delivered
                    /\ call[p] \in {"none", "uploading", "landed"}
                         => \A i \in Ids : holds[i] # p

\* A suspended retry run still stands for a real photo: other runs may have
\* unlinked the entry meanwhile, but only after its delivery.
RunsInv ==
  \A r \in Runs :
    /\ Ongoing(run[r].pc) => /\ run[r].at \in Ids /\ holds[run[r].at] \in Photos
                             /\ \/ holds[run[r].at] \in delivered
                                \/ image[run[r].at] = "whole" /\ meta[run[r].at] = "whole"
    /\ run[r].pc = "landed" => holds[run[r].at] \in delivered

\* What holds between any two steps of the event loop.
SpoolInv == TypeOK /\ FilesInv /\ CallsInv /\ RunsInv /\ NoPhotoLost

\* Whatever run or crash empties a complete entry, its photo was delivered
\* before: no step drops one that is still owed.
KeepsOwedEntries ==
  \A i \in Ids : /\ image[i] = "whole" /\ meta[i] = "whole"
                 /\ ~(image'[i] = "whole" /\ meta'[i] = "whole")
                 => holds[i] \in delivered

\* ... in any behaviour: retry_spool unlinks an image after store() returned
\* for it, never on the way to a failure.
FlushOnlyDelivered == [][KeepsOwedEntries]_vars

\* What run r has still to look at.
Ahead(r) == IF run[r].pc = "idle" THEN {i \in Ids : meta[i] # "none"} ELSE run[r].todo

\* What ends a run before the entry i: a torn .json; a .json that another run
\* has unlinked since this one listed it; an exception of the backend; the end
\* of the process.
CutShort(r, i) ==
  \/ \E j \in Ahead(r) : j < i /\ meta[j] = "torn"
  \/ \E j \in Ahead(r) : j < i /\ meta[j] = "none" /\ holds[j] \in delivered
  \/ Escapes /\ AttemptFails(r)
  \/ crashes' # crashes

PassesOverNone ==
  \A r \in Runs : run'[r] # run[r] =>
    \A i \in Ahead(r) : image'[i] = "whole" /\ meta'[i] = "whole" =>
      \/ Ongoing(run'[r].pc) /\ i \in run'[r].todo \cup {run'[r].at}
      \/ run'[r].pc = "idle" /\ CutShort(r, i)

\* storage/__init__.py:60-71: a run that goes on passes over no complete entry it
\* has listed, and neither an upload that fails nor a stale .json ends it.  What
\* does end it before a complete entry is one of four things.  One is the overlap
\* with another run: read_text of a .json that the other has unlinked meanwhile
\* raises outside the try, but the photo of that one is delivered by then.
RunsSkipNone == [][PassesOverNone]_vars

\* README.md:98-99: a temporarily unreachable destination does not lose the
\* upload: a store() that ended, in a process that lives on, has delivered
\* the photo or has it in the spool.
UnreachableLosesNothing ==
  \A p \in Photos : call[p] \in {"returned", "raised"} => p \in delivered \/ Spooled(p)

\* storage/__init__.py:31-34: calling retry_spool() periodically flushes
\* whatever accumulated while the destination was unreachable.
SpoolFlushed ==
  \A p \in Photos : Spooled(p) ~> p \in delivered

\* The ledger and the answers that the files, the destination and the
\* coroutines amount to.
Ledger == [p \in Photos |-> CASE p \in delivered -> "delivered"
                              [] p \notin delivered /\ Spooled(p) -> "owed"
                              [] OTHER -> "offered"]
Answer == [p \in Photos |-> IF call[p] \in {"none", "uploading", "landed"}
                            THEN "pending" ELSE call[p]]

Promise == INSTANCE Delivery WITH ledger <- Ledger, answer <- Answer

\* Every behaviour of the spool is one the callers of store() were promised.
ImplementsDelivery == Promise!DeliverySpec
==============================================================================
