--------------------------- MODULE UploadPipeline ---------------------------
(***************************************************************************)
(* eyefi_core.soap_server: from a card's UploadPhoto request to the call   *)
(* of store().                                                             *)
(*                                                                         *)
(* A card posts a photo; the handler verifies the digest and unpacks the   *)
(* tar in executor threads, starts one background task per image and       *)
(* answers SUCCESS.  The task publishes events, lets the geotagger rewrite *)
(* the image in place, and hands it to the storage backend, of which only  *)
(* the promise of Delivery is used.  A request is one attempt of a card to *)
(* post a photo; every attempt of one photo unpacks to the same file, and  *)
(* calls of the backfill service rewrite that file in place next to them   *)
(* (what becomes of such a call is Backfill's subject).                    *)
(*                                                                         *)
(* One action is what one executor job does, or what the event loop runs   *)
(* between two awaits.                                                     *)
(***************************************************************************)
EXTENDS Naturals, FiniteSets

CONSTANTS
  Photos,       \* the photos on the cards
  MaxSends,     \* bound: attempts of a card to post one photo
  SyncRaisers,  \* the events a synchronous subscriber raises on
  MaxDrops,     \* bound: answers lost, and cards that do not wait for one
  MaxDiskFull,  \* bound: times a write to the download directory fails
  MaxEnds,      \* bound: times the config entry is unloaded or the process dies
  MaxRetags     \* bound: times backfill comes to rewrite a file

Events == {"received", "geotagged", "stored"}

ASSUME PipelineAssumption ==
  /\ MaxSends \in Nat \ {0}
  /\ SyncRaisers \subseteq Events
  /\ {MaxDrops, MaxDiskFull, MaxEnds, MaxRetags} \subseteq Nat

Reqs == Photos \X (1..MaxSends)

\* Among the writers of a file: the calls of backfill, of which the first begins
\* and the last ends its rewrite.
Calls(p) == <<p, 0>>

Writers == Reqs \cup {Calls(p) : p \in Photos}

VARIABLES
  card,      \* photo -> "holds", "waits" or "done" (the card got SUCCESS)
  sends,     \* photo -> attempts made
  handler,   \* request -> where _handle_upload stands
  task,      \* request -> where _process_upload stands
  fired,     \* request -> events its task has published
  disk,      \* photo -> its file: "none", "torn", "mixed", "plain" or "tagged"
  writers,   \* photo -> the requests (or Calls) whose executor job is writing the file
  crossed,   \* photos backfill rewrote while others wrote, or storage read, the file,
             \* or rewrote badly (history)
  server,    \* "down", "up" or "stopping"
  tracked,   \* _background_tasks of the server that is up or stopping
  copy,      \* request -> what store() took of the file
  ledger, answer,   \* request -> the promise of Delivery, one store() each
  drops, diskFull, ends, retags   \* counters of what is bounded

vars == <<card, sends, handler, task, fired, disk, writers, crossed, server, tracked,
          copy, ledger, answer, drops, diskFull, ends, retags>>
cardSide == <<card, sends>>
files == <<disk, writers, crossed>>
store == <<ledger, answer, copy>>
life == <<server, tracked>>
counters == <<drops, diskFull, ends, retags>>

Storage == INSTANCE Delivery WITH Photos <- Reqs

Contents == {"none", "torn", "plain", "tagged"}
Handling == {"verifying", "extracting", "replying"}
Alive == {"created", "looking_up", "tagging", "storing"}

TypeOK ==
  /\ card \in [Photos -> {"holds", "waits", "done"}]
  /\ sends \in [Photos -> 0..MaxSends]
  /\ handler \in [Reqs -> {"none", "gone"} \cup Handling]
  /\ task \in [Reqs -> {"none", "ended", "raised", "refused", "cancelled", "killed"} \cup Alive]
  /\ fired \in [Reqs -> SUBSET Events]
  /\ disk \in [Photos -> Contents \cup {"mixed"}]
  /\ writers \in [Photos -> SUBSET Writers]
  /\ crossed \subseteq Photos
  /\ server \in {"down", "up", "stopping"}
  /\ tracked \subseteq Reqs
  /\ copy \in [Reqs -> Contents]
  /\ Storage!DeliveryTypeOK
  /\ drops \in 0..MaxDrops /\ diskFull \in 0..MaxDiskFull
  /\ ends \in 0..MaxEnds /\ retags \in 0..MaxRetags

Init ==
  /\ card = [p \in Photos |-> "holds"]
  /\ sends = [p \in Photos |-> 0]
  /\ handler = [r \in Reqs |-> "none"]
  /\ task = [r \in Reqs |-> "none"]
  /\ fired = [r \in Reqs |-> {}]
  /\ disk = [p \in Photos |-> "none"]
  /\ writers = [p \in Photos |-> {}] /\ crossed = {}
  /\ server = "up" /\ tracked = {}
  /\ copy = [r \in Reqs |-> "none"]
  /\ Storage!DeliveryInit
  /\ drops = 0 /\ diskFull = 0 /\ ends = 0 /\ retags = 0

Photo(r) == r[1]

\* The card still waits for the answer to this very request.
Awaited(r) == card[Photo(r)] = "waits" /\ sends[Photo(r)] = r[2]

------------------------------------------------------------------------------
(* The file of a photo, written in place by executor jobs.                  *)

\* A job opens the file for writing: until it ends, readers see a torn file.
Opens(p, job) ==
  /\ writers' = [writers EXCEPT ![p] = @ \cup {job}]
  /\ disk' = [disk EXCEPT ![p] = IF writers[p] = {} THEN "torn" ELSE "mixed"]

\* The job ends.  Jobs that overlapped wrote at their own offsets, nothing
\* orders them: the file is what the last one wrote, or a mixture.
Closes(p, job, content) ==
  /\ writers' = [writers EXCEPT ![p] = @ \ {job}]
  /\ \/ writers[p] # {job} /\ UNCHANGED disk
     \/ writers[p] = {job} /\ disk' = [disk EXCEPT ![p] = content]
     \/ /\ writers[p] = {job} /\ disk[p] = "mixed"
        /\ disk' = [disk EXCEPT ![p] = "torn"]

\* The file is written or read by the pipeline, while backfill rewrites it or not.
Meets(p) == crossed' = IF Calls(p) \in writers[p] THEN crossed \cup {p} ELSE crossed

BeginWrite(r) == Opens(Photo(r), r) /\ Meets(Photo(r))
EndWrite(r, content) == Closes(Photo(r), r, content) /\ UNCHANGED crossed

\* What a reader of the file gets now.
Read(p) == IF disk[p] = "mixed" THEN "torn" ELSE disk[p]

\* A call of backfill has found no coordinates in the file, whatever is in it
\* now, and has looked them up: it rewrites the file, whoever is at work on it.
BackfillBegins(p) ==
  /\ disk[p] # "none" /\ Calls(p) \notin writers[p] /\ retags < MaxRetags
  /\ retags' = retags + 1
  /\ Opens(p, Calls(p))
  /\ crossed' = IF disk[p] \in {"plain", "tagged"} THEN crossed ELSE crossed \cup {p}
  /\ UNCHANGED <<cardSide, handler, task, fired, life, store, drops, diskFull, ends>>

\* The disk is full, or calls overlapped one another: the file is torn.
BackfillEnds(p) ==
  /\ Calls(p) \in writers[p]
  /\ \/ Closes(p, Calls(p), "tagged") /\ UNCHANGED crossed
     \/ Closes(p, Calls(p), "torn") /\ crossed' = crossed \cup {p}
  /\ UNCHANGED <<cardSide, handler, task, fired, life, store, counters>>

------------------------------------------------------------------------------
(* _handle_upload.                                                          *)

\* The card posts a photo it still holds.
Arrive(p) ==
  /\ card[p] = "holds" /\ server = "up" /\ sends[p] < MaxSends
  /\ card' = [card EXCEPT ![p] = "waits"]
  /\ sends' = [sends EXCEPT ![p] = @ + 1]
  /\ handler' = [handler EXCEPT ![<<p, sends[p] + 1>>] = "verifying"]
  /\ UNCHANGED <<task, fired, files, life, store, counters>>

\* The request ends without success: the card keeps the photo.
HandlerGone(r) ==
  /\ handler' = [handler EXCEPT ![r] = "gone"]
  /\ card' = IF Awaited(r) THEN [card EXCEPT ![Photo(r)] = "holds"] ELSE card

\* Malformed envelope, unknown card, missing part or digest mismatch.
Reject(r) ==
  /\ handler[r] = "verifying"
  /\ HandlerGone(r)
  /\ UNCHANGED <<sends, task, fired, files, life, store, counters>>

\* verify_integrity returned: _extract_sync begins.
BeginExtract(r) ==
  /\ handler[r] = "verifying"
  /\ handler' = [handler EXCEPT ![r] = "extracting"]
  /\ BeginWrite(r)
  /\ UNCHANGED <<cardSide, task, fired, life, store, counters>>

\* extract_upload returned: the task is created and the answer is on its way.
Extracted(r) ==
  /\ handler[r] = "extracting"
  /\ handler' = [handler EXCEPT ![r] = "replying"]
  /\ EndWrite(r, "plain")
  /\ task' = [task EXCEPT ![r] = "created"]
  /\ tracked' = tracked \cup {r}
  /\ UNCHANGED <<cardSide, fired, server, store, counters>>

\* extractall raises half-way; nothing catches it (HTTP 500).
ExtractFails(r) ==
  /\ handler[r] = "extracting" /\ diskFull < MaxDiskFull
  /\ diskFull' = diskFull + 1
  /\ HandlerGone(r)
  /\ EndWrite(r, "torn")
  /\ UNCHANGED <<sends, task, fired, life, store, drops, ends, retags>>

Reply(r) ==
  /\ handler[r] = "replying"
  /\ handler' = [handler EXCEPT ![r] = "gone"]
  /\ card' = IF Awaited(r) THEN [card EXCEPT ![Photo(r)] = "done"] ELSE card
  /\ UNCHANGED <<sends, task, fired, files, life, store, counters>>

\* The card never sees the answer ...
ReplyLost(r) ==
  /\ handler[r] = "replying" /\ drops < MaxDrops
  /\ drops' = drops + 1
  /\ HandlerGone(r)
  /\ UNCHANGED <<sends, task, fired, files, life, store, diskFull, ends, retags>>

\* ... or does not wait for it: the handler goes on without a reader.
CardGivesUp(p) ==
  /\ card[p] = "waits" /\ drops < MaxDrops
  /\ drops' = drops + 1
  /\ card' = [card EXCEPT ![p] = "holds"]
  /\ UNCHANGED <<sends, handler, task, fired, files, life, store, diskFull, ends, retags>>

------------------------------------------------------------------------------
(* _process_upload.                                                         *)

\* The task publishes e: every synchronous subscriber is called in place, and
\* an exception of one of them is an exception of publish(), and of the task.
Publish(r, e, next) ==
  /\ fired' = [fired EXCEPT ![r] = @ \cup {e}]
  /\ task' = [task EXCEPT ![r] = IF e \in SyncRaisers THEN "raised" ELSE next]

\* IMAGE_RECEIVED; then the lookup, if there is a sidecar and a geotagger.
PublishReceived(r) ==
  /\ task[r] = "created"
  /\ \E next \in {"looking_up", "storing"} : Publish(r, "received", next)
  /\ UNCHANGED <<cardSide, handler, files, life, store, counters>>

\* Mutant of NoCoordinates: a failed lookup ends the task.
NoCoordinatesEnds(r) ==
  /\ task[r] = "looking_up"
  /\ task' = [task EXCEPT ![r] = "ended"]
  /\ UNCHANGED <<cardSide, handler, fired, files, life, store, counters>>

\* geotag_image finds nothing or fails; the failure is logged and dropped.
NoCoordinates(r) ==
  /\ task[r] = "looking_up"
  /\ task' = [task EXCEPT ![r] = "storing"]
  /\ UNCHANGED <<cardSide, handler, fired, files, life, store, counters>>

\* Mutant of BeginTag: the executor job of the rewrite is not awaited.
BeginTagUnawaited(r) ==
  /\ task[r] = "looking_up"
  /\ task' = [task EXCEPT ![r] = "storing"]
  /\ BeginWrite(r)
  /\ UNCHANGED <<cardSide, handler, fired, life, store, counters>>

\* resolve() answers with coordinates: write_gps_exif rewrites the image.
BeginTag(r) ==
  /\ task[r] = "looking_up"
  /\ task' = [task EXCEPT ![r] = "tagging"]
  /\ BeginWrite(r)
  /\ UNCHANGED <<cardSide, handler, fired, life, store, counters>>

\* The image carries the coordinates: IMAGE_GEOTAGGED.
Tagged(r) ==
  /\ task[r] = "tagging"
  /\ EndWrite(r, "tagged")
  /\ Publish(r, "geotagged", "storing")
  /\ UNCHANGED <<cardSide, handler, life, store, counters>>

\* The rewrite fails half-way: logged like any failed geotagging, and what is
\* left of the image is stored.
TagFails(r) ==
  /\ task[r] = "tagging" /\ diskFull < MaxDiskFull
  /\ diskFull' = diskFull + 1
  /\ EndWrite(r, "torn")
  /\ task' = [task EXCEPT ![r] = "storing"]
  /\ UNCHANGED <<cardSide, handler, fired, life, store, drops, ends, retags>>

Take(r) == copy' = [copy EXCEPT ![r] = Read(Photo(r))] /\ Meets(Photo(r))

\* The destination gets the file; store() has not returned yet.
StoreDelivers(r) ==
  /\ task[r] = "storing" /\ ledger[r] = "offered"
  /\ Storage!Deliver(r) /\ Take(r)
  /\ UNCHANGED <<cardSide, handler, task, fired, disk, writers, life, counters>>

\* store() returns, the photo being delivered or spooled: IMAGE_STORED.
StoreReturns(r) ==
  /\ task[r] = "storing"
  /\ \/ Storage!Confirm(r) /\ UNCHANGED <<copy, crossed>>
     \/ Storage!TakeOver(r) /\ Take(r)
  /\ Publish(r, "stored", "ended")
  /\ UNCHANGED <<cardSide, handler, disk, writers, life, counters>>

\* store() raises: StorageError is logged, anything else ends the task too.
StoreRaises(r) ==
  /\ task[r] = "storing"
  /\ Storage!Refuse(r)
  /\ task' = [task EXCEPT ![r] = "refused"]
  /\ UNCHANGED <<cardSide, handler, fired, files, life, copy, counters>>

\* The spool is flushed, by the timer of the entry that is set up.
Flush(r) ==
  /\ server = "up" /\ ledger[r] = "owed"
  /\ Storage!Deliver(r)
  /\ UNCHANGED <<cardSide, handler, task, fired, files, life, copy, counters>>

------------------------------------------------------------------------------
(* start(), stop() and the end of the process.                              *)

Running(r) == handler[r] \in Handling

Start ==
  /\ server = "down"
  /\ server' = "up" /\ tracked' = {}
  /\ UNCHANGED <<cardSide, handler, task, fired, files, store, counters>>

\* stop() cancels the tasks it knows of, then shuts the listener down: no new
\* request, but the handlers under way go on.
Stop ==
  /\ server = "up" /\ ends < MaxEnds
  /\ ends' = ends + 1
  /\ server' = "stopping"
  /\ task' = [r \in Reqs |-> IF r \in tracked /\ task[r] \in Alive
                             THEN "cancelled" ELSE task[r]]
  /\ Storage!Abandon({r \in tracked : task[r] = "storing"})
  /\ UNCHANGED <<cardSide, handler, fired, files, tracked, copy, drops, diskFull, retags>>

\* aiohttp's shutdown timeout: a handler still under way is cancelled.
HandlerCancelled(r) ==
  /\ server = "stopping" /\ Running(r)
  /\ HandlerGone(r)
  /\ UNCHANGED <<sends, task, fired, files, life, store, counters>>

\* Mutant of Stopped: the shutdown does not wait for the handlers.
StoppedAtOnce ==
  /\ server = "stopping"
  /\ server' = "down"
  /\ UNCHANGED <<cardSide, handler, task, fired, files, tracked, store, counters>>

\* The listener is down once no handler is under way.
Stopped ==
  /\ server = "stopping" /\ \A r \in Reqs : ~Running(r)
  /\ server' = "down"
  /\ UNCHANGED <<cardSide, handler, task, fired, files, tracked, store, counters>>

\* An executor job outlives the coroutine that waited for it: an extraction,
\* an EXIF rewrite, ...
JobEnds(r) ==
  /\ r \in writers[Photo(r)]
  /\ handler[r] # "extracting" /\ task[r] # "tagging"
  /\ EndWrite(r, IF task[r] = "cancelled" THEN "tagged" ELSE "plain")
  /\ UNCHANGED <<cardSide, handler, task, fired, life, store, counters>>

\* ... or the copy of a backend.
LateLanding(r) ==
  /\ task[r] = "cancelled" /\ answer[r] = "lost" /\ ledger[r] = "offered"
  /\ Storage!Deliver(r) /\ Take(r)
  /\ UNCHANGED <<cardSide, handler, task, fired, disk, writers, life, counters>>

\* The process dies: files stay as they are, cards see a closed connection.
Crash ==
  /\ ends < MaxEnds
  /\ ends' = ends + 1
  /\ server' = "down" /\ tracked' = {}
  /\ handler' = [r \in Reqs |-> IF handler[r] = "none" THEN "none" ELSE "gone"]
  /\ task' = [r \in Reqs |-> IF task[r] \in Alive \cup {"cancelled"} THEN "killed" ELSE task[r]]
  /\ card' = [p \in Photos |-> IF card[p] = "waits" THEN "holds" ELSE card[p]]
  /\ writers' = [p \in Photos |-> {}]
  /\ disk' = [p \in Photos |-> Read(p)]
  /\ Storage!Abandon({r \in Reqs : task[r] = "storing"})
  /\ UNCHANGED <<sends, fired, crossed, copy, drops, diskFull, retags>>

HandlerStep(r) ==
  \/ Reject(r) \/ BeginExtract(r) \/ Extracted(r) \/ ExtractFails(r)
  \/ Reply(r) \/ ReplyLost(r) \/ HandlerCancelled(r)

TaskStep(r) ==
  \/ PublishReceived(r) \/ NoCoordinates(r) \/ BeginTag(r) \/ Tagged(r) \/ TagFails(r)
  \/ StoreDelivers(r) \/ StoreReturns(r) \/ StoreRaises(r)

Next ==
  \/ \E p \in Photos : Arrive(p) \/ CardGivesUp(p) \/ BackfillBegins(p) \/ BackfillEnds(p)
  \/ \E r \in Reqs : HandlerStep(r) \/ TaskStep(r) \/ Flush(r) \/ JobEnds(r) \/ LateLanding(r)
  \/ Start \/ Stop \/ Stopped \/ Crash

Spec == Init /\ [][Next]_vars

\* The event loop runs every coroutine that can go on, the executor jobs of the
\* pipeline end, and the spool is flushed (the spool's own liveness is Spool's SpoolFlushed).
FairSpec ==
  /\ Spec
  /\ \A r \in Reqs : /\ WF_vars(HandlerStep(r)) /\ WF_vars(TaskStep(r))
                     /\ WF_vars(Flush(r)) /\ WF_vars(JobEnds(r))
  /\ WF_vars(Start) /\ WF_vars(Stopped)

------------------------------------------------------------------------------
(* Properties.                                                              *)

Requests(p) == {r \in Reqs : Photo(r) = p}

\* Cards, handlers, tasks, executor jobs and the storage promise fit together:
\* a card that waits has a handler working for it, a card that got SUCCESS has
\* a task to show for it, only the coroutines that wait for a job have left it
\* writing, and the answer of a store() call agrees with the fate of its task.
PipelineInv ==
  /\ TypeOK
  /\ \A p \in Photos :
       /\ card[p] = "waits" => sends[p] > 0 /\ Running(<<p, sends[p]>>)
       /\ card[p] = "done" => \E r \in Requests(p) : task[r] # "none"
       /\ writers[p] \subseteq Requests(p) \cup {Calls(p)}
       /\ writers[p] # {} => disk[p] \in {"torn", "mixed"}
  /\ \A r \in Reqs :
       /\ handler[r] = "none" <=> r[2] > sends[Photo(r)]
       /\ task[r] # "none" => handler[r] \in {"replying", "gone"}
       /\ handler[r] = "extracting" \/ task[r] = "tagging" => r \in writers[Photo(r)]
       /\ Running(r) => server # "down"
       /\ answer[r] = "returned" <=> "stored" \in fired[r]
       /\ answer[r] = "raised" <=> task[r] = "refused"
       /\ answer[r] = "lost" => task[r] \in {"cancelled", "killed"}
       /\ ledger[r] = "owed" => answer[r] = "returned"

\* soap_server.py:266-272: IMAGE_STORED is published only for a photo that is
\* delivered or in the spool.  What storage takes of a photo sent once is whole,
\* unless the disk was full, and is the tagged image whenever IMAGE_GEOTAGGED
\* was published for it: store() never runs ahead of the extraction or of the
\* EXIF rewrite, cancelled or not.  Nothing keeps backfill off a file that the
\* pipeline is at work on (backfill.py:82), so this leaves out the photos that
\* backfill rewrote while the pipeline wrote the file or storage read it, or
\* rewrote torn; a rewrite that ends well before store() reads does no harm.
StoredIsTaken ==
  \A r \in Reqs :
    /\ "stored" \in fired[r] => ledger[r] # "offered" /\ "received" \in fired[r]
    /\ ledger[r] # "offered" /\ sends[Photo(r)] = 1 /\ Photo(r) \notin crossed =>
         /\ "geotagged" \in fired[r] => copy[r] = "tagged"
         /\ diskFull = 0 => copy[r] \in {"plain", "tagged"}

\* The photo the card was told is uploaded is accounted for, at any moment: the
\* task of that very attempt is at work, or storage has taken it over, unless it
\* was cancelled by stop(), died with the process or had its store() refused, or
\* a subscriber raised on an event before store().  No lost answer, no earlier
\* attempt and no failed lookup lets a task end with nothing done.
AckedIsAccounted ==
  \A r \in Reqs :
    card[Photo(r)] = "done" /\ sends[Photo(r)] = r[2] =>
      \/ task[r] \in Alive \cup {"refused", "cancelled", "killed"}
      \/ ledger[r] # "offered"
      \/ task[r] = "raised" /\ fired[r] \cap (SyncRaisers \ {"stored"}) # {}

\* events.py:51-53: a failing subscriber never blocks the upload pipeline: the
\* very attempt the card was told of reaches the storage, unless its task was
\* cancelled by stop(), died with the process, or had its store() refused.
AckedIsStored ==
  \A r \in Reqs :
    card[Photo(r)] = "done" /\ sends[Photo(r)] = r[2]
      ~> ledger[r] = "delivered" \/ task[r] \in {"refused", "cancelled", "killed"}
=============================================================================
