----------------------- MODULE UploadPipeline_proofs -----------------------
(***************************************************************************)
(* For any number of photos, attempts, lost answers, full disks, rewrites  *)
(* by backfill, stops and crashes, and whatever events make a subscriber   *)
(* raise: cards, handlers, tasks, executor jobs and the storage promise    *)
(* fit together, and storage takes only what was extracted or tagged to    *)
(* the end, but for files that backfill rewrote at the same moment.        *)
(***************************************************************************)
EXTENDS UploadPipeline, TLAPS

------------------------------------------------------------------------------
(* The parts of the invariant.                                              *)

CardOK(p) ==
  /\ card[p] = "waits" => sends[p] > 0 /\ Running(<<p, sends[p]>>)
  /\ card[p] = "done" => \E r \in Requests(p) : task[r] # "none"

\* Backfill is at work on the file.
Retagged(p) == Calls(p) \in writers[p]

WritersOK(p) ==
  /\ writers[p] \subseteq Requests(p) \cup {Calls(p)}
  /\ writers[p] # {} => disk[p] \in {"torn", "mixed"}
  /\ Retagged(p) /\ writers[p] # {Calls(p)} => p \in crossed

HandlerOK(r) ==
  /\ handler[r] = "none" <=> r[2] > sends[Photo(r)]
  /\ task[r] # "none" => handler[r] \in {"replying", "gone"}
  /\ handler[r] = "replying" => task[r] # "none"
  /\ Running(r) => server # "down"

\* Which job of a request may be writing: that of its extraction or of its
\* rewrite, or one that the request left behind, with store() not yet called.
JobOK(r) ==
  /\ handler[r] = "extracting" \/ task[r] = "tagging" => r \in writers[Photo(r)]
  /\ r \in writers[Photo(r)] =>
       /\ answer[r] = "pending"
       /\ \/ handler[r] = "extracting" \/ task[r] \in {"tagging", "cancelled"}
          \/ handler[r] = "gone" /\ task[r] = "none"

\* The answer of store(), the events and the task agree.
AnswerOK(r) ==
  /\ answer[r] = "returned" <=> "stored" \in fired[r]
  /\ answer[r] = "raised" <=> task[r] = "refused"
  /\ answer[r] = "lost" => task[r] \in {"cancelled", "killed"}
  /\ ledger[r] = "owed" => answer[r] = "returned"
  /\ answer[r] = "returned" => ledger[r] # "offered" /\ "received" \in fired[r]
  /\ task[r] \in {"looking_up", "tagging", "storing"} => "received" \in fired[r]
  /\ task[r] \in {"none", "created", "looking_up", "tagging"} =>
       ledger[r] = "offered" /\ answer[r] = "pending" /\ fired[r] \subseteq {"received"}
  /\ task[r] = "storing" => answer[r] = "pending"

\* A file or a copy of it that storage may have.
Good(r, content) ==
  /\ "geotagged" \in fired[r] => content = "tagged"
  /\ diskFull = 0 => content \in {"plain", "tagged"}

\* store() is reading the file, or an executor job it left behind is.
Reading(r) == task[r] = "storing" \/ (task[r] = "cancelled" /\ answer[r] = "lost")

\* The file of a photo sent once at most, before and after storage takes it.
FileOK(r) ==
  sends[Photo(r)] < 2 /\ Photo(r) \notin crossed =>
    /\ disk[Photo(r)] # "mixed"
    /\ task[r] \in {"created", "looking_up"} =>
         Retagged(Photo(r)) \/ disk[Photo(r)] \in {"plain", "tagged"}
    /\ Reading(r) => Retagged(Photo(r)) \/ Good(r, disk[Photo(r)])
    /\ ledger[r] # "offered" => Good(r, copy[r])

Inv ==
  /\ TypeOK
  /\ \A p \in Photos : CardOK(p) /\ WritersOK(p)
  /\ \A r \in Reqs : HandlerOK(r) /\ JobOK(r) /\ AnswerOK(r) /\ FileOK(r)

LEMMA InvMeans == Inv => PipelineInv /\ StoredIsTaken
BY PipelineAssumption
  DEF Inv, CardOK, WritersOK, HandlerOK, JobOK, AnswerOK, FileOK, Good, PipelineInv,
   StoredIsTaken

------------------------------------------------------------------------------
(* Requests.                                                                *)

LEMMA ReqParts ==
  ASSUME NEW r \in Reqs
  PROVE  /\ Photo(r) \in Photos /\ r[2] \in Nat /\ r[2] > 0
         /\ r = <<Photo(r), r[2]>>
BY PipelineAssumption DEF Reqs, Photo

LEMMA SameReq ==
  ASSUME NEW q \in Reqs, NEW r \in Reqs, Photo(q) = Photo(r), q[2] = r[2]
  PROVE  q = r
BY ReqParts

LEMMA ReqOf ==
  ASSUME NEW p \in Photos, NEW n \in 1..MaxSends
  PROVE  <<p, n>> \in Reqs /\ Photo(<<p, n>>) = p /\ <<p, n>>[2] = n
BY DEF Reqs, Photo

LEMMA CallsAreNotReqs ==
  ASSUME NEW p \in Photos
  PROVE  Calls(p) \notin Reqs /\ Calls(p) \in Writers
BY DEF Calls, Reqs, Writers

\* Of a photo sent once at most, only its request and backfill write the file.
LEMMA OneWriter ==
  ASSUME Inv, NEW r \in Reqs, sends[Photo(r)] < 2, handler[r] # "none",
         NEW q \in writers[Photo(r)], q # Calls(Photo(r))
  PROVE  q = r
<1>1. q \in Reqs /\ Photo(q) = Photo(r)
  BY ReqParts DEF Inv, WritersOK, Requests
<1>2. q \in writers[Photo(q)]
  BY <1>1
<1>3. handler[q] # "none"
  BY <1>1, <1>2 DEF Inv, JobOK, HandlerOK
<1>4. sends[Photo(r)] \in Nat
  BY ReqParts, PipelineAssumption DEF Inv, TypeOK
<1>5. ~(q[2] > sends[Photo(r)]) /\ ~(r[2] > sends[Photo(r)])
  BY <1>1, <1>3 DEF Inv, HandlerOK
<1>6. q[2] = r[2]
  BY <1>1, <1>4, <1>5, ReqParts
<1> QED BY <1>1, <1>6, SameReq

------------------------------------------------------------------------------
(* The steps.                                                               *)

\* A step leaves the coroutines of a request and its store() alone.
Untouched(q) ==
  /\ handler'[q] = handler[q] /\ task'[q] = task[q] /\ fired'[q] = fired[q]
  /\ answer'[q] = answer[q] /\ ledger'[q] = ledger[q] /\ copy'[q] = copy[q]

\* A step of the request r: what of the rest it may change.
StepOf(r) ==
  /\ \A q \in Reqs \ {r} : Untouched(q)
  /\ \A p \in Photos \ {Photo(r)} :
       card'[p] = card[p] /\ writers'[p] = writers[p] /\ disk'[p] = disk[p]
  /\ writers'[Photo(r)] \ {r} = writers[Photo(r)] \ {r}
  /\ crossed \subseteq crossed' /\ crossed' \subseteq crossed \cup {Photo(r)}
  /\ UNCHANGED <<sends, server>> /\ diskFull <= diskFull'

\* Its own part of the invariant.
Own(r) == HandlerOK(r) /\ JobOK(r) /\ AnswerOK(r) /\ FileOK(r)

LEMMA StepInv ==
  ASSUME Inv, NEW r \in Reqs, handler[r] # "none", TypeOK', StepOf(r),
         CardOK(Photo(r))', WritersOK(Photo(r))', Own(r)'
  PROVE  Inv'
<1> USE ReqParts
<1>1. ASSUME NEW p \in Photos PROVE CardOK(p)' /\ WritersOK(p)'
  <2>1. CASE p = Photo(r)
    BY <2>1
  <2>2. CASE p # Photo(r)
    <3>1. /\ card'[p] = card[p] /\ sends'[p] = sends[p]
          /\ writers'[p] = writers[p] /\ disk'[p] = disk[p]
      BY <2>2 DEF StepOf
    <3>2. \A q \in Requests(p) : Untouched(q)
      BY <2>2 DEF StepOf, Requests
    <3>3. card[p] = "waits" => <<p, sends[p]>> \in Requests(p)
      BY PipelineAssumption, ReqOf DEF Inv, TypeOK, CardOK, Requests
    <3>4. CardOK(p)'
      BY <3>1, <3>2, <3>3 DEF Inv, CardOK, Untouched, Running
    <3>5. WritersOK(p)'
      BY <3>1 DEF Inv, WritersOK, Retagged, StepOf
    <3> QED BY <3>4, <3>5
  <2> QED BY <2>1, <2>2
<1>2. ASSUME NEW q \in Reqs \ {r} PROVE Own(q)'
  <2>1. /\ Untouched(q) /\ sends'[Photo(q)] = sends[Photo(q)] /\ server' = server
        /\ diskFull \in Nat /\ diskFull' \in Nat /\ diskFull <= diskFull'
    BY PipelineAssumption DEF StepOf, Inv, TypeOK
  <2>2. q \in writers'[Photo(q)] <=> q \in writers[Photo(q)]
    BY DEF StepOf
  <2>3. HandlerOK(q)' /\ JobOK(q)' /\ AnswerOK(q)'
    BY <2>1, <2>2 DEF Inv, HandlerOK, JobOK, AnswerOK, Untouched, Running
  <2>4. FileOK(q)'
    <3>1. CASE Photo(q) # Photo(r)
      <4>1. /\ disk'[Photo(q)] = disk[Photo(q)] /\ writers'[Photo(q)] = writers[Photo(q)]
            /\ Photo(q) \in crossed' <=> Photo(q) \in crossed
        BY <3>1 DEF StepOf
      <4> QED BY <2>1, <4>1 DEF Inv, FileOK, Untouched, Reading, Good, Retagged
    <3>2. CASE Photo(q) = Photo(r)
      <4>1. sends[Photo(q)] < 2 => handler[q] = "none"
        <5>1. SUFFICES ASSUME sends[Photo(q)] < 2, handler[q] # "none" PROVE FALSE
          OBVIOUS
        <5>2. sends[Photo(q)] \in Nat
          BY PipelineAssumption DEF Inv, TypeOK
        <5>3. ~(q[2] > sends[Photo(q)]) /\ ~(r[2] > sends[Photo(q)])
          BY <3>2, <5>1 DEF Inv, HandlerOK
        <5>4. q[2] = r[2]
          BY <5>1, <5>2, <5>3
        <5> QED BY <3>2, <5>4, SameReq
      <4>2. sends[Photo(q)] < 2 /\ Photo(q) \notin crossed' => disk'[Photo(q)] # "mixed"
        BY <2>1, <3>2 DEF Own, FileOK, StepOf
      <4>3. handler[q] = "none" => task'[q] = "none" /\ ledger'[q] = "offered"
        BY <2>1 DEF Inv, HandlerOK, AnswerOK, Untouched
      <4> QED BY <2>1, <4>1, <4>2, <4>3 DEF FileOK, Reading
    <3> QED BY <3>1, <3>2
  <2> QED BY <2>3, <2>4 DEF Own
<1> QED BY <1>1, <1>2 DEF Inv, Own

\* The file of a request when its job has begun to write, ...
Begun(r) ==
  /\ writers' \in [Photos -> SUBSET Writers] /\ disk' \in [Photos -> Contents \cup {"mixed"}]
  /\ writers'[Photo(r)] = writers[Photo(r)] \cup {r}
  /\ disk'[Photo(r)] \in {"torn", "mixed"}
  /\ sends[Photo(r)] < 2 /\ Photo(r) \notin crossed' => disk'[Photo(r)] = "torn"
  /\ \A p \in Photos \ {Photo(r)} : writers'[p] = writers[p] /\ disk'[p] = disk[p]
  /\ crossed \subseteq crossed' /\ crossed' \subseteq crossed \cup {Photo(r)}
  /\ Calls(Photo(r)) \in writers'[Photo(r)] => Photo(r) \in crossed'

\* ... and when it has ended.
Ended(r, content) ==
  /\ writers' \in [Photos -> SUBSET Writers] /\ disk' \in [Photos -> Contents \cup {"mixed"}]
  /\ r \in writers[Photo(r)] /\ writers'[Photo(r)] = writers[Photo(r)] \ {r}
  /\ writers'[Photo(r)] # {} => disk'[Photo(r)] = disk[Photo(r)]
  /\ sends[Photo(r)] < 2 /\ Photo(r) \notin crossed => disk'[Photo(r)] = content
  /\ \A p \in Photos \ {Photo(r)} : writers'[p] = writers[p] /\ disk'[p] = disk[p]
  /\ crossed' = crossed
  /\ Calls(Photo(r)) \in writers'[Photo(r)] => Photo(r) \in crossed

LEMMA BeginsWriting ==
  ASSUME Inv, NEW r \in Reqs, handler[r] # "none", r \notin writers[Photo(r)], BeginWrite(r)
  PROVE  Begun(r)
<1> USE ReqParts, CallsAreNotReqs DEF BeginWrite, Opens, Meets
<1>1. sends[Photo(r)] < 2 /\ Photo(r) \notin crossed' => writers[Photo(r)] = {}
  BY OneWriter
<1>2. writers' \in [Photos -> SUBSET Writers] /\ disk' \in [Photos -> Contents \cup {"mixed"}]
  BY DEF Inv, TypeOK, Contents, Writers
<1> QED BY <1>1, <1>2 DEF Inv, TypeOK, Begun

LEMMA EndsWriting ==
  ASSUME Inv, NEW r \in Reqs, handler[r] # "none", r \in writers[Photo(r)],
         NEW content \in Contents, EndWrite(r, content)
  PROVE  Ended(r, content)
<1> USE ReqParts, CallsAreNotReqs DEF EndWrite, Closes
<1>1. Calls(Photo(r)) \in writers[Photo(r)] => Photo(r) \in crossed
  BY DEF Inv, WritersOK, Retagged
<1>2. sends[Photo(r)] < 2 /\ Photo(r) \notin crossed =>
        writers[Photo(r)] = {r} /\ disk[Photo(r)] # "mixed"
  BY <1>1, OneWriter DEF Inv, FileOK
<1>3. writers' \in [Photos -> SUBSET Writers] /\ disk' \in [Photos -> Contents \cup {"mixed"}]
  BY DEF Inv, TypeOK, Contents
<1> QED BY <1>1, <1>2, <1>3 DEF Inv, TypeOK, Ended

LEMMA EndInv ==
  ASSUME Inv, NEW r \in Reqs, Reject(r) \/ Reply(r) \/ ReplyLost(r) \/ HandlerCancelled(r)
  PROVE  Inv'
<1> USE ReqParts DEF Reject, Reply, ReplyLost, HandlerCancelled, HandlerGone, Awaited,
     cardSide, files, store, life, counters, Running, Handling
<1>1. TypeOK'
  <2>1. CASE Reject(r)
    BY <2>1, PipelineAssumption DEF Inv, TypeOK, Storage!DeliveryTypeOK, Alive
  <2>2. CASE Reply(r)
    BY <2>2, PipelineAssumption DEF Inv, TypeOK, Storage!DeliveryTypeOK, Alive
  <2>3. CASE ReplyLost(r)
    BY <2>3, PipelineAssumption DEF Inv, TypeOK, Storage!DeliveryTypeOK, Alive
  <2>4. CASE HandlerCancelled(r)
    BY <2>4, PipelineAssumption DEF Inv, TypeOK, Storage!DeliveryTypeOK, Alive
  <2> QED BY <2>1, <2>2, <2>3, <2>4
<1>2. StepOf(r) /\ handler[r] # "none"
  BY PipelineAssumption
    DEF Inv, TypeOK, Storage!DeliveryTypeOK, HandlerOK, AnswerOK, JobOK, StepOf, Untouched
<1>3. CardOK(Photo(r))'
  BY PipelineAssumption, ReqOf DEF Inv, TypeOK, CardOK, HandlerOK, Requests
<1>4. WritersOK(Photo(r))'
  BY DEF Inv, TypeOK, WritersOK, Retagged, Requests
<1>5. HandlerOK(r)'
  BY DEF Inv, TypeOK, HandlerOK
<1>6. JobOK(r)'
  BY DEF Inv, TypeOK, Storage!DeliveryTypeOK, HandlerOK, JobOK, AnswerOK
<1>7. AnswerOK(r)'
  BY DEF Inv, TypeOK, Storage!DeliveryTypeOK, HandlerOK, AnswerOK
<1>8. FileOK(r)'
  BY PipelineAssumption DEF Inv, TypeOK, HandlerOK, JobOK, AnswerOK, FileOK, Good, Reading, Retagged
<1> QED BY <1>1, <1>2, <1>3, <1>4, <1>5, <1>6, <1>7, <1>8, StepInv DEF Own

LEMMA BeginExtractInv ==
  ASSUME Inv, NEW r \in Reqs, BeginExtract(r)
  PROVE  Inv'
<1> USE ReqParts DEF BeginExtract, cardSide, files, store, life, counters, Running,
     Handling, Begun, Ended
<1>0. Begun(r)
  BY BeginsWriting DEF Inv, HandlerOK, JobOK
<1>1. TypeOK'
  BY <1>0, PipelineAssumption DEF Inv, TypeOK, Storage!DeliveryTypeOK, Alive
<1>2. StepOf(r) /\ handler[r] # "none"
  BY <1>0, PipelineAssumption
    DEF Inv, TypeOK, Storage!DeliveryTypeOK, HandlerOK, AnswerOK, JobOK, StepOf, Untouched
<1>3. CardOK(Photo(r))'
  BY <1>0, PipelineAssumption, ReqOf DEF Inv, TypeOK, CardOK, HandlerOK, Requests
<1>4. WritersOK(Photo(r))'
  BY <1>0, CallsAreNotReqs DEF Inv, TypeOK, WritersOK, Retagged, Requests
<1>5. HandlerOK(r)'
  BY <1>0 DEF Inv, TypeOK, HandlerOK
<1>6. JobOK(r)'
  <2>1. r \in writers'[Photo(r)]
    BY <1>0
  <2>2. handler'[r] = "extracting"
    BY DEF Inv, TypeOK
  <2>3. answer'[r] = "pending"
    BY DEF Inv, HandlerOK, AnswerOK
  <2> QED BY <2>1, <2>2, <2>3 DEF JobOK
<1>7. AnswerOK(r)'
  BY <1>0 DEF Inv, TypeOK, Storage!DeliveryTypeOK, HandlerOK, AnswerOK
<1>8. FileOK(r)'
  BY <1>0, PipelineAssumption
    DEF Inv, TypeOK, HandlerOK, JobOK, AnswerOK, FileOK, Good, Reading, Retagged
<1> QED BY <1>1, <1>2, <1>3, <1>4, <1>5, <1>6, <1>7, <1>8, StepInv DEF Own

LEMMA ExtractedInv ==
  ASSUME Inv, NEW r \in Reqs, Extracted(r)
  PROVE  Inv'
<1> USE ReqParts DEF Extracted, cardSide, files, store, life, counters, Running,
     Handling, Begun, Ended
<1>0. Ended(r, "plain")
  BY EndsWriting DEF Inv, HandlerOK, JobOK, Contents
<1>1. TypeOK'
  BY <1>0, PipelineAssumption DEF Inv, TypeOK, Storage!DeliveryTypeOK, Alive
<1>2. StepOf(r) /\ handler[r] # "none"
  BY <1>0, PipelineAssumption
    DEF Inv, TypeOK, Storage!DeliveryTypeOK, HandlerOK, AnswerOK, JobOK, StepOf, Untouched
<1>3. CardOK(Photo(r))'
  BY <1>0, PipelineAssumption, ReqOf DEF Inv, TypeOK, CardOK, HandlerOK, Requests
<1>4. WritersOK(Photo(r))'
  BY <1>0, CallsAreNotReqs DEF Inv, TypeOK, WritersOK, Retagged, Requests
<1>5. HandlerOK(r)'
  BY <1>0 DEF Inv, TypeOK, HandlerOK
<1>6. JobOK(r)'
  BY <1>0 DEF Inv, TypeOK, Storage!DeliveryTypeOK, HandlerOK, JobOK, AnswerOK
<1>7. AnswerOK(r)'
  BY <1>0 DEF Inv, TypeOK, Storage!DeliveryTypeOK, HandlerOK, AnswerOK
<1>8. FileOK(r)'
  BY <1>0, PipelineAssumption
    DEF Inv, TypeOK, HandlerOK, JobOK, AnswerOK, FileOK, Good, Reading, Retagged
<1> QED BY <1>1, <1>2, <1>3, <1>4, <1>5, <1>6, <1>7, <1>8, StepInv DEF Own

LEMMA ExtractFailsInv ==
  ASSUME Inv, NEW r \in Reqs, ExtractFails(r)
  PROVE  Inv'
<1> USE ReqParts DEF ExtractFails, HandlerGone, Awaited, cardSide, files, store, life,
     counters, Running, Handling, Begun, Ended
<1>0. Ended(r, "torn")
  BY EndsWriting DEF Inv, HandlerOK, JobOK, Contents
<1>1. TypeOK'
  BY <1>0, PipelineAssumption DEF Inv, TypeOK, Storage!DeliveryTypeOK, Alive
<1>2. StepOf(r) /\ handler[r] # "none"
  BY <1>0, PipelineAssumption
    DEF Inv, TypeOK, Storage!DeliveryTypeOK, HandlerOK, AnswerOK, JobOK, StepOf, Untouched
<1>3. CardOK(Photo(r))'
  BY <1>0, PipelineAssumption, ReqOf DEF Inv, TypeOK, CardOK, HandlerOK, Requests
<1>4. WritersOK(Photo(r))'
  BY <1>0, CallsAreNotReqs DEF Inv, TypeOK, WritersOK, Retagged, Requests
<1>5. HandlerOK(r)'
  BY <1>0 DEF Inv, TypeOK, HandlerOK
<1>6. JobOK(r)'
  BY <1>0 DEF Inv, TypeOK, Storage!DeliveryTypeOK, HandlerOK, JobOK, AnswerOK
<1>7. AnswerOK(r)'
  BY <1>0 DEF Inv, TypeOK, Storage!DeliveryTypeOK, HandlerOK, AnswerOK
<1>8. FileOK(r)'
  BY <1>0, PipelineAssumption
    DEF Inv, TypeOK, HandlerOK, JobOK, AnswerOK, FileOK, Good, Reading, Retagged
<1> QED BY <1>1, <1>2, <1>3, <1>4, <1>5, <1>6, <1>7, <1>8, StepInv DEF Own

LEMMA QuietTaskInv ==
  ASSUME Inv, NEW r \in Reqs, PublishReceived(r) \/ NoCoordinates(r)
  PROVE  Inv'
<1> USE ReqParts DEF PublishReceived, NoCoordinates, Publish, Events, cardSide, files,
     store, life, counters, Running, Handling
<1>1. TypeOK'
  <2>1. CASE PublishReceived(r)
    BY <2>1, PipelineAssumption DEF Inv, TypeOK, Storage!DeliveryTypeOK, Alive
  <2>2. CASE NoCoordinates(r)
    BY <2>2, PipelineAssumption DEF Inv, TypeOK, Storage!DeliveryTypeOK, Alive
  <2> QED BY <2>1, <2>2
<1>2. StepOf(r) /\ handler[r] # "none"
  BY PipelineAssumption
    DEF Inv, TypeOK, Storage!DeliveryTypeOK, HandlerOK, AnswerOK, JobOK, StepOf, Untouched
<1>3. CardOK(Photo(r))'
  BY PipelineAssumption, ReqOf DEF Inv, TypeOK, CardOK, HandlerOK, Requests
<1>4. WritersOK(Photo(r))'
  BY DEF Inv, TypeOK, WritersOK, Retagged, Requests
<1>5. HandlerOK(r)'
  BY DEF Inv, TypeOK, HandlerOK
<1>6. JobOK(r)'
  BY DEF Inv, TypeOK, Storage!DeliveryTypeOK, HandlerOK, JobOK, AnswerOK
<1>7. AnswerOK(r)'
  BY DEF Inv, TypeOK, Storage!DeliveryTypeOK, HandlerOK, AnswerOK
<1>8. FileOK(r)'
  BY PipelineAssumption DEF Inv, TypeOK, HandlerOK, JobOK, AnswerOK, FileOK, Good, Reading, Retagged
<1> QED BY <1>1, <1>2, <1>3, <1>4, <1>5, <1>6, <1>7, <1>8, StepInv DEF Own

LEMMA BeginTagInv ==
  ASSUME Inv, NEW r \in Reqs, BeginTag(r)
  PROVE  Inv'
<1> USE ReqParts DEF BeginTag, cardSide, files, store, life, counters, Running,
     Handling, Begun, Ended
<1>0. Begun(r)
  BY BeginsWriting DEF Inv, HandlerOK, JobOK
<1>1. TypeOK'
  BY <1>0, PipelineAssumption DEF Inv, TypeOK, Storage!DeliveryTypeOK, Alive
<1>2. StepOf(r) /\ handler[r] # "none"
  BY <1>0, PipelineAssumption
    DEF Inv, TypeOK, Storage!DeliveryTypeOK, HandlerOK, AnswerOK, JobOK, StepOf, Untouched
<1>3. CardOK(Photo(r))'
  BY <1>0, PipelineAssumption, ReqOf DEF Inv, TypeOK, CardOK, HandlerOK, Requests
<1>4. WritersOK(Photo(r))'
  BY <1>0, CallsAreNotReqs DEF Inv, TypeOK, WritersOK, Retagged, Requests
<1>5. HandlerOK(r)'
  BY <1>0 DEF Inv, TypeOK, HandlerOK
<1>6. JobOK(r)'
  BY <1>0 DEF Inv, TypeOK, Storage!DeliveryTypeOK, HandlerOK, JobOK, AnswerOK
<1>7. AnswerOK(r)'
  BY <1>0 DEF Inv, TypeOK, Storage!DeliveryTypeOK, HandlerOK, AnswerOK
<1>8. FileOK(r)'
  BY <1>0, PipelineAssumption
    DEF Inv, TypeOK, HandlerOK, JobOK, AnswerOK, FileOK, Good, Reading, Retagged
<1> QED BY <1>1, <1>2, <1>3, <1>4, <1>5, <1>6, <1>7, <1>8, StepInv DEF Own

LEMMA TaggedInv ==
  ASSUME Inv, NEW r \in Reqs, Tagged(r)
  PROVE  Inv'
<1> USE ReqParts DEF Tagged, Publish, Events, cardSide, files, store, life, counters,
     Running, Handling, Begun, Ended
<1>0. Ended(r, "tagged")
  BY EndsWriting DEF Inv, HandlerOK, JobOK, Contents
<1>1. TypeOK'
  BY <1>0, PipelineAssumption DEF Inv, TypeOK, Storage!DeliveryTypeOK, Alive
<1>2. StepOf(r) /\ handler[r] # "none"
  BY <1>0, PipelineAssumption
    DEF Inv, TypeOK, Storage!DeliveryTypeOK, HandlerOK, AnswerOK, JobOK, StepOf, Untouched
<1>3. CardOK(Photo(r))'
  BY <1>0, PipelineAssumption, ReqOf DEF Inv, TypeOK, CardOK, HandlerOK, Requests
<1>4. WritersOK(Photo(r))'
  BY <1>0, CallsAreNotReqs DEF Inv, TypeOK, WritersOK, Retagged, Requests
<1>5. HandlerOK(r)'
  BY <1>0 DEF Inv, TypeOK, HandlerOK
<1>6. JobOK(r)'
  <2>1. r \notin writers'[Photo(r)]
    BY <1>0
  <2>2. handler'[r] # "extracting"
    BY DEF Inv, HandlerOK
  <2>3. task'[r] # "tagging"
    BY DEF Inv, TypeOK
  <2> QED BY <2>1, <2>2, <2>3 DEF JobOK
<1>7. AnswerOK(r)'
  BY <1>0 DEF Inv, TypeOK, Storage!DeliveryTypeOK, HandlerOK, AnswerOK
<1>8. FileOK(r)'
  BY <1>0, PipelineAssumption
    DEF Inv, TypeOK, HandlerOK, JobOK, AnswerOK, FileOK, Good, Reading, Retagged
<1> QED BY <1>1, <1>2, <1>3, <1>4, <1>5, <1>6, <1>7, <1>8, StepInv DEF Own

LEMMA TagFailsInv ==
  ASSUME Inv, NEW r \in Reqs, TagFails(r)
  PROVE  Inv'
<1> USE ReqParts DEF TagFails, cardSide, files, store, life, counters, Running,
     Handling, Begun, Ended
<1>0. Ended(r, "torn")
  BY EndsWriting DEF Inv, HandlerOK, JobOK, Contents
<1>1. TypeOK'
  BY <1>0, PipelineAssumption DEF Inv, TypeOK, Storage!DeliveryTypeOK, Alive
<1>2. StepOf(r) /\ handler[r] # "none"
  BY <1>0, PipelineAssumption
    DEF Inv, TypeOK, Storage!DeliveryTypeOK, HandlerOK, AnswerOK, JobOK, StepOf, Untouched
<1>3. CardOK(Photo(r))'
  BY <1>0, PipelineAssumption, ReqOf DEF Inv, TypeOK, CardOK, HandlerOK, Requests
<1>4. WritersOK(Photo(r))'
  BY <1>0, CallsAreNotReqs DEF Inv, TypeOK, WritersOK, Retagged, Requests
<1>5. HandlerOK(r)'
  BY <1>0 DEF Inv, TypeOK, HandlerOK
<1>6. JobOK(r)'
  BY <1>0 DEF Inv, TypeOK, HandlerOK, JobOK
<1>7. AnswerOK(r)'
  BY <1>0 DEF Inv, TypeOK, Storage!DeliveryTypeOK, HandlerOK, AnswerOK
<1>8. FileOK(r)'
  BY <1>0, PipelineAssumption
    DEF Inv, TypeOK, HandlerOK, JobOK, AnswerOK, FileOK, Good, Reading, Retagged
<1> QED BY <1>1, <1>2, <1>3, <1>4, <1>5, <1>6, <1>7, <1>8, StepInv DEF Own

LEMMA DeliverInv ==
  ASSUME Inv, NEW r \in Reqs, StoreDelivers(r) \/ LateLanding(r) \/ Flush(r)
  PROVE  Inv'
<1> USE ReqParts DEF StoreDelivers, LateLanding, Flush, Take, Meets, Read, Storage!Deliver,
     cardSide, files, store, life, counters, Running, Handling
<1>1. TypeOK'
  <2>1. CASE StoreDelivers(r)
    BY <2>1, PipelineAssumption DEF Inv, TypeOK, Storage!DeliveryTypeOK, Alive, Contents
  <2>2. CASE LateLanding(r)
    BY <2>2, PipelineAssumption DEF Inv, TypeOK, Storage!DeliveryTypeOK, Alive, Contents
  <2>3. CASE Flush(r)
    BY <2>3, PipelineAssumption DEF Inv, TypeOK, Storage!DeliveryTypeOK, Alive, Contents
  <2> QED BY <2>1, <2>2, <2>3
<1>2. StepOf(r) /\ handler[r] # "none"
  BY PipelineAssumption
    DEF Inv, TypeOK, Storage!DeliveryTypeOK, HandlerOK, AnswerOK, JobOK, StepOf, Untouched
<1>3. CardOK(Photo(r))'
  BY PipelineAssumption, ReqOf DEF Inv, TypeOK, CardOK, HandlerOK, Requests
<1>4. WritersOK(Photo(r))'
  BY DEF Inv, TypeOK, WritersOK, Retagged, Requests
<1>5. HandlerOK(r)'
  BY DEF Inv, TypeOK, HandlerOK
<1>6. JobOK(r)'
  BY DEF Inv, TypeOK, Storage!DeliveryTypeOK, HandlerOK, JobOK, AnswerOK
<1>7. AnswerOK(r)'
  BY DEF Inv, TypeOK, Storage!DeliveryTypeOK, HandlerOK, AnswerOK
<1>8. FileOK(r)'
  BY PipelineAssumption DEF Inv, TypeOK, HandlerOK, JobOK, AnswerOK, FileOK, Good, Reading, Retagged
<1> QED BY <1>1, <1>2, <1>3, <1>4, <1>5, <1>6, <1>7, <1>8, StepInv DEF Own

LEMMA StoreReturnsInv ==
  ASSUME Inv, NEW r \in Reqs, StoreReturns(r)
  PROVE  Inv'
<1> USE ReqParts DEF StoreReturns, Publish, Events, Take, Meets, Read, Storage!Confirm,
     Storage!TakeOver, cardSide, files, store, life, counters, Running, Handling
<1>1. TypeOK'
  <2>1. CASE Storage!Confirm(r)
    BY <2>1, PipelineAssumption DEF Inv, TypeOK, Storage!DeliveryTypeOK, Alive, Contents
  <2>2. CASE Storage!TakeOver(r)
    BY <2>2, PipelineAssumption DEF Inv, TypeOK, Storage!DeliveryTypeOK, Alive, Contents
  <2> QED BY <2>1, <2>2
<1>2. StepOf(r) /\ handler[r] # "none"
  BY PipelineAssumption
    DEF Inv, TypeOK, Storage!DeliveryTypeOK, HandlerOK, AnswerOK, JobOK, StepOf, Untouched
<1>3. CardOK(Photo(r))'
  BY PipelineAssumption, ReqOf DEF Inv, TypeOK, CardOK, HandlerOK, Requests
<1>4. WritersOK(Photo(r))'
  BY DEF Inv, TypeOK, WritersOK, Retagged, Requests
<1>5. HandlerOK(r)'
  BY DEF Inv, TypeOK, HandlerOK
<1>6. JobOK(r)'
  BY DEF Inv, TypeOK, Storage!DeliveryTypeOK, HandlerOK, JobOK, AnswerOK
<1>7. AnswerOK(r)'
  BY DEF Inv, TypeOK, Storage!DeliveryTypeOK, HandlerOK, AnswerOK
<1>8. FileOK(r)'
  BY PipelineAssumption DEF Inv, TypeOK, HandlerOK, JobOK, AnswerOK, FileOK, Good, Reading, Retagged
<1> QED BY <1>1, <1>2, <1>3, <1>4, <1>5, <1>6, <1>7, <1>8, StepInv DEF Own

LEMMA StoreRaisesInv ==
  ASSUME Inv, NEW r \in Reqs, StoreRaises(r)
  PROVE  Inv'
<1> USE ReqParts DEF StoreRaises, Storage!Refuse, cardSide, files, store, life,
     counters, Running, Handling
<1>1. TypeOK'
  BY PipelineAssumption DEF Inv, TypeOK, Storage!DeliveryTypeOK, Alive
<1>2. StepOf(r) /\ handler[r] # "none"
  BY PipelineAssumption
    DEF Inv, TypeOK, Storage!DeliveryTypeOK, HandlerOK, AnswerOK, JobOK, StepOf, Untouched
<1>3. CardOK(Photo(r))'
  BY PipelineAssumption, ReqOf DEF Inv, TypeOK, CardOK, HandlerOK, Requests
<1>4. WritersOK(Photo(r))'
  BY DEF Inv, TypeOK, WritersOK, Retagged, Requests
<1>5. HandlerOK(r)'
  BY DEF Inv, TypeOK, HandlerOK
<1>6. JobOK(r)'
  BY DEF Inv, TypeOK, Storage!DeliveryTypeOK, HandlerOK, JobOK, AnswerOK
<1>7. AnswerOK(r)'
  BY DEF Inv, TypeOK, Storage!DeliveryTypeOK, HandlerOK, AnswerOK
<1>8. FileOK(r)'
  BY PipelineAssumption DEF Inv, TypeOK, HandlerOK, JobOK, AnswerOK, FileOK, Good, Reading, Retagged
<1> QED BY <1>1, <1>2, <1>3, <1>4, <1>5, <1>6, <1>7, <1>8, StepInv DEF Own

LEMMA JobEndsInv ==
  ASSUME Inv, NEW r \in Reqs, JobEnds(r)
  PROVE  Inv'
<1> USE ReqParts DEF JobEnds, cardSide, files, store, life, counters, Running,
     Handling, Begun, Ended
<1>0. Ended(r, IF task[r] = "cancelled" THEN "tagged" ELSE "plain")
  BY EndsWriting DEF Inv, HandlerOK, JobOK, Contents
<1>1. TypeOK'
  BY <1>0, PipelineAssumption DEF Inv, TypeOK, Storage!DeliveryTypeOK, Alive
<1>2. StepOf(r) /\ handler[r] # "none"
  BY <1>0, PipelineAssumption
    DEF Inv, TypeOK, Storage!DeliveryTypeOK, HandlerOK, AnswerOK, JobOK, StepOf, Untouched
<1>3. CardOK(Photo(r))'
  BY <1>0, PipelineAssumption, ReqOf DEF Inv, TypeOK, CardOK, HandlerOK, Requests
<1>4. WritersOK(Photo(r))'
  BY <1>0, CallsAreNotReqs DEF Inv, TypeOK, WritersOK, Retagged, Requests
<1>5. HandlerOK(r)'
  BY <1>0 DEF Inv, TypeOK, HandlerOK
<1>6. JobOK(r)'
  BY <1>0 DEF Inv, TypeOK, Storage!DeliveryTypeOK, HandlerOK, JobOK, AnswerOK
<1>7. AnswerOK(r)'
  BY <1>0 DEF Inv, TypeOK, Storage!DeliveryTypeOK, HandlerOK, AnswerOK
<1>8. FileOK(r)'
  BY <1>0, PipelineAssumption
    DEF Inv, TypeOK, HandlerOK, JobOK, AnswerOK, FileOK, Good, Reading, Retagged
<1> QED BY <1>1, <1>2, <1>3, <1>4, <1>5, <1>6, <1>7, <1>8, StepInv DEF Own

------------------------------------------------------------------------------
(* The steps of the cards, of start() and stop(), and the end of a process. *)

LEMMA ArriveInv ==
  ASSUME Inv, NEW p \in Photos, Arrive(p)
  PROVE  Inv'
<1>1. /\ card[p] = "holds" /\ server = "up" /\ sends[p] < MaxSends
      /\ card' = [card EXCEPT ![p] = "waits"]
      /\ sends' = [sends EXCEPT ![p] = @ + 1]
      /\ handler' = [handler EXCEPT ![<<p, sends[p] + 1>>] = "verifying"]
      /\ UNCHANGED <<task, fired, disk, writers, crossed, server, tracked, ledger, answer, copy,
                     drops, diskFull, ends, retags>>
  BY DEF Arrive, files, life, store, counters
<1>2. sends[p] \in Nat /\ sends[p] + 1 \in 1..MaxSends /\ sends'[p] = sends[p] + 1
  BY <1>1, PipelineAssumption DEF Inv, TypeOK
<1>3. PICK r \in Reqs : r = <<p, sends[p] + 1>> /\ Photo(r) = p /\ r[2] = sends[p] + 1
  BY <1>2, ReqOf
<1>4. handler[r] = "none" /\ handler'[r] = "verifying"
  BY <1>1, <1>2, <1>3 DEF Inv, TypeOK, HandlerOK
<1>5. TypeOK'
  BY <1>1, <1>2, <1>3 DEF Inv, TypeOK, Storage!DeliveryTypeOK, Handling
<1>6. ASSUME NEW u \in Photos PROVE CardOK(u)' /\ WritersOK(u)'
  <2>1. CASE u = p
    <3>1. card'[p] = "waits" /\ sends'[p] > 0
      BY <1>1, <1>2 DEF Inv, TypeOK
    <3>2. <<p, sends'[p]>> = r
      BY <1>2, <1>3
    <3>3. Running(r)'
      BY <1>4 DEF Running, Handling
    <3>4. CardOK(p)'
      BY <3>1, <3>2, <3>3 DEF CardOK
    <3>5. WritersOK(p)'
      BY <1>1 DEF Inv, WritersOK, Retagged
    <3> QED BY <2>1, <3>4, <3>5
  <2>2. CASE u # p
    <3>1. card'[u] = card[u] /\ sends'[u] = sends[u]
      BY <1>1, <2>2 DEF Inv, TypeOK
    <3>2. \A q \in Requests(u) : handler'[q] = handler[q]
      BY <1>1, <1>3, <2>2 DEF Inv, TypeOK, Requests
    <3>3. card[u] = "waits" => <<u, sends[u]>> \in Requests(u)
      BY PipelineAssumption, ReqOf DEF Inv, TypeOK, CardOK, Requests
    <3> QED BY <1>1, <3>1, <3>2, <3>3 DEF Inv, CardOK, WritersOK, Retagged, Requests, Running
  <2> QED BY <2>1, <2>2
<1>7. ASSUME NEW q \in Reqs PROVE Own(q)'
  <2>1. CASE q = r
    <3>1. task[r] = "none" /\ server # "down" /\ r[2] = sends'[Photo(r)]
      BY <1>1, <1>2, <1>3, <1>4 DEF Inv, HandlerOK
    <3>2. HandlerOK(r)'
      BY <1>1, <1>2, <1>3, <1>4, <3>1 DEF HandlerOK
    <3>3. r \notin writers[Photo(r)]
      BY <1>4, <3>1 DEF Inv, JobOK
    <3>4. JobOK(r)' /\ AnswerOK(r)'
      BY <1>1, <1>4, <3>1, <3>3 DEF Inv, JobOK, AnswerOK
    <3>5. FileOK(r)'
      BY <1>1, <1>2, <1>3, <3>1 DEF Inv, FileOK, AnswerOK, Reading
    <3> QED BY <2>1, <3>2, <3>4, <3>5 DEF Own
  <2>2. CASE q # r
    <3>1. handler'[q] = handler[q]
      BY <1>1, <1>3, <2>2 DEF Inv, TypeOK
    <3>2. sends[Photo(q)] \in Nat /\ q[2] \in Nat /\ sends[Photo(q)] <= sends'[Photo(q)]
      BY <1>1, PipelineAssumption, ReqParts DEF Inv, TypeOK
    <3>3. q[2] > sends[Photo(q)] <=> q[2] > sends'[Photo(q)]
      BY <1>1, <1>2, <1>3, <2>2, <3>2, SameReq, ReqParts DEF Inv, TypeOK
    <3>4. HandlerOK(q)' /\ JobOK(q)' /\ AnswerOK(q)'
      BY <1>1, <3>1, <3>3 DEF Inv, HandlerOK, JobOK, AnswerOK, Running
    <3>5. FileOK(q)'
      BY <1>1, <3>2 DEF Inv, FileOK, Reading, Good, Retagged
    <3> QED BY <3>4, <3>5 DEF Own
  <2> QED BY <2>1, <2>2
<1> QED BY <1>5, <1>6, <1>7 DEF Inv, Own

\* A card that waits for nothing, a server that goes up or down: no coroutine
\* and no file is touched.
LEMMA OutsideInv ==
  ASSUME Inv, (\E p \in Photos : CardGivesUp(p)) \/ Start \/ Stopped
  PROVE  Inv'
<1> USE DEF cardSide, files, store, life, counters
<1>1. TypeOK'
  <2>1. CASE \E p \in Photos : CardGivesUp(p)
    BY <2>1, PipelineAssumption DEF CardGivesUp, Inv, TypeOK, Storage!DeliveryTypeOK
  <2>2. CASE Start \/ Stopped
    BY <2>2 DEF Start, Stopped, Inv, TypeOK, Storage!DeliveryTypeOK
  <2> QED BY <2>1, <2>2
<1>2. /\ UNCHANGED <<sends, handler, task, fired, disk, writers, crossed, ledger, answer, copy,
                     diskFull>>
      /\ \A p \in Photos : card'[p] \in {card[p], "holds"}
      /\ server' # "down" \/ UNCHANGED server \/ \A r \in Reqs : ~Running(r)
  BY DEF CardGivesUp, Start, Stopped, Inv, TypeOK
<1>3. ASSUME NEW p \in Photos PROVE CardOK(p)' /\ WritersOK(p)'
  BY <1>2 DEF Inv, CardOK, WritersOK, Retagged, Running
<1>4. ASSUME NEW q \in Reqs PROVE Own(q)'
  BY <1>2 DEF Inv, Own, HandlerOK, JobOK, AnswerOK, FileOK, Reading, Good, Retagged, Running
<1> QED BY <1>1, <1>3, <1>4 DEF Inv, Own

\* Backfill touches nothing but the file.
LEMMA RetagInv ==
  ASSUME Inv, NEW p \in Photos, BackfillBegins(p) \/ BackfillEnds(p)
  PROVE  Inv'
<1> USE ReqParts, CallsAreNotReqs DEF BackfillBegins, BackfillEnds, Opens, Closes, cardSide,
     life, store, counters
<1>1. /\ UNCHANGED <<card, sends, handler, task, fired, server, tracked, ledger, answer, copy,
                     drops, diskFull, ends>>
      /\ \A u \in Photos \ {p} : writers'[u] = writers[u] /\ disk'[u] = disk[u]
      /\ writers'[p] \in {writers[p] \cup {Calls(p)}, writers[p] \ {Calls(p)}}
      /\ crossed \subseteq crossed' /\ crossed' \subseteq crossed \cup {p}
  BY DEF Inv, TypeOK
<1>2. TypeOK'
  <2>1. CASE BackfillBegins(p)
    BY <2>1, PipelineAssumption DEF Inv, TypeOK, Storage!DeliveryTypeOK, Contents
  <2>2. CASE BackfillEnds(p)
    BY <2>2 DEF Inv, TypeOK, Storage!DeliveryTypeOK, Contents
  <2> QED BY <2>1, <2>2
<1>3. WritersOK(p)'
  <2>1. CASE BackfillBegins(p)
    BY <2>1 DEF Inv, TypeOK, WritersOK, Retagged
  <2>2. CASE BackfillEnds(p)
    BY <2>2 DEF Inv, TypeOK, WritersOK, Retagged
  <2> QED BY <2>1, <2>2
<1>4. p \notin crossed' /\ disk[p] # "mixed" =>
        disk'[p] # "mixed" /\ (Retagged(p)' \/ disk'[p] = "tagged")
  <2>1. CASE BackfillBegins(p)
    BY <2>1 DEF Inv, TypeOK, WritersOK, Retagged
  <2>2. CASE BackfillEnds(p)
    BY <2>2 DEF Inv, TypeOK, WritersOK, Retagged
  <2> QED BY <2>1, <2>2
<1>5. ASSUME NEW u \in Photos PROVE CardOK(u)' /\ WritersOK(u)'
  <2>1. CardOK(u)'
    BY <1>1 DEF Inv, CardOK, Running
  <2>2. WritersOK(u)'
    BY <1>1, <1>3 DEF Inv, WritersOK, Retagged
  <2> QED BY <2>1, <2>2
<1>6. ASSUME NEW q \in Reqs PROVE HandlerOK(q)' /\ JobOK(q)' /\ AnswerOK(q)'
  <2>1. q \in writers'[Photo(q)] <=> q \in writers[Photo(q)]
    BY <1>1
  <2> QED BY <1>1, <2>1 DEF Inv, HandlerOK, JobOK, AnswerOK, Running
<1>7. ASSUME NEW q \in Reqs PROVE FileOK(q)'
  <2>1. CASE Photo(q) = p
    BY <1>1, <1>4, <2>1 DEF Inv, FileOK, Reading, Good
  <2>2. CASE Photo(q) # p
    BY <1>1, <2>2 DEF Inv, FileOK, Reading, Good, Retagged
  <2> QED BY <2>1, <2>2
<1> QED BY <1>2, <1>5, <1>6, <1>7 DEF Inv

LEMMA StopInv == ASSUME Inv, Stop PROVE Inv'
<1> USE DEF Stop, cardSide, files, Storage!Abandon
<1>1. TypeOK'
  BY PipelineAssumption DEF Inv, TypeOK, Storage!DeliveryTypeOK, Alive
<1>2. ASSUME NEW p \in Photos PROVE CardOK(p)' /\ WritersOK(p)'
  BY DEF Inv, TypeOK, CardOK, WritersOK, Retagged, Running, Requests
<1>3. ASSUME NEW q \in Reqs PROVE HandlerOK(q)' /\ JobOK(q)'
  BY DEF Inv, TypeOK, HandlerOK, JobOK, AnswerOK, Running, Alive
<1>4. ASSUME NEW q \in Reqs PROVE AnswerOK(q)'
  BY DEF Inv, TypeOK, AnswerOK, Alive
<1>5. ASSUME NEW q \in Reqs PROVE FileOK(q)'
  BY DEF Inv, TypeOK, AnswerOK, FileOK, Reading, Good, Retagged, Alive
<1> QED BY <1>1, <1>2, <1>3, <1>4, <1>5 DEF Inv

LEMMA CrashInv == ASSUME Inv, Crash PROVE Inv'
<1> USE DEF Crash, Storage!Abandon
<1>1. TypeOK'
  BY PipelineAssumption DEF Inv, TypeOK, Storage!DeliveryTypeOK, Alive, Read, Contents
<1>2. ASSUME NEW p \in Photos PROVE CardOK(p)' /\ WritersOK(p)'
  BY DEF Inv, TypeOK, CardOK, WritersOK, Retagged, Requests, Alive
<1>3. ASSUME NEW q \in Reqs PROVE HandlerOK(q)' /\ JobOK(q)'
  BY ReqParts DEF Inv, TypeOK, HandlerOK, JobOK, Running, Handling, Alive
<1>4. ASSUME NEW q \in Reqs PROVE AnswerOK(q)'
  BY DEF Inv, TypeOK, AnswerOK, Alive
<1>5. ASSUME NEW q \in Reqs PROVE FileOK(q)'
  BY ReqParts DEF Inv, TypeOK, AnswerOK, FileOK, Reading, Good, Retagged, Alive, Read
<1> QED BY <1>1, <1>2, <1>3, <1>4, <1>5 DEF Inv

------------------------------------------------------------------------------
(* The theorems.                                                            *)

LEMMA InitInv == Init => Inv
<1> SUFFICES ASSUME Init PROVE Inv
  OBVIOUS
<1> USE DEF Init, Storage!DeliveryInit
<1>1. TypeOK
  <2>1. Storage!DeliveryTypeOK
    BY DEF Storage!DeliveryTypeOK
  <2>2. /\ sends \in [Photos -> 0..MaxSends]
        /\ drops \in 0..MaxDrops /\ diskFull \in 0..MaxDiskFull
        /\ ends \in 0..MaxEnds /\ retags \in 0..MaxRetags
    BY PipelineAssumption
  <2>3. /\ card \in [Photos -> {"holds", "waits", "done"}]
        /\ handler \in [Reqs -> {"none", "gone"} \cup Handling]
        /\ task \in [Reqs -> {"none", "ended", "raised", "refused", "cancelled", "killed"}
                             \cup Alive]
        /\ fired \in [Reqs -> SUBSET Events]
    OBVIOUS
  <2>4. /\ disk \in [Photos -> Contents \cup {"mixed"}]
        /\ writers \in [Photos -> SUBSET Writers] /\ crossed \subseteq Photos
        /\ copy \in [Reqs -> Contents]
        /\ server \in {"down", "up", "stopping"} /\ tracked \subseteq Reqs
    BY DEF Contents
  <2> QED BY <2>1, <2>2, <2>3, <2>4 DEF TypeOK
<1>2. ASSUME NEW p \in Photos PROVE CardOK(p) /\ WritersOK(p)
  BY DEF CardOK, WritersOK, Retagged
<1>3. ASSUME NEW q \in Reqs PROVE Own(q)
  BY ReqParts DEF Own, HandlerOK, JobOK, AnswerOK, FileOK, Reading, Running, Handling
<1> QED BY <1>1, <1>2, <1>3 DEF Inv, Own

LEMMA NextInv == ASSUME Inv, [Next]_vars PROVE Inv'
<1>1. CASE \E p \in Photos : Arrive(p) \/ CardGivesUp(p)
  BY <1>1, ArriveInv, OutsideInv
<1>7. CASE \E p \in Photos : BackfillBegins(p) \/ BackfillEnds(p)
  BY <1>7, RetagInv
<1>2. CASE \E r \in Reqs : HandlerStep(r)
  BY <1>2, EndInv, BeginExtractInv, ExtractedInv, ExtractFailsInv DEF HandlerStep
<1>3. CASE \E r \in Reqs : TaskStep(r)
  BY <1>3, QuietTaskInv, BeginTagInv, TaggedInv, TagFailsInv, DeliverInv, StoreReturnsInv,
     StoreRaisesInv DEF TaskStep
<1>4. CASE \E r \in Reqs : Flush(r) \/ JobEnds(r) \/ LateLanding(r)
  BY <1>4, DeliverInv, JobEndsInv
<1>5. CASE Start \/ Stop \/ Stopped \/ Crash
  BY <1>5, OutsideInv, StopInv, CrashInv
<1>6. CASE UNCHANGED vars
  BY <1>6
    DEF vars, Inv, TypeOK, Storage!DeliveryTypeOK, CardOK, WritersOK, HandlerOK, JobOK,
     AnswerOK, FileOK, Reading, Good, Retagged, Running, Requests
<1> QED BY <1>1, <1>2, <1>3, <1>4, <1>5, <1>6, <1>7 DEF Next

LEMMA Invariance == Spec => []Inv
<1>1. Inv /\ [Next]_vars => Inv'
  BY NextInv
<1> QED BY InitInv, <1>1, PTL DEF Spec

\* Cards, handlers, tasks, executor jobs and answers fit together, whatever is
\* lost, posted again, stopped or killed.
THEOREM PipelineInvariant == Spec => []PipelineInv
BY Invariance, InvMeans, PTL

\* Nothing is announced as stored that storage has not taken over, and nothing
\* half written is stored of a photo sent once, unless the disk was full, or
\* backfill rewrote the file while the pipeline wrote or storage read it.
THEOREM StoresWhatIsWhole == Spec => []StoredIsTaken
BY Invariance, InvMeans, PTL

------------------------------------------------------------------------------
(* What the card was told of is accounted for.                              *)

\* The card got SUCCESS for this very attempt.
Acked(r) == card[Photo(r)] = "done" /\ sends[Photo(r)] = r[2]

\* A subscriber raised before store() was called.
RaisedEarly(r) == fired[r] \cap (SyncRaisers \ {"stored"}) # {}

\* How a task may end: after store() returned, or by an exception.
EndOK(r) ==
  /\ task[r] = "ended" => answer[r] = "returned"
  /\ task[r] = "raised" => answer[r] = "returned" \/ RaisedEarly(r)

Fates == \A r \in Reqs : (Acked(r) => task[r] # "none") /\ EndOK(r)

LEMMA FatesMean == ASSUME Inv, Fates PROVE AckedIsAccounted
<1> SUFFICES ASSUME NEW r \in Reqs, Acked(r)
             PROVE  \/ task[r] \in Alive \cup {"refused", "cancelled", "killed"}
                    \/ ledger[r] # "offered"
                    \/ task[r] = "raised" /\ RaisedEarly(r)
  BY DEF AckedIsAccounted, Acked, RaisedEarly
<1>1. answer[r] = "returned" => ledger[r] # "offered"
  BY DEF Inv, AnswerOK
<1>2. task[r] \in {"ended", "raised", "refused", "cancelled", "killed"} \cup Alive
  BY DEF Fates, Inv, TypeOK
<1> QED BY <1>1, <1>2 DEF Fates, EndOK

\* Only the answer that leaves a handler makes a card be told of an attempt.
LEMMA AckedBefore ==
  ASSUME Inv, Next, NEW q \in Reqs, Acked(q)'
  PROVE  Acked(q) \/ handler[q] = "replying"
<1> USE ReqParts DEF cardSide, files, store, life, counters
<1>1. ASSUME NEW p \in Photos, Arrive(p) \/ CardGivesUp(p) PROVE Acked(q)
  <2>1. Photo(q) # p
    BY <1>1 DEF Arrive, CardGivesUp, Acked, Inv, TypeOK
  <2> QED BY <1>1, <2>1 DEF Arrive, CardGivesUp, Acked, Inv, TypeOK
<1>2. ASSUME NEW r \in Reqs,
             Reject(r) \/ ExtractFails(r) \/ ReplyLost(r) \/ HandlerCancelled(r)
      PROVE  Acked(q)
  BY <1>2 DEF Reject, ExtractFails, ReplyLost, HandlerCancelled, HandlerGone, Acked, Inv, TypeOK
<1>3. ASSUME NEW r \in Reqs, Reply(r) PROVE Acked(q) \/ handler[q] = "replying"
  <2>1. CASE Awaited(r) /\ Photo(q) = Photo(r)
    <3>1. q[2] = r[2]
      BY <1>3, <2>1 DEF Reply, Awaited, Acked
    <3> QED BY <1>3, <2>1, <3>1, SameReq DEF Reply
  <2>2. CASE ~(Awaited(r) /\ Photo(q) = Photo(r))
    BY <1>3, <2>2 DEF Reply, Acked, Inv, TypeOK
  <2> QED BY <2>1, <2>2
<1>4. ASSUME NEW r \in Reqs, \/ BeginExtract(r) \/ Extracted(r) \/ TaskStep(r)
                             \/ Flush(r) \/ JobEnds(r) \/ LateLanding(r)
      PROVE  Acked(q)
  <2>1. UNCHANGED <<card, sends>>
    BY <1>4 DEF BeginExtract, Extracted, TaskStep, PublishReceived, NoCoordinates, BeginTag,
       Tagged, TagFails, StoreDelivers, StoreReturns, StoreRaises, Flush, JobEnds, LateLanding
  <2> QED BY <2>1 DEF Acked
<1>5. CASE Start \/ Stop \/ Stopped
  BY <1>5 DEF Start, Stop, Stopped, Acked
<1>6. CASE Crash
  BY <1>6 DEF Crash, Acked, Inv, TypeOK
<1>7. ASSUME NEW p \in Photos, BackfillBegins(p) \/ BackfillEnds(p) PROVE Acked(q)
  BY <1>7 DEF BackfillBegins, BackfillEnds, Acked
<1> QED BY <1>1, <1>2, <1>3, <1>4, <1>5, <1>6, <1>7 DEF Next, HandlerStep

\* What a step may do to the task of a request, and to what store() told it.
LEMMA TaskMoves ==
  ASSUME Inv, Next, NEW q \in Reqs
  PROVE  /\ task[q] # "none" => task'[q] # "none"
         /\ answer[q] = "returned" => answer'[q] = "returned"
         /\ fired[q] \subseteq fired'[q]
         /\ \/ task'[q] = task[q]
            \/ task'[q] \notin {"none", "ended", "raised"}
            \/ task'[q] = "ended" /\ answer'[q] = "returned"
            \/ task'[q] = "raised" /\ (answer'[q] = "returned" \/ RaisedEarly(q)')
<1> USE DEF cardSide, files, store, life, counters
<1>1. ASSUME NEW p \in Photos,
             Arrive(p) \/ CardGivesUp(p) \/ BackfillBegins(p) \/ BackfillEnds(p)
      PROVE  UNCHANGED <<task, answer, fired>>
  BY <1>1 DEF Arrive, CardGivesUp, BackfillBegins, BackfillEnds
<1>2. ASSUME NEW r \in Reqs,
             \/ Reject(r) \/ BeginExtract(r) \/ ExtractFails(r) \/ Reply(r) \/ ReplyLost(r)
             \/ HandlerCancelled(r) \/ StoreDelivers(r) \/ Flush(r) \/ JobEnds(r) \/ LateLanding(r)
      PROVE  UNCHANGED <<task, answer, fired>>
  BY <1>2 DEF Reject, BeginExtract, ExtractFails, Reply, ReplyLost, HandlerCancelled,
     HandlerGone, StoreDelivers, Flush, JobEnds, LateLanding, Storage!Deliver
<1>3. CASE Start \/ Stopped
  BY <1>3 DEF Start, Stopped
<1>4. ASSUME NEW r \in Reqs, Extracted(r) \/ NoCoordinates(r) \/ BeginTag(r) \/ TagFails(r)
      PROVE  /\ UNCHANGED <<answer, fired>>
             /\ \E s \in {"created", "storing", "tagging"} : task' = [task EXCEPT ![r] = s]
  BY <1>4 DEF Extracted, NoCoordinates, BeginTag, TagFails
<1>5. ASSUME NEW r \in Reqs, NEW e \in Events \ {"stored"}, NEW next \in {"looking_up", "storing"},
             Publish(r, e, next), UNCHANGED answer
      PROVE  /\ UNCHANGED answer /\ fired[q] \subseteq fired'[q]
             /\ \/ task'[q] = task[q]
                \/ task'[q] \in {"looking_up", "storing"}
                \/ task'[q] = "raised" /\ RaisedEarly(q)'
  BY <1>5 DEF Publish, RaisedEarly, Inv, TypeOK
<1>6. ASSUME NEW r \in Reqs, PublishReceived(r) \/ Tagged(r)
      PROVE  /\ UNCHANGED answer /\ fired[q] \subseteq fired'[q]
             /\ \/ task'[q] = task[q]
                \/ task'[q] \in {"looking_up", "storing"}
                \/ task'[q] = "raised" /\ RaisedEarly(q)'
  BY <1>5, <1>6 DEF PublishReceived, Tagged, Events
<1>7. ASSUME NEW r \in Reqs, StoreReturns(r)
      PROVE  /\ answer[q] = "returned" => answer'[q] = "returned"
             /\ fired[q] \subseteq fired'[q]
             /\ \/ task'[q] = task[q]
                \/ task'[q] \in {"ended", "raised"} /\ answer'[q] = "returned"
  <2>1. /\ answer' = [answer EXCEPT ![r] = "returned"]
        /\ fired' = [fired EXCEPT ![r] = @ \cup {"stored"}]
        /\ \E s \in {"ended", "raised"} : task' = [task EXCEPT ![r] = s]
    BY <1>7 DEF StoreReturns, Storage!Confirm, Storage!TakeOver, Publish
  <2> QED BY <2>1 DEF Inv, TypeOK, Storage!DeliveryTypeOK
<1>8. ASSUME NEW r \in Reqs, StoreRaises(r)
      PROVE  /\ answer[q] = "returned" => answer'[q] = "returned"
             /\ UNCHANGED fired /\ task'[q] \in {task[q], "refused"}
  BY <1>8 DEF StoreRaises, Storage!Refuse, Inv, TypeOK, Storage!DeliveryTypeOK
<1>9. CASE Stop \/ Crash
  BY <1>9 DEF Stop, Crash, Storage!Abandon, Alive
<1>10. CASE \E r \in Reqs : HandlerStep(r) \/ TaskStep(r)
  BY <1>2, <1>4, <1>6, <1>7, <1>8, <1>10 DEF HandlerStep, TaskStep, Inv, TypeOK
<1> QED BY <1>1, <1>2, <1>3, <1>9, <1>10 DEF Next

LEMMA FatesStep == ASSUME Inv, Fates, [Next]_vars PROVE Fates'
<1>1. CASE Next
  <2> SUFFICES ASSUME NEW q \in Reqs PROVE (Acked(q) => task[q] # "none")' /\ EndOK(q)'
    BY DEF Fates
  <2>1. (Acked(q) => task[q] # "none")'
    BY <1>1, AckedBefore, TaskMoves DEF Fates, Inv, HandlerOK
  <2>2. RaisedEarly(q) => RaisedEarly(q)'
    BY <1>1, TaskMoves DEF RaisedEarly
  <2>3. EndOK(q)'
    BY <1>1, <2>2, TaskMoves DEF Fates, EndOK
  <2> QED BY <2>1, <2>3
<1>2. CASE UNCHANGED vars
  BY <1>2 DEF vars, Fates, Acked, EndOK, RaisedEarly
<1> QED BY <1>1, <1>2

\* soap_server.py:195-277: once the card has its SUCCESS the photo of that very
\* attempt is under way to the storage or there, however many answers were lost
\* and attempts overlap, unless one of the four things happened that the code
\* lets a task end by.
THEOREM AccountsForAcked == Spec => []AckedIsAccounted
<1>1. Init => Fates
  BY ReqParts DEF Init, Fates, Acked, EndOK
<1>2. Inv /\ Fates /\ [Next]_vars => Fates'
  BY FatesStep
<1>3. Inv /\ Fates => AckedIsAccounted
  BY FatesMean
<1> QED BY <1>1, <1>2, <1>3, Invariance, PTL DEF Spec
=============================================================================
