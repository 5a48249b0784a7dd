------------------------------ MODULE Backfill ------------------------------
(***************************************************************************)
(* eyefi_core.backfill next to the upload pipeline: calls of the backfill  *)
(* service go through the sidecars left in the download directory and      *)
(* geotag and store again what missed its coordinates, while uploads go on *)
(* or are cut short and other calls work on the same files.                *)
(*                                                                         *)
(* A card names the sidecar of IMG.JPG either IMG.log, the name            *)
(* tar_extract.py pairs with the image when it is uploaded, or             *)
(* IMG.JPG.log, the name backfill.py finds the image by.  Unpacking and    *)
(* tagging write the image in place, in executor jobs that outlive the     *)
(* coroutine that waits for them; store() reads it when its turn comes.    *)
(***************************************************************************)
EXTENDS Naturals

CONSTANTS
  Photos,     \* images, each with a sidecar
  Calls,      \* calls of the backfill service that may be under way together
  Refusable,  \* the photos store() may raise for, once per upload
  MaxPosts,   \* bound: times the card posts a photo
  MaxCuts,    \* bound: crashes, and calls that are cancelled
  MaxOff      \* bound: times the geolocation service stops answering

ASSUME BackfillAssumption ==
  /\ Refusable \subseteq Photos
  /\ MaxPosts \in Nat /\ MaxCuts \in Nat /\ MaxOff \in Nat
  /\ Calls \cap Photos = {}

VARIABLES
  sidecar,  \* photo -> "IMG.log" or "IMG.JPG.log"
  usable,   \* photos whose sidecar yields access points that can be looked up
  file,     \* photo -> what the image on the disk is
  posts,    \* photo -> how many times it was posted
  live,     \* photo -> where its latest upload stands
  call,     \* call -> where backfill_geotags stands
  stored,   \* photo -> the copies storage has accepted since it was last posted
  refused,  \* photos for which store() raised since they were last posted
  cut,      \* photos of which an upload or a call was cut short since then, between
            \* the first byte it wrote and the end of store() (history)
  answers,  \* the geolocation service answers with coordinates
  off,      \* counter of its interruptions
  cuts      \* counter of crashes and cancelled calls

outside == <<answers, off, cuts>>
vars == <<sidecar, usable, file, posts, live, call, stored, refused, cut, outside>>

Names == {"IMG.log", "IMG.JPG.log"}
Copies == {"plain", "tagged", "torn"}

\* "half" written by one job, that will leave it whole; "mixed" by several that
\* tag it, "crossed" if one of them unpacks it.
Contents == Copies \cup {"none", "half", "mixed", "crossed"}

\* Of the last three, "adrift" is a job whose coroutine was cancelled, "landing" a
\* store() that was, and "failed" an upload that was not unpacked to its end.
LiveStages ==
  {"card", "extracting", "received", "looking", "tagging", "storing", "ended",
   "adrift", "landing", "failed"}

\* One call: its stage, the photo it is at (if any), the photos it listed, those
\* left, and its summary.
CallStates ==
  [pc : {"idle", "checking", "looking", "tagging", "storing", "adrift", "landing"},
   at : SUBSET Photos, listed : SUBSET Photos, todo : SUBSET Photos,
   tagged : SUBSET Photos, already : SUBSET Photos,
   unresolved : SUBSET Photos, errors : SUBSET Photos]

TypeOK ==
  /\ sidecar \in [Photos -> Names] /\ usable \subseteq Photos
  /\ file \in [Photos -> Contents]
  /\ posts \in [Photos -> 0..MaxPosts]
  /\ live \in [Photos -> LiveStages]
  /\ call \in [Calls -> CallStates]
  /\ stored \in [Photos -> SUBSET Copies]
  /\ refused \subseteq Refusable /\ cut \subseteq Photos
  /\ answers \in BOOLEAN /\ off \in 0..MaxOff /\ cuts \in 0..MaxCuts

Listing(photos) ==
  [pc |-> "idle", at |-> {}, listed |-> photos, todo |-> photos,
   tagged |-> {}, already |-> {}, unresolved |-> {}, errors |-> {}]

Init ==
  /\ sidecar \in [Photos -> Names] /\ usable \in SUBSET Photos
  /\ file = [p \in Photos |-> "none"]
  /\ posts = [p \in Photos |-> 0]
  /\ live = [p \in Photos |-> "card"]
  /\ call = [c \in Calls |-> Listing({})]
  /\ stored = [p \in Photos |-> {}]
  /\ refused = {} /\ cut = {}
  /\ answers = FALSE /\ off = 0 /\ cuts = 0

------------------------------------------------------------------------------
(* The image, written in place by the jobs of uploads and calls.            *)

TaggingCalls(p) == {c \in Calls : call[c].pc \in {"tagging", "adrift"} /\ call[c].at = {p}}

LiveWrites(p) == live[p] \in {"extracting", "tagging", "adrift"}

Writing(p) == TaggingCalls(p) # {} \/ LiveWrites(p)

\* A job other than that of c (a call, or p itself for its upload).
OthersWriting(p, c) == TaggingCalls(p) \ {c} # {} \/ (LiveWrites(p) /\ c # p)

Torn(p) == file[p] \in {"torn", "half", "mixed", "crossed"}

Becomes(p, content) == file' = [file EXCEPT ![p] = content]

BeginUnpack(p) == Becomes(p, IF Writing(p) THEN "crossed" ELSE "half")

\* What is torn stays torn with tags in it.
BeginRewrite(p) ==
  Becomes(p, IF file[p] = "torn" THEN "torn"
             ELSE IF ~Writing(p) THEN "half"
             ELSE IF live[p] = "extracting" \/ file[p] = "crossed" THEN "crossed"
             ELSE "mixed")

\* What is on the disk when the last job is over, one that on its own leaves whole.
Leaves(p, whole) ==
  IF file[p] = "mixed" THEN {"tagged", "torn"}
  ELSE IF file[p] = "crossed" THEN Copies
  ELSE IF file[p] = "half" THEN {whole}
  ELSE {"torn"}

\* The job of c ends.
EndWrite(p, c, whole) ==
  \/ OthersWriting(p, c) /\ UNCHANGED file
  \/ ~OthersWriting(p, c) /\ \E content \in Leaves(p, whole) : Becomes(p, content)

\* store() accepts what it reads of the image now.
Accept(p) == stored' = [stored EXCEPT ![p] = @ \cup {IF Torn(p) THEN "torn" ELSE file[p]}]

Refuse(p) == p \in Refusable \ refused /\ refused' = refused \cup {p}

\* An upload or a call at p is over before its time, with the image as content.
CutShort(p, content) == cut' = IF content = "plain" THEN cut ELSE cut \cup {p}

------------------------------------------------------------------------------
(* The upload pipeline, for one photo.                                      *)

LiveGoes(p, stage) == live' = [live EXCEPT ![p] = stage]

Over == {"ended", "failed"}

\* A photo is posted, or posted again.
BeginExtract(p) ==
  /\ live[p] \in {"card"} \cup Over /\ posts[p] < MaxPosts
  /\ posts' = [posts EXCEPT ![p] = @ + 1]
  /\ LiveGoes(p, "extracting") /\ BeginUnpack(p)
  /\ stored' = [stored EXCEPT ![p] = {}]
  /\ refused' = refused \ {p} /\ cut' = cut \ {p}
  /\ UNCHANGED <<sidecar, usable, call, outside>>

Extracted(p) ==
  /\ live[p] = "extracting"
  /\ LiveGoes(p, "received") /\ EndWrite(p, p, "plain")
  /\ UNCHANGED <<sidecar, usable, posts, call, stored, refused, cut, outside>>

\* The subscribers of IMAGE_RECEIVED have run; extract_upload has found the
\* sidecar by the stem of its name.
Received(p) ==
  /\ live[p] = "received"
  /\ LiveGoes(p, IF sidecar[p] = "IMG.log" THEN "looking" ELSE "storing")
  /\ UNCHANGED <<sidecar, usable, file, posts, call, stored, refused, cut, outside>>

\* geotag_image returns nothing or raises; the upload goes on.
LiveUnresolved(p) ==
  /\ live[p] = "looking" /\ (~answers \/ p \notin usable \/ Torn(p))
  /\ LiveGoes(p, "storing")
  /\ UNCHANGED <<sidecar, usable, file, posts, call, stored, refused, cut, outside>>

LiveBeginsTagging(p) ==
  /\ live[p] = "looking" /\ answers /\ p \in usable
  /\ LiveGoes(p, "tagging") /\ BeginRewrite(p)
  /\ UNCHANGED <<sidecar, usable, posts, call, stored, refused, cut, outside>>

LiveTagged(p) ==
  /\ live[p] = "tagging"
  /\ LiveGoes(p, "storing") /\ EndWrite(p, p, "tagged")
  /\ UNCHANGED <<sidecar, usable, posts, call, stored, refused, cut, outside>>

LiveStores(p) ==
  /\ live[p] = "storing"
  /\ LiveGoes(p, "ended")
  /\ \/ Accept(p) /\ UNCHANGED refused
     \/ Refuse(p) /\ UNCHANGED stored
  /\ UNCHANGED <<sidecar, usable, file, posts, call, cut, outside>>

\* A job that nobody waits for any more ends.
LiveAdriftEnds(p) ==
  /\ live[p] = "adrift"
  /\ LiveGoes(p, "ended") /\ EndWrite(p, p, "tagged")
  /\ cut' = cut \cup {p}
  /\ UNCHANGED <<sidecar, usable, posts, call, stored, refused, outside>>

\* A cancelled store() has come to nothing, or its executor job brings it about.
LiveLands(p) ==
  /\ live[p] = "landing"
  /\ LiveGoes(p, "ended")
  /\ Accept(p) \/ UNCHANGED stored
  /\ UNCHANGED <<sidecar, usable, file, posts, call, refused, cut, outside>>

LiveStep(p) ==
  \/ Extracted(p) \/ Received(p) \/ LiveUnresolved(p) \/ LiveBeginsTagging(p)
  \/ LiveTagged(p) \/ LiveStores(p) \/ LiveAdriftEnds(p) \/ LiveLands(p)

\* The handler was cancelled while the image was unpacked: no task is created.
HandlerCancelled(p) ==
  /\ live[p] = "extracting"
  /\ LiveGoes(p, "ended") /\ EndWrite(p, p, "plain")
  /\ CutShort(p, file'[p])
  /\ UNCHANGED <<sidecar, usable, posts, call, stored, refused, outside>>

\* The disk is full, or the archive ends early.
ExtractFails(p) ==
  /\ live[p] = "extracting"
  /\ LiveGoes(p, "failed")
  /\ IF OthersWriting(p, p) THEN UNCHANGED file ELSE Becomes(p, "torn")
  /\ cut' = cut \cup {p}
  /\ UNCHANGED <<sidecar, usable, posts, call, stored, refused, outside>>

\* A subscriber raises on IMAGE_RECEIVED; the exception ends the task, ...
ReceivedRaises(p) ==
  /\ live[p] = "received"
  /\ LiveGoes(p, "ended") /\ CutShort(p, file[p])
  /\ UNCHANGED <<sidecar, usable, file, posts, call, stored, refused, outside>>

\* ... or on IMAGE_GEOTAGGED.
GeotaggedRaises(p) ==
  /\ live[p] = "tagging"
  /\ LiveGoes(p, "ended") /\ EndWrite(p, p, "tagged")
  /\ cut' = cut \cup {p}
  /\ UNCHANGED <<sidecar, usable, posts, call, stored, refused, outside>>

\* stop() cancels the task, but not what the executor does for it.
LiveCancelled(p) ==
  /\ \/ live[p] \in {"received", "looking"} /\ LiveGoes(p, "ended")
     \/ live[p] = "tagging" /\ LiveGoes(p, "adrift")
     \/ live[p] = "storing" /\ LiveGoes(p, "landing")
  /\ CutShort(p, file[p])
  /\ UNCHANGED <<sidecar, usable, file, posts, call, stored, refused, outside>>

LiveUpset(p) ==
  \/ HandlerCancelled(p) \/ ExtractFails(p) \/ ReceivedRaises(p) \/ GeotaggedRaises(p)
  \/ LiveCancelled(p)

------------------------------------------------------------------------------
(* backfill_geotags.                                                        *)

Move(c, k) == call' = [call EXCEPT ![c] = k]

At(c, p) == call[c].at = {p}

\* The call k goes on to a stage, ...
Enters(k, stage) ==
  [pc |-> stage, at |-> k.at, listed |-> k.listed, todo |-> k.todo,
   tagged |-> k.tagged, already |-> k.already, unresolved |-> k.unresolved, errors |-> k.errors]

\* ... turns to another photo, ...
Turns(k, stage, at) ==
  [pc |-> stage, at |-> at, listed |-> k.listed, todo |-> k.todo \ at,
   tagged |-> k.tagged, already |-> k.already, unresolved |-> k.unresolved, errors |-> k.errors]

\* ... having counted the one it was at.
Counts(k, outcome) ==
  LET plus(S, o) == IF o = outcome THEN S \cup k.at ELSE S
  IN [pc |-> k.pc, at |-> k.at, listed |-> k.listed, todo |-> k.todo,
      tagged |-> plus(k.tagged, "tagged"), already |-> plus(k.already, "already"),
      unresolved |-> plus(k.unresolved, "unresolved"), errors |-> plus(k.errors, "errors")]

\* The call is done with its photo, k being its summary, and takes the next.
TakeNext(c, k) ==
  \/ k.todo = {} /\ Move(c, Turns(k, "idle", {}))
  \/ \E p \in k.todo : Move(c, Turns(k, "checking", {p}))

\* Sidecar and image may be whole, be missing, or be what another post has left.
HalfUnpacked(p) == live[p] \in {"extracting", "failed"}

\* with_suffix("") names an image for IMG.JPG.log only.
Found == {p \in Photos : live[p] # "card" /\ sidecar[p] = "IMG.JPG.log"}

\* The sidecars there are, with an image when it is their turn.
Begin(c) ==
  /\ call[c].pc = "idle"
  /\ \E listed \in SUBSET Found :
       /\ \A p \in Found \ listed : HalfUnpacked(p) /\ posts[p] = 1
       /\ TakeNext(c, Listing(listed))
  /\ UNCHANGED <<sidecar, usable, file, posts, live, stored, refused, cut, outside>>

\* _has_gps_tags; of a torn image the tags can be read or not.
AlreadyTagged(c) ==
  /\ call[c].pc = "checking"
  /\ \E p \in call[c].at : file[p] = "tagged" \/ Torn(p)
  /\ TakeNext(c, Counts(call[c], "already"))
  /\ UNCHANGED <<sidecar, usable, file, posts, live, stored, refused, cut, outside>>

Untagged(c) ==
  /\ call[c].pc = "checking"
  /\ \E p \in call[c].at : file[p] # "tagged"
  /\ Move(c, Enters(call[c], "looking"))
  /\ UNCHANGED <<sidecar, usable, file, posts, live, stored, refused, cut, outside>>

\* No marker or no access point in the sidecar, or none of the backends knows them.
Unresolved(c) ==
  /\ call[c].pc = "looking"
  /\ \E p \in call[c].at : ~answers \/ p \notin usable \/ HalfUnpacked(p)
  /\ TakeNext(c, Counts(call[c], "unresolved"))
  /\ UNCHANGED <<sidecar, usable, file, posts, live, stored, refused, cut, outside>>

BeginTagging(c) ==
  /\ call[c].pc = "looking" /\ answers
  /\ \E p \in call[c].at : p \in usable /\ BeginRewrite(p)
  /\ Move(c, Enters(call[c], "tagging"))
  /\ UNCHANGED <<sidecar, usable, posts, live, stored, refused, cut, outside>>

Tagged(c) ==
  /\ call[c].pc = "tagging"
  /\ \E p \in call[c].at : EndWrite(p, c, "tagged")
  /\ Move(c, Enters(call[c], "storing"))
  /\ UNCHANGED <<sidecar, usable, posts, live, stored, refused, cut, outside>>

\* The geolocation service is not registered, the sidecar has a power of 0 or is
\* cut off in a number, or piexif refuses what is left of a torn image before it
\* writes anything.
GeotagRaises(c) ==
  /\ call[c].pc = "looking"
  /\ \E p \in call[c].at : ~answers \/ p \notin usable \/ HalfUnpacked(p) \/ Torn(p)
  /\ TakeNext(c, Counts(call[c], "errors"))
  /\ UNCHANGED <<sidecar, usable, file, posts, live, stored, refused, cut, outside>>

\* Mutant of Stores: a photo that is stored already is not stored again.
StoresOnce(c) ==
  /\ call[c].pc = "storing"
  /\ \E p \in call[c].at : IF stored[p] = {} THEN Accept(p) ELSE UNCHANGED stored
  /\ TakeNext(c, Counts(call[c], "tagged"))
  /\ UNCHANGED <<sidecar, usable, file, posts, live, refused, cut, outside>>

Stores(c) ==
  /\ call[c].pc = "storing"
  /\ \E p \in call[c].at : Accept(p)
  /\ TakeNext(c, Counts(call[c], "tagged"))
  /\ UNCHANGED <<sidecar, usable, file, posts, live, refused, cut, outside>>

\* Mutant of StoreRaises: the exception is not caught, the call ends.
StoreRaisesOut(c) ==
  /\ call[c].pc = "storing"
  /\ \E p \in call[c].at : Refuse(p)
  /\ Move(c, Turns(call[c], "idle", {}))
  /\ UNCHANGED <<sidecar, usable, file, posts, live, stored, cut, outside>>

StoreRaises(c) ==
  /\ call[c].pc = "storing"
  /\ \E p \in call[c].at : Refuse(p)
  /\ TakeNext(c, Counts(call[c], "errors"))
  /\ UNCHANGED <<sidecar, usable, file, posts, live, stored, cut, outside>>

\* What the executor still does for a call that was cancelled.
AdriftEnds(c) ==
  /\ call[c].pc = "adrift"
  /\ \E p \in call[c].at : EndWrite(p, c, "tagged") /\ cut' = cut \cup {p}
  /\ Move(c, Listing({}))
  /\ UNCHANGED <<sidecar, usable, posts, live, stored, refused, outside>>

Lands(c) ==
  /\ call[c].pc = "landing"
  /\ UNCHANGED stored \/ \E p \in call[c].at : Accept(p)
  /\ Move(c, Listing({}))
  /\ UNCHANGED <<sidecar, usable, file, posts, live, refused, cut, outside>>

CallStep(c) ==
  \/ Begin(c) \/ AlreadyTagged(c) \/ Untagged(c) \/ Unresolved(c) \/ BeginTagging(c)
  \/ Tagged(c) \/ GeotagRaises(c) \/ Stores(c) \/ StoreRaises(c) \/ AdriftEnds(c) \/ Lands(c)

\* The script that called the service is stopped; the summary is gone.
CallCancelled(c) ==
  /\ cuts < MaxCuts /\ cuts' = cuts + 1
  /\ \/ call[c].pc \in {"checking", "looking"} /\ Move(c, Listing({})) /\ UNCHANGED cut
     \/ /\ call[c].pc = "tagging" /\ Move(c, Enters(call[c], "adrift"))
        /\ cut' = cut \cup call[c].at
     \/ /\ call[c].pc = "storing" /\ Move(c, Enters(call[c], "landing"))
        /\ cut' = cut \cup call[c].at
  /\ UNCHANGED <<sidecar, usable, file, posts, live, stored, refused, answers, off>>

------------------------------------------------------------------------------
AtWork(p) == live[p] \notin Over \/ \E c \in Calls : At(c, p)

\* The process dies; what is on the disk stays as it is.
Crash ==
  /\ cuts < MaxCuts /\ cuts' = cuts + 1
  /\ file' = [p \in Photos |-> IF Torn(p) THEN "torn" ELSE file[p]]
  /\ live' = [p \in Photos |-> IF live[p] = "card" THEN "card"
                               ELSE IF HalfUnpacked(p) THEN "failed" ELSE "ended"]
  /\ cut' = cut \cup {p \in Photos : AtWork(p) /\ file[p] \notin {"none", "plain"}}
  /\ call' = [c \in Calls |-> Listing({})]
  /\ UNCHANGED <<sidecar, usable, posts, stored, refused, answers, off>>

\* The geolocation service is configured, fixed, or out of reach.
StartsAnswering ==
  /\ ~answers
  /\ answers' = TRUE
  /\ UNCHANGED <<sidecar, usable, file, posts, live, call, stored, refused, cut, off, cuts>>

StopsAnswering ==
  /\ answers /\ off < MaxOff
  /\ answers' = FALSE /\ off' = off + 1
  /\ UNCHANGED <<sidecar, usable, file, posts, live, call, stored, refused, cut, cuts>>

Next ==
  \/ \E p \in Photos : BeginExtract(p) \/ LiveStep(p) \/ LiveUpset(p)
  \/ \E c \in Calls : CallStep(c) \/ CallCancelled(c)
  \/ Crash \/ StartsAnswering \/ StopsAnswering

Spec == Init /\ [][Next]_vars

\* Coroutines and jobs go on, somebody calls the service again and again, and
\* the geolocation service answers in the end.
FairSpec ==
  /\ Spec
  /\ WF_vars(StartsAnswering)
  /\ \A p \in Photos : WF_vars(LiveStep(p))
  /\ \A c \in Calls : WF_vars(CallStep(c))

------------------------------------------------------------------------------
(* Properties.                                                              *)

\* A photo whose file carries coordinates, and that nobody is at work on, has
\* been handed to storage with them since it was last posted, whatever calls and
\* uploads overlapped: the last job to write the file is followed by a store()
\* that reads it.  What breaks this, and "already tagged" then keeps every later
\* call from repairing it (backfill.py:77-80), is a store() that raised, and an
\* upload or a call that wrote the file and was cut short before its store() was
\* over: by stop() or by whoever stops the script that called the service
\* (soap_server.py:96-97), by a subscriber that raises (soap_server.py:247), by
\* unpacking that fails half-way, or by a crash.
TaggedIsSent ==
  \A p \in Photos :
    file[p] = "tagged" /\ ~AtWork(p)
      => "tagged" \in stored[p] \/ p \in refused \/ p \in cut

Counted(k) == k.tagged \cup k.already \cup k.unresolved \cup k.errors

\* backfill.py:29-44: the summary of a call that returned counts every photo it
\* listed once, whatever store() raised for other photos and other calls did to
\* the same ones, and of what it counts as tagged storage has accepted a copy, at
\* least until the photo is posted again.
SummaryTrue ==
  \A c \in Calls :
    LET k == call[c]
    IN /\ k.listed = Counted(k) \cup k.at \cup k.todo
       /\ k.pc = "idle" => k.listed = Counted(k)
       /\ Counted(k) \cap (k.at \cup k.todo) = {}
       /\ k.tagged \cap (k.already \cup k.unresolved \cup k.errors) = {}
       /\ k.already \cap (k.unresolved \cup k.errors) = {} /\ k.unresolved \cap k.errors = {}
       /\ \A p \in k.tagged : posts[p] = 1 => stored[p] # {}

\* The variables fit together: an image is half written exactly while a job is
\* at it, or because overlapping or interrupted jobs have left it so, a call
\* works on posted photos whose sidecar it could find, and its summary is true.
BackfillInv ==
  /\ TypeOK /\ SummaryTrue
  /\ \A p \in Photos :
       /\ file[p] = "none" <=> live[p] = "card"
       /\ Writing(p) => Torn(p)
       /\ file[p] \in {"half", "mixed", "crossed"} => Writing(p)
       /\ sidecar[p] = "IMG.log" => \A c \in Calls : p \notin call[c].listed
  /\ \A c \in Calls :
       /\ \A p \in call[c].listed : live[p] # "card"
       /\ call[c].pc = "idle" <=> call[c].at = {}

\* backfill.py:8-11 for the photos whose sidecar has the name backfill looks for
\* and yields access points that the service knows, once their upload is over:
\* calling again hands them to storage rewritten.  The copy may be torn, by jobs
\* that overlapped.  Photos for which store() raised, or that were cut short, are
\* left out: they may stay "already tagged" for ever.
CaughtUpByName ==
  \A p \in Photos :
    live[p] = "ended" /\ sidecar[p] = "IMG.JPG.log" /\ p \in usable
      ~> stored[p] \cap {"tagged", "torn"} # {} \/ p \in refused \/ p \in cut
=============================================================================
