-------------------------- MODULE Backfill_proofs --------------------------
(***************************************************************************)
(* For any number of photos, of posts of each, of calls of the backfill    *)
(* service under way together, of crashes and of interruptions of the      *)
(* geolocation service: the summaries are true, and a tagged file that     *)
(* nobody is at work on has been handed to storage, or it was cut short.   *)
(***************************************************************************)
EXTENDS Backfill, TLAPS

------------------------------------------------------------------------------
(* One call.                                                                *)

\* It is at no photo, or at one that is not left to be done.
AtOne(k) ==
  \/ k.pc = "idle" /\ k.at = {}
  \/ k.pc # "idle" /\ \E p \in Photos : k.at = {p} /\ p \notin k.todo

Apart(k) ==
  /\ k.tagged \cap (k.already \cup k.unresolved \cup k.errors) = {}
  /\ k.already \cap (k.unresolved \cup k.errors) = {} /\ k.unresolved \cap k.errors = {}

\* Every photo listed is counted once, under way or left.
Sums(k) ==
  /\ k \in CallStates /\ AtOne(k) /\ Apart(k)
  /\ k.listed = Counted(k) \cup k.at \cup k.todo
  /\ k.pc = "idle" => k.listed = Counted(k)
  /\ Counted(k) \cap (k.at \cup k.todo) = {}

\* A call about to take the next photo: the one before is counted.
Ready(k) ==
  /\ k \in CallStates /\ Apart(k)
  /\ k.listed = Counted(k) \cup k.todo
  /\ Counted(k) \cap k.todo = {}

LEMMA EntersSums ==
  ASSUME NEW k, Sums(k), k.pc # "idle",
         NEW stage \in {"looking", "tagging", "storing", "adrift", "landing"}
  PROVE  Sums(Enters(k, stage))
<1> DEFINE e == Enters(k, stage)
<1>1. /\ e.pc = stage /\ e.at = k.at /\ e.listed = k.listed /\ e.todo = k.todo
      /\ e.tagged = k.tagged /\ e.already = k.already /\ e.unresolved = k.unresolved
      /\ e.errors = k.errors
  BY DEF Enters
<1>2. e \in CallStates
  BY DEF Sums, CallStates, Enters
<1> HIDE DEF e
<1>3. Sums(e)
  BY <1>1, <1>2 DEF Sums, AtOne, Apart, Counted
<1> QED BY <1>3 DEF e

LEMMA CountsReady ==
  ASSUME NEW k, Sums(k), k.pc # "idle",
         NEW o \in {"tagged", "already", "unresolved", "errors"}
  PROVE  Ready(Counts(k, o))
<1> DEFINE e == Counts(k, o)
           plus(S, x) == IF x = o THEN S \cup k.at ELSE S
<1>1. /\ e.todo = k.todo /\ e.listed = k.listed
      /\ e.tagged = plus(k.tagged, "tagged") /\ e.already = plus(k.already, "already")
      /\ e.unresolved = plus(k.unresolved, "unresolved") /\ e.errors = plus(k.errors, "errors")
  BY DEF Counts
<1>2. e \in CallStates
  BY DEF Sums, CallStates, Counts
<1> HIDE DEF e
<1>3. k.at \cap k.todo = {}
  BY DEF Sums, AtOne
<1>4. Counted(e) = Counted(k) \cup k.at
  BY <1>1 DEF Counted
<1>5. Apart(e)
  BY <1>1 DEF Sums, Apart, Counted
<1>6. Ready(e)
  BY <1>1, <1>2, <1>3, <1>4, <1>5 DEF Sums, Ready
<1> QED BY <1>6 DEF e

LEMMA TurnsSums ==
  ASSUME NEW k, Ready(k)
  PROVE  /\ k.todo = {} => Sums(Turns(k, "idle", {}))
         /\ \A p \in k.todo : Sums(Turns(k, "checking", {p}))
<1>1. ASSUME NEW stage \in {"idle", "checking"}, NEW at \in SUBSET Photos
      PROVE  LET e == Turns(k, stage, at)
             IN /\ e.pc = stage /\ e.at = at /\ e.listed = k.listed /\ e.todo = k.todo \ at
                /\ e.tagged = k.tagged /\ e.already = k.already
                /\ e.unresolved = k.unresolved /\ e.errors = k.errors
                /\ Counted(e) = Counted(k) /\ e \in CallStates
  BY DEF Turns, Counted, Ready, CallStates
<1>2. ASSUME k.todo = {} PROVE Sums(Turns(k, "idle", {}))
  BY <1>1, <1>2 DEF Ready, Sums, AtOne, Apart
<1>3. ASSUME NEW p \in k.todo PROVE Sums(Turns(k, "checking", {p}))
  <2>1. p \in Photos
    BY DEF Ready, CallStates
  <2> QED BY <1>1, <2>1 DEF Ready, Sums, AtOne, Apart
<1> QED BY <1>2, <1>3

LEMMA ListingReady ==
  ASSUME NEW S \in SUBSET Photos PROVE Ready(Listing(S))
BY DEF Listing, Ready, CallStates, Apart, Counted

LEMMA NoListing ==
  /\ Sums(Listing({}))
  /\ Listing({}).pc = "idle" /\ Listing({}).at = {}
  /\ Listing({}).listed = {} /\ Listing({}).tagged = {}
<1>1. Listing({}) \in CallStates
  BY DEF Listing, CallStates
<1> QED BY <1>1 DEF Listing, Sums, AtOne, Apart, Counted

\* What a call that takes the next photo becomes.
LEMMA TakeNextMoves ==
  ASSUME NEW c, NEW k, Ready(k), TakeNext(c, k)
  PROVE  \E m : /\ call' = [call EXCEPT ![c] = m] /\ Sums(m)
                /\ m.pc \in {"idle", "checking"}
                /\ m.listed = k.listed /\ m.tagged = k.tagged
<1>1. \A stage, at : LET m == Turns(k, stage, at)
                     IN m.pc = stage /\ m.listed = k.listed /\ m.tagged = k.tagged
  BY DEF Turns
<1>2. PICK stage \in {"idle", "checking"}, at \in SUBSET Photos :
        call' = [call EXCEPT ![c] = Turns(k, stage, at)] /\ Sums(Turns(k, stage, at))
  <2>1. k.todo \subseteq Photos
    BY DEF Ready, CallStates
  <2> QED BY <2>1, TurnsSums DEF TakeNext, Move
<1> DEFINE m == Turns(k, stage, at)
<1>3. /\ call' = [call EXCEPT ![c] = m] /\ Sums(m)
      /\ m.pc = stage /\ m.listed = k.listed /\ m.tagged = k.tagged
  BY <1>1, <1>2
<1> HIDE DEF m
<1> QED BY <1>2, <1>3

------------------------------------------------------------------------------
(* The parts of the invariant.                                              *)

PhotosTypeOK ==
  /\ sidecar \in [Photos -> Names] /\ usable \subseteq Photos
  /\ file \in [Photos -> Contents]
  /\ posts \in [Photos -> 0..MaxPosts]
  /\ live \in [Photos -> LiveStages]
  /\ stored \in [Photos -> SUBSET Copies]
  /\ refused \subseteq Refusable /\ cut \subseteq Photos

OutsideTypeOK == answers \in BOOLEAN /\ off \in 0..MaxOff /\ cuts \in 0..MaxCuts

Sent(p) == posts[p] = 1 => stored[p] # {}

\* A photo a call has listed.
Findable(p) == live[p] # "card" /\ sidecar[p] # "IMG.log"

CallOK(c) ==
  /\ Sums(call[c])
  /\ \A p \in call[c].tagged : Sent(p)
  /\ \A p \in call[c].listed : Findable(p)

CallsOK == call \in [Calls -> CallStates] /\ \A c \in Calls : CallOK(c)

FileOK(p) ==
  /\ file[p] = "none" <=> live[p] = "card"
  /\ posts[p] = 0 <=> live[p] = "card"
  /\ Writing(p) => Torn(p)
  /\ file[p] \in {"half", "mixed", "crossed"} => Writing(p)

\* An upload that will hand the file to storage, or a call that will.
Storing == {"received", "looking", "storing"}

Handed(p) == "tagged" \in stored[p] \/ p \in refused \/ p \in cut

\* A tagged file has been handed to storage, or whoever tagged it will do so.
SendOK(p) ==
  file[p] = "tagged" =>
    Handed(p) \/ live[p] \in Storing \/ \E c \in Calls : At(c, p) /\ call[c].pc = "storing"

Inv ==
  /\ PhotosTypeOK /\ OutsideTypeOK /\ CallsOK
  /\ \A p \in Photos : FileOK(p) /\ SendOK(p)

LEMMA InvMeans == Inv => BackfillInv /\ TaggedIsSent
<1> SUFFICES ASSUME Inv PROVE BackfillInv /\ TaggedIsSent
  OBVIOUS
<1>1. TypeOK
  BY DEF Inv, PhotosTypeOK, OutsideTypeOK, CallsOK, TypeOK
<1>2. SummaryTrue
  BY DEF Inv, CallsOK, CallOK, Sums, Apart, Sent, SummaryTrue
<1>3. \A c \in Calls : call[c].pc = "idle" <=> call[c].at = {}
  BY DEF Inv, CallsOK, CallOK, Sums, AtOne
<1>4. BackfillInv
  BY <1>1, <1>2, <1>3 DEF Inv, CallsOK, CallOK, Findable, FileOK, BackfillInv
<1>5. TaggedIsSent
  BY DEF Inv, SendOK, Handed, Storing, Over, AtWork, TaggedIsSent
<1> QED BY <1>4, <1>5

\* A call at a photo is at that photo only.
LEMMA AtIsAt ==
  ASSUME Inv, NEW c \in Calls, NEW p \in call[c].at
  PROVE  /\ At(c, p) /\ p \in Photos /\ call[c].pc # "idle" /\ p \in call[c].listed
         /\ Findable(p) /\ c # p
<1>1. CallOK(c) /\ Sums(call[c])
  BY DEF Inv, CallsOK, CallOK
<1>2. At(c, p) /\ p \in Photos /\ call[c].pc # "idle" /\ p \in call[c].listed
  BY <1>1 DEF Sums, AtOne, At
<1> QED BY <1>1, <1>2, BackfillAssumption DEF CallOK

------------------------------------------------------------------------------
(* What the calls know stays true.                                          *)

\* A photo that was posted before: what storage accepted counts for that post.
Keeps(p) ==
  Findable(p) => Findable(p)' /\ (Sent(p) => Sent(p)')

LEMMA StoredKeeps ==
  ASSUME NEW p, posts'[p] = posts[p], stored[p] \subseteq stored'[p],
         sidecar'[p] = sidecar[p], live'[p] = "card" => live[p] = "card"
  PROVE  Keeps(p)
BY DEF Keeps, Findable, Sent

LEMMA CallStays ==
  ASSUME Inv, NEW d \in Calls, call'[d] = call[d], \A p \in Photos : Keeps(p)
  PROVE  CallOK(d)'
<1>1. CallOK(d) /\ Sums(call[d])
  BY DEF Inv, CallsOK, CallOK
<1>2. call[d].listed \subseteq Photos /\ call[d].tagged \subseteq call[d].listed
  BY <1>1 DEF Sums, CallStates, Counted
<1> QED BY <1>1, <1>2 DEF CallOK, Keeps

LEMMA CallsStay ==
  ASSUME Inv, UNCHANGED call, \A p \in Photos : Keeps(p)
  PROVE  CallsOK'
<1>1. \A d \in Calls : CallOK(d)'
  BY CallStays
<1> QED BY <1>1 DEF Inv, CallsOK

\* One call moves on, with m.
LEMMA CallMoves ==
  ASSUME Inv, NEW c \in Calls, NEW m, call' = [call EXCEPT ![c] = m], Sums(m),
         \A p \in Photos : Keeps(p),
         \A p \in m.tagged : Sent(p)', \A p \in m.listed : Findable(p)'
  PROVE  /\ CallsOK' /\ call'[c] = m /\ \A d \in Calls \ {c} : call'[d] = call[d]
<1>1. call \in [Calls -> CallStates] /\ m \in CallStates
  BY DEF Inv, CallsOK, Sums
<1>2. call' \in [Calls -> CallStates] /\ call'[c] = m /\ \A d \in Calls \ {c} : call'[d] = call[d]
  BY <1>1
<1>3. CallOK(c)'
  BY <1>2 DEF CallOK
<1>4. \A d \in Calls \ {c} : CallOK(d)'
  BY <1>2, CallStays
<1> QED BY <1>2, <1>3, <1>4 DEF CallsOK

LEMMA CallFacts ==
  ASSUME Inv, NEW c \in Calls
  PROVE  /\ Sums(call[c]) /\ \A p \in call[c].listed : Findable(p)
         /\ call[c].tagged \subseteq call[c].listed /\ call[c].listed \subseteq Photos
         /\ \A p \in call[c].tagged : Sent(p)
<1>1. CallOK(c) /\ Sums(call[c])
  BY DEF Inv, CallsOK, CallOK
<1> QED BY <1>1 DEF CallOK, Sums, CallStates, Counted

LEMMA CountsKeep ==
  ASSUME NEW k, NEW o
  PROVE  /\ Counts(k, o).listed = k.listed
         /\ o # "tagged" => Counts(k, o).tagged = k.tagged
         /\ o = "tagged" => Counts(k, o).tagged = k.tagged \cup k.at
BY DEF Counts

LEMMA EntersKeeps ==
  ASSUME NEW k, NEW stage
  PROVE  LET e == Enters(k, stage)
         IN e.pc = stage /\ e.at = k.at /\ e.listed = k.listed /\ e.tagged = k.tagged
BY DEF Enters

\* A step of a call that has counted nothing as tagged, whatever it does to images.
LEMMA CallStepInv ==
  ASSUME Inv, NEW c \in Calls, NEW m, call' = [call EXCEPT ![c] = m], Sums(m),
         m.tagged \subseteq call[c].tagged, \A p \in m.listed : Findable(p),
         m.listed \subseteq Photos, PhotosTypeOK', OutsideTypeOK',
         UNCHANGED <<sidecar, posts, live>>,
         \A p \in Photos : stored[p] \subseteq stored'[p],
         \A p \in Photos : FileOK(p)' /\ SendOK(p)'
  PROVE  Inv'
<1>1. \A p \in Photos : Keeps(p)
  BY StoredKeeps
<1>2. m.tagged \subseteq Photos /\ \A p \in m.tagged : Findable(p) /\ Sent(p)
  BY CallFacts
<1>3. (\A p \in m.tagged : Sent(p)') /\ (\A p \in m.listed : Findable(p)')
  BY <1>1, <1>2 DEF Keeps
<1>4. CallsOK'
  BY <1>1, <1>3, CallMoves
<1> QED BY <1>4 DEF Inv

LEMMA Replaced ==
  ASSUME Inv, NEW c \in Calls, NEW m, call' = [call EXCEPT ![c] = m]
  PROVE  call'[c] = m /\ \A d \in Calls \ {c} : call'[d] = call[d]
BY DEF Inv, CallsOK

------------------------------------------------------------------------------
(* Steps of calls that write no image.                                      *)

Writers == {"tagging", "adrift"}

\* The images are as they were, if a call neither begins nor ends a job.
LEMMA FilesStay ==
  ASSUME Inv, NEW c \in Calls, NEW m, call' = [call EXCEPT ![c] = m],
         \/ call[c].pc \notin Writers /\ m.pc \notin Writers
         \/ call[c].pc \in Writers /\ m.pc \in Writers /\ m.at = call[c].at,
         UNCHANGED <<file, live, posts>>
  PROVE  \A p \in Photos : FileOK(p)'
<1>1. call'[c] = m /\ \A d \in Calls \ {c} : call'[d] = call[d]
  BY Replaced
<1>2. \A p \in Photos : TaggingCalls(p)' = TaggingCalls(p)
  BY <1>1 DEF TaggingCalls, Writers
<1>3. \A p \in Photos : FileOK(p)
  BY DEF Inv
<1> QED BY <1>2, <1>3 DEF FileOK, Writing, LiveWrites, Torn

\* Nor does a call leave a stage in which it will hand its photo to storage.
LEMMA SendStays ==
  ASSUME Inv, NEW c \in Calls, NEW m, call' = [call EXCEPT ![c] = m],
         call[c].pc # "storing" \/ \A p \in call[c].at : file[p] = "tagged" => Handed(p)',
         UNCHANGED <<file, live>>, refused \subseteq refused', cut \subseteq cut',
         \A p \in Photos : stored[p] \subseteq stored'[p]
  PROVE  \A p \in Photos : SendOK(p)'
<1>1. \A d \in Calls \ {c} : call'[d] = call[d]
  BY Replaced
<1>2. ASSUME NEW p \in Photos, NEW d \in Calls, At(d, p), call[d].pc = "storing",
             file[p] = "tagged"
      PROVE  (At(d, p)' /\ call'[d].pc = "storing") \/ Handed(p)'
  <2>1. CASE d = c
    BY <1>2, <2>1 DEF At
  <2>2. CASE d # c
    BY <1>1, <1>2, <2>2 DEF At
  <2> QED BY <2>1, <2>2
<1>3. ASSUME NEW p \in Photos, Handed(p) PROVE Handed(p)'
  BY <1>3 DEF Handed
<1> QED BY <1>2, <1>3 DEF Inv, SendOK

\* A step of a call outside its jobs and store().
LEMMA QuietInv ==
  ASSUME Inv, NEW c \in Calls, NEW m, call' = [call EXCEPT ![c] = m], Sums(m),
         call[c].pc \in {"idle", "checking", "looking"}, m.pc \in {"idle", "checking", "looking"},
         m.tagged \subseteq call[c].tagged, \A p \in m.listed : Findable(p),
         m.listed \subseteq Photos, OutsideTypeOK',
         UNCHANGED <<sidecar, usable, file, posts, live, stored, refused, cut>>
  PROVE  Inv'
<1>1. PhotosTypeOK'
  BY DEF Inv, PhotosTypeOK
<1>2. \A p \in Photos : FileOK(p)'
  BY FilesStay DEF Writers
<1>3. \A p \in Photos : SendOK(p)'
  BY SendStays
<1> QED BY <1>1, <1>2, <1>3, CallStepInv

LEMMA OutsideStays == ASSUME Inv, UNCHANGED outside PROVE OutsideTypeOK'
BY DEF outside, Inv, OutsideTypeOK

LEMMA BeginInv == ASSUME Inv, NEW c \in Calls, Begin(c) PROVE Inv'
<1>1. PICK listed \in SUBSET Found : TakeNext(c, Listing(listed))
  BY DEF Begin
<1>2. listed \in SUBSET Photos /\ \A p \in listed : Findable(p)
  BY DEF Found, Findable
<1>3. Listing(listed).listed = listed /\ Listing(listed).tagged = {}
  BY DEF Listing
<1>4. PICK m : /\ call' = [call EXCEPT ![c] = m] /\ Sums(m) /\ m.pc \in {"idle", "checking"}
               /\ m.listed = listed /\ m.tagged = {}
  BY <1>1, <1>2, <1>3, ListingReady, TakeNextMoves
<1>5. /\ call[c].pc = "idle" /\ UNCHANGED outside
      /\ UNCHANGED <<sidecar, usable, file, posts, live, stored, refused, cut>>
  BY DEF Begin
<1> QED BY <1>2, <1>4, <1>5, OutsideStays, QuietInv

\* The photo is counted, as anything but tagged, and the next one taken.
LEMMA CountedInv ==
  ASSUME Inv, NEW c \in Calls, NEW o \in {"already", "unresolved", "errors"},
         call[c].pc \in {"checking", "looking"}, TakeNext(c, Counts(call[c], o)),
         UNCHANGED <<sidecar, usable, file, posts, live, stored, refused, cut>>,
         UNCHANGED outside
  PROVE  Inv'
<1>1. Ready(Counts(call[c], o))
  BY CallFacts, CountsReady
<1>2. PICK m : /\ call' = [call EXCEPT ![c] = m] /\ Sums(m) /\ m.pc \in {"idle", "checking"}
               /\ m.listed = call[c].listed /\ m.tagged = call[c].tagged
  BY <1>1, CountsKeep, TakeNextMoves
<1> QED BY <1>2, CallFacts, OutsideStays, QuietInv

LEMMA QuietCallInv ==
  ASSUME Inv, NEW c \in Calls,
         AlreadyTagged(c) \/ Untagged(c) \/ Unresolved(c) \/ GeotagRaises(c)
  PROVE  Inv'
<1>1. CASE AlreadyTagged(c)
  BY <1>1, CountedInv DEF AlreadyTagged
<1>2. CASE Untagged(c)
  <2> DEFINE m == Enters(call[c], "looking")
  <2>1. Sums(m)
    BY <1>2, CallFacts, EntersSums DEF Untagged
  <2>2. /\ call' = [call EXCEPT ![c] = m] /\ m.pc = "looking"
        /\ m.listed = call[c].listed /\ m.tagged = call[c].tagged
    BY <1>2, EntersKeeps DEF Untagged, Move
  <2>3. /\ call[c].pc = "checking" /\ UNCHANGED outside
        /\ UNCHANGED <<sidecar, usable, file, posts, live, stored, refused, cut>>
    BY <1>2 DEF Untagged
  <2> HIDE DEF m
  <2> QED BY <2>1, <2>2, <2>3, CallFacts, OutsideStays, QuietInv
<1>3. CASE Unresolved(c)
  BY <1>3, CountedInv DEF Unresolved
<1>4. CASE GeotagRaises(c)
  BY <1>4, CountedInv DEF GeotagRaises
<1> QED BY <1>1, <1>2, <1>3, <1>4

------------------------------------------------------------------------------
(* The jobs.                                                                *)

\* The image under a job that begins, ...
LEMMA Begins ==
  ASSUME Inv, NEW p \in Photos, NEW content \in {"torn", "half", "mixed", "crossed"},
         Becomes(p, content)
  PROVE  /\ file' \in [Photos -> Contents] /\ file'[p] = content
         /\ Torn(p)' /\ file'[p] \notin {"none", "tagged"}
         /\ \A q \in Photos \ {p} : file'[q] = file[q]
BY DEF Becomes, Inv, PhotosTypeOK, Contents, Copies, Torn

\* ... and one that ends: others are still at it, or it is over.
LEMMA Ends ==
  ASSUME Inv, NEW p \in Photos, NEW c, NEW whole \in Copies, Writing(p), EndWrite(p, c, whole)
  PROVE  /\ file' \in [Photos -> Contents] /\ file'[p] # "none"
         /\ OthersWriting(p, c) => file' = file /\ Torn(p)' /\ file'[p] # "tagged"
         /\ ~OthersWriting(p, c) => file'[p] \in Copies
         /\ \A q \in Photos \ {p} : file'[q] = file[q]
<1>1. file \in [Photos -> Contents] /\ Torn(p)
  BY DEF Inv, PhotosTypeOK, FileOK
<1>2. CASE OthersWriting(p, c) /\ UNCHANGED file
  BY <1>1, <1>2 DEF Torn
<1>3. ASSUME ~OthersWriting(p, c), NEW content \in Leaves(p, whole), Becomes(p, content)
      PROVE  /\ file' \in [Photos -> Contents] /\ file'[p] \in Copies
             /\ \A q \in Photos \ {p} : file'[q] = file[q]
  <2>1. content \in Copies
    BY DEF Leaves, Copies
  <2> QED BY <1>1, <1>3, <2>1 DEF Becomes, Contents
<1> QED BY <1>2, <1>3 DEF EndWrite, Copies

\* Photos nobody writes or stores in this step.
LEMMA OtherPhotos ==
  ASSUME Inv, NEW q \in Photos, TaggingCalls(q)' = TaggingCalls(q),
         UNCHANGED <<file[q], posts[q], live[q]>>, Handed(q) => Handed(q)',
         \A d \in Calls : At(d, q) /\ call[d].pc = "storing" => At(d, q)' /\ call'[d].pc = "storing"
  PROVE  FileOK(q)' /\ SendOK(q)'
<1>1. FileOK(q) /\ SendOK(q)
  BY DEF Inv
<1>2. FileOK(q)'
  BY <1>1 DEF FileOK, Writing, LiveWrites, Torn
<1>3. SendOK(q)'
  BY <1>1 DEF SendOK
<1> QED BY <1>2, <1>3

LEMMA BeginTaggingInv == ASSUME Inv, NEW c \in Calls, BeginTagging(c) PROVE Inv'
<1> DEFINE m == Enters(call[c], "tagging")
<1>1. PICK p \in call[c].at : BeginRewrite(p)
  BY DEF BeginTagging
<1>2. /\ call[c].pc = "looking" /\ call' = [call EXCEPT ![c] = m]
      /\ UNCHANGED <<sidecar, usable, posts, live, stored, refused, cut>> /\ UNCHANGED outside
  BY DEF BeginTagging, Move
<1>3. At(c, p) /\ p \in Photos /\ Findable(p)
  BY AtIsAt
<1>4. Sums(m) /\ m.pc = "tagging" /\ m.at = {p} /\ m.listed = call[c].listed /\ m.tagged = call[c].tagged
  BY <1>2, <1>3, CallFacts, EntersSums, EntersKeeps DEF At
<1> HIDE DEF m
<1>5. call'[c] = m /\ \A d \in Calls \ {c} : call'[d] = call[d]
  BY <1>2, Replaced
<1>6. /\ file' \in [Photos -> Contents] /\ Torn(p)' /\ file'[p] \notin {"none", "tagged"}
      /\ \A q \in Photos \ {p} : file'[q] = file[q]
  <2>1. PICK content \in {"torn", "half", "mixed", "crossed"} : Becomes(p, content)
    BY <1>1 DEF BeginRewrite
  <2> QED BY <1>3, <2>1, Begins
<1>7. /\ c \in TaggingCalls(p)'
      /\ \A q \in Photos \ {p} : TaggingCalls(q)' = TaggingCalls(q)
  BY <1>2, <1>3, <1>4, <1>5 DEF TaggingCalls, At
<1>8. PhotosTypeOK' /\ OutsideTypeOK'
  BY <1>2, <1>6, OutsideStays DEF Inv, PhotosTypeOK
<1>9. FileOK(p)' /\ SendOK(p)'
  <2>1. FileOK(p)
    BY <1>3 DEF Inv
  <2> QED BY <1>2, <1>3, <1>6, <1>7, <2>1 DEF FileOK, SendOK, Writing, Findable
<1>10. ASSUME NEW q \in Photos \ {p} PROVE FileOK(q)' /\ SendOK(q)'
  BY <1>2, <1>3, <1>5, <1>6, <1>7, OtherPhotos DEF At, Handed
<1> QED BY <1>2, <1>4, <1>8, <1>9, <1>10, CallFacts, CallStepInv

\* The job of a call ends; the call goes on to store(), or was cancelled.
LEMMA JobEnds ==
  ASSUME Inv, NEW c \in Calls, NEW p \in call[c].at, call[c].pc \in Writers,
         EndWrite(p, c, "tagged"), NEW m, call' = [call EXCEPT ![c] = m], Sums(m),
         m.tagged \subseteq call[c].tagged, m.listed \subseteq call[c].listed,
         m.pc \notin Writers, (m.pc = "storing" /\ m.at = {p}) \/ p \in cut',
         cut' = cut \/ cut' = cut \cup {p},
         UNCHANGED <<sidecar, usable, posts, live, stored, refused>>, UNCHANGED outside
  PROVE  Inv'
<1>1. At(c, p) /\ p \in Photos /\ Findable(p) /\ c # p
  BY AtIsAt
<1>2. call'[c] = m /\ \A d \in Calls \ {c} : call'[d] = call[d]
  BY Replaced
<1>3. c \in TaggingCalls(p) /\ Writing(p)
  BY <1>1 DEF TaggingCalls, Writing, At, Writers
<1>4. /\ file' \in [Photos -> Contents] /\ file'[p] # "none"
      /\ OthersWriting(p, c) => file' = file /\ Torn(p)' /\ file'[p] # "tagged"
      /\ ~OthersWriting(p, c) => file'[p] \in Copies
      /\ \A q \in Photos \ {p} : file'[q] = file[q]
  BY <1>1, <1>3, Ends DEF Copies
<1>5. /\ TaggingCalls(p)' = TaggingCalls(p) \ {c}
      /\ \A q \in Photos \ {p} : TaggingCalls(q)' = TaggingCalls(q)
  BY <1>1, <1>2 DEF TaggingCalls, At, Writers
<1>6. Writing(p)' <=> OthersWriting(p, c)
  BY <1>1, <1>5 DEF Writing, OthersWriting, LiveWrites
<1>7. PhotosTypeOK' /\ OutsideTypeOK'
  BY <1>1, <1>4, OutsideStays DEF Inv, PhotosTypeOK
<1>8. FileOK(p)'
  <2>1. FileOK(p)
    BY <1>1 DEF Inv
  <2> QED BY <1>1, <1>4, <1>6, <2>1 DEF FileOK, Findable, Copies
<1>9. SendOK(p)'
  BY <1>2 DEF SendOK, At, Handed
<1>10. ASSUME NEW q \in Photos \ {p} PROVE FileOK(q)' /\ SendOK(q)'
  <2>1. Handed(q) => Handed(q)'
    BY DEF Handed
  <2>2. \A d \in Calls : At(d, q) /\ call[d].pc = "storing" => d # c
    BY <1>1 DEF At
  <2> QED BY <1>2, <1>4, <1>5, <2>1, <2>2, OtherPhotos DEF At
<1> QED BY <1>7, <1>8, <1>9, <1>10, CallFacts, CallStepInv

LEMMA TaggedInv == ASSUME Inv, NEW c \in Calls, Tagged(c) PROVE Inv'
<1> DEFINE m == Enters(call[c], "storing")
<1>1. PICK p \in call[c].at : EndWrite(p, c, "tagged")
  BY DEF Tagged
<1>2. /\ call[c].pc = "tagging" /\ call' = [call EXCEPT ![c] = m] /\ At(c, p)
      /\ UNCHANGED <<sidecar, usable, posts, live, stored, refused>> /\ UNCHANGED outside
      /\ cut' = cut
  BY AtIsAt DEF Tagged, Move
<1>3. Sums(m) /\ m.pc = "storing" /\ m.at = {p} /\ m.listed = call[c].listed /\ m.tagged = call[c].tagged
  BY <1>2, CallFacts, EntersSums, EntersKeeps DEF At
<1> HIDE DEF m
<1> QED BY <1>1, <1>2, <1>3, JobEnds DEF Writers

LEMMA AdriftEndsInv == ASSUME Inv, NEW c \in Calls, AdriftEnds(c) PROVE Inv'
<1> DEFINE m == Listing({})
<1>1. PICK p \in call[c].at : EndWrite(p, c, "tagged") /\ cut' = cut \cup {p}
  BY DEF AdriftEnds
<1>2. /\ call[c].pc = "adrift" /\ call' = [call EXCEPT ![c] = m]
      /\ UNCHANGED <<sidecar, usable, posts, live, stored, refused>> /\ UNCHANGED outside
  BY DEF AdriftEnds, Move
<1>3. Sums(m) /\ m.pc = "idle" /\ m.listed = {} /\ m.tagged = {}
  BY NoListing
<1> HIDE DEF m
<1> QED BY <1>1, <1>2, <1>3, JobEnds DEF Writers

LEMMA CancelledInv == ASSUME Inv, NEW c \in Calls, CallCancelled(c) PROVE Inv'
<1>1. /\ OutsideTypeOK' /\ UNCHANGED <<sidecar, usable, file, posts, live, stored, refused>>
  <2>1. cuts \in 0..MaxCuts /\ cuts < MaxCuts /\ cuts' = cuts + 1
    BY DEF CallCancelled, Inv, OutsideTypeOK
  <2>2. cuts' \in 0..MaxCuts
    BY <2>1, BackfillAssumption
  <2> QED BY <2>2 DEF CallCancelled, Inv, OutsideTypeOK
<1>2. CASE call[c].pc \in {"checking", "looking"} /\ Move(c, Listing({})) /\ UNCHANGED cut
  <2> DEFINE m == Listing({})
  <2>1. call' = [call EXCEPT ![c] = m] /\ Sums(m) /\ m.pc = "idle" /\ m.listed = {} /\ m.tagged = {}
    BY <1>2, NoListing DEF Move
  <2> HIDE DEF m
  <2> QED BY <1>1, <1>2, <2>1, QuietInv
<1>3. ASSUME NEW stage \in {"adrift", "landing"}, Move(c, Enters(call[c], stage)),
             call[c].pc = (IF stage = "adrift" THEN "tagging" ELSE "storing"),
             cut' = cut \cup call[c].at
      PROVE  Inv'
  <2> DEFINE m == Enters(call[c], stage)
  <2>1. Sums(m) /\ m.pc = stage /\ m.at = call[c].at /\ m.listed = call[c].listed /\ m.tagged = call[c].tagged
    BY <1>3, CallFacts, EntersSums, EntersKeeps
  <2>2. call' = [call EXCEPT ![c] = m]
    BY <1>3 DEF Move
  <2> HIDE DEF m
  <2>3. call[c].at \subseteq Photos
    BY CallFacts DEF Sums, CallStates
  <2>4. PhotosTypeOK'
    BY <1>1, <1>3, <2>3 DEF Inv, PhotosTypeOK
  <2>5. \A p \in Photos : FileOK(p)'
    BY <1>1, <1>3, <2>1, <2>2, FilesStay DEF Writers
  <2>6. \A p \in call[c].at : Handed(p)'
    BY <1>3 DEF Handed
  <2>7. \A p \in Photos : SendOK(p)'
    BY <1>1, <1>3, <2>2, <2>6, SendStays
  <2> QED BY <1>1, <2>1, <2>2, <2>4, <2>5, <2>7, CallFacts, CallStepInv
<1> QED BY <1>2, <1>3 DEF CallCancelled

------------------------------------------------------------------------------
(* store().                                                                 *)

\* What storage accepts of a whole tagged image is tagged.
LEMMA Accepts ==
  ASSUME PhotosTypeOK, NEW p \in Photos, file[p] # "none", Accept(p)
  PROVE  /\ stored' \in [Photos -> SUBSET Copies] /\ stored'[p] # {}
         /\ \A q \in Photos : stored[q] \subseteq stored'[q]
         /\ file[p] = "tagged" => "tagged" \in stored'[p]
<1> DEFINE x == IF Torn(p) THEN "torn" ELSE file[p]
<1>1. x \in Copies /\ (file[p] = "tagged" => x = "tagged")
  BY DEF PhotosTypeOK, Torn, Contents, Copies
<1>2. stored' = [stored EXCEPT ![p] = stored[p] \cup {x}] /\ stored \in [Photos -> SUBSET Copies]
  BY DEF Accept, PhotosTypeOK
<1> HIDE DEF x
<1>3. stored'[p] = stored[p] \cup {x} /\ \A q \in Photos \ {p} : stored'[q] = stored[q]
  BY <1>2
<1> QED BY <1>1, <1>2, <1>3

LEMMA StoreInv == ASSUME Inv, NEW c \in Calls, Stores(c) \/ StoreRaises(c) PROVE Inv'
<1>0. /\ call[c].pc = "storing" /\ UNCHANGED <<sidecar, usable, file, posts, live, cut>>
      /\ UNCHANGED outside
  BY DEF Stores, StoreRaises
<1>1. PICK p \in call[c].at, o \in {"tagged", "errors"} :
        /\ TakeNext(c, Counts(call[c], o))
        /\ \/ o = "tagged" /\ Accept(p) /\ UNCHANGED refused
           \/ o = "errors" /\ Refuse(p) /\ UNCHANGED stored
  BY DEF Stores, StoreRaises
<1>2. call[c].at = {p} /\ p \in Photos /\ file[p] # "none" /\ PhotosTypeOK
  <2>1. call[c].at = {p} /\ p \in Photos /\ Findable(p)
    BY AtIsAt DEF At
  <2> QED BY <2>1 DEF Inv, FileOK, Findable
<1>3. PICK m : /\ call' = [call EXCEPT ![c] = m] /\ Sums(m) /\ m.pc \in {"idle", "checking"}
               /\ m.listed = call[c].listed /\ m.tagged = Counts(call[c], o).tagged
  <2>1. Ready(Counts(call[c], o))
    BY <1>0, CallFacts, CountsReady
  <2> QED BY <1>1, <2>1, CountsKeep, TakeNextMoves
<1>4. m.tagged = IF o = "tagged" THEN call[c].tagged \cup {p} ELSE call[c].tagged
  BY <1>2, <1>3, CountsKeep
<1>5. /\ stored' \in [Photos -> SUBSET Copies] /\ refused' \subseteq Refusable
      /\ refused \subseteq refused' /\ \A q \in Photos : stored[q] \subseteq stored'[q]
      /\ o = "tagged" => stored'[p] # {}
      /\ file[p] = "tagged" => "tagged" \in stored'[p] \/ p \in refused'
  <2>1. CASE o = "tagged"
    BY <1>1, <1>2, <2>1, Accepts DEF PhotosTypeOK
  <2>2. CASE o = "errors"
    BY <1>1, <1>2, <2>2 DEF Refuse, PhotosTypeOK
  <2> QED BY <2>1, <2>2
<1>6. PhotosTypeOK' /\ OutsideTypeOK'
  BY <1>0, <1>2, <1>5, OutsideStays DEF PhotosTypeOK
<1>7. CallsOK'
  <2>1. \A q \in Photos : Keeps(q)
    BY <1>0, <1>5, StoredKeeps
  <2>2. ASSUME NEW q \in m.tagged PROVE Sent(q)'
    <3>1. CASE q \in call[c].tagged
      BY <2>1, <3>1, CallFacts DEF Keeps
    <3>2. CASE q = p /\ o = "tagged"
      BY <1>5, <3>2 DEF Sent
    <3> QED BY <1>4, <3>1, <3>2
  <2>3. \A q \in m.listed : Findable(q)'
    BY <1>0, <1>3, CallFacts DEF Findable
  <2> QED BY <1>3, <2>1, <2>2, <2>3, CallMoves
<1>8. \A q \in Photos : FileOK(q)'
  BY <1>0, <1>3, FilesStay DEF Writers
<1>9. \A q \in Photos : SendOK(q)'
  <2>1. \A q \in call[c].at : file[q] = "tagged" => Handed(q)'
    BY <1>2, <1>5 DEF Handed
  <2> QED BY <1>0, <1>3, <1>5, <2>1, SendStays
<1> QED BY <1>6, <1>7, <1>8, <1>9 DEF Inv

LEMMA LandsInv == ASSUME Inv, NEW c \in Calls, Lands(c) PROVE Inv'
<1> DEFINE m == Listing({})
<1>1. /\ call[c].pc = "landing" /\ call' = [call EXCEPT ![c] = m]
      /\ UNCHANGED <<sidecar, usable, file, posts, live, refused, cut>> /\ UNCHANGED outside
  BY DEF Lands, Move
<1>2. Sums(m) /\ m.pc = "idle" /\ m.listed = {} /\ m.tagged = {}
  BY NoListing
<1> HIDE DEF m
<1>3. stored' \in [Photos -> SUBSET Copies] /\ \A q \in Photos : stored[q] \subseteq stored'[q]
  <2>1. ASSUME NEW p \in call[c].at, Accept(p)
        PROVE  stored' \in [Photos -> SUBSET Copies] /\ \A q \in Photos : stored[q] \subseteq stored'[q]
    <3>1. p \in Photos /\ file[p] # "none" /\ PhotosTypeOK
      BY AtIsAt DEF Inv, FileOK, Findable
    <3> QED BY <2>1, <3>1, Accepts
  <2> QED BY <2>1 DEF Lands, Inv, PhotosTypeOK
<1>4. PhotosTypeOK' /\ OutsideTypeOK'
  BY <1>1, <1>3, OutsideStays DEF Inv, PhotosTypeOK
<1>5. \A q \in Photos : FileOK(q)'
  BY <1>1, <1>2, FilesStay DEF Writers
<1>6. \A q \in Photos : SendOK(q)'
  BY <1>1, <1>3, SendStays
<1> QED BY <1>1, <1>2, <1>3, <1>4, <1>5, <1>6, CallStepInv

------------------------------------------------------------------------------
(* The live pipeline.                                                       *)

\* Nothing but the photo p, its file and what was done with it changes.
LEMMA LiveMoves ==
  ASSUME Inv, NEW p \in Photos, PhotosTypeOK', UNCHANGED <<call, sidecar>>, UNCHANGED outside,
         Keeps(p), refused \ {p} \subseteq refused', cut \ {p} \subseteq cut',
         \A q \in Photos \ {p} : UNCHANGED <<live[q], file[q], posts[q], stored[q]>>,
         FileOK(p)', SendOK(p)'
  PROVE  Inv'
<1>1. \A q \in Photos \ {p} : Keeps(q)
  BY StoredKeeps
<1>2. CallsOK'
  BY <1>1, CallsStay
<1>3. ASSUME NEW q \in Photos \ {p} PROVE FileOK(q)' /\ SendOK(q)'
  <2>1. TaggingCalls(q)' = TaggingCalls(q)
    BY DEF TaggingCalls
  <2>2. Handed(q) => Handed(q)'
    BY DEF Handed
  <2>3. \A d \in Calls : At(d, q) /\ call[d].pc = "storing" => At(d, q)' /\ call'[d].pc = "storing"
    BY DEF At
  <2> QED BY <2>1, <2>2, <2>3, OtherPhotos
<1> QED BY <1>2, <1>3, OutsideStays DEF Inv

LEMMA LiveTypes ==
  ASSUME Inv, NEW p \in Photos, NEW stage \in LiveStages, LiveGoes(p, stage)
  PROVE  /\ live' \in [Photos -> LiveStages] /\ live'[p] = stage
         /\ \A q \in Photos \ {p} : live'[q] = live[q]
BY DEF LiveGoes, Inv, PhotosTypeOK

\* The task takes a step that leaves its file alone.
LEMMA LiveQuietInv ==
  ASSUME Inv, NEW p \in Photos, NEW stage \in LiveStages \ {"card"}, LiveGoes(p, stage),
         live[p] # "card", live[p] \in {"extracting", "tagging", "adrift"}
                             <=> stage \in {"extracting", "tagging", "adrift"},
         live[p] \notin Storing \/ stage \in Storing \/ (file[p] = "tagged" => Handed(p)'),
         stored' \in [Photos -> SUBSET Copies],
         stored[p] \subseteq stored'[p], \A q \in Photos \ {p} : stored'[q] = stored[q],
         refused \subseteq refused', refused' \subseteq Refusable,
         cut \subseteq cut', cut' \subseteq Photos,
         UNCHANGED <<sidecar, usable, file, posts, call>>, UNCHANGED outside
  PROVE  Inv'
<1>1. /\ live' \in [Photos -> LiveStages] /\ live'[p] = stage
      /\ \A q \in Photos \ {p} : live'[q] = live[q]
  BY LiveTypes
<1>2. PhotosTypeOK'
  BY <1>1 DEF Inv, PhotosTypeOK
<1>3. Keeps(p)
  BY <1>1, StoredKeeps
<1>4. TaggingCalls(p)' = TaggingCalls(p) /\ LiveWrites(p)' = LiveWrites(p)
  BY <1>1 DEF TaggingCalls, LiveWrites
<1>5. FileOK(p)'
  <2>1. FileOK(p)
    BY DEF Inv
  <2> QED BY <1>1, <1>4, <2>1 DEF FileOK, Writing, Torn
<1>6. SendOK(p)'
  <2>1. SendOK(p)
    BY DEF Inv
  <2>2. Handed(p) => Handed(p)'
    BY DEF Handed
  <2> QED BY <1>1, <2>1, <2>2 DEF SendOK, At
<1> QED BY <1>1, <1>2, <1>3, <1>5, <1>6, LiveMoves

\* An executor job of the upload ends.
LEMMA LiveEndsInv ==
  ASSUME Inv, NEW p \in Photos, NEW stage \in {"received", "storing", "ended", "failed"},
         live[p] \in {"extracting", "tagging", "adrift"}, LiveGoes(p, stage),
         file' \in [Photos -> Contents], file'[p] # "none",
         OthersWriting(p, p) => file' = file, ~OthersWriting(p, p) => file'[p] \in Copies,
         \A q \in Photos \ {p} : file'[q] = file[q],
         cut \subseteq cut', cut' \subseteq Photos,
         stage \in Over /\ file'[p] = "tagged" => p \in cut',
         UNCHANGED <<sidecar, usable, posts, call, stored, refused>>, UNCHANGED outside
  PROVE  Inv'
<1>1. /\ live' \in [Photos -> LiveStages] /\ live'[p] = stage
      /\ \A q \in Photos \ {p} : live'[q] = live[q]
  BY LiveTypes DEF LiveStages
<1>2. PhotosTypeOK'
  BY <1>1 DEF Inv, PhotosTypeOK
<1>3. Keeps(p)
  BY <1>1, StoredKeeps
<1>4. FileOK(p) /\ Torn(p)
  BY DEF Inv, FileOK, Writing, LiveWrites
<1>5. /\ TaggingCalls(p)' = TaggingCalls(p) /\ ~LiveWrites(p)'
      /\ OthersWriting(p, p) <=> TaggingCalls(p) # {}
  BY <1>1, BackfillAssumption DEF TaggingCalls, LiveWrites, OthersWriting
<1>6. FileOK(p)'
  BY <1>1, <1>4, <1>5 DEF FileOK, Writing, Torn, Copies
<1>7. SendOK(p)'
  BY <1>1 DEF SendOK, Storing, Handed, Over
<1> QED BY <1>1, <1>2, <1>3, <1>6, <1>7, LiveMoves

LEMMA BeginExtractInv == ASSUME Inv, NEW p \in Photos, BeginExtract(p) PROVE Inv'
<1>1. /\ posts[p] < MaxPosts /\ posts' = [posts EXCEPT ![p] = posts[p] + 1]
      /\ LiveGoes(p, "extracting") /\ BeginUnpack(p)
      /\ stored' = [stored EXCEPT ![p] = {}] /\ refused' = refused \ {p} /\ cut' = cut \ {p}
      /\ UNCHANGED <<sidecar, usable, call>> /\ UNCHANGED outside
  BY DEF BeginExtract
<1>2. /\ live' \in [Photos -> LiveStages] /\ live'[p] = "extracting"
      /\ \A q \in Photos \ {p} : live'[q] = live[q]
  BY <1>1, LiveTypes DEF LiveStages
<1>3. /\ file' \in [Photos -> Contents] /\ Torn(p)' /\ file'[p] \notin {"none", "tagged"}
      /\ \A q \in Photos \ {p} : file'[q] = file[q]
  <2>1. PICK content \in {"half", "crossed"} : Becomes(p, content)
    BY <1>1 DEF BeginUnpack
  <2> QED BY <2>1, Begins
<1>4. /\ posts' \in [Photos -> 0..MaxPosts] /\ posts'[p] = posts[p] + 1 /\ posts[p] \in Nat
      /\ \A q \in Photos \ {p} : posts'[q] = posts[q]
  <2>1. posts \in [Photos -> 0..MaxPosts] /\ posts[p] + 1 \in 0..MaxPosts
    BY <1>1, BackfillAssumption DEF Inv, PhotosTypeOK
  <2> QED BY <1>1, <2>1
<1>5. /\ stored' \in [Photos -> SUBSET Copies] /\ \A q \in Photos \ {p} : stored'[q] = stored[q]
  BY <1>1 DEF Inv, PhotosTypeOK
<1>6. PhotosTypeOK'
  BY <1>1, <1>2, <1>3, <1>4, <1>5 DEF Inv, PhotosTypeOK
<1>7. Keeps(p)
  <2>1. Findable(p) => posts[p] # 0 /\ posts'[p] # 1
    BY <1>4 DEF Inv, FileOK, Findable
  <2> QED BY <1>1, <1>2, <2>1 DEF Keeps, Findable, Sent
<1>8. FileOK(p)' /\ SendOK(p)'
  BY <1>2, <1>3, <1>4 DEF FileOK, SendOK, Writing, LiveWrites
<1> QED BY <1>1, <1>2, <1>3, <1>4, <1>5, <1>6, <1>7, <1>8, LiveMoves

LEMMA LiveBeginsTaggingInv == ASSUME Inv, NEW p \in Photos, LiveBeginsTagging(p) PROVE Inv'
<1>1. /\ live[p] = "looking" /\ LiveGoes(p, "tagging") /\ BeginRewrite(p)
      /\ UNCHANGED <<sidecar, usable, posts, call, stored, refused, cut>> /\ UNCHANGED outside
  BY DEF LiveBeginsTagging
<1>2. /\ live' \in [Photos -> LiveStages] /\ live'[p] = "tagging"
      /\ \A q \in Photos \ {p} : live'[q] = live[q]
  BY <1>1, LiveTypes DEF LiveStages
<1>3. /\ file' \in [Photos -> Contents] /\ Torn(p)' /\ file'[p] \notin {"none", "tagged"}
      /\ \A q \in Photos \ {p} : file'[q] = file[q]
  <2>1. PICK content \in {"torn", "half", "mixed", "crossed"} : Becomes(p, content)
    BY <1>1 DEF BeginRewrite
  <2> QED BY <2>1, Begins
<1>4. PhotosTypeOK'
  BY <1>1, <1>2, <1>3 DEF Inv, PhotosTypeOK
<1>5. Keeps(p)
  BY <1>1, <1>2, StoredKeeps
<1>6. FileOK(p)
  BY DEF Inv
<1>7. FileOK(p)' /\ SendOK(p)'
  BY <1>1, <1>2, <1>3, <1>6 DEF FileOK, SendOK, Writing, LiveWrites
<1> QED BY <1>1, <1>2, <1>3, <1>4, <1>5, <1>7, LiveMoves

LEMMA LiveJobInv ==
  ASSUME Inv, NEW p \in Photos,
         Extracted(p) \/ LiveTagged(p) \/ LiveAdriftEnds(p) \/ HandlerCancelled(p)
           \/ ExtractFails(p) \/ GeotaggedRaises(p)
  PROVE  Inv'
<1>1. /\ live[p] \in {"extracting", "tagging", "adrift"} /\ Writing(p)
      /\ UNCHANGED <<sidecar, usable, posts, call, stored, refused>> /\ UNCHANGED outside
  BY DEF Extracted, LiveTagged, LiveAdriftEnds, HandlerCancelled, ExtractFails, GeotaggedRaises,
     Writing, LiveWrites
<1>2. PICK stage \in {"received", "storing", "ended", "failed"} :
        /\ LiveGoes(p, stage)
        /\ cut \subseteq cut' /\ cut' \subseteq cut \cup {p}
        /\ stage \in Over /\ file'[p] = "tagged" => p \in cut'
  BY DEF Extracted, LiveTagged, LiveAdriftEnds, HandlerCancelled, ExtractFails, GeotaggedRaises,
     CutShort, Over
<1>3. /\ file' \in [Photos -> Contents] /\ file'[p] # "none"
      /\ OthersWriting(p, p) => file' = file
      /\ ~OthersWriting(p, p) => file'[p] \in Copies
      /\ \A q \in Photos \ {p} : file'[q] = file[q]
  <2>1. CASE \E whole \in {"plain", "tagged"} : EndWrite(p, p, whole)
    BY <1>1, <2>1, Ends DEF Copies
  <2>2. CASE IF OthersWriting(p, p) THEN UNCHANGED file ELSE Becomes(p, "torn")
    <3>1. Torn(p) /\ file \in [Photos -> Contents]
      BY <1>1 DEF Inv, FileOK, PhotosTypeOK
    <3> QED BY <2>2, <3>1 DEF Becomes, Torn, Contents, Copies
  <2> QED BY <2>1, <2>2
      DEF Extracted, LiveTagged, LiveAdriftEnds, HandlerCancelled, ExtractFails, GeotaggedRaises
<1>4. cut' \subseteq Photos
  BY <1>2 DEF Inv, PhotosTypeOK
<1> QED BY <1>1, <1>2, <1>3, <1>4, LiveEndsInv

LEMMA LiveStoreInv == ASSUME Inv, NEW p \in Photos, LiveStores(p) \/ LiveLands(p) PROVE Inv'
<1>1. /\ live[p] \in {"storing", "landing"} /\ LiveGoes(p, "ended")
      /\ UNCHANGED <<sidecar, usable, file, posts, call, cut>> /\ UNCHANGED outside
  BY DEF LiveStores, LiveLands
<1>2. PhotosTypeOK /\ file[p] # "none"
  BY <1>1 DEF Inv, FileOK
<1>3. /\ stored' \in [Photos -> SUBSET Copies] /\ stored[p] \subseteq stored'[p]
      /\ \A q \in Photos \ {p} : stored'[q] = stored[q]
  <2>1. CASE Accept(p)
    BY <1>2, <2>1, Accepts DEF Accept, PhotosTypeOK
  <2>2. CASE UNCHANGED stored
    BY <1>2, <2>2 DEF PhotosTypeOK
  <2> QED BY <2>1, <2>2 DEF LiveStores, LiveLands
<1>4. refused \subseteq refused' /\ refused' \subseteq Refusable /\ cut' \subseteq Photos
  BY <1>1, <1>2 DEF LiveStores, LiveLands, Refuse, PhotosTypeOK
<1>5. live[p] \notin Storing \/ (file[p] = "tagged" => Handed(p)')
  <2>1. CASE LiveStores(p)
    BY <1>2, <2>1, Accepts DEF LiveStores, Refuse, Handed
  <2>2. CASE LiveLands(p)
    BY <2>2 DEF LiveLands, Storing
  <2> QED BY <2>1, <2>2
<1> QED BY <1>1, <1>3, <1>4, <1>5, LiveQuietInv DEF LiveStages

LEMMA LiveGoesInv ==
  ASSUME Inv, NEW p \in Photos,
         Received(p) \/ LiveUnresolved(p) \/ ReceivedRaises(p) \/ LiveCancelled(p)
  PROVE  Inv'
<1>1. /\ UNCHANGED <<sidecar, usable, file, posts, call, stored, refused>> /\ UNCHANGED outside
  BY DEF Received, LiveUnresolved, ReceivedRaises, LiveCancelled
<1>2. PICK stage \in LiveStages \ {"card"} :
        /\ LiveGoes(p, stage) /\ live[p] # "card"
        /\ live[p] \in {"extracting", "tagging", "adrift"}
             <=> stage \in {"extracting", "tagging", "adrift"}
        /\ (stage \in Storing /\ cut' = cut) \/ CutShort(p, file[p])
  BY DEF Received, LiveUnresolved, ReceivedRaises, LiveCancelled, LiveStages, Storing
<1>3. /\ cut \subseteq cut' /\ cut' \subseteq Photos
      /\ stage \in Storing \/ (file[p] = "tagged" => Handed(p)')
  BY <1>2 DEF CutShort, Handed, Inv, PhotosTypeOK
<1>4. stored' \in [Photos -> SUBSET Copies] /\ refused' \subseteq Refusable
  BY <1>1 DEF Inv, PhotosTypeOK
<1> QED BY <1>1, <1>2, <1>3, <1>4, LiveQuietInv

------------------------------------------------------------------------------
(* The theorems.                                                            *)

LEMMA CrashInv == ASSUME Inv, Crash PROVE Inv'
<1>1. /\ \A p \in Photos : file'[p] = IF Torn(p) THEN "torn" ELSE file[p]
      /\ \A p \in Photos : live'[p] = IF live[p] = "card" THEN "card"
                                      ELSE IF HalfUnpacked(p) THEN "failed" ELSE "ended"
      /\ cut' = cut \cup {p \in Photos : AtWork(p) /\ file[p] \notin {"none", "plain"}}
      /\ \A c \in Calls : call'[c] = Listing({})
      /\ UNCHANGED <<sidecar, usable, posts, stored, refused, answers, off>>
  BY DEF Crash
<1>2. PhotosTypeOK'
  BY <1>1 DEF Crash, Inv, PhotosTypeOK, Contents, Copies, LiveStages
<1>3. OutsideTypeOK'
  <2>1. cuts \in 0..MaxCuts /\ cuts < MaxCuts /\ cuts' = cuts + 1
    BY DEF Crash, Inv, OutsideTypeOK
  <2>2. cuts' \in 0..MaxCuts
    BY <2>1, BackfillAssumption
  <2> QED BY <1>1, <2>2 DEF Inv, OutsideTypeOK
<1>4. CallsOK'
  <2>1. Listing({}) \in CallStates
    BY NoListing DEF Sums
  <2>2. call' \in [Calls -> CallStates]
    BY <2>1 DEF Crash
  <2> QED BY <1>1, <2>2, NoListing DEF CallsOK, CallOK
<1>5. ASSUME NEW p \in Photos PROVE FileOK(p)' /\ SendOK(p)'
  <2>1. FileOK(p) /\ SendOK(p) /\ file[p] \in Contents
    BY DEF Inv, PhotosTypeOK
  <2>2. ~Writing(p)'
    BY <1>1, NoListing DEF Writing, TaggingCalls, LiveWrites
  <2>3. FileOK(p)'
    BY <1>1, <2>1, <2>2 DEF FileOK, Torn
  <2>4. ASSUME file'[p] = "tagged" PROVE Handed(p)'
    <3>1. file[p] = "tagged"
      BY <1>1, <2>4
    <3>2. Handed(p) \/ AtWork(p)
      BY <2>1, <3>1 DEF SendOK, Storing, AtWork, Over
    <3> QED BY <1>1, <3>1, <3>2 DEF Handed
  <2> QED BY <2>3, <2>4 DEF SendOK
<1> QED BY <1>2, <1>3, <1>4, <1>5 DEF Inv

LEMMA InitInv == Init => Inv
<1> SUFFICES ASSUME Init PROVE Inv
  OBVIOUS
<1>1. PhotosTypeOK /\ OutsideTypeOK
  <2>1. 0 \in 0..MaxOff /\ 0 \in 0..MaxCuts /\ 0 \in 0..MaxPosts
    BY BackfillAssumption
  <2> QED BY <2>1 DEF Init, PhotosTypeOK, OutsideTypeOK, Contents, LiveStages
<1>2. CallsOK
  BY NoListing DEF Init, CallsOK, CallOK, Sums
<1>3. \A p \in Photos : FileOK(p) /\ SendOK(p)
  <2>1. \A p \in Photos : file[p] = "none" /\ live[p] = "card" /\ posts[p] = 0 /\ TaggingCalls(p) = {}
    BY NoListing DEF Init, TaggingCalls
  <2> QED BY <2>1 DEF FileOK, SendOK, Writing, LiveWrites
<1> QED BY <1>1, <1>2, <1>3 DEF Inv

LEMMA RestInv ==
  ASSUME Inv, UNCHANGED <<sidecar, usable, file, posts, live, call, stored, refused, cut>>,
         OutsideTypeOK'
  PROVE  Inv'
<1>1. PhotosTypeOK'
  BY DEF Inv, PhotosTypeOK
<1>2. CallsOK'
  BY StoredKeeps, CallsStay
<1>3. \A p \in Photos : FileOK(p)' /\ SendOK(p)'
  BY DEF Inv, FileOK, SendOK, Handed, Writing, LiveWrites, TaggingCalls, Torn, At
<1> QED BY <1>1, <1>2, <1>3 DEF Inv

LEMMA NextInv == ASSUME Inv, [Next]_vars PROVE Inv'
<1>1. ASSUME NEW p \in Photos, BeginExtract(p) \/ LiveStep(p) \/ LiveUpset(p) PROVE Inv'
  BY <1>1, BeginExtractInv, LiveBeginsTaggingInv, LiveJobInv, LiveStoreInv, LiveGoesInv
     DEF LiveStep, LiveUpset
<1>2. ASSUME NEW c \in Calls, CallStep(c) \/ CallCancelled(c) PROVE Inv'
  BY <1>2, BeginInv, QuietCallInv, BeginTaggingInv, TaggedInv, StoreInv, AdriftEndsInv, LandsInv,
     CancelledInv DEF CallStep
<1>3. CASE StartsAnswering
  BY <1>3, RestInv DEF StartsAnswering, Inv, OutsideTypeOK
<1>4. CASE StopsAnswering
  <2>1. off \in 0..MaxOff /\ off < MaxOff /\ off' = off + 1
    BY <1>4 DEF StopsAnswering, Inv, OutsideTypeOK
  <2>2. off' \in 0..MaxOff
    BY <2>1, BackfillAssumption
  <2> QED BY <1>4, <2>2, RestInv DEF StopsAnswering, Inv, OutsideTypeOK
<1>5. CASE UNCHANGED vars
  BY <1>5, OutsideStays, RestInv DEF vars
<1> QED BY <1>1, <1>2, <1>3, <1>4, <1>5, CrashInv DEF Next

LEMMA Invariance == Spec => []Inv
BY InitInv, NextInv, PTL DEF Spec

\* Images are half written exactly while a job is at them, or after jobs that
\* overlapped or were interrupted, and summaries are true, for any number of
\* photos, posts, crashes and overlapping calls (backfill.py:66-113).
THEOREM BackfillInvariant == Spec => []BackfillInv
BY Invariance, InvMeans, PTL

\* A tagged file that nobody is at work on has been handed to storage with its
\* coordinates, or store() raised for it, or an upload or a call that wrote it was
\* cut short (backfill.py:77-107, soap_server.py:95-97 and 226-266).
THEOREM TaggedIsSentAlways == Spec => []TaggedIsSent
BY Invariance, InvMeans, PTL
=============================================================================
