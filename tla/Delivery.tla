------------------------------ MODULE Delivery ------------------------------
(***************************************************************************)
(* What eyefi_core.storage promises to the code that calls store(),        *)
(* without spool files, retry runs or destinations: a ledger that says of  *)
(* every photo whether the service owes it to the destination or has       *)
(* delivered it, and the answer the caller of store() got.                 *)
(*                                                                         *)
(* The promise is in what is missing: no step takes a photo out of "owed"  *)
(* other than its delivery, nothing undoes a delivery, and "returned" is   *)
(* only answered for a photo that is owed or delivered.                    *)
(***************************************************************************)

CONSTANT Photos    \* the images handed to store(), one call for each

VARIABLES ledger,  \* photo -> "offered", "owed" or "delivered"
          answer   \* photo -> "pending", "returned", "raised" or "lost"

dvars == <<ledger, answer>>

DeliveryTypeOK ==
  /\ ledger \in [Photos -> {"offered", "owed", "delivered"}]
  /\ answer \in [Photos -> {"pending", "returned", "raised", "lost"}]

DeliveryInit ==
  /\ ledger = [p \in Photos |-> "offered"]
  /\ answer = [p \in Photos |-> "pending"]

\* The service takes the photo over and says so.
TakeOver(p) ==
  /\ ledger[p] = "offered" /\ answer[p] = "pending"
  /\ ledger' = [ledger EXCEPT ![p] = "owed"]
  /\ answer' = [answer EXCEPT ![p] = "returned"]

\* The destination has the photo; the caller need not know yet, or ever: an
\* upload may land after the coroutine that waited for it is gone.
Deliver(p) ==
  /\ \/ ledger[p] = "owed"
     \/ ledger[p] = "offered" /\ answer[p] \in {"pending", "lost"}
  /\ ledger' = [ledger EXCEPT ![p] = "delivered"]
  /\ UNCHANGED answer

\* store() returns for a photo that is already safe.
Confirm(p) ==
  /\ ledger[p] # "offered" /\ answer[p] = "pending"
  /\ answer' = [answer EXCEPT ![p] = "returned"]
  /\ UNCHANGED ledger

\* store() raises: the caller keeps the photo.
Refuse(p) ==
  /\ answer[p] = "pending"
  /\ answer' = [answer EXCEPT ![p] = "raised"]
  /\ UNCHANGED ledger

\* The process dies with the calls in L unanswered.
Abandon(L) ==
  /\ answer' = [p \in Photos |-> IF p \in L /\ answer[p] = "pending"
                                 THEN "lost" ELSE answer[p]]
  /\ UNCHANGED ledger

DeliveryNext ==
  \/ \E p \in Photos : TakeOver(p) \/ Deliver(p) \/ Confirm(p) \/ Refuse(p)
  \/ \E L \in SUBSET Photos : Abandon(L)

DeliverySpec == DeliveryInit /\ [][DeliveryNext]_dvars
=============================================================================
