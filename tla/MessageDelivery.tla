--------------------------- MODULE MessageDelivery ---------------------------
(***************************************************************************)
(* What sending promises, without requests, transactions or retries: an    *)
(* entry of the client's queue is written to its conversation at most once *)
(* ever, it leaves the queue as delivered only after that, and a row that  *)
(* was removed with its conversation does not come back.                   *)
(***************************************************************************)
CONSTANT Ids

VARIABLES
  entry,   \* entry[k]: the client's queue entry
  row      \* row[k]: "none", "stored", or "gone" with its conversation

vars == <<entry, row>>

Init ==
  /\ entry = [k \in Ids |-> "new"]
  /\ row = [k \in Ids |-> "none"]

Compose(k) ==
  /\ entry[k] = "new"
  /\ entry' = [entry EXCEPT ![k] = "queued"]
  /\ UNCHANGED row

Cancel(k) ==
  /\ entry[k] = "queued"
  /\ entry' = [entry EXCEPT ![k] = "cancelled"]
  /\ UNCHANGED row

(* A cancelled entry may still be written by a request already under way.  *)
Store(k) ==
  /\ entry[k] \in {"queued", "cancelled"} /\ row[k] = "none"
  /\ row' = [row EXCEPT ![k] = "stored"]
  /\ UNCHANGED entry

Acknowledge(k) ==
  /\ entry[k] = "queued" /\ row[k] # "none"
  /\ entry' = [entry EXCEPT ![k] = "acked"]
  /\ UNCHANGED row

RemoveConversation ==
  /\ row' = [k \in Ids |-> IF row[k] = "stored" THEN "gone" ELSE row[k]]
  /\ UNCHANGED entry

Next ==
  \/ \E k \in Ids : Compose(k) \/ Cancel(k) \/ Store(k) \/ Acknowledge(k)
  \/ RemoveConversation

Spec == Init /\ [][Next]_vars
=============================================================================
