------------------------------ MODULE Settlement ------------------------------
(***************************************************************************)
(* Settlement of merchants (apps/api/src/modules/admin, finance): the      *)
(* weekly merchant_payouts row that fulfilled orders add to, and the       *)
(* operators who record that the transfer went out or bounced.             *)
(*                                                                         *)
(* Composed with Ordering: an order's RECORD_PAYOUT_LEDGER is what opens   *)
(* the batch.  An operator's request reads the batch in one step and       *)
(* writes it, unconditionally, in a later one.                             *)
(***************************************************************************)
EXTENDS Ordering

CONSTANT Operators   \* admin requests that may be under way at a time

VARIABLES
  payout,   \* the batch: its status, and what the last audited transfer paid
  desk      \* each operator's request: markPaid or markFailed

settlementVars == <<payout, desk>>

-----------------------------------------------------------------------------
NotPaidOut == -1   \* no transfer was ever recorded

(* A payout that has been settled may not be settled again.                *)
SETTLEABLE_STATUSES == {"PENDING", "FAILED"}

Away == [does |-> "nothing", saw |-> 0, overtaken |-> FALSE]

SettlementInit ==
  /\ payout = [status |-> "NONE", transferred |-> NotPaidOut]
  /\ desk = [c \in Operators |-> Away]

(* Mutation of Joined: the ON CONFLICT clause writes the status too.       *)
JoinedReopening == [payout EXCEPT !.status = "PENDING"]

(* The batch once an order was added: created PENDING; its status is       *)
(* absent from the DO UPDATE clause.                                       *)
Joined ==
  [payout EXCEPT !.status = IF @ = "NONE" THEN "PENDING" ELSE @]

(* What a step of the ordering module does to the batch.                   *)
Batched ==
  /\ payout' = IF ledger' # ledger THEN Joined ELSE payout
  /\ UNCHANGED desk

-----------------------------------------------------------------------------
(* Mutation of requireSettleable: the status is not looked at.             *)
requireExisting == payout.status # "NONE"

requireSettleable == payout.status \in SETTLEABLE_STATUSES

(* The check, outside the transaction: what it read goes to the audit row. *)
Check(c, does) ==
  /\ desk[c] = Away
  /\ requireSettleable
  /\ desk' = [desk EXCEPT ![c] =
       [does |-> does, saw |-> ledger.orderCount, overtaken |-> FALSE]]
  /\ UNCHANGED payout

(* History: the requests this one commits in front of.                     *)
Overtaking(c) ==
  [d \in Operators |->
     IF d = c \/ desk[d] = Away THEN Away
     ELSE [desk[d] EXCEPT !.overtaken = TRUE]]

(* Update and audit row in one transaction; the update names only the id.  *)
markPaid(c) ==
  /\ desk[c].does = "paying"
  /\ payout' = [status |-> "PAID", transferred |-> desk[c].saw]
  /\ desk' = Overtaking(c)

(* A transfer that bounced: the batch is settleable again.                 *)
markFailed(c) ==
  /\ desk[c].does = "failing"
  /\ payout' = [payout EXCEPT !.status = "FAILED"]
  /\ desk' = [desk EXCEPT ![c] = Away]

(* The process dies between check and transaction.                         *)
Abandon(c) ==
  /\ desk[c] # Away
  /\ desk' = [desk EXCEPT ![c] = Away]
  /\ UNCHANGED payout

Operating(c) ==
  \/ \E does \in {"paying", "failing"} : Check(c, does)
  \/ markPaid(c) \/ markFailed(c) \/ Abandon(c)

-----------------------------------------------------------------------------
(* Properties.                                                             *)

(* The comment above SETTLEABLE_STATUSES: what is settled is not settled   *)
(* again.  A batch marked PAID changes only under an operator whose        *)
(* request was already open when it was marked: neither a late order nor a *)
(* request made afterwards reopens it.                                     *)
SettledAgainOnlyIfOverlapped ==
  [][payout.status = "PAID" /\ payout' # payout =>
       \E c \in Operators : desk[c].overtaken /\ desk'[c] = Away]_settlementVars

=============================================================================
