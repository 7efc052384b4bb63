-------------------------- MODULE OrderStateMachine --------------------------
(***************************************************************************)
(* The order lifecycle table of packages/domain/src/order: statuses,       *)
(* actors, the transition rules and the guards they name.  Pure: no        *)
(* variables, no clock.  Only the side effects that some code in the API   *)
(* discharges are kept; notifications and timer hints have no consumer     *)
(* that writes state.                                                      *)
(***************************************************************************)
EXTENDS Integers

OrderStatus ==
  {"PENDING_PAYMENT", "PAID", "ACCEPTED", "PREPARING", "READY_FOR_PICKUP",
   "COMPLETED", "REJECTED", "CANCELLED", "EXPIRED", "REFUNDED"}

OrderActor == {"CUSTOMER", "MERCHANT", "SYSTEM", "ADMIN"}

PaymentMode == {"ONLINE", "PAY_AT_STORE"}

TERMINAL == {"COMPLETED", "EXPIRED", "REFUNDED"}

STAFF == {"SYSTEM", "ADMIN"}

OrderSideEffect ==
  {"RELEASE_DAILY_QUOTA", "CONVERT_HOLD_TO_SOLD", "ISSUE_REFUND",
   "RECORD_PAYOUT_LEDGER"}

OrderGuard ==
  {"MERCHANT_ACCEPTING", "PAYMENT_CAPTURED", "MANUAL_SETTLEMENT_ALLOWED"}

Rule(to, actors, guards, effects) ==
  [to |-> to, actors |-> actors, guards |-> guards, effects |-> effects]

Returning == {"ISSUE_REFUND", "RELEASE_DAILY_QUOTA"}
Fulfilling == {"RECORD_PAYOUT_LEDGER", "CONVERT_HOLD_TO_SOLD"}
Releasing == {"RELEASE_DAILY_QUOTA"}

FromPendingPayment ==
  { Rule("CANCELLED", {"MERCHANT"}, {"MANUAL_SETTLEMENT_ALLOWED"}, Releasing),
    Rule("PAID", {"MERCHANT"} \cup STAFF, {"MANUAL_SETTLEMENT_ALLOWED"}, {}),
    Rule("CANCELLED", {"CUSTOMER"} \cup STAFF, {}, Releasing),
    Rule("EXPIRED", STAFF, {}, Releasing) }

(* Mutation of FromPaid: an unaccepted order expires and nobody decides    *)
(* its refund.                                                             *)
FromPaidKeepsMoney ==
  { Rule("ACCEPTED", {"MERCHANT"} \cup STAFF, {"MERCHANT_ACCEPTING"}, {}),
    Rule("EXPIRED", STAFF, {"PAYMENT_CAPTURED"}, Releasing) }

FromPaid ==
  { Rule("ACCEPTED", {"MERCHANT"} \cup STAFF, {"MERCHANT_ACCEPTING"}, {}),
    Rule("REJECTED", {"MERCHANT", "ADMIN"}, {}, Returning),
    Rule("CANCELLED", {"CUSTOMER"} \cup STAFF, {}, Returning),
    Rule("EXPIRED", STAFF, {"PAYMENT_CAPTURED"}, Returning),
    Rule("REFUNDED", STAFF, {"PAYMENT_CAPTURED"}, Releasing) }

(* Mutation of FromAccepted: a cancellation forgets the units.             *)
FromAcceptedLeaks ==
  { Rule("PREPARING", {"MERCHANT", "ADMIN"}, {}, {}),
    Rule("CANCELLED", {"CUSTOMER", "MERCHANT", "ADMIN"}, {}, {"ISSUE_REFUND"}) }

FromAccepted ==
  { Rule("PREPARING", {"MERCHANT", "ADMIN"}, {}, {}),
    Rule("CANCELLED", {"CUSTOMER", "MERCHANT", "ADMIN"}, {}, Returning),
    Rule("REFUNDED", STAFF, {"PAYMENT_CAPTURED"}, Releasing) }

FromPreparing ==
  { Rule("READY_FOR_PICKUP", {"MERCHANT"} \cup STAFF, {}, {}),
    Rule("CANCELLED", {"MERCHANT", "ADMIN"}, {}, Returning),
    Rule("REFUNDED", STAFF, {"PAYMENT_CAPTURED"}, Releasing) }

(* Mutation of FromReady: a no-show goes back on sale, and unpaid.         *)
FromReadyResellsNoShow ==
  { Rule("COMPLETED", {"MERCHANT"} \cup STAFF, {}, Fulfilling),
    Rule("EXPIRED", STAFF, {}, Releasing) }

FromReady ==
  { Rule("COMPLETED", {"MERCHANT"} \cup STAFF, {}, Fulfilling),
    Rule("EXPIRED", STAFF, {}, Fulfilling),
    Rule("REFUNDED", {"ADMIN"}, {"PAYMENT_CAPTURED"}, {}) }

FromRejected == { Rule("REFUNDED", STAFF, {}, {}) }

FromCancelled == { Rule("REFUNDED", STAFF, {"PAYMENT_CAPTURED"}, {}) }

(* The terminal statuses have no rule, which is also what the early        *)
(* OrderAlreadyTerminalError says.                                         *)
TRANSITIONS ==
  [from \in OrderStatus |->
     CASE from = "PENDING_PAYMENT" -> FromPendingPayment
       [] from = "PAID" -> FromPaid
       [] from = "ACCEPTED" -> FromAccepted
       [] from = "PREPARING" -> FromPreparing
       [] from = "READY_FOR_PICKUP" -> FromReady
       [] from = "REJECTED" -> FromRejected
       [] from = "CANCELLED" -> FromCancelled
       [] from \in TERMINAL -> {}]

(* `accepting' is FALSE only when the caller evaluated the merchant's      *)
(* intake switch and found it off; callers that do not evaluate it pass.   *)
GuardHolds(guard, actor, accepting, paid, mode) ==
  \/ guard = "MERCHANT_ACCEPTING" /\ (actor = "ADMIN" \/ accepting)
  \/ guard = "PAYMENT_CAPTURED" /\ paid > 0
  \/ guard = "MANUAL_SETTLEMENT_ALLOWED"
     /\ (actor \in STAFF \/ mode = "PAY_AT_STORE")

(* transition() prefers the rule that admits the actor; no two rules with  *)
(* the same from and to share an actor, so that rule is unique.            *)
Admits(rule, to, actor, accepting, paid, mode) ==
  /\ rule.to = to
  /\ actor \in rule.actors
  /\ \A guard \in rule.guards :
       GuardHolds(guard, actor, accepting, paid, mode)

(* Statuses this actor may move to from here, guards not evaluated.        *)
allowedTransitions(from, actor) ==
  {rule.to : rule \in {r \in TRANSITIONS[from] : actor \in r.actors}}

=============================================================================
