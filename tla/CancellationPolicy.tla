------------------------- MODULE CancellationPolicy -------------------------
(***************************************************************************)
(* packages/domain/src/order/cancellation-policy.ts: which tier a closing  *)
(* transition falls in, and how much of the captured total goes back.      *)
(* `graceOver' stands for "more than graceMinutes since acceptedAt".       *)
(***************************************************************************)
EXTENDS Integers

CancellationTier ==
  {"FREE", "LATE", "NON_REFUNDABLE", "MERCHANT_FAULT", "PLATFORM_FAULT",
   "GOODWILL"}

DEFAULT_CANCELLATION_POLICY ==
  [tier \in CancellationTier |->
     IF tier \in {"LATE", "NON_REFUNDABLE"} THEN 0 ELSE 10000]

CustomerTier(from, graceOver) ==
  CASE from = "READY_FOR_PICKUP" -> "NON_REFUNDABLE"
    [] from = "PREPARING" -> "LATE"
    [] from = "ACCEPTED" /\ graceOver -> "LATE"
    [] OTHER -> "FREE"

classify(from, to, actor, graceOver) ==
  CASE to = "REJECTED" \/ actor = "MERCHANT" -> "MERCHANT_FAULT"
    [] to # "REJECTED" /\ actor = "ADMIN" -> "GOODWILL"
    [] to # "REJECTED" /\ actor = "SYSTEM" ->
         IF from = "READY_FOR_PICKUP" THEN "NON_REFUNDABLE"
         ELSE "PLATFORM_FAULT"
    [] to # "REJECTED" /\ actor = "CUSTOMER" -> CustomerTier(from, graceOver)

(* Money.applyBasisPoints on a non-negative amount: round half up.         *)
applyBasisPoints(minor, bps) == (minor * bps + 5000) \div 10000

(* No caller sends an operator override, so GOODWILL uses the policy too.  *)
quote(refundBps, total, from, to, actor, graceOver) ==
  applyBasisPoints(total, refundBps[classify(from, to, actor, graceOver)])

=============================================================================
