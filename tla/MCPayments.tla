------------------------------ MODULE MCPayments ------------------------------
(* Small instances of Payments for TLC. *)
EXTENDS Payments

(* Operators refund half, or all that is left.                             *)
ByHand == {1, NoDecision}

(* The late tier of the policy returns half, the others as by default.     *)
HalfBps == [DEFAULT_CANCELLATION_POLICY EXCEPT !["LATE"] = 5000]

=============================================================================
