---------------------------- MODULE MCFrontOfHouse ----------------------------
(* Small instances of FrontOfHouse for TLC. *)
EXTENDS FrontOfHouse, TLC

MCBps == DEFAULT_CANCELLATION_POLICY

Symmetric ==
  UNION {Permutations(S) : S \in {Orders, Scans, Takers, Phones}}

(* Bounds of the instance: beside the queue the tables are bare; a round   *)
(* of the two is not followed past its payment.                            *)
Small ==
  /\ part = "queue" => \A t \in Tables : tables[t] = "none"
  /\ \A o \in Orders :
       orders[o].status \in {"NOT_PLACED", "PENDING_PAYMENT", "PAID"}

=============================================================================
