----------------------------- MODULE MCBackOffice -----------------------------
(* Small instances of BackOffice for TLC. *)
EXTENDS BackOffice, TLC

MCBps == DEFAULT_CANCELLATION_POLICY

Symmetric ==
  UNION {Permutations(S) : S \in {Orders, Writers, Tickets, Handlers}}

(* Bounds of the instance: tickets are filed on one order, the orders that *)
(* are reviewed are paid online and in time; beside the other parts there  *)
(* is no shop to administer.                                               *)
Small ==
  /\ part # "shop" => shop = NoShop
  /\ part = "tickets" =>
       Cardinality({o \in Orders : orders[o] # NotPlaced \/ request[o] # NoRequest}) <= 1
  /\ part \in {"tickets", "reviews"} =>
       \A o \in Orders : /\ ~orders[o].late
                         /\ orders[o].mode = "ONLINE" /\ request[o].mode = "ONLINE"

=============================================================================
