------------------------------ MODULE MCOrdering ------------------------------
(* Small instances of Ordering for TLC. *)
EXTENDS Ordering, TLC

MCBps == DEFAULT_CANCELLATION_POLICY
Symmetric ==
  Permutations(Orders) \cup Permutations(Items) \cup Permutations(CapEditors)

(* Beside an edit, an order of the stock run is paid online and holds its  *)
(* units or has sold them: caps know nothing else of it.                   *)
Plain(o) ==
  /\ orders[o].status \in {"NOT_PLACED", "PENDING_PAYMENT", "COMPLETED"}
  /\ orders[o].mode = "ONLINE" /\ request[o].mode = "ONLINE"
  /\ ~orders[o].late

(* Bounds of the stock run: two requests under way at a time, placements   *)
(* and edits together; two edits at a time are of one item.                *)
Small ==
  LET placing == {o \in Orders : request[o].stage # "none"} IN
  /\ Cardinality(placing) + Cardinality(capEdits) <= 2
  /\ \A edit, other \in capEdits : edit.item = other.item
  /\ capEdits = {} \/ \A o \in Orders : Plain(o)

=============================================================================
