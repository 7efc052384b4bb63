----------------------------- MODULE MCReservation -----------------------------
(* Small instances of Reservation for TLC. *)
EXTENDS Reservation, TLC

Book(auto, slot, turn, seats, party) ==
  [enabled |-> TRUE, autoConfirm |-> auto, slotMinutes |-> slot,
   turnMinutes |-> turn, seatsPerSlot |-> seats, maxPartySize |-> party]

(* A shop that changes its slot length, its turn, its capacity and its way *)
(* of confirming, and one that closes its book.                            *)
TwoGrids ==
  { Book(TRUE, 1, 2, 2, 2), Book(FALSE, 2, 2, 3, 1),
    [Book(TRUE, 1, 1, 2, 1) EXCEPT !.enabled = FALSE] }

(* Bounds of the instance: two requests at a time, placements and rest     *)
(* days together, and no sweep while the book is closed.                   *)
Small ==
  LET placing == {b \in Bookings : request[b].stage # "none"}
      sweeping == {a \in Savers : sweep[a] # Idle}
  IN
  /\ Cardinality(placing) + Cardinality(sweeping) <= 2
  /\ settings.enabled \/ sweeping = {}

Symmetric == Permutations(Bookings) \cup Permutations(Savers)

=============================================================================
