------------------------ MODULE ReservationStateMachine ------------------------
(***************************************************************************)
(* The booking lifecycle table of packages/domain/src/reservation.  Pure.  *)
(* The one side effect that some code discharges is the release of the     *)
(* seats; a booking's no-show is recorded nowhere.                         *)
(***************************************************************************)
EXTENDS Integers

ReservationStatus ==
  {"PENDING", "CONFIRMED", "SEATED", "COMPLETED", "DECLINED", "CANCELLED",
   "NO_SHOW"}

ReservationActor == {"CUSTOMER", "MERCHANT", "SYSTEM", "ADMIN"}

(* Statuses that hold seats: what the slot counters must agree with.       *)
ACTIVE == {"PENDING", "CONFIRMED", "SEATED"}

STAFF == {"SYSTEM", "ADMIN"}

ReservationGuard == {"RESERVATIONS_ACCEPTING", "WITHIN_TURN_WINDOW"}

Rule(to, actors, guards, releases) ==
  [to |-> to, actors |-> actors, guards |-> guards, releases |-> releases]

(* Mutation of FromPending: a refused booking keeps its seats.             *)
FromPendingKeepsSeats ==
  { Rule("CONFIRMED", {"MERCHANT"} \cup STAFF, {"RESERVATIONS_ACCEPTING"}, FALSE),
    Rule("DECLINED", {"MERCHANT"} \cup STAFF, {}, FALSE),
    Rule("CANCELLED", {"CUSTOMER", "MERCHANT"} \cup STAFF, {}, TRUE),
    Rule("NO_SHOW", STAFF, {}, TRUE) }

FromPending ==
  { Rule("CONFIRMED", {"MERCHANT"} \cup STAFF, {"RESERVATIONS_ACCEPTING"}, FALSE),
    Rule("DECLINED", {"MERCHANT"} \cup STAFF, {}, TRUE),
    Rule("CANCELLED", {"CUSTOMER", "MERCHANT"} \cup STAFF, {}, TRUE),
    Rule("NO_SHOW", STAFF, {}, TRUE) }

FromConfirmed ==
  { Rule("SEATED", {"MERCHANT"} \cup STAFF, {}, FALSE),
    Rule("CANCELLED", {"CUSTOMER", "MERCHANT"} \cup STAFF, {}, TRUE),
    Rule("NO_SHOW", {"MERCHANT"} \cup STAFF, {"WITHIN_TURN_WINDOW"}, TRUE) }

FromSeated ==
  { Rule("COMPLETED", {"MERCHANT"} \cup STAFF, {}, TRUE),
    Rule("CANCELLED", {"MERCHANT"} \cup STAFF, {}, TRUE) }

(* The other four are terminal.                                            *)
TRANSITIONS ==
  [from \in ReservationStatus |->
     CASE from = "PENDING" -> FromPending
       [] from = "CONFIRMED" -> FromConfirmed
       [] from = "SEATED" -> FromSeated
       [] OTHER -> {}]

(* `accepting': the shop takes bookings; `late': the booked time has come. *)
GuardHolds(guard, actor, accepting, late) ==
  \/ actor = "ADMIN"
  \/ guard = "RESERVATIONS_ACCEPTING" /\ accepting
  \/ guard = "WITHIN_TURN_WINDOW" /\ late

Admits(rule, to, actor, accepting, late) ==
  /\ rule.to = to
  /\ actor \in rule.actors
  /\ \A guard \in rule.guards : GuardHolds(guard, actor, accepting, late)

=============================================================================
