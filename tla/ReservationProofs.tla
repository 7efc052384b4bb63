---------------------------- MODULE ReservationProofs ----------------------------
(***************************************************************************)
(* What holds of bookings, slots and rest days for every set of bookings,  *)
(* policies and rest-day requests, the slot length of the shop changing as *)
(* it may.                                                                 *)
(***************************************************************************)
EXTENDS Reservation, TLAPS, FiniteSetTheorems

-----------------------------------------------------------------------------
(* The invariant.                                                          *)

SlotRow == [exists : BOOLEAN, booked : Nat]

RequestRow ==
  [stage : {"none", "read", "checked"}, party : 0 .. MaxParty,
   start : Starts \cup {0}, policy : Policies]

ClosureRow ==
  [exists : BOOLEAN, swept : BOOLEAN, told : BOOLEAN, stale : BOOLEAN,
   known : SUBSET Bookings]

SweepRow ==
  [pc : {"idle", "list", "cancel"}, todo : SUBSET Bookings,
   more : BOOLEAN, stale : BOOLEAN]

(* Only a booking that is not made yet is being made.                      *)
PlacingOnce ==
  \A b \in Bookings : request[b].stage # "none" => bookings[b].status = "NONE"

(* A slot without a row counts nobody.                                     *)
NoRowNoSeats == \A t \in Slots : slots[t].booked > 0 => slots[t].exists

(* A sweep that was not overtaken has its closure, and what it has still   *)
(* to cancel covers the active bookings made before, if it listed all.     *)
SweepOK(a) ==
  sweep[a].pc = "cancel" /\ ~sweep[a].stale =>
    /\ closure.exists
    /\ ~sweep[a].more =>
         \A b \in closure.known : Active(b) => b \in sweep[a].todo

ClosureOK ==
  /\ closure.swept => closure.exists
  /\ \A b \in closure.known : bookings[b].status # "NONE"

BookInv ==
  /\ TypeOK
  /\ PlacingOnce
  /\ NoRowNoSeats
  /\ ClosureOK
  /\ \A a \in Savers : SweepOK(a)
  /\ SweptDayIsClear

-----------------------------------------------------------------------------
(* Facts about the data.                                                   *)

LEMMA TypeByRows ==
  TypeOK <=>
    /\ settings \in Policies
    /\ slots \in [Slots -> SlotRow]
    /\ bookings \in [Bookings -> BookingRow]
    /\ request \in [Bookings -> RequestRow]
    /\ closure \in ClosureRow
    /\ sweep \in [Savers -> SweepRow]
    /\ crashes \in 0 .. MaxCrashes
BY DEF TypeOK, SlotRow, RequestRow, ClosureRow, SweepRow

LEMMA PolicyRow ==
  ASSUME NEW policy \in Policies
  PROVE  /\ policy.slotMinutes \in Nat \ {0} /\ policy.turnMinutes \in Nat
         /\ policy.seatsPerSlot \in Nat /\ policy.maxPartySize \in 1 .. MaxParty
         /\ policy.autoConfirm \in BOOLEAN
BY PolicyAssumption DEF ReservationPolicy

LEMMA EmptyRows ==
  /\ NoBooking \in BookingRow /\ NoBooking.status = "NONE"
  /\ NoBooking.freed = NotFreed
  /\ Idle \in SweepRow /\ Idle.pc = "idle"
  /\ NoClosure \in ClosureRow /\ ~NoClosure.swept /\ NoClosure.known = {}
  /\ ~NoClosure.exists
<1>1. 0 \in 0 .. MaxParty BY BookingAssumption
<1>2. /\ NoBooking \in BookingRow /\ NoBooking.status = "NONE"
      /\ NoBooking.freed = NotFreed
  BY <1>1 DEF NoBooking, BookingRow, NotFreed
<1> QED BY <1>2 DEF Idle, SweepRow, NoClosure, ClosureRow

LEMMA EmptyRequest ==
  ASSUME Policies # {}
  PROVE  NoRequest \in RequestRow /\ NoRequest.stage = "none"
<1>1. 0 \in 0 .. MaxParty BY BookingAssumption
<1>2. AnyPolicy \in Policies BY DEF AnyPolicy
<1> QED BY <1>1, <1>2 DEF NoRequest, RequestRow

(* A rule of the table gives the seats back exactly when it ends the       *)
(* booking.                                                                *)
LEMMA RuleReleases ==
  ASSUME NEW status \in ACTIVE, NEW rule \in TRANSITIONS[status]
  PROVE  /\ rule.to \in ReservationStatus
         /\ rule.releases <=> rule.to \notin ACTIVE
<1>1. status \in ReservationStatus BY DEF ACTIVE, ReservationStatus
<1>2. \/ status = "PENDING" /\ rule \in FromPending
      \/ status = "CONFIRMED" /\ rule \in FromConfirmed
      \/ status = "SEATED" /\ rule \in FromSeated
  BY <1>1 DEF TRANSITIONS, ACTIVE
<1>3. CASE rule \in FromPending
  BY <1>3 DEF FromPending, Rule, ACTIVE, ReservationStatus
<1>4. CASE rule \in FromConfirmed
  BY <1>4 DEF FromConfirmed, Rule, ACTIVE, ReservationStatus
<1>5. CASE rule \in FromSeated
  BY <1>5 DEF FromSeated, Rule, ACTIVE, ReservationStatus
<1> QED BY <1>2, <1>3, <1>4, <1>5

(* What a transition does, without the table.                              *)
Released(b) ==
  [t \in Slots |->
     IF t \in releasedSlots(b) /\ slots[t].exists
     THEN releaseSlots(slots[t], bookings[b].party) ELSE slots[t]]

FreedBy(b, to) ==
  IF to \in ACTIVE THEN bookings[b].freed ELSE settings.slotMinutes

Moves(b, to) ==
  /\ Active(b) /\ to \in ReservationStatus
  /\ bookings' = [bookings EXCEPT ![b].status = to, ![b].freed = FreedBy(b, to)]
  /\ slots' = IF to \in ACTIVE THEN slots ELSE Released(b)

LEMMA TransitionMoves ==
  ASSUME TypeOK, NEW b \in Bookings, NEW to, NEW actor, NEW accepting, NEW late,
         Transition(b, to, actor, accepting, late)
  PROVE  Moves(b, to)
<1>1. PICK rule \in TRANSITIONS[bookings[b].status] :
        /\ rule.to = to
        /\ bookings' = [bookings EXCEPT
             ![b].status = to,
             ![b].freed = IF rule.releases THEN settings.slotMinutes ELSE @]
        /\ slots' = [t \in Slots |->
             IF rule.releases /\ t \in releasedSlots(b) /\ slots[t].exists
             THEN releaseSlots(slots[t], bookings[b].party) ELSE slots[t]]
  BY DEF Transition, Admits
<1>2. Active(b) BY DEF Transition
<1>3. to \in ReservationStatus /\ (rule.releases <=> to \notin ACTIVE)
  BY <1>1, <1>2, RuleReleases DEF Active
<1>4. slots = [t \in Slots |-> slots[t]] BY TypeByRows
<1>5. PICK row \in BookingRow : row = bookings[b] BY TypeByRows
<1>6. [row EXCEPT !.status = to].freed = row.freed BY DEF BookingRow
<1>7. bookings' = [bookings EXCEPT ![b] =
        [[row EXCEPT !.status = to] EXCEPT !.freed =
           IF rule.releases THEN settings.slotMinutes
           ELSE [row EXCEPT !.status = to].freed]]
  BY <1>1, <1>5, TypeByRows
<1>8. bookings' = [bookings EXCEPT ![b] =
        [[row EXCEPT !.status = to] EXCEPT !.freed = FreedBy(b, to)]]
  BY <1>3, <1>5, <1>6, <1>7 DEF FreedBy
<1>9. bookings' =
        [bookings EXCEPT ![b].status = to, ![b].freed = FreedBy(b, to)]
  BY <1>5, <1>8, TypeByRows
<1>10. CASE to \in ACTIVE
  <2>1. slots' = [t \in Slots |-> slots[t]] BY <1>1, <1>3, <1>10
  <2> QED BY <1>2, <1>3, <1>4, <1>9, <1>10, <2>1 DEF Moves
<1>11. CASE to \notin ACTIVE
  <2>1. slots' = Released(b) BY <1>1, <1>3, <1>11 DEF Released
  <2> QED BY <1>2, <1>3, <1>9, <1>11, <2>1 DEF Moves
<1> QED BY <1>10, <1>11

-----------------------------------------------------------------------------
(* The steps.                                                              *)

LEMMA InitBook == Init => BookInv
<1> SUFFICES ASSUME Init PROVE BookInv OBVIOUS
<1>1. /\ settings \in Policies /\ crashes = 0 /\ closure = NoClosure
      /\ slots = [t \in Slots |-> [exists |-> FALSE, booked |-> 0]]
      /\ bookings = [b \in Bookings |-> NoBooking]
      /\ request = [b \in Bookings |-> NoRequest]
      /\ sweep = [a \in Savers |-> Idle]
  BY DEF Init
<1>2. TypeOK
  <2>1. crashes \in 0 .. MaxCrashes BY <1>1, SweepAssumption
  <2>2. NoRequest \in RequestRow BY <1>1, EmptyRequest
  <2>3. slots \in [Slots -> SlotRow] BY <1>1 DEF SlotRow
  <2> QED BY <1>1, <2>1, <2>2, <2>3, EmptyRows, TypeByRows
<1>3. PlacingOnce BY <1>1, EmptyRows DEF PlacingOnce
<1>4. NoRowNoSeats BY <1>1 DEF NoRowNoSeats
<1>5. ClosureOK /\ SweptDayIsClear
  BY <1>1, EmptyRows DEF ClosureOK, SweptDayIsClear
<1>6. \A a \in Savers : SweepOK(a) BY <1>1, EmptyRows DEF SweepOK
<1> QED BY <1>2, <1>3, <1>4, <1>5, <1>6 DEF BookInv

(* A step under a closure that stays: no booking comes to life again, and  *)
(* a sweep drops only what is off the book.                                *)
LEMMA StepUnderClosure ==
  ASSUME BookInv, TypeOK', PlacingOnce', NoRowNoSeats', UNCHANGED closure,
         \A b \in Bookings : bookings[b].status # "NONE" =>
           bookings'[b].status # "NONE" /\ (Active(b)' => Active(b)),
         \A a \in Savers :
           /\ sweep'[a].pc = sweep[a].pc
           /\ sweep'[a].stale = sweep[a].stale /\ sweep'[a].more = sweep[a].more
           /\ \A b \in sweep[a].todo : Active(b)' => b \in sweep'[a].todo
  PROVE  BookInv'
<1>1. closure.known \subseteq Bookings BY TypeByRows DEF BookInv, ClosureRow
<1>2. \A b \in closure.known :
        bookings'[b].status # "NONE" /\ (Active(b)' => Active(b))
  BY <1>1 DEF BookInv, ClosureOK
<1>3. ClosureOK' BY <1>2 DEF BookInv, ClosureOK
<1>4. ASSUME NEW a \in Savers PROVE SweepOK(a)'
  BY <1>2 DEF BookInv, SweepOK
<1>5. SweptDayIsClear' BY <1>2 DEF BookInv, SweptDayIsClear
<1> QED BY <1>3, <1>4, <1>5 DEF BookInv

(* The seats of a slot stay a number, and a slot with seats has a row.     *)
LEMMA ReleasedSlots ==
  ASSUME TypeOK, NoRowNoSeats, NEW b \in Bookings
  PROVE  /\ Released(b) \in [Slots -> SlotRow]
         /\ \A t \in Slots : Released(b)[t].booked > 0 => Released(b)[t].exists
         /\ \A t \in Slots : Released(b)[t].booked <= slots[t].booked
<1> SUFFICES ASSUME NEW t \in Slots
             PROVE  /\ Released(b)[t] \in SlotRow
                    /\ Released(b)[t].booked > 0 => Released(b)[t].exists
                    /\ Released(b)[t].booked <= slots[t].booked
  BY DEF Released
<1>1. PICK row \in SlotRow : row = slots[t] BY TypeByRows
<1>2. PICK seats \in Nat : seats = bookings[b].party
  BY TypeByRows, BookingAssumption DEF BookingRow
<1>3. PICK booked \in Nat :
        booked = IF row.booked < seats THEN 0 ELSE row.booked - seats
  BY DEF SlotRow
<1>4. releaseSlots(row, seats) = [row EXCEPT !.booked = booked]
  BY <1>3 DEF releaseSlots, SlotRow
<1>5. /\ releaseSlots(row, seats) \in SlotRow
      /\ releaseSlots(row, seats).exists = row.exists
      /\ releaseSlots(row, seats).booked <= row.booked
  BY <1>3, <1>4 DEF SlotRow
<1>6. row.booked > 0 => row.exists BY <1>1 DEF NoRowNoSeats
<1>7. \/ Released(b)[t] = releaseSlots(row, seats) /\ row.exists
      \/ Released(b)[t] = row
  BY <1>1, <1>2 DEF Released
<1>8. row.booked <= row.booked BY DEF SlotRow
<1> QED BY <1>1, <1>5, <1>6, <1>7, <1>8

(* What moves is a booking that was active, and only its status moves.     *)
LEMMA MovedBooking ==
  ASSUME TypeOK, NEW b \in Bookings, NEW to, Moves(b, to)
  PROVE  /\ bookings' \in [Bookings -> BookingRow]
         /\ bookings[b].status # "NONE" /\ bookings'[b].status = to /\ to # "NONE"
         /\ bookings'[b].freed = FreedBy(b, to)
         /\ \A c \in Bookings \ {b} : bookings'[c] = bookings[c]
         /\ \A c \in Bookings : /\ bookings'[c].party = bookings[c].party
                                /\ bookings'[c].start = bookings[c].start
                                /\ bookings'[c].turn = bookings[c].turn
                                /\ bookings'[c].grid = bookings[c].grid
         /\ \A c \in Bookings : bookings[c].status # "NONE" =>
              bookings'[c].status # "NONE" /\ (Active(c)' => Active(c))
<1>1. bookings \in [Bookings -> BookingRow] BY TypeByRows
<1>2. PICK row \in BookingRow : row = bookings[b] BY <1>1
<1>3. /\ Active(b) /\ to \in ReservationStatus
      /\ bookings' =
           [bookings EXCEPT ![b].status = to, ![b].freed = FreedBy(b, to)]
  BY DEF Moves
<1>4. to # "NONE" BY <1>3 DEF ReservationStatus
<1>5. PICK freed \in Nat : freed = FreedBy(b, to)
  <2>1. settings.slotMinutes \in Nat BY TypeByRows, PolicyRow
  <2>2. bookings[b].freed \in Nat BY <1>1 DEF BookingRow
  <2> QED BY <2>1, <2>2 DEF FreedBy
<1>6. PICK moved \in BookingRow : moved = [row EXCEPT !.status = to]
  BY <1>3 DEF BookingRow
<1>7. /\ moved.status = to /\ moved.party = row.party /\ moved.start = row.start
      /\ moved.turn = row.turn /\ moved.grid = row.grid
  BY <1>6 DEF BookingRow
<1>8. PICK next \in BookingRow : next = [moved EXCEPT !.freed = freed]
  BY DEF BookingRow
<1>9. /\ next.status = to /\ next.party = row.party /\ next.start = row.start
      /\ next.turn = row.turn /\ next.grid = row.grid /\ next.freed = freed
  BY <1>7, <1>8 DEF BookingRow
<1>10. bookings' = [bookings EXCEPT ![b] = next]
  BY <1>1, <1>2, <1>3, <1>5, <1>6, <1>8
<1>11. bookings' \in [Bookings -> BookingRow] BY <1>1, <1>10
<1>12. \A c \in Bookings : bookings'[c] = IF c = b THEN next ELSE bookings[c]
  BY <1>1, <1>10
<1>13. bookings[b].status # "NONE" BY <1>3 DEF Active, ACTIVE
<1>14. \A c \in Bookings : Active(c)' => Active(c)
  BY <1>3, <1>12 DEF Active
<1> QED BY <1>2, <1>4, <1>5, <1>9, <1>11, <1>12, <1>13, <1>14

LEMMA MoveStep ==
  ASSUME BookInv, NEW b \in Bookings, NEW to, Moves(b, to),
         UNCHANGED <<settings, request, closure, crashes>>,
         sweep' \in [Savers -> SweepRow],
         \A a \in Savers :
           /\ sweep'[a].pc = sweep[a].pc
           /\ sweep'[a].stale = sweep[a].stale /\ sweep'[a].more = sweep[a].more
           /\ \A c \in sweep[a].todo : Active(c)' => c \in sweep'[a].todo
  PROVE  BookInv'
<1>1. TypeOK /\ PlacingOnce /\ NoRowNoSeats BY DEF BookInv
<1>2. slots' = slots \/ slots' = Released(b) BY DEF Moves
<1>3. slots' \in [Slots -> SlotRow] BY <1>1, <1>2, ReleasedSlots, TypeByRows
<1>4. TypeOK'
  <2>1. bookings' \in [Bookings -> BookingRow] BY <1>1, MovedBooking
  <2> QED BY <1>1, <1>3, <2>1, TypeByRows DEF TypeOK, SlotRow, SweepRow
<1>5. NoRowNoSeats' BY <1>1, <1>2, ReleasedSlots DEF NoRowNoSeats
<1>6. PlacingOnce'
  <2>1. \A c \in Bookings \ {b} : bookings'[c] = bookings[c]
    BY <1>1, MovedBooking
  <2>2. bookings[b].status # "NONE" BY <1>1, MovedBooking
  <2> QED BY <1>1, <2>1, <2>2 DEF PlacingOnce
<1>7. \A c \in Bookings : bookings[c].status # "NONE" =>
        bookings'[c].status # "NONE" /\ (Active(c)' => Active(c))
  BY <1>1, MovedBooking
<1> QED BY <1>4, <1>5, <1>6, <1>7, StepUnderClosure

(* The request of a guest: what it was told is a policy of the shop.       *)
LEMMA RequestStep ==
  ASSUME BookInv, NEW b \in Bookings, NEW row \in RequestRow,
         row.stage # "none" => bookings[b].status = "NONE",
         request' = [request EXCEPT ![b] = row],
         UNCHANGED <<settings, slots, bookings, closure, sweep, crashes>>
  PROVE  BookInv'
<1>1. TypeOK' BY TypeByRows DEF BookInv, TypeOK, RequestRow
<1>2. \A c \in Bookings : request'[c] = IF c = b THEN row ELSE request[c]
  BY TypeByRows DEF BookInv
<1>3. PlacingOnce' BY <1>2 DEF BookInv, PlacingOnce
<1>4. NoRowNoSeats' BY DEF BookInv, NoRowNoSeats
<1> QED BY <1>1, <1>3, <1>4, StepUnderClosure DEF Active

LEMMA PlaceReadStep ==
  ASSUME BookInv, NEW b \in Bookings, PlaceRead(b)
  PROVE  BookInv'
<1>1. PICK start \in Starts, party \in 1 .. settings.maxPartySize :
        request' = [request EXCEPT ![b] =
          [stage |-> "read", party |-> party, start |-> start,
           policy |-> settings]]
  BY DEF PlaceRead
<1>2. settings \in Policies BY DEF BookInv, TypeOK
<1>3. party \in 0 .. MaxParty BY <1>2, PolicyRow, BookingAssumption
<1>4. [stage |-> "read", party |-> party, start |-> start,
       policy |-> settings] \in RequestRow
  BY <1>2, <1>3 DEF RequestRow
<1>5. /\ bookings[b].status = "NONE"
      /\ UNCHANGED <<settings, slots, bookings, closure, sweep, crashes>>
  BY DEF PlaceRead, bookVars
<1> QED BY <1>1, <1>4, <1>5, RequestStep

LEMMA PlaceCheckStep ==
  ASSUME BookInv, NEW b \in Bookings, PlaceClosureCheck(b)
  PROVE  BookInv'
<1>1. PICK row \in RequestRow : row = request[b] BY TypeByRows DEF BookInv
<1>2. [row EXCEPT !.stage = "checked"] \in RequestRow BY DEF RequestRow
<1>3. /\ request[b].stage = "read"
      /\ request' = [request EXCEPT ![b].stage = "checked"]
      /\ UNCHANGED <<settings, slots, bookings, closure, sweep, crashes>>
  BY DEF PlaceClosureCheck, bookVars
<1>4. request' = [request EXCEPT ![b] = [row EXCEPT !.stage = "checked"]]
  BY <1>1, <1>3, TypeByRows DEF BookInv
<1>5. bookings[b].status = "NONE" BY <1>3 DEF BookInv, PlacingOnce
<1> QED BY <1>2, <1>3, <1>4, <1>5, RequestStep

LEMMA PlaceAbortStep ==
  ASSUME BookInv, NEW b \in Bookings, PlaceAbort(b)
  PROVE  BookInv'
<1>1. NoRequest \in RequestRow /\ NoRequest.stage = "none"
  BY EmptyRequest DEF BookInv, TypeOK
<1> QED BY <1>1, RequestStep DEF PlaceAbort, bookVars

(* What a placement commits.                                               *)
SlotsOf(b) ==
  occupiedSlotStarts(request[b].start, request[b].policy.slotMinutes,
                     request[b].policy.turnMinutes)

Placed(b) ==
  [status |-> IF request[b].policy.autoConfirm THEN "CONFIRMED" ELSE "PENDING",
   party |-> request[b].party, start |-> request[b].start,
   turn |-> request[b].policy.turnMinutes,
   grid |-> request[b].policy.slotMinutes, freed |-> NotFreed]

LEMMA CommitShape ==
  ASSUME BookInv, NEW b \in Bookings, PlaceCommit(b)
  PROVE  /\ bookings[b].status = "NONE"
         /\ Placed(b) \in BookingRow /\ Placed(b).status \in ACTIVE
         /\ bookings' = [bookings EXCEPT ![b] = Placed(b)]
         /\ \A c \in Bookings :
              bookings'[c] = IF c = b THEN Placed(b) ELSE bookings[c]
         /\ slots' \in [Slots -> SlotRow]
         /\ \A t \in Slots \ SlotsOf(b) : slots'[t] = slots[t]
         /\ \A t \in Slots \cap SlotsOf(b) :
              /\ Fits(slots[t], request[b].party, request[b].policy.seatsPerSlot)
              /\ slots'[t].exists
              /\ slots'[t].booked = slots[t].booked + request[b].party
<1>1. PICK row \in RequestRow : row = request[b] BY TypeByRows DEF BookInv
<1>2. /\ row.policy \in Policies /\ row.party \in 0 .. MaxParty
      /\ row.party \in Nat /\ row.start \in Starts \cup {0}
  BY BookingAssumption DEF RequestRow
<1>3. bookings[b].status = "NONE" BY DEF PlaceCommit, BookInv, PlacingOnce
<1>4. Placed(b) \in BookingRow /\ Placed(b).status \in ACTIVE
  BY <1>1, <1>2, PolicyRow
  DEF Placed, BookingRow, ACTIVE, ReservationStatus, NotFreed
<1>5. bookings' = [bookings EXCEPT ![b] = Placed(b)]
  BY DEF PlaceCommit, Placed
<1>6. \A c \in Bookings :
        bookings'[c] = IF c = b THEN Placed(b) ELSE bookings[c]
  BY <1>5, TypeByRows DEF BookInv
<1>7. slots' = [t \in Slots |-> IF t \in SlotsOf(b)
                               THEN HeldRow(slots[t], request[b].party)
                               ELSE slots[t]]
  BY DEF PlaceCommit, SlotsOf
<1>8. \A t \in SlotsOf(b) :
        Fits(slots[t], request[b].party, request[b].policy.seatsPerSlot)
  BY DEF PlaceCommit, SlotsOf
<1>9. ASSUME NEW t \in Slots
      PROVE  /\ HeldRow(slots[t], request[b].party) \in SlotRow
             /\ HeldRow(slots[t], request[b].party).exists
             /\ HeldRow(slots[t], request[b].party).booked
                  = slots[t].booked + request[b].party
  <2>1. slots[t] \in SlotRow BY TypeByRows DEF BookInv
  <2> QED BY <1>1, <1>2, <2>1 DEF HeldRow, SlotRow
<1>10. slots' \in [Slots -> SlotRow]
  BY <1>7, <1>9, TypeByRows DEF BookInv
<1> QED BY <1>3, <1>4, <1>5, <1>6, <1>7, <1>8, <1>9, <1>10

LEMMA PlaceCommitStep ==
  ASSUME BookInv, NEW b \in Bookings, PlaceCommit(b)
  PROVE  BookInv'
<1>1. /\ request' = [request EXCEPT ![b] = NoRequest]
      /\ UNCHANGED <<settings, closure, sweep, crashes>>
  BY DEF PlaceCommit
<1>2. NoRequest \in RequestRow /\ NoRequest.stage = "none"
  BY EmptyRequest DEF BookInv, TypeOK
<1>3. request' \in [Bookings -> RequestRow] BY <1>1, <1>2, TypeByRows DEF BookInv
<1>4. bookings' \in [Bookings -> BookingRow]
  BY CommitShape, TypeByRows DEF BookInv
<1>5. slots' \in [Slots -> SlotRow] BY CommitShape
<1>6. TypeOK' BY <1>1, <1>3, <1>4, <1>5 DEF BookInv, TypeOK, SlotRow, RequestRow
<1>7. PlacingOnce'
  <2>1. \A c \in Bookings : request'[c] = IF c = b THEN NoRequest ELSE request[c]
    BY <1>1, TypeByRows DEF BookInv
  <2>2. \A c \in Bookings \ {b} : bookings'[c] = bookings[c] BY CommitShape
  <2> QED BY <1>2, <2>1, <2>2 DEF BookInv, PlacingOnce
<1>8. NoRowNoSeats'
  <2>1. \A t \in Slots : slots'[t].exists \/ slots'[t] = slots[t]
    BY CommitShape
  <2> QED BY <2>1 DEF BookInv, NoRowNoSeats
<1>9. \A c \in Bookings : bookings[c].status # "NONE" => bookings'[c] = bookings[c]
  BY CommitShape
<1> QED BY <1>1, <1>6, <1>7, <1>8, <1>9, StepUnderClosure DEF Active

LEMMA SettingsStep ==
  ASSUME BookInv, NEW policy \in Policies, updateSettings(policy)
  PROVE  BookInv'
<1>1. settings' = policy /\ UNCHANGED <<slots, bookings, request, closure, sweep, crashes>>
  BY DEF updateSettings, bookVars
<1>2. TypeOK' BY <1>1 DEF BookInv, TypeOK
<1>3. PlacingOnce' /\ NoRowNoSeats' BY <1>1 DEF BookInv, PlacingOnce, NoRowNoSeats
<1> QED BY <1>1, <1>2, <1>3, StepUnderClosure DEF Active

LEMMA GuestOrShopStep ==
  ASSUME BookInv, NEW b \in Bookings,
         CustomerCancel(b) \/ \E to \in MerchantTargets : MerchantMove(b, to)
  PROVE  BookInv'
<1>1. PICK to : Moves(b, to)
  BY TransitionMoves DEF BookInv, CustomerCancel, MerchantMove
<1>2. UNCHANGED <<settings, request, closure, sweep, crashes>>
  BY DEF CustomerCancel, MerchantMove
<1>3. sweep' \in [Savers -> SweepRow] BY <1>2, TypeByRows DEF BookInv
<1> QED BY <1>1, <1>2, <1>3, MoveStep

(* A step of the rest days leaves the book and the placements alone.       *)
LEMMA RestDayStep ==
  ASSUME BookInv, UNCHANGED <<settings, slots, bookings, request>>,
         closure' \in ClosureRow, sweep' \in [Savers -> SweepRow],
         crashes' \in 0 .. MaxCrashes,
         ClosureOK', \A a \in Savers : SweepOK(a)', SweptDayIsClear'
  PROVE  BookInv'
<1>1. TypeOK' BY DEF BookInv, TypeOK, ClosureRow, SweepRow
<1>2. PlacingOnce' /\ NoRowNoSeats' BY DEF BookInv, PlacingOnce, NoRowNoSeats
<1> QED BY <1>1, <1>2 DEF BookInv

LEMMA SaveStep ==
  ASSUME BookInv, NEW a \in Savers, ClosureSave(a)
  PROVE  BookInv'
<1>1. /\ ~closure.swept
      /\ closure' = IF closure.exists THEN closure
                    ELSE [NoClosure EXCEPT !.exists = TRUE, !.known =
                            {b \in Bookings : bookings[b].status # "NONE"}]
      /\ sweep' = [sweep EXCEPT ![a].pc = "list"]
      /\ UNCHANGED <<settings, slots, bookings, request, crashes>>
  BY DEF ClosureSave, bookVars
<1>2. sweep \in [Savers -> SweepRow] /\ crashes \in 0 .. MaxCrashes
  BY DEF BookInv, TypeOK, SweepRow
<1>3. PICK row \in SweepRow : row = sweep[a] BY <1>2
<1>4. [row EXCEPT !.pc = "list"] \in SweepRow
      /\ [row EXCEPT !.pc = "list"].pc = "list"
  BY DEF SweepRow
<1>5. \A c \in Savers :
        sweep'[c] = IF c = a THEN [row EXCEPT !.pc = "list"] ELSE sweep[c]
  BY <1>1, <1>2, <1>3
<1>6. sweep' \in [Savers -> SweepRow] BY <1>1, <1>2, <1>3, <1>4, <1>5
<1>7. CASE closure.exists
  <2>1. closure' = closure BY <1>1, <1>7
  <2>2. \A c \in Savers : SweepOK(c)'
    BY <1>1, <1>4, <1>5, <2>1 DEF BookInv, SweepOK, Active
  <2>3. ClosureOK' /\ SweptDayIsClear' /\ closure' \in ClosureRow
    BY <1>1, <2>1, TypeByRows DEF BookInv, ClosureOK, SweptDayIsClear, Active
  <2> QED BY <1>1, <1>2, <1>6, <2>2, <2>3, RestDayStep
<1>8. CASE ~closure.exists
  <2> DEFINE known == {b \in Bookings : bookings[b].status # "NONE"}
  <2>1. closure' = [exists |-> TRUE, swept |-> FALSE, known |-> known,
                    told |-> FALSE, stale |-> FALSE]
    BY <1>1, <1>8 DEF NoClosure
  <2>2. closure' \in ClosureRow /\ ~closure'.swept /\ closure'.known = known
    BY <2>1 DEF ClosureRow
  <2>3. \A c \in Savers : SweepOK(c)'
    BY <1>4, <1>5, <1>8 DEF BookInv, SweepOK
  <2>4. ClosureOK' /\ SweptDayIsClear'
    BY <1>1, <2>2 DEF ClosureOK, SweptDayIsClear
  <2> QED BY <1>1, <1>2, <1>6, <2>2, <2>3, <2>4, RestDayStep
<1> QED BY <1>7, <1>8

LEMMA ListStep ==
  ASSUME BookInv, NEW a \in Savers, ClosureList(a)
  PROVE  BookInv'
<1> DEFINE active == {b \in Bookings : Active(b)}
<1>1. PICK todo \in SUBSET active :
        sweep' = [sweep EXCEPT ![a] =
          [pc |-> "cancel", todo |-> todo, more |-> todo # active,
           stale |-> ~closure.exists]]
  BY DEF ClosureList
<1>2. UNCHANGED <<settings, slots, bookings, request, closure, crashes>>
  BY DEF ClosureList, bookVars
<1>3. /\ sweep \in [Savers -> SweepRow] /\ crashes \in 0 .. MaxCrashes
      /\ closure \in ClosureRow
  BY TypeByRows DEF BookInv
<1>4. PICK more \in BOOLEAN, stale \in BOOLEAN :
        more = (todo # active) /\ stale = ~closure.exists
  BY <1>3 DEF ClosureRow
<1>5. PICK row \in SweepRow :
        row = [pc |-> "cancel", todo |-> todo, more |-> more, stale |-> stale]
  BY DEF SweepRow
<1>6. row.todo = todo /\ row.more = more /\ row.stale = stale BY <1>5
<1>7. /\ ~row.stale => closure.exists
      /\ ~row.more => row.todo = active
  BY <1>4, <1>6
<1>8. sweep' = [sweep EXCEPT ![a] = row] BY <1>1, <1>4, <1>5
<1>9. \A c \in Savers : sweep'[c] = IF c = a THEN row ELSE sweep[c]
  BY <1>3, <1>8
<1>10. sweep' \in [Savers -> SweepRow] BY <1>3, <1>8
<1>11. ASSUME NEW c \in Savers PROVE SweepOK(c)'
  <2>1. CASE c = a
    <3>1. closure.known \subseteq Bookings BY <1>3 DEF ClosureRow
    <3>2. \A b \in closure.known : Active(b) => b \in active BY <3>1
    <3> QED BY <1>2, <1>7, <1>9, <2>1, <3>2 DEF SweepOK, Active
  <2>2. CASE c # a BY <1>2, <1>9, <2>2 DEF BookInv, SweepOK, Active
  <2> QED BY <2>1, <2>2
<1>12. ClosureOK' /\ SweptDayIsClear'
  BY <1>2 DEF BookInv, ClosureOK, SweptDayIsClear, Active
<1> QED BY <1>2, <1>3, <1>10, <1>11, <1>12, RestDayStep

LEMMA CancelStep ==
  ASSUME BookInv, NEW a \in Savers, NEW b \in Bookings, cancelOne(a, b)
  PROVE  BookInv'
<1>1. /\ sweep' = [sweep EXCEPT ![a].todo = @ \ {b}]
      /\ UNCHANGED <<settings, request, closure, crashes>>
  BY DEF cancelOne
<1>2. \/ Moves(b, "CANCELLED")
      \/ ~Active(b) /\ UNCHANGED <<slots, bookings>>
  BY TransitionMoves DEF cancelOne, BookInv, bookVars
<1>3. sweep \in [Savers -> SweepRow] BY TypeByRows DEF BookInv
<1>4. PICK row \in SweepRow : row = sweep[a] BY <1>3
<1>5. /\ [row EXCEPT !.todo = row.todo \ {b}] \in SweepRow
      /\ [row EXCEPT !.todo = row.todo \ {b}].pc = row.pc
      /\ [row EXCEPT !.todo = row.todo \ {b}].stale = row.stale
      /\ [row EXCEPT !.todo = row.todo \ {b}].more = row.more
      /\ [row EXCEPT !.todo = row.todo \ {b}].todo = row.todo \ {b}
  BY DEF SweepRow
<1>6. \A c \in Savers :
        sweep'[c] = IF c = a THEN [row EXCEPT !.todo = row.todo \ {b}] ELSE sweep[c]
  BY <1>1, <1>3, <1>4
<1>7. sweep' \in [Savers -> SweepRow] BY <1>1, <1>3, <1>4, <1>5, <1>6
<1>8. ~Active(b)'
  <2>1. CASE Moves(b, "CANCELLED")
    <3>1. bookings'[b].status = "CANCELLED" BY <2>1, MovedBooking DEF BookInv
    <3> QED BY <3>1 DEF Active, ACTIVE
  <2>2. CASE ~Active(b) /\ UNCHANGED <<slots, bookings>> BY <2>2 DEF Active
  <2> QED BY <1>2, <2>1, <2>2
<1>9. \A c \in Savers :
        /\ sweep'[c].pc = sweep[c].pc
        /\ sweep'[c].stale = sweep[c].stale /\ sweep'[c].more = sweep[c].more
        /\ \A x \in sweep[c].todo : Active(x)' => x \in sweep'[c].todo
  BY <1>4, <1>5, <1>6, <1>8
<1>10. CASE Moves(b, "CANCELLED") BY <1>1, <1>7, <1>9, <1>10, MoveStep
<1>11. CASE ~Active(b) /\ UNCHANGED <<slots, bookings>>
  <2>1. TypeOK' BY <1>1, <1>7, <1>11 DEF BookInv, TypeOK, SweepRow
  <2>2. PlacingOnce' /\ NoRowNoSeats'
    BY <1>1, <1>11 DEF BookInv, PlacingOnce, NoRowNoSeats
  <2> QED BY <1>1, <1>9, <1>11, <2>1, <2>2, StepUnderClosure DEF Active
<1> QED BY <1>2, <1>10, <1>11

LEMMA StampStep ==
  ASSUME BookInv, NEW a \in Savers, ClosureStamp(a)
  PROVE  BookInv'
<1>1. /\ sweep[a].pc = "cancel" /\ sweep[a].todo = {}
      /\ closure' = [closure EXCEPT !.swept = closure.exists,
                                    !.told = closure.exists /\ sweep[a].more,
                                    !.stale = closure.exists /\ sweep[a].stale]
      /\ sweep' = [sweep EXCEPT ![a] = Idle]
      /\ UNCHANGED <<settings, slots, bookings, request, crashes>>
  BY DEF ClosureStamp, bookVars
<1>2. /\ sweep \in [Savers -> SweepRow] /\ crashes \in 0 .. MaxCrashes
      /\ closure \in ClosureRow
  BY TypeByRows DEF BookInv
<1>3. PICK row \in ClosureRow : row = closure BY <1>2
<1>4. sweep[a].more \in BOOLEAN /\ sweep[a].stale \in BOOLEAN
  BY <1>2 DEF SweepRow
<1>5. PICK told \in BOOLEAN, stale \in BOOLEAN :
        /\ told = (row.exists /\ sweep[a].more)
        /\ stale = (row.exists /\ sweep[a].stale)
  BY <1>4 DEF ClosureRow
<1>6. closure' = [[[row EXCEPT !.swept = row.exists] EXCEPT !.told = told]
                   EXCEPT !.stale = stale]
  BY <1>1, <1>3, <1>5 DEF ClosureRow
<1>7. PICK swept \in ClosureRow : swept = [row EXCEPT !.swept = row.exists]
  BY DEF ClosureRow
<1>8. /\ swept.exists = row.exists /\ swept.swept = row.exists
      /\ swept.known = row.known
  BY <1>7 DEF ClosureRow
<1>9. PICK answered \in ClosureRow : answered = [swept EXCEPT !.told = told]
  BY DEF ClosureRow
<1>10. /\ answered.exists = row.exists /\ answered.swept = row.exists
       /\ answered.known = row.known /\ answered.told = told
  BY <1>8, <1>9 DEF ClosureRow
<1>11. closure' = [answered EXCEPT !.stale = stale] BY <1>6, <1>7, <1>9
<1>12. /\ closure' \in ClosureRow
       /\ closure'.exists = closure.exists /\ closure'.swept = closure.exists
       /\ closure'.known = closure.known /\ closure'.told = told
       /\ closure'.stale = stale
  BY <1>3, <1>10, <1>11 DEF ClosureRow
<1>13. sweep' \in [Savers -> SweepRow] BY <1>1, <1>2, EmptyRows
<1>14. \A c \in Savers : sweep'[c] = IF c = a THEN Idle ELSE sweep[c]
  BY <1>1, <1>2
<1>15. ASSUME NEW c \in Savers PROVE SweepOK(c)'
  <2>1. CASE c = a BY <1>14, <2>1, EmptyRows DEF SweepOK
  <2>2. CASE c # a BY <1>1, <1>12, <1>14, <2>2 DEF BookInv, SweepOK, Active
  <2> QED BY <2>1, <2>2
<1>16. SweptDayIsClear'
  <2>1. ASSUME closure.exists, ~told, ~stale, NEW b \in closure.known
        PROVE  ~Active(b)
    <3>1. ~sweep[a].more /\ ~sweep[a].stale BY <1>3, <1>5, <2>1
    <3> QED BY <1>1, <2>1, <3>1 DEF BookInv, SweepOK
  <2> QED BY <1>1, <1>12, <2>1 DEF SweptDayIsClear, Active
<1>17. ClosureOK' BY <1>1, <1>12 DEF BookInv, ClosureOK
<1> QED BY <1>1, <1>2, <1>12, <1>13, <1>15, <1>16, <1>17, RestDayStep

LEMMA RemoveStep == ASSUME BookInv, ClosureRemove PROVE BookInv'
<1>1. /\ closure' = NoClosure
      /\ sweep' = [a \in Savers |->
           [sweep[a] EXCEPT !.stale = (sweep[a].pc = "cancel")]]
      /\ UNCHANGED <<settings, slots, bookings, request, crashes>>
  BY DEF ClosureRemove, bookVars
<1>2. sweep \in [Savers -> SweepRow] /\ crashes \in 0 .. MaxCrashes
  BY TypeByRows DEF BookInv
<1>3. ASSUME NEW a \in Savers
      PROVE  sweep'[a] \in SweepRow /\ SweepOK(a)'
  <2>1. PICK row \in SweepRow : row = sweep[a] BY <1>2
  <2>2. PICK stale \in BOOLEAN : stale = (row.pc = "cancel") OBVIOUS
  <2>3. sweep'[a] = [row EXCEPT !.stale = stale] BY <1>1, <2>1, <2>2
  <2>4. sweep'[a] \in SweepRow /\ sweep'[a].stale = stale /\ sweep'[a].pc = row.pc
    BY <2>3 DEF SweepRow
  <2> QED BY <2>2, <2>4 DEF SweepOK
<1>4. sweep' \in [Savers -> SweepRow] BY <1>1, <1>3
<1>5. ClosureOK' /\ SweptDayIsClear' /\ closure' \in ClosureRow
  BY <1>1, EmptyRows DEF ClosureOK, SweptDayIsClear
<1> QED BY <1>1, <1>2, <1>3, <1>4, <1>5, RestDayStep

LEMMA DiesStep ==
  ASSUME BookInv, NEW a \in Savers, ClosureDies(a)
  PROVE  BookInv'
<1>1. /\ sweep' = [sweep EXCEPT ![a] = Idle]
      /\ crashes < MaxCrashes /\ crashes' = crashes + 1
      /\ UNCHANGED <<settings, slots, bookings, request, closure>>
  BY DEF ClosureDies, bookVars
<1>2. /\ sweep \in [Savers -> SweepRow] /\ crashes \in 0 .. MaxCrashes
      /\ closure \in ClosureRow
  BY TypeByRows DEF BookInv
<1>3. crashes' \in 0 .. MaxCrashes BY <1>1, <1>2, SweepAssumption
<1>4. sweep' \in [Savers -> SweepRow] BY <1>1, <1>2, EmptyRows
<1>5. \A c \in Savers : sweep'[c] = IF c = a THEN Idle ELSE sweep[c]
  BY <1>1, <1>2
<1>6. ASSUME NEW c \in Savers PROVE SweepOK(c)'
  <2>1. CASE c = a BY <1>5, <2>1, EmptyRows DEF SweepOK
  <2>2. CASE c # a BY <1>1, <1>5, <2>2 DEF BookInv, SweepOK, Active
  <2> QED BY <2>1, <2>2
<1>7. ClosureOK' /\ SweptDayIsClear'
  BY <1>1 DEF BookInv, ClosureOK, SweptDayIsClear, Active
<1> QED BY <1>1, <1>2, <1>3, <1>4, <1>6, <1>7, RestDayStep

-----------------------------------------------------------------------------
(* The theorems about the book and the rest days.                          *)

(* Every step of a guest, the shop, a sweep or the settings keeps it.      *)
LEMMA NextBook == BookInv /\ [Next]_vars => BookInv'
<1> SUFFICES ASSUME BookInv, [Next]_vars PROVE BookInv' OBVIOUS
<1>1. ASSUME NEW b \in Bookings, Placing(b) PROVE BookInv'
  BY Zenon, <1>1, PlaceReadStep, PlaceCheckStep, PlaceCommitStep, PlaceAbortStep
  DEF Placing
<1>2. ASSUME NEW b \in Bookings,
             CustomerCancel(b) \/ \E to \in MerchantTargets : MerchantMove(b, to)
      PROVE  BookInv'
  BY <1>2, GuestOrShopStep
<1>3. ASSUME NEW policy \in Policies, updateSettings(policy) PROVE BookInv'
  BY <1>3, SettingsStep
<1>4. ASSUME NEW a \in Savers, ClosureSave(a) \/ Closing(a) \/ ClosureDies(a)
      PROVE  BookInv'
  BY Zenon, <1>4, SaveStep, ListStep, StampStep, CancelStep, DiesStep DEF Closing
<1>5. CASE UNCHANGED vars
  <2>1. UNCHANGED <<settings, slots, bookings, request, closure, sweep, crashes>>
    BY <1>5 DEF vars, bookVars
  <2>2. TypeOK' /\ PlacingOnce' /\ NoRowNoSeats'
    BY <2>1 DEF BookInv, TypeOK, PlacingOnce, NoRowNoSeats
  <2> QED BY <2>1, <2>2, StepUnderClosure DEF Active
<1> QED BY Zenon, <1>1, <1>2, <1>3, <1>4, <1>5, RemoveStep DEF Next

(* The invariant holds in every reachable state.                           *)
THEOREM BookInductive == Spec => []BookInv
BY InitBook, NextBook, PTL DEF Spec

(* Every row, placement and rest-day request has its type.                 *)
THEOREM BookTypeCorrect == Spec => []TypeOK
<1>1. BookInv => TypeOK BY DEF BookInv
<1> QED BY <1>1, BookInductive, PTL

(* However many requests save, sweep, die and reopen the day, the latch    *)
(* says the day is clear only when it is, or when it cannot know.          *)
THEOREM SweptDaysAreClear == Spec => []SweptDayIsClear
<1>1. BookInv => SweptDayIsClear BY DEF BookInv
<1> QED BY <1>1, BookInductive, PTL

-----------------------------------------------------------------------------
(* Capacity.                                                               *)

(* What a step does to the book: a placement commits, a booking moves, or  *)
(* neither the bookings nor the slots change.                              *)
BookStep ==
  \/ \E b \in Bookings : PlaceCommit(b) /\ UNCHANGED settings
  \/ \E b \in Bookings : \E to : Moves(b, to) /\ UNCHANGED settings
  \/ UNCHANGED <<slots, bookings>>

LEMMA BookSteps == BookInv /\ [Next]_vars => BookStep
<1> SUFFICES ASSUME BookInv, [Next]_vars PROVE BookStep OBVIOUS
<1>1. ASSUME NEW b \in Bookings, Placing(b) PROVE BookStep
  <2>1. CASE PlaceCommit(b) BY <2>1 DEF PlaceCommit, BookStep
  <2>2. CASE PlaceRead(b) \/ PlaceClosureCheck(b) \/ PlaceAbort(b)
    BY <2>2 DEF PlaceRead, PlaceClosureCheck, PlaceAbort, bookVars, BookStep
  <2> QED BY <1>1, <2>1, <2>2 DEF Placing
<1>2. ASSUME NEW b \in Bookings,
             CustomerCancel(b) \/ \E to \in MerchantTargets : MerchantMove(b, to)
      PROVE  BookStep
  <2>1. PICK to : Moves(b, to)
    BY <1>2, TransitionMoves DEF BookInv, CustomerCancel, MerchantMove
  <2>2. UNCHANGED settings BY <1>2 DEF CustomerCancel, MerchantMove
  <2> QED BY <2>1, <2>2 DEF BookStep
<1>3. ASSUME NEW policy \in Policies, updateSettings(policy) PROVE BookStep
  BY <1>3 DEF updateSettings, bookVars, BookStep
<1>4. ASSUME NEW a \in Savers, NEW b \in Bookings, cancelOne(a, b) PROVE BookStep
  <2>1. UNCHANGED settings BY <1>4 DEF cancelOne
  <2>2. Moves(b, "CANCELLED") \/ UNCHANGED <<slots, bookings>>
    BY <1>4, TransitionMoves DEF cancelOne, BookInv, bookVars
  <2> QED BY <2>1, <2>2 DEF BookStep
<1>5. ASSUME NEW a \in Savers,
             \/ ClosureSave(a)
             \/ ClosureList(a)
             \/ ClosureStamp(a)
             \/ ClosureDies(a)
      PROVE  BookStep
  BY <1>5 DEF ClosureSave, ClosureList, ClosureStamp, ClosureDies, bookVars, BookStep
<1>6. CASE ClosureRemove BY <1>6 DEF ClosureRemove, bookVars, BookStep
<1>7. CASE UNCHANGED vars BY <1>7 DEF vars, bookVars, BookStep
<1>8. ASSUME NEW a \in Savers, ClosureSave(a) \/ Closing(a) \/ ClosureDies(a)
      PROVE  BookStep
  BY Zenon, <1>4, <1>5, <1>8 DEF Closing
<1> QED BY Zenon, <1>1, <1>2, <1>3, <1>6, <1>7, <1>8 DEF Next

(* A booking that moves takes no seats.                                    *)
LEMMA MoveTakesNoSeats ==
  ASSUME BookInv, NEW b \in Bookings, NEW to, Moves(b, to), NEW t \in Slots
  PROVE  slots'[t].booked <= slots[t].booked
<1>1. TypeOK /\ NoRowNoSeats BY DEF BookInv
<1>2. slots' = slots \/ slots' = Released(b) BY DEF Moves
<1>3. slots[t].booked <= slots[t].booked BY <1>1, TypeByRows DEF SlotRow
<1> QED BY <1>1, <1>2, <1>3, ReleasedSlots

(* A placement that finds guests in a slot stays inside the capacity it    *)
(* read.                                                                   *)
LEMMA PlaceKeepsCapacity ==
  ASSUME BookInv, NEW b \in Bookings, PlaceCommit(b), NEW t \in Slots,
         slots[t].booked > 0, slots'[t].booked > slots[t].booked
  PROVE  slots'[t].booked <= request[b].policy.seatsPerSlot
<1>1. slots[t].exists BY DEF BookInv, NoRowNoSeats
<1>2. slots[t] \in SlotRow BY TypeByRows DEF BookInv
<1>3. t \in SlotsOf(b) BY <1>2, CommitShape DEF SlotRow
<1> QED BY <1>1, <1>3, CommitShape DEF Fits

(* Two parties never share a slot beyond the capacity the later one read,  *)
(* for every set of slots, parties and policies, the capacity lowered or   *)
(* the turn changed while both were being placed.                          *)
THEOREM NothingIsOverbooked == Spec => NoOverbooking
<1>1. ASSUME BookInv, [Next]_vars, NEW b \in Bookings,
             bookings'[b].status # bookings[b].status, NEW t \in Slots,
             slots[t].booked > 0, slots'[t].booked > slots[t].booked
      PROVE  slots'[t].booked <= request[b].policy.seatsPerSlot
  <2>1. slots[t] \in SlotRow /\ slots'[t] \in SlotRow
    BY <1>1, NextBook, TypeByRows DEF BookInv, TypeOK, SlotRow
  <2>2. ASSUME NEW c \in Bookings, NEW to, Moves(c, to) PROVE FALSE
    BY <1>1, <2>1, <2>2, MoveTakesNoSeats DEF SlotRow
  <2>3. ASSUME UNCHANGED <<slots, bookings>> PROVE FALSE BY <1>1, <2>3
  <2>4. PICK c \in Bookings : PlaceCommit(c) BY <1>1, <2>2, <2>3, BookSteps DEF BookStep
  <2>5. b = c BY <1>1, <2>4, CommitShape
  <2> QED BY <1>1, <2>4, <2>5, PlaceKeepsCapacity
<1>2. BookInv /\ [Next]_vars =>
        [\A b \in Bookings : bookings'[b].status # bookings[b].status =>
           \A t \in Slots :
             slots[t].booked > 0 /\ slots'[t].booked > slots[t].booked =>
               slots'[t].booked <= request[b].policy.seatsPerSlot]_vars
  BY <1>1
<1> QED BY <1>2, BookInductive, PTL DEF Spec, NoOverbooking

-----------------------------------------------------------------------------
(* Counting seats.                                                         *)

(* The seats of the bookings of S, with the table as a parameter.          *)
SeatsIn(table, S) ==
  {seat \in S \X (1 .. MaxParty) : seat[2] <= table[seat[1]].party}

Occupying(t) == {b \in Bookings : Active(b) /\ t \in HeldSlots(b)}

(* The seats of a slot are those of the bookings that occupy it.           *)
LEMMA SeatsByBooking ==
  ASSUME NEW t \in Slots
  PROVE  SeatsAt(t) = SeatsIn(bookings, Occupying(t))
BY DEF SeatsAt, SeatsIn, Occupying

(* The same after a step.                                                  *)
LEMMA SeatsByBookingNext ==
  ASSUME NEW t \in Slots
  PROVE  SeatsAt(t)' = SeatsIn(bookings', Occupying(t)')
BY DEF SeatsAt, SeatsIn, Occupying

(* Finitely many bookings have finitely many seats.                        *)
LEMMA SeatsAreFinite ==
  ASSUME NEW table, NEW S \in SUBSET Bookings
  PROVE  /\ IsFiniteSet(SeatsIn(table, S))
         /\ Cardinality(SeatsIn(table, S)) \in Nat
<1>1. IsFiniteSet(S) BY FS_Subset, BookingAssumption
<1>2. IsFiniteSet(1 .. MaxParty)
  <2>1. 1 \in Int /\ MaxParty \in Int BY BookingAssumption
  <2> QED BY <2>1, FS_Interval
<1>3. IsFiniteSet(S \X (1 .. MaxParty)) BY <1>1, <1>2, FS_Product
<1>4. SeatsIn(table, S) \in SUBSET (S \X (1 .. MaxParty)) BY DEF SeatsIn
<1> QED BY <1>3, <1>4, FS_Subset, FS_CardinalityType

(* A booking has as many seats as its party.                               *)
LEMMA SeatsOfOne ==
  ASSUME NEW table, NEW b \in Bookings, table[b].party \in 0 .. MaxParty
  PROVE  Cardinality(SeatsIn(table, {b})) = table[b].party
<1>1. PICK party \in 0 .. MaxParty : party = table[b].party OBVIOUS
<1>2. SeatsIn(table, {b}) = {b} \X (1 .. party)
  BY <1>1, BookingAssumption DEF SeatsIn
<1>3. party \in Int /\ 1 \in Int /\ party >= 0 BY BookingAssumption
<1>4. IsFiniteSet(1 .. party) /\ Cardinality(1 .. party) = party
  BY <1>3, FS_Interval
<1>5. IsFiniteSet({b}) /\ Cardinality({b}) = 1 BY FS_Singleton
<1>6. Cardinality({b} \X (1 .. party)) = 1 * party BY <1>4, <1>5, FS_Product
<1>7. 1 * party = party OBVIOUS
<1> QED BY <1>1, <1>2, <1>6, <1>7

(* A booking more brings its seats.                                        *)
LEMMA SeatsAdd ==
  ASSUME NEW table, NEW S \in SUBSET Bookings, NEW b \in Bookings \ S,
         table[b].party \in 0 .. MaxParty
  PROVE  Cardinality(SeatsIn(table, S \cup {b}))
           = Cardinality(SeatsIn(table, S)) + table[b].party
<1> DEFINE rest == SeatsIn(table, S)
           own == SeatsIn(table, {b})
<1>1. /\ IsFiniteSet(rest) /\ Cardinality(rest) \in Nat
      /\ IsFiniteSet(own) /\ Cardinality(own) \in Nat
  BY SeatsAreFinite
<1>2. SeatsIn(table, S \cup {b}) = rest \cup own BY DEF SeatsIn
<1>3. rest \cap own = {} BY DEF SeatsIn
<1>4. Cardinality(own) = table[b].party BY SeatsOfOne
<1> HIDE DEF rest, own
<1>5. Cardinality(rest \cap own) = 0 BY <1>3, FS_EmptySet
<1>6. Cardinality(rest \cup own)
        = Cardinality(rest) + Cardinality(own) - Cardinality(rest \cap own)
  BY <1>1, FS_Union
<1>7. Cardinality(rest \cup own) = Cardinality(rest) + Cardinality(own)
  BY <1>1, <1>5, <1>6
<1> QED BY <1>2, <1>4, <1>7 DEF rest

(* The seats depend only on the parties.                                   *)
LEMMA SeatsFrame ==
  ASSUME NEW table, NEW next, NEW S,
         \A b \in S : next[b].party = table[b].party
  PROVE  SeatsIn(next, S) = SeatsIn(table, S)
BY DEF SeatsIn

-----------------------------------------------------------------------------
(* The seat counters.                                                      *)

(* Seats are given back by the step that ends a booking, and no other.     *)
FreedAtTheEnd ==
  \A b \in Bookings : bookings[b].status = "NONE" \/ Active(b) => ~Freed(b)

SeatsInv ==
  /\ BookInv
  /\ FreedAtTheEnd
  /\ SeatsMatchActiveBookings

(* A booking that occupies a slot has its party among the seats of it.     *)
LEMMA SeatsOfOccupant ==
  ASSUME BookInv, NEW t \in Slots, NEW b \in Occupying(t)
  PROVE  /\ b \in Bookings /\ bookings[b].party \in Nat
         /\ Cardinality(SeatsIn(bookings, Occupying(t) \ {b})) \in Nat
         /\ Cardinality(SeatsIn(bookings, Occupying(t)))
              = Cardinality(SeatsIn(bookings, Occupying(t) \ {b}))
                + bookings[b].party
<1>1. b \in Bookings BY DEF Occupying
<1>2. bookings[b].party \in 0 .. MaxParty
  BY <1>1, TypeByRows DEF BookInv, BookingRow
<1>3. /\ Occupying(t) \ {b} \in SUBSET Bookings
      /\ b \in Bookings \ (Occupying(t) \ {b})
      /\ Occupying(t) = (Occupying(t) \ {b}) \cup {b}
  BY DEF Occupying
<1>4. Cardinality(SeatsIn(bookings, Occupying(t) \ {b})) \in Nat
  BY <1>3, SeatsAreFinite
<1>5. Cardinality(SeatsIn(bookings, (Occupying(t) \ {b}) \cup {b}))
        = Cardinality(SeatsIn(bookings, Occupying(t) \ {b})) + bookings[b].party
  BY <1>2, <1>3, SeatsAdd
<1>6. bookings[b].party \in Nat BY <1>2, BookingAssumption
<1> QED BY <1>1, <1>3, <1>4, <1>5, <1>6

(* A booking that ends gives its seats back in the slots its grid now has, *)
(* as far as any are counted there, and nowhere else.                      *)
LEMMA EndedSlots ==
  ASSUME BookInv, NEW b \in Bookings, NEW to, Moves(b, to), to \notin ACTIVE,
         NEW t \in Slots
  PROVE  slots'[t].booked = IF t \in releasedSlots(b)
                            THEN IF slots[t].booked < bookings[b].party THEN 0
                                 ELSE slots[t].booked - bookings[b].party
                            ELSE slots[t].booked
<1>1. slots' = Released(b) BY DEF Moves
<1>2. PICK row \in SlotRow : row = slots[t] BY TypeByRows DEF BookInv
<1>3. PICK party \in Nat : party = bookings[b].party
  BY TypeByRows, BookingAssumption DEF BookInv, BookingRow
<1>4. row.booked \in Nat BY DEF SlotRow
<1>5. PICK left \in Nat :
        left = IF row.booked < party THEN 0 ELSE row.booked - party
  BY <1>4
<1>6. CASE t \notin releasedSlots(b) BY <1>1, <1>6 DEF Released
<1>7. CASE t \in releasedSlots(b) /\ row.exists
  <2>1. Released(b)[t] = releaseSlots(row, party)
    BY <1>2, <1>3, <1>7 DEF Released
  <2>2. releaseSlots(row, party) = [row EXCEPT !.booked = left]
    BY <1>5 DEF releaseSlots, SlotRow
  <2>3. releaseSlots(row, party).booked = left BY <2>2 DEF SlotRow
  <2> QED BY <1>1, <1>2, <1>3, <1>5, <1>7, <2>1, <2>3
<1>8. CASE t \in releasedSlots(b) /\ ~row.exists
  <2>1. Released(b)[t] = row BY <1>2, <1>8 DEF Released
  <2>2. ~(row.booked > 0) BY <1>2, <1>8 DEF BookInv, NoRowNoSeats
  <2>3. row.booked = left BY <1>4, <1>5, <2>2
  <2> QED BY <1>1, <1>2, <1>3, <1>5, <1>8, <2>1, <2>3
<1> QED BY <1>6, <1>7, <1>8

(* What a move does to the slots a booking holds, has freed, or occupies.  *)
LEMMA MovedSlots ==
  ASSUME SeatsInv, NEW b \in Bookings, NEW to, Moves(b, to)
  PROVE  /\ Active(b) /\ ~Freed(b)
         /\ \A c \in Bookings : HeldSlots(c)' = HeldSlots(c)
         /\ \A c \in Bookings \ {b} :
              /\ FreedSlots(c)' = FreedSlots(c) /\ (Freed(c)' <=> Freed(c))
              /\ Active(c)' <=> Active(c)
         /\ to \in ACTIVE => ~Freed(b)' /\ Active(b)'
         /\ to \notin ACTIVE =>
              /\ Freed(b)' /\ ~Active(b)' /\ FreedSlots(b)' = releasedSlots(b)
              /\ bookings'[b].freed = settings.slotMinutes
<1>1. BookInv /\ TypeOK BY DEF SeatsInv, BookInv
<1>2. /\ bookings'[b].status = to /\ bookings'[b].freed = FreedBy(b, to)
      /\ \A c \in Bookings \ {b} : bookings'[c] = bookings[c]
      /\ \A c \in Bookings : /\ bookings'[c].party = bookings[c].party
                             /\ bookings'[c].start = bookings[c].start
                             /\ bookings'[c].turn = bookings[c].turn
                             /\ bookings'[c].grid = bookings[c].grid
  BY <1>1, MovedBooking
<1>3. Active(b) /\ ~Freed(b) BY DEF Moves, SeatsInv, FreedAtTheEnd
<1>4. \A c \in Bookings : HeldSlots(c)' = HeldSlots(c)
  BY <1>2 DEF HeldSlots
<1>5. \A c \in Bookings \ {b} :
        /\ FreedSlots(c)' = FreedSlots(c) /\ (Freed(c)' <=> Freed(c))
        /\ Active(c)' <=> Active(c)
  BY <1>2 DEF FreedSlots, Freed, Active
<1>6. to \in ACTIVE => ~Freed(b)' /\ Active(b)'
  BY <1>2, <1>3 DEF FreedBy, Freed, Active
<1>7. settings.slotMinutes # NotFreed
  BY <1>1, TypeByRows, PolicyRow DEF NotFreed
<1>8. to \notin ACTIVE =>
        /\ Freed(b)' /\ ~Active(b)' /\ FreedSlots(b)' = releasedSlots(b)
        /\ bookings'[b].freed = settings.slotMinutes
  BY <1>2, <1>7 DEF FreedBy, Freed, Active, FreedSlots, releasedSlots
<1> QED BY <1>3, <1>4, <1>5, <1>6, <1>8

(* The two halves of SeatsMatchActiveBookings, of one slot.                *)
NeverTooFew(t) ==
  \/ slots[t].booked >= Cardinality(SeatsAt(t))
  \/ \E b \in Bookings : TakenFromOthers(b, t)

NeverTooMany(t) ==
  \/ slots[t].booked <= Cardinality(SeatsAt(t))
  \/ \E b \in Bookings : LeftBehind(b, t)

LEMMA SeatsBySlot ==
  SeatsMatchActiveBookings <=>
    \A t \in Slots : NeverTooFew(t) /\ NeverTooMany(t)
BY DEF SeatsMatchActiveBookings, NeverTooFew, NeverTooMany

(* A move keeps the counters as exact as they were, and where it does not  *)
(* the booking has left seats behind, or taken them from others.           *)
LEMMA MoveCounts ==
  ASSUME SeatsInv, NEW b \in Bookings, NEW to, Moves(b, to), NEW t \in Slots
  PROVE  NeverTooFew(t)' /\ NeverTooMany(t)'
<1>1. BookInv /\ TypeOK /\ NeverTooFew(t) /\ NeverTooMany(t)
  BY SeatsBySlot DEF SeatsInv, BookInv
<1>2. /\ Active(b) /\ ~Freed(b)
      /\ \A c \in Bookings : HeldSlots(c)' = HeldSlots(c)
      /\ \A c \in Bookings \ {b} :
           /\ FreedSlots(c)' = FreedSlots(c) /\ (Freed(c)' <=> Freed(c))
           /\ Active(c)' <=> Active(c)
  BY MovedSlots
<1>3. (\E c \in Bookings : TakenFromOthers(c, t)) =>
        \E c \in Bookings : TakenFromOthers(c, t)'
  BY <1>2 DEF TakenFromOthers
<1>4. (\E c \in Bookings : LeftBehind(c, t)) =>
        \E c \in Bookings : LeftBehind(c, t)'
  BY <1>2 DEF LeftBehind
<1>5. SeatsIn(bookings', Occupying(t)') = SeatsIn(bookings, Occupying(t)')
  <2>1. Occupying(t)' \subseteq Bookings BY DEF Occupying
  <2>2. \A c \in Bookings : bookings'[c].party = bookings[c].party
    BY <1>1, MovedBooking
  <2> QED BY <2>1, <2>2, SeatsFrame
<1>6. SeatsAt(t) = SeatsIn(bookings, Occupying(t)) BY SeatsByBooking
<1>7. SeatsAt(t)' = SeatsIn(bookings, Occupying(t)')
  BY <1>5, SeatsByBookingNext
<1>8. PICK booked \in Nat : booked = slots[t].booked
  BY <1>1, TypeByRows DEF SlotRow
<1>9. CASE to \in ACTIVE
  <2>1. Occupying(t)' = Occupying(t)
    BY <1>2, <1>9, MovedSlots DEF Occupying
  <2>2. slots' = slots BY <1>9 DEF Moves
  <2> QED BY <1>1, <1>3, <1>4, <1>6, <1>7, <2>1, <2>2
          DEF NeverTooFew, NeverTooMany
<1>10. CASE to \notin ACTIVE
  <2>1. Occupying(t)' = Occupying(t) \ {b}
    BY <1>2, <1>10, MovedSlots DEF Occupying
  <2>2. Freed(b)' /\ FreedSlots(b)' = releasedSlots(b)
    BY <1>10, MovedSlots
  <2>3. PICK party \in Nat : party = bookings[b].party
    BY <1>1, TypeByRows, BookingAssumption DEF BookingRow
  <2>4. slots'[t].booked = IF t \in releasedSlots(b)
                           THEN IF booked < party THEN 0 ELSE booked - party
                           ELSE booked
    BY <1>1, <1>8, <1>10, <2>3, EndedSlots
  <2>5. PICK rest \in Nat : rest = Cardinality(SeatsAt(t)')
    BY <1>7, SeatsAreFinite DEF Occupying
  <2>6. /\ b \in Occupying(t) => Cardinality(SeatsAt(t)) = rest + party
        /\ b \notin Occupying(t) => Cardinality(SeatsAt(t)) = rest
    <3>1. CASE b \in Occupying(t)
      BY <1>1, <1>6, <1>7, <2>1, <2>3, <2>5, <3>1, SeatsOfOccupant
    <3>2. CASE b \notin Occupying(t)
      BY <1>6, <1>7, <2>1, <2>5, <3>2
    <3> QED BY <3>1, <3>2
  <2>7. b \in Occupying(t) <=> t \in HeldSlots(b) BY <1>2 DEF Occupying
  <2>8. t \in HeldSlots(b) /\ t \notin releasedSlots(b) => LeftBehind(b, t)'
    BY <1>2, <2>2 DEF LeftBehind
  <2>9. t \notin HeldSlots(b) /\ t \in releasedSlots(b) => TakenFromOthers(b, t)'
    BY <1>2, <2>2 DEF TakenFromOthers
  <2>10. ASSUME booked >= Cardinality(SeatsAt(t)) PROVE NeverTooFew(t)'
    <3>1. CASE t \in HeldSlots(b)
      <4>1. booked >= rest + party BY <2>6, <2>7, <2>10, <3>1
      <4>2. slots'[t].booked >= rest BY <2>4, <4>1
      <4> QED BY <2>5, <4>2 DEF NeverTooFew
    <3>2. CASE t \notin HeldSlots(b) /\ t \in releasedSlots(b)
      BY <2>9, <3>2 DEF NeverTooFew
    <3>3. CASE t \notin HeldSlots(b) /\ t \notin releasedSlots(b)
      <4>1. slots'[t].booked >= rest BY <2>4, <2>6, <2>7, <2>10, <3>3
      <4> QED BY <2>5, <4>1 DEF NeverTooFew
    <3> QED BY <3>1, <3>2, <3>3
  <2>11. ASSUME booked <= Cardinality(SeatsAt(t)) PROVE NeverTooMany(t)'
    <3>1. CASE t \notin HeldSlots(b)
      <4>1. booked <= rest BY <2>6, <2>7, <2>11, <3>1
      <4>2. slots'[t].booked <= rest BY <2>4, <4>1
      <4> QED BY <2>5, <4>2 DEF NeverTooMany
    <3>2. CASE t \in HeldSlots(b) /\ t \notin releasedSlots(b)
      BY <2>8, <3>2 DEF NeverTooMany
    <3>3. CASE t \in HeldSlots(b) /\ t \in releasedSlots(b)
      <4>1. booked <= rest + party BY <2>6, <2>7, <2>11, <3>3
      <4>2. slots'[t].booked <= rest BY <2>4, <3>3, <4>1
      <4> QED BY <2>5, <4>2 DEF NeverTooMany
    <3> QED BY <3>1, <3>2, <3>3
  <2>12. NeverTooFew(t)' BY <1>1, <1>3, <1>8, <2>10 DEF NeverTooFew
  <2>13. NeverTooMany(t)' BY <1>1, <1>4, <1>8, <2>11 DEF NeverTooMany
  <2> QED BY <2>12, <2>13
<1> QED BY <1>9, <1>10

(* What a placement holds is what the booking it makes will hold.          *)
LEMMA PlacedBooking ==
  ASSUME BookInv, NEW b \in Bookings, PlaceCommit(b)
  PROVE  /\ ~Active(b) /\ Active(b)'
         /\ HeldSlots(b)' = SlotsOf(b)
         /\ bookings'[b].party = request[b].party
         /\ bookings'[b].grid = request[b].policy.slotMinutes
         /\ request[b].party \in 0 .. MaxParty
         /\ request[b].policy \in Policies
<1>1. bookings[b].status = "NONE" /\ bookings'[b] = Placed(b)
      /\ Placed(b).status \in ACTIVE
  BY CommitShape
<1>2. PICK row \in RequestRow : row = request[b] BY TypeByRows DEF BookInv
<1>3. row.party \in 0 .. MaxParty /\ row.policy \in Policies
  BY DEF RequestRow
<1>4. ~Active(b) /\ Active(b)' BY <1>1 DEF Active, ACTIVE
<1>5. /\ bookings'[b].party = request[b].party
      /\ bookings'[b].start = request[b].start
      /\ bookings'[b].turn = request[b].policy.turnMinutes
      /\ bookings'[b].grid = request[b].policy.slotMinutes
  BY <1>1 DEF Placed
<1>6. HeldSlots(b)' = SlotsOf(b) BY <1>5 DEF HeldSlots, SlotsOf
<1> QED BY <1>2, <1>3, <1>4, <1>5, <1>6

(* A placement leaves what other bookings hold, and have freed, alone.     *)
LEMMA PlacedSlots ==
  ASSUME SeatsInv, NEW b \in Bookings, PlaceCommit(b)
  PROVE  /\ ~Active(b) /\ Active(b)' /\ ~Freed(b) /\ ~Freed(b)'
         /\ \A c \in Bookings \ {b} :
              /\ HeldSlots(c)' = HeldSlots(c) /\ FreedSlots(c)' = FreedSlots(c)
              /\ Freed(c)' <=> Freed(c)
              /\ Active(c)' <=> Active(c)
<1>1. BookInv BY DEF SeatsInv
<1>2. /\ bookings[b].status = "NONE" /\ bookings'[b] = Placed(b)
      /\ \A c \in Bookings \ {b} : bookings'[c] = bookings[c]
  BY <1>1, CommitShape
<1>3. ~Freed(b) BY <1>2 DEF SeatsInv, FreedAtTheEnd
<1>4. ~Freed(b)' BY <1>2 DEF Freed, Placed
<1>5. \A c \in Bookings \ {b} :
        /\ HeldSlots(c)' = HeldSlots(c) /\ FreedSlots(c)' = FreedSlots(c)
        /\ Freed(c)' <=> Freed(c)
        /\ Active(c)' <=> Active(c)
  BY <1>2 DEF HeldSlots, FreedSlots, Freed, Active
<1> QED BY <1>1, <1>3, <1>4, <1>5, PlacedBooking

(* So does a placement, whose party joins those in its slots.              *)
LEMMA PlaceCounts ==
  ASSUME SeatsInv, NEW b \in Bookings, PlaceCommit(b), NEW t \in Slots
  PROVE  NeverTooFew(t)' /\ NeverTooMany(t)'
<1>1. BookInv /\ NeverTooFew(t) /\ NeverTooMany(t)
  BY SeatsBySlot DEF SeatsInv
<1>2. \A c \in Bookings \ {b} : bookings'[c] = bookings[c]
  BY <1>1, CommitShape
<1>3. /\ ~Active(b) /\ Active(b)' /\ ~Freed(b)
      /\ \A c \in Bookings \ {b} :
           /\ HeldSlots(c)' = HeldSlots(c) /\ FreedSlots(c)' = FreedSlots(c)
           /\ Freed(c)' <=> Freed(c)
           /\ Active(c)' <=> Active(c)
  BY PlacedSlots
<1>4. (\E c \in Bookings : TakenFromOthers(c, t)) =>
        \E c \in Bookings : TakenFromOthers(c, t)'
  BY <1>3 DEF TakenFromOthers
<1>5. (\E c \in Bookings : LeftBehind(c, t)) =>
        \E c \in Bookings : LeftBehind(c, t)'
  BY <1>3 DEF LeftBehind
<1>6. b \notin Occupying(t) /\ Occupying(t) \in SUBSET Bookings
  BY <1>3 DEF Occupying
<1>7. SeatsIn(bookings', Occupying(t)) = SeatsIn(bookings, Occupying(t))
  BY <1>2, <1>6, SeatsFrame
<1>8. SeatsAt(t) = SeatsIn(bookings, Occupying(t)) BY SeatsByBooking
<1>9. PICK booked \in Nat : booked = slots[t].booked
  BY <1>1, TypeByRows DEF BookInv, SlotRow
<1>10. PICK seats \in Nat : seats = Cardinality(SeatsAt(t))
  BY <1>6, <1>8, SeatsAreFinite
<1>11. PICK party \in Nat : party = request[b].party
  BY <1>1, PlacedBooking, BookingAssumption
<1>12. PICK joining \in Nat :
         /\ slots'[t].booked = booked + joining
         /\ Cardinality(SeatsAt(t)') = seats + joining
  <2>1. CASE t \in SlotsOf(b)
    <3>1. Occupying(t)' = Occupying(t) \cup {b}
      BY <1>1, <1>3, <2>1, PlacedBooking DEF Occupying
    <3>2. bookings'[b].party = party /\ bookings'[b].party \in 0 .. MaxParty
      BY <1>1, <1>11, PlacedBooking
    <3>3. slots'[t].booked = booked + party
      BY <1>1, <1>9, <1>11, <2>1, CommitShape
    <3>4. Cardinality(SeatsIn(bookings', Occupying(t) \cup {b}))
            = Cardinality(SeatsIn(bookings', Occupying(t))) + bookings'[b].party
      BY <1>6, <3>2, SeatsAdd
    <3>5. Cardinality(SeatsAt(t)') = seats + party
      BY <1>7, <1>8, <1>10, <3>1, <3>2, <3>4, SeatsByBookingNext
    <3> QED BY <3>3, <3>5
  <2>2. CASE t \notin SlotsOf(b)
    <3>1. Occupying(t)' = Occupying(t)
      BY <1>1, <1>3, <1>6, <2>2, PlacedBooking DEF Occupying
    <3>2. slots'[t] = slots[t] BY <1>1, <2>2, CommitShape
    <3>3. slots'[t].booked = booked + 0 BY <1>9, <3>2
    <3>4. Cardinality(SeatsAt(t)') = seats + 0
      BY <1>7, <1>8, <1>10, <3>1, SeatsByBookingNext
    <3> QED BY <3>3, <3>4
  <2> QED BY <2>1, <2>2
<1>13. NeverTooFew(t)'
  <2>1. booked >= seats => slots'[t].booked >= Cardinality(SeatsAt(t)')
    BY <1>12
  <2> QED BY <1>1, <1>4, <1>9, <1>10, <2>1 DEF NeverTooFew
<1>14. NeverTooMany(t)'
  <2>1. booked <= seats => slots'[t].booked <= Cardinality(SeatsAt(t)')
    BY <1>12
  <2> QED BY <1>1, <1>5, <1>9, <1>10, <2>1 DEF NeverTooMany
<1> QED BY <1>13, <1>14

(* A step that leaves bookings and slots alone.                            *)
LEMMA FrameCounts ==
  ASSUME SeatsInv, UNCHANGED <<slots, bookings>>, NEW t \in Slots
  PROVE  NeverTooFew(t)' /\ NeverTooMany(t)'
<1>1. SeatsAt(t)' = SeatsAt(t) BY DEF SeatsAt, HeldSlots, Active
<1>2. \A b \in Bookings : /\ TakenFromOthers(b, t)' <=> TakenFromOthers(b, t)
                          /\ LeftBehind(b, t)' <=> LeftBehind(b, t)
  BY DEF TakenFromOthers, LeftBehind, Freed, HeldSlots, FreedSlots
<1>3. NeverTooFew(t) /\ NeverTooMany(t) BY SeatsBySlot DEF SeatsInv
<1> QED BY <1>1, <1>2, <1>3 DEF NeverTooFew, NeverTooMany

(* Seats are given back by the step that ends a booking, and no other.     *)
LEMMA NextFreed == SeatsInv /\ [Next]_vars => FreedAtTheEnd'
<1> SUFFICES ASSUME SeatsInv, [Next]_vars PROVE FreedAtTheEnd' OBVIOUS
<1>1. ASSUME NEW b \in Bookings, PlaceCommit(b) PROVE FreedAtTheEnd'
  <2>1. \A c \in Bookings \ {b} : bookings'[c] = bookings[c]
    BY <1>1, CommitShape DEF SeatsInv
  <2> QED BY <1>1, <2>1, PlacedSlots DEF SeatsInv, FreedAtTheEnd
<1>2. ASSUME NEW b \in Bookings, NEW to, Moves(b, to) PROVE FreedAtTheEnd'
  <2>1. /\ \A c \in Bookings \ {b} : bookings'[c] = bookings[c]
        /\ bookings'[b].status # "NONE"
    BY <1>2, MovedBooking DEF SeatsInv, BookInv
  <2> QED BY <1>2, <2>1, MovedSlots DEF SeatsInv, FreedAtTheEnd
<1>3. CASE UNCHANGED <<slots, bookings>>
  BY <1>3 DEF SeatsInv, FreedAtTheEnd, Freed, Active
<1> QED BY <1>1, <1>2, <1>3, BookSteps DEF BookStep, SeatsInv

LEMMA InitSeats == Init => SeatsInv
<1> SUFFICES ASSUME Init PROVE SeatsInv OBVIOUS
<1>1. \A b \in Bookings : bookings[b].status = "NONE" /\ ~Freed(b)
  BY EmptyRows DEF Init, Freed
<1>2. \A t \in Slots : slots[t].booked = 0 BY DEF Init
<1>3. \A t \in Slots : SeatsAt(t) = {} BY <1>1 DEF SeatsAt, Active, ACTIVE
<1>4. SeatsMatchActiveBookings
  BY <1>2, <1>3, FS_EmptySet DEF SeatsMatchActiveBookings
<1>5. FreedAtTheEnd BY <1>1 DEF FreedAtTheEnd
<1> QED BY <1>4, <1>5, InitBook DEF SeatsInv

LEMMA NextSeats == SeatsInv /\ [Next]_vars => SeatsInv'
<1> SUFFICES ASSUME SeatsInv, [Next]_vars PROVE SeatsInv' OBVIOUS
<1>1. BookInv' /\ FreedAtTheEnd' BY NextBook, NextFreed DEF SeatsInv
<1>2. ASSUME NEW t \in Slots PROVE NeverTooFew(t)' /\ NeverTooMany(t)'
  BY <1>2, BookSteps, MoveCounts, PlaceCounts, FrameCounts DEF BookStep, SeatsInv
<1>3. SeatsMatchActiveBookings'
  BY <1>2 DEF SeatsMatchActiveBookings, NeverTooFew, NeverTooMany, Slots
<1> QED BY <1>1, <1>3 DEF SeatsInv

(* The counters, with the rest of the book, hold in every reachable state, *)
(* whatever slot lengths the shop saves.                                   *)
THEOREM SeatsInductive == Spec => []SeatsInv
BY InitSeats, NextSeats, PTL DEF Spec

(* No slot counts fewer seats than its guests occupy, unless a booking     *)
(* ended under another slot length freed seats it never held there; and    *)
(* none counts more, unless such a booking left its own behind.  So after  *)
(* a change of the slot length only the slots in which the two grids of an *)
(* ended booking differ can be wrong, and only in that one direction.      *)
THEOREM SeatsAreExact == Spec => []SeatsMatchActiveBookings
<1>1. SeatsInv => SeatsMatchActiveBookings BY DEF SeatsInv
<1> QED BY <1>1, SeatsInductive, PTL

-----------------------------------------------------------------------------
(* Refinement: every step of the book is a step of Fulfilment, or a        *)
(* stutter, until a booking ends under another slot length than its own.   *)

(* Initial states map to initial states.                                   *)
LEMMA InitRefines == Init => Seats!Init
<1> SUFFICES ASSUME Init PROVE Seats!Init OBVIOUS
<1>1. \A b \in Bookings : bookings[b].status = "NONE"
  BY EmptyRows DEF Init
<1>2. \A b \in Bookings : FateOf(b) = "none" BY <1>1 DEF FateOf, Active, ACTIVE
<1>3. \A t \in Slots : slots[t].booked = 0 BY DEF Init
<1> QED BY <1>1, <1>2, <1>3 DEF Seats!Init

(* No step undoes that.                                                    *)
LEMMA StaysRegridded ==
  ASSUME SeatsInv, [Next]_vars, Regridded
  PROVE  Regridded'
<1>1. PICK c \in Bookings : bookings[c].freed \notin {NotFreed, bookings[c].grid}
  BY DEF Regridded
<1>2. Freed(c) BY <1>1 DEF Freed
<1>3. ASSUME NEW b \in Bookings, PlaceCommit(b) PROVE Regridded'
  <2>1. c # b BY <1>2, <1>3, PlacedSlots
  <2>2. bookings'[c] = bookings[c] BY <1>3, <2>1, CommitShape DEF SeatsInv
  <2> QED BY <1>1, <2>2 DEF Regridded
<1>4. ASSUME NEW b \in Bookings, NEW to, Moves(b, to) PROVE Regridded'
  <2>1. c # b BY <1>2, <1>4, MovedSlots
  <2>2. bookings'[c] = bookings[c]
    BY <1>4, <2>1, MovedBooking DEF SeatsInv, BookInv
  <2> QED BY <1>1, <2>2 DEF Regridded
<1>5. CASE UNCHANGED <<slots, bookings>> BY <1>1, <1>5 DEF Regridded
<1> QED BY <1>3, <1>4, <1>5, BookSteps DEF BookStep, SeatsInv

(* Until then every counter is exact.                                      *)
LEMMA ExactOnOneGrid ==
  ASSUME SeatsInv, ~Regridded, NEW t \in Slots
  PROVE  slots[t].booked = Cardinality(SeatsIn(bookings, Occupying(t)))
<1>1. ASSUME NEW b \in Bookings
      PROVE  ~TakenFromOthers(b, t) /\ ~LeftBehind(b, t)
  <2>1. Freed(b) => bookings[b].freed = bookings[b].grid
    BY DEF Regridded, Freed
  <2>2. Freed(b) => FreedSlots(b) = HeldSlots(b)
    BY <2>1 DEF FreedSlots, HeldSlots
  <2> QED BY <2>2 DEF TakenFromOthers, LeftBehind
<1>2. /\ slots[t].booked >= Cardinality(SeatsAt(t))
      /\ slots[t].booked <= Cardinality(SeatsAt(t))
  BY <1>1 DEF SeatsInv, SeatsMatchActiveBookings
<1>3. SeatsAt(t) = SeatsIn(bookings, Occupying(t)) BY SeatsByBooking
<1>4. PICK booked \in Nat : booked = slots[t].booked
  BY TypeByRows DEF SeatsInv, BookInv, SlotRow
<1>5. PICK seats \in Nat : seats = Cardinality(SeatsIn(bookings, Occupying(t)))
  BY SeatsAreFinite DEF Occupying
<1>6. booked >= seats /\ booked <= seats BY <1>2, <1>3, <1>4, <1>5
<1> QED BY <1>4, <1>5, <1>6

(* A booking that ends on its own grid gives its seats back in the slots   *)
(* it holds, and SQL's GREATEST(..., 0) cuts nothing off.                  *)
LEMMA EndedSeats ==
  ASSUME SeatsInv, NEW b \in Bookings, NEW to, Moves(b, to), to \notin ACTIVE,
         ~Regridded, ~Regridded', NEW t \in Slots
  PROVE  slots'[t].booked = IF t \in HeldSlots(b)
                            THEN slots[t].booked - bookings[b].party
                            ELSE slots[t].booked
<1>1. BookInv /\ TypeOK BY DEF SeatsInv, BookInv
<1>2. /\ Active(b) /\ Freed(b)' /\ bookings'[b].freed = settings.slotMinutes
  BY MovedSlots
<1>3. bookings'[b].freed = bookings'[b].grid BY <1>2 DEF Regridded, Freed
<1>4. bookings[b].grid = settings.slotMinutes
  BY <1>1, <1>2, <1>3, MovedBooking
<1>5. releasedSlots(b) = HeldSlots(b) BY <1>4 DEF releasedSlots, HeldSlots
<1>6. CASE t \notin HeldSlots(b) BY <1>1, <1>5, <1>6, EndedSlots
<1>7. CASE t \in HeldSlots(b)
  <2>1. b \in Occupying(t) BY <1>2, <1>7 DEF Occupying
  <2>2. PICK rest \in Nat, party \in Nat :
          /\ party = bookings[b].party
          /\ slots[t].booked = rest + party
    BY <1>1, <2>1, SeatsOfOccupant, ExactOnOneGrid
  <2>3. ~(slots[t].booked < bookings[b].party) BY <2>2
  <2> QED BY <1>1, <1>5, <1>7, <2>3, EndedSlots
<1> QED BY <1>6, <1>7

(* A booking that moves keeps its demand; one that ends releases it, and   *)
(* for the promise any other move is nothing.                              *)
LEMMA MoveRefines ==
  ASSUME SeatsInv, NEW b \in Bookings, NEW to, Moves(b, to),
         ~Regridded, ~Regridded'
  PROVE  Seats!Release(b) \/ UNCHANGED Seats!vars
<1>1. BookInv /\ TypeOK BY DEF SeatsInv, BookInv
<1>2. /\ Active(b) /\ bookings'[b].status = to /\ to # "NONE"
      /\ bookings[b].status # "NONE"
      /\ \A c \in Bookings \ {b} : bookings'[c] = bookings[c]
      /\ \A c \in Bookings : /\ bookings'[c].party = bookings[c].party
                             /\ bookings'[c].start = bookings[c].start
                             /\ bookings'[c].turn = bookings[c].turn
                             /\ bookings'[c].grid = bookings[c].grid
  BY <1>1, MovedBooking DEF Moves
<1>3. \A c \in Bookings \ {b} : FateOf(c)' = FateOf(c)
  BY <1>2 DEF FateOf, Active
<1>4. \A c \in Bookings : HeldSlots(c)' = HeldSlots(c)
  BY <1>2 DEF HeldSlots
<1>5. \A c \in Bookings, t \in Slots :
        (IF bookings'[c].status # "NONE" /\ t \in HeldSlots(c)'
         THEN bookings'[c].party ELSE 0)
        = (IF bookings[c].status # "NONE" /\ t \in HeldSlots(c)
           THEN bookings[c].party ELSE 0)
  BY <1>2, <1>4
<1>6. FateOf(b) = "held" BY <1>2 DEF FateOf
<1>7. CASE to \in ACTIVE
  <2>1. FateOf(b)' = "held" BY <1>2, <1>7 DEF FateOf, Active
  <2>2. slots' = slots BY <1>7 DEF Moves
  <2> QED BY <1>3, <1>5, <1>6, <2>1, <2>2 DEF Seats!vars
<1>8. CASE to \notin ACTIVE
  <2>1. FateOf(b)' = "released" BY <1>2, <1>8 DEF FateOf, Active
  <2>2. ASSUME NEW t \in Slots
        PROVE  slots'[t].booked = slots[t].booked
                 - (IF bookings[b].status # "NONE" /\ t \in HeldSlots(b)
                    THEN bookings[b].party ELSE 0)
    <3>1. slots[t].booked - 0 = slots[t].booked
      BY <1>1, TypeByRows DEF SlotRow
    <3> QED BY <1>2, <1>8, <3>1, EndedSeats
  <2> QED BY <1>3, <1>5, <1>6, <2>1, <2>2 DEF Seats!Release
<1> QED BY <1>7, <1>8

(* A placement reserves its party's seats in each of its slots.            *)
LEMMA PlaceRefines ==
  ASSUME SeatsInv, NEW b \in Bookings, PlaceCommit(b)
  PROVE  Seats!Reserve(b)
<1>1. BookInv BY DEF SeatsInv
<1>2. /\ bookings[b].status = "NONE"
      /\ \A c \in Bookings \ {b} : bookings'[c] = bookings[c]
  BY <1>1, CommitShape
<1>3. /\ ~Active(b) /\ Active(b)' /\ HeldSlots(b)' = SlotsOf(b)
      /\ bookings'[b].party = request[b].party
      /\ request[b].party \in 0 .. MaxParty
  BY <1>1, PlacedBooking
<1>4. bookings'[b].status # "NONE" BY <1>3 DEF Active, ACTIVE
<1>5. FateOf(b) = "none" /\ FateOf(b)' = "held"
  BY <1>2, <1>3, <1>4 DEF FateOf
<1>6. \A c \in Bookings \ {b} :
        FateOf(c)' = FateOf(c) /\ HeldSlots(c)' = HeldSlots(c)
  BY <1>2 DEF FateOf, Active, HeldSlots
<1>7. PICK seats \in [Slots -> 0 .. MaxParty] :
        \A t \in Slots :
          seats[t] = IF t \in SlotsOf(b) THEN request[b].party ELSE 0
  <2>1. 0 \in 0 .. MaxParty BY BookingAssumption
  <2>2. [t \in Slots |-> IF t \in SlotsOf(b) THEN request[b].party ELSE 0]
          \in [Slots -> 0 .. MaxParty]
    BY <1>3, <2>1
  <2> QED BY <2>2
<1>8. \A t \in Slots :
        (IF bookings'[b].status # "NONE" /\ t \in HeldSlots(b)'
         THEN bookings'[b].party ELSE 0) = seats[t]
  BY <1>3, <1>4, <1>7
<1>9. \A c \in Bookings \ {b} : \A t \in Slots :
        (IF bookings'[c].status # "NONE" /\ t \in HeldSlots(c)'
         THEN bookings'[c].party ELSE 0)
        = (IF bookings[c].status # "NONE" /\ t \in HeldSlots(c)
           THEN bookings[c].party ELSE 0)
  BY <1>2, <1>6
<1>10. ASSUME NEW t \in Slots
       PROVE  slots'[t].booked = slots[t].booked + seats[t]
  <2>1. slots[t].booked + 0 = slots[t].booked
    BY <1>1, TypeByRows DEF BookInv, SlotRow
  <2> QED BY <1>1, <1>7, <2>1, CommitShape
<1>11. [c \in Bookings |-> FateOf(c)]'
         = [[c \in Bookings |-> FateOf(c)] EXCEPT ![b] = "held"]
  BY <1>5, <1>6
<1>12. [c \in Bookings |-> [t \in Slots |->
          IF bookings[c].status # "NONE" /\ t \in HeldSlots(c)
          THEN bookings[c].party ELSE 0]]'
         = [[c \in Bookings |-> [t \in Slots |->
               IF bookings[c].status # "NONE" /\ t \in HeldSlots(c)
               THEN bookings[c].party ELSE 0]] EXCEPT ![b] = seats]
  <2>1. seats = [t \in Slots |->
                   IF bookings'[b].status # "NONE" /\ t \in HeldSlots(b)'
                   THEN bookings'[b].party ELSE 0]
    BY <1>7, <1>8
  <2> QED BY <1>9, <2>1
<1>13. [t \in Slots |-> slots[t].booked]'
         = [i \in Slots |-> [t \in Slots |-> slots[t].booked][i] + seats[i]]
  BY <1>10
<1> QED BY <1>5, <1>7, <1>11, <1>12, <1>13 DEF Seats!Reserve

(* Every step of the book is a step of the ledger, or a stutter, or comes  *)
(* after a booking ended under another slot length.                        *)
LEMMA StepRefines ==
  SeatsInv /\ [Next]_vars => [Regridded' \/ Seats!Next]_(Seats!vars)
<1> SUFFICES ASSUME SeatsInv, [Next]_vars, ~Regridded'
             PROVE  Seats!Next \/ UNCHANGED Seats!vars
  OBVIOUS
<1>1. ~Regridded BY StaysRegridded
<1>2. ASSUME NEW b \in Bookings, PlaceCommit(b) PROVE Seats!Next
  BY <1>2, PlaceRefines DEF Seats!Next
<1>3. ASSUME NEW b \in Bookings, NEW to, Moves(b, to)
      PROVE  Seats!Next \/ UNCHANGED Seats!vars
  BY <1>1, <1>3, MoveRefines DEF Seats!Next
<1>4. ASSUME UNCHANGED <<slots, bookings>> PROVE UNCHANGED Seats!vars
  <2>1. \A b \in Bookings :
          FateOf(b)' = FateOf(b) /\ HeldSlots(b)' = HeldSlots(b)
    BY <1>4 DEF FateOf, Active, HeldSlots
  <2> QED BY <1>4, <2>1 DEF Seats!vars
<1> QED BY <1>2, <1>3, <1>4, BookSteps DEF BookStep, SeatsInv

(* The book keeps the promise ordering keeps of its stock: every booking   *)
(* takes its seats once, gives them back at most once, and only after it   *)
(* took them; in any shop, until the first booking that ends under another *)
(* slot length than the one it was made with.                              *)
THEOREM ReservationImplementsFulfilment == Spec => ImplementsFulfilment
BY InitRefines, StepRefines, SeatsInductive, PTL DEF Spec, ImplementsFulfilment

=============================================================================
