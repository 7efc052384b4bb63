------------------------------ MODULE Reservation ------------------------------
(***************************************************************************)
(* Bookings of one shop on one day, against the seats of each start slot,  *)
(* and the shop's rest-day closures, which cancel the bookings of the day  *)
(* (apps/api/src/modules/reservation and                                   *)
(* modules/merchants/application/merchant-closure.service.ts).             *)
(*                                                                         *)
(* A transaction is one step; the reads a placement makes before it, and   *)
(* the list a closure's sweep works through, are steps of their own.       *)
(* Instants and minutes are counted in small units; the grid starts at 0.  *)
(***************************************************************************)
EXTENDS ReservationStateMachine, FiniteSets

CONSTANTS
  Bookings,     \* the bookings that may be made
  Starts,       \* the instants they may ask for
  LastSlot,     \* no slot used starts later
  MaxParty,     \* largest party
  Policies,     \* the settings a shop may save
  Savers,       \* rest-day requests served at the same time
  SweepLimit,   \* how many bookings one sweep cancels; 200 in the code
  MaxCrashes    \* bound on requests that die half-way

(* What the settings form accepts (assertSettingsCoherent).                *)
ReservationPolicy ==
  [enabled : BOOLEAN, autoConfirm : BOOLEAN, slotMinutes : Nat \ {0},
   turnMinutes : Nat, seatsPerSlot : Nat, maxPartySize : 1 .. MaxParty]

ASSUME PolicyAssumption ==
  /\ Policies \subseteq ReservationPolicy
  /\ \A policy \in Policies : policy.turnMinutes >= policy.slotMinutes
ASSUME BookingAssumption == IsFiniteSet(Bookings) /\ MaxParty \in Nat
ASSUME SlotAssumption ==
  /\ LastSlot \in Nat /\ Starts \subseteq 0 .. LastSlot
  /\ \A start \in Starts, policy \in Policies :
       start + policy.turnMinutes <= LastSlot + 1
ASSUME SweepAssumption == SweepLimit \in Nat /\ MaxCrashes \in Nat

VARIABLES
  settings,   \* the shop's reservation_settings row
  slots,      \* rows of reservation_slots
  bookings,   \* rows of reservations
  request,    \* placements under way
  closure,    \* the day's merchant_closures row
  sweep,      \* rest-day requests under way
  crashes

bookVars == <<slots, bookings>>
vars == <<settings, slots, bookings, request, closure, sweep, crashes>>

-----------------------------------------------------------------------------
Slots == 0 .. LastSlot

(* ceil(turn / slot) consecutive starts of the grid.                       *)
occupiedSlotStarts(start, slotMinutes, turnMinutes) ==
  LET count == (turnMinutes + slotMinutes - 1) \div slotMinutes
  IN {start + k * slotMinutes : k \in 0 .. count - 1}

isAlignedToGrid(start, slotMinutes) == start % slotMinutes = 0

(* History, which the row does not store: `grid' is the slot length the    *)
(* seats were taken with, `freed' the one they were given back with.       *)
NotFreed == 0
NoBooking ==
  [status |-> "NONE", party |-> 0, start |-> 0, turn |-> 0, grid |-> 1,
   freed |-> NotFreed]
BookingRow ==
  [status : ReservationStatus \cup {"NONE"}, party : 0 .. MaxParty,
   start : Starts \cup {0}, turn : Nat, grid : Nat \ {0}, freed : Nat]

Active(b) == bookings[b].status \in ACTIVE

AnyPolicy == CHOOSE policy \in Policies : TRUE
NoRequest == [stage |-> "none", party |-> 0, start |-> 0, policy |-> AnyPolicy]

(* History: `known' the bookings that existed when the day was closed,     *)
(* `told' that the shop was answered that some of them remain, `stale'     *)
(* that the sweep had listed the day before it was closed, or reopened.    *)
NoClosure ==
  [exists |-> FALSE, swept |-> FALSE, known |-> {}, told |-> FALSE,
   stale |-> FALSE]
Idle == [pc |-> "idle", todo |-> {}, more |-> FALSE, stale |-> FALSE]

Init ==
  /\ settings \in Policies
  /\ slots = [t \in Slots |-> [exists |-> FALSE, booked |-> 0]]
  /\ bookings = [b \in Bookings |-> NoBooking]
  /\ request = [b \in Bookings |-> NoRequest]
  /\ closure = NoClosure
  /\ sweep = [a \in Savers |-> Idle]
  /\ crashes = 0

-----------------------------------------------------------------------------
(* PlaceReservationUseCase.                                                *)

(* The settings are read once, and the request judged against them.        *)
PlaceRead(b) ==
  /\ bookings[b].status = "NONE"
  /\ request[b].stage = "none"
  /\ settings.enabled
  /\ \E start \in Starts, party \in 1 .. settings.maxPartySize :
       /\ isAlignedToGrid(start, settings.slotMinutes)
       /\ request' = [request EXCEPT ![b] =
            [stage |-> "read", party |-> party, start |-> start,
             policy |-> settings]]
  /\ UNCHANGED <<settings, bookVars, closure, sweep, crashes>>

PlaceClosureCheck(b) ==
  /\ request[b].stage = "read"
  /\ ~closure.exists
  /\ request' = [request EXCEPT ![b].stage = "checked"]
  /\ UNCHANGED <<settings, bookVars, closure, sweep, crashes>>

(* Mutation of Fits: the slot is tested before the seats are added.        *)
FitsUntilFull(row, seats, seatsPerSlot) ==
  ~row.exists \/ row.booked <= seatsPerSlot

(* INSERT ... ON CONFLICT DO UPDATE ... WHERE: only the update is guarded, *)
(* a slot nobody has used takes any party.                                 *)
Fits(row, seats, seatsPerSlot) ==
  ~row.exists \/ row.booked + seats <= seatsPerSlot

HeldRow(row, seats) == [exists |-> TRUE, booked |-> row.booked + seats]

(* holdSlots and insertReservation, all or nothing.                        *)
PlaceCommit(b) ==
  LET policy == request[b].policy
      seats == request[b].party
      held == occupiedSlotStarts(request[b].start, policy.slotMinutes,
                                 policy.turnMinutes)
  IN
  /\ request[b].stage = "checked"
  /\ \A t \in held : Fits(slots[t], seats, policy.seatsPerSlot)
  /\ slots' = [t \in Slots |->
       IF t \in held THEN HeldRow(slots[t], seats) ELSE slots[t]]
  /\ bookings' = [bookings EXCEPT ![b] =
       [status |-> IF policy.autoConfirm THEN "CONFIRMED" ELSE "PENDING",
        party |-> seats, start |-> request[b].start,
        turn |-> policy.turnMinutes, grid |-> policy.slotMinutes,
        freed |-> NotFreed]]
  /\ request' = [request EXCEPT ![b] = NoRequest]
  /\ UNCHANGED <<settings, closure, sweep, crashes>>

(* A refusal, a full slot or a lost connection; the guest may ask again.   *)
PlaceAbort(b) ==
  /\ request[b].stage # "none"
  /\ request' = [request EXCEPT ![b] = NoRequest]
  /\ UNCHANGED <<settings, bookVars, closure, sweep, crashes>>

-----------------------------------------------------------------------------
(* TransitionReservationUseCase, under the row lock.                       *)

(* Mutation of releasedSlots: the turn, too, is read from the settings.    *)
releasedWithLiveTurn(b) ==
  occupiedSlotStarts(bookings[b].start, settings.slotMinutes,
                     settings.turnMinutes)

(* The turn comes from the row, the slot length from the settings as they  *)
(* are now.                                                                *)
releasedSlots(b) ==
  occupiedSlotStarts(bookings[b].start, settings.slotMinutes, bookings[b].turn)

(* SQL GREATEST(booked - n, 0).                                            *)
releaseSlots(row, seats) ==
  [row EXCEPT !.booked = IF @ < seats THEN 0 ELSE @ - seats]

Transition(b, to, actor, accepting, late) ==
  /\ Active(b)
  /\ \E rule \in TRANSITIONS[bookings[b].status] :
       /\ Admits(rule, to, actor, accepting, late)
       /\ bookings' = [bookings EXCEPT
            ![b].status = to,
            ![b].freed = IF rule.releases THEN settings.slotMinutes ELSE @]
       /\ slots' = [t \in Slots |->
            IF rule.releases /\ t \in releasedSlots(b) /\ slots[t].exists
            THEN releaseSlots(slots[t], bookings[b].party) ELSE slots[t]]

CustomerCancel(b) ==
  /\ Transition(b, "CANCELLED", "CUSTOMER", TRUE, FALSE)
  /\ UNCHANGED <<settings, request, closure, sweep, crashes>>

(* The controller refuses when the intake switch is off, but reads it      *)
(* before the transaction, when it may since have been turned: no guard on *)
(* it is left.  The clock says whether the party is late.                  *)
MerchantMove(b, to) ==
  /\ \E late \in BOOLEAN : Transition(b, to, "MERCHANT", TRUE, late)
  /\ UNCHANGED <<settings, request, closure, sweep, crashes>>

updateSettings(policy) ==
  /\ policy # settings
  /\ settings' = policy
  /\ UNCHANGED <<bookVars, request, closure, sweep, crashes>>

-----------------------------------------------------------------------------
(* MerchantClosureService.                                                 *)

(* upsert: the row is committed before any booking is touched.  A row      *)
(* already swept is not swept again.                                       *)
ClosureSave(a) ==
  /\ sweep[a] = Idle
  /\ ~closure.swept
  /\ closure' = IF closure.exists THEN closure
                ELSE [NoClosure EXCEPT !.exists = TRUE, !.known =
                        {b \in Bookings : bookings[b].status # "NONE"}]
  /\ sweep' = [sweep EXCEPT ![a].pc = "list"]
  /\ UNCHANGED <<settings, bookVars, request, crashes>>

(* The first SweepLimit active bookings of the day, by start, and whether  *)
(* there is one more.                                                      *)
ClosureList(a) ==
  LET active == {b \in Bookings : Active(b)} IN
  /\ sweep[a].pc = "list"
  /\ \E todo \in SUBSET active :
       /\ Cardinality(todo) <= SweepLimit
       /\ Cardinality(todo) = SweepLimit \/ todo = active
       /\ \A b \in todo, c \in active \ todo : bookings[b].start <= bookings[c].start
       /\ sweep' = [sweep EXCEPT ![a] =
            [pc |-> "cancel", todo |-> todo, more |-> todo # active,
             stale |-> ~closure.exists]]
  /\ UNCHANGED <<settings, bookVars, request, closure, crashes>>

(* cancelOne, one transaction per booking; one that moved on is left as  *)
(* it is.                                                                  *)
cancelOne(a, b) ==
  /\ sweep[a].pc = "cancel"
  /\ b \in sweep[a].todo
  /\ sweep' = [sweep EXCEPT ![a].todo = @ \ {b}]
  /\ \/ Transition(b, "CANCELLED", "MERCHANT", TRUE, FALSE)
     \/ ~Active(b) /\ UNCHANGED bookVars
  /\ UNCHANGED <<settings, request, closure, crashes>>

(* Mutation of ClosureStamp: the latch is set before the work is done.     *)
StampedFirst(a) ==
  /\ sweep[a].pc = "cancel"
  /\ closure.exists
  /\ closure' = [closure EXCEPT !.swept = TRUE]
  /\ UNCHANGED <<settings, bookVars, request, sweep, crashes>>

(* The latch, set whether or not the list was cut short, and the answer to *)
(* the shop; a row removed meanwhile makes the update throw.  The row is   *)
(* found by its date: one saved again since is latched all the same.       *)
ClosureStamp(a) ==
  /\ sweep[a].pc = "cancel"
  /\ sweep[a].todo = {}
  /\ closure' = [closure EXCEPT !.swept = closure.exists,
                                !.told = closure.exists /\ sweep[a].more,
                                !.stale = closure.exists /\ sweep[a].stale]
  /\ sweep' = [sweep EXCEPT ![a] = Idle]
  /\ UNCHANGED <<settings, bookVars, request, crashes>>

(* The day is opened again; what was cancelled stays cancelled.            *)
ClosureRemove ==
  /\ closure.exists
  /\ closure' = NoClosure
  /\ sweep' = [a \in Savers |->
       [sweep[a] EXCEPT !.stale = (sweep[a].pc = "cancel")]]
  /\ UNCHANGED <<settings, bookVars, request, crashes>>

ClosureDies(a) ==
  /\ sweep[a] # Idle
  /\ crashes < MaxCrashes
  /\ sweep' = [sweep EXCEPT ![a] = Idle]
  /\ crashes' = crashes + 1
  /\ UNCHANGED <<settings, bookVars, request, closure>>

-----------------------------------------------------------------------------
Placing(b) ==
  PlaceRead(b) \/ PlaceClosureCheck(b) \/ PlaceCommit(b) \/ PlaceAbort(b)

MerchantTargets == ReservationStatus \ {"PENDING"}

Closing(a) ==
  ClosureList(a) \/ ClosureStamp(a) \/ \E b \in Bookings : cancelOne(a, b)

Next ==
  \/ \E b \in Bookings :
       \/ Placing(b)
       \/ CustomerCancel(b)
       \/ \E to \in MerchantTargets : MerchantMove(b, to)
  \/ \E policy \in Policies : updateSettings(policy)
  \/ \E a \in Savers : ClosureSave(a) \/ Closing(a) \/ ClosureDies(a)
  \/ ClosureRemove

Spec == Init /\ [][Next]_vars

-----------------------------------------------------------------------------
(* Properties.                                                             *)

(* Every row, placement and rest-day request has its type.                 *)
TypeOK ==
  /\ settings \in Policies
  /\ slots \in [Slots -> [exists : BOOLEAN, booked : Nat]]
  /\ bookings \in [Bookings -> BookingRow]
  /\ request \in [Bookings ->
       [stage : {"none", "read", "checked"}, party : 0 .. MaxParty,
        start : Starts \cup {0}, policy : Policies]]
  /\ closure \in [exists : BOOLEAN, swept : BOOLEAN, told : BOOLEAN,
                  stale : BOOLEAN, known : SUBSET Bookings]
  /\ sweep \in [Savers ->
       [pc : {"idle", "list", "cancel"}, todo : SUBSET Bookings,
        more : BOOLEAN, stale : BOOLEAN]]
  /\ crashes \in 0 .. MaxCrashes

HeldSlots(b) ==
  occupiedSlotStarts(bookings[b].start, bookings[b].grid, bookings[b].turn)

SeatsAt(t) ==
  {seat \in Bookings \X (1 .. MaxParty) :
     /\ Active(seat[1])
     /\ t \in HeldSlots(seat[1])
     /\ seat[2] <= bookings[seat[1]].party}

(* The slots an ended booking gave its seats back in.                      *)
FreedSlots(b) ==
  occupiedSlotStarts(bookings[b].start, bookings[b].freed, bookings[b].turn)

Freed(b) == bookings[b].freed # NotFreed
LeftBehind(b, t) == Freed(b) /\ t \in HeldSlots(b) \ FreedSlots(b)
TakenFromOthers(b, t) == Freed(b) /\ t \in FreedSlots(b) \ HeldSlots(b)

(* A slot never counts fewer seats than its active bookings occupy, unless *)
(* a booking that ended under another slot length than it was made with    *)
(* gave back seats there it never held; and never more, unless such a      *)
(* booking left its own behind.  Whatever turn, capacity or slot length    *)
(* was saved in between and whoever ended them, all other slots are exact. *)
SeatsMatchActiveBookings ==
  \A t \in Slots :
    /\ \/ slots[t].booked >= Cardinality(SeatsAt(t))
       \/ \E b \in Bookings : TakenFromOthers(b, t)
    /\ \/ slots[t].booked <= Cardinality(SeatsAt(t))
       \/ \E b \in Bookings : LeftBehind(b, t)

(* A slot that counts guests is never raised beyond the capacity the later *)
(* party read, although both checked availability outside any transaction. *)
NoOverbooking ==
  [][\A b \in Bookings : bookings'[b].status # bookings[b].status =>
       \A t \in Slots :
         slots[t].booked > 0 /\ slots'[t].booked > slots[t].booked =>
           slots'[t].booked <= request[b].policy.seatsPerSlot]_vars

(* The latch says what it is trusted for: once a closure is marked swept,  *)
(* every booking made before the day was closed is off the book, however   *)
(* many requests sweep it, unless the shop was told that the sweep reached *)
(* its limit, or the sweep listed the day before that closure of it.       *)
SweptDayIsClear ==
  closure.swept /\ ~closure.told /\ ~closure.stale =>
    \A b \in closure.known : ~Active(b)

(* A booking holds its seats once and gives them back once: the promise of *)
(* Fulfilment, with slots for items and nothing ever sold.                 *)
FateOf(b) ==
  CASE bookings[b].status = "NONE" -> "none"
    [] Active(b) -> "held"
    [] OTHER -> "released"

Seats == INSTANCE Fulfilment WITH
  Orders <- Bookings, Items <- Slots, MaxQty <- MaxParty,
  fate <- [b \in Bookings |-> FateOf(b)],
  demand <- [b \in Bookings |-> [t \in Slots |->
     IF bookings[b].status # "NONE" /\ t \in HeldSlots(b)
     THEN bookings[b].party ELSE 0]],
  held <- [t \in Slots |-> slots[t].booked],
  sold <- [t \in Slots |-> 0]

(* Some booking ended under another slot length than it was made with.     *)
Regridded ==
  \E b \in Bookings : bookings[b].freed \notin {NotFreed, bookings[b].grid}

(* Every step is one of Fulfilment, or a stutter, as long as no booking    *)
(* has ended under another slot length than its own.                       *)
ImplementsFulfilment == Seats!Init /\ [][Regridded' \/ Seats!Next]_(Seats!vars)

=============================================================================
