------------------------------- MODULE Waitlist -------------------------------
(***************************************************************************)
(* The walk-in queue of a shop for one service day (packages/domain/src/   *)
(* waitlist and apps/api/src/modules/waitlist): guests take numbers, are   *)
(* called, seated, skipped, swept.                                         *)
(*                                                                         *)
(* Taking a number checks, reads the numbers issued, inserts and commits   *)
(* in steps of their own; a unique index is all that keeps two guests from *)
(* one number.  A move locks its row and is one step.                      *)
(***************************************************************************)
EXTENDS Integers, FiniteSets

CONSTANTS
  Takers,              \* requests for a number
  Phones,              \* the guests, by phone
  MAX_TICKET_RETRIES,  \* attempts a request has on a clash of numbers
  QueueSweeps          \* sweeps that may be under way at a time

ASSUME RetriesAssumption == MAX_TICKET_RETRIES \in Nat \ {0}

VARIABLES
  entries,     \* rows of `waitlist_entries': the one each request created
  taking,      \* requests for a number under way
  taken,       \* whether the shop takes walk-ins: the saved settings
  queueSweep   \* each sweep: the tickets on its list

queueVars == <<entries, taking, taken, queueSweep>>

-----------------------------------------------------------------------------
(* The ticket machine.                                                     *)

WaitlistStatus == {"WAITING", "CALLED", "SEATED", "NO_SHOW", "CANCELLED"}

WaitlistActor == {"CUSTOMER", "MERCHANT", "SYSTEM", "ADMIN"}

ALL_STAFF == {"MERCHANT", "ADMIN"}

(* Mutation of STILL_QUEUED: a called guest is not looked for.             *)
NotYetCalled == {"WAITING"}

STILL_QUEUED == {"WAITING", "CALLED"}

QueueMove(from, to, actors) == [from |-> from, to |-> to, actors |-> actors]

QUEUE_TRANSITIONS ==
  {QueueMove("WAITING", to, ALL_STAFF) : to \in {"CALLED", "SEATED", "NO_SHOW"}}
  \cup {QueueMove("WAITING", "CANCELLED", ALL_STAFF \cup {"CUSTOMER"})}
  \cup {QueueMove("CALLED", to, ALL_STAFF) : to \in {"SEATED", "CANCELLED"}}
  \cup {QueueMove("CALLED", "NO_SHOW", ALL_STAFF \cup {"SYSTEM"})}

-----------------------------------------------------------------------------
(* State.                                                                  *)

NoEntry ==
  [status |-> "NONE", phone |-> "none", no |-> 0, overdue |-> FALSE,
   existed |-> {}]

NotTaking ==
  [stage |-> "none", phone |-> "none", no |-> 0, attempts |-> 0,
   existed |-> {}]

QueueInit ==
  /\ entries = [q \in Takers |-> NoEntry]
  /\ taking = [q \in Takers |-> NotTaking]
  /\ taken \in BOOLEAN
  /\ queueSweep = [s \in QueueSweeps |-> {}]

Guests == {q \in Takers : entries[q].no # 0}
Issued == {entries[q].no : q \in Guests}

(* What the day's list shows of a guest.                                   *)
TicketsOfPhone(phone) == {q \in Takers : entries[q].phone = phone}

-----------------------------------------------------------------------------
(* TakeNumberUseCase.                                                      *)

(* Settings and findActiveForPhone, outside any transaction.  History: the *)
(* tickets there were when the request came in.                            *)
TakeCheck(q, phone) ==
  /\ entries[q] = NoEntry /\ taking[q] = NotTaking
  /\ taken
  /\ \A e \in TicketsOfPhone(phone) : entries[e].status \notin STILL_QUEUED
  /\ taking' = [taking EXCEPT ![q] =
       [NotTaking EXCEPT !.stage = "checked", !.phone = phone,
                         !.existed = Guests]]
  /\ UNCHANGED <<entries, taken, queueSweep>>

(* One more than the highest number issued today, whatever became of it.   *)
nextTicketNo ==
  1 + CHOOSE n \in Issued \cup {0} : \A m \in Issued : m <= n

(* ticketNumbersForDay reads committed rows, outside the transaction.      *)
TakeRead(q) ==
  /\ taking[q].stage = "checked"
  /\ taking' = [taking EXCEPT ![q].stage = "numbered", ![q].no = nextTicketNo]
  /\ UNCHANGED <<entries, taken, queueSweep>>

(* Mutation of IndexRefuses: the numbers of a day have no unique index.    *)
NoUniqueIndex(no) == FALSE

(* @@unique([merchantId, serviceDate, ticketNo]).                          *)
IndexRefuses(no) == no \in Issued

(* An uncommitted row blocks every other insert of its number.             *)
NumberLocked(no) ==
  \E q \in Takers : taking[q].stage = "inserted" /\ taking[q].no = no

(* insertEntry: the row is in, and uncommitted.                             *)
TakeInsert(q) ==
  /\ taking[q].stage = "numbered"
  /\ ~IndexRefuses(taking[q].no) /\ ~NumberLocked(taking[q].no)
  /\ taking' = [taking EXCEPT ![q].stage = "inserted"]
  /\ UNCHANGED <<entries, taken, queueSweep>>

(* The unique index refuses: read again, or give up after the last try.    *)
TakeClash(q) ==
  /\ taking[q].stage = "numbered"
  /\ IndexRefuses(taking[q].no)
  /\ taking' = [taking EXCEPT ![q] =
       IF @.attempts + 1 < MAX_TICKET_RETRIES
       THEN [@ EXCEPT !.stage = "checked", !.no = 0,
                      !.attempts = taking[q].attempts + 1]
       ELSE NotTaking]
  /\ UNCHANGED <<entries, taken, queueSweep>>

TakeCommit(q) ==
  /\ taking[q].stage = "inserted"
  /\ entries' = [entries EXCEPT ![q] =
       [status |-> "WAITING", phone |-> taking[q].phone, no |-> taking[q].no,
        overdue |-> FALSE, existed |-> taking[q].existed]]
  /\ taking' = [taking EXCEPT ![q] = NotTaking]
  /\ UNCHANGED <<taken, queueSweep>>

(* The process dies or the connection is lost; the guest may tap again.    *)
TakeAbort(q) ==
  /\ taking[q] # NotTaking
  /\ taking' = [taking EXCEPT ![q] = NotTaking]
  /\ UNCHANGED <<entries, taken, queueSweep>>

-----------------------------------------------------------------------------
(* TransitionQueueUseCase: one transaction under the row lock.             *)
QueueAdmits(q, to, actor) ==
  \E move \in QUEUE_TRANSITIONS :
    move.from = entries[q].status /\ move.to = to /\ actor \in move.actors

MoveTicket(q, to, actor) ==
  /\ QueueAdmits(q, to, actor)
  /\ entries' = [entries EXCEPT ![q].status = to, ![q].overdue = FALSE]
  /\ UNCHANGED <<taking, taken, queueSweep>>

(* The time a called guest has to appear runs out.                         *)
CallTimesOut(q) ==
  /\ entries[q].status = "CALLED" /\ ~entries[q].overdue
  /\ entries' = [entries EXCEPT ![q].overdue = TRUE]
  /\ UNCHANGED <<taking, taken, queueSweep>>

(* SweepQueueUseCase, a route of the shop: a plain read of the list.       *)
SweepCalls(s) ==
  LET list == {q \in Takers : entries[q].status = "CALLED" /\ entries[q].overdue}
  IN /\ queueSweep[s] = {} /\ list # {}
     /\ queueSweep' = [queueSweep EXCEPT ![s] = list]
     /\ UNCHANGED <<entries, taking, taken>>

(* Mutation of StillCalled: the list is trusted.                           *)
Listed(q) == TRUE

(* Re-read under the lock.                                                 *)
StillCalled(q) == entries[q].status = "CALLED"

SweepTicket(s, q) ==
  /\ q \in queueSweep[s]
  /\ queueSweep' = [queueSweep EXCEPT ![s] = @ \ {q}]
  /\ entries' = IF StillCalled(q)
                THEN [entries EXCEPT ![q].status = "NO_SHOW",
                                     ![q].overdue = FALSE]
                ELSE entries
  /\ UNCHANGED <<taking, taken>>

SweepDies(s) ==
  /\ queueSweep[s] # {}
  /\ queueSweep' = [queueSweep EXCEPT ![s] = {}]
  /\ UNCHANGED <<entries, taking, taken>>

(* The shop switches its queue on or off.                                  *)
SaveSettings ==
  /\ taken' = ~taken
  /\ UNCHANGED <<entries, taking, queueSweep>>

Taking(q) ==
  \/ \E phone \in Phones : TakeCheck(q, phone)
  \/ TakeRead(q) \/ TakeInsert(q) \/ TakeClash(q) \/ TakeCommit(q)
  \/ TakeAbort(q)

QueueNext ==
  \/ \E q \in Takers :
       \/ Taking(q) \/ CallTimesOut(q)
       \/ \E to \in WaitlistStatus, actor \in WaitlistActor \ {"SYSTEM"} :
            MoveTicket(q, to, actor)
  \/ \E s \in QueueSweeps :
       SweepCalls(s) \/ SweepDies(s) \/ \E q \in Takers : SweepTicket(s, q)
  \/ SaveSettings

-----------------------------------------------------------------------------
(* Properties.                                                             *)

(* Whatever clashes, is retried, cancelled or dies, the numbers issued in  *)
(* a day are 1, 2, ... without gap, and no two guests share one.           *)
NumbersAreConsecutive == Issued = 1 .. Cardinality(Guests)

(* The comment above findActiveForPhone, one live ticket per guest: two    *)
(* live tickets of one phone come only of requests that checked before     *)
(* either had its ticket.  A called guest does not get a second one.       *)
SecondNumberNeedsOverlap ==
  \A p, q \in Guests :
    (/\ p # q /\ entries[p].phone = entries[q].phone
     /\ entries[p].status \in {"WAITING", "CALLED"}
     /\ entries[q].status \in {"WAITING", "CALLED"})
    => p \notin entries[q].existed /\ q \notin entries[p].existed

(* The comment in the sweep, a guest who appears at the last second: no    *)
(* sweep, however old its list, and no second move turns a ticket that was *)
(* seated, skipped or cancelled into something else.                       *)
EndedTicketsStay ==
  [][\A q \in Guests :
       entries[q].status \notin {"WAITING", "CALLED"} =>
         entries'[q].status = entries[q].status]_queueVars

=============================================================================
