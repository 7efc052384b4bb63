---------------------------- MODULE RefundRequests ----------------------------
(***************************************************************************)
(* Refund tickets (packages/domain/src/refund and apps/api/src/modules/    *)
(* refund): a customer files one against a paid order, the shop and the    *)
(* customer work it off, and no money moves.                               *)
(*                                                                         *)
(* Filing reads the order, then looks for an open ticket in the            *)
(* transaction that inserts; nothing is locked between look and insert.    *)
(* A move reads the ticket without a lock and writes it with a             *)
(* compare-and-set on the status it read.                                  *)
(***************************************************************************)
EXTENDS Ordering

CONSTANTS
  Tickets,   \* ids that filings would create
  Handlers   \* requests moving a ticket that may be under way at a time

ASSUME TicketsAssumption == "none" \notin Orders

VARIABLES
  tickets,   \* rows of `refund_requests'
  filing,    \* the request that would create each ticket
  handling,  \* requests moving a ticket
  announced  \* the versions of each ticket's outbox rows

ticketVars == <<tickets, filing, handling, announced>>

-----------------------------------------------------------------------------
(* The ticket machine.                                                     *)

RefundRequestStatus ==
  {"OPEN", "IN_DISCUSSION", "RESOLVED_OFFLINE", "DECLINED", "CANCELLED"}

RefundRequestActor == {"CUSTOMER", "MERCHANT", "ADMIN"}

(* Mutation of ACTIVE: a ticket under discussion is not counted.           *)
ActiveUnseenOnly == {"OPEN"}

ACTIVE == {"OPEN", "IN_DISCUSSION"}

SHOP == {"MERCHANT", "ADMIN"}

Move(to, actors) == [to |-> to, actors |-> actors]

Endings ==
  {Move("RESOLVED_OFFLINE", SHOP), Move("DECLINED", SHOP),
   Move("CANCELLED", {"CUSTOMER", "ADMIN"})}

TICKET_TRANSITIONS ==
  [from \in RefundRequestStatus |->
     CASE from = "OPEN" -> Endings \cup {Move("IN_DISCUSSION", SHOP)}
       [] from = "IN_DISCUSSION" -> Endings
       [] OTHER -> {}]

REFUNDABLE_ORDER_STATUSES ==
  {"PAID", "ACCEPTED", "PREPARING", "READY_FOR_PICKUP", "COMPLETED",
   "REJECTED", "REFUNDED"}

-----------------------------------------------------------------------------
(* State.                                                                  *)

NotFiled ==
  [order |-> "none", status |-> "NOT_FILED", version |-> 0, existed |-> {}]

NotFiling == [stage |-> "none", order |-> "none", existed |-> {}]

NotHandling == [ticket |-> "none", from |-> "NOT_FILED", to |-> "NOT_FILED"]

TicketsInit ==
  /\ tickets = [k \in Tickets |-> NotFiled]
  /\ filing = [k \in Tickets |-> NotFiling]
  /\ handling = [m \in Handlers |-> NotHandling]
  /\ announced = [k \in Tickets |-> {}]

TicketsOf(o) == {k \in Tickets : tickets[k].order = o}

-----------------------------------------------------------------------------
(* FileRefundRequestUseCase: the order's status, outside the transaction.  *)
FileCheck(k, o) ==
  /\ tickets[k] = NotFiled
  /\ filing[k] = NotFiling
  /\ orders[o].status \in REFUNDABLE_ORDER_STATUSES
  /\ filing' = [filing EXCEPT ![k] =
       [NotFiling EXCEPT !.stage = "checked", !.order = o]]
  /\ UNCHANGED <<tickets, handling, announced>>

(* findOpenForOrder finds none.  History: the tickets there at this point. *)
FileLook(k) ==
  LET filed == TicketsOf(filing[k].order) IN
  /\ filing[k].stage = "checked"
  /\ \A other \in filed : tickets[other].status \notin ACTIVE
  /\ filing' = [filing EXCEPT ![k].stage = "looked", ![k].existed = filed]
  /\ UNCHANGED <<tickets, handling, announced>>

(* insert and the outbox row.                                              *)
FileInsert(k) ==
  /\ filing[k].stage = "looked"
  /\ tickets' = [tickets EXCEPT ![k] =
       [order |-> filing[k].order, status |-> "OPEN", version |-> 1,
        existed |-> filing[k].existed]]
  /\ announced' = [announced EXCEPT ![k] = {1}]
  /\ filing' = [filing EXCEPT ![k] = NotFiling]
  /\ UNCHANGED handling

(* REFUND_REQUEST_ALREADY_OPEN, or the request dies.                       *)
FileAbort(k) ==
  /\ filing[k] # NotFiling
  /\ filing' = [filing EXCEPT ![k] = NotFiling]
  /\ UNCHANGED <<tickets, handling, announced>>

-----------------------------------------------------------------------------
(* TransitionRefundRequestUseCase: a plain read, and the machine admits.   *)
HandleRead(m, k, to, actor) ==
  /\ handling[m] = NotHandling
  /\ tickets[k].status \in ACTIVE
  /\ \E move \in TICKET_TRANSITIONS[tickets[k].status] :
       move.to = to /\ actor \in move.actors
  /\ handling' = [handling EXCEPT ![m] =
       [ticket |-> k, from |-> tickets[k].status, to |-> to]]
  /\ UNCHANGED <<tickets, filing, announced>>

(* Mutation of updateStatus: the status is not compared.                   *)
updateStatusBlindly(m) == tickets[handling[m].ticket].status # "NOT_FILED"

(* The conditional UPDATE matches the row.                                 *)
updateStatus(m) == tickets[handling[m].ticket].status = handling[m].from

HandleCommit(m) ==
  LET k == handling[m].ticket IN
  /\ handling[m] # NotHandling
  /\ updateStatus(m)
  /\ tickets' = [tickets EXCEPT ![k].status = handling[m].to,
                                ![k].version = @ + 1]
  /\ announced' = [announced EXCEPT ![k] = @ \cup {tickets[k].version + 1}]
  /\ handling' = [handling EXCEPT ![m] = NotHandling]
  /\ UNCHANGED filing

(* No row matched: ConcurrentRefundModificationError; or the request dies. *)
HandleAbort(m) ==
  /\ handling[m] # NotHandling
  /\ handling' = [handling EXCEPT ![m] = NotHandling]
  /\ UNCHANGED <<tickets, filing, announced>>

Filing(k) ==
  \/ \E o \in Orders : FileCheck(k, o)
  \/ FileLook(k) \/ FileInsert(k) \/ FileAbort(k)

Handling(m) ==
  \/ \E k \in Tickets, to \in RefundRequestStatus, actor \in RefundRequestActor :
       HandleRead(m, k, to, actor)
  \/ HandleCommit(m) \/ HandleAbort(m)

Ticketing ==
  \/ \E k \in Tickets : Filing(k)
  \/ \E m \in Handlers : Handling(m)

-----------------------------------------------------------------------------
(* Properties.                                                             *)

(* The schema's "one open request per order": two open tickets of an order *)
(* can only come of two filings that looked before either had inserted.    *)
(* In particular a ticket under discussion keeps a new one away.           *)
SecondTicketNeedsOverlap ==
  \A j, k \in Tickets :
    (/\ j # k /\ tickets[j].order = tickets[k].order
     /\ tickets[j].status \in {"OPEN", "IN_DISCUSSION"}
     /\ tickets[k].status \in {"OPEN", "IN_DISCUSSION"})
    => j \notin tickets[k].existed /\ k \notin tickets[j].existed

(* However the shop, an operator and the customer race, a ticket ends once *)
(* and keeps that ending.                                                  *)
TicketEndsOnce ==
  [][\A k \in Tickets :
       tickets[k].status \in {"RESOLVED_OFFLINE", "DECLINED", "CANCELLED"}
         => tickets'[k] = tickets[k]]_ticketVars

=============================================================================
