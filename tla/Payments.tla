------------------------------- MODULE Payments -------------------------------
(***************************************************************************)
(* The payment module of the API (apps/api/src/modules/payment) on top of  *)
(* Ordering: intents, webhooks, cash confirmations and refunds.            *)
(*                                                                         *)
(* None of its use cases runs in one transaction.  Each is a task of a     *)
(* process, a Worker serving a request or a Reactor running the refund     *)
(* loop, that commits row by row, calls the provider in between, may race  *)
(* with every other task and may die between any two of its steps.         *)
(***************************************************************************)
EXTENDS Ordering, Sequences

CONSTANTS
  Workers,             \* requests served at the same time
  Reactors,            \* API instances running the refund reactor
  AdminAsks,           \* what operators ask for: amounts, or NoDecision for
                       \* all that is left; empty when none refunds by hand
  MaxRefunds,          \* bound on the refund rows of an order
  MaxFaults            \* bound on process deaths and lost provider answers

ASSUME ProcessAssumption == Workers \cap Reactors = {}
ASSUME RefundBoundAssumption ==
  /\ AdminAsks \subseteq (Nat \ {0}) \cup {NoDecision}
  /\ MaxRefunds \in Nat /\ MaxFaults \in Nat

VARIABLES
  liveMode,   \* PAYMENT_LIVE_MODE, read when the API boots
  payments,   \* rows of `payments': one per order and idempotency-key prefix
  refunds,    \* rows of `refunds' of each order, in creation order
  psp,        \* the provider's books: money taken and given back
  tasks,      \* what each process is doing
  todo,       \* each reactor's candidates not yet handled
  faults

moneyVars == <<liveMode, payments, refunds, psp>>
taskVars == <<tasks, todo, faults>>
payVars == <<liveMode, payments, refunds, psp, tasks, todo, faults>>
allVars == <<vars, payVars>>

-----------------------------------------------------------------------------
(* State.                                                                  *)

Processes == Workers \cup Reactors

(* The idempotency keys pi:<order>, sim:<order> and manual:<order>.        *)
PaymentKind == {"pi", "sim", "manual"}
PaymentStatus ==
  {"NONE", "PENDING", "CAPTURED", "PARTIALLY_REFUNDED", "REFUNDED"}
RefundStatus == {"PENDING", "SUCCEEDED", "FAILED"}

NoPayment == [status |-> "NONE", ref |-> FALSE]

IdleTask ==
  [pc |-> "idle", order |-> Nobody, actor |-> "SYSTEM", kind |-> "pi",
   amount |-> 0, full |-> FALSE, from |-> "PAID", row |-> 0,
   answer |-> "PENDING", tally |-> 0]

PayInit ==
  /\ Init
  /\ liveMode \in BOOLEAN
  /\ payments = [o \in Orders |-> [k \in PaymentKind |-> NoPayment]]
  /\ refunds = [o \in Orders |-> <<>>]
  /\ psp = [o \in Orders |-> [charged |-> FALSE, returned |-> 0]]
  /\ tasks = [p \in Processes |-> IdleTask]
  /\ todo = [r \in Reactors |-> {}]
  /\ faults = 0

Is(p, pc) == tasks[p].pc = pc
Start(p, task) == tasks' = [tasks EXCEPT ![p] = task]
Finish(p) == Start(p, IdleTask)
Goto(p, pc) == tasks' = [tasks EXCEPT ![p].pc = pc]

(* Mutation of Attempt: the status is written without the state machine.   *)
Overwritten(o, to, actor, accepting) ==
  /\ orders' = [orders EXCEPT ![o].status = to]
  /\ UNCHANGED <<stock, ledger, statusEvents, published>>

(* A transition that the table refuses throws and changes nothing.         *)
Attempt(o, to, actor, accepting) ==
  \/ Transition(o, to, actor, accepting)
  \/ ~CanMove(o, to, actor, accepting) /\ UNCHANGED orderVars

restOfOrdering == <<menu, capEdits, request, sweep, crashes>>

-----------------------------------------------------------------------------
(* Taking money.                                                           *)

(* Mutation of SetPayment: the capture is not stored.                      *)
PaymentStaysPending(o, k, status, ref) ==
  payments' = [payments EXCEPT ![o][k] = [status |-> "PENDING", ref |-> ref]]

SetPayment(o, k, status, ref) ==
  payments' = [payments EXCEPT ![o][k] = [status |-> status, ref |-> ref]]

(* CreatePaymentIntentUseCase, step 1: the row is made durable first.      *)
OpenIntent(o) ==
  /\ orders[o].status = "PENDING_PAYMENT"
  /\ orders[o].mode = "ONLINE"
  /\ payments[o]["pi"].status = "NONE"
  /\ SetPayment(o, "pi", "PENDING", FALSE)
  /\ UNCHANGED <<vars, liveMode, refunds, psp, taskVars>>

(* Steps 2 and 3: the provider opened (or was simulated to open) the       *)
(* intent under the key pi:<order>, and its reference is stored; by then   *)
(* the order may have moved.  A failed or dead call may be retried.  The   *)
(* simulated reference, sim_<order>, is unique on the default rail.        *)
StoreRef(o) ==
  /\ payments[o]["pi"].status # "NONE"
  /\ ~payments[o]["pi"].ref
  /\ liveMode \/ payments[o]["sim"].status = "NONE"
  /\ payments' = [payments EXCEPT ![o]["pi"].ref = TRUE]
  /\ UNCHANGED <<vars, liveMode, refunds, psp, taskVars>>

(* The customer pays the intent at the provider, whenever they like.       *)
CustomerPays(o) ==
  /\ liveMode
  /\ payments[o]["pi"].ref
  /\ ~psp[o].charged
  /\ psp' = [psp EXCEPT ![o].charged = TRUE]
  /\ UNCHANGED <<vars, liveMode, payments, refunds, taskVars>>

Advance(p, o, pc, actor) ==
  Start(p, [IdleTask EXCEPT !.pc = pc, !.order = o, !.actor = actor])

(* HandlePaymentWebhookUseCase: delivered at least once, in any order with *)
(* everything else; a payment already CAPTURED short-circuits.             *)
Webhook(w, o) ==
  /\ Is(w, "idle")
  /\ psp[o].charged
  /\ payments[o]["pi"].status # "CAPTURED"
  /\ SetPayment(o, "pi", "CAPTURED", TRUE)
  /\ Advance(w, o, "advance", "SYSTEM")
  /\ UNCHANGED <<vars, liveMode, refunds, psp, todo, faults>>

(* Mutation of MaySimulate: the endpoint is open in production.            *)
AlwaysSimulates == TRUE

(* The simulation endpoint refuses to work in live mode.                   *)
MaySimulate == ~liveMode

(* SimulatePaymentUseCase: captures the PENDING row or records its own,    *)
(* under the same unique reference sim_<order>.                            *)
Simulate(w, o) ==
  /\ MaySimulate
  /\ Is(w, "idle")
  /\ orders[o].status = "PENDING_PAYMENT"
  /\ orders[o].mode = "ONLINE"
  /\ IF payments[o]["pi"].status = "PENDING"
     THEN SetPayment(o, "pi", "CAPTURED", payments[o]["pi"].ref)
     ELSE /\ payments[o]["sim"].status = "NONE"
          /\ ~payments[o]["pi"].ref
          /\ SetPayment(o, "sim", "CAPTURED", TRUE)
  /\ Advance(w, o, "advance", "SYSTEM")
  /\ UNCHANGED <<vars, liveMode, refunds, psp, todo, faults>>

(* ConfirmOrderUseCase, the counter payment: asked of the state machine,   *)
(* then upserted on manual:<order>.                                        *)
ConfirmRecord(w, o) ==
  /\ Is(w, "idle")
  /\ orders[o].status = "PENDING_PAYMENT"
  /\ CanMove(o, "PAID", "MERCHANT", TRUE)
  /\ IF payments[o]["manual"].status = "NONE"
     THEN SetPayment(o, "manual", "CAPTURED", TRUE)
     ELSE UNCHANGED payments
  /\ Advance(w, o, "settle", "MERCHANT")
  /\ UNCHANGED <<vars, liveMode, refunds, psp, todo, faults>>

(* An order past PENDING_PAYMENT is accepted directly.                     *)
ConfirmPaid(w, o) ==
  /\ Is(w, "idle")
  /\ orders[o].status \in OrderStatus \ {"PENDING_PAYMENT"}
  /\ Advance(w, o, "accept", "MERCHANT")
  /\ UNCHANGED <<vars, moneyVars, todo, faults>>

(* The transition to PAID that follows a recorded capture.                 *)
MarkPaid(w) ==
  /\ tasks[w].pc \in {"advance", "settle"}
  /\ LET o == tasks[w].order
         moved == CanMove(o, "PAID", tasks[w].actor, TRUE)
     IN /\ Attempt(o, "PAID", tasks[w].actor, TRUE)
        /\ IF Is(w, "settle") /\ moved THEN Goto(w, "accept") ELSE Finish(w)
  /\ UNCHANGED <<restOfOrdering, moneyVars, todo, faults>>

ConfirmAccept(w) ==
  /\ Is(w, "accept")
  /\ \E accepting \in BOOLEAN :
       Attempt(tasks[w].order, "ACCEPTED", "MERCHANT", accepting)
  /\ Finish(w)
  /\ UNCHANGED <<restOfOrdering, moneyVars, todo, faults>>

-----------------------------------------------------------------------------
(* Giving it back: RefundService.issue, one step per commit.               *)

Refundable == {"CAPTURED", "PARTIALLY_REFUNDED"}
RowsOf(o, k, statuses) ==
  {j \in DOMAIN refunds[o] :
     refunds[o][j].kind = k /\ refunds[o][j].status \in statuses}

(* The sum of the rows' amounts: their minor units, counted.               *)
Amounts(o, rows) ==
  Cardinality({unit \in rows \X (1 .. Total) :
                 unit[2] <= refunds[o][unit[1]].amount})

refundedTotal(o, k) == Amounts(o, RowsOf(o, k, {"SUCCEEDED"}))

(* Everything read before the refund row exists: the order, one captured   *)
(* payment (the code takes the latest), what is left of it.  `asked' being *)
(* NoDecision asks for the rest.  A payment without reference, nothing to  *)
(* give back, or too much asked, ends here.                                *)
IssueRead(p, o, asked, actor) ==
  LET captured == {k \in PaymentKind : payments[o][k].status \in Refundable}
      rest(k) == Total - refundedTotal(o, k)
      amount(k) == IF asked = NoDecision THEN rest(k) ELSE asked
      fits(k) == payments[o][k].ref /\ rest(k) > 0 /\ amount(k) <= rest(k)
  IN \/ \E k \in captured :
          /\ fits(k)
          /\ Start(p, [IdleTask EXCEPT
               !.pc = "record", !.order = o, !.actor = actor, !.kind = k,
               !.amount = amount(k), !.full = amount(k) >= rest(k),
               !.from = orders[o].status])
     \/ (captured = {} \/ \E k \in captured : ~fits(k)) /\ Finish(p)

(* "Record before calling": the PENDING row.                               *)
IssueRecord(p) ==
  LET o == tasks[p].order IN
  /\ Is(p, "record")
  /\ Len(refunds[o]) < MaxRefunds
  /\ refunds' = [refunds EXCEPT ![o] =
       Append(@, [kind |-> tasks[p].kind, amount |-> tasks[p].amount,
                  status |-> "PENDING"])]
  /\ tasks' = [tasks EXCEPT ![p].pc = "call", ![p].row = Len(refunds[o]) + 1]
  /\ UNCHANGED <<vars, liveMode, payments, psp, todo, faults>>

Answered(p, answer) ==
  tasks' = [tasks EXCEPT ![p].pc = "book", ![p].answer = answer]

(* Cash, and every rail when PAYMENT_LIVE_MODE is off, is settled by hand. *)
IssueByHand(p) ==
  /\ Is(p, "call")
  /\ tasks[p].kind = "manual" \/ ~liveMode
  /\ Answered(p, "PENDING")
  /\ UNCHANGED <<vars, moneyVars, todo, faults>>

CallsRail(p) == Is(p, "call") /\ tasks[p].kind # "manual" /\ liveMode

(* The provider never gives back more than it took.                        *)
RailCan(p) ==
  /\ psp[tasks[p].order].charged
  /\ psp[tasks[p].order].returned + tasks[p].amount <= Total

Returned(p) == psp' = [psp EXCEPT ![tasks[p].order].returned = @ + tasks[p].amount]

(* The row id is the idempotency key, so one task moves money once.        *)
RailAccepts(p) ==
  /\ CallsRail(p)
  /\ RailCan(p)
  /\ Returned(p)
  /\ \E answer \in {"SUCCEEDED", "PENDING"} : Answered(p, answer)
  /\ UNCHANGED <<vars, liveMode, payments, refunds, todo, faults>>

(* Mutation of RailRefuses: a refusal is booked as a success.              *)
RefusalSwallowed(p) ==
  /\ CallsRail(p)
  /\ Answered(p, "SUCCEEDED")
  /\ UNCHANGED <<vars, moneyVars, todo, faults>>

RailRefuses(p) ==
  /\ CallsRail(p)
  /\ Answered(p, "FAILED")
  /\ UNCHANGED <<vars, moneyVars, todo, faults>>

(* The answer is lost after the SDK's own retries: the catch block says    *)
(* FAILED, the money has moved.                                            *)
RailAnswerLost(p) ==
  /\ CallsRail(p)
  /\ RailCan(p)
  /\ faults < MaxFaults
  /\ faults' = faults + 1
  /\ Returned(p)
  /\ Answered(p, "FAILED")
  /\ UNCHANGED <<vars, liveMode, payments, refunds, todo>>

(* The row takes the answer; a success is followed by a fresh total.       *)
IssueBook(p) ==
  LET task == tasks[p]  o == task.order IN
  /\ Is(p, "book")
  /\ refunds' = [refunds EXCEPT ![o][task.row].status = task.answer]
  /\ IF task.answer = "SUCCEEDED"
     THEN tasks' = [tasks EXCEPT ![p].pc = "status",
            ![p].tally = refundedTotal(o, task.kind) + task.amount]
     ELSE Finish(p)
  /\ UNCHANGED <<vars, liveMode, payments, psp, todo, faults>>

(* Mutation of PaymentStatusOf: any refund marks the payment REFUNDED.     *)
AlwaysRefunded(tally) == "REFUNDED"

PaymentStatusOf(tally) ==
  IF tally >= Total THEN "REFUNDED" ELSE "PARTIALLY_REFUNDED"

(* Mutation of ClosesOrder: a partial refund closes the order too.         *)
ClosesOnPartial(task) ==
  "REFUNDED" \in allowedTransitions(task.from, task.actor)

ClosesOrder(task) ==
  task.full /\ "REFUNDED" \in allowedTransitions(task.from, task.actor)

(* The payment's status, from that total; a full refund closes the order   *)
(* if the status read at the start has an edge to REFUNDED.                *)
IssueStatus(p) ==
  LET task == tasks[p]  o == task.order IN
  /\ Is(p, "status")
  /\ payments' =
       [payments EXCEPT ![o][task.kind].status = PaymentStatusOf(task.tally)]
  /\ IF ClosesOrder(task) THEN Goto(p, "close") ELSE Finish(p)
  /\ UNCHANGED <<vars, liveMode, refunds, psp, todo, faults>>

IssueClose(p) ==
  /\ Is(p, "close")
  /\ Attempt(tasks[p].order, "REFUNDED", tasks[p].actor, TRUE)
  /\ Finish(p)
  /\ UNCHANGED <<restOfOrdering, moneyVars, todo, faults>>

(* AdminOrdersService.refund, and the tickets that go through it.          *)
AdminRefund(w, o) ==
  /\ Is(w, "idle")
  /\ orders[o].status \in OrderStatus
  /\ \E asked \in AdminAsks : IssueRead(w, o, asked, "ADMIN")
  /\ UNCHANGED <<vars, moneyVars, todo, faults>>

-----------------------------------------------------------------------------
(* OrderRefundReactorService.                                              *)

Closed == {"REJECTED", "CANCELLED", "EXPIRED"}
MAX_FAILED_ATTEMPTS == 3

RefundsIn(o, statuses) ==
  {j \in DOMAIN refunds[o] : refunds[o][j].status \in statuses}

(* Mutation of Owed: money that arrives after the closing is forgotten.    *)
OwedIfDecided(o) == orders[o].refundDue > 0

(* A positive decision, or none at all and not a no-show.                  *)
Owed(o) ==
  \/ orders[o].refundDue > 0
  \/ /\ orders[o].refundDue = NoDecision
     /\ ~(orders[o].status = "EXPIRED" /\ orders[o].readyAt)

Candidate(o) ==
  /\ orders[o].status \in Closed
  /\ Owed(o)
  /\ \E k \in PaymentKind :
       payments[o][k].status \in Refundable /\ payments[o][k].ref
  /\ RefundsIn(o, {"PENDING", "SUCCEEDED"}) = {}
  /\ Cardinality(RefundsIn(o, {"FAILED"})) < MAX_FAILED_ATTEMPTS

(* Mutation of findCandidates: the decision is not carried along.          *)
findWithoutDue ==
  {[order |-> o, due |-> NoDecision] : o \in {x \in Orders : Candidate(x)}}

findCandidates ==
  {[order |-> o, due |-> orders[o].refundDue] : o \in {x \in Orders : Candidate(x)}}

ReactorList(r) ==
  /\ Is(r, "idle")
  /\ todo[r] = {}
  /\ findCandidates # {}
  /\ todo' = [todo EXCEPT ![r] = findCandidates]
  /\ UNCHANGED <<vars, moneyVars, tasks, faults>>

ReactorIssue(r) ==
  /\ Is(r, "idle")
  /\ \E candidate \in todo[r] :
       /\ todo' = [todo EXCEPT ![r] = @ \ {candidate}]
       /\ IssueRead(r, candidate.order, candidate.due, "SYSTEM")
  /\ UNCHANGED <<vars, moneyVars, faults>>

(* The process dies: its task stops where it is, its candidates are lost.  *)
Crash(p) ==
  /\ faults < MaxFaults
  /\ \/ ~Is(p, "idle")
     \/ p \in Reactors /\ todo[p] # {}
  /\ Finish(p)
  /\ todo' = [r \in Reactors |-> IF r = p THEN {} ELSE todo[r]]
  /\ faults' = faults + 1
  /\ UNCHANGED <<vars, moneyVars>>

-----------------------------------------------------------------------------
Paid(w) == MarkPaid(w) \/ ConfirmAccept(w)

Issuing(p) ==
  \/ IssueRecord(p) \/ IssueByHand(p) \/ RailAccepts(p) \/ RailRefuses(p)
  \/ RailAnswerLost(p) \/ IssueBook(p) \/ IssueStatus(p) \/ IssueClose(p)

Requested(w) ==
  \E o \in Orders :
    \/ Webhook(w, o) \/ Simulate(w, o) \/ ConfirmRecord(w, o)
    \/ ConfirmPaid(w, o) \/ AdminRefund(w, o)

Reacting(r) == ReactorList(r) \/ ReactorIssue(r) \/ Issuing(r)

(* Everything in Ordering but the moves made through this module.          *)
OrderingStep ==
  \/ \E o \in Orders :
       Placing(o) \/ CustomerCancel(o) \/ Staffed(o) \/ DeadlinePasses(o)
  \/ \E i \in Items : Selling(i)
  \/ \E s \in Sweepers : Sweeping(s) \/ SweepCrash(s)

PayNext ==
  \/ OrderingStep /\ UNCHANGED payVars
  \/ \E o \in Orders : OpenIntent(o) \/ StoreRef(o) \/ CustomerPays(o)
  \/ \E w \in Workers : Requested(w) \/ Paid(w) \/ Issuing(w)
  \/ \E r \in Reactors : Reacting(r)
  \/ \E p \in Processes : Crash(p)

PaySpec == PayInit /\ [][PayNext]_allVars

(* A running request and a running loop go on; the provider redelivers a   *)
(* webhook until it is answered; clocks run out.                           *)
FairPaySpec ==
  /\ PaySpec
  /\ \A w \in Workers : WF_allVars(Paid(w) \/ Issuing(w))
  /\ \A r \in Reactors : WF_allVars(Reacting(r))
  /\ \A s \in Sweepers : WF_allVars(Sweeping(s) /\ UNCHANGED payVars)
  /\ \A o \in Orders :
       /\ WF_allVars(DeadlinePasses(o) /\ UNCHANGED payVars)
       /\ SF_allVars(\E w \in Workers : Webhook(w, o))

-----------------------------------------------------------------------------
(* Properties.                                                             *)

Task ==
  [pc : {"idle", "advance", "settle", "accept", "record", "call", "book",
         "status", "close"},
   order : Orders \cup {Nobody}, actor : OrderActor, kind : PaymentKind,
   amount : 0 .. Total, full : BOOLEAN, from : OrderStatus,
   row : 0 .. MaxRefunds, answer : RefundStatus, tally : Nat]

RefundRow == [kind : PaymentKind, amount : 1 .. Total, status : RefundStatus]

(* Every row, every task and the provider's books have their type.         *)
PayTypeOK ==
  /\ TypeOK
  /\ liveMode \in BOOLEAN
  /\ payments \in
       [Orders -> [PaymentKind -> [status : PaymentStatus, ref : BOOLEAN]]]
  /\ refunds \in [Orders -> Seq(RefundRow)]
  /\ \A o \in Orders : Len(refunds[o]) <= MaxRefunds
  /\ psp \in [Orders -> [charged : BOOLEAN, returned : 0 .. Total]]
  /\ tasks \in [Processes -> Task]
  /\ todo \in [Reactors ->
       SUBSET [order : Orders, due : (Nat \ {0}) \cup {NoDecision}]]
  /\ faults \in 0 .. MaxFaults

(* An order the payment module moved to PAID has a payment that was taken: *)
(* capture first, advance second, whatever dies in between.                *)
PaidOrderHasCapture ==
  \A o \in Orders :
    orders[o].paidBy \in {"SYSTEM", "MERCHANT"} =>
      \E k \in PaymentKind :
        payments[o][k].status \notin {"NONE", "PENDING"}

(* Live or not, no row claims an online capture the provider never made.   *)
CaptureIsReal ==
  \A o \in Orders :
    liveMode /\ payments[o]["pi"].status \notin {"NONE", "PENDING"}
      => psp[o].charged

(* What the tables say was returned was returned, and what was returned    *)
(* has left a refund row, whichever answers are lost and tasks die.        *)
BooksBracketTheProvider ==
  liveMode =>
    \A o \in Orders :
      /\ refundedTotal(o, "pi") <= psp[o].returned
      /\ psp[o].returned <= Amounts(o, RowsOf(o, "pi", RefundStatus))

(* A payment marked REFUNDED has been refunded in full, although the total *)
(* is read before the status is written and other refunds run meanwhile.   *)
RefundedPaymentIsCovered ==
  \A o \in Orders : \A k \in PaymentKind :
    payments[o][k].status = "REFUNDED" => refundedTotal(o, k) >= Total

(* An order closed as REFUNDED (no operator forced it) got all its money   *)
(* back: a partial or pending refund never closes an order.                *)
RefundedOrderGotItsMoney ==
  \A o \in Orders :
    orders[o].status = "REFUNDED" =>
      \E k \in PaymentKind : refundedTotal(o, k) >= Total

(* The reactor returns what was decided, or everything when nobody         *)
(* decided; never for a no-show, whose merchant is paid.                   *)
ReactorPaysTheDecision ==
  [][\A r \in Reactors :
       Is(r, "record") /\ tasks'[r].pc = "call" =>
         LET o == tasks[r].order IN
         /\ ~(orders[o].status = "EXPIRED" /\ orders[o].readyAt)
         /\ IF orders[o].refundDue = NoDecision THEN tasks[r].full
            ELSE tasks[r].amount = orders[o].refundDue]_allVars

(* Payments only adds behaviour to Ordering's own: it moves orders by the  *)
(* table and touches nothing else of Ordering's.                           *)
ImplementsOrdering == Spec

(* What a closed order should give back: the decision, or everything when  *)
(* nobody decided.                                                         *)
Decided(o) == IF orders[o].refundDue = NoDecision THEN Total ELSE orders[o].refundDue

(* What is on its way back or went back.                                   *)
OnItsWayBack(o) == Amounts(o, RefundsIn(o, {"PENDING", "SUCCEEDED"}))

(* The order is being served or was, or all that was decided is on its way *)
(* back, or three attempts failed and a human has it.                      *)
MoneySettled(o) ==
  \/ orders[o].status \in {"ACCEPTED", "PREPARING", "READY_FOR_PICKUP",
                           "COMPLETED", "REFUNDED"}
  \/ orders[o].status = "EXPIRED" /\ orders[o].readyAt
  \/ OnItsWayBack(o) >= Decided(o)
  \/ Cardinality(RefundsIn(o, {"FAILED"})) >= MAX_FAILED_ATTEMPTS

(* Money the provider took never sits with an order that is neither served *)
(* nor being refunded as decided: webhook, sweeper and reactor together    *)
(* see to it where no operator refunds by hand.                            *)
ChargedMoneyIsSettled ==
  \A o \in Orders : psp[o].charged ~> MoneySettled(o)

(* issue()'s comment: a retried request cannot refund twice.  With nobody  *)
(* but the reactor refunding, no more than was decided goes back.          *)
NeverReturnsMoreThanDecided ==
  \A o \in Orders :
    orders[o].refundDue # NoDecision => psp[o].returned <= orders[o].refundDue

=============================================================================
