---------------------------- MODULE PaymentsProofs ----------------------------
(***************************************************************************)
(* What holds of Payments for every set of orders, processes and amounts:  *)
(* it implements Ordering, no order is PAID without a capture or REFUNDED  *)
(* without its money, and the refund rows bracket what the provider gave   *)
(* back, whatever races, dies or is answered too late.                     *)
(***************************************************************************)
EXTENDS Payments, OrderingProofs, SequenceTheorems

-----------------------------------------------------------------------------
(* The inductive invariant.  What a task may still do was decided when it  *)
(* read; the invariant says what of that is still true when it acts.       *)

(* The minor units of some rows of an order's refund list, and what a list *)
(* says was returned of a payment.  (Amounts and refundedTotal, with the   *)
(* list as a parameter, to compare two states.)                            *)
Minors(list, rows) ==
  {unit \in rows \X (1 .. Total) : unit[2] <= list[unit[1]].amount}
Sum(list, rows) == Cardinality(Minors(list, rows))
Succeeded(list, k) ==
  {j \in DOMAIN list : list[j].kind = k /\ list[j].status = "SUCCEEDED"}
SumOf(list, k) == Sum(list, Succeeded(list, k))

(* The money of this payment was taken.                                    *)
Taken(pays, o, k) == pays[o][k].status \notin {"NONE", "PENDING"}

Settling == {"advance", "settle"}
Issued == {"record", "call", "book", "status", "close"}
Owning == {"call", "book"}     \* between a refund row's two commits

(* The row a task works on is as the task wrote it.                        *)
OwnsRow(task, lists) ==
  /\ task.row \in DOMAIN lists[task.order]
  /\ lists[task.order][task.row].kind = task.kind
  /\ lists[task.order][task.row].amount = task.amount
  /\ lists[task.order][task.row].status = "PENDING"

(* A refund that was full when it was read is full when it ends: what has  *)
(* succeeded meanwhile only adds to it.                                    *)
StaysFull(task, total) ==
  /\ task.pc \in {"record", "call", "book"} /\ task.full
       => task.amount + total >= Total
  /\ task.pc = "status" => task.tally <= total
  /\ task.pc = "status" /\ task.full => task.tally >= Total
  /\ task.pc = "close" => total >= Total

Informed(task, pays, lists) ==
  /\ task.pc # "idle" => task.order \in Orders
  /\ task.pc = "advance" => task.actor = "SYSTEM"
  /\ task.pc = "settle" => task.actor = "MERCHANT"
  /\ task.pc \in Settling => \E k \in PaymentKind : Taken(pays, task.order, k)
  /\ task.pc \in Issued =>
       /\ task.actor \in STAFF
       /\ Taken(pays, task.order, task.kind)
       /\ task.amount > 0
       /\ StaysFull(task, SumOf(lists[task.order], task.kind))
  /\ task.pc \in Owning => OwnsRow(task, lists)

TaskOK(p) == Informed(tasks[p], payments, refunds)

(* No two tasks work on the same refund row.                               *)
RowsAreOwnedOnce ==
  \A p, q \in Processes :
    tasks[p].pc \in Owning /\ tasks[q].pc \in Owning /\ p # q
      => tasks[p].order # tasks[q].order \/ tasks[p].row # tasks[q].row

(* The order's refund is settled as `due' says and will stay so: it is     *)
(* closed for good, was no no-show, and decisions are final.               *)
Due(o, due) ==
  /\ orders[o].status \in Unserved \cup {"REFUNDED"}
  /\ ~(orders[o].status = "EXPIRED" /\ orders[o].readyAt)
  /\ orders[o].refundDue = due

(* A refund of all that is left where nobody decided, else of the decision. *)
Instructed(task) ==
  \/ task.full /\ Due(task.order, NoDecision)
  \/ Due(task.order, task.amount)

ReactorOK ==
  \A r \in Reactors :
    /\ \A candidate \in todo[r] : Due(candidate.order, candidate.due)
    /\ Is(r, "record") => Instructed(tasks[r])

(* Cash is recorded when it is there, never before.                        *)
CashIsTaken == \A o \in Orders : payments[o]["manual"].status # "PENDING"

PayInv ==
  /\ IInv
  /\ PayTypeOK
  /\ CashIsTaken
  /\ \A p \in Processes : TaskOK(p)
  /\ RowsAreOwnedOnce
  /\ ReactorOK
  /\ PaidOrderHasCapture
  /\ CaptureIsReal
  /\ RefundedPaymentIsCovered

(* The provider's books: rows whose success is booked or about to be have  *)
(* moved money, and rows still to be sent to the provider have not.        *)
Confirmed(o) ==
  RowsOf(o, "pi", {"SUCCEEDED"}) \cup
  {tasks[p].row : p \in {q \in Processes :
     /\ Is(q, "book") /\ tasks[q].answer = "SUCCEEDED"
     /\ tasks[q].order = o /\ tasks[q].kind = "pi"}}

Unsent(o) ==
  {tasks[p].row : p \in {q \in Processes : Is(q, "call") /\ tasks[q].order = o}}

Sent(o) == RowsOf(o, "pi", RefundStatus) \ Unsent(o)

(* What was returned lies between the two; no rail but the provider's gave *)
(* anything back.                                                          *)
Bracket(o) ==
  /\ Sum(refunds[o], Confirmed(o)) <= psp[o].returned
  /\ psp[o].returned <= Sum(refunds[o], Sent(o))

BooksOK ==
  liveMode =>
    \A o \in Orders : payments[o]["sim"].status = "NONE" /\ Bracket(o)

-----------------------------------------------------------------------------
(* Sums of amounts.                                                        *)

(* A refund list and the numbers of its rows.                              *)
LEMMA ListShape ==
  ASSUME NEW list \in Seq(RefundRow)
  PROVE  /\ Len(list) \in Nat /\ DOMAIN list = 1 .. Len(list)
         /\ \A j \in DOMAIN list : list[j] \in RefundRow
OBVIOUS

(* Finitely many rows have finitely many minor units.                      *)
LEMMA MinorsAreFinite ==
  ASSUME NEW list \in Seq(RefundRow), NEW rows \in SUBSET DOMAIN list
  PROVE  IsFiniteSet(Minors(list, rows)) /\ Sum(list, rows) \in Nat
<1>1. PICK n \in Nat : DOMAIN list = 1 .. n BY ListShape
<1>2. IsFiniteSet(1 .. n) BY FS_Interval
<1>3. IsFiniteSet(rows) BY <1>1, <1>2, FS_Subset
<1>4. IsFiniteSet(1 .. Total)
  <2>1. 1 \in Int /\ Total \in Int BY TotalAssumption
  <2> QED BY <2>1, FS_Interval
<1>5. IsFiniteSet(rows \X (1 .. Total)) BY <1>3, <1>4, FS_Product
<1>6. Minors(list, rows) \in SUBSET (rows \X (1 .. Total)) BY DEF Minors
<1> QED BY <1>5, <1>6, FS_Subset, FS_CardinalityType DEF Sum

(* Fewer rows, or rows of the same amounts in a longer list, sum to no     *)
(* more.                                                                   *)
LEMMA SumGrows ==
  ASSUME NEW list, NEW next \in Seq(RefundRow),
         NEW rows, NEW more \in SUBSET DOMAIN next, rows \subseteq more,
         \A j \in rows : next[j].amount = list[j].amount
  PROVE  Sum(list, rows) <= Sum(next, more)
<1>1. Minors(list, rows) \in SUBSET Minors(next, more) BY DEF Minors
<1>2. IsFiniteSet(Minors(next, more)) BY MinorsAreFinite
<1> QED BY <1>1, <1>2, FS_Subset DEF Sum

(* The amounts of the same rows sum to the same.                           *)
LEMMA SumFrame ==
  ASSUME NEW list, NEW next, NEW rows,
         \A j \in rows : next[j].amount = list[j].amount
  PROVE  Sum(next, rows) = Sum(list, rows)
<1>1. Minors(next, rows) = Minors(list, rows) BY DEF Minors
<1> QED BY <1>1 DEF Sum

(* One more row adds its amount.                                           *)
LEMMA SumAdds ==
  ASSUME NEW list \in Seq(RefundRow), NEW rows \in SUBSET DOMAIN list,
         NEW j \in DOMAIN list \ rows
  PROVE  Sum(list, rows \cup {j}) = Sum(list, rows) + list[j].amount
<1> DEFINE rest == Minors(list, rows)
           own == Minors(list, {j})
<1>1. PICK amount \in 1 .. Total : amount = list[j].amount
  BY ListShape DEF RefundRow
<1>2. /\ IsFiniteSet(rest) /\ Cardinality(rest) \in Nat
      /\ IsFiniteSet(own) /\ Cardinality(own) \in Nat
  <2>1. {j} \in SUBSET DOMAIN list OBVIOUS
  <2> QED BY <2>1, MinorsAreFinite DEF Sum
<1>3. own = {j} \X (1 .. amount) BY <1>1, TotalAssumption DEF Minors
<1>4. Cardinality(own) = amount
  <2>1. 1 \in Int /\ amount \in Int /\ amount >= 0 BY TotalAssumption
  <2>2. IsFiniteSet(1 .. amount) /\ Cardinality(1 .. amount) = amount
    BY <2>1, FS_Interval
  <2>3. IsFiniteSet({j}) /\ Cardinality({j}) = 1 BY FS_Singleton
  <2>4. Cardinality({j} \X (1 .. amount)) = 1 * amount
    BY <2>2, <2>3, FS_Product
  <2> HIDE DEF own
  <2> QED BY <1>3, <2>1, <2>4
<1>5. Minors(list, rows \cup {j}) = rest \cup own BY DEF Minors
<1>6. Cardinality(rest \cap own) = 0
  <2>1. rest \cap own = {} BY DEF Minors
  <2> QED BY <2>1, FS_EmptySet
<1> HIDE DEF rest, own
<1>7. Cardinality(rest \cup own)
        = Cardinality(rest) + Cardinality(own) - Cardinality(rest \cap own)
  BY <1>2, FS_Union
<1>8. Cardinality(rest \cup own) = Cardinality(rest) + amount
  BY <1>2, <1>4, <1>6, <1>7
<1> QED BY <1>1, <1>5, <1>8 DEF Sum, rest

(* What a list says was returned is a number of minor units.               *)
LEMMA SumOfIsNat ==
  ASSUME NEW list \in Seq(RefundRow), NEW k
  PROVE  SumOf(list, k) \in Nat
<1>1. Succeeded(list, k) \in SUBSET DOMAIN list BY DEF Succeeded
<1> QED BY <1>1, MinorsAreFinite DEF SumOf

(* Rows are appended and take answers; what succeeded stays so.            *)
ListGrows(list, next) ==
  \A j \in DOMAIN list :
    /\ j \in DOMAIN next
    /\ next[j].kind = list[j].kind /\ next[j].amount = list[j].amount
    /\ list[j].status = "SUCCEEDED" => next[j].status = "SUCCEEDED"

(* So what was returned never shrinks.                                     *)
LEMMA SumOfGrows ==
  ASSUME NEW list, NEW next \in Seq(RefundRow), NEW k, ListGrows(list, next)
  PROVE  SumOf(list, k) <= SumOf(next, k)
<1>1. Succeeded(list, k) \subseteq Succeeded(next, k)
  BY DEF Succeeded, ListGrows
<1>2. Succeeded(next, k) \in SUBSET DOMAIN next BY DEF Succeeded
<1>3. \A j \in Succeeded(list, k) : next[j].amount = list[j].amount
  BY DEF Succeeded, ListGrows
<1> QED BY <1>1, <1>2, <1>3, SumGrows DEF SumOf

(* Booking a success adds the row's amount to what was returned.           *)
LEMMA SumOfBooked ==
  ASSUME NEW list \in Seq(RefundRow), NEW next \in Seq(RefundRow),
         NEW j \in DOMAIN list, list[j].status = "PENDING",
         DOMAIN next = DOMAIN list,
         \A x \in DOMAIN list \ {j} : next[x] = list[x],
         next[j] = [list[j] EXCEPT !.status = "SUCCEEDED"]
  PROVE  SumOf(next, list[j].kind) = SumOf(list, list[j].kind) + list[j].amount
<1> DEFINE k == list[j].kind
           before == Succeeded(list, k)
<1>1. \A x \in DOMAIN list : list[x] \in RefundRow BY ListShape
<1>2. DOMAIN next = DOMAIN list OBVIOUS
<1>3. /\ \A x \in DOMAIN list \ {j} : next[x] = list[x]
      /\ next[j].kind = k /\ next[j].amount = list[j].amount
      /\ next[j].status = "SUCCEEDED"
  BY <1>1 DEF RefundRow
<1>4. j \notin before /\ before \in SUBSET DOMAIN list BY DEF Succeeded
<1>5. Succeeded(next, k) = before \cup {j}
  BY <1>2, <1>3 DEF Succeeded
<1>6. Sum(next, before \cup {j}) = Sum(next, before) + list[j].amount
  <2>1. before \in SUBSET DOMAIN next /\ j \in DOMAIN next \ before
    BY <1>2, <1>4
  <2>2. Sum(next, before \cup {j}) = Sum(next, before) + next[j].amount
    <3> HIDE DEF before
    <3> QED BY <2>1, SumAdds, Zenon
  <2> QED BY <1>3, <2>2
<1>7. Sum(next, before) = Sum(list, before)
  <2>1. \A x \in before : next[x].amount = list[x].amount BY <1>3, <1>4
  <2> HIDE DEF before
  <2>2. Minors(next, before) = Minors(list, before) BY <2>1 DEF Minors
  <2> QED BY <2>2 DEF Sum
<1> QED BY <1>5, <1>6, <1>7 DEF SumOf

(* The model's sums are these.                                             *)
LEMMA AmountsAreSums ==
  ASSUME NEW o
  PROVE  /\ \A rows : Amounts(o, rows) = Sum(refunds[o], rows)
         /\ \A k : refundedTotal(o, k) = SumOf(refunds[o], k)
<1>1. \A rows : Amounts(o, rows) = Sum(refunds[o], rows)
  BY DEF Amounts, Sum, Minors
<1>2. \A k : RowsOf(o, k, {"SUCCEEDED"}) = Succeeded(refunds[o], k)
  BY DEF RowsOf, Succeeded
<1> QED BY <1>1, <1>2 DEF refundedTotal, SumOf

(* The same after a step.                                                  *)
LEMMA AmountsAreSumsNext ==
  ASSUME NEW o
  PROVE  \A k : refundedTotal(o, k)' = SumOf(refunds'[o], k)
<1>1. \A k : RowsOf(o, k, {"SUCCEEDED"})' = Succeeded(refunds'[o], k)
  BY DEF RowsOf, Succeeded
<1> QED BY <1>1 DEF refundedTotal, Amounts, SumOf, Sum, Minors

-----------------------------------------------------------------------------
(* The steps, and what each does to a task.                                *)

(* The steps of PayNext, with the process that takes them.                 *)
LEMMA PayCases ==
  ASSUME [PayNext]_allVars
  PROVE  \/ UNCHANGED allVars
         \/ OrderingStep /\ UNCHANGED payVars
         \/ \E o \in Orders : OpenIntent(o) \/ StoreRef(o) \/ CustomerPays(o)
         \/ \E p \in Workers, o \in Orders :
              \/ Webhook(p, o) \/ Simulate(p, o) \/ ConfirmRecord(p, o)
              \/ ConfirmPaid(p, o) \/ AdminRefund(p, o)
         \/ \E p \in Workers : MarkPaid(p) \/ ConfirmAccept(p)
         \/ \E p \in Processes : Issuing(p)
         \/ \E p \in Reactors : ReactorList(p) \/ ReactorIssue(p)
         \/ \E p \in Processes : Crash(p)
BY Zenon DEF PayNext, Requested, Paid, Reacting, Processes

(* The others' tasks are left alone.                                       *)
Others(p) ==
  /\ tasks' = [q \in Processes |-> tasks'[q]]
  /\ \A q \in Processes \ {p} : tasks'[q] = tasks[q]

(* A process that starts a task has it.                                    *)
LEMMA Started ==
  ASSUME PayTypeOK, NEW p \in Processes, NEW task, Start(p, task)
  PROVE  tasks'[p] = task /\ Others(p)
BY DEF PayTypeOK, Start, Others

(* A process that goes on keeps everything but its place.                  *)
LEMMA GoneOn ==
  ASSUME PayTypeOK, NEW p \in Processes, NEW pc, Goto(p, pc)
  PROVE  tasks'[p] = [tasks[p] EXCEPT !.pc = pc] /\ Others(p)
BY DEF PayTypeOK, Goto, Others

(* An idle task is a task.                                                 *)
LEMMA IdleShape ==
  IdleTask \in Task /\ IdleTask.pc = "idle" /\ IdleTask.full = FALSE
<1>1. 0 \in 0 .. Total /\ 0 \in 0 .. MaxRefunds
  BY TotalAssumption, RefundBoundAssumption
<1> QED
  BY <1>1 DEF IdleTask, Task, OrderActor, PaymentKind, OrderStatus, RefundStatus

AdvanceTask(o, pc, actor) ==
  [IdleTask EXCEPT !.pc = pc, !.order = o, !.actor = actor]

(* What the task of a capture or a confirmation is.                        *)
LEMMA AdvanceShape ==
  ASSUME NEW o \in Orders, NEW pc \in {"advance", "settle", "accept"},
         NEW actor \in OrderActor
  PROVE  LET task == AdvanceTask(o, pc, actor)
         IN /\ task \in Task
            /\ task.pc = pc /\ task.order = o /\ task.actor = actor
<1>1. 0 \in 0 .. Total /\ 0 \in 0 .. MaxRefunds
  BY TotalAssumption, RefundBoundAssumption
<1> QED
  BY <1>1 DEF AdvanceTask, IdleTask, Task, OrderActor, PaymentKind, OrderStatus, RefundStatus

RecordTask(o, actor, k, amount, full, from) ==
  [IdleTask EXCEPT !.pc = "record", !.order = o, !.actor = actor, !.kind = k,
                   !.amount = amount, !.full = full, !.from = from]

(* What a task that has read what it refunds is.                           *)
LEMMA RecordShape ==
  ASSUME NEW o \in Orders, NEW actor \in OrderActor, NEW k \in PaymentKind,
         NEW amount \in 0 .. Total, NEW full \in BOOLEAN,
         NEW from \in OrderStatus
  PROVE  LET task == RecordTask(o, actor, k, amount, full, from)
         IN /\ task \in Task
            /\ task.pc = "record" /\ task.order = o /\ task.actor = actor
            /\ task.kind = k /\ task.amount = amount /\ task.full = full
BY IdleShape DEF Task, RecordTask

-----------------------------------------------------------------------------
(* Payments implements Ordering.                                           *)

(* Asking for a transition is making it, or being refused and changing     *)
(* nothing.                                                                *)
LEMMA AttemptCases ==
  ASSUME NEW o, NEW to, NEW actor, NEW accepting,
         Attempt(o, to, actor, accepting), UNCHANGED restOfOrdering
  PROVE  \/ Transition(o, to, actor, accepting)
            /\ UNCHANGED <<menu, capEdits, request, sweep, crashes>>
         \/ UNCHANGED vars
BY DEF Attempt, restOfOrdering, orderVars, vars

(* A step of the payment module is a move of Ordering's or none at all:    *)
(* the tasks that move orders carry the actors the table knows them by.    *)
LEMMA StepIsOrderings ==
  ASSUME PayInv, [PayNext]_allVars
  PROVE  [Next]_vars
<1>1. ASSUME NEW p \in Processes, tasks[p].pc # "idle"
      PROVE  tasks[p].order \in Orders
  BY <1>1 DEF PayInv, TaskOK, Informed
<1>2. CASE OrderingStep BY Zenon, <1>2 DEF OrderingStep, Next
<1>3. ASSUME NEW p \in Workers, MarkPaid(p) PROVE [Next]_vars
  <2> DEFINE o == tasks[p].order
             actor == tasks[p].actor
  <2>1. p \in Processes BY DEF Processes
  <2>2. tasks[p].pc # "idle" BY <1>3 DEF MarkPaid
  <2>3. o \in Orders BY <1>1, <2>1, <2>2
  <2>4. actor \in {"SYSTEM", "MERCHANT"}
    BY <1>3, <2>1 DEF MarkPaid, PayInv, TaskOK, Informed
  <2>5. Attempt(o, "PAID", actor, TRUE) /\ UNCHANGED restOfOrdering
    BY <1>3 DEF MarkPaid
  <2> HIDE DEF o, actor
  <2>6. PaymentMove(o, "PAID", actor) \/ UNCHANGED vars
    BY <2>5, AttemptCases DEF PaymentMove
  <2> QED BY Zenon, <2>3, <2>4, <2>6 DEF Next, Paying
<1>4. ASSUME NEW p \in Workers, ConfirmAccept(p) PROVE [Next]_vars
  <2> DEFINE o == tasks[p].order
  <2>1. p \in Processes BY DEF Processes
  <2>2. tasks[p].pc # "idle" BY <1>4 DEF ConfirmAccept, Is
  <2>3. o \in Orders BY <1>1, <2>1, <2>2
  <2>4. PICK accepting \in BOOLEAN :
          Attempt(o, "ACCEPTED", "MERCHANT", accepting)
    BY <1>4 DEF ConfirmAccept
  <2>5. UNCHANGED restOfOrdering BY <1>4 DEF ConfirmAccept
  <2> HIDE DEF o
  <2>6. MerchantMove(o, "ACCEPTED") \/ UNCHANGED vars
    BY <2>4, <2>5, AttemptCases DEF MerchantMove
  <2>7. "ACCEPTED" \in MerchantTargets BY DEF MerchantTargets
  <2> QED BY Zenon, <2>3, <2>6, <2>7 DEF Next, Staffed
<1>5. ASSUME NEW p \in Processes, IssueClose(p) PROVE [Next]_vars
  <2> DEFINE o == tasks[p].order
             actor == tasks[p].actor
  <2>1. tasks[p].pc = "close" BY <1>5 DEF IssueClose, Is
  <2>2. o \in Orders BY <1>1, <2>1
  <2>3. actor \in STAFF BY <2>1 DEF PayInv, TaskOK, Informed, Issued
  <2>4. Attempt(o, "REFUNDED", actor, TRUE) /\ UNCHANGED restOfOrdering
    BY <1>5 DEF IssueClose
  <2> HIDE DEF o, actor
  <2>5. PaymentMove(o, "REFUNDED", actor) \/ UNCHANGED vars
    BY <2>4, AttemptCases DEF PaymentMove
  <2> QED BY Zenon, <2>2, <2>3, <2>5 DEF Next, Paying
<1>6. ASSUME NEW p \in Processes, Issuing(p) PROVE [Next]_vars
  BY <1>5, <1>6
  DEF Issuing, IssueRecord, IssueByHand, RailAccepts, RailRefuses,
      RailAnswerLost, IssueBook, IssueStatus
<1>7. ASSUME NEW p, NEW o,
             \/ Webhook(p, o) \/ Simulate(p, o) \/ ConfirmRecord(p, o)
             \/ ConfirmPaid(p, o) \/ AdminRefund(p, o)
             \/ OpenIntent(o) \/ StoreRef(o) \/ CustomerPays(o)
             \/ ReactorList(p) \/ ReactorIssue(p) \/ Crash(p)
      PROVE  UNCHANGED vars
  BY <1>7
  DEF Webhook, Simulate, ConfirmRecord, ConfirmPaid, AdminRefund, OpenIntent,
      StoreRef, CustomerPays, ReactorList, ReactorIssue, Crash
<1>8. UNCHANGED allVars => UNCHANGED vars BY DEF allVars
<1> QED BY <1>2, <1>3, <1>4, <1>6, <1>7, <1>8, PayCases

-----------------------------------------------------------------------------
(* The rows of `payments' and `refunds'.                                   *)

PaymentsTyped ==
  /\ payments \in
       [Orders -> [PaymentKind -> [status : PaymentStatus, ref : BOOLEAN]]]
  /\ CashIsTaken

(* A payment row once taken never becomes untaken.                         *)
StayTaken ==
  \A o \in Orders, k \in PaymentKind : Taken(payments, o, k) => Taken(payments', o, k)

Writes(o, k, row) == payments' = [payments EXCEPT ![o][k] = row]

(* What a write to one payment row does.                                   *)
LEMMA PaymentWritten ==
  ASSUME PayTypeOK, CashIsTaken, NEW o \in Orders, NEW k \in PaymentKind,
         NEW row \in [status : PaymentStatus, ref : BOOLEAN],
         Writes(o, k, row), k = "manual" => row.status # "PENDING",
         Taken(payments, o, k) => row.status \notin {"NONE", "PENDING"}
  PROVE  /\ PaymentsTyped' /\ StayTaken
         /\ payments'[o][k] = row
         /\ \A x \in Orders, y \in PaymentKind :
              x # o \/ y # k => payments'[x][y] = payments[x][y]
<1>1. payments \in [Orders -> [PaymentKind -> [status : PaymentStatus, ref : BOOLEAN]]]
  BY DEF PayTypeOK
<1>2. payments' = [payments EXCEPT ![o] = [payments[o] EXCEPT ![k] = row]]
  BY <1>1 DEF Writes
<1>3. [payments[o] EXCEPT ![k] = row]
        \in [PaymentKind -> [status : PaymentStatus, ref : BOOLEAN]]
  BY <1>1
<1>5. /\ payments'[o][k] = row
      /\ \A x \in Orders, y \in PaymentKind :
           x # o \/ y # k => payments'[x][y] = payments[x][y]
  BY <1>1, <1>2
<1>4. PaymentsTyped'
  <2>1. ASSUME NEW x \in Orders PROVE payments'[x]["manual"].status # "PENDING"
    BY <1>5 DEF CashIsTaken, PaymentKind
  <2> QED BY <1>1, <1>2, <1>3, <2>1 DEF PaymentsTyped, CashIsTaken
<1>6. StayTaken
  <2> SUFFICES ASSUME NEW x \in Orders, NEW y \in PaymentKind, Taken(payments, x, y)
               PROVE  Taken(payments', x, y)
    BY DEF StayTaken
  <2>1. CASE x = o /\ y = k BY <1>5, <2>1 DEF Taken
  <2>2. CASE x # o \/ y # k
    <3>1. payments'[x][y] = payments[x][y] BY <1>5, <2>2
    <3> QED BY <3>1 DEF Taken
  <2> QED BY <2>1, <2>2
<1> QED BY <1>4, <1>5, <1>6

(* SetPayment, which never unsets a capture.                               *)
LEMMA PaymentSet ==
  ASSUME PayTypeOK, CashIsTaken, NEW o \in Orders, NEW k \in PaymentKind,
         NEW status \in PaymentStatus, NEW ref \in BOOLEAN,
         SetPayment(o, k, status, ref), k = "manual" => status # "PENDING",
         status = "PENDING" => ~Taken(payments, o, k), status # "NONE"
  PROVE  /\ PaymentsTyped' /\ StayTaken
         /\ payments'[o][k].status = status
         /\ \A x \in Orders, y \in PaymentKind :
              x # o \/ y # k => payments'[x][y] = payments[x][y]
<1> DEFINE row == [status |-> status, ref |-> ref]
<1>1. row \in [status : PaymentStatus, ref : BOOLEAN] /\ row.status = status
  OBVIOUS
<1>2. Writes(o, k, row) BY DEF SetPayment, Writes
<1> HIDE DEF row
<1> QED BY <1>1, <1>2, PaymentWritten

(* Booking a refund's status on a payment that was taken.                  *)
LEMMA PaymentStatusBooked ==
  ASSUME PayInv, NEW p \in Processes, IssueStatus(p)
  PROVE  /\ PaymentsTyped' /\ StayTaken
         /\ payments'[tasks[p].order][tasks[p].kind].status
              = PaymentStatusOf(tasks[p].tally)
         /\ \A x \in Orders, y \in PaymentKind :
              x # tasks[p].order \/ y # tasks[p].kind
                => payments'[x][y] = payments[x][y]
<1> DEFINE o == tasks[p].order
           k == tasks[p].kind
           status == PaymentStatusOf(tasks[p].tally)
           row == [payments[o][k] EXCEPT !.status = status]
<1>1. tasks[p].pc = "status" BY DEF IssueStatus, Is
<1>2. o \in Orders /\ k \in PaymentKind
  BY <1>1 DEF PayInv, TaskOK, Informed, PayTypeOK, Task
<1>3. PayTypeOK /\ CashIsTaken BY DEF PayInv
<1>4. payments[o][k] \in [status : PaymentStatus, ref : BOOLEAN]
  BY <1>2, <1>3 DEF PayTypeOK
<1>5. status \in PaymentStatus /\ status \notin {"NONE", "PENDING"}
  BY DEF PaymentStatusOf, PaymentStatus
<1> HIDE DEF status
<1>6. row \in [status : PaymentStatus, ref : BOOLEAN] /\ row.status = status
  BY <1>4, <1>5
<1>7. Writes(o, k, row)
  <2>1. payments' = [payments EXCEPT ![o][k].status = status]
    BY Zenon DEF IssueStatus, status
  <2> HIDE DEF o, k
  <2> QED BY <1>2, <1>3, <2>1 DEF PayTypeOK, Writes
<1> HIDE DEF row, o, k
<1>8. /\ PaymentsTyped' /\ StayTaken /\ payments'[o][k] = row
      /\ \A x \in Orders, y \in PaymentKind :
           x # o \/ y # k => payments'[x][y] = payments[x][y]
  BY <1>2, <1>3, <1>5, <1>6, <1>7, PaymentWritten
<1> QED BY <1>6, <1>8 DEF o, k, status

(* The steps that write no payment row.                                    *)
LEMMA PaymentsKept ==
  ASSUME PayTypeOK, CashIsTaken, UNCHANGED payments
  PROVE  PaymentsTyped' /\ StayTaken
BY DEF PayTypeOK, PaymentsTyped, StayTaken, Taken, CashIsTaken

(* No step unsets a capture, or breaks a row's type.                       *)
LEMMA NextPayments ==
  ASSUME PayInv, [PayNext]_allVars
  PROVE  PaymentsTyped' /\ StayTaken
<1>0. PayTypeOK /\ CashIsTaken BY DEF PayInv
<1>t. {"PENDING", "CAPTURED"} \subseteq PaymentStatus
      /\ {"pi", "sim", "manual"} \subseteq PaymentKind
  BY DEF PaymentStatus, PaymentKind
<1>1. ASSUME NEW o \in Orders, OpenIntent(o) PROVE PaymentsTyped' /\ StayTaken
  <2>1. SetPayment(o, "pi", "PENDING", FALSE) /\ ~Taken(payments, o, "pi")
    BY <1>1 DEF OpenIntent, Taken
  <2> QED BY <1>0, <1>t, <2>1, PaymentSet
<1>2. ASSUME NEW o \in Orders, StoreRef(o) PROVE PaymentsTyped' /\ StayTaken
  <2> DEFINE row == [payments[o]["pi"] EXCEPT !.ref = TRUE]
  <2>1. payments[o]["pi"] \in [status : PaymentStatus, ref : BOOLEAN]
    BY <1>0, <1>t DEF PayTypeOK
  <2>2. row \in [status : PaymentStatus, ref : BOOLEAN]
        /\ row.status = payments[o]["pi"].status
    BY <2>1
  <2>3. Writes(o, "pi", row)
    BY <1>0, <1>2, <1>t DEF StoreRef, PayTypeOK, Writes
  <2> HIDE DEF row
  <2> QED BY <1>0, <1>t, <2>2, <2>3, PaymentWritten DEF Taken
<1>3. ASSUME NEW p, NEW o \in Orders, Webhook(p, o)
      PROVE  PaymentsTyped' /\ StayTaken
  <2>1. SetPayment(o, "pi", "CAPTURED", TRUE) BY <1>3 DEF Webhook
  <2> QED BY <1>0, <1>t, <2>1, PaymentSet
<1>4. ASSUME NEW p, NEW o \in Orders, Simulate(p, o)
      PROVE  PaymentsTyped' /\ StayTaken
  <2>1. payments[o]["pi"].ref \in BOOLEAN BY <1>0, <1>t DEF PayTypeOK
  <2>2. \/ SetPayment(o, "pi", "CAPTURED", payments[o]["pi"].ref)
        \/ SetPayment(o, "sim", "CAPTURED", TRUE)
    BY <1>4 DEF Simulate
  <2> QED BY <1>0, <1>t, <2>1, <2>2, PaymentSet
<1>5. ASSUME NEW p, NEW o \in Orders, ConfirmRecord(p, o)
      PROVE  PaymentsTyped' /\ StayTaken
  <2>1. SetPayment(o, "manual", "CAPTURED", TRUE) \/ UNCHANGED payments
    BY <1>5 DEF ConfirmRecord
  <2> QED BY <1>0, <1>t, <2>1, PaymentSet, PaymentsKept
<1>6. ASSUME NEW p \in Processes, Issuing(p) PROVE PaymentsTyped' /\ StayTaken
  <2>1. IssueStatus(p) \/ UNCHANGED payments
    BY <1>6
    DEF Issuing, IssueRecord, IssueByHand, RailAccepts, RailRefuses,
        RailAnswerLost, IssueBook, IssueClose, moneyVars
  <2> QED BY <1>0, <2>1, PaymentStatusBooked, PaymentsKept
<1>7. ASSUME NEW p, NEW o,
             \/ ConfirmPaid(p, o) \/ AdminRefund(p, o) \/ CustomerPays(o)
             \/ MarkPaid(p) \/ ConfirmAccept(p)
             \/ ReactorList(p) \/ ReactorIssue(p) \/ Crash(p)
      PROVE  UNCHANGED payments
  BY <1>7
  DEF ConfirmPaid, AdminRefund, CustomerPays, MarkPaid, ConfirmAccept,
      ReactorList, ReactorIssue, Crash, moneyVars
<1>8. UNCHANGED allVars \/ UNCHANGED payVars => UNCHANGED payments
  BY DEF allVars, payVars
<1> QED
  BY <1>0, <1>1, <1>2, <1>3, <1>4, <1>5, <1>6, <1>7, <1>8, PayCases, PaymentsKept

RefundsTyped ==
  /\ refunds \in [Orders -> Seq(RefundRow)]
  /\ \A o \in Orders : Len(refunds[o]) <= MaxRefunds

RefundsGrow == \A o \in Orders : ListGrows(refunds[o], refunds'[o])

(* A list grows into itself.                                               *)
LEMMA RefundsKept ==
  ASSUME PayTypeOK, UNCHANGED refunds
  PROVE  RefundsTyped' /\ RefundsGrow
BY DEF PayTypeOK, RefundsTyped, RefundsGrow, ListGrows

(* The row a task records is new and the last of its order's.              *)
LEMMA RefundRecorded ==
  ASSUME PayInv, NEW p \in Processes, IssueRecord(p)
  PROVE  LET o == tasks[p].order
             j == Len(refunds[o]) + 1
         IN /\ RefundsTyped' /\ RefundsGrow
            /\ o \in Orders /\ j \in 1 .. MaxRefunds
            /\ j \notin DOMAIN refunds[o]
            /\ DOMAIN refunds'[o] = DOMAIN refunds[o] \cup {j}
            /\ refunds'[o][j] = [kind |-> tasks[p].kind,
                 amount |-> tasks[p].amount, status |-> "PENDING"]
            /\ \A x \in DOMAIN refunds[o] : refunds'[o][x] = refunds[o][x]
            /\ \A x \in Orders \ {o} : refunds'[x] = refunds[x]
<1> DEFINE o == tasks[p].order
           j == Len(refunds[o]) + 1
           row == [kind |-> tasks[p].kind, amount |-> tasks[p].amount,
                   status |-> "PENDING"]
<1>1. tasks[p].pc = "record" /\ Len(refunds[o]) < MaxRefunds
  BY DEF IssueRecord, Is
<1>2. refunds' = [refunds EXCEPT ![o] = Append(refunds[o], row)]
  BY DEF IssueRecord
<1>3. o \in Orders /\ tasks[p] \in Task /\ tasks[p].amount > 0
  BY <1>1 DEF PayInv, TaskOK, Informed, PayTypeOK, Issued
<1>4. row \in RefundRow
  BY <1>3, TotalAssumption DEF Task, RefundRow, RefundStatus
<1>5. refunds \in [Orders -> Seq(RefundRow)]
      /\ \A x \in Orders : Len(refunds[x]) <= MaxRefunds
  BY DEF PayInv, PayTypeOK
<1> HIDE DEF row, o
<1>6. PICK list \in Seq(RefundRow) : list = refunds[o] BY <1>3, <1>5
<1>7. /\ Append(list, row) \in Seq(RefundRow)
      /\ Len(Append(list, row)) = Len(list) + 1
      /\ Append(list, row)[Len(list) + 1] = row
      /\ \A x \in 1 .. Len(list) : Append(list, row)[x] = list[x]
  BY <1>4
<1>8. /\ Len(list) \in Nat /\ DOMAIN list = 1 .. Len(list)
      /\ DOMAIN Append(list, row) = 1 .. (Len(list) + 1)
  BY <1>4, <1>7
<1>9. /\ refunds'[o] = Append(list, row)
      /\ \A x \in Orders \ {o} : refunds'[x] = refunds[x]
      /\ refunds' \in [Orders -> Seq(RefundRow)]
  BY <1>2, <1>3, <1>5, <1>6, <1>7
<1>10. /\ j \notin DOMAIN refunds[o] /\ j \in 1 .. MaxRefunds
       /\ DOMAIN refunds'[o] = DOMAIN refunds[o] \cup {j}
       /\ refunds'[o][j] = row
       /\ \A x \in DOMAIN refunds[o] : refunds'[o][x] = refunds[o][x]
  BY <1>1, <1>6, <1>7, <1>8, <1>9, RefundBoundAssumption
<1>11. RefundsTyped'
  <2>1. Len(refunds'[o]) <= MaxRefunds
    BY <1>1, <1>6, <1>7, <1>8, <1>9, RefundBoundAssumption
  <2>2. ASSUME NEW x \in Orders PROVE Len(refunds'[x]) <= MaxRefunds
    <3>1. CASE x = o BY <2>1, <3>1
    <3>2. CASE x # o BY <1>5, <1>9, <3>2
    <3> QED BY <3>1, <3>2
  <2> QED BY <1>9, <2>2 DEF RefundsTyped
<1>12. RefundsGrow BY <1>9, <1>10 DEF RefundsGrow, ListGrows
<1> QED BY <1>3, <1>9, <1>10, <1>11, <1>12 DEF o, row

(* Booking an answer touches the task's own row only, and a success adds   *)
(* its amount to the payment's total.                                      *)
LEMMA RefundBooked ==
  ASSUME PayInv, NEW p \in Processes, IssueBook(p)
  PROVE  LET o == tasks[p].order
             j == tasks[p].row
         IN /\ RefundsTyped' /\ RefundsGrow
            /\ o \in Orders /\ j \in DOMAIN refunds[o]
            /\ DOMAIN refunds'[o] = DOMAIN refunds[o]
            /\ refunds'[o][j] = [refunds[o][j] EXCEPT !.status = tasks[p].answer]
            /\ \A x \in DOMAIN refunds[o] \ {j} : refunds'[o][x] = refunds[o][x]
            /\ \A x \in Orders \ {o} : refunds'[x] = refunds[x]
            /\ tasks[p].answer = "SUCCEEDED" =>
                 SumOf(refunds'[o], tasks[p].kind)
                   = SumOf(refunds[o], tasks[p].kind) + tasks[p].amount
<1> DEFINE o == tasks[p].order
           j == tasks[p].row
           answer == tasks[p].answer
<1>1. tasks[p].pc = "book" BY DEF IssueBook, Is
<1>2. refunds' = [refunds EXCEPT ![o][j].status = answer]
  BY Zenon DEF IssueBook
<1>3. o \in Orders /\ OwnsRow(tasks[p], refunds) /\ answer \in RefundStatus
  BY <1>1 DEF PayInv, TaskOK, Informed, PayTypeOK, Owning, Task
<1>4. /\ j \in DOMAIN refunds[o]
      /\ refunds[o][j].kind = tasks[p].kind
      /\ refunds[o][j].amount = tasks[p].amount
      /\ refunds[o][j].status = "PENDING"
  BY <1>3 DEF OwnsRow
<1>5. refunds \in [Orders -> Seq(RefundRow)]
      /\ \A x \in Orders : Len(refunds[x]) <= MaxRefunds
  BY DEF PayInv, PayTypeOK
<1> HIDE DEF answer, o, j
<1>6. PICK list \in Seq(RefundRow) : list = refunds[o] BY <1>3, <1>5
<1>7. PICK row \in RefundRow : row = list[j] BY <1>4, <1>6
<1> DEFINE next == [list EXCEPT ![j].status = answer]
<1>8. [row EXCEPT !.status = answer] \in RefundRow
  BY <1>3, <1>7 DEF RefundRow
<1>9. /\ next \in Seq(RefundRow) /\ Len(next) = Len(list)
      /\ DOMAIN next = DOMAIN list
      /\ next[j] = [row EXCEPT !.status = answer]
      /\ \A x \in DOMAIN list \ {j} : next[x] = list[x]
  BY <1>4, <1>6, <1>7, <1>8
<1>10. /\ refunds'[o] = next
       /\ \A x \in Orders \ {o} : refunds'[x] = refunds[x]
       /\ refunds' \in [Orders -> Seq(RefundRow)]
  <2>1. refunds' = [refunds EXCEPT ![o] = next]
    BY <1>2, <1>3, <1>5, <1>6
  <2> HIDE DEF next
  <2> QED BY <1>3, <1>5, <1>9, <2>1
<1>11. answer = "SUCCEEDED" =>
         SumOf(next, list[j].kind) = SumOf(list, list[j].kind) + list[j].amount
  <2> SUFFICES ASSUME answer = "SUCCEEDED"
      PROVE SumOf(next, list[j].kind) = SumOf(list, list[j].kind) + list[j].amount
    OBVIOUS
  <2>1. next[j] = [list[j] EXCEPT !.status = "SUCCEEDED"] BY <1>7, <1>9
  <2> HIDE DEF next
  <2> QED BY <1>4, <1>6, <1>9, <2>1, SumOfBooked
<1> HIDE DEF next
<1>12. RefundsTyped'
  <2>1. ASSUME NEW x \in Orders PROVE Len(refunds'[x]) <= MaxRefunds
    <3>1. CASE x = o BY <1>3, <1>5, <1>6, <1>9, <1>10, <3>1
    <3>2. CASE x # o BY <1>5, <1>10, <3>2
    <3> QED BY <3>1, <3>2
  <2> QED BY <1>10, <2>1 DEF RefundsTyped
<1>13. RefundsGrow
  <2>1. ListGrows(list, next)
    BY <1>4, <1>6, <1>7, <1>9 DEF ListGrows, RefundRow
  <2> QED BY <1>6, <1>10, <2>1 DEF RefundsGrow, ListGrows
<1> QED
  BY <1>3, <1>4, <1>6, <1>7, <1>9, <1>10, <1>11, <1>12, <1>13 DEF o, j, answer

(* Refund rows are only added and answered.                                *)
LEMMA NextRefunds ==
  ASSUME PayInv, [PayNext]_allVars
  PROVE  RefundsTyped' /\ RefundsGrow
<1>1. ASSUME NEW p \in Processes, Issuing(p) PROVE RefundsTyped' /\ RefundsGrow
  <2>1. IssueRecord(p) \/ IssueBook(p) \/ UNCHANGED refunds
    BY <1>1
    DEF Issuing, IssueByHand, RailAccepts, RailRefuses, RailAnswerLost,
        IssueStatus, IssueClose, moneyVars
  <2> QED BY <2>1, RefundRecorded, RefundBooked, RefundsKept DEF PayInv
<1>2. ASSUME NEW p, NEW o,
             \/ Webhook(p, o) \/ Simulate(p, o) \/ ConfirmRecord(p, o)
             \/ ConfirmPaid(p, o) \/ AdminRefund(p, o)
             \/ OpenIntent(o) \/ StoreRef(o) \/ CustomerPays(o)
             \/ MarkPaid(p) \/ ConfirmAccept(p)
             \/ ReactorList(p) \/ ReactorIssue(p) \/ Crash(p)
      PROVE  UNCHANGED refunds
  BY <1>2
  DEF Webhook, Simulate, ConfirmRecord, ConfirmPaid, AdminRefund, OpenIntent,
      StoreRef, CustomerPays, MarkPaid, ConfirmAccept, ReactorList,
      ReactorIssue, Crash, moneyVars
<1>3. UNCHANGED allVars \/ UNCHANGED payVars => UNCHANGED refunds
  BY DEF allVars, payVars
<1> QED BY <1>1, <1>2, <1>3, PayCases, RefundsKept DEF PayInv

(* So no payment's total ever shrinks.                                     *)
LEMMA TotalsGrow ==
  ASSUME PayTypeOK, RefundsTyped', RefundsGrow,
         NEW o \in Orders, NEW k
  PROVE  /\ refundedTotal(o, k) \in Nat /\ refundedTotal(o, k)' \in Nat
         /\ refundedTotal(o, k) <= refundedTotal(o, k)'
<1>1. refunds[o] \in Seq(RefundRow) /\ refunds'[o] \in Seq(RefundRow)
  BY DEF PayTypeOK, RefundsTyped
<1>2. ListGrows(refunds[o], refunds'[o]) BY DEF RefundsGrow
<1>3. /\ SumOf(refunds[o], k) \in Nat /\ SumOf(refunds'[o], k) \in Nat
      /\ SumOf(refunds[o], k) <= SumOf(refunds'[o], k)
  BY <1>1, <1>2, SumOfIsNat, SumOfGrows
<1> QED BY <1>3, AmountsAreSums, AmountsAreSumsNext

-----------------------------------------------------------------------------
(* What the tasks were told stays true.                                    *)

(* Captures stay, rows take answers and totals grow.                       *)
Grown == PaymentsTyped' /\ StayTaken /\ RefundsTyped' /\ RefundsGrow

LEMMA NextGrown == ASSUME PayInv, [PayNext]_allVars PROVE Grown
BY NextPayments, NextRefunds DEF Grown

(* So a task that nobody disturbs still knows what it knew.                *)
LEMMA InformedFrame ==
  ASSUME PayTypeOK, Grown, NEW task \in Task,
         Informed(task, payments, refunds),
         task.pc \in Owning =>
           refunds'[task.order][task.row] = refunds[task.order][task.row]
  PROVE  Informed(task, payments', refunds')
<1>1. CASE task.pc = "idle"
  BY <1>1 DEF Informed, Settling, Issued, Owning
<1>2. CASE task.pc # "idle"
  <2>1. task.order \in Orders /\ task.kind \in PaymentKind
    BY <1>2 DEF Informed, Task
  <2>2. \A k \in PaymentKind :
          Taken(payments, task.order, k) => Taken(payments', task.order, k)
    BY <2>1 DEF Grown, StayTaken
  <2>3. /\ refunds[task.order] \in Seq(RefundRow)
        /\ refunds'[task.order] \in Seq(RefundRow)
        /\ ListGrows(refunds[task.order], refunds'[task.order])
    BY <2>1 DEF Grown, RefundsTyped, RefundsGrow, PayTypeOK
  <2>4. PICK before \in Nat : before = SumOf(refunds[task.order], task.kind)
    BY <2>3, SumOfIsNat
  <2>5. PICK after \in Nat : after = SumOf(refunds'[task.order], task.kind)
    BY <2>3, SumOfIsNat
  <2>6. before <= after BY <2>3, <2>4, <2>5, SumOfGrows
  <2>7. StaysFull(task, before) => StaysFull(task, after)
    <3>1. task.amount \in Nat /\ task.tally \in Nat /\ Total \in Nat
      BY TotalAssumption DEF Task
    <3> QED BY <2>6, <3>1 DEF StaysFull
  <2>8. task.pc \in Owning => OwnsRow(task, refunds')
    BY <2>3 DEF Informed, OwnsRow, ListGrows
  <2> QED BY <2>1, <2>2, <2>4, <2>5, <2>7, <2>8 DEF Informed
<1> QED BY <1>1, <1>2

(* Other processes own other rows: writing the row of one task disturbs    *)
(* none of theirs.                                                         *)
LEMMA OthersOK ==
  ASSUME PayInv, Grown, NEW p \in Processes, Others(p),
         \/ UNCHANGED refunds \/ IssueRecord(p) \/ IssueBook(p)
  PROVE  \A q \in Processes \ {p} : TaskOK(q)' /\ tasks'[q] \in Task
<1> SUFFICES ASSUME NEW q \in Processes, q # p
             PROVE  TaskOK(q)' /\ tasks'[q] \in Task
  OBVIOUS
<1>1. tasks'[q] = tasks[q] BY DEF Others
<1>2. PICK task \in Task : task = tasks[q] BY DEF PayInv, PayTypeOK
<1>3. Informed(task, payments, refunds) BY <1>2 DEF PayInv, TaskOK
<1>4. task.pc \in Owning =>
        refunds'[task.order][task.row] = refunds[task.order][task.row]
  <2> SUFFICES ASSUME task.pc \in Owning
      PROVE  refunds'[task.order][task.row] = refunds[task.order][task.row]
    OBVIOUS
  <2>1. task.order \in Orders /\ task.row \in DOMAIN refunds[task.order]
    BY <1>3 DEF Informed, OwnsRow, Owning
  <2>2. CASE UNCHANGED refunds BY <2>2
  <2>3. CASE IssueRecord(p)
    <3> DEFINE o == tasks[p].order
    <3>1. /\ \A x \in DOMAIN refunds[o] : refunds'[o][x] = refunds[o][x]
          /\ \A x \in Orders \ {o} : refunds'[x] = refunds[x]
      BY <2>3, RefundRecorded
    <3> HIDE DEF o
    <3> QED BY <2>1, <3>1
  <2>4. CASE IssueBook(p)
    <3>1. tasks[p].pc = "book" BY <2>4 DEF IssueBook, Is
    <3>2. task.order # tasks[p].order \/ task.row # tasks[p].row
      BY <1>2, <3>1 DEF PayInv, RowsAreOwnedOnce, Owning
    <3> DEFINE o == tasks[p].order
               j == tasks[p].row
    <3>3. /\ \A x \in DOMAIN refunds[o] \ {j} : refunds'[o][x] = refunds[o][x]
          /\ \A x \in Orders \ {o} : refunds'[x] = refunds[x]
      BY <2>4, RefundBooked
    <3>4. task.order # o \/ task.row # j BY <3>2
    <3> HIDE DEF o, j
    <3> QED BY <2>1, <3>3, <3>4
  <2> QED BY <2>2, <2>3, <2>4
<1>5. Informed(task, payments', refunds')
  BY <1>2, <1>3, <1>4, InformedFrame DEF PayInv
<1>6. tasks'[q] = task BY <1>1, <1>2
<1>7. Informed(tasks'[q], payments', refunds') BY <1>5, <1>6
<1> QED BY <1>2, <1>6, <1>7 DEF TaskOK

(* An idle process was told nothing.                                       *)
LEMMA IdleOK ==
  ASSUME NEW p, tasks'[p] = IdleTask
  PROVE  TaskOK(p)' /\ tasks'[p] \in Task
<1>1. Informed(IdleTask, payments', refunds')
  BY IdleShape DEF Informed, Settling, Issued, Owning
<1> QED BY <1>1, IdleShape DEF TaskOK

(* Finishing is becoming idle.                                             *)
LEMMA Finished ==
  ASSUME PayTypeOK, NEW p \in Processes, Finish(p)
  PROVE  tasks'[p] = IdleTask /\ Others(p)
BY Started DEF Finish

(* What IssueRead tells a task about the refund it will issue.             *)
LEMMA ReadShape ==
  ASSUME PayTypeOK, NEW p \in Processes, NEW o \in Orders,
         NEW asked \in (Nat \ {0}) \cup {NoDecision}, NEW actor \in STAFF,
         orders[o].status \in OrderStatus, IssueRead(p, o, asked, actor)
  PROVE  /\ Others(p)
         /\ \/ tasks'[p] = IdleTask
            \/ /\ tasks'[p] \in Task
               /\ tasks'[p].pc = "record" /\ tasks'[p].order = o
               /\ tasks'[p].actor = actor
               /\ Taken(payments, o, tasks'[p].kind)
               /\ tasks'[p].amount > 0
               /\ tasks'[p].full =>
                    tasks'[p].amount + SumOf(refunds[o], tasks'[p].kind) >= Total
               /\ asked = NoDecision => tasks'[p].full
               /\ asked # NoDecision => tasks'[p].amount = asked
<1> DEFINE rest(k) == Total - refundedTotal(o, k)
           amount(k) == IF asked = NoDecision THEN rest(k) ELSE asked
<1>1. CASE Finish(p) BY <1>1, Finished
<1>2. ASSUME NEW k \in PaymentKind,
             payments[o][k].status \in Refundable,
             rest(k) > 0, amount(k) <= rest(k),
             Start(p, [IdleTask EXCEPT
               !.pc = "record", !.order = o, !.actor = actor, !.kind = k,
               !.amount = amount(k), !.full = amount(k) >= rest(k),
               !.from = orders[o].status])
      PROVE  /\ Others(p)
             /\ tasks'[p] \in Task
             /\ tasks'[p].pc = "record" /\ tasks'[p].order = o
             /\ tasks'[p].actor = actor
             /\ Taken(payments, o, tasks'[p].kind)
             /\ tasks'[p].amount > 0
             /\ tasks'[p].full =>
                  tasks'[p].amount + SumOf(refunds[o], tasks'[p].kind) >= Total
             /\ asked = NoDecision => tasks'[p].full
             /\ asked # NoDecision => tasks'[p].amount = asked
  <2>1. PICK total \in Nat :
          total = refundedTotal(o, k) /\ total = SumOf(refunds[o], k)
    BY SumOfIsNat, AmountsAreSums DEF PayTypeOK
  <2>2. PICK n \in Nat : n = amount(k) /\ n > 0 /\ n <= Total - total
    BY <1>2, <2>1, TotalAssumption DEF NoDecision
  <2> DEFINE full == amount(k) >= rest(k)
  <2>3. full \in BOOLEAN OBVIOUS
  <2>13. full <=> n >= Total - total BY <2>1, <2>2
  <2>4. asked = NoDecision => full BY <2>1, <2>2, <2>13, TotalAssumption
  <2>5. asked # NoDecision => n = asked BY <2>2
  <2>6. n \in 0 .. Total BY <2>1, <2>2, TotalAssumption
  <2>7. actor \in OrderActor BY DEF STAFF, OrderActor
  <2> DEFINE task == RecordTask(o, actor, k, n, full, orders[o].status)
  <2>8. Start(p, task) BY Zenon, <1>2, <2>2 DEF RecordTask
  <2> HIDE DEF full
  <2>9. /\ task \in Task
        /\ task.pc = "record" /\ task.order = o /\ task.actor = actor
        /\ task.kind = k /\ task.amount = n /\ task.full = full
    BY <2>3, <2>6, <2>7, RecordShape
  <2> HIDE DEF task
  <2>10. tasks'[p] = task /\ Others(p) BY <2>8, Started
  <2>11. Taken(payments, o, k) BY <1>2 DEF Taken, Refundable
  <2>12. full => n + total >= Total BY <2>1, <2>2, <2>13, TotalAssumption
  <2> HIDE DEF rest, amount
  <2> QED
    BY <2>1, <2>2, <2>4, <2>5, <2>9, <2>10, <2>11, <2>12
<1>3. \/ Finish(p)
      \/ \E k \in PaymentKind :
           /\ payments[o][k].status \in Refundable
           /\ rest(k) > 0 /\ amount(k) <= rest(k)
           /\ Start(p, [IdleTask EXCEPT
               !.pc = "record", !.order = o, !.actor = actor, !.kind = k,
               !.amount = amount(k), !.full = amount(k) >= rest(k),
               !.from = orders[o].status])
  BY Zenon DEF IssueRead
<1> HIDE DEF rest, amount
<1> QED BY Zenon, <1>1, <1>2, <1>3

(* A request that takes money knows it was taken.                          *)
LEMMA TakingOK ==
  ASSUME PayInv, [PayNext]_allVars, NEW p \in Workers, NEW o \in Orders,
         Webhook(p, o) \/ Simulate(p, o) \/ ConfirmRecord(p, o)
  PROVE  TaskOK(p)' /\ tasks'[p] \in Task /\ Others(p)
<1>0. PayTypeOK /\ CashIsTaken /\ p \in Processes
  BY DEF PayInv, Processes
<1>t. {"pi", "sim", "manual"} \subseteq PaymentKind BY DEF PaymentKind
<1>1. PICK pc \in {"advance", "settle"}, actor \in {"SYSTEM", "MERCHANT"} :
        /\ Advance(p, o, pc, actor)
        /\ pc = "advance" <=> actor = "SYSTEM"
  BY DEF Webhook, Simulate, ConfirmRecord
<1>2. \E k \in PaymentKind : Taken(payments', o, k)
  <2>1. ASSUME NEW k \in PaymentKind, NEW ref, SetPayment(o, k, "CAPTURED", ref)
        PROVE  Taken(payments', o, k)
    BY <1>0, <2>1 DEF SetPayment, Taken, PayTypeOK
  <2>2. CASE Webhook(p, o)
    <3>1. SetPayment(o, "pi", "CAPTURED", TRUE) BY <2>2 DEF Webhook
    <3> QED BY <1>t, <2>1, <3>1
  <2>3. CASE Simulate(p, o)
    <3>1. \/ SetPayment(o, "pi", "CAPTURED", payments[o]["pi"].ref)
          \/ SetPayment(o, "sim", "CAPTURED", TRUE)
      BY <2>3 DEF Simulate
    <3> QED BY <1>t, <2>1, <3>1
  <2>4. CASE ConfirmRecord(p, o)
    <3>1. \/ SetPayment(o, "manual", "CAPTURED", TRUE)
          \/ payments[o]["manual"].status # "NONE" /\ UNCHANGED payments
      BY <2>4 DEF ConfirmRecord
    <3>2. payments[o]["manual"].status # "PENDING" BY <1>0 DEF CashIsTaken
    <3> QED BY <1>t, <2>1, <3>1, <3>2 DEF Taken
  <2> QED BY <2>2, <2>3, <2>4
<1> DEFINE task == AdvanceTask(o, pc, actor)
<1>3. /\ task \in Task /\ task.pc = pc /\ task.order = o
      /\ task.actor = actor
  BY AdvanceShape DEF OrderActor
<1>4. Start(p, task) BY Zenon, <1>1 DEF Advance, AdvanceTask
<1> HIDE DEF task
<1>5. tasks'[p] = task /\ Others(p) BY <1>0, <1>4, Started
<1>6. Informed(task, payments', refunds')
  BY <1>1, <1>2, <1>3 DEF Informed, Issued, Owning
<1> QED BY <1>3, <1>5, <1>6 DEF TaskOK

(* A confirmation of a paid order was told nothing.                        *)
LEMMA AcceptingOK ==
  ASSUME PayInv, NEW p \in Processes, NEW o \in Orders, ConfirmPaid(p, o)
  PROVE  TaskOK(p)' /\ tasks'[p] \in Task /\ Others(p)
<1> DEFINE task == AdvanceTask(o, "accept", "MERCHANT")
<1>1. task \in Task /\ task.pc = "accept" /\ task.order = o
  BY AdvanceShape DEF OrderActor
<1>2. Start(p, task) BY Zenon DEF Advance, AdvanceTask, ConfirmPaid
<1> HIDE DEF task
<1>3. tasks'[p] = task /\ Others(p) BY <1>2, Started DEF PayInv
<1>4. Informed(task, payments', refunds')
  BY <1>1 DEF Informed, Settling, Issued, Owning
<1> QED BY <1>1, <1>3, <1>4 DEF TaskOK

(* A refund that was read knows what it read: no row has changed since.    *)
LEMMA ReadOK ==
  ASSUME PayInv, NEW p \in Processes, NEW o \in Orders,
         NEW asked \in (Nat \ {0}) \cup {NoDecision}, NEW actor \in STAFF,
         orders[o].status \in OrderStatus, IssueRead(p, o, asked, actor),
         UNCHANGED <<payments, refunds>>
  PROVE  TaskOK(p)' /\ tasks'[p] \in Task /\ Others(p)
<1>0. PayTypeOK BY DEF PayInv
<1>1. CASE tasks'[p] = IdleTask BY <1>0, <1>1, IdleOK, ReadShape
<1>2. CASE tasks'[p] # IdleTask
  <2>1. /\ Others(p) /\ tasks'[p] \in Task
        /\ tasks'[p].pc = "record" /\ tasks'[p].order = o
        /\ tasks'[p].actor = actor
        /\ Taken(payments, o, tasks'[p].kind)
        /\ tasks'[p].amount > 0
        /\ tasks'[p].full =>
             tasks'[p].amount + SumOf(refunds[o], tasks'[p].kind) >= Total
    BY Zenon, <1>0, <1>2, ReadShape
  <2>2. PICK task \in Task : task = tasks'[p] BY <2>1
  <2>3. Informed(task, payments', refunds')
    BY <2>1, <2>2 DEF Informed, StaysFull, Settling, Owning
  <2> QED BY <2>1, <2>2, <2>3 DEF TaskOK
<1> QED BY <1>1, <1>2

(* A task keeps knowing what it knew while it goes on.                     *)
LEMMA GoesOnOK ==
  ASSUME PayInv, Grown, NEW p \in Processes, NEW pc, Goto(p, pc),
         UNCHANGED refunds,
         \/ tasks[p].pc # "idle" /\ pc = "accept"
         \/ /\ tasks[p].pc = "status" /\ pc = "close"
            /\ tasks[p].full
  PROVE  TaskOK(p)' /\ tasks'[p] \in Task /\ Others(p) /\ tasks'[p].pc = pc
<1>1. PICK task \in Task : task = tasks[p] BY DEF PayInv, PayTypeOK
<1> DEFINE next == [task EXCEPT !.pc = pc]
<1>2. tasks'[p] = next /\ Others(p) BY <1>1, GoneOn DEF PayInv
<1>3. /\ next \in Task /\ next.pc = pc /\ next.order = task.order
      /\ next.actor = task.actor /\ next.kind = task.kind
      /\ next.amount = task.amount /\ next.full = task.full
      /\ next.tally = task.tally
  BY <1>1 DEF Task
<1> HIDE DEF next
<1>4. Informed(task, payments, refunds) BY <1>1 DEF PayInv, TaskOK
<1>5. Informed(next, payments', refunds')
  <2>1. CASE task.pc # "idle" /\ pc = "accept"
    <3>1. task.order \in Orders BY <1>4, <2>1 DEF Informed
    <3> QED BY <1>3, <2>1, <3>1 DEF Informed, Settling, Issued, Owning
  <2>2. CASE task.pc = "status" /\ pc = "close" /\ task.full
    <3>1. task.pc # "idle" /\ task.pc \in Issued BY <2>2 DEF Issued
    <3>2. /\ task.order \in Orders /\ task.kind \in PaymentKind
          /\ task.actor \in STAFF
          /\ Taken(payments, task.order, task.kind) /\ task.amount > 0
          /\ StaysFull(task, SumOf(refunds[task.order], task.kind))
      BY <1>4, <3>1 DEF Informed, Task
    <3>3. Taken(payments', task.order, task.kind)
      BY <3>2 DEF Grown, StayTaken
    <3>4. PICK total \in Nat : total = SumOf(refunds[task.order], task.kind)
      BY <3>2, SumOfIsNat DEF PayInv, PayTypeOK
    <3>5. StaysFull(next, total)
      <4>1. task.tally \in Nat /\ Total \in Nat BY TotalAssumption DEF Task
      <4> QED BY <1>3, <2>2, <3>2, <3>4, <4>1 DEF StaysFull
    <3> QED BY <1>3, <2>2, <3>2, <3>3, <3>4, <3>5
            DEF Informed, Settling, Owning
  <2> QED BY <1>1, <2>1, <2>2
<1> QED BY <1>2, <1>3, <1>5 DEF TaskOK

(* The row is recorded as the task knows it.                               *)
LEMMA RecordOK ==
  ASSUME PayInv, Grown, NEW p \in Processes, IssueRecord(p)
  PROVE  /\ TaskOK(p)' /\ tasks'[p] \in Task /\ Others(p)
         /\ tasks'[p].pc = "call" /\ tasks'[p].order = tasks[p].order
         /\ tasks'[p].row \notin DOMAIN refunds[tasks[p].order]
<1>1. PICK task \in Task : task = tasks[p] BY DEF PayInv, PayTypeOK
<1> DEFINE j == Len(refunds[task.order]) + 1
           next == [task EXCEPT !.pc = "call", !.row = j]
<1>2. /\ task.order \in Orders /\ j \in 1 .. MaxRefunds
      /\ j \notin DOMAIN refunds[task.order]
      /\ DOMAIN refunds'[task.order] = DOMAIN refunds[task.order] \cup {j}
      /\ refunds'[task.order][j] = [kind |-> task.kind,
           amount |-> task.amount, status |-> "PENDING"]
  BY <1>1, RefundRecorded
<1>3. tasks'[p] = next /\ Others(p)
  BY <1>1 DEF IssueRecord, PayInv, PayTypeOK, Others
<1> HIDE DEF j
<1>4. /\ next \in Task /\ next.pc = "call" /\ next.row = j
      /\ next.order = task.order /\ next.actor = task.actor
      /\ next.kind = task.kind /\ next.amount = task.amount
      /\ next.full = task.full
  <2>1. j \in 0 .. MaxRefunds BY <1>2, RefundBoundAssumption
  <2> QED BY <2>1 DEF Task
<1> HIDE DEF next
<1>5. Informed(task, payments, refunds) /\ task.pc = "record"
  BY <1>1 DEF PayInv, TaskOK, IssueRecord, Is
<1>6. Informed(task, payments', refunds')
  BY <1>5, InformedFrame DEF PayInv, Owning
<1>7. OwnsRow(next, refunds') BY <1>2, <1>4 DEF OwnsRow
<1>8. Informed(next, payments', refunds')
  <2>1. /\ task.actor \in STAFF /\ Taken(payments', task.order, task.kind)
        /\ task.amount > 0
        /\ StaysFull(task, SumOf(refunds'[task.order], task.kind))
    BY <1>5, <1>6 DEF Informed, Issued
  <2>2. StaysFull(next, SumOf(refunds'[task.order], task.kind))
    BY <1>4, <1>5, <2>1 DEF StaysFull
  <2> QED BY <1>2, <1>4, <1>7, <2>1, <2>2 DEF Informed, Settling
<1> QED BY <1>1, <1>2, <1>3, <1>4, <1>8 DEF TaskOK

(* An answer changes nothing a task relies on.                             *)
LEMMA AnswerOK ==
  ASSUME PayInv, Grown, NEW p \in Processes, Is(p, "call"),
         NEW answer \in RefundStatus, Answered(p, answer), UNCHANGED refunds
  PROVE  /\ TaskOK(p)' /\ tasks'[p] \in Task /\ Others(p)
         /\ tasks'[p] = [tasks[p] EXCEPT !.pc = "book", !.answer = answer]
<1>1. PICK task \in Task : task = tasks[p] BY DEF PayInv, PayTypeOK
<1> DEFINE next == [task EXCEPT !.pc = "book", !.answer = answer]
<1>2. tasks'[p] = next /\ Others(p)
  BY <1>1 DEF Answered, PayInv, PayTypeOK, Others
<1>3. /\ next \in Task /\ next.pc = "book" /\ next.row = task.row
      /\ next.order = task.order /\ next.actor = task.actor
      /\ next.kind = task.kind /\ next.amount = task.amount
      /\ next.full = task.full
  BY <1>1 DEF Task
<1>4. tasks'[p] = [tasks[p] EXCEPT !.pc = "book", !.answer = answer]
  BY <1>1, <1>2
<1> HIDE DEF next
<1>5. Informed(task, payments, refunds) /\ task.pc = "call"
  BY <1>1 DEF PayInv, TaskOK, Is
<1>6. Informed(task, payments', refunds')
  BY <1>5, InformedFrame DEF PayInv
<1>7. Informed(next, payments', refunds')
  <2>1. /\ task.actor \in STAFF /\ Taken(payments', task.order, task.kind)
        /\ task.amount > 0 /\ task.order \in Orders
        /\ StaysFull(task, SumOf(refunds'[task.order], task.kind))
        /\ OwnsRow(task, refunds')
    BY <1>5, <1>6 DEF Informed, Issued, Owning
  <2>2. StaysFull(next, SumOf(refunds'[task.order], task.kind))
    BY <1>3, <1>5, <2>1 DEF StaysFull
  <2>3. OwnsRow(next, refunds') BY <1>3, <2>1 DEF OwnsRow
  <2> QED BY <1>3, <2>1, <2>2, <2>3 DEF Informed, Settling
<1> QED BY <1>2, <1>3, <1>4, <1>7 DEF TaskOK

(* The total a task books its status from is there: its own row was the    *)
(* last summand.                                                           *)
LEMMA BookOK ==
  ASSUME PayInv, Grown, NEW p \in Processes, IssueBook(p)
  PROVE  /\ TaskOK(p)' /\ tasks'[p] \in Task /\ Others(p)
         /\ tasks'[p].pc \in {"idle", "status"}
<1>1. PICK task \in Task : task = tasks[p] BY DEF PayInv, PayTypeOK
<1>2. CASE task.answer # "SUCCEEDED"
  <2>1. Finish(p) BY <1>1, <1>2 DEF IssueBook
  <2> QED BY <2>1, Finished, IdleOK, IdleShape DEF PayInv
<1>3. CASE task.answer = "SUCCEEDED"
  <2> DEFINE tally == refundedTotal(task.order, task.kind) + task.amount
             next == [task EXCEPT !.pc = "status", !.tally = tally]
  <2>1. tasks'[p] = next /\ Others(p)
    BY <1>1, <1>3 DEF IssueBook, PayInv, PayTypeOK, Others
  <2>2. Informed(task, payments, refunds) /\ task.pc = "book"
    BY <1>1 DEF PayInv, TaskOK, IssueBook, Is
  <2>3. task.order \in Orders BY <2>2 DEF Informed
  <2>4. PICK total \in Nat : /\ total = SumOf(refunds[task.order], task.kind)
                             /\ total = refundedTotal(task.order, task.kind)
    BY <2>3, SumOfIsNat, AmountsAreSums DEF PayInv, PayTypeOK
  <2>5. SumOf(refunds'[task.order], task.kind) = total + task.amount
    BY <1>1, <1>3, <2>4, RefundBooked
  <2>6. task.amount \in Nat /\ Total \in Nat BY TotalAssumption DEF Task
  <2>7. tally = total + task.amount /\ tally \in Nat BY <2>4, <2>6
  <2> HIDE DEF tally
  <2>8. /\ next \in Task /\ next.pc = "status" /\ next.tally = tally
        /\ next.order = task.order /\ next.actor = task.actor
        /\ next.kind = task.kind /\ next.amount = task.amount
        /\ next.full = task.full
    BY <1>1, <2>7 DEF Task
  <2> HIDE DEF next
  <2>9. /\ task.actor \in STAFF /\ Taken(payments, task.order, task.kind)
        /\ task.amount > 0 /\ task.kind \in PaymentKind
        /\ StaysFull(task, SumOf(refunds[task.order], task.kind))
    BY <2>2 DEF Informed, Issued, Task
  <2>10. Taken(payments', task.order, task.kind)
    BY <2>3, <2>9 DEF Grown, StayTaken
  <2>11. StaysFull(next, total + task.amount)
    BY <2>2, <2>4, <2>6, <2>7, <2>8, <2>9 DEF StaysFull
  <2>12. Informed(next, payments', refunds')
    BY <2>3, <2>5, <2>8, <2>9, <2>10, <2>11 DEF Informed, Settling, Owning
  <2> QED BY <2>1, <2>8, <2>12 DEF TaskOK
<1> QED BY <1>2, <1>3

-----------------------------------------------------------------------------
(* The steps one by one.                                                   *)

(* No payment's books change.                                              *)
Quiet == UNCHANGED <<payments, refunds, psp>>

(* A step of one task: what it is told holds, the others are left alone, a *)
(* row is owned by whoever recorded it, only the provider says a refund    *)
(* succeeded, and a reactor does as instructed.                            *)
TaskStep(p) ==
  /\ TaskOK(p)' /\ tasks'[p] \in Task /\ Others(p)
  /\ p \in Reactors /\ tasks'[p].pc = "record" => Instructed(tasks'[p])
  /\ \/ tasks'[p].pc \notin Owning
     \/ /\ tasks[p].pc = "call" /\ tasks'[p].pc = "book"
        /\ tasks'[p].order = tasks[p].order /\ tasks'[p].row = tasks[p].row
        /\ tasks'[p].answer = "SUCCEEDED" => RailAccepts(p)
     \/ /\ tasks'[p].pc = "call" /\ tasks'[p].order \in Orders
        /\ tasks'[p].row \notin DOMAIN refunds[tasks'[p].order]

(* The steps of requests.                                                  *)
LEMMA RequestedStep ==
  ASSUME PayInv, [PayNext]_allVars, NEW p \in Workers, NEW o \in Orders,
         \/ Webhook(p, o) \/ Simulate(p, o) \/ ConfirmRecord(p, o)
         \/ ConfirmPaid(p, o) \/ AdminRefund(p, o)
  PROVE  TaskStep(p) /\ UNCHANGED refunds
<1>0. p \in Processes /\ p \notin Reactors
  BY ProcessAssumption DEF Processes
<1>1. CASE Webhook(p, o) \/ Simulate(p, o) \/ ConfirmRecord(p, o)
  <2>1. UNCHANGED refunds
    BY <1>1 DEF Webhook, Simulate, ConfirmRecord
  <2>2. \/ Advance(p, o, "advance", "SYSTEM")
        \/ Advance(p, o, "settle", "MERCHANT")
    BY Zenon, <1>1 DEF Webhook, Simulate, ConfirmRecord
  <2>3. ASSUME NEW pc \in {"advance", "settle"}, NEW actor,
               Advance(p, o, pc, actor)
        PROVE  tasks'[p].pc \notin Owning
    <3>1. Start(p, AdvanceTask(o, pc, actor))
      BY Zenon, <2>3 DEF Advance, AdvanceTask
    <3>2. tasks'[p] = AdvanceTask(o, pc, actor)
      BY <1>0, <3>1, Started DEF PayInv
    <3> QED BY <3>2 DEF AdvanceTask, IdleTask, Owning
  <2>4. tasks'[p].pc \notin Owning BY <2>2, <2>3
  <2> QED BY <1>0, <1>1, <2>1, <2>4, TakingOK DEF TaskStep
<1>2. CASE ConfirmPaid(p, o)
  <2>1. Start(p, AdvanceTask(o, "accept", "MERCHANT"))
    BY Zenon, <1>2 DEF ConfirmPaid, Advance, AdvanceTask
  <2>2. tasks'[p] = AdvanceTask(o, "accept", "MERCHANT")
    BY <1>0, <2>1, Started DEF PayInv
  <2>3. tasks'[p].pc \notin Owning
    BY <2>2 DEF AdvanceTask, IdleTask, Owning
  <2> QED
    BY <1>0, <1>2, <2>3, AcceptingOK DEF TaskStep, ConfirmPaid, moneyVars
<1>3. CASE AdminRefund(p, o)
  <2>1. PICK asked \in AdminAsks : IssueRead(p, o, asked, "ADMIN")
    BY <1>3 DEF AdminRefund
  <2>2. asked \in (Nat \ {0}) \cup {NoDecision} BY RefundBoundAssumption
  <2>3. /\ orders[o].status \in OrderStatus
        /\ UNCHANGED <<payments, refunds>>
    BY <1>3 DEF AdminRefund, moneyVars
  <2>4. "ADMIN" \in STAFF BY DEF STAFF
  <2>5. TaskOK(p)' /\ tasks'[p] \in Task /\ Others(p)
    BY <1>0, <2>1, <2>2, <2>3, <2>4, ReadOK
  <2>6. tasks'[p] = IdleTask \/ tasks'[p].pc = "record"
    BY <1>0, <2>1, <2>2, <2>3, <2>4, ReadShape DEF PayInv
  <2> QED BY <1>0, <2>3, <2>5, <2>6, IdleShape DEF TaskStep, Owning
<1> QED BY <1>1, <1>2, <1>3

(* The steps that move the order for a request.                            *)
LEMMA PaidStep ==
  ASSUME PayInv, Grown, NEW p \in Workers, MarkPaid(p) \/ ConfirmAccept(p)
  PROVE  TaskStep(p) /\ Quiet
<1>0. p \in Processes /\ p \notin Reactors
  BY ProcessAssumption DEF Processes
<1>1. Quiet BY DEF Quiet, MarkPaid, ConfirmAccept, moneyVars
<1>2. CASE Finish(p)
  <2>1. tasks'[p] = IdleTask /\ Others(p) BY <1>0, <1>2, Finished DEF PayInv
  <2> QED BY <1>1, <2>1, IdleOK, IdleShape DEF TaskStep, Owning
<1>3. CASE Goto(p, "accept") /\ tasks[p].pc = "settle"
  <2>1. /\ TaskOK(p)' /\ tasks'[p] \in Task /\ Others(p)
        /\ tasks'[p].pc = "accept"
    BY <1>0, <1>1, <1>3, GoesOnOK DEF Quiet
  <2> QED BY <1>1, <2>1 DEF TaskStep, Owning
<1> QED BY <1>1, <1>2, <1>3 DEF MarkPaid, ConfirmAccept, Is

(* The steps that issue a refund.                                          *)
LEMMA IssuingStep ==
  ASSUME PayInv, Grown, NEW p \in Processes, Issuing(p)
  PROVE  TaskStep(p) /\ (UNCHANGED refunds \/ IssueRecord(p) \/ IssueBook(p))
<1>1. CASE IssueRecord(p)
  <2>1. tasks[p].order \in Orders
    BY <1>1 DEF IssueRecord, Is, PayInv, TaskOK, Informed
  <2> QED BY <1>1, <2>1, RecordOK DEF TaskStep
<1>2. CASE IssueByHand(p) \/ RailAccepts(p) \/ RailRefuses(p) \/ RailAnswerLost(p)
  <2>1. PICK answer \in RefundStatus :
          Answered(p, answer) /\ (answer = "SUCCEEDED" => RailAccepts(p))
    BY <1>2
    DEF IssueByHand, RailAccepts, RailRefuses, RailAnswerLost, RefundStatus
  <2>2. Is(p, "call") /\ UNCHANGED refunds
    BY <1>2
    DEF IssueByHand, RailAccepts, RailRefuses, RailAnswerLost, CallsRail,
        moneyVars
  <2>3. /\ TaskOK(p)' /\ tasks'[p] \in Task /\ Others(p)
        /\ tasks'[p] = [tasks[p] EXCEPT !.pc = "book", !.answer = answer]
    BY <2>1, <2>2, AnswerOK
  <2>4. /\ tasks'[p].order = tasks[p].order /\ tasks'[p].row = tasks[p].row
        /\ tasks'[p].pc = "book" /\ tasks'[p].answer = answer
    BY <2>3 DEF PayInv, PayTypeOK, Task
  <2> QED BY <2>1, <2>2, <2>3, <2>4 DEF TaskStep, Is
<1>3. CASE IssueBook(p) BY <1>3, BookOK DEF TaskStep, Owning
<1>4. CASE IssueStatus(p) \/ IssueClose(p)
  <2>1. UNCHANGED refunds BY <1>4 DEF IssueStatus, IssueClose, moneyVars
  <2>2. CASE Finish(p)
    <3>1. tasks'[p] = IdleTask /\ Others(p) BY <2>2, Finished DEF PayInv
    <3> QED BY <2>1, <3>1, IdleOK, IdleShape DEF TaskStep, Owning
  <2>3. CASE Goto(p, "close") /\ tasks[p].pc = "status" /\ tasks[p].full
    <3>1. /\ TaskOK(p)' /\ tasks'[p] \in Task /\ Others(p)
          /\ tasks'[p].pc = "close"
      BY <2>1, <2>3, GoesOnOK
    <3> QED BY <2>1, <3>1 DEF TaskStep, Owning
  <2> QED BY <1>4, <2>2, <2>3 DEF IssueStatus, IssueClose, Is, ClosesOrder
<1> QED BY <1>1, <1>2, <1>3, <1>4 DEF Issuing

(* The steps of the reactor between refunds.                               *)
LEMMA ReactorStep ==
  ASSUME PayInv, NEW p \in Reactors, ReactorIssue(p)
  PROVE  TaskStep(p) /\ Quiet
<1>0. p \in Processes /\ "SYSTEM" \in STAFF BY DEF Processes, STAFF
<1>1. Quiet BY DEF Quiet, ReactorIssue, moneyVars
<1>2. PICK candidate \in todo[p] :
        IssueRead(p, candidate.order, candidate.due, "SYSTEM")
  BY DEF ReactorIssue
<1>3. PICK o \in Orders, due \in (Nat \ {0}) \cup {NoDecision} :
        /\ o = candidate.order /\ due = candidate.due
        /\ Due(o, due)
  <2>1. /\ candidate.order \in Orders
        /\ candidate.due \in (Nat \ {0}) \cup {NoDecision}
        /\ Due(candidate.order, candidate.due)
    BY DEF PayInv, PayTypeOK, ReactorOK
  <2> QED BY <2>1
<1>4. orders[o].status \in OrderStatus
  BY <1>3 DEF Due, Unserved, OrderStatus
<1>5. IssueRead(p, o, due, "SYSTEM") BY <1>2, <1>3
<1>6. TaskOK(p)' /\ tasks'[p] \in Task /\ Others(p)
  BY <1>0, <1>1, <1>4, <1>5, ReadOK DEF Quiet
<1>7. PayTypeOK BY DEF PayInv
<1>8. \/ tasks'[p] = IdleTask
      \/ /\ tasks'[p].pc = "record" /\ tasks'[p].order = o
         /\ due = NoDecision => tasks'[p].full
         /\ due # NoDecision => tasks'[p].amount = due
  BY <1>0, <1>4, <1>5, <1>7, ReadShape
<1>9. tasks'[p] = IdleTask \/ Instructed(tasks'[p])
  BY <1>3, <1>8 DEF Instructed
<1> QED BY <1>1, <1>6, <1>8, <1>9, IdleShape DEF TaskStep, Owning

(* A process that dies forgets.                                            *)
LEMMA CrashStep ==
  ASSUME PayInv, NEW p \in Processes, Crash(p)
  PROVE  TaskStep(p) /\ Quiet
<1>1. Finish(p) /\ Quiet BY DEF Crash, Quiet, moneyVars
<1>2. tasks'[p] = IdleTask /\ Others(p) BY <1>1, Finished DEF PayInv
<1> QED BY <1>1, <1>2, IdleOK, IdleShape DEF TaskStep, Owning

(* Every step is a step of one task, or leaves the tasks and the refund     *)
(* rows alone.                                                             *)
LEMMA OneTaskSteps ==
  ASSUME PayInv, [PayNext]_allVars
  PROVE  \/ UNCHANGED <<tasks, refunds>>
         \/ \E p \in Processes :
              /\ TaskStep(p)
              /\ UNCHANGED refunds \/ IssueRecord(p) \/ IssueBook(p)
<1>0. Workers \subseteq Processes /\ Reactors \subseteq Processes
  BY DEF Processes
<1>1. CASE OrderingStep /\ UNCHANGED payVars BY <1>1 DEF payVars
<1>2. ASSUME NEW o \in Orders, OpenIntent(o) \/ StoreRef(o) \/ CustomerPays(o)
      PROVE  UNCHANGED <<tasks, refunds>>
  BY <1>2 DEF OpenIntent, StoreRef, CustomerPays, taskVars
<1>3. ASSUME NEW p \in Reactors, ReactorList(p)
      PROVE  UNCHANGED <<tasks, refunds>>
  BY <1>3 DEF ReactorList, moneyVars
<1>4. UNCHANGED allVars => UNCHANGED <<tasks, refunds>>
  BY DEF allVars, payVars
<1>5. Quiet => UNCHANGED refunds BY DEF Quiet
<1> QED
  BY <1>0, <1>1, <1>2, <1>3, <1>4, <1>5, PayCases, NextGrown, RequestedStep,
     PaidStep, IssuingStep, ReactorStep, CrashStep

(* Tasks keep their type and what they know, and own their rows alone.     *)
LEMMA NextTasks ==
  ASSUME PayInv, [PayNext]_allVars
  PROVE  /\ tasks' \in [Processes -> Task]
         /\ \A p \in Processes : TaskOK(p)'
         /\ RowsAreOwnedOnce'
<1>0. PayTypeOK /\ Grown BY NextGrown DEF PayInv
<1>1. CASE UNCHANGED <<tasks, refunds>>
  <2>1. tasks' \in [Processes -> Task] BY <1>0, <1>1 DEF PayTypeOK
  <2>2. ASSUME NEW p \in Processes PROVE TaskOK(p)'
    <3>1. PICK task \in Task : task = tasks[p] BY <1>0 DEF PayTypeOK
    <3>2. Informed(task, payments', refunds')
      BY <1>0, <1>1, <3>1, InformedFrame DEF PayInv, TaskOK
    <3>3. tasks'[p] = task BY <1>1, <3>1
    <3> QED BY <3>2, <3>3 DEF TaskOK
  <2>3. RowsAreOwnedOnce' BY <1>1 DEF PayInv, RowsAreOwnedOnce
  <2> QED BY <2>1, <2>2, <2>3
<1>2. ASSUME NEW p \in Processes, TaskStep(p),
             UNCHANGED refunds \/ IssueRecord(p) \/ IssueBook(p)
      PROVE  /\ tasks' \in [Processes -> Task]
             /\ \A q \in Processes : TaskOK(q)'
             /\ RowsAreOwnedOnce'
  <2>1. /\ TaskOK(p)' /\ tasks'[p] \in Task /\ Others(p)
    BY <1>2 DEF TaskStep
  <2>2. \A q \in Processes \ {p} : TaskOK(q)' /\ tasks'[q] \in Task
    BY <1>0, <1>2, <2>1, OthersOK
  <2>3. tasks' \in [Processes -> Task]
    <3>1. \A q \in Processes : tasks'[q] \in Task BY <2>1, <2>2
    <3> QED BY <2>1, <3>1 DEF Others
  <2>4. \A q \in Processes : TaskOK(q)' BY <2>1, <2>2
  <2>5. ASSUME NEW q \in Processes \ {p},
               tasks'[p].pc \in Owning, tasks'[q].pc \in Owning
        PROVE  \/ tasks'[p].order # tasks'[q].order
               \/ tasks'[p].row # tasks'[q].row
    <3>1. tasks'[q] = tasks[q] BY <2>1 DEF Others
    <3>2. /\ tasks[q].order \in Orders
          /\ tasks[q].row \in DOMAIN refunds[tasks[q].order]
      BY <2>5, <3>1 DEF PayInv, TaskOK, Informed, OwnsRow, Owning
    <3>3. CASE /\ tasks[p].pc = "call" /\ tasks'[p].pc = "book"
               /\ tasks'[p].order = tasks[p].order
               /\ tasks'[p].row = tasks[p].row
      BY <2>5, <3>1, <3>3 DEF PayInv, RowsAreOwnedOnce, Owning
    <3>4. CASE tasks'[p].row \notin DOMAIN refunds[tasks'[p].order]
      BY <3>1, <3>2, <3>4
    <3> QED BY <1>2, <2>5, <3>3, <3>4 DEF TaskStep
  <2>6. ASSUME NEW q \in Processes, NEW r \in Processes, q # r, q # p, r # p,
               tasks'[q].pc \in Owning, tasks'[r].pc \in Owning
        PROVE  \/ tasks'[q].order # tasks'[r].order
               \/ tasks'[q].row # tasks'[r].row
    <3>1. tasks'[q] = tasks[q] /\ tasks'[r] = tasks[r]
      BY <2>1, <2>6 DEF Others
    <3> QED BY <2>6, <3>1 DEF PayInv, RowsAreOwnedOnce
  <2>7. RowsAreOwnedOnce' BY <2>5, <2>6 DEF RowsAreOwnedOnce
  <2> QED BY <2>3, <2>4, <2>7
<1> QED BY <1>1, <1>2, OneTaskSteps

-----------------------------------------------------------------------------
(* The reactor's instructions stay what they are.                          *)

(* A closed order can only become REFUNDED, and its decision is final even *)
(* where it is that nobody decided.                                        *)
LEMMA DueStays ==
  ASSUME IInv, [Next]_vars, NEW x \in Orders, NEW due, Due(x, due)
  PROVE  Due(x, due)'
<1>1. TypeOK /\ RequestOK BY DEF IInv
<1>2. orders[x] \in OrderRow BY <1>1 DEF TypeOK
<1>3. ASSUME NEW o \in Orders, NEW actor \in OrderActor, Move(o, actor)
      PROVE  Due(x, due)'
  <2>1. PICK rule, decision : MoveBy(rule, o, actor, decision)
    BY <1>3, MoveShape
  <2>2. orders' = [orders EXCEPT ![o] = Moved(rule, o, actor, decision)]
    BY <2>1 DEF MoveBy, Apply
  <2>3. CASE o = x
    <3>1. rule.to = "REFUNDED" /\ decision = orders[x].refundDue
      BY <2>1, <2>3 DEF MoveBy, RuleFacts, Edge, Due, Unserved, InKitchen
    <3>2. orders'[x] = Moved(rule, x, actor, decision)
      BY <1>1, <2>2, <2>3 DEF TypeOK
    <3>3. orders'[x].status = "REFUNDED" /\ orders'[x].refundDue = decision
      BY <1>2, <3>1, <3>2 DEF Moved, OrderRow
    <3> QED BY <3>1, <3>3 DEF Due
  <2>4. CASE o # x
    <3>1. orders'[x] = orders[x] BY <1>1, <2>2, <2>4 DEF TypeOK
    <3> QED BY <3>1 DEF Due
  <2> QED BY <2>3, <2>4
<1>4. ASSUME NEW o \in Orders, PlaceCommit(o) PROVE Due(x, due)'
  <2>1. orders[o].status = "NOT_PLACED"
    BY <1>1, <1>4 DEF PlaceCommit, RequestOK
  <2>2. o # x BY <2>1 DEF Due, Unserved
  <2>3. orders'[x] = orders[x] BY <1>1, <1>4, <2>2 DEF PlaceCommit, TypeOK
  <2> QED BY <2>3 DEF Due
<1>5. ASSUME /\ orders'[x].status = orders[x].status
             /\ orders'[x].refundDue = orders[x].refundDue
             /\ orders'[x].readyAt = orders[x].readyAt
      PROVE  Due(x, due)'
  BY <1>5 DEF Due
<1>6. ASSUME NEW o \in Orders, DeadlinePasses(o) PROVE Due(x, due)'
  BY <1>1, <1>2, <1>5, <1>6 DEF DeadlinePasses, TypeOK, OrderRow
<1>7. ASSUME NEW i \in Items, DeleteItem(i) PROVE Due(x, due)'
  <2>1. orders'[x] = [orders[x] EXCEPT !.lines[i] = 0]
    BY <1>7 DEF DeleteItem
  <2> QED BY <1>2, <1>5, <2>1 DEF OrderRow
<1>8. CASE UNCHANGED orders BY <1>5, <1>8
<1> QED
  BY <1>3, <1>4, <1>6, <1>7, <1>8, StepCases, PlacingCases
  DEF CapCommit, orderVars

(* What the reactor lists is due.                                          *)
LEMMA CandidatesAreDue ==
  ASSUME PayInv, NEW candidate \in findCandidates
  PROVE  /\ candidate \in [order : Orders, due : (Nat \ {0}) \cup {NoDecision}]
         /\ Due(candidate.order, candidate.due)
<1>1. PICK o \in Orders : /\ candidate = [order |-> o, due |-> orders[o].refundDue]
                          /\ Candidate(o)
  BY DEF findCandidates
<1>2. orders[o] \in OrderRow /\ Life(orders[o])
  BY DEF PayInv, IInv, TypeOK, LifeOK
<1>3. orders[o].refundDue \in Nat \cup {NoDecision} BY <1>2 DEF OrderRow
<1>4. orders[o].status \in Unserved /\ Owed(o)
  BY <1>1 DEF Candidate, Closed, Unserved
<1>5. orders[o].refundDue \in (Nat \ {0}) \cup {NoDecision}
  BY <1>3, <1>4 DEF Owed, NoDecision
<1>6. ~(orders[o].status = "EXPIRED" /\ orders[o].readyAt)
  BY <1>2, <1>4 DEF Owed, Life, NoDecision
<1>7. Due(o, orders[o].refundDue) BY <1>4, <1>6 DEF Due
<1> QED BY <1>1, <1>5, <1>7

(* A reactor's list only shrinks, or is read afresh.                       *)
LEMMA NextTodo ==
  ASSUME PayInv, [PayNext]_allVars
  PROVE  /\ todo' = [r \in Reactors |-> todo'[r]]
         /\ \A r \in Reactors : todo'[r] \subseteq todo[r] \cup findCandidates
<1>1. todo = [r \in Reactors |-> todo[r]] BY DEF PayInv, PayTypeOK
<1>2. CASE UNCHANGED todo BY <1>1, <1>2
<1>3. ASSUME NEW p \in Reactors, ReactorList(p)
      PROVE  /\ todo' = [r \in Reactors |-> todo'[r]]
             /\ \A r \in Reactors : todo'[r] \subseteq todo[r] \cup findCandidates
  BY <1>1, <1>3 DEF ReactorList
<1>4. ASSUME NEW p \in Reactors, ReactorIssue(p)
      PROVE  /\ todo' = [r \in Reactors |-> todo'[r]]
             /\ \A r \in Reactors : todo'[r] \subseteq todo[r] \cup findCandidates
  BY <1>1, <1>4 DEF ReactorIssue
<1>5. ASSUME NEW p \in Processes, Crash(p)
      PROVE  /\ todo' = [r \in Reactors |-> todo'[r]]
             /\ \A r \in Reactors : todo'[r] \subseteq todo[r] \cup findCandidates
  <2>1. todo' = [r \in Reactors |-> IF r = p THEN {} ELSE todo[r]]
    BY <1>5 DEF Crash
  <2> QED BY <1>1, <2>1
<1>6. ASSUME NEW p, NEW o,
             \/ Webhook(p, o) \/ Simulate(p, o) \/ ConfirmRecord(p, o)
             \/ ConfirmPaid(p, o) \/ AdminRefund(p, o)
             \/ OpenIntent(o) \/ StoreRef(o) \/ CustomerPays(o)
             \/ MarkPaid(p) \/ ConfirmAccept(p)
      PROVE  UNCHANGED todo
  BY <1>6
  DEF Webhook, Simulate, ConfirmRecord, ConfirmPaid, AdminRefund, OpenIntent,
      StoreRef, CustomerPays, MarkPaid, ConfirmAccept, taskVars
<1>7. ASSUME NEW p, Issuing(p) PROVE UNCHANGED todo
  BY <1>7
  DEF Issuing, IssueRecord, IssueByHand, RailAccepts, RailRefuses,
      RailAnswerLost, IssueBook, IssueStatus, IssueClose
<1>8. UNCHANGED allVars \/ UNCHANGED payVars => UNCHANGED todo
  BY DEF allVars, payVars
<1> QED BY <1>2, <1>3, <1>4, <1>5, <1>6, <1>7, <1>8, PayCases

(* What is due stays due, so a reactor that has read may always act.       *)
LEMMA NextReactor ==
  ASSUME PayInv, [PayNext]_allVars
  PROVE  ReactorOK'
<1>0. PayTypeOK /\ IInv /\ [Next]_vars BY StepIsOrderings DEF PayInv
<1>1. ASSUME NEW r \in Reactors, NEW candidate \in todo'[r]
      PROVE  Due(candidate.order, candidate.due)'
  <2>1. candidate \in todo[r] \cup findCandidates BY NextTodo
  <2>2. candidate.order \in Orders /\ Due(candidate.order, candidate.due)
    <3>1. CASE candidate \in todo[r]
      BY <1>0, <3>1 DEF PayTypeOK, PayInv, ReactorOK
    <3>2. CASE candidate \in findCandidates BY <3>2, CandidatesAreDue
    <3> QED BY <2>1, <3>1, <3>2
  <2>3. PICK o, due :
          o \in Orders /\ o = candidate.order /\ due = candidate.due
    BY <2>2
  <2>4. Due(o, due)' BY <1>0, <2>2, <2>3, DueStays
  <2> QED BY <2>3, <2>4
<1>2. ASSUME NEW r \in Reactors, tasks'[r].pc = "record"
      PROVE  Instructed(tasks[r])'
  <2>0. r \in Processes BY DEF Processes
  <2>1. Instructed(tasks'[r])
    <3>1. CASE tasks'[r] = tasks[r]
      BY <1>2, <3>1 DEF PayInv, ReactorOK, Is
    <3>2. ASSUME NEW p \in Processes, TaskStep(p), r # p
          PROVE  tasks'[r] = tasks[r]
      BY <2>0, <3>2 DEF TaskStep, Others
    <3>3. ASSUME TaskStep(r) PROVE Instructed(tasks'[r])
      BY <1>2, <3>3 DEF TaskStep
    <3> QED BY <3>1, <3>2, <3>3, OneTaskSteps
  <2>2. PICK task \in Task : task = tasks'[r] BY <2>0, NextTasks
  <2>3. TaskOK(r)' BY <2>0, NextTasks
  <2>4. task.order \in Orders
    BY <1>2, <2>2, <2>3 DEF TaskOK, Informed
  <2>5. Instructed(task) => Instructed(task)'
    <3>1. Due(task.order, NoDecision) => Due(task.order, NoDecision)'
      BY <1>0, <2>4, DueStays
    <3>2. Due(task.order, task.amount) => Due(task.order, task.amount)'
      BY <1>0, <2>4, DueStays
    <3> QED BY <3>1, <3>2 DEF Instructed
  <2> QED BY <2>1, <2>2, <2>5
<1> QED BY <1>1, <1>2 DEF ReactorOK, Is

-----------------------------------------------------------------------------
(* Types.                                                                  *)

(* The provider never gives back more than it took, so its books keep      *)
(* their type; money only ever comes in and goes back.                     *)
LEMMA NextProvider ==
  ASSUME PayInv, [PayNext]_allVars
  PROVE  /\ psp' \in [Orders -> [charged : BOOLEAN, returned : 0 .. Total]]
         /\ \A o \in Orders : psp[o].charged => psp'[o].charged
<1>1. psp \in [Orders -> [charged : BOOLEAN, returned : 0 .. Total]]
  BY DEF PayInv, PayTypeOK
<1>2. CASE UNCHANGED psp BY <1>1, <1>2
<1>3. ASSUME NEW o \in Orders, CustomerPays(o)
      PROVE  /\ psp' \in [Orders -> [charged : BOOLEAN, returned : 0 .. Total]]
             /\ \A x \in Orders : psp[x].charged => psp'[x].charged
  BY <1>1, <1>3 DEF CustomerPays
<1>4. ASSUME NEW p \in Processes, RailAccepts(p) \/ RailAnswerLost(p)
      PROVE  /\ psp' \in [Orders -> [charged : BOOLEAN, returned : 0 .. Total]]
             /\ \A x \in Orders : psp[x].charged => psp'[x].charged
  <2>1. PICK task \in Task : task = tasks[p] BY DEF PayInv, PayTypeOK
  <2>2. psp' = [psp EXCEPT ![task.order].returned =
                  psp[task.order].returned + task.amount]
    BY <1>4, <2>1 DEF RailAccepts, RailAnswerLost, Returned
  <2>3. psp[task.order].returned + task.amount <= Total
    BY <1>4, <2>1 DEF RailAccepts, RailAnswerLost, RailCan
  <2>4. task.order \in Orders
    BY <1>4, <2>1
    DEF RailAccepts, RailAnswerLost, CallsRail, Is, PayInv, TaskOK, Informed
  <2>5. task.amount \in Nat /\ Total \in Nat BY TotalAssumption DEF Task
  <2>6. psp[task.order] \in [charged : BOOLEAN, returned : 0 .. Total]
    BY <1>1, <2>4
  <2>7. psp[task.order].returned + task.amount \in 0 .. Total
    BY <2>3, <2>5, <2>6
  <2> QED BY <1>1, <2>2, <2>4, <2>6, <2>7
<1>5. ASSUME NEW p, NEW o,
             \/ Webhook(p, o) \/ Simulate(p, o) \/ ConfirmRecord(p, o)
             \/ ConfirmPaid(p, o) \/ AdminRefund(p, o)
             \/ OpenIntent(o) \/ StoreRef(o)
             \/ MarkPaid(p) \/ ConfirmAccept(p)
             \/ ReactorList(p) \/ ReactorIssue(p) \/ Crash(p)
      PROVE  UNCHANGED psp
  BY <1>5
  DEF Webhook, Simulate, ConfirmRecord, ConfirmPaid, AdminRefund, OpenIntent,
      StoreRef, MarkPaid, ConfirmAccept, ReactorList, ReactorIssue, Crash,
      moneyVars
<1>6. ASSUME NEW p \in Processes, Issuing(p)
      PROVE  RailAccepts(p) \/ RailAnswerLost(p) \/ UNCHANGED psp
  BY <1>6
  DEF Issuing, IssueRecord, IssueByHand, RailRefuses, IssueBook, IssueStatus,
      IssueClose, moneyVars
<1>7. UNCHANGED allVars \/ UNCHANGED payVars => UNCHANGED psp
  BY DEF allVars, payVars
<1> QED BY <1>2, <1>3, <1>4, <1>5, <1>6, <1>7, PayCases

(* The mode is fixed at boot, and faults stay within their bound.          *)
LEMMA NextMode ==
  ASSUME PayInv, [PayNext]_allVars
  PROVE  liveMode' = liveMode /\ faults' \in 0 .. MaxFaults
<1>1. faults \in 0 .. MaxFaults /\ MaxFaults \in Nat
  BY RefundBoundAssumption DEF PayInv, PayTypeOK
<1>2. faults' = faults \/ (faults < MaxFaults /\ faults' = faults + 1)
        => faults' \in 0 .. MaxFaults
  BY <1>1
<1>3. ASSUME NEW p, NEW o,
             \/ Webhook(p, o) \/ Simulate(p, o) \/ ConfirmRecord(p, o)
             \/ ConfirmPaid(p, o) \/ AdminRefund(p, o)
             \/ OpenIntent(o) \/ StoreRef(o) \/ CustomerPays(o)
             \/ MarkPaid(p) \/ ConfirmAccept(p)
             \/ ReactorList(p) \/ ReactorIssue(p)
      PROVE  UNCHANGED <<liveMode, faults>>
  BY <1>3
  DEF Webhook, Simulate, ConfirmRecord, ConfirmPaid, AdminRefund, OpenIntent,
      StoreRef, CustomerPays, MarkPaid, ConfirmAccept, ReactorList,
      ReactorIssue, moneyVars, taskVars
<1>4. ASSUME NEW p, Issuing(p) \/ Crash(p)
      PROVE  /\ liveMode' = liveMode
             /\ faults' = faults \/ (faults < MaxFaults /\ faults' = faults + 1)
  BY <1>4
  DEF Issuing, IssueRecord, IssueByHand, RailAccepts, RailRefuses,
      RailAnswerLost, IssueBook, IssueStatus, IssueClose, Crash, moneyVars
<1>5. UNCHANGED allVars \/ UNCHANGED payVars => UNCHANGED <<liveMode, faults>>
  BY DEF allVars, payVars
<1> QED BY <1>1, <1>2, <1>3, <1>4, <1>5, PayCases

(* All the module's rows keep their types.                                 *)
LEMMA NextPayType ==
  ASSUME PayInv, [PayNext]_allVars
  PROVE  PayTypeOK' /\ CashIsTaken'
<1>1. TypeOK' BY StepIsOrderings, NextIInv DEF PayInv, IInv
<1>2. todo' \in [Reactors ->
        SUBSET [order : Orders, due : (Nat \ {0}) \cup {NoDecision}]]
  <2>1. todo \in [Reactors ->
          SUBSET [order : Orders, due : (Nat \ {0}) \cup {NoDecision}]]
    BY DEF PayInv, PayTypeOK
  <2>2. findCandidates \subseteq
          [order : Orders, due : (Nat \ {0}) \cup {NoDecision}]
    BY CandidatesAreDue
  <2>3. /\ todo' = [r \in Reactors |-> todo'[r]]
        /\ \A r \in Reactors : todo'[r] \subseteq todo[r] \cup findCandidates
    BY NextTodo
  <2> QED BY <2>1, <2>2, <2>3
<1>3. liveMode' \in BOOLEAN BY NextMode DEF PayInv, PayTypeOK
<1>4. PaymentsTyped' /\ RefundsTyped' BY NextGrown DEF Grown
<1> QED
  BY <1>1, <1>2, <1>3, <1>4, NextProvider, NextMode, NextTasks
  DEF PayTypeOK, PaymentsTyped, RefundsTyped

-----------------------------------------------------------------------------
(* Captures.                                                               *)

(* A transition writes the payer exactly when it goes to PAID.             *)
LEMMA TransitionPayer ==
  ASSUME TypeOK, NEW o \in Orders, NEW to, NEW actor, NEW accepting,
         Transition(o, to, actor, accepting), NEW x \in Orders
  PROVE  orders'[x].paidBy =
           IF x = o /\ to = "PAID" THEN actor ELSE orders[x].paidBy
<1>1. PICK rule, decision : /\ rule.to = to
                            /\ Apply(rule, o, actor, decision)
  BY DEF Transition, Admits
<1>2. orders' = [orders EXCEPT ![o] = Moved(rule, o, actor, decision)]
  BY <1>1 DEF Apply
<1>3. CASE x = o
  <2>1. orders'[x] = Moved(rule, o, actor, decision) /\ orders[o] \in OrderRow
    BY <1>2, <1>3 DEF TypeOK
  <2> QED BY <1>1, <1>3, <2>1 DEF Moved, OrderRow
<1>4. CASE x # o BY <1>2, <1>4 DEF TypeOK
<1> QED BY <1>3, <1>4

(* A transition writes the status it goes to.                              *)
LEMMA TransitionStatus ==
  ASSUME TypeOK, NEW o \in Orders, NEW to, NEW actor, NEW accepting,
         Transition(o, to, actor, accepting), NEW x \in Orders
  PROVE  orders'[x].status = IF x = o THEN to ELSE orders[x].status
<1>1. PICK rule, decision : /\ rule.to = to
                            /\ Apply(rule, o, actor, decision)
  BY DEF Transition, Admits
<1>2. orders' = [orders EXCEPT ![o] = Moved(rule, o, actor, decision)]
  BY <1>1 DEF Apply
<1>3. CASE x = o
  <2>1. orders'[x] = Moved(rule, o, actor, decision) /\ orders[o] \in OrderRow
    BY <1>2, <1>3 DEF TypeOK
  <2> QED BY <1>1, <1>3, <2>1 DEF Moved, OrderRow
<1>4. CASE x # o BY <1>2, <1>4 DEF TypeOK
<1> QED BY <1>3, <1>4

(* Nothing of Ordering's own makes a payer of the system or the merchant,  *)
(* and only an operator's force makes an order REFUNDED.                   *)
OwnMove(o, to, actor, accepting) ==
  /\ Transition(o, to, actor, accepting)
  /\ to = "PAID" => actor = "ADMIN"
  /\ to = "REFUNDED" => "REFUNDED" \in AdminTargets

LEMMA OrderingMoves ==
  ASSUME IInv, OrderingStep, NEW x \in Orders
  PROVE  \/ \E o \in Orders : \E to, actor, accepting :
              OwnMove(o, to, actor, accepting)
         \/ /\ orders'[x].status = orders[x].status
            /\ orders'[x].paidBy = orders[x].paidBy
         \/ /\ orders'[x].status = "PENDING_PAYMENT"
            /\ orders'[x].paidBy = Nobody
<1> DEFINE moved == \E o \in Orders : \E to, actor, accepting :
                      OwnMove(o, to, actor, accepting)
           kept == /\ orders'[x].status = orders[x].status
                   /\ orders'[x].paidBy = orders[x].paidBy
           placed == /\ orders'[x].status = "PENDING_PAYMENT"
                     /\ orders'[x].paidBy = Nobody
<1>1. TypeOK /\ orders[x] \in OrderRow BY DEF IInv, TypeOK
<1>2. UNCHANGED orders => kept OBVIOUS
<1>4. ASSUME NEW o \in Orders, Placing(o) PROVE kept \/ placed
  <2>1. CASE PlaceCommit(o)
    <3>1. CASE x = o
      BY <1>1, <2>1, <3>1 DEF PlaceCommit, TypeOK, NotPlaced
    <3>2. CASE x # o BY <1>1, <2>1, <3>2 DEF PlaceCommit, TypeOK
    <3> QED BY <3>1, <3>2
  <2>2. CASE PlaceCheck(o) \/ PlaceSeed(o) \/ PlaceAbort(o)
    BY <1>2, <2>2 DEF PlaceCheck, PlaceSeed, PlaceAbort, orderVars
  <2> QED BY <1>4, <2>1, <2>2 DEF Placing
<1>5. ASSUME NEW o \in Orders, CustomerCancel(o) PROVE moved
  <2>1. Transition(o, "CANCELLED", "CUSTOMER", TRUE)
    BY Zenon, <1>5 DEF CustomerCancel
  <2>2. OwnMove(o, "CANCELLED", "CUSTOMER", TRUE) BY <2>1 DEF OwnMove
  <2> QED BY <2>2
<1>6. ASSUME NEW o \in Orders, Staffed(o) PROVE moved
  <2>1. ASSUME NEW to \in MerchantTargets, MerchantMove(o, to) PROVE moved
    <3>1. PICK accepting \in BOOLEAN : Transition(o, to, "MERCHANT", accepting)
      BY <2>1 DEF MerchantMove
    <3>2. OwnMove(o, to, "MERCHANT", accepting)
      BY <3>1 DEF MerchantTargets, OwnMove
    <3> QED BY <3>2
  <2>2. ASSUME NEW to \in AdminTargets, AdminForce(o, to) PROVE moved
    <3>1. Transition(o, to, "ADMIN", TRUE) BY <2>2 DEF AdminForce
    <3>2. OwnMove(o, to, "ADMIN", TRUE) BY <3>1 DEF OwnMove
    <3> QED BY <3>2
  <2> QED BY <1>6, <2>1, <2>2 DEF Staffed
<1>7. ASSUME NEW o \in Orders, DeadlinePasses(o) PROVE kept
  BY <1>1, <1>7 DEF DeadlinePasses, TypeOK, OrderRow
<1>8. ASSUME NEW i \in Items, Selling(i) PROVE kept
  <2>1. CASE DeleteItem(i)
    <3>1. orders'[x] = [orders[x] EXCEPT !.lines[i] = 0]
      BY <2>1 DEF DeleteItem
    <3> QED BY <1>1, <3>1 DEF OrderRow
  <2>2. UNCHANGED orders \/ DeleteItem(i)
    BY <1>8 DEF Selling, CapRead, CapCommit, CapAbort, orderVars
  <2> QED BY <1>2, <2>1, <2>2
<1>9. ASSUME NEW s \in Sweepers, Sweeping(s) \/ SweepCrash(s)
      PROVE  moved \/ kept
  <2>1. \/ \E o \in Orders : Transition(o, "EXPIRED", "SYSTEM", TRUE)
        \/ UNCHANGED orders
    BY <1>9
    DEF Sweeping, SweepList, SweepDone, SweepExpire, SweepCrash, orderVars
  <2>2. ASSUME NEW o \in Orders, Transition(o, "EXPIRED", "SYSTEM", TRUE)
        PROVE  moved
    <3>1. OwnMove(o, "EXPIRED", "SYSTEM", TRUE) BY <2>2 DEF OwnMove
    <3> QED BY <3>1
  <2> QED BY <1>2, <2>1, <2>2
<1>10. moved \/ kept \/ placed
  <2> HIDE DEF moved, kept, placed
  <2> QED BY Zenon, <1>4, <1>5, <1>6, <1>7, <1>8, <1>9 DEF OrderingStep
<1> QED BY <1>10

(* So a payer the payment module knows was written by the payment module.  *)
LEMMA OrderingPaysNothing ==
  ASSUME IInv, OrderingStep, NEW x \in Orders,
         orders'[x].paidBy \in {"SYSTEM", "MERCHANT"}
  PROVE  orders[x].paidBy \in {"SYSTEM", "MERCHANT"}
<1>1. ASSUME NEW o \in Orders, NEW to, NEW actor, NEW accepting,
             OwnMove(o, to, actor, accepting)
      PROVE  orders[x].paidBy \in {"SYSTEM", "MERCHANT"}
  BY <1>1, TransitionPayer DEF OwnMove, IInv
<1> QED BY <1>1, OrderingMoves DEF Nobody

(* Capture first, advance second: whoever moves an order to PAID knows of  *)
(* a capture.                                                              *)
LEMMA NextPaidOrder ==
  ASSUME PayInv, [PayNext]_allVars
  PROVE  PaidOrderHasCapture'
<1> SUFFICES ASSUME NEW o \in Orders, orders'[o].paidBy \in {"SYSTEM", "MERCHANT"}
             PROVE  \E k \in PaymentKind : Taken(payments', o, k)
  BY DEF PaidOrderHasCapture, Taken
<1>1. StayTaken /\ IInv /\ TypeOK BY NextGrown DEF Grown, PayInv, IInv
<1>2. ASSUME orders[o].paidBy \in {"SYSTEM", "MERCHANT"}
      PROVE  \E k \in PaymentKind : Taken(payments', o, k)
  <2>1. \E k \in PaymentKind : Taken(payments, o, k)
    BY <1>2 DEF PayInv, PaidOrderHasCapture, Taken
  <2> QED BY <1>1, <2>1 DEF StayTaken
<1>3. CASE OrderingStep BY <1>1, <1>2, <1>3, OrderingPaysNothing
<1>4. ASSUME NEW p \in Workers, MarkPaid(p)
      PROVE  \E k \in PaymentKind : Taken(payments', o, k)
  <2> DEFINE x == tasks[p].order
             actor == tasks[p].actor
  <2>1. p \in Processes /\ tasks[p].pc \in Settling
    BY <1>4 DEF Processes, MarkPaid, Settling
  <2>2. x \in Orders /\ \E k \in PaymentKind : Taken(payments, x, k)
    BY <2>1 DEF PayInv, TaskOK, Informed, Settling
  <2>3. Transition(x, "PAID", actor, TRUE) \/ UNCHANGED orders
    BY <1>4 DEF MarkPaid, Attempt, orderVars
  <2> HIDE DEF x, actor
  <2>4. CASE o = x BY <1>1, <2>2, <2>4 DEF StayTaken
  <2>5. CASE o # x
    <3>1. orders'[o].paidBy = orders[o].paidBy
      BY <1>1, <2>2, <2>3, <2>5, TransitionPayer
    <3> QED BY <1>2, <3>1
  <2> QED BY <2>4, <2>5
<1>5. ASSUME NEW p \in Processes,
             (p \in Workers /\ ConfirmAccept(p)) \/ IssueClose(p)
      PROVE  \E k \in PaymentKind : Taken(payments', o, k)
  <2> DEFINE x == tasks[p].order
  <2>1. tasks[p].pc # "idle" BY <1>5 DEF ConfirmAccept, IssueClose, Is
  <2>2. x \in Orders BY <2>1 DEF PayInv, TaskOK, Informed
  <2>3. \/ UNCHANGED orders
        \/ \E to \in {"ACCEPTED", "REFUNDED"} : \E actor : \E accepting :
             Transition(x, to, actor, accepting)
    BY <1>5 DEF ConfirmAccept, IssueClose, Attempt, orderVars
  <2> HIDE DEF x
  <2>4. orders'[o].paidBy = orders[o].paidBy
    BY <1>1, <2>2, <2>3, TransitionPayer
  <2> QED BY <1>2, <2>4
<1>6. ASSUME NEW p \in Processes, Issuing(p), ~IssueClose(p)
      PROVE  UNCHANGED orders
  BY <1>6
  DEF Issuing, IssueRecord, IssueByHand, RailAccepts, RailRefuses,
      RailAnswerLost, IssueBook, IssueStatus, vars
<1>7. ASSUME NEW p, NEW x,
             \/ Webhook(p, x) \/ Simulate(p, x) \/ ConfirmRecord(p, x)
             \/ ConfirmPaid(p, x) \/ AdminRefund(p, x)
             \/ OpenIntent(x) \/ StoreRef(x) \/ CustomerPays(x)
             \/ ReactorList(p) \/ ReactorIssue(p) \/ Crash(p)
      PROVE  UNCHANGED orders
  BY <1>7
  DEF Webhook, Simulate, ConfirmRecord, ConfirmPaid, AdminRefund, OpenIntent,
      StoreRef, CustomerPays, ReactorList, ReactorIssue, Crash, vars
<1>8. UNCHANGED allVars => UNCHANGED orders BY DEF allVars, vars
<1>9. Workers \subseteq Processes BY DEF Processes
<1>10. UNCHANGED orders => \E k \in PaymentKind : Taken(payments', o, k)
  BY <1>2
<1> QED BY <1>3, <1>4, <1>5, <1>6, <1>7, <1>8, <1>9, <1>10, PayCases

(* What a step may do to a payment's status: leave it, open it, capture it *)
(* (an online one in live mode because it was charged), or book a refund.  *)
LEMMA StatusCases ==
  ASSUME PayInv, [PayNext]_allVars, NEW x \in Orders, NEW k \in PaymentKind
  PROVE  \/ payments'[x][k].status = payments[x][k].status
         \/ k = "pi" /\ payments'[x][k].status = "PENDING"
         \/ /\ payments'[x][k].status = "CAPTURED"
            /\ k = "pi" /\ liveMode => psp[x].charged
            /\ k = "sim" => ~liveMode
         \/ \E p \in Processes :
              /\ IssueStatus(p) /\ tasks[p].order = x /\ tasks[p].kind = k
              /\ payments'[x][k].status = PaymentStatusOf(tasks[p].tally)
<1> DEFINE kept == payments'[x][k].status = payments[x][k].status
           captured == /\ payments'[x][k].status = "CAPTURED"
                       /\ k = "pi" /\ liveMode => psp[x].charged
                       /\ k = "sim" => ~liveMode
<1>1. payments \in [Orders -> [PaymentKind -> [status : PaymentStatus, ref : BOOLEAN]]]
  BY DEF PayInv, PayTypeOK
<1>2. {"pi", "sim", "manual"} \subseteq PaymentKind BY DEF PaymentKind
<1>3. ASSUME NEW o \in Orders, NEW y \in PaymentKind, NEW status, NEW ref,
             SetPayment(o, y, status, ref)
      PROVE  payments'[x][k].status =
               IF x = o /\ k = y THEN status ELSE payments[x][k].status
  BY <1>1, <1>3 DEF SetPayment
<1>4. ASSUME NEW o \in Orders, OpenIntent(o)
      PROVE  kept \/ (k = "pi" /\ payments'[x][k].status = "PENDING")
  <2>1. SetPayment(o, "pi", "PENDING", FALSE) BY <1>4 DEF OpenIntent
  <2> QED BY <1>2, <1>3, <2>1
<1>5. ASSUME NEW o \in Orders, StoreRef(o) PROVE kept
  <2>1. payments' = [payments EXCEPT ![o]["pi"].ref = TRUE]
    BY <1>5 DEF StoreRef
  <2> QED BY <1>1, <2>1
<1>6. ASSUME NEW p, NEW o \in Orders, Webhook(p, o) PROVE kept \/ captured
  <2>1. SetPayment(o, "pi", "CAPTURED", TRUE) /\ psp[o].charged
    BY <1>6 DEF Webhook
  <2> QED BY <1>2, <1>3, <2>1
<1>7. ASSUME NEW p, NEW o \in Orders, Simulate(p, o) PROVE kept \/ captured
  <2>1. /\ ~liveMode
        /\ \/ SetPayment(o, "pi", "CAPTURED", payments[o]["pi"].ref)
           \/ SetPayment(o, "sim", "CAPTURED", TRUE)
    BY <1>7 DEF Simulate, MaySimulate
  <2> QED BY <1>2, <1>3, <2>1
<1>8. ASSUME NEW p, NEW o \in Orders, ConfirmRecord(p, o)
      PROVE  kept \/ captured
  <2>1. SetPayment(o, "manual", "CAPTURED", TRUE) \/ UNCHANGED payments
    BY <1>8 DEF ConfirmRecord
  <2> QED BY <1>2, <1>3, <2>1
<1>9. ASSUME NEW p \in Processes, IssueStatus(p)
      PROVE  \/ kept
             \/ /\ tasks[p].order = x /\ tasks[p].kind = k
                /\ payments'[x][k].status = PaymentStatusOf(tasks[p].tally)
  <2>1. /\ payments'[tasks[p].order][tasks[p].kind].status
             = PaymentStatusOf(tasks[p].tally)
        /\ \A o \in Orders, y \in PaymentKind :
             o # tasks[p].order \/ y # tasks[p].kind
               => payments'[o][y] = payments[o][y]
    BY <1>9, PaymentStatusBooked
  <2>2. CASE tasks[p].order = x /\ tasks[p].kind = k BY <2>1, <2>2
  <2>3. CASE tasks[p].order # x \/ tasks[p].kind # k
    <3>1. payments'[x][k] = payments[x][k] BY <2>1, <2>3
    <3> QED BY <3>1
  <2> QED BY <2>2, <2>3
<1>10. ASSUME NEW p \in Processes, Issuing(p), ~IssueStatus(p)
       PROVE  UNCHANGED payments
  BY <1>10
  DEF Issuing, IssueRecord, IssueByHand, RailAccepts, RailRefuses,
      RailAnswerLost, IssueBook, IssueClose, moneyVars
<1>11. ASSUME NEW p, NEW o,
              \/ ConfirmPaid(p, o) \/ AdminRefund(p, o) \/ CustomerPays(o)
              \/ MarkPaid(p) \/ ConfirmAccept(p)
              \/ ReactorList(p) \/ ReactorIssue(p) \/ Crash(p)
       PROVE  UNCHANGED payments
  BY <1>11
  DEF ConfirmPaid, AdminRefund, CustomerPays, MarkPaid, ConfirmAccept,
      ReactorList, ReactorIssue, Crash, moneyVars
<1>12. UNCHANGED allVars \/ UNCHANGED payVars => UNCHANGED payments
  BY DEF allVars, payVars
<1>13. UNCHANGED payments => kept OBVIOUS
<1> HIDE DEF captured
<1>14. \/ kept \/ captured
       \/ k = "pi" /\ payments'[x][k].status = "PENDING"
       \/ \E p \in Processes :
            /\ IssueStatus(p) /\ tasks[p].order = x /\ tasks[p].kind = k
            /\ payments'[x][k].status = PaymentStatusOf(tasks[p].tally)
  <2> HIDE DEF kept
  <2> QED
    BY <1>4, <1>5, <1>6, <1>7, <1>8, <1>9, <1>10, <1>11, <1>12, <1>13, PayCases
<1> QED BY <1>14 DEF captured

(* In live mode a capture is booked only of a charge, and a charge stays.  *)
LEMMA NextCapture ==
  ASSUME PayInv, [PayNext]_allVars
  PROVE  CaptureIsReal'
<1> SUFFICES ASSUME NEW o \in Orders, liveMode', Taken(payments', o, "pi")
             PROVE  psp'[o].charged
  BY DEF CaptureIsReal, Taken
<1>1. liveMode /\ "pi" \in PaymentKind /\ psp[o].charged => psp'[o].charged
  BY NextMode, NextProvider DEF PaymentKind
<1>2. liveMode BY NextMode
<1>3. Taken(payments, o, "pi") => psp[o].charged
  BY <1>2 DEF PayInv, CaptureIsReal, Taken
<1>4. CASE \/ payments'[o]["pi"].status = payments[o]["pi"].status
           \/ payments'[o]["pi"].status = "PENDING"
  BY <1>1, <1>2, <1>3, <1>4 DEF Taken, PaymentKind
<1>5. CASE liveMode => psp[o].charged BY <1>1, <1>2, <1>5 DEF PaymentKind
<1>6. ASSUME NEW p \in Processes, IssueStatus(p), tasks[p].order = o,
             tasks[p].kind = "pi"
      PROVE  psp'[o].charged
  <2>1. tasks[p].pc \in Issued BY <1>6 DEF IssueStatus, Is, Issued
  <2>2. Taken(payments, o, "pi") BY <1>6, <2>1 DEF PayInv, TaskOK, Informed
  <2> QED BY <1>1, <1>2, <1>3, <2>2 DEF PaymentKind
<1>7. "pi" \in PaymentKind BY DEF PaymentKind
<1> QED BY <1>4, <1>5, <1>6, <1>7, StatusCases

(* A payment is marked REFUNDED from a total that is there and stays.      *)
LEMMA NextCovered ==
  ASSUME PayInv, [PayNext]_allVars
  PROVE  RefundedPaymentIsCovered'
<1> SUFFICES ASSUME NEW o \in Orders, NEW k \in PaymentKind,
                    payments'[o][k].status = "REFUNDED"
             PROVE  refundedTotal(o, k)' >= Total
  BY DEF RefundedPaymentIsCovered
<1>1. /\ refundedTotal(o, k) \in Nat /\ refundedTotal(o, k)' \in Nat
      /\ refundedTotal(o, k) <= refundedTotal(o, k)'
  BY NextGrown, TotalsGrow DEF Grown, PayInv
<1>2. Total \in Nat BY TotalAssumption
<1>3. SUFFICES refundedTotal(o, k) >= Total
  <2> DEFINE now == refundedTotal(o, k)
             next == refundedTotal(o, k)'
  <2>1. now \in Nat /\ next \in Nat /\ now <= next BY <1>1
  <2>2. now >= Total => next >= Total
    <3> HIDE DEF now, next
    <3> QED BY <1>2, <2>1
  <2> QED BY <2>2
<1>4. CASE payments'[o][k].status = payments[o][k].status
  BY <1>4 DEF PayInv, RefundedPaymentIsCovered
<1>5. ASSUME NEW p \in Processes, IssueStatus(p), tasks[p].order = o,
             tasks[p].kind = k,
             payments'[o][k].status = PaymentStatusOf(tasks[p].tally)
      PROVE  refundedTotal(o, k) >= Total
  <2>1. PICK task \in Task : task = tasks[p] BY DEF PayInv, PayTypeOK
  <2>2. task.pc = "status" BY <1>5, <2>1 DEF IssueStatus, Is
  <2>3. task.tally <= SumOf(refunds[o], k)
    BY <1>5, <2>1, <2>2 DEF PayInv, TaskOK, Informed, Issued, StaysFull
  <2>4. task.tally >= Total /\ task.tally \in Nat
    BY <1>5, <2>1 DEF PaymentStatusOf, Task
  <2>5. PICK n \in Nat : n = refundedTotal(o, k) /\ n = SumOf(refunds[o], k)
    BY <1>1, AmountsAreSums
  <2> QED BY <1>2, <2>3, <2>4, <2>5
<1> QED BY <1>4, <1>5, StatusCases

-----------------------------------------------------------------------------
(* The theorems.                                                           *)

(* Nothing is placed, paid or returned at first.                           *)
LEMMA InitPayInv == PayInit => PayInv
<1> SUFFICES ASSUME PayInit PROVE PayInv OBVIOUS
<1>1. IInv BY InitIInv DEF PayInit, IInv
<1>2. PayTypeOK
  <2>1. TypeOK BY <1>1 DEF IInv
  <2>2. <<>> \in Seq(RefundRow) /\ Len(<<>>) = 0 OBVIOUS
  <2>3. 0 \in 0 .. Total /\ 0 \in 0 .. MaxFaults /\ 0 <= MaxRefunds
    BY TotalAssumption, RefundBoundAssumption
  <2>4. payments \in [Orders ->
          [PaymentKind -> [status : PaymentStatus, ref : BOOLEAN]]]
    BY DEF PayInit, NoPayment, PaymentStatus
  <2> QED
    BY <2>1, <2>2, <2>3, <2>4, IdleShape DEF PayInit, PayTypeOK
<1>3. CashIsTaken
  BY DEF PayInit, CashIsTaken, NoPayment, PaymentKind
<1>4. ASSUME NEW p \in Processes PROVE TaskOK(p)
  <2>1. tasks[p] = IdleTask BY DEF PayInit
  <2> QED BY <2>1, IdleShape DEF TaskOK, Informed, Settling, Issued, Owning
<1>5. RowsAreOwnedOnce
  BY IdleShape DEF PayInit, RowsAreOwnedOnce, Owning
<1>6. ReactorOK BY IdleShape DEF PayInit, ReactorOK, Is, Processes
<1>7. PaidOrderHasCapture
  BY DEF PayInit, Init, PaidOrderHasCapture, NotPlaced, Nobody
<1>8. CaptureIsReal /\ RefundedPaymentIsCovered
  BY DEF PayInit, CaptureIsReal, RefundedPaymentIsCovered, NoPayment,
         PaymentKind
<1> QED BY <1>1, <1>2, <1>3, <1>4, <1>5, <1>6, <1>7, <1>8 DEF PayInv

(* The invariant is inductive.                                             *)
LEMMA NextPayInv == PayInv /\ [PayNext]_allVars => PayInv'
<1> SUFFICES ASSUME PayInv, [PayNext]_allVars PROVE PayInv' OBVIOUS
<1>1. IInv' BY StepIsOrderings, NextIInv DEF PayInv
<1> QED
  BY <1>1, NextPayType, NextTasks, NextReactor, NextPaidOrder, NextCapture,
     NextCovered
  DEF PayInv

(* The invariant of the payment module holds under any interleaving of     *)
(* requests, webhooks and reactors, with deaths and lost answers.          *)
THEOREM PaymentsInductive == PaySpec => []PayInv
<1> QED BY InitPayInv, NextPayInv, PTL DEF PaySpec

(* The payment module implements Ordering: its requests and its reactor    *)
(* move orders by the table, as actors the table knows, and touch nothing  *)
(* else of Ordering's. What is proved of Ordering holds with payments.     *)
THEOREM PaymentsImplementOrdering == PaySpec => ImplementsOrdering
<1>1. PayInit => Init BY DEF PayInit
<1>2. PayInv /\ [PayNext]_allVars => [Next]_vars BY StepIsOrderings
<1> QED
  BY <1>1, <1>2, PaymentsInductive, PTL DEF PaySpec, ImplementsOrdering, Spec

(* Every row, task and book keeps its type: the provider's returns never   *)
(* exceed what it took, and rows on a list keep within its length.         *)
THEOREM PaymentsTypeCorrect == PaySpec => []PayTypeOK
<1>1. PayInv => PayTypeOK BY DEF PayInv
<1> QED BY <1>1, PaymentsInductive, PTL

(* No order the payment module moved to PAID lacks a capture, whatever     *)
(* dies between the capture's commit and the order's.                      *)
THEOREM PaidOrdersHaveCaptures == PaySpec => []PaidOrderHasCapture
<1>1. PayInv => PaidOrderHasCapture BY DEF PayInv
<1> QED BY <1>1, PaymentsInductive, PTL

(* In live mode no online capture is recorded that was not charged.        *)
THEOREM CapturesAreReal == PaySpec => []CaptureIsReal
<1>1. PayInv => CaptureIsReal BY DEF PayInv
<1> QED BY <1>1, PaymentsInductive, PTL

(* A payment marked REFUNDED was returned in full, however many refunds of *)
(* it run at once and whoever wrote its status last.                       *)
THEOREM RefundedPaymentsAreCovered == PaySpec => []RefundedPaymentIsCovered
<1>1. PayInv => RefundedPaymentIsCovered BY DEF PayInv
<1> QED BY <1>1, PaymentsInductive, PTL

(* A reactor records a refund of what was decided, or of all there is      *)
(* where nobody decided, and none for a no-show: what it read when it      *)
(* listed the order is still so when it acts.                              *)
THEOREM ReactorPaysAsDecided == PaySpec => ReactorPaysTheDecision
<1> DEFINE AsDecided(r) ==
             LET o == tasks[r].order IN
             /\ ~(orders[o].status = "EXPIRED" /\ orders[o].readyAt)
             /\ IF orders[o].refundDue = NoDecision THEN tasks[r].full
                ELSE tasks[r].amount = orders[o].refundDue
<1>1. ASSUME PayInv, NEW r \in Reactors, Is(r, "record") PROVE AsDecided(r)
  <2>1. PICK task \in Task : task = tasks[r]
    BY <1>1 DEF PayInv, PayTypeOK, Processes
  <2>2. Instructed(task) BY <1>1, <2>1 DEF PayInv, ReactorOK
  <2>3. task.amount # NoDecision BY TotalAssumption DEF Task, NoDecision
  <2>4. CASE task.full /\ Due(task.order, NoDecision) BY <2>1, <2>4 DEF Due
  <2>5. CASE Due(task.order, task.amount) BY <2>1, <2>3, <2>5 DEF Due
  <2> QED BY <2>2, <2>4, <2>5 DEF Instructed
<1>2. PayInv /\ [PayNext]_allVars =>
        [\A r \in Reactors :
           Is(r, "record") /\ tasks'[r].pc = "call" => AsDecided(r)]_allVars
  BY <1>1
<1> QED BY <1>2, PaymentsInductive, PTL DEF PaySpec, ReactorPaysTheDecision

-----------------------------------------------------------------------------
(* Orders closed as REFUNDED.                                              *)

(* Where operators force no order to REFUNDED, only a refund that returned *)
(* the whole total closes one: it was full when read, and totals grow.     *)
LEMMA NextRefundedOrder ==
  ASSUME "REFUNDED" \notin AdminTargets,
         PayInv, RefundedOrderGotItsMoney, [PayNext]_allVars
  PROVE  RefundedOrderGotItsMoney'
<1> DEFINE covered(o) == \E k \in PaymentKind : SumOf(refunds[o], k) >= Total
<1> SUFFICES ASSUME NEW o \in Orders, orders'[o].status = "REFUNDED"
             PROVE  \E k \in PaymentKind : SumOf(refunds'[o], k) >= Total
  BY AmountsAreSumsNext DEF RefundedOrderGotItsMoney
<1>1. SUFFICES covered(o)
  <2>1. /\ refunds[o] \in Seq(RefundRow) /\ refunds'[o] \in Seq(RefundRow)
        /\ ListGrows(refunds[o], refunds'[o])
    BY NextGrown DEF PayInv, PayTypeOK, Grown, RefundsTyped, RefundsGrow
  <2>2. ASSUME NEW k \in PaymentKind, SumOf(refunds[o], k) >= Total
        PROVE  SumOf(refunds'[o], k) >= Total
    <3>1. PICK now \in Nat, next \in Nat :
            now = SumOf(refunds[o], k) /\ next = SumOf(refunds'[o], k)
      BY <2>1, SumOfIsNat
    <3>2. now <= next BY <2>1, <3>1, SumOfGrows
    <3> QED BY <2>2, <3>1, <3>2, TotalAssumption
  <2> QED BY <2>2
<1>2. TypeOK /\ IInv BY DEF PayInv, IInv
<1>3. orders[o].status = "REFUNDED" => covered(o)
  BY AmountsAreSums DEF RefundedOrderGotItsMoney
<1>4. CASE OrderingStep
  <2>1. ASSUME NEW x \in Orders, NEW to, NEW actor, NEW accepting,
               OwnMove(x, to, actor, accepting)
        PROVE  orders[o].status = "REFUNDED"
    BY <1>2, <2>1, TransitionStatus DEF OwnMove
  <2>2. orders[o].status = "REFUNDED" BY <1>2, <1>4, <2>1, OrderingMoves
  <2> QED BY <1>3, <2>2
<1>5. ASSUME NEW p \in Workers, MarkPaid(p) \/ ConfirmAccept(p)
      PROVE  orders[o].status = "REFUNDED"
  <2> DEFINE x == tasks[p].order
  <2>1. p \in Processes /\ tasks[p].pc # "idle"
    BY <1>5 DEF Processes, MarkPaid, ConfirmAccept, Is
  <2>2. x \in Orders BY <2>1 DEF PayInv, TaskOK, Informed
  <2>3. \/ UNCHANGED orders
        \/ \E to \in {"PAID", "ACCEPTED"} : \E actor : \E accepting :
             Transition(x, to, actor, accepting)
    BY <1>5 DEF MarkPaid, ConfirmAccept, Attempt, orderVars
  <2> HIDE DEF x
  <2> QED BY <1>2, <2>2, <2>3, TransitionStatus
<1>6. ASSUME NEW p \in Processes, IssueClose(p) PROVE covered(o)
  <2>1. PICK task \in Task : task = tasks[p] BY DEF PayInv, PayTypeOK
  <2>2. task.pc = "close" BY <1>6, <2>1 DEF IssueClose, Is
  <2>3. /\ task.order \in Orders /\ task.kind \in PaymentKind
        /\ SumOf(refunds[task.order], task.kind) >= Total
    BY <2>1, <2>2 DEF PayInv, TaskOK, Informed, Issued, StaysFull, Task
  <2>4. \/ UNCHANGED orders
        \/ Transition(task.order, "REFUNDED", task.actor, TRUE)
    BY <1>6, <2>1 DEF IssueClose, Attempt, orderVars
  <2>5. CASE o = task.order BY <2>3, <2>5
  <2>6. CASE o # task.order
    BY <1>2, <1>3, <2>3, <2>4, <2>6, TransitionStatus
  <2> QED BY <2>5, <2>6
<1>7. ASSUME NEW p \in Processes, Issuing(p), ~IssueClose(p)
      PROVE  UNCHANGED orders
  BY <1>7
  DEF Issuing, IssueRecord, IssueByHand, RailAccepts, RailRefuses,
      RailAnswerLost, IssueBook, IssueStatus, vars
<1>8. ASSUME NEW p, NEW x,
             \/ Webhook(p, x) \/ Simulate(p, x) \/ ConfirmRecord(p, x)
             \/ ConfirmPaid(p, x) \/ AdminRefund(p, x)
             \/ OpenIntent(x) \/ StoreRef(x) \/ CustomerPays(x)
             \/ ReactorList(p) \/ ReactorIssue(p) \/ Crash(p)
      PROVE  UNCHANGED orders
  BY <1>8
  DEF Webhook, Simulate, ConfirmRecord, ConfirmPaid, AdminRefund, OpenIntent,
      StoreRef, CustomerPays, ReactorList, ReactorIssue, Crash, vars
<1>9. UNCHANGED allVars => UNCHANGED orders BY DEF allVars, vars
<1>10. UNCHANGED orders => covered(o) BY <1>3
<1> HIDE DEF covered
<1> QED BY <1>3, <1>4, <1>5, <1>6, <1>7, <1>8, <1>9, <1>10, PayCases

(* No order is closed as REFUNDED without all its money having gone back,  *)
(* unless an operator forces it.                                           *)
THEOREM RefundedOrdersGotTheirMoney ==
  ASSUME "REFUNDED" \notin AdminTargets
  PROVE  PaySpec => []RefundedOrderGotItsMoney
<1>1. PayInit => RefundedOrderGotItsMoney
  BY DEF PayInit, Init, NotPlaced, RefundedOrderGotItsMoney
<1>2. PayInv /\ RefundedOrderGotItsMoney /\ [PayNext]_allVars
        => RefundedOrderGotItsMoney'
  BY NextRefundedOrder
<1> QED BY <1>1, <1>2, PaymentsInductive, PTL DEF PaySpec

-----------------------------------------------------------------------------
(* The provider's books.                                                   *)

(* Counted are rows the list has: those booked, and those tasks own.       *)
LEMMA CountedRows ==
  ASSUME PayInv, NEW o \in Orders
  PROVE  Confirmed(o) \subseteq DOMAIN refunds[o] /\ Sent(o) \subseteq DOMAIN refunds[o]
<1>1. ASSUME NEW q \in Processes, Is(q, "book"), tasks[q].order = o
      PROVE  tasks[q].row \in DOMAIN refunds[o]
  BY <1>1 DEF Is, PayInv, TaskOK, Informed, OwnsRow, Owning
<1>2. Confirmed(o) \subseteq DOMAIN refunds[o]
  BY <1>1 DEF Confirmed, RowsOf
<1> QED BY <1>2 DEF Sent, RowsOf

(* A row once sent to the provider stays sent: the only rows not sent yet  *)
(* are the ones just recorded.                                             *)
LEMMA NextSent ==
  ASSUME PayInv, [PayNext]_allVars, NEW o \in Orders
  PROVE  /\ Sent(o) \subseteq Sent(o)'
         /\ \A j \in DOMAIN refunds[o] : j \in Unsent(o)' => j \in Unsent(o)
<1>1. ASSUME NEW j \in DOMAIN refunds[o], j \in Unsent(o)'
      PROVE  j \in Unsent(o)
  <2>1. PICK q \in Processes :
          /\ tasks'[q].pc = "call" /\ tasks'[q].order = o
          /\ tasks'[q].row = j
    BY <1>1 DEF Unsent, Is
  <2>2. tasks'[q] = tasks[q]
    <3>1. ASSUME NEW p \in Processes, TaskStep(p), p # q
          PROVE  tasks'[q] = tasks[q]
      BY <3>1 DEF TaskStep, Others
    <3>2. ~TaskStep(q)
      BY <1>1, <2>1 DEF TaskStep, Owning
    <3> QED BY <3>1, <3>2, OneTaskSteps
  <2> QED BY <2>1, <2>2 DEF Unsent, Is
<1>2. ASSUME NEW j \in RowsOf(o, "pi", RefundStatus)
      PROVE  j \in RowsOf(o, "pi", RefundStatus)'
  <2>1. j \in DOMAIN refunds[o] /\ refunds[o][j].kind = "pi"
    BY <1>2 DEF RowsOf
  <2>2. j \in DOMAIN refunds'[o] /\ refunds'[o][j].kind = "pi"
    BY <2>1, NextGrown DEF Grown, RefundsGrow, ListGrows
  <2>3. refunds'[o] \in Seq(RefundRow)
    BY NextGrown DEF Grown, RefundsTyped
  <2>4. refunds'[o][j].status \in RefundStatus
    <3>1. refunds'[o][j] \in RefundRow BY <2>2, <2>3, ListShape
    <3> QED BY <3>1 DEF RefundRow
  <2> QED BY <2>2, <2>4 DEF RowsOf
<1>3. RowsOf(o, "pi", RefundStatus) \subseteq DOMAIN refunds[o] BY DEF RowsOf
<1> QED BY <1>1, <1>2, <1>3 DEF Sent

(* Only the provider's acceptance adds a row to those confirmed; booking   *)
(* one moves it from the task to the table.                                *)
LEMMA NextConfirmed ==
  ASSUME PayInv, [PayNext]_allVars, NEW o \in Orders, NEW j \in Confirmed(o)'
  PROVE  \/ j \in Confirmed(o)
         \/ \E p \in Processes :
              RailAccepts(p) /\ tasks[p].order = o /\ tasks[p].row = j
<1>1. CASE j \in RowsOf(o, "pi", {"SUCCEEDED"})'
  <2>1. /\ j \in DOMAIN refunds'[o] /\ refunds'[o][j].kind = "pi"
        /\ refunds'[o][j].status = "SUCCEEDED"
    BY <1>1 DEF RowsOf
  <2>2. CASE UNCHANGED refunds
    BY <2>1, <2>2 DEF Confirmed, RowsOf
  <2>3. ASSUME NEW p \in Processes, IssueRecord(p) PROVE j \in Confirmed(o)
    <3> DEFINE x == tasks[p].order
               n == Len(refunds[x]) + 1
    <3>1. /\ DOMAIN refunds'[x] = DOMAIN refunds[x] \cup {n}
          /\ refunds'[x][n] = [kind |-> tasks[p].kind,
               amount |-> tasks[p].amount, status |-> "PENDING"]
          /\ \A y \in DOMAIN refunds[x] : refunds'[x][y] = refunds[x][y]
          /\ \A y \in Orders \ {x} : refunds'[y] = refunds[y]
      BY <2>3, RefundRecorded
    <3> HIDE DEF n, x
    <3>2. j \in DOMAIN refunds[o] /\ refunds'[o][j] = refunds[o][j]
      BY <2>1, <3>1
    <3> QED BY <2>1, <3>2 DEF Confirmed, RowsOf
  <2>4. ASSUME NEW p \in Processes, IssueBook(p) PROVE j \in Confirmed(o)
    <3> DEFINE x == tasks[p].order
               n == tasks[p].row
    <3>0. PICK task \in Task : task = tasks[p] BY DEF PayInv, PayTypeOK
    <3>1. /\ x \in Orders /\ n \in DOMAIN refunds[x]
          /\ DOMAIN refunds'[x] = DOMAIN refunds[x]
          /\ refunds'[x][n] = [refunds[x][n] EXCEPT !.status = task.answer]
          /\ \A y \in DOMAIN refunds[x] \ {n} : refunds'[x][y] = refunds[x][y]
          /\ \A y \in Orders \ {x} : refunds'[y] = refunds[y]
      BY <2>4, <3>0, RefundBooked
    <3>2. Is(p, "book") BY <2>4 DEF IssueBook
    <3>3. refunds[x][n].kind = task.kind
      BY <3>0, <3>2 DEF Is, PayInv, TaskOK, Informed, OwnsRow, Owning
    <3>4. refunds[x][n] \in RefundRow
      <4>1. refunds[x] \in Seq(RefundRow)
        BY <3>1 DEF PayInv, PayTypeOK
      <4> HIDE DEF x, n
      <4> QED BY <3>1, <4>1, ListShape
    <3>5. task.order = x /\ task.row = n BY <3>0
    <3> HIDE DEF n, x
    <3>6. CASE o = x /\ j = n
      <4>1. refunds'[x][n].kind = task.kind
            /\ refunds'[x][n].status = task.answer
        BY <3>1, <3>3, <3>4 DEF RefundRow
      <4>2. task.kind = "pi" /\ task.answer = "SUCCEEDED"
        BY <2>1, <3>6, <4>1
      <4> QED BY <3>0, <3>2, <3>5, <3>6, <4>2 DEF Confirmed
    <3>7. CASE o # x \/ j # n
      <4>1. j \in DOMAIN refunds[o] /\ refunds'[o][j] = refunds[o][j]
        BY <2>1, <3>1, <3>7
      <4> QED BY <2>1, <4>1 DEF Confirmed, RowsOf
    <3> QED BY <3>6, <3>7
  <2> QED BY <2>2, <2>3, <2>4, OneTaskSteps
<1>2. CASE j \notin RowsOf(o, "pi", {"SUCCEEDED"})'
  <2>1. PICK q \in Processes :
          /\ tasks'[q].pc = "book" /\ tasks'[q].answer = "SUCCEEDED"
          /\ tasks'[q].order = o /\ tasks'[q].kind = "pi"
          /\ tasks'[q].row = j
    BY <1>2 DEF Confirmed, Is
  <2>2. CASE tasks'[q] = tasks[q]
    BY <2>1, <2>2 DEF Confirmed, Is
  <2>3. CASE TaskStep(q)
    BY <2>1, <2>3 DEF TaskStep, Owning
  <2>4. ASSUME NEW p \in Processes, TaskStep(p), p # q
        PROVE  tasks'[q] = tasks[q]
    BY <2>4 DEF TaskStep, Others
  <2> QED BY <2>2, <2>3, <2>4, OneTaskSteps
<1> QED BY <1>1, <1>2

(* The provider gives money back for one task only, and only to its order. *)
PaidBack(p, o) ==
  /\ RailAccepts(p) \/ RailAnswerLost(p)
  /\ tasks[p].order = o

(* What such a step does.                                                  *)
LEMMA PaidBackShape ==
  ASSUME PayInv, NEW p \in Processes, NEW o \in Orders, PaidBack(p, o)
  PROVE  /\ CallsRail(p) /\ UNCHANGED refunds
         /\ psp'[o].returned = psp[o].returned + tasks[p].amount
         /\ tasks'[p].pc = "book" /\ Others(p)
<1>1. CallsRail(p) /\ UNCHANGED refunds /\ Returned(p)
  BY DEF PaidBack, RailAccepts, RailAnswerLost
<1>2. PICK answer : Answered(p, answer)
  BY DEF PaidBack, RailAccepts, RailAnswerLost
<1>3. PICK task \in Task : task = tasks[p] BY DEF PayInv, PayTypeOK
<1>4. tasks'[p] = [task EXCEPT !.pc = "book", !.answer = answer] /\ Others(p)
  BY <1>2, <1>3 DEF Answered, PayInv, PayTypeOK, Others
<1>5. tasks'[p].pc = "book" BY <1>4 DEF Task
<1>6. psp'[o].returned = psp[o].returned + tasks[p].amount
  BY <1>1 DEF PaidBack, Returned, PayInv, PayTypeOK
<1> QED BY <1>1, <1>4, <1>5, <1>6

(* No other step touches what was returned.                                *)
LEMMA NextReturned ==
  ASSUME PayInv, [PayNext]_allVars, NEW o \in Orders,
         \A p \in Processes : ~PaidBack(p, o)
  PROVE  psp'[o].returned = psp[o].returned
<1>1. psp \in [Orders -> [charged : BOOLEAN, returned : 0 .. Total]]
  BY DEF PayInv, PayTypeOK
<1>2. ASSUME NEW x \in Orders, CustomerPays(x)
      PROVE  psp'[o].returned = psp[o].returned
  BY <1>1, <1>2 DEF CustomerPays
<1>3. ASSUME NEW p \in Processes, RailAccepts(p) \/ RailAnswerLost(p)
      PROVE  psp'[o].returned = psp[o].returned
  <2>1. tasks[p].order # o BY <1>3 DEF PaidBack
  <2>2. Returned(p) BY <1>3 DEF RailAccepts, RailAnswerLost
  <2> DEFINE x == tasks[p].order
             n == psp[x].returned + tasks[p].amount
  <2>3. psp' = [psp EXCEPT ![x].returned = n] BY <2>2 DEF Returned
  <2>4. x # o BY <2>1
  <2> HIDE DEF x, n
  <2> QED BY <1>1, <2>3, <2>4
<1>4. ASSUME NEW p, NEW x,
             \/ Webhook(p, x) \/ Simulate(p, x) \/ ConfirmRecord(p, x)
             \/ ConfirmPaid(p, x) \/ AdminRefund(p, x)
             \/ OpenIntent(x) \/ StoreRef(x)
             \/ MarkPaid(p) \/ ConfirmAccept(p)
             \/ ReactorList(p) \/ ReactorIssue(p) \/ Crash(p)
      PROVE  UNCHANGED psp
  BY <1>4
  DEF Webhook, Simulate, ConfirmRecord, ConfirmPaid, AdminRefund, OpenIntent,
      StoreRef, MarkPaid, ConfirmAccept, ReactorList, ReactorIssue, Crash,
      moneyVars
<1>5. ASSUME NEW p \in Processes, Issuing(p)
      PROVE  RailAccepts(p) \/ RailAnswerLost(p) \/ UNCHANGED psp
  BY <1>5
  DEF Issuing, IssueRecord, IssueByHand, RailRefuses, IssueBook, IssueStatus,
      IssueClose, moneyVars
<1>6. UNCHANGED allVars \/ UNCHANGED payVars => UNCHANGED psp
  BY DEF allVars, payVars
<1> QED BY <1>2, <1>3, <1>4, <1>5, <1>6, PayCases

(* In live mode nothing is ever captured without the provider but cash.    *)
LEMMA NextSim ==
  ASSUME PayInv, [PayNext]_allVars, liveMode, NEW o \in Orders,
         payments[o]["sim"].status = "NONE"
  PROVE  payments'[o]["sim"].status = "NONE"
<1>1. "sim" \in PaymentKind BY DEF PaymentKind
<1>2. ASSUME NEW p \in Processes, IssueStatus(p), tasks[p].order = o,
             tasks[p].kind = "sim"
      PROVE  FALSE
  <2>1. tasks[p].pc \in Issued BY <1>2 DEF IssueStatus, Is, Issued
  <2> QED BY <1>2, <2>1 DEF PayInv, TaskOK, Informed, Taken
<1> QED BY <1>1, <1>2, StatusCases

(* The same rows in a grown list: amounts are never rewritten.             *)
LEMMA AmountsStay ==
  ASSUME PayInv, [PayNext]_allVars, NEW o \in Orders
  PROVE  /\ refunds[o] \in Seq(RefundRow) /\ refunds'[o] \in Seq(RefundRow)
         /\ \A j \in DOMAIN refunds[o] :
              /\ j \in DOMAIN refunds'[o]
              /\ refunds'[o][j].amount = refunds[o][j].amount
BY NextGrown
DEF PayInv, PayTypeOK, Grown, RefundsTyped, RefundsGrow, ListGrows

(* A step that gives nothing back leaves the bracket closed.               *)
LEMMA BracketStays ==
  ASSUME PayInv, [PayNext]_allVars, NEW o \in Orders, Bracket(o),
         \A p \in Processes : ~PaidBack(p, o)
  PROVE  Bracket(o)'
<1> DEFINE list == refunds[o]
           next == refunds'[o]
           confirmed == Confirmed(o)
           confirmedNext == Confirmed(o)'
           sent == Sent(o)
           sentNext == Sent(o)'
<1>1. psp'[o].returned = psp[o].returned BY NextReturned
<1>2. psp[o].returned \in Nat BY DEF PayInv, PayTypeOK
<1>3. /\ list \in Seq(RefundRow) /\ next \in Seq(RefundRow)
      /\ \A j \in DOMAIN list :
           j \in DOMAIN next /\ next[j].amount = list[j].amount
  BY AmountsStay
<1>4. confirmed \in SUBSET DOMAIN list /\ sent \in SUBSET DOMAIN list
  BY CountedRows
<1>5. confirmedNext \subseteq confirmed BY NextConfirmed DEF PaidBack
<1>6. sent \subseteq sentNext BY NextSent
<1>7. sentNext \in SUBSET DOMAIN next BY DEF Sent, RowsOf
<1>8. Sum(list, confirmed) <= psp[o].returned /\ psp[o].returned <= Sum(list, sent)
  BY DEF Bracket
<1> HIDE DEF list, next, confirmed, confirmedNext, sent, sentNext
<1>9. Sum(next, confirmedNext) <= Sum(list, confirmed)
  <2>1. \A j \in confirmedNext : list[j].amount = next[j].amount
    BY <1>3, <1>4, <1>5
  <2> QED BY <1>3, <1>4, <1>5, <2>1, SumGrows
<1>10. Sum(list, sent) <= Sum(next, sentNext)
  <2>1. \A j \in sent : next[j].amount = list[j].amount BY <1>3, <1>4
  <2> QED BY <1>3, <1>6, <1>7, <2>1, SumGrows
<1>11. /\ Sum(list, confirmed) \in Nat /\ Sum(list, sent) \in Nat
       /\ Sum(next, confirmedNext) \in Nat /\ Sum(next, sentNext) \in Nat
  <2>1. confirmedNext \in SUBSET DOMAIN next BY <1>3, <1>4, <1>5
  <2> QED BY <1>3, <1>4, <1>7, <2>1, MinorsAreFinite
<1>12. /\ Sum(next, confirmedNext) <= psp[o].returned
       /\ psp[o].returned <= Sum(next, sentNext)
  BY <1>2, <1>8, <1>9, <1>10, <1>11
<1> QED
  BY <1>1, <1>12 DEF Bracket, next, confirmedNext, sentNext

(* One that gives money back sends the row it gives it back for, and       *)
(* confirms no other.                                                      *)
LEMMA BracketMoves ==
  ASSUME PayInv, [PayNext]_allVars, NEW o \in Orders, Bracket(o),
         liveMode, payments[o]["sim"].status = "NONE",
         NEW p \in Processes, PaidBack(p, o)
  PROVE  Bracket(o)'
<1> DEFINE list == refunds[o]
           confirmed == Confirmed(o)
           confirmedNext == Confirmed(o)'
           sent == Sent(o)
           sentNext == Sent(o)'
<1>1. PICK task \in Task : task = tasks[p] BY DEF PayInv, PayTypeOK
<1>2. /\ CallsRail(p) /\ refunds' = refunds
      /\ psp'[o].returned = psp[o].returned + task.amount
      /\ tasks'[p].pc = "book" /\ Others(p)
  BY <1>1, PaidBackShape
<1>3. /\ task.pc = "call" /\ task.kind = "pi" /\ task.order = o
  <2>1. task.pc = "call" /\ task.kind # "manual" /\ task.order = o
    BY <1>1, <1>2 DEF CallsRail, Is, PaidBack
  <2>2. Taken(payments, o, task.kind)
    BY <1>1, <2>1 DEF PayInv, TaskOK, Informed, Issued
  <2>3. task.kind # "sim" BY <2>2 DEF Taken
  <2> QED BY <2>1, <2>3 DEF Task, PaymentKind
<1>4. PICK j : j = task.row OBVIOUS
<1>5. /\ j \in DOMAIN list /\ list[j].kind = "pi" /\ list[j].amount = task.amount
      /\ list[j].status = "PENDING"
  BY <1>1, <1>3, <1>4 DEF PayInv, TaskOK, Informed, OwnsRow, Owning
<1>6. ASSUME NEW q \in Processes, tasks[q].pc \in Owning, tasks[q].order = o,
             tasks[q].row = j
      PROVE  q = p
  BY <1>1, <1>3, <1>4, <1>6 DEF PayInv, RowsAreOwnedOnce, Owning
<1>7. list \in Seq(RefundRow) BY DEF PayInv, PayTypeOK
<1>8. psp[o].returned \in Nat /\ task.amount \in Nat
  BY DEF PayInv, PayTypeOK, Task
<1>9. confirmed \in SUBSET DOMAIN list /\ sent \in SUBSET DOMAIN list
  BY CountedRows
<1>10. j \notin confirmed
  <2>1. j \notin RowsOf(o, "pi", {"SUCCEEDED"}) BY <1>5 DEF RowsOf
  <2>2. ASSUME NEW q \in Processes, Is(q, "book"), tasks[q].order = o
        PROVE  tasks[q].row # j
    BY <1>1, <1>3, <1>6, <2>2 DEF Is, Owning
  <2> QED BY <2>1, <2>2 DEF Confirmed
<1>11. j \notin sent BY <1>1, <1>3, <1>4 DEF Sent, Unsent, Is
<1>12. confirmedNext \subseteq confirmed \cup {j}
  <2>1. ASSUME NEW q \in Processes, RailAccepts(q) PROVE q = p
    <3>1. tasks'[q] # tasks[q]
      <4>1. tasks[q].pc = "call" BY <2>1 DEF RailAccepts, CallsRail, Is
      <4>2. PICK answer : Answered(q, answer) BY <2>1 DEF RailAccepts
      <4>3. tasks'[q].pc = "book"
        <5>1. PICK other \in Task : other = tasks[q] BY DEF PayInv, PayTypeOK
        <5>2. tasks'[q] = [other EXCEPT !.pc = "book", !.answer = answer]
          BY <4>2, <5>1 DEF Answered, PayInv, PayTypeOK
        <5> QED BY <5>2 DEF Task
      <4> QED BY <4>1, <4>3
    <3> QED BY <1>2, <3>1 DEF Others
  <2> QED BY <1>1, <1>4, <2>1, NextConfirmed
<1>13. sent \cup {j} \subseteq sentNext
  <2>1. sent \subseteq sentNext BY NextSent
  <2>2. j \in RowsOf(o, "pi", RefundStatus)'
    BY <1>2, <1>5 DEF RowsOf, RefundStatus
  <2>3. j \notin Unsent(o)'
    <3>1. ASSUME NEW q \in Processes, tasks'[q].pc = "call",
                 tasks'[q].order = o, tasks'[q].row = j
          PROVE  FALSE
      <4>1. q # p BY <1>2, <3>1
      <4>2. tasks'[q] = tasks[q] BY <1>2, <4>1 DEF Others
      <4> QED BY <1>6, <3>1, <4>1, <4>2 DEF Owning
    <3> QED BY <3>1 DEF Unsent, Is
  <2> QED BY <2>1, <2>2, <2>3 DEF Sent
<1>14. sentNext \in SUBSET DOMAIN list BY <1>2 DEF Sent, RowsOf
<1>15. Sum(list, confirmed) <= psp[o].returned /\ psp[o].returned <= Sum(list, sent)
  BY DEF Bracket
<1> HIDE DEF list, confirmed, confirmedNext, sent, sentNext
<1>16. Sum(list, confirmedNext) <= Sum(list, confirmed) + task.amount
  <2>1. Sum(list, confirmed \cup {j}) = Sum(list, confirmed) + task.amount
    BY <1>5, <1>7, <1>9, <1>10, SumAdds
  <2>2. confirmed \cup {j} \in SUBSET DOMAIN list BY <1>5, <1>9
  <2>3. Sum(list, confirmedNext) <= Sum(list, confirmed \cup {j})
    BY <1>7, <1>12, <2>2, SumGrows
  <2> QED BY <2>1, <2>3
<1>17. Sum(list, sent) + task.amount <= Sum(list, sentNext)
  <2>1. Sum(list, sent \cup {j}) = Sum(list, sent) + task.amount
    BY <1>5, <1>7, <1>9, <1>11, SumAdds
  <2>2. Sum(list, sent \cup {j}) <= Sum(list, sentNext)
    BY <1>7, <1>13, <1>14, SumGrows
  <2> QED BY <2>1, <2>2
<1>18. /\ Sum(list, confirmed) \in Nat /\ Sum(list, sent) \in Nat
       /\ Sum(list, confirmedNext) \in Nat /\ Sum(list, sentNext) \in Nat
  <2>1. confirmedNext \in SUBSET DOMAIN list BY <1>5, <1>9, <1>12
  <2> QED BY <1>7, <1>9, <1>14, <2>1, MinorsAreFinite
<1>19. /\ Sum(list, confirmedNext) <= psp[o].returned + task.amount
       /\ psp[o].returned + task.amount <= Sum(list, sentNext)
  BY <1>8, <1>15, <1>16, <1>17, <1>18
<1> QED
  BY <1>2, <1>19 DEF Bracket, list, confirmedNext, sentNext

(* So the bracket is closed on every order, in every state.                *)
LEMMA NextBooks ==
  ASSUME PayInv, BooksOK, [PayNext]_allVars
  PROVE  BooksOK'
<1>1. liveMode' = liveMode BY NextMode
<1>2. ASSUME liveMode, NEW o \in Orders
      PROVE  payments'[o]["sim"].status = "NONE" /\ Bracket(o)'
  <2>1. payments[o]["sim"].status = "NONE" /\ Bracket(o) BY <1>2 DEF BooksOK
  <2>2. payments'[o]["sim"].status = "NONE" BY <1>2, <2>1, NextSim
  <2>3. ASSUME \A p \in Processes : ~PaidBack(p, o) PROVE Bracket(o)'
    BY <2>1, <2>3, BracketStays
  <2>4. ASSUME NEW p \in Processes, PaidBack(p, o) PROVE Bracket(o)'
    BY <1>2, <2>1, <2>4, BracketMoves
  <2> QED BY <2>2, <2>3, <2>4
<1> QED BY <1>1, <1>2 DEF BooksOK

(* No books at first.                                                      *)
LEMMA InitBooks == PayInit => BooksOK
<1> SUFFICES ASSUME PayInit, NEW o \in Orders
             PROVE  payments[o]["sim"].status = "NONE" /\ Bracket(o)
  BY DEF BooksOK
<1>1. PayInv BY InitPayInv
<1>2. payments[o]["sim"].status = "NONE"
  BY DEF PayInit, NoPayment, PaymentKind
<1>3. DOMAIN refunds[o] = {} /\ psp[o].returned = 0 BY DEF PayInit
<1>4. Confirmed(o) = {} /\ Sent(o) = {} BY <1>1, <1>3, CountedRows
<1>5. Sum(refunds[o], {}) = 0
  <2>1. Minors(refunds[o], {}) = {} BY DEF Minors
  <2> QED BY <2>1, FS_EmptySet DEF Sum
<1>6. Bracket(o) BY <1>3, <1>4, <1>5 DEF Bracket
<1> QED BY <1>2, <1>6

(* What the tables say was returned was returned, and what was returned    *)
(* has left a row, whichever answers are lost and tasks die: the rows that *)
(* succeeded are among the confirmed, those sent among all there are.      *)
THEOREM BooksAreBracketed == PaySpec => []BooksBracketTheProvider
<1>1. PayInv /\ BooksOK => BooksBracketTheProvider
  <2> SUFFICES ASSUME PayInv, BooksOK, liveMode, NEW o \in Orders
               PROVE  /\ refundedTotal(o, "pi") <= psp[o].returned
                      /\ psp[o].returned <= Amounts(o, RowsOf(o, "pi", RefundStatus))
    BY DEF BooksBracketTheProvider
  <2> DEFINE booked == RowsOf(o, "pi", {"SUCCEEDED"})
             all == RowsOf(o, "pi", RefundStatus)
             confirmed == Confirmed(o)
             sent == Sent(o)
  <2>1. PICK list \in Seq(RefundRow) : list = refunds[o]
    BY DEF PayInv, PayTypeOK
  <2>2. /\ booked \subseteq confirmed /\ confirmed \in SUBSET DOMAIN list
        /\ sent \subseteq all /\ all \in SUBSET DOMAIN list
    BY <2>1, CountedRows DEF Confirmed, Sent, RowsOf
  <2>3. /\ refundedTotal(o, "pi") = Sum(list, booked)
        /\ Amounts(o, all) = Sum(list, all)
    BY <2>1, AmountsAreSums DEF refundedTotal
  <2>4. /\ Sum(list, confirmed) <= psp[o].returned
        /\ psp[o].returned <= Sum(list, sent)
        /\ psp[o].returned \in Nat
    BY <2>1 DEF BooksOK, Bracket, PayInv, PayTypeOK
  <2> HIDE DEF booked, all, confirmed, sent
  <2>5. Sum(list, booked) <= Sum(list, confirmed) BY <2>2, SumGrows
  <2>6. Sum(list, sent) <= Sum(list, all) BY <2>2, SumGrows
  <2>7. /\ Sum(list, booked) \in Nat /\ Sum(list, confirmed) \in Nat
        /\ Sum(list, sent) \in Nat /\ Sum(list, all) \in Nat
    <3>1. booked \in SUBSET DOMAIN list /\ sent \in SUBSET DOMAIN list
      BY <2>2
    <3> QED BY <2>2, <3>1, MinorsAreFinite
  <2>8. /\ Sum(list, booked) <= psp[o].returned
        /\ psp[o].returned <= Sum(list, all)
    BY <2>4, <2>5, <2>6, <2>7
  <2> QED BY <2>3, <2>8 DEF all
<1>2. PayInv /\ BooksOK /\ [PayNext]_allVars => BooksOK' BY NextBooks
<1> QED BY <1>1, <1>2, InitBooks, PaymentsInductive, PTL DEF PaySpec

=============================================================================
