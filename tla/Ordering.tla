------------------------------- MODULE Ordering -------------------------------
(***************************************************************************)
(* The ordering module of the API (apps/api/src/modules/ordering): orders  *)
(* are placed against a per-day stock, moved by customers, merchants,      *)
(* operators, the payment module and the timeout sweeper, and every move   *)
(* discharges its side effects in the same database transaction.           *)
(*                                                                         *)
(* A database transaction that takes row locks is one step.  What the code *)
(* reads outside such a transaction, or before the lock, is a step of its  *)
(* own: the pre-checks of a placement, the seeding read of a stock row,    *)
(* the item an edit is compared with, and the sweeper's candidate lists.   *)
(***************************************************************************)
EXTENDS OrderStateMachine, CancellationPolicy, FiniteSets

CONSTANTS
  Orders,        \* the orders that may be placed
  Items,         \* the menu items of one merchant, on one service day
  MaxQty,        \* largest quantity of an item in an order
  Quotas,        \* daily caps a merchant may set; 0 is "no cap"
  Total,         \* what an order costs, in minor units
  RefundBps,     \* cancellation policy: share returned per tier
  Sweepers,      \* API instances running the timeout sweeper
  MaxCrashes,    \* bound on sweeper crashes
  CapEditors,    \* requests editing an item's cap that may be under way
  AdminTargets   \* statuses operators force orders into

ASSUME OrdersAssumption == IsFiniteSet(Orders)
ASSUME QuantityAssumption == MaxQty \in Nat \ {0} /\ Quotas \subseteq Nat
ASSUME TotalAssumption == Total \in Nat \ {0}
ASSUME PolicyAssumption == RefundBps \in [CancellationTier -> 0 .. 10000]
ASSUME BoundAssumption == MaxCrashes \in Nat /\ AdminTargets \subseteq OrderStatus

VARIABLES
  orders,        \* rows of `orders', with their order_items
  menu,          \* rows of `menu_items'
  capEdits,      \* edits of a cap under way: MenuService.updateItem
  stock,         \* rows of `menu_item_daily_stock' for the service day
  request,       \* placements under way: PlaceOrderUseCase.execute
  ledger,        \* the weekly merchant_payouts row and its lines
  statusEvents,  \* how many order_status_events rows each order has
  published,     \* the versions of each order's outbox_events rows
  sweep,         \* each instance's sweeper: pass and candidates left
  crashes

orderVars == <<orders, stock, ledger, statusEvents, published>>
vars == <<orders, menu, capEdits, stock, request, ledger, statusEvents,
          published, sweep, crashes>>

-----------------------------------------------------------------------------
(* State.                                                                  *)

NoDecision == -1     \* orders.refundDueMinor IS NULL
NoRow == -1          \* no stock row was seeded by this transaction
Nobody == "NOBODY"   \* no transition to PAID happened

Lines == [Items -> 0 .. MaxQty]
NoLines == [i \in Items |-> 0]
NoSeed == [i \in Items |-> NoRow]
Ordered(lines) == {i \in Items : lines[i] > 0}

NotPlaced ==
  [status |-> "NOT_PLACED", mode |-> "ONLINE", lines |-> NoLines,
   paidBy |-> Nobody, refundDue |-> NoDecision, readyAt |-> FALSE,
   late |-> FALSE]

OrderRow ==
  [status : OrderStatus \cup {"NOT_PLACED"}, mode : PaymentMode, lines : Lines,
   paidBy : OrderActor \cup {Nobody}, refundDue : Nat \cup {NoDecision},
   readyAt : BOOLEAN, late : BOOLEAN]

StockRow == [exists : BOOLEAN, quota : Nat, sold : Nat, held : Nat]
NoStock == [exists |-> FALSE, quota |-> 0, sold |-> 0, held |-> 0]

RequestRow ==
  [stage : {"none", "checked", "open"}, mode : PaymentMode, lines : Lines,
   seed : [Items -> Quotas \cup {NoRow}]]

(* `read' is the cap an edit was compared with, `quota' the one submitted. *)
CapEdit == [by : CapEditors, item : Items, read : Quotas, quota : Quotas]

NoRequest ==
  [stage |-> "none", mode |-> "ONLINE", lines |-> NoLines, seed |-> NoSeed]

SweepPass == {"idle", "unpaid", "unaccepted", "uncollected"}
Idle == [pass |-> "idle", todo |-> {}]

Init ==
  /\ orders = [o \in Orders |-> NotPlaced]
  /\ menu \in [Items -> [listed : {TRUE}, dailyQuota : Quotas]]
  /\ capEdits = {}
  /\ stock = [i \in Items |-> NoStock]
  /\ request = [o \in Orders |-> NoRequest]
  /\ ledger = [orderCount |-> 0, lines |-> {}]
  /\ statusEvents = [o \in Orders |-> 0]
  /\ published = [o \in Orders |-> {}]
  /\ sweep = [s \in Sweepers |-> Idle]
  /\ crashes = 0

-----------------------------------------------------------------------------
(* Placing an order.                                                       *)

(* findMenuItems: no row yet means the item's own cap.  Zero is no cap.    *)
Remaining(i, quantity) ==
  LET quota == IF stock[i].exists THEN stock[i].quota ELSE menu[i].dailyQuota
  IN quota = 0 \/ quota - stock[i].sold - stock[i].held >= quantity

(* The checks that run before the transaction is opened.                   *)
PlaceCheck(o) ==
  /\ orders[o].status = "NOT_PLACED"
  /\ request[o].stage = "none"
  /\ \E lines \in Lines, mode \in PaymentMode :
       /\ Ordered(lines) # {}
       /\ \A i \in Ordered(lines) : menu[i].listed /\ Remaining(i, lines[i])
       /\ request' = [request EXCEPT ![o] =
            [stage |-> "checked", mode |-> mode, lines |-> lines,
             seed |-> NoSeed]]
  /\ UNCHANGED <<orderVars, menu, capEdits, sweep, crashes>>

(* An uncommitted stock row blocks every other INSERT of the same key.     *)
Seeding(i) == \E o \in Orders : request[o].seed[i] # NoRow

(* The transaction's INSERT ... SELECT COALESCE("dailyQuota", 0) ... ON    *)
(* CONFLICT DO NOTHING reads the cap; the row is invisible until commit.   *)
PlaceSeed(o) ==
  /\ request[o].stage = "checked"
  /\ \A i \in Ordered(request[o].lines) : stock[i].exists \/ ~Seeding(i)
  /\ request' = [request EXCEPT
       ![o].stage = "open",
       ![o].seed = [i \in Items |->
          IF i \in Ordered(request[o].lines) /\ menu[i].listed
             /\ ~stock[i].exists
          THEN menu[i].dailyQuota ELSE NoRow]]
  /\ UNCHANGED <<orderVars, menu, capEdits, sweep, crashes>>

(* The stock row the transaction sees: the committed one, or its own.      *)
SeenRow(o, i) ==
  IF stock[i].exists \/ request[o].seed[i] = NoRow THEN stock[i]
  ELSE [exists |-> TRUE, quota |-> request[o].seed[i], sold |-> 0, held |-> 0]

(* Mutation of Fits: the units other orders hold are not counted.          *)
FitsIgnoringHolds(row, quantity) ==
  row.exists /\ (row.quota = 0 \/ row.sold + quantity <= row.quota)

Fits(row, quantity) ==
  row.exists /\ (row.quota = 0 \/ row.sold + row.held + quantity <= row.quota)

HeldRow(row, quantity) == [row EXCEPT !.held = @ + quantity]

(* holdDailyQuota for every line, insertOrder, the creation status event   *)
(* and the outbox row, all or nothing.                                     *)
PlaceCommit(o) ==
  LET lines == request[o].lines IN
  /\ request[o].stage = "open"
  /\ \A i \in Ordered(lines) : Fits(SeenRow(o, i), lines[i])
  /\ orders' = [orders EXCEPT ![o] =
       [NotPlaced EXCEPT !.status = "PENDING_PAYMENT",
                         !.mode = request[o].mode, !.lines = lines]]
  /\ stock' = [i \in Items |->
       IF i \in Ordered(lines) THEN HeldRow(SeenRow(o, i), lines[i])
       ELSE stock[i]]
  /\ statusEvents' = [statusEvents EXCEPT ![o] = 1]
  /\ published' = [published EXCEPT ![o] = {1}]
  /\ request' = [request EXCEPT ![o] = NoRequest]
  /\ UNCHANGED <<menu, capEdits, ledger, sweep, crashes>>

(* Sold out on the conditional UPDATE, a lost connection, a crash: the     *)
(* transaction rolls back.  The customer may submit again.                 *)
PlaceAbort(o) ==
  /\ request[o].stage # "none"
  /\ request' = [request EXCEPT ![o] = NoRequest]
  /\ UNCHANGED <<orderVars, menu, capEdits, sweep, crashes>>

-----------------------------------------------------------------------------
(* TransitionOrderUseCase.execute: one transaction under the row lock.     *)

(* Mutation of Decisions: a transition that decides nothing writes NULL.   *)
DecisionsErased(rule, o, actor) ==
  IF "ISSUE_REFUND" \in rule.effects
  THEN {quote(RefundBps, Total, orders[o].status, rule.to, actor, FALSE)}
  ELSE {NoDecision}

(* refundDecision: only a rule with ISSUE_REFUND writes the column.  The   *)
(* customer's grace since acceptance may or may not be over.               *)
Decisions(rule, o, actor) ==
  IF "ISSUE_REFUND" \in rule.effects
  THEN {quote(RefundBps, Total, orders[o].status, rule.to, actor, graceOver) :
          graceOver \in BOOLEAN}
  ELSE {orders[o].refundDue}

Moved(rule, o, actor, decision) ==
  [orders[o] EXCEPT
     !.status = rule.to,
     !.paidBy = IF rule.to = "PAID" THEN actor ELSE @,
     !.refundDue = decision,
     !.readyAt = @ \/ rule.to = "READY_FOR_PICKUP",
     !.late = FALSE]

Clamped(n) == IF n < 0 THEN 0 ELSE n    \* SQL GREATEST(n, 0)

(* Mutation of releaseDailyQuota: released by two handlers, unclamped.     *)
releasedTwice(row, quantity) == [row EXCEPT !.held = @ - quantity - quantity]

(* Mutation of convertHoldToSold: sold, and still held.                    *)
soldAndHeld(row, quantity) == [row EXCEPT !.sold = @ + quantity]

(* releaseDailyQuota and convertHoldToSold, for the lines whose item still *)
(* exists: deleting an item has zeroed the others and dropped its row.     *)
releaseDailyQuota(row, quantity) ==
  [row EXCEPT !.held = Clamped(@ - quantity)]

convertHoldToSold(row, quantity) ==
  [row EXCEPT !.held = Clamped(@ - quantity), !.sold = @ + quantity]

Settled(rule, o, i) ==
  CASE "RELEASE_DAILY_QUOTA" \in rule.effects ->
         releaseDailyQuota(stock[i], orders[o].lines[i])
    [] "CONVERT_HOLD_TO_SOLD" \in rule.effects ->
         convertHoldToSold(stock[i], orders[o].lines[i])
    [] OTHER -> stock[i]

(* recordPayoutLedger: the batch total is incremented unconditionally, the *)
(* line insert is ON CONFLICT DO NOTHING.                                  *)
recordPayoutLedger(o) ==
  [orderCount |-> ledger.orderCount + 1, lines |-> ledger.lines \cup {o}]

(* Mutation of NextVersion: counted outside the transaction.               *)
VersionBeforeAppend(o) == statusEvents[o]

(* countStatusEvents reads through the transaction, so the version counts  *)
(* the event this transition has just appended.                            *)
NextVersion(o) == statusEvents[o] + 1

Apply(rule, o, actor, decision) ==
  /\ orders' = [orders EXCEPT ![o] = Moved(rule, o, actor, decision)]
  /\ stock' = [i \in Items |-> Settled(rule, o, i)]
  /\ ledger' = IF "RECORD_PAYOUT_LEDGER" \in rule.effects
               THEN recordPayoutLedger(o) ELSE ledger
  /\ statusEvents' = [statusEvents EXCEPT ![o] = @ + 1]
  /\ published' = [published EXCEPT ![o] = @ \cup {NextVersion(o)}]

CanMove(o, to, actor, accepting) ==
  /\ orders[o].status \in OrderStatus
  /\ \E rule \in TRANSITIONS[orders[o].status] :
       Admits(rule, to, actor, accepting, Total, orders[o].mode)

Transition(o, to, actor, accepting) ==
  /\ orders[o].status \in OrderStatus
  /\ \E rule \in TRANSITIONS[orders[o].status] :
       /\ Admits(rule, to, actor, accepting, Total, orders[o].mode)
       /\ \E decision \in Decisions(rule, o, actor) :
            Apply(rule, o, actor, decision)

-----------------------------------------------------------------------------
(* Who moves an order.                                                     *)

CustomerCancel(o) ==
  /\ Transition(o, "CANCELLED", "CUSTOMER", TRUE)
  /\ UNCHANGED <<menu, capEdits, request, sweep, crashes>>

(* The intake switch is read before the transaction, hence free.           *)
MerchantMove(o, to) ==
  /\ \E accepting \in BOOLEAN : Transition(o, to, "MERCHANT", accepting)
  /\ UNCHANGED <<menu, capEdits, request, sweep, crashes>>

AdminForce(o, to) ==
  /\ Transition(o, to, "ADMIN", TRUE)
  /\ UNCHANGED <<menu, capEdits, request, sweep, crashes>>

(* The payment module: a capture, a cash confirmation, a completed refund. *)
PaymentMove(o, to, actor) ==
  /\ Transition(o, to, actor, TRUE)
  /\ UNCHANGED <<menu, capEdits, request, sweep, crashes>>

-----------------------------------------------------------------------------
(* The menu.                                                               *)

(* updateItem reads the item and compares it with what was submitted.  An  *)
(* edit that changes nothing ends here, and one without a cap in it has no *)
(* effect on caps; one that repeats the cap it read beside some other      *)
(* change goes on, with the cap in its patch.                              *)
CapRead(e, i, quota) ==
  /\ menu[i].listed
  /\ \A edit \in capEdits : edit.by # e
  /\ capEdits' = capEdits \cup
       {[by |-> e, item |-> i, read |-> menu[i].dailyQuota, quota |-> quota]}
  /\ UNCHANGED <<orderVars, menu, request, sweep, crashes>>

(* Mutation of CapOfRow: today's row keeps the cap it was seeded with.     *)
CapAsSeeded(edit) == stock[edit.item].quota

(* Today's committed row takes the cap only if the comparison found it     *)
(* changed.                                                                *)
CapOfRow(edit) ==
  IF edit.quota # edit.read /\ stock[edit.item].exists THEN edit.quota
  ELSE stock[edit.item].quota

(* The transaction writes the whole patch to the item, whatever it has     *)
(* become since; an item deleted meanwhile makes the update throw.         *)
CapCommit(edit) ==
  /\ edit \in capEdits
  /\ menu[edit.item].listed
  /\ menu' = [menu EXCEPT ![edit.item].dailyQuota = edit.quota]
  /\ stock' = [stock EXCEPT ![edit.item].quota = CapOfRow(edit)]
  /\ capEdits' = capEdits \ {edit}
  /\ UNCHANGED <<orders, request, ledger, statusEvents, published, sweep,
                 crashes>>

(* The item is gone, or the connection: nothing is written.                *)
CapAbort(edit) ==
  /\ edit \in capEdits
  /\ capEdits' = capEdits \ {edit}
  /\ UNCHANGED <<orderVars, menu, request, sweep, crashes>>

(* deleteItem: order_items.menuItemId is set NULL, the stock row cascades. *)
(* A transaction that has inserted the row holds a key lock on the item.   *)
DeleteItem(i) ==
  /\ menu[i].listed
  /\ ~Seeding(i)
  /\ menu' = [menu EXCEPT ![i].listed = FALSE]
  /\ stock' = [stock EXCEPT ![i] = NoStock]
  /\ orders' = [o \in Orders |-> [orders[o] EXCEPT !.lines[i] = 0]]
  /\ UNCHANGED <<capEdits, request, ledger, statusEvents, published, sweep,
                 crashes>>

-----------------------------------------------------------------------------
(* The timeout sweeper.                                                    *)

Timed == {"PENDING_PAYMENT", "PAID", "READY_FOR_PICKUP"}

(* The clock of the current status runs out: the payment window, the       *)
(* accept deadline (restarted by the move to PAID) or the pickup window.   *)
DeadlinePasses(o) ==
  /\ orders[o].status \in Timed
  /\ ~orders[o].late
  /\ orders' = [orders EXCEPT ![o].late = TRUE]
  /\ UNCHANGED <<menu, capEdits, stock, request, ledger, statusEvents,
                 published, sweep, crashes>>

NextPass ==
  [idle |-> "unpaid", unpaid |-> "unaccepted", unaccepted |-> "uncollected"]

(* Mutation of Swept: the accept deadline is looked for on ACCEPTED.       *)
SweptAccepted ==
  [unpaid |-> "PENDING_PAYMENT", unaccepted |-> "ACCEPTED",
   uncollected |-> "READY_FOR_PICKUP"]

Swept ==
  [unpaid |-> "PENDING_PAYMENT", unaccepted |-> "PAID",
   uncollected |-> "READY_FOR_PICKUP"]

(* expireUnpaid, expireUnaccepted, expireUncollected: a plain read.        *)
SweepList(s) ==
  /\ sweep[s].todo = {}
  /\ sweep[s].pass # "uncollected"
  /\ LET pass == NextPass[sweep[s].pass] IN
       sweep' = [sweep EXCEPT ![s] =
         [pass |-> pass,
          todo |-> {o \in Orders : /\ orders[o].status = Swept[pass]
                                   /\ orders[o].late}]]
  /\ UNCHANGED <<orderVars, menu, capEdits, request, crashes>>

SweepDone(s) ==
  /\ sweep[s] = [pass |-> "uncollected", todo |-> {}]
  /\ sweep' = [sweep EXCEPT ![s] = Idle]
  /\ UNCHANGED <<orderVars, menu, capEdits, request, crashes>>

(* expireAll: the transition starts from the status the row has by then;   *)
(* one that the table refuses is logged and skipped.                       *)
SweepExpire(s, o) ==
  /\ o \in sweep[s].todo
  /\ sweep' = [sweep EXCEPT ![s].todo = @ \ {o}]
  /\ \/ Transition(o, "EXPIRED", "SYSTEM", TRUE)
     \/ ~CanMove(o, "EXPIRED", "SYSTEM", TRUE) /\ UNCHANGED orderVars
  /\ UNCHANGED <<menu, capEdits, request, crashes>>

SweepCrash(s) ==
  /\ crashes < MaxCrashes
  /\ sweep[s] # Idle
  /\ sweep' = [sweep EXCEPT ![s] = Idle]
  /\ crashes' = crashes + 1
  /\ UNCHANGED <<orderVars, menu, capEdits, request>>

-----------------------------------------------------------------------------
Placing(o) == PlaceCheck(o) \/ PlaceSeed(o) \/ PlaceCommit(o) \/ PlaceAbort(o)

MerchantTargets ==
  {"ACCEPTED", "REJECTED", "CANCELLED", "PREPARING", "READY_FOR_PICKUP",
   "COMPLETED"}

Staffed(o) ==
  \/ \E to \in MerchantTargets : MerchantMove(o, to)
  \/ \E to \in AdminTargets : AdminForce(o, to)

Paying(o) ==
  \/ \E actor \in {"SYSTEM", "MERCHANT"} : PaymentMove(o, "PAID", actor)
  \/ \E actor \in STAFF : PaymentMove(o, "REFUNDED", actor)

Selling(i) ==
  \/ DeleteItem(i)
  \/ \E e \in CapEditors, quota \in Quotas : CapRead(e, i, quota)
  \/ \E edit \in capEdits :
       edit.item = i /\ (CapCommit(edit) \/ CapAbort(edit))

Sweeping(s) == SweepList(s) \/ SweepDone(s) \/ \E o \in Orders : SweepExpire(s, o)

Next ==
  \/ \E o \in Orders :
       \/ Placing(o) \/ CustomerCancel(o) \/ Staffed(o) \/ Paying(o)
       \/ DeadlinePasses(o)
  \/ \E i \in Items : Selling(i)
  \/ \E s \in Sweepers : Sweeping(s) \/ SweepCrash(s)

Spec == Init /\ [][Next]_vars

(* scheduleNext in a finally block: a live sweeper always runs again and   *)
(* works its list to the end.                                              *)
FairSpec == Spec /\ \A s \in Sweepers : WF_vars(Sweeping(s))

-----------------------------------------------------------------------------
(* Properties.                                                             *)

(* Every table holds rows of its type; a placement's seed is a cap read.   *)
TypeOK ==
  /\ orders \in [Orders -> OrderRow]
  /\ menu \in [Items -> [listed : BOOLEAN, dailyQuota : Quotas]]
  /\ capEdits \in SUBSET CapEdit
  /\ stock \in [Items -> StockRow]
  /\ request \in [Orders -> RequestRow]
  /\ ledger \in [orderCount : Nat, lines : SUBSET Orders]
  /\ statusEvents \in [Orders -> Nat]
  /\ published \in [Orders -> SUBSET Nat]
  /\ sweep \in [Sweepers -> [pass : SweepPass, todo : SUBSET Orders]]
  /\ crashes \in 0 .. MaxCrashes

(* READY to REFUNDED, an operator's move, neither releases nor converts:   *)
(* its units stay held for the rest of the day.                            *)
Holds(o) ==
  \/ orders[o].status \in {"PENDING_PAYMENT", "PAID", "ACCEPTED", "PREPARING",
                           "READY_FOR_PICKUP"}
  \/ orders[o].status = "REFUNDED" /\ orders[o].readyAt

Fulfilled(o) ==
  \/ orders[o].status = "COMPLETED"
  \/ orders[o].status = "EXPIRED" /\ orders[o].readyAt

UnitsOf(S, i) ==
  {unit \in S \X (1 .. MaxQty) : unit[2] <= orders[unit[1]].lines[i]}

(* held is exactly the units of the orders that still reserve them: no     *)
(* unit leaks and none is given back twice, whatever races with whatever.  *)
HeldMatchesLiveOrders ==
  \A i \in Items :
    stock[i].held = Cardinality(UnitsOf({o \in Orders : Holds(o)}, i))

(* sold is exactly the units of collected orders and of no-shows.          *)
SoldMatchesFulfilledOrders ==
  \A i \in Items :
    stock[i].sold = Cardinality(UnitsOf({o \in Orders : Fulfilled(o)}, i))

(* A unit is newly reserved only inside the row's cap, although the check  *)
(* the customer passed was made outside the transaction.                   *)
NoOversell ==
  [][\A i \in Items :
       stock'[i].held > stock[i].held =>
         \/ stock'[i].quota = 0
         \/ stock'[i].sold + stock'[i].held <= stock'[i].quota]_vars

(* A merchant is paid exactly once for each order it cooked and handed     *)
(* over or kept for a no-show: lines and the batch's count agree.          *)
LedgerExactlyOnce ==
  /\ ledger.lines = {o \in Orders : Fulfilled(o)}
  /\ ledger.orderCount = Cardinality(ledger.lines)

(* An order that was paid and then closed unserved carries a refund        *)
(* decision for the reactor to act on; one never paid for carries none.    *)
PaidClosureHasDecision ==
  \A o \in Orders :
    LET order == orders[o] IN
    /\ order.status \in {"REJECTED", "CANCELLED"} /\ order.paidBy # Nobody
         => order.refundDue # NoDecision
    /\ order.status = "EXPIRED" /\ order.paidBy # Nobody /\ ~order.readyAt
         => order.refundDue # NoDecision
    /\ order.paidBy = Nobody => order.refundDue = NoDecision

(* A refund decision, once written, is never erased or changed.            *)
DecisionIsFinal ==
  [][\A o \in Orders :
       orders[o].refundDue # NoDecision =>
         orders'[o].refundDue = orders[o].refundDue]_vars

(* Outbox versions of an order are 1, 2, ... without gap or repetition,    *)
(* one per status event: what a consumer orders events by.                 *)
VersionsAreGapless ==
  \A o \in Orders : published[o] = 1 .. statusEvents[o]

(* An order whose clock ran out leaves that status in the end, even if     *)
(* nobody but a sweeper ever acts.                                         *)
OverdueOrdersResolve ==
  \A o \in Orders : \A status \in Timed :
    (orders[o].status = status /\ orders[o].late)
      ~> orders[o].status # status

(* expireAll's comment: an order that moved on since it was listed is left *)
(* alone.  A sweeper only expires an order whose own clock has run out.    *)
SweeperExpiresOnlyOverdue ==
  [][\A s \in Sweepers : \A o \in sweep[s].todo :
       (o \notin sweep'[s].todo /\ orders'[o] # orders[o])
         => orders[o].late]_vars

(* updateItem's comment: the day's row never keeps an old cap.  It can, in *)
(* two ways only: the first placement of the day commits the cap it read   *)
(* before the merchant changed it; or an edit that repeats the cap it read *)
(* beside another change is overtaken by one that changes the cap, and     *)
(* puts the menu back without the row.                                     *)
CapAgrees(i) == stock[i].exists => stock[i].quota = menu[i].dailyQuota

SeededBefore(i) ==
  \E o \in Orders : /\ ~stock[i].exists
                    /\ request[o].seed[i] = stock'[i].quota
                    /\ orders[o] # orders'[o]

PutBack(i) ==
  \E edit \in capEdits \ capEdits' :
    /\ edit.item = i
    /\ edit.quota = edit.read
    /\ edit.read # menu[i].dailyQuota

CapDriftsOnlyByOverlap ==
  [][\A i \in Items :
       CapAgrees(i) /\ ~CapAgrees(i)' => SeededBefore(i) \/ PutBack(i)]_vars

(* The refinement mapping to Fulfilment.                                   *)
FateOf(o) ==
  CASE orders[o].status = "NOT_PLACED" -> "none"
    [] Holds(o) -> "held"
    [] Fulfilled(o) -> "sold"
    [] OTHER -> "released"

Units == INSTANCE Fulfilment WITH
  fate <- [o \in Orders |-> FateOf(o)],
  demand <- [o \in Orders |-> orders[o].lines],
  held <- [i \in Items |-> stock[i].held],
  sold <- [i \in Items |-> stock[i].sold]

(* Ordering implements Fulfilment.                                         *)
ImplementsFulfilment == Units!Spec

=============================================================================
