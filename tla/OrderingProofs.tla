---------------------------- MODULE OrderingProofs ----------------------------
(***************************************************************************)
(* What holds of Ordering for every set of orders, items and sweepers and  *)
(* every quota and policy.                                                 *)
(***************************************************************************)
EXTENDS Ordering, TLAPS, FiniteSetTheorems

-----------------------------------------------------------------------------
(* Facts about the transition table.                                       *)

Uncooked == {"PENDING_PAYMENT", "PAID", "ACCEPTED", "PREPARING"}
InKitchen == {"PAID", "ACCEPTED", "PREPARING"}
Unserved == {"REJECTED", "CANCELLED", "EXPIRED"}
Served == {"COMPLETED", "EXPIRED"}

(* The edges of the table, without actors and guards.                      *)
Edge(from, to) ==
  \/ from = "PENDING_PAYMENT" /\ to \in {"PAID", "CANCELLED", "EXPIRED"}
  \/ from = "PAID" /\ to \in {"ACCEPTED", "REJECTED", "CANCELLED", "EXPIRED", "REFUNDED"}
  \/ from = "ACCEPTED" /\ to \in {"PREPARING", "CANCELLED", "REFUNDED"}
  \/ from = "PREPARING" /\ to \in {"READY_FOR_PICKUP", "CANCELLED", "REFUNDED"}
  \/ from = "READY_FOR_PICKUP" /\ to \in {"COMPLETED", "EXPIRED", "REFUNDED"}
  \/ from \in {"REJECTED", "CANCELLED"} /\ to = "REFUNDED"

(* Which edges oblige the caller to do what.                               *)
RuleFacts(from, rule) ==
  /\ Edge(from, rule.to)
  /\ rule.actors \subseteq OrderActor
  /\ "ISSUE_REFUND" \in rule.effects <=>
       from \in InKitchen /\ rule.to \in Unserved
  /\ "RELEASE_DAILY_QUOTA" \in rule.effects <=>
       from \in Uncooked /\ rule.to \in Unserved \cup {"REFUNDED"}
  /\ "CONVERT_HOLD_TO_SOLD" \in rule.effects <=>
       from = "READY_FOR_PICKUP" /\ rule.to \in Served
  /\ "RECORD_PAYOUT_LEDGER" \in rule.effects <=>
       from = "READY_FOR_PICKUP" /\ rule.to \in Served

(* Every rule of the table does what its edge obliges it to.               *)
LEMMA TableFacts ==
  ASSUME NEW from \in OrderStatus, NEW rule \in TRANSITIONS[from]
  PROVE  RuleFacts(from, rule)
<1> USE DEF RuleFacts, Edge, Uncooked, InKitchen, Unserved, Served, Rule,
            Returning, Fulfilling, Releasing, STAFF, OrderActor
<1>1. CASE from = "PENDING_PAYMENT"
  <2>1. rule \in FromPendingPayment BY <1>1 DEF TRANSITIONS, OrderStatus
  <2> QED BY <1>1, <2>1 DEF FromPendingPayment
<1>2. CASE from = "PAID"
  <2>1. rule \in FromPaid BY <1>2 DEF TRANSITIONS, OrderStatus
  <2> QED BY <1>2, <2>1 DEF FromPaid
<1>3. CASE from = "ACCEPTED"
  <2>1. rule \in FromAccepted BY <1>3 DEF TRANSITIONS, OrderStatus
  <2> QED BY <1>3, <2>1 DEF FromAccepted
<1>4. CASE from = "PREPARING"
  <2>1. rule \in FromPreparing BY <1>4 DEF TRANSITIONS, OrderStatus
  <2> QED BY <1>4, <2>1 DEF FromPreparing
<1>5. CASE from = "READY_FOR_PICKUP"
  <2>1. rule \in FromReady BY <1>5 DEF TRANSITIONS, OrderStatus
  <2> QED BY <1>5, <2>1 DEF FromReady
<1>6. CASE from = "REJECTED"
  <2>1. rule \in FromRejected BY <1>6 DEF TRANSITIONS, OrderStatus
  <2> QED BY <1>6, <2>1 DEF FromRejected
<1>7. CASE from = "CANCELLED"
  <2>1. rule \in FromCancelled BY <1>7 DEF TRANSITIONS, OrderStatus
  <2> QED BY <1>7, <2>1 DEF FromCancelled
<1>8. CASE from \in TERMINAL
  BY <1>8 DEF TRANSITIONS, OrderStatus, TERMINAL
<1> QED BY <1>1, <1>2, <1>3, <1>4, <1>5, <1>6, <1>7, <1>8 DEF OrderStatus, TERMINAL

(* A customer's closing falls in a tier of the policy.                     *)
LEMMA CustomerTierIsTier ==
  ASSUME NEW from, NEW graceOver \in BOOLEAN
  PROVE  CustomerTier(from, graceOver) \in CancellationTier
<1>1. CustomerTier(from, graceOver) \in {"NON_REFUNDABLE", "LATE", "FREE"}
  BY DEF CustomerTier
<1> QED BY <1>1 DEF CancellationTier

(* So does everybody's, whatever the edge.                                 *)
LEMMA ClassifyIsTier ==
  ASSUME NEW from, NEW to, NEW actor \in OrderActor, NEW graceOver \in BOOLEAN
  PROVE  classify(from, to, actor, graceOver) \in CancellationTier
<1> USE DEF CancellationTier
<1>1. CASE to = "REJECTED" \/ actor = "MERCHANT" BY <1>1 DEF classify
<1>2. CASE to # "REJECTED" /\ actor = "ADMIN" BY <1>2 DEF classify
<1>3. CASE to # "REJECTED" /\ actor = "SYSTEM" BY <1>3 DEF classify
<1>4. CASE to # "REJECTED" /\ actor = "CUSTOMER"
  BY <1>4, CustomerTierIsTier DEF classify
<1> QED BY <1>1, <1>2, <1>3, <1>4 DEF OrderActor

(* A share of an amount is an amount.                                      *)
LEMMA ShareIsNat ==
  ASSUME NEW minor \in Nat, NEW bps \in Nat
  PROVE  applyBasisPoints(minor, bps) \in Nat
<1>1. PICK product \in Nat : product = minor * bps OBVIOUS
<1>2. (product + 5000) \div 10000 \in Nat OBVIOUS
<1> QED BY <1>1, <1>2 DEF applyBasisPoints

(* A refund decision is a number of minor units, whatever the policy.      *)
LEMMA QuoteIsNat ==
  ASSUME NEW from, NEW to, NEW actor \in OrderActor, NEW graceOver \in BOOLEAN
  PROVE  quote(RefundBps, Total, from, to, actor, graceOver) \in Nat
<1>1. PICK tier \in CancellationTier :
        tier = classify(from, to, actor, graceOver)
  BY ClassifyIsTier
<1>2. PICK bps \in 0 .. 10000 : bps = RefundBps[tier] BY PolicyAssumption
<1>3. bps \in Nat OBVIOUS
<1>4. Total \in Nat BY TotalAssumption
<1>5. applyBasisPoints(Total, bps) \in Nat BY <1>3, <1>4, ShareIsNat
<1>6. quote(RefundBps, Total, from, to, actor, graceOver)
        = applyBasisPoints(Total, bps)
  BY <1>1, <1>2 DEF quote
<1> QED BY <1>5, <1>6

-----------------------------------------------------------------------------
(* The steps that touch the tables.                                        *)

(* One transition under the row lock, whoever asked for it and whatever    *)
(* the guards said.                                                        *)
Move(o, actor) ==
  /\ orders[o].status \in OrderStatus
  /\ \E rule \in TRANSITIONS[orders[o].status] :
       \E decision \in Decisions(rule, o, actor) :
         Apply(rule, o, actor, decision)

(* Whatever target and intake switch a caller passes, its transition is a  *)
(* Move.                                                                   *)
LEMMA TransitionIsMove ==
  ASSUME NEW o, NEW to, NEW actor, NEW accepting,
         Transition(o, to, actor, accepting)
  PROVE  Move(o, actor)
BY DEF Transition, Move

(* Every step is a move, a step of a placement, a menu edit or a deadline, *)
(* or it leaves the tables alone.                                          *)
LEMMA StepCases ==
  ASSUME [Next]_vars
  PROVE  \/ \E o \in Orders, actor \in OrderActor :
              Move(o, actor) /\ UNCHANGED <<menu, capEdits, request>>
         \/ \E o \in Orders : Placing(o) \/ DeadlinePasses(o)
         \/ \E i \in Items : DeleteItem(i)
         \/ \E edit \in capEdits : CapCommit(edit)
         \/ UNCHANGED <<orderVars, request>>
<1> USE TransitionIsMove DEF OrderActor
<1>1. CASE UNCHANGED vars BY <1>1 DEF vars, orderVars
<1>3. ASSUME NEW o \in Orders, CustomerCancel(o)
      PROVE  Move(o, "CUSTOMER") /\ UNCHANGED <<menu, capEdits, request>>
  BY <1>3 DEF CustomerCancel
<1>4. ASSUME NEW o \in Orders, Staffed(o)
      PROVE  \E actor \in {"MERCHANT", "ADMIN"} :
               Move(o, actor) /\ UNCHANGED <<menu, capEdits, request>>
  <2>1. ASSUME NEW to, MerchantMove(o, to)
        PROVE  Move(o, "MERCHANT") /\ UNCHANGED <<menu, capEdits, request>>
    BY <2>1 DEF MerchantMove
  <2>2. ASSUME NEW to, AdminForce(o, to)
        PROVE  Move(o, "ADMIN") /\ UNCHANGED <<menu, capEdits, request>>
    BY <2>2 DEF AdminForce
  <2> QED BY <1>4, <2>1, <2>2 DEF Staffed
<1>5. ASSUME NEW o \in Orders, Paying(o)
      PROVE  \E actor \in OrderActor :
               Move(o, actor) /\ UNCHANGED <<menu, capEdits, request>>
  BY <1>5 DEF Paying, PaymentMove, STAFF
<1>6. ASSUME NEW s \in Sweepers, Sweeping(s) \/ SweepCrash(s)
      PROVE  \/ UNCHANGED <<orderVars, request>>
             \/ \E o \in Orders :
                  Move(o, "SYSTEM") /\ UNCHANGED <<menu, capEdits, request>>
  BY <1>6 DEF Sweeping, SweepList, SweepDone, SweepExpire, SweepCrash
<1>7. ASSUME NEW i \in Items, Selling(i)
      PROVE  \/ DeleteItem(i) \/ UNCHANGED <<orderVars, request>>
             \/ \E edit \in capEdits : CapCommit(edit)
  BY <1>7 DEF Selling, CapRead, CapAbort
<1> QED BY <1>1, <1>3, <1>4, <1>5, <1>6, <1>7 DEF Next

(* Of a placement's steps only the commit touches the tables.              *)
LEMMA PlacingCases ==
  ASSUME NEW o, Placing(o)
  PROVE  PlaceCommit(o) \/ UNCHANGED orderVars
BY DEF Placing, PlaceCheck, PlaceSeed, PlaceAbort

-----------------------------------------------------------------------------
(* Type correctness.                                                       *)

(* A rule of the table is well formed where the move reads it.             *)
LEMMA RuleType ==
  ASSUME NEW from \in OrderStatus, NEW rule \in TRANSITIONS[from]
  PROVE  rule.to \in OrderStatus
BY TableFacts DEF RuleFacts, Edge, OrderStatus

(* The row a move writes is a row again.                                   *)
LEMMA MovedType ==
  ASSUME TypeOK, NEW o \in Orders, NEW actor \in OrderActor,
         orders[o].status \in OrderStatus,
         NEW rule \in TRANSITIONS[orders[o].status],
         NEW decision \in Decisions(rule, o, actor)
  PROVE  /\ Moved(rule, o, actor, decision) \in OrderRow
         /\ decision \in Nat \cup {NoDecision}
<1>1. orders[o] \in OrderRow BY DEF TypeOK
<1>2. decision \in Nat \cup {NoDecision}
  BY <1>1, QuoteIsNat DEF Decisions, OrderRow
<1>3. rule.to \in OrderStatus BY RuleType
<1> QED BY <1>1, <1>2, <1>3 DEF Moved, OrderRow

(* So are the stock rows it writes.                                        *)
LEMMA SettledType ==
  ASSUME TypeOK, NEW o \in Orders, NEW rule, NEW i \in Items
  PROVE  Settled(rule, o, i) \in StockRow
<1>1. stock[i] \in StockRow BY DEF TypeOK
<1>2. PICK quantity \in Nat : quantity = orders[o].lines[i]
  BY QuantityAssumption DEF TypeOK, OrderRow, Lines
<1>3. Clamped(stock[i].held - quantity) \in Nat
  BY <1>1 DEF Clamped, StockRow
<1>4. releaseDailyQuota(stock[i], quantity) \in StockRow
  BY <1>1, <1>3 DEF releaseDailyQuota, StockRow
<1>5. stock[i].sold + quantity \in Nat BY <1>1 DEF StockRow
<1>6. convertHoldToSold(stock[i], quantity) \in StockRow
  BY <1>1, <1>3, <1>5 DEF convertHoldToSold, StockRow
<1> QED BY <1>1, <1>2, <1>4, <1>6 DEF Settled

(* What a move leaves typed; the other variables are its caller's.         *)
TablesTyped ==
  /\ orders \in [Orders -> OrderRow]
  /\ stock \in [Items -> StockRow]
  /\ ledger \in [orderCount : Nat, lines : SUBSET Orders]
  /\ statusEvents \in [Orders -> Nat]
  /\ published \in [Orders -> SUBSET Nat]

(* A move leaves every table with rows of its type.                        *)
LEMMA MoveType ==
  ASSUME TypeOK, NEW o \in Orders, NEW actor \in OrderActor, Move(o, actor)
  PROVE  TablesTyped'
<1>1. PICK rule \in TRANSITIONS[orders[o].status] :
        \E decision \in Decisions(rule, o, actor) :
          Apply(rule, o, actor, decision)
  BY DEF Move
<1>2. PICK decision \in Decisions(rule, o, actor) :
        Apply(rule, o, actor, decision)
  BY <1>1
<1>3. orders' \in [Orders -> OrderRow]
  BY <1>2, MovedType DEF Move, Apply, TypeOK
<1>4. stock' \in [Items -> StockRow] BY <1>2, SettledType DEF Apply
<1>5. ledger' \in [orderCount : Nat, lines : SUBSET Orders]
  BY <1>2 DEF Apply, TypeOK, recordPayoutLedger
<1>6. statusEvents' \in [Orders -> Nat] BY <1>2 DEF Apply, TypeOK
<1>7. published' \in [Orders -> SUBSET Nat]
  BY <1>2 DEF Apply, TypeOK, NextVersion
<1> QED BY <1>3, <1>4, <1>5, <1>6, <1>7 DEF TablesTyped

(* The empty placement is a placement row.                                 *)
LEMMA NoRequestType == NoRequest \in RequestRow
<1>1. NoLines \in Lines BY QuantityAssumption DEF NoLines, Lines
<1>2. NoSeed \in [Items -> Quotas \cup {NoRow}] BY DEF NoSeed
<1> QED BY <1>1, <1>2 DEF NoRequest, RequestRow, PaymentMode

(* The empty tables have their types.                                      *)
LEMMA InitType == Init => TypeOK
<1> SUFFICES ASSUME Init PROVE TypeOK OBVIOUS
<1>1. NoLines \in Lines BY QuantityAssumption DEF NoLines, Lines
<1>3. NotPlaced \in OrderRow
  BY <1>1 DEF NotPlaced, OrderRow, PaymentMode, Nobody, NoDecision
<1>4. NoStock \in StockRow BY DEF NoStock, StockRow
<1>5. Idle \in [pass : SweepPass, todo : SUBSET Orders]
  BY DEF Idle, SweepPass
<1>6. menu \in [Items -> [listed : BOOLEAN, dailyQuota : Quotas]]
  <2>1. menu \in [Items -> [listed : {TRUE}, dailyQuota : Quotas]] BY DEF Init
  <2> QED BY <2>1
<1>7. crashes \in 0 .. MaxCrashes BY BoundAssumption DEF Init
<1> QED BY <1>3, <1>4, <1>5, <1>6, <1>7, NoRequestType DEF Init, TypeOK

(* A seeded row is a row: the seed is a cap some item had.                 *)
LEMMA SeenRowType ==
  ASSUME TypeOK, NEW o \in Orders, NEW i \in Items
  PROVE  SeenRow(o, i) \in StockRow
<1>1. request[o].seed[i] \in Quotas \cup {NoRow} BY DEF TypeOK, RequestRow
<1>2. request[o].seed[i] # NoRow => request[o].seed[i] \in Nat
  BY <1>1, QuantityAssumption
<1>3. stock[i] \in StockRow BY DEF TypeOK
<1> QED BY <1>2, <1>3 DEF SeenRow, StockRow

(* Holding more units keeps a stock row a stock row.                       *)
LEMMA HeldRowType ==
  ASSUME NEW row \in StockRow, NEW quantity \in Nat
  PROVE  HeldRow(row, quantity) \in StockRow
<1>1. row.held + quantity \in Nat BY DEF StockRow
<1> QED BY <1>1 DEF HeldRow, StockRow

(* Every step keeps the tables in their types; the sweeper, the menu and   *)
(* the placements one by one, the moves together.                          *)
LEMMA NextType == TypeOK /\ [Next]_vars => TypeOK'
<1> SUFFICES ASSUME TypeOK, [Next]_vars PROVE TypeOK' OBVIOUS
<1>n. NoRequest \in RequestRow BY NoRequestType
<1>u. UNCHANGED orderVars => TablesTyped' BY DEF orderVars, TypeOK, TablesTyped
<1>t. TablesTyped' /\ UNCHANGED <<menu, capEdits, request, sweep, crashes>> => TypeOK'
  BY DEF TypeOK, TablesTyped
<1>1. CASE UNCHANGED vars BY <1>1, <1>u, <1>t DEF vars, orderVars
<1>2. ASSUME NEW o \in Orders, PlaceCheck(o) PROVE TypeOK'
  <2>1. request' \in [Orders -> RequestRow]
    BY <1>2 DEF PlaceCheck, TypeOK, RequestRow, NoSeed
  <2> QED BY <1>2, <1>u, <2>1 DEF PlaceCheck, TypeOK, TablesTyped
<1>3. ASSUME NEW o \in Orders, PlaceSeed(o) PROVE TypeOK'
  <2>1. \A i \in Items : menu[i].dailyQuota \in Quotas BY DEF TypeOK
  <2>2. request' \in [Orders -> RequestRow]
    <3> DEFINE seed == [i \in Items |->
                 IF i \in Ordered(request[o].lines) /\ menu[i].listed
                    /\ ~stock[i].exists
                 THEN menu[i].dailyQuota ELSE NoRow]
    <3>1. seed \in [Items -> Quotas \cup {NoRow}] BY <2>1
    <3>2. request' = [request EXCEPT ![o] =
            [request[o] EXCEPT !.stage = "open", !.seed = seed]]
      BY <1>3 DEF PlaceSeed, TypeOK, RequestRow
    <3> HIDE DEF seed
    <3>3. [request[o] EXCEPT !.stage = "open", !.seed = seed] \in RequestRow
      <4>1. request[o] \in RequestRow BY DEF TypeOK
      <4> QED BY <3>1, <4>1 DEF RequestRow
    <3> QED BY <3>2, <3>3 DEF TypeOK
  <2> QED BY <1>3, <1>u, <2>2 DEF PlaceSeed, TypeOK, TablesTyped
<1>4. ASSUME NEW o \in Orders, PlaceCommit(o) PROVE TypeOK'
  <2>1. orders' \in [Orders -> OrderRow]
    <3> DEFINE row == [NotPlaced EXCEPT !.status = "PENDING_PAYMENT",
                         !.mode = request[o].mode, !.lines = request[o].lines]
    <3>1. request[o].mode \in PaymentMode /\ request[o].lines \in Lines
      BY DEF TypeOK, RequestRow
    <3>2. row \in OrderRow
      BY <3>1 DEF OrderRow, OrderStatus, NotPlaced, Nobody, NoDecision
    <3>3. orders' = [orders EXCEPT ![o] = row] BY <1>4 DEF PlaceCommit
    <3> QED BY <3>2, <3>3 DEF TypeOK
  <2>2. \A i \in Items : request[o].lines[i] \in Nat
    BY QuantityAssumption DEF TypeOK, RequestRow, Lines
  <2>3. stock' \in [Items -> StockRow]
    BY <1>4, <2>2, SeenRowType, HeldRowType DEF PlaceCommit, TypeOK
  <2>4. statusEvents' \in [Orders -> Nat] /\ published' \in [Orders -> SUBSET Nat]
    BY <1>4 DEF PlaceCommit, TypeOK
  <2> QED BY <1>4, <1>n, <2>1, <2>3, <2>4 DEF PlaceCommit, TypeOK
<1>5. ASSUME NEW o \in Orders, PlaceAbort(o) PROVE TypeOK'
  BY <1>5, <1>n, <1>u DEF PlaceAbort, TypeOK, TablesTyped
<1>6. ASSUME NEW o \in Orders, NEW actor \in OrderActor, Move(o, actor),
             UNCHANGED <<menu, capEdits, request, sweep, crashes>>
      PROVE  TypeOK'
  BY <1>6, <1>t, MoveType
<1>7. ASSUME NEW o \in Orders,
             CustomerCancel(o) \/ Staffed(o) \/ Paying(o)
      PROVE  TypeOK'
  BY <1>6, <1>7, TransitionIsMove
  DEF CustomerCancel, Staffed, Paying, MerchantMove, AdminForce, PaymentMove,
      STAFF, OrderActor
<1>8. ASSUME NEW o \in Orders, DeadlinePasses(o) PROVE TypeOK'
  <2>1. [orders[o] EXCEPT !.late = TRUE] \in OrderRow
    <3>1. orders[o] \in OrderRow BY DEF TypeOK
    <3> QED BY <3>1 DEF OrderRow
  <2>2. orders' = [orders EXCEPT ![o] = [orders[o] EXCEPT !.late = TRUE]]
    BY <1>8 DEF DeadlinePasses, TypeOK
  <2> QED BY <1>8, <2>1, <2>2 DEF DeadlinePasses, TypeOK
<1>9. ASSUME NEW i \in Items, Selling(i) PROVE TypeOK'
  <2>1. CASE DeleteItem(i)
    <3>1. \A o \in Orders : [orders[o] EXCEPT !.lines[i] = 0] \in OrderRow
      <4> SUFFICES ASSUME NEW o \in Orders
                   PROVE  [orders[o] EXCEPT !.lines[i] = 0] \in OrderRow
        OBVIOUS
      <4>1. [orders[o].lines EXCEPT ![i] = 0] \in Lines
        BY QuantityAssumption DEF TypeOK, OrderRow, Lines
      <4>2. [orders[o] EXCEPT !.lines[i] = 0]
              = [orders[o] EXCEPT !.lines = [orders[o].lines EXCEPT ![i] = 0]]
        BY DEF TypeOK, OrderRow
      <4>3. orders[o] \in OrderRow BY DEF TypeOK
      <4> QED BY <4>1, <4>2, <4>3 DEF OrderRow
    <3> QED
      BY <2>1, <3>1 DEF DeleteItem, TypeOK, NoStock, StockRow
  <2>2. ASSUME NEW e \in CapEditors, NEW quota \in Quotas, CapRead(e, i, quota)
        PROVE  TypeOK'
    <3>1. menu[i].dailyQuota \in Quotas BY DEF TypeOK
    <3>2. [by |-> e, item |-> i, read |-> menu[i].dailyQuota,
           quota |-> quota] \in CapEdit
      BY <3>1 DEF CapEdit
    <3>3. capEdits' \in SUBSET CapEdit BY <2>2, <3>2 DEF CapRead, TypeOK
    <3> QED BY <2>2, <3>3, <1>u DEF CapRead, TypeOK, TablesTyped
  <2>3. ASSUME NEW edit \in capEdits, CapCommit(edit) PROVE TypeOK'
    <3>1. edit.item \in Items /\ edit.quota \in Quotas /\ edit.quota \in Nat
      BY QuantityAssumption DEF TypeOK, CapEdit
    <3>2. menu' \in [Items -> [listed : BOOLEAN, dailyQuota : Quotas]]
      BY <2>3, <3>1 DEF CapCommit, TypeOK
    <3>3. stock' \in [Items -> StockRow]
      <4> DEFINE d == edit.item
      <4>1. stock[d] \in StockRow /\ stock \in [Items -> StockRow]
        BY <3>1 DEF TypeOK
      <4>2. PICK cap \in Nat : cap = CapOfRow(edit)
        BY <3>1, <4>1 DEF CapOfRow, StockRow
      <4>3. [stock[d] EXCEPT !.quota = cap] \in StockRow
        BY <4>1, <4>2 DEF StockRow
      <4>4. stock' = [stock EXCEPT ![d] = [stock[d] EXCEPT !.quota = cap]]
        BY <2>3, <4>1, <4>2 DEF CapCommit
      <4> QED BY <3>1, <4>1, <4>3, <4>4
    <3>4. capEdits' \in SUBSET CapEdit BY <2>3 DEF CapCommit, TypeOK
    <3> QED BY <2>3, <3>2, <3>3, <3>4 DEF CapCommit, TypeOK
  <2>4. ASSUME NEW edit \in capEdits, CapAbort(edit) PROVE TypeOK'
    <3>1. capEdits' \in SUBSET CapEdit BY <2>4 DEF CapAbort, TypeOK
    <3> QED BY <2>4, <3>1, <1>u DEF CapAbort, TypeOK, TablesTyped
  <2> QED BY <1>9, <2>1, <2>2, <2>3, <2>4 DEF Selling
<1>10. ASSUME NEW s \in Sweepers, Sweeping(s) \/ SweepCrash(s) PROVE TypeOK'
  <2>1. CASE SweepList(s)
    <3>1. NextPass[sweep[s].pass] \in SweepPass
      BY <2>1 DEF SweepList, NextPass, SweepPass, TypeOK
    <3> QED BY <2>1, <3>1, <1>u DEF SweepList, TypeOK, TablesTyped
  <2>2. CASE SweepDone(s)
    BY <2>2, <1>u DEF SweepDone, TypeOK, TablesTyped, Idle, SweepPass
  <2>3. ASSUME NEW o \in Orders, SweepExpire(s, o) PROVE TypeOK'
    <3>1. TablesTyped'
      BY <2>3, <1>u, MoveType, TransitionIsMove DEF SweepExpire, OrderActor
    <3> QED BY <2>3, <3>1 DEF SweepExpire, TypeOK, TablesTyped
  <2>4. CASE SweepCrash(s)
    <3>1. crashes' \in 0 .. MaxCrashes
      BY <2>4, BoundAssumption DEF SweepCrash, TypeOK
    <3> QED
      BY <2>4, <3>1, <1>u DEF SweepCrash, TypeOK, TablesTyped, Idle, SweepPass
  <2> QED BY <1>10, <2>1, <2>2, <2>3, <2>4 DEF Sweeping
<1> QED
  BY <1>1, <1>2, <1>3, <1>4, <1>5, <1>7, <1>8, <1>9, <1>10 DEF Next, Placing

(* Every table of the module always holds rows of its type.                *)
THEOREM TypeCorrect == Spec => []TypeOK
<1> QED BY InitType, NextType, PTL DEF Spec

-----------------------------------------------------------------------------
(* The inductive invariant.  The refund and ledger properties speak of     *)
(* closed orders only; to be inductive they need to know what is true of   *)
(* an order on its way there.                                              *)

(* Who was paid, what was decided and whether it was cooked, by status.    *)
Life(order) ==
  /\ order.status \in {"NOT_PLACED", "PENDING_PAYMENT"} => order.paidBy = Nobody
  /\ order.status \in InKitchen \cup {"READY_FOR_PICKUP", "COMPLETED", "REJECTED"}
       => order.paidBy # Nobody
  /\ order.status \in Uncooked \cup {"NOT_PLACED", "READY_FOR_PICKUP", "COMPLETED"}
       => order.refundDue = NoDecision
  /\ order.status \in Uncooked \cup {"NOT_PLACED", "REJECTED", "CANCELLED"}
       => ~order.readyAt
  /\ order.status \in {"READY_FOR_PICKUP", "COMPLETED"} => order.readyAt
  /\ order.paidBy = Nobody => order.refundDue = NoDecision
  /\ order.status \in Unserved /\ order.paidBy # Nobody /\ ~order.readyAt
       => order.refundDue # NoDecision
  /\ order.status = "EXPIRED" /\ order.readyAt => order.refundDue = NoDecision

LifeOK == \A o \in Orders : Life(orders[o])

(* Only an order that does not exist yet is being placed.                  *)
RequestOK ==
  \A o \in Orders : request[o].stage # "none" => orders[o].status = "NOT_PLACED"

IInv ==
  /\ TypeOK
  /\ RequestOK
  /\ LifeOK
  /\ LedgerExactlyOnce
  /\ VersionsAreGapless

(* A move follows one rule, whose effects are those of its edge, and       *)
(* writes a decision exactly when the rule issues a refund.                *)
MoveBy(rule, o, actor, decision) ==
  /\ RuleFacts(orders[o].status, rule)
  /\ IF "ISSUE_REFUND" \in rule.effects THEN decision \in Nat
     ELSE decision = orders[o].refundDue
  /\ Apply(rule, o, actor, decision)

(* A move is one rule of the table applied with one decision.              *)
LEMMA MoveShape ==
  ASSUME NEW o \in Orders, NEW actor \in OrderActor, Move(o, actor)
  PROVE  \E rule, decision : MoveBy(rule, o, actor, decision)
<1>1. PICK rule \in TRANSITIONS[orders[o].status] :
        \E decision \in Decisions(rule, o, actor) :
          Apply(rule, o, actor, decision)
  BY DEF Move
<1>2. PICK decision \in Decisions(rule, o, actor) :
        Apply(rule, o, actor, decision)
  BY <1>1
<1>3. RuleFacts(orders[o].status, rule) BY TableFacts DEF Move
<1>4. IF "ISSUE_REFUND" \in rule.effects THEN decision \in Nat
      ELSE decision = orders[o].refundDue
  BY QuoteIsNat DEF Decisions
<1> QED BY <1>2, <1>3, <1>4 DEF MoveBy

(* A move carries one row's life on, and touches no other row.             *)
LEMMA MoveLife ==
  ASSUME TypeOK, LifeOK, NEW o \in Orders, NEW actor \in OrderActor,
         NEW rule, NEW decision, MoveBy(rule, o, actor, decision)
  PROVE  LifeOK'
<1>1. orders[o] \in OrderRow BY DEF TypeOK
<1>2. orders' = [orders EXCEPT ![o] = Moved(rule, o, actor, decision)]
  BY DEF MoveBy, Apply
<1> DEFINE row == Moved(rule, o, actor, decision)
<1>3. /\ row.status = rule.to
      /\ row.paidBy = IF rule.to = "PAID" THEN actor ELSE orders[o].paidBy
      /\ row.refundDue = decision
      /\ row.readyAt <=> orders[o].readyAt \/ rule.to = "READY_FOR_PICKUP"
  BY <1>1 DEF Moved, OrderRow
<1> HIDE DEF row
<1>4. actor # Nobody BY DEF OrderActor, Nobody
<1>5. \A n \in Nat : n # NoDecision BY DEF NoDecision
<1>6. Life(orders[o]) BY DEF LifeOK
<1>7. Life(row)
  BY <1>3, <1>4, <1>5, <1>6
  DEF MoveBy, RuleFacts, Edge, Life, InKitchen, Uncooked, Unserved
<1> QED BY <1>2, <1>7 DEF LifeOK, TypeOK, row

(* Only a placement's commit and a move touch what an order's life is made *)
(* of.                                                                     *)
LEMMA NextLife == TypeOK /\ LifeOK /\ [Next]_vars => LifeOK'
<1> SUFFICES ASSUME TypeOK, LifeOK, [Next]_vars PROVE LifeOK' OBVIOUS
<1>1. ASSUME NEW o \in Orders, NEW actor \in OrderActor, Move(o, actor)
      PROVE  LifeOK'
  BY <1>1, MoveShape, MoveLife
<1>2. ASSUME NEW o \in Orders, PlaceCommit(o) PROVE LifeOK'
  <2> DEFINE row == [NotPlaced EXCEPT !.status = "PENDING_PAYMENT",
                       !.mode = request[o].mode, !.lines = request[o].lines]
  <2>1. Life(row) BY DEF Life, NotPlaced, InKitchen, Uncooked, Unserved
  <2>2. orders' = [orders EXCEPT ![o] = row] BY <1>2 DEF PlaceCommit
  <2> HIDE DEF row
  <2> QED BY <2>1, <2>2 DEF LifeOK, TypeOK
<1>3. ASSUME NEW o \in Orders, DeadlinePasses(o) PROVE LifeOK'
  BY <1>3 DEF DeadlinePasses, LifeOK, Life, TypeOK, OrderRow
<1>4. ASSUME NEW i \in Items, DeleteItem(i) PROVE LifeOK'
  <2> SUFFICES ASSUME NEW o \in Orders PROVE Life(orders[o])'
    BY DEF LifeOK
  <2>1. orders[o] \in OrderRow /\ Life(orders[o]) BY DEF TypeOK, LifeOK
  <2>2. orders'[o] = [orders[o] EXCEPT !.lines[i] = 0]
    BY <1>4 DEF DeleteItem
  <2> QED BY <2>1, <2>2 DEF Life, OrderRow
<1>5. ASSUME NEW edit \in capEdits, CapCommit(edit)
      PROVE  LifeOK'
  BY <1>5 DEF CapCommit, LifeOK
<1>6. CASE UNCHANGED orderVars BY <1>6 DEF orderVars, LifeOK
<1> QED BY <1>1, <1>2, <1>3, <1>4, <1>5, <1>6, StepCases, PlacingCases

(* A placement under way belongs to an order that does not exist yet:      *)
(* moves cannot touch it and commits end it.                               *)
LEMMA NextRequest == TypeOK /\ RequestOK /\ [Next]_vars => RequestOK'
<1> SUFFICES ASSUME TypeOK, RequestOK, [Next]_vars PROVE RequestOK' OBVIOUS
<1>1. ASSUME NEW o \in Orders, NEW actor \in OrderActor, Move(o, actor),
             UNCHANGED request
      PROVE  RequestOK'
  <2>1. \A x \in Orders \ {o} : orders'[x] = orders[x]
    BY <1>1 DEF Move, Apply, TypeOK
  <2>2. orders[o].status # "NOT_PLACED" BY <1>1 DEF Move, OrderStatus
  <2> QED BY <1>1, <2>1, <2>2 DEF RequestOK
<1>2. ASSUME NEW o \in Orders, Placing(o) PROVE RequestOK'
  <2>1. CASE PlaceCommit(o)
    <3>1. \A x \in Orders \ {o} :
            orders'[x] = orders[x] /\ request'[x] = request[x]
      BY <2>1 DEF PlaceCommit, TypeOK
    <3>2. request'[o].stage = "none"
      BY <2>1 DEF PlaceCommit, TypeOK, NoRequest
    <3> QED BY <3>1, <3>2 DEF RequestOK
  <2>2. CASE PlaceCheck(o) \/ PlaceSeed(o) \/ PlaceAbort(o)
    <3>1. \A x \in Orders \ {o} : request'[x] = request[x]
      BY <2>2 DEF PlaceCheck, PlaceSeed, PlaceAbort, TypeOK
    <3>2. UNCHANGED orders
      BY <2>2 DEF PlaceCheck, PlaceSeed, PlaceAbort, orderVars
    <3>3. orders[o].status = "NOT_PLACED" \/ request'[o].stage = "none"
      BY <2>2 DEF PlaceCheck, PlaceSeed, PlaceAbort, TypeOK, NoRequest,
                  RequestOK
    <3> QED BY <3>1, <3>2, <3>3 DEF RequestOK
  <2> QED BY <1>2, <2>1, <2>2 DEF Placing
<1>3. ASSUME NEW o \in Orders, DeadlinePasses(o) PROVE RequestOK'
  BY <1>3 DEF DeadlinePasses, RequestOK, TypeOK, OrderRow
<1>4. ASSUME NEW i \in Items, DeleteItem(i) PROVE RequestOK'
  <2>1. ASSUME NEW o \in Orders PROVE orders'[o].status = orders[o].status
    <3>1. orders[o] \in OrderRow BY DEF TypeOK
    <3>2. orders'[o] = [orders[o] EXCEPT !.lines[i] = 0]
      BY <1>4 DEF DeleteItem
    <3> QED BY <3>1, <3>2 DEF OrderRow
  <2> QED BY <1>4, <2>1 DEF DeleteItem, RequestOK
<1>5. CASE UNCHANGED <<orders, request>> BY <1>5 DEF RequestOK
<1>6. ASSUME NEW edit \in capEdits, CapCommit(edit)
      PROVE  RequestOK'
  BY <1>5, <1>6 DEF CapCommit
<1> QED BY <1>1, <1>2, <1>3, <1>4, <1>5, <1>6, StepCases DEF orderVars

(* The lifecycle table records the payout on exactly the edges into a      *)
(* fulfilled status, and no rule leaves a fulfilled order.                 *)
LEMMA MoveLedger ==
  ASSUME TypeOK, LifeOK, LedgerExactlyOnce, NEW o \in Orders,
         NEW actor \in OrderActor, NEW rule, NEW decision,
         MoveBy(rule, o, actor, decision)
  PROVE  LedgerExactlyOnce'
<1> DEFINE done == {x \in Orders : Fulfilled(x)}
           now == {x \in Orders : Fulfilled(x)'}
           cooked == orders[o].status = "READY_FOR_PICKUP" /\ rule.to \in Served
<1>1. ledger.lines = done /\ ledger.orderCount = Cardinality(done)
  BY DEF LedgerExactlyOnce
<1>2. /\ orders'[o].status = rule.to
      /\ orders'[o].readyAt <=>
           orders[o].readyAt \/ rule.to = "READY_FOR_PICKUP"
      /\ \A x \in Orders \ {o} : orders'[x] = orders[x]
  <2>1. orders[o] \in OrderRow BY DEF TypeOK
  <2>2. orders' = [orders EXCEPT ![o] = Moved(rule, o, actor, decision)]
    BY DEF MoveBy, Apply
  <2> QED BY <2>1, <2>2 DEF Moved, TypeOK, OrderRow
<1>3. Life(orders[o]) /\ RuleFacts(orders[o].status, rule)
  BY DEF LifeOK, MoveBy
<1>4. ledger' = IF cooked THEN recordPayoutLedger(o) ELSE ledger
  BY <1>3 DEF MoveBy, Apply, RuleFacts
<1>5. CASE cooked
  <2>1. o \notin done /\ now = done \cup {o}
    BY <1>2, <1>3, <1>5 DEF Fulfilled, Life, Served
  <2>2. IsFiniteSet(done) BY FS_Subset, OrdersAssumption
  <2>3. Cardinality(now) = Cardinality(done) + 1
    BY <2>1, <2>2, FS_AddElement
  <2>4. ledger' = [orderCount |-> ledger.orderCount + 1,
                   lines |-> ledger.lines \cup {o}]
    BY <1>4, <1>5 DEF recordPayoutLedger
  <2> HIDE DEF done, now
  <2>5. ledger'.lines = now /\ ledger'.orderCount = Cardinality(now)
    BY <1>1, <2>1, <2>3, <2>4
  <2> QED BY <2>5 DEF LedgerExactlyOnce, now
<1>6. CASE ~cooked
  <2>1. Fulfilled(o)' <=> Fulfilled(o)
    BY <1>2, <1>3, <1>6
    DEF Fulfilled, Life, RuleFacts, Edge, Served, InKitchen, Uncooked
  <2>2. now = done BY <1>2, <2>1 DEF Fulfilled
  <2> QED BY <1>1, <1>4, <1>6, <2>2 DEF LedgerExactlyOnce
<1> QED BY <1>5, <1>6

(* Steps that keep every status, and the ledger, keep the agreement.       *)
LEMMA LedgerFrame ==
  ASSUME LedgerExactlyOnce, UNCHANGED ledger,
         \A o \in Orders : Fulfilled(o)' <=> Fulfilled(o)
  PROVE  LedgerExactlyOnce'
<1>1. {o \in Orders : Fulfilled(o)'} = {o \in Orders : Fulfilled(o)} OBVIOUS
<1> QED BY <1>1 DEF LedgerExactlyOnce

(* Everything but a move leaves both the ledger and the set of fulfilled   *)
(* orders alone.                                                           *)
LEMMA NextLedger ==
  TypeOK /\ RequestOK /\ LifeOK /\ LedgerExactlyOnce /\ [Next]_vars
    => LedgerExactlyOnce'
<1> SUFFICES ASSUME TypeOK, RequestOK, LifeOK, LedgerExactlyOnce, [Next]_vars
             PROVE  LedgerExactlyOnce'
  OBVIOUS
<1>1. ASSUME NEW o \in Orders, NEW actor \in OrderActor, Move(o, actor)
      PROVE  LedgerExactlyOnce'
  BY <1>1, MoveShape, MoveLedger
<1>2. ASSUME NEW o \in Orders, PlaceCommit(o) PROVE LedgerExactlyOnce'
  <2>1. orders[o].status = "NOT_PLACED" BY <1>2 DEF PlaceCommit, RequestOK
  <2>2. orders'[o].status = "PENDING_PAYMENT"
    BY <1>2 DEF PlaceCommit, TypeOK, NotPlaced
  <2>3. \A x \in Orders \ {o} : orders'[x] = orders[x]
    BY <1>2 DEF PlaceCommit, TypeOK
  <2>4. \A x \in Orders : Fulfilled(x)' <=> Fulfilled(x)
    BY <2>1, <2>2, <2>3 DEF Fulfilled
  <2> QED BY <1>2, <2>4, LedgerFrame DEF PlaceCommit
<1>3. ASSUME NEW o \in Orders, DeadlinePasses(o) PROVE LedgerExactlyOnce'
  <2>1. \A x \in Orders : Fulfilled(x)' <=> Fulfilled(x)
    BY <1>3 DEF DeadlinePasses, Fulfilled, TypeOK, OrderRow
  <2> QED BY <1>3, <2>1, LedgerFrame DEF DeadlinePasses
<1>4. ASSUME NEW i \in Items, DeleteItem(i) PROVE LedgerExactlyOnce'
  <2>1. ASSUME NEW o \in Orders PROVE Fulfilled(o)' <=> Fulfilled(o)
    <3>1. orders[o] \in OrderRow BY DEF TypeOK
    <3>2. orders'[o] = [orders[o] EXCEPT !.lines[i] = 0]
      BY <1>4 DEF DeleteItem
    <3> QED BY <3>1, <3>2 DEF Fulfilled, OrderRow
  <2> QED BY <1>4, <2>1, LedgerFrame DEF DeleteItem
<1>5. ASSUME NEW edit \in capEdits, CapCommit(edit)
      PROVE  LedgerExactlyOnce'
  BY <1>5, LedgerFrame DEF CapCommit, Fulfilled
<1>6. CASE UNCHANGED orderVars
  BY <1>6, LedgerFrame DEF orderVars, Fulfilled
<1> QED BY <1>1, <1>2, <1>3, <1>4, <1>5, <1>6, StepCases, PlacingCases

(* A move appends one status event and publishes its number.               *)
LEMMA MoveVersions ==
  ASSUME TypeOK, VersionsAreGapless, NEW o \in Orders, NEW actor, Move(o, actor)
  PROVE  VersionsAreGapless'
<1>1. /\ statusEvents' = [statusEvents EXCEPT ![o] = @ + 1]
      /\ published' = [published EXCEPT ![o] = @ \cup {statusEvents[o] + 1}]
  BY DEF Move, Apply, NextVersion
<1>2. PICK n \in Nat : n = statusEvents[o] BY DEF TypeOK
<1>3. (1 .. n) \cup {n + 1} = 1 .. (n + 1) OBVIOUS
<1>4. published'[o] = 1 .. statusEvents'[o]
  BY <1>1, <1>2, <1>3 DEF VersionsAreGapless, TypeOK
<1>5. \A x \in Orders \ {o} :
        published'[x] = published[x] /\ statusEvents'[x] = statusEvents[x]
  BY <1>1 DEF TypeOK
<1> QED BY <1>4, <1>5 DEF VersionsAreGapless

(* A placement publishes version 1 with its first event, moves the next    *)
(* one each, the rest nothing.                                             *)
LEMMA NextVersions ==
  TypeOK /\ VersionsAreGapless /\ [Next]_vars => VersionsAreGapless'
<1> SUFFICES ASSUME TypeOK, VersionsAreGapless, [Next]_vars
             PROVE  VersionsAreGapless'
  OBVIOUS
<1>1. ASSUME NEW o \in Orders, PlaceCommit(o) PROVE VersionsAreGapless'
  <2>1. {1} = 1 .. 1 OBVIOUS
  <2> QED BY <1>1, <2>1 DEF PlaceCommit, VersionsAreGapless, TypeOK
<1>2. CASE UNCHANGED <<statusEvents, published>>
  BY <1>2 DEF VersionsAreGapless
<1> QED
  BY <1>1, <1>2, MoveVersions, StepCases, PlacingCases
  DEF DeadlinePasses, DeleteItem, CapCommit, orderVars

(* An empty database satisfies the invariant.                              *)
LEMMA InitIInv == Init => IInv
<1> SUFFICES ASSUME Init PROVE IInv OBVIOUS
<1>1. LifeOK
  BY DEF Init, LifeOK, Life, NotPlaced, InKitchen, Uncooked, Unserved
<1>2. LedgerExactlyOnce
  <2>1. {o \in Orders : Fulfilled(o)} = {}
    BY DEF Init, Fulfilled, NotPlaced
  <2> QED BY <2>1, FS_EmptySet DEF Init, LedgerExactlyOnce
<1>3. VersionsAreGapless
  <2>1. {} = 1 .. 0 OBVIOUS
  <2> QED BY <2>1 DEF Init, VersionsAreGapless
<1>4. RequestOK BY DEF Init, RequestOK, NotPlaced, NoRequest
<1> QED BY <1>1, <1>2, <1>3, <1>4, InitType DEF IInv

(* The invariant is inductive.                                             *)
LEMMA NextIInv == IInv /\ [Next]_vars => IInv'
BY NextType, NextRequest, NextLife, NextLedger, NextVersions DEF IInv

(* The inductive invariant of the ordering module: types, placements only  *)
(* for orders that do not exist, what an order's status says about its     *)
(* past, the ledger and the versions. The theorems below are read off it.  *)
THEOREM Inductive == Spec => []IInv
<1> QED BY InitIInv, NextIInv, PTL DEF Spec

(* Every order that was paid and closed unserved has its refund decided,   *)
(* and no unpaid one has, under any policy and any race.                   *)
THEOREM RefundsAreDecided == Spec => []PaidClosureHasDecision
<1>1. IInv => PaidClosureHasDecision
  BY DEF IInv, LifeOK, Life, PaidClosureHasDecision, Unserved
<1> QED BY <1>1, Inductive, PTL

(* The payout batch counts each fulfilled order once, for any number of    *)
(* orders, sweepers and crashes.                                           *)
THEOREM LedgerIsExact == Spec => []LedgerExactlyOnce
<1>1. IInv => LedgerExactlyOnce BY DEF IInv
<1> QED BY <1>1, Inductive, PTL

(* The versions consumers order an order's events by have no gap.          *)
THEOREM VersionsHaveNoGap == Spec => []VersionsAreGapless
<1>1. IInv => VersionsAreGapless BY DEF IInv
<1> QED BY <1>1, Inductive, PTL

(* A decision is written at most once: the edges that issue a refund leave *)
(* statuses in which there is none yet.                                    *)
LEMMA StepKeepsDecision ==
  ASSUME IInv, [Next]_vars, NEW x \in Orders,
         orders[x].refundDue # NoDecision
  PROVE  orders'[x].refundDue = orders[x].refundDue
<1>1. TypeOK /\ RequestOK /\ Life(orders[x]) BY DEF IInv, LifeOK
<1>2. orders[x] \in OrderRow BY <1>1 DEF TypeOK
<1>3. ASSUME NEW o \in Orders, NEW actor \in OrderActor, Move(o, actor)
      PROVE  orders'[x].refundDue = orders[x].refundDue
  <2>1. PICK rule, decision : MoveBy(rule, o, actor, decision)
    BY <1>3, MoveShape
  <2>2. orders' = [orders EXCEPT ![o] = Moved(rule, o, actor, decision)]
    BY <2>1 DEF MoveBy, Apply
  <2>3. CASE o = x
    <3>1. "ISSUE_REFUND" \notin rule.effects
      BY <1>1, <2>1, <2>3 DEF MoveBy, RuleFacts, Life, InKitchen, Uncooked
    <3>2. decision = orders[x].refundDue BY <2>1, <2>3, <3>1 DEF MoveBy
    <3>3. orders'[x] = Moved(rule, x, actor, decision)
      BY <1>1, <2>2, <2>3 DEF TypeOK
    <3> QED BY <1>2, <3>2, <3>3 DEF Moved, OrderRow
  <2>4. CASE o # x BY <1>1, <2>2, <2>4 DEF TypeOK
  <2> QED BY <2>3, <2>4
<1>4. ASSUME NEW o \in Orders, PlaceCommit(o)
      PROVE  orders'[x].refundDue = orders[x].refundDue
  <2>1. orders[o].status = "NOT_PLACED"
    BY <1>1, <1>4 DEF PlaceCommit, RequestOK
  <2>2. o # x BY <1>1, <2>1 DEF Life
  <2> QED BY <1>1, <1>4, <2>2 DEF PlaceCommit, TypeOK
<1>5. ASSUME NEW o \in Orders, DeadlinePasses(o)
      PROVE  orders'[x].refundDue = orders[x].refundDue
  BY <1>1, <1>2, <1>5 DEF DeadlinePasses, TypeOK, OrderRow
<1>6. ASSUME NEW i \in Items, DeleteItem(i)
      PROVE  orders'[x].refundDue = orders[x].refundDue
  <2>1. orders'[x] = [orders[x] EXCEPT !.lines[i] = 0]
    BY <1>6 DEF DeleteItem
  <2> QED BY <1>2, <2>1 DEF OrderRow
<1> QED
  BY <1>3, <1>4, <1>5, <1>6, StepCases, PlacingCases
  DEF CapCommit, orderVars

(* The reactor reads the decision at any time after the closing: it will   *)
(* always read the same one.                                               *)
THEOREM DecisionsAreFinal == Spec => DecisionIsFinal
<1>1. IInv /\ [Next]_vars =>
        [\A o \in Orders :
           orders[o].refundDue # NoDecision =>
             orders'[o].refundDue = orders[o].refundDue]_vars
  BY StepKeepsDecision
<1> QED BY <1>1, Inductive, PTL DEF Spec, DecisionIsFinal

-----------------------------------------------------------------------------
(* The size of a refund decision.                                          *)

(* A share of an amount is at most the amount, rounding included.          *)
LEMMA ShareIsAPart ==
  ASSUME NEW minor \in Nat, NEW bps \in Nat, bps <= 10000
  PROVE  applyBasisPoints(minor, bps) <= minor
<1>1. PICK rest \in Nat : rest = 10000 - bps OBVIOUS
<1>2. minor * rest \in Nat /\ minor * bps \in Nat OBVIOUS
<1>3. minor * bps + minor * rest = minor * 10000
  <2>1. bps + rest = 10000 BY <1>1
  <2>2. minor * (bps + rest) = minor * bps + minor * rest BY <1>1
  <2> QED BY <2>1, <2>2
<1>4. PICK product \in Nat : product = minor * bps BY <1>2
<1>5. product <= minor * 10000 BY <1>2, <1>3, <1>4
<1>6. (product + 5000) \div 10000 <= minor BY <1>5
<1> QED BY <1>4, <1>6 DEF applyBasisPoints

LEMMA QuoteIsAPart ==
  ASSUME NEW from, NEW to, NEW actor \in OrderActor, NEW graceOver \in BOOLEAN
  PROVE  quote(RefundBps, Total, from, to, actor, graceOver) <= Total
<1>1. PICK tier \in CancellationTier :
        tier = classify(from, to, actor, graceOver)
  BY ClassifyIsTier
<1>2. PICK bps \in 0 .. 10000 : bps = RefundBps[tier] BY PolicyAssumption
<1>3. Total \in Nat BY TotalAssumption
<1>4. bps \in Nat /\ bps <= 10000 OBVIOUS
<1>5. applyBasisPoints(Total, bps) <= Total BY <1>3, <1>4, ShareIsAPart
<1>6. quote(RefundBps, Total, from, to, actor, graceOver)
        = applyBasisPoints(Total, bps)
  BY <1>1, <1>2 DEF quote
<1> QED BY <1>5, <1>6

(* No order is to get back more than it cost.                              *)
RefundWithinTotal == \A o \in Orders : orders[o].refundDue <= Total

(* A move decides on a part of the total or on nothing new.                *)
LEMMA MoveRefundsAPart ==
  ASSUME TypeOK, NEW o \in Orders, NEW actor \in OrderActor, Move(o, actor),
         NEW x \in Orders
  PROVE  orders'[x].refundDue <= Total \/ orders'[x].refundDue = orders[x].refundDue
<1>1. PICK rule \in TRANSITIONS[orders[o].status] :
        \E decision \in Decisions(rule, o, actor) :
          Apply(rule, o, actor, decision)
  BY DEF Move
<1>2. PICK decision \in Decisions(rule, o, actor) :
        Apply(rule, o, actor, decision)
  BY <1>1
<1>3. decision <= Total \/ decision = orders[o].refundDue
  BY QuoteIsAPart DEF Decisions
<1>4. orders' = [orders EXCEPT ![o] = Moved(rule, o, actor, decision)]
  BY <1>2 DEF Apply
<1>5. CASE x = o
  <2>1. orders'[x] = Moved(rule, o, actor, decision)
    BY <1>4, <1>5 DEF TypeOK
  <2>2. orders[o] \in OrderRow BY DEF TypeOK
  <2>3. Moved(rule, o, actor, decision).refundDue = decision
    BY <2>2 DEF Moved, OrderRow
  <2> QED BY <1>3, <1>5, <2>1, <2>3
<1>6. CASE x # o BY <1>4, <1>6 DEF TypeOK
<1> QED BY <1>5, <1>6

(* For every policy, rounding and total, and whoever closes the order: the *)
(* refund decided is at most what the customer paid.                       *)
THEOREM RefundsStayWithinTheTotal == Spec => []RefundWithinTotal
<1>1. Init => RefundWithinTotal
  BY TotalAssumption DEF Init, RefundWithinTotal, NotPlaced, NoDecision
<1>2. ASSUME TypeOK, RefundWithinTotal, [Next]_vars PROVE RefundWithinTotal'
  <2> SUFFICES ASSUME NEW x \in Orders PROVE orders'[x].refundDue <= Total
    BY DEF RefundWithinTotal
  <2>1. orders[x].refundDue <= Total /\ orders[x] \in OrderRow
    BY <1>2 DEF RefundWithinTotal, TypeOK
  <2>2. ASSUME NEW o \in Orders, NEW actor \in OrderActor, Move(o, actor)
        PROVE  orders'[x].refundDue <= Total
    BY <1>2, <2>1, <2>2, MoveRefundsAPart
  <2>3. ASSUME NEW o \in Orders, PlaceCommit(o)
        PROVE  orders'[x].refundDue <= Total
    <3>1. CASE x = o
      <4>1. orders'[x].refundDue = NoDecision
        BY <1>2, <2>3, <3>1 DEF PlaceCommit, NotPlaced, TypeOK
      <4> QED BY <4>1, TotalAssumption DEF NoDecision
    <3>2. CASE x # o BY <1>2, <2>1, <2>3, <3>2 DEF PlaceCommit, TypeOK
    <3> QED BY <3>1, <3>2
  <2>4. ASSUME NEW o \in Orders, DeadlinePasses(o)
        PROVE  orders'[x].refundDue <= Total
    <3>1. orders'[x].refundDue = orders[x].refundDue
      BY <1>2, <2>1, <2>4 DEF DeadlinePasses, TypeOK, OrderRow
    <3> QED BY <2>1, <3>1
  <2>5. ASSUME NEW i \in Items, DeleteItem(i)
        PROVE  orders'[x].refundDue <= Total
    <3>1. orders'[x] = [orders[x] EXCEPT !.lines[i] = 0]
      BY <2>5 DEF DeleteItem
    <3>2. orders'[x].refundDue = orders[x].refundDue BY <2>1, <3>1 DEF OrderRow
    <3> QED BY <2>1, <3>2
  <2> QED
    BY <1>2, <2>1, <2>2, <2>3, <2>4, <2>5, StepCases, PlacingCases
    DEF CapCommit, orderVars
<1> QED BY <1>1, <1>2, TypeCorrect, PTL DEF Spec

=============================================================================
