----------------------------- MODULE StockProofs -----------------------------
(***************************************************************************)
(* The counters of the day's stock: for every set of orders and items,     *)
(* `held' and `sold' count exactly the units of the orders that reserve    *)
(* or consumed them, no placement oversells, Ordering implements           *)
(* Fulfilment, and the cap of a row leaves that of the menu in two races   *)
(* only.                                                                   *)
(***************************************************************************)
EXTENDS OrderingProofs

-----------------------------------------------------------------------------
(* Counting units.                                                         *)

(* UnitsOf with the orders table as a parameter, to compare two states.    *)
UnitsIn(table, S, i) ==
  {unit \in S \X (1 .. MaxQty) : unit[2] <= table[unit[1]].lines[i]}

Holding == {o \in Orders : Holds(o)}
Consumed == {o \in Orders : Fulfilled(o)}

(* Finitely many orders reserve finitely many units of an item.            *)
LEMMA UnitsAreFinite ==
  ASSUME NEW table, NEW S \in SUBSET Orders, NEW i
  PROVE  /\ IsFiniteSet(UnitsIn(table, S, i))
         /\ Cardinality(UnitsIn(table, S, i)) \in Nat
<1>1. IsFiniteSet(S) BY FS_Subset, OrdersAssumption
<1>2. IsFiniteSet(1 .. MaxQty)
  <2>1. 1 \in Int /\ MaxQty \in Int BY QuantityAssumption
  <2> QED BY <2>1, FS_Interval
<1>3. IsFiniteSet(S \X (1 .. MaxQty)) BY <1>1, <1>2, FS_Product
<1>4. UnitsIn(table, S, i) \in SUBSET (S \X (1 .. MaxQty)) BY DEF UnitsIn
<1> QED BY <1>3, <1>4, FS_Subset, FS_CardinalityType

(* An order contributes as many units as its line says.                    *)
LEMMA UnitsOfOne ==
  ASSUME NEW table, NEW o \in Orders, NEW i,
         table[o].lines[i] \in 0 .. MaxQty
  PROVE  Cardinality(UnitsIn(table, {o}, i)) = table[o].lines[i]
<1>1. PICK quantity \in 0 .. MaxQty : quantity = table[o].lines[i] OBVIOUS
<1>2. UnitsIn(table, {o}, i) = {o} \X (1 .. quantity)
  BY <1>1, QuantityAssumption DEF UnitsIn
<1>3. quantity \in Int /\ 1 \in Int /\ quantity >= 0 BY QuantityAssumption
<1>4. /\ IsFiniteSet(1 .. quantity)
      /\ Cardinality(1 .. quantity) = quantity
  BY <1>3, FS_Interval
<1>5. IsFiniteSet({o}) /\ Cardinality({o}) = 1 BY FS_Singleton
<1>6. Cardinality({o} \X (1 .. quantity)) = 1 * quantity
  BY <1>4, <1>5, FS_Product
<1>7. 1 * quantity = quantity OBVIOUS
<1> QED BY <1>1, <1>2, <1>6, <1>7

(* Adding an order to a set adds its units.                                *)
LEMMA UnitsAdd ==
  ASSUME NEW table, NEW S \in SUBSET Orders, NEW o \in Orders \ S, NEW i,
         table[o].lines[i] \in 0 .. MaxQty
  PROVE  Cardinality(UnitsIn(table, S \cup {o}, i))
           = Cardinality(UnitsIn(table, S, i)) + table[o].lines[i]
<1> DEFINE rest == UnitsIn(table, S, i)
           own == UnitsIn(table, {o}, i)
<1>1. /\ IsFiniteSet(rest) /\ Cardinality(rest) \in Nat
      /\ IsFiniteSet(own) /\ Cardinality(own) \in Nat
  BY UnitsAreFinite
<1>2. UnitsIn(table, S \cup {o}, i) = rest \cup own BY DEF UnitsIn
<1>3. rest \cap own = {} BY DEF UnitsIn
<1>4. Cardinality(own) = table[o].lines[i] BY UnitsOfOne
<1> HIDE DEF rest, own
<1>5. Cardinality(rest \cap own) = 0 BY <1>3, FS_EmptySet
<1>6. Cardinality(rest \cup own)
        = Cardinality(rest) + Cardinality(own) - Cardinality(rest \cap own)
  BY <1>1, FS_Union
<1>7. Cardinality(rest \cup own) = Cardinality(rest) + Cardinality(own)
  BY <1>1, <1>5, <1>6
<1> QED BY <1>2, <1>4, <1>7 DEF rest

(* The units depend only on the order lines.                               *)
LEMMA UnitsFrame ==
  ASSUME NEW table, NEW next, NEW S, NEW i,
         \A o \in S : next[o].lines[i] = table[o].lines[i]
  PROVE  UnitsIn(next, S, i) = UnitsIn(table, S, i)
BY DEF UnitsIn

(* Orders without a line for an item reserve none of it.                   *)
LEMMA NoUnits ==
  ASSUME NEW table, NEW S, NEW i, \A o \in S : table[o].lines[i] = 0
  PROVE  Cardinality(UnitsIn(table, S, i)) = 0
<1>1. \A n \in 1 .. MaxQty : ~(n <= 0) BY QuantityAssumption
<1>2. UnitsIn(table, S, i) = {} BY <1>1 DEF UnitsIn
<1> QED BY <1>2, FS_EmptySet

-----------------------------------------------------------------------------
(* The inductive invariant of the counters.                                *)

(* A row that does not exist counts nothing.                               *)
NoRowCountsNothing ==
  \A i \in Items : ~stock[i].exists => stock[i].held = 0 /\ stock[i].sold = 0

StockInv ==
  /\ IInv
  /\ NoRowCountsNothing
  /\ HeldMatchesLiveOrders
  /\ SoldMatchesFulfilledOrders

(* What the counters are, in the terms of this module.                     *)
Counts(i) ==
  /\ stock[i].held = Cardinality(UnitsIn(orders, Holding, i))
  /\ stock[i].sold = Cardinality(UnitsIn(orders, Consumed, i))

(* The two stock invariants, item by item.                                 *)
LEMMA CountsDef ==
  /\ HeldMatchesLiveOrders /\ SoldMatchesFulfilledOrders
       <=> \A i \in Items : Counts(i)
BY DEF HeldMatchesLiveOrders, SoldMatchesFulfilledOrders, Counts, UnitsOf,
       UnitsIn, Holding, Consumed

(* The same after a step.                                                  *)
LEMMA CountsDefNext ==
  /\ HeldMatchesLiveOrders' /\ SoldMatchesFulfilledOrders'
       <=> \A i \in Items : Counts(i)'
BY DEF HeldMatchesLiveOrders, SoldMatchesFulfilledOrders, Counts, UnitsOf,
       UnitsIn, Holding, Consumed

(* The three kinds of move: units go back, units are sold, or the order    *)
(* keeps whatever claim it had.                                            *)
GivesBack(o) ==
  /\ Holds(o) /\ ~Holds(o)' /\ ~Fulfilled(o) /\ ~Fulfilled(o)'
  /\ stock' = [i \in Items |-> releaseDailyQuota(stock[i], orders[o].lines[i])]

Consumes(o) ==
  /\ Holds(o) /\ ~Holds(o)' /\ ~Fulfilled(o) /\ Fulfilled(o)'
  /\ stock' = [i \in Items |-> convertHoldToSold(stock[i], orders[o].lines[i])]

Keeps(o) ==
  /\ Holds(o)' <=> Holds(o)
  /\ Fulfilled(o)' <=> Fulfilled(o)
  /\ UNCHANGED stock

(* A move gives the order's units back, sells them or leaves them held,    *)
(* and which of these the stock update does is what the change of status   *)
(* says.                                                                   *)
LEMMA MoveOnStock ==
  ASSUME IInv, NEW o \in Orders, NEW actor \in OrderActor, Move(o, actor)
  PROVE  /\ \A x \in Orders : orders'[x].lines = orders[x].lines
         /\ \A x \in Orders \ {o} : orders'[x] = orders[x]
         /\ orders[o].status # "NOT_PLACED" /\ orders'[o].status # "NOT_PLACED"
         /\ GivesBack(o) \/ Consumes(o) \/ Keeps(o)
<1>1. TypeOK /\ Life(orders[o]) /\ orders[o] \in OrderRow
  BY DEF IInv, LifeOK, TypeOK
<1>2. PICK rule, decision : MoveBy(rule, o, actor, decision) BY MoveShape
<1>3. orders' = [orders EXCEPT ![o] = Moved(rule, o, actor, decision)]
  BY <1>2 DEF MoveBy, Apply
<1>4. /\ orders'[o].status = rule.to
      /\ orders'[o].readyAt <=>
           orders[o].readyAt \/ rule.to = "READY_FOR_PICKUP"
      /\ orders'[o].lines = orders[o].lines
      /\ \A x \in Orders \ {o} : orders'[x] = orders[x]
  BY <1>1, <1>3 DEF Moved, TypeOK, OrderRow
<1>5. RuleFacts(orders[o].status, rule) BY <1>2 DEF MoveBy
<1>6. stock' = [i \in Items |-> Settled(rule, o, i)] BY <1>2 DEF MoveBy, Apply
<1> USE DEF RuleFacts, Edge, Life, InKitchen, Uncooked, Unserved, Served,
            Holds, Fulfilled
<1>7. CASE "RELEASE_DAILY_QUOTA" \in rule.effects
  <2>0. "CONVERT_HOLD_TO_SOLD" \notin rule.effects BY <1>5, <1>7
  <2>1. stock' = [i \in Items |-> releaseDailyQuota(stock[i], orders[o].lines[i])]
    <3>1. ASSUME NEW i \in Items
          PROVE  Settled(rule, o, i) = releaseDailyQuota(stock[i], orders[o].lines[i])
      BY <1>7, <2>0 DEF Settled
    <3> QED BY <1>6, <3>1
  <2> QED BY <1>1, <1>4, <1>5, <1>7, <2>1 DEF GivesBack
<1>8. CASE "CONVERT_HOLD_TO_SOLD" \in rule.effects
  <2>1. "RELEASE_DAILY_QUOTA" \notin rule.effects BY <1>5, <1>8
  <2>2. stock' = [i \in Items |-> convertHoldToSold(stock[i], orders[o].lines[i])]
    <3>1. ASSUME NEW i \in Items
          PROVE  Settled(rule, o, i) = convertHoldToSold(stock[i], orders[o].lines[i])
      BY <1>8, <2>1 DEF Settled
    <3> QED BY <1>6, <3>1
  <2> QED BY <1>1, <1>4, <1>5, <1>8, <2>2 DEF Consumes
<1>9. CASE /\ "RELEASE_DAILY_QUOTA" \notin rule.effects
           /\ "CONVERT_HOLD_TO_SOLD" \notin rule.effects
  <2>1. stock' = [i \in Items |-> stock[i]] BY <1>6, <1>9 DEF Settled
  <2>2. UNCHANGED stock BY <1>1, <2>1 DEF TypeOK
  <2> QED BY <1>1, <1>4, <1>5, <1>9, <2>2 DEF Keeps
<1> QED BY <1>7, <1>8, <1>9

(* No move finds fewer units held than the order's line says: the SQL      *)
(* GREATEST(..., 0) never cuts anything off.                               *)
LEMMA HeldCoversLine ==
  ASSUME TypeOK, HeldMatchesLiveOrders, SoldMatchesFulfilledOrders,
         NEW o \in Orders, NEW i \in Items, Holds(o)
  PROVE  /\ orders[o].lines[i] \in 0 .. MaxQty
         /\ stock[i].held - orders[o].lines[i]
              = Cardinality(UnitsIn(orders, Holding \ {o}, i))
         /\ stock[i].held - orders[o].lines[i] \in Nat
         /\ Clamped(stock[i].held - orders[o].lines[i])
              = stock[i].held - orders[o].lines[i]
<1>1. orders[o].lines[i] \in 0 .. MaxQty
  <2>1. orders[o] \in OrderRow BY DEF TypeOK
  <2> QED BY <2>1 DEF OrderRow, Lines
<1>2. Holding = (Holding \ {o}) \cup {o} BY DEF Holding
<1>3. stock[i].held = Cardinality(UnitsIn(orders, Holding, i))
  BY CountsDef DEF Counts
<1>4. PICK rest \in Nat :
        rest = Cardinality(UnitsIn(orders, Holding \ {o}, i))
  <2>1. Holding \ {o} \in SUBSET Orders BY DEF Holding
  <2> QED BY <2>1, UnitsAreFinite
<1>5. Cardinality(UnitsIn(orders, (Holding \ {o}) \cup {o}, i))
        = Cardinality(UnitsIn(orders, Holding \ {o}, i)) + orders[o].lines[i]
  <2>1. Holding \ {o} \in SUBSET Orders /\ o \in Orders \ (Holding \ {o})
    BY DEF Holding
  <2> QED BY <1>1, <2>1, UnitsAdd
<1>6. PICK quantity \in 0 .. MaxQty : quantity = orders[o].lines[i] BY <1>1
<1>7. stock[i].held = rest + quantity BY <1>2, <1>3, <1>4, <1>5, <1>6
<1>8. quantity \in Nat BY QuantityAssumption
<1>9. stock[i].held - quantity = rest BY <1>7, <1>8
<1> QED BY <1>1, <1>4, <1>6, <1>9 DEF Clamped

(* A move keeps held and sold equal to the units they count.               *)
LEMMA MoveCounts ==
  ASSUME StockInv, NEW o \in Orders, NEW actor \in OrderActor, Move(o, actor),
         NEW i \in Items
  PROVE  Counts(i)'
<1>1. IInv /\ TypeOK /\ Counts(i) BY CountsDef DEF StockInv, IInv
<1>2. /\ \A x \in Orders : orders'[x].lines = orders[x].lines
      /\ \A x \in Orders \ {o} : orders'[x] = orders[x]
      /\ GivesBack(o) \/ Consumes(o) \/ Keeps(o)
  BY <1>1, MoveOnStock
<1>3. /\ UnitsIn(orders', Holding', i) = UnitsIn(orders, Holding', i)
      /\ UnitsIn(orders', Consumed', i) = UnitsIn(orders, Consumed', i)
  <2>1. Holding' \subseteq Orders /\ Consumed' \subseteq Orders
    BY DEF Holding, Consumed
  <2> QED BY <1>2, <2>1, UnitsFrame
<1>4. \A x \in Orders \ {o} :
        (Holds(x)' <=> Holds(x)) /\ (Fulfilled(x)' <=> Fulfilled(x))
  BY <1>2 DEF Holds, Fulfilled
<1>5. stock[i] \in StockRow BY <1>1 DEF TypeOK
<1>6. CASE GivesBack(o)
  <2>1. Holding' = Holding \ {o} /\ Consumed' = Consumed
    BY <1>4, <1>6 DEF GivesBack, Holding, Consumed
  <2>2. stock'[i].held = Clamped(stock[i].held - orders[o].lines[i])
        /\ stock'[i].sold = stock[i].sold
    BY <1>5, <1>6 DEF GivesBack, releaseDailyQuota, StockRow
  <2>3. stock'[i].held = Cardinality(UnitsIn(orders, Holding \ {o}, i))
    BY <1>1, <1>6, <2>2, HeldCoversLine DEF GivesBack, StockInv
  <2> QED BY <1>1, <1>3, <2>1, <2>2, <2>3 DEF Counts
<1>7. CASE Consumes(o)
  <2>1. /\ Holding' = Holding \ {o} /\ Consumed' = Consumed \cup {o}
        /\ o \notin Consumed
    BY <1>4, <1>7 DEF Consumes, Holding, Consumed
  <2>2. stock'[i].held = Clamped(stock[i].held - orders[o].lines[i])
        /\ stock'[i].sold = stock[i].sold + orders[o].lines[i]
    BY <1>5, <1>7 DEF Consumes, convertHoldToSold, StockRow
  <2>3. /\ stock'[i].held = Cardinality(UnitsIn(orders, Holding \ {o}, i))
        /\ orders[o].lines[i] \in 0 .. MaxQty
    BY <1>1, <1>7, <2>2, HeldCoversLine DEF Consumes, StockInv
  <2>4. Cardinality(UnitsIn(orders, Consumed \cup {o}, i))
          = Cardinality(UnitsIn(orders, Consumed, i)) + orders[o].lines[i]
    <3>1. Consumed \in SUBSET Orders /\ o \in Orders \ Consumed
      BY <2>1 DEF Consumed
    <3>2. orders[o].lines[i] \in 0 .. MaxQty BY <2>3
    <3> QED BY <3>1, <3>2, UnitsAdd
  <2> QED BY <1>1, <1>3, <2>1, <2>2, <2>3, <2>4 DEF Counts
<1>8. CASE Keeps(o)
  <2>1. Holding' = Holding /\ Consumed' = Consumed
    BY <1>4, <1>8 DEF Keeps, Holding, Consumed
  <2> QED BY <1>1, <1>3, <1>8, <2>1 DEF Keeps, Counts
<1> QED BY <1>2, <1>6, <1>7, <1>8

(* A placement that commits: a new order, whose units are all held.        *)
LEMMA PlaceOnStock ==
  ASSUME StockInv, NEW o \in Orders, PlaceCommit(o)
  PROVE  /\ orders[o].status = "NOT_PLACED"
         /\ orders'[o].status = "PENDING_PAYMENT"
         /\ orders'[o].lines = request[o].lines
         /\ \A x \in Orders \ {o} : orders'[x] = orders[x]
         /\ request[o].lines \in Lines
         /\ \A i \in Items :
              /\ stock'[i].held = stock[i].held + request[o].lines[i]
              /\ stock'[i].sold = stock[i].sold
              /\ stock'[i].exists \/ stock'[i] = stock[i]
<1>1. TypeOK /\ RequestOK BY DEF StockInv, IInv
<1>2. orders[o].status = "NOT_PLACED" BY <1>1 DEF PlaceCommit, RequestOK
<1>3. /\ orders'[o].status = "PENDING_PAYMENT"
      /\ orders'[o].lines = request[o].lines
      /\ \A x \in Orders \ {o} : orders'[x] = orders[x]
  BY <1>1 DEF PlaceCommit, TypeOK, NotPlaced
<1>4. request[o].lines \in Lines BY <1>1 DEF TypeOK, RequestRow
<1>5. ASSUME NEW i \in Items
      PROVE  /\ stock'[i].held = stock[i].held + request[o].lines[i]
             /\ stock'[i].sold = stock[i].sold
             /\ stock'[i].exists \/ stock'[i] = stock[i]
  <2>1. PICK quantity \in 0 .. MaxQty : quantity = request[o].lines[i]
    BY <1>4 DEF Lines
  <2>2. stock[i] \in StockRow BY <1>1 DEF TypeOK
  <2>3. CASE quantity > 0
    <3>1. i \in Ordered(request[o].lines) BY <2>1, <2>3 DEF Ordered
    <3>2. stock'[i] = HeldRow(SeenRow(o, i), request[o].lines[i])
      BY <3>1 DEF PlaceCommit
    <3>3. SeenRow(o, i).exists BY <3>1 DEF PlaceCommit, Fits
    <3>4. SeenRow(o, i) \in StockRow BY <1>1, SeenRowType
    <3>5. /\ SeenRow(o, i).held = stock[i].held
          /\ SeenRow(o, i).sold = stock[i].sold
      BY <2>2 DEF SeenRow, StockInv, NoRowCountsNothing
    <3> QED BY <3>2, <3>3, <3>4, <3>5 DEF HeldRow, StockRow
  <2>4. CASE ~(quantity > 0)
    <3>1. i \notin Ordered(request[o].lines) BY <2>1, <2>4 DEF Ordered
    <3>2. stock'[i] = stock[i] BY <3>1 DEF PlaceCommit
    <3>3. quantity = 0 BY <2>4, QuantityAssumption
    <3>4. stock[i].held + 0 = stock[i].held BY <2>2 DEF StockRow
    <3> QED BY <2>1, <3>2, <3>3, <3>4
  <2> QED BY <2>3, <2>4
<1> QED BY <1>2, <1>3, <1>4, <1>5

(* So does a placement, whose order joins those that hold.                 *)
LEMMA PlaceCounts ==
  ASSUME StockInv, NEW o \in Orders, PlaceCommit(o), NEW i \in Items
  PROVE  Counts(i)'
<1>1. Counts(i) BY CountsDef DEF StockInv
<1>2. /\ Holding' = Holding \cup {o} /\ Consumed' = Consumed
      /\ Holding \in SUBSET Orders /\ o \in Orders \ Holding
      /\ o \notin Consumed
  BY PlaceOnStock DEF Holding, Consumed, Holds, Fulfilled
<1>3. orders'[o].lines[i] = request[o].lines[i]
      /\ orders'[o].lines[i] \in 0 .. MaxQty
  BY PlaceOnStock DEF Lines
<1>4. /\ UnitsIn(orders', Holding, i) = UnitsIn(orders, Holding, i)
      /\ UnitsIn(orders', Consumed, i) = UnitsIn(orders, Consumed, i)
  <2>1. \A x \in Holding \cup Consumed : orders'[x] = orders[x]
    BY <1>2, PlaceOnStock DEF Holding, Consumed
  <2> QED BY <2>1, UnitsFrame
<1>5. Cardinality(UnitsIn(orders', Holding \cup {o}, i))
        = Cardinality(UnitsIn(orders', Holding, i)) + orders'[o].lines[i]
  BY <1>2, <1>3, UnitsAdd
<1>6. /\ stock'[i].held = stock[i].held + request[o].lines[i]
      /\ stock'[i].sold = stock[i].sold
  BY PlaceOnStock
<1> QED BY <1>1, <1>2, <1>3, <1>4, <1>5, <1>6 DEF Counts

(* Deleting an item empties its lines and drops its row.                   *)
LEMMA DeleteOnStock ==
  ASSUME TypeOK, NEW d \in Items, DeleteItem(d)
  PROVE  /\ \A o \in Orders :
              /\ orders'[o].status = orders[o].status
              /\ orders'[o].readyAt = orders[o].readyAt
              /\ orders'[o].lines = [orders[o].lines EXCEPT ![d] = 0]
              /\ orders[o].lines \in Lines
         /\ stock' = [stock EXCEPT ![d] = NoStock]
<1>1. ASSUME NEW o \in Orders
      PROVE  /\ orders'[o].status = orders[o].status
             /\ orders'[o].readyAt = orders[o].readyAt
             /\ orders'[o].lines = [orders[o].lines EXCEPT ![d] = 0]
             /\ orders[o].lines \in Lines
  <2>1. orders[o] \in OrderRow BY DEF TypeOK
  <2>2. orders'[o] = [orders[o] EXCEPT !.lines =
                        [orders[o].lines EXCEPT ![d] = 0]]
    BY DEF DeleteItem
  <2> QED BY <2>1, <2>2 DEF OrderRow
<1> QED BY <1>1 DEF DeleteItem

(* So does a deleted item: its row and its order lines go together.        *)
LEMMA DeleteCounts ==
  ASSUME StockInv, NEW d \in Items, DeleteItem(d), NEW i \in Items
  PROVE  Counts(i)'
<1>1. Counts(i) /\ TypeOK BY CountsDef DEF StockInv, IInv
<1>2. Holding' = Holding /\ Consumed' = Consumed
  BY <1>1, DeleteOnStock DEF Holding, Consumed, Holds, Fulfilled
<1>3. CASE i = d
  <2>1. ASSUME NEW o \in Orders PROVE orders'[o].lines[i] = 0
    <3>1. /\ orders'[o].lines = [orders[o].lines EXCEPT ![d] = 0]
          /\ orders[o].lines \in Lines
      BY <1>1, DeleteOnStock
    <3> QED BY <1>3, <3>1 DEF Lines
  <2>2. /\ Cardinality(UnitsIn(orders', Holding, i)) = 0
        /\ Cardinality(UnitsIn(orders', Consumed, i)) = 0
    BY <2>1, NoUnits DEF Holding, Consumed
  <2>3. stock'[i].held = 0 /\ stock'[i].sold = 0
    BY <1>1, <1>3, DeleteOnStock DEF TypeOK, NoStock
  <2> QED BY <1>2, <2>2, <2>3 DEF Counts
<1>4. CASE i # d
  <2>1. ASSUME NEW o \in Orders PROVE orders'[o].lines[i] = orders[o].lines[i]
    <3>1. /\ orders'[o].lines = [orders[o].lines EXCEPT ![d] = 0]
          /\ orders[o].lines \in Lines
      BY <1>1, DeleteOnStock
    <3> QED BY <1>4, <3>1 DEF Lines
  <2>2. /\ UnitsIn(orders', Holding, i) = UnitsIn(orders, Holding, i)
        /\ UnitsIn(orders', Consumed, i) = UnitsIn(orders, Consumed, i)
    BY <2>1, UnitsFrame DEF Holding, Consumed
  <2>3. stock'[i] = stock[i] BY <1>1, <1>4, DeleteOnStock DEF TypeOK
  <2> QED BY <1>1, <1>2, <2>2, <2>3 DEF Counts
<1> QED BY <1>3, <1>4

(* What the other steps leave alone, which is all the counters depend on.  *)
CountsFrame ==
  /\ \A o \in Orders :
       /\ orders'[o].status = orders[o].status
       /\ orders'[o].readyAt = orders[o].readyAt
       /\ orders'[o].lines = orders[o].lines
  /\ \A i \in Items :
       /\ stock'[i].held = stock[i].held
       /\ stock'[i].sold = stock[i].sold
       /\ stock'[i].exists = stock[i].exists

(* And so does every step that leaves lines, statuses and counts.          *)
LEMMA FrameCounts ==
  ASSUME StockInv, CountsFrame, NEW i \in Items
  PROVE  Counts(i)'
<1>1. Counts(i) BY CountsDef DEF StockInv
<1>2. Holding' = Holding /\ Consumed' = Consumed
  BY DEF CountsFrame, Holding, Consumed, Holds, Fulfilled
<1>3. /\ UnitsIn(orders', Holding, i) = UnitsIn(orders, Holding, i)
      /\ UnitsIn(orders', Consumed, i) = UnitsIn(orders, Consumed, i)
  BY UnitsFrame DEF CountsFrame, Holding, Consumed
<1> QED BY <1>1, <1>2, <1>3 DEF CountsFrame, Counts

(* The clock, a change of cap and everything outside the tables are such   *)
(* steps.                                                                  *)
LEMMA OtherSteps ==
  ASSUME TypeOK,
         \/ \E o \in Orders : DeadlinePasses(o)
         \/ \E edit \in capEdits : CapCommit(edit)
         \/ UNCHANGED orderVars
  PROVE  CountsFrame
<1>1. ASSUME NEW o \in Orders, DeadlinePasses(o) PROVE CountsFrame
  <2>1. orders[o] \in OrderRow BY DEF TypeOK
  <2>2. orders' = [orders EXCEPT ![o] = [orders[o] EXCEPT !.late = TRUE]]
    BY <1>1 DEF DeadlinePasses, TypeOK
  <2>3. /\ orders'[o].status = orders[o].status
        /\ orders'[o].readyAt = orders[o].readyAt
        /\ orders'[o].lines = orders[o].lines
        /\ \A x \in Orders \ {o} : orders'[x] = orders[x]
    BY <2>1, <2>2 DEF OrderRow, TypeOK
  <2> QED BY <1>1, <2>3 DEF DeadlinePasses, CountsFrame
<1>2. ASSUME NEW edit \in capEdits, CapCommit(edit)
      PROVE  CountsFrame
  <2>1. \A x \in Items : stock[x] \in StockRow BY DEF TypeOK
  <2>2. \A x \in Items :
          stock'[x] = stock[x] \/ \E q : stock'[x] = [stock[x] EXCEPT !.quota = q]
    BY <1>2 DEF CapCommit, CapOfRow, TypeOK
  <2>3. \A x \in Items : /\ stock'[x].held = stock[x].held
                         /\ stock'[x].sold = stock[x].sold
                         /\ stock'[x].exists = stock[x].exists
    BY <2>1, <2>2 DEF StockRow
  <2> QED BY <1>2, <2>3 DEF CapCommit, CountsFrame
<1>3. CASE UNCHANGED orderVars BY <1>3 DEF orderVars, CountsFrame
<1> QED BY <1>1, <1>2, <1>3

(* An item without a stock row has nothing held or sold: rows are only     *)
(* dropped together with their lines.                                      *)
LEMMA NextNoRow == StockInv /\ [Next]_vars => NoRowCountsNothing'
<1> SUFFICES ASSUME StockInv, [Next]_vars, NEW i \in Items
             PROVE  ~stock'[i].exists => stock'[i].held = 0 /\ stock'[i].sold = 0
  BY DEF NoRowCountsNothing
<1>1. /\ ~stock[i].exists => stock[i].held = 0 /\ stock[i].sold = 0
      /\ TypeOK /\ IInv /\ stock[i] \in StockRow
  BY DEF StockInv, NoRowCountsNothing, IInv, TypeOK
<1>2. ASSUME NEW o \in Orders, NEW actor \in OrderActor, Move(o, actor)
      PROVE  ~stock'[i].exists => stock'[i].held = 0 /\ stock'[i].sold = 0
  <2>1. GivesBack(o) \/ Consumes(o) \/ Keeps(o) BY <1>1, <1>2, MoveOnStock
  <2>2. CASE Keeps(o) BY <1>1, <2>2 DEF Keeps
  <2>3. ASSUME Holds(o), ~stock[i].exists PROVE orders[o].lines[i] = 0
    <3>1. PICK quantity \in 0 .. MaxQty : quantity = orders[o].lines[i]
      BY <2>3, HeldCoversLine DEF StockInv, IInv
    <3>2. 0 - quantity \in Nat
      BY <1>1, <2>3, <3>1, HeldCoversLine DEF StockInv, IInv
    <3>3. quantity = 0 BY <3>2, QuantityAssumption
    <3> QED BY <3>1, <3>3
  <2>4. CASE GivesBack(o)
    <3>1. /\ stock'[i].exists = stock[i].exists
          /\ stock'[i].held = Clamped(stock[i].held - orders[o].lines[i])
          /\ stock'[i].sold = stock[i].sold
      BY <1>1, <2>4 DEF GivesBack, releaseDailyQuota, StockRow
    <3>2. Clamped(0 - 0) = 0 BY DEF Clamped
    <3> QED BY <1>1, <2>3, <2>4, <3>1, <3>2 DEF GivesBack
  <2>5. CASE Consumes(o)
    <3>1. /\ stock'[i].exists = stock[i].exists
          /\ stock'[i].held = Clamped(stock[i].held - orders[o].lines[i])
          /\ stock'[i].sold = stock[i].sold + orders[o].lines[i]
      BY <1>1, <2>5 DEF Consumes, convertHoldToSold, StockRow
    <3>2. Clamped(0 - 0) = 0 /\ 0 + 0 = 0 BY DEF Clamped
    <3> QED BY <1>1, <2>3, <2>5, <3>1, <3>2 DEF Consumes
  <2> QED BY <2>1, <2>2, <2>4, <2>5
<1>3. ASSUME NEW o \in Orders, PlaceCommit(o)
      PROVE  ~stock'[i].exists => stock'[i].held = 0 /\ stock'[i].sold = 0
  <2>1. stock'[i].exists \/ stock'[i] = stock[i] BY <1>3, PlaceOnStock
  <2> QED BY <1>1, <2>1
<1>4. ASSUME NEW d \in Items, DeleteItem(d)
      PROVE  ~stock'[i].exists => stock'[i].held = 0 /\ stock'[i].sold = 0
  <2>1. stock'[i] = NoStock \/ stock'[i] = stock[i]
    BY <1>1, <1>4, DeleteOnStock DEF TypeOK
  <2> QED BY <1>1, <2>1 DEF NoStock
<1>5. CASE CountsFrame BY <1>1, <1>5 DEF CountsFrame
<1> QED
  BY <1>1, <1>2, <1>3, <1>4, <1>5, StepCases, PlacingCases, OtherSteps
  DEF orderVars

(* Nothing is held or sold of an empty database.                           *)
LEMMA InitStock == Init => StockInv
<1> SUFFICES ASSUME Init PROVE StockInv OBVIOUS
<1>1. \A i \in Items : stock[i].held = 0 /\ stock[i].sold = 0
  BY DEF Init, NoStock
<1>2. \A o \in Orders, i \in Items : orders[o].lines[i] = 0
  BY DEF Init, NotPlaced, NoLines
<1>3. ASSUME NEW i \in Items PROVE Counts(i)
  BY <1>1, <1>2, NoUnits DEF Counts, Holding, Consumed
<1> QED BY <1>1, <1>3, CountsDef, InitIInv DEF StockInv, NoRowCountsNothing

(* The stock invariant is inductive.                                       *)
LEMMA NextStock == StockInv /\ [Next]_vars => StockInv'
<1> SUFFICES ASSUME StockInv, [Next]_vars PROVE StockInv' OBVIOUS
<1>1. ASSUME NEW i \in Items PROVE Counts(i)'
  BY <1>1, MoveCounts, PlaceCounts, DeleteCounts, FrameCounts, StepCases,
     PlacingCases, OtherSteps
  DEF StockInv, IInv, orderVars
<1> QED BY <1>1, CountsDefNext, NextIInv, NextNoRow DEF StockInv

(* The ordering invariant together with the stock counts is an invariant   *)
(* of the specification: the counts cannot be shown to survive a release   *)
(* without knowing that the order still held its units.                    *)
THEOREM StockInductive == Spec => []StockInv
<1> QED BY InitStock, NextStock, PTL DEF Spec

(* No unit of stock leaks and none is given back twice, for any number of  *)
(* orders and items, whatever races with whatever.                         *)
THEOREM HeldIsExact == Spec => []HeldMatchesLiveOrders
<1>1. StockInv => HeldMatchesLiveOrders BY DEF StockInv
<1> QED BY <1>1, StockInductive, PTL

(* Units are sold exactly by the orders that were collected or cooked in   *)
(* vain.                                                                   *)
THEOREM SoldIsExact == Spec => []SoldMatchesFulfilledOrders
<1>1. StockInv => SoldMatchesFulfilledOrders BY DEF StockInv
<1> QED BY <1>1, StockInductive, PTL

-----------------------------------------------------------------------------
(* Overselling.                                                            *)

(* A move never reserves more.                                             *)
LEMMA MoveHoldsNoMore ==
  ASSUME StockInv, NEW o \in Orders, NEW actor \in OrderActor, Move(o, actor),
         NEW i \in Items
  PROVE  stock'[i].held <= stock[i].held
<1>1. IInv /\ TypeOK /\ stock[i] \in StockRow BY DEF StockInv, IInv, TypeOK
<1>2. GivesBack(o) \/ Consumes(o) \/ Keeps(o) BY <1>1, MoveOnStock
<1>3. CASE Keeps(o)
  <2>1. stock[i].held <= stock[i].held BY <1>1 DEF StockRow
  <2> QED BY <1>3, <2>1 DEF Keeps
<1>4. CASE GivesBack(o) \/ Consumes(o)
  <2>1. stock'[i].held = Clamped(stock[i].held - orders[o].lines[i])
    BY <1>1, <1>4
    DEF GivesBack, Consumes, releaseDailyQuota, convertHoldToSold, StockRow
  <2>2. Clamped(stock[i].held - orders[o].lines[i])
          = stock[i].held - orders[o].lines[i]
    BY <1>1, <1>4, HeldCoversLine DEF GivesBack, Consumes, StockInv
  <2>3. PICK quantity \in 0 .. MaxQty : quantity = orders[o].lines[i]
    BY <1>1, <1>4, HeldCoversLine DEF GivesBack, Consumes, StockInv
  <2>4. quantity \in Nat BY QuantityAssumption
  <2>5. stock[i].held - quantity <= stock[i].held BY <1>1, <2>4 DEF StockRow
  <2> QED BY <2>1, <2>2, <2>3, <2>5
<1> QED BY <1>2, <1>3, <1>4

(* What a placement newly reserves of an item is inside its row's cap.     *)
LEMMA PlaceFits ==
  ASSUME StockInv, NEW o \in Orders, PlaceCommit(o), NEW i \in Items,
         stock'[i].held > stock[i].held
  PROVE  \/ stock'[i].quota = 0
         \/ stock'[i].sold + stock'[i].held <= stock'[i].quota
<1>1. TypeOK /\ stock[i] \in StockRow BY DEF StockInv, IInv, TypeOK
<1>2. i \in Ordered(request[o].lines)
  <2>1. SUFFICES ASSUME i \notin Ordered(request[o].lines) PROVE FALSE
    OBVIOUS
  <2>2. stock'[i] = stock[i] BY <2>1 DEF PlaceCommit
  <2>3. ~(stock[i].held > stock[i].held) BY <1>1 DEF StockRow
  <2> QED BY <2>2, <2>3
<1>3. PICK row \in StockRow : row = SeenRow(o, i) BY <1>1, SeenRowType
<1>4. PICK quantity \in 0 .. MaxQty : quantity = request[o].lines[i]
  BY PlaceOnStock DEF Lines
<1>5. row.quota = 0 \/ row.sold + row.held + quantity <= row.quota
  BY <1>2, <1>3, <1>4 DEF PlaceCommit, Fits
<1>6. stock'[i] = [row EXCEPT !.held = row.held + quantity]
  BY <1>2, <1>3, <1>4 DEF PlaceCommit, HeldRow
<1>7. /\ stock'[i].quota = row.quota /\ stock'[i].sold = row.sold
      /\ stock'[i].held = row.held + quantity
  BY <1>6 DEF StockRow
<1>8. quantity \in Nat BY QuantityAssumption
<1>9. row.sold + (row.held + quantity) = row.sold + row.held + quantity
  BY <1>8 DEF StockRow
<1> QED BY <1>5, <1>7, <1>9

(* Two placements that both passed the check outside their transactions    *)
(* cannot both take the last unit.                                         *)
THEOREM NothingIsOversold == Spec => NoOversell
<1>1. ASSUME StockInv, [Next]_vars, NEW i \in Items,
             stock'[i].held > stock[i].held
      PROVE  \/ stock'[i].quota = 0
             \/ stock'[i].sold + stock'[i].held <= stock'[i].quota
  <2>1. stock[i] \in StockRow BY <1>1 DEF StockInv, IInv, TypeOK
  <2>2. stock'[i] \in StockRow BY <1>1, NextStock DEF StockInv, IInv, TypeOK
  <2>3. ASSUME NEW o \in Orders, NEW actor \in OrderActor, Move(o, actor)
        PROVE  FALSE
    BY <1>1, <2>1, <2>2, <2>3, MoveHoldsNoMore DEF StockRow
  <2>4. ASSUME NEW d \in Items, DeleteItem(d) PROVE FALSE
    <3>1. stock'[i] = stock[i] \/ stock'[i] = NoStock
      BY <1>1, <2>4, DeleteOnStock DEF StockInv, IInv, TypeOK
    <3> QED BY <1>1, <2>1, <3>1 DEF StockRow, NoStock
  <2>5. CASE CountsFrame BY <1>1, <2>1, <2>5 DEF CountsFrame, StockRow
  <2> QED
    BY <1>1, <2>3, <2>4, <2>5, PlaceFits, StepCases, PlacingCases, OtherSteps
    DEF orderVars, StockInv, IInv
<1>2. StockInv /\ [Next]_vars =>
        [\A i \in Items :
           stock'[i].held > stock[i].held =>
             \/ stock'[i].quota = 0
             \/ stock'[i].sold + stock'[i].held <= stock'[i].quota]_vars
  BY <1>1
<1> QED BY <1>2, StockInductive, PTL DEF Spec, NoOversell

-----------------------------------------------------------------------------
(* Refinement: every step is a Fulfilment step or a stutter.               *)

(* The fates of the orders a step leaves alone do not change.              *)
LEMMA SameFate ==
  ASSUME NEW x \in Orders, orders'[x].status = orders[x].status,
         orders'[x].readyAt = orders[x].readyAt
  PROVE  FateOf(x)' = FateOf(x)
BY DEF FateOf, Holds, Fulfilled

(* Initial states map to initial states.                                   *)
LEMMA InitRefines == Init => Units!Init
<1> SUFFICES ASSUME Init PROVE Units!Init OBVIOUS
<1>1. \A o \in Orders : FateOf(o) = "none"
  BY DEF Init, NotPlaced, FateOf, Holds, Fulfilled
<1>2. \A o \in Orders : orders[o].lines = [i \in Items |-> 0]
  BY DEF Init, NotPlaced, NoLines
<1>3. \A i \in Items : stock[i].held = 0 /\ stock[i].sold = 0
  BY DEF Init, NoStock
<1> QED BY <1>1, <1>2, <1>3 DEF Units!Init

(* A move is a Release, a Sell or nothing of the abstract stock.           *)
LEMMA MoveRefines ==
  ASSUME StockInv, NEW o \in Orders, NEW actor \in OrderActor, Move(o, actor)
  PROVE  Units!Release(o) \/ Units!Sell(o) \/ UNCHANGED Units!vars
<1>1. IInv /\ TypeOK BY DEF StockInv, IInv
<1>2. /\ \A x \in Orders : orders'[x].lines = orders[x].lines
      /\ \A x \in Orders \ {o} : orders'[x] = orders[x]
      /\ orders[o].status # "NOT_PLACED" /\ orders'[o].status # "NOT_PLACED"
      /\ GivesBack(o) \/ Consumes(o) \/ Keeps(o)
  BY <1>1, MoveOnStock
<1>3. \A x \in Orders \ {o} : FateOf(x)' = FateOf(x) BY <1>2, SameFate
<1>4. \A i \in Items : stock[i] \in StockRow BY <1>1 DEF TypeOK
<1>5. CASE GivesBack(o)
  <2>1. FateOf(o) = "held" /\ FateOf(o)' = "released"
    BY <1>2, <1>5 DEF GivesBack, FateOf
  <2>2. ASSUME NEW i \in Items
        PROVE  /\ stock'[i].held = stock[i].held - orders[o].lines[i]
               /\ stock'[i].sold = stock[i].sold
    <3>1. /\ stock'[i].held = Clamped(stock[i].held - orders[o].lines[i])
          /\ stock'[i].sold = stock[i].sold
      BY <1>4, <1>5 DEF GivesBack, releaseDailyQuota, StockRow
    <3> QED BY <1>1, <1>5, <3>1, HeldCoversLine DEF GivesBack, StockInv
  <2> QED BY <1>2, <1>3, <2>1, <2>2 DEF Units!Release
<1>6. CASE Consumes(o)
  <2>1. FateOf(o) = "held" /\ FateOf(o)' = "sold"
    BY <1>2, <1>6 DEF Consumes, FateOf
  <2>2. ASSUME NEW i \in Items
        PROVE  /\ stock'[i].held = stock[i].held - orders[o].lines[i]
               /\ stock'[i].sold = stock[i].sold + orders[o].lines[i]
    <3>1. /\ stock'[i].held = Clamped(stock[i].held - orders[o].lines[i])
          /\ stock'[i].sold = stock[i].sold + orders[o].lines[i]
      BY <1>4, <1>6 DEF Consumes, convertHoldToSold, StockRow
    <3> QED BY <1>1, <1>6, <3>1, HeldCoversLine DEF Consumes, StockInv
  <2> QED BY <1>2, <1>3, <2>1, <2>2 DEF Units!Sell
<1>7. CASE Keeps(o)
  <2>1. FateOf(o)' = FateOf(o) BY <1>2, <1>7 DEF Keeps, FateOf
  <2> QED BY <1>2, <1>3, <1>7, <2>1 DEF Keeps, Units!vars
<1> QED BY <1>2, <1>5, <1>6, <1>7

(* A placement is a Reserve of its lines.                                  *)
LEMMA PlaceRefines ==
  ASSUME StockInv, NEW o \in Orders, PlaceCommit(o),
         NEW lines \in [Items -> 0 .. MaxQty], lines = request[o].lines
  PROVE  Units!Reserve(o)
<1>1. FateOf(o) = "none" BY PlaceOnStock DEF FateOf, Holds, Fulfilled
<1>2. FateOf(o)' = "held" BY PlaceOnStock DEF FateOf, Holds, Fulfilled
<1>3. \A x \in Orders \ {o} : FateOf(x)' = FateOf(x)
  BY PlaceOnStock, SameFate
<1>4. \A x \in Orders \ {o} : orders'[x].lines = orders[x].lines
  BY PlaceOnStock
<1>5. orders'[o].lines = lines BY PlaceOnStock
<1>6. \A i \in Items :
        /\ stock'[i].held = stock[i].held + lines[i]
        /\ stock'[i].sold = stock[i].sold
  BY PlaceOnStock
<1> QED BY <1>1, <1>2, <1>3, <1>4, <1>5, <1>6 DEF Units!Reserve

(* A deleted item is a Withdraw.                                           *)
LEMMA DeleteRefines ==
  ASSUME StockInv, NEW d \in Items, DeleteItem(d)
  PROVE  Units!Withdraw(d)
<1>1. TypeOK BY DEF StockInv, IInv
<1>2. \A o \in Orders :
        /\ FateOf(o)' = FateOf(o)
        /\ orders'[o].lines = [orders[o].lines EXCEPT ![d] = 0]
  BY <1>1, DeleteOnStock, SameFate
<1>3. \A i \in Items :
        /\ stock'[i].held = IF i = d THEN 0 ELSE stock[i].held
        /\ stock'[i].sold = IF i = d THEN 0 ELSE stock[i].sold
  <2>1. \A i \in Items : stock'[i] = IF i = d THEN NoStock ELSE stock[i]
    BY <1>1, DeleteOnStock DEF TypeOK
  <2> QED BY <2>1 DEF NoStock
<1> QED BY <1>2, <1>3 DEF Units!Withdraw

(* Everything else is a stutter.                                           *)
LEMMA FrameRefines ==
  ASSUME CountsFrame
  PROVE  UNCHANGED Units!vars
<1>1. \A o \in Orders : FateOf(o)' = FateOf(o) BY SameFate DEF CountsFrame
<1> QED BY <1>1 DEF CountsFrame, Units!vars

(* Every step of ordering is a step of the abstract stock, or a stutter.   *)
LEMMA StepRefines == StockInv /\ [Next]_vars => [Units!Next]_(Units!vars)
<1> SUFFICES ASSUME StockInv, [Next]_vars
             PROVE  Units!Next \/ UNCHANGED Units!vars
  OBVIOUS
<1>1. ASSUME NEW o \in Orders, NEW actor \in OrderActor, Move(o, actor)
      PROVE  Units!Next \/ UNCHANGED Units!vars
  BY <1>1, MoveRefines DEF Units!Next
<1>2. ASSUME NEW o \in Orders, PlaceCommit(o) PROVE Units!Next
  <2>1. PICK d \in [Items -> 0 .. MaxQty] : d = request[o].lines
    BY <1>2, PlaceOnStock DEF Lines
  <2>2. Units!Reserve(o) BY <1>2, <2>1, PlaceRefines
  <2> QED BY <2>2 DEF Units!Next
<1>3. ASSUME NEW d \in Items, DeleteItem(d) PROVE Units!Next
  BY <1>3, DeleteRefines DEF Units!Next
<1> QED
  BY <1>1, <1>2, <1>3, StepCases, PlacingCases, OtherSteps, FrameRefines
  DEF orderVars, StockInv, IInv

(* Through every status, actor, race and crash, ordering is a ledger of    *)
(* reservations: each is taken once and given back or sold once.           *)
THEOREM OrderingImplementsFulfilment == Spec => ImplementsFulfilment
<1> QED
  BY InitRefines, StepRefines, StockInductive, PTL
  DEF Spec, ImplementsFulfilment, Units!Spec

-----------------------------------------------------------------------------
(* The caps of the day's rows.                                             *)

(* Only a deletion and an edit's commit change the menu.                   *)
LEMMA MenuSteps ==
  ASSUME [Next]_vars
  PROVE  \/ UNCHANGED menu
         \/ \E i \in Items : DeleteItem(i)
         \/ \E edit \in capEdits : CapCommit(edit)
<1>1. ASSUME NEW o \in Orders, Placing(o) PROVE UNCHANGED menu
  BY <1>1 DEF Placing, PlaceCheck, PlaceSeed, PlaceCommit, PlaceAbort
<1>2. ASSUME NEW o \in Orders, CustomerCancel(o) \/ Staffed(o) \/ Paying(o)
      PROVE  UNCHANGED menu
  BY <1>2 DEF CustomerCancel, Staffed, Paying, MerchantMove, AdminForce, PaymentMove
<1>3. ASSUME NEW o \in Orders, DeadlinePasses(o) PROVE UNCHANGED menu
  BY <1>3 DEF DeadlinePasses
<1>4. ASSUME NEW s \in Sweepers, Sweeping(s) \/ SweepCrash(s) PROVE UNCHANGED menu
  BY <1>4 DEF Sweeping, SweepList, SweepDone, SweepExpire, SweepCrash
<1>5. UNCHANGED vars => UNCHANGED menu BY DEF vars
<1>6. ASSUME NEW i \in Items, Selling(i)
      PROVE  \/ UNCHANGED menu
             \/ DeleteItem(i)
             \/ \E edit \in capEdits : CapCommit(edit)
  BY <1>6 DEF Selling, CapRead, CapAbort
<1> QED BY <1>1, <1>2, <1>3, <1>4, <1>5, <1>6, Zenon DEF Next

(* A move keeps the rows of the day and their caps.                        *)
LEMMA MoveKeepsCap ==
  ASSUME StockInv, NEW o \in Orders, NEW actor \in OrderActor, Move(o, actor),
         NEW i \in Items
  PROVE  stock'[i].exists = stock[i].exists /\ stock'[i].quota = stock[i].quota
<1>1. IInv /\ stock[i] \in StockRow BY DEF StockInv, IInv, TypeOK
<1>2. GivesBack(o) \/ Consumes(o) \/ Keeps(o) BY <1>1, MoveOnStock
<1> QED
  BY <1>1, <1>2
  DEF GivesBack, Consumes, Keeps, releaseDailyQuota, convertHoldToSold, StockRow

(* A placement keeps the caps of the rows it finds, and commits the cap it *)
(* has read for the rows it seeds.                                         *)
LEMMA PlaceKeepsCap ==
  ASSUME StockInv, NEW o \in Orders, PlaceCommit(o), NEW i \in Items
  PROVE  \/ stock'[i].exists = stock[i].exists /\ stock'[i].quota = stock[i].quota
         \/ ~stock[i].exists /\ request[o].seed[i] = stock'[i].quota
<1>1. TypeOK /\ stock[i] \in StockRow BY DEF StockInv, IInv, TypeOK
<1>2. CASE i \notin Ordered(request[o].lines) BY <1>2 DEF PlaceCommit
<1>3. CASE i \in Ordered(request[o].lines)
  <2>1. PICK found \in StockRow : found = SeenRow(o, i) BY <1>1, SeenRowType
  <2>2. PICK quantity : quantity = request[o].lines[i] OBVIOUS
  <2>3. stock'[i] = [found EXCEPT !.held = found.held + quantity]
    BY <1>3, <2>1, <2>2 DEF PlaceCommit, HeldRow
  <2>4. stock'[i].exists = found.exists /\ stock'[i].quota = found.quota
    BY <2>3 DEF StockRow
  <2> QED BY <1>1, <2>1, <2>4 DEF SeenRow
<1> QED BY <1>2, <1>3

(* An edit that found the cap changed writes it to the menu and the row;   *)
(* one that found it as submitted writes the menu only, which changes      *)
(* nothing unless the menu has moved since.                                *)
LEMMA CommitKeepsAgreement ==
  ASSUME TypeOK, NEW edit \in capEdits, CapCommit(edit),
         NEW i \in Items, CapAgrees(i)
  PROVE  CapAgrees(i)' \/ PutBack(i)
<1> DEFINE d == edit.item
<1>0. d \in Items /\ edit \notin capEdits' BY DEF CapCommit, TypeOK, CapEdit
<1>1. PICK was \in StockRow : was = stock[d] BY <1>0 DEF TypeOK
<1>2. PICK dish \in [listed : BOOLEAN, dailyQuota : Quotas] : dish = menu[d]
  BY <1>0 DEF TypeOK
<1>3. CASE i = d
  <2>1. menu'[d].dailyQuota = edit.quota
    <3>1. menu' = [menu EXCEPT ![d] = [dish EXCEPT !.dailyQuota = edit.quota]]
      BY <1>2 DEF CapCommit
    <3> QED BY <1>0, <3>1 DEF TypeOK
  <2>2. /\ stock'[d].exists = was.exists
        /\ stock'[d].quota = CapOfRow(edit)
    <3>1. stock' = [stock EXCEPT ![d] = [was EXCEPT !.quota = CapOfRow(edit)]]
      BY <1>1 DEF CapCommit
    <3>2. stock'[d] = [was EXCEPT !.quota = CapOfRow(edit)]
      BY <1>0, <3>1 DEF TypeOK
    <3> QED BY <3>2 DEF StockRow
  <2>3. CASE edit.quota # edit.read
    BY <1>1, <1>3, <2>1, <2>2, <2>3 DEF CapAgrees, CapOfRow
  <2>4. CASE edit.quota = edit.read /\ edit.read = menu[d].dailyQuota
    <3>1. CapOfRow(edit) = was.quota BY <1>1, <2>4 DEF CapOfRow
    <3> QED BY <1>1, <1>3, <2>1, <2>2, <2>4, <3>1 DEF CapAgrees
  <2>5. CASE edit.quota = edit.read /\ edit.read # menu[d].dailyQuota
    BY <1>0, <1>3, <2>5 DEF PutBack
  <2> QED BY <2>3, <2>4, <2>5
<1>4. CASE i # d
  <2>1. menu'[i] = menu[i] /\ stock'[i] = stock[i]
    BY <1>4 DEF CapCommit, TypeOK
  <2> QED BY <2>1 DEF CapAgrees
<1> QED BY <1>3, <1>4

(* An item that is deleted takes its row along.                            *)
LEMMA DeleteKeepsAgreement ==
  ASSUME TypeOK, NEW d \in Items, DeleteItem(d), NEW i \in Items, CapAgrees(i)
  PROVE  CapAgrees(i)'
<1>1. CASE i = d
  <2>1. stock'[i] = NoStock BY <1>1, DeleteOnStock DEF TypeOK
  <2> QED BY <2>1 DEF CapAgrees, NoStock
<1>2. CASE i # d
  <2>1. menu'[i] = menu[i] /\ stock'[i] = stock[i]
    BY <1>2 DEF DeleteItem, TypeOK
  <2> QED BY <2>1 DEF CapAgrees
<1> QED BY <1>1, <1>2

(* For any orders, items, caps and edits under way: the row of the day    *)
(* and the menu fall out of step only when the day's first placement       *)
(* commits the cap it had read before the merchant changed it, or when an  *)
(* edit puts back the cap it had read before another changed it.           *)
THEOREM CapsDriftOnlyByOverlap == Spec => CapDriftsOnlyByOverlap
<1>1. ASSUME StockInv, [Next]_vars, NEW i \in Items, CapAgrees(i), ~CapAgrees(i)'
      PROVE  SeededBefore(i) \/ PutBack(i)
  <2>1. TypeOK BY <1>1 DEF StockInv, IInv
  <2>2. SUFFICES ASSUME ~\E edit \in capEdits : CapCommit(edit)
                 PROVE  SeededBefore(i)
    BY <1>1, <2>1, CommitKeepsAgreement
  <2>3. ~\E d \in Items : DeleteItem(d)
    BY <1>1, <2>1, DeleteKeepsAgreement
  <2>4. menu' = menu BY <1>1, <2>2, <2>3, MenuSteps
  <2>5. ~(stock'[i].exists = stock[i].exists /\ stock'[i].quota = stock[i].quota)
    BY <1>1, <2>4 DEF CapAgrees
  <2>6. PICK o \in Orders : PlaceCommit(o)
    <3>1. ASSUME NEW o \in Orders, DeadlinePasses(o) PROVE FALSE
      BY <2>5, <3>1 DEF DeadlinePasses
    <3>2. ASSUME NEW o \in Orders, NEW actor \in OrderActor, Move(o, actor)
          PROVE  FALSE
      BY <1>1, <2>5, <3>2, MoveKeepsCap
    <3>3. ~UNCHANGED orderVars BY <2>5 DEF orderVars
    <3> QED
      BY <1>1, <2>2, <2>3, <3>1, <3>2, <3>3, StepCases, PlacingCases
  <2>7. orders[o] # orders'[o] BY <1>1, <2>6, PlaceOnStock
  <2> QED BY <1>1, <2>5, <2>6, <2>7, PlaceKeepsCap DEF SeededBefore
<1>2. StockInv /\ [Next]_vars =>
        [\A i \in Items :
           CapAgrees(i) /\ ~CapAgrees(i)' => SeededBefore(i) \/ PutBack(i)]_vars
  BY <1>1
<1> QED BY <1>2, StockInductive, PTL DEF Spec, CapDriftsOnlyByOverlap

=============================================================================
