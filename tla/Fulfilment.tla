------------------------------ MODULE Fulfilment ------------------------------
(***************************************************************************)
(* What ordering promises about the day's stock: an order reserves its     *)
(* units once, and each reserved unit is afterwards given back once or     *)
(* sold once, never both.  No statuses, actors, transactions or timers.    *)
(***************************************************************************)
EXTENDS Integers

CONSTANTS Orders, Items, MaxQty

VARIABLES fate, demand, held, sold

vars == <<fate, demand, held, sold>>

Fate == {"none", "held", "released", "sold"}

Init ==
  /\ fate = [o \in Orders |-> "none"]
  /\ demand = [o \in Orders |-> [i \in Items |-> 0]]
  /\ held = [i \in Items |-> 0]
  /\ sold = [i \in Items |-> 0]

Reserve(o) ==
  /\ fate[o] = "none"
  /\ fate' = [fate EXCEPT ![o] = "held"]
  /\ UNCHANGED sold
  /\ \E d \in [Items -> 0 .. MaxQty] :
       /\ demand' = [demand EXCEPT ![o] = d]
       /\ held' = [i \in Items |-> held[i] + d[i]]

Release(o) ==
  /\ fate[o] = "held"
  /\ fate' = [fate EXCEPT ![o] = "released"]
  /\ held' = [i \in Items |-> held[i] - demand[o][i]]
  /\ UNCHANGED <<demand, sold>>

Sell(o) ==
  /\ fate[o] = "held"
  /\ fate' = [fate EXCEPT ![o] = "sold"]
  /\ held' = [i \in Items |-> held[i] - demand[o][i]]
  /\ sold' = [i \in Items |-> sold[i] + demand[o][i]]
  /\ UNCHANGED demand

(* The item leaves the menu: nothing is counted for it any more.           *)
Withdraw(i) ==
  /\ UNCHANGED fate
  /\ demand' = [o \in Orders |-> [demand[o] EXCEPT ![i] = 0]]
  /\ held' = [held EXCEPT ![i] = 0]
  /\ sold' = [sold EXCEPT ![i] = 0]

Next ==
  \/ \E o \in Orders :
       \/ Reserve(o)
       \/ Release(o)
       \/ Sell(o)
  \/ \E i \in Items : Withdraw(i)

Spec == Init /\ [][Next]_vars

=============================================================================
