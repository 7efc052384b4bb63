----------------------------- MODULE FrontOfHouse -----------------------------
(***************************************************************************)
(* The shop floor: sittings at tables composed with the order lifecycle,   *)
(* and the walk-in queue.  Seating a guest of the queue opens no sitting,  *)
(* so neither part sees the other: Init picks the one that acts.           *)
(***************************************************************************)
EXTENDS Dining, Waitlist

VARIABLE part   \* the part of the shop floor that acts

frontOfHouseVars == <<vars, diningVars, queueVars, part>>

FrontOfHouseInit ==
  /\ part \in {"dining", "queue"}
  /\ Init /\ DiningInit /\ QueueInit

DiningStep == part = "dining" /\ DiningNext /\ UNCHANGED queueVars

QueueStep == part = "queue" /\ QueueNext /\ UNCHANGED <<vars, diningVars>>

FrontOfHouseNext == (DiningStep \/ QueueStep) /\ UNCHANGED part

FrontOfHouseSpec ==
  FrontOfHouseInit /\ [][FrontOfHouseNext]_frontOfHouseVars

=============================================================================
