-------------------------------- MODULE Outbox --------------------------------
(***************************************************************************)
(* The transactional outbox: rows that committed transactions appended,    *)
(* the relays of several API instances that publish them to Redis, the     *)
(* gateway that fans them out to rooms, and the operators' console.        *)
(*                                                                         *)
(* Rows are numbered in creation order.  A relay's pass is one database    *)
(* transaction that publishes between its SELECT and its commit, so it is  *)
(* modelled message by message.                                            *)
(***************************************************************************)
EXTENDS Integers, FiniteSets, Sequences, FiniteSetsExt

CONSTANTS
  Aggregates,     \* orders, bookings, tickets: whatever publishes
  AggregateType,  \* [Aggregates -> the aggregateType column]
  Relays,         \* API instances, each with one relay loop
  Operators,      \* requests of the operators' console
  MaxAttempts,    \* attempts before DEAD_LETTER; 10 in the code
  MaxVersion,     \* bound on the events of an aggregate
  MaxFaults       \* bound on outages, process deaths and operator requests

ASSUME AttemptsAssumption == MaxAttempts \in Nat \ {0}
ASSUME OutboxBoundAssumption == MaxVersion \in Nat /\ MaxFaults \in Nat

VARIABLES
  rows,      \* outbox_events, in creation order
  relay,     \* each relay's pass: rows locked and not yet published
  console,   \* each operator's request, between its check and its write
  redisUp,
  copies,    \* how often each row's message was published
  rooms,     \* what reached a Socket.IO room
  faults

vars == <<rows, relay, console, redisUp, copies, rooms, faults>>

-----------------------------------------------------------------------------
RowStatus == {"PENDING", "PUBLISHED", "DEAD_LETTER"}
Row ==
  [aggregate : Aggregates, version : 1 .. MaxVersion, status : RowStatus,
   attempts : 0 .. MaxAttempts, due : BOOLEAN]

IdleRelay == [pc |-> "idle", batch |-> {}, left |-> {}]
IdleConsole == [action |-> "none", row |-> 0]

Init ==
  /\ rows = <<>>
  /\ relay = [r \in Relays |-> IdleRelay]
  /\ console = [a \in Operators |-> IdleConsole]
  /\ redisUp \in BOOLEAN
  /\ copies = <<>>
  /\ rooms = {}
  /\ faults = 0

Versions(g) == {rows[i].version : i \in {j \in DOMAIN rows : rows[j].aggregate = g}}

(* enqueue, inside the transaction that changed the aggregate; versions    *)
(* are consecutive (Ordering's VersionsAreGapless).                        *)
Enqueue(g) ==
  LET version == Cardinality(Versions(g)) + 1 IN
  /\ version <= MaxVersion
  /\ rows' = Append(rows, [aggregate |-> g, version |-> version,
                           status |-> "PENDING", attempts |-> 0, due |-> TRUE])
  /\ copies' = Append(copies, 0)
  /\ UNCHANGED <<relay, console, redisUp, rooms, faults>>

(* availableAt passes.                                                     *)
BecomeDue(i) ==
  /\ rows[i].status = "PENDING"
  /\ ~rows[i].due
  /\ rows' = [rows EXCEPT ![i].due = TRUE]
  /\ UNCHANGED <<relay, console, redisUp, copies, rooms, faults>>

-----------------------------------------------------------------------------
(* OutboxRelayService.drain.                                               *)

Locked(i) == \E r \in Relays : i \in relay[r].batch

(* Mutation of Selectable: FOR UPDATE SKIP LOCKED is dropped.              *)
SelectsLocked == {i \in DOMAIN rows : rows[i].status = "PENDING" /\ rows[i].due}

(* Mutation of Selectable: rows that failed once are never tried again.    *)
SelectsFresh ==
  {i \in DOMAIN rows : /\ rows[i].status = "PENDING" /\ rows[i].due
                       /\ rows[i].attempts = 0 /\ ~Locked(i)}

(* FOR UPDATE SKIP LOCKED; the batch limit is not reached here.            *)
Selectable ==
  {i \in DOMAIN rows : rows[i].status = "PENDING" /\ rows[i].due /\ ~Locked(i)}

DrainSelect(r) ==
  /\ relay[r].pc = "idle"
  /\ Selectable # {}
  /\ relay' = [relay EXCEPT ![r] =
       [pc |-> "publishing", batch |-> Selectable, left |-> Selectable]]
  /\ UNCHANGED <<rows, console, redisUp, copies, rooms, faults>>

(* What the relay sends: the SELECT does not read aggregateType.           *)
Envelope(i) ==
  [eventId |-> i, aggregateId |-> rows[i].aggregate, version |-> rows[i].version]

(* The gateway's switch on event.aggregateType; its default is no room.    *)
RoutedType == {"Order", "Reservation", "RefundRequest"}
aggregateRoom(event) ==
  IF "aggregateType" \in DOMAIN event
  THEN IF event.aggregateType \in RoutedType THEN {event.aggregateId} ELSE {}
  ELSE {}

(* Without a room the event is dropped, before the merchant's room too.    *)
fanOut(event) ==
  rooms \cup {[room |-> room, version |-> event.version] :
                room \in aggregateRoom(event)}

(* Oldest first.                                                           *)
DrainPublish(r) ==
  /\ relay[r].pc = "publishing"
  /\ relay[r].left # {}
  /\ redisUp
  /\ LET i == Min(relay[r].left) IN
       /\ copies' = [copies EXCEPT ![i] = @ + 1]
       /\ rooms' = fanOut(Envelope(i))
       /\ relay' = [relay EXCEPT ![r].left = @ \ {i}]
  /\ UNCHANGED <<rows, console, redisUp, faults>>

DrainCommit(r) ==
  /\ relay[r].pc = "publishing"
  /\ relay[r].left = {}
  /\ rows' = [i \in DOMAIN rows |->
       IF i \in relay[r].batch THEN [rows[i] EXCEPT !.status = "PUBLISHED"]
       ELSE rows[i]]
  /\ relay' = [relay EXCEPT ![r] = IdleRelay]
  /\ UNCHANGED <<console, redisUp, copies, rooms, faults>>

(* Mutation of DrainFail: a rejected publish is logged and passed over.    *)
DrainFailSwallowed(r) ==
  /\ relay[r].pc = "publishing"
  /\ ~redisUp
  /\ relay' = [relay EXCEPT ![r].left = {}]
  /\ UNCHANGED <<rows, console, redisUp, copies, rooms, faults>>

(* publish() rejects: the transaction rolls back, its locks are gone.      *)
DrainFail(r) ==
  /\ relay[r].pc = "publishing"
  /\ relay[r].left # {}
  /\ ~redisUp
  /\ relay' = [relay EXCEPT ![r] = [IdleRelay EXCEPT !.pc = "failed"]]
  /\ UNCHANGED <<rows, console, redisUp, copies, rooms, faults>>

Bumped(row) ==
  [row EXCEPT !.attempts = @ + 1, !.due = FALSE,
              !.status = IF @ = "PENDING" /\ row.attempts + 1 >= MaxAttempts
                         THEN "DEAD_LETTER" ELSE @]

(* Every PENDING row, not only the batch's, one attempt older and backed   *)
(* off.  The UPDATE waits for rows another pass has locked.                *)
recordFailure(r) ==
  /\ relay[r].pc = "failed"
  /\ \A i \in DOMAIN rows : ~Locked(i)
  /\ rows' = [i \in DOMAIN rows |->
       IF rows[i].status = "PENDING" THEN Bumped(rows[i]) ELSE rows[i]]
  /\ relay' = [relay EXCEPT ![r] = IdleRelay]
  /\ UNCHANGED <<console, redisUp, copies, rooms, faults>>

-----------------------------------------------------------------------------
(* AdminOpsService: the status is checked before the transaction.          *)

Requeueable == {"DEAD_LETTER"}
Parkable == {"PENDING"}

ConsoleCheck(a, i) ==
  /\ console[a] = IdleConsole
  /\ faults < MaxFaults
  /\ faults' = faults + 1
  /\ \/ /\ rows[i].status \in Requeueable
        /\ console' = [console EXCEPT ![a] = [action |-> "retry", row |-> i]]
     \/ /\ rows[i].status \in Parkable
        /\ console' = [console EXCEPT ![a] = [action |-> "park", row |-> i]]
  /\ UNCHANGED <<rows, relay, redisUp, copies, rooms>>

retryOutbox(row) ==
  [row EXCEPT !.status = "PENDING", !.attempts = 0, !.due = TRUE]
deadLetter(row) == [row EXCEPT !.status = "DEAD_LETTER"]

ConsoleWrite(a) ==
  LET i == console[a].row IN
  /\ console[a] # IdleConsole
  /\ ~Locked(i)
  /\ rows' = [rows EXCEPT ![i] =
       IF console[a].action = "retry" THEN retryOutbox(@) ELSE deadLetter(@)]
  /\ console' = [console EXCEPT ![a] = IdleConsole]
  /\ UNCHANGED <<relay, redisUp, copies, rooms, faults>>

-----------------------------------------------------------------------------
(* Faults.                                                                 *)

RedisGoesDown ==
  /\ redisUp
  /\ faults < MaxFaults
  /\ redisUp' = FALSE
  /\ faults' = faults + 1
  /\ UNCHANGED <<rows, relay, console, copies, rooms>>

RedisComesUp ==
  /\ ~redisUp
  /\ redisUp' = TRUE
  /\ UNCHANGED <<rows, relay, console, copies, rooms, faults>>

(* The process dies: rows stay PENDING, whatever was published.            *)
RelayDies(r) ==
  /\ relay[r].pc # "idle"
  /\ faults < MaxFaults
  /\ relay' = [relay EXCEPT ![r] = IdleRelay]
  /\ faults' = faults + 1
  /\ UNCHANGED <<rows, console, redisUp, copies, rooms>>

-----------------------------------------------------------------------------
Draining(r) ==
  DrainSelect(r) \/ DrainPublish(r) \/ DrainCommit(r) \/ DrainFail(r)
    \/ recordFailure(r)

Next ==
  \/ \E g \in Aggregates : Enqueue(g)
  \/ \E i \in DOMAIN rows : BecomeDue(i)
  \/ \E r \in Relays : Draining(r) \/ RelayDies(r)
  \/ \E a \in Operators :
       ConsoleWrite(a) \/ \E i \in DOMAIN rows : ConsoleCheck(a, i)
  \/ RedisGoesDown
  \/ RedisComesUp

Spec == Init /\ [][Next]_vars

(* Relays reschedule themselves in a finally block; time passes; outages   *)
(* end; a console request that passed its check is carried out.            *)
FairSpec ==
  /\ Spec
  /\ \A r \in Relays : WF_vars(Draining(r))
  /\ \A a \in Operators : WF_vars(ConsoleWrite(a))
  /\ \A i \in 1 .. MaxVersion * Cardinality(Aggregates) :
       WF_vars(i \in DOMAIN rows /\ BecomeDue(i))
  /\ WF_vars(RedisComesUp)

-----------------------------------------------------------------------------
(* Properties.                                                             *)

(* Every row, pass and request has its type.                               *)
TypeOK ==
  /\ rows \in Seq(Row)
  /\ Len(copies) = Len(rows)
  /\ \A i \in DOMAIN copies : copies[i] \in Nat
  /\ relay \in [Relays -> [pc : {"idle", "publishing", "failed"},
                           batch : SUBSET DOMAIN rows,
                           left : SUBSET DOMAIN rows]]
  /\ console \in [Operators -> [action : {"none", "retry", "park"},
                                row : {0} \cup DOMAIN rows]]
  /\ redisUp \in BOOLEAN
  /\ faults \in 0 .. MaxFaults

(* A row marked PUBLISHED was published: no crash, outage or second relay  *)
(* between the publish and the commit loses a message.                     *)
PublishedWasSent ==
  \A i \in DOMAIN rows : rows[i].status = "PUBLISHED" => copies[i] > 0

(* A message goes out again only after a fault: without outages, deaths    *)
(* and operators, at most once, however many instances run and however     *)
(* long Redis was down at first.                                           *)
DuplicatesNeedFaults ==
  faults = 0 => \A i \in DOMAIN copies : copies[i] <= 1

(* A row is not retried for ever and never forgotten: it is published or   *)
(* parked for an operator, whatever fails on the way.                      *)
PendingIsSettled ==
  \A i \in 1 .. MaxVersion * Cardinality(Aggregates) :
    (i \in DOMAIN rows /\ rows[i].status = "PENDING")
      ~> (i \in DOMAIN rows /\ rows[i].status # "PENDING")

(* The gateway's comment: what is published about an order, a booking or a *)
(* refund ticket reaches that aggregate's room.                            *)
PublishedReachesItsRoom ==
  \A i \in DOMAIN rows :
    copies[i] > 0 /\ AggregateType[rows[i].aggregate] \in RoutedType =>
      [room |-> rows[i].aggregate, version |-> rows[i].version] \in rooms

=============================================================================
