------------------------------ MODULE OutboxProofs ------------------------------
(***************************************************************************)
(* What holds of the outbox for every set of aggregates, relays and        *)
(* operators, and every number of rows, attempts and faults.               *)
(***************************************************************************)
EXTENDS Outbox, TLAPS, FiniteSetTheorems, SequenceTheorems,
        WellFoundedInduction

-----------------------------------------------------------------------------
(* The invariant.                                                          *)

Pass ==
  [pc : {"idle", "publishing", "failed"}, batch : SUBSET Nat, left : SUBSET Nat]

Request == [action : {"none", "retry", "park"}, row : Nat]

OutboxTyped ==
  /\ rows \in Seq(Row)
  /\ copies \in Seq(Nat) /\ Len(copies) = Len(rows)
  /\ relay \in [Relays -> Pass]
  /\ console \in [Operators -> Request]
  /\ redisUp \in BOOLEAN
  /\ faults \in 0 .. MaxFaults

(* A row that is still to be sent has an attempt left.                     *)
AttemptsLeft ==
  \A i \in DOMAIN rows :
    rows[i].status = "PENDING" => rows[i].attempts < MaxAttempts

(* What a pass has locked is PENDING, and nobody else's; what it has       *)
(* locked and not left was published.                                      *)
PassOK(r) ==
  /\ relay[r].pc # "publishing" => relay[r].batch = {}
  /\ relay[r].left \subseteq relay[r].batch
  /\ \A i \in relay[r].batch : i \in DOMAIN rows /\ rows[i].status = "PENDING"
  /\ \A i \in relay[r].batch \ relay[r].left : copies[i] > 0
  /\ \A s \in Relays \ {r} : relay[r].batch \cap relay[s].batch = {}

RequestOK(a) ==
  console[a] # IdleConsole => console[a].row \in DOMAIN rows

(* Published by a pass that has not committed yet.                         *)
Underway(i) == \E r \in Relays : i \in relay[r].batch \ relay[r].left

(* Before the first fault nobody is at the console, a connection that is   *)
(* down was never up, and a message is out once it is marked or about to   *)
(* be marked as published.                                                 *)
FaultFree ==
  /\ \A a \in Operators : console[a] = IdleConsole
  /\ \A i \in DOMAIN rows :
       \/ copies[i] = 0
       \/ /\ copies[i] = 1 /\ redisUp
          /\ rows[i].status = "PUBLISHED" \/ Underway(i)

OutboxInv ==
  /\ OutboxTyped
  /\ AttemptsLeft
  /\ \A r \in Relays : PassOK(r)
  /\ \A a \in Operators : RequestOK(a)
  /\ PublishedWasSent
  /\ faults = 0 => FaultFree

-----------------------------------------------------------------------------
(* Facts about the data.                                                   *)

LEMMA MinIsMember ==
  ASSUME NEW S \in SUBSET Nat, S # {}
  PROVE  Min(S) \in S
<1>1. IsWellFoundedOn({p \in Nat \X Nat : p[1] < p[2]}, Nat)
  BY NatLessThanWellFounded DEF OpToRel
<1>2. PICK x \in S : \A y \in S : <<y, x>> \notin {p \in Nat \X Nat : p[1] < p[2]}
  BY <1>1, WFMin
<1>3. ASSUME NEW y \in S PROVE x <= y
  <2>1. x \in Nat /\ y \in Nat OBVIOUS
  <2>2. <<y, x>> \notin {p \in Nat \X Nat : p[1] < p[2]} BY <1>2
  <2>3. ~ (y < x) BY <2>1, <2>2
  <2> QED BY <2>1, <2>3
<1> QED BY <1>3 DEF Min

(* A table of the same rows changed one by one.                            *)
LEMMA SameTable ==
  ASSUME NEW old \in Seq(Row), NEW new,
         new = [i \in DOMAIN old |-> new[i]],
         \A i \in DOMAIN old : new[i] \in Row
  PROVE  new \in Seq(Row) /\ DOMAIN new = DOMAIN old /\ Len(new) = Len(old)
<1>1. DOMAIN old = 1 .. Len(old) /\ Len(old) \in Nat BY LenProperties
<1>2. new \in [1 .. Len(old) -> Row] BY <1>1
<1>3. new \in Seq(Row) BY <1>1, <1>2, SeqDef
<1>4. DOMAIN new = 1 .. Len(new) /\ Len(new) \in Nat BY <1>3, LenProperties
<1>5. DOMAIN new = 1 .. Len(old) BY <1>1
<1>6. Len(new) = Len(old) BY <1>1, <1>4, <1>5
<1> QED BY <1>1, <1>3, <1>5, <1>6

LEMMA BumpedRow ==
  ASSUME NEW row \in Row, row.status = "PENDING", row.attempts < MaxAttempts
  PROVE  /\ Bumped(row) \in Row
         /\ Bumped(row).status \in {"PENDING", "DEAD_LETTER"}
         /\ Bumped(row).status = "PENDING" => Bumped(row).attempts < MaxAttempts
<1> DEFINE next == row.attempts + 1
           status == IF next >= MaxAttempts THEN "DEAD_LETTER" ELSE "PENDING"
<1>1. /\ next \in 0 .. MaxAttempts /\ status \in RowStatus
      /\ status \in {"PENDING", "DEAD_LETTER"}
      /\ status = "PENDING" => next < MaxAttempts
  BY AttemptsAssumption DEF Row, RowStatus
<1>2. Bumped(row) =
        [[[row EXCEPT !.attempts = next] EXCEPT !.due = FALSE]
           EXCEPT !.status = status]
  BY DEF Bumped, Row
<1> HIDE DEF next, status
<1>3. [row EXCEPT !.attempts = next] \in Row BY <1>1 DEF Row
<1>4. [[row EXCEPT !.attempts = next] EXCEPT !.due = FALSE] \in Row
  BY <1>3 DEF Row
<1>5. PICK bumped \in Row :
        bumped = [[row EXCEPT !.attempts = next] EXCEPT !.due = FALSE]
  BY <1>4
<1>6. bumped.attempts = next BY <1>5 DEF Row
<1>7. /\ [bumped EXCEPT !.status = status] \in Row
      /\ [bumped EXCEPT !.status = status].status = status
      /\ [bumped EXCEPT !.status = status].attempts = next
  BY <1>1, <1>6 DEF Row
<1> QED BY <1>1, <1>2, <1>5, <1>7

LEMMA RetriedRow ==
  ASSUME NEW row \in Row
  PROVE  /\ retryOutbox(row) \in Row /\ retryOutbox(row).status = "PENDING"
         /\ retryOutbox(row).attempts < MaxAttempts
<1>1. 0 \in 0 .. MaxAttempts /\ 0 < MaxAttempts BY AttemptsAssumption
<1>2. retryOutbox(row) =
        [[[row EXCEPT !.status = "PENDING"] EXCEPT !.attempts = 0]
           EXCEPT !.due = TRUE]
  BY DEF retryOutbox, Row
<1>3. PICK pending \in Row : pending = [row EXCEPT !.status = "PENDING"]
  BY DEF Row, RowStatus
<1>4. pending.status = "PENDING" BY <1>3 DEF Row
<1>5. PICK fresh \in Row : fresh = [pending EXCEPT !.attempts = 0]
  BY <1>1 DEF Row
<1>6. fresh.status = "PENDING" /\ fresh.attempts = 0 BY <1>4, <1>5 DEF Row
<1>7. /\ [fresh EXCEPT !.due = TRUE] \in Row
      /\ [fresh EXCEPT !.due = TRUE].status = "PENDING"
      /\ [fresh EXCEPT !.due = TRUE].attempts = 0
  BY <1>6 DEF Row
<1> QED BY <1>1, <1>2, <1>3, <1>5, <1>7

LEMMA ParkedRow ==
  ASSUME NEW row \in Row
  PROVE  deadLetter(row) \in Row /\ deadLetter(row).status = "DEAD_LETTER"
BY DEF deadLetter, Row, RowStatus

LEMMA PassFacts ==
  ASSUME OutboxTyped, NEW r \in Relays
  PROVE  /\ relay[r] \in Pass
         /\ relay[r].batch \subseteq Nat /\ relay[r].left \subseteq Nat
BY DEF OutboxTyped, Pass

LEMMA EndedPass ==
  /\ IdleRelay \in Pass /\ [IdleRelay EXCEPT !.pc = "failed"] \in Pass
  /\ IdleRelay.batch = {} /\ IdleRelay.left = {}
  /\ [IdleRelay EXCEPT !.pc = "failed"].batch = {}
  /\ [IdleRelay EXCEPT !.pc = "failed"].left = {}
BY DEF IdleRelay, Pass

LEMMA RestingRequest == IdleConsole \in Request
BY DEF IdleConsole, Request

-----------------------------------------------------------------------------
(* The steps.                                                              *)

LEMMA InitOutbox == Init => OutboxInv
<1> SUFFICES ASSUME Init PROVE OutboxInv OBVIOUS
<1>1. /\ rows = <<>> /\ copies = <<>> /\ faults = 0 /\ redisUp \in BOOLEAN
      /\ relay = [r \in Relays |-> IdleRelay]
      /\ console = [a \in Operators |-> IdleConsole]
  BY Zenon DEF Init
<1>2. DOMAIN rows = {} BY <1>1
<1>3. OutboxTyped
  <2>1. rows \in Seq(Row) /\ copies \in Seq(Nat) /\ Len(copies) = Len(rows)
    BY <1>1, EmptySeq
  <2>2. faults \in 0 .. MaxFaults BY <1>1, OutboxBoundAssumption
  <2> QED BY <1>1, <2>1, <2>2, EndedPass, RestingRequest DEF OutboxTyped
<1>4. ASSUME NEW r \in Relays PROVE PassOK(r)
  <2>1. \A s \in Relays : relay[s] = IdleRelay BY <1>1
  <2> QED BY <2>1, EndedPass DEF PassOK
<1>5. \A a \in Operators : console[a] = IdleConsole BY <1>1
<1> QED
  BY <1>2, <1>3, <1>4, <1>5
  DEF OutboxInv, AttemptsLeft, RequestOK, PublishedWasSent, FaultFree

(* A row that changes its status while the passes stay as they are is not  *)
(* locked, is not marked as published, and was still to be sent unless     *)
(* somebody is at the console.                                             *)
RowMoves(i) ==
  /\ rows'[i].status = "PENDING" => rows'[i].attempts < MaxAttempts
  /\ \/ rows'[i].status = rows[i].status
     \/ /\ ~Locked(i) /\ rows'[i].status # "PUBLISHED"
        /\ faults = 0 => rows[i].status = "PENDING"

LEMMA TableStep ==
  ASSUME OutboxInv, UNCHANGED <<copies, redisUp, faults>>,
         rows' \in Seq(Row), DOMAIN rows' = DOMAIN rows, Len(rows') = Len(rows),
         \A i \in DOMAIN rows : RowMoves(i),
         relay' \in [Relays -> Pass],
         \A r \in Relays : /\ relay'[r].batch = relay[r].batch
                           /\ relay'[r].left = relay[r].left
                           /\ relay'[r].pc = relay[r].pc \/ relay[r].batch = {},
         console' \in [Operators -> Request],
         \A a \in Operators : console'[a] \in {console[a], IdleConsole}
  PROVE  OutboxInv'
<1>1. OutboxTyped' BY DEF OutboxInv, OutboxTyped
<1>2. AttemptsLeft' BY DEF AttemptsLeft, RowMoves
<1>3. ASSUME NEW r \in Relays PROVE PassOK(r)'
  <2>1. PassOK(r) BY DEF OutboxInv
  <2>2. \A i \in relay[r].batch : Locked(i) BY DEF Locked
  <2>3. \A i \in relay'[r].batch :
          i \in DOMAIN rows' /\ rows'[i].status = "PENDING"
    BY <2>1, <2>2 DEF PassOK, RowMoves
  <2> QED BY <2>1, <2>3 DEF PassOK
<1>4. \A a \in Operators : RequestOK(a)' BY DEF OutboxInv, RequestOK
<1>5. PublishedWasSent' BY DEF OutboxInv, PublishedWasSent, RowMoves
<1>6. ASSUME faults' = 0 PROVE FaultFree'
  <2>1. FaultFree /\ faults = 0 BY <1>6 DEF OutboxInv
  <2>2. \A i : Underway(i)' <=> Underway(i) BY DEF Underway
  <2>3. \A i : Underway(i) => Locked(i) BY DEF Underway, Locked
  <2>4. ASSUME NEW i \in DOMAIN rows, copies[i] # 0
        PROVE  rows'[i].status = "PUBLISHED" \/ Underway(i)'
    <3>1. rows[i].status = "PUBLISHED" \/ Underway(i) BY <2>1, <2>4 DEF FaultFree
    <3>2. RowMoves(i) OBVIOUS
    <3> QED BY <2>1, <2>2, <2>3, <3>1, <3>2 DEF RowMoves
  <2> QED BY <2>1, <2>4 DEF FaultFree
<1> QED BY <1>1, <1>2, <1>3, <1>4, <1>5, <1>6 DEF OutboxInv

LEMMA BecomeDueStep ==
  ASSUME OutboxInv, NEW j \in DOMAIN rows, BecomeDue(j)
  PROVE  OutboxInv'
<1>1. /\ rows' = [rows EXCEPT ![j].due = TRUE]
      /\ UNCHANGED <<relay, console, copies, redisUp, faults>>
  BY DEF BecomeDue
<1>2. rows \in Seq(Row) /\ relay \in [Relays -> Pass]
      /\ console \in [Operators -> Request]
  BY DEF OutboxInv, OutboxTyped
<1>3. DOMAIN rows = 1 .. Len(rows) /\ \A i \in DOMAIN rows : rows[i] \in Row
  BY <1>2, LenProperties, ElementOfSeq
<1>4. PICK row \in Row : row = rows[j] BY <1>3
<1>5. /\ [row EXCEPT !.due = TRUE] \in Row
      /\ [row EXCEPT !.due = TRUE].status = row.status
      /\ [row EXCEPT !.due = TRUE].attempts = row.attempts
  BY DEF Row
<1>6. \A i \in DOMAIN rows :
        rows'[i] = IF i = j THEN [row EXCEPT !.due = TRUE] ELSE rows[i]
  BY <1>1, <1>4
<1>7. rows' = [i \in DOMAIN rows |-> rows'[i]] BY <1>1
<1>8. \A i \in DOMAIN rows : rows'[i] \in Row BY <1>3, <1>5, <1>6
<1>9. rows' \in Seq(Row) /\ DOMAIN rows' = DOMAIN rows /\ Len(rows') = Len(rows)
  BY <1>2, <1>7, <1>8, SameTable
<1>10. \A i \in DOMAIN rows : RowMoves(i)
  BY <1>4, <1>5, <1>6 DEF OutboxInv, AttemptsLeft, RowMoves
<1> QED BY <1>1, <1>2, <1>9, <1>10, TableStep

LEMMA ConsoleWriteStep ==
  ASSUME OutboxInv, NEW a \in Operators, ConsoleWrite(a)
  PROVE  OutboxInv'
<1> DEFINE j == console[a].row
           to == IF console[a].action = "retry" THEN retryOutbox(rows[j])
                 ELSE deadLetter(rows[j])
<1>1. /\ console[a] # IdleConsole /\ ~Locked(j)
      /\ rows' = [rows EXCEPT ![j] = to]
      /\ console' = [console EXCEPT ![a] = IdleConsole]
      /\ UNCHANGED <<relay, copies, redisUp, faults>>
  BY DEF ConsoleWrite
<1>2. /\ rows \in Seq(Row) /\ relay \in [Relays -> Pass]
      /\ console \in [Operators -> Request] /\ faults # 0
      /\ j \in DOMAIN rows
  BY <1>1 DEF OutboxInv, OutboxTyped, RequestOK, FaultFree
<1>3. DOMAIN rows = 1 .. Len(rows) /\ \A i \in DOMAIN rows : rows[i] \in Row
  BY <1>2, LenProperties, ElementOfSeq
<1>4. /\ to \in Row /\ to.status # "PUBLISHED"
      /\ to.status = "PENDING" => to.attempts < MaxAttempts
  BY <1>2, <1>3, RetriedRow, ParkedRow
<1> HIDE DEF j, to
<1>5. \A i \in DOMAIN rows : rows'[i] = IF i = j THEN to ELSE rows[i]
  BY <1>1
<1>6. rows' = [i \in DOMAIN rows |-> rows'[i]] BY <1>1
<1>7. \A i \in DOMAIN rows : rows'[i] \in Row BY <1>3, <1>4, <1>5
<1>8. rows' \in Seq(Row) /\ DOMAIN rows' = DOMAIN rows /\ Len(rows') = Len(rows)
  BY <1>2, <1>6, <1>7, SameTable
<1>9. \A i \in DOMAIN rows : RowMoves(i)
  BY <1>1, <1>2, <1>4, <1>5 DEF OutboxInv, AttemptsLeft, RowMoves
<1>10. console' \in [Operators -> Request] BY <1>1, <1>2, RestingRequest
<1>11. \A c \in Operators : console'[c] \in {console[c], IdleConsole}
  BY <1>1, <1>2
<1> QED BY <1>1, <1>2, <1>8, <1>9, <1>10, <1>11, TableStep

LEMMA FailureStep ==
  ASSUME OutboxInv, NEW r \in Relays, recordFailure(r)
  PROVE  OutboxInv'
<1>1. /\ relay[r].pc = "failed" /\ \A i \in DOMAIN rows : ~Locked(i)
      /\ rows' = [i \in DOMAIN rows |->
           IF rows[i].status = "PENDING" THEN Bumped(rows[i]) ELSE rows[i]]
      /\ relay' = [relay EXCEPT ![r] = IdleRelay]
      /\ UNCHANGED <<console, copies, redisUp, faults>>
  BY DEF recordFailure
<1>2. /\ rows \in Seq(Row) /\ relay \in [Relays -> Pass]
      /\ console \in [Operators -> Request]
      /\ AttemptsLeft /\ PassOK(r)
  BY DEF OutboxInv, OutboxTyped
<1>3. DOMAIN rows = 1 .. Len(rows) /\ \A i \in DOMAIN rows : rows[i] \in Row
  BY <1>2, LenProperties, ElementOfSeq
<1>4. ASSUME NEW i \in DOMAIN rows PROVE rows'[i] \in Row /\ RowMoves(i)
  <2>1. PICK row \in Row : row = rows[i] BY <1>3
  <2>2. CASE row.status = "PENDING"
    <3>1. rows'[i] = Bumped(row) BY <1>1, <2>1, <2>2
    <3>2. row.attempts < MaxAttempts BY <1>2, <2>1, <2>2 DEF AttemptsLeft
    <3>3. /\ Bumped(row) \in Row
          /\ Bumped(row).status \in {"PENDING", "DEAD_LETTER"}
          /\ Bumped(row).status = "PENDING" => Bumped(row).attempts < MaxAttempts
      BY <2>2, <3>2, BumpedRow
    <3> QED BY <1>1, <2>1, <2>2, <3>1, <3>3 DEF RowMoves
  <2>3. CASE row.status # "PENDING"
    <3>1. rows'[i] = row BY <1>1, <2>1, <2>3
    <3> QED BY <2>1, <2>3, <3>1 DEF RowMoves
  <2> QED BY <2>2, <2>3
<1>5. rows' = [i \in DOMAIN rows |-> rows'[i]] BY <1>1
<1>6. rows' \in Seq(Row) /\ DOMAIN rows' = DOMAIN rows /\ Len(rows') = Len(rows)
  BY <1>2, <1>4, <1>5, SameTable
<1>7. relay[r].batch = {} /\ relay[r].left = {} BY <1>1, <1>2 DEF PassOK
<1>8. relay' \in [Relays -> Pass] BY <1>1, <1>2, EndedPass
<1>9. \A s \in Relays : /\ relay'[s].batch = relay[s].batch
                        /\ relay'[s].left = relay[s].left
                        /\ relay'[s].pc = relay[s].pc \/ relay[s].batch = {}
  BY <1>1, <1>2, <1>7, EndedPass
<1> QED BY <1>1, <1>2, <1>4, <1>6, <1>8, <1>9, TableStep

(* Steps that touch neither the rows, nor a pass, nor what was sent.       *)
LEMMA AsideStep ==
  ASSUME OutboxInv, UNCHANGED <<rows, relay, copies>>,
         redisUp' \in BOOLEAN, faults' \in 0 .. MaxFaults,
         console' \in [Operators -> Request],
         \A a \in Operators : RequestOK(a)',
         faults' = 0 => /\ faults = 0 /\ console' = console
                        /\ redisUp => redisUp'
  PROVE  OutboxInv'
<1>1. OutboxTyped' BY DEF OutboxInv, OutboxTyped
<1>2. \A r \in Relays : PassOK(r)' BY DEF OutboxInv, PassOK
<1>3. AttemptsLeft' /\ PublishedWasSent'
  BY DEF OutboxInv, AttemptsLeft, PublishedWasSent
<1>4. faults' = 0 => FaultFree' BY DEF OutboxInv, FaultFree, Underway
<1> QED BY <1>1, <1>2, <1>3, <1>4 DEF OutboxInv

LEMMA ConsoleCheckStep ==
  ASSUME OutboxInv, NEW a \in Operators, NEW i \in DOMAIN rows, ConsoleCheck(a, i)
  PROVE  OutboxInv'
<1>1. PICK action \in {"retry", "park"} :
        console' = [console EXCEPT ![a] = [action |-> action, row |-> i]]
  BY DEF ConsoleCheck
<1>2. /\ faults < MaxFaults /\ faults' = faults + 1
      /\ UNCHANGED <<rows, relay, redisUp, copies>>
  BY DEF ConsoleCheck
<1>3. /\ rows \in Seq(Row) /\ console \in [Operators -> Request]
      /\ faults \in 0 .. MaxFaults /\ redisUp \in BOOLEAN
      /\ \A c \in Operators : RequestOK(c)
  BY DEF OutboxInv, OutboxTyped
<1>4. DOMAIN rows = 1 .. Len(rows) BY <1>3, LenProperties
<1>5. [action |-> action, row |-> i] \in Request BY <1>4 DEF Request
<1>6. console' \in [Operators -> Request] BY <1>1, <1>3, <1>5
<1>7. \A c \in Operators : RequestOK(c)' BY <1>1, <1>2, <1>3 DEF RequestOK
<1>8. faults' \in 0 .. MaxFaults /\ faults' # 0
  BY <1>2, <1>3, OutboxBoundAssumption
<1> QED BY <1>2, <1>3, <1>6, <1>7, <1>8, AsideStep

LEMMA RedisStep ==
  ASSUME OutboxInv, RedisGoesDown \/ RedisComesUp
  PROVE  OutboxInv'
<1>1. /\ console \in [Operators -> Request] /\ faults \in 0 .. MaxFaults
      /\ \A a \in Operators : RequestOK(a)
  BY DEF OutboxInv, OutboxTyped
<1>2. UNCHANGED <<rows, relay, console, copies>>
  BY DEF RedisGoesDown, RedisComesUp
<1>3. \A a \in Operators : RequestOK(a)' BY <1>1, <1>2 DEF RequestOK
<1>4. CASE RedisGoesDown
  <2>1. faults < MaxFaults /\ faults' = faults + 1 /\ redisUp' = FALSE
    BY <1>4 DEF RedisGoesDown
  <2>2. faults' \in 0 .. MaxFaults /\ faults' # 0
    BY <1>1, <2>1, OutboxBoundAssumption
  <2> QED BY <1>1, <1>2, <1>3, <2>1, <2>2, AsideStep
<1>5. CASE RedisComesUp
  <2>1. faults' = faults /\ redisUp' = TRUE BY <1>5 DEF RedisComesUp
  <2> QED BY <1>1, <1>2, <1>3, <2>1, AsideStep
<1> QED BY <1>4, <1>5

(* A pass whose transaction is rolled back releases what it locked.        *)
LEMMA PassEnds ==
  ASSUME OutboxInv, NEW r \in Relays,
         DrainFail(r) \/ RelayDies(r)
  PROVE  OutboxInv'
<1>1. PICK ended \in {IdleRelay, [IdleRelay EXCEPT !.pc = "failed"]} :
        relay' = [relay EXCEPT ![r] = ended]
  BY DEF DrainFail, RelayDies
<1>2. UNCHANGED <<rows, console, redisUp, copies>> BY DEF DrainFail, RelayDies
<1>3. \/ faults' = faults /\ ~redisUp
      \/ faults < MaxFaults /\ faults' = faults + 1
  BY DEF DrainFail, RelayDies
<1>4. /\ ended \in Pass /\ ended.batch = {} /\ ended.left = {}
  BY EndedPass
<1>5. relay \in [Relays -> Pass] /\ faults \in 0 .. MaxFaults
  BY DEF OutboxInv, OutboxTyped
<1>6. \A s \in Relays : relay'[s] = IF s = r THEN ended ELSE relay[s]
  BY <1>1, <1>5
<1>7. OutboxTyped'
  <2>1. relay' \in [Relays -> Pass] BY <1>1, <1>4, <1>5
  <2>2. faults' \in 0 .. MaxFaults BY <1>3, <1>5, OutboxBoundAssumption
  <2> QED BY <1>2, <2>1, <2>2 DEF OutboxInv, OutboxTyped
<1>8. ASSUME NEW s \in Relays PROVE PassOK(s)'
  <2>1. PassOK(s) BY DEF OutboxInv
  <2>2. CASE s = r BY <1>4, <1>6, <2>2 DEF PassOK
  <2>3. CASE s # r BY <1>2, <1>4, <1>6, <2>1, <2>3 DEF PassOK
  <2> QED BY <2>2, <2>3
<1>9. \A a \in Operators : RequestOK(a)' BY <1>2 DEF OutboxInv, RequestOK
<1>10. AttemptsLeft' /\ PublishedWasSent'
  BY <1>2 DEF OutboxInv, AttemptsLeft, PublishedWasSent
<1>11. ASSUME faults' = 0 PROVE FaultFree'
  <2>1. faults = 0 /\ ~redisUp BY <1>3, <1>5, <1>11
  <2> QED BY <1>2, <2>1 DEF OutboxInv, FaultFree
<1> QED BY <1>7, <1>8, <1>9, <1>10, <1>11 DEF OutboxInv

LEMMA SelectStep ==
  ASSUME OutboxInv, NEW r \in Relays, DrainSelect(r)
  PROVE  OutboxInv'
<1> DEFINE pass == [pc |-> "publishing", batch |-> Selectable, left |-> Selectable]
<1>1. /\ relay[r].pc = "idle" /\ relay' = [relay EXCEPT ![r] = pass]
      /\ UNCHANGED <<rows, console, redisUp, copies, faults>>
  BY DEF DrainSelect
<1>2. /\ relay \in [Relays -> Pass] /\ rows \in Seq(Row)
      /\ relay[r].batch = {} /\ relay[r].left = {}
  BY <1>1 DEF OutboxInv, OutboxTyped, PassOK
<1>3. DOMAIN rows = 1 .. Len(rows) BY <1>2, LenProperties
<1>4. \A i \in Selectable : /\ i \in DOMAIN rows /\ rows[i].status = "PENDING"
                            /\ \A s \in Relays : i \notin relay[s].batch
  BY DEF Selectable, Locked
<1>5. Selectable \subseteq Nat BY <1>3, <1>4
<1>6. /\ pass \in Pass /\ pass.batch = Selectable /\ pass.left = Selectable
      /\ pass.pc = "publishing"
  BY <1>5 DEF Pass
<1> HIDE DEF pass
<1>7. \A s \in Relays : relay'[s] = IF s = r THEN pass ELSE relay[s]
  BY <1>1, <1>2
<1>8. OutboxTyped'
  <2>1. relay' \in [Relays -> Pass] BY <1>1, <1>2, <1>6
  <2> QED BY <1>1, <2>1 DEF OutboxInv, OutboxTyped
<1>9. ASSUME NEW s \in Relays PROVE PassOK(s)'
  <2>1. PassOK(s) BY DEF OutboxInv
  <2>2. CASE s = r BY <1>1, <1>4, <1>6, <1>7, <2>2 DEF PassOK
  <2>3. CASE s # r BY <1>1, <1>4, <1>6, <1>7, <2>1, <2>3 DEF PassOK
  <2> QED BY <2>2, <2>3
<1>10. \A a \in Operators : RequestOK(a)' BY <1>1 DEF OutboxInv, RequestOK
<1>11. AttemptsLeft' /\ PublishedWasSent'
  BY <1>1 DEF OutboxInv, AttemptsLeft, PublishedWasSent
<1>12. ASSUME faults' = 0 PROVE FaultFree'
  <2>1. \A i : Underway(i) => Underway(i)' BY <1>2, <1>7 DEF Underway
  <2> QED BY <1>1, <1>12, <2>1 DEF OutboxInv, FaultFree
<1> QED BY <1>8, <1>9, <1>10, <1>11, <1>12 DEF OutboxInv

(* The message that goes out belongs to the pass, so nobody else sent it.  *)
LEMMA PublishStep ==
  ASSUME OutboxInv, NEW r \in Relays, DrainPublish(r)
  PROVE  OutboxInv'
<1>0. PICK j : j = Min(relay[r].left) OBVIOUS
<1> DEFINE pass == [relay[r] EXCEPT !.left = @ \ {j}]
<1>1. /\ relay[r].pc = "publishing" /\ relay[r].left # {} /\ redisUp
      /\ copies' = [copies EXCEPT ![j] = @ + 1]
      /\ relay' = [relay EXCEPT ![r] = pass]
      /\ UNCHANGED <<rows, console, redisUp, faults>>
  BY <1>0 DEF DrainPublish
<1>2. /\ relay \in [Relays -> Pass] /\ rows \in Seq(Row)
      /\ copies \in Seq(Nat) /\ Len(copies) = Len(rows)
      /\ relay[r] \in Pass /\ PassOK(r)
  BY DEF OutboxInv, OutboxTyped
<1>3. j \in relay[r].left BY <1>0, <1>1, <1>2, PassFacts, MinIsMember DEF OutboxInv
<1>4. /\ pass \in Pass /\ pass.pc = "publishing" /\ pass.batch = relay[r].batch
      /\ pass.left = relay[r].left \ {j}
  BY <1>1, <1>2 DEF Pass
<1> HIDE DEF pass
<1>5. /\ j \in relay[r].batch /\ j \in DOMAIN rows
      /\ rows[j].status = "PENDING"
  BY <1>2, <1>3 DEF PassOK
<1>6. DOMAIN rows = 1 .. Len(rows) /\ DOMAIN copies = DOMAIN rows
  BY <1>2, LenProperties
<1>7. copies[j] \in Nat BY <1>2, <1>5, <1>6, ElementOfSeq
<1>8. /\ copies' \in Seq(Nat) /\ Len(copies') = Len(copies)
      /\ \A i \in DOMAIN rows :
           copies'[i] = IF i = j THEN copies[j] + 1 ELSE copies[i]
  <2>1. copies' = [copies EXCEPT ![j] = copies[j] + 1] BY <1>1
  <2>2. copies[j] + 1 \in Nat BY <1>7
  <2> QED BY <1>2, <1>5, <1>6, <2>1, <2>2, ExceptSeq
<1>9. \A i \in DOMAIN rows : copies[i] > 0 => copies'[i] > 0
  BY <1>7, <1>8
<1>10. \A s \in Relays : relay'[s] = IF s = r THEN pass ELSE relay[s]
  BY <1>1, <1>2
<1>11. OutboxTyped'
  <2>1. relay' \in [Relays -> Pass] BY <1>1, <1>2, <1>4
  <2> QED BY <1>1, <1>2, <1>8, <2>1 DEF OutboxInv, OutboxTyped
<1>12. ASSUME NEW s \in Relays PROVE PassOK(s)'
  <2>1. /\ PassOK(s) /\ \A t \in Relays \ {s} :
             relay[s].batch \cap relay[t].batch = {}
    BY DEF OutboxInv, PassOK
  <2>2. relay'[s].batch = relay[s].batch /\ relay'[s].pc = relay[s].pc
    BY <1>1, <1>4, <1>10
  <2>3. \A t \in Relays : relay'[t].batch = relay[t].batch
    BY <1>4, <1>10
  <2>4. \A i \in relay'[s].batch \ relay'[s].left : copies'[i] > 0
    <3>1. CASE s = r
      <4>1. \A i \in pass.batch \ pass.left :
              i = j \/ i \in relay[r].batch \ relay[r].left
        BY <1>4
      <4>2. copies'[j] > 0 BY <1>5, <1>7, <1>8
      <4> QED BY <1>2, <1>9, <1>10, <3>1, <4>1, <4>2 DEF PassOK
    <3>2. CASE s # r
      BY <1>9, <1>10, <2>1, <3>2 DEF PassOK
    <3> QED BY <3>1, <3>2
  <2>5. relay'[s].left \subseteq relay'[s].batch
    BY <1>4, <1>10, <2>1 DEF PassOK
  <2> QED BY <1>1, <2>1, <2>2, <2>3, <2>4, <2>5 DEF PassOK
<1>13. \A a \in Operators : RequestOK(a)' BY <1>1 DEF OutboxInv, RequestOK
<1>14. AttemptsLeft' BY <1>1 DEF OutboxInv, AttemptsLeft
<1>15. PublishedWasSent' BY <1>1, <1>9 DEF OutboxInv, PublishedWasSent
<1>16. ASSUME faults' = 0 PROVE FaultFree'
  <2>1. FaultFree BY <1>1, <1>16 DEF OutboxInv
  <2>2. ~ Underway(j)
    <3>1. \A s \in Relays \ {r} : j \notin relay[s].batch
      BY <1>2, <1>5 DEF PassOK
    <3> QED BY <1>3, <3>1 DEF Underway
  <2>3. copies[j] = 0 BY <1>5, <2>1, <2>2 DEF FaultFree
  <2>4. copies'[j] = 1 BY <1>5, <1>8, <2>3
  <2>5. Underway(j)' BY <1>4, <1>5, <1>10 DEF Underway
  <2>6. \A i : Underway(i) => Underway(i)' BY <1>4, <1>10 DEF Underway
  <2> QED BY <1>1, <1>8, <2>1, <2>4, <2>5, <2>6 DEF FaultFree
<1> QED BY <1>11, <1>12, <1>13, <1>14, <1>15, <1>16 DEF OutboxInv

LEMMA CommitStep ==
  ASSUME OutboxInv, NEW r \in Relays, DrainCommit(r)
  PROVE  OutboxInv'
<1> DEFINE sent == relay[r].batch
<1>1. /\ relay[r].pc = "publishing" /\ relay[r].left = {}
      /\ rows' = [i \in DOMAIN rows |->
           IF i \in sent THEN [rows[i] EXCEPT !.status = "PUBLISHED"] ELSE rows[i]]
      /\ relay' = [relay EXCEPT ![r] = IdleRelay]
      /\ UNCHANGED <<console, redisUp, copies, faults>>
  BY DEF DrainCommit
<1>2. /\ relay \in [Relays -> Pass] /\ rows \in Seq(Row) /\ PassOK(r)
      /\ AttemptsLeft /\ PublishedWasSent
  BY DEF OutboxInv, OutboxTyped
<1>3. \A i \in sent : i \in DOMAIN rows /\ copies[i] > 0
  BY <1>1, <1>2 DEF PassOK
<1> HIDE DEF sent
<1>4. DOMAIN rows = 1 .. Len(rows) /\ \A i \in DOMAIN rows : rows[i] \in Row
  BY <1>2, LenProperties, ElementOfSeq
<1>5. ASSUME NEW i \in DOMAIN rows
      PROVE  /\ rows'[i] \in Row
             /\ i \in sent => rows'[i].status = "PUBLISHED"
             /\ i \notin sent => rows'[i] = rows[i]
  <2>1. PICK row \in Row : row = rows[i] BY <1>4
  <2>2. /\ [row EXCEPT !.status = "PUBLISHED"] \in Row
        /\ [row EXCEPT !.status = "PUBLISHED"].status = "PUBLISHED"
    BY DEF Row, RowStatus
  <2>3. rows'[i] = IF i \in sent THEN [row EXCEPT !.status = "PUBLISHED"] ELSE row
    BY <1>1, <2>1
  <2> QED BY <2>1, <2>2, <2>3
<1>6. rows' = [i \in DOMAIN rows |-> rows'[i]] BY <1>1
<1>7. rows' \in Seq(Row) /\ DOMAIN rows' = DOMAIN rows /\ Len(rows') = Len(rows)
  BY <1>2, <1>5, <1>6, SameTable
<1>8. \A s \in Relays : relay'[s] = IF s = r THEN IdleRelay ELSE relay[s]
  BY <1>1, <1>2
<1>9. OutboxTyped'
  <2>1. relay' \in [Relays -> Pass] BY <1>1, <1>2, EndedPass
  <2> QED BY <1>1, <1>7, <2>1 DEF OutboxInv, OutboxTyped
<1>10. AttemptsLeft' BY <1>2, <1>5, <1>7 DEF AttemptsLeft
<1>11. ASSUME NEW s \in Relays PROVE PassOK(s)'
  <2>1. PassOK(s) BY DEF OutboxInv
  <2>2. CASE s = r BY <1>8, <2>2, EndedPass DEF PassOK
  <2>3. CASE s # r
    <3>1. relay'[s] = relay[s] /\ relay[s].batch \cap sent = {}
      BY <1>8, <2>1, <2>3 DEF PassOK, sent
    <3>2. \A t \in Relays \ {s} : relay'[s].batch \cap relay'[t].batch = {}
      BY <1>8, <2>1, <3>1, EndedPass DEF PassOK
    <3>3. \A i \in relay'[s].batch : i \in DOMAIN rows' /\ rows'[i] = rows[i]
      BY <1>5, <1>7, <2>1, <3>1 DEF PassOK
    <3> QED BY <1>1, <2>1, <3>1, <3>2, <3>3 DEF PassOK
  <2> QED BY <2>2, <2>3
<1>12. \A a \in Operators : RequestOK(a)' BY <1>1, <1>7 DEF OutboxInv, RequestOK
<1>13. PublishedWasSent' BY <1>1, <1>2, <1>3, <1>5, <1>7 DEF PublishedWasSent
<1>14. ASSUME faults' = 0 PROVE FaultFree'
  <2>1. FaultFree BY <1>1, <1>14 DEF OutboxInv
  <2>2. ASSUME NEW i \in DOMAIN rows, rows[i].status = "PUBLISHED" \/ Underway(i)
        PROVE  rows'[i].status = "PUBLISHED" \/ Underway(i)'
    <3>1. CASE i \in sent BY <1>5, <3>1
    <3>2. CASE i \notin sent /\ rows[i].status = "PUBLISHED" BY <1>5, <3>2
    <3>3. CASE i \notin sent /\ Underway(i)
      BY <1>8, <3>3 DEF Underway, sent
    <3> QED BY <2>2, <3>1, <3>2, <3>3
  <2> QED BY <1>1, <1>7, <2>1, <2>2 DEF FaultFree
<1> QED BY <1>9, <1>10, <1>11, <1>12, <1>13, <1>14 DEF OutboxInv

LEMMA EnqueueStep ==
  ASSUME OutboxInv, NEW g \in Aggregates, Enqueue(g)
  PROVE  OutboxInv'
<1> DEFINE version == Cardinality(Versions(g)) + 1
           row == [aggregate |-> g, version |-> version, status |-> "PENDING",
                   attempts |-> 0, due |-> TRUE]
           n == Len(rows) + 1
<1>1. /\ version <= MaxVersion /\ rows' = Append(rows, row)
      /\ copies' = Append(copies, 0)
      /\ UNCHANGED <<relay, console, redisUp, faults>>
  BY DEF Enqueue
<1>2. /\ rows \in Seq(Row) /\ copies \in Seq(Nat) /\ Len(copies) = Len(rows)
      /\ relay \in [Relays -> Pass] /\ console \in [Operators -> Request]
  BY DEF OutboxInv, OutboxTyped
<1>3. /\ Len(rows) \in Nat /\ DOMAIN rows = 1 .. Len(rows)
      /\ DOMAIN copies = 1 .. Len(rows)
      /\ \A i \in DOMAIN rows : rows[i] \in Row
  BY <1>2, LenProperties, ElementOfSeq
<1>4. version \in 1 .. MaxVersion
  <2>1. Versions(g) \subseteq 1 .. MaxVersion BY <1>3 DEF Versions, Row
  <2>2. 1 \in Int /\ MaxVersion \in Int BY OutboxBoundAssumption
  <2>3. IsFiniteSet(1 .. MaxVersion) BY <2>2, FS_Interval
  <2>4. IsFiniteSet(Versions(g)) BY <2>1, <2>3, FS_Subset
  <2>5. Cardinality(Versions(g)) \in Nat BY <2>4, FS_CardinalityType
  <2> QED BY <1>1, <2>5, OutboxBoundAssumption
<1> HIDE DEF version
<1>5. /\ row \in Row /\ row.status = "PENDING" /\ row.attempts = 0
      /\ 0 < MaxAttempts
  <2>1. 0 \in 0 .. MaxAttempts /\ 0 < MaxAttempts BY AttemptsAssumption
  <2> QED BY <1>4, <2>1 DEF Row, RowStatus
<1> HIDE DEF row
<1>6. /\ rows' \in Seq(Row) /\ Len(rows') = n /\ rows'[n] = row
      /\ \A i \in 1 .. Len(rows) : rows'[i] = rows[i]
  BY <1>1, <1>2, <1>5, AppendProperties
<1>7. /\ copies' \in Seq(Nat) /\ Len(copies') = n /\ copies'[n] = 0
      /\ \A i \in 1 .. Len(rows) : copies'[i] = copies[i]
  BY <1>1, <1>2, AppendProperties
<1>8. DOMAIN rows' = DOMAIN rows \cup {n}
  <2>1. DOMAIN rows' = 1 .. Len(rows') BY <1>6, LenProperties
  <2> QED BY <1>3, <1>6, <2>1
<1>9. n \notin DOMAIN rows BY <1>3
<1> HIDE DEF n
<1>10. OutboxTyped' BY <1>1, <1>6, <1>7 DEF OutboxInv, OutboxTyped
<1>11. AttemptsLeft'
  BY <1>3, <1>5, <1>6, <1>8 DEF OutboxInv, AttemptsLeft
<1>12. ASSUME NEW r \in Relays PROVE PassOK(r)'
  <2>1. PassOK(r) BY DEF OutboxInv
  <2>2. \A i \in relay[r].batch : i \in 1 .. Len(rows) BY <1>3, <2>1 DEF PassOK
  <2> QED BY <1>1, <1>3, <1>6, <1>7, <1>8, <2>1, <2>2 DEF PassOK
<1>13. \A a \in Operators : RequestOK(a)' BY <1>1, <1>8 DEF OutboxInv, RequestOK
<1>14. PublishedWasSent'
  BY <1>3, <1>5, <1>6, <1>7, <1>8 DEF OutboxInv, PublishedWasSent
<1>15. ASSUME faults' = 0 PROVE FaultFree'
  <2>1. FaultFree BY <1>1, <1>15 DEF OutboxInv
  <2>2. \A i : Underway(i)' <=> Underway(i) BY <1>1 DEF Underway
  <2> QED BY <1>1, <1>3, <1>6, <1>7, <1>8, <2>1, <2>2 DEF FaultFree
<1> QED BY <1>10, <1>11, <1>12, <1>13, <1>14, <1>15 DEF OutboxInv

-----------------------------------------------------------------------------
(* The theorems.                                                           *)

(* Every step of a relay, an operator, a publisher or Redis keeps it.      *)
LEMMA NextOutbox == OutboxInv /\ [Next]_vars => OutboxInv'
<1> SUFFICES ASSUME OutboxInv, [Next]_vars PROVE OutboxInv' OBVIOUS
<1>1. CASE UNCHANGED vars
  <2>1. UNCHANGED <<rows, relay, console, redisUp, copies, faults>>
    BY <1>1 DEF vars
  <2>2. \A a \in Operators : RequestOK(a)' BY <2>1 DEF OutboxInv, RequestOK
  <2> QED BY <2>1, <2>2, AsideStep DEF OutboxInv, OutboxTyped
<1>2. ASSUME NEW r \in Relays, Draining(r) \/ RelayDies(r) PROVE OutboxInv'
  BY Zenon, <1>2, SelectStep, PublishStep, CommitStep, FailureStep, PassEnds
  DEF Draining
<1>3. ASSUME NEW a \in Operators,
             ConsoleWrite(a) \/ \E i \in DOMAIN rows : ConsoleCheck(a, i)
      PROVE  OutboxInv'
  BY Zenon, <1>3, ConsoleWriteStep, ConsoleCheckStep
<1>4. ASSUME NEW g \in Aggregates, Enqueue(g) PROVE OutboxInv'
  BY <1>4, EnqueueStep
<1>5. ASSUME NEW i \in DOMAIN rows, BecomeDue(i) PROVE OutboxInv'
  BY <1>5, BecomeDueStep
<1> QED BY Zenon, <1>1, <1>2, <1>3, <1>4, <1>5, RedisStep DEF Next

(* The invariant holds in every reachable state.                           *)
THEOREM OutboxInductive == Spec => []OutboxInv
BY InitOutbox, NextOutbox, PTL DEF Spec

(* Every row, pass and request has its type.                               *)
THEOREM OutboxTypeCorrect == Spec => []TypeOK
<1>1. ASSUME OutboxInv PROVE TypeOK
  <2>1. /\ rows \in Seq(Row) /\ copies \in Seq(Nat) /\ Len(copies) = Len(rows)
        /\ relay \in [Relays -> Pass] /\ console \in [Operators -> Request]
        /\ redisUp \in BOOLEAN /\ faults \in 0 .. MaxFaults
    BY <1>1 DEF OutboxInv, OutboxTyped
  <2>2. \A i \in DOMAIN copies : copies[i] \in Nat
    BY <2>1, LenProperties, ElementOfSeq
  <2>3. ASSUME NEW r \in Relays
        PROVE  relay[r] \in [pc : {"idle", "publishing", "failed"},
                             batch : SUBSET DOMAIN rows,
                             left : SUBSET DOMAIN rows]
    <3>1. relay[r] \in Pass /\ relay[r].batch \subseteq DOMAIN rows
          /\ relay[r].left \subseteq DOMAIN rows
      BY <1>1, <2>1 DEF OutboxInv, PassOK
    <3> QED BY <3>1 DEF Pass
  <2>4. ASSUME NEW a \in Operators
        PROVE  console[a] \in [action : {"none", "retry", "park"},
                               row : {0} \cup DOMAIN rows]
    <3>1. console[a] \in Request /\ RequestOK(a) BY <1>1, <2>1 DEF OutboxInv
    <3>2. CASE console[a] = IdleConsole BY <3>2 DEF IdleConsole
    <3>3. CASE console[a] # IdleConsole BY <3>1, <3>3 DEF RequestOK, Request
    <3> QED BY <3>2, <3>3
  <2> QED BY <2>1, <2>2, <2>3, <2>4 DEF TypeOK
<1> QED BY <1>1, OutboxInductive, PTL

(* Whatever crashes between the publish and the commit, a row marked       *)
(* PUBLISHED was published: the mark is the last thing a pass does.        *)
THEOREM PublishedRowsWereSent == Spec => []PublishedWasSent
<1>1. OutboxInv => PublishedWasSent BY DEF OutboxInv
<1> QED BY <1>1, OutboxInductive, PTL

(* SKIP LOCKED keeps the passes of all instances apart: a second copy of a *)
(* message takes an outage, a death or an operator.                        *)
THEOREM SecondCopiesComeOfFaults == Spec => []DuplicatesNeedFaults
<1>1. ASSUME OutboxInv PROVE DuplicatesNeedFaults
  <2>1. DOMAIN copies = DOMAIN rows
    BY <1>1, LenProperties DEF OutboxInv, OutboxTyped
  <2> QED BY <1>1, <2>1 DEF OutboxInv, FaultFree, DuplicatesNeedFaults
<1> QED BY <1>1, OutboxInductive, PTL

=============================================================================
