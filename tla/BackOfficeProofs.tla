---------------------------- MODULE BackOfficeProofs ----------------------------
(***************************************************************************)
(* What holds of the settlement, the shop, the refund tickets and the      *)
(* reviews of BackOffice for every set of operators, desks, tickets,       *)
(* handlers and writers.                                                   *)
(***************************************************************************)
EXTENDS BackOffice, TLAPS

-----------------------------------------------------------------------------
(* The settlement.                                                         *)

PayoutRow(transferred) ==
  [status : {"NONE", "PENDING", "PAID", "FAILED"}, transferred : {transferred}]

DeskRow(saw) ==
  [does : {"nothing", "paying", "failing"}, saw : {saw}, overtaken : BOOLEAN]

(* An operator whom nobody overtook may still do what the check allowed.   *)
CheckStillHolds ==
  \A c \in Operators :
    desk[c] # Away /\ ~desk[c].overtaken => payout.status \in SETTLEABLE_STATUSES

SettlementInv ==
  /\ payout \in PayoutRow(payout.transferred)
  /\ DOMAIN desk = Operators /\ \A c \in Operators : desk[c] \in DeskRow(desk[c].saw)
  /\ CheckStillHolds

LEMMA AwayRow == Away \in DeskRow(Away.saw) /\ Away.does = "nothing"
BY DEF Away, DeskRow

LEMMA InitSettlement == SettlementInit => SettlementInv
<1> SUFFICES ASSUME SettlementInit PROVE SettlementInv OBVIOUS
<1>1. payout \in PayoutRow(payout.transferred) BY DEF SettlementInit, PayoutRow
<1>2. DOMAIN desk = Operators /\ \A c \in Operators : desk[c] = Away
  BY DEF SettlementInit
<1>3. CheckStillHolds BY <1>2 DEF CheckStillHolds
<1> QED BY <1>1, <1>2, <1>3, AwayRow DEF SettlementInv

(* What joins a batch leaves a status that was set as it is.               *)
LEMMA JoinedRow ==
  ASSUME payout \in PayoutRow(payout.transferred)
  PROVE  /\ Joined \in PayoutRow(Joined.transferred)
         /\ payout.status # "NONE" => Joined = payout
         /\ payout.status \in SETTLEABLE_STATUSES => Joined.status \in SETTLEABLE_STATUSES
BY DEF PayoutRow, Joined, SETTLEABLE_STATUSES

LEMMA BatchedStep == ASSUME SettlementInv, Batched PROVE SettlementInv'
<1>1. (payout' = Joined \/ payout' = payout) /\ desk' = desk
  BY Zenon DEF Batched
<1>2. payout \in PayoutRow(payout.transferred) BY DEF SettlementInv
<1>3. CASE payout' = Joined
  BY <1>1, <1>2, <1>3, JoinedRow DEF SettlementInv, CheckStillHolds
<1>4. CASE payout' = payout BY <1>1, <1>4 DEF SettlementInv, CheckStillHolds
<1> QED BY <1>1, <1>3, <1>4

LEMMA CheckDeskStep ==
  ASSUME SettlementInv, NEW c \in Operators, NEW does \in {"paying", "failing"},
         Check(c, does)
  PROVE  SettlementInv'
<1> DEFINE r == [does |-> does, saw |-> ledger.orderCount, overtaken |-> FALSE]
<1>1. /\ payout.status \in SETTLEABLE_STATUSES /\ payout' = payout
      /\ desk' = [desk EXCEPT ![c] = r]
  BY Zenon DEF Check, requireSettleable
<1>2. r \in DeskRow(r.saw) BY DEF DeskRow
<1> HIDE DEF r
<1>3. \A d \in Operators : desk'[d] = IF d = c THEN r ELSE desk[d]
  BY <1>1 DEF SettlementInv
<1>4. DOMAIN desk' = Operators BY <1>1 DEF SettlementInv
<1>5. CheckStillHolds' BY <1>1 DEF CheckStillHolds
<1> QED BY <1>1, <1>2, <1>3, <1>4, <1>5 DEF SettlementInv

LEMMA markPaidStep ==
  ASSUME SettlementInv, NEW c \in Operators, markPaid(c)
  PROVE  SettlementInv'
<1> DEFINE p == [status |-> "PAID", transferred |-> desk[c].saw]
<1>1. payout' = p /\ desk' = Overtaking(c) BY Zenon DEF markPaid
<1>2. p \in PayoutRow(p.transferred) BY DEF PayoutRow
<1> HIDE DEF p
<1>3. \A d \in Operators : desk'[d] = Away \/ desk'[d] = [desk[d] EXCEPT !.overtaken = TRUE]
  BY <1>1 DEF Overtaking
<1>4. DOMAIN desk' = Operators BY <1>1 DEF Overtaking
<1>5. ASSUME NEW d \in Operators
      PROVE  /\ desk'[d] \in DeskRow(desk'[d].saw)
             /\ desk'[d] # Away => desk'[d].overtaken
  <2> DEFINE r == [desk[d] EXCEPT !.overtaken = TRUE]
  <2>1. desk[d] \in DeskRow(desk[d].saw) BY DEF SettlementInv
  <2>2. r \in DeskRow(r.saw) /\ r.overtaken BY <2>1 DEF DeskRow
  <2> HIDE DEF r
  <2>3. desk'[d] = Away \/ desk'[d] = r BY <1>3 DEF r
  <2> QED BY <2>2, <2>3, AwayRow
<1>6. CheckStillHolds' BY <1>5 DEF CheckStillHolds
<1> QED BY <1>1, <1>2, <1>4, <1>5, <1>6 DEF SettlementInv

(* An operator leaves, and the batch stays or may be settled again.        *)
LEMMA LeaveStep ==
  ASSUME SettlementInv, NEW c \in Operators, desk' = [desk EXCEPT ![c] = Away],
         \/ payout' = payout
         \/ payout' = [payout EXCEPT !.status = "FAILED"]
  PROVE  SettlementInv'
<1> DEFINE p == [payout EXCEPT !.status = "FAILED"]
<1>1. p \in PayoutRow(p.transferred) /\ p.status \in SETTLEABLE_STATUSES
  BY DEF SettlementInv, PayoutRow, SETTLEABLE_STATUSES
<1>2. payout' = payout \/ payout' = p OBVIOUS
<1> HIDE DEF p
<1>3. \A d \in Operators : desk'[d] = IF d = c THEN Away ELSE desk[d]
  BY DEF SettlementInv
<1>4. DOMAIN desk' = Operators BY DEF SettlementInv
<1>5. payout' \in PayoutRow(payout'.transferred) BY <1>1, <1>2 DEF SettlementInv
<1>6. CheckStillHolds' BY <1>1, <1>2, <1>3 DEF SettlementInv, CheckStillHolds
<1> QED BY <1>3, <1>4, <1>5, <1>6, AwayRow DEF SettlementInv

LEMMA NextSettlement ==
  SettlementInv /\ [BackOfficeNext]_backOfficeVars => SettlementInv'
<1> SUFFICES ASSUME SettlementInv, [BackOfficeNext]_backOfficeVars
             PROVE  SettlementInv'
  OBVIOUS
<1>1. CASE UNCHANGED settlementVars
  BY <1>1 DEF settlementVars, SettlementInv, CheckStillHolds
<1>2. CASE Batched BY <1>2, BatchedStep
<1>3. ASSUME NEW c \in Operators, Operating(c) PROVE SettlementInv'
  <2>1. CASE markFailed(c) BY <2>1, LeaveStep, Zenon DEF markFailed
  <2>2. CASE Abandon(c) BY <2>2, LeaveStep, Zenon DEF Abandon
  <2> QED BY <1>3, <2>1, <2>2, CheckDeskStep, markPaidStep, Zenon DEF Operating
<1>4. \/ UNCHANGED settlementVars \/ Batched
      \/ \E c \in Operators : Operating(c)
  BY Zenon DEF BackOfficeNext, OrderingStep, SettlementStep, ReviewsStep, TicketsStep,
               AccountsStep, PlatformStep, backOfficeVars
<1> QED BY <1>1, <1>2, <1>3, <1>4

(* However many operators work on a batch and whatever joins it, one that  *)
(* is PAID changes only under an operator who was overtaken.               *)
THEOREM SettledStaysSettled == BackOfficeSpec => SettledAgainOnlyIfOverlapped
<1>1. SettlementInv /\ [BackOfficeNext]_backOfficeVars =>
        [payout.status = "PAID" /\ payout' # payout =>
           \E c \in Operators : desk[c].overtaken /\ desk'[c] = Away]_settlementVars
  <2> SUFFICES ASSUME SettlementInv, [BackOfficeNext]_backOfficeVars,
                      payout.status = "PAID", payout' # payout
               PROVE  \E c \in Operators : desk[c].overtaken /\ desk'[c] = Away
    BY Zenon
  <2>1. ~Batched
    BY JoinedRow, Zenon DEF SettlementInv, Batched
  <2>2. PICK c \in Operators : markPaid(c) \/ markFailed(c)
    BY <2>1, Zenon DEF BackOfficeNext, OrderingStep, SettlementStep, ReviewsStep,
       TicketsStep, AccountsStep, PlatformStep, backOfficeVars, settlementVars,
       Operating, Check, Abandon
  <2>3. desk[c] # Away
    <3>1. desk[c].does \in {"paying", "failing"} BY <2>2 DEF markPaid, markFailed
    <3> QED BY <3>1, AwayRow
  <2>4. desk[c].overtaken
    BY <2>3 DEF SettlementInv, CheckStillHolds, SETTLEABLE_STATUSES
  <2>5. desk'[c] = Away BY <2>2 DEF markPaid, markFailed, Overtaking, SettlementInv
  <2> QED BY <2>4, <2>5
<1>2. BackOfficeInit => SettlementInv BY InitSettlement, Zenon DEF BackOfficeInit
<1> QED BY <1>1, <1>2, NextSettlement, PTL
    DEF BackOfficeSpec, SettledAgainOnlyIfOverlapped

-----------------------------------------------------------------------------
(* The shop.                                                               *)

ActingRow ==
  [does : MerchantAdminAction \cup {"UPDATE", "nothing"}, overtaken : BOOLEAN]

(* A request that nobody overtook may still do what its check allowed.     *)
ShopStillAllows ==
  \A a \in Desks :
    acting[a] # NotActing /\ ~acting[a].overtaken => ShopAllows(acting[a].does)

ShopInv == acting \in [Desks -> ActingRow] /\ ShopStillAllows

LEMMA NotActingRow == NotActing \in ActingRow BY DEF NotActing, ActingRow

LEMMA ActsRow ==
  ASSUME NEW does \in MerchantAdminAction \cup {"UPDATE"}
  PROVE  LET r == [NotActing EXCEPT !.does = does]
         IN r \in ActingRow /\ r.does = does /\ ~r.overtaken
<1>1. /\ [NotActing EXCEPT !.does = does].does = does
      /\ ~[NotActing EXCEPT !.does = does].overtaken
  BY DEF NotActing
<1>2. [NotActing EXCEPT !.does = does] \in ActingRow
  BY NotActingRow DEF ActingRow
<1> QED BY <1>1, <1>2

LEMMA InitShop == ShopInit => ShopInv
BY NotActingRow DEF ShopInit, ShopInv, ShopStillAllows

(* A request that begins or ends, the shop's status being what it was.     *)
LEMMA DeskStep ==
  ASSUME ShopInv, NEW a \in Desks, NEW r \in ActingRow, shop'.status = shop.status,
         acting' = [acting EXCEPT ![a] = r],
         r # NotActing /\ ~r.overtaken => ShopAllows(r.does)
  PROVE  ShopInv'
<1>1. \A b \in Desks : acting'[b] = IF b = a THEN r ELSE acting[b] BY DEF ShopInv
<1>2. acting' \in [Desks -> ActingRow] BY DEF ShopInv
<1>3. \A does : ShopAllows(does)' <=> ShopAllows(does) BY DEF ShopAllows, Editable
<1>4. ShopStillAllows' BY <1>1, <1>3 DEF ShopInv, ShopStillAllows, ShopAllows, Editable
<1> QED BY <1>2, <1>4 DEF ShopInv

LEMMA ShopCheckStep ==
  ASSUME ShopInv, NEW a \in Desks, NEW does \in MerchantAdminAction \cup {"UPDATE"},
         ShopCheck(a, does)
  PROVE  ShopInv'
<1> DEFINE r == [NotActing EXCEPT !.does = does]
<1>1. /\ shop' = shop /\ ShopAllows(does) /\ acting' = [acting EXCEPT ![a] = r]
  BY Zenon DEF ShopCheck
<1>2. r \in ActingRow /\ r.does = does BY ActsRow
<1> HIDE DEF r
<1> QED BY <1>1, <1>2, DeskStep

(* Whoever commits overtakes all the others.                               *)
LEMMA ShopCommitStep ==
  ASSUME ShopInv, NEW a \in Desks, ShopCommit(a)
  PROVE  ShopInv'
<1>1. acting' = [b \in Desks |->
        IF b = a \/ acting[b] = NotActing THEN NotActing
        ELSE [acting[b] EXCEPT !.overtaken = TRUE]]
  BY Zenon DEF ShopCommit
<1>2. ASSUME NEW b \in Desks
      PROVE  acting'[b] \in ActingRow /\ (acting'[b] # NotActing => acting'[b].overtaken)
  <2> DEFINE r == [acting[b] EXCEPT !.overtaken = TRUE]
  <2>1. r \in ActingRow /\ r.overtaken BY DEF ShopInv, ActingRow
  <2>2. acting'[b] = NotActing \/ acting'[b] = r BY <1>1
  <2> HIDE DEF r
  <2> QED BY <2>1, <2>2, NotActingRow
<1>3. acting' \in [Desks -> ActingRow] BY <1>1, <1>2
<1> QED BY <1>2, <1>3 DEF ShopInv, ShopStillAllows

LEMMA NextShop == ShopInv /\ [BackOfficeNext]_backOfficeVars => ShopInv'
<1> SUFFICES ASSUME ShopInv, [BackOfficeNext]_backOfficeVars PROVE ShopInv' OBVIOUS
<1>1. CASE UNCHANGED shopVars
  BY <1>1 DEF shopVars, ShopInv, ShopStillAllows, ShopAllows, Editable
<1>2. CASE apply
  <2>1. acting' = acting /\ shop.status = "NONE" BY <1>2 DEF apply, NoShop
  <2>2. \A does : ~ShopAllows(does) \/ does = "UPDATE"
    BY <2>1 DEF ShopAllows, RULES, ShopRule, MerchantAdminAction, MerchantStatus
  <2>3. shop'.status # "CLOSED" BY <1>2 DEF apply, NoShop
  <2> QED BY <2>1, <2>2, <2>3 DEF ShopInv, ShopStillAllows, ShopAllows, Editable
<1>3. CASE setIntake
  <2>1. PICK switch \in {"on", "off"} : shop' = [shop EXCEPT !.switch = switch]
    BY <1>3 DEF setIntake
  <2>2. acting' = acting /\ shop'.status = shop.status BY <1>3, <2>1 DEF setIntake
  <2> QED BY <2>2 DEF ShopInv, ShopStillAllows, ShopAllows, Editable
<1>4. ASSUME NEW a \in Desks, ShopAbort(a) PROVE ShopInv'
  <2>1. shop' = shop /\ acting' = [acting EXCEPT ![a] = NotActing]
    BY <1>4, Zenon DEF ShopAbort
  <2> QED BY <2>1, NotActingRow, DeskStep
<1>5. ShopNext \/ UNCHANGED shopVars
  BY Zenon DEF BackOfficeNext, OrderingStep, SettlementStep, ReviewsStep, TicketsStep,
               AccountsStep, PlatformStep, platformVars, backOfficeVars
<1> QED BY <1>1, <1>2, <1>3, <1>4, <1>5, ShopCheckStep, ShopCommitStep, Zenon
    DEF ShopNext

(* A shop once closed stays as it is, but for a request that was overtaken *)
(* by another.                                                             *)
THEOREM ClosedStaysClosed == BackOfficeSpec => ClosedShopIsFinal
<1>1. ShopInv /\ [BackOfficeNext]_backOfficeVars =>
        [(/\ shop.status = "CLOSED"
          /\ shop'.status # "CLOSED" \/ shop'.details # shop.details)
         => \E a \in Desks : acting[a].overtaken /\ acting'[a] = NotActing]_shopVars
  <2> SUFFICES ASSUME ShopInv, [BackOfficeNext]_backOfficeVars, shop.status = "CLOSED",
                      shop'.status # "CLOSED" \/ shop'.details # shop.details
               PROVE  \E a \in Desks : acting[a].overtaken /\ acting'[a] = NotActing
    BY Zenon
  <2>1. shop' # shop OBVIOUS
  <2>2. ~apply
    <3>1. NoShop.status = "NONE" BY DEF NoShop
    <3>2. apply => shop = NoShop BY Zenon DEF apply
    <3> QED BY <3>1, <3>2
  <2>3. ~setIntake
    <3>1. \A switch : /\ [shop EXCEPT !.switch = switch].status = shop.status
                      /\ [shop EXCEPT !.switch = switch].details = shop.details
      OBVIOUS
    <3> QED BY <3>1 DEF setIntake
  <2>4. PICK a \in Desks : ShopCommit(a)
    BY <2>1, <2>2, <2>3, Zenon DEF BackOfficeNext, OrderingStep, SettlementStep,
       ReviewsStep, TicketsStep, AccountsStep, PlatformStep, platformVars,
       backOfficeVars, shopVars, ShopNext, ShopCheck, ShopAbort
  <2>5. acting[a] # NotActing /\ acting'[a] = NotActing
    BY <2>4, Zenon DEF ShopCommit
  <2>6. ~ShopAllows(acting[a].does)
    BY DEF ShopAllows, Editable, RULES, ShopRule, MerchantAdminAction, MerchantStatus
  <2> QED BY <2>5, <2>6 DEF ShopInv, ShopStillAllows
<1>2. BackOfficeInit => ShopInv BY InitShop, Zenon DEF BackOfficeInit
<1> QED BY <1>1, <1>2, NextShop, PTL DEF BackOfficeSpec, ClosedShopIsFinal

-----------------------------------------------------------------------------
(* The refund tickets.                                                     *)

ENDED == {"RESOLVED_OFFLINE", "DECLINED", "CANCELLED"}

TicketStatus == RefundRequestStatus \cup {"NOT_FILED"}

TicketRow ==
  [order : Orders \cup {"none"}, status : TicketStatus, version : Nat,
   existed : SUBSET Tickets]

FilingRow ==
  [stage : {"none", "checked", "looked"}, order : Orders \cup {"none"},
   existed : SUBSET Tickets]

HandlingRow ==
  [ticket : Tickets \cup {"none"}, from : TicketStatus, to : TicketStatus]

TicketsTyped ==
  /\ tickets \in [Tickets -> TicketRow]
  /\ filing \in [Tickets -> FilingRow]
  /\ handling \in [Handlers -> HandlingRow]

(* Only what is filed belongs to an order, and what is to be filed is not. *)
FiledOnce ==
  \A k \in Tickets :
    /\ tickets[k].status = "NOT_FILED" => tickets[k].order \notin Orders
    /\ filing[k].stage # "none" =>
         tickets[k].status = "NOT_FILED" /\ filing[k].order \in Orders

(* A handler means to move a ticket that was active when it read it.       *)
HandlersWork ==
  \A m \in Handlers :
    handling[m] # NotHandling =>
      /\ handling[m].ticket \in Tickets
      /\ handling[m].from \in ACTIVE
      /\ handling[m].to \in RefundRequestStatus

(* Tickets that were there when one looked had ended, and remain so.       *)
SeenHadEnded ==
  \A k \in Tickets :
    /\ \A j \in tickets[k].existed : tickets[j].status \in ENDED
    /\ filing[k].stage = "looked" =>
         \A j \in filing[k].existed : tickets[j].status \in ENDED

TicketsInv == TicketsTyped /\ FiledOnce /\ HandlersWork /\ SeenHadEnded

LEMMA RestingRows ==
  /\ NotFiled \in TicketRow /\ NotFiled.status = "NOT_FILED"
  /\ NotFiled.order \notin Orders /\ NotFiled.existed = {}
  /\ NotFiling \in FilingRow /\ NotFiling.stage = "none"
  /\ NotHandling \in HandlingRow
<1>1. NotFiled \in TicketRow BY DEF NotFiled, TicketRow, TicketStatus
<1>2. NotFiled.status = "NOT_FILED" /\ NotFiled.order = "none" /\ NotFiled.existed = {}
  BY DEF NotFiled
<1>3. NotFiling \in FilingRow /\ NotFiling.stage = "none" BY DEF NotFiling, FilingRow
<1>4. NotHandling \in HandlingRow BY DEF NotHandling, HandlingRow, TicketStatus
<1> QED BY <1>1, <1>2, <1>3, <1>4, TicketsAssumption

LEMMA InitTickets == TicketsInit => TicketsInv
BY RestingRows DEF TicketsInit, TicketsInv, TicketsTyped, FiledOnce, HandlersWork,
   SeenHadEnded

(* A request that files begins, looks or gives up; no ticket changes.      *)
LEMMA FilingStep ==
  ASSUME TicketsInv, NEW k \in Tickets, NEW r \in FilingRow,
         tickets' = tickets, handling' = handling,
         filing' = [filing EXCEPT ![k] = r],
         r.stage # "none" => tickets[k].status = "NOT_FILED" /\ r.order \in Orders,
         r.stage = "looked" => \A j \in r.existed : tickets[j].status \in ENDED
  PROVE  TicketsInv'
<1>1. \A j \in Tickets : filing'[j] = IF j = k THEN r ELSE filing[j]
  BY DEF TicketsInv, TicketsTyped
<1>2. TicketsTyped' BY DEF TicketsInv, TicketsTyped
<1>3. FiledOnce' BY <1>1 DEF TicketsInv, FiledOnce
<1>4. HandlersWork' BY DEF TicketsInv, HandlersWork
<1>5. SeenHadEnded' BY <1>1 DEF TicketsInv, SeenHadEnded
<1> QED BY <1>2, <1>3, <1>4, <1>5 DEF TicketsInv

LEMMA FileCheckStep ==
  ASSUME TicketsInv, NEW k \in Tickets, NEW o \in Orders, FileCheck(k, o)
  PROVE  TicketsInv'
<1> DEFINE r == [NotFiling EXCEPT !.stage = "checked", !.order = o]
<1>1. /\ tickets[k] = NotFiled /\ tickets' = tickets /\ handling' = handling
      /\ filing' = [filing EXCEPT ![k] = r]
  BY Zenon DEF FileCheck
<1>2. r \in FilingRow /\ r.stage = "checked" /\ r.order = o
  <2>1. r.stage = "checked" /\ r.order = o BY DEF NotFiling
  <2>2. r \in FilingRow BY RestingRows DEF FilingRow
  <2> QED BY <2>1, <2>2
<1> HIDE DEF r
<1> QED BY <1>1, <1>2, RestingRows, FilingStep

LEMMA FileLookStep ==
  ASSUME TicketsInv, NEW k \in Tickets, FileLook(k)
  PROVE  TicketsInv'
<1> DEFINE filed == TicketsOf(filing[k].order)
           r == [filing[k] EXCEPT !.stage = "looked", !.existed = filed]
<1>1. /\ filing[k].stage = "checked" /\ tickets' = tickets /\ handling' = handling
      /\ \A j \in filed : tickets[j].status \notin ACTIVE
      /\ filing' = [filing EXCEPT ![k].stage = "looked", ![k].existed = filed]
  BY Zenon DEF FileLook
<1>2. filing[k] \in FilingRow BY DEF TicketsInv, TicketsTyped
<1>3. tickets[k].status = "NOT_FILED" /\ filing[k].order \in Orders
  BY <1>1 DEF TicketsInv, FiledOnce
<1>4. \A j \in filed : j \in Tickets /\ tickets[j].status \in ENDED
  <2> SUFFICES ASSUME NEW j \in filed
               PROVE  j \in Tickets /\ tickets[j].status \in ENDED
    OBVIOUS
  <2>1. j \in Tickets /\ tickets[j].order = filing[k].order BY DEF TicketsOf
  <2>2. tickets[j].status # "NOT_FILED" BY <1>3, <2>1 DEF TicketsInv, FiledOnce
  <2>3. tickets[j].status \in TicketStatus
    BY <2>1 DEF TicketsInv, TicketsTyped, TicketRow
  <2> QED BY <1>1, <2>1, <2>2, <2>3
      DEF TicketStatus, RefundRequestStatus, ACTIVE, ENDED
<1> HIDE DEF filed
<1>5. r \in FilingRow /\ r.stage = "looked" /\ r.existed = filed
      /\ r.order = filing[k].order
  BY <1>2, <1>4 DEF FilingRow
<1>6. filing' = [filing EXCEPT ![k] = r]
  BY <1>1, <1>2 DEF TicketsInv, TicketsTyped, FilingRow
<1> HIDE DEF r
<1> QED BY <1>1, <1>3, <1>4, <1>5, <1>6, FilingStep

(* A ticket changes that had not ended, and does not become unfiled.       *)
LEMMA TicketStep ==
  ASSUME TicketsInv, NEW k \in Tickets, NEW r \in TicketRow,
         tickets[k].status \notin ENDED,
         tickets' = [tickets EXCEPT ![k] = r], r.status # "NOT_FILED",
         \A j \in r.existed : tickets[j].status \in ENDED,
         \/ filing' = filing /\ tickets[k].status # "NOT_FILED"
         \/ filing' = [filing EXCEPT ![k] = NotFiling],
         NEW H, handling' = H, H = handling \/
           \E m \in Handlers : H = [handling EXCEPT ![m] = NotHandling]
  PROVE  TicketsInv'
<1>1. \A j \in Tickets : tickets'[j] = IF j = k THEN r ELSE tickets[j]
  BY DEF TicketsInv, TicketsTyped
<1>2. \A j \in Tickets : filing'[j] = filing[j] \/ (j = k /\ filing'[j] = NotFiling)
  BY DEF TicketsInv, TicketsTyped
<1>3. \A m \in Handlers : handling'[m] = handling[m] \/ handling'[m] = NotHandling
  BY DEF TicketsInv, TicketsTyped
<1>4. TicketsTyped' BY RestingRows DEF TicketsInv, TicketsTyped
<1>5. \A j \in Tickets : tickets[j].status \in ENDED => tickets'[j].status \in ENDED
  BY <1>1
<1>6. filing'[k].stage = "none"
  BY RestingRows DEF TicketsInv, TicketsTyped, FiledOnce
<1>7. FiledOnce' BY <1>1, <1>2, <1>6 DEF TicketsInv, FiledOnce
<1>8. HandlersWork' BY <1>3 DEF TicketsInv, HandlersWork
<1>9. ASSUME NEW i \in Tickets
      PROVE  /\ \A j \in tickets'[i].existed : tickets'[j].status \in ENDED
             /\ filing'[i].stage = "looked" =>
                  \A j \in filing'[i].existed : tickets'[j].status \in ENDED
  <2>1. \A j \in tickets'[i].existed : j \in Tickets /\ tickets[j].status \in ENDED
    BY <1>1 DEF TicketsInv, TicketsTyped, SeenHadEnded, TicketRow
  <2>2. filing'[i].stage = "looked" =>
          \A j \in filing'[i].existed : j \in Tickets /\ tickets[j].status \in ENDED
    BY <1>2, <1>6 DEF TicketsInv, TicketsTyped, SeenHadEnded, FilingRow
  <2> QED BY <1>5, <2>1, <2>2
<1>10. SeenHadEnded' BY <1>9 DEF SeenHadEnded
<1> QED BY <1>4, <1>7, <1>8, <1>10 DEF TicketsInv

LEMMA FileInsertStep ==
  ASSUME TicketsInv, NEW k \in Tickets, FileInsert(k)
  PROVE  TicketsInv' /\ tickets[k].status \notin ENDED
         /\ \A j \in Tickets \ {k} : tickets'[j] = tickets[j]
<1> DEFINE r == [order |-> filing[k].order, status |-> "OPEN", version |-> 1,
                 existed |-> filing[k].existed]
<1>1. /\ filing[k].stage = "looked" /\ handling' = handling
      /\ tickets' = [tickets EXCEPT ![k] = r]
      /\ filing' = [filing EXCEPT ![k] = NotFiling]
  BY Zenon DEF FileInsert
<1>2. tickets[k].status = "NOT_FILED" BY <1>1 DEF TicketsInv, FiledOnce
<1>3. r \in TicketRow /\ r.status = "OPEN" /\ r.existed = filing[k].existed
  BY DEF TicketsInv, TicketsTyped, FilingRow, TicketRow, TicketStatus,
         RefundRequestStatus
<1> HIDE DEF r
<1>4. \A j \in r.existed : tickets[j].status \in ENDED
  BY <1>1, <1>3 DEF TicketsInv, SeenHadEnded
<1>5. tickets[k].status \notin ENDED BY <1>2 DEF ENDED
<1>6. TicketsInv' BY <1>1, <1>3, <1>4, <1>5, TicketStep
<1>7. \A j \in Tickets \ {k} : tickets'[j] = tickets[j]
  BY <1>1 DEF TicketsInv, TicketsTyped
<1> QED BY <1>5, <1>6, <1>7

LEMMA MovedRow ==
  ASSUME NEW t \in TicketRow, NEW s \in RefundRequestStatus
  PROVE  LET r == [t EXCEPT !.status = s, !.version = @ + 1]
         IN r \in TicketRow /\ r.status = s /\ r.existed = t.existed
<1> DEFINE r == [t EXCEPT !.status = s, !.version = @ + 1]
<1>1. r.status = s /\ r.existed = t.existed /\ r.order = t.order
  BY DEF TicketRow
<1>2. [t EXCEPT !.status = s] \in TicketRow /\ t.version + 1 \in Nat
  BY DEF TicketRow, TicketStatus
<1>3. r \in TicketRow BY <1>2 DEF TicketRow
<1> QED BY <1>1, <1>3

(* The compare-and-set finds an active ticket.                             *)
LEMMA HandleCommitStep ==
  ASSUME TicketsInv, NEW m \in Handlers, HandleCommit(m)
  PROVE  TicketsInv' /\ \E k \in Tickets :
           /\ tickets[k].status \notin ENDED
           /\ \A j \in Tickets \ {k} : tickets'[j] = tickets[j]
<1> DEFINE k == handling[m].ticket
           r == [tickets[k] EXCEPT !.status = handling[m].to, !.version = @ + 1]
<1>1. /\ handling[m] # NotHandling /\ tickets[k].status = handling[m].from
      /\ tickets' = [tickets EXCEPT ![k].status = handling[m].to, ![k].version = @ + 1]
      /\ handling' = [handling EXCEPT ![m] = NotHandling] /\ filing' = filing
  BY Zenon DEF HandleCommit, updateStatus
<1>2. /\ k \in Tickets /\ handling[m].from \in ACTIVE
      /\ handling[m].to \in RefundRequestStatus
  BY <1>1 DEF TicketsInv, HandlersWork
<1>3. tickets[k] \in TicketRow BY <1>2 DEF TicketsInv, TicketsTyped
<1>4. r \in TicketRow /\ r.status = handling[m].to /\ r.existed = tickets[k].existed
  BY <1>2, <1>3, MovedRow, Zenon
<1>5. tickets' = [tickets EXCEPT ![k] = r]
  BY <1>1, <1>2, <1>3 DEF TicketsInv, TicketsTyped, TicketRow
<1> HIDE DEF k, r
<1>6. tickets[k].status \notin ENDED /\ tickets[k].status # "NOT_FILED"
  BY <1>1, <1>2 DEF ACTIVE, ENDED
<1>7. r.status # "NOT_FILED" BY <1>2, <1>4 DEF RefundRequestStatus
<1>8. \A j \in r.existed : tickets[j].status \in ENDED
  BY <1>2, <1>4 DEF TicketsInv, SeenHadEnded
<1>9. TicketsInv' BY <1>1, <1>2, <1>4, <1>5, <1>6, <1>7, <1>8, TicketStep
<1>10. \A j \in Tickets \ {k} : tickets'[j] = tickets[j]
  BY <1>2, <1>5 DEF TicketsInv, TicketsTyped
<1> QED BY <1>2, <1>6, <1>9, <1>10

LEMMA HandlerStep ==
  ASSUME TicketsInv, NEW m \in Handlers, NEW r \in HandlingRow,
         tickets' = tickets, filing' = filing,
         handling' = [handling EXCEPT ![m] = r],
         r # NotHandling =>
           r.ticket \in Tickets /\ r.from \in ACTIVE /\ r.to \in RefundRequestStatus
  PROVE  TicketsInv'
<1>1. \A n \in Handlers : handling'[n] = IF n = m THEN r ELSE handling[n]
  BY DEF TicketsInv, TicketsTyped
<1>2. TicketsTyped' BY DEF TicketsInv, TicketsTyped
<1>3. FiledOnce' BY DEF TicketsInv, FiledOnce
<1>4. HandlersWork' BY <1>1 DEF TicketsInv, HandlersWork
<1>5. SeenHadEnded' BY DEF TicketsInv, SeenHadEnded
<1> QED BY <1>2, <1>3, <1>4, <1>5 DEF TicketsInv

LEMMA HandleReadStep ==
  ASSUME TicketsInv, NEW m \in Handlers, NEW k \in Tickets,
         NEW to \in RefundRequestStatus, NEW actor, HandleRead(m, k, to, actor)
  PROVE  TicketsInv'
<1> DEFINE r == [ticket |-> k, from |-> tickets[k].status, to |-> to]
<1>1. /\ tickets[k].status \in ACTIVE /\ tickets' = tickets /\ filing' = filing
      /\ handling' = [handling EXCEPT ![m] = r]
  BY Zenon DEF HandleRead
<1>2. /\ r \in HandlingRow
      /\ r.ticket \in Tickets /\ r.from \in ACTIVE /\ r.to \in RefundRequestStatus
  BY <1>1 DEF HandlingRow, TicketStatus, RefundRequestStatus, ACTIVE
<1> HIDE DEF r
<1> QED BY <1>1, <1>2, HandlerStep

LEMMA TicketingStep ==
  ASSUME TicketsInv, Ticketing
  PROVE  /\ TicketsInv'
         /\ \/ tickets' = tickets
            \/ \E k \in Tickets :
                 /\ tickets[k].status \notin ENDED
                 /\ \A j \in Tickets \ {k} : tickets'[j] = tickets[j]
<1>1. ASSUME NEW k \in Tickets, NEW o \in Orders, FileCheck(k, o)
      PROVE  TicketsInv' /\ tickets' = tickets
  BY <1>1, FileCheckStep, Zenon DEF FileCheck
<1>2. ASSUME NEW k \in Tickets, FileLook(k)
      PROVE  TicketsInv' /\ tickets' = tickets
  BY <1>2, FileLookStep, Zenon DEF FileLook
<1>3. ASSUME NEW k \in Tickets, FileAbort(k)
      PROVE  TicketsInv' /\ tickets' = tickets
  <2>1. /\ tickets' = tickets /\ handling' = handling
        /\ filing' = [filing EXCEPT ![k] = NotFiling]
    BY <1>3, Zenon DEF FileAbort
  <2> QED BY <2>1, RestingRows, FilingStep
<1>4. ASSUME NEW m \in Handlers, HandleAbort(m)
      PROVE  TicketsInv' /\ tickets' = tickets
  <2>1. /\ tickets' = tickets /\ filing' = filing
        /\ handling' = [handling EXCEPT ![m] = NotHandling]
    BY <1>4, Zenon DEF HandleAbort
  <2> QED BY <2>1, RestingRows, HandlerStep
<1>5. ASSUME NEW m \in Handlers, NEW k \in Tickets, NEW to \in RefundRequestStatus,
             NEW actor, HandleRead(m, k, to, actor)
      PROVE  TicketsInv' /\ tickets' = tickets
  BY <1>5, HandleReadStep, Zenon DEF HandleRead
<1>6. ASSUME NEW k \in Tickets, Filing(k)
      PROVE  TicketsInv' /\ (tickets' = tickets \/ FileInsert(k))
  BY <1>6, <1>1, <1>2, <1>3, FileInsertStep, Zenon DEF Filing
<1>7. ASSUME NEW m \in Handlers, Handling(m)
      PROVE  TicketsInv' /\ (tickets' = tickets \/ HandleCommit(m))
  BY <1>7, <1>4, <1>5, HandleCommitStep, Zenon DEF Handling
<1> QED BY <1>6, <1>7, FileInsertStep, HandleCommitStep, Zenon DEF Ticketing

LEMMA NextTickets ==
  ASSUME TicketsInv, [BackOfficeNext]_backOfficeVars
  PROVE  TicketsInv' /\ (UNCHANGED ticketVars \/ Ticketing)
<1>1. UNCHANGED ticketVars \/ Ticketing
  BY Zenon DEF BackOfficeNext, OrderingStep, SettlementStep, ReviewsStep, TicketsStep,
               AccountsStep, PlatformStep, backOfficeVars
<1>2. CASE UNCHANGED ticketVars
  BY <1>2 DEF ticketVars, TicketsInv, TicketsTyped, FiledOnce, HandlersWork,
              SeenHadEnded
<1> QED BY <1>1, <1>2, TicketingStep

(* Two open tickets of an order come of two filings of which neither had   *)
(* inserted when the other looked, for every number of filings.            *)
THEOREM SecondTicketsOverlapped == BackOfficeSpec => []SecondTicketNeedsOverlap
<1>1. BackOfficeInit => TicketsInv BY InitTickets, Zenon DEF BackOfficeInit
<1>2. TicketsInv /\ [BackOfficeNext]_backOfficeVars => TicketsInv'
  BY NextTickets, Zenon
<1>3. TicketsInv => SecondTicketNeedsOverlap
  BY DEF TicketsInv, SeenHadEnded, SecondTicketNeedsOverlap, ENDED
<1> QED BY <1>1, <1>2, <1>3, PTL DEF BackOfficeSpec

(* However many handlers race, a ticket that ended stays as it ended.      *)
THEOREM EndedTicketsStay == BackOfficeSpec => TicketEndsOnce
<1>1. TicketsInv /\ [BackOfficeNext]_backOfficeVars =>
        [\A k \in Tickets :
           tickets[k].status \in {"RESOLVED_OFFLINE", "DECLINED", "CANCELLED"}
             => tickets'[k] = tickets[k]]_ticketVars
  <2> SUFFICES ASSUME TicketsInv, [BackOfficeNext]_backOfficeVars, Ticketing,
                      NEW k \in Tickets,
                      tickets[k].status \in {"RESOLVED_OFFLINE", "DECLINED", "CANCELLED"}
               PROVE  tickets'[k] = tickets[k]
    BY NextTickets, Zenon
  <2> QED BY TicketingStep DEF ENDED
<1>2. BackOfficeInit => TicketsInv BY InitTickets, Zenon DEF BackOfficeInit
<1>3. TicketsInv /\ [BackOfficeNext]_backOfficeVars => TicketsInv'
  BY NextTickets, Zenon
<1> QED BY <1>1, <1>2, <1>3, PTL DEF BackOfficeSpec, TicketEndsOnce

-----------------------------------------------------------------------------
(* The reviews and the rating of the shop.                                 *)

ReviewRow == [stars : Ratings \cup {0}, hidden : BOOLEAN]

(* What a rating can be: that of a table of reviews.                       *)
Aggregates ==
  {recomputeMerchantRating(rows) : rows \in [Orders -> ReviewRow]} \cup {<<0, 0>>}

WritingRow ==
  [stage : {"none", "checked", "written"},
   does : {"create", "update", "withdraw", "hide", "unhide", "nothing"},
   order : Orders \cup {"none"}, stars : Ratings \cup {0},
   recomputes : BOOLEAN, row : ReviewRow, result : Aggregates,
   overtaken : BOOLEAN]

(* What a request that nobody overtook may still count on: it leaves the   *)
(* stars alone if it does not recompute, and its result is the rating of   *)
(* the table with its row in it if it does.                                *)
StillRight(r) ==
  /\ r.stage = "checked" => r.order \in Orders /\ r.does # "nothing"
  /\ r.stage = "written" => r.order \in Orders
  /\ r.stage = "checked" /\ ~r.overtaken /\ ~r.recomputes =>
       r.does = "update" /\ r.stars = reviews[r.order].stars
  /\ r.stage = "written" /\ ~r.overtaken =>
       IF r.recomputes
       THEN r.result = recomputeMerchantRating([reviews EXCEPT ![r.order] = r.row])
       ELSE r.row = reviews[r.order]

ReviewsTyped ==
  /\ reviews \in [Orders -> ReviewRow]
  /\ rating \in Aggregates
  /\ writing \in [Writers -> WritingRow]

ReviewsInv == ReviewsTyped /\ \A w \in Writers : StillRight(writing[w])

(* The rating is exact when it is what recomputing would give.             *)
LEMMA ExactRating == RatingIsExact <=> rating = recomputeMerchantRating(reviews)
  BY DEF RatingIsExact, recomputeMerchantRating, Exists

LEMMA ExactRatingNext ==
  RatingIsExact' <=> rating' = recomputeMerchantRating(reviews')
<1>1. (RatingIsExact <=> rating = recomputeMerchantRating(reviews))'
  BY ExactRating, PTL
<1> QED BY <1>1

LEMMA AtRestRow ==
  AtRest \in WritingRow /\ AtRest.stage = "none" /\ NoReview \in ReviewRow
  BY DEF AtRest, WritingRow, NoReview, ReviewRow, Aggregates

LEMMA InitReviews == ReviewsInit => ReviewsInv
<1> SUFFICES ASSUME ReviewsInit PROVE ReviewsInv
  OBVIOUS
<1>1. ReviewsTyped BY AtRestRow DEF ReviewsInit, ReviewsTyped, Aggregates
<1>2. \A w \in Writers : writing[w] = AtRest BY DEF ReviewsInit
<1> QED BY <1>1, <1>2, AtRestRow DEF ReviewsInv, StillRight

(* A request that changes, with the table and the rating at rest.          *)
LEMMA RequestBecomes ==
  ASSUME ReviewsInv, NEW w \in Writers, NEW next \in WritingRow, StillRight(next),
         writing' = [writing EXCEPT ![w] = next], UNCHANGED <<reviews, rating>>
  PROVE  ReviewsInv'
<1>1. ReviewsTyped' BY DEF ReviewsInv, ReviewsTyped
<1>2. \A v \in Writers : StillRight(writing'[v])
  BY DEF ReviewsInv, ReviewsTyped
<1>3. \A v \in Writers : StillRight(writing[v])'
  BY <1>2 DEF StillRight
<1> QED BY <1>1, <1>3 DEF ReviewsInv

LEMMA ReviewCheckStep ==
  ASSUME ReviewsInv, NEW w \in Writers, NEW o \in Orders, NEW stars \in Ratings,
         NEW does \in {"create", "update", "withdraw", "hide", "unhide"},
         ReviewCheck(w, o, does, stars)
  PROVE  ReviewsInv'
<1>1. PICK b \in BOOLEAN : b = Recomputes(o, does, stars) BY DEF Recomputes
<1>2. PICK next \in WritingRow :
        /\ next = [AtRest EXCEPT !.stage = "checked", !.does = does, !.order = o,
                                 !.stars = stars, !.recomputes = b]
        /\ next.stage = "checked" /\ next.does = does /\ next.order = o
        /\ next.stars = stars /\ (next.recomputes <=> b) /\ ~next.overtaken
  <2>1. PICK u \in WritingRow : u = [AtRest EXCEPT !.stage = "checked"]
    BY AtRestRow DEF WritingRow
  <2>2. PICK v \in WritingRow : v = [u EXCEPT !.does = does] BY DEF WritingRow
  <2>3. PICK x \in WritingRow : x = [v EXCEPT !.order = o] BY DEF WritingRow
  <2>4. PICK y \in WritingRow : y = [x EXCEPT !.stars = stars] BY DEF WritingRow
  <2>5. PICK z \in WritingRow : z = [y EXCEPT !.recomputes = b] BY DEF WritingRow
  <2>6. z = [AtRest EXCEPT !.stage = "checked", !.does = does, !.order = o,
                           !.stars = stars, !.recomputes = b]
    BY <2>1, <2>2, <2>3, <2>4, <2>5
  <2>7. z.stage = "checked" /\ z.does = does /\ z.order = o /\ z.stars = stars
    BY <2>1, <2>2, <2>3, <2>4, <2>5 DEF WritingRow
  <2>8. z.recomputes <=> b BY <2>5 DEF WritingRow
  <2>9. ~z.overtaken
    BY <2>1, <2>2, <2>3, <2>4, <2>5 DEF WritingRow, AtRest
  <2> QED BY <2>6, <2>7, <2>8, <2>9
<1>3. writing' = [writing EXCEPT ![w] = next] /\ UNCHANGED <<reviews, rating>>
  BY <1>1, <1>2 DEF ReviewCheck
<1>4. ~b => does = "update" /\ stars = reviews[o].stars BY <1>1 DEF Recomputes
<1>5. StillRight(next) BY <1>2, <1>4 DEF StillRight
<1> QED BY <1>3, <1>5, RequestBecomes

(* The row a request writes.                                               *)
LEMMA RewrittenRow ==
  ASSUME ReviewsInv, NEW w \in Writers, writing[w].stage = "checked"
  PROVE  /\ Rewritten(w) \in ReviewRow
         /\ ~writing[w].overtaken /\ ~writing[w].recomputes =>
              Rewritten(w) = reviews[writing[w].order]
<1>1. PICK r \in WritingRow : r = writing[w] BY DEF ReviewsInv, ReviewsTyped
<1>2. PICK written \in ReviewRow : written = reviews[r.order]
  BY <1>1 DEF ReviewsInv, ReviewsTyped, StillRight
<1>3. r.does \in {"create", "update", "withdraw", "hide", "unhide"}
  BY <1>1 DEF ReviewsInv, StillRight, WritingRow
<1>4. r.stars \in Ratings \cup {0} BY DEF WritingRow
<1>5. CASE r.does = "create"
  <2>1. Rewritten(w) = [stars |-> r.stars, hidden |-> FALSE]
    BY <1>1, <1>5 DEF Rewritten
  <2>2. Rewritten(w) \in ReviewRow BY <1>4, <2>1 DEF ReviewRow
  <2> QED BY <1>1, <1>5, <2>2 DEF ReviewsInv, StillRight
<1>6. CASE r.does = "update"
  <2>1. Rewritten(w) = [written EXCEPT !.stars = r.stars]
    BY <1>1, <1>2, <1>6 DEF Rewritten
  <2>2. Rewritten(w) \in ReviewRow BY <1>4, <2>1 DEF ReviewRow
  <2>3. r.stars = written.stars => [written EXCEPT !.stars = r.stars] = written
    BY DEF ReviewRow
  <2> QED BY <1>1, <1>2, <2>1, <2>2, <2>3 DEF ReviewsInv, StillRight
<1>7. CASE r.does = "withdraw"
  <2>1. Rewritten(w) = NoReview BY <1>1, <1>7 DEF Rewritten
  <2> QED BY <1>1, <1>7, <2>1, AtRestRow DEF ReviewsInv, StillRight
<1>8. CASE r.does = "hide"
  <2>1. Rewritten(w) = [written EXCEPT !.hidden = TRUE]
    BY <1>1, <1>2, <1>8 DEF Rewritten
  <2>2. Rewritten(w) \in ReviewRow BY <2>1 DEF ReviewRow
  <2> QED BY <1>1, <1>8, <2>2 DEF ReviewsInv, StillRight
<1>9. CASE r.does = "unhide"
  <2>1. Rewritten(w) = [written EXCEPT !.hidden = FALSE]
    BY <1>1, <1>2, <1>9 DEF Rewritten
  <2>2. Rewritten(w) \in ReviewRow BY <2>1 DEF ReviewRow
  <2> QED BY <1>1, <1>9, <2>2 DEF ReviewsInv, StillRight
<1> QED BY <1>3, <1>5, <1>6, <1>7, <1>8, <1>9

LEMMA ReviewWriteStep ==
  ASSUME ReviewsInv, NEW w \in Writers, ReviewWrite(w)
  PROVE  ReviewsInv'
<1>1. PICK r \in WritingRow : r = writing[w] BY DEF ReviewsInv, ReviewsTyped
<1>2. r.stage = "checked" /\ r.order \in Orders
  BY <1>1 DEF ReviewWrite, ReviewsInv, StillRight
<1>3. PICK written \in ReviewRow : written = Rewritten(w)
  BY <1>1, <1>2, RewrittenRow
<1>4. PICK result \in Aggregates :
        result = IF r.recomputes
                 THEN recomputeMerchantRating([reviews EXCEPT ![r.order] = written])
                 ELSE rating
  <2>1. [reviews EXCEPT ![r.order] = written] \in [Orders -> ReviewRow]
    BY <1>2 DEF ReviewsInv, ReviewsTyped
  <2>2. recomputeMerchantRating([reviews EXCEPT ![r.order] = written]) \in Aggregates
    BY <2>1 DEF Aggregates
  <2> QED BY <2>2 DEF ReviewsInv, ReviewsTyped
<1>5. PICK a \in WritingRow : a = [r EXCEPT !.stage = "written"]
  BY DEF WritingRow
<1>6. PICK d \in WritingRow : d = [a EXCEPT !.does = "nothing"] BY DEF WritingRow
<1>7. PICK e \in WritingRow : e = [d EXCEPT !.stars = 0] BY DEF WritingRow
<1>8. PICK f \in WritingRow : f = [e EXCEPT !.row = written] BY DEF WritingRow
<1>9. PICK g \in WritingRow : g = [f EXCEPT !.result = result] BY DEF WritingRow
<1>10. /\ g.stage = "written" /\ g.row = written /\ g.result = result
       /\ g.order = r.order
  BY <1>5, <1>6, <1>7, <1>8, <1>9 DEF WritingRow
<1>11. g.recomputes = r.recomputes /\ g.overtaken = r.overtaken
  BY <1>5, <1>6, <1>7, <1>8, <1>9 DEF WritingRow
<1>12. writing' = [writing EXCEPT ![w] = g] /\ UNCHANGED <<reviews, rating>>
  <2>1. /\ writing' = [writing EXCEPT ![w].stage = "written", ![w].does = "nothing",
                         ![w].stars = 0, ![w].row = written, ![w].result = result]
        /\ UNCHANGED <<reviews, rating>>
    BY <1>1, <1>3, <1>4 DEF ReviewWrite
  <2> QED BY <1>1, <1>5, <1>6, <1>7, <1>8, <1>9, <2>1 DEF ReviewsInv, ReviewsTyped
<1>13. ~r.overtaken /\ ~r.recomputes => written = reviews[r.order]
  BY <1>1, <1>2, <1>3, RewrittenRow
<1>14. StillRight(g) BY <1>2, <1>4, <1>10, <1>11, <1>13 DEF StillRight
<1> QED BY <1>12, <1>14, RequestBecomes

(* A commit overtakes every other request, and leaves the rating exact if  *)
(* nobody had overtaken it.                                                *)
LEMMA ReviewCommitStep ==
  ASSUME ReviewsInv, NEW w \in Writers, ReviewCommit(w)
  PROVE  /\ ReviewsInv'
         /\ \A v \in Writers : writing[v] # AtRest /\ writing'[v] = AtRest => v = w
         /\ ~writing[w].overtaken =>
              IF writing[w].recomputes
              THEN rating' = recomputeMerchantRating(reviews')
              ELSE reviews' = reviews
<1>1. PICK r \in WritingRow : r = writing[w] BY DEF ReviewsInv, ReviewsTyped
<1>2. r.stage = "written" /\ r.order \in Orders
  BY <1>1 DEF ReviewCommit, ReviewsInv, StillRight
<1>3. /\ reviews' = [reviews EXCEPT ![r.order] = r.row]
      /\ rating' = IF r.recomputes THEN r.result ELSE rating
  BY <1>1 DEF ReviewCommit
<1>4. ASSUME NEW v \in Writers
      PROVE  /\ writing'[v] \in WritingRow
             /\ writing'[v] = AtRest \/ writing'[v].overtaken
             /\ writing'[v].stage # "none" => writing'[v].order \in Orders
             /\ writing'[v].stage = "checked" => writing'[v].does # "nothing"
             /\ writing[v] # AtRest /\ v # w => writing'[v].overtaken
  <2>1. CASE v = w \/ writing[v] = AtRest
    <3>1. writing'[v] = AtRest BY <2>1 DEF ReviewCommit
    <3> QED BY <2>1, <3>1, AtRestRow
  <2>2. CASE ~(v = w \/ writing[v] = AtRest)
    <3>1. PICK q \in WritingRow : q = writing[v] BY DEF ReviewsInv, ReviewsTyped
    <3>2. writing'[v] = [q EXCEPT !.overtaken = TRUE]
      BY <2>2, <3>1 DEF ReviewCommit
    <3>3. PICK p \in WritingRow : p = [q EXCEPT !.overtaken = TRUE]
      BY DEF WritingRow
    <3>4. p.stage = q.stage /\ p.does = q.does /\ p.order = q.order
      BY <3>3 DEF WritingRow
    <3>5. p.overtaken BY <3>3 DEF WritingRow
    <3>6. /\ q.stage # "none" => q.order \in Orders
          /\ q.stage = "checked" => q.does # "nothing"
      BY <3>1 DEF ReviewsInv, StillRight, WritingRow
    <3> QED BY <3>2, <3>3, <3>4, <3>5, <3>6
  <2> QED BY <2>1, <2>2
<1>5. ReviewsTyped'
  <2>1. writing' \in [Writers -> WritingRow]
    <3>1. writing' = [v \in Writers |-> writing'[v]] BY DEF ReviewCommit
    <3> QED BY <1>4, <3>1
  <2>2. reviews' \in [Orders -> ReviewRow]
    BY <1>2, <1>3 DEF ReviewsInv, ReviewsTyped, WritingRow
  <2>3. rating' \in Aggregates BY <1>3 DEF ReviewsInv, ReviewsTyped, WritingRow
  <2> QED BY <2>1, <2>2, <2>3 DEF ReviewsTyped
<1>6. \A v \in Writers : StillRight(writing[v])'
  BY <1>4, AtRestRow DEF StillRight
<1>7. ASSUME NEW v \in Writers, writing[v] # AtRest, writing'[v] = AtRest
      PROVE  v = w
  <2>1. ~AtRest.overtaken BY DEF AtRest
  <2> QED BY <1>4, <1>7, <2>1
<1>8. ASSUME ~r.overtaken, r.recomputes
      PROVE  rating' = recomputeMerchantRating(reviews')
  <2>1. r.result = recomputeMerchantRating([reviews EXCEPT ![r.order] = r.row])
    BY <1>1, <1>2, <1>8 DEF ReviewsInv, StillRight
  <2> QED BY <1>3, <1>8, <2>1
<1>9. ASSUME ~r.overtaken, ~r.recomputes PROVE reviews' = reviews
  <2>1. r.row = reviews[r.order]
    BY <1>1, <1>2, <1>9 DEF ReviewsInv, StillRight
  <2> QED BY <1>2, <1>3, <2>1 DEF ReviewsInv, ReviewsTyped
<1> QED BY <1>1, <1>5, <1>6, <1>7, <1>8, <1>9 DEF ReviewsInv

LEMMA ReviewAbortStep ==
  ASSUME ReviewsInv, NEW w \in Writers, ReviewAbort(w)
  PROVE  ReviewsInv'
<1>1. StillRight(AtRest) BY AtRestRow DEF StillRight
<1> QED BY <1>1, AtRestRow, RequestBecomes DEF ReviewAbort

LEMMA NextReviews == ReviewsInv /\ [BackOfficeNext]_backOfficeVars => ReviewsInv'
<1> SUFFICES ASSUME ReviewsInv, [BackOfficeNext]_backOfficeVars PROVE ReviewsInv'
  OBVIOUS
<1>1. CASE UNCHANGED reviewVars
  BY <1>1 DEF reviewVars, ReviewsInv, ReviewsTyped, StillRight
<1>2. ASSUME NEW w \in Writers, Reviewing(w) PROVE ReviewsInv'
  BY <1>2, ReviewCheckStep, ReviewWriteStep, ReviewCommitStep, ReviewAbortStep, Zenon
  DEF Reviewing
<1>3. (\E w \in Writers : Reviewing(w)) \/ UNCHANGED reviewVars
  BY Zenon DEF BackOfficeNext, OrderingStep, SettlementStep, ReviewsStep, TicketsStep,
               AccountsStep, PlatformStep, backOfficeVars
<1> QED BY <1>1, <1>2, <1>3

(* For any orders, any stars and any number of requests at a time: what a  *)
(* request that nobody overtook commits leaves the rating that of the      *)
(* visible reviews.                                                        *)
THEOREM RatingFollowsReviews == BackOfficeSpec => RatingDriftsOnlyByOverlap
<1>1. ReviewsInv /\ [BackOfficeNext]_backOfficeVars =>
        [reviews' # reviews =>
           \A w \in Writers :
             /\ writing[w] # AtRest /\ writing'[w] = AtRest
             /\ ~writing[w].overtaken
             /\ writing[w].recomputes \/ RatingIsExact
             => RatingIsExact']_reviewVars
  <2> SUFFICES ASSUME ReviewsInv, [BackOfficeNext]_backOfficeVars,
                      reviews' # reviews, NEW w \in Writers,
                      writing[w] # AtRest, writing'[w] = AtRest,
                      ~writing[w].overtaken
               PROVE  RatingIsExact'
    BY Zenon
  <2>1. PICK v \in Writers : ReviewCommit(v)
    BY Zenon DEF BackOfficeNext, OrderingStep, SettlementStep, ReviewsStep,
       TicketsStep, AccountsStep, PlatformStep, backOfficeVars, reviewVars,
       Reviewing, ReviewCheck, ReviewWrite, ReviewAbort
  <2>2. w = v BY <2>1, ReviewCommitStep
  <2>3. rating' = recomputeMerchantRating(reviews') BY <2>1, <2>2, ReviewCommitStep
  <2> QED BY <2>3, ExactRatingNext
<1>2. BackOfficeInit => ReviewsInv BY InitReviews, Zenon DEF BackOfficeInit
<1> QED BY <1>1, <1>2, NextReviews, PTL DEF BackOfficeSpec, RatingDriftsOnlyByOverlap

=============================================================================
