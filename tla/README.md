# Takeout platform: specification and verification

TLA+ models of the ordering platform in this repository (a pickup and dining
marketplace: NestJS API over PostgreSQL and Redis, a pure domain package, a web
front end).  Paths are relative to the repository root.  `PROJECT.json` lists, in
machine-readable form, the components, the runs, the source lines every
definition models, the hazards, the findings and the theorems.

## 1. The system

| Component | State it keeps | Operations | Status |
|---|---|---|---|
| Order lifecycle `packages/domain/src/order` | none (pure) | transition, allowedTransitions | modelled |
| Cancellation policy, same package | none (pure) | classify, quote | modelled |
| Ordering `apps/api/src/modules/ordering` | orders, items, status events, daily stock, payout lines, outbox rows | place, transition (customer, shop, operator, system) | modelled |
| Timeout sweeper, same module | candidate lists in memory | expire unpaid, unaccepted, uncollected; prune | partly |
| Menu `modules/merchants/application/menu.service.ts` | menu items, daily cap | edit cap, delete item, other edits | partly |
| Payments `modules/payment` | payments | open intent, webhook, simulate, confirm at counter | modelled |
| Refunds and reactor, same module | refunds | issue, list candidates | modelled |
| Outbox `infrastructure/outbox` | outbox rows | enqueue, drain, record failure | modelled |
| Outbox console `modules/admin/application/admin-ops.service.ts` | - | retry, dead-letter | partly |
| Realtime gateway `modules/realtime` | socket rooms | fan out | partly |
| Reservations `modules/reservation`, `packages/domain/src/reservation` | settings, slot seats, bookings | place, transition, change settings | modelled |
| Merchant closures `modules/merchants/application/merchant-closure.service.ts` | rest days | save with sweep, remove | modelled |
| Dining `modules/dining` | tables, sittings, rounds | scan, order, close, manage tables | modelled |
| Waitlist `modules/waitlist`, `packages/domain/src/waitlist` | tickets of the day, settings | take a number, call, seat, skip, cancel, sweep | modelled |
| Refund tickets `modules/refund`, `packages/domain/src/refund` | tickets | file, advance | modelled |
| Settlement `modules/admin/application/admin-finance.service.ts` | payout batches | mark paid, mark failed | modelled |
| Runtime configuration `modules/admin`, `modules/pricing` | override rows; the policy of each instance | set, remove, roll back, reload | modelled |
| Media uploads `modules/media` | asset rows, objects in storage | upload, remove | modelled |
| Reviews `modules/reviews` | reviews, cached rating | create, update, withdraw, hide, unhide | partly |
| Accounts `modules/auth`, `admin-users.service.ts` | refresh tokens, roles | refresh, sign out, revoke, promote, demote | partly |
| Web session client `apps/web/src/lib/api.ts`, `auth.tsx` | tokens of a tab, localStorage | shared refresh, restore, sign in, sign out | partly |
| Merchant administration `modules/merchants`, `admin-merchants.service.ts` | status, intake switch, details | apply, approve, suspend, reinstate, close, edit | partly |
| Pricing engine, dispatch, discovery, analytics, infrastructure, web pages, scripts | - | - | not modelled, see section 7 |

**How they interact.**  Everything shares one database.  An order is placed in
one transaction: hold stock, insert the order, append a status event, append an
outbox row.  Every later move goes through `TransitionOrderUseCase.execute`:
lock the order row, ask the state machine, update, release or convert stock,
write the payout ledger, decide the refund, append event and outbox row.  Its
callers are the customer and merchant controllers, operators, the payment module
(which stores a capture *first* and moves the order in a *second* transaction),
and the sweeper.  Closing a paid order only writes `refundDueMinor`; a
background reactor reads it later and calls `RefundService.issue`, which commits
a row, calls the provider, commits the answer, and may move the order to
`REFUNDED`.  The relay publishes outbox rows to Redis; the gateway subscribes.
A round sent from a table is an ordinary order placed through
`PlaceOrderUseCase`, payable at the shop.  A fulfilled order adds to the payout
batch of its week, which operators settle.  Reviews and refund tickets read the
status of an order and never write it.  Seating a guest of the queue opens no
sitting.

**What is hard.**  (a) Data read outside the transaction that uses it: the
placement's availability checks, the sweeper's and the reactor's lists, the
refundable balance, the console's status check, and the checks of nearly every
service of the back office (batch, ticket, review, administrator, shop).
(b) The stock row of the day, seeded by whoever comes first, in a transaction
that is still open.  (c) The payment use cases, each a series of commits with a
provider call in the middle, any of which may be the last.  (d) Webhooks that
are late, repeated or out of order.  (e) Several API instances running the same
loops, each with a policy of its own.  (f) Publishing inside a transaction that
may roll back.  (g) Seats given back by a rule computed from today's settings
rather than from those of the booking.  (h) A sweep in many transactions that is
cut short, while bookings come and go.  (i) Numbers that only a unique index
keeps apart, aggregates computed from a snapshot, a table lock that must cover
look and insert.  (j) Calls of a browser tab that share one refresh, tabs that
share one token.  (k) A row and the objects it names, written and deleted apart.

**What makes each part correct.**  *Stock*: held and sold units agree with the
orders, caps are respected, each unit is returned or sold once.  *Orders*: the
merchant is credited once per fulfilled order, a paid order that is closed gets
a refund decision that never changes, event versions have no gap, overdue orders
leave their status.  *Payments*: no order is paid without a capture, the tables
never claim money that did not move, `REFUNDED` means refunded in full, the
reactor returns what was decided, charged money ends in a served order or in a
refund.  *Outbox*: published rows were sent, duplicates need a fault, no row
stays pending.  *Reservations*: the seats of every slot agree with the active
bookings, two parties never share a slot beyond its capacity, seats are given
back once.  *Closures*: once a rest day is marked swept the bookings made before
it are off the book.  *Dining*: one open bill per table, one guest per sitting.
*Waitlist*: numbers without gap, one live ticket per guest whose requests do not
overlap, no ticket called back from its end.  *Back office*: what these services promise without a lock holds
unless two requests overlap, and the property names the overlap.  *Sessions*: a
tab is not logged out by its own calls.  *Configuration*: orders are priced with
what is stored.  *Images*: a READY image has its bytes.

## 2. Modules

```
OrderStateMachine   CancellationPolicy        Fulfilment (abstract)
            \          /                          ^
              Ordering  --- refines --------------+--- refines --- Reservation
             /   |    \                                                  |
 MCOrdering  Payments  OrderingProofs --> StockProofs   MCReservation, ReservationProofs
               /   \         |
       MCPayments  PaymentsProofs     Outbox --> MCOutbox, OutboxProofs

 Ordering <- Settlement, Reviews, RefundRequests --+
 Accounts, ShopLifecycle, PlatformConfig, Images --+--> BackOffice --> MCBackOffice
                                                       +--> PlatformProofs
                                                       +--> BackOfficeProofs
 Ordering <- Dining --+
           Waitlist --+--> FrontOfHouse --> MCFrontOfHouse
                                 +--> FrontOfHouseProofs
```

- **OrderStateMachine** is `order-state-machine.ts` row by row: per status the
  set of rules with target, actors, guards and side effects.  Kept side effects
  are those with a consumer that writes state.
- **CancellationPolicy** is the tier classification and the share returned.
- **Fulfilment** is the promise about stock: reserve once, then release or sell
  once, or lose everything when the item is withdrawn.  No status, no timer.
- **Ordering** is the core.  `orders`, `menu`, `stock`, `ledger`,
  `statusEvents`, `published` are tables; `request` and `capEdits` are what a
  placement and an edit of a cap have read and not yet committed; `sweep` is each sweeper's pass and candidate list.

  | Action | Code |
  |---|---|
  | `PlaceCheck` | the checks before the transaction, `place-order.use-case.ts:121-189` |
  | `PlaceSeed` | `INSERT ... SELECT` of the stock row, uncommitted |
  | `PlaceCommit` / `PlaceAbort` | the rest of the transaction, all or nothing |
  | `Transition` | the whole of `TransitionOrderUseCase.execute` under the row lock |
  | `CustomerCancel`, `MerchantMove`, `AdminForce`, `PaymentMove` | its callers |
  | `CapRead` | `MenuService.updateItem`: the item read and compared, before its transaction |
  | `CapCommit` / `CapAbort` | the transaction: the patch to the item, the cap to the day's row only if the comparison found it changed |
  | `DeleteItem` | `deleteItem` |
  | `DeadlinePasses` | the clock of the present status runs out |
  | `SweepList`, `SweepExpire`, `SweepDone`, `SweepCrash` | the sweeper |

- **Payments** extends Ordering: `payments`, `refunds` are tables, `psp` the
  provider's own books, `tasks` the program counter of each request or reactor,
  `todo` the reactor's list.  One action per commit or provider call; `Crash`
  stops a task between any two of them.  Ordering's moves to `PAID` and
  `REFUNDED` happen only through this module's tasks (`MarkPaid`, `IssueClose`)
  and operators.
- **Outbox** is independent of the others: rows arrive with consecutive versions
  (what `VersionsAreGapless` shows of Ordering).  A drain is not one step:
  `DrainSelect` locks, `DrainPublish` sends one message, `DrainCommit` marks.
- **ReservationStateMachine** is the booking table, **Reservation** the booking
  use cases and the rest days.  `settings`, `slots`, `bookings`, `closure` are
  tables of one shop on one day, `request` is what a placement has read, `sweep`
  the list a rest-day request works through.  Four fields are history, absent
  from the code: `grid`, the slot length a booking was taken with; `freed`, the one
  it gave its seats back with; `known`, the
  bookings that existed when the day was closed; and `stale`, that the day was
  reopened under a sweep and closed anew before that sweep latched it.  `told` is
  the answer the shop got.  Reservation shares no table with the orders (both write outbox
  rows, whose relay is modelled apart), so it is a system of its own;
  it refines the same `Fulfilment`, with slots for items and nothing sold.

  | Action | Code |
  |---|---|
  | `PlaceRead`, `PlaceClosureCheck` | the settings and the closure, read before the transaction |
  | `PlaceCommit` / `PlaceAbort` | `holdSlots` and `insertReservation`, all or nothing |
  | `Transition` | `TransitionReservationUseCase.execute` under the row lock |
  | `CustomerCancel`, `MerchantMove`, `updateSettings` | the controllers |
  | `ClosureSave` | the committed upsert of the rest day |
  | `ClosureList`, `cancelOne`, `ClosureStamp` | the sweep: list, one transaction each, latch |
  | `ClosureRemove`, `ClosureDies` | the day reopened; the request ending half-way |

- **Dining** extends Ordering with tables, sittings and rounds.

  | Action | Code |
  |---|---|
  | `Scan` | the table found by its code, outside the transaction |
  | `ScanLook`, `ScanCommit` / `ScanAbort` | the table locked and looked at; join or open |
  | `CloseSitting`, `CreateTable`, `UpdateTable` | the shop's routes |
  | `RoundAdmit` | `findByGuestToken`: the sitting is open and its table in use |
  | `RoundLook`, `RoundAttach`, `RoundReadBack` | `resolveGuestCustomer`, query by query |
  | `RoundPlace` | Ordering's placement, mode PAY_AT_STORE |
  | `RoundMoves`, `SweeperMoves` | the order's further life |

- **Waitlist** is the queue of one shop on one day.

  | Action | Code |
  |---|---|
  | `TakeCheck`, `TakeRead` | settings and live ticket; the numbers of the day, both plain reads |
  | `TakeInsert`, `TakeClash`, `TakeCommit`, `TakeAbort` | insert under the unique index, retry, commit |
  | `MoveTicket` | `TransitionQueueUseCase`, one transaction under the row lock |
  | `CallTimesOut`, `SweepCalls`, `SweepTicket`, `SweepDies` | the clock of a call; the sweep |
  | `SaveSettings` | the queue switched on or off |

- **Settlement** extends Ordering: the batch that `LedgerExactlyOnce` speaks of
  gets a status.  `Batched` is what any step of Ordering does to it; `Check`,
  `markPaid`, `markFailed`, `Abandon` are an operator's request.
- **Reviews** extends Ordering: `ReviewCheck`, `ReviewWrite` (row and aggregate,
  uncommitted), `ReviewCommit`, `ReviewAbort`, for all five kinds of write.
- **RefundRequests** extends Ordering: `FileCheck`, `FileLook`, `FileInsert`,
  `FileAbort`; `HandleRead`, `HandleCommit` (a compare-and-set), `HandleAbort`.
- **Accounts** is the refresh-token session of one user in one browser:
  `refreshSession` (a call of a tab meets a 401), `Serve` and `Retire` (the two
  commits of the server), `Answered`, `Blip` (the answer is lost), `TokenlessCall`
  and `SettledCall` (the early return of `refreshSession`), `Reload`, `Login`,
  `Logout`, `RevokeSessions`; and `EditCheck`, `EditCommit`, `EditAbort`, the
  administration of administrators.
- **ShopLifecycle**: `apply`, `ShopCheck`, `ShopCommit`, `ShopAbort`,
  `setIntake`.  **PlatformConfig**: `ConfigAsk`, `ConfigCommit`, then the reload
  of the instance, `ReloadLoad` or `ReloadFails`, and `usePolicy`;
  `InstanceRestarts`.  **Images**: `UploadCheck`, `UploadRecord`,
  `StoreOriginal`, `StoreDerivatives`, `UploadReady`, `UploadFails`,
  `UploadDies`; `RemoveRead`, `RemoveObject`, `RemoveRow`, `RemoveDies`.
- **BackOffice** and **FrontOfHouse** compose these.  Their parts read orders
  and never read each other, so a behaviour of all of them looks, to any one
  part, like a behaviour in which the others rest: `Init` picks the `part` that
  acts, and TLC explores the sum of the parts rather than their product.  (Two
  dependencies of the code become nondeterminism on the reader's side: the
  status of the shop, which a placement checks, and the cancellation policy,
  which a transition reads, are a refusal and a constant in Ordering.)
- **MC\*** give the constants that are not model values, the symmetry and the
  bounds of the instance.
- **OrderingProofs** (the order rows and the ledger), **StockProofs** (the stock
  and the refinement of `Fulfilment`), **PaymentsProofs** (which extends both
  Payments and OrderingProofs), **OutboxProofs**, **ReservationProofs**,
  **FrontOfHouseProofs** (dining and the queue), **PlatformProofs**
  (configuration, images, sessions, administrators) and **BackOfficeProofs**
  (settlement, shop, refund tickets, reviews) hold the theorems.

Row locks make a transaction one step: what it reads under the lock cannot
change before it commits, and what it writes is invisible until then.  Every
read that is *not* under such a lock is a step of its own.  Operators named in a
comment "Mutation of ..." are deliberate bugs; they are used nowhere in the
specifications and serve to confirm that each property fails when the code it
guards is broken.  Fields marked "history" are not in the code; they record what
overlapped what, for the properties.

## 3. Runs

| Run | Instance | What it shows |
|---|---|---|
| OrderingStock | 2 orders, 2 items, quantity 1, caps 0 (none) and 1, 2 edits | types; held and sold exact; no oversell; row and menu agree on the cap unless it was seeded during a change or put back by an overtaken edit; refines `Fulfilment` |
| OrderingSweeper | 1 order, quantity up to 2, caps 1-2, 2 sweepers, 2 crashes | credited once; decisions exist and are final; versions gapless; overdue orders resolve |
| Payments | 1 order costing 2, 1 request, 1 reactor, 3 refund rows, 1 fault, operators refunding 1 or the rest | books, captures, refunds, refinement of `Ordering!Spec` |
| PaymentsLiveness | 1 order, 1 request, 1 sweeper, 1 reactor, 2 faults | charged money is served, or the amount decided is on its way back; no operator refunds by hand here |
| Outbox | 1 aggregate with 2 events, 2 relays, 1 operator, 3 attempts, 3 faults | sent before published; no second copy as long as nothing failed; nothing pending for ever |
| Reservation | 2 bookings, 2 start times on 3 slots, parties up to 2, 3 settings with 2 slot lengths, 2 rest-day requests with limit 1, 1 death; two requests of any kind at a time | seats exact but where the grids of an ended booking differ; no overbooking; swept days clear; refines `Fulfilment` until a booking ends on a grid not its own |
| BackOffice | 2 orders, 2 operators; ratings 1-2, 2 writers; 2 tickets, 2 handlers; 2 tabs with 2 calls each, 3 tokens; 3 administrators, 2 edits; 2 desks; 2 instances, 2 writes of 2 values; 2 uploads, 2 removals | one property per service: a batch is settled once, the rating is exact, one ticket per order and one ending per ticket, a tab stays logged in, an administrator remains, a closed shop stays closed, the policy in force is the stored one, a READY image is there - each unless requests overlapped in the way the property names |
| FrontOfHouse | 2 rounds, 1 table, 2 scans; 3 takers, 2 phones, 2 retries, 1 sweep | one open sitting per table, one guest per sitting; numbers without gap, one live number per phone unless two requests overlap, tickets end once |
| OpenTabs, SweeperRace, RefundTwice, OutboxRooms | see section 6 | counterexamples to what comments and documents say |

**Why the bounds are enough.**  Orders interact only through stock rows, and a
conflict over a row needs two orders: one holds, the other is refused, or both
pass the early check and one is refused at commit.  Two items show that one line
failing undoes the other and that deleting one leaves the other alone; quantity
2 with caps 1 and 2 is in the single-order run.  Two edits of a cap let one be
overtaken by the other.  `Small` (MCOrdering) keeps two requests under way at a
time, placements and edits together, two edits on one item, and beside an edit
orders that are unpaid or collected; the proofs have no such bound.  In the
other runs no cap is edited (`CapEditors` is empty): nothing they check reads
one.  The other properties of
Ordering and Payments concern one order and any number of actors, who are
unbounded here (customer, shop, operator and payment may act at any time); two
sweepers are needed for stale lists of the same order.  A total of 2
distinguishes nothing, half and all; the `LATE` tier is set to half so that
partial decisions occur.  Three refund rows are the reactor's limit of failures,
and allow an operator's refund between.  Three attempts stand for the relay's
ten; two events make a batch that fails half-way.  `MaxCrashes`, `MaxFaults`,
`MaxRefunds` and `MaxVersion` are the only counters that are cut off in these
runs; in Outbox an operator's request counts as a fault so that retries are
finite.

Reservation: seats conflict between two bookings, whose turns of two slots
overlap in one, so partial overlap and a half-granted hold occur.  A sweep limit
of 1 with 2 bookings stands for the code's 200: the list is cut, or is not.  Its
three settings differ in turn, capacity, slot length, confirmation and the intake
switch; the two slot lengths reach both exceptions of `SeatsMatchActiveBookings`,
a slot that counts too few and one that counts too many (section 6).  Two rest-day requests let one reopen or close the day again under the sweep
of the other; `Small` keeps two requests under way at a time, placements and
rest-day requests together, and starts no sweep while the book is closed.  What
it cuts off is covered by the proofs, which have no such bound.

BackOffice: every property of it is about two requests that overlap, so there
are two of each kind, and three administrators, so that two may be demoted while
one ought to remain.  `MaxTokens` = 3 is a session, its rotation and the rotation
of that, enough for a reused token and for a tab that is one rotation behind.
Two orders let one review be withdrawn while another is written.  `Small` keeps
tickets on one order (one ticket per order is the question), reviews and tickets
on orders paid online and in time (neither service reads mode or clock), and no
shop beside the other parts.  Three configuration writes (104 038 states) and
three uploads (549 743 states) were tried in instances of their own and hold as
well.  FrontOfHouse: a table is raced for by two scans, and its bill by two
rounds; three takers on two phones are a repeated and a foreign request at once;
2 retries are exceeded by three takers.  `Small` keeps tables bare beside the
queue and does not follow a round past its payment, which the Ordering runs do.

OrderingStock uses symmetry of orders, of items and of edits, Reservation of bookings
and rest-day requests,
BackOffice and FrontOfHouse of orders, writers, tickets, handlers, scans, takers
and phones; the properties of all four are safety properties.

Deadlock checking is off where everything may be finished and nothing is left to
do: OrderingStock, the Payments runs with finished orders, the Outbox runs with
every row published, BackOffice, FrontOfHouse and OpenTabs with every request
answered.

**Fairness.**  `FairSpec` of Ordering: each sweeper's own steps, because
`scheduleNext` runs in a `finally` block and a restarted instance starts its
loop again.  Nothing is assumed of customers, shops or operators.
`FairPaySpec`: tasks under way proceed (or crash, boundedly often), the reactor
loop proceeds, clocks run out, and a webhook is redelivered until it is answered
(strong fairness: the request slot it needs may be busy now and then).
Outbox: relays reschedule themselves in `finally`, time passes, outages end, and
a console request that passed its check is carried out.  Operators need not act.
BackOffice and FrontOfHouse assume no fairness and claim no liveness: everything
in them waits for a person, and the sweep of the queue has no scheduler.

## 4. Proofs

Every safety property a passing run checks is stated by a theorem here, for every
value of the constants: any sets of orders, items, tables, scans, phones,
operators, instances, uploads, bookings, tabs and payment requests, every
quantity, cap, price and policy, and any number of sweepers, relays and retries.
What the theorems assume is named where the constants are declared.  In
`Ordering`: finitely many orders, natural bounds, a positive total and a policy
between 0 and 10000 basis points.  In `Payments`: requests and reactors are
different things (`ProcessAssumption`), and operators ask for positive amounts.
In `Outbox`: at least one attempt.  In `Reservation`: finitely many bookings, a
turn no shorter than a slot, and a day long enough for the last turn
(`SlotAssumption`: the code computes slots by arithmetic and knows no last one).
Elsewhere only that the word for "nobody" is not a name (`GuestAssumption`,
`NamesAssumption`, `TicketsAssumption`), that stars are 1 to 5, and that bounds
are numbers and finite sets.

One theorem has a hypothesis of its own.  `RefundedOrdersGotTheirMoney` is proved where
`"REFUNDED" \notin AdminTargets`: an operator may force an order to REFUNDED
whatever was paid back, and the run checks the property where they do not.

| Module | Theorem | Statement |
|---|---|---|
| OrderingProofs | `TypeCorrect` | `Spec => []TypeOK` |
| | `RefundsAreDecided` | `Spec => []PaidClosureHasDecision` |
| | `LedgerIsExact` | `Spec => []LedgerExactlyOnce` |
| | `VersionsHaveNoGap` | `Spec => []VersionsAreGapless` |
| | `DecisionsAreFinal` | `Spec => DecisionIsFinal` |
| | `RefundsStayWithinTheTotal` | `Spec => []RefundWithinTotal`: no decision exceeds what the order cost, for any policy and rounding |
| StockProofs | `HeldIsExact`, `SoldIsExact` | `Spec => []HeldMatchesLiveOrders`, `[]SoldMatchesFulfilledOrders` |
| | `NothingIsOversold` | `Spec => NoOversell` |
| | `OrderingImplementsFulfilment` | `Spec => ImplementsFulfilment` |
| | `CapsDriftOnlyByOverlap` | `Spec => CapDriftsOnlyByOverlap` |
| PaymentsProofs | `PaymentsTypeCorrect`, `PaidOrdersHaveCaptures` | `PaySpec => []PayTypeOK`, `[]PaidOrderHasCapture` |
| | `CapturesAreReal`, `RefundedPaymentsAreCovered` | `PaySpec => []CaptureIsReal`, `[]RefundedPaymentIsCovered` |
| | `BooksAreBracketed`, `ReactorPaysAsDecided` | `PaySpec => []BooksBracketTheProvider`, `ReactorPaysTheDecision` |
| | `RefundedOrdersGotTheirMoney` | `"REFUNDED" \notin AdminTargets => (PaySpec => []RefundedOrderGotItsMoney)` |
| | `PaymentsImplementOrdering` | `PaySpec => ImplementsOrdering` |
| OutboxProofs | `OutboxTypeCorrect` | `Spec => []TypeOK` |
| | `PublishedRowsWereSent`, `SecondCopiesComeOfFaults` | `Spec => []PublishedWasSent`, `[]DuplicatesNeedFaults` |
| ReservationProofs | `BookTypeCorrect`, `SweptDaysAreClear` | `Spec => []TypeOK`, `[]SweptDayIsClear` |
| | `NothingIsOverbooked` | `Spec => NoOverbooking` |
| | `SeatsAreExact` | `Spec => []SeatsMatchActiveBookings` |
| | `ReservationImplementsFulfilment` | `Spec => ImplementsFulfilment` |
| FrontOfHouseProofs | `TableHasOneBill`, `SittingHasOneGuest` | `FrontOfHouseSpec => []OneOpenSittingPerTable`, `[]OneGuestPerSitting` |
| | `NumbersHaveNoGap`, `SecondNumbersOverlapped` | `FrontOfHouseSpec => []NumbersAreConsecutive`, `[]SecondNumberNeedsOverlap` |
| | `TicketsEndForGood` | `FrontOfHouseSpec => EndedTicketsStay` |
| PlatformProofs | `PolicyIsStored`, `ReadyImagesAreStored` | `BackOfficeSpec => []PolicyIsStoredUnlessMissed`, `[]ReadyImageIsStored` |
| | `SessionsSurviveTheirCalls`, `AnAdminRemains` | `BackOfficeSpec => []SessionLostOnlyByFault`, `LastAdminLostOnlyByOverlap` |
| BackOfficeProofs | `SettledStaysSettled`, `ClosedStaysClosed` | `BackOfficeSpec => SettledAgainOnlyIfOverlapped`, `ClosedShopIsFinal` |
| | `SecondTicketsOverlapped`, `EndedTicketsStay` | `BackOfficeSpec => []SecondTicketNeedsOverlap`, `TicketEndsOnce` |
| | `RatingFollowsReviews` | `BackOfficeSpec => RatingDriftsOnlyByOverlap` |

The inductive invariants themselves are theorems too: `Inductive` (`IInv`),
`StockInductive`, `PaymentsInductive`, `OutboxInductive`, `BookInductive`,
`SeatsInductive`.

*Ordering and stock.*  None of the properties is inductive alone.  `IInv` adds to the
types: `RequestOK` (a placement under way belongs to an order that is not
placed), and `LifeOK` (what the history fields of an order may be in each
status: an order being served was paid, an undecided one was never closed,
`readyAt` is set exactly from READY on).  With `LifeOK`, that a rule out of
READY is the only fulfilling one makes the ledger exact, and that no rule with
`ISSUE_REFUND` starts from a status that has a decision makes decisions final.
`Transition` is proved once, by cases over the rules of the table (lemmas on
`TRANSITIONS`); the other actions leave the relevant tables alone or are small.
`StockInv` adds `NoRowCountsNothing` (without a row nobody holds units) and the
two counting invariants.  These compare a counter with the cardinality of a set
of units; the lemmas say how that set grows or shrinks when one order enters or
leaves it, and that a release never reaches the clamp `GREATEST(n, 0)`.  The
refinement maps an order to its fate (none, held, released, sold) and shows, per
action, the abstract step or stutter it is.  For the caps: no move touches the
cap of a row, and a placement keeps the row it finds; only the row it seeds
carries what it read before.  An edit that found the cap changed writes menu and
row alike; one that did not writes the menu only, which matters only if the menu
has moved since.  That a
refund stays within the total is arithmetic about `applyBasisPoints`: a share of
at most 10000 basis points, rounded half up, does not exceed the amount.

*Payments.*  `PayInv` contains `IInv`, because a task that moves the order is a
step of Ordering, and adds what each task may rely on between its commits
(`TaskOK`): money was taken on the payment it works on; the refund row it wrote
is still its own and PENDING; and a refund that was full when the balance was
read is full when it ends, since whatever succeeds meanwhile only adds to the
sum.  `RowsAreOwnedOnce` is needed for that: two tasks never answer for one row.
`ReactorOK` says that the decision of a listed order is still the decision, from
`DecisionIsFinal` and from the order being closed for good.  The books of the
provider need an invariant of their own, `BooksOK`: what it returned lies between
the rows whose success is known, in the table or in the hand of a task, and the
rows that have been sent; a lost answer or a dead task leaves a row in the gap.
Sums of amounts are cardinalities of sets of minor units, so that the lemmas
about finite sets apply without induction.  `PaymentsImplementOrdering` shows
each action to be a step of Ordering or to leave its tables alone.

*Outbox.*  `OutboxInv` says that a pass has locked what is PENDING and nobody
else has, and that what it locked and did not leave behind was sent: with this,
marking the batch is marking what was sent.  As long as no fault was counted, a
message is unsent, or sent once and marked or about to be marked by the pass
that sent it (`FaultFree`).  That Redis stays up once a message went out without
a fault is part of it: an outage would leave the sent half of a batch PENDING.

*Reservation.*  `BookInv`: a sweep that was not overtaken still has its closure,
and its list covers the active bookings made before the closing, unless it was
cut (`SweepOK`).  The latch then finds them cancelled.  `SeatsInv` adds that
only the step that ends a booking gives seats back.  That step takes the party
off the slots of the grid in force (`freed`) while the seats leave the slots of
the booking's own (`grid`): a slot of both stays as it was, a slot of one only is
what the two exceptions name, and since ended bookings stay ended, they name it
for ever.  Counters are compared with sets of seats as in StockProofs.  As long
as no booking has ended on a grid not its own there are no exceptions, the counts
are exact, and each step is one of `Fulfilment` (`ReservationImplementsFulfilment`).

*Dining.*  `DiningInv` says that at most one request holds the lock of a table;
that what a scan saw under the lock is still so when it commits, since nobody
else could open or close a bill in between; and that the bill a scan is about to
open does not exist yet.  For the guests: how far a round has come fixes what
the sitting knows of its guest: the conditional write fills it only once, and a
round takes for its guest what it reads back, never what it wrote.

*Waitlist.*  `QueueInv`: the numbers a taker read are at most the next one; an
inserted number is the next, and only one insert of it is open, by the unique
index; and the tickets that were there when a guest asked have a number, and
those of the same phone have ended for good.  The last clause is what makes two
live tickets of one phone impossible without an overlap.

*Configuration and images.*  A reading of the policy that no write overtook is
what the table says; whoever installs another one is recorded as having missed
a change.  The ids of assets are spent, a removal is marked from its read on,
and an attempt that nobody removed has stored what its stage says.

*Sessions.*  `SessionInv`: a tab has one refresh under way (`OneRefresh`), any
refresh the server has seen excuses all other tabs, and a tab that nothing befell
may trust what it has: the token it sent, will get or has stored is not revoked,
except the one its own refresh has just replaced.  So the server never answers
its refresh with a refusal, and it is shown signed out by no call of its own.

*Settlement, shop, tickets, reviews and administrators.*  These share one shape:
a request that nobody overtook may still do what its check allowed, so one that
does more must have been overtaken.  For reviews (`ReviewsInv`) that is: the
rating it computed is the rating of the table with its row in it, and if it does
not recompute, its row is the row that is there.  The aggregate itself stays
opaque: nothing depends on how it sums.  For tickets, what was there when a filing looked had ended, and
ended tickets stay so because a handler's compare-and-set matches only a status
it read as active.

*Only model-checked.*  Liveness (`OverdueOrdersResolve`,
`ChargedMoneyIsSettled`, `PendingIsSettled`) needs `ENABLED` and fairness and is
out of the prover's reach.  So is what a sum computes for every input: the
theorem on ratings compares two uses of the same aggregate.  The four findings
of section 6 are counterexamples of small instances, which need no proof.

## 5. Abstractions

- One merchant, one service day, one week's batch; quantities and prices are
  small numbers.
- Clocks are a flag `late` per order that turns on at any time once the status
  has a deadline, and is cleared by a move.
- The menu's availability switch, modifiers and prices, the idempotency key of a
  placement and the pickup code are left out; a customer may resubmit at will.
- `BATCH` limits of the loops are not reached by so few rows.
- An order's captured total is `Total`; price calculation is not modelled.
- `RefundService.issue` reads payment, balance and status in several queries
  with no commit between; they are one step `IssueRead`.
- The provider refunds at most what it took; refusals are free and unbounded.
- A payment that was closed by a replayed webhook (`REFUNDED` back to
  `CAPTURED`) is modelled as the code does it.
- Dining: token values, seats, labels and the rotation of a table's code are
  left out; a round has one item, and the menu rests while rounds are placed.
- Waitlist: party sizes, positions and estimated waits are left out; a phone
  stands for whatever identifies the guest.
- Reviews carry stars and the hidden flag only; texts and the shop's reply do
  not enter the aggregate.  Refund tickets carry no amount: the ticket moves no
  money.
- Sessions are those of one user in one browser.  Tokens do not run out by age,
  and one-time codes are left out; the access token may be rejected at any time.
  A sign-out is one step that does not fail, and what the server would do for a
  refresh whose tab was reloaded is dropped: both only befall tabs that
  `SessionLostOnlyByFault` excuses.
- Configuration is one key with opaque, valid values; history rows are left out.
- Images: the three derivatives are stored in one step, and decoding is a step
  that may fail; uploads by presigned link are left out.

## 6. Where the code disagrees with what is said of it

1. **SweeperRace.**  `order-timeout-sweeper.service.ts:55-59` expects an
   optimistic conflict for an order that moved on after it was listed.  The
   transition starts from the status it finds, so a just-paid order is expired
   and refunded by the pass for unpaid orders.
2. **RefundTwice.**  `refund.service.ts:202` says a retried request cannot
   refund twice; the key is per row and each retry has a new row.
3. **OutboxRooms.**  `order.gateway.ts:245-248` says every event reaches its
   room; the relay's message lacks the field the gateway routes by.
4. **OpenTabs.**  `prisma-dining.repository.ts:326-331` and
   `scan-and-order.use-case.ts:107-108` say that a round is unpaid until the
   bill of the sitting.  A round is an ordinary order with a payment deadline
   (15 minutes by default) and `expireUnpaid`
   (`order-timeout-sweeper.service.ts:137-148`) expires it; the bill leaves
   expired orders out.

Seen while modelling, without a run of its own.

*Stock and outbox.*  `menu.service.ts:342-344` pushes a new cap into the day's
row, without which "the row keeps the old one, and the menu silently ignores
them".  It can still happen in two ways.  A row being seeded by an open placement
is missed and keeps the old cap.  And the item is read and compared before the
transaction (`menu.service.ts:310-334`): with menu and row at 5, an edit that
resubmits 5 beside another changed field is overtaken by one that sets 10 in
both; it then writes its whole patch, 5 included, to the item, and leaves the
row at 10, because its comparison found the cap unchanged.  These are the two
exceptions of `CapDriftsOnlyByOverlap`.  `outbox-relay.service.ts:34-37`
says rows simply accumulate during an outage; after ten failed passes they are
dead letters.

*Reservations.*  `transition-reservation.use-case.ts:131-136` holds that the
slot length in force can safely be used at the release; after a shop changes it,
a release takes seats of a slot the booking never held, or leaves some of its
own booked (the exceptions of `SeatsMatchActiveBookings`; `ImplementsFulfilment`
holds up to the first such release).  A closure whose sweep reached its limit is marked swept all the
same, so that saving it again does not handle the rest as
`merchant-closure.service.ts:58-61` says (`SweptDayIsClear` excepts the days
where the shop was told of a remainder).  The latch names shop and date, not the
row (`merchant-closure.service.ts:307-320`): a day reopened
and closed again under a sweep is marked swept by the older request, which listed
nothing of the second closing (the other exception, `stale`).  A repeated booking request is not
absorbed by the seat counter, as `reservation.repository.port.ts:91-94` says, as
long as seats are left.

*Dining and queue.*  `take-number.use-case.ts:104-107` answers "a second tap on
the button" with the ticket the guest has, but looks for it outside the
transaction that inserts: two taps that overlap get two numbers, both live (the
exception of `SecondNumberNeedsOverlap`).  A sitting closes with rounds unpaid, and a round admitted
before the close lands on the closed sitting.  Nothing schedules the sweep of
the queue; it runs when it is asked for.

*Back office.*  `file-refund-request.use-case.ts:48-49` counts on its check
under a transaction, which locks nothing, and `findByIdForUpdate` of the same
module takes no lock; two tickets of one order need only overlap.  A rating "cannot
drift", but the aggregate of one write does not see a review that another has
not committed.  Two operators may settle a batch twice; an order that joins a
PAID batch adds money nobody transfers, and the audit entry may quote the amount
read before it joined.  The check that an administrator remains is made outside
the transaction that demotes one.  So is the check of a shop's status: an
overlapping REINSTATE reopens a CLOSED shop, and `setIntake`
(`merchant.service.ts:281-310`) does not ask for the status at all.

*Sessions.*  `api.ts:217-218` keeps the session on a network failure, but the
path through `249-251` drops the token.  `refreshInFlight` is
still set when it has settled (`api.ts:199-202`), so that a call in the gap gets
the old answer.  A tab that reuses a token another tab has rotated revokes the
whole family; a sign-out that races a refresh leaves the new token alive.

*Configuration and images.*  Two reloads that overlap may install the older
reading last, a failed read installs the defaults of the environment, and the
other instances never reload (`pricing.module.ts:109-112,286-294`): the
exceptions of `PolicyIsStoredUnlessMissed`.  When an upload is tried again, the
upsert keeps `originalKey` of the first attempt while the bytes go to a new key
(`image-asset.service.ts:103,120-125`, `local-storage.service.ts:136`), so that
a READY image can lack its original, and the objects of the retry belong to no
row.

## 7. Not modelled

- **Pricing engine** (`packages/domain/src/pricing`): arithmetic without state,
  over inputs that unit tests enumerate better; its result is a constant here,
  and how its policy is replaced at run time is PlatformConfig.
- **Fleet and dispatch**: a reference implementation for a second phase, behind
  ports that no module of the API wires up.
- **Discovery, analytics, FPS codes**: reads, scores and encodings; nothing is
  written that another part reads.
- **Infrastructure** (database, cache, storage, audit, metrics, filters): what
  the components rely on is in their models, as transactions, locks, objects and
  lost answers.
- **Opening hours and the reporting tier**: rows edited by a form.
- **One-time codes**: a row consumed under a rate limit, apart from the session.
- **Web pages and components**: they show what the API decides.  Of the client
  only the shared refresh and the session have state with a life of its own.
- **End-to-end and contract scripts, DTOs, views, types**: tests and shapes.

These are most of the repository by lines: pages and components of the front
end, scripts, type declarations, DTOs, row mapping and reads.  They keep no state
with a life of its own, so a definition that claimed them would stand for
nothing; that is why the lines named in `map` are a small share of the whole.

## 8. Plan

1. What the payment module inherits from Ordering by `PaymentsImplementOrdering`,
   stated for Payments: no reactor refunds more than the order cost.
2. Refinements beside the two of `Fulfilment`: an abstract outbox (each message
   is delivered, or dead and reported), which Outbox would implement, and the
   batch of Settlement as an abstract account that is paid once.
3. `ChargedMoneyIsSettled` beside operators: an order refunded in part by hand
   before it closes is skipped by the reactor, so the property as it stands fails
   there, and the exception it needs makes the instance too large.
