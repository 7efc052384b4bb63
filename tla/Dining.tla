-------------------------------- MODULE Dining --------------------------------
(***************************************************************************)
(* Ordering at the table (apps/api/src/modules/dining): a scan of the      *)
(* table's code opens a sitting or joins the open one, the guests send     *)
(* rounds onto its bill, the shop closes it.                               *)
(*                                                                         *)
(* Composed with Ordering: a round is an ordinary order placed through     *)
(* PlaceOrderUseCase and moved, paid and expired like any other.  A scan   *)
(* holds the lock of its table between the lookup and the commit; a round  *)
(* finds its sitting and its guest in reads outside any transaction.       *)
(***************************************************************************)
EXTENDS Ordering

CONSTANTS
  Tables,   \* the tables of one shop
  Scans     \* requests that scan a table's code

VARIABLES
  tables,     \* rows of `dining_tables': none, or the switch
  sittings,   \* rows of `dining_sessions': the one each scan opened
  scans,      \* scans under way
  tabs        \* rounds: the bill and the guest each order is put down to

diningVars == <<tables, sittings, scans, tabs>>

-----------------------------------------------------------------------------
(* State.                                                                  *)

DiningSessionStatus == {"OPEN", "CLOSED", "ABANDONED"}

TERMINAL_SITTING == {"CLOSED", "ABANDONED"}

Unattached == "no guest"

(* A guest is known by the round that created it.                          *)
ASSUME GuestAssumption == Unattached \notin Orders

NoSitting == [status |-> "NONE", table |-> "no table", guest |-> Unattached]
NotScanning == [stage |-> "none", table |-> "no table", found |-> {}]
NoTab == [stage |-> "none", sitting |-> "no sitting", guest |-> Unattached]

DiningInit ==
  /\ tables \in [Tables -> {"none", "on", "off"}]
  /\ sittings = [q \in Scans |-> NoSitting]
  /\ scans = [q \in Scans |-> NotScanning]
  /\ tabs = [o \in Orders |-> NoTab]

OpenAt(t) == {q \in Scans : sittings[q].status = "OPEN" /\ sittings[q].table = t}

-----------------------------------------------------------------------------
(* Scanning: OpenCloseSessionUseCase.open.                                 *)

(* findByQrToken, outside the transaction.                                 *)
Scan(q, t) ==
  /\ sittings[q] = NoSitting /\ scans[q] = NotScanning
  /\ tables[t] = "on"
  /\ scans' = [scans EXCEPT ![q] = [NotScanning EXCEPT !.stage = "scanned", !.table = t]]
  /\ UNCHANGED <<tables, sittings, tabs>>

(* Mutation of TableLocked: the row is read without FOR UPDATE.            *)
NeverLocked(t) == FALSE

(* SELECT ... FOR UPDATE on the table, held until the commit.              *)
TableLocked(t) ==
  \E q \in Scans : scans[q].stage = "looking" /\ scans[q].table = t

(* findOpenSession, under the lock.                                        *)
ScanLook(q) ==
  LET t == scans[q].table IN
  /\ scans[q].stage = "scanned"
  /\ ~TableLocked(t)
  /\ scans' = [scans EXCEPT ![q].stage = "looking", ![q].found = OpenAt(t)]
  /\ UNCHANGED <<tables, sittings, tabs>>

(* Join the sitting found, or commit a new one.                            *)
ScanCommit(q) ==
  /\ scans[q].stage = "looking"
  /\ sittings' = IF scans[q].found # {} THEN sittings
                 ELSE [sittings EXCEPT ![q] =
                   [NoSitting EXCEPT !.status = "OPEN", !.table = scans[q].table]]
  /\ scans' = [scans EXCEPT ![q] = NotScanning]
  /\ UNCHANGED <<tables, tabs>>

ScanAbort(q) ==
  /\ scans[q] # NotScanning
  /\ scans' = [scans EXCEPT ![q] = NotScanning]
  /\ UNCHANGED <<tables, sittings, tabs>>

-----------------------------------------------------------------------------
(* The shop's side.                                                        *)

(* Close, under the sitting's row lock; whether the bill is paid is not    *)
(* asked.                                                                  *)
CloseSitting(q, to) ==
  /\ sittings[q].status = "OPEN"
  /\ to \in TERMINAL_SITTING
  /\ sittings' = [sittings EXCEPT ![q].status = to]
  /\ UNCHANGED <<tables, scans, tabs>>

CreateTable(t) ==
  /\ tables[t] = "none"
  /\ \E switch \in {"on", "off"} : tables' = [tables EXCEPT ![t] = switch]
  /\ UNCHANGED <<sittings, scans, tabs>>

(* The switch; an UPDATE waits for the lock of a scan.  A new code makes   *)
(* no difference to a scan that has found its table.                       *)
UpdateTable(t) ==
  /\ tables[t] # "none" /\ ~TableLocked(t)
  /\ \E switch \in {"on", "off"} \ {tables[t]} :
       tables' = [tables EXCEPT ![t] = switch]
  /\ UNCHANGED <<sittings, scans, tabs>>

-----------------------------------------------------------------------------
(* Sending a round: ScanAndOrderUseCase.execute.                           *)

(* findByGuestToken: the sitting is open and its table in use.             *)
RoundAdmit(o, q) ==
  /\ orders[o] = NotPlaced /\ tabs[o] = NoTab
  /\ sittings[q].status = "OPEN" /\ tables[sittings[q].table] = "on"
  /\ tabs' = [tabs EXCEPT ![o] = [NoTab EXCEPT !.stage = "admitted", !.sitting = q]]
  /\ UNCHANGED <<vars, tables, sittings, scans>>

(* resolveGuestCustomer: the sitting's guest, or a user row of one's own.  *)
RoundLook(o) ==
  LET guest == sittings[tabs[o].sitting].guest IN
  /\ tabs[o].stage = "admitted"
  /\ tabs' = [tabs EXCEPT ![o] =
       IF guest # Unattached
       THEN [@ EXCEPT !.stage = "ordering", !.guest = guest]
       ELSE [@ EXCEPT !.stage = "created", !.guest = o]]
  /\ UNCHANGED <<vars, tables, sittings, scans>>

(* attachGuestCustomer: UPDATE ... WHERE "guestCustomerId" IS NULL.        *)
RoundAttach(o) ==
  /\ tabs[o].stage = "created"
  /\ tabs' = [tabs EXCEPT ![o].stage = "attached"]
  /\ sittings' = [sittings EXCEPT ![tabs[o].sitting].guest =
       IF @ = Unattached THEN tabs[o].guest ELSE @]
  /\ UNCHANGED <<vars, tables, scans>>

(* Mutation of GuestReadBack: trusts the row it created.                   *)
GuestCreated(o) == tabs[o].guest

GuestReadBack(o) == sittings[tabs[o].sitting].guest

RoundReadBack(o) ==
  /\ tabs[o].stage = "attached"
  /\ tabs' = [tabs EXCEPT ![o].stage = "ordering", ![o].guest = GuestReadBack(o)]
  /\ UNCHANGED <<vars, tables, sittings, scans>>

RoundDies(o) ==
  /\ tabs[o].stage \in {"admitted", "created", "attached", "ordering"}
  /\ request[o] = NoRequest
  /\ tabs' = [tabs EXCEPT ![o] = NoTab]
  /\ UNCHANGED <<vars, tables, sittings, scans>>

(* PlaceOrderUseCase: the same checks, seeding and transaction as any      *)
(* order, paid at the shop; the sitting is not looked at again.            *)
RoundPlace(o) ==
  /\ tabs[o].stage = "ordering"
  /\ \/ PlaceCheck(o) /\ request'[o].mode = "PAY_AT_STORE" /\ UNCHANGED tabs
     \/ PlaceSeed(o) /\ UNCHANGED tabs
     \/ PlaceCommit(o) /\ tabs' = [tabs EXCEPT ![o].stage = "placed"]
     \/ PlaceAbort(o) /\ tabs' = [tabs EXCEPT ![o] = NoTab]
  /\ UNCHANGED <<tables, sittings, scans>>

(* What happens to a placed round: the guest has no login, so no move of   *)
(* the customer's.                                                         *)
RoundMoves(o) ==
  /\ Staffed(o) \/ Paying(o) \/ DeadlinePasses(o)
  /\ UNCHANGED diningVars

SweeperMoves(s) ==
  /\ Sweeping(s) \/ SweepCrash(s)
  /\ UNCHANGED diningVars

Sitting(q) ==
  /\ \/ \E t \in Tables : Scan(q, t)
     \/ ScanLook(q) \/ ScanCommit(q) \/ ScanAbort(q)
     \/ \E to \in DiningSessionStatus : CloseSitting(q, to)
  /\ UNCHANGED vars

Hosting(t) == (CreateTable(t) \/ UpdateTable(t)) /\ UNCHANGED vars

Round(o) ==
  \/ \E q \in Scans : RoundAdmit(o, q)
  \/ RoundLook(o) \/ RoundAttach(o) \/ RoundReadBack(o) \/ RoundDies(o)
  \/ RoundPlace(o) \/ RoundMoves(o)

DiningNext ==
  \/ \E q \in Scans : Sitting(q)
  \/ \E t \in Tables : Hosting(t)
  \/ \E o \in Orders : Round(o)
  \/ \E s \in Sweepers : SweeperMoves(s)

-----------------------------------------------------------------------------
(* Properties.                                                             *)

(* The comment above open(): scanning twice, or two guests at one table,   *)
(* does not produce two bills, however the scans overlap and whatever dies *)
(* or closes between.                                                      *)
OneOpenSittingPerTable ==
  \A p, q \in Scans :
    (/\ sittings[p].status = "OPEN" /\ sittings[q].status = "OPEN"
     /\ sittings[p].table = sittings[q].table) => p = q

(* The comment in resolveGuestCustomer: two rounds racing on a fresh       *)
(* sitting end up with one guest, the one the sitting names.               *)
OneGuestPerSitting ==
  \A o \in Orders :
    tabs[o].stage = "placed" =>
      /\ tabs[o].guest # Unattached
      /\ tabs[o].guest = sittings[tabs[o].sitting].guest

(* The comment above listSessionOrders: an unpaid round is the normal      *)
(* state of every round until the bill.  No unpaid round drops off the     *)
(* bill of a sitting that is still open.                                   *)
OpenTabKeepsItsRounds ==
  [][\A o \in Orders :
       (/\ tabs[o].stage = "placed"
        /\ sittings[tabs[o].sitting].status = "OPEN"
        /\ orders[o].status = "PENDING_PAYMENT")
       => orders'[o].status # "EXPIRED"]_<<orders, diningVars>>

=============================================================================
