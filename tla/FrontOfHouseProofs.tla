--------------------------- MODULE FrontOfHouseProofs ---------------------------
(***************************************************************************)
(* What holds of the tables and of the queue of FrontOfHouse for every set *)
(* of tables, scans and rounds, of requests, phones and sweeps, and every  *)
(* number of retries.                                                      *)
(***************************************************************************)
EXTENDS FrontOfHouse, TLAPS, FiniteSetTheorems

-----------------------------------------------------------------------------
(* The tables: the invariant.                                              *)

SittingRow ==
  [status : DiningSessionStatus \cup {"NONE"},
   table : Tables \cup {"no table"}, guest : Orders \cup {Unattached}]

ScanRow ==
  [stage : {"none", "scanned", "looking"},
   table : Tables \cup {"no table"}, found : SUBSET Scans]

TabRow ==
  [stage : {"none", "admitted", "created", "attached", "ordering", "placed"},
   sitting : Scans \cup {"no sitting"}, guest : Orders \cup {Unattached}]

DiningTypeOK ==
  /\ sittings \in [Scans -> SittingRow]
  /\ scans \in [Scans -> ScanRow]
  /\ tabs \in [Orders -> TabRow]

(* A scan under way has no sitting of its own yet.                         *)
ScanningIsFirst ==
  \A q \in Scans : scans[q].stage # "none" => sittings[q].status = "NONE"

(* The lock of a table has one holder.                                     *)
OneLooker ==
  \A p, q \in Scans :
    (/\ scans[p].stage = "looking" /\ scans[q].stage = "looking"
     /\ scans[p].table = scans[q].table) => p = q

(* Nobody opens a sitting between the look and the commit of another scan. *)
LookIsTrue ==
  \A p, q \in Scans :
    (/\ scans[p].stage = "looking" /\ scans[p].found = {}
     /\ sittings[q].status = "OPEN") => sittings[q].table # scans[p].table

(* How far a round has come, and what its sitting knows of its guest.      *)
TabLife(tab) ==
  /\ tab.stage # "none" =>
       tab.sitting \in Scans /\ sittings[tab.sitting].status # "NONE"
  /\ tab.stage \in {"created", "attached", "ordering", "placed"} =>
       tab.guest # Unattached
  /\ tab.stage = "attached" => sittings[tab.sitting].guest # Unattached
  /\ tab.stage \in {"ordering", "placed"} => tab.guest = sittings[tab.sitting].guest

TabsLive == \A o \in Orders : TabLife(tabs[o])

DiningInv ==
  /\ DiningTypeOK /\ ScanningIsFirst /\ OneLooker /\ LookIsTrue
  /\ OneOpenSittingPerTable /\ TabsLive

-----------------------------------------------------------------------------
(* Initially there are no scans, no sittings and no rounds.                *)
LEMMA InitDining == DiningInit => DiningInv
<1> SUFFICES ASSUME DiningInit PROVE DiningInv OBVIOUS
<1> USE DEF DiningInit, NoSitting, NotScanning, NoTab
<1>1. DiningTypeOK
  BY DEF DiningTypeOK, SittingRow, ScanRow, TabRow
<1>2. ScanningIsFirst /\ OneLooker /\ LookIsTrue
  BY DEF ScanningIsFirst, OneLooker, LookIsTrue
<1>3. OneOpenSittingPerTable BY DEF OneOpenSittingPerTable
<1>4. TabsLive BY DEF TabsLive, TabLife
<1> QED BY <1>1, <1>2, <1>3, <1>4 DEF DiningInv

(* Where the sittings and the rounds rest, what is said of them does too.  *)
LEMMA SittingsRest ==
  ASSUME DiningInv, sittings' = sittings, tabs' = tabs
  PROVE  OneOpenSittingPerTable' /\ TabsLive'
<1>1. OneOpenSittingPerTable'
  <2>1. OneOpenSittingPerTable BY DEF DiningInv
  <2> QED BY <2>1 DEF OneOpenSittingPerTable
<1>2. TabsLive'
  <2>1. TabsLive BY DEF DiningInv
  <2> QED BY <2>1 DEF TabsLive, TabLife
<1> QED BY <1>1, <1>2

(* What the rows become.                                                   *)
LEMMA FoundRow ==
  ASSUME NEW r \in ScanRow, NEW t \in Tables
  PROVE  /\ [r EXCEPT !.stage = "scanned", !.table = t] \in ScanRow
         /\ [r EXCEPT !.stage = "scanned", !.table = t].stage = "scanned"
<1>1. [r EXCEPT !.stage = "scanned"] \in ScanRow BY DEF ScanRow
<1>2. [[r EXCEPT !.stage = "scanned"] EXCEPT !.table = t] \in ScanRow
  BY <1>1 DEF ScanRow
<1>3. [r EXCEPT !.stage = "scanned", !.table = t]
        = [[r EXCEPT !.stage = "scanned"] EXCEPT !.table = t]
  BY DEF ScanRow
<1>4. [r EXCEPT !.stage = "scanned", !.table = t].stage = "scanned" BY DEF ScanRow
<1> QED BY <1>2, <1>3, <1>4

LEMMA LookingRow ==
  ASSUME NEW r \in ScanRow, NEW F \in SUBSET Scans
  PROVE  /\ [r EXCEPT !.stage = "looking", !.found = F] \in ScanRow
         /\ [r EXCEPT !.stage = "looking", !.found = F].stage = "looking"
         /\ [r EXCEPT !.stage = "looking", !.found = F].table = r.table
         /\ [r EXCEPT !.stage = "looking", !.found = F].found = F
<1>1. [r EXCEPT !.stage = "looking"] \in ScanRow BY DEF ScanRow
<1>2. [[r EXCEPT !.stage = "looking"] EXCEPT !.found = F] \in ScanRow
  BY <1>1 DEF ScanRow
<1>3. [r EXCEPT !.stage = "looking", !.found = F]
        = [[r EXCEPT !.stage = "looking"] EXCEPT !.found = F]
  BY DEF ScanRow
<1>4. [r EXCEPT !.stage = "looking", !.found = F] \in ScanRow BY <1>2, <1>3
<1> QED BY <1>4 DEF ScanRow

LEMMA OpenRow ==
  ASSUME NEW r \in SittingRow, NEW t \in Tables \cup {"no table"}
  PROVE  /\ [r EXCEPT !.status = "OPEN", !.table = t] \in SittingRow
         /\ [r EXCEPT !.status = "OPEN", !.table = t].status = "OPEN"
         /\ [r EXCEPT !.status = "OPEN", !.table = t].table = t
<1>1. [r EXCEPT !.status = "OPEN"] \in SittingRow
  BY DEF SittingRow, DiningSessionStatus
<1>2. [[r EXCEPT !.status = "OPEN"] EXCEPT !.table = t] \in SittingRow
  BY <1>1 DEF SittingRow
<1>3. [r EXCEPT !.status = "OPEN", !.table = t]
        = [[r EXCEPT !.status = "OPEN"] EXCEPT !.table = t]
  BY DEF SittingRow
<1>4. [r EXCEPT !.status = "OPEN", !.table = t] \in SittingRow BY <1>2, <1>3
<1> QED BY <1>4 DEF SittingRow

LEMMA ClosedRow ==
  ASSUME NEW r \in SittingRow, NEW to \in TERMINAL_SITTING
  PROVE  /\ [r EXCEPT !.status = to] \in SittingRow
         /\ [r EXCEPT !.status = to].status \in TERMINAL_SITTING
         /\ [r EXCEPT !.status = to].guest = r.guest
<1>1. to \in DiningSessionStatus BY DEF TERMINAL_SITTING, DiningSessionStatus
<1> QED BY <1>1 DEF SittingRow

(* A scan under way has opened nothing.                                    *)
LEMMA ScannerIsFirst ==
  ASSUME DiningInv, NEW p \in Scans, scans[p].stage # "none"
  PROVE  sittings[p].status = "NONE"
BY DEF DiningInv, ScanningIsFirst

(* A scan that has found a table.                                          *)
LEMMA ScanStep ==
  ASSUME DiningInv, NEW q \in Scans, NEW t \in Tables, Scan(q, t)
  PROVE  DiningInv'
<1>1. sittings' = sittings /\ tabs' = tabs BY DEF Scan
<1>2. sittings[q].status = "NONE"
  <2>1. sittings[q] = NoSitting BY Zenon DEF Scan
  <2>2. NoSitting.status = "NONE" BY DEF NoSitting
  <2> QED BY <2>1, <2>2
<1> DEFINE row == [NotScanning EXCEPT !.stage = "scanned", !.table = t]
<1>3. scans' = [scans EXCEPT ![q] = row] BY Zenon DEF Scan
<1>4. scans \in [Scans -> ScanRow] BY DEF DiningInv, DiningTypeOK
<1>5. row \in ScanRow /\ row.stage = "scanned"
  <2>1. NotScanning \in ScanRow BY DEF NotScanning, ScanRow
  <2> QED BY <2>1, FoundRow
<1> HIDE DEF row
<1>6. DiningTypeOK' BY <1>1, <1>3, <1>4, <1>5 DEF DiningInv, DiningTypeOK
<1>7. ScanningIsFirst' BY <1>1, <1>2, <1>3, <1>4 DEF DiningInv, ScanningIsFirst
<1>8. OneLooker' BY <1>3, <1>4, <1>5 DEF DiningInv, OneLooker
<1>9. LookIsTrue' BY <1>1, <1>3, <1>4, <1>5 DEF DiningInv, LookIsTrue
<1> QED BY <1>1, <1>6, <1>7, <1>8, <1>9, SittingsRest DEF DiningInv

(* A scan that looks for an open sitting takes the lock of its table.      *)
LEMMA LookStep ==
  ASSUME DiningInv, NEW q \in Scans, ScanLook(q)
  PROVE  DiningInv'
<1>1. sittings' = sittings /\ tabs' = tabs BY DEF ScanLook
<1>2. scans[q].stage = "scanned" /\ ~TableLocked(scans[q].table) BY DEF ScanLook
<1>3. scans \in [Scans -> ScanRow] BY DEF DiningInv, DiningTypeOK
<1> DEFINE row == [scans[q] EXCEPT !.stage = "looking", !.found = OpenAt(scans[q].table)]
<1>4. /\ row \in ScanRow /\ row.stage = "looking"
      /\ row.table = scans[q].table /\ row.found = OpenAt(scans[q].table)
  <2>1. OpenAt(scans[q].table) \in SUBSET Scans BY DEF OpenAt
  <2>2. scans[q] \in ScanRow BY <1>3
  <2> QED BY <2>1, <2>2, LookingRow
<1>5. scans' = [scans EXCEPT ![q] = row]
  <2>1. scans' = [scans EXCEPT ![q].stage = "looking",
                               ![q].found = OpenAt(scans[q].table)]
    BY DEF ScanLook
  <2> QED BY <2>1, <1>3
<1> HIDE DEF row
<1>6. DiningTypeOK' BY <1>1, <1>3, <1>4, <1>5 DEF DiningInv, DiningTypeOK
<1>7. ScanningIsFirst' BY <1>1, <1>2, <1>3, <1>5 DEF DiningInv, ScanningIsFirst
<1>8. OneLooker' BY <1>2, <1>3, <1>4, <1>5 DEF DiningInv, OneLooker, TableLocked
<1>9. LookIsTrue' BY <1>1, <1>3, <1>4, <1>5 DEF DiningInv, LookIsTrue, OpenAt
<1> QED BY <1>1, <1>6, <1>7, <1>8, <1>9, SittingsRest DEF DiningInv

(* A scan that ends, whatever became of it.                                *)
LEMMA ScanEnds ==
  ASSUME DiningInv, NEW q \in Scans, scans' = [scans EXCEPT ![q] = NotScanning]
  PROVE  /\ scans' \in [Scans -> ScanRow] /\ OneLooker'
         /\ \A p \in Scans : scans'[p] = IF p = q THEN NotScanning ELSE scans[p]
<1>1. scans \in [Scans -> ScanRow] BY DEF DiningInv, DiningTypeOK
<1>2. NotScanning \in ScanRow BY DEF NotScanning, ScanRow
<1>3. NotScanning.stage = "none" BY DEF NotScanning
<1>4. OneLooker' BY <1>1, <1>3 DEF DiningInv, OneLooker
<1> QED BY <1>1, <1>2, <1>4

(* A scan that joins the sitting it found, dies, or is refused.            *)
LEMMA JoinStep ==
  ASSUME DiningInv, NEW q \in Scans, scans' = [scans EXCEPT ![q] = NotScanning],
         sittings' = sittings, tabs' = tabs
  PROVE  DiningInv'
<1>1. NotScanning.stage = "none" BY DEF NotScanning
<1>2. DiningTypeOK' BY ScanEnds DEF DiningInv, DiningTypeOK
<1>3. ScanningIsFirst' BY <1>1, ScanEnds DEF DiningInv, ScanningIsFirst
<1>4. LookIsTrue' BY <1>1, ScanEnds DEF DiningInv, LookIsTrue
<1> QED BY <1>2, <1>3, <1>4, ScanEnds, SittingsRest DEF DiningInv

(* A scan that found nothing opens the sitting of its table.               *)
LEMMA OpenStep ==
  ASSUME DiningInv, NEW q \in Scans, scans' = [scans EXCEPT ![q] = NotScanning],
         scans[q].stage = "looking", scans[q].found = {}, tabs' = tabs,
         sittings' = [sittings EXCEPT ![q] =
           [NoSitting EXCEPT !.status = "OPEN", !.table = scans[q].table]]
  PROVE  DiningInv'
<1>1. NotScanning.stage = "none" BY DEF NotScanning
<1> DEFINE row == [NoSitting EXCEPT !.status = "OPEN", !.table = scans[q].table]
<1>2. row \in SittingRow /\ row.status = "OPEN" /\ row.table = scans[q].table
  <2>1. scans[q].table \in Tables \cup {"no table"}
    BY DEF DiningInv, DiningTypeOK, ScanRow
  <2>2. NoSitting \in SittingRow BY DEF NoSitting, SittingRow
  <2> QED BY <2>1, <2>2, OpenRow
<1>3. sittings \in [Scans -> SittingRow] BY DEF DiningInv, DiningTypeOK
<1>4. sittings' = [sittings EXCEPT ![q] = row] OBVIOUS
<1> HIDE DEF row
<1>5. sittings[q].status = "NONE"
  <2>1. scans[q].stage # "none" OBVIOUS
  <2> QED BY <2>1, ScannerIsFirst
<1>6. DiningTypeOK'
  <2>1. sittings' \in [Scans -> SittingRow] BY <1>2, <1>3, <1>4
  <2>2. tabs' \in [Orders -> TabRow] BY DEF DiningInv, DiningTypeOK
  <2> QED BY <2>1, <2>2, ScanEnds DEF DiningTypeOK
<1>7. ScanningIsFirst'
  <2>1. SUFFICES ASSUME NEW p \in Scans, scans'[p].stage # "none"
                 PROVE  sittings'[p].status = "NONE"
    BY DEF ScanningIsFirst
  <2>2. p # q /\ scans'[p] = scans[p] BY <1>1, <2>1, ScanEnds
  <2>3. sittings[p].status = "NONE" BY <2>1, <2>2, ScannerIsFirst
  <2>4. sittings'[p] = sittings[p] BY <1>3, <1>4, <2>2
  <2> QED BY <2>3, <2>4
<1>8. LookIsTrue'
  <2>1. SUFFICES ASSUME NEW p \in Scans, NEW x \in Scans,
                        scans'[p].stage = "looking", scans'[p].found = {},
                        sittings'[x].status = "OPEN"
                 PROVE  sittings'[x].table # scans'[p].table
    BY DEF LookIsTrue
  <2>2. p # q /\ scans'[p] = scans[p] BY <1>1, <2>1, ScanEnds
  <2>3. CASE x = q
    <3>1. sittings'[x].table = scans[q].table BY <1>2, <1>3, <1>4, <2>3
    <3>2. scans[p].table # scans[q].table BY <2>1, <2>2 DEF DiningInv, OneLooker
    <3> QED BY <2>2, <3>1, <3>2
  <2>4. CASE x # q
    <3>1. sittings'[x] = sittings[x] BY <1>3, <1>4, <2>4
    <3> QED BY <2>1, <2>2, <3>1 DEF DiningInv, LookIsTrue
  <2> QED BY <2>3, <2>4
<1>9. OneOpenSittingPerTable'
  BY <1>2, <1>3, <1>4 DEF DiningInv, OneOpenSittingPerTable, LookIsTrue
<1>10. TabsLive'
  <2>1. SUFFICES ASSUME NEW o \in Orders PROVE TabLife(tabs[o])'
    BY DEF TabsLive
  <2>2. TabLife(tabs[o]) BY DEF DiningInv, TabsLive
  <2> QED BY <1>3, <1>4, <1>5, <2>2 DEF TabLife
<1> QED BY <1>6, <1>7, <1>8, <1>9, <1>10, ScanEnds DEF DiningInv

(* The shop closes a sitting, under the feet of whoever looks at it.       *)
LEMMA CloseStep ==
  ASSUME DiningInv, NEW q \in Scans, NEW to, CloseSitting(q, to)
  PROVE  DiningInv'
<1>1. scans' = scans /\ tabs' = tabs BY DEF CloseSitting
<1>2. sittings \in [Scans -> SittingRow] BY DEF DiningInv, DiningTypeOK
<1> DEFINE row == [sittings[q] EXCEPT !.status = to]
<1>3. /\ row \in SittingRow /\ row.status \in TERMINAL_SITTING
      /\ row.guest = sittings[q].guest
  <2>1. to \in TERMINAL_SITTING BY DEF CloseSitting
  <2>2. sittings[q] \in SittingRow BY <1>2
  <2> QED BY <2>1, <2>2, ClosedRow
<1>4. sittings' = [sittings EXCEPT ![q] = row]
  <2>1. sittings' = [sittings EXCEPT ![q].status = to] BY DEF CloseSitting
  <2> QED BY <2>1, <1>2
<1> HIDE DEF row
<1>5. row.status # "NONE" /\ row.status # "OPEN" BY <1>3 DEF TERMINAL_SITTING
<1>6. sittings[q].status = "OPEN" BY DEF CloseSitting
<1>7. DiningTypeOK'
  <2>1. sittings' \in [Scans -> SittingRow] BY <1>2, <1>3, <1>4
  <2> QED BY <1>1, <2>1 DEF DiningInv, DiningTypeOK
<1>8. ScanningIsFirst'
  <2>1. SUFFICES ASSUME NEW p \in Scans, scans[p].stage # "none"
                 PROVE  sittings'[p].status = "NONE"
    BY <1>1 DEF ScanningIsFirst
  <2>2. sittings[p].status = "NONE" BY <2>1, ScannerIsFirst
  <2>3. p # q BY <1>6, <2>2
  <2>4. sittings'[p] = sittings[p] BY <1>2, <1>4, <2>3
  <2> QED BY <2>2, <2>4
<1>9. LookIsTrue' BY <1>1, <1>2, <1>4, <1>5 DEF DiningInv, LookIsTrue
<1>10. OneLooker' BY <1>1 DEF DiningInv, OneLooker
<1>11. OneOpenSittingPerTable'
  BY <1>2, <1>4, <1>5 DEF DiningInv, OneOpenSittingPerTable
<1>12. TabsLive'
  <2>1. SUFFICES ASSUME NEW o \in Orders PROVE TabLife(tabs[o])'
    BY DEF TabsLive
  <2>2. TabLife(tabs[o]) BY DEF DiningInv, TabsLive
  <2> QED BY <1>1, <1>2, <1>3, <1>4, <1>5, <2>2 DEF TabLife
<1> QED BY <1>7, <1>8, <1>9, <1>10, <1>11, <1>12 DEF DiningInv

-----------------------------------------------------------------------------
(* The rounds.                                                             *)

(* What a round becomes.                                                   *)
LEMMA AdmittedRow ==
  ASSUME NEW q \in Scans
  PROVE  LET row == [NoTab EXCEPT !.stage = "admitted", !.sitting = q]
         IN row \in TabRow /\ row.stage = "admitted" /\ row.sitting = q
<1>1. NoTab \in TabRow BY DEF NoTab, TabRow
<1>2. [NoTab EXCEPT !.stage = "admitted"] \in TabRow BY <1>1 DEF TabRow
<1>3. [[NoTab EXCEPT !.stage = "admitted"] EXCEPT !.sitting = q] \in TabRow
  BY <1>2 DEF TabRow
<1>4. [NoTab EXCEPT !.stage = "admitted", !.sitting = q]
        = [[NoTab EXCEPT !.stage = "admitted"] EXCEPT !.sitting = q]
  BY <1>1 DEF TabRow
<1>5. [NoTab EXCEPT !.stage = "admitted", !.sitting = q] \in TabRow
  BY <1>3, <1>4
<1> QED BY <1>1, <1>5 DEF TabRow

LEMMA GuestedRow ==
  ASSUME NEW r \in TabRow, NEW stage \in {"created", "ordering"},
         NEW guest \in Orders \cup {Unattached}
  PROVE  LET row == [r EXCEPT !.stage = stage, !.guest = guest]
         IN row \in TabRow /\ row.stage = stage /\ row.sitting = r.sitting
            /\ row.guest = guest
<1>2. [r EXCEPT !.stage = stage] \in TabRow BY DEF TabRow
<1>3. [[r EXCEPT !.stage = stage] EXCEPT !.guest = guest] \in TabRow
  BY <1>2 DEF TabRow
<1>4. [r EXCEPT !.stage = stage, !.guest = guest]
        = [[r EXCEPT !.stage = stage] EXCEPT !.guest = guest]
  BY DEF TabRow
<1>5. [r EXCEPT !.stage = stage, !.guest = guest] \in TabRow BY <1>3, <1>4
<1> QED BY <1>5 DEF TabRow

LEMMA StagedRow ==
  ASSUME NEW r \in TabRow, NEW stage \in {"attached", "placed"}
  PROVE  LET row == [r EXCEPT !.stage = stage]
         IN row \in TabRow /\ row.stage = stage /\ row.sitting = r.sitting
            /\ row.guest = r.guest
BY DEF TabRow

(* Where the scans and the sittings rest, it is enough that the new row of *)
(* a round is one that fits its sitting.                                   *)
LEMMA TabStep ==
  ASSUME DiningInv, NEW o \in Orders, NEW row \in TabRow, TabLife(row),
         scans' = scans, sittings' = sittings, tabs' = [tabs EXCEPT ![o] = row]
  PROVE  DiningInv'
<1>1. tabs \in [Orders -> TabRow] BY DEF DiningInv, DiningTypeOK
<1>2. tabs' \in [Orders -> TabRow] BY <1>1
<1>3. DiningTypeOK' BY <1>2 DEF DiningInv, DiningTypeOK
<1>4. (ScanningIsFirst /\ OneLooker /\ LookIsTrue)'
  BY DEF DiningInv, ScanningIsFirst, OneLooker, LookIsTrue
<1>5. OneOpenSittingPerTable' BY DEF DiningInv, OneOpenSittingPerTable
<1>6. TabsLive'
  <2>1. SUFFICES ASSUME NEW x \in Orders PROVE TabLife(tabs[x])'
    BY DEF TabsLive
  <2>2. CASE x = o
    <3>1. tabs'[x] = row BY <1>1, <2>2
    <3> QED BY <3>1 DEF TabLife
  <2>3. CASE x # o
    <3>1. tabs'[x] = tabs[x] BY <1>1, <2>3
    <3>2. TabLife(tabs[x]) BY DEF DiningInv, TabsLive
    <3> QED BY <3>1, <3>2 DEF TabLife
  <2> QED BY <2>2, <2>3
<1> QED BY <1>3, <1>4, <1>5, <1>6 DEF DiningInv

(* A round that died or was refused is free to be sent again.              *)
LEMMA EmptyTab == NoTab \in TabRow /\ NoTab.stage = "none" /\ TabLife(NoTab)
<1>1. NoTab \in TabRow BY DEF NoTab, TabRow
<1>2. NoTab.stage = "none" BY DEF NoTab
<1> QED BY <1>1, <1>2 DEF TabLife

(* The first guest of a sitting is attached, and no later one.             *)
LEMMA AttachStep ==
  ASSUME DiningInv, NEW o \in Orders, RoundAttach(o)
  PROVE  DiningInv'
<1> DEFINE s == tabs[o].sitting
           g == IF sittings[s].guest = Unattached THEN tabs[o].guest
                ELSE sittings[s].guest
           sitting == [sittings[s] EXCEPT !.guest = g]
           row == [tabs[o] EXCEPT !.stage = "attached"]
<1>1. /\ sittings \in [Scans -> SittingRow] /\ scans \in [Scans -> ScanRow]
      /\ tabs \in [Orders -> TabRow]
  BY DEF DiningInv, DiningTypeOK
<1>2. tabs[o].stage = "created" /\ scans' = scans BY Zenon DEF RoundAttach, diningVars
<1>3. TabLife(tabs[o]) BY DEF DiningInv, TabsLive
<1>4. s \in Scans /\ tabs[o].guest # Unattached /\ sittings[s].status # "NONE"
  BY <1>2, <1>3 DEF TabLife
<1>5. g \in Orders \cup {Unattached} /\ g # Unattached
      /\ (sittings[s].guest # Unattached => g = sittings[s].guest)
  <2>1. tabs[o].guest \in Orders \cup {Unattached} BY <1>1 DEF TabRow
  <2>2. sittings[s].guest \in Orders \cup {Unattached} BY <1>1, <1>4 DEF SittingRow
  <2> QED BY <1>4, <2>1, <2>2
<1>6. /\ sitting \in SittingRow /\ sitting.guest = g
      /\ sitting.status = sittings[s].status /\ sitting.table = sittings[s].table
  <2>1. sittings[s] \in SittingRow BY <1>1, <1>4
  <2> HIDE DEF g, s
  <2> QED BY <1>5, <2>1 DEF SittingRow
<1>7. /\ row \in TabRow /\ row.stage = "attached"
      /\ row.sitting = s /\ row.guest = tabs[o].guest
  <2>1. tabs[o] \in TabRow BY <1>1
  <2> QED BY <2>1, StagedRow
<1>8. sittings' = [sittings EXCEPT ![s] = sitting]
  <2>1. sittings' = [sittings EXCEPT ![s].guest =
                       IF @ = Unattached THEN tabs[o].guest ELSE @]
    BY Zenon DEF RoundAttach
  <2> QED BY <2>1, <1>1, <1>4
<1>9. tabs' = [tabs EXCEPT ![o] = row]
  <2>1. tabs' = [tabs EXCEPT ![o].stage = "attached"] BY Zenon DEF RoundAttach
  <2> QED BY <2>1, <1>1
<1> HIDE DEF s, g, sitting, row
<1>10. \A x \in Scans : /\ sittings'[x].status = sittings[x].status
                        /\ sittings'[x].table = sittings[x].table
                        /\ sittings[x].guest # Unattached =>
                             sittings'[x].guest = sittings[x].guest
  BY <1>1, <1>4, <1>5, <1>6, <1>8
<1>11. DiningTypeOK'
  <2>1. sittings' \in [Scans -> SittingRow] BY <1>1, <1>4, <1>6, <1>8
  <2>2. tabs' \in [Orders -> TabRow] BY <1>1, <1>7, <1>9
  <2> QED BY <1>1, <1>2, <2>1, <2>2 DEF DiningTypeOK
<1>12. (ScanningIsFirst /\ OneLooker /\ LookIsTrue)'
  BY <1>2, <1>10 DEF DiningInv, ScanningIsFirst, OneLooker, LookIsTrue
<1>13. OneOpenSittingPerTable' BY <1>10 DEF DiningInv, OneOpenSittingPerTable
<1>14. TabsLive'
  <2>1. SUFFICES ASSUME NEW x \in Orders PROVE TabLife(tabs[x])'
    BY DEF TabsLive
  <2>2. CASE x = o
    <3>1. tabs'[x] = row BY <1>1, <1>9, <2>2
    <3>2. sittings'[s].guest = g BY <1>1, <1>4, <1>6, <1>8
    <3>3. sittings'[s].status # "NONE" BY <1>4, <1>10
    <3> QED BY <1>4, <1>5, <1>7, <3>1, <3>2, <3>3 DEF TabLife
  <2>3. CASE x # o
    <3>1. tabs'[x] = tabs[x] BY <1>1, <1>9, <2>3
    <3>2. TabLife(tabs[x]) BY DEF DiningInv, TabsLive
    <3> QED BY <1>10, <3>1, <3>2 DEF TabLife
  <2> QED BY <2>2, <2>3
<1> QED BY <1>11, <1>12, <1>13, <1>14 DEF DiningInv

(* Every step of a round keeps the invariant.                              *)
LEMMA RoundKeepsInv ==
  ASSUME DiningInv, NEW o \in Orders, Round(o)
  PROVE  DiningInv'
<1>1. /\ sittings \in [Scans -> SittingRow] /\ tabs \in [Orders -> TabRow]
  BY DEF DiningInv, DiningTypeOK
<1>2. TabLife(tabs[o]) BY DEF DiningInv, TabsLive
<1>3. tabs[o] \in TabRow BY <1>1
<1>4. ASSUME NEW q \in Scans, RoundAdmit(o, q) PROVE DiningInv'
  <2> DEFINE row == [NoTab EXCEPT !.stage = "admitted", !.sitting = q]
  <2>1. row \in TabRow /\ row.stage = "admitted" /\ row.sitting = q
    BY AdmittedRow
  <2>2. /\ scans' = scans /\ sittings' = sittings
        /\ tabs' = [tabs EXCEPT ![o] = row] /\ sittings[q].status = "OPEN"
    BY <1>4, Zenon DEF RoundAdmit
  <2> HIDE DEF row
  <2>3. TabLife(row) BY <2>1, <2>2 DEF TabLife
  <2> QED BY <2>1, <2>2, <2>3, TabStep
<1>5. CASE RoundLook(o)
  <2> DEFINE s == tabs[o].sitting
             there == [tabs[o] EXCEPT !.stage = "ordering", !.guest = sittings[s].guest]
             new == [tabs[o] EXCEPT !.stage = "created", !.guest = o]
  <2>1. /\ tabs[o].stage = "admitted" /\ scans' = scans /\ sittings' = sittings
        /\ tabs' = [tabs EXCEPT ![o] =
             IF sittings[s].guest # Unattached
             THEN [@ EXCEPT !.stage = "ordering", !.guest = sittings[s].guest]
             ELSE [@ EXCEPT !.stage = "created", !.guest = o]]
    BY <1>5, Zenon DEF RoundLook
  <2>2. s \in Scans /\ sittings[s].status # "NONE" BY <1>2, <2>1 DEF TabLife
  <2>3. sittings[s].guest \in Orders \cup {Unattached}
    BY <1>1, <2>2 DEF SittingRow
  <2>4. /\ there \in TabRow /\ there.stage = "ordering" /\ there.sitting = s
        /\ there.guest = sittings[s].guest
    BY <1>3, <2>3, GuestedRow
  <2>5. new \in TabRow /\ new.stage = "created" /\ new.sitting = s /\ new.guest = o
    BY <1>3, GuestedRow
  <2>6. tabs' = [tabs EXCEPT ![o] =
                   IF sittings[s].guest # Unattached THEN there ELSE new]
    BY <1>1, <2>1
  <2> HIDE DEF s, there, new
  <2>7. CASE sittings[s].guest # Unattached
    <3>1. TabLife(there) BY <2>2, <2>4, <2>7 DEF TabLife
    <3> QED BY <2>1, <2>4, <2>6, <2>7, <3>1, TabStep
  <2>8. CASE sittings[s].guest = Unattached
    <3>1. o # Unattached BY GuestAssumption
    <3>2. TabLife(new) BY <2>2, <2>5, <3>1 DEF TabLife
    <3> QED BY <2>1, <2>5, <2>6, <2>8, <3>2, TabStep
  <2> QED BY <2>7, <2>8
<1>6. CASE RoundAttach(o) BY <1>6, AttachStep
<1>7. CASE RoundReadBack(o)
  <2> DEFINE s == tabs[o].sitting
             row == [tabs[o] EXCEPT !.stage = "ordering", !.guest = sittings[s].guest]
  <2>1. /\ tabs[o].stage = "attached" /\ scans' = scans /\ sittings' = sittings
        /\ tabs' = [tabs EXCEPT ![o].stage = "ordering", ![o].guest = sittings[s].guest]
    BY <1>7, Zenon DEF RoundReadBack, GuestReadBack
  <2>2. s \in Scans /\ sittings[s].status # "NONE" /\ sittings[s].guest # Unattached
    BY <1>2, <2>1 DEF TabLife
  <2>3. sittings[s].guest \in Orders \cup {Unattached}
    BY <1>1, <2>2 DEF SittingRow
  <2>4. /\ row \in TabRow /\ row.stage = "ordering" /\ row.sitting = s
        /\ row.guest = sittings[s].guest
    BY <1>3, <2>3, GuestedRow
  <2>5. tabs' = [tabs EXCEPT ![o] = row] BY <1>1, <2>1
  <2> HIDE DEF s, row
  <2>6. TabLife(row) BY <2>2, <2>4 DEF TabLife
  <2> QED BY <2>1, <2>4, <2>5, <2>6, TabStep
<1>8. ASSUME scans' = scans, sittings' = sittings, tabs' = [tabs EXCEPT ![o] = NoTab]
      PROVE  DiningInv'
  BY <1>8, EmptyTab, TabStep
<1>9. CASE RoundDies(o) BY <1>8, <1>9, Zenon DEF RoundDies
<1>10. ASSUME scans' = scans, sittings' = sittings, tabs' = tabs
       PROVE  DiningInv'
  <2>1. tabs' = [tabs EXCEPT ![o] = tabs[o]] BY <1>1, <1>10
  <2> QED BY <1>2, <1>3, <1>10, <2>1, TabStep
<1>11. CASE RoundPlace(o)
  <2>1. scans' = scans /\ sittings' = sittings /\ tabs[o].stage = "ordering"
    BY <1>11, Zenon DEF RoundPlace
  <2>2. \/ tabs' = tabs
        \/ tabs' = [tabs EXCEPT ![o] = NoTab]
        \/ tabs' = [tabs EXCEPT ![o].stage = "placed"]
    BY <1>11, Zenon DEF RoundPlace
  <2>3. CASE tabs' = [tabs EXCEPT ![o].stage = "placed"]
    <3> DEFINE row == [tabs[o] EXCEPT !.stage = "placed"]
    <3>1. /\ row \in TabRow /\ row.stage = "placed"
          /\ row.sitting = tabs[o].sitting /\ row.guest = tabs[o].guest
      BY <1>3, StagedRow
    <3>2. tabs' = [tabs EXCEPT ![o] = row] BY <1>1, <2>3
    <3> HIDE DEF row
    <3>3. TabLife(row) BY <1>2, <2>1, <3>1 DEF TabLife
    <3> QED BY <2>1, <3>1, <3>2, <3>3, TabStep
  <2> QED BY <1>8, <1>10, <2>1, <2>2, <2>3
<1>12. CASE RoundMoves(o) BY <1>10, <1>12, Zenon DEF RoundMoves, diningVars
<1> QED BY <1>4, <1>5, <1>6, <1>7, <1>9, <1>11, <1>12 DEF Round

-----------------------------------------------------------------------------
(* The theorems.                                                           *)

(* Every step of the shop floor keeps the invariant.                       *)
LEMMA NextDining == DiningInv /\ [FrontOfHouseNext]_frontOfHouseVars => DiningInv'
<1> SUFFICES ASSUME DiningInv, [FrontOfHouseNext]_frontOfHouseVars
             PROVE  DiningInv'
  OBVIOUS
<1>1. ASSUME scans' = scans, sittings' = sittings, tabs' = tabs PROVE DiningInv'
  <2>1. (ScanningIsFirst /\ OneLooker /\ LookIsTrue)'
    BY <1>1 DEF DiningInv, ScanningIsFirst, OneLooker, LookIsTrue
  <2> QED BY <1>1, <2>1, SittingsRest DEF DiningInv, DiningTypeOK
<1>2. CASE DiningStep
  <2>1. ASSUME NEW q \in Scans, Sitting(q) PROVE DiningInv'
    <3>1. CASE \E t \in Tables : Scan(q, t) BY <3>1, ScanStep
    <3>2. CASE ScanLook(q) BY <3>2, LookStep
    <3>3. CASE ScanCommit(q)
      <4>1. CASE scans[q].found = {} BY <3>3, <4>1, OpenStep, Zenon DEF ScanCommit
      <4>2. CASE scans[q].found # {} BY <3>3, <4>2, JoinStep, Zenon DEF ScanCommit
      <4> QED BY <4>1, <4>2
    <3>4. CASE ScanAbort(q) BY <3>4, JoinStep, Zenon DEF ScanAbort
    <3>5. CASE \E to \in DiningSessionStatus : CloseSitting(q, to)
      BY <3>5, CloseStep
    <3> QED BY <2>1, <3>1, <3>2, <3>3, <3>4, <3>5 DEF Sitting
  <2>2. ASSUME NEW t \in Tables, Hosting(t) PROVE DiningInv'
    BY <1>1, <2>2, Zenon DEF Hosting, CreateTable, UpdateTable
  <2>3. ASSUME NEW s \in Sweepers, SweeperMoves(s) PROVE DiningInv'
    BY <1>1, <2>3, Zenon DEF SweeperMoves, diningVars
  <2> QED BY <1>2, <2>1, <2>2, <2>3, RoundKeepsInv, Zenon DEF DiningStep, DiningNext
<1>3. CASE QueueStep BY <1>1, <1>3, Zenon DEF QueueStep, diningVars
<1>4. CASE UNCHANGED frontOfHouseVars
  BY <1>1, <1>4, Zenon DEF frontOfHouseVars, diningVars
<1> QED BY <1>2, <1>3, <1>4, Zenon DEF FrontOfHouseNext

(* Whatever scans, rounds and closings overlap or die, what DiningInv says *)
(* of tables, sittings and rounds holds.                                   *)
THEOREM DiningInductive == FrontOfHouseSpec => []DiningInv
<1>1. FrontOfHouseInit => DiningInv BY InitDining, Zenon DEF FrontOfHouseInit
<1> QED BY <1>1, NextDining, PTL DEF FrontOfHouseSpec

(* No table ever has two open bills, for any number of tables and scans.   *)
THEOREM TableHasOneBill == FrontOfHouseSpec => []OneOpenSittingPerTable
<1>1. DiningInv => OneOpenSittingPerTable BY Zenon DEF DiningInv
<1> QED BY <1>1, DiningInductive, PTL

(* However many rounds race on a fresh sitting, all that are placed are    *)
(* put down to the one guest the sitting names.                            *)
THEOREM SittingHasOneGuest == FrontOfHouseSpec => []OneGuestPerSitting
<1>1. DiningInv => OneGuestPerSitting
  BY DEF DiningInv, TabsLive, TabLife, OneGuestPerSitting
<1> QED BY <1>1, DiningInductive, PTL

-----------------------------------------------------------------------------
(* The queue: the invariant.                                               *)

EntryRow ==
  [status : WaitlistStatus \cup {"NONE"}, phone : Phones \cup {"none"},
   no : Nat, overdue : BOOLEAN, existed : SUBSET Takers]

TakingRow ==
  [stage : {"none", "checked", "numbered", "inserted"},
   phone : Phones \cup {"none"}, no : Nat, attempts : Nat,
   existed : SUBSET Takers]

QueueTypeOK ==
  /\ entries \in [Takers -> EntryRow]
  /\ taking \in [Takers -> TakingRow]

Live == {"WAITING", "CALLED"}

(* The tickets there were when a guest asked have numbers, and those of    *)
(* the same phone have ended.                                              *)
Before(rows, phone, existed) ==
  \A e \in existed :
    rows[e].no # 0 /\ (rows[e].phone = phone => rows[e].status \notin Live)

(* A ticket keeps its number, its phone and its end.                       *)
Kept(row, after) ==
  /\ after.no = row.no /\ after.phone = row.phone
  /\ row.status \notin Live => after.status \notin Live

(* A ticket has a number; a request has no ticket yet.                     *)
EntryLife(q) ==
  /\ entries[q].no = 0 <=> entries[q].status = "NONE"
  /\ entries[q].no # 0 => Before(entries, entries[q].phone, entries[q].existed)
  /\ taking[q].stage # "none" =>
       entries[q].no = 0 /\ Before(entries, taking[q].phone, taking[q].existed)

EntriesLive == \A q \in Takers : EntryLife(q)

(* A number that was read is at most the next one; one that is inserted is *)
(* the next one, and only one can be.                                      *)
NumberLife(q) ==
  /\ taking[q].stage \in {"numbered", "inserted"} =>
       taking[q].no \in 1 .. Cardinality(Guests) + 1
  /\ taking[q].stage = "inserted" => taking[q].no = Cardinality(Guests) + 1

OneInserter ==
  \A p, q \in Takers :
    taking[p].stage = "inserted" /\ taking[q].stage = "inserted" => p = q

NumbersOK ==
  /\ IsFiniteSet(Guests) /\ NumbersAreConsecutive
  /\ \A q \in Takers : NumberLife(q)
  /\ OneInserter

QueueInv == QueueTypeOK /\ EntriesLive /\ NumbersOK

-----------------------------------------------------------------------------
(* Facts about the state.                                                  *)

(* What was so before a request stays so while tickets are kept.           *)
LEMMA BeforeStays ==
  ASSUME NEW rows, NEW after, NEW phone, NEW existed,
         Before(rows, phone, existed), \A e \in existed : Kept(rows[e], after[e])
  PROVE  Before(after, phone, existed)
BY DEF Before, Kept

(* The count of the guests is a number.                                    *)
LEMMA GuestsCounted == ASSUME QueueInv PROVE Cardinality(Guests) \in Nat
BY FS_CardinalityType DEF QueueInv, NumbersOK

(* The number read is one more than there are guests.                      *)
LEMMA NextNumber ==
  ASSUME QueueInv
  PROVE  nextTicketNo = Cardinality(Guests) + 1
<1> DEFINE c == Cardinality(Guests)
<1>1. c \in Nat BY GuestsCounted
<1>2. Issued = 1 .. c BY DEF QueueInv, NumbersOK, NumbersAreConsecutive
<1> HIDE DEF c
<1>3. c \in Issued \cup {0} /\ \A m \in Issued : m <= c BY <1>1, <1>2
<1>4. \A n \in Issued \cup {0} : (\A m \in Issued : m <= n) => n = c
  BY <1>1, <1>2
<1>5. (CHOOSE n \in Issued \cup {0} : \A m \in Issued : m <= n) = c
  BY <1>3, <1>4
<1>6. nextTicketNo = 1 + c BY <1>5, Zenon DEF nextTicketNo
<1>7. 1 + c = c + 1 BY <1>1
<1> QED BY <1>6, <1>7 DEF c

(* Initially there are no tickets and no requests.                         *)
LEMMA InitQueue == QueueInit => QueueInv
<1> SUFFICES ASSUME QueueInit PROVE QueueInv OBVIOUS
<1>1. \A q \in Takers : entries[q] = NoEntry /\ taking[q] = NotTaking
  BY DEF QueueInit
<1>2. /\ NoEntry \in EntryRow /\ NoEntry.no = 0 /\ NoEntry.status = "NONE"
      /\ NotTaking \in TakingRow /\ NotTaking.stage = "none"
  BY DEF NoEntry, EntryRow, NotTaking, TakingRow
<1>3. QueueTypeOK BY <1>2 DEF QueueInit, QueueTypeOK
<1>4. EntriesLive BY <1>1, <1>2 DEF EntriesLive, EntryLife
<1>5. Guests = {} /\ Issued = {} BY <1>1, <1>2 DEF Guests, Issued
<1>6. IsFiniteSet(Guests) /\ Cardinality(Guests) = 0 BY <1>5, FS_EmptySet
<1>7. 1 .. 0 = {} OBVIOUS
<1>8. NumbersAreConsecutive BY <1>5, <1>6, <1>7 DEF NumbersAreConsecutive
<1>9. \A q \in Takers : NumberLife(q) BY <1>1, <1>2 DEF NumberLife
<1>10. OneInserter BY <1>1, <1>2 DEF OneInserter
<1> QED BY <1>3, <1>4, <1>6, <1>8, <1>9, <1>10 DEF QueueInv, NumbersOK

-----------------------------------------------------------------------------
(* The steps of a request.                                                 *)

(* Where the tickets rest, it is enough that a request's new row is one    *)
(* that its history, the numbers and the lock allow.                       *)
LEMMA TakingStep ==
  ASSUME QueueInv, NEW q \in Takers, NEW row \in TakingRow,
         entries' = entries, taking' = [taking EXCEPT ![q] = row],
         row.stage # "none" =>
           entries[q].no = 0 /\ Before(entries, row.phone, row.existed),
         row.stage \in {"numbered", "inserted"} =>
           row.no \in 1 .. Cardinality(Guests) + 1,
         row.stage = "inserted" =>
           /\ row.no = Cardinality(Guests) + 1
           /\ \A p \in Takers : taking[p].stage # "inserted"
  PROVE  QueueInv'
<1>1. entries \in [Takers -> EntryRow] /\ taking \in [Takers -> TakingRow]
  BY DEF QueueInv, QueueTypeOK
<1>2. QueueTypeOK' BY <1>1 DEF QueueTypeOK
<1>3. Guests' = Guests /\ Issued' = Issued BY DEF Guests, Issued
<1>4. EntriesLive'
  <2>1. SUFFICES ASSUME NEW p \in Takers PROVE EntryLife(p)'
    BY DEF EntriesLive
  <2>2. EntryLife(p) BY DEF QueueInv, EntriesLive
  <2>3. CASE p = q
    <3>1. taking'[p] = row BY <1>1, <2>3
    <3> QED BY <2>2, <2>3, <3>1 DEF EntryLife, Before
  <2>4. CASE p # q
    <3>1. taking'[p] = taking[p] BY <1>1, <2>4
    <3> QED BY <2>2, <3>1 DEF EntryLife, Before
  <2> QED BY <2>3, <2>4
<1>5. ASSUME NEW p \in Takers PROVE NumberLife(p)'
  <2>1. NumberLife(p) BY DEF QueueInv, NumbersOK
  <2>2. CASE p = q
    <3>1. taking'[p] = row BY <1>1, <2>2
    <3> QED BY <1>3, <3>1 DEF NumberLife
  <2>3. CASE p # q
    <3>1. taking'[p] = taking[p] BY <1>1, <2>3
    <3> QED BY <1>3, <2>1, <3>1 DEF NumberLife
  <2> QED BY <2>2, <2>3
<1>6. OneInserter'
  <2>1. OneInserter BY DEF QueueInv, NumbersOK
  <2>2. \A p \in Takers : taking'[p] = IF p = q THEN row ELSE taking[p] BY <1>1
  <2> QED BY <2>1, <2>2 DEF OneInserter
<1>7. IsFiniteSet(Guests)' /\ NumbersAreConsecutive'
  BY <1>3 DEF QueueInv, NumbersOK, NumbersAreConsecutive
<1> QED BY <1>2, <1>4, <1>5, <1>6, <1>7 DEF QueueInv, NumbersOK

(* A request that ends without a ticket.                                   *)
LEMMA TakingEnds ==
  ASSUME QueueInv, NEW q \in Takers, entries' = entries,
         taking' = [taking EXCEPT ![q] = NotTaking]
  PROVE  QueueInv'
<1>1. NotTaking \in TakingRow BY DEF NotTaking, TakingRow
<1>2. NotTaking.stage = "none" BY DEF NotTaking
<1> QED BY <1>1, <1>2, TakingStep

(* What the rows become.                                                   *)
LEMMA CheckedRow ==
  ASSUME NEW phone \in Phones, NEW existed \in SUBSET Takers
  PROVE  LET row == [NotTaking EXCEPT !.stage = "checked", !.phone = phone,
                                      !.existed = existed]
         IN row \in TakingRow /\ row.stage = "checked"
            /\ row.phone = phone /\ row.existed = existed
<1>1. NotTaking \in TakingRow BY DEF NotTaking, TakingRow
<1>2. [NotTaking EXCEPT !.stage = "checked"] \in TakingRow BY <1>1 DEF TakingRow
<1>3. [[NotTaking EXCEPT !.stage = "checked"] EXCEPT !.phone = phone] \in TakingRow
  BY <1>2 DEF TakingRow
<1>4. [[[NotTaking EXCEPT !.stage = "checked"] EXCEPT !.phone = phone]
         EXCEPT !.existed = existed] \in TakingRow
  BY <1>3 DEF TakingRow
<1>5. [NotTaking EXCEPT !.stage = "checked", !.phone = phone, !.existed = existed]
        = [[[NotTaking EXCEPT !.stage = "checked"] EXCEPT !.phone = phone]
             EXCEPT !.existed = existed]
  BY <1>1 DEF TakingRow
<1>6. [NotTaking EXCEPT !.stage = "checked", !.phone = phone, !.existed = existed]
        \in TakingRow
  BY <1>4, <1>5
<1> QED BY <1>1, <1>6 DEF TakingRow

LEMMA NumberedRow ==
  ASSUME NEW r \in TakingRow, NEW no \in Nat
  PROVE  LET row == [r EXCEPT !.stage = "numbered", !.no = no]
         IN row \in TakingRow /\ row.stage = "numbered" /\ row.no = no
            /\ row.phone = r.phone /\ row.existed = r.existed
<1>1. [r EXCEPT !.stage = "numbered"] \in TakingRow BY DEF TakingRow
<1>2. [[r EXCEPT !.stage = "numbered"] EXCEPT !.no = no] \in TakingRow
  BY <1>1 DEF TakingRow
<1>3. [r EXCEPT !.stage = "numbered", !.no = no]
        = [[r EXCEPT !.stage = "numbered"] EXCEPT !.no = no]
  BY DEF TakingRow
<1>4. [r EXCEPT !.stage = "numbered", !.no = no] \in TakingRow BY <1>2, <1>3
<1> QED BY <1>4 DEF TakingRow

LEMMA InsertedRow ==
  ASSUME NEW r \in TakingRow
  PROVE  LET row == [r EXCEPT !.stage = "inserted"]
         IN row \in TakingRow /\ row.stage = "inserted" /\ row.no = r.no
            /\ row.phone = r.phone /\ row.existed = r.existed
BY DEF TakingRow

LEMMA RetriedRow ==
  ASSUME NEW r \in TakingRow
  PROVE  LET row == [r EXCEPT !.stage = "checked", !.no = 0,
                              !.attempts = r.attempts + 1]
         IN row \in TakingRow /\ row.stage = "checked"
            /\ row.phone = r.phone /\ row.existed = r.existed
<1>1. [r EXCEPT !.stage = "checked"] \in TakingRow BY DEF TakingRow
<1>2. r.attempts + 1 \in Nat BY DEF TakingRow
<1>3. [[r EXCEPT !.stage = "checked"] EXCEPT !.no = 0] \in TakingRow
  BY <1>1 DEF TakingRow
<1>4. [[[r EXCEPT !.stage = "checked"] EXCEPT !.no = 0]
         EXCEPT !.attempts = r.attempts + 1] \in TakingRow
  BY <1>2, <1>3 DEF TakingRow
<1>5. [r EXCEPT !.stage = "checked", !.no = 0, !.attempts = r.attempts + 1]
        = [[[r EXCEPT !.stage = "checked"] EXCEPT !.no = 0]
             EXCEPT !.attempts = r.attempts + 1]
  BY DEF TakingRow
<1>6. [r EXCEPT !.stage = "checked", !.no = 0, !.attempts = r.attempts + 1]
        \in TakingRow
  BY <1>4, <1>5
<1> QED BY <1>6 DEF TakingRow

(* A request that found no live ticket of its phone.                       *)
LEMMA CheckStep ==
  ASSUME QueueInv, NEW q \in Takers, NEW phone \in Phones, TakeCheck(q, phone)
  PROVE  QueueInv'
<1> DEFINE row == [NotTaking EXCEPT !.stage = "checked", !.phone = phone,
                                    !.existed = Guests]
<1>1. /\ entries[q] = NoEntry /\ entries' = entries
      /\ taking' = [taking EXCEPT ![q] = row]
      /\ \A e \in TicketsOfPhone(phone) : entries[e].status \notin STILL_QUEUED
  BY Zenon DEF TakeCheck
<1>2. Guests \in SUBSET Takers BY DEF Guests
<1>3. row \in TakingRow /\ row.stage = "checked" /\ row.phone = phone
      /\ row.existed = Guests
  BY <1>2, CheckedRow
<1> HIDE DEF row
<1>4. Before(entries, phone, Guests)
  BY <1>1 DEF Before, Guests, TicketsOfPhone, STILL_QUEUED, Live
<1>5. NoEntry.no = 0 BY DEF NoEntry
<1>6. entries[q].no = 0 BY <1>1, <1>5
<1> QED BY <1>1, <1>3, <1>4, <1>6, TakingStep

(* What a request under way knows of itself.                               *)
LEMMA TakingFacts ==
  ASSUME QueueInv, NEW q \in Takers
  PROVE  /\ taking[q] \in TakingRow
         /\ taking[q].stage # "none" =>
              entries[q].no = 0 /\ Before(entries, taking[q].phone, taking[q].existed)
         /\ NumberLife(q)
<1>1. EntryLife(q) /\ NumberLife(q) BY DEF QueueInv, EntriesLive, NumbersOK
<1>2. taking[q] \in TakingRow BY DEF QueueInv, QueueTypeOK
<1> QED BY <1>1, <1>2 DEF EntryLife

(* A request that read the numbers of the day.                             *)
LEMMA ReadStep ==
  ASSUME QueueInv, NEW q \in Takers, TakeRead(q)
  PROVE  QueueInv'
<1> DEFINE row == [taking[q] EXCEPT !.stage = "numbered", !.no = nextTicketNo]
<1>1. taking[q].stage = "checked" /\ entries' = entries BY Zenon DEF TakeRead
<1>2. nextTicketNo \in Nat /\ nextTicketNo \in 1 .. Cardinality(Guests) + 1
  BY NextNumber, GuestsCounted
<1>3. row \in TakingRow /\ row.stage = "numbered" /\ row.no = nextTicketNo
      /\ row.phone = taking[q].phone /\ row.existed = taking[q].existed
  BY <1>2, TakingFacts, NumberedRow
<1>4. taking' = [taking EXCEPT ![q] = row]
  <2>1. taking' = [taking EXCEPT ![q].stage = "numbered", ![q].no = nextTicketNo]
    BY Zenon DEF TakeRead
  <2>2. taking \in [Takers -> TakingRow] BY DEF QueueInv, QueueTypeOK
  <2> QED BY <2>1, <2>2
<1> HIDE DEF row
<1>5. taking[q].stage # "none" BY <1>1
<1> QED BY <1>1, <1>2, <1>3, <1>4, <1>5, TakingFacts, TakingStep

(* A request whose row is in: its number was free, so it is the next.      *)
LEMMA InsertStep ==
  ASSUME QueueInv, NEW q \in Takers, TakeInsert(q)
  PROVE  QueueInv'
<1> DEFINE row == [taking[q] EXCEPT !.stage = "inserted"]
<1>1. /\ taking[q].stage = "numbered" /\ entries' = entries
      /\ taking[q].no \notin Issued /\ ~NumberLocked(taking[q].no)
  BY Zenon DEF TakeInsert, IndexRefuses
<1>2. row \in TakingRow /\ row.stage = "inserted" /\ row.no = taking[q].no
      /\ row.phone = taking[q].phone /\ row.existed = taking[q].existed
  BY TakingFacts, InsertedRow
<1>3. taking' = [taking EXCEPT ![q] = row]
  <2>1. taking' = [taking EXCEPT ![q].stage = "inserted"]
    BY Zenon DEF TakeInsert
  <2>2. taking \in [Takers -> TakingRow] BY DEF QueueInv, QueueTypeOK
  <2> QED BY <2>1, <2>2
<1> HIDE DEF row
<1>4. taking[q].no = Cardinality(Guests) + 1
  <2>1. taking[q].no \in 1 .. Cardinality(Guests) + 1
    BY <1>1, TakingFacts DEF NumberLife
  <2>2. Issued = 1 .. Cardinality(Guests)
    BY DEF QueueInv, NumbersOK, NumbersAreConsecutive
  <2> QED BY <1>1, <2>1, <2>2, GuestsCounted
<1>5. \A p \in Takers : taking[p].stage # "inserted"
  <2>1. SUFFICES ASSUME NEW p \in Takers, taking[p].stage = "inserted" PROVE FALSE
    OBVIOUS
  <2>2. taking[p].no = Cardinality(Guests) + 1 BY <2>1, TakingFacts DEF NumberLife
  <2> QED BY <1>1, <1>4, <2>1, <2>2 DEF NumberLocked
<1>6. taking[q].stage # "none" BY <1>1
<1>7. row.no \in 1 .. Cardinality(Guests) + 1 BY <1>2, <1>4, GuestsCounted
<1> QED BY <1>1, <1>2, <1>3, <1>4, <1>5, <1>6, <1>7, TakingFacts, TakingStep

(* A request whose number was taken meanwhile.                             *)
LEMMA ClashStep ==
  ASSUME QueueInv, NEW q \in Takers, TakeClash(q)
  PROVE  QueueInv'
<1> DEFINE row == [taking[q] EXCEPT !.stage = "checked", !.no = 0,
                                    !.attempts = taking[q].attempts + 1]
<1>1. taking[q].stage = "numbered" /\ entries' = entries BY Zenon DEF TakeClash
<1>2. \/ taking' = [taking EXCEPT ![q] = NotTaking]
      \/ taking' = [taking EXCEPT ![q] = row]
  <2>1. taking' = [taking EXCEPT ![q] =
          IF taking[q].attempts + 1 < MAX_TICKET_RETRIES THEN row ELSE NotTaking]
    BY Zenon DEF TakeClash
  <2> HIDE DEF row
  <2> QED BY <2>1
<1>3. CASE taking' = [taking EXCEPT ![q] = row]
  <2>1. row \in TakingRow /\ row.stage = "checked"
        /\ row.phone = taking[q].phone /\ row.existed = taking[q].existed
    BY TakingFacts, RetriedRow
  <2> HIDE DEF row
  <2>2. taking[q].stage # "none" BY <1>1
  <2> QED BY <1>1, <1>3, <2>1, <2>2, TakingFacts, TakingStep
<1> QED BY <1>1, <1>2, <1>3, TakingEnds

(* The ticket of a request whose transaction commits.                      *)
LEMMA TicketRow ==
  ASSUME NEW r \in TakingRow
  PROVE  LET row == [status |-> "WAITING", phone |-> r.phone, no |-> r.no,
                     overdue |-> FALSE, existed |-> r.existed]
         IN row \in EntryRow /\ row.status = "WAITING" /\ row.no = r.no
            /\ row.phone = r.phone /\ row.existed = r.existed
<1>1. r.phone \in Phones \cup {"none"} /\ r.no \in Nat /\ r.existed \in SUBSET Takers
  BY DEF TakingRow
<1>2. "WAITING" \in WaitlistStatus \cup {"NONE"} BY DEF WaitlistStatus
<1> QED BY <1>1, <1>2 DEF EntryRow

(* A new ticket adds the next number to those issued.                      *)
LEMMA CommitStep ==
  ASSUME QueueInv, NEW q \in Takers, TakeCommit(q)
  PROVE  QueueInv'
<1> DEFINE row == [status |-> "WAITING", phone |-> taking[q].phone,
                   no |-> taking[q].no, overdue |-> FALSE,
                   existed |-> taking[q].existed]
           c == Cardinality(Guests)
<1>1. /\ taking[q].stage = "inserted"
      /\ entries' = [entries EXCEPT ![q] = row]
      /\ taking' = [taking EXCEPT ![q] = NotTaking]
  BY Zenon DEF TakeCommit
<1>2. /\ row \in EntryRow /\ row.status = "WAITING" /\ row.no = taking[q].no
      /\ row.phone = taking[q].phone /\ row.existed = taking[q].existed
  BY TakingFacts, TicketRow
<1> HIDE DEF row
<1>3. entries \in [Takers -> EntryRow] /\ taking \in [Takers -> TakingRow]
  BY DEF QueueInv, QueueTypeOK
<1>4. NotTaking \in TakingRow /\ NotTaking.stage = "none"
  BY DEF NotTaking, TakingRow
<1>5. entries[q].no = 0 /\ Before(entries, taking[q].phone, taking[q].existed)
      /\ taking[q].no = c + 1
  <2>1. taking[q].stage # "none" BY <1>1
  <2> QED BY <1>1, <2>1, TakingFacts DEF NumberLife
<1>6. c \in Nat BY GuestsCounted
<1>7. \A p \in Takers : /\ entries'[p] = IF p = q THEN row ELSE entries[p]
                        /\ taking'[p] = IF p = q THEN NotTaking ELSE taking[p]
  BY <1>1, <1>3
<1>8. QueueTypeOK' BY <1>1, <1>2, <1>3, <1>4 DEF QueueTypeOK
<1>9. Guests' = Guests \cup {q} /\ q \notin Guests
  BY <1>2, <1>5, <1>6, <1>7 DEF Guests
<1>10. IsFiniteSet(Guests)' /\ Cardinality(Guests)' = c + 1
  <2>1. IsFiniteSet(Guests) BY DEF QueueInv, NumbersOK
  <2>2. /\ IsFiniteSet(Guests \cup {q})
        /\ Cardinality(Guests \cup {q}) = Cardinality(Guests) + 1
    BY <1>9, <2>1, FS_AddElement
  <2> QED BY <1>9, <2>2
<1>11. Issued' = 1 .. c + 1
  <2>1. Issued = 1 .. c BY DEF QueueInv, NumbersOK, NumbersAreConsecutive
  <2>2. Issued' = {entries'[p].no : p \in Guests \cup {q}} BY <1>9 DEF Issued
  <2>3. entries'[q].no = c + 1 BY <1>2, <1>5, <1>7
  <2>4. \A p \in Guests : entries'[p].no = entries[p].no
    BY <1>7, <1>9 DEF Guests
  <2>5. Issued' = Issued \cup {c + 1} BY <2>2, <2>3, <2>4 DEF Issued
  <2> HIDE DEF c
  <2>6. (1 .. c) \cup {c + 1} = 1 .. c + 1 BY <1>6
  <2> QED BY <2>1, <2>5, <2>6
<1>12. \A p \in Takers : taking[p].stage = "inserted" => p = q
  BY <1>1 DEF QueueInv, NumbersOK, OneInserter
<1>13. NumbersOK'
  <2>1. NumbersAreConsecutive' BY <1>10, <1>11 DEF NumbersAreConsecutive
  <2>2. OneInserter' BY <1>4, <1>7, <1>12 DEF OneInserter
  <2>3. ASSUME NEW p \in Takers PROVE NumberLife(p)'
    <3>1. CASE p = q BY <1>4, <1>7, <3>1 DEF NumberLife
    <3>2. CASE p # q
      <4>1. taking'[p] = taking[p] /\ taking[p].stage # "inserted"
        BY <1>7, <1>12, <3>2
      <4>2. taking[p].stage = "numbered" => taking[p].no \in 1 .. c + 1
        BY TakingFacts DEF NumberLife
      <4>3. taking[p].stage = "numbered" => taking[p].no \in 1 .. c + 1 + 1
        <5> HIDE DEF c
        <5> QED BY <1>6, <4>2
      <4> QED BY <1>10, <4>1, <4>3 DEF NumberLife
    <3> QED BY <3>1, <3>2
  <2> QED BY <1>10, <2>1, <2>2, <2>3 DEF NumbersOK
<1>14. ASSUME NEW phone, NEW existed \in SUBSET Takers,
              Before(entries, phone, existed)
       PROVE  Before(entries', phone, existed)
  <2>1. q \notin existed BY <1>5, <1>14 DEF Before
  <2>2. \A e \in existed : entries'[e] = entries[e] BY <1>7, <2>1
  <2>3. \A e \in existed : Kept(entries[e], entries'[e]) BY <2>2 DEF Kept
  <2> QED BY <1>14, <2>3, BeforeStays
<1>15. EntriesLive'
  <2>1. SUFFICES ASSUME NEW p \in Takers PROVE EntryLife(p)'
    BY DEF EntriesLive
  <2>2. EntryLife(p) BY DEF QueueInv, EntriesLive
  <2>3. CASE p = q
    <3>1. taking[q].existed \in SUBSET Takers BY <1>3 DEF TakingRow
    <3>2. Before(entries', taking[q].phone, taking[q].existed)
      BY <1>5, <1>14, <3>1
    <3>3. /\ entries'[q].no # 0 /\ entries'[q].status # "NONE"
          /\ taking'[q].stage = "none"
      BY <1>2, <1>4, <1>5, <1>6, <1>7
    <3>4. /\ entries'[q].phone = taking[q].phone
          /\ entries'[q].existed = taking[q].existed
      BY <1>2, <1>7
    <3> QED BY <2>3, <3>2, <3>3, <3>4 DEF EntryLife
  <2>4. CASE p # q
    <3>1. entries'[p] = entries[p] /\ taking'[p] = taking[p] BY <1>7, <2>4
    <3>2. entries[p] \in EntryRow /\ taking[p] \in TakingRow BY <1>3
    <3>3. /\ entries[p].existed \in SUBSET Takers
          /\ taking[p].existed \in SUBSET Takers
      BY <3>2 DEF EntryRow, TakingRow
    <3>4. entries[p].no # 0 => Before(entries', entries[p].phone, entries[p].existed)
      BY <1>14, <2>2, <3>3 DEF EntryLife
    <3>5. taking[p].stage # "none" =>
            Before(entries', taking[p].phone, taking[p].existed)
      BY <1>14, <2>2, <3>3 DEF EntryLife
    <3> QED BY <2>2, <3>1, <3>4, <3>5 DEF EntryLife
  <2> QED BY <2>3, <2>4
<1> QED BY <1>8, <1>13, <1>15 DEF QueueInv

-----------------------------------------------------------------------------
(* The moves of tickets.                                                   *)

(* One ticket changes and keeps what has to be kept.                       *)
LEMMA TicketStep ==
  ASSUME QueueInv, NEW q \in Takers, NEW row \in EntryRow,
         Kept(entries[q], row), row.existed = entries[q].existed,
         row.status = "NONE" <=> entries[q].status = "NONE",
         taking' = taking, entries' = [entries EXCEPT ![q] = row]
  PROVE  QueueInv'
<1>1. entries \in [Takers -> EntryRow] BY DEF QueueInv, QueueTypeOK
<1>2. QueueTypeOK' BY <1>1 DEF QueueInv, QueueTypeOK
<1>3. \A p \in Takers :
        /\ Kept(entries[p], entries'[p])
        /\ entries'[p].existed = entries[p].existed
        /\ entries'[p].status = "NONE" <=> entries[p].status = "NONE"
  BY <1>1 DEF Kept
<1>4. Guests' = Guests BY <1>3 DEF Guests, Kept
<1>5. Issued' = Issued
  <2>1. \A p \in Guests : entries'[p].no = entries[p].no BY <1>3 DEF Guests, Kept
  <2> QED BY <1>4, <2>1 DEF Issued
<1>6. NumbersOK'
  BY <1>4, <1>5 DEF QueueInv, NumbersOK, NumbersAreConsecutive, NumberLife, OneInserter
<1>7. ASSUME NEW phone, NEW existed \in SUBSET Takers,
             Before(entries, phone, existed)
      PROVE  Before(entries', phone, existed)
  BY <1>3, <1>7, BeforeStays
<1>8. EntriesLive'
  <2>1. SUFFICES ASSUME NEW p \in Takers PROVE EntryLife(p)'
    BY DEF EntriesLive
  <2>2. EntryLife(p) BY DEF QueueInv, EntriesLive
  <2>3. entries[p] \in EntryRow /\ taking[p] \in TakingRow
    BY DEF QueueInv, QueueTypeOK
  <2>4. /\ entries[p].existed \in SUBSET Takers
        /\ taking[p].existed \in SUBSET Takers
    BY <2>3 DEF EntryRow, TakingRow
  <2>5. entries[p].no # 0 => Before(entries', entries[p].phone, entries[p].existed)
    BY <1>7, <2>2, <2>4 DEF EntryLife
  <2>6. taking[p].stage # "none" =>
          Before(entries', taking[p].phone, taking[p].existed)
    BY <1>7, <2>2, <2>4 DEF EntryLife
  <2>7. /\ Kept(entries[p], entries'[p])
        /\ entries'[p].existed = entries[p].existed
        /\ entries'[p].status = "NONE" <=> entries[p].status = "NONE"
    BY <1>3
  <2> QED BY <2>2, <2>5, <2>6, <2>7 DEF EntryLife, Kept
<1> QED BY <1>2, <1>6, <1>8 DEF QueueInv

(* What a live ticket becomes.                                             *)
LEMMA MovedRow ==
  ASSUME NEW r \in EntryRow, NEW to \in WaitlistStatus, r.status \in Live
  PROVE  LET row == [r EXCEPT !.status = to, !.overdue = FALSE]
         IN row \in EntryRow /\ Kept(r, row) /\ row.existed = r.existed
            /\ (row.status = "NONE" <=> r.status = "NONE")
<1>1. [r EXCEPT !.status = to] \in EntryRow BY DEF EntryRow
<1>2. [[r EXCEPT !.status = to] EXCEPT !.overdue = FALSE] \in EntryRow
  BY <1>1 DEF EntryRow
<1>3. [r EXCEPT !.status = to, !.overdue = FALSE]
        = [[r EXCEPT !.status = to] EXCEPT !.overdue = FALSE]
  BY DEF EntryRow
<1>4. [r EXCEPT !.status = to, !.overdue = FALSE] \in EntryRow BY <1>2, <1>3
<1>5. to # "NONE" BY DEF WaitlistStatus
<1> DEFINE row == [r EXCEPT !.status = to, !.overdue = FALSE]
<1>6. /\ row.status = to /\ row.no = r.no /\ row.phone = r.phone
      /\ row.existed = r.existed
  BY <1>4 DEF EntryRow
<1> HIDE DEF row
<1>7. row \in EntryRow BY <1>4 DEF row
<1>8. Kept(r, row) BY <1>6 DEF Kept
<1>9. row.status = "NONE" <=> r.status = "NONE" BY <1>5, <1>6 DEF Live
<1> QED BY <1>6, <1>7, <1>8, <1>9 DEF row

LEMMA OverdueRow ==
  ASSUME NEW r \in EntryRow
  PROVE  LET row == [r EXCEPT !.overdue = TRUE]
         IN row \in EntryRow /\ Kept(r, row) /\ row.existed = r.existed
            /\ (row.status = "NONE" <=> r.status = "NONE")
BY DEF EntryRow, Kept

(* The ticket machine moves live tickets only.                             *)
LEMMA AdmitsLive ==
  ASSUME NEW q \in Takers, NEW to, NEW actor, QueueAdmits(q, to, actor)
  PROVE  entries[q].status \in Live /\ to \in WaitlistStatus
<1>1. \A move \in QUEUE_TRANSITIONS : move.from \in Live /\ move.to \in WaitlistStatus
  BY DEF QUEUE_TRANSITIONS, QueueMove, Live, WaitlistStatus
<1> QED BY <1>1 DEF QueueAdmits

(* A ticket that is moved, by hand or by a sweep.                          *)
LEMMA MoveStep ==
  ASSUME QueueInv, NEW q \in Takers, NEW to \in WaitlistStatus,
         entries[q].status \in Live, taking' = taking,
         entries' = [entries EXCEPT ![q].status = to, ![q].overdue = FALSE]
  PROVE  QueueInv'
<1>1. entries \in [Takers -> EntryRow] BY DEF QueueInv, QueueTypeOK
<1>2. entries[q] \in EntryRow BY <1>1
<1> DEFINE row == [entries[q] EXCEPT !.status = to, !.overdue = FALSE]
<1>3. row \in EntryRow /\ Kept(entries[q], row) /\ row.existed = entries[q].existed
      /\ (row.status = "NONE" <=> entries[q].status = "NONE")
  BY <1>2, MovedRow
<1>4. entries' = [entries EXCEPT ![q] = row] BY <1>1
<1> HIDE DEF row
<1> QED BY <1>3, <1>4, TicketStep

(* A call that runs out.                                                   *)
LEMMA OverdueStep ==
  ASSUME QueueInv, NEW q \in Takers, CallTimesOut(q)
  PROVE  QueueInv'
<1>1. entries \in [Takers -> EntryRow] BY DEF QueueInv, QueueTypeOK
<1>2. entries[q] \in EntryRow BY <1>1
<1> DEFINE row == [entries[q] EXCEPT !.overdue = TRUE]
<1>3. row \in EntryRow /\ Kept(entries[q], row) /\ row.existed = entries[q].existed
      /\ (row.status = "NONE" <=> entries[q].status = "NONE")
  BY <1>2, OverdueRow
<1>4. entries' = [entries EXCEPT ![q] = row] /\ taking' = taking
  <2>1. entries' = [entries EXCEPT ![q].overdue = TRUE] /\ taking' = taking
    BY Zenon DEF CallTimesOut
  <2> QED BY <1>1, <2>1
<1> HIDE DEF row
<1> QED BY <1>3, <1>4, TicketStep

-----------------------------------------------------------------------------
(* The theorems.                                                           *)

(* Where neither tickets nor requests change.                              *)
LEMMA QueueRests ==
  ASSUME QueueInv, entries' = entries, taking' = taking
  PROVE  QueueInv'
<1>1. Guests' = Guests /\ Issued' = Issued BY DEF Guests, Issued
<1>2. NumbersOK'
  BY <1>1 DEF QueueInv, NumbersOK, NumbersAreConsecutive, NumberLife, OneInserter
<1>3. QueueTypeOK' BY DEF QueueInv, QueueTypeOK
<1>4. EntriesLive' BY DEF QueueInv, EntriesLive, EntryLife
<1> QED BY <1>2, <1>3, <1>4 DEF QueueInv

(* Every step of the shop floor keeps the invariant.                       *)
LEMMA NextQueue == QueueInv /\ [FrontOfHouseNext]_frontOfHouseVars => QueueInv'
<1> SUFFICES ASSUME QueueInv, [FrontOfHouseNext]_frontOfHouseVars
             PROVE  QueueInv'
  OBVIOUS
<1>1. CASE QueueStep
  <2>1. ASSUME NEW q \in Takers, Taking(q) PROVE QueueInv'
    <3>1. CASE \E phone \in Phones : TakeCheck(q, phone) BY <3>1, CheckStep
    <3>2. CASE TakeRead(q) BY <3>2, ReadStep
    <3>3. CASE TakeInsert(q) BY <3>3, InsertStep
    <3>4. CASE TakeClash(q) BY <3>4, ClashStep
    <3>5. CASE TakeCommit(q) BY <3>5, CommitStep
    <3>6. CASE TakeAbort(q) BY <3>6, TakingEnds, Zenon DEF TakeAbort
    <3> QED BY <2>1, <3>1, <3>2, <3>3, <3>4, <3>5, <3>6 DEF Taking
  <2>2. ASSUME NEW q \in Takers, CallTimesOut(q) PROVE QueueInv'
    BY <2>2, OverdueStep
  <2>3. ASSUME NEW q \in Takers, NEW to, NEW actor, MoveTicket(q, to, actor)
        PROVE  QueueInv'
    <3>1. /\ QueueAdmits(q, to, actor) /\ taking' = taking
          /\ entries' = [entries EXCEPT ![q].status = to, ![q].overdue = FALSE]
      BY <2>3, Zenon DEF MoveTicket
    <3>2. entries[q].status \in Live /\ to \in WaitlistStatus BY <3>1, AdmitsLive
    <3> QED BY <3>1, <3>2, MoveStep
  <2>4. ASSUME NEW s \in QueueSweeps, SweepCalls(s) \/ SweepDies(s) PROVE QueueInv'
    <3>1. entries' = entries /\ taking' = taking
      BY <2>4, Zenon DEF SweepCalls, SweepDies
    <3> QED BY <3>1, QueueRests
  <2>5. ASSUME NEW s \in QueueSweeps, NEW q \in Takers, SweepTicket(s, q)
        PROVE  QueueInv'
    <3>1. CASE StillCalled(q)
      <4>1. /\ taking' = taking
            /\ entries' = [entries EXCEPT ![q].status = "NO_SHOW", ![q].overdue = FALSE]
        BY <2>5, <3>1, Zenon DEF SweepTicket
      <4>2. entries[q].status \in Live /\ "NO_SHOW" \in WaitlistStatus
        BY <3>1 DEF StillCalled, Live, WaitlistStatus
      <4> QED BY <4>1, <4>2, MoveStep
    <3>2. CASE ~StillCalled(q)
      BY <2>5, <3>2, QueueRests, Zenon DEF SweepTicket
    <3> QED BY <3>1, <3>2
  <2>6. CASE SaveSettings BY <2>6, QueueRests, Zenon DEF SaveSettings
  <2> QED BY <1>1, <2>1, <2>2, <2>3, <2>4, <2>5, <2>6, Zenon DEF QueueStep, QueueNext
<1>2. CASE DiningStep BY <1>2, QueueRests, Zenon DEF DiningStep, queueVars
<1>3. CASE UNCHANGED frontOfHouseVars
  BY <1>3, QueueRests, Zenon DEF frontOfHouseVars, queueVars
<1> QED BY <1>1, <1>2, <1>3, Zenon DEF FrontOfHouseNext

(* However requests clash, are retried or die, what QueueInv says of       *)
(* tickets and numbers holds.                                              *)
THEOREM QueueInductive == FrontOfHouseSpec => []QueueInv
<1>1. FrontOfHouseInit => QueueInv BY InitQueue, Zenon DEF FrontOfHouseInit
<1> QED BY <1>1, NextQueue, PTL DEF FrontOfHouseSpec

(* The numbers of a day are 1, 2, ... without gap or double, for any       *)
(* number of guests and retries.                                           *)
THEOREM NumbersHaveNoGap == FrontOfHouseSpec => []NumbersAreConsecutive
<1>1. QueueInv => NumbersAreConsecutive BY Zenon DEF QueueInv, NumbersOK
<1> QED BY <1>1, QueueInductive, PTL

(* Two live numbers of one phone belong to requests of which neither had   *)
(* its ticket when the other asked.                                        *)
THEOREM SecondNumbersOverlapped == FrontOfHouseSpec => []SecondNumberNeedsOverlap
<1>1. ASSUME QueueInv, NEW p \in Guests, NEW q \in Guests,
             entries[p].phone = entries[q].phone, entries[p].status \in Live
      PROVE  p \notin entries[q].existed
  <2>1. EntryLife(q) /\ entries[q].no # 0
    BY <1>1 DEF QueueInv, EntriesLive, Guests
  <2> QED BY <1>1, <2>1 DEF EntryLife, Before
<1>2. QueueInv => SecondNumberNeedsOverlap
  <2> SUFFICES ASSUME QueueInv, NEW p \in Guests, NEW q \in Guests,
                      entries[p].phone = entries[q].phone,
                      entries[p].status \in Live, entries[q].status \in Live
               PROVE  p \notin entries[q].existed /\ q \notin entries[p].existed
    BY DEF SecondNumberNeedsOverlap, Live
  <2> QED BY <1>1
<1> QED BY <1>2, QueueInductive, PTL

(* A step changes the status of live tickets only.                         *)
LEMMA StepKeepsEnds ==
  ASSUME QueueInv, QueueNext, NEW x \in Guests, entries[x].status \notin Live
  PROVE  entries'[x].status = entries[x].status
<1>1. entries \in [Takers -> EntryRow] /\ x \in Takers /\ entries[x].no # 0
  BY DEF QueueInv, QueueTypeOK, Guests
<1>2. ASSUME entries' = entries PROVE entries'[x].status = entries[x].status
  BY <1>2
<1>3. ASSUME NEW q \in Takers, NEW row, entries' = [entries EXCEPT ![q] = row], q # x
      PROVE  entries'[x].status = entries[x].status
  BY <1>1, <1>3
<1>4. ASSUME NEW q \in Takers, Taking(q)
      PROVE  entries'[x].status = entries[x].status
  <2>1. CASE TakeCommit(q)
    <3>1. taking[q].stage # "none" BY <2>1 DEF TakeCommit
    <3>2. q # x BY <1>1, <3>1, TakingFacts
    <3>3. entries' = [entries EXCEPT ![q] =
            [status |-> "WAITING", phone |-> taking[q].phone, no |-> taking[q].no,
             overdue |-> FALSE, existed |-> taking[q].existed]]
      BY <2>1, Zenon DEF TakeCommit
    <3> QED BY <1>3, <3>2, <3>3
  <2>2. CASE ~TakeCommit(q)
    BY <1>2, <1>4, <2>2, Zenon
       DEF Taking, TakeCheck, TakeRead, TakeInsert, TakeClash, TakeAbort
  <2> QED BY <2>1, <2>2
<1>5. ASSUME NEW q \in Takers, CallTimesOut(q)
      PROVE  entries'[x].status = entries[x].status
  <2>1. entries[q].status = "CALLED" /\ entries' = [entries EXCEPT ![q].overdue = TRUE]
    BY <1>5, Zenon DEF CallTimesOut
  <2>2. q # x BY <2>1 DEF Live
  <2> QED BY <1>1, <2>1, <2>2
<1>6. ASSUME NEW q \in Takers, NEW to, NEW actor, MoveTicket(q, to, actor)
      PROVE  entries'[x].status = entries[x].status
  <2>1. /\ QueueAdmits(q, to, actor)
        /\ entries' = [entries EXCEPT ![q].status = to, ![q].overdue = FALSE]
    BY <1>6, Zenon DEF MoveTicket
  <2>2. q # x BY <2>1, AdmitsLive
  <2> QED BY <1>1, <2>1, <2>2
<1>7. ASSUME NEW s \in QueueSweeps, NEW q \in Takers, SweepTicket(s, q)
      PROVE  entries'[x].status = entries[x].status
  <2>1. CASE StillCalled(q)
    <3>1. entries' = [entries EXCEPT ![q].status = "NO_SHOW", ![q].overdue = FALSE]
      BY <1>7, <2>1, Zenon DEF SweepTicket
    <3>2. q # x BY <2>1 DEF StillCalled, Live
    <3> QED BY <1>1, <3>1, <3>2
  <2>2. CASE ~StillCalled(q) BY <1>2, <1>7, <2>2, Zenon DEF SweepTicket
  <2> QED BY <2>1, <2>2
<1>8. ASSUME NEW s \in QueueSweeps, SweepCalls(s) \/ SweepDies(s)
      PROVE  entries'[x].status = entries[x].status
  BY <1>2, <1>8, Zenon DEF SweepCalls, SweepDies
<1>9. CASE SaveSettings BY <1>2, <1>9, Zenon DEF SaveSettings
<1> QED BY <1>4, <1>5, <1>6, <1>7, <1>8, <1>9, Zenon DEF QueueNext

(* No sweep and no second move touches a ticket that has ended.            *)
THEOREM TicketsEndForGood == FrontOfHouseSpec => EndedTicketsStay
<1>1. QueueInv /\ [FrontOfHouseNext]_frontOfHouseVars =>
        [\A q \in Guests :
           entries[q].status \notin {"WAITING", "CALLED"} =>
             entries'[q].status = entries[q].status]_queueVars
  <2> SUFFICES ASSUME QueueInv, [FrontOfHouseNext]_frontOfHouseVars,
                      ~UNCHANGED queueVars, NEW q \in Guests,
                      entries[q].status \notin Live
               PROVE  entries'[q].status = entries[q].status
    BY Zenon DEF Live
  <2>1. QueueNext
    BY Zenon DEF FrontOfHouseNext, DiningStep, QueueStep, frontOfHouseVars, queueVars
  <2> QED BY <2>1, StepKeepsEnds
<1> QED BY <1>1, QueueInductive, PTL DEF FrontOfHouseSpec, EndedTicketsStay

=============================================================================
