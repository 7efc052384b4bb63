---------------------------- MODULE ShopLifecycle ----------------------------
(***************************************************************************)
(* The life of a shop on the platform (modules/merchants/domain, merchant  *)
(* service, and modules/admin): the application, the operators' approval,  *)
(* suspension, reinstatement and closure, and the edits of the owner.      *)
(*                                                                         *)
(* Operators and owner read the status in one step and write the row,      *)
(* unconditionally, in a later transaction.                                *)
(***************************************************************************)
CONSTANT Desks   \* requests about the shop that may be under way at a time

VARIABLES
  shop,    \* the row of `merchants': status, intake switch, details
  acting   \* each request: what it does and whether another overtook it

shopVars == <<shop, acting>>

-----------------------------------------------------------------------------
(* The machine.  `switch' is forced onto the shop, or "kept".              *)

MerchantStatus == {"DRAFT", "PENDING_REVIEW", "ACTIVE", "SUSPENDED", "CLOSED"}

MerchantAdminAction == {"APPROVE", "SUSPEND", "REINSTATE", "CLOSE"}

ShopRule(from, to, switch) == [from |-> from, to |-> to, switch |-> switch]

RULES ==
  [action \in MerchantAdminAction |->
     CASE action = "APPROVE" ->
            ShopRule({"DRAFT", "PENDING_REVIEW"}, "ACTIVE", "kept")
       [] action = "SUSPEND"   -> ShopRule({"ACTIVE"}, "SUSPENDED", "off")
       [] action = "REINSTATE" -> ShopRule({"SUSPENDED"}, "ACTIVE", "kept")
       [] action = "CLOSE"     ->
            ShopRule(MerchantStatus \ {"CLOSED"}, "CLOSED", "off")]

-----------------------------------------------------------------------------
(* State.                                                                  *)

NoShop == [status |-> "NONE", switch |-> "off", details |-> "as applied"]

NotActing == [does |-> "nothing", overtaken |-> FALSE]

(* A shop comes of an application, or of the seed data.                    *)
ShopInit ==
  /\ \/ shop = NoShop
     \/ \E switch \in {"on", "off"} :
          shop = [NoShop EXCEPT !.status = "DRAFT", !.switch = switch]
  /\ acting = [a \in Desks |-> NotActing]

apply ==
  /\ shop = NoShop
  /\ shop' = [NoShop EXCEPT !.status = "PENDING_REVIEW", !.switch = "on"]
  /\ UNCHANGED acting

-----------------------------------------------------------------------------
(* Mutation of Editable: the owner may edit whatever the status.           *)
EditableAlways == TRUE

(* A closed shop is read-only, a suspended one may fix its details.        *)
Editable == shop.status # "CLOSED"

(* applyMerchantAction on the status read; update() asks for less.         *)
ShopAllows(does) ==
  \/ does = "UPDATE" /\ Editable
  \/ does \in MerchantAdminAction /\ shop.status \in RULES[does].from

ShopCheck(a, does) ==
  /\ acting[a] = NotActing
  /\ shop # NoShop /\ ShopAllows(does)
  /\ acting' = [acting EXCEPT ![a] = [NotActing EXCEPT !.does = does]]
  /\ UNCHANGED shop

(* The row as the statement leaves it; it names only the id.               *)
ShopWritten(does) ==
  IF does = "UPDATE"
  THEN [shop EXCEPT !.details = IF @ = "as applied" THEN "edited" ELSE "as applied"]
  ELSE [shop EXCEPT !.status = RULES[does].to,
                    !.switch = IF RULES[does].switch = "kept" THEN @ ELSE "off"]

(* Row and audit entry commit.  History: whom this request overtakes.      *)
ShopCommit(a) ==
  /\ acting[a] # NotActing
  /\ shop' = ShopWritten(acting[a].does)
  /\ acting' = [b \in Desks |->
       IF b = a \/ acting[b] = NotActing THEN NotActing
       ELSE [acting[b] EXCEPT !.overtaken = TRUE]]

ShopAbort(a) ==
  /\ acting[a] # NotActing
  /\ acting' = [acting EXCEPT ![a] = NotActing]
  /\ UNCHANGED shop

(* The switch, of the owner or of an operator: the status is not asked.    *)
setIntake ==
  /\ shop # NoShop
  /\ \E switch \in {"on", "off"} \ {shop.switch} :
       shop' = [shop EXCEPT !.switch = switch]
  /\ UNCHANGED acting

ShopNext ==
  \/ apply \/ setIntake
  \/ \E a \in Desks :
       \/ \E does \in MerchantAdminAction \cup {"UPDATE"} : ShopCheck(a, does)
       \/ ShopCommit(a) \/ ShopAbort(a)

-----------------------------------------------------------------------------
(* Properties.                                                             *)

(* CLOSE is terminal, and a closed shop is read-only: its status and its   *)
(* details change only under a request that was open when another one      *)
(* committed.                                                              *)
ClosedShopIsFinal ==
  [][(/\ shop.status = "CLOSED"
      /\ shop'.status # "CLOSED" \/ shop'.details # shop.details)
     => \E a \in Desks : acting[a].overtaken /\ acting'[a] = NotActing]_shopVars

=============================================================================
