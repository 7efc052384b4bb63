------------------------------ MODULE BackOffice ------------------------------
(***************************************************************************)
(* What happens to orders, and to accounts, away from the counter:         *)
(* settlement, reviews and refund tickets composed with the order          *)
(* lifecycle; sessions of users, administrators, the shop's own life, the  *)
(* configuration and the images beside it.                                 *)
(*                                                                         *)
(* The parts read orders and never write them, and none reads the state of *)
(* another.  A behaviour of all of them, seen by one, is therefore a       *)
(* behaviour in which the others rest: Init picks the part that acts.      *)
(***************************************************************************)
EXTENDS Settlement, Reviews, RefundRequests, Accounts,
        ShopLifecycle, PlatformConfig, Images

VARIABLE part   \* the part of the back office that acts

platformVars == <<shopVars, configVars, imageVars>>

backOfficeVars ==
  <<vars, settlementVars, reviewVars, ticketVars, accountVars, platformVars, part>>

BackOfficeInit ==
  /\ part \in {"settlement", "reviews", "tickets", "sessions", "admins",
               "shop", "config", "images"}
  /\ Init /\ SettlementInit /\ ReviewsInit /\ TicketsInit /\ AccountsInit
  /\ ShopInit /\ ConfigInit /\ ImagesInit

(* The order lifecycle moves on under every part that reads it.            *)
OrderingStep ==
  /\ part \in {"settlement", "reviews", "tickets"}
  /\ Next /\ Batched
  /\ UNCHANGED <<reviewVars, ticketVars, accountVars, platformVars>>

SettlementStep ==
  /\ part = "settlement"
  /\ \E c \in Operators : Operating(c)
  /\ UNCHANGED <<vars, reviewVars, ticketVars, accountVars, platformVars>>

ReviewsStep ==
  /\ part = "reviews"
  /\ \E w \in Writers : Reviewing(w)
  /\ UNCHANGED <<vars, settlementVars, ticketVars, accountVars, platformVars>>

TicketsStep ==
  /\ part = "tickets"
  /\ Ticketing
  /\ UNCHANGED <<vars, settlementVars, reviewVars, accountVars, platformVars>>

AccountsStep ==
  /\ \/ part = "sessions" /\ SessionNext /\ UNCHANGED adminVars
     \/ part = "admins" /\ AdminNext /\ UNCHANGED sessionVars
  /\ UNCHANGED <<vars, settlementVars, reviewVars, ticketVars, platformVars>>

PlatformStep ==
  /\ \/ part = "shop" /\ ShopNext /\ UNCHANGED <<configVars, imageVars>>
     \/ part = "config" /\ ConfigNext /\ UNCHANGED <<shopVars, imageVars>>
     \/ part = "images" /\ ImagesNext /\ UNCHANGED <<shopVars, configVars>>
  /\ UNCHANGED <<vars, settlementVars, reviewVars, ticketVars, accountVars>>

BackOfficeNext ==
  /\ \/ OrderingStep \/ SettlementStep \/ ReviewsStep \/ TicketsStep
     \/ AccountsStep \/ PlatformStep
  /\ UNCHANGED part

BackOfficeSpec == BackOfficeInit /\ [][BackOfficeNext]_backOfficeVars

=============================================================================
