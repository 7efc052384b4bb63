------------------------------- MODULE Accounts -------------------------------
(***************************************************************************)
(* Accounts: the refresh-token session of a user (modules/auth) together   *)
(* with the browser tabs that keep it (apps/web/src/lib/api.ts), and the   *)
(* operators who administer each other (modules/admin, users).             *)
(*                                                                         *)
(* A refresh is several steps: the tab sends the token it has, the server  *)
(* issues a successor, retires the old token in a second commit, and the   *)
(* answer arrives, or never does.  A tab is single-threaded, tabs share    *)
(* only localStorage.                                                      *)
(***************************************************************************)
EXTENDS Integers, FiniteSets

CONSTANTS
  Tabs,        \* browser tabs of the user
  Calls,       \* API calls of a tab that may meet an expired access token
  MaxTokens,   \* bound on refresh tokens issued
  Admins,      \* accounts that may be administrators
  Edits        \* requests editing an account that may be under way at a time

ASSUME TokensAssumption == MaxTokens \in Nat \ {0}
ASSUME AdminsAssumption == IsFiniteSet(Admins)

VARIABLES
  issued,     \* refresh_tokens rows so far: 1 .. issued
  revoked,    \* those with revokedAt
  stored,     \* localStorage: the token all tabs share
  cached,     \* each tab's module variable refreshToken
  refreshing, \* the refresh a call has sent
  settled,    \* tabs whose refreshInFlight is a settled promise
  shell,      \* what each tab shows: signed in, session lost, signed out
  excused,    \* history: tabs whose session something outside them touched
  enabled,    \* accounts that are active administrators
  editing     \* requests changing an account

sessionVars ==
  <<issued, revoked, stored, cached, refreshing, settled, shell, excused>>
adminVars == <<enabled, editing>>
accountVars == <<sessionVars, adminVars>>

-----------------------------------------------------------------------------
NoToken == 0

NotRefreshing == [stage |-> "none", token |-> NoToken, next |-> NoToken]

NotEditing == [does |-> "nothing", target |-> "none", overtaken |-> FALSE]

(* The user signed in once, in this browser; the tabs are freshly loaded.  *)
AccountsInit ==
  /\ issued = 1 /\ revoked = {} /\ stored = 1
  /\ cached = [t \in Tabs |-> NoToken]
  /\ refreshing = [t \in Tabs |-> [c \in Calls |-> NotRefreshing]]
  /\ settled = {}
  /\ shell = [t \in Tabs |-> "in"]
  /\ excused = {}
  /\ enabled = Admins
  /\ editing = [e \in Edits |-> NotEditing]

-----------------------------------------------------------------------------
(* The tab.                                                                *)

(* Mutation of refreshInFlight: each call sends a refresh of its own.      *)
ownRefresh(t) == FALSE

(* The refresh shared by every caller of the tab: a call that finds one    *)
(* waits for it and changes nothing itself.                                *)
refreshInFlight(t) == \E c \in Calls : refreshing[t][c] # NotRefreshing

(* refreshToken ??= localStorage: what the tab has, before what is stored. *)
loadStoredRefreshToken(t) ==
  IF cached[t] # NoToken THEN cached[t] ELSE stored

(* History: something other than calls of the tab itself befell these tabs. *)
Excused(ts) == excused' = excused \cup ts

(* A 401: the access token ran out, or a page load starts without one.     *)
refreshSession(t, c) ==
  LET token == loadStoredRefreshToken(t) IN
  /\ shell[t] = "in"
  /\ refreshing[t][c] = NotRefreshing
  /\ ~refreshInFlight(t) /\ t \notin settled
  /\ token # NoToken
  /\ cached' = [cached EXCEPT ![t] = token]
  /\ refreshing' = [refreshing EXCEPT ![t][c] =
       [stage |-> "sent", token |-> token, next |-> NoToken]]
  /\ UNCHANGED <<issued, revoked, stored, settled, shell, excused>>

setTokens(t, token) ==
  /\ cached' = [cached EXCEPT ![t] = token]
  /\ stored' = token

(* The call gives up: clearTokens and onSessionLost.                       *)
SessionLost(t) == setTokens(t, NoToken) /\ shell' = [shell EXCEPT ![t] = "lost"]

(* A 401 that comes late, to a tab without a token: the promise is settled *)
(* before it is stored, and nothing takes it away again.                   *)
TokenlessCall(t) ==
  /\ shell[t] # "in"
  /\ ~refreshInFlight(t)
  /\ loadStoredRefreshToken(t) = NoToken
  /\ settled' = settled \cup {t}
  /\ SessionLost(t)
  /\ UNCHANGED <<issued, revoked, refreshing, excused>>

(* A 401 in a tab that holds such a promise: it answers, false.            *)
SettledCall(t) ==
  /\ t \in settled
  /\ SessionLost(t)
  /\ UNCHANGED <<issued, revoked, refreshing, settled, excused>>

Ended(t, c) == refreshing' = [refreshing EXCEPT ![t][c] = NotRefreshing]

Answered(t, c) ==
  /\ Ended(t, c)
  /\ \/ /\ refreshing[t][c].stage = "granted"
        /\ setTokens(t, refreshing[t][c].next)
        /\ UNCHANGED shell
     \/ refreshing[t][c].stage = "refused" /\ SessionLost(t)
  /\ UNCHANGED <<issued, revoked, settled, excused>>

(* fetch throws: the request or its answer is lost, or the server dies.    *)
(* refreshSession keeps the token, its caller clears it all the same.      *)
Blip(t, c) ==
  /\ refreshing[t][c] # NotRefreshing
  /\ Ended(t, c)
  /\ SessionLost(t)
  /\ Excused(Tabs)
  /\ UNCHANGED <<issued, revoked, settled>>

(* The page is loaded anew: the answer to its refresh finds no one, and    *)
(* me() restores what is stored, or fails, which clears it.                *)
Reload(t) ==
  /\ refreshing' = [refreshing EXCEPT ![t] = [c \in Calls |-> NotRefreshing]]
  /\ settled' = settled \ {t}
  /\ cached' = [cached EXCEPT ![t] = NoToken]
  /\ \/ stored # NoToken /\ shell' = [shell EXCEPT ![t] = "in"] /\ UNCHANGED stored
     \/ stored' = NoToken /\ shell' = [shell EXCEPT ![t] = "out"]
  /\ IF refreshInFlight(t) THEN Excused(Tabs) ELSE UNCHANGED excused
  /\ UNCHANGED <<issued, revoked>>

-----------------------------------------------------------------------------
(* The server.                                                             *)

revokeAll == revoked' = 1 .. issued

(* refresh: a token already rotated revokes every session of its user;     *)
(* a live one gets a successor.                                            *)
Serve(t, c) ==
  LET token == refreshing[t][c].token IN
  /\ refreshing[t][c].stage = "sent"
  /\ \/ /\ token \in revoked
        /\ revokeAll
        /\ refreshing' = [refreshing EXCEPT ![t][c].stage = "refused"]
        /\ UNCHANGED issued
     \/ /\ token \notin revoked /\ issued < MaxTokens
        /\ issued' = issued + 1
        /\ refreshing' = [refreshing EXCEPT ![t][c].stage = "issued",
                                            ![t][c].next = issued + 1]
        /\ UNCHANGED revoked
  /\ Excused(Tabs \ {t})
  /\ UNCHANGED <<stored, cached, settled, shell>>

(* The old token is retired, in a commit of its own.                       *)
Retire(t, c) ==
  /\ refreshing[t][c].stage = "issued"
  /\ revoked' = revoked \cup {refreshing[t][c].token}
  /\ refreshing' = [refreshing EXCEPT ![t][c].stage = "granted"]
  /\ UNCHANGED <<issued, stored, cached, settled, shell, excused>>

(* logout: cleared locally first, then revoked.                            *)
Logout(t) ==
  LET token == loadStoredRefreshToken(t) IN
  /\ shell[t] = "in" /\ token # NoToken
  /\ setTokens(t, NoToken)
  /\ revoked' = revoked \cup {token}
  /\ shell' = [shell EXCEPT ![t] = "out"]
  /\ Excused(Tabs)
  /\ UNCHANGED <<issued, refreshing, settled>>

(* The user signs in again in the tab, without loading the page anew.      *)
(* History: what is still in flight may yet reach the new session.         *)
Login(t) ==
  /\ shell[t] # "in" /\ issued < MaxTokens
  /\ issued' = issued + 1
  /\ setTokens(t, issued + 1)
  /\ shell' = [shell EXCEPT ![t] = "in"]
  /\ excused' = IF \E u \in Tabs : refreshInFlight(u) THEN excused \cup {t}
                ELSE excused \ {t}
  /\ UNCHANGED <<revoked, refreshing, settled>>

(* An operator disables the account or revokes its sessions.               *)
RevokeSessions ==
  /\ revoked # 1 .. issued
  /\ revokeAll
  /\ Excused(Tabs)
  /\ UNCHANGED <<issued, stored, cached, refreshing, settled, shell>>

SessionNext ==
  \/ \E t \in Tabs, c \in Calls :
       \/ refreshSession(t, c) \/ Answered(t, c) \/ Blip(t, c)
       \/ Serve(t, c) \/ Retire(t, c)
  \/ \E t \in Tabs :
       TokenlessCall(t) \/ SettledCall(t) \/ Reload(t) \/ Logout(t) \/ Login(t)
  \/ RevokeSessions

-----------------------------------------------------------------------------
(* Operators administer accounts: AdminUsersService.update.  The acting    *)
(* operator is known by an access token that outlives a demotion.          *)

(* Mutation of assertAnotherAdminRemains: the target counts.               *)
assertAnAdminExists(target) == enabled # {}

(* Counted outside the transaction, without the target.                    *)
assertAnotherAdminRemains(target) == enabled \ {target} # {}

EditCheck(e, target, does) ==
  /\ editing[e] = NotEditing
  /\ \/ does = "promote" /\ target \notin enabled
     \/ does = "demote" /\ target \in enabled /\ assertAnotherAdminRemains(target)
  /\ editing' = [editing EXCEPT ![e] =
       [does |-> does, target |-> target, overtaken |-> FALSE]]
  /\ UNCHANGED enabled

(* The unconditional update and its audit row.  History: whom it overtakes. *)
EditCommit(e) ==
  /\ editing[e] # NotEditing
  /\ enabled' = IF editing[e].does = "demote" THEN enabled \ {editing[e].target}
                ELSE enabled \cup {editing[e].target}
  /\ editing' = [d \in Edits |->
       IF d = e \/ editing[d] = NotEditing THEN NotEditing
       ELSE [editing[d] EXCEPT !.overtaken = TRUE]]

EditAbort(e) ==
  /\ editing[e] # NotEditing
  /\ editing' = [editing EXCEPT ![e] = NotEditing]
  /\ UNCHANGED enabled

AdminNext ==
  \E e \in Edits :
    \/ \E target \in Admins, does \in {"promote", "demote"} :
         EditCheck(e, target, does)
    \/ EditCommit(e) \/ EditAbort(e)

-----------------------------------------------------------------------------
(* Properties.                                                             *)

(* The comment above refreshInFlight: loading a dashboard must not log the *)
(* user out.  However many calls of a tab meet an expired token at once,   *)
(* the tab loses its session only if something else happened to it: a lost *)
(* request or answer, a sign-out, an operator, a refresh by another tab,   *)
(* or a refresh left settled by a call that came when the tab had no token. *)
SessionLostOnlyByFault ==
  \A t \in Tabs : shell[t] = "lost" => t \in excused \cup settled

(* assertAnotherAdminRemains: the platform keeps an administrator, unless  *)
(* two demotions were under way at the same time.                          *)
LastAdminLostOnlyByOverlap ==
  [][enabled # {} /\ enabled' = {} =>
       \E e \in Edits : editing[e].overtaken /\ editing'[e] = NotEditing]_accountVars

=============================================================================
