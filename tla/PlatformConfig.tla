---------------------------- MODULE PlatformConfig ----------------------------
(***************************************************************************)
(* Runtime configuration (modules/admin, config; modules/pricing): one row *)
(* of `platform_config' that overrides a fee, and the policy each API      *)
(* instance has in force.                                                  *)
(*                                                                         *)
(* A write commits the row and then reloads the policy of the instance     *)
(* that served it: a read of the table and, when the answer is there, the  *)
(* swap.  Other instances are not told.                                    *)
(***************************************************************************)
CONSTANTS
  Instances,      \* API processes
  ConfigWrites,   \* requests that write the key; each is made once
  ConfigValues,   \* values the registry admits
  EnvValue        \* what applies without a row

VARIABLES
  row,         \* the stored override, or none
  inForce,     \* the policy each instance prices orders with
  configuring, \* each request
  missed       \* history: instances that may be behind the table, and why not

configVars == <<row, inForce, configuring, missed>>

-----------------------------------------------------------------------------
NoOverride == "no row"

NotConfiguring ==
  [stage |-> "none", at |-> "none", value |-> NoOverride, overtaken |-> FALSE]

Configured == [NotConfiguring EXCEPT !.stage = "done"]

(* platform_config row, or else the environment.                           *)
Resolved(stored) == IF stored = NoOverride THEN EnvValue ELSE stored

ConfigInit ==
  /\ row = NoOverride
  /\ inForce = [i \in Instances |-> EnvValue]
  /\ configuring = [w \in ConfigWrites |-> NotConfiguring]
  /\ missed = {}

-----------------------------------------------------------------------------
(* upsert, rollback: a valid value; remove, and rollback to a time without *)
(* an override: the row goes.  remove asks for nothing if there is none.   *)
ConfigAsk(w, i, value) ==
  /\ configuring[w] = NotConfiguring
  /\ configuring' = [configuring EXCEPT ![w] =
       [NotConfiguring EXCEPT !.stage = "asked", !.at = i, !.value = value]]
  /\ UNCHANGED <<row, inForce, missed>>

(* History: requests whose reading of the table this commit outdates.      *)
Outdating(w) ==
  [v \in ConfigWrites |->
     IF v = w THEN [configuring[w] EXCEPT !.stage = "written", !.value = NoOverride]
     ELSE IF configuring[v].stage = "loaded"
     THEN [configuring[v] EXCEPT !.overtaken = TRUE]
     ELSE configuring[v]]

(* write: row, history and audit entry in one transaction.                 *)
ConfigCommit(w) ==
  /\ configuring[w].stage = "asked"
  /\ row' = configuring[w].value
  /\ configuring' = Outdating(w)
  /\ missed' = missed \cup (Instances \ {configuring[w].at})
  /\ UNCHANGED inForce

(* Mutation of reloadRead: the first load is never forgotten.              *)
reloadMemoised(w) == inForce[configuring[w].at]

(* loading = undefined, init(): every reload reads the table anew.         *)
reloadRead(w) == Resolved(row)

ReloadLoad(w) ==
  /\ configuring[w].stage = "written"
  /\ configuring' = [configuring EXCEPT ![w].stage = "loaded",
                                        ![w].value = reloadRead(w)]
  /\ UNCHANGED <<row, inForce, missed>>

(* loadDbOverrides swallows an error: the environment is loaded instead.   *)
ReloadFails(w) ==
  /\ configuring[w].stage = "written"
  /\ configuring' = [configuring EXCEPT ![w].stage = "loaded",
                       ![w].value = EnvValue, ![w].overtaken = TRUE]
  /\ UNCHANGED <<row, inForce, missed>>

(* usePolicy swaps in whatever was read, however long ago.                 *)
usePolicy(w) ==
  LET i == configuring[w].at IN
  /\ configuring[w].stage = "loaded"
  /\ inForce' = [inForce EXCEPT ![i] = configuring[w].value]
  /\ configuring' = [configuring EXCEPT ![w] = Configured]
  /\ missed' = IF configuring[w].overtaken THEN missed \cup {i} ELSE missed \ {i}
  /\ UNCHANGED row

(* A process dies and starts again: the token of the engine waits for the  *)
(* table to be read, or for the attempt to fail.                           *)
InstanceRestarts(i) ==
  /\ \/ /\ inForce' = [inForce EXCEPT ![i] = Resolved(row)]
        /\ missed' = missed \ {i}
     \/ /\ inForce' = [inForce EXCEPT ![i] = EnvValue]
        /\ missed' = missed \cup {i}
  /\ configuring' = [w \in ConfigWrites |->
       IF configuring[w].at = i THEN Configured ELSE configuring[w]]
  /\ UNCHANGED row

ConfigNext ==
  \/ \E w \in ConfigWrites :
       \/ \E i \in Instances, value \in ConfigValues \cup {NoOverride} : ConfigAsk(w, i, value)
       \/ ConfigCommit(w) \/ ReloadLoad(w) \/ ReloadFails(w) \/ usePolicy(w)
  \/ \E i \in Instances : InstanceRestarts(i)

-----------------------------------------------------------------------------
(* Properties.                                                             *)

(* The comment above reload(): a change takes effect on the next order.    *)
(* Once its requests are answered an instance prices with the stored value *)
(* or, without a row, the environment's, unless it applied a reading that  *)
(* failed or was outdated by then, or another instance wrote since.        *)
PolicyIsStoredUnlessMissed ==
  \A i \in Instances :
    \/ i \in missed
    \/ \E w \in ConfigWrites :
         configuring[w].at = i /\ configuring[w].stage \in {"written", "loaded"}
    \/ inForce[i] = (IF row = NoOverride THEN EnvValue ELSE row)

=============================================================================
