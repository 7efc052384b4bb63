----------------------------- MODULE PlatformProofs -----------------------------
(***************************************************************************)
(* What holds of the configuration, the images, the sessions and the       *)
(* administrators of BackOffice for every set of instances, requests and   *)
(* values, uploads and removals, tabs and calls, accounts and edits.       *)
(***************************************************************************)
EXTENDS BackOffice, TLAPS

-----------------------------------------------------------------------------
(* The configuration.                                                      *)

ConfigRow ==
  [stage : {"none", "asked", "written", "loaded", "done"},
   at : Instances \cup {"none"},
   value : ConfigValues \cup {NoOverride, EnvValue}, overtaken : BOOLEAN]

(* A reading that nothing overtook is what the table says.                 *)
ReadingIsFresh ==
  \A w \in ConfigWrites :
    configuring[w].stage = "loaded" /\ ~configuring[w].overtaken =>
      configuring[w].value = Resolved(row)

ConfigInv ==
  /\ inForce \in [Instances -> ConfigValues \cup {NoOverride, EnvValue}]
  /\ configuring \in [ConfigWrites -> ConfigRow]
  /\ row \in ConfigValues \cup {NoOverride, EnvValue}
  /\ ReadingIsFresh
  /\ PolicyIsStoredUnlessMissed

(* What the rows become.                                                   *)
LEMMA AskedRow ==
  ASSUME NEW r \in ConfigRow, NEW i \in Instances,
         NEW v \in ConfigValues \cup {NoOverride}
  PROVE  /\ [r EXCEPT !.stage = "asked", !.at = i, !.value = v] \in ConfigRow
         /\ [r EXCEPT !.stage = "asked", !.at = i, !.value = v].stage = "asked"
<1>1. [r EXCEPT !.stage = "asked"] \in ConfigRow BY DEF ConfigRow
<1>2. [[r EXCEPT !.stage = "asked"] EXCEPT !.at = i] \in ConfigRow
  BY <1>1 DEF ConfigRow
<1>3. [[[r EXCEPT !.stage = "asked"] EXCEPT !.at = i] EXCEPT !.value = v] \in ConfigRow
  BY <1>2 DEF ConfigRow
<1>4. [r EXCEPT !.stage = "asked", !.at = i, !.value = v]
        = [[[r EXCEPT !.stage = "asked"] EXCEPT !.at = i] EXCEPT !.value = v]
  BY DEF ConfigRow
<1>5. [r EXCEPT !.stage = "asked", !.at = i, !.value = v].stage = "asked"
  BY DEF ConfigRow
<1> QED BY <1>3, <1>4, <1>5

LEMMA StageRow ==
  ASSUME NEW r \in ConfigRow, NEW s \in {"written", "loaded"},
         NEW v \in ConfigValues \cup {NoOverride, EnvValue}
  PROVE  /\ [r EXCEPT !.stage = s, !.value = v] \in ConfigRow
         /\ [r EXCEPT !.stage = s, !.value = v].stage = s
         /\ [r EXCEPT !.stage = s, !.value = v].at = r.at
         /\ [r EXCEPT !.stage = s, !.value = v].value = v
<1>1. [r EXCEPT !.stage = s] \in ConfigRow BY DEF ConfigRow
<1>2. [[r EXCEPT !.stage = s] EXCEPT !.value = v] \in ConfigRow
  BY <1>1 DEF ConfigRow
<1>3. [r EXCEPT !.stage = s, !.value = v] = [[r EXCEPT !.stage = s] EXCEPT !.value = v]
  BY DEF ConfigRow
<1>4. [r EXCEPT !.stage = s, !.value = v] \in ConfigRow BY <1>2, <1>3
<1> QED BY <1>4 DEF ConfigRow

LEMMA OvertakenRow ==
  ASSUME NEW r \in ConfigRow
  PROVE  /\ [r EXCEPT !.overtaken = TRUE] \in ConfigRow
         /\ [r EXCEPT !.overtaken = TRUE].overtaken
         /\ [r EXCEPT !.overtaken = TRUE].stage = r.stage
         /\ [r EXCEPT !.overtaken = TRUE].at = r.at
BY DEF ConfigRow

LEMMA RestingRows ==
  /\ NotConfiguring \in ConfigRow /\ NotConfiguring.stage = "none"
  /\ Configured \in ConfigRow /\ Configured.stage = "done"
BY DEF NotConfiguring, Configured, ConfigRow

(* Initially every instance prices with the environment.                   *)
LEMMA InitConfig == ConfigInit => ConfigInv
<1> SUFFICES ASSUME ConfigInit PROVE ConfigInv OBVIOUS
<1>1. inForce \in [Instances -> ConfigValues \cup {NoOverride, EnvValue}]
  BY DEF ConfigInit
<1>2. configuring \in [ConfigWrites -> ConfigRow] BY RestingRows DEF ConfigInit
<1>3. row = NoOverride BY DEF ConfigInit
<1>4. ReadingIsFresh BY RestingRows DEF ReadingIsFresh, ConfigInit
<1>5. PolicyIsStoredUnlessMissed
  BY <1>3, Zenon DEF PolicyIsStoredUnlessMissed, ConfigInit
<1> QED BY <1>1, <1>2, <1>3, <1>4, <1>5 DEF ConfigInv

(* Where the table and the policies rest, a request may take a row that    *)
(* forgets no reload under way and claims no more than the table says.     *)
LEMMA RequestStep ==
  ASSUME ConfigInv, NEW w \in ConfigWrites, NEW r \in ConfigRow,
         row' = row, inForce' = inForce, missed' = missed,
         configuring' = [configuring EXCEPT ![w] = r],
         configuring[w].stage \in {"written", "loaded"} =>
           r.stage \in {"written", "loaded"} /\ r.at = configuring[w].at,
         r.stage = "loaded" /\ ~r.overtaken => r.value = Resolved(row)
  PROVE  ConfigInv'
<1>1. configuring \in [ConfigWrites -> ConfigRow] BY DEF ConfigInv
<1>2. \A v \in ConfigWrites : configuring'[v] = IF v = w THEN r ELSE configuring[v]
  BY <1>1
<1>3. configuring' \in [ConfigWrites -> ConfigRow] BY <1>1
<1>4. ReadingIsFresh' BY <1>2 DEF ConfigInv, ReadingIsFresh, Resolved
<1>5. PolicyIsStoredUnlessMissed'
  BY <1>2 DEF ConfigInv, PolicyIsStoredUnlessMissed
<1> QED BY <1>3, <1>4, <1>5 DEF ConfigInv

LEMMA AskStep ==
  ASSUME ConfigInv, NEW w \in ConfigWrites, NEW i \in Instances,
         NEW v \in ConfigValues \cup {NoOverride}, ConfigAsk(w, i, v)
  PROVE  ConfigInv'
<1> DEFINE r == [NotConfiguring EXCEPT !.stage = "asked", !.at = i, !.value = v]
<1>1. /\ configuring[w] = NotConfiguring
      /\ configuring' = [configuring EXCEPT ![w] = r]
      /\ row' = row /\ inForce' = inForce /\ missed' = missed
  BY Zenon DEF ConfigAsk
<1>2. r \in ConfigRow /\ r.stage = "asked" BY AskedRow, RestingRows
<1>3. configuring[w].stage = "none" BY <1>1, RestingRows
<1> HIDE DEF r
<1> QED BY <1>1, <1>2, <1>3, RequestStep

LEMMA LoadStep ==
  ASSUME ConfigInv, NEW w \in ConfigWrites, ReloadLoad(w)
  PROVE  ConfigInv'
<1> DEFINE v == Resolved(row)
           r == [configuring[w] EXCEPT !.stage = "loaded", !.value = v]
<1>1. /\ configuring[w].stage = "written"
      /\ configuring' = [configuring EXCEPT ![w].stage = "loaded", ![w].value = v]
      /\ row' = row /\ inForce' = inForce /\ missed' = missed
  BY Zenon DEF ReloadLoad, reloadRead
<1>2. configuring \in [ConfigWrites -> ConfigRow] BY DEF ConfigInv
<1>3. configuring' = [configuring EXCEPT ![w] = r] BY <1>1, <1>2
<1>4. v \in ConfigValues \cup {NoOverride, EnvValue} BY DEF ConfigInv, Resolved
<1> HIDE DEF v
<1>5. /\ r \in ConfigRow /\ r.stage = "loaded" /\ r.at = configuring[w].at
      /\ r.value = v
  BY <1>2, <1>4, StageRow
<1> HIDE DEF r
<1> QED BY <1>1, <1>3, <1>5, RequestStep DEF v

LEMMA FailStep ==
  ASSUME ConfigInv, NEW w \in ConfigWrites, ReloadFails(w)
  PROVE  ConfigInv'
<1> DEFINE s == [configuring[w] EXCEPT !.stage = "loaded", !.value = EnvValue]
           r == [s EXCEPT !.overtaken = TRUE]
<1>1. /\ configuring[w].stage = "written"
      /\ configuring' = [configuring EXCEPT ![w].stage = "loaded",
                           ![w].value = EnvValue, ![w].overtaken = TRUE]
      /\ row' = row /\ inForce' = inForce /\ missed' = missed
  BY Zenon DEF ReloadFails
<1>2. configuring \in [ConfigWrites -> ConfigRow] BY DEF ConfigInv
<1>3. configuring' = [configuring EXCEPT ![w] = r] BY <1>1, <1>2
<1>4. s \in ConfigRow /\ s.stage = "loaded" /\ s.at = configuring[w].at
  BY <1>2, StageRow
<1> HIDE DEF s
<1>5. r \in ConfigRow /\ r.overtaken /\ r.stage = "loaded" /\ r.at = configuring[w].at
  BY <1>4, OvertakenRow
<1> HIDE DEF r
<1> QED BY <1>1, <1>3, <1>5, RequestStep

(* A commit: the other instances miss it, this one reloads, and readings   *)
(* under way are overtaken.                                                *)
LEMMA CommitStep ==
  ASSUME ConfigInv, NEW w \in ConfigWrites, ConfigCommit(w)
  PROVE  ConfigInv'
<1> DEFINE v == NoOverride
           r == [configuring[w] EXCEPT !.stage = "written", !.value = v]
<1>1. /\ row' = configuring[w].value /\ inForce' = inForce
      /\ missed' = missed \cup (Instances \ {configuring[w].at})
      /\ configuring' = Outdating(w)
  BY Zenon DEF ConfigCommit
<1>2. configuring \in [ConfigWrites -> ConfigRow] BY DEF ConfigInv
<1>3. v \in ConfigValues \cup {NoOverride, EnvValue} OBVIOUS
<1>4. configuring' = [u \in ConfigWrites |->
        IF u = w THEN r
        ELSE IF configuring[u].stage = "loaded"
        THEN [configuring[u] EXCEPT !.overtaken = TRUE] ELSE configuring[u]]
  BY <1>1, Zenon DEF Outdating
<1> HIDE DEF v
<1>5. r \in ConfigRow /\ r.stage = "written" /\ r.at = configuring[w].at
  BY <1>2, <1>3, StageRow
<1> HIDE DEF r
<1>6. ASSUME NEW u \in ConfigWrites
      PROVE  /\ configuring'[u] \in ConfigRow
             /\ configuring'[u].stage = "loaded" => configuring'[u].overtaken
  BY <1>2, <1>4, <1>5, OvertakenRow
<1>7. configuring' \in [ConfigWrites -> ConfigRow] BY <1>4, <1>6
<1>8. ReadingIsFresh' BY <1>6 DEF ReadingIsFresh
<1>9. PolicyIsStoredUnlessMissed'
  <2>1. SUFFICES ASSUME NEW i \in Instances, i \notin missed'
                 PROVE  configuring'[w].at = i
                        /\ configuring'[w].stage \in {"written", "loaded"}
    BY DEF PolicyIsStoredUnlessMissed
  <2> QED BY <1>1, <1>4, <1>5, <2>1
<1>10. row' \in ConfigValues \cup {NoOverride, EnvValue} BY <1>1, <1>2 DEF ConfigRow
<1>11. inForce' \in [Instances -> ConfigValues \cup {NoOverride, EnvValue}]
  BY <1>1 DEF ConfigInv
<1> QED BY <1>7, <1>8, <1>9, <1>10, <1>11 DEF ConfigInv

(* Requests that end, each leaving the policy its instance has then.       *)
LEMMA EndStep ==
  ASSUME ConfigInv, NEW i, NEW v \in ConfigValues \cup {NoOverride, EnvValue},
         NEW W \in SUBSET ConfigWrites, \A w \in W : configuring[w].at = i,
         row' = row, inForce' = [inForce EXCEPT ![i] = v],
         configuring' \in [ConfigWrites -> ConfigRow],
         \A w \in ConfigWrites :
           configuring'[w] = IF w \in W THEN Configured ELSE configuring[w],
         \/ missed' = missed \cup {i}
         \/ missed' = missed \ {i} /\ v = Resolved(row)
  PROVE  ConfigInv'
<1>1. /\ configuring \in [ConfigWrites -> ConfigRow]
      /\ inForce \in [Instances -> ConfigValues \cup {NoOverride, EnvValue}]
  BY DEF ConfigInv
<1>3. inForce' \in [Instances -> ConfigValues \cup {NoOverride, EnvValue}] BY <1>1
<1>5. ReadingIsFresh' BY RestingRows DEF ConfigInv, ReadingIsFresh, Resolved
<1>6. PolicyIsStoredUnlessMissed'
  <2>1. SUFFICES ASSUME NEW j \in Instances, j \notin missed'
                 PROVE  \/ \E w \in ConfigWrites :
                             /\ configuring'[w].at = j
                             /\ configuring'[w].stage \in {"written", "loaded"}
                        \/ inForce'[j] = Resolved(row)
    BY DEF PolicyIsStoredUnlessMissed, Resolved
  <2>2. CASE j = i BY <1>1, <2>1, <2>2
  <2>3. CASE j # i
    <3>1. \/ \E w \in ConfigWrites :
               /\ configuring[w].at = j
               /\ configuring[w].stage \in {"written", "loaded"}
          \/ inForce[j] = Resolved(row)
      BY <2>1, <2>3 DEF ConfigInv, PolicyIsStoredUnlessMissed, Resolved
    <3>2. inForce'[j] = inForce[j] BY <1>1, <2>3
    <3>3. \A w \in ConfigWrites : configuring[w].at = j => configuring'[w] = configuring[w]
      BY <2>3
    <3> QED BY <3>1, <3>2, <3>3
  <2> QED BY <2>2, <2>3
<1> QED BY <1>3, <1>5, <1>6 DEF ConfigInv

LEMMA UseStep ==
  ASSUME ConfigInv, NEW w \in ConfigWrites, usePolicy(w)
  PROVE  ConfigInv'
<1> DEFINE i == configuring[w].at
           v == configuring[w].value
           W == {w}
<1>1. /\ configuring[w].stage = "loaded" /\ row' = row
      /\ inForce' = [inForce EXCEPT ![i] = v]
      /\ configuring' = [configuring EXCEPT ![w] = Configured]
      /\ missed' = IF configuring[w].overtaken THEN missed \cup {i} ELSE missed \ {i}
  BY Zenon DEF usePolicy
<1>2. configuring \in [ConfigWrites -> ConfigRow] BY DEF ConfigInv
<1>3. v \in ConfigValues \cup {NoOverride, EnvValue} BY <1>2 DEF ConfigRow
<1>4. /\ configuring' \in [ConfigWrites -> ConfigRow]
      /\ \A u \in ConfigWrites :
           configuring'[u] = IF u \in W THEN Configured ELSE configuring[u]
  BY <1>1, <1>2, RestingRows
<1>5. ~configuring[w].overtaken => v = Resolved(row)
  BY <1>1 DEF ConfigInv, ReadingIsFresh
<1>6. W \in SUBSET ConfigWrites /\ \A u \in W : configuring[u].at = i OBVIOUS
<1>7. \/ missed' = missed \cup {i}
      \/ missed' = missed \ {i} /\ v = Resolved(row)
  BY <1>1, <1>5, Zenon
<1>8. row' = row /\ inForce' = [inForce EXCEPT ![i] = v] BY <1>1
<1> HIDE DEF i, v, W
<1> QED BY <1>3, <1>4, <1>6, <1>7, <1>8, EndStep

LEMMA RestartStep ==
  ASSUME ConfigInv, NEW i \in Instances, InstanceRestarts(i)
  PROVE  ConfigInv'
<1> DEFINE W == {w \in ConfigWrites : configuring[w].at = i}
<1>1. /\ \/ inForce' = [inForce EXCEPT ![i] = Resolved(row)] /\ missed' = missed \ {i}
         \/ inForce' = [inForce EXCEPT ![i] = EnvValue] /\ missed' = missed \cup {i}
      /\ configuring' = [w \in ConfigWrites |->
           IF configuring[w].at = i THEN Configured ELSE configuring[w]]
      /\ row' = row
  BY Zenon DEF InstanceRestarts
<1>2. /\ configuring' \in [ConfigWrites -> ConfigRow]
      /\ \A w \in ConfigWrites :
           configuring'[w] = IF w \in W THEN Configured ELSE configuring[w]
  BY <1>1, RestingRows DEF ConfigInv
<1>3. Resolved(row) \in ConfigValues \cup {NoOverride, EnvValue}
  BY DEF ConfigInv, Resolved
<1>4. W \in SUBSET ConfigWrites /\ \A w \in W : configuring[w].at = i OBVIOUS
<1> HIDE DEF W
<1> QED BY <1>1, <1>2, <1>3, <1>4, EndStep

LEMMA NextConfig == ConfigInv /\ [BackOfficeNext]_backOfficeVars => ConfigInv'
<1> SUFFICES ASSUME ConfigInv, [BackOfficeNext]_backOfficeVars PROVE ConfigInv'
  OBVIOUS
<1>1. CASE UNCHANGED configVars
  BY <1>1 DEF configVars, ConfigInv, ReadingIsFresh, PolicyIsStoredUnlessMissed, Resolved
<1>2. CASE ConfigNext
  BY <1>2, AskStep, CommitStep, LoadStep, FailStep, UseStep, RestartStep, Zenon
  DEF ConfigNext
<1>3. ConfigNext \/ UNCHANGED configVars
  BY Zenon DEF BackOfficeNext, OrderingStep, SettlementStep, ReviewsStep, TicketsStep,
               AccountsStep, PlatformStep, platformVars, backOfficeVars
<1> QED BY <1>1, <1>2, <1>3

(* Whatever writes, reloads and restarts overlap, an instance that is not  *)
(* recorded as having missed one prices with the stored policy, or has a   *)
(* reload under way.                                                       *)
THEOREM PolicyIsStored == BackOfficeSpec => []PolicyIsStoredUnlessMissed
<1>1. BackOfficeInit => ConfigInv BY InitConfig, Zenon DEF BackOfficeInit
<1>2. ConfigInv => PolicyIsStoredUnlessMissed BY Zenon DEF ConfigInv
<1> QED BY <1>1, <1>2, NextConfig, PTL DEF BackOfficeSpec

-----------------------------------------------------------------------------
(* The images.                                                             *)

ImageRow ==
  [id : Uploads \cup {"none"}, status : {"NONE", "PENDING", "READY", "FAILED"},
   original : Uploads \cup {"none"}, variants : SUBSET {DERIVATIVES},
   retried : BOOLEAN, removed : BOOLEAN]

UploadRow ==
  [stage : {"none", "checked", "recorded", "original stored", "stored", "done"},
   id : Uploads \cup {"none"}]

RemovalRow ==
  [id : Uploads \cup {"none"}, keys : SUBSET (Uploads \cup {"none", DERIVATIVES})]

(* The attempts whose row was recorded and that may still finish.          *)
UnderWay(u) == uploading[u].stage \in {"recorded", "original stored", "stored"}

(* An id in use is that of an attempt that has recorded its row.           *)
IdsAreSpent ==
  /\ \A u \in Uploads : UnderWay(u) =>
       /\ uploading[u].id \in Uploads
       /\ uploading[uploading[u].id].stage \notin {"none", "checked"}
  /\ image # NoImage =>
       /\ image.id \in Uploads /\ image.status # "NONE"
       /\ uploading[image.id].stage \notin {"none", "checked"}

(* A removal under way has marked the row there is.                        *)
RemovalIsMarked ==
  \A r \in Removals : removing[r] # NotRemoving /\ image # NoImage => image.removed

(* An attempt for the row there is has stored what its stage says; without *)
(* a second attempt it is the one that named the original.                 *)
AttemptHasStored ==
  \A u \in Uploads :
    UnderWay(u) /\ image # NoImage /\ uploading[u].id = image.id =>
      /\ ~image.removed =>
           /\ uploading[u].stage \in {"original stored", "stored"} => u \in objects
           /\ uploading[u].stage = "stored" => DERIVATIVES \in objects
      /\ image.retried \/ u = image.original

ImagesInv ==
  /\ image \in ImageRow
  /\ uploading \in [Uploads -> UploadRow]
  /\ removing \in [Removals -> RemovalRow]
  /\ IdsAreSpent /\ RemovalIsMarked /\ AttemptHasStored /\ ReadyImageIsStored

LEMMA NoRows ==
  /\ NoImage \in ImageRow /\ NoImage.status = "NONE" /\ NoImage.id = "none"
  /\ NotUploading \in UploadRow /\ NotUploading.stage = "none"
  /\ UploadEnded \in UploadRow /\ UploadEnded.stage = "done"
<1>1. NoImage \in ImageRow BY DEF NoImage, ImageRow
<1>2. NoImage.status = "NONE" /\ NoImage.id = "none" BY DEF NoImage
<1>3. /\ NotUploading \in UploadRow /\ NotUploading.stage = "none"
      /\ UploadEnded \in UploadRow /\ UploadEnded.stage = "done"
  BY DEF NotUploading, UploadEnded, UploadRow
<1> QED BY <1>1, <1>2, <1>3

LEMMA InitImages == ImagesInit => ImagesInv
<1> SUFFICES ASSUME ImagesInit PROVE ImagesInv OBVIOUS
<1>1. image = NoImage /\ \A u \in Uploads : uploading[u] = NotUploading
  BY DEF ImagesInit
<1>2. \A u \in Uploads : ~UnderWay(u) BY <1>1, NoRows DEF UnderWay
<1>3. uploading \in [Uploads -> UploadRow] BY NoRows DEF ImagesInit
<1>4. IdsAreSpent BY <1>1, <1>2 DEF IdsAreSpent
<1>5. RemovalIsMarked BY <1>1 DEF RemovalIsMarked
<1>6. AttemptHasStored BY <1>2 DEF AttemptHasStored
<1>7. ReadyImageIsStored BY <1>1, NoRows DEF ReadyImageIsStored
<1>8. removing \in [Removals -> RemovalRow]
  BY DEF ImagesInit, NotRemoving, RemovalRow
<1> QED BY <1>1, <1>3, <1>4, <1>5, <1>6, <1>7, <1>8, NoRows DEF ImagesInv

(* Where row and objects rest, an attempt may take a stage it has earned.  *)
LEMMA AttemptStep ==
  ASSUME ImagesInv, NEW u \in Uploads, NEW s \in UploadRow,
         image' = image, removing' = removing, objects \subseteq objects',
         uploading' = [uploading EXCEPT ![u] = s],
         s.stage \in {"none", "checked"} =>
           uploading[u].stage \in {"none", "checked"},
         s.stage \in {"recorded", "original stored", "stored"} =>
           UnderWay(u) /\ s.id = uploading[u].id,
         s.stage = "original stored" => u \in objects',
         s.stage = "stored" =>
           /\ DERIVATIVES \in objects'
           /\ uploading[u].stage \in {"original stored", "stored"}
  PROVE  ImagesInv'
<1>1. uploading \in [Uploads -> UploadRow] BY DEF ImagesInv
<1>2. \A v \in Uploads : uploading'[v] = IF v = u THEN s ELSE uploading[v] BY <1>1
<1>3. uploading' \in [Uploads -> UploadRow] BY <1>1
<1>4. \A v \in Uploads : UnderWay(v)' => UnderWay(v) /\ uploading'[v].id = uploading[v].id
  BY <1>2 DEF UnderWay
<1>5. \A v \in Uploads : uploading[v].stage \notin {"none", "checked"} =>
                           uploading'[v].stage \notin {"none", "checked"}
  BY <1>2
<1>6. IdsAreSpent' BY <1>4, <1>5 DEF ImagesInv, IdsAreSpent
<1>7. RemovalIsMarked' BY DEF ImagesInv, RemovalIsMarked
<1>8. AttemptHasStored'
  <2>1. SUFFICES ASSUME NEW v \in Uploads, UnderWay(v)', image # NoImage,
                        uploading'[v].id = image.id
                 PROVE  /\ ~image.removed =>
                             /\ uploading'[v].stage \in {"original stored", "stored"}
                                  => v \in objects'
                             /\ uploading'[v].stage = "stored" => DERIVATIVES \in objects'
                        /\ image.retried \/ v = image.original
    BY DEF AttemptHasStored
  <2>2. /\ ~image.removed =>
             /\ uploading[v].stage \in {"original stored", "stored"} => v \in objects
             /\ uploading[v].stage = "stored" => DERIVATIVES \in objects
        /\ image.retried \/ v = image.original
    BY <1>4, <2>1 DEF ImagesInv, AttemptHasStored
  <2> QED BY <1>2, <2>2
<1>9. ReadyImageIsStored' BY DEF ImagesInv, ReadyImageIsStored
<1> QED BY <1>3, <1>6, <1>7, <1>8, <1>9 DEF ImagesInv

(* Check, store, die: the steps of an attempt that leave the row alone.    *)
LEMMA UploadStep ==
  ASSUME ImagesInv, NEW u \in Uploads,
         UploadCheck(u) \/ StoreOriginal(u) \/ StoreDerivatives(u) \/ UploadDies(u)
  PROVE  ImagesInv'
<1>1. uploading \in [Uploads -> UploadRow] BY DEF ImagesInv
<1>2. \A s \in {"checked", "original stored", "stored"} :
        /\ [uploading[u] EXCEPT !.stage = s] \in UploadRow
        /\ [uploading[u] EXCEPT !.stage = s].stage = s
        /\ [uploading[u] EXCEPT !.stage = s].id = uploading[u].id
  BY <1>1 DEF UploadRow
<1>3. \A s : Stage(u, s) =>
        uploading' = [uploading EXCEPT ![u] = [uploading[u] EXCEPT !.stage = s]]
  BY <1>1 DEF Stage
<1>4. CASE UploadCheck(u)
  <2> DEFINE s == [uploading[u] EXCEPT !.stage = "checked"]
  <2>1. /\ image' = image /\ objects' = objects /\ removing' = removing
        /\ uploading[u].stage = "none"
        /\ uploading' = [uploading EXCEPT ![u] = s]
    BY <1>3, <1>4, NoRows DEF UploadCheck
  <2>2. s \in UploadRow /\ s.stage = "checked" BY <1>2
  <2> HIDE DEF s
  <2> QED BY <2>1, <2>2, AttemptStep
<1>5. CASE StoreOriginal(u)
  <2> DEFINE s == [uploading[u] EXCEPT !.stage = "original stored"]
  <2>1. /\ image' = image /\ objects' = objects \cup {u} /\ removing' = removing
        /\ uploading[u].stage = "recorded"
        /\ uploading' = [uploading EXCEPT ![u] = s]
    BY <1>3, <1>5, Zenon DEF StoreOriginal
  <2>2. s \in UploadRow /\ s.stage = "original stored" /\ s.id = uploading[u].id
    BY <1>2
  <2>3. objects \subseteq objects' /\ u \in objects' BY <2>1
  <2> HIDE DEF s
  <2> QED BY <2>1, <2>2, <2>3, AttemptStep DEF UnderWay
<1>6. CASE StoreDerivatives(u)
  <2> DEFINE s == [uploading[u] EXCEPT !.stage = "stored"]
  <2>1. /\ image' = image /\ objects' = objects \cup {DERIVATIVES}
        /\ removing' = removing /\ uploading[u].stage = "original stored"
        /\ uploading' = [uploading EXCEPT ![u] = s]
    BY <1>3, <1>6, Zenon DEF StoreDerivatives
  <2>2. s \in UploadRow /\ s.stage = "stored" /\ s.id = uploading[u].id BY <1>2
  <2>3. objects \subseteq objects' /\ DERIVATIVES \in objects' BY <2>1
  <2> HIDE DEF s
  <2> QED BY <2>1, <2>2, <2>3, AttemptStep DEF UnderWay
<1>7. CASE UploadDies(u)
  <2>1. /\ image' = image /\ objects' = objects /\ removing' = removing
        /\ uploading' = [uploading EXCEPT ![u] = UploadEnded]
    BY <1>7, Zenon DEF UploadDies
  <2> QED BY <2>1, NoRows, AttemptStep
<1> QED BY <1>4, <1>5, <1>6, <1>7

(* What an upsert makes of the row.                                        *)
LEMMA NewRow ==
  ASSUME NEW u \in Uploads, NEW b \in BOOLEAN
  PROVE  LET n == [NoImage EXCEPT !.id = u, !.status = "PENDING",
                     !.original = u, !.removed = b]
         IN /\ n \in ImageRow /\ n.id = u /\ n.status = "PENDING"
            /\ n.original = u /\ n.removed = b
<1> DEFINE r1 == [NoImage EXCEPT !.id = u]
           r2 == [r1 EXCEPT !.status = "PENDING"]
           r3 == [r2 EXCEPT !.original = u]
           r4 == [r3 EXCEPT !.removed = b]
<1>1. r1 \in ImageRow BY NoRows DEF ImageRow
<1>2. r2 \in ImageRow BY <1>1 DEF ImageRow
<1>3. r3 \in ImageRow BY <1>2 DEF ImageRow
<1>4. r4 \in ImageRow BY <1>3 DEF ImageRow
<1>5. r4 = [NoImage EXCEPT !.id = u, !.status = "PENDING", !.original = u, !.removed = b]
  BY NoRows DEF ImageRow
<1>6. r4.id = u /\ r4.status = "PENDING" /\ r4.original = u /\ r4.removed = b
  BY NoRows DEF ImageRow
<1> HIDE DEF r4
<1> QED BY <1>4, <1>5, <1>6

LEMMA AgainRow ==
  ASSUME NEW n \in ImageRow
  PROVE  LET m == [n EXCEPT !.status = "PENDING", !.retried = TRUE]
         IN /\ m \in ImageRow /\ m.id = n.id /\ m.status = "PENDING"
            /\ m.original = n.original /\ m.removed = n.removed /\ m.retried
<1>1. [n EXCEPT !.status = "PENDING"] \in ImageRow BY DEF ImageRow
<1>2. [[n EXCEPT !.status = "PENDING"] EXCEPT !.retried = TRUE] \in ImageRow
  BY <1>1 DEF ImageRow
<1>3. [n EXCEPT !.status = "PENDING", !.retried = TRUE]
        = [[n EXCEPT !.status = "PENDING"] EXCEPT !.retried = TRUE]
  BY DEF ImageRow
<1>4. [n EXCEPT !.status = "PENDING", !.retried = TRUE] \in ImageRow BY <1>2, <1>3
<1> QED BY <1>4 DEF ImageRow

LEMMA RecordStep ==
  ASSUME ImagesInv, NEW u \in Uploads, UploadRecord(u)
  PROVE  ImagesInv'
<1>0. PICK b \in BOOLEAN : b = \E r \in Removals : removing[r] # NotRemoving
  OBVIOUS
<1> DEFINE n == [NoImage EXCEPT !.id = u, !.status = "PENDING", !.original = u,
                   !.removed = b]
           m == [image EXCEPT !.status = "PENDING", !.retried = TRUE]
           s == [stage |-> "recorded", id |-> image'.id]
<1>1. /\ uploading[u].stage = "checked"
      /\ image' = IF image = NoImage THEN n ELSE m
      /\ uploading' = [uploading EXCEPT ![u] = s]
      /\ objects' = objects /\ removing' = removing
  BY <1>0, Zenon DEF UploadRecord
<1>2. image \in ImageRow /\ uploading \in [Uploads -> UploadRow] BY DEF ImagesInv
<1>3. image = NoImage =>
        /\ image' \in ImageRow /\ image'.id = u /\ image'.status = "PENDING"
        /\ image'.original = u /\ image'.removed = b
  <2>1. n \in ImageRow /\ n.id = u /\ n.status = "PENDING" /\ n.original = u /\ n.removed = b
    BY NewRow, Zenon
  <2> HIDE DEF n
  <2> QED BY <1>1, <2>1
<1>4. image # NoImage =>
        /\ image' \in ImageRow /\ image'.id = image.id /\ image'.status = "PENDING"
        /\ image'.original = image.original /\ image'.removed = image.removed
        /\ image'.retried
  BY <1>1, <1>2, AgainRow
<1> HIDE DEF n, m
<1>5. image' \in ImageRow /\ image'.status = "PENDING" /\ image'.id \in Uploads
  BY <1>3, <1>4 DEF ImagesInv, IdsAreSpent
<1>6. /\ \A v \in Uploads : uploading'[v] = IF v = u THEN s ELSE uploading[v]
      /\ uploading' \in [Uploads -> UploadRow]
      /\ s.stage = "recorded" /\ s.id = image'.id
  BY <1>1, <1>2, <1>5 DEF UploadRow
<1>7. IdsAreSpent'
  <2>1. \A v \in Uploads : uploading[v].stage \notin {"none", "checked"} =>
                             uploading'[v].stage \notin {"none", "checked"}
    BY <1>6
  <2>2. uploading'[image'.id].stage \notin {"none", "checked"}
    BY <1>3, <1>4, <1>6, <2>1 DEF ImagesInv, IdsAreSpent
  <2>3. \A v \in Uploads : UnderWay(v)' =>
          /\ uploading'[v].id \in Uploads
          /\ uploading'[uploading'[v].id].stage \notin {"none", "checked"}
    BY <1>5, <1>6, <2>1, <2>2 DEF ImagesInv, IdsAreSpent, UnderWay
  <2> QED BY <1>5, <2>2, <2>3 DEF IdsAreSpent
<1>8. RemovalIsMarked' BY <1>0, <1>1, <1>3, <1>4 DEF ImagesInv, RemovalIsMarked
<1>9. AttemptHasStored'
  <2>1. SUFFICES ASSUME NEW v \in Uploads, UnderWay(v)', uploading'[v].id = image'.id
                 PROVE  /\ ~image'.removed =>
                             /\ uploading'[v].stage \in {"original stored", "stored"}
                                  => v \in objects'
                             /\ uploading'[v].stage = "stored" => DERIVATIVES \in objects'
                        /\ image'.retried \/ v = image'.original
    BY DEF AttemptHasStored
  <2>2. CASE v = u BY <1>3, <1>4, <1>6, <2>2
  <2>3. CASE v # u
    <3>1. UnderWay(v) /\ uploading'[v] = uploading[v] BY <1>6, <2>1, <2>3 DEF UnderWay
    <3>2. image # NoImage
      BY <1>1, <1>3, <2>1, <3>1 DEF ImagesInv, IdsAreSpent
    <3> QED BY <1>1, <1>4, <2>1, <3>1, <3>2 DEF ImagesInv, AttemptHasStored
  <2> QED BY <2>2, <2>3
<1>10. ReadyImageIsStored' BY <1>5 DEF ReadyImageIsStored
<1>11. removing' \in [Removals -> RemovalRow] BY <1>1 DEF ImagesInv
<1> QED BY <1>5, <1>6, <1>7, <1>8, <1>9, <1>10, <1>11 DEF ImagesInv

(* An attempt that ends and leaves the row the one it was.                 *)
LEMMA FinishStep ==
  ASSUME ImagesInv, NEW u \in Uploads,
         image' \in ImageRow, objects' = objects, removing' = removing,
         uploading' = [uploading EXCEPT ![u] = UploadEnded],
         image = NoImage => image' = NoImage,
         image # NoImage =>
           /\ image'.status # "NONE" /\ image'.id = image.id
           /\ image'.original = image.original
           /\ image'.retried = image.retried /\ image'.removed = image.removed,
         ReadyImageIsStored'
  PROVE  ImagesInv'
<1>1. uploading \in [Uploads -> UploadRow] BY DEF ImagesInv
<1>2. /\ \A v \in Uploads : uploading'[v] = IF v = u THEN UploadEnded ELSE uploading[v]
      /\ uploading' \in [Uploads -> UploadRow]
  BY <1>1, NoRows
<1>3. \A v \in Uploads : UnderWay(v)' => UnderWay(v) /\ uploading'[v] = uploading[v]
  BY <1>2, NoRows DEF UnderWay
<1>4. \A v \in Uploads : uploading[v].stage \notin {"none", "checked"} =>
                           uploading'[v].stage \notin {"none", "checked"}
  BY <1>2, NoRows
<1>5. IdsAreSpent' BY <1>3, <1>4 DEF ImagesInv, IdsAreSpent
<1>6. RemovalIsMarked' BY DEF ImagesInv, RemovalIsMarked
<1>7. AttemptHasStored' BY <1>3 DEF ImagesInv, AttemptHasStored
<1>8. removing' \in [Removals -> RemovalRow] BY DEF ImagesInv
<1> QED BY <1>2, <1>5, <1>6, <1>7, <1>8 DEF ImagesInv

(* Without a row the update of an attempt under way finds none.            *)
LEMMA RowIsMissed ==
  ASSUME ImagesInv, NEW u \in Uploads, UnderWay(u), image.id = uploading[u].id
  PROVE  image # NoImage
BY NoRows, NamesAssumption DEF ImagesInv, IdsAreSpent

LEMMA ReadyStep ==
  ASSUME ImagesInv, NEW u \in Uploads, UploadReady(u)
  PROVE  ImagesInv'
<1> DEFINE r1 == [image EXCEPT !.status = "READY"]
           r2 == [r1 EXCEPT !.variants = {DERIVATIVES}]
<1>1. /\ uploading[u].stage = "stored"
      /\ image' = IF image.id = uploading[u].id
                  THEN [image EXCEPT !.status = "READY", !.variants = {DERIVATIVES}]
                  ELSE image
      /\ uploading' = [uploading EXCEPT ![u] = UploadEnded]
      /\ objects' = objects /\ removing' = removing
  BY Zenon DEF UploadReady, MayFinish
<1>2. UnderWay(u) BY <1>1 DEF UnderWay
<1>3. image \in ImageRow BY DEF ImagesInv
<1>4. r1 \in ImageRow BY <1>3 DEF ImageRow
<1>5. r2 \in ImageRow BY <1>4 DEF ImageRow
<1>6. r2 = [image EXCEPT !.status = "READY", !.variants = {DERIVATIVES}]
  BY <1>3 DEF ImageRow
<1>7. /\ r2.status = "READY" /\ r2.id = image.id /\ r2.original = image.original
      /\ r2.variants = {DERIVATIVES}
      /\ r2.retried = image.retried /\ r2.removed = image.removed
  BY <1>3 DEF ImageRow
<1> HIDE DEF r2
<1>8. CASE image.id = uploading[u].id
  <2>1. image # NoImage BY <1>2, <1>8, RowIsMissed
  <2>2. image' = r2 BY <1>1, <1>6, <1>8
  <2>3. ReadyImageIsStored'
    BY <1>1, <1>2, <1>7, <1>8, <2>1, <2>2
    DEF ImagesInv, AttemptHasStored, ReadyImageIsStored
  <2> QED BY <1>1, <1>5, <1>7, <2>1, <2>2, <2>3, FinishStep
<1>9. CASE image.id # uploading[u].id
  <2>1. image' = image BY <1>1, <1>9
  <2>2. ReadyImageIsStored' BY <1>1, <2>1 DEF ImagesInv, ReadyImageIsStored
  <2>3. image # NoImage => image.status # "NONE" BY DEF ImagesInv, IdsAreSpent
  <2> QED BY <1>1, <1>3, <2>1, <2>2, <2>3, FinishStep
<1> QED BY <1>8, <1>9

LEMMA FailedStep ==
  ASSUME ImagesInv, NEW u \in Uploads, UploadFails(u)
  PROVE  ImagesInv'
<1> DEFINE n == [image EXCEPT !.status = "FAILED"]
<1>1. /\ uploading[u].stage \in {"recorded", "original stored", "stored"}
      /\ image' = IF image.id = uploading[u].id THEN n ELSE image
      /\ uploading' = [uploading EXCEPT ![u] = UploadEnded]
      /\ objects' = objects /\ removing' = removing
  BY Zenon DEF UploadFails
<1>2. UnderWay(u) BY <1>1 DEF UnderWay
<1>3. image \in ImageRow BY DEF ImagesInv
<1>4. /\ n \in ImageRow /\ n.status = "FAILED" /\ n.id = image.id
      /\ n.original = image.original
      /\ n.retried = image.retried /\ n.removed = image.removed
  BY <1>3 DEF ImageRow
<1> HIDE DEF n
<1>5. CASE image.id = uploading[u].id
  <2>1. image # NoImage /\ image' = n BY <1>1, <1>2, <1>5, RowIsMissed
  <2>2. ReadyImageIsStored' BY <1>4, <2>1 DEF ReadyImageIsStored
  <2> QED BY <1>1, <1>4, <2>1, <2>2, FinishStep
<1>6. CASE image.id # uploading[u].id
  <2>1. image' = image BY <1>1, <1>6
  <2>2. ReadyImageIsStored' BY <1>1, <2>1 DEF ImagesInv, ReadyImageIsStored
  <2>3. image # NoImage => image.status # "NONE" BY DEF ImagesInv, IdsAreSpent
  <2> QED BY <1>1, <1>3, <2>1, <2>2, <2>3, FinishStep
<1> QED BY <1>5, <1>6

(* A removal may take objects of a row that it has marked, and the row.    *)
LEMMA RemovalStep ==
  ASSUME ImagesInv, uploading' = uploading,
         removing' \in [Removals -> RemovalRow],
         \A r \in Removals : removing'[r] # NotRemoving =>
           image' = NoImage \/ image'.removed,
         \/ image' = NoImage
         \/ /\ image # NoImage /\ image' \in ImageRow
            /\ image'.id = image.id /\ image'.status = image.status
            /\ image'.original = image.original /\ image'.variants = image.variants
            /\ image'.retried = image.retried
            /\ image.removed => image'.removed
            /\ objects' = objects \/ image'.removed
  PROVE  ImagesInv'
<1>1. uploading' \in [Uploads -> UploadRow] BY DEF ImagesInv
<1>2. RemovalIsMarked' BY DEF RemovalIsMarked
<1>3. CASE image' = NoImage
  <2>1. IdsAreSpent' BY <1>3 DEF ImagesInv, IdsAreSpent, UnderWay
  <2>2. AttemptHasStored' BY <1>3 DEF AttemptHasStored
  <2>3. ReadyImageIsStored' BY <1>3, NoRows DEF ReadyImageIsStored
  <2> QED BY <1>1, <1>2, <1>3, <2>1, <2>2, <2>3, NoRows DEF ImagesInv
<1>4. CASE image' # NoImage
  <2>1. IdsAreSpent' BY <1>4 DEF ImagesInv, IdsAreSpent, UnderWay
  <2>2. AttemptHasStored' BY <1>4 DEF ImagesInv, AttemptHasStored, UnderWay
  <2>3. ReadyImageIsStored' BY <1>4 DEF ImagesInv, ReadyImageIsStored
  <2> QED BY <1>1, <1>2, <1>4, <2>1, <2>2, <2>3 DEF ImagesInv
<1> QED BY <1>3, <1>4

LEMMA RemoveStep ==
  ASSUME ImagesInv, NEW r \in Removals,
         \/ RemoveRead(r) \/ RemoveRow(r) \/ RemoveDies(r)
         \/ \E key \in Uploads \cup {DERIVATIVES} : RemoveObject(r, key)
  PROVE  ImagesInv'
<1>1. image \in ImageRow /\ removing \in [Removals -> RemovalRow] BY DEF ImagesInv
<1>2. \A q \in Removals : removing[q] # NotRemoving => image = NoImage \/ image.removed
  BY DEF ImagesInv, RemovalIsMarked
<1>3. CASE RemoveRead(r)
  <2> DEFINE n == [image EXCEPT !.removed = TRUE]
             w == [id |-> image.id, keys |-> {image.original} \cup image.variants]
  <2>1. /\ image # NoImage /\ image' = n /\ objects' = objects
        /\ uploading' = uploading /\ removing' = [removing EXCEPT ![r] = w]
    BY <1>3, Zenon DEF RemoveRead
  <2>2. /\ n \in ImageRow /\ n.removed /\ n.id = image.id /\ n.status = image.status
        /\ n.original = image.original /\ n.variants = image.variants
        /\ n.retried = image.retried
    BY <1>1 DEF ImageRow
  <2>3. w \in RemovalRow BY <1>1 DEF ImageRow, RemovalRow
  <2> HIDE DEF n, w
  <2>4. removing' \in [Removals -> RemovalRow] BY <1>1, <2>1, <2>3
  <2> QED BY <2>1, <2>2, <2>4, RemovalStep
<1>4. ASSUME removing' = [removing EXCEPT ![r] = NotRemoving],
             uploading' = uploading, objects' = objects,
             image' = NoImage \/ image' = image
      PROVE  ImagesInv'
  <2>1. /\ \A q \in Removals :
             removing'[q] = IF q = r THEN NotRemoving ELSE removing[q]
        /\ removing' \in [Removals -> RemovalRow]
    BY <1>1, <1>4 DEF NotRemoving, RemovalRow
  <2> QED BY <1>1, <1>2, <1>4, <2>1, RemovalStep
<1>5. CASE RemoveRow(r) BY <1>4, <1>5, Zenon DEF RemoveRow
<1>6. CASE RemoveDies(r) BY <1>4, <1>6, Zenon DEF RemoveDies
<1>7. ASSUME NEW key \in Uploads \cup {DERIVATIVES}, RemoveObject(r, key)
      PROVE  ImagesInv'
  <2> DEFINE w == [removing[r] EXCEPT !.keys = removing[r].keys \ {key}]
  <2>1. /\ key \in removing[r].keys /\ image' = image /\ uploading' = uploading
        /\ removing' = [removing EXCEPT ![r].keys = removing[r].keys \ {key}]
    BY <1>1, <1>7 DEF RemoveObject
  <2>2. removing' = [removing EXCEPT ![r] = w] BY <1>1, <2>1
  <2>3. w \in RemovalRow BY <1>1 DEF RemovalRow
  <2> HIDE DEF w
  <2>4. removing' \in [Removals -> RemovalRow] BY <1>1, <2>2, <2>3
  <2>5. removing[r] # NotRemoving BY <2>1 DEF NotRemoving
  <2>6. image = NoImage \/ image.removed BY <1>2, <2>5
  <2> QED BY <1>1, <2>1, <2>4, <2>6, RemovalStep
<1> QED BY <1>3, <1>5, <1>6, <1>7

LEMMA NextImages == ImagesInv /\ [BackOfficeNext]_backOfficeVars => ImagesInv'
<1> SUFFICES ASSUME ImagesInv, [BackOfficeNext]_backOfficeVars PROVE ImagesInv'
  OBVIOUS
<1>1. CASE UNCHANGED imageVars
  BY <1>1 DEF imageVars, ImagesInv, IdsAreSpent, UnderWay, RemovalIsMarked,
              AttemptHasStored, ReadyImageIsStored
<1>2. CASE ImagesNext
  BY <1>2, UploadStep, RecordStep, ReadyStep, FailedStep, RemoveStep, Zenon
  DEF ImagesNext
<1>3. ImagesNext \/ UNCHANGED imageVars
  BY Zenon DEF BackOfficeNext, OrderingStep, SettlementStep, ReviewsStep, TicketsStep,
               AccountsStep, PlatformStep, platformVars, backOfficeVars
<1> QED BY <1>1, <1>2, <1>3

(* Whatever attempts fail, die, or overlap, a READY image that no removal  *)
(* touched has its bytes, but for the original of a second attempt.        *)
THEOREM ReadyImagesAreStored == BackOfficeSpec => []ReadyImageIsStored
<1>1. BackOfficeInit => ImagesInv BY InitImages, Zenon DEF BackOfficeInit
<1>2. ImagesInv => ReadyImageIsStored BY Zenon DEF ImagesInv
<1> QED BY <1>1, <1>2, NextImages, PTL DEF BackOfficeSpec

-----------------------------------------------------------------------------
(* The sessions.                                                           *)

RefreshRow ==
  [stage : {"none", "sent", "issued", "granted", "refused"}, token : Nat,
   next : Nat]

RefreshStage(t, c) == refreshing[t][c].stage

SessionTypes ==
  /\ issued \in Nat /\ revoked \subseteq 1 .. issued
  /\ stored \in 0 .. issued
  /\ cached \in [Tabs -> 0 .. issued]
  /\ refreshing \in [Tabs -> [Calls -> RefreshRow]]
  /\ settled \subseteq Tabs /\ excused \subseteq Tabs
  /\ shell \in [Tabs -> {"in", "out", "lost"}]

(* A tab has one refresh under way, with a token that was issued.          *)
OneRefresh ==
  \A t \in Tabs : \A c \in Calls :
    refreshing[t][c] # NotRefreshing =>
      /\ RefreshStage(t, c) # "none"
      /\ refreshing[t][c].token \in 1 .. issued
      /\ refreshing[t][c].next <= issued
      /\ \A d \in Calls : refreshing[t][d] # NotRefreshing => d = c

(* A refresh the server has seen excuses all other tabs.                   *)
ServedExcuses ==
  \A t \in Tabs : \A c \in Calls :
    RefreshStage(t, c) \in {"issued", "granted", "refused"} => Tabs \ {t} \subseteq excused

(* What a tab that nothing befell may count on: what it has sent, will get *)
(* or has stored is not revoked, but for the token its own refresh has     *)
(* just replaced.                                                          *)
Trusted(t) ==
  /\ \A c \in Calls :
       /\ RefreshStage(t, c) = "sent" => refreshing[t][c].token \notin revoked
       /\ RefreshStage(t, c) \in {"issued", "granted"} =>
            /\ refreshing[t][c].next \notin revoked
            /\ refreshing[t][c].next # refreshing[t][c].token
       /\ RefreshStage(t, c) # "refused"
  /\ (\A c \in Calls : RefreshStage(t, c) # "granted") =>
       stored \notin revoked /\ cached[t] \notin revoked

SessionInv ==
  /\ SessionTypes
  /\ OneRefresh
  /\ ServedExcuses
  /\ \A t \in Tabs \ excused : Trusted(t)
  /\ SessionLostOnlyByFault

LEMMA NotRefreshingRow ==
  NotRefreshing \in RefreshRow /\ NotRefreshing.stage = "none"
BY DEF NotRefreshing, RefreshRow, NoToken

LEMMA InitSession == AccountsInit => SessionInv
<1> SUFFICES ASSUME AccountsInit PROVE SessionInv OBVIOUS
<1>1. /\ issued = 1 /\ revoked = {} /\ stored = 1 /\ settled = {} /\ excused = {}
      /\ cached = [t \in Tabs |-> 0] /\ shell = [t \in Tabs |-> "in"]
      /\ refreshing = [t \in Tabs |-> [c \in Calls |-> NotRefreshing]]
  BY DEF AccountsInit, NoToken
<1>2. \A t \in Tabs, c \in Calls : refreshing[t][c] = NotRefreshing BY <1>1
<1>3. SessionTypes
  <2>1. [c \in Calls |-> NotRefreshing] \in [Calls -> RefreshRow]
    BY NotRefreshingRow
  <2> QED BY <1>1, <2>1 DEF SessionTypes
<1>4. OneRefresh BY <1>2 DEF OneRefresh
<1>5. ServedExcuses BY <1>2, NotRefreshingRow DEF ServedExcuses, RefreshStage
<1>6. \A t \in Tabs : Trusted(t)
  BY <1>1, <1>2, NotRefreshingRow DEF Trusted, RefreshStage
<1>7. SessionLostOnlyByFault BY <1>1 DEF SessionLostOnlyByFault
<1> QED BY <1>3, <1>4, <1>5, <1>6, <1>7 DEF SessionInv

(* One refresh of a tab changes, to a row r.                               *)
Becomes(t, c, r) ==
  \A u \in Tabs, d \in Calls :
    refreshing'[u][d] = IF u = t /\ d = c THEN r ELSE refreshing[u][d]

LEMMA RefreshBecomes ==
  ASSUME SessionTypes, NEW t \in Tabs, NEW c \in Calls, NEW r \in RefreshRow,
         refreshing' = [refreshing EXCEPT ![t][c] = r]
  PROVE  refreshing' \in [Tabs -> [Calls -> RefreshRow]] /\ Becomes(t, c, r)
<1>1. PICK calls \in [Calls -> RefreshRow] : calls = refreshing[t]
  BY DEF SessionTypes
<1>2. refreshing' = [refreshing EXCEPT ![t] = [calls EXCEPT ![c] = r]]
  BY <1>1
<1>3. [calls EXCEPT ![c] = r] \in [Calls -> RefreshRow] OBVIOUS
<1>4. refreshing' \in [Tabs -> [Calls -> RefreshRow]]
  BY <1>2, <1>3 DEF SessionTypes
<1>5. \A u \in Tabs :
        refreshing'[u] = IF u = t THEN [calls EXCEPT ![c] = r] ELSE refreshing[u]
  BY <1>2 DEF SessionTypes
<1>6. \A d \in Calls : [calls EXCEPT ![c] = r][d] = IF d = c THEN r ELSE calls[d]
  OBVIOUS
<1> QED BY <1>1, <1>4, <1>5, <1>6 DEF Becomes

(* What a tab has is a token that was issued, or none.                     *)
LEMMA LoadedToken ==
  ASSUME SessionTypes, NEW t \in Tabs
  PROVE  /\ loadStoredRefreshToken(t) \in 0 .. issued
         /\ loadStoredRefreshToken(t) = cached[t] \/ loadStoredRefreshToken(t) = stored
BY DEF SessionTypes, loadStoredRefreshToken

LEMMA SendStep ==
  ASSUME SessionInv, NEW t \in Tabs, NEW c \in Calls, refreshSession(t, c)
  PROVE  SessionInv'
<1>1. PICK token \in 0 .. issued :
        /\ token = loadStoredRefreshToken(t)
        /\ token = cached[t] \/ token = stored
  BY LoadedToken DEF SessionInv
<1>2. /\ token # 0 /\ ~refreshInFlight(t)
      /\ cached' = [cached EXCEPT ![t] = token]
      /\ refreshing' = [refreshing EXCEPT ![t][c] =
           [stage |-> "sent", token |-> token, next |-> 0]]
      /\ UNCHANGED <<issued, revoked, stored, settled, shell, excused>>
  BY <1>1 DEF refreshSession, NoToken
<1>3. PICK r \in RefreshRow : r = [stage |-> "sent", token |-> token, next |-> 0]
  <2>1. token \in Nat BY DEF SessionInv, SessionTypes
  <2> QED BY <2>1 DEF RefreshRow
<1>4. r.stage = "sent" /\ r.token = token /\ r.next = 0 BY <1>3
<1>5. refreshing' \in [Tabs -> [Calls -> RefreshRow]] /\ Becomes(t, c, r)
  <2>1. SessionTypes /\ refreshing' = [refreshing EXCEPT ![t][c] = r]
    BY <1>2, <1>3 DEF SessionInv
  <2> QED BY <2>1, RefreshBecomes
<1>6. \A d \in Calls : refreshing[t][d] = NotRefreshing
  BY <1>2 DEF refreshInFlight
<1>7. SessionTypes' BY <1>2, <1>5 DEF SessionInv, SessionTypes
<1>8. OneRefresh'
  <2>1. token \in 1 .. issued /\ 0 <= issued BY <1>2 DEF SessionInv, SessionTypes
  <2> QED BY <1>2, <1>4, <1>5, <1>6, <2>1
          DEF SessionInv, OneRefresh, Becomes, RefreshStage
<1>9. ServedExcuses'
  BY <1>2, <1>4, <1>5 DEF SessionInv, ServedExcuses, Becomes, RefreshStage
<1>10. ASSUME NEW u \in Tabs \ excused PROVE Trusted(u)'
  <2>1. Trusted(u) BY DEF SessionInv
  <2>2. \A v \in Tabs : cached'[v] = IF v = t THEN token ELSE cached[v]
    BY <1>2 DEF SessionInv, SessionTypes
  <2>3. CASE u = t
    <3>1. \A d \in Calls : RefreshStage(t, d) = "none"
      BY <1>6, NotRefreshingRow DEF RefreshStage
    <3>2. token \notin revoked BY <1>1, <2>1, <2>3, <3>1 DEF Trusted
    <3>3. stored \notin revoked BY <2>1, <2>3, <3>1 DEF Trusted
    <3>4. \A d \in Calls : RefreshStage(t, d)' = IF d = c THEN "sent" ELSE "none"
      BY <1>4, <1>5, <3>1 DEF Becomes, RefreshStage
    <3> QED BY <1>2, <1>4, <1>5, <2>2, <2>3, <3>2, <3>3, <3>4 DEF Trusted, Becomes
  <2>4. CASE u # t
    <3>1. \A d \in Calls : refreshing'[u][d] = refreshing[u][d]
      BY <1>5, <2>4 DEF Becomes
    <3> QED BY <1>2, <2>1, <2>2, <2>4, <3>1 DEF Trusted, RefreshStage
  <2> QED BY <2>3, <2>4
<1>11. SessionLostOnlyByFault' BY <1>2 DEF SessionInv, SessionLostOnlyByFault
<1> QED BY <1>2, <1>7, <1>8, <1>9, <1>10, <1>11 DEF SessionInv

(* A refresh that goes on, or ends, is still the only one of its tab.      *)
LEMMA StillOneRefresh ==
  ASSUME SessionInv, issued' \in Nat, issued <= issued',
         \A t \in Tabs, c \in Calls :
           \/ refreshing'[t][c] = refreshing[t][c]
           \/ refreshing'[t][c] = NotRefreshing
           \/ /\ refreshing[t][c] # NotRefreshing
              /\ RefreshStage(t, c)' # "none"
              /\ refreshing'[t][c].token = refreshing[t][c].token
              /\ refreshing'[t][c].next <= issued'
  PROVE  OneRefresh'
<1> SUFFICES ASSUME NEW t \in Tabs, NEW c \in Calls,
                    refreshing'[t][c] # NotRefreshing
             PROVE  /\ RefreshStage(t, c)' # "none"
                    /\ refreshing'[t][c].token \in 1 .. issued'
                    /\ refreshing'[t][c].next <= issued'
                    /\ \A d \in Calls : refreshing'[t][d] # NotRefreshing => d = c
  BY DEF OneRefresh
<1>1. refreshing[t][c] # NotRefreshing OBVIOUS
<1>2. /\ RefreshStage(t, c) # "none"
      /\ refreshing[t][c].token \in 1 .. issued
      /\ refreshing[t][c].next <= issued
      /\ \A d \in Calls : refreshing[t][d] # NotRefreshing => d = c
  BY <1>1 DEF SessionInv, OneRefresh
<1>3. refreshing'[t][c].token = refreshing[t][c].token OBVIOUS
<1>4. issued \in Nat /\ refreshing[t][c].next \in Nat
  BY DEF SessionInv, SessionTypes, RefreshRow
<1>5. refreshing[t][c].token \in 1 .. issued' BY <1>2, <1>4
<1>6. \/ refreshing'[t][c] = refreshing[t][c]
      \/ /\ RefreshStage(t, c)' # "none"
         /\ refreshing'[t][c].next <= issued'
  OBVIOUS
<1>7. RefreshStage(t, c)' # "none" BY <1>2, <1>6 DEF RefreshStage
<1>8. refreshing'[t][c].next <= issued' BY <1>2, <1>4, <1>6
<1>9. \A d \in Calls :
        refreshing'[t][d] # NotRefreshing => refreshing[t][d] # NotRefreshing
  OBVIOUS
<1> QED BY <1>2, <1>3, <1>5, <1>7, <1>8, <1>9

(* What befalls every tab is excused in every tab.                         *)
LEMMA BefallsAll ==
  ASSUME SessionTypes', OneRefresh', excused' = Tabs
  PROVE  SessionInv'
<1>1. ServedExcuses' BY DEF ServedExcuses
<1>2. SessionLostOnlyByFault' BY DEF SessionLostOnlyByFault
<1> QED BY <1>1, <1>2 DEF SessionInv

(* Tokens of a tab that are kept or cleared stay trusted.                  *)
LEMMA ClearStep ==
  ASSUME SessionInv, UNCHANGED <<issued, revoked, excused>>,
         \A t \in Tabs, c \in Calls : refreshing'[t][c] = refreshing[t][c],
         SessionTypes', SessionLostOnlyByFault',
         stored' = stored \/ stored' = 0,
         \A t \in Tabs : cached'[t] = cached[t] \/ cached'[t] = 0
  PROVE  SessionInv'
<1>1. issued' \in Nat /\ issued <= issued' BY DEF SessionInv, SessionTypes
<1>2. OneRefresh' BY <1>1, StillOneRefresh
<1>3. ServedExcuses' BY DEF SessionInv, ServedExcuses, RefreshStage
<1>4. 0 \notin revoked BY DEF SessionInv, SessionTypes
<1>5. ASSUME NEW t \in Tabs \ excused PROVE Trusted(t)'
  BY <1>4 DEF SessionInv, Trusted, RefreshStage
<1> QED BY <1>2, <1>3, <1>5 DEF SessionInv

(* The token of a tab and of all others after setTokens.                   *)
LEMMA SetTokens ==
  ASSUME NEW t \in Tabs, NEW token, setTokens(t, token), SessionTypes
  PROVE  /\ stored' = token /\ cached'[t] = token
         /\ \A u \in Tabs \ {t} : cached'[u] = cached[u]
         /\ token \in 0 .. issued' /\ issued <= issued' /\ issued' \in Nat
              => cached' \in [Tabs -> 0 .. issued']
<1>1. cached' = [cached EXCEPT ![t] = token] /\ stored' = token
  BY DEF setTokens
<1>2. cached \in [Tabs -> 0 .. issued] /\ issued \in Nat BY DEF SessionTypes
<1>3. ASSUME token \in 0 .. issued', issued <= issued', issued' \in Nat
      PROVE  cached' \in [Tabs -> 0 .. issued']
  <2>1. cached \in [Tabs -> 0 .. issued'] BY <1>2, <1>3
  <2> QED BY <1>1, <1>3, <2>1
<1> QED BY <1>1, <1>2, <1>3

LEMMA LostStep ==
  ASSUME SessionInv, NEW t \in Tabs, TokenlessCall(t) \/ SettledCall(t)
  PROVE  SessionInv'
<1>1. /\ SessionLost(t) /\ UNCHANGED <<issued, revoked, refreshing, excused>>
      /\ t \in settled' /\ settled \subseteq settled' /\ settled' \subseteq Tabs
  BY DEF TokenlessCall, SettledCall, SessionInv, SessionTypes
<1>2. setTokens(t, 0) /\ shell' = [shell EXCEPT ![t] = "lost"]
  BY <1>1 DEF SessionLost, NoToken
<1>3. SessionTypes BY DEF SessionInv
<1>4. 0 \in 0 .. issued' /\ issued <= issued' /\ issued' \in Nat
  BY <1>1, <1>3 DEF SessionTypes
<1>5. /\ stored' = 0 /\ cached' \in [Tabs -> 0 .. issued']
      /\ \A u \in Tabs : cached'[u] = cached[u] \/ cached'[u] = 0
  BY <1>2, <1>3, <1>4, SetTokens
<1>6. SessionTypes' BY <1>1, <1>2, <1>3, <1>4, <1>5 DEF SessionTypes
<1>7. SessionLostOnlyByFault'
  BY <1>1, <1>2, <1>3 DEF SessionInv, SessionLostOnlyByFault, SessionTypes
<1> QED BY <1>1, <1>5, <1>6, <1>7, ClearStep

(* A call whose refresh has ended.                                         *)
LEMMA EndedRefresh ==
  ASSUME SessionInv, NEW t \in Tabs, NEW c \in Calls, Ended(t, c),
         UNCHANGED issued
  PROVE  /\ refreshing' \in [Tabs -> [Calls -> RefreshRow]]
         /\ Becomes(t, c, NotRefreshing) /\ OneRefresh'
<1>1. SessionTypes /\ NotRefreshing \in RefreshRow
  BY NotRefreshingRow DEF SessionInv
<1>2. refreshing' = [refreshing EXCEPT ![t][c] = NotRefreshing] BY DEF Ended
<1>3. refreshing' \in [Tabs -> [Calls -> RefreshRow]] /\ Becomes(t, c, NotRefreshing)
  BY <1>1, <1>2, RefreshBecomes
<1>4. issued' \in Nat /\ issued <= issued' BY <1>1 DEF SessionTypes
<1>5. OneRefresh' BY <1>3, <1>4, StillOneRefresh DEF Becomes
<1> QED BY <1>3, <1>5

LEMMA AnsweredStep ==
  ASSUME SessionInv, NEW t \in Tabs, NEW c \in Calls, Answered(t, c)
  PROVE  SessionInv'
<1>1. /\ Ended(t, c) /\ UNCHANGED <<issued, revoked, settled, excused>>
      /\ \/ /\ RefreshStage(t, c) = "granted" /\ UNCHANGED shell
            /\ setTokens(t, refreshing[t][c].next)
         \/ /\ RefreshStage(t, c) = "refused" /\ setTokens(t, 0)
            /\ shell' = [shell EXCEPT ![t] = "lost"]
  BY DEF Answered, SessionLost, RefreshStage, NoToken
<1>2. SessionTypes BY DEF SessionInv
<1>3. /\ refreshing' \in [Tabs -> [Calls -> RefreshRow]]
      /\ Becomes(t, c, NotRefreshing) /\ OneRefresh'
  BY <1>1, EndedRefresh
<1>4. refreshing[t][c] # NotRefreshing BY <1>1, NotRefreshingRow DEF RefreshStage
<1>5. Tabs \ {t} \subseteq excused BY <1>1 DEF SessionInv, ServedExcuses
<1>6. RefreshStage(t, c) = "refused" => t \in excused
  BY DEF SessionInv, Trusted
<1>7. \A d \in Calls : RefreshStage(t, d)' = "none"
  <2>1. \A d \in Calls \ {c} : refreshing[t][d] = NotRefreshing
    BY <1>4 DEF SessionInv, OneRefresh
  <2> QED BY <1>3, <2>1, NotRefreshingRow DEF Becomes, RefreshStage
<1>8. PICK token \in 0 .. issued :
        /\ setTokens(t, token)
        /\ RefreshStage(t, c) = "granted" => token = refreshing[t][c].next
  <2>1. refreshing[t][c].next \in 0 .. issued
    BY <1>2, <1>4 DEF SessionInv, OneRefresh, SessionTypes, RefreshRow
  <2>2. 0 \in 0 .. issued BY <1>2 DEF SessionTypes
  <2> QED BY <1>1, <2>1, <2>2
<1>9. issued <= issued' /\ issued' \in Nat BY <1>1, <1>2 DEF SessionTypes
<1>10. /\ stored' = token /\ cached'[t] = token
       /\ cached' \in [Tabs -> 0 .. issued']
  BY <1>1, <1>2, <1>8, <1>9, SetTokens
<1>11. SessionTypes' BY <1>1, <1>2, <1>3, <1>10 DEF SessionTypes
<1>12. ServedExcuses'
  <2>1. \A u \in Tabs \ {t}, d \in Calls : refreshing'[u][d] = refreshing[u][d]
    BY <1>3 DEF Becomes
  <2> QED BY <1>1, <1>7, <2>1 DEF SessionInv, ServedExcuses, RefreshStage
<1>13. ASSUME NEW u \in Tabs \ excused' PROVE Trusted(u)'
  <2>1. u = t /\ t \notin excused BY <1>1, <1>5
  <2>2. RefreshStage(t, c) = "granted" /\ token = refreshing[t][c].next
    BY <1>1, <1>6, <1>8, <2>1
  <2>3. token \notin revoked BY <2>1, <2>2 DEF SessionInv, Trusted
  <2> QED BY <1>1, <1>7, <1>10, <2>1, <2>3 DEF Trusted
<1>14. SessionLostOnlyByFault'
  BY <1>1, <1>2, <1>6 DEF SessionInv, SessionLostOnlyByFault, SessionTypes
<1> QED BY <1>3, <1>11, <1>12, <1>13, <1>14 DEF SessionInv

LEMMA BlipStep ==
  ASSUME SessionInv, NEW t \in Tabs, NEW c \in Calls, Blip(t, c)
  PROVE  SessionInv'
<1>1. /\ Ended(t, c) /\ setTokens(t, 0) /\ shell' = [shell EXCEPT ![t] = "lost"]
      /\ excused' = excused \cup Tabs /\ UNCHANGED <<issued, revoked, settled>>
  BY DEF Blip, SessionLost, Excused, NoToken
<1>2. SessionTypes BY DEF SessionInv
<1>3. refreshing' \in [Tabs -> [Calls -> RefreshRow]] /\ OneRefresh'
  BY <1>1, EndedRefresh
<1>4. 0 \in 0 .. issued' /\ issued <= issued' /\ issued' \in Nat
  BY <1>1, <1>2 DEF SessionTypes
<1>5. stored' = 0 /\ cached' \in [Tabs -> 0 .. issued']
  BY <1>1, <1>2, <1>4, SetTokens
<1>6. excused' = Tabs BY <1>1, <1>2 DEF SessionTypes
<1>7. SessionTypes' BY <1>1, <1>2, <1>3, <1>4, <1>5, <1>6 DEF SessionTypes
<1> QED BY <1>3, <1>6, <1>7, BefallsAll

LEMMA ReloadStep ==
  ASSUME SessionInv, NEW t \in Tabs, Reload(t)
  PROVE  SessionInv'
<1>1. /\ refreshing' = [refreshing EXCEPT ![t] = [c \in Calls |-> NotRefreshing]]
      /\ settled' = settled \ {t} /\ cached' = [cached EXCEPT ![t] = 0]
      /\ \/ shell' = [shell EXCEPT ![t] = "in"] /\ UNCHANGED stored
         \/ shell' = [shell EXCEPT ![t] = "out"] /\ stored' = 0
      /\ IF refreshInFlight(t) THEN excused' = excused \cup Tabs
                               ELSE UNCHANGED excused
      /\ UNCHANGED <<issued, revoked>>
  BY DEF Reload, Excused, NoToken
<1>2. SessionTypes BY DEF SessionInv
<1>3. /\ refreshing' \in [Tabs -> [Calls -> RefreshRow]]
      /\ \A u \in Tabs, c \in Calls :
           refreshing'[u][c] = IF u = t THEN NotRefreshing ELSE refreshing[u][c]
  <2>1. [c \in Calls |-> NotRefreshing] \in [Calls -> RefreshRow]
    BY NotRefreshingRow
  <2>2. \A u \in Tabs : refreshing'[u] = IF u = t THEN [c \in Calls |-> NotRefreshing]
                                         ELSE refreshing[u]
    BY <1>1, <1>2 DEF SessionTypes
  <2> QED BY <1>1, <1>2, <2>1, <2>2 DEF SessionTypes
<1>4. issued' \in Nat /\ issued <= issued' /\ 0 \in 0 .. issued'
  BY <1>1, <1>2 DEF SessionTypes
<1>5. /\ cached' \in [Tabs -> 0 .. issued'] /\ stored' \in 0 .. issued'
      /\ \A u \in Tabs : cached'[u] = IF u = t THEN 0 ELSE cached[u]
  BY <1>1, <1>2, <1>4 DEF SessionTypes
<1>6. /\ shell' \in [Tabs -> {"in", "out", "lost"}] /\ shell'[t] # "lost"
      /\ \A u \in Tabs \ {t} : shell'[u] = shell[u]
  BY <1>1, <1>2 DEF SessionTypes
<1>7. SessionTypes'
  <2>1. excused' \subseteq Tabs BY <1>1, <1>2 DEF SessionTypes
  <2> QED BY <1>1, <1>2, <1>3, <1>4, <1>5, <1>6, <2>1 DEF SessionTypes
<1>8. CASE refreshInFlight(t)
  <2>1. excused' = Tabs BY <1>1, <1>2, <1>8 DEF SessionTypes
  <2>2. OneRefresh' BY <1>3, <1>4, StillOneRefresh
  <2> QED BY <1>7, <2>1, <2>2, BefallsAll
<1>9. CASE ~refreshInFlight(t)
  <2>1. \A u \in Tabs, c \in Calls : refreshing'[u][c] = refreshing[u][c]
    BY <1>3, <1>9 DEF refreshInFlight
  <2>2. SessionLostOnlyByFault'
    BY <1>1, <1>6, <1>9 DEF SessionInv, SessionLostOnlyByFault
  <2>3. UNCHANGED <<issued, revoked, excused>> BY <1>1, <1>9
  <2>4. stored' = stored \/ stored' = 0 BY <1>1
  <2>5. \A u \in Tabs : cached'[u] = cached[u] \/ cached'[u] = 0 BY <1>5
  <2> QED BY <1>7, <2>1, <2>2, <2>3, <2>4, <2>5, ClearStep
<1> QED BY <1>8, <1>9

(* The server answers from what the tab sent: the row goes on, the other   *)
(* tabs are excused, and nothing of the tabs changes.                      *)
LEMMA ServedStep ==
  ASSUME SessionInv, NEW t \in Tabs, NEW c \in Calls, NEW r \in RefreshRow,
         refreshing[t][c] # NotRefreshing,
         refreshing' = [refreshing EXCEPT ![t][c] = r],
         r.stage \in {"issued", "granted", "refused"},
         r.token = refreshing[t][c].token,
         r.next <= issued', issued' \in Nat, issued <= issued',
         revoked' \subseteq 1 .. issued',
         excused' = excused \cup (Tabs \ {t}),
         UNCHANGED <<stored, cached, settled, shell>>,
         t \notin excused =>
           /\ r.stage # "refused"
           /\ r.next \notin revoked' /\ r.next # r.token
           /\ r.stage # "granted" => stored \notin revoked' /\ cached[t] \notin revoked'
  PROVE  SessionInv'
<1>1. SessionTypes BY DEF SessionInv
<1>2. refreshing' \in [Tabs -> [Calls -> RefreshRow]] /\ Becomes(t, c, r)
  BY <1>1, RefreshBecomes
<1>3. SessionTypes'
  <2>1. cached' \in [Tabs -> 0 .. issued'] /\ stored' \in 0 .. issued'
    BY <1>1 DEF SessionTypes
  <2>2. excused' \subseteq Tabs BY <1>1 DEF SessionTypes
  <2> QED BY <1>1, <1>2, <2>1, <2>2 DEF SessionTypes
<1>4. OneRefresh'
  <2>1. refreshing'[t][c] = r BY <1>2 DEF Becomes
  <2>2. RefreshStage(t, c)' # "none" BY <2>1 DEF RefreshStage
  <2> QED BY <1>2, <2>1, <2>2, StillOneRefresh DEF Becomes
<1>5. \A d \in Calls \ {c} : refreshing[t][d] = NotRefreshing
  BY DEF SessionInv, OneRefresh
<1>6. \A d \in Calls : RefreshStage(t, d)' = IF d = c THEN r.stage ELSE "none"
  BY <1>2, <1>5, NotRefreshingRow DEF Becomes, RefreshStage
<1>7. ServedExcuses'
  <2>1. \A u \in Tabs \ {t}, d \in Calls : RefreshStage(u, d)' = RefreshStage(u, d)
    BY <1>2 DEF Becomes, RefreshStage
  <2> QED BY <2>1 DEF SessionInv, ServedExcuses
<1>8. ASSUME NEW u \in Tabs \ excused' PROVE Trusted(u)'
  <2>1. u = t /\ t \notin excused OBVIOUS
  <2>2. refreshing'[t][c] = r BY <1>2 DEF Becomes
  <2>3. r.stage # "sent" OBVIOUS
  <2> QED BY <1>6, <2>1, <2>2, <2>3 DEF Trusted
<1>9. SessionLostOnlyByFault' BY DEF SessionInv, SessionLostOnlyByFault
<1> QED BY <1>3, <1>4, <1>7, <1>8, <1>9 DEF SessionInv

LEMMA ServeStep ==
  ASSUME SessionInv, NEW t \in Tabs, NEW c \in Calls, Serve(t, c)
  PROVE  SessionInv'
<1>1. SessionTypes BY DEF SessionInv
<1>2. PICK r \in RefreshRow : r = refreshing[t][c] BY <1>1 DEF SessionTypes
<1>3. /\ r.stage = "sent" /\ r # NotRefreshing
      /\ excused' = excused \cup (Tabs \ {t})
      /\ UNCHANGED <<stored, cached, settled, shell>>
  BY <1>2, NotRefreshingRow DEF Serve, Excused
<1>4. /\ issued \in Nat /\ revoked \subseteq 1 .. issued
      /\ stored \in 0 .. issued /\ cached[t] \in 0 .. issued
      /\ r.token \in 1 .. issued /\ r.next <= issued
  BY <1>1, <1>2, <1>3 DEF SessionInv, OneRefresh, SessionTypes
<1>5. t \notin excused =>
        r.token \notin revoked /\ stored \notin revoked /\ cached[t] \notin revoked
  <2>1. SUFFICES ASSUME t \notin excused
                 PROVE  /\ r.token \notin revoked
                        /\ stored \notin revoked /\ cached[t] \notin revoked
    OBVIOUS
  <2>2. \A d \in Calls \ {c} : refreshing[t][d] = NotRefreshing
    BY <1>2, <1>3 DEF SessionInv, OneRefresh
  <2>3. \A d \in Calls : RefreshStage(t, d) # "granted"
    BY <1>2, <1>3, <2>2, NotRefreshingRow DEF RefreshStage
  <2> QED BY <1>2, <1>3, <2>1, <2>3 DEF SessionInv, Trusted, RefreshStage
<1>6. CASE /\ r.token \in revoked /\ revoked' = 1 .. issued
           /\ refreshing' = [refreshing EXCEPT ![t][c].stage = "refused"]
           /\ UNCHANGED issued
  <2>1. PICK next \in RefreshRow : next = [r EXCEPT !.stage = "refused"]
    BY DEF RefreshRow
  <2>2. /\ next.stage = "refused" /\ next.token = r.token /\ next.next = r.next
    BY <2>1 DEF RefreshRow
  <2>3. refreshing' = [refreshing EXCEPT ![t][c] = next] BY <1>2, <1>6, <2>1
  <2>4. t \in excused BY <1>5, <1>6
  <2>5. revoked' \subseteq 1 .. issued' /\ issued' \in Nat /\ issued <= issued'
        /\ next.next <= issued'
    BY <1>4, <1>6, <2>2
  <2> QED BY <1>2, <1>3, <2>2, <2>3, <2>4, <2>5, ServedStep
<1>7. CASE /\ r.token \notin revoked /\ issued' = issued + 1
           /\ refreshing' = [refreshing EXCEPT ![t][c].stage = "issued",
                                               ![t][c].next = issued + 1]
           /\ UNCHANGED revoked
  <2>1. PICK sent \in RefreshRow : sent = [r EXCEPT !.stage = "issued"]
    BY DEF RefreshRow
  <2>2. sent.stage = "issued" /\ sent.token = r.token BY <2>1 DEF RefreshRow
  <2>3. PICK next \in RefreshRow : next = [sent EXCEPT !.next = issued + 1]
    <3>1. PICK k \in Nat : k = issued + 1 BY <1>4
    <3>2. [sent EXCEPT !.next = k] \in RefreshRow BY DEF RefreshRow
    <3> QED BY <3>1, <3>2
  <2>4. /\ next.stage = "issued" /\ next.token = r.token
        /\ next.next = issued + 1
    BY <2>2, <2>3 DEF RefreshRow
  <2>5. refreshing' = [refreshing EXCEPT ![t][c] = next]
    <3>1. refreshing' = [[refreshing EXCEPT ![t][c].stage = "issued"]
                          EXCEPT ![t][c].next = issued + 1]
      BY <1>7
    <3>2. PICK calls \in [Calls -> RefreshRow] : calls = refreshing[t]
      BY <1>1 DEF SessionTypes
    <3>3. [refreshing EXCEPT ![t][c].stage = "issued"]
            = [refreshing EXCEPT ![t] = [calls EXCEPT ![c] = sent]]
      BY <1>2, <2>1, <3>2
    <3>4. /\ [calls EXCEPT ![c] = sent][c] = sent
          /\ [[calls EXCEPT ![c] = sent] EXCEPT ![c] = next]
               = [calls EXCEPT ![c] = next]
      OBVIOUS
    <3> QED BY <1>1, <2>3, <3>1, <3>2, <3>3, <3>4 DEF SessionTypes
  <2>6. /\ revoked' \subseteq 1 .. issued' /\ issued' \in Nat /\ issued <= issued'
        /\ next.next <= issued' /\ next.next \notin revoked'
        /\ next.next # next.token
    BY <1>4, <1>7, <2>4
  <2> QED BY <1>2, <1>3, <1>5, <1>7, <2>4, <2>5, <2>6, ServedStep
<1> QED BY <1>2, <1>6, <1>7 DEF Serve, revokeAll

LEMMA RetireStep ==
  ASSUME SessionInv, NEW t \in Tabs, NEW c \in Calls, Retire(t, c)
  PROVE  SessionInv'
<1>1. SessionTypes BY DEF SessionInv
<1>2. PICK r \in RefreshRow : r = refreshing[t][c] BY <1>1 DEF SessionTypes
<1>3. /\ r.stage = "issued" /\ r # NotRefreshing
      /\ revoked' = revoked \cup {r.token}
      /\ refreshing' = [refreshing EXCEPT ![t][c].stage = "granted"]
      /\ UNCHANGED <<issued, stored, cached, settled, shell, excused>>
  BY <1>2, NotRefreshingRow DEF Retire
<1>4. PICK next \in RefreshRow : next = [r EXCEPT !.stage = "granted"]
  BY DEF RefreshRow
<1>5. next.stage = "granted" /\ next.token = r.token /\ next.next = r.next
  BY <1>4 DEF RefreshRow
<1>6. refreshing' = [refreshing EXCEPT ![t][c] = next] BY <1>2, <1>3, <1>4
<1>7. /\ issued' \in Nat /\ issued <= issued' /\ next.next <= issued'
      /\ revoked' \subseteq 1 .. issued'
  BY <1>1, <1>2, <1>3, <1>5 DEF SessionInv, OneRefresh, SessionTypes
<1>8. excused' = excused \cup (Tabs \ {t})
  BY <1>2, <1>3 DEF SessionInv, ServedExcuses, RefreshStage
<1>9. t \notin excused => next.next \notin revoked' /\ next.next # next.token
  BY <1>2, <1>3, <1>5 DEF SessionInv, Trusted, RefreshStage
<1> QED BY <1>2, <1>3, <1>5, <1>6, <1>7, <1>8, <1>9, ServedStep

LEMMA RevokeStep ==
  ASSUME SessionInv, RevokeSessions \/ \E t \in Tabs : Logout(t)
  PROVE  SessionInv'
<1>1. SessionTypes BY DEF SessionInv
<1>2. OneRefresh'
  <2>1. UNCHANGED <<issued, refreshing>> BY DEF RevokeSessions, Logout
  <2> QED BY <2>1 DEF SessionInv, OneRefresh, RefreshStage
<1>3. excused' = Tabs
  BY <1>1 DEF RevokeSessions, Logout, Excused, SessionTypes
<1>4. CASE RevokeSessions
  <2>1. SessionTypes'
    BY <1>1, <1>3, <1>4 DEF RevokeSessions, revokeAll, SessionTypes
  <2> QED BY <1>2, <1>3, <2>1, BefallsAll
<1>5. ASSUME NEW t \in Tabs, Logout(t) PROVE SessionInv'
  <2>1. PICK token \in 0 .. issued : token = loadStoredRefreshToken(t)
    BY <1>1, LoadedToken
  <2>2. /\ token # 0 /\ setTokens(t, 0) /\ revoked' = revoked \cup {token}
        /\ shell' = [shell EXCEPT ![t] = "out"]
        /\ UNCHANGED <<issued, refreshing, settled>>
    BY <1>5, <2>1 DEF Logout, NoToken
  <2>3. 0 \in 0 .. issued' /\ issued <= issued' /\ issued' \in Nat
    BY <1>1, <2>2 DEF SessionTypes
  <2>4. stored' = 0 /\ cached' \in [Tabs -> 0 .. issued']
    BY <1>1, <2>2, <2>3, SetTokens
  <2>5. revoked' \subseteq 1 .. issued'
    <3>1. issued \in Nat /\ revoked \subseteq 1 .. issued BY <1>1 DEF SessionTypes
    <3>2. token \in 1 .. issued BY <2>1, <2>2, <3>1
    <3>3. revoked \cup {token} \subseteq 1 .. issued BY <3>1, <3>2
    <3> QED BY <2>2, <3>3
  <2>6. SessionTypes' BY <1>1, <1>3, <2>2, <2>3, <2>4, <2>5 DEF SessionTypes
  <2> QED BY <1>2, <1>3, <2>6, BefallsAll
<1> QED BY <1>4, <1>5

LEMMA LoginStep ==
  ASSUME SessionInv, NEW t \in Tabs, Login(t)
  PROVE  SessionInv'
<1>1. SessionTypes /\ OneRefresh BY DEF SessionInv
<1>2. /\ issued' = issued + 1 /\ setTokens(t, issued + 1)
      /\ shell' = [shell EXCEPT ![t] = "in"]
      /\ excused' = IF \E u \in Tabs : refreshInFlight(u) THEN excused \cup {t}
                    ELSE excused \ {t}
      /\ UNCHANGED <<revoked, refreshing, settled>>
  BY DEF Login
<1>3. /\ issued \in Nat /\ issued + 1 \in 0 .. issued' /\ issued <= issued'
      /\ issued' \in Nat /\ issued + 1 \notin revoked
      /\ revoked' \subseteq 1 .. issued'
  BY <1>1, <1>2 DEF SessionTypes
<1>4. /\ stored' = issued + 1 /\ cached'[t] = issued + 1
      /\ \A u \in Tabs \ {t} : cached'[u] = cached[u]
      /\ cached' \in [Tabs -> 0 .. issued']
  BY <1>1, <1>2, <1>3, SetTokens
<1>5. excused' \subseteq Tabs BY <1>1, <1>2 DEF SessionTypes
<1>6. SessionTypes' BY <1>1, <1>2, <1>3, <1>4, <1>5 DEF SessionTypes
<1>7. OneRefresh' BY <1>2, <1>3, StillOneRefresh
<1>8. \A u \in Tabs, c \in Calls : RefreshStage(u, c)' = RefreshStage(u, c)
  BY <1>2 DEF RefreshStage
<1>9. SessionLostOnlyByFault'
  <2>1. shell'[t] = "in" /\ \A u \in Tabs \ {t} : shell'[u] = shell[u]
    BY <1>1, <1>2 DEF SessionTypes
  <2> QED BY <1>2, <2>1 DEF SessionInv, SessionLostOnlyByFault
<1>10. CASE \E u \in Tabs : refreshInFlight(u)
  <2>1. excused' = excused \cup {t} BY <1>2, <1>10
  <2>2. ServedExcuses' BY <1>8, <2>1 DEF SessionInv, ServedExcuses
  <2>3. ASSUME NEW u \in Tabs \ excused' PROVE Trusted(u)'
    <3>1. u # t /\ u \in Tabs \ excused BY <2>1, <2>3
    <3>2. Trusted(u) BY <3>1 DEF SessionInv
    <3> QED BY <1>2, <1>3, <1>4, <1>8, <3>1, <3>2 DEF Trusted
  <2> QED BY <1>6, <1>7, <1>9, <2>2, <2>3 DEF SessionInv
<1>11. CASE ~\E u \in Tabs : refreshInFlight(u)
  <2>1. excused' = excused \ {t} BY <1>2, <1>11
  <2>2. \A u \in Tabs, c \in Calls : RefreshStage(u, c)' = "none"
    BY <1>8, <1>11, NotRefreshingRow DEF refreshInFlight, RefreshStage
  <2>3. ServedExcuses' BY <2>2 DEF ServedExcuses
  <2>4. ASSUME NEW u \in Tabs \ excused' PROVE Trusted(u)'
    <3>1. stored' \notin revoked' BY <1>2, <1>3, <1>4
    <3>2. cached'[u] \notin revoked'
      <4>1. CASE u = t BY <1>2, <1>3, <1>4, <4>1
      <4>2. CASE u # t
        <5>1. Trusted(u) BY <2>1, <2>4, <4>2 DEF SessionInv
        <5>2. cached[u] \notin revoked BY <1>8, <2>2, <5>1 DEF Trusted
        <5> QED BY <1>2, <1>4, <4>2, <5>2
      <4> QED BY <4>1, <4>2
    <3> QED BY <2>2, <3>1, <3>2 DEF Trusted
  <2> QED BY <1>6, <1>7, <1>9, <2>3, <2>4 DEF SessionInv
<1> QED BY <1>10, <1>11

LEMMA NextSession == SessionInv /\ [BackOfficeNext]_backOfficeVars => SessionInv'
<1> SUFFICES ASSUME SessionInv, [BackOfficeNext]_backOfficeVars PROVE SessionInv'
  OBVIOUS
<1>1. CASE UNCHANGED sessionVars
  BY <1>1 DEF sessionVars, SessionInv, SessionTypes, OneRefresh, ServedExcuses,
              Trusted, RefreshStage, SessionLostOnlyByFault
<1>2. CASE SessionNext
  BY <1>2, SendStep, AnsweredStep, BlipStep, ServeStep, RetireStep, LostStep,
     ReloadStep, RevokeStep, LoginStep, Zenon
  DEF SessionNext
<1>3. SessionNext \/ UNCHANGED sessionVars
  BY Zenon DEF BackOfficeNext, OrderingStep, SettlementStep, ReviewsStep, TicketsStep,
               AccountsStep, PlatformStep, accountVars, backOfficeVars
<1> QED BY <1>1, <1>2, <1>3

(* For any tabs and calls: a tab loses its session only if something other *)
(* than its own calls befell it, since what it sends is not revoked before *)
(* another tab, a sign-out, an operator or a lost answer has been at it.   *)
THEOREM SessionsSurviveTheirCalls == BackOfficeSpec => []SessionLostOnlyByFault
<1>1. BackOfficeInit => SessionInv BY InitSession, Zenon DEF BackOfficeInit
<1>2. SessionInv => SessionLostOnlyByFault BY Zenon DEF SessionInv
<1> QED BY <1>1, <1>2, NextSession, PTL DEF BackOfficeSpec

-----------------------------------------------------------------------------
(* The administrators.                                                     *)

EditRow ==
  [does : {"nothing", "promote", "demote"}, target : Admins \cup {"none"},
   overtaken : BOOLEAN]

(* What a demotion has checked holds until another edit overtakes it.      *)
AnotherAdminRemains ==
  \A e \in Edits :
    editing[e].does = "demote" /\ ~editing[e].overtaken =>
      enabled \ {editing[e].target} # {}

AdminInv == editing \in [Edits -> EditRow] /\ AnotherAdminRemains

LEMMA InitAdmins == AccountsInit => AdminInv
  BY DEF AccountsInit, AdminInv, EditRow, NotEditing, AnotherAdminRemains

LEMMA EditCheckStep ==
  ASSUME AdminInv, NEW e \in Edits, NEW target \in Admins,
         NEW does \in {"promote", "demote"}, EditCheck(e, target, does)
  PROVE  AdminInv'
<1>1. PICK next \in EditRow :
        next = [does |-> does, target |-> target, overtaken |-> FALSE]
  BY DEF EditRow
<1>2. /\ next.does = does /\ next.target = target
  BY <1>1
<1>3. /\ editing' = [editing EXCEPT ![e] = next] /\ enabled' = enabled
      /\ does = "demote" => enabled \ {target} # {}
  BY <1>1 DEF EditCheck, assertAnotherAdminRemains
<1>4. editing' \in [Edits -> EditRow] BY <1>3 DEF AdminInv
<1>5. ASSUME NEW d \in Edits, editing'[d].does = "demote", ~editing'[d].overtaken
      PROVE  enabled' \ {editing'[d].target} # {}
  <2>1. CASE d = e
    <3>1. editing'[d] = next BY <1>3, <2>1 DEF AdminInv
    <3> QED BY <1>2, <1>3, <1>5, <3>1
  <2>2. CASE d # e
    <3>1. editing'[d] = editing[d] BY <1>3, <2>2 DEF AdminInv
    <3> QED BY <1>3, <1>5, <3>1 DEF AdminInv, AnotherAdminRemains
  <2> QED BY <2>1, <2>2
<1> QED BY <1>4, <1>5 DEF AdminInv, AnotherAdminRemains

(* After a commit an edit that is still under way has been overtaken.      *)
LEMMA EditCommitStep ==
  ASSUME AdminInv, NEW e \in Edits, EditCommit(e)
  PROVE  /\ AdminInv'
         /\ editing'[e] = NotEditing
         /\ enabled # {} /\ enabled' = {} => editing[e].overtaken
<1>1. ASSUME NEW d \in Edits
      PROVE  editing'[d] \in EditRow
             /\ (editing'[d].does = "nothing" \/ editing'[d].overtaken)
  <2>1. CASE d = e \/ editing[d] = NotEditing
    BY <2>1 DEF EditCommit, EditRow, NotEditing
  <2>2. CASE ~(d = e \/ editing[d] = NotEditing)
    <3>1. PICK r \in EditRow : r = editing[d] BY DEF AdminInv
    <3>2. editing'[d] = [r EXCEPT !.overtaken = TRUE]
      BY <2>2, <3>1 DEF EditCommit
    <3>3. [r EXCEPT !.overtaken = TRUE] \in EditRow BY DEF EditRow
    <3>4. [r EXCEPT !.overtaken = TRUE].overtaken BY DEF EditRow
    <3> QED BY <3>2, <3>3, <3>4
  <2> QED BY <2>1, <2>2
<1>2. editing' \in [Edits -> EditRow]
  <2>1. editing' = [d \in Edits |-> editing'[d]] BY DEF EditCommit
  <2> QED BY <1>1, <2>1
<1>3. AdminInv' BY <1>1, <1>2 DEF AdminInv, AnotherAdminRemains
<1>4. editing'[e] = NotEditing BY DEF EditCommit
<1>5. ASSUME enabled # {}, enabled' = {} PROVE editing[e].overtaken
  <2>1. editing[e].does = "demote" /\ enabled' = enabled \ {editing[e].target}
    BY <1>5 DEF EditCommit
  <2>2. editing[e].overtaken \in BOOLEAN BY DEF AdminInv, EditRow
  <2> QED BY <1>5, <2>1, <2>2 DEF AdminInv, AnotherAdminRemains
<1> QED BY <1>3, <1>4, <1>5

LEMMA EditAbortStep ==
  ASSUME AdminInv, NEW e \in Edits, EditAbort(e)
  PROVE  AdminInv'
<1>1. /\ editing' = [editing EXCEPT ![e] = NotEditing] /\ enabled' = enabled
      /\ NotEditing \in EditRow /\ NotEditing.does = "nothing"
  BY DEF EditAbort, NotEditing, EditRow
<1>2. editing' \in [Edits -> EditRow] BY <1>1 DEF AdminInv
<1>3. \A d \in Edits : editing'[d].does = "nothing" \/ editing'[d] = editing[d]
  BY <1>1 DEF AdminInv
<1> QED BY <1>1, <1>2, <1>3 DEF AdminInv, AnotherAdminRemains

LEMMA NextAdmins ==
  AdminInv /\ [BackOfficeNext]_backOfficeVars =>
    /\ AdminInv'
    /\ enabled # {} /\ enabled' = {} =>
         \E e \in Edits : editing[e].overtaken /\ editing'[e] = NotEditing
<1> SUFFICES ASSUME AdminInv, [BackOfficeNext]_backOfficeVars
             PROVE  /\ AdminInv'
                    /\ enabled # {} /\ enabled' = {} =>
                         \E e \in Edits :
                           editing[e].overtaken /\ editing'[e] = NotEditing
  OBVIOUS
<1>1. CASE UNCHANGED adminVars
  BY <1>1 DEF adminVars, AdminInv, AnotherAdminRemains
<1>2. ASSUME NEW e \in Edits, NEW target \in Admins,
             NEW does \in {"promote", "demote"}, EditCheck(e, target, does)
      PROVE  AdminInv' /\ enabled' = enabled
  BY <1>2, EditCheckStep DEF EditCheck
<1>3. ASSUME NEW e \in Edits, EditAbort(e) PROVE AdminInv' /\ enabled' = enabled
  BY <1>3, EditAbortStep DEF EditAbort
<1>4. CASE AdminNext
  <2>1. PICK e \in Edits :
          \/ \E target \in Admins, does \in {"promote", "demote"} :
               EditCheck(e, target, does)
          \/ EditCommit(e) \/ EditAbort(e)
    BY <1>4, Zenon DEF AdminNext
  <2> QED BY <1>2, <1>3, <2>1, EditCommitStep
<1>5. AdminNext \/ UNCHANGED adminVars
  BY Zenon DEF BackOfficeNext, OrderingStep, SettlementStep, ReviewsStep, TicketsStep,
               AccountsStep, PlatformStep, accountVars, backOfficeVars
<1> QED BY <1>1, <1>4, <1>5

(* For any accounts and any number of edits at a time: the last active     *)
(* administrator is lost only by a demotion that another edit overtook     *)
(* between its count and its commit.                                       *)
THEOREM AnAdminRemains == BackOfficeSpec => LastAdminLostOnlyByOverlap
<1>1. BackOfficeInit => AdminInv BY InitAdmins, Zenon DEF BackOfficeInit
<1>2. AdminInv /\ [BackOfficeNext]_backOfficeVars =>
        [enabled # {} /\ enabled' = {} =>
           \E e \in Edits : editing[e].overtaken /\ editing'[e] = NotEditing]_accountVars
  BY NextAdmins
<1> QED BY <1>1, <1>2, NextAdmins, PTL DEF BackOfficeSpec, LastAdminLostOnlyByOverlap

=============================================================================
