-------------------------------- MODULE Images --------------------------------
(***************************************************************************)
(* Media uploads (modules/media): one file of a shop, uploaded, uploaded   *)
(* again and removed.  The row of `image_assets' is unique per shop and    *)
(* checksum; the bytes are objects in storage, which knows no transaction. *)
(*                                                                         *)
(* The original gets a random name per attempt, the derivatives a name     *)
(* that follows from the checksum.                                         *)
(***************************************************************************)
CONSTANTS
  Uploads,   \* attempts to upload the file, each with a name for the original
  Removals   \* requests that remove the image

ASSUME NamesAssumption == "none" \notin Uploads

VARIABLES
  image,     \* the row, or NoImage
  objects,   \* names of the objects in storage
  uploading, \* each attempt
  removing   \* each removal: the row and the names it has left to delete

imageVars == <<image, objects, uploading, removing>>

-----------------------------------------------------------------------------
(* The three derivatives are stored together.                              *)
DERIVATIVES == "derivatives"

(* `retried' and `removed' are history: an attempt came upon the row, a    *)
(* removal overlapped it.                                                  *)
NoImage ==
  [id |-> "none", status |-> "NONE", original |-> "none", variants |-> {},
   retried |-> FALSE, removed |-> FALSE]

NotUploading == [stage |-> "none", id |-> "none"]

UploadEnded == [NotUploading EXCEPT !.stage = "done"]

NotRemoving == [id |-> "none", keys |-> {}]

ImagesInit ==
  /\ image = NoImage
  /\ objects = {}
  /\ uploading = [u \in Uploads |-> NotUploading]
  /\ removing = [r \in Removals |-> NotRemoving]

Stage(u, stage) == uploading' = [uploading EXCEPT ![u].stage = stage]

-----------------------------------------------------------------------------
(* ingest.  A READY image is returned as it is.                            *)
UploadCheck(u) ==
  /\ uploading[u] = NotUploading
  /\ image.status # "READY"
  /\ Stage(u, "checked")
  /\ UNCHANGED <<image, objects, removing>>

(* The row, before the bytes: an upsert whose update leaves the name of    *)
(* the original, and the variants, as they are.                            *)
UploadRecord(u) ==
  LET recorded ==
        IF image = NoImage
        THEN [NoImage EXCEPT !.id = u, !.status = "PENDING", !.original = u,
                !.removed = \E r \in Removals : removing[r] # NotRemoving]
        ELSE [image EXCEPT !.status = "PENDING", !.retried = TRUE]
  IN /\ uploading[u].stage = "checked"
     /\ image' = recorded
     /\ uploading' = [uploading EXCEPT ![u] = [stage |-> "recorded", id |-> recorded.id]]
     /\ UNCHANGED <<objects, removing>>

StoreOriginal(u) ==
  /\ uploading[u].stage = "recorded"
  /\ objects' = objects \cup {u}
  /\ Stage(u, "original stored")
  /\ UNCHANGED <<image, removing>>

StoreDerivatives(u) ==
  /\ uploading[u].stage = "original stored"
  /\ objects' = objects \cup {DERIVATIVES}
  /\ Stage(u, "stored")
  /\ UNCHANGED <<image, removing>>

(* Mutation of MayFinish: the row is READY while the bytes are under way.  *)
MayFinishEarly(u) == uploading[u].stage = "original stored"

MayFinish(u) == uploading[u].stage = "stored"

(* The update names the id; without the row it throws.                     *)
UploadReady(u) ==
  /\ MayFinish(u)
  /\ image' = IF image.id = uploading[u].id
              THEN [image EXCEPT !.status = "READY", !.variants = {DERIVATIVES}]
              ELSE image
  /\ uploading' = [uploading EXCEPT ![u] = UploadEnded]
  /\ UNCHANGED <<objects, removing>>

(* Decoding or storage fails, perhaps after the bytes went in: markFailed. *)
UploadFails(u) ==
  /\ uploading[u].stage \in {"recorded", "original stored", "stored"}
  /\ image' = IF image.id = uploading[u].id
              THEN [image EXCEPT !.status = "FAILED"] ELSE image
  /\ uploading' = [uploading EXCEPT ![u] = UploadEnded]
  /\ UNCHANGED <<objects, removing>>

UploadDies(u) ==
  /\ uploading[u].stage \notin {"none", "done"}
  /\ uploading' = [uploading EXCEPT ![u] = UploadEnded]
  /\ UNCHANGED <<image, objects, removing>>

-----------------------------------------------------------------------------
(* remove: read the row, delete its objects, then the row.                 *)
RemoveRead(r) ==
  /\ removing[r] = NotRemoving
  /\ image # NoImage
  /\ removing' = [removing EXCEPT ![r] =
       [id |-> image.id, keys |-> {image.original} \cup image.variants]]
  /\ image' = [image EXCEPT !.removed = TRUE]
  /\ UNCHANGED <<objects, uploading>>

(* A driver error is logged, and the object stays.                         *)
RemoveObject(r, key) ==
  /\ key \in removing[r].keys
  /\ removing' = [removing EXCEPT ![r].keys = @ \ {key}]
  /\ objects' \in {objects, objects \ {key}}
  /\ UNCHANGED <<image, uploading>>

RemoveRow(r) ==
  /\ removing[r] # NotRemoving /\ removing[r].keys = {}
  /\ image' = IF image.id = removing[r].id THEN NoImage ELSE image
  /\ removing' = [removing EXCEPT ![r] = NotRemoving]
  /\ UNCHANGED <<objects, uploading>>

RemoveDies(r) ==
  /\ removing[r] # NotRemoving
  /\ removing' = [removing EXCEPT ![r] = NotRemoving]
  /\ UNCHANGED <<image, objects, uploading>>

ImagesNext ==
  \/ \E u \in Uploads :
       \/ UploadCheck(u) \/ UploadRecord(u) \/ StoreOriginal(u)
       \/ StoreDerivatives(u) \/ UploadReady(u) \/ UploadFails(u) \/ UploadDies(u)
  \/ \E r \in Removals :
       \/ RemoveRead(r) \/ RemoveRow(r) \/ RemoveDies(r)
       \/ \E key \in Uploads \cup {DERIVATIVES} : RemoveObject(r, key)

-----------------------------------------------------------------------------
(* Properties.                                                             *)

(* The comment in ingest, a derivative that never reached the bucket is    *)
(* not a READY asset: whatever fails, dies or overlaps, unless a removal   *)
(* does, a READY image has its derivatives; it has its original too unless *)
(* it took a second attempt.                                               *)
ReadyImageIsStored ==
  image.status = "READY" /\ ~image.removed =>
    /\ image.variants # {} /\ image.variants \subseteq objects
    /\ image.retried \/ image.original \in objects

=============================================================================
