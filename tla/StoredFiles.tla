------------------------------ MODULE StoredFiles ------------------------------
(***************************************************************************)
(* Stored files (apps/tedrisat/src/storage): an upload reserves its key in *)
(* storage_deletions, puts the object in the store and has a transaction   *)
(* record it; whatever drops the last reference queues the key; a pass of  *)
(* StorageDeletionService removes the objects whose rows are due.          *)
(*                                                                         *)
(* Keys are random: an upload is known by its key, a key is put once. A    *)
(* step is one transaction or one call of the store. A place is what files *)
(* hang off and a purge deletes whole: the lists of a session.             *)
(***************************************************************************)
EXTENDS Naturals

CONSTANTS
    Uploads,
    Places,
    PlaceOf,        \* where each upload's file goes
    Cleaners,       \* instances of tedrisat
    StorageHazards  \* subset of {"crash", "slow", "lostCommit"}

ASSUME StorageAssumption == PlaceOf \in [Uploads -> Places]

VARIABLES
    upload,    \* where the request of each upload has got to
    object,    \* the store: "none", "stored", "late", a put still to land, or
               \* "landed", put after its request had given it up
    file,      \* the row that points at the object: "none", "row", "dropped",
               \* or "slipped": deleted by a purge that had not seen it
    deletion,  \* storage_deletions, by what due_at was set to last
    place,     \* "live", "hidden" or "purged"
    purge,     \* the keys a purge has selected, while it runs
    cleaner    \* the pass of each instance

storageVars == <<upload, object, file, deletion, place, purge, cleaner>>

UploadStates == {"new", "put", "check", "record", "failed", "done"}

(* An hour ahead, now, 15 minutes ahead, or after backoffMs.               *)
DeletionStates == {"none", "reserved", "due", "taken", "retry"}

NoPass == [todo |-> {}, removed |-> {}]

StorageTypeOK ==
    /\ upload \in [Uploads -> UploadStates]
    /\ object \in [Uploads -> {"none", "stored", "late", "landed"}]
    /\ file \in [Uploads -> {"none", "row", "dropped", "slipped"}]
    /\ deletion \in [Uploads -> DeletionStates]
    /\ place \in [Places -> {"live", "hidden", "purged"}]
    /\ purge \in [Places -> [on : BOOLEAN, selected : SUBSET Uploads]]
    /\ cleaner \in [Cleaners -> [todo : SUBSET Uploads, removed : SUBSET Uploads]]

NoPurge == [on |-> FALSE, selected |-> {}]

StorageInit ==
    /\ upload = [k \in Uploads |-> "new"]
    /\ object = [k \in Uploads |-> "none"]
    /\ file = [k \in Uploads |-> "none"]
    /\ deletion = [k \in Uploads |-> "none"]
    /\ place = [p \in Places |-> "live"]
    /\ purge = [p \in Places |-> NoPurge]
    /\ cleaner = [c \in Cleaners |-> NoPass]

InProgress(k) == upload[k] \notin {"new", "done"}
Row(k) == file[k] = "row"

(* Fault for TLC: the reservation left out.                                *)
NotEnqueued(keys, state) == IF keys = {} THEN deletion ELSE deletion

(* enqueueStorageDeletions, reserveUpload: what the rows of keys become.   *)
Enqueued(keys, state) ==
    [k \in Uploads |-> IF k \in keys THEN state ELSE deletion[k]]

-----------------------------------------------------------------------------
(* UploadStore.store. *)

Advance(k, from, to) ==
    /\ upload[k] = from
    /\ upload' = [upload EXCEPT ![k] = to]
    /\ UNCHANGED <<place, purge, cleaner>>

Reserve(k) ==
    /\ Advance(k, "new", "put")
    /\ place[PlaceOf[k]] = "live"
    /\ deletion' = Enqueued({k}, "reserved")
    /\ UNCHANGED <<object, file>>

PutObject(k) ==
    /\ Advance(k, "put", "check")
    /\ object' = [object EXCEPT ![k] = "stored"]
    /\ UNCHANGED <<file, deletion>>

(* The put is refused, or its answer is lost: the object is there or not,  *)
(* or comes after the request was given up.                                *)
PutFails(k) ==
    /\ Advance(k, "put", "failed")
    /\ \E o \in {"none", "stored", "late"} : object' = [object EXCEPT ![k] = o]
    /\ UNCHANGED <<file, deletion>>

LatePutLands(k) ==
    /\ object[k] = "late"
    /\ object' = [object EXCEPT ![k] = "landed"]
    /\ UNCHANGED <<upload, file, deletion, place, purge, cleaner>>

(* The transaction of record reads that the session is not hidden ...      *)
CheckLive(k) ==
    /\ Advance(k, "check", IF place[PlaceOf[k]] = "live" THEN "record" ELSE "failed")
    /\ UNCHANGED <<object, file, deletion>>

(* Fault for TLC: a record that does not claim its upload.                 *)
Unclaimed(k) == IF k \in Uploads THEN deletion ELSE deletion

(* claimUpload.                                                            *)
ClaimUpload(k) == Enqueued({k}, "none")

(* ... and writes the row and claims the upload.                           *)
Record(k) ==
    /\ Advance(k, "record", "done")
    /\ place[PlaceOf[k]] # "purged"
    /\ file' = [file EXCEPT ![k] = "row"]
    /\ deletion' = ClaimUpload(k)
    /\ UNCHANGED object

(* The transaction is refused (the session gone: its foreign key), or with *)
(* "lostCommit" is committed and its answer lost.                          *)
RecordFails(k) ==
    /\ \/ Advance(k, "check", "failed") /\ UNCHANGED <<file, deletion>>
       \/ Advance(k, "record", "failed") /\ UNCHANGED <<file, deletion>>
       \/ /\ "lostCommit" \in StorageHazards
          /\ Advance(k, "record", "failed")
          /\ place[PlaceOf[k]] # "purged"
          /\ file' = [file EXCEPT ![k] = "row"]
          /\ deletion' = ClaimUpload(k)
    /\ UNCHANGED object

(* The catch: due at once, unless the database refuses that too.           *)
GiveUp(k) ==
    /\ Advance(k, "failed", "done")
    /\ deletion' \in {Enqueued({k}, "due"), deletion}
    /\ UNCHANGED <<object, file>>

(* The instance dies; a put may have gone through, or still do.            *)
UploadDies(k) ==
    /\ "crash" \in StorageHazards
    /\ InProgress(k)
    /\ Advance(k, upload[k], "done")
    /\ \/ UNCHANGED object
       \/ /\ upload[k] = "put"
          /\ \E o \in {"stored", "late"} : object' = [object EXCEPT ![k] = o]
    /\ UNCHANGED <<file, deletion>>

-----------------------------------------------------------------------------
(* What lets files go. *)

(* letFilesGo, removeOwnFile, removeReviewFile, an assignment's removeFile.*)
DropFile(k) ==
    /\ Row(k)
    /\ file' = [file EXCEPT ![k] = "dropped"]
    /\ deletion' = Enqueued({k}, "due")
    /\ UNCHANGED <<upload, object, place, purge, cleaner>>

(* archiveLesson, archiveWeek, and their restores.                         *)
HideOrRestore(p) ==
    /\ place[p] # "purged"
    /\ place' = [place EXCEPT ![p] = IF @ = "live" THEN "hidden" ELSE "live"]
    /\ UNCHANGED <<upload, object, file, deletion, purge, cleaner>>

RowsOf(p) == {k \in Uploads : PlaceOf[k] = p /\ Row(k)}

(* The rows there are go, the keys selected are queued.                    *)
Purged(p, selected) ==
    /\ place' = [place EXCEPT ![p] = "purged"]
    /\ file' = [k \in Uploads |->
                   IF k \notin RowsOf(p) THEN file[k]
                   ELSE IF k \in selected THEN "dropped" ELSE "slipped"]
    /\ deletion' = Enqueued(selected, "due")

(* The purge of a session or a course holds the lock that every record     *)
(* needs, and homework files are deleted RETURNING their keys: one step.   *)
(* A course, hidden, has sessions that are not.                            *)
PurgeLocked(p) ==
    /\ place[p] # "purged"
    /\ Purged(p, RowsOf(p))
    /\ UNCHANGED <<upload, object, purge, cleaner>>

(* The purge of a week or a köşk holds neither: deleteLessonResources      *)
(* selects the keys, queues them, and deletes what rows are there by then. *)
PurgeSelects(p) ==
    /\ place[p] # "purged" /\ ~purge[p].on
    /\ purge' = [purge EXCEPT ![p] = [on |-> TRUE, selected |-> RowsOf(p)]]
    /\ UNCHANGED <<upload, object, file, deletion, place, cleaner>>

PurgeDeletes(p) ==
    /\ purge[p].on
    /\ Purged(p, purge[p].selected)
    /\ purge' = [purge EXCEPT ![p] = NoPurge]
    /\ UNCHANGED <<upload, object, cleaner>>

PurgeFails(p) ==
    /\ purge[p].on
    /\ purge' = [purge EXCEPT ![p] = NoPurge]
    /\ UNCHANGED <<upload, object, file, deletion, place, cleaner>>

-----------------------------------------------------------------------------
(* StorageDeletionService.pass. *)

HeldBy(c) == cleaner[c].todo \cup cleaner[c].removed

(* Fault for TLC: a row taken is never due again.                          *)
TakenForGood(k) ==
    deletion[k] = "retry" \/ (deletion[k] = "reserved" /\ ~InProgress(k))

(* An hour is longer than an upload (PUT_TIMEOUT_MS is 2 minutes), unless  *)
(* "slow". A row taken falls due while its pass is at work, or later:      *)
(* fifty deletions of 30 s may take 25 minutes, and 15 is its lease.       *)
InTime(k) ==
    \/ deletion[k] \in {"retry", "taken"}
    \/ deletion[k] = "reserved" /\ (~InProgress(k) \/ "slow" \in StorageHazards)

FallsDue(k) ==
    /\ deletion[k] \in {"reserved", "taken", "retry"} /\ InTime(k)
    /\ deletion' = Enqueued({k}, "due")
    /\ UNCHANGED <<upload, object, file, place, purge, cleaner>>

DueRows == {k \in Uploads : deletion[k] = "due"}

(* One statement claims the rows that are due and moves them ahead.        *)
ClaimRows(c) ==
    /\ HeldBy(c) = {} /\ DueRows # {}
    /\ deletion' = Enqueued(DueRows, "taken")
    /\ cleaner' = [cleaner EXCEPT ![c].todo = DueRows]
    /\ UNCHANGED <<upload, object, file, place, purge>>

(* DeleteObject; a key that is not there is removed too.                   *)
DeleteObject(c, k) ==
    /\ k \in cleaner[c].todo
    /\ object' = [object EXCEPT ![k] = IF @ = "late" THEN @ ELSE "none"]
    /\ cleaner' = [cleaner EXCEPT ![c].todo = @ \ {k}, ![c].removed = @ \cup {k}]
    /\ UNCHANGED <<upload, file, deletion, place, purge>>

(* No answer, or a refusal: the row is tried again later.                  *)
DeleteFails(c, k) ==
    /\ k \in cleaner[c].todo
    /\ \/ UNCHANGED object
       \/ object[k] \in {"stored", "landed"} /\ object' = [object EXCEPT ![k] = "none"]
    /\ cleaner' = [cleaner EXCEPT ![c].todo = @ \ {k}]
    /\ deletion' = IF deletion[k] = "none" THEN deletion ELSE Enqueued({k}, "retry")
    /\ UNCHANGED <<upload, file, place, purge>>

(* The rows of the removed objects go, whatever they say by now.           *)
FinishPass(c) ==
    /\ cleaner[c].todo = {} /\ cleaner[c].removed # {}
    /\ deletion' = Enqueued(cleaner[c].removed, "none")
    /\ cleaner' = [cleaner EXCEPT ![c] = NoPass]
    /\ UNCHANGED <<upload, object, file, place, purge>>

(* The instance dies, or a statement of the pass throws.                   *)
PassDies(c) ==
    /\ "crash" \in StorageHazards
    /\ HeldBy(c) # {}
    /\ cleaner' = [cleaner EXCEPT ![c] = NoPass]
    /\ UNCHANGED <<upload, object, file, deletion, place, purge>>

UploadStep(k) ==
    \/ Reserve(k) \/ PutObject(k) \/ PutFails(k) \/ LatePutLands(k) \/ CheckLive(k)
    \/ Record(k) \/ RecordFails(k) \/ GiveUp(k) \/ UploadDies(k)

Pass(c) ==
    \/ ClaimRows(c) \/ FinishPass(c) \/ PassDies(c)
    \/ \E k \in Uploads : DeleteObject(c, k) \/ DeleteFails(c, k)

StorageNext ==
    \/ \E k \in Uploads : UploadStep(k) \/ DropFile(k) \/ FallsDue(k)
    \/ \E p \in Places :
           HideOrRestore(p) \/ PurgeLocked(p) \/ PurgeSelects(p)
           \/ PurgeDeletes(p) \/ PurgeFails(p)
    \/ \E c \in Cleaners : Pass(c)

UploadGoesOn(k) == (InProgress(k) /\ UploadStep(k)) \/ FallsDue(k)
PassGoesOn(c) == ClaimRows(c) \/ FinishPass(c)
Deletes(k) == \E c \in Cleaners : DeleteObject(c, k)
SomePassDies == \E c \in Cleaners : PassDies(c)

(* A request that has begun ends: every call it makes has a timeout. Time  *)
(* passes, the timer starts passes for ever, the store does not refuse one *)
(* deletion for ever, and instances do not die for ever.                   *)
StorageFairness ==
    /\ \A k \in Uploads :
           WF_storageVars(UploadGoesOn(k)) /\ SF_storageVars(Deletes(k))
    /\ \A c \in Cleaners : WF_storageVars(PassGoesOn(c))
    /\ <>[][~SomePassDies]_storageVars

StorageSpec == StorageInit /\ [][StorageNext]_storageVars

-----------------------------------------------------------------------------
(* The object of a recorded file is in the store: no pass removes a file   *)
(* that a row points at (upload-store.ts, claimUpload).                    *)
RecordedIsStored == \A k \in Uploads : Row(k) => object[k] = "stored"

(* What the queue cannot know of: an object that landed after its request  *)
(* gave it up, and one whose row a purge without the lock deletes unseen.  *)
Unseen(k) == object[k] \in {"late", "landed"} \/ file[k] = "slipped"

(* Every other object that no row points at is in the queue, whatever      *)
(* crashes, fails or runs twice (storage.schema.ts: a delete "that commits *)
(* is never forgotten").                                                   *)
OthersAreQueued ==
    \A k \in Uploads :
        object[k] = "stored" /\ ~Row(k) /\ ~Unseen(k) => deletion[k] # "none"

Settled(k) ==
    /\ deletion[k] = "none"
    /\ Row(k) => object[k] = "stored"
    /\ ~Row(k) /\ ~Unseen(k) => object[k] = "none"

(* In the end the queue is empty, every file that a row points at is in    *)
(* the store, and so is no other one the queue could know of.              *)
StoreCatchesUp == \A k \in Uploads : <>[]Settled(k)
=============================================================================
