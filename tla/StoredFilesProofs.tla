--------------------------- MODULE StoredFilesProofs ---------------------------
(***************************************************************************)
(* Proofs about StoredFiles, for any uploads, places and instances.        *)
(***************************************************************************)
EXTENDS StoredFiles, TLAPS

-----------------------------------------------------------------------------
(* Type correctness. *)

LEMMA EnqueuedType ==
    ASSUME NEW keys, NEW state \in DeletionStates,
           deletion \in [Uploads -> DeletionStates]
    PROVE  Enqueued(keys, state) \in [Uploads -> DeletionStates]
BY DEF Enqueued

LEMMA DeletionStatesAre == {"none", "reserved", "due", "taken", "retry"} = DeletionStates
BY DEF DeletionStates

LEMMA InitStorageType == StorageInit => StorageTypeOK
BY DEF StorageInit, StorageTypeOK, UploadStates, DeletionStates, NoPurge, NoPass

LEMMA UploadType ==
    ASSUME StorageTypeOK, NEW k \in Uploads,
           UploadStep(k) \/ DropFile(k) \/ FallsDue(k)
    PROVE  StorageTypeOK'
<1>1. \A from, to : to \in UploadStates /\ Advance(k, from, to) =>
          /\ upload' \in [Uploads -> UploadStates]
          /\ UNCHANGED <<place, purge, cleaner>>
  BY DEF Advance, StorageTypeOK
<1>2. \A state \in DeletionStates : Enqueued({k}, state) \in [Uploads -> DeletionStates]
  BY EnqueuedType DEF StorageTypeOK
<1>3. ClaimUpload(k) \in [Uploads -> DeletionStates]
  BY <1>2, DeletionStatesAre DEF ClaimUpload
<1>. USE DEF StorageTypeOK
<1>4. CASE Reserve(k)
  <2>1. /\ Advance(k, "new", "put") /\ deletion' = Enqueued({k}, "reserved")
        /\ UNCHANGED <<object, file>>
    BY <1>4 DEF Reserve
  <2>2. upload' \in [Uploads -> UploadStates] /\ UNCHANGED <<place, purge, cleaner>>
    BY <1>1, <2>1 DEF UploadStates
  <2>3. deletion' \in [Uploads -> DeletionStates]
    BY <1>2, <2>1, DeletionStatesAre
  <2>. QED  BY <2>1, <2>2, <2>3
<1>9. CASE PutObject(k)
  BY <1>1, <1>9 DEF PutObject, UploadStates
<1>10. CASE PutFails(k)
  BY <1>1, <1>10 DEF PutFails, UploadStates
<1>11. CASE LatePutLands(k)
  BY <1>11 DEF LatePutLands
<1>5. CASE CheckLive(k)
  BY <1>1, <1>5 DEF CheckLive, UploadStates
<1>6. CASE Record(k)
  BY <1>1, <1>3, <1>6 DEF Record, UploadStates
<1>13. CASE RecordFails(k)
  <2>1. /\ upload' \in [Uploads -> UploadStates]
        /\ UNCHANGED <<object, place, purge, cleaner>>
    BY <1>1, <1>13 DEF RecordFails, UploadStates
  <2>2. /\ file' \in [Uploads -> {"none", "row", "dropped", "slipped"}]
        /\ deletion' \in [Uploads -> DeletionStates]
    BY <1>3, <1>13 DEF RecordFails
  <2>. QED  BY <2>1, <2>2
<1>7. CASE GiveUp(k)
  <2>1. upload' \in [Uploads -> UploadStates] /\ UNCHANGED <<place, purge, cleaner>>
    BY <1>1, <1>7 DEF GiveUp, UploadStates
  <2>2. deletion' \in [Uploads -> DeletionStates] /\ UNCHANGED <<object, file>>
    BY <1>2, <1>7, DeletionStatesAre DEF GiveUp
  <2>. QED  BY <2>1, <2>2
<1>12. CASE UploadDies(k)
  BY <1>1, <1>12 DEF UploadDies, UploadStates
<1>8. CASE DropFile(k)
  <2>1. file' \in [Uploads -> {"none", "row", "dropped", "slipped"}]
    BY <1>8 DEF DropFile
  <2>2. deletion' \in [Uploads -> DeletionStates]
    BY <1>2, <1>8, DeletionStatesAre DEF DropFile
  <2>. QED  BY <1>8, <2>1, <2>2 DEF DropFile
<1>14. CASE FallsDue(k)
  <2>1. deletion' \in [Uploads -> DeletionStates]
    BY <1>2, <1>14, DeletionStatesAre DEF FallsDue
  <2>. QED  BY <1>14, <2>1 DEF FallsDue
<1>. QED
  BY <1>4, <1>5, <1>6, <1>7, <1>8, <1>9, <1>10, <1>11, <1>12, <1>13, <1>14 DEF UploadStep

LEMMA PlaceType ==
    ASSUME StorageTypeOK, NEW p \in Places,
           \/ HideOrRestore(p) \/ PurgeLocked(p) \/ PurgeSelects(p)
           \/ PurgeDeletes(p) \/ PurgeFails(p)
    PROVE  StorageTypeOK'
<1>1. \A selected : Purged(p, selected) =>
          /\ place' \in [Places -> {"live", "hidden", "purged"}]
          /\ file' \in [Uploads -> {"none", "row", "dropped", "slipped"}]
          /\ deletion' \in [Uploads -> DeletionStates]
  BY EnqueuedType, DeletionStatesAre DEF Purged, StorageTypeOK
<1>2. RowsOf(p) \in SUBSET Uploads
  BY DEF RowsOf
<1>. USE DEF StorageTypeOK
<1>3. CASE HideOrRestore(p)
  BY <1>3 DEF HideOrRestore
<1>4. CASE PurgeLocked(p)
  BY <1>1, <1>4 DEF PurgeLocked
<1>5. CASE PurgeSelects(p)
  BY <1>2, <1>5 DEF PurgeSelects
<1>6. CASE PurgeDeletes(p)
  BY <1>1, <1>6 DEF PurgeDeletes, NoPurge
<1>7. CASE PurgeFails(p)
  BY <1>7 DEF PurgeFails, NoPurge
<1>. QED  BY <1>3, <1>4, <1>5, <1>6, <1>7

LEMMA PassType ==
    ASSUME StorageTypeOK, NEW c \in Cleaners, Pass(c)
    PROVE  StorageTypeOK'
<1>1. \A keys, state : state \in DeletionStates =>
          Enqueued(keys, state) \in [Uploads -> DeletionStates]
  BY EnqueuedType DEF StorageTypeOK
<1>2. DueRows \in SUBSET Uploads /\ HeldBy(c) \in SUBSET Uploads
  BY DEF DueRows, HeldBy, StorageTypeOK
<1>. USE DEF StorageTypeOK
<1>3. CASE ClaimRows(c)
  <2>1. cleaner' \in [Cleaners -> [todo : SUBSET Uploads, removed : SUBSET Uploads]]
    BY <1>2, <1>3 DEF ClaimRows
  <2>2. deletion' \in [Uploads -> DeletionStates]
    BY <1>1, <1>3, DeletionStatesAre DEF ClaimRows
  <2>3. UNCHANGED <<upload, object, file, place, purge>>
    BY <1>3 DEF ClaimRows
  <2>. QED  BY <2>1, <2>2, <2>3
<1>4. CASE FinishPass(c) \/ PassDies(c)
  <2>1. cleaner' \in [Cleaners -> [todo : SUBSET Uploads, removed : SUBSET Uploads]]
    BY <1>4 DEF FinishPass, PassDies, NoPass
  <2>2. deletion' \in [Uploads -> DeletionStates]
    BY <1>1, <1>4, DeletionStatesAre DEF FinishPass, PassDies
  <2>3. UNCHANGED <<upload, object, file, place, purge>>
    BY <1>4 DEF FinishPass, PassDies
  <2>. QED  BY <2>1, <2>2, <2>3
<1>5. ASSUME NEW k \in Uploads, DeleteObject(c, k)
      PROVE  StorageTypeOK'
  <2>1. object' \in [Uploads -> {"none", "stored", "late", "landed"}]
    BY <1>5 DEF DeleteObject
  <2>2. cleaner' \in [Cleaners -> [todo : SUBSET Uploads, removed : SUBSET Uploads]]
    <3>. DEFINE pass == [cleaner[c] EXCEPT !.todo = @ \ {k}, !.removed = @ \cup {k}]
    <3>1. cleaner' = [cleaner EXCEPT ![c] = pass]
      BY <1>5 DEF DeleteObject
    <3>2. pass \in [todo : SUBSET Uploads, removed : SUBSET Uploads]
      OBVIOUS
    <3>. HIDE DEF pass
    <3>. QED  BY <3>1, <3>2
  <2>3. UNCHANGED <<upload, file, deletion, place, purge>>
    BY <1>5 DEF DeleteObject
  <2>. QED  BY <2>1, <2>2, <2>3
<1>6. ASSUME NEW k \in Uploads, DeleteFails(c, k)
      PROVE  StorageTypeOK'
  <2>1. object' \in [Uploads -> {"none", "stored", "late", "landed"}]
    BY <1>6 DEF DeleteFails
  <2>2. cleaner' \in [Cleaners -> [todo : SUBSET Uploads, removed : SUBSET Uploads]]
    <3>. DEFINE pass == [cleaner[c] EXCEPT !.todo = @ \ {k}]
    <3>1. cleaner' = [cleaner EXCEPT ![c] = pass]
      BY <1>6 DEF DeleteFails
    <3>2. pass \in [todo : SUBSET Uploads, removed : SUBSET Uploads]
      OBVIOUS
    <3>. HIDE DEF pass
    <3>. QED  BY <3>1, <3>2
  <2>3. deletion' \in [Uploads -> DeletionStates]
    BY <1>1, <1>6, DeletionStatesAre DEF DeleteFails
  <2>4. UNCHANGED <<upload, file, place, purge>>
    BY <1>6 DEF DeleteFails
  <2>. QED  BY <2>1, <2>2, <2>3, <2>4
<1>. QED  BY <1>3, <1>4, <1>5, <1>6 DEF Pass

LEMMA NextStorageType == StorageTypeOK /\ [StorageNext]_storageVars => StorageTypeOK'
<1>1. StorageTypeOK /\ UNCHANGED storageVars => StorageTypeOK'
  BY DEF StorageTypeOK, storageVars
<1>. QED  BY <1>1, UploadType, PlaceType, PassType DEF StorageNext

(* Uploads, objects, rows, queue, purges and passes keep their shape.      *)
THEOREM StorageTypeCorrect == StorageSpec => []StorageTypeOK
BY InitStorageType, NextStorageType, PTL DEF StorageSpec

-----------------------------------------------------------------------------
(* A recorded file is stored. *)

Held(k) == \E c \in Cleaners : k \in HeldBy(c)

(* What is being removed, or soon will be, is of an upload that has ended  *)
(* and that no row points at.                                              *)
KeyInv(k) ==
    /\ Row(k) => upload[k] = "done" /\ object[k] = "stored" /\ deletion[k] = "none"
    /\ upload[k] \in {"check", "record"} => object[k] = "stored"
    /\ upload[k] = "new" => deletion[k] = "none"
    /\ deletion[k] \in {"due", "taken", "retry"} \/ Held(k) =>
          upload[k] = "done" /\ ~Row(k)

RecordInv ==
    /\ StorageTypeOK
    /\ \A k \in Uploads : KeyInv(k)
    /\ \A p \in Places : \A k \in purge[p].selected : PlaceOf[k] = p /\ upload[k] = "done"

Punctual == "slow" \notin StorageHazards /\ "lostCommit" \notin StorageHazards

UploadOrRow(k) == UploadStep(k) \/ DropFile(k) \/ FallsDue(k)

(* A step of an upload or of its row leaves the other keys as they are.    *)
LEMMA OtherKeys ==
    ASSUME StorageTypeOK, NEW k \in Uploads, UploadOrRow(k)
    PROVE  /\ UNCHANGED <<place, purge, cleaner>>
           /\ \A j \in Uploads \ {k} :
                  /\ upload'[j] = upload[j] /\ object'[j] = object[j]
                  /\ file'[j] = file[j] /\ deletion'[j] = deletion[j]
<1>1. \A from, to : Advance(k, from, to) =>
          /\ UNCHANGED <<place, purge, cleaner>>
          /\ \A j \in Uploads \ {k} : upload'[j] = upload[j]
  BY DEF Advance, StorageTypeOK
<1>2. \A state : \A j \in Uploads \ {k} : Enqueued({k}, state)[j] = deletion[j]
  BY DEF Enqueued
<1>. USE DEF StorageTypeOK
<1>3. CASE Reserve(k)
  <2>1. /\ Advance(k, "new", "put") /\ deletion' = Enqueued({k}, "reserved")
        /\ UNCHANGED <<object, file>>
    BY <1>3 DEF Reserve
  <2>. QED  BY <1>1, <1>2, <2>1
<1>4. CASE PutObject(k) \/ PutFails(k)
  BY <1>1, <1>4 DEF PutObject, PutFails
<1>5. CASE LatePutLands(k)
  BY <1>5 DEF LatePutLands
<1>6. CASE CheckLive(k)
  BY <1>1, <1>6 DEF CheckLive
<1>7. CASE Record(k)
  BY <1>1, <1>2, <1>7 DEF Record, ClaimUpload
<1>8. CASE RecordFails(k)
  BY <1>1, <1>2, <1>8 DEF RecordFails, ClaimUpload
<1>9. CASE GiveUp(k)
  BY <1>1, <1>2, <1>9 DEF GiveUp
<1>10. CASE UploadDies(k)
  BY <1>1, <1>10 DEF UploadDies
<1>11. CASE DropFile(k)
  BY <1>2, <1>11 DEF DropFile
<1>12. CASE FallsDue(k)
  BY <1>2, <1>12 DEF FallsDue
<1>. QED
  BY <1>3, <1>4, <1>5, <1>6, <1>7, <1>8, <1>9, <1>10, <1>11, <1>12
     DEF UploadOrRow, UploadStep

LEMMA UploadKeeps ==
    ASSUME RecordInv, Punctual, NEW k \in Uploads, UploadOrRow(k)
    PROVE  RecordInv'
<1>. StorageTypeOK
  BY DEF RecordInv
<1>1. StorageTypeOK'
  BY UploadType DEF UploadOrRow
<1>2. /\ UNCHANGED <<place, purge, cleaner>>
      /\ \A j \in Uploads \ {k} :
             /\ upload'[j] = upload[j] /\ object'[j] = object[j]
             /\ file'[j] = file[j] /\ deletion'[j] = deletion[j]
  BY OtherKeys
<1>3. \A j \in Uploads : Held(j)' <=> Held(j)
  BY <1>2 DEF Held, HeldBy
<1>4. \A j \in Uploads \ {k} : KeyInv(j)'
  BY <1>2, <1>3 DEF RecordInv, KeyInv, Row
<1>5. KeyInv(k)
  BY DEF RecordInv
<1>6. \A from, to : Advance(k, from, to) => upload[k] = from /\ upload'[k] = to
  BY DEF Advance, StorageTypeOK
<1>7. \A state : Enqueued({k}, state)[k] = state
  BY DEF Enqueued
<1>8. KeyInv(k)' /\ (upload[k] = "done" => upload'[k] = "done")
  <2>. USE <1>3, <1>5 DEF KeyInv, Row, StorageTypeOK
  <2>1. CASE Reserve(k)
    <3>1. /\ upload[k] = "new" /\ upload'[k] = "put" /\ deletion'[k] = "reserved"
          /\ UNCHANGED <<object, file>>
      BY <1>6, <1>7, <2>1 DEF Reserve
    <3>. QED  BY <3>1
  <2>2. CASE PutObject(k)
    BY <1>6, <2>2 DEF PutObject
  <2>3. CASE PutFails(k)
    BY <1>6, <2>3 DEF PutFails
  <2>4. CASE LatePutLands(k)
    BY <2>4 DEF LatePutLands
  <2>5. CASE CheckLive(k)
    BY <1>6, <2>5 DEF CheckLive
  <2>6. CASE Record(k)
    BY <1>6, <1>7, <2>6 DEF Record, ClaimUpload
  <2>7. CASE RecordFails(k)
    BY <1>6, <2>7 DEF RecordFails, Punctual
  <2>8. CASE GiveUp(k)
    BY <1>6, <1>7, <2>8 DEF GiveUp
  <2>9. CASE UploadDies(k)
    BY <1>6, <2>9 DEF UploadDies, InProgress
  <2>10. CASE DropFile(k)
    BY <1>7, <2>10 DEF DropFile
  <2>11. CASE FallsDue(k)
    BY <1>7, <2>11 DEF FallsDue, InTime, InProgress, Punctual
  <2>. QED
    BY <2>1, <2>2, <2>3, <2>4, <2>5, <2>6, <2>7, <2>8, <2>9, <2>10, <2>11
       DEF UploadOrRow, UploadStep
<1>9. \A p \in Places : \A j \in purge'[p].selected : PlaceOf[j] = p /\ upload'[j] = "done"
  BY <1>2, <1>8 DEF RecordInv, StorageTypeOK
<1>. QED  BY <1>1, <1>4, <1>8, <1>9 DEF RecordInv

LEMMA PlaceKeeps ==
    ASSUME RecordInv, NEW p \in Places,
           \/ HideOrRestore(p) \/ PurgeLocked(p) \/ PurgeSelects(p)
           \/ PurgeDeletes(p) \/ PurgeFails(p)
    PROVE  RecordInv'
<1>. StorageTypeOK
  BY DEF RecordInv
<1>1. StorageTypeOK'
  BY PlaceType
<1>2. UNCHANGED <<upload, object, cleaner>>
  BY DEF HideOrRestore, PurgeLocked, PurgeSelects, PurgeDeletes, PurgeFails
<1>3. \A j \in Uploads : Held(j)' <=> Held(j)
  BY <1>2 DEF Held, HeldBy
<1>4. \A j \in Uploads : j \in RowsOf(p) <=> PlaceOf[j] = p /\ Row(j)
  BY DEF RowsOf
<1>5. CASE UNCHANGED <<file, deletion>>
  <2>1. \A j \in Uploads : KeyInv(j)'
    BY <1>2, <1>3, <1>5 DEF RecordInv, KeyInv, Row
  <2>2. \A j \in RowsOf(p) : j \in Uploads /\ PlaceOf[j] = p /\ upload[j] = "done"
    BY <1>4 DEF RowsOf, RecordInv, KeyInv
  <2>3. \A q \in Places : \A j \in purge'[q].selected :
            j \in purge[q].selected \/ (q = p /\ j \in RowsOf(p))
    BY <1>5, StorageAssumption
       DEF HideOrRestore, PurgeLocked, PurgeSelects, PurgeDeletes, PurgeFails, NoPurge,
           StorageTypeOK, Purged
  <2>. QED  BY <1>1, <1>2, <2>1, <2>2, <2>3 DEF RecordInv
<1>6. ASSUME NEW queued \in SUBSET Uploads,
             Purged(p, queued),
             \A j \in queued : PlaceOf[j] = p /\ upload[j] = "done"
      PROVE  \A j \in Uploads : KeyInv(j)'
  <2>1. \A j \in Uploads :
            /\ file'[j] = IF j \notin RowsOf(p) THEN file[j]
                          ELSE IF j \in queued THEN "dropped" ELSE "slipped"
            /\ deletion'[j] = IF j \in queued THEN "due" ELSE deletion[j]
    BY <1>6 DEF Purged, Enqueued
  <2>2. \A j \in Uploads : Row(j)' => Row(j) /\ PlaceOf[j] # p /\ deletion'[j] = deletion[j]
    BY <1>4, <1>6, <2>1 DEF Row
  <2>3. \A j \in Uploads : deletion'[j] \in {"due", "taken", "retry"} =>
            j \in queued \/ deletion[j] \in {"due", "taken", "retry"}
    BY <2>1
  <2>. QED  BY <1>2, <1>3, <1>4, <1>6, <2>1, <2>2, <2>3 DEF RecordInv, KeyInv, Row
<1>7. CASE PurgeLocked(p)
  <2>1. \A j \in RowsOf(p) : j \in Uploads /\ PlaceOf[j] = p /\ upload[j] = "done"
    BY <1>4 DEF RowsOf, RecordInv, KeyInv
  <2>. QED  BY <1>1, <1>2, <1>6, <1>7, <2>1 DEF PurgeLocked, RecordInv
<1>8. CASE PurgeDeletes(p)
  <2>1. /\ purge[p].selected \in SUBSET Uploads
        /\ \A j \in purge[p].selected : PlaceOf[j] = p /\ upload[j] = "done"
    BY DEF RecordInv, StorageTypeOK
  <2>2. \A q \in Places : \A j \in purge'[q].selected : j \in purge[q].selected
    BY <1>8 DEF PurgeDeletes, NoPurge, StorageTypeOK
  <2>. QED  BY <1>1, <1>2, <1>6, <1>8, <2>1, <2>2 DEF PurgeDeletes, RecordInv
<1>. QED  BY <1>5, <1>7, <1>8 DEF HideOrRestore, PurgeSelects, PurgeFails

LEMMA PassKeeps ==
    ASSUME RecordInv, NEW c \in Cleaners, Pass(c)
    PROVE  RecordInv'
<1>. StorageTypeOK
  BY DEF RecordInv
<1>1. StorageTypeOK'
  BY PassType
<1>2. UNCHANGED <<upload, file, purge>>
  BY DEF Pass, ClaimRows, FinishPass, PassDies, DeleteObject, DeleteFails
<1>3. \A d \in Cleaners \ {c} : HeldBy(d)' = HeldBy(d)
  BY DEF Pass, ClaimRows, FinishPass, PassDies, DeleteObject, DeleteFails, HeldBy, StorageTypeOK
<1>4. \A k \in Uploads : Held(k)' => Held(k) \/ k \in HeldBy(c)'
  BY <1>3 DEF Held
<1>5. \A k \in HeldBy(c) : Held(k)
  BY DEF Held
<1>6. ASSUME NEW k \in Uploads,
             object'[k] = object[k] \/ Held(k),
             deletion'[k] \in {deletion[k], "none"} \/ Held(k) \/ deletion[k] = "due",
             Held(k)' => Held(k) \/ deletion[k] = "due"
      PROVE  KeyInv(k)'
  BY <1>2, <1>6 DEF RecordInv, KeyInv, Row, StorageTypeOK
<1>7. CASE ClaimRows(c)
  <2>1. HeldBy(c)' \subseteq DueRows
    BY <1>7 DEF ClaimRows, HeldBy, StorageTypeOK
  <2>2. \A k \in Uploads : Held(k)' => Held(k) \/ deletion[k] = "due"
    BY <1>4, <2>1 DEF DueRows
  <2>3. \A k \in Uploads : deletion'[k] = deletion[k] \/ deletion[k] = "due"
    BY <1>7 DEF ClaimRows, Enqueued, DueRows
  <2>4. \A k \in Uploads : KeyInv(k)'
    BY <1>6, <1>7, <2>2, <2>3 DEF ClaimRows
  <2>. QED  BY <1>1, <1>2, <2>4 DEF RecordInv
<1>8. CASE FinishPass(c) \/ PassDies(c)
  <2>1. HeldBy(c)' = {} /\ UNCHANGED object
    BY <1>8 DEF FinishPass, PassDies, NoPass, HeldBy, StorageTypeOK
  <2>2. \A k \in Uploads : deletion'[k] \in {deletion[k], "none"}
    BY <1>8 DEF FinishPass, PassDies, Enqueued
  <2>3. \A k \in Uploads : KeyInv(k)'
    BY <1>4, <1>6, <2>1, <2>2
  <2>. QED  BY <1>1, <1>2, <2>3 DEF RecordInv
<1>9. ASSUME NEW k \in Uploads, DeleteObject(c, k) \/ DeleteFails(c, k)
      PROVE  RecordInv'
  <2>1. k \in HeldBy(c) /\ HeldBy(c)' \subseteq HeldBy(c)
    BY <1>9 DEF DeleteObject, DeleteFails, HeldBy, StorageTypeOK
  <2>2. \A j \in Uploads \ {k} : object'[j] = object[j] /\ deletion'[j] = deletion[j]
    BY <1>9 DEF DeleteObject, DeleteFails, Enqueued, StorageTypeOK
  <2>3. \A j \in Uploads : KeyInv(j)'
    BY <1>4, <1>5, <1>6, <2>1, <2>2
  <2>. QED  BY <1>1, <1>2, <2>3 DEF RecordInv
<1>. QED  BY <1>7, <1>8, <1>9 DEF Pass

LEMMA InitRecord == StorageInit => RecordInv
<1>. SUFFICES ASSUME StorageInit PROVE RecordInv
  OBVIOUS
<1>1. \A k \in Uploads : ~Held(k) /\ ~Row(k) /\ upload[k] = "new" /\ deletion[k] = "none"
  BY DEF StorageInit, Held, HeldBy, NoPass, Row
<1>2. \A k \in Uploads : KeyInv(k)
  BY <1>1 DEF KeyInv
<1>3. \A p \in Places : purge[p].selected = {}
  BY DEF StorageInit, NoPurge
<1>. QED  BY <1>2, <1>3, InitStorageType DEF RecordInv

LEMMA NextRecord == Punctual /\ RecordInv /\ [StorageNext]_storageVars => RecordInv'
<1>1. RecordInv /\ UNCHANGED storageVars => RecordInv'
  BY DEF storageVars, RecordInv, StorageTypeOK, KeyInv, Row, Held, HeldBy
<1>. QED  BY <1>1, UploadKeeps, PlaceKeeps, PassKeeps DEF StorageNext, UploadOrRow

(* No pass ever removes the object of a recorded file: with crashes, late  *)
(* puts and unlocked purges, as long as an upload does not outlast its     *)
(* reservation and a commit's answer is not lost.                          *)
THEOREM RecordedStaysStored == Punctual => (StorageSpec => []RecordedIsStored)
<1>. SUFFICES ASSUME Punctual PROVE StorageSpec => []RecordedIsStored
  OBVIOUS
<1>1. RecordInv => RecordedIsStored
  BY DEF RecordInv, KeyInv, RecordedIsStored
<1>2. RecordInv /\ [StorageNext]_storageVars => RecordInv'
  BY NextRecord
<1>. QED  BY <1>1, <1>2, InitRecord, PTL DEF StorageSpec

-----------------------------------------------------------------------------
(* What the queue knows of. *)

(* The row of an upload on its way is its reservation, what a pass has     *)
(* removed is not there unless it landed late, and what no row points at   *)
(* is queued unless its row was deleted unseen.                            *)
QueueKey(k) ==
    /\ InProgress(k) => deletion[k] = "reserved"
    /\ upload[k] = "new" => object[k] = "none"
    /\ \A c \in Cleaners : k \in cleaner[c].removed => object[k] # "stored"
    /\ object[k] = "stored" /\ ~Row(k) /\ file[k] # "slipped" => deletion[k] # "none"

QueueInv == RecordInv /\ \A k \in Uploads : QueueKey(k)

LEMMA UploadQueues ==
    ASSUME QueueInv, Punctual, NEW k \in Uploads, UploadOrRow(k)
    PROVE  QueueInv'
<1>. StorageTypeOK /\ RecordInv
  BY DEF QueueInv, RecordInv
<1>1. RecordInv'
  BY UploadKeeps
<1>2. /\ UNCHANGED <<place, purge, cleaner>>
      /\ \A j \in Uploads \ {k} :
             /\ upload'[j] = upload[j] /\ object'[j] = object[j]
             /\ file'[j] = file[j] /\ deletion'[j] = deletion[j]
  BY OtherKeys
<1>4. \A j \in Uploads \ {k} : QueueKey(j)'
  BY <1>2 DEF QueueInv, QueueKey, Row, InProgress
<1>5. QueueKey(k) /\ KeyInv(k) /\ UNCHANGED cleaner
  BY <1>2 DEF QueueInv, RecordInv
<1>6. \A from, to : Advance(k, from, to) => upload[k] = from /\ upload'[k] = to
  BY DEF Advance, StorageTypeOK
<1>7. \A state : Enqueued({k}, state)[k] = state
  BY DEF Enqueued
<1>8. \A c \in Cleaners : k \in cleaner[c].removed => upload[k] = "done"
  BY <1>5 DEF Held, HeldBy, KeyInv
<1>9. QueueKey(k)'
  <2>. USE <1>5, <1>8 DEF QueueKey, KeyInv, Row, InProgress, StorageTypeOK
  <2>1. CASE Reserve(k)
    <3>1. /\ upload[k] = "new" /\ upload'[k] = "put" /\ deletion'[k] = "reserved"
          /\ UNCHANGED <<object, file>>
      BY <1>6, <1>7, <2>1 DEF Reserve
    <3>. QED  BY <3>1
  <2>2. CASE PutObject(k)
    BY <1>6, <2>2 DEF PutObject
  <2>3. CASE PutFails(k)
    BY <1>6, <2>3 DEF PutFails
  <2>4. CASE LatePutLands(k)
    BY <2>4 DEF LatePutLands
  <2>5. CASE CheckLive(k)
    BY <1>6, <2>5 DEF CheckLive
  <2>6. CASE Record(k)
    BY <1>6, <1>7, <2>6 DEF Record, ClaimUpload
  <2>7. CASE RecordFails(k)
    BY <1>6, <2>7 DEF RecordFails, Punctual
  <2>8. CASE GiveUp(k)
    BY <1>6, <1>7, <2>8 DEF GiveUp
  <2>9. CASE UploadDies(k)
    BY <1>6, <2>9 DEF UploadDies
  <2>10. CASE DropFile(k)
    BY <1>7, <2>10 DEF DropFile
  <2>11. CASE FallsDue(k)
    BY <1>7, <2>11 DEF FallsDue, InTime, Punctual
  <2>. QED
    BY <2>1, <2>2, <2>3, <2>4, <2>5, <2>6, <2>7, <2>8, <2>9, <2>10, <2>11
       DEF UploadOrRow, UploadStep
<1>. QED  BY <1>1, <1>4, <1>9 DEF QueueInv

LEMMA PlaceQueues ==
    ASSUME QueueInv, NEW p \in Places,
           \/ HideOrRestore(p) \/ PurgeLocked(p) \/ PurgeSelects(p)
           \/ PurgeDeletes(p) \/ PurgeFails(p)
    PROVE  QueueInv'
<1>. StorageTypeOK /\ RecordInv
  BY DEF QueueInv, RecordInv
<1>1. RecordInv'
  BY PlaceKeeps
<1>2. UNCHANGED <<upload, object, cleaner>>
  BY DEF HideOrRestore, PurgeLocked, PurgeSelects, PurgeDeletes, PurgeFails
<1>3. \A selected : Purged(p, selected) =>
          \A j \in Uploads :
              /\ file'[j] = IF j \notin RowsOf(p) THEN file[j]
                            ELSE IF j \in selected THEN "dropped" ELSE "slipped"
              /\ deletion'[j] = IF j \in selected THEN "due" ELSE deletion[j]
  BY DEF Purged, Enqueued
(* A purge queues no upload on its way: what it selected had a row.        *)
<1>4. \A selected \in SUBSET Uploads :
          Purged(p, selected) /\ (\A j \in selected : upload[j] = "done")
              => \A j \in Uploads : QueueKey(j)'
  BY <1>2, <1>3 DEF QueueInv, QueueKey, Row, RowsOf, InProgress
<1>5. \A j \in RowsOf(p) : j \in Uploads /\ upload[j] = "done"
  BY DEF RowsOf, RecordInv, KeyInv
<1>6. CASE UNCHANGED <<file, deletion>>
  BY <1>1, <1>2, <1>6 DEF QueueInv, QueueKey, Row, InProgress
<1>7. CASE PurgeLocked(p)
  <2>1. Purged(p, RowsOf(p)) /\ RowsOf(p) \in SUBSET Uploads
    BY <1>5, <1>7 DEF PurgeLocked
  <2>. QED  BY <1>1, <1>4, <1>5, <2>1 DEF QueueInv
<1>8. CASE PurgeDeletes(p)
  <2>1. /\ purge[p].selected \in SUBSET Uploads
        /\ \A j \in purge[p].selected : upload[j] = "done"
    BY DEF RecordInv, StorageTypeOK
  <2>. QED  BY <1>1, <1>4, <1>8, <2>1 DEF PurgeDeletes, QueueInv
<1>. QED  BY <1>6, <1>7, <1>8 DEF HideOrRestore, PurgeSelects, PurgeFails

LEMMA PassQueues ==
    ASSUME QueueInv, NEW c \in Cleaners, Pass(c)
    PROVE  QueueInv'
<1>. StorageTypeOK /\ RecordInv
  BY DEF QueueInv, RecordInv
<1>1. RecordInv'
  BY PassKeeps
<1>2. UNCHANGED <<upload, file>>
  BY DEF Pass, ClaimRows, FinishPass, PassDies, DeleteObject, DeleteFails
<1>3. \A d \in Cleaners \ {c} : cleaner'[d] = cleaner[d]
  BY DEF Pass, ClaimRows, FinishPass, PassDies, DeleteObject, DeleteFails, StorageTypeOK
<1>4. \A k \in Uploads : \A d \in Cleaners : k \in HeldBy(d) => upload[k] = "done"
  BY DEF Held, RecordInv, KeyInv
(* A row goes of what was removed; an object goes with a row that is held. *)
<1>5. ASSUME NEW k \in Uploads,
             object'[k] \in {object[k], "none"},
             k \in cleaner'[c].removed => k \in cleaner[c].removed \/ object'[k] # "stored",
             \/ deletion'[k] = deletion[k]
             \/ upload[k] = "done" /\ deletion'[k] # "none"
             \/ k \in cleaner[c].removed
      PROVE  QueueKey(k)'
  <2>1. \A d \in Cleaners : k \in cleaner'[d].removed => object'[k] # "stored"
    BY <1>3, <1>5 DEF QueueInv, QueueKey
  <2>2. k \in cleaner[c].removed => upload[k] = "done" /\ object'[k] # "stored"
    BY <1>4, <1>5 DEF HeldBy, QueueInv, QueueKey
  <2>. QED  BY <1>2, <1>5, <2>1, <2>2 DEF QueueInv, QueueKey, Row, InProgress
<1>6. CASE ClaimRows(c)
  <2>1. /\ cleaner'[c].removed = {} /\ UNCHANGED object
    BY <1>6 DEF ClaimRows, HeldBy, StorageTypeOK
  <2>2. \A k \in DueRows : upload[k] = "done"
    BY DEF DueRows, RecordInv, KeyInv
  <2>3. \A k \in Uploads : deletion'[k] = IF k \in DueRows THEN "taken" ELSE deletion[k]
    BY <1>6 DEF ClaimRows, Enqueued
  <2>4. \A k \in Uploads : QueueKey(k)'
    BY <1>5, <2>1, <2>2, <2>3
  <2>. QED  BY <1>1, <2>4 DEF QueueInv
<1>7. CASE FinishPass(c) \/ PassDies(c)
  <2>1. cleaner'[c].removed = {} /\ UNCHANGED object
    BY <1>7 DEF FinishPass, PassDies, NoPass, StorageTypeOK
  <2>2. \A k \in Uploads : deletion'[k] = deletion[k] \/ k \in cleaner[c].removed
    BY <1>7 DEF FinishPass, PassDies, Enqueued
  <2>3. \A k \in Uploads : QueueKey(k)'
    BY <1>5, <2>1, <2>2
  <2>. QED  BY <1>1, <2>3 DEF QueueInv
<1>8. ASSUME NEW k \in Uploads, DeleteObject(c, k)
      PROVE  QueueInv'
  <2>1. /\ cleaner'[c].removed = cleaner[c].removed \cup {k}
        /\ UNCHANGED deletion
        /\ object'[k] \in {object[k], "none"} /\ object'[k] # "stored"
        /\ \A j \in Uploads \ {k} : object'[j] = object[j]
    BY <1>8 DEF DeleteObject, StorageTypeOK
  <2>2. \A j \in Uploads : QueueKey(j)'
    BY <1>5, <2>1
  <2>. QED  BY <1>1, <2>2 DEF QueueInv
<1>9. ASSUME NEW k \in Uploads, DeleteFails(c, k)
      PROVE  QueueInv'
  <2>1. /\ k \in HeldBy(c)
        /\ cleaner'[c].removed = cleaner[c].removed
        /\ \A j \in Uploads : object'[j] \in {object[j], "none"}
        /\ \A j \in Uploads \ {k} : deletion'[j] = deletion[j]
        /\ deletion'[k] \in {deletion[k], "retry"}
    BY <1>9 DEF DeleteFails, Enqueued, HeldBy, StorageTypeOK
  <2>2. upload[k] = "done"
    BY <1>4, <2>1
  <2>3. \A j \in Uploads : QueueKey(j)'
    BY <1>5, <2>1, <2>2
  <2>. QED  BY <1>1, <2>3 DEF QueueInv
<1>. QED  BY <1>6, <1>7, <1>8, <1>9 DEF Pass

LEMMA InitQueue == StorageInit => QueueInv
<1>. SUFFICES ASSUME StorageInit PROVE QueueInv
  OBVIOUS
<1>1. \A c \in Cleaners : cleaner[c].removed = {}
  BY DEF StorageInit, NoPass
<1>2. \A k \in Uploads : upload[k] = "new" /\ object[k] = "none"
  BY DEF StorageInit
<1>3. \A k \in Uploads : QueueKey(k)
  BY <1>1, <1>2 DEF QueueKey, InProgress
<1>. QED  BY <1>3, InitRecord DEF QueueInv

LEMMA NextQueue == Punctual /\ QueueInv /\ [StorageNext]_storageVars => QueueInv'
<1>1. RecordInv /\ UNCHANGED storageVars => RecordInv'
  BY DEF storageVars, RecordInv, StorageTypeOK, KeyInv, Row, Held, HeldBy
<1>2. QueueInv /\ UNCHANGED storageVars => QueueInv'
  BY <1>1 DEF storageVars, QueueInv, QueueKey, Row, InProgress
<1>. QED  BY <1>2, UploadQueues, PlaceQueues, PassQueues DEF StorageNext, UploadOrRow

(* An object that no row points at is in the queue: an upload that dies, a *)
(* dropped file, a purge, two passes over one row, and a pass that fails   *)
(* or dies leave nothing behind that no later pass finds, but what landed  *)
(* after its request gave it up and what a purge without the lock deleted  *)
(* unseen. As long as an upload does not outlast its reservation and a     *)
(* commit's answer is not lost.                                            *)
THEOREM QueueKnowsOthers == Punctual => (StorageSpec => []OthersAreQueued)
<1>. SUFFICES ASSUME Punctual PROVE StorageSpec => []OthersAreQueued
  OBVIOUS
<1>1. QueueInv => OthersAreQueued
  BY DEF QueueInv, QueueKey, OthersAreQueued, Unseen
<1>2. QueueInv /\ [StorageNext]_storageVars => QueueInv'
  BY NextQueue
<1>. QED  BY <1>1, <1>2, InitQueue, PTL DEF StorageSpec

=============================================================================
