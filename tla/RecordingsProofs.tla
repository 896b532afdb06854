-------------------------- MODULE RecordingsProofs --------------------------
(***************************************************************************)
(* Proofs about Recordings, for any sessions, videos, requests and         *)
(* tedrisat instances.                                                     *)
(***************************************************************************)
EXTENDS Recordings, TLAPS

-----------------------------------------------------------------------------
(* Type correctness.                                                       *)

(* The rows that the code writes are rows.                                 *)
LEMMA WrittenRows ==
    /\ NoRecording \in Rows
    /\ \A link \in Links : LinkRow(link) \in Rows
    /\ \A v \in Videos, s \in {"PROCESSING", "READY", "FAILED"} : Upload(v, s) \in Rows
BY DEF Rows, LinkRow, Links

(* A row is one of the four kinds.                                         *)
LEMMA RowKinds ==
    ASSUME NEW row \in Rows
    PROVE  /\ row.provider \in {"NONE", "LINK", "BUNNY"}
           /\ row.status \in {"NONE", "PROCESSING", "READY", "FAILED"}
           /\ row.upload \in BOOLEAN
           /\ row.video \in Videos \cup {NoVideo}
           /\ (row.provider = "BUNNY") <=> (row.video \in Videos)
           /\ row.upload => row.provider = "BUNNY" /\ row = Upload(row.video, row.status)
           /\ row.status \in {"PROCESSING", "FAILED"} => row.upload
           /\ row.status = "PROCESSING" => row.provider = "BUNNY" /\ row = Upload(row.video, "PROCESSING")
<1>1. CASE row = NoRecording \/ row = Link
  <2>1. /\ row.provider \in {"NONE", "LINK"} /\ row.status \in {"NONE", "READY"}
        /\ row.video = NoVideo /\ row.upload = FALSE
    BY <1>1 DEF NoRecording, Link
  <2> QED
    BY <2>1, NoVideoAssumption
<1>2. CASE \E v \in Videos : row = Pasted(v)
  BY <1>2 DEF Pasted
<1>3. CASE \E v \in Videos, s \in {"PROCESSING", "READY", "FAILED"} : row = Upload(v, s)
  <2> PICK v \in Videos, s \in {"PROCESSING", "READY", "FAILED"} : row = Upload(v, s)
    BY <1>3
  <2>1. /\ row.provider = "BUNNY" /\ row.status = s /\ row.video = v /\ row.upload
    BY DEF Upload
  <2> QED
    BY <2>1
<1> QED
  BY <1>1, <1>2, <1>3 DEF Rows

LEMMA QueueingKeepsType ==
    ASSUME removals \in [Videos -> Removals \cup {NotQueued}],
           NEW v \in Videos, NEW l \in Lessons, NEW by \in Videos \cup {NoVideo}
    PROVE  QueueVideoRemoval(v, l, by) \in [Videos -> Removals \cup {NotQueued}]
BY DEF QueueVideoRemoval, Removals

LEMMA QueueingLeftKeepsType ==
    ASSUME removals \in [Videos -> Removals \cup {NotQueued}],
           NEW row \in Rows, NEW link, NEW l \in Lessons
    PROVE  QueueVideoLeft(row, link, l) \in [Videos -> Removals \cup {NotQueued}]
BY RowKinds, QueueingKeepsType DEF QueueVideoLeft

(* What the type says of a request and of a poll at each of its points.    *)
LEMMA RequestTypes ==
    ASSUME TypeOK, NEW s \in Staff
    PROVE  /\ request[s] # IdleRequest =>
                /\ request[s].pc \in {"create", "lock", "write", "add"}
                /\ request[s].lesson \in Lessons
           /\ request[s].pc \in {"create", "lock"} => request[s].replaceVideo \in BOOLEAN
           /\ request[s].pc = "lock" => request[s].video \in Videos
           /\ request[s].pc = "write" =>
                /\ request[s].replaceVideo \in BOOLEAN
                /\ request[s].video \in Videos
                /\ request[s].seen \in Rows
                /\ request[s].lesson \in Lessons
           /\ request[s].pc = "add" =>
                /\ request[s].link \in Links
                /\ request[s].seen \in Rows
                /\ request[s].lesson \in Lessons
BY DEF TypeOK, IdleRequest, UploadRequests, AddRequests

LEMMA PollTypes ==
    ASSUME TypeOK, NEW p \in Pollers
    PROVE  /\ poll[p].pc = "settle" => poll[p].todo \in SUBSET Uploads
           /\ poll[p].pc = "outcome" =>
                /\ poll[p].todo \in SUBSET Uploads
                /\ poll[p].upload \in Uploads
                /\ poll[p].outcome \in {"READY", "FAILED"}
           /\ poll[p].pc = "remove" => poll[p].due \in SUBSET Videos
           /\ poll[p].pc = "finish" =>
                /\ poll[p].due \in SUBSET Videos
                /\ poll[p].video \in Videos
BY DEF TypeOK, IdlePoll, SettlePolls, OutcomePolls, RemovePolls, FinishPolls

Requests == {IdleRequest} \cup UploadRequests \cup AddRequests
Polls == {IdlePoll} \cup SettlePolls \cup OutcomePolls \cup RemovePolls \cup FinishPolls

LEMMA InitType == Init => TypeOK
BY DEF Init, TypeOK, Rows, VideoStates

LEMMA RequestStepType ==
    ASSUME TypeOK, NEW s \in Staff, RequestStep(s)
    PROVE  TypeOK'
<1> USE DEF TypeOK, lessonVars
<1>1. ASSUME NEW l \in Lessons, NEW replaceVideo \in BOOLEAN, UploadStart(s, l, replaceVideo)
      PROVE  TypeOK'
  BY <1>1 DEF UploadStart, UploadRequests
<1>2. CASE CreateVideo(s)
  <2> PICK v \in Videos :
          /\ library' = [library EXCEPT ![v] = "created"]
          /\ request' = [request EXCEPT ![s] =
                 [pc |-> "lock", lesson |-> @.lesson, replaceVideo |-> @.replaceVideo,
                  video |-> v]]
    BY <1>2 DEF CreateVideo
  <2>1. [pc |-> "lock", lesson |-> request[s].lesson,
         replaceVideo |-> request[s].replaceVideo, video |-> v] \in UploadRequests
    BY <1>2, RequestTypes DEF CreateVideo, UploadRequests, IdleRequest
  <2> QED
    BY <1>2, <2>1 DEF CreateVideo, VideoStates
<1>3. CASE UploadRead(s)
  <2>1. /\ request[s].lesson \in Lessons
        /\ request[s].replaceVideo \in BOOLEAN
        /\ request[s].video \in Videos
        /\ recording[request[s].lesson] \in Rows
    BY <1>3, RequestTypes DEF UploadRead, IdleRequest
  <2>2. [pc |-> "write", lesson |-> request[s].lesson,
         replaceVideo |-> request[s].replaceVideo, video |-> request[s].video,
         seen |-> recording[request[s].lesson]] \in UploadRequests
    BY <2>1 DEF UploadRequests
  <2> QED
    BY <1>3, <2>2 DEF UploadRead
<1>4. CASE UploadWrite(s)
  <2>1. recording' \in [Lessons -> Rows]
    BY <1>4, RequestTypes, WrittenRows DEF UploadWrite
  <2>2. removals' \in [Videos -> Removals \cup {NotQueued}]
    BY <1>4, RequestTypes, RowKinds, QueueingKeepsType DEF UploadWrite
  <2>3. library' \in [Videos -> VideoStates]
    BY <1>4 DEF UploadWrite, SignedState, VideoStates
  <2> QED
    BY <1>4, <2>1, <2>2, <2>3 DEF UploadWrite
<1>5. ASSUME NEW l \in Lessons, NEW link \in PastedLinks, AddRead(s, l, link)
      PROVE  TypeOK'
  BY <1>5 DEF AddRead, AddRequests, PastedLinks, Links
<1>6. CASE AddWrite(s)
  <2>1. recording' \in [Lessons -> Rows]
    BY <1>6, RequestTypes, WrittenRows DEF AddWrite
  <2>2. removals' \in [Videos -> Removals \cup {NotQueued}]
    BY <1>6, RequestTypes, QueueingLeftKeepsType DEF AddWrite
  <2> QED
    BY <1>6, <2>1, <2>2 DEF AddWrite
<1>7. CASE RequestFails(s)
  BY <1>7 DEF RequestFails
<1> QED
  BY <1>1, <1>2, <1>3, <1>4, <1>5, <1>6, <1>7 DEF RequestStep

LEMMA LessonStepType ==
    ASSUME TypeOK, NEW l \in Lessons, LessonStep(l)
    PROVE  TypeOK'
<1> USE DEF TypeOK, lessonVars
<1>1. CASE Resign(l)
  BY <1>1 DEF Resign, SignedState, VideoStates
<1>2. ASSUME NEW link \in PastedLinks, Update(l, link)
      PROVE  TypeOK'
  <2>1. recording' \in [Lessons -> Rows]
    BY <1>2, WrittenRows DEF Update, PastedLinks, Links
  <2>2. removals' \in [Videos -> Removals \cup {NotQueued}]
    BY <1>2, QueueingLeftKeepsType DEF Update
  <2> QED
    BY <1>2, <2>1, <2>2 DEF Update
<1>3. CASE ArchiveLesson(l)
  BY <1>3 DEF ArchiveLesson
<1>4. CASE RestoreLesson(l)
  BY <1>4 DEF RestoreLesson
<1>5. CASE CancelLesson(l)
  BY <1>5 DEF CancelLesson
<1>6. CASE PurgeLesson(l)
  BY <1>6, WrittenRows DEF PurgeLesson
<1> QED
  BY <1>1, <1>2, <1>3, <1>4, <1>5, <1>6 DEF LessonStep

LEMMA LibraryStepType ==
    ASSUME TypeOK, NEW v \in Videos, LibraryStep(v)
    PROVE  TypeOK'
<1>1. ASSUME NEW state \in VideoStates, VideoBecomes(v, state)
      PROVE  TypeOK'
  BY <1>1 DEF VideoBecomes, TypeOK, lessonVars
<1>2. {"encoding", "finished", "error", "late", "voided", "lost"} \subseteq VideoStates
  BY DEF VideoStates
<1> QED
  BY <1>1, <1>2
  DEF LibraryStep, FileArrives, EncodingEnds, PanelUpload, PanelDelete, LifetimePasses

LEMMA PollStepType ==
    ASSUME TypeOK, NEW p \in Pollers, PollStep(p)
    PROVE  TypeOK'
<1> USE DEF TypeOK, lessonVars
<1>1. CASE PollStart(p)
  <2>1. \A l \in Lessons : Processing(l) =>
            [lesson |-> l, video |-> recording[l].video,
             late |-> library[recording[l].video] = "late"] \in Uploads
    BY RowKinds DEF Processing, Uploads
  <2> QED
    BY <1>1, <2>1 DEF PollStart, SettlePolls
<1>2. ASSUME NEW u \in Uploads, PollRead(p, u)
      PROVE  TypeOK'
  BY <1>2, PollTypes DEF PollRead, EncodingOutcome, OutcomePolls
<1>3. ASSUME NEW u \in Uploads, PollSkip(p, u)
      PROVE  TypeOK'
  <2>1. [poll[p] EXCEPT !.todo = @ \ {u}] \in SettlePolls
    BY <1>3, PollTypes DEF PollSkip, SettlePolls, IdlePoll, OutcomePolls, RemovePolls, FinishPolls
  <2> QED
    BY <1>3, <2>1 DEF PollSkip
<1>4. ASSUME NEW u \in Uploads, SettleBunnyUpload(p, u)
      PROVE  TypeOK'
  <2>1. StillProcessing(u) => recording[u.lesson].video \in Videos
    BY DEF StillProcessing, Upload, Uploads
  <2>2. recording' \in [Lessons -> Rows]
    BY <1>4, <2>1, PollTypes, WrittenRows DEF SettleBunnyUpload, Uploads
  <2>3. poll' \in [Pollers -> Polls]
    BY <1>4, PollTypes DEF SettleBunnyUpload, SettlePolls, Polls
  <2> QED
    BY <1>4, <2>2, <2>3 DEF SettleBunnyUpload, Polls
<1>5. CASE ClaimVideoRemovals(p)
  BY <1>5 DEF ClaimVideoRemovals, RemovePolls
<1>6. ASSUME NEW v \in Videos, DeleteVideo(p, v)
      PROVE  TypeOK'
  BY <1>6, PollTypes DEF DeleteVideo, DeletedByPoll, VideoStates, FinishPolls
<1>7. ASSUME NEW v \in Videos, DeleteVideoFails(p, v)
      PROVE  TypeOK'
  <2>1. [poll[p] EXCEPT !.due = @ \ {v}] \in RemovePolls
    BY <1>7, PollTypes DEF DeleteVideoFails, SettlePolls, IdlePoll, OutcomePolls, RemovePolls, FinishPolls
  <2>2. library' \in [Videos -> VideoStates]
    BY <1>7 DEF DeleteVideoFails, DeletedByPoll, VideoStates
  <2> QED
    BY <1>7, <2>1, <2>2 DEF DeleteVideoFails
<1>8. ASSUME NEW v \in Videos, FinishVideoRemoval(p, v)
      PROVE  TypeOK'
  BY <1>8, PollTypes DEF FinishVideoRemoval, RemovePolls
<1>9. CASE PollEnds(p)
  BY <1>9 DEF PollEnds
<1>10. CASE PollCrashes(p)
  BY <1>10 DEF PollCrashes
<1> QED
  BY <1>1, <1>2, <1>3, <1>4, <1>5, <1>6, <1>7, <1>8, <1>9, <1>10 DEF PollStep

LEMMA NextType == TypeOK /\ [Next]_vars => TypeOK'
<1>1. TypeOK /\ UNCHANGED vars => TypeOK'
  BY DEF TypeOK, vars, lessonVars
<1> QED
  BY <1>1, RequestStepType, LessonStepType, LibraryStepType, PollStepType DEF Next

(* The rows, the requests and the polls keep the shape the schema and the  *)
(* services give them, for any number of sessions, videos and instances.   *)
THEOREM TypeCorrect == Spec => []TypeOK
BY InitType, NextType, PTL DEF Spec

-----------------------------------------------------------------------------
(* Settling uploads and finishing removals.                                *)

(* What the library has become of a video it stays, or the video is gone.  *)
Ends == {"finished", "error", "late"}

LEMMA LibraryMoves ==
    ASSUME TypeOK, [Next]_vars, NEW v \in Videos
    PROVE  /\ library[v] \in Gone => library'[v] \in Gone
           /\ library[v] \in Ends => library'[v] \in Gone \cup {library[v]}
<1> DEFINE Moves == /\ library[v] \in Gone => library'[v] \in Gone
                    /\ library[v] \in Ends => library'[v] \in Gone \cup {library[v]}
<1> USE DEF TypeOK, Ends, Gone
<1>1. CASE library' = library
  BY <1>1
<1>2. ASSUME NEW w \in Videos, library' = [library EXCEPT ![w] = SignedState(@)]
      PROVE  Moves
  BY <1>2 DEF SignedState
<1>3. ASSUME NEW w \in Videos, library' = DeletedByPoll(w)
      PROVE  Moves
  BY <1>3 DEF DeletedByPoll
<1>4. ASSUME NEW s \in Staff, RequestStep(s)
      PROVE  Moves
  <2>1. CASE CreateVideo(s)
    BY <2>1 DEF CreateVideo
  <2>2. CASE UploadWrite(s)
    BY <1>1, <1>2, <2>2, RequestTypes DEF UploadWrite
  <2> QED
    BY <1>1, <1>4, <2>1, <2>2 DEF RequestStep, UploadStart, UploadRead, AddRead, AddWrite, RequestFails
<1>5. ASSUME NEW l \in Lessons, LessonStep(l)
      PROVE  Moves
  <2>1. CASE Resign(l)
    BY <1>2, <2>1, RowKinds DEF Resign, Processing
  <2> QED
    BY <1>1, <1>5, <2>1
    DEF LessonStep, Update, ArchiveLesson, RestoreLesson, CancelLesson, PurgeLesson
<1>6. ASSUME NEW w \in Videos, LibraryStep(w)
      PROVE  Moves
  BY <1>6 DEF LibraryStep, FileArrives, EncodingEnds, PanelUpload, PanelDelete,
              LifetimePasses, VideoBecomes, InLibrary, Waiting
<1>7. ASSUME NEW p \in Pollers, PollStep(p)
      PROVE  Moves
  <2>1. ASSUME NEW w \in Videos, DeleteVideo(p, w) \/ DeleteVideoFails(p, w)
        PROVE  Moves
    BY <1>1, <1>3, <2>1 DEF DeleteVideo, DeleteVideoFails
  <2> QED
    BY <1>1, <1>7, <2>1
    DEF PollStep, PollStart, PollRead, PollSkip, SettleBunnyUpload, ClaimVideoRemovals,
        FinishVideoRemoval, PollEnds, PollCrashes
<1> QED
  BY <1>1, <1>4, <1>5, <1>6, <1>7 DEF Next, vars

LEMMA InitSettling == Init => SettlingInv
BY DEF Init, SettlingInv, PollsKnow, SettledByItsOwnVideo, IdlePoll, NoRecording

(* A poll's knowledge survives every step of others.                       *)
LEMMA KnowledgeStays ==
    ASSUME TypeOK, PollsKnow, [Next]_vars, NEW p \in Pollers, poll'[p] = poll[p]
    PROVE  /\ poll'[p].pc \in {"settle", "outcome"} =>
                \A u \in poll'[p].todo : u.late => library'[u.video] \in Gone \cup {"late"}
           /\ poll'[p].pc = "outcome" =>
                library'[poll'[p].upload.video] \in
                    Gone \cup (IF poll'[p].outcome = "READY" THEN {"finished"} ELSE {"error", "late"})
           /\ poll'[p].pc = "finish" => library'[poll'[p].video] \in Gone
<1>1. ASSUME NEW u \in poll[p].todo, poll[p].pc \in {"settle", "outcome"}, u.late
      PROVE  library'[u.video] \in Gone \cup {"late"}
  BY <1>1, LibraryMoves, PollTypes DEF PollsKnow, Uploads, Ends
<1>2. ASSUME poll[p].pc = "outcome"
      PROVE  library'[poll[p].upload.video] \in
                 Gone \cup (IF poll[p].outcome = "READY" THEN {"finished"} ELSE {"error", "late"})
  BY <1>2, LibraryMoves, PollTypes DEF PollsKnow, Uploads, Ends
<1>3. ASSUME poll[p].pc = "finish"
      PROVE  library'[poll[p].video] \in Gone
  BY <1>3, LibraryMoves, PollTypes DEF PollsKnow
<1> QED
  BY <1>1, <1>2, <1>3

LEMMA PollsKnowStep ==
    ASSUME TypeOK, TypeOK', PollsKnow, [Next]_vars
    PROVE  PollsKnow'
<1>1. ASSUME poll' = poll
      PROVE  PollsKnow'
  BY <1>1, KnowledgeStays DEF PollsKnow
<1>2. ASSUME NEW p \in Pollers, PollStep(p)
      PROVE  PollsKnow'
  <2> SUFFICES ASSUME NEW q \in Pollers
               PROVE  /\ poll'[q].pc \in {"settle", "outcome"} =>
                            \A u \in poll'[q].todo : u.late => library'[u.video] \in Gone \cup {"late"}
                      /\ poll'[q].pc = "outcome" =>
                            library'[poll'[q].upload.video] \in
                                Gone \cup (IF poll'[q].outcome = "READY" THEN {"finished"} ELSE {"error", "late"})
                      /\ poll'[q].pc = "finish" => library'[poll'[q].video] \in Gone
    BY DEF PollsKnow
  <2>1. CASE q # p
    <3>1. poll'[q] = poll[q]
      BY <1>2, <2>1 DEF TypeOK, PollStep, PollStart, PollRead, PollSkip, SettleBunnyUpload,
         ClaimVideoRemovals, DeleteVideo, DeleteVideoFails, FinishVideoRemoval, PollEnds, PollCrashes
    <3> QED
      BY <3>1, KnowledgeStays
  <2>2. CASE q = p
    <3>1. CASE PollStart(p)
      <4>1. library' = library
        BY <3>1 DEF PollStart
      <4>2. poll'[p] = [pc |-> "settle",
                        todo |-> {[lesson |-> l, video |-> recording[l].video,
                                   late |-> library[recording[l].video] = "late"] :
                                  l \in {m \in Lessons : Processing(m)}}]
        BY <3>1 DEF PollStart, TypeOK
      <4>3. ASSUME NEW u \in poll'[p].todo, u.late
            PROVE  library'[u.video] \in Gone \cup {"late"}
        <5> PICK l \in Lessons :
                u = [lesson |-> l, video |-> recording[l].video,
                     late |-> library[recording[l].video] = "late"]
          BY <4>2
        <5>1. u.video = recording[l].video /\ u.late = (library[recording[l].video] = "late")
          OBVIOUS
        <5> QED
          BY <4>1, <4>3, <5>1
      <4> QED
        BY <2>2, <4>2, <4>3
    <3>2. ASSUME NEW u \in Uploads, PollRead(p, u)
          PROVE  poll'[p].pc = "outcome"
                 /\ (\A w \in poll'[p].todo : w.late => library'[w.video] \in Gone \cup {"late"})
                 /\ library'[poll'[p].upload.video] \in
                       Gone \cup (IF poll'[p].outcome = "READY" THEN {"finished"} ELSE {"error", "late"})
      <4> DEFINE outcome == EncodingOutcome(u.video, u.late)
      <4>1. /\ library' = library
            /\ poll[p].pc = "settle" /\ u \in poll[p].todo /\ outcome # "WAIT"
            /\ poll'[p] = [pc |-> "outcome", todo |-> poll[p].todo \ {u}, upload |-> u,
                           outcome |-> outcome]
        BY <3>2 DEF PollRead, TypeOK
      <4>2. \A w \in poll[p].todo : w.late => library[w.video] \in Gone \cup {"late"}
        BY <4>1 DEF PollsKnow
      <4>3. library[u.video] \in
                Gone \cup (IF outcome = "READY" THEN {"finished"} ELSE {"error", "late"})
        BY <4>1, <4>2 DEF EncodingOutcome
      <4> HIDE DEF outcome
      <4> QED
        BY <4>1, <4>2, <4>3
    <3>3. ASSUME NEW u \in Uploads, PollSkip(p, u) \/ SettleBunnyUpload(p, u)
          PROVE  poll'[p].pc = "settle"
                 /\ (\A w \in poll'[p].todo : w.late => library'[w.video] \in Gone \cup {"late"})
      <4>1. CASE PollSkip(p, u)
        BY <3>3, <4>1, PollTypes DEF PollSkip, TypeOK, PollsKnow
      <4>2. CASE SettleBunnyUpload(p, u)
        BY <3>3, <4>2, PollTypes DEF SettleBunnyUpload, TypeOK, PollsKnow
      <4> QED
        BY <3>3, <4>1, <4>2
    <3>4. ASSUME NEW v \in Videos, DeleteVideo(p, v)
          PROVE  poll'[p].pc = "finish" /\ library'[poll'[p].video] \in Gone
      BY <3>4 DEF DeleteVideo, DeletedByPoll, Gone, TypeOK
    <3>5. ASSUME \/ ClaimVideoRemovals(p)
                 \/ PollEnds(p)
                 \/ PollCrashes(p)
                 \/ \E v \in Videos : DeleteVideoFails(p, v) \/ FinishVideoRemoval(p, v)
          PROVE  poll'[p].pc \in {"remove", "idle"}
      <4>1. CASE ClaimVideoRemovals(p) \/ PollEnds(p) \/ PollCrashes(p)
        BY <4>1 DEF TypeOK, ClaimVideoRemovals, PollEnds, PollCrashes, IdlePoll
      <4>2. ASSUME NEW v \in Videos, DeleteVideoFails(p, v)
            PROVE  poll'[p].pc = "remove"
        BY <4>2 DEF TypeOK, DeleteVideoFails
      <4>3. ASSUME NEW v \in Videos, FinishVideoRemoval(p, v)
            PROVE  poll'[p].pc = "remove"
        BY <4>3 DEF TypeOK, FinishVideoRemoval
      <4> QED
        BY <3>5, <4>1, <4>2, <4>3
    <3> QED
      BY <1>2, <2>2, <3>1, <3>2, <3>3, <3>4, <3>5 DEF PollStep
  <2> QED
    BY <2>1, <2>2
<1> QED
  BY <1>1, <1>2 DEF Next, vars, RequestStep, LessonStep, LibraryStep, VideoBecomes,
     UploadStart, CreateVideo, UploadRead, UploadWrite, AddRead, AddWrite, RequestFails,
     Resign, Update, ArchiveLesson, RestoreLesson, CancelLesson, PurgeLesson,
     FileArrives, EncodingEnds, PanelUpload, PanelDelete, LifetimePasses

LEMMA LinkRowsAreNoUploads ==
    ASSUME NEW link
    PROVE  LinkRow(link).upload = FALSE /\ LinkRow(link).status = "READY"
BY DEF LinkRow, Link, Pasted

(* Every row a step leaves is the one it found, no upload, a new upload     *)
(* still PROCESSING, or the upload a poll has settled.                      *)
LEMMA RowMoves ==
    ASSUME TypeOK, [Next]_vars, NEW l \in Lessons
    PROVE  \/ recording'[l] = recording[l]
           \/ recording'[l].upload = FALSE /\ recording'[l].status # "PROCESSING"
           \/ \E s \in Staff :
                 /\ UploadWrite(s) /\ request[s].lesson = l
                 /\ recording'[l] = Upload(request[s].video, "PROCESSING")
           \/ \E p \in Pollers :
                 /\ recording[l] = Upload(poll[p].upload.video, "PROCESSING")
                 /\ recording'[l] = Upload(poll[p].upload.video, poll[p].outcome)
                 /\ poll[p].pc = "outcome" /\ poll[p].upload.lesson = l
                 /\ library' = library
<1> DEFINE Moves == \/ recording'[l] = recording[l]
                    \/ recording'[l].upload = FALSE /\ recording'[l].status # "PROCESSING"
                    \/ \E s \in Staff :
                          /\ UploadWrite(s) /\ request[s].lesson = l
                          /\ recording'[l] = Upload(request[s].video, "PROCESSING")
                    \/ \E p \in Pollers :
                          /\ recording[l] = Upload(poll[p].upload.video, "PROCESSING")
                          /\ recording'[l] = Upload(poll[p].upload.video, poll[p].outcome)
                          /\ poll[p].pc = "outcome" /\ poll[p].upload.lesson = l
                          /\ library' = library
<1> USE DEF TypeOK
<1>1. CASE recording' = recording
  BY <1>1
<1>2. ASSUME NEW m \in Lessons, NEW row, row.upload = FALSE, row.status # "PROCESSING",
             recording' = [recording EXCEPT ![m] = row]
      PROVE  Moves
  BY <1>2
<1>3. ASSUME NEW s \in Staff, RequestStep(s)
      PROVE  Moves
  <2>1. CASE UploadWrite(s)
    BY <1>3, <2>1, RequestTypes DEF UploadWrite
  <2>2. CASE AddWrite(s)
    BY <1>2, <2>2, RequestTypes, LinkRowsAreNoUploads DEF AddWrite
  <2> QED
    BY <1>1, <1>3, <2>1, <2>2
    DEF RequestStep, UploadStart, CreateVideo, UploadRead, AddRead, RequestFails
<1>4. ASSUME NEW m \in Lessons, LessonStep(m)
      PROVE  Moves
  <2>1. ASSUME NEW link, Update(m, link)
        PROVE  Moves
    BY <1>2, <2>1, LinkRowsAreNoUploads DEF Update
  <2>2. CASE PurgeLesson(m)
    BY <1>2, <2>2 DEF PurgeLesson, NoRecording
  <2> QED
    BY <1>1, <1>4, <2>1, <2>2 DEF LessonStep, Resign, ArchiveLesson, RestoreLesson, CancelLesson
<1>5. ASSUME NEW v \in Videos, LibraryStep(v)
      PROVE  Moves
  BY <1>1, <1>5 DEF LibraryStep, FileArrives, EncodingEnds, PanelUpload, PanelDelete,
              LifetimePasses, VideoBecomes
<1>6. ASSUME NEW p \in Pollers, PollStep(p)
      PROVE  Moves
  <2>1. ASSUME NEW u \in Uploads, SettleBunnyUpload(p, u)
        PROVE  Moves
    <3>1. CASE StillProcessing(u) /\ u.lesson = l
      <4>1. Upload(u.video, "PROCESSING").video = u.video
        BY DEF Upload
      <4>2. recording'[l] = Upload(u.video, poll[p].outcome)
        BY <2>1, <3>1, <4>1 DEF SettleBunnyUpload, StillProcessing
      <4> QED
        BY <2>1, <3>1, <4>2 DEF SettleBunnyUpload, StillProcessing
    <3> QED
      BY <2>1, <3>1 DEF SettleBunnyUpload
  <2> QED
    BY <1>1, <1>6, <2>1
    DEF PollStep, PollStart, PollRead, PollSkip, ClaimVideoRemovals, DeleteVideo,
        DeleteVideoFails, FinishVideoRemoval, PollEnds, PollCrashes
<1> QED
  BY <1>1, <1>3, <1>4, <1>5, <1>6 DEF Next, vars

LEMMA SettledStep ==
    ASSUME TypeOK, TypeOK', SettlingInv, [Next]_vars
    PROVE  SettledByItsOwnVideo'
<1> SUFFICES ASSUME NEW l \in Lessons, recording'[l].upload
             PROVE  /\ recording'[l].status = "READY" =>
                          library'[recording'[l].video] \in Gone \cup {"finished"}
                    /\ recording'[l].status = "FAILED" =>
                          library'[recording'[l].video] \in Gone \cup {"error", "late"}
  BY DEF SettledByItsOwnVideo
<1>1. CASE recording'[l] = recording[l]
  <2>1. recording[l].video \in Videos
    BY <1>1, RowKinds DEF TypeOK
  <2> QED
    BY <1>1, <2>1, LibraryMoves DEF SettlingInv, SettledByItsOwnVideo, Ends
<1>2. ASSUME NEW s \in Staff, recording'[l] = Upload(request[s].video, "PROCESSING")
      PROVE  recording'[l].status = "PROCESSING"
  BY <1>2 DEF Upload
<1>3. ASSUME NEW p \in Pollers,
             recording'[l] = Upload(poll[p].upload.video, poll[p].outcome),
             poll[p].pc = "outcome", library' = library
      PROVE  /\ recording'[l].status = "READY" =>
                   library'[recording'[l].video] \in Gone \cup {"finished"}
             /\ recording'[l].status = "FAILED" =>
                   library'[recording'[l].video] \in Gone \cup {"error", "late"}
  <2>1. recording'[l].status = poll[p].outcome /\ recording'[l].video = poll[p].upload.video
    BY <1>3 DEF Upload
  <2> QED
    BY <1>3, <2>1 DEF SettlingInv, PollsKnow
<1> QED
  BY <1>1, <1>2, <1>3, RowMoves

LEMMA SettlingStep == TypeOK /\ SettlingInv /\ [Next]_vars => SettlingInv'
BY NextType, PollsKnowStep, SettledStep DEF SettlingInv

THEOREM SettlingCorrect == Spec => []SettlingInv
BY InitType, NextType, InitSettling, SettlingStep, PTL DEF Spec

(* A READY upload was encoded and a FAILED one cannot be played, of the     *)
(* video the row holds now, however the polls of any number of instances    *)
(* interleave with requests (settleBunnyUpload).                            *)
THEOREM SettledCorrect == Spec => []SettledByItsOwnVideo
BY SettlingCorrect, PTL DEF SettlingInv

-----------------------------------------------------------------------------
(* The removal queue.                                                      *)

LEMMA QueueRowsAreRows ==
    ASSUME NEW l \in Lessons, NEW by
    PROVE  [on |-> l, by |-> by] # NotQueued
BY NoLessonAssumption DEF NotQueued

(* Queueing changes the row of that video only, and only from nothing.     *)
LEMMA QueueingChanges ==
    ASSUME removals \in [Videos -> Removals \cup {NotQueued}],
           NEW w \in Videos, NEW l \in Lessons, NEW by, NEW v \in Videos
    PROVE  /\ v # w \/ removals[w] # NotQueued
                => QueueVideoRemoval(w, l, by)[v] = removals[v]
           /\ QueueVideoRemoval(w, l, by)[w] # NotQueued
           /\ removals[w] = NotQueued => QueueVideoRemoval(w, l, by)[w].by = by
BY QueueRowsAreRows DEF QueueVideoRemoval

LEMMA QueueingLeftChanges ==
    ASSUME removals \in [Videos -> Removals \cup {NotQueued}],
           NEW row \in Rows, NEW link, NEW l \in Lessons, NEW v \in Videos
    PROVE  /\ row.video # v \/ link = v \/ removals[v] # NotQueued
                => QueueVideoLeft(row, link, l)[v] = removals[v]
           /\ Holds(row, v) /\ link # v => QueueVideoLeft(row, link, l)[v] # NotQueued
           /\ removals[v] = NotQueued => QueueVideoLeft(row, link, l)[v].by = NoVideo
BY QueueingChanges, RowKinds DEF QueueVideoLeft, Holds, NotQueued

(* Every way a row of the queue changes.                                   *)
LEMMA QueueMoves ==
    ASSUME TypeOK, [Next]_vars, NEW v \in Videos
    PROVE  \/ removals'[v] = removals[v]
           \/ /\ removals'[v] = NotQueued /\ Held(v)
              /\ \E p \in Pollers : ClaimVideoRemovals(p)
           \/ removals'[v] = NotQueued /\ \E p \in Pollers : FinishVideoRemoval(p, v)
           \/ /\ removals[v] = NotQueued /\ removals'[v] # NotQueued
              /\ \/ \E s \in Staff :
                       /\ UploadWrite(s) /\ request[s].seen.video = v
                       /\ removals'[v].by = request[s].video
                 \/ /\ removals'[v].by = NoVideo
                    /\ \/ \E s \in Staff :
                             AddWrite(s) /\ request[s].seen.video = v /\ request[s].link # v
                       \/ \E l \in Lessons, link \in PastedLinks :
                             Update(l, link) /\ recording[l].video = v /\ link # v
<1> DEFINE Moves ==
           \/ removals'[v] = removals[v]
           \/ /\ removals'[v] = NotQueued /\ Held(v)
              /\ \E p \in Pollers : ClaimVideoRemovals(p)
           \/ removals'[v] = NotQueued /\ \E p \in Pollers : FinishVideoRemoval(p, v)
           \/ /\ removals[v] = NotQueued /\ removals'[v] # NotQueued
              /\ \/ \E s \in Staff :
                       /\ UploadWrite(s) /\ request[s].seen.video = v
                       /\ removals'[v].by = request[s].video
                 \/ /\ removals'[v].by = NoVideo
                    /\ \/ \E s \in Staff :
                             AddWrite(s) /\ request[s].seen.video = v /\ request[s].link # v
                       \/ \E l \in Lessons, link \in PastedLinks :
                             Update(l, link) /\ recording[l].video = v /\ link # v
<1> USE DEF TypeOK
<1>1. CASE removals' = removals
  BY <1>1
<1>2. ASSUME NEW s \in Staff, RequestStep(s)
      PROVE  Moves
  <2>1. CASE UploadWrite(s)
    <3>1. /\ request[s].seen \in Rows /\ request[s].lesson \in Lessons
          /\ request[s].seen.provider = "BUNNY" => request[s].seen.video \in Videos
      BY <2>1, RequestTypes, RowKinds DEF UploadWrite
    <3>2. \/ removals' = removals
          \/ /\ request[s].seen.video \in Videos
             /\ removals' = QueueVideoRemoval(request[s].seen.video, request[s].lesson, request[s].video)
      BY <2>1, <3>1 DEF UploadWrite
    <3>3. \/ removals'[v] = removals[v]
          \/ /\ request[s].seen.video = v /\ removals[v] = NotQueued
             /\ removals'[v] # NotQueued /\ removals'[v].by = request[s].video
      BY <3>1, <3>2, QueueingChanges
    <3> QED
      BY <2>1, <3>3
  <2>2. CASE AddWrite(s)
    <3>1. request[s].seen \in Rows /\ request[s].lesson \in Lessons
      BY <2>2, RequestTypes DEF AddWrite
    <3>2. removals' = QueueVideoLeft(request[s].seen, request[s].link, request[s].lesson)
      BY <2>2 DEF AddWrite
    <3>3. request[s].seen.video # v => ~Holds(request[s].seen, v)
      BY DEF Holds
    <3>4. \/ removals'[v] = removals[v]
          \/ /\ request[s].seen.video = v /\ request[s].link # v /\ removals[v] = NotQueued
             /\ removals'[v] # NotQueued /\ removals'[v].by = NoVideo
      BY <3>1, <3>2, QueueingLeftChanges, RowKinds DEF Holds
    <3> QED
      BY <2>2, <3>4
  <2> QED
    BY <1>1, <1>2, <2>1, <2>2
    DEF RequestStep, UploadStart, CreateVideo, UploadRead, AddRead, RequestFails
<1>3. ASSUME NEW l \in Lessons, LessonStep(l)
      PROVE  Moves
  <2>1. ASSUME NEW link \in PastedLinks, Update(l, link)
        PROVE  Moves
    <3>1. \/ removals'[v] = removals[v]
          \/ /\ recording[l].video = v /\ link # v /\ removals[v] = NotQueued
             /\ removals'[v] # NotQueued /\ removals'[v].by = NoVideo
      BY <2>1, QueueingLeftChanges, RowKinds DEF Holds, Update
    <3> QED
      BY <2>1, <3>1
  <2> QED
    BY <1>1, <1>3, <2>1
    DEF LessonStep, Resign, ArchiveLesson, RestoreLesson, CancelLesson, PurgeLesson
<1>4. ASSUME NEW w \in Videos, LibraryStep(w)
      PROVE  Moves
  BY <1>1, <1>4 DEF LibraryStep, FileArrives, EncodingEnds, PanelUpload, PanelDelete,
              LifetimePasses, VideoBecomes
<1>5. ASSUME NEW p \in Pollers, PollStep(p)
      PROVE  Moves
  <2>1. CASE ClaimVideoRemovals(p)
    BY <2>1 DEF ClaimVideoRemovals
  <2>2. ASSUME NEW w \in Videos, FinishVideoRemoval(p, w)
        PROVE  Moves
    BY <2>2 DEF FinishVideoRemoval
  <2> QED
    BY <1>1, <1>5, <2>1, <2>2
    DEF PollStep, PollStart, PollRead, PollSkip, SettleBunnyUpload, DeleteVideo,
        DeleteVideoFails, PollEnds, PollCrashes
<1> QED
  BY <1>1, <1>2, <1>3, <1>4, <1>5 DEF Next, vars

(* A removal leaves the queue only when the video is gone or held again, in *)
(* spite of lost answers, crashes and other instances (finishVideoRemoval,  *)
(* failVideoRemoval, claimVideoRemovals).                                   *)
THEOREM RemovalKept == Spec => RemovalIsNeverForgotten
<1>1. TypeOK /\ SettlingInv /\ [Next]_vars =>
          [\A v \in Videos : Queued(v) /\ ~Queued(v)' => library[v] \in Gone \/ Held(v)]_vars
  <2> SUFFICES ASSUME TypeOK, SettlingInv, [Next]_vars, NEW v \in Videos, Queued(v), ~Queued(v)'
               PROVE  library[v] \in Gone \/ Held(v)
    OBVIOUS
  <2>1. ASSUME NEW p \in Pollers, FinishVideoRemoval(p, v)
        PROVE  library[v] \in Gone
    BY <2>1 DEF FinishVideoRemoval, SettlingInv, PollsKnow
  <2> QED
    BY <2>1, QueueMoves DEF Queued
<1> QED
  BY <1>1, TypeCorrect, SettlingCorrect, PTL DEF Spec, RemovalIsNeverForgotten

-----------------------------------------------------------------------------
(* Uploads: locks, new videos, running uploads.                            *)

LEMMA InitUploads == Init => UploadsInv
BY DEF Init, UploadsInv, LocksHold, NewVideosAreUnknown, AtMostOneHolder, RunningUploadsAreKept,
       IdleRequest, IdlePoll, InTransaction, IsNew, Unknown, Held, Holds, NoRecording,
       Processing, Queued, AboutToDelete

(* A row holds the video it names.                                         *)
LEMMA RowsHoldTheirVideo ==
    ASSUME TypeOK, NEW l \in Lessons, NEW v \in Videos
    PROVE  /\ Holds(recording[l], v) <=> recording[l].video = v
           /\ Processing(l) => /\ recording[l].upload
                               /\ recording[l].video \in Videos
BY RowKinds DEF TypeOK, Holds, Processing

(* A request that is in a transaction after a step was in it before, with   *)
(* the same reading, or has just read its lesson.                           *)
LEMMA TransactionMoves ==
    ASSUME TypeOK, [Next]_vars, NEW s \in Staff, InTransaction(s)'
    PROVE  \/ request'[s] = request[s] /\ InTransaction(s)
           \/ /\ request'[s].seen = recording[request'[s].lesson]
              /\ request'[s].lesson \in Lessons
              /\ Unlocked(request'[s].lesson)
              /\ request'[s].pc = "write" =>
                    UploadReplaces(request'[s].seen, request'[s].replaceVideo)
              /\ recording' = recording /\ \A t \in Staff \ {s} : request'[t] = request[t]
<1> DEFINE Moves ==
        \/ request'[s] = request[s] /\ InTransaction(s)
        \/ /\ request'[s].seen = recording[request'[s].lesson]
           /\ request'[s].lesson \in Lessons
           /\ Unlocked(request'[s].lesson)
           /\ request'[s].pc = "write" =>
                 UploadReplaces(request'[s].seen, request'[s].replaceVideo)
           /\ recording' = recording /\ \A t \in Staff \ {s} : request'[t] = request[t]
<1> USE DEF TypeOK
<1>1. CASE request'[s] = request[s]
  BY <1>1 DEF InTransaction
<1>2. ASSUME NEW r \in Staff, RequestStep(r)
      PROVE  Moves
  <2>1. CASE r # s
    BY <1>1, <1>2, <2>1 DEF RequestStep, UploadStart, CreateVideo, UploadRead, UploadWrite,
       AddRead, AddWrite, RequestFails
  <2>2. CASE r = s /\ UploadRead(s)
    BY <2>2, RequestTypes DEF UploadRead, InTransaction, IdleRequest
  <2>3. ASSUME r = s, NEW l \in Lessons, NEW link \in PastedLinks, AddRead(s, l, link)
        PROVE  Moves
    BY <2>3 DEF AddRead
  <2>4. ASSUME NEW l \in Lessons, NEW replaceVideo \in BOOLEAN, UploadStart(s, l, replaceVideo)
        PROVE  Moves
    BY <2>4 DEF UploadStart, InTransaction
  <2>5. CASE CreateVideo(s) \/ UploadWrite(s) \/ AddWrite(s) \/ RequestFails(s)
    BY <2>5 DEF CreateVideo, UploadWrite, AddWrite, RequestFails, InTransaction, IdleRequest
  <2> QED
    BY <1>2, <2>1, <2>2, <2>3, <2>4, <2>5 DEF RequestStep
<1>3. CASE UNCHANGED vars \/ (\E l \in Lessons : LessonStep(l)) \/ (\E v \in Videos : LibraryStep(v))
           \/ (\E p \in Pollers : PollStep(p))
  BY <1>1, <1>3 DEF vars, LessonStep, LibraryStep, PollStep, VideoBecomes,
     Resign, Update, ArchiveLesson, RestoreLesson, CancelLesson, PurgeLesson,
     FileArrives, EncodingEnds, PanelUpload, PanelDelete, LifetimePasses,
     PollStart, PollRead, PollSkip, SettleBunnyUpload, ClaimVideoRemovals,
     DeleteVideo, DeleteVideoFails, FinishVideoRemoval, PollEnds, PollCrashes
<1> QED
  BY <1>2, <1>3 DEF Next

LEMMA LocksStep ==
    ASSUME TypeOK, TypeOK', LocksHold, [Next]_vars
    PROVE  LocksHold'
<1>1. ASSUME NEW s \in Staff, NEW t \in Staff, InTransaction(s)', InTransaction(t)',
             request'[s].lesson = request'[t].lesson
      PROVE  s = t
  <2>1. ASSUME NEW r \in Staff, NEW q \in Staff, r # q, InTransaction(r)', InTransaction(q)',
               request'[r].lesson = request'[q].lesson,
               ~(request'[r] = request[r] /\ InTransaction(r))
        PROVE  FALSE
    <3>1. Unlocked(request'[r].lesson) /\ request'[q] = request[q]
      BY <2>1, TransactionMoves
    <3>2. InTransaction(q) /\ request[q].lesson = request'[r].lesson
      BY <2>1, <3>1 DEF InTransaction
    <3> QED
      BY <3>1, <3>2 DEF Unlocked, LocksLesson
  <2> QED
    BY <1>1, <2>1 DEF LocksHold
<1>2. ASSUME NEW s \in Staff, InTransaction(s)'
      PROVE  LET row == recording'[request'[s].lesson]
                 seen == request'[s].seen IN
             /\ row.upload => Holds(seen, row.video)
             /\ row.status = "PROCESSING" => seen = row
             /\ request'[s].pc = "write" => UploadReplaces(seen, request'[s].replaceVideo)
  <2> DEFINE l == request'[s].lesson
  <2>1. l \in Lessons
    BY <1>2, RequestTypes, TransactionMoves DEF InTransaction
  <2>2. CASE ~(request'[s] = request[s] /\ InTransaction(s))
    <3>1. request'[s].seen = recording[l] /\ recording' = recording
          /\ (request'[s].pc = "write" => UploadReplaces(request'[s].seen, request'[s].replaceVideo))
      BY <1>2, <2>2, TransactionMoves
    <3>2. recording[l].upload => Holds(recording[l], recording[l].video)
      BY <2>1, RowKinds DEF TypeOK, Holds
    <3> QED
      BY <3>1, <3>2
  <2>3. CASE request'[s] = request[s] /\ InTransaction(s)
    <3>1. /\ recording[l].upload => Holds(request[s].seen, recording[l].video)
          /\ recording[l].status = "PROCESSING" => request[s].seen = recording[l]
          /\ request[s].pc = "write" => UploadReplaces(request[s].seen, request[s].replaceVideo)
      BY <2>3 DEF LocksHold
    <3>2. CASE recording'[l] = recording[l]
      BY <2>3, <3>1, <3>2
    <3>3. CASE recording'[l].upload = FALSE /\ recording'[l].status # "PROCESSING"
      BY <2>3, <3>1, <3>3
    <3>4. ASSUME NEW t \in Staff, UploadWrite(t), request[t].lesson = l
          PROVE  FALSE
      BY <2>3, <3>4 DEF LocksHold, InTransaction, UploadWrite, TypeOK, IdleRequest
    <3>5. ASSUME NEW p \in Pollers,
                 recording[l] = Upload(poll[p].upload.video, "PROCESSING"),
                 recording'[l] = Upload(poll[p].upload.video, poll[p].outcome),
                 poll[p].pc = "outcome"
          PROVE  /\ recording'[l].upload => Holds(request[s].seen, recording'[l].video)
                 /\ recording'[l].status # "PROCESSING"
      <4>1. recording'[l].status = poll[p].outcome /\ recording'[l].video = recording[l].video
            /\ recording[l].upload
        BY <3>5 DEF Upload
      <4> QED
        BY <3>1, <3>5, <4>1, PollTypes
    <3> QED
      BY <2>1, <2>3, <3>1, <3>2, <3>3, <3>4, <3>5, RowMoves
  <2> QED
    BY <2>2, <2>3
<1> QED
  BY <1>1, <1>2 DEF LocksHold

(* A video with a file keeps having had one, and a new one gets a browser's *)
(* signature only when a row holds it.                                      *)
LEMMA NewLibraryMoves ==
    ASSUME TypeOK, [Next]_vars, NEW v \in Videos
    PROVE  /\ v \in PastedLinks => v \in PastedLinks'
           /\ library'[v] = "none" => library[v] = "none"
           /\ library[v] = "none" =>
                 \/ library'[v] \in {"none", "finished"}
                 \/ \E s \in Staff : CreateVideo(s) /\ library'[v] = "created"
                 \/ \E p \in Pollers : AboutToDelete(p, v)
           /\ library[v] \in {"created", "late", "voided"} =>
                 \/ library'[v] \in {"created", "late", "voided"}
                 \/ \E s \in Staff : UploadWrite(s) /\ request[s].video = v
                 \/ \E l \in Lessons : recording[l].video = v
                 \/ \E p \in Pollers : AboutToDelete(p, v)
<1> DEFINE Moves ==
        /\ v \in PastedLinks => v \in PastedLinks'
        /\ library'[v] = "none" => library[v] = "none"
        /\ library[v] = "none" =>
              \/ library'[v] \in {"none", "finished"}
              \/ \E s \in Staff : CreateVideo(s) /\ library'[v] = "created"
              \/ \E p \in Pollers : AboutToDelete(p, v)
        /\ library[v] \in {"created", "late", "voided"} =>
              \/ library'[v] \in {"created", "late", "voided"}
              \/ \E s \in Staff : UploadWrite(s) /\ request[s].video = v
              \/ \E l \in Lessons : recording[l].video = v
              \/ \E p \in Pollers : AboutToDelete(p, v)
<1> USE DEF TypeOK, PastedLinks, Waiting, VideoStates
<1>1. CASE library'[v] = library[v]
  BY <1>1
<1>2. ASSUME NEW s \in Staff, RequestStep(s)
      PROVE  Moves
  <2>1. CASE CreateVideo(s)
    <3>1. library'[v] = library[v] \/ (library[v] = "none" /\ library'[v] = "created")
      BY <2>1 DEF CreateVideo
    <3> QED
      BY <2>1, <3>1
  <2>2. CASE UploadWrite(s)
    <3>1. \/ library'[v] = library[v]
          \/ request[s].video = v /\ library[v] = "created" /\ library'[v] = "signed"
      BY <2>2, RequestTypes DEF UploadWrite, SignedState
    <3> QED
      BY <2>2, <3>1, NoVideoAssumption
  <2> QED
    BY <1>1, <1>2, <2>1, <2>2 DEF RequestStep, UploadStart, UploadRead, AddRead, AddWrite, RequestFails
<1>3. ASSUME NEW l \in Lessons, LessonStep(l)
      PROVE  Moves
  <2>1. CASE Resign(l)
    <3>1. \/ library'[v] = library[v]
          \/ recording[l].video = v /\ library[v] = "created" /\ library'[v] = "signed"
      BY <2>1, RowsHoldTheirVideo DEF Resign, SignedState
    <3> QED
      BY <3>1, NoVideoAssumption
  <2> QED
    BY <1>1, <1>3, <2>1
    DEF LessonStep, Update, ArchiveLesson, RestoreLesson, CancelLesson, PurgeLesson
<1>4. ASSUME NEW w \in Videos, LibraryStep(w)
      PROVE  Moves
  <2>1. CASE w # v
    BY <1>1, <1>4, <2>1 DEF LibraryStep, FileArrives, EncodingEnds, PanelUpload, PanelDelete,
       LifetimePasses, VideoBecomes
  <2>2. CASE w = v /\ (FileArrives(v) \/ EncodingEnds(v) \/ PanelUpload(v) \/ LifetimePasses(v))
    BY <2>2, NoVideoAssumption DEF FileArrives, EncodingEnds, PanelUpload, LifetimePasses, VideoBecomes
  <2>3. CASE w = v /\ PanelDelete(v)
    BY <2>3, NoVideoAssumption DEF PanelDelete, VideoBecomes, InLibrary, Gone
  <2> QED
    BY <1>4, <2>1, <2>2, <2>3 DEF LibraryStep
<1>5. ASSUME NEW p \in Pollers, PollStep(p)
      PROVE  Moves
  <2>1. ASSUME NEW w \in Videos, DeleteVideo(p, w) \/ DeleteVideoFails(p, w)
        PROVE  Moves
    <3>1. \/ library'[v] = library[v]
          \/ AboutToDelete(p, v) /\ library'[v] = "deleted"
      BY <2>1 DEF DeleteVideo, DeleteVideoFails, DeletedByPoll, AboutToDelete
    <3> QED
      BY <3>1, NoVideoAssumption
  <2> QED
    BY <1>1, <1>5, <2>1
    DEF PollStep, PollStart, PollRead, PollSkip, SettleBunnyUpload, ClaimVideoRemovals,
        FinishVideoRemoval, PollEnds, PollCrashes
<1> QED
  BY <1>1, <1>2, <1>3, <1>4, <1>5 DEF Next, vars

(* Every way a recording comes to hold a video.                            *)
LEMMA HoldingMoves ==
    ASSUME TypeOK, [Next]_vars, NEW l \in Lessons, NEW v \in Videos, recording'[l].video = v
    PROVE  \/ recording[l].video = v
           \/ /\ \A m \in Lessons \ {l} : recording'[m] = recording[m]
              /\ \/ \E s \in Staff :
                       UploadWrite(s) /\ request[s].video = v /\ request[s].lesson = l
                 \/ \E s \in Staff :
                       AddWrite(s) /\ request[s].link = v /\ request[s].lesson = l
                 \/ v \in PastedLinks /\ Update(l, v)
<1> DEFINE Moves ==
        \/ recording[l].video = v
        \/ /\ \A m \in Lessons \ {l} : recording'[m] = recording[m]
           /\ \/ \E s \in Staff : UploadWrite(s) /\ request[s].video = v /\ request[s].lesson = l
              \/ \E s \in Staff : AddWrite(s) /\ request[s].link = v /\ request[s].lesson = l
              \/ v \in PastedLinks /\ Update(l, v)
<1> USE DEF TypeOK
<1>1. CASE recording' = recording
  BY <1>1
<1>2. \A link : LinkRow(link).video = v => link = v
  BY NoVideoAssumption DEF LinkRow, Link, Pasted
<1>3. ASSUME NEW s \in Staff, RequestStep(s)
      PROVE  Moves
  <2>1. CASE UploadWrite(s)
    <3> DEFINE row == Upload(request[s].video, "PROCESSING")
    <3>1. request[s].lesson \in Lessons /\ recording' = [recording EXCEPT ![request[s].lesson] = row]
      BY <2>1, RequestTypes DEF UploadWrite
    <3>2. row.video = request[s].video
      BY DEF Upload
    <3> HIDE DEF row
    <3> QED
      BY <2>1, <3>1, <3>2
  <2>2. CASE AddWrite(s)
    <3> DEFINE row == LinkRow(request[s].link)
    <3>1. request[s].lesson \in Lessons /\ recording' = [recording EXCEPT ![request[s].lesson] = row]
      BY <2>2, RequestTypes DEF AddWrite
    <3>2. row.video = v => request[s].link = v
      BY <1>2
    <3> HIDE DEF row
    <3> QED
      BY <2>2, <3>1, <3>2
  <2> QED
    BY <1>1, <1>3, <2>1, <2>2
    DEF RequestStep, UploadStart, CreateVideo, UploadRead, AddRead, RequestFails
<1>4. ASSUME NEW k \in Lessons, LessonStep(k)
      PROVE  Moves
  <2>1. ASSUME NEW link \in PastedLinks, Update(k, link)
        PROVE  Moves
    <3> DEFINE row == LinkRow(link)
    <3>1. recording' = [recording EXCEPT ![k] = row]
      BY <2>1 DEF Update
    <3>2. row.video = v => link = v
      BY <1>2
    <3> HIDE DEF row
    <3>3. CASE k = l /\ link = v
      BY <2>1, <3>1, <3>3
    <3>4. CASE ~(k = l /\ link = v)
      BY <3>1, <3>2, <3>4
    <3> QED
      BY <3>3, <3>4
  <2>2. CASE PurgeLesson(k)
    BY <2>2, NoVideoAssumption DEF PurgeLesson, NoRecording
  <2> QED
    BY <1>1, <1>4, <2>1, <2>2 DEF LessonStep, Resign, ArchiveLesson, RestoreLesson, CancelLesson
<1>5. ASSUME NEW w \in Videos, LibraryStep(w)
      PROVE  Moves
  BY <1>1, <1>5 DEF LibraryStep, FileArrives, EncodingEnds, PanelUpload, PanelDelete,
              LifetimePasses, VideoBecomes
<1>6. ASSUME NEW p \in Pollers, PollStep(p)
      PROVE  Moves
  <2>1. ASSUME NEW u \in Uploads, SettleBunnyUpload(p, u)
        PROVE  Moves
    BY <2>1 DEF SettleBunnyUpload, Upload, Uploads
  <2> QED
    BY <1>1, <1>6, <2>1
    DEF PollStep, PollStart, PollRead, PollSkip, ClaimVideoRemovals, DeleteVideo,
        DeleteVideoFails, FinishVideoRemoval, PollEnds, PollCrashes
<1> QED
  BY <1>1, <1>3, <1>4, <1>5, <1>6 DEF Next, vars

(* A poll is about to delete what it was about to delete, or what is due.  *)
LEMMA DeletingMoves ==
    ASSUME TypeOK, [Next]_vars, NEW p \in Pollers, NEW v \in Videos, AboutToDelete(p, v)'
    PROVE  AboutToDelete(p, v) \/ Due(v)
<1> USE DEF TypeOK, AboutToDelete
<1>1. CASE poll'[p] = poll[p]
  BY <1>1
<1>2. ASSUME NEW q \in Pollers, PollStep(q)
      PROVE  AboutToDelete(p, v) \/ Due(v)
  <2>1. CASE q # p
    BY <1>1, <1>2, <2>1 DEF PollStep, PollStart, PollRead, PollSkip, SettleBunnyUpload,
       ClaimVideoRemovals, DeleteVideo, DeleteVideoFails, FinishVideoRemoval, PollEnds, PollCrashes
  <2>2. CASE q = p /\ ClaimVideoRemovals(p)
    BY <2>2 DEF ClaimVideoRemovals
  <2>3. ASSUME NEW w \in Videos, DeleteVideo(p, w) \/ DeleteVideoFails(p, w) \/ FinishVideoRemoval(p, w)
        PROVE  AboutToDelete(p, v) \/ Due(v)
    <3>1. CASE DeleteVideo(p, w)
      BY <3>1 DEF DeleteVideo
    <3>2. CASE DeleteVideoFails(p, w)
      BY <3>2 DEF DeleteVideoFails
    <3>3. CASE FinishVideoRemoval(p, w)
      BY <3>3 DEF FinishVideoRemoval
    <3> QED
      BY <2>3, <3>1, <3>2, <3>3
  <2>4. ASSUME \/ PollStart(p) \/ PollEnds(p) \/ PollCrashes(p)
               \/ \E u \in Uploads : PollRead(p, u) \/ PollSkip(p, u) \/ SettleBunnyUpload(p, u)
        PROVE  FALSE
    <3>1. poll'[p].pc \in {"settle", "outcome", "idle"}
      <4>1. CASE PollStart(p) \/ PollEnds(p) \/ PollCrashes(p)
        BY <4>1 DEF PollStart, PollEnds, PollCrashes, IdlePoll
      <4>2. ASSUME NEW u \in Uploads, PollRead(p, u)
            PROVE  poll'[p].pc = "outcome"
        BY <4>2 DEF PollRead
      <4>3. ASSUME NEW u \in Uploads, PollSkip(p, u)
            PROVE  poll'[p].pc = "settle"
        BY <4>3 DEF PollSkip
      <4>4. ASSUME NEW u \in Uploads, SettleBunnyUpload(p, u)
            PROVE  poll'[p].pc = "settle"
        BY <4>4 DEF SettleBunnyUpload
      <4> QED
        BY <2>4, <4>1, <4>2, <4>3, <4>4
    <3> QED
      BY <3>1
  <2> QED
    BY <1>2, <2>1, <2>2, <2>3, <2>4 DEF PollStep
<1>3. CASE UNCHANGED vars \/ (\E s \in Staff : RequestStep(s)) \/ (\E l \in Lessons : LessonStep(l))
           \/ (\E w \in Videos : LibraryStep(w))
  BY <1>1, <1>3 DEF vars, RequestStep, LessonStep, LibraryStep, VideoBecomes,
     UploadStart, CreateVideo, UploadRead, UploadWrite, AddRead, AddWrite, RequestFails,
     Resign, Update, ArchiveLesson, RestoreLesson, CancelLesson, PurgeLesson,
     FileArrives, EncodingEnds, PanelUpload, PanelDelete, LifetimePasses
<1> QED
  BY <1>2, <1>3 DEF Next

(* Nothing but its own request's commit makes an unknown video known, as   *)
(* long as staff paste only the links of videos that have had a file.      *)
LEMMA UnknownStays ==
    ASSUME TypeOK, TypeOK', NewVideosAreUnknown, [Next]_vars,
           NEW v \in Videos, Unknown(v), v \notin PastedLinks,
           \A s \in Staff : ~(UploadWrite(s) /\ request[s].video = v)
    PROVE  Unknown(v)'
<1>1. \A l \in Lessons : recording[l].video # v
  BY RowsHoldTheirVideo DEF Unknown, Held
<1>2. \A s \in Staff : AddWrite(s) => request[s].link # v
  BY DEF AddWrite, NewVideosAreUnknown
<1>3. \A l \in Lessons : recording'[l].video # v
  BY <1>1, <1>2, HoldingMoves
<1>4. \A s \in Staff : (UploadWrite(s) \/ AddWrite(s)) => request[s].seen.video # v
  BY DEF Unknown, UploadWrite, AddWrite, InTransaction
<1>5. ~Queued(v)'
  BY <1>1, <1>4, QueueMoves DEF Unknown, Queued
<1>6. \A s \in Staff : InTransaction(s)' => request'[s].seen.video # v
  BY <1>1, TransactionMoves DEF Unknown
<1>7. \A p \in Pollers : ~AboutToDelete(p, v)'
  BY DeletingMoves DEF Unknown, Due
<1>8. ~Held(v)'
  BY <1>3 DEF Held, Holds
<1> QED
  BY <1>5, <1>6, <1>7, <1>8 DEF Unknown

(* A video is new after a step if it was, or if the step created it.       *)
LEMMA NewMoves ==
    ASSUME TypeOK, [Next]_vars, NEW s \in Staff, request'[s].pc \in {"lock", "write"}
    PROVE  \/ request'[s].video = request[s].video /\ request[s].pc \in {"lock", "write"}
              /\ ~UploadWrite(s)
           \/ /\ CreateVideo(s) /\ request'[s].video \in Videos
              /\ library[request'[s].video] = "none"
              /\ library'[request'[s].video] = "created"
              /\ \A t \in Staff \ {s} : request'[t] = request[t]
<1> DEFINE Moves ==
        \/ request'[s].video = request[s].video /\ request[s].pc \in {"lock", "write"}
           /\ ~UploadWrite(s)
        \/ /\ CreateVideo(s) /\ request'[s].video \in Videos
           /\ library[request'[s].video] = "none"
           /\ library'[request'[s].video] = "created"
           /\ \A t \in Staff \ {s} : request'[t] = request[t]
<1> USE DEF TypeOK
<1>1. UploadWrite(s) => request'[s].pc = "idle"
  BY DEF UploadWrite, IdleRequest
<1>2. CASE request'[s] = request[s]
  BY <1>1, <1>2
<1>3. ASSUME NEW r \in Staff, RequestStep(r)
      PROVE  Moves
  <2>1. CASE r # s
    BY <1>2, <1>3, <2>1 DEF RequestStep, UploadStart, CreateVideo, UploadRead, UploadWrite,
       AddRead, AddWrite, RequestFails
  <2>2. CASE r = s /\ UploadRead(s)
    <3>1. request[s].pc = "lock"
      BY <2>2 DEF UploadRead
    <3>2. ~UploadWrite(s)
      BY <3>1 DEF UploadWrite
    <3>3. request'[s] = IdleRequest \/ request'[s].video = request[s].video
      BY <2>2 DEF UploadRead
    <3> QED
      BY <3>1, <3>2, <3>3 DEF IdleRequest
  <2>3. CASE r = s /\ CreateVideo(s)
    <3> PICK v \in Videos :
            /\ library[v] = "none"
            /\ library' = [library EXCEPT ![v] = "created"]
            /\ request' = [request EXCEPT ![s] =
                   [pc |-> "lock", lesson |-> @.lesson, replaceVideo |-> @.replaceVideo,
                    video |-> v]]
      BY <2>3 DEF CreateVideo
    <3>1. request'[s].video = v /\ \A t \in Staff \ {s} : request'[t] = request[t]
      OBVIOUS
    <3> QED
      BY <2>3, <3>1
  <2>4. ASSUME NEW l \in Lessons, NEW link \in PastedLinks, AddRead(s, l, link)
        PROVE  FALSE
    BY <2>4 DEF AddRead
  <2>5. ASSUME NEW l \in Lessons, NEW replaceVideo \in BOOLEAN, UploadStart(s, l, replaceVideo)
        PROVE  FALSE
    BY <2>5 DEF UploadStart
  <2>6. CASE UploadWrite(s) \/ AddWrite(s) \/ RequestFails(s)
    BY <2>6 DEF UploadWrite, AddWrite, RequestFails, IdleRequest
  <2> QED
    BY <1>3, <2>1, <2>2, <2>3, <2>4, <2>5, <2>6 DEF RequestStep
<1>4. CASE UNCHANGED vars \/ (\E l \in Lessons : LessonStep(l)) \/ (\E v \in Videos : LibraryStep(v))
           \/ (\E p \in Pollers : PollStep(p))
  BY <1>2, <1>4 DEF vars, LessonStep, LibraryStep, PollStep, VideoBecomes,
     Resign, Update, ArchiveLesson, RestoreLesson, CancelLesson, PurgeLesson,
     FileArrives, EncodingEnds, PanelUpload, PanelDelete, LifetimePasses,
     PollStart, PollRead, PollSkip, SettleBunnyUpload, ClaimVideoRemovals,
     DeleteVideo, DeleteVideoFails, FinishVideoRemoval, PollEnds, PollCrashes
<1> QED
  BY <1>3, <1>4 DEF Next

(* A link that a request carries was pasted when the request began.        *)
LEMMA LinkMoves ==
    ASSUME TypeOK, TypeOK', NewVideosAreUnknown, [Next]_vars,
           NEW s \in Staff, request'[s].pc = "add"
    PROVE  request'[s].link \in PastedLinks'
<1>1. request'[s].link \in PastedLinks
  <2>1. CASE request'[s] = request[s]
    BY <2>1 DEF NewVideosAreUnknown
  <2>2. ASSUME NEW r \in Staff, RequestStep(r)
        PROVE  request'[s] = request[s] \/ request'[s].link \in PastedLinks
    <3>1. ASSUME NEW l \in Lessons, NEW link \in PastedLinks, AddRead(r, l, link)
          PROVE  request'[s] = request[s] \/ request'[s].link \in PastedLinks
      BY <3>1 DEF AddRead, TypeOK
    <3>2. ASSUME NEW l \in Lessons, NEW replaceVideo \in BOOLEAN, UploadStart(r, l, replaceVideo)
          PROVE  request'[s] = request[s]
      BY <3>2 DEF UploadStart, TypeOK
    <3>3. CASE CreateVideo(r) \/ UploadRead(r) \/ UploadWrite(r) \/ AddWrite(r) \/ RequestFails(r)
      BY <3>3 DEF CreateVideo, UploadRead, UploadWrite, AddWrite, RequestFails, IdleRequest, TypeOK
    <3> QED
      BY <2>2, <3>1, <3>2, <3>3 DEF RequestStep
  <2>3. CASE UNCHANGED vars \/ (\E l \in Lessons : LessonStep(l)) \/ (\E v \in Videos : LibraryStep(v))
             \/ (\E p \in Pollers : PollStep(p))
    BY <2>1, <2>3 DEF vars, LessonStep, LibraryStep, PollStep, VideoBecomes,
       Resign, Update, ArchiveLesson, RestoreLesson, CancelLesson, PurgeLesson,
       FileArrives, EncodingEnds, PanelUpload, PanelDelete, LifetimePasses,
       PollStart, PollRead, PollSkip, SettleBunnyUpload, ClaimVideoRemovals,
       DeleteVideo, DeleteVideoFails, FinishVideoRemoval, PollEnds, PollCrashes
  <2> QED
    BY <2>1, <2>2, <2>3 DEF Next
<1> QED
  BY <1>1, NewLibraryMoves DEF PastedLinks

LEMMA NewVideosStep ==
    ASSUME TypeOK, TypeOK', NewVideosAreUnknown, [Next]_vars
    PROVE  NewVideosAreUnknown'
<1>1. ASSUME NEW s \in Staff, NEW t \in Staff,
             request'[s].pc \in {"lock", "write"}, request'[t].pc \in {"lock", "write"},
             request'[s].video = request'[t].video
      PROVE  s = t
  <2>1. ASSUME NEW r \in Staff, NEW q \in Staff, r # q, CreateVideo(r),
               library[request'[r].video] = "none", request'[r].video \in Videos,
               request'[q] = request[q], request[q].pc \in {"lock", "write"},
               request'[r].video = request'[q].video
        PROVE  FALSE
    BY <2>1 DEF NewVideosAreUnknown, IsNew
  <2> QED
    BY <1>1, <2>1, NewMoves DEF NewVideosAreUnknown
<1>2. ASSUME NEW v \in Videos
      PROVE  /\ IsNew(v)' => library'[v] \in {"created", "late", "voided"}
             /\ IsNew(v)' \/ library'[v] = "none" => Unknown(v)'
  <2>1. CASE IsNew(v)' /\ ~\E s \in Staff : UploadWrite(s) /\ request[s].video = v
    <3>1. IsNew(v) \/ (library[v] = "none" /\ library'[v] = "created")
      BY <2>1, NewMoves DEF IsNew
    <3>2. Unknown(v)
      BY <3>1 DEF NewVideosAreUnknown
    <3>3. library[v] \in {"none", "created", "late", "voided"}
      BY <3>1 DEF NewVideosAreUnknown
    <3>4. Unknown(v)'
      BY <2>1, <3>2, <3>3, UnknownStays, NoVideoAssumption DEF PastedLinks, Waiting
    <3>5. library'[v] \in {"created", "late", "voided"}
      BY <2>1, <3>1, <3>2, NewLibraryMoves, RowsHoldTheirVideo
      DEF Unknown, Held, NewVideosAreUnknown
    <3> QED
      BY <3>4, <3>5
  <2>2. ASSUME NEW s \in Staff, UploadWrite(s), request[s].video = v
        PROVE  ~IsNew(v)' /\ library[v] # "none"
    <3>1. IsNew(v)
      BY <2>2 DEF UploadWrite, IsNew
    <3>2. library[v] # "none"
      BY <3>1 DEF NewVideosAreUnknown
    <3>3. ASSUME NEW t \in Staff, request'[t].pc \in {"lock", "write"}, request'[t].video = v
          PROVE  FALSE
      <4>1. request[t].pc \in {"lock", "write"} /\ request[t].video = v /\ ~UploadWrite(t)
        BY <2>2, <3>2, <3>3, NewMoves DEF UploadWrite
      <4>2. t = s
        BY <2>2, <4>1 DEF NewVideosAreUnknown, UploadWrite
      <4> QED
        BY <2>2, <4>1, <4>2
    <3> QED
      BY <3>2, <3>3 DEF IsNew
  <2>3. CASE library'[v] = "none"
    <3>1. library[v] = "none" /\ Unknown(v)
      BY <2>3, NewLibraryMoves DEF NewVideosAreUnknown
    <3> QED
      BY <2>1, <2>2, <2>3, <3>1, UnknownStays, NoVideoAssumption DEF PastedLinks, Waiting
  <2> QED
    BY <2>1, <2>2, <2>3
<1> QED
  BY <1>1, <1>2, LinkMoves DEF NewVideosAreUnknown

LEMMA HoldersStep ==
    ASSUME TypeOK, TypeOK', NewVideosAreUnknown, AtMostOneHolder, [Next]_vars
    PROVE  AtMostOneHolder'
<1> SUFFICES ASSUME NEW l \in Lessons, NEW m \in Lessons, NEW v \in Videos, l # m,
                    recording'[l].video = v, recording'[m].video = v
             PROVE  FALSE
  BY DEF AtMostOneHolder, Holds
<1>1. ~(recording[l].video = v /\ recording[m].video = v)
  BY RowsHoldTheirVideo DEF AtMostOneHolder
<1>2. ASSUME NEW h \in Lessons, NEW k \in Lessons, h # k,
             recording'[k] = recording[k], recording'[k].video = v,
             \/ \E s \in Staff : UploadWrite(s) /\ request[s].video = v /\ request[s].lesson = h
             \/ \E s \in Staff : AddWrite(s) /\ request[s].link = v /\ request[s].lesson = h
             \/ v \in PastedLinks /\ Update(h, v)
      PROVE  FALSE
  <2>1. Holds(recording[k], v) /\ Held(v)
    BY <1>2, RowsHoldTheirVideo DEF Held
  <2>2. ASSUME NEW s \in Staff, UploadWrite(s), request[s].video = v
        PROVE  FALSE
    BY <2>1, <2>2 DEF UploadWrite, IsNew, NewVideosAreUnknown, Unknown
  <2>3. ~VideoFree(v, h)
    BY <1>2, <2>1, NoVideoAssumption DEF VideoFree
  <2> QED
    BY <1>2, <2>2, <2>3 DEF AddWrite, Update
<1> QED
  BY <1>1, <1>2, HoldingMoves

(* A step leaves a running upload alone, or it is the commit that began it. *)
LEMMA RunningMoves ==
    ASSUME TypeOK, [Next]_vars, NEW l \in Lessons, Processing(l)'
    PROVE  \/ recording'[l] = recording[l]
           \/ \E s \in Staff :
                 /\ UploadWrite(s) /\ request[s].lesson = l
                 /\ recording'[l].video = request[s].video
<1>1. ASSUME NEW s \in Staff, recording'[l] = Upload(request[s].video, "PROCESSING")
      PROVE  recording'[l].video = request[s].video
  BY <1>1 DEF Upload
<1>2. ASSUME NEW p \in Pollers, poll[p].pc = "outcome",
             recording'[l] = Upload(poll[p].upload.video, poll[p].outcome)
      PROVE  FALSE
  BY <1>2, PollTypes DEF Upload, Processing
<1> QED
  BY <1>1, <1>2, RowMoves DEF Processing

(* A transaction that began over a running upload has read it.             *)
LEMMA RunningStep ==
    ASSUME TypeOK, TypeOK', UploadsInv, [Next]_vars
    PROVE  RunningUploadsAreKept'
<1> USE DEF UploadsInv
<1>1. ASSUME NEW s \in Staff, UploadWrite(s), NEW v \in Videos, v = request[s].video
      PROVE  /\ ~Queued(v)' /\ library'[v] # "deleted"
             /\ \A p \in Pollers : ~AboutToDelete(p, v)'
             /\ \A t \in Staff : InTransaction(t)' => request'[t].seen.video # v
  <2>1. IsNew(v) /\ InTransaction(s) /\ request[s].seen.video # v
    BY <1>1, RequestTypes DEF UploadWrite, IsNew, NewVideosAreUnknown, Unknown, InTransaction
  <2>2. Unknown(v) /\ library[v] \in {"created", "late", "voided"}
    BY <2>1 DEF NewVideosAreUnknown
  <2>3. ~Queued(v)'
    <3>1. removals[v] = NotQueued
      BY <2>2 DEF Unknown, Queued
    <3>2. removals'[v] = removals[v]
      <4>1. request[s].seen \in Rows
        BY <2>1, <1>1, RequestTypes DEF UploadWrite
      <4> QED
        BY <1>1, <2>1, <4>1, QueueingChanges, RowKinds DEF UploadWrite, TypeOK
    <3> QED
      BY <3>1, <3>2 DEF Queued
  <2>4. library'[v] # "deleted"
    BY <1>1, <2>1, <2>2 DEF UploadWrite, SignedState, TypeOK
  <2>5. \A p \in Pollers : ~AboutToDelete(p, v)'
    BY <2>1, <2>2, DeletingMoves DEF Unknown, Due
  <2>6. \A t \in Staff : InTransaction(t)' => request'[t].seen.video # v
    BY <1>1, <2>2, <2>1 DEF UploadWrite, Unknown, InTransaction, TypeOK, IdleRequest
  <2> QED
    BY <1>1, <2>3, <2>4, <2>5, <2>6
<1>2. ASSUME NEW l \in Lessons, Processing(l), recording'[l] = recording[l],
             NEW v \in Videos, v = recording[l].video
      PROVE  /\ ~Queued(v)' /\ library'[v] # "deleted"
             /\ \A p \in Pollers : ~AboutToDelete(p, v)'
             /\ \A t \in Staff :
                   InTransaction(t)' /\ request'[t].seen.video = v => l = request'[t].lesson
  <2>1. Holds(recording[l], v) /\ Held(v)
    BY <1>2, RowsHoldTheirVideo DEF Held
  <2>2. /\ ~Queued(v) /\ library[v] # "deleted"
        /\ \A p \in Pollers : ~AboutToDelete(p, v)
        /\ \A s \in Staff : InTransaction(s) /\ request[s].seen.video = v => l = request[s].lesson
    BY <1>2 DEF RunningUploadsAreKept
  <2>3. ~Queued(v)'
    <3>1. ASSUME NEW s \in Staff, UploadWrite(s), request[s].seen.video = v
          PROVE  FALSE
      <4>1. request[s].lesson = l /\ recording'[l] = Upload(request[s].video, "PROCESSING")
        BY <2>2, <3>1, RequestTypes DEF UploadWrite, InTransaction, TypeOK
      <4>2. request[s].video # v
        BY <2>1, <3>1 DEF UploadWrite, NewVideosAreUnknown, IsNew, Unknown
      <4> QED
        BY <1>2, <4>1, <4>2 DEF Upload
    <3>2. ASSUME NEW s \in Staff, AddWrite(s), request[s].seen.video = v
          PROVE  FALSE
      <4>1. request[s].lesson = l /\ recording'[l] = LinkRow(request[s].link)
        BY <2>2, <3>2, RequestTypes DEF AddWrite, InTransaction, TypeOK
      <4> QED
        BY <1>2, <4>1, LinkRowsAreNoUploads DEF Processing
    <3>3. ASSUME NEW m \in Lessons, NEW link \in PastedLinks, Update(m, link), recording[m].video = v
          PROVE  FALSE
      <4>1. m = l
        BY <2>1, <3>3, RowsHoldTheirVideo DEF AtMostOneHolder
      <4>2. recording'[l] = LinkRow(link)
        BY <3>3, <4>1 DEF Update, TypeOK
      <4> QED
        BY <1>2, <4>2, LinkRowsAreNoUploads DEF Processing
    <3> QED
      BY <2>1, <2>2, <3>1, <3>2, <3>3, QueueMoves DEF Queued
  <2>4. library'[v] # "deleted"
    <3>1. ASSUME NEW p \in Pollers, PollStep(p)
          PROVE  library'[v] = library[v]
      BY <2>1, <2>2, <3>1 DEF PollStep, PollStart, PollRead, PollSkip, SettleBunnyUpload,
         ClaimVideoRemovals, DeleteVideo, DeleteVideoFails, DeletedByPoll, FinishVideoRemoval,
         PollEnds, PollCrashes, AboutToDelete, TypeOK
    <3>2. ASSUME NEW s \in Staff, RequestStep(s)
          PROVE  library'[v] # "deleted"
      BY <2>1, <2>2, <3>2 DEF RequestStep, UploadStart, CreateVideo, UploadRead, UploadWrite,
         SignedState, AddRead, AddWrite, RequestFails, TypeOK
    <3>3. ASSUME NEW m \in Lessons, LessonStep(m)
          PROVE  library'[v] # "deleted"
      BY <2>1, <2>2, <3>3 DEF LessonStep, Resign, Update, ArchiveLesson, RestoreLesson,
         CancelLesson, PurgeLesson, SignedState, TypeOK
    <3>4. ASSUME NEW w \in Videos, LibraryStep(w)
          PROVE  library'[v] # "deleted"
      BY <2>1, <2>2, <3>4 DEF LibraryStep, FileArrives, EncodingEnds, PanelUpload, PanelDelete,
         LifetimePasses, VideoBecomes, TypeOK
    <3> QED
      BY <2>2, <3>1, <3>2, <3>3, <3>4 DEF Next, vars
  <2>5. \A p \in Pollers : ~AboutToDelete(p, v)'
    BY <2>1, <2>2, DeletingMoves DEF Due
  <2>6. ASSUME NEW t \in Staff, InTransaction(t)', request'[t].seen.video = v
        PROVE  l = request'[t].lesson
    <3>1. CASE request'[t] = request[t] /\ InTransaction(t)
      BY <2>2, <2>6, <3>1
    <3>2. CASE request'[t].lesson \in Lessons /\ recording[request'[t].lesson].video = v
      BY <2>1, <3>2, RowsHoldTheirVideo DEF AtMostOneHolder
    <3> QED
      BY <2>6, <3>1, <3>2, TransactionMoves
  <2> QED
    BY <1>2, <2>3, <2>4, <2>5, <2>6
<1> QED
  <2> SUFFICES ASSUME NEW l \in Lessons, Processing(l)'
               PROVE  /\ ~Queued(recording[l].video)' /\ library'[recording'[l].video] # "deleted"
                      /\ \A p \in Pollers : ~AboutToDelete(p, recording[l].video)'
                      /\ \A s \in Staff :
                            InTransaction(s)' /\ request'[s].seen.video = recording'[l].video
                              => l = request'[s].lesson
    BY DEF RunningUploadsAreKept
  <2> PICK v \in Videos : v = recording'[l].video
    BY RowKinds DEF TypeOK, Processing
  <2>1. /\ ~Queued(v)' /\ library'[v] # "deleted"
        /\ \A p \in Pollers : ~AboutToDelete(p, v)'
        /\ \A s \in Staff :
              InTransaction(s)' /\ request'[s].seen.video = v => l = request'[s].lesson
    <3>1. CASE recording'[l] = recording[l]
      BY <1>2, <3>1 DEF Processing
    <3>2. ASSUME NEW s \in Staff, UploadWrite(s), recording'[l].video = request[s].video
          PROVE  /\ ~Queued(v)' /\ library'[v] # "deleted"
                 /\ \A p \in Pollers : ~AboutToDelete(p, v)'
                 /\ \A t \in Staff : InTransaction(t)' => request'[t].seen.video # v
      BY <1>1, <3>2
    <3> QED
      BY <3>1, <3>2, RunningMoves
  <2> QED
    BY <2>1 DEF Queued, AboutToDelete

LEMMA UploadsStep == TypeOK /\ UploadsInv /\ [Next]_vars => UploadsInv'
BY NextType, LocksStep, NewVideosStep, HoldersStep, RunningStep DEF UploadsInv

THEOREM UploadsCorrect == Spec => []UploadsInv
BY InitType, NextType, InitUploads, UploadsStep, PTL DEF Spec

(* No Bunny video is the recording of two sessions, whoever writes them at  *)
(* once (assertVideoFree and the unique index).                             *)
THEOREM OneHolder == Spec => []AtMostOneHolder
BY UploadsCorrect, PTL DEF UploadsInv

(* No queue row, pending deletion or finished deletion of any instance ever *)
(* meets the video of an upload that is still PROCESSING.                   *)
THEOREM RunningUploadSafe == Spec => []RunningUploadKept
<1>1. UploadsInv => RunningUploadKept
  BY DEF UploadsInv, RunningUploadsAreKept, RunningUploadKept, AboutToDelete
<1> QED
  BY <1>1, UploadsCorrect, PTL

(* The lesson's lock serialises uploads: one never takes the place of       *)
(* another still PROCESSING that it was not asked to replace                *)
(* (startBunnyUpload).                                                      *)
THEOREM UploadsSerialised == Spec => UploadsAreSerialised
<1>1. TypeOK /\ UploadsInv /\ [Next]_vars =>
          [\A s \in Staff :
              LET l == request[s].lesson IN
              request[s].pc = "write" /\ request'[s] # request[s]
                /\ recording'[l] # recording[l] /\ Processing(l)
                  => request[s].replaceVideo]_vars
  <2> SUFFICES ASSUME TypeOK, UploadsInv, NEW s \in Staff, request[s].pc = "write",
                      Processing(request[s].lesson)
               PROVE  request[s].replaceVideo
    OBVIOUS
  <2>1. recording[request[s].lesson] = request[s].seen
        /\ UploadReplaces(request[s].seen, request[s].replaceVideo)
    BY DEF UploadsInv, LocksHold, InTransaction, Processing
  <2> QED
    BY <2>1, RowKinds, RequestTypes DEF UploadReplaces, Processing
<1> QED
  BY <1>1, TypeCorrect, UploadsCorrect, PTL DEF Spec, UploadsAreSerialised

(* An uploaded video leaves its recording into the removal queue or with    *)
(* its course: no interleaving of uploads, added and changed links leaves   *)
(* one in the library for good.                                             *)
THEOREM ReplacedQueued == Spec => ReplacedUploadIsQueued
<1>1. TypeOK /\ UploadsInv /\ [Next]_vars =>
          [\A l \in Lessons :
              recording[l].upload /\ recording'[l].video # recording[l].video
                => removals'[recording[l].video] # NotQueued \/ l \in purged']_vars
  <2> SUFFICES ASSUME TypeOK, UploadsInv, [Next]_vars, NEW l \in Lessons,
                      recording[l].upload, recording'[l].video # recording[l].video
               PROVE  removals'[recording[l].video] # NotQueued \/ l \in purged'
    OBVIOUS
  <2> USE DEF TypeOK
  <2>1. recording[l].video \in Videos /\ Holds(recording[l], recording[l].video)
    BY RowKinds DEF Holds
  <2>2. ASSUME NEW s \in Staff, InTransaction(s), request[s].lesson = l
        PROVE  request[s].seen \in Rows /\ Holds(request[s].seen, recording[l].video)
    BY <2>2, RequestTypes DEF UploadsInv, LocksHold, InTransaction
  <2>3. ASSUME NEW s \in Staff, UploadWrite(s), request[s].lesson = l
        PROVE  removals'[recording[l].video] # NotQueued
    <3>1. removals' = QueueVideoRemoval(recording[l].video, l, request[s].video)
      BY <2>2, <2>3 DEF UploadWrite, InTransaction, Holds
    <3> QED
      BY <2>1, <3>1, QueueingChanges
  <2>4. ASSUME NEW s \in Staff, AddWrite(s), request[s].lesson = l
        PROVE  removals'[recording[l].video] # NotQueued
    <3>1. recording'[l] = LinkRow(request[s].link)
          /\ removals' = QueueVideoLeft(request[s].seen, request[s].link, l)
      BY <2>4 DEF AddWrite
    <3>2. request[s].link # recording[l].video
      BY <2>1, <3>1, NoVideoAssumption DEF LinkRow, Pasted
    <3> QED
      BY <2>1, <2>2, <2>4, <3>1, <3>2, QueueingLeftChanges DEF AddWrite, InTransaction
  <2>5. ASSUME NEW link \in PastedLinks, Update(l, link)
        PROVE  removals'[recording[l].video] # NotQueued
    <3>1. recording'[l] = LinkRow(link)
          /\ removals' = QueueVideoLeft(recording[l], link, l)
      BY <2>5 DEF Update
    <3>2. link # recording[l].video
      BY <2>1, <3>1, NoVideoAssumption DEF LinkRow, Pasted
    <3> QED
      BY <2>1, <3>1, <3>2, QueueingLeftChanges
  <2>6. CASE PurgeLesson(l)
    BY <2>6 DEF PurgeLesson
  <2>7. ASSUME NEW s \in Staff, RequestStep(s)
        PROVE  removals'[recording[l].video] # NotQueued
    <3>1. (UploadWrite(s) \/ AddWrite(s)) /\ request[s].lesson = l
      BY <2>7 DEF RequestStep, UploadStart, CreateVideo, UploadRead, UploadWrite, AddRead,
         AddWrite, RequestFails
    <3> QED
      BY <2>3, <2>4, <3>1
  <2>8. ASSUME NEW m \in Lessons, LessonStep(m)
        PROVE  PurgeLesson(l) \/ \E link \in PastedLinks : Update(l, link)
    BY <2>8 DEF LessonStep, Resign, Update, ArchiveLesson, RestoreLesson, CancelLesson, PurgeLesson
  <2>9. ASSUME NEW w \in Videos, LibraryStep(w)
        PROVE  FALSE
    BY <2>9 DEF LibraryStep, FileArrives, EncodingEnds, PanelUpload, PanelDelete,
       LifetimePasses, VideoBecomes
  <2>10. ASSUME NEW p \in Pollers, PollStep(p)
         PROVE  FALSE
    <3>1. ASSUME NEW u \in Uploads, SettleBunnyUpload(p, u)
          PROVE  recording'[l].video = recording[l].video
      BY <3>1 DEF SettleBunnyUpload, Upload, Uploads
    <3> QED
      BY <2>10, <3>1 DEF PollStep, PollStart, PollRead, PollSkip, ClaimVideoRemovals,
         DeleteVideo, DeleteVideoFails, FinishVideoRemoval, PollEnds, PollCrashes
  <2> QED
    BY <2>5, <2>6, <2>7, <2>8, <2>9, <2>10 DEF Next, vars
<1> QED
  BY <1>1, TypeCorrect, UploadsCorrect, PTL DEF Spec, ReplacedUploadIsQueued

-----------------------------------------------------------------------------
(* Removals that wait for the upload which took the video's place.          *)

(* One tedrisat instance, hence one encoding poll.                          *)
OneInstance == \A p, q \in Pollers : p = q

LEMMA InitRemovals == Init => RemovalsInv
BY DEF Init, RemovalsInv, ReplacementsAreRecorded, DueStaysDue, AboutToDelete, NotQueued, IdlePoll

(* The video of an upload that a commit has recorded is not new any more.   *)
LEMMA RecordedIsOld ==
    ASSUME TypeOK, NewVideosAreUnknown, [Next]_vars, NEW s \in Staff, UploadWrite(s)
    PROVE  \E w \in Videos : w = request[s].video /\ library'[w] # "none" /\ ~IsNew(w)'
<1>1. request[s].video \in Videos /\ IsNew(request[s].video)
  BY RequestTypes DEF UploadWrite, IsNew, TypeOK
<1>2. library[request[s].video] # "none"
  BY <1>1 DEF NewVideosAreUnknown
<1>3. library'[request[s].video] # "none"
  BY <1>1, <1>2, NewLibraryMoves
<1>4. ASSUME NEW t \in Staff, request'[t].pc \in {"lock", "write"},
             request'[t].video = request[s].video
      PROVE  FALSE
  <2>1. request[t].pc \in {"lock", "write"} /\ request[t].video = request[s].video
        /\ ~UploadWrite(t)
    BY <1>2, <1>4, NewMoves
  <2>2. t = s
    BY <2>1 DEF NewVideosAreUnknown, UploadWrite
  <2> QED
    BY <2>1, <2>2
<1>5. \A w \in Videos : w = request[s].video => ~IsNew(w)'
  BY <1>4 DEF IsNew
<1> QED
  BY <1>1, <1>3, <1>5

(* A video that is neither new nor unborn stays so.                         *)
LEMMA OldStaysOld ==
    ASSUME TypeOK, [Next]_vars, NEW v \in Videos, library[v] # "none", ~IsNew(v)
    PROVE  library'[v] # "none" /\ ~IsNew(v)'
<1>1. ASSUME NEW s \in Staff, request'[s].pc \in {"lock", "write"}, request'[s].video = v
      PROVE  FALSE
  BY <1>1, NewMoves DEF IsNew
<1> QED
  BY <1>1, NewLibraryMoves DEF IsNew

LEMMA ReplacementsStep ==
    ASSUME TypeOK, NewVideosAreUnknown, ReplacementsAreRecorded, [Next]_vars
    PROVE  ReplacementsAreRecorded'
<1> SUFFICES ASSUME NEW v \in Videos, removals'[v].by # NoVideo
             PROVE  \E w \in Videos :
                       w = removals'[v].by /\ library'[w] # "none" /\ ~IsNew(w)'
  BY DEF ReplacementsAreRecorded, IsNew
<1>1. CASE removals'[v] = removals[v]
  <2>1. removals[v].by \in Videos
    BY <1>1 DEF TypeOK, Removals, NotQueued
  <2> QED
    BY <1>1, <2>1, OldStaysOld DEF ReplacementsAreRecorded
<1>2. ASSUME NEW s \in Staff, UploadWrite(s), removals'[v].by = request[s].video
      PROVE  \E w \in Videos :
                w = removals'[v].by /\ library'[w] # "none" /\ ~IsNew(w)'
  BY <1>2, RecordedIsOld
<1> QED
  BY <1>1, <1>2, QueueMoves DEF NotQueued

(* No commit begins the upload that a queued removal already waits for.     *)
LEMMA WaitIsOver ==
    ASSUME TypeOK, ReplacementsAreRecorded, [Next]_vars, NEW v \in Videos,
           removals'[v] = removals[v], Queued(v), ~ReplacementRunning(v)
    PROVE  ~ReplacementRunning(v)'
<1> SUFFICES ASSUME removals[v].by # NoVideo,
                    recording'[removals[v].on] = Upload(removals[v].by, "PROCESSING")
             PROVE  FALSE
  BY DEF ReplacementRunning
<1>1. removals[v].on \in Lessons
  BY DEF TypeOK, Removals, Queued
<1>2. recording'[removals[v].on].status = "PROCESSING"
      /\ recording'[removals[v].on].video = removals[v].by
  BY DEF Upload
<1>3. recording'[removals[v].on] # recording[removals[v].on]
  BY DEF ReplacementRunning
<1>4. PICK s \in Staff : UploadWrite(s) /\ removals[v].by = request[s].video
  <2>1. \A l \in Lessons : l = removals[v].on => Processing(l)'
    BY <1>2 DEF Processing
  <2> QED
    BY <1>1, <1>2, <1>3, <2>1, RunningMoves
<1>5. IsNew(removals[v].by)
  BY <1>4 DEF UploadWrite, IsNew
<1> QED
  BY <1>5 DEF ReplacementsAreRecorded

LEMMA DueStep ==
    ASSUME OneInstance, TypeOK, TypeOK', ReplacementsAreRecorded, DueStaysDue, [Next]_vars
    PROVE  DueStaysDue'
<1>1. ASSUME NEW p \in Pollers, NEW v \in Videos, AboutToDelete(p, v)'
      PROVE  Queued(v)' /\ ~ReplacementRunning(v)'
  <2>1. Queued(v) /\ ~ReplacementRunning(v)
    BY <1>1, DeletingMoves DEF Due, DueStaysDue
  <2>2. ASSUME NEW q \in Pollers, ClaimVideoRemovals(q), Held(v)
        PROVE  FALSE
    BY <1>1, <2>2 DEF OneInstance, ClaimVideoRemovals, AboutToDelete, Due, TypeOK
  <2>3. ASSUME NEW q \in Pollers, FinishVideoRemoval(q, v)
        PROVE  FALSE
    BY <1>1, <2>3 DEF OneInstance, FinishVideoRemoval, AboutToDelete, DueStaysDue, TypeOK
  <2>4. removals'[v] = removals[v]
    BY <2>1, <2>2, <2>3, QueueMoves DEF Queued
  <2> QED
    BY <2>1, <2>4, WaitIsOver DEF Queued
<1>2. ASSUME NEW p \in Pollers, poll'[p].pc = "finish"
      PROVE  poll'[p].video \notin poll'[p].due
  <2>1. CASE poll'[p] = poll[p]
    BY <1>2, <2>1 DEF DueStaysDue
  <2>2. ASSUME NEW q \in Pollers, PollStep(q)
        PROVE  poll'[p].video \notin poll'[p].due
    <3>1. CASE q # p
      BY <2>1, <2>2, <3>1 DEF PollStep, PollStart, PollRead, PollSkip, SettleBunnyUpload,
         ClaimVideoRemovals, DeleteVideo, DeleteVideoFails, FinishVideoRemoval, PollEnds,
         PollCrashes, TypeOK
    <3>2. ASSUME NEW v \in Videos, DeleteVideo(p, v)
          PROVE  poll'[p].video \notin poll'[p].due
      BY <3>2 DEF DeleteVideo, TypeOK
    <3>3. ASSUME NEW v \in Videos, DeleteVideoFails(p, v) \/ FinishVideoRemoval(p, v)
          PROVE  FALSE
      <4>1. CASE DeleteVideoFails(p, v)
        <5>1. poll[p].pc = "remove" /\ poll'[p].pc = poll[p].pc
          BY <4>1 DEF DeleteVideoFails, TypeOK
        <5> QED
          BY <1>2, <5>1
      <4>2. CASE FinishVideoRemoval(p, v)
        <5>1. poll'[p].pc = "remove"
          BY <4>2 DEF FinishVideoRemoval, TypeOK
        <5> QED
          BY <1>2, <5>1
      <4> QED
        BY <3>3, <4>1, <4>2
    <3>4. ASSUME \/ PollStart(p) \/ PollEnds(p) \/ PollCrashes(p) \/ ClaimVideoRemovals(p)
                 \/ \E u \in Uploads : PollRead(p, u) \/ PollSkip(p, u) \/ SettleBunnyUpload(p, u)
          PROVE  FALSE
      <4>1. poll'[p].pc \in {"settle", "outcome", "idle", "remove"}
        <5>1. CASE PollStart(p) \/ PollEnds(p) \/ PollCrashes(p) \/ ClaimVideoRemovals(p)
          BY <5>1 DEF PollStart, PollEnds, PollCrashes, IdlePoll, ClaimVideoRemovals, TypeOK
        <5>2. ASSUME NEW u \in Uploads, PollRead(p, u)
              PROVE  poll'[p].pc = "outcome"
          BY <5>2 DEF PollRead, TypeOK
        <5>3. ASSUME NEW u \in Uploads, PollSkip(p, u)
              PROVE  poll'[p].pc = "settle"
          BY <5>3 DEF PollSkip, TypeOK
        <5>4. ASSUME NEW u \in Uploads, SettleBunnyUpload(p, u)
              PROVE  poll'[p].pc = "settle"
          BY <5>4 DEF SettleBunnyUpload, TypeOK
        <5> QED
          BY <3>4, <5>1, <5>2, <5>3, <5>4
      <4> QED
        BY <1>2, <4>1
    <3> QED
      BY <2>2, <3>1, <3>2, <3>3, <3>4 DEF PollStep
  <2>3. CASE UNCHANGED vars \/ (\E s \in Staff : RequestStep(s)) \/ (\E l \in Lessons : LessonStep(l))
             \/ (\E w \in Videos : LibraryStep(w))
    BY <2>1, <2>3 DEF vars, RequestStep, LessonStep, LibraryStep, VideoBecomes,
       UploadStart, CreateVideo, UploadRead, UploadWrite, AddRead, AddWrite, RequestFails,
       Resign, Update, ArchiveLesson, RestoreLesson, CancelLesson, PurgeLesson,
       FileArrives, EncodingEnds, PanelUpload, PanelDelete, LifetimePasses
  <2> QED
    BY <2>2, <2>3 DEF Next
<1> QED
  BY <1>1, <1>2 DEF DueStaysDue, AboutToDelete, Queued, ReplacementRunning

(* The upload a removal waits for is recorded, and with one instance a due  *)
(* removal stays due until that instance finishes it.                       *)
THEOREM RemovalsCorrect == OneInstance => (Spec => []RemovalsInv)
<1> SUFFICES ASSUME OneInstance
             PROVE  Spec => []RemovalsInv
  OBVIOUS
<1>1. TypeOK /\ UploadsInv /\ RemovalsInv /\ [Next]_vars => RemovalsInv'
  BY NextType, ReplacementsStep, DueStep DEF UploadsInv, RemovalsInv
<1> QED
  BY <1>1, InitRemovals, TypeCorrect, UploadsCorrect, PTL DEF Spec

(* Only a poll deletes a video, one that it is about to delete.             *)
LEMMA PollsDelete ==
    ASSUME TypeOK, [Next]_vars, NEW v \in Videos,
           library[v] # "deleted", library'[v] = "deleted"
    PROVE  \E p \in Pollers : AboutToDelete(p, v)
<1> USE DEF TypeOK
<1>1. ASSUME NEW s \in Staff, RequestStep(s)
      PROVE  FALSE
  <2>1. CASE UploadWrite(s)
    BY <2>1, RequestTypes DEF UploadWrite, SignedState
  <2>2. CASE CreateVideo(s)
    BY <2>2 DEF CreateVideo
  <2> QED
    BY <1>1, <2>1, <2>2 DEF RequestStep, UploadStart, UploadRead, AddRead, AddWrite, RequestFails
<1>2. ASSUME NEW l \in Lessons, LessonStep(l)
      PROVE  FALSE
  BY <1>2 DEF LessonStep, Resign, SignedState, Update, ArchiveLesson, RestoreLesson, CancelLesson,
     PurgeLesson
<1>3. ASSUME NEW w \in Videos, LibraryStep(w)
      PROVE  FALSE
  BY <1>3 DEF LibraryStep, FileArrives, EncodingEnds, PanelUpload, PanelDelete,
     LifetimePasses, VideoBecomes
<1>4. ASSUME NEW p \in Pollers, PollStep(p)
      PROVE  AboutToDelete(p, v)
  <2>1. ASSUME NEW w \in Videos, DeleteVideo(p, w) \/ DeleteVideoFails(p, w)
        PROVE  AboutToDelete(p, v)
    BY <2>1 DEF DeleteVideo, DeleteVideoFails, DeletedByPoll, AboutToDelete
  <2> QED
    BY <1>4, <2>1
    DEF PollStep, PollStart, PollRead, PollSkip, SettleBunnyUpload, ClaimVideoRemovals,
        FinishVideoRemoval, PollEnds, PollCrashes
<1> QED
  BY <1>1, <1>2, <1>3, <1>4 DEF Next, vars

(* With one instance, a video is deleted only when the upload its queue row *)
(* names is over, whatever was uploaded, added, changed or purged between   *)
(* the poll's reading of the queue and its call to Bunny                    *)
(* (claimVideoRemovals, deleteVideo). Of two instances it is not true: run  *)
(* recordings_two_polls.                                                    *)
THEOREM DeletedAfterReplacement == OneInstance => (Spec => DeletedOnlyAfterReplacement)
<1> SUFFICES ASSUME OneInstance
             PROVE  Spec => DeletedOnlyAfterReplacement
  OBVIOUS
<1>1. TypeOK /\ RemovalsInv /\ [Next]_vars =>
          [\A v \in Videos :
              library[v] # "deleted" /\ library'[v] = "deleted" => ~ReplacementRunning(v)]_vars
  BY PollsDelete DEF RemovalsInv, DueStaysDue
<1>2. Spec => []RemovalsInv
  BY RemovalsCorrect
<1> QED
  BY <1>1, <1>2, TypeCorrect, PTL DEF Spec, DeletedOnlyAfterReplacement

=============================================================================
