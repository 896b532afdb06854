----------------------------- MODULE Recordings -----------------------------
(***************************************************************************)
(* Lesson recordings and the Bunny Stream library                          *)
(* (apps/tedrisat/src/course, apps/tedrisat/src/bunny-stream).             *)
(*                                                                         *)
(* A session (lesson) has at most one recording row: a pasted link, or a   *)
(* video of the Bunny library that was uploaded through tedrisat or whose  *)
(* player link was pasted. Staff requests write the row; an encoding poll  *)
(* in every tedrisat instance settles the uploads that are PROCESSING and  *)
(* deletes from the library the videos that left their row, which wait in  *)
(* the table bunny_video_removals.                                         *)
(*                                                                         *)
(* A step of a request or of a poll is one call that takes effect          *)
(* atomically: one HTTP call to Bunny, or one database transaction. A      *)
(* transaction that locks the LESSON row but reads the RECORDING row       *)
(* without a lock (startBunnyUpload, create) is two steps, the read and    *)
(* the commit, because update() locks the recording row only and may       *)
(* commit between them.                                                    *)
(***************************************************************************)
EXTENDS FiniteSets

CONSTANTS
    Lessons,    \* sessions of courses
    Videos,     \* video ids (Bunny's guid)
    Staff,      \* requests of course staff that may be in flight at once
    Pollers,    \* tedrisat instances, each with one encoding poll
    NoVideo     \* the null video id

ASSUME NoVideoAssumption == NoVideo \notin Videos
ASSUME NoLessonAssumption == "NONE" \notin Lessons

VARIABLES
    archived,   \* lessons.archived_at set
    cancelled,  \* lessons.cancelled_at set
    purged,     \* lessons deleted with their course
    recording,  \* lesson_recordings: the row of each lesson
    removals,   \* bunny_video_removals: the row of each video
    library,    \* Bunny: what became of each video
    request,    \* the staff requests in flight
    poll        \* the encoding poll of each instance

lessonVars == <<archived, cancelled, purged>>
vars == <<lessonVars, recording, removals, library, request, poll>>

-----------------------------------------------------------------------------
(* The rows. `upload` is upload_expires_at: TRUE when startBunnyUpload set  *)
(* it to the end of the upload's lifetime, FALSE when a pasted link closed *)
(* it at once or the row has none.                                         *)

NoRecording == [provider |-> "NONE", status |-> "NONE", video |-> NoVideo, upload |-> FALSE]
Link == [provider |-> "LINK", status |-> "READY", video |-> NoVideo, upload |-> FALSE]
Pasted(v) == [provider |-> "BUNNY", status |-> "READY", video |-> v, upload |-> FALSE]
Upload(v, s) == [provider |-> "BUNNY", status |-> s, video |-> v, upload |-> TRUE]

Rows == {NoRecording, Link} \cup {Pasted(v) : v \in Videos}
        \cup {Upload(v, s) : v \in Videos, s \in {"PROCESSING", "READY", "FAILED"}}

NotQueued == [on |-> "NONE", by |-> NoVideo]
Removals == [on : Lessons, by : Videos \cup {NoVideo}]

(* A pasted link: another host's, or a Bunny video's player link.          *)
Links == Videos \cup {NoVideo}

(* Fault for TLC: a link of another host written as a Bunny row.           *)
LinkRowOfNoVideo(link) == Pasted(link)

(* linkColumns with status READY.                                          *)
LinkRow(link) == IF link = NoVideo THEN Link ELSE Pasted(link)

Holds(row, v) == row.provider = "BUNNY" /\ row.video = v
Processing(l) == recording[l].status = "PROCESSING"
Held(v) == \E l \in Lessons : Holds(recording[l], v)

(* assertVideoFree, backed by the unique index on bunny_video_id.          *)
VideoFree(link, l) == \A m \in Lessons \ {l} : link # NoVideo => ~Holds(recording[m], link)

(* uploadReplaces.                                                         *)
UploadReplaces(row, replaceVideo) ==
    \/ row.provider # "BUNNY"
    \/ row.status = "FAILED"
    \/ replaceVideo

(* Fault for TLC: the new upload's video queued in place of the old one.   *)
QueueNewVideo(v, l, by) ==
    [removals EXCEPT ![IF by = NoVideo THEN v ELSE by] = [on |-> l, by |-> NoVideo]]

(* queueVideoRemoval: a video already queued stays as it was.              *)
QueueVideoRemoval(v, l, by) ==
    IF removals[v] = NotQueued
    THEN [removals EXCEPT ![v] = [on |-> l, by |-> by]]
    ELSE removals

(* Fault for TLC: only a FAILED upload's video queued.                     *)
QueueFailedVideoLeft(row, link, l) ==
    IF row.provider = "BUNNY" /\ row.video # link /\ row.status = "FAILED"
    THEN QueueVideoRemoval(row.video, l, NoVideo)
    ELSE removals

(* videoLeftBy, and the removal queued for it.                             *)
QueueVideoLeft(row, link, l) ==
    IF row.provider = "BUNNY" /\ row.video # link
    THEN QueueVideoRemoval(row.video, l, NoVideo)
    ELSE removals

-----------------------------------------------------------------------------
(* Bunny's library. A created video waits for a file: nobody can send one  *)
(* until its upload is signed, and nobody any more once the upload's       *)
(* lifetime has passed. `lost` is a video deleted in Bunny's own panel,    *)
(* `voided` one deleted there before it had a file, `deleted` one deleted  *)
(* by a poll.                                                              *)

VideoStates == {"none", "created", "signed", "late", "encoding", "finished",
                "error", "lost", "voided", "deleted"}
Waiting == {"created", "signed", "late"}
Gone == {"lost", "voided", "deleted"}

InLibrary(v) == library[v] \notin Gone \cup {"none"}

(* uploadAuthorization handed to a browser.                                *)
SignedState(state) == IF state = "created" THEN "signed" ELSE state

(* The links staff paste: another host's, or the player link of a video    *)
(* that has, or had, a file.                                               *)
PastedLinks ==
    {NoVideo} \cup {v \in Videos : library[v] \notin Waiting \cup {"none", "voided"}}

(* Fault for TLC: an upload nobody completes waits past its lifetime.      *)
EncodingOutcomeNeverLate(v, late) ==
    IF library[v] = "finished" THEN "READY"
    ELSE IF library[v] \in Gone \cup {"error"} THEN "FAILED" ELSE "WAIT"

(* encodingOutcome of getVideo's answer; a video Bunny no longer has is    *)
(* FAILED. `late`: the lifetime had passed when the pass began. WAIT       *)
(* leaves the row PROCESSING.                                              *)
EncodingOutcome(v, late) ==
    IF library[v] = "finished" THEN "READY"
    ELSE IF library[v] \in Gone \cup {"error"} \/ late THEN "FAILED" ELSE "WAIT"

-----------------------------------------------------------------------------
(* Processes.                                                              *)

IdleRequest == [pc |-> "idle"]
UploadRequests ==
    [pc : {"create"}, lesson : Lessons, replaceVideo : BOOLEAN]
    \cup [pc : {"lock"}, lesson : Lessons, replaceVideo : BOOLEAN, video : Videos]
    \cup [pc : {"write"}, lesson : Lessons, replaceVideo : BOOLEAN,
          video : Videos, seen : Rows]
AddRequests == [pc : {"add"}, lesson : Lessons, link : Links, seen : Rows]

(* Fault for TLC: the lesson row read without its lock.                    *)
NeverLocked(l) == l \in Lessons

(* The transaction of request s has read a lesson and holds its lock.      *)
InTransaction(s) == request[s].pc \in {"write", "add"}
LocksLesson(s, l) == InTransaction(s) /\ request[s].lesson = l
Unlocked(l) == \A s \in Staff : ~LocksLesson(s, l)
Open(l) == l \notin archived \cup purged

IdlePoll == [pc |-> "idle"]
Uploads == [lesson : Lessons, video : Videos, late : BOOLEAN]
SettlePolls == [pc : {"settle"}, todo : SUBSET Uploads]
OutcomePolls ==
    [pc : {"outcome"}, todo : SUBSET Uploads, upload : Uploads,
     outcome : {"READY", "FAILED"}]
RemovePolls == [pc : {"remove"}, due : SUBSET Videos]
FinishPolls == [pc : {"finish"}, due : SUBSET Videos, video : Videos]

TypeOK ==
    /\ archived \subseteq Lessons
    /\ cancelled \subseteq Lessons
    /\ purged \subseteq Lessons
    /\ recording \in [Lessons -> Rows]
    /\ removals \in [Videos -> Removals \cup {NotQueued}]
    /\ library \in [Videos -> VideoStates]
    /\ request \in [Staff -> {IdleRequest} \cup UploadRequests \cup AddRequests]
    /\ poll \in [Pollers -> {IdlePoll} \cup SettlePolls \cup OutcomePolls
                              \cup RemovePolls \cup FinishPolls]

Init ==
    /\ archived = {} /\ cancelled = {} /\ purged = {}
    /\ recording = [l \in Lessons |-> NoRecording]
    /\ removals = [v \in Videos |-> NotQueued]
    /\ library = [v \in Videos |-> "none"]
    /\ request = [s \in Staff |-> IdleRequest]
    /\ poll = [p \in Pollers |-> IdlePoll]

-----------------------------------------------------------------------------
(* RecordingUploadService.start: the check before Bunny is called, the     *)
(* call, and the two halves of the startBunnyUpload transaction.           *)

UploadStart(s, l, replaceVideo) ==
    /\ request[s] = IdleRequest
    /\ Open(l)
    /\ UploadReplaces(recording[l], replaceVideo)
    /\ request' = [request EXCEPT ![s] =
           [pc |-> "create", lesson |-> l, replaceVideo |-> replaceVideo]]
    /\ UNCHANGED <<lessonVars, recording, removals, library, poll>>

CreateVideo(s) ==
    /\ request[s].pc = "create"
    /\ \E v \in Videos :
          /\ library[v] = "none"
          /\ library' = [library EXCEPT ![v] = "created"]
          /\ request' = [request EXCEPT ![s] =
                 [pc |-> "lock", lesson |-> @.lesson, replaceVideo |-> @.replaceVideo,
                  video |-> v]]
    /\ UNCHANGED <<lessonVars, recording, removals, poll>>

(* The lesson row FOR UPDATE, then the recording row, read unlocked. A     *)
(* refusal rolls back and leaves the empty video in the library.           *)
UploadRead(s) ==
    LET l == request[s].lesson IN
    /\ request[s].pc = "lock"
    /\ Unlocked(l)
    /\ request' = [request EXCEPT ![s] =
           IF Open(l) /\ UploadReplaces(recording[l], @.replaceVideo)
           THEN [pc |-> "write", lesson |-> l, replaceVideo |-> @.replaceVideo,
                 video |-> @.video, seen |-> recording[l]]
           ELSE IdleRequest]
    /\ UNCHANGED <<lessonVars, recording, removals, library, poll>>

(* The row written over whatever it holds by now, the video that was READ  *)
(* queued, and the upload signed for the browser, unless the instance dies *)
(* after the commit.                                                       *)
UploadWrite(s) ==
    LET l == request[s].lesson
        v == request[s].video
        seen == request[s].seen IN
    /\ request[s].pc = "write"
    /\ recording' = [recording EXCEPT ![l] = Upload(v, "PROCESSING")]
    /\ removals' = IF seen.provider = "BUNNY"
                   THEN QueueVideoRemoval(seen.video, l, v)
                   ELSE removals
    /\ library' \in {library, [library EXCEPT ![v] = SignedState(@)]}
    /\ request' = [request EXCEPT ![s] = IdleRequest]
    /\ UNCHANGED <<lessonVars, poll>>

(* RecordingUploadService.resign: refused unless PROCESSING and in time.   *)
Resign(l) ==
    LET v == recording[l].video IN
    /\ Processing(l)
    /\ library[v] = "created"
    /\ library' = [library EXCEPT ![v] = SignedState(@)]
    /\ UNCHANGED <<lessonVars, recording, removals, request, poll>>

-----------------------------------------------------------------------------
(* RecordingRepository.create, in its two halves, and update.              *)

AddRead(s, l, link) ==
    /\ request[s] = IdleRequest
    /\ Unlocked(l)
    /\ Open(l)
    /\ l \notin cancelled
    /\ \/ recording[l] = NoRecording
       \/ recording[l].provider = "BUNNY" /\ recording[l].status = "FAILED"
    /\ VideoFree(link, l)
    /\ request' = [request EXCEPT ![s] =
           [pc |-> "add", lesson |-> l, link |-> link, seen |-> recording[l]]]
    /\ UNCHANGED <<lessonVars, recording, removals, library, poll>>

AddWrite(s) ==
    LET l == request[s].lesson
        link == request[s].link IN
    /\ request[s].pc = "add"
    /\ VideoFree(link, l)
    /\ recording' = [recording EXCEPT ![l] = LinkRow(link)]
    /\ removals' = QueueVideoLeft(request[s].seen, link, l)
    /\ request' = [request EXCEPT ![s] = IdleRequest]
    /\ UNCHANGED <<lessonVars, library, poll>>

(* update() holds the recording row from its read to its commit.           *)
Update(l, link) ==
    /\ recording[l] # NoRecording
    /\ l \notin archived
    /\ VideoFree(link, l)
    /\ recording' = [recording EXCEPT ![l] = LinkRow(link)]
    /\ removals' = QueueVideoLeft(recording[l], link, l)
    /\ UNCHANGED <<lessonVars, library, request, poll>>

(* The request ends without an effect of its own: Bunny did not answer,    *)
(* the database refused, or the instance died. A transaction rolls back;   *)
(* a video already created stays in the library.                           *)
RequestFails(s) ==
    /\ request[s] # IdleRequest
    /\ request' = [request EXCEPT ![s] = IdleRequest]
    /\ UNCHANGED <<lessonVars, recording, removals, library, poll>>

-----------------------------------------------------------------------------
(* What else happens to a lesson; each of these updates its row.           *)

ArchiveLesson(l) ==
    /\ Open(l) /\ Unlocked(l)
    /\ archived' = archived \cup {l}
    /\ UNCHANGED <<cancelled, purged, recording, removals, library,
                   request, poll>>

RestoreLesson(l) ==
    /\ l \in archived \ purged
    /\ archived' = archived \ {l}
    /\ UNCHANGED <<cancelled, purged, recording, removals, library,
                   request, poll>>

CancelLesson(l) ==
    /\ Open(l) /\ Unlocked(l) /\ l \notin cancelled
    /\ cancelled' = cancelled \cup {l}
    /\ UNCHANGED <<archived, purged, recording, removals, library,
                   request, poll>>

(* purgeCourses deletes the recording row and queues nothing.              *)
PurgeLesson(l) ==
    /\ l \notin purged /\ Unlocked(l)
    /\ purged' = purged \cup {l}
    /\ recording' = [recording EXCEPT ![l] = NoRecording]
    /\ archived' = archived \ {l}
    /\ cancelled' = cancelled \ {l}
    /\ UNCHANGED <<removals, library, request, poll>>

-----------------------------------------------------------------------------
(* Bunny, the browser that uploads to it, and its panel (external).        *)

VideoBecomes(v, state) ==
    /\ library' = [library EXCEPT ![v] = state]
    /\ UNCHANGED <<lessonVars, recording, removals, request, poll>>

FileArrives(v) == library[v] = "signed" /\ VideoBecomes(v, "encoding")

EncodingEnds(v) ==
    /\ library[v] = "encoding"
    /\ \E end \in {"finished", "error"} : VideoBecomes(v, end)

LifetimePasses(v) ==
    library[v] \in {"created", "signed"} /\ VideoBecomes(v, "late")

PanelUpload(v) == library[v] = "none" /\ VideoBecomes(v, "finished")

PanelDelete(v) ==
    InLibrary(v) /\ VideoBecomes(v, IF library[v] \in Waiting THEN "voided" ELSE "lost")

-----------------------------------------------------------------------------
(* RecordingEncodingPoller.pollOnce: settle, then removeReplaced. `running` *)
(* keeps a pass of one instance from overlapping itself; nothing keeps two  *)
(* instances apart.                                                         *)

(* findProcessingBunnyUploads, with the clock of the pass.                 *)
PollStart(p) ==
    /\ poll[p] = IdlePoll
    /\ poll' = [poll EXCEPT ![p] =
           [pc |-> "settle",
            todo |-> {[lesson |-> l, video |-> recording[l].video,
                       late |-> library[recording[l].video] = "late"] :
                      l \in {m \in Lessons : Processing(m)}}]]
    /\ UNCHANGED <<lessonVars, recording, removals, library, request>>

(* getVideo answered with an outcome.                                      *)
PollRead(p, u) ==
    LET outcome == EncodingOutcome(u.video, u.late) IN
    /\ poll[p].pc = "settle" /\ u \in poll[p].todo
    /\ outcome # "WAIT"
    /\ poll' = [poll EXCEPT ![p] =
           [pc |-> "outcome", todo |-> @.todo \ {u}, upload |-> u,
            outcome |-> outcome]]
    /\ UNCHANGED <<lessonVars, recording, removals, library, request>>

(* The video is still waiting, or Bunny did not answer: touchBunnyUpload.  *)
PollSkip(p, u) ==
    /\ poll[p].pc = "settle" /\ u \in poll[p].todo
    /\ poll' = [poll EXCEPT ![p].todo = @ \ {u}]
    /\ UNCHANGED <<lessonVars, recording, removals, library, request>>

(* Fault for TLC: the row matched by its id and status alone.              *)
RowProcessing(u) == Processing(u.lesson)

StillProcessing(u) == recording[u.lesson] = Upload(u.video, "PROCESSING")

(* settleBunnyUpload: only a row still PROCESSING with this video.         *)
SettleBunnyUpload(p, u) ==
    LET outcome == poll[p].outcome IN
    /\ poll[p].pc = "outcome" /\ poll[p].upload = u
    /\ recording' =
          IF StillProcessing(u)
          THEN [recording EXCEPT ![u.lesson] = Upload(@.video, outcome)]
          ELSE recording
    /\ poll' = [poll EXCEPT ![p] = [pc |-> "settle", todo |-> @.todo]]
    /\ UNCHANGED <<lessonVars, removals, library, request>>

Queued(v) == removals[v] # NotQueued

(* The upload that took v's place is still PROCESSING on its recording.    *)
ReplacementRunning(v) ==
    removals[v].by # NoVideo
    /\ recording[removals[v].on] = Upload(removals[v].by, "PROCESSING")

(* Fault for TLC: deleted without waiting for the replacement.             *)
DueAtOnce(v) == Queued(v) /\ ~Held(v)

(* Fault for TLC: only videos an upload replaced.                          *)
DueAfterUpload(v) ==
    Queued(v) /\ ~Held(v) /\ removals[v].by # NoVideo /\ ~ReplacementRunning(v)

Due(v) == Queued(v) /\ ~Held(v) /\ ~ReplacementRunning(v)

(* claimVideoRemovals: rows of videos held again dropped, the due ones read.*)
ClaimVideoRemovals(p) ==
    /\ poll[p].pc = "settle" /\ poll[p].todo = {}
    /\ removals' = [v \in Videos |-> IF Held(v) THEN NotQueued ELSE removals[v]]
    /\ poll' = [poll EXCEPT ![p] =
           [pc |-> "remove", due |-> {v \in Videos : Due(v)}]]
    /\ UNCHANGED <<lessonVars, recording, library, request>>

DeletedByPoll(v) == [library EXCEPT ![v] = IF @ \in Gone THEN @ ELSE "deleted"]

(* deleteVideo, a 404 included: either way the library no longer has it.   *)
DeleteVideo(p, v) ==
    /\ poll[p].pc = "remove" /\ v \in poll[p].due
    /\ library' = DeletedByPoll(v)
    /\ poll' = [poll EXCEPT ![p] =
           [pc |-> "finish", due |-> @.due \ {v}, video |-> v]]
    /\ UNCHANGED <<lessonVars, recording, removals, request>>

(* Fault for TLC: a refused deletion taken off the queue like a done one.  *)
DeleteFailureFinished(p, v) ==
    /\ poll[p].pc = "remove" /\ v \in poll[p].due
    /\ poll' = [poll EXCEPT ![p] =
           [pc |-> "finish", due |-> @.due \ {v}, video |-> v]]
    /\ UNCHANGED <<lessonVars, recording, removals, library, request>>

(* Bunny refused, or its answer was lost: failVideoRemoval keeps the row.  *)
DeleteVideoFails(p, v) ==
    /\ poll[p].pc = "remove" /\ v \in poll[p].due
    /\ library' \in {library, DeletedByPoll(v)}
    /\ poll' = [poll EXCEPT ![p].due = @ \ {v}]
    /\ UNCHANGED <<lessonVars, recording, removals, request>>

(* finishVideoRemoval: the row and its audit entry in one transaction.     *)
FinishVideoRemoval(p, v) ==
    /\ poll[p].pc = "finish" /\ poll[p].video = v
    /\ removals' = [removals EXCEPT ![v] = NotQueued]
    /\ poll' = [poll EXCEPT ![p] = [pc |-> "remove", due |-> @.due]]
    /\ UNCHANGED <<lessonVars, recording, library, request>>

PollEnds(p) ==
    /\ poll[p].pc = "remove" /\ poll[p].due = {}
    /\ poll' = [poll EXCEPT ![p] = IdlePoll]
    /\ UNCHANGED <<lessonVars, recording, removals, library, request>>

(* The instance restarts, or a statement of the pass throws.               *)
PollCrashes(p) ==
    /\ poll[p] # IdlePoll
    /\ poll' = [poll EXCEPT ![p] = IdlePoll]
    /\ UNCHANGED <<lessonVars, recording, removals, library, request>>

-----------------------------------------------------------------------------
RequestStep(s) ==
    \/ \E l \in Lessons, replaceVideo \in BOOLEAN : UploadStart(s, l, replaceVideo)
    \/ CreateVideo(s)
    \/ UploadRead(s)
    \/ UploadWrite(s)
    \/ \E l \in Lessons, link \in PastedLinks : AddRead(s, l, link)
    \/ AddWrite(s)
    \/ RequestFails(s)

LessonStep(l) ==
    \/ Resign(l)
    \/ \E link \in PastedLinks : Update(l, link)
    \/ ArchiveLesson(l)
    \/ RestoreLesson(l)
    \/ CancelLesson(l)
    \/ PurgeLesson(l)

LibraryStep(v) ==
    \/ FileArrives(v)
    \/ EncodingEnds(v)
    \/ PanelUpload(v)
    \/ PanelDelete(v)
    \/ LifetimePasses(v)

PollStep(p) ==
    \/ PollStart(p)
    \/ \E u \in Uploads :
          PollRead(p, u) \/ PollSkip(p, u) \/ SettleBunnyUpload(p, u)
    \/ ClaimVideoRemovals(p)
    \/ \E v \in Videos :
          DeleteVideo(p, v) \/ DeleteVideoFails(p, v) \/ FinishVideoRemoval(p, v)
    \/ PollEnds(p)
    \/ PollCrashes(p)

Next ==
    \/ \E s \in Staff : RequestStep(s)
    \/ \E l \in Lessons : LessonStep(l)
    \/ \E v \in Videos : LibraryStep(v)
    \/ \E p \in Pollers : PollStep(p)

Spec == Init /\ [][Next]_vars

(***************************************************************************)
(* Every instance keeps starting passes (setInterval) and a pass keeps     *)
(* stepping; Bunny answers a read and a deletion infinitely often, a pass  *)
(* that keeps being cut short is not cut short for ever, an encoding ends  *)
(* and time passes. Nothing is assumed of staff or of Bunny's panel.       *)
(***************************************************************************)
Fairness ==
    /\ \A p \in Pollers :
          /\ WF_vars(PollStart(p))
          /\ \A l \in Lessons :
                /\ SF_vars(\E u \in Uploads : u.lesson = l /\ PollRead(p, u))
                /\ SF_vars(\E u \in Uploads : u.lesson = l /\ SettleBunnyUpload(p, u))
          /\ WF_vars(\E u \in Uploads : PollSkip(p, u))
          /\ SF_vars(ClaimVideoRemovals(p))
          /\ \A v \in Videos :
                SF_vars(DeleteVideo(p, v)) /\ SF_vars(FinishVideoRemoval(p, v))
          /\ WF_vars(PollEnds(p))
    /\ \A v \in Videos : WF_vars(EncodingEnds(v)) /\ WF_vars(LifetimePasses(v))

FairSpec == Spec /\ Fairness

-----------------------------------------------------------------------------
(* Safety.                                                                 *)

(* No Bunny video is the recording of two sessions, whichever of an upload, *)
(* an added link and a changed link wrote them (assertVideoFree and the     *)
(* unique index).                                                           *)
AtMostOneHolder ==
    \A l, m \in Lessons, v \in Videos :
        Holds(recording[l], v) /\ Holds(recording[m], v) => l = m

(* An upload is READY only when Bunny finished encoding THAT video, and     *)
(* FAILED only when that video can no longer be played: a poll that read    *)
(* one video's outcome never settles the upload that replaced it            *)
(* (settleBunnyUpload).                                                     *)
SettledByItsOwnVideo ==
    \A l \in Lessons :
        LET row == recording[l] IN
        row.upload =>
            /\ row.status = "READY" => library[row.video] \in Gone \cup {"finished"}
            /\ row.status = "FAILED" => library[row.video] \in Gone \cup {"error", "late"}

(* A video whose upload is still running is not in the removal queue, not   *)
(* on its way to deletion in any instance, and not deleted by one.          *)
RunningUploadKept ==
    \A l \in Lessons :
        LET v == recording[l].video IN
        Processing(l) =>
            /\ ~Queued(v)
            /\ library[v] # "deleted"
            /\ \A p \in Pollers : poll[p].pc = "remove" => v \notin poll[p].due

(* Two uploads started at once for one session are serialised by the        *)
(* lesson's lock: the second sees the first, and takes its place only when  *)
(* asked to (startBunnyUpload).                                             *)
UploadsAreSerialised ==
    [][\A s \in Staff :
        LET l == request[s].lesson IN
        request[s].pc = "write" /\ request'[s] # request[s]
          /\ recording'[l] # recording[l] /\ Processing(l)
            => request[s].replaceVideo]_vars

(* An uploaded video leaves its recording only into the removal queue, in   *)
(* the same transaction, whatever replaces it and whatever else is going    *)
(* on; only a purge of the course forgets it.                               *)
ReplacedUploadIsQueued ==
    [][\A l \in Lessons :
        recording[l].upload /\ recording'[l].video # recording[l].video
            => removals'[recording[l].video] # NotQueued \/ l \in purged']_vars

(* A video leaves the removal queue, and its deletion is audited, only once *)
(* the library no longer has it; or it is dropped because a recording holds *)
(* it again. An instance that lost Bunny's answer, crashed between the      *)
(* deletion and the audit, or raced another instance loses no removal.      *)
RemovalIsNeverForgotten ==
    [][\A v \in Videos :
        Queued(v) /\ ~Queued(v)' => library[v] \in Gone \/ Held(v)]_vars

(* A video goes from the library only when the upload that took its place,  *)
(* as its queue row says, is over. True of one tedrisat instance; of two it *)
(* is not: between one poll's read of what is due and its deletion the      *)
(* other drops the row of a video that is held again, and the video is then *)
(* queued anew behind an upload that has only begun.                        *)
DeletedOnlyAfterReplacement ==
    [][\A v \in Videos :
        library[v] # "deleted" /\ library'[v] = "deleted" => ~ReplacementRunning(v)]_vars

-----------------------------------------------------------------------------
(* What these properties rest on, by induction (RecordingsProofs).          *)

(* Lesson locks exclude one another, and what a transaction read of an      *)
(* upload is still so when it writes: only a link can have come between.    *)
LocksHold ==
    /\ \A s, t \in Staff :
          InTransaction(s) /\ InTransaction(t) /\ request[s].lesson = request[t].lesson
            => s = t
    /\ \A s \in Staff :
          LET row == recording[request[s].lesson]
              seen == request[s].seen IN
          InTransaction(s) =>
              /\ row.upload => Holds(seen, row.video)
              /\ row.status = "PROCESSING" => seen = row
              /\ request[s].pc = "write" => UploadReplaces(seen, request[s].replaceVideo)

(* The video of an upload that is not recorded yet.                         *)
IsNew(v) ==
    \E s \in Staff : request[s].pc \in {"lock", "write"} /\ request[s].video = v

AboutToDelete(p, v) == poll[p].pc \in {"remove", "finish"} /\ v \in poll[p].due

(* No recording holds the video, no transaction read it, nothing deletes it. *)
Unknown(v) ==
    /\ ~Held(v) /\ ~Queued(v)
    /\ \A s \in Staff : InTransaction(s) => request[s].seen.video # v
    /\ \A p \in Pollers : ~AboutToDelete(p, v)

(* A video that is not recorded yet is known to its own request only, and   *)
(* one that nobody has created is known to none.                            *)
NewVideosAreUnknown ==
    /\ \A s, t \in Staff :
          request[s].pc \in {"lock", "write"} /\ request[t].pc \in {"lock", "write"}
            /\ request[s].video = request[t].video => s = t
    /\ \A v \in Videos :
          /\ IsNew(v) => library[v] \in {"created", "late", "voided"}
          /\ IsNew(v) \/ library[v] = "none" => Unknown(v)
    /\ \A s \in Staff : request[s].pc = "add" => request[s].link \in PastedLinks

(* A running upload is on its way nowhere, and a video that a transaction   *)
(* takes off its lesson is not running on another.                          *)
RunningUploadsAreKept ==
    /\ \A l \in Lessons :
          Processing(l) =>
              /\ ~Queued(recording[l].video)
              /\ library[recording[l].video] # "deleted"
              /\ \A p \in Pollers : ~AboutToDelete(p, recording[l].video)
    /\ \A s \in Staff, l \in Lessons :
          InTransaction(s) /\ Processing(l) /\ request[s].seen.video = recording[l].video
            => l = request[s].lesson

UploadsInv ==
    LocksHold /\ NewVideosAreUnknown /\ AtMostOneHolder /\ RunningUploadsAreKept

(* What a poll knows of a video stays true of it.                           *)
PollsKnow ==
    \A p \in Pollers :
        /\ poll[p].pc \in {"settle", "outcome"} =>
              \A u \in poll[p].todo : u.late => library[u.video] \in Gone \cup {"late"}
        /\ poll[p].pc = "outcome" =>
              library[poll[p].upload.video] \in
                  Gone \cup (IF poll[p].outcome = "READY" THEN {"finished"} ELSE {"error", "late"})
        /\ poll[p].pc = "finish" => library[poll[p].video] \in Gone

SettlingInv == PollsKnow /\ SettledByItsOwnVideo

(* The upload that a removal waits for was recorded with it, so its video   *)
(* is no new one.                                                           *)
ReplacementsAreRecorded ==
    \A v \in Videos :
        LET by == removals[v].by IN by # NoVideo => library[by] # "none" /\ ~IsNew(by)

(* What the only instance is about to delete stays queued behind no running *)
(* upload until it takes it off the queue itself.                           *)
DueStaysDue ==
    \A p \in Pollers :
        /\ \A v \in Videos : AboutToDelete(p, v) => Queued(v) /\ ~ReplacementRunning(v)
        /\ poll[p].pc = "finish" => poll[p].video \notin poll[p].due

RemovalsInv == ReplacementsAreRecorded /\ DueStaysDue

-----------------------------------------------------------------------------
(* What comments of the code say and concurrent requests break.             *)

(* bunny_video_removals: a new upload in a video's place writes "that       *)
(* upload's video" as the one the removal waits for.                        *)
RemovalNamesItsReplacement ==
    [][\A s \in Staff :
        LET seen == request[s].seen
            l == request[s].lesson IN
        request[s].pc = "write" /\ request'[s] # request[s]
          /\ recording'[l] # recording[l]
          /\ seen.provider = "BUNNY" /\ recording[l] = seen
            => removals'[seen.video].by = request[s].video]_vars

(* uploadReplaces: "Without `replaceVideo` a Bunny video PROCESSING or      *)
(* READY is kept".                                                          *)
VideoKeptUnlessReplaced ==
    [][\A s \in Staff :
        LET row == recording[request[s].lesson] IN
        request[s].pc = "write" /\ request'[s] # request[s]
          /\ recording'[request[s].lesson] # row
            => UploadReplaces(row, request[s].replaceVideo)]_vars

-----------------------------------------------------------------------------
(* Liveness, under FairSpec.                                                *)

(* Every upload is settled, or leaves its recording some other way: none    *)
(* stays PROCESSING for good because its file never came, its encoding      *)
(* failed, Bunny lost it or instances crashed.                              *)
UploadsAreSettled ==
    \A l \in Lessons, v \in Videos :
        recording[l] = Upload(v, "PROCESSING") ~> recording[l] # Upload(v, "PROCESSING")

(* Every queued removal is done or dropped.                                 *)
RemovalsAreFinished == \A v \in Videos : Queued(v) ~> ~Queued(v)

=============================================================================
