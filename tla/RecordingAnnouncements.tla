------------------------- MODULE RecordingAnnouncements -------------------------
(***************************************************************************)
(* "Kayıt eklendi" (recording-release.poller.ts): a recording opens to its *)
(* talebe when it is READY and its release time has come. Writes that may  *)
(* have opened one announce it, the release poll of every instance         *)
(* announces those whose time came since; both claim notified_at first.    *)
(*                                                                         *)
(* A step is one statement or transaction of the database, or one call of  *)
(* the notifier. Recordings.tla has the writes in full; here they do what  *)
(* matters to an announcement: READY or not, and when it opens.            *)
(***************************************************************************)
EXTENDS Naturals, FiniteSets

CONSTANTS
    Sessions,         \* the sessions of a course, each with one recording
    Callers,          \* requests, and passes of the encoding poll
    Pollers,          \* instances of tedrisat: a release poll each
    LastTime,         \* bound of the clock
    Batch,            \* RELEASE_POLL_BATCH
    MaxWrites,        \* bound: writes that concern a recording
    NewsFaults        \* subset of {"crash", "store"}

ASSUME NewsAssumption ==
    /\ LastTime \in Nat \ {0} /\ Batch \in Nat \ {0} /\ MaxWrites \in Nat

VARIABLES
    recording,   \* lesson_recordings.status, "NONE" without a row
    notified,    \* the sessions with a notified_at
    available,   \* recording_available_at, 0 for null
    start,       \* scheduled_at, 0 for null
    hidden,      \* the sessions archived
    now,         \* the database's clock
    caller,      \* announce, as each caller runs it
    poller,      \* releaseDue, as each instance runs it
    notices,     \* how often the talebe of a session were told
    writes

announcementVars ==
    <<recording, notified, available, start, hidden, now, caller, poller,
      notices, writes>>

Clock == 1..LastTime
Times == 0..LastTime

(* What announce knows: its session and its now; 0: read when it claims.   *)
Calls == [pc : {"claim", "tell"}, session : Sessions, at : Times]
NoCall == [pc |-> "idle"]

NewsTypeOK ==
    /\ recording \in [Sessions -> {"NONE", "PROCESSING", "FAILED", "READY"}]
    /\ notified \in SUBSET Sessions
    /\ available \in [Sessions -> Times]
    /\ start \in [Sessions -> Times]
    /\ hidden \in SUBSET Sessions
    /\ now \in Clock
    /\ caller \in [Callers -> Calls \cup {NoCall}]
    /\ poller \in [Pollers -> SUBSET Sessions]
    /\ notices \in [Sessions -> Nat]
    /\ writes \in 0..MaxWrites

AnnouncementInit ==
    /\ recording \in [Sessions -> {"NONE", "PROCESSING"}]
    /\ notified = {}
    /\ available = [l \in Sessions |-> 0]
    /\ start \in [Sessions -> Times]
    /\ hidden = {}
    /\ now = 1
    /\ caller = [c \in Callers |-> NoCall]
    /\ poller = [i \in Pollers |-> {}]
    /\ notices = [l \in Sessions |-> 0]
    /\ writes = 0

-----------------------------------------------------------------------------
(* releaseAt: greatest skips a null, which 0 is below every time.          *)
ReleaseAt(l) == IF available[l] > start[l] THEN available[l] ELSE start[l]

(* releasedBy; a recording that opens at no time is open.                  *)
ReleasedBy(l, t) == ReleaseAt(l) <= t

Claimable(l) == recording[l] = "READY" /\ l \notin notified

(* Fault for TLC: a claim that does not mark.                              *)
Unmarked(batch) == notified \cap (batch \cup Sessions)

Marked(batch) == notified \cup batch

-----------------------------------------------------------------------------
(* Writes. *)

Write ==
    /\ writes < MaxWrites
    /\ writes' = writes + 1
    /\ UNCHANGED <<notified, now, poller, notices>>

Announces(c, l, at) ==
    /\ caller[c] = NoCall
    /\ caller' = [caller EXCEPT ![c] = [pc |-> "claim", session |-> l, at |-> at]]

(* The release time written with a recording, or left.                     *)
SetAvailable(l) ==
    \E t \in Times : available' = [available EXCEPT ![l] = t]

(* recordings.create and update: a link is READY at once, for a session    *)
(* without a recording, over a FAILED upload, or (update) over any.        *)
AddOrChange(c, l) ==
    /\ Write /\ Announces(c, l, 0)
    /\ l \notin hidden
    /\ \/ recording' = [recording EXCEPT ![l] = "READY"]
       \/ recording[l] # "NONE" /\ UNCHANGED recording
    /\ SetAvailable(l)
    /\ UNCHANGED <<start, hidden>>

(* setRecordingAvailableAt, with or before a recording.                    *)
SetAvailability(c, l) ==
    /\ Write /\ Announces(c, l, 0)
    /\ l \notin hidden
    /\ SetAvailable(l)
    /\ UNCHANGED <<recording, start, hidden>>

(* startBunnyUpload: a recording told of before stays told of.             *)
StartUpload(l) ==
    /\ Write
    /\ l \notin hidden /\ recording[l] # "PROCESSING"
    /\ recording' = [recording EXCEPT ![l] = "PROCESSING"]
    /\ UNCHANGED <<available, start, hidden, caller>>

(* settleBunnyUpload by the encoding poll, which announces with the time   *)
(* its pass began.                                                         *)
SettleReady(c, l) ==
    /\ recording[l] = "PROCESSING"
    /\ recording' = [recording EXCEPT ![l] = "READY"]
    /\ \E began \in 1..now : Announces(c, l, began)
    /\ UNCHANGED <<notified, available, start, hidden, now, poller, notices, writes>>

SettleFailed(l) ==
    /\ recording[l] = "PROCESSING"
    /\ recording' = [recording EXCEPT ![l] = "FAILED"]
    /\ UNCHANGED <<notified, available, start, hidden, now, caller, poller,
                   notices, writes>>

(* updateLesson and the save of the course: the start moves, and is        *)
(* cleared; neither announces.                                             *)
MoveSession(l) ==
    /\ Write
    /\ l \notin hidden
    /\ \E t \in Times \ {start[l]} : start' = [start EXCEPT ![l] = t]
    /\ UNCHANGED <<recording, available, hidden, caller>>

(* archiveLesson and restoreSession.                                       *)
HideOrShow(l) ==
    /\ Write
    /\ hidden' = IF l \in hidden THEN hidden \ {l} ELSE hidden \cup {l}
    /\ UNCHANGED <<recording, available, start, caller>>

ClockTicks ==
    /\ now < LastTime
    /\ now' = now + 1
    /\ UNCHANGED <<recording, notified, available, start, hidden, caller, poller,
                   notices, writes>>

-----------------------------------------------------------------------------
(* announce. *)

Notify(l) == notices' = [notices EXCEPT ![l] = @ + 1]
NobodyTold == UNCHANGED notices

CallerGoes(c, call) ==
    /\ caller' = [caller EXCEPT ![c] = call]
    /\ UNCHANGED <<recording, available, start, hidden, now, poller, writes>>

At(call) == IF call.at = 0 THEN now ELSE call.at

Claims(call) == Claimable(call.session) /\ ReleasedBy(call.session, At(call))

(* claimAnnouncement: the check and the mark are one statement.            *)
ClaimOne(c) ==
    LET call == caller[c] IN
    /\ call # NoCall /\ call.pc = "claim"
    /\ IF Claims(call)
       THEN /\ notified' = Marked({call.session})
            /\ CallerGoes(c, [call EXCEPT !.pc = "tell"])
       ELSE CallerGoes(c, NoCall) /\ UNCHANGED notified
    /\ NobodyTold

(* recordingAdded: a hidden session is not news.                           *)
TellOne(c) ==
    LET call == caller[c] IN
    /\ call # NoCall /\ call.pc = "tell"
    /\ IF call.session \in hidden THEN NobodyTold ELSE Notify(call.session)
    /\ CallerGoes(c, NoCall)
    /\ UNCHANGED notified

(* The claim or the notifier fails, and is logged; or the caller dies.     *)
CallerFails(c) ==
    /\ caller[c] # NoCall
    /\ NewsFaults \cap {"crash", "store"} # {}
    /\ CallerGoes(c, NoCall)
    /\ NobodyTold /\ UNCHANGED notified

-----------------------------------------------------------------------------
(* releaseDue. *)

PollerGoes(i, todo) ==
    /\ poller' = [poller EXCEPT ![i] = todo]
    /\ UNCHANGED <<recording, available, start, hidden, now, caller, writes>>

(* Fault for TLC: the poll that looks at the start alone.                  *)
StartsDue == {l \in Sessions : Claimable(l) /\ start[l] \in 1..now}

Due == {l \in Sessions : Claimable(l) /\ ReleaseAt(l) # 0 /\ ReleasedBy(l, now)}

(* The earliest releases first, up to Batch.                               *)
Batches ==
    {batch \in SUBSET Due :
        /\ Cardinality(batch) = IF Cardinality(Due) < Batch THEN Cardinality(Due)
                                                            ELSE Batch
        /\ \A l \in batch, m \in Due \ batch : ReleaseAt(l) <= ReleaseAt(m)}

(* claimDueAnnouncements, unless this instance's last pass is running.     *)
ClaimDue(i) ==
    /\ poller[i] = {} /\ Due # {}
    /\ \E batch \in Batches : notified' = Marked(batch) /\ PollerGoes(i, batch)
    /\ NobodyTold

TellDue(i) ==
    \E l \in poller[i] :
        /\ IF l \in hidden THEN NobodyTold ELSE Notify(l)
        /\ PollerGoes(i, poller[i] \ {l})
        /\ UNCHANGED notified

(* The notifier fails for one, and is logged; or the instance dies.        *)
PollerFails(i) ==
    /\ poller[i] # {}
    /\ \/ "store" \in NewsFaults /\ \E l \in poller[i] : PollerGoes(i, poller[i] \ {l})
       \/ "crash" \in NewsFaults /\ PollerGoes(i, {})
    /\ NobodyTold /\ UNCHANGED notified

-----------------------------------------------------------------------------
CallerStep(c) == ClaimOne(c) \/ TellOne(c) \/ CallerFails(c)
PollerStep(i) == ClaimDue(i) \/ TellDue(i) \/ PollerFails(i)

AnnouncementNext ==
    \/ \E l \in Sessions :
           \/ StartUpload(l) \/ SettleFailed(l) \/ MoveSession(l) \/ HideOrShow(l)
           \/ \E c \in Callers :
                  AddOrChange(c, l) \/ SetAvailability(c, l) \/ SettleReady(c, l)
    \/ ClockTicks
    \/ \E c \in Callers : CallerStep(c)
    \/ \E i \in Pollers : PollerStep(i)

(* A call goes on or fails, and the timer starts passes for ever.          *)
AnnouncementFairness ==
    /\ \A c \in Callers : WF_announcementVars(CallerStep(c))
    /\ \A i \in Pollers : WF_announcementVars(PollerStep(i))

AnnouncementSpec == AnnouncementInit /\ [][AnnouncementNext]_announcementVars

-----------------------------------------------------------------------------
CallHolds(c) == {l \in Sessions : caller[c] # NoCall /\ caller[c].pc = "tell"
                                     /\ caller[c].session = l}

(* The sessions some teller has claimed and not told of yet.               *)
InHand == (UNION {CallHolds(c) : c \in Callers}) \cup (UNION {poller[i] : i \in Pollers})

(* READY and released: the talebe can watch it, but for a hidden session.  *)
Watchable == {l \in Sessions : recording[l] = "READY" /\ ReleasedBy(l, now)}

News ==
    [l \in Sessions |->
        IF notices[l] > 0 THEN "told"
        ELSE IF l \notin notified THEN "fresh"
        ELSE IF l \in InHand THEN "taken" ELSE "dropped"]

Promise == INSTANCE Announcement WITH
    Items <- Sessions, watchable <- Watchable, news <- News

(* The announcements keep the promise: a recording is told of at most once *)
(* whoever gets there first, and never before it could be watched, however *)
(* its time moves and whatever clock a pass began with.                    *)
KeepsPromise == Promise!NewsSpec

(* The talebe are told once, by one teller at a time (claimAnnouncement:   *)
(* "exactly one is told yes").                                             *)
ToldOnce ==
    /\ \A l \in Sessions : notices[l] <= 1
    /\ \A l \in InHand : l \in notified /\ notices[l] = 0
    /\ \A c, d \in Callers : c # d => CallHolds(c) \cap CallHolds(d) = {}
    /\ \A i, j \in Pollers : i # j => poller[i] \cap poller[j] = {}
    /\ \A c \in Callers, i \in Pollers : CallHolds(c) \cap poller[i] = {}

(* A recording whose release time has come does not stay unannounced, were *)
(* the request that opened it to die: the poll makes up for it.            *)
ReleasedIsAnnounced ==
    \A l \in Sessions :
        (recording[l] = "READY" /\ ReleaseAt(l) # 0 /\ ReleasedBy(l, now))
            ~> (l \in notified \/ l \notin Watchable \/ ReleaseAt(l) = 0)
=============================================================================
