-------------------------------- MODULE Syllabus --------------------------------
(***************************************************************************)
(* The programme of a course (course.repository.ts, archive.repository.ts):*)
(* weeks and their sessions, hidden, restored and purged, and the version  *)
(* that refuses the save of an editor who read an older programme.         *)
(*                                                                         *)
(* A write that takes the course row's lock first (bumpVersion) is one     *)
(* step. The restores lock the week or the session, read, and come to the  *)
(* course row last: a step each for their reads and their commit, and any  *)
(* other write may commit between them.                                    *)
(***************************************************************************)
EXTENDS Naturals

CONSTANTS
    Weeks, Lessons,       \* rows there are, or may be inserted
    Editors,              \* pages with the course open
    Restorers,            \* restores at work at a time
    MaxHides,             \* bound: the instants at which something is hidden
    MaxVersion            \* bound: the course's version

ASSUME SyllabusAssumption == MaxHides \in Nat /\ MaxVersion \in Nat

VARIABLES
    week,      \* course_weeks: "none", "live", "hidden", "purged"
    weekAt,    \* archived_at of each week, 0 for null
    lesson,    \* lessons, likewise
    lessonAt,
    weekOf,    \* week_id of each session
    version,   \* courses.version
    editor,    \* the version and programme each page was last given
    restore,   \* the transaction of each restore
    hides,     \* the instant of the last hide
    hidWith    \* history: the sessions that each week's hide took with it

rowVars == <<week, weekAt, lesson, lessonAt, weekOf>>
syllabusVars == <<rowVars, version, editor, restore, hides, hidWith>>

States == {"none", "live", "hidden", "purged"}

Live(w) == week[w] = "live"
IsShown(s) == lesson[s] = "live"

(* What a page shows and a save replaces.                                  *)
Programme == [weeks |-> {w \in Weeks : Live(w)},
              places |-> {<<s, weekOf[s]>> : s \in {x \in Lessons : IsShown(x)}}]

Programmes == [weeks : SUBSET Weeks, places : SUBSET (Lessons \X Weeks)]

NoRestore == [pc |-> "idle"]

(* since, a history of the model: the last hide when the restore read.     *)
Restores == [pc : {"session"}, item : Lessons, since : 0..MaxHides]
            \cup [pc : {"week"}, item : Weeks, since : 0..MaxHides]

SyllabusTypeOK ==
    /\ week \in [Weeks -> States]
    /\ lesson \in [Lessons -> States]
    /\ weekAt \in [Weeks -> 0..MaxHides]
    /\ lessonAt \in [Lessons -> 0..MaxHides]
    /\ weekOf \in [Lessons -> Weeks]
    /\ version \in 0..MaxVersion
    /\ editor \in [Editors -> [version : 0..MaxVersion, shows : Programmes]]
    /\ restore \in [Restorers -> Restores \cup {NoRestore}]
    /\ hides \in 0..MaxHides
    /\ hidWith \in [Weeks -> SUBSET Lessons]

SyllabusInit ==
    /\ week \in [Weeks -> {"none", "live"}]
    /\ weekOf \in [Lessons -> Weeks]
    /\ lesson \in [Lessons -> {"none", "live"}]
    /\ \A s \in Lessons : IsShown(s) => Live(weekOf[s])
    /\ weekAt = [w \in Weeks |-> 0] /\ lessonAt = [s \in Lessons |-> 0]
    /\ version = 0 /\ hides = 0
    /\ editor = [e \in Editors |-> [version |-> 0, shows |-> Programme]]
    /\ restore = [t \in Restorers |-> NoRestore]
    /\ hidWith = [w \in Weeks |-> {}]

-----------------------------------------------------------------------------
(* Fault for TLC: a write that bumps as it begins and as it ends.          *)
BumpTwice == version < MaxVersion /\ version' = version + 2

(* bumpVersion: the course row's lock, taken first.                        *)
Bump == version < MaxVersion /\ version' = version + 1

(* Fault for TLC: a restore that leaves the version.                       *)
NoBump == version < MaxVersion /\ version' = version

(* bumpCourseVersion of the archive, the last statement.                   *)
BumpLast == version < MaxVersion /\ version' = version + 1

SetAll(f, set, value) == [x \in DOMAIN f |-> IF x \in set THEN value ELSE f[x]]

(* The rows hidden at one new instant.                                     *)
HiddenNow(weeks, sessions) ==
    /\ hides < MaxHides
    /\ hides' = hides + 1
    /\ weekAt' = SetAll(weekAt, weeks, hides + 1)
    /\ lessonAt' = SetAll(lessonAt, sessions, hides + 1)
    /\ hidWith' = [w \in Weeks |-> IF w \in weeks
                                   THEN {s \in sessions : weekOf'[s] = w}
                                   ELSE hidWith[w]]

NothingHidden == UNCHANGED <<weekAt, lessonAt, hides, hidWith>>

SessionsIn(w) == {s \in Lessons : weekOf[s] = w /\ lesson[s] \in {"live", "hidden"}}

ShownIn(w) == {s \in SessionsIn(w) : IsShown(s)}

-----------------------------------------------------------------------------
(* course.repository.ts. *)

(* The page reads the course.                                              *)
OpenPage(e) ==
    /\ editor' = [editor EXCEPT ![e] = [version |-> version, shows |-> Programme]]
    /\ UNCHANGED <<rowVars, version, restore, hides, hidWith>>

Current(e) == editor[e].version = version

(* replace: the weeks in keep and the sessions in stay remain, each session*)
(* in the week the payload puts it; rows the payload adds are inserted;    *)
(* what is left of the live ones is hidden at one instant.                 *)
Replace ==
    /\ Bump
    /\ \E keep \in SUBSET {w \in Weeks : week[w] \in {"none", "live"}} :
       \E stay \in SUBSET {s \in Lessons : lesson[s] \in {"none", "live"}} :
       \E place \in [stay -> keep] :
           LET droppedWeeks == {w \in Weeks : Live(w)} \ keep
               dropped == {s \in Lessons : IsShown(s)} \ stay
           IN
           /\ week' = SetAll(SetAll(week, keep, "live"), droppedWeeks, "hidden")
           /\ lesson' = SetAll(SetAll(lesson, stay, "live"), dropped, "hidden")
           /\ weekOf' = [s \in Lessons |-> IF s \in stay THEN place[s] ELSE weekOf[s]]
           /\ IF droppedWeeks \cup dropped = {} THEN NothingHidden
              ELSE HiddenNow(droppedWeeks, dropped)
    /\ UNCHANGED <<editor, restore>>

(* A save that sends the version its page was given. One that sends none   *)
(* is held to the version its own request read: a Replace at that moment.  *)
SaveCourse(e) == Current(e) /\ Replace

(* updateLesson with a weekId.                                             *)
MoveLesson(e, s, w) ==
    /\ IsShown(s) /\ Live(w) /\ w # weekOf[s]
    /\ Current(e) /\ Bump
    /\ weekOf' = [weekOf EXCEPT ![s] = w]
    /\ NothingHidden
    /\ UNCHANGED <<week, lesson, editor, restore>>

CreateLesson(s, w) ==
    /\ lesson[s] = "none" /\ Live(w)
    /\ Bump
    /\ lesson' = SetAll(lesson, {s}, "live")
    /\ weekOf' = [weekOf EXCEPT ![s] = w]
    /\ NothingHidden
    /\ UNCHANGED <<week, editor, restore>>

(* createSessionBatch: new sessions, each in the week of its date, which is *)
(* inserted when there is none.                                            *)
CreateBatch ==
    /\ Bump
    /\ \E new \in (SUBSET {s \in Lessons : lesson[s] = "none"}) \ {{}} :
       \E place \in [new -> {w \in Weeks : week[w] \in {"none", "live"}}] :
           /\ week' = SetAll(week, {place[s] : s \in new}, "live")
           /\ lesson' = SetAll(lesson, new, "live")
           /\ weekOf' = [s \in Lessons |-> IF s \in new THEN place[s] ELSE weekOf[s]]
    /\ NothingHidden
    /\ UNCHANGED <<editor, restore>>

(* What a page shows and the programme is not: settings, cancellations,    *)
(* müderris, files (cancelLesson, update, addLessonResourceFile ...).      *)
EditDetails ==
    /\ Bump /\ UNCHANGED <<rowVars, editor, restore, hides, hidWith>>

ArchiveLesson(s) ==
    /\ IsShown(s) /\ Bump
    /\ lesson' = SetAll(lesson, {s}, "hidden")
    /\ UNCHANGED weekOf /\ HiddenNow({}, {s})
    /\ UNCHANGED <<week, editor, restore>>

(* archiveWeek: the week and its live sessions at one instant.             *)
ArchiveWeek(w) ==
    /\ Live(w) /\ Bump
    /\ week' = SetAll(week, {w}, "hidden")
    /\ lesson' = SetAll(lesson, ShownIn(w), "hidden")
    /\ UNCHANGED weekOf /\ HiddenNow({w}, ShownIn(w))
    /\ UNCHANGED <<editor, restore>>

-----------------------------------------------------------------------------
(* archive.repository.ts. *)

Locked(set) == \E t \in Restorers : restore[t] # NoRestore /\ restore[t].item \in set

RestoreBegins(t, tx) ==
    /\ restore[t] = NoRestore /\ ~Locked({tx.item})
    /\ restore' = [restore EXCEPT ![t] = tx]
    /\ UNCHANGED <<rowVars, version, editor, hides, hidWith>>

Ends(t) == restore' = [restore EXCEPT ![t] = NoRestore]

(* Fault for TLC: the week not asked.                                      *)
AnyWeek(s) == s \in Lessons

WeekShown(s) == Live(weekOf[s])

(* restoreSession: the session locked, its week's state read by the join.  *)
RestoreSessionReads(t, s) ==
    /\ lesson[s] = "hidden" /\ WeekShown(s)
    /\ RestoreBegins(t, [pc |-> "session", item |-> s, since |-> hides])

RestoreSession(t) ==
    LET s == restore[t].item IN
    /\ restore[t] # NoRestore /\ restore[t].pc = "session"
    /\ lesson' = SetAll(lesson, {s}, "live")
    /\ lessonAt' = SetAll(lessonAt, {s}, 0)
    /\ BumpLast /\ Ends(t)
    /\ UNCHANGED <<week, weekAt, weekOf, editor, hides, hidWith>>

RestoreWeekReads(t, w) ==
    /\ week[w] = "hidden"
    /\ RestoreBegins(t, [pc |-> "week", item |-> w, since |-> hides])

(* Fault for TLC: whatever is hidden in the week comes back.               *)
AllOf(w) == {s \in SessionsIn(w) : lesson[s] = "hidden"}

(* The sessions hidden at the instant of the week.                         *)
BackWith(w) == {s \in SessionsIn(w) : lessonAt[s] = weekAt[w]}

RestoreWeek(t) ==
    LET w == restore[t].item IN
    /\ restore[t] # NoRestore /\ restore[t].pc = "week"
    /\ week' = SetAll(week, {w}, "live") /\ weekAt' = SetAll(weekAt, {w}, 0)
    /\ lesson' = SetAll(lesson, BackWith(w), "live")
    /\ lessonAt' = SetAll(lessonAt, BackWith(w), 0)
    /\ BumpLast /\ Ends(t)
    /\ UNCHANGED <<weekOf, editor, hides, hidWith>>

(* purgeRows: a hidden session, or a hidden week with every session of it. *)
PurgeSession(s) ==
    /\ lesson[s] = "hidden" /\ ~Locked({s})
    /\ BumpLast
    /\ lesson' = SetAll(lesson, {s}, "purged") /\ lessonAt' = SetAll(lessonAt, {s}, 0)
    /\ UNCHANGED <<week, weekAt, weekOf, editor, restore, hides, hidWith>>

PurgeWeek(w) ==
    /\ week[w] = "hidden" /\ ~Locked({w} \cup SessionsIn(w))
    /\ BumpLast
    /\ week' = SetAll(week, {w}, "purged") /\ weekAt' = SetAll(weekAt, {w}, 0)
    /\ lesson' = SetAll(lesson, SessionsIn(w), "purged")
    /\ lessonAt' = SetAll(lessonAt, SessionsIn(w), 0)
    /\ UNCHANGED <<weekOf, editor, restore, hides, hidWith>>

SyllabusNext ==
    \/ \E e \in Editors :
           \/ OpenPage(e) \/ SaveCourse(e)
           \/ \E s \in Lessons, w \in Weeks : MoveLesson(e, s, w)
    \/ \E s \in Lessons, w \in Weeks : CreateLesson(s, w)
    \/ Replace \/ CreateBatch \/ EditDetails
    \/ \E s \in Lessons : ArchiveLesson(s) \/ PurgeSession(s)
    \/ \E w \in Weeks : ArchiveWeek(w) \/ PurgeWeek(w)
    \/ \E t \in Restorers :
           \/ RestoreSession(t) \/ RestoreWeek(t)
           \/ \E s \in Lessons : RestoreSessionReads(t, s)
           \/ \E w \in Weeks : RestoreWeekReads(t, w)

SyllabusSpec == SyllabusInit /\ [][SyllabusNext]_syllabusVars

-----------------------------------------------------------------------------
Astray(s) == IsShown(s) /\ ~Live(weekOf[s])

(* No write shows a session in a week that is hidden ("a session under a   *)
(* hidden week is neither listed nor restored on its own",                 *)
(* weekRestoresSessions), nor hides a week over a shown one, but a restore *)
(* of the session that read its week before the week was hidden.           *)
ShownByOlderReadOnly ==
    [][\A s \in Lessons :
           Astray(s)' /\ ~Astray(s) =>
               \E t \in Restorers :
                   /\ restore[t] # NoRestore /\ restore'[t] = NoRestore
                   /\ restore[t].item = s
                   /\ restore[t].since < weekAt[weekOf[s]]]_syllabusVars

(* "A restore of the week brings back exactly the sessions hidden with it, *)
(* never one hidden on its own earlier" (archiveWeek), but those purged.   *)
RestoredAsHidden ==
    [][\A w \in Weeks :
           week[w] = "hidden" /\ week'[w] = "live" =>
               {s \in Lessons : lesson[s] = "hidden" /\ lesson'[s] = "live"}
                   = {s \in hidWith[w] : lesson[s] # "purged"}]_syllabusVars

(* A save that sends its version replaces the programme its page was       *)
(* showing: whatever changed it since refuses the save (MDRS-95).          *)
SavesWhatWasShown ==
    [][\A e \in Editors :
           SaveCourse(e) => Programme = editor[e].shows]_syllabusVars
=============================================================================
