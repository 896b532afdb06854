----------------------------- MODULE SyllabusProofs -----------------------------
(***************************************************************************)
(* Proofs about Syllabus, for any weeks, sessions, pages and restores.     *)
(***************************************************************************)
EXTENDS Syllabus, TLAPS

-----------------------------------------------------------------------------
(* What a save does, row by row. *)

SavedAs(keep, stay, place) ==
    /\ keep \in SUBSET Weeks /\ stay \in SUBSET Lessons /\ place \in [stay -> keep]
    /\ \A w \in keep : week[w] \in {"none", "live"}
    /\ \A s \in stay : lesson[s] \in {"none", "live"}
    /\ \A w \in Weeks : week'[w] = IF w \in keep THEN "live"
                                   ELSE IF Live(w) THEN "hidden" ELSE week[w]
    /\ \A s \in Lessons : lesson'[s] = IF s \in stay THEN "live"
                                       ELSE IF IsShown(s) THEN "hidden" ELSE lesson[s]
    /\ \A s \in Lessons : weekOf'[s] = IF s \in stay THEN place[s] ELSE weekOf[s]

HidNothing == UNCHANGED <<weekAt, lessonAt, hides, hidWith>>

HidRows(weeks, sessions) ==
    /\ hides' = hides + 1 /\ hides' \in 0..MaxHides
    /\ \A w \in Weeks : weekAt'[w] = IF w \in weeks THEN hides' ELSE weekAt[w]
    /\ \A s \in Lessons : lessonAt'[s] = IF s \in sessions THEN hides' ELSE lessonAt[s]
    /\ \A w \in Weeks : hidWith'[w] = IF w \in weeks
                                      THEN {s \in sessions : weekOf'[s] = w}
                                      ELSE hidWith[w]

LEMMA HiddenNowIs ==
    ASSUME SyllabusTypeOK, NEW weeks \in SUBSET Weeks, NEW sessions \in SUBSET Lessons,
           HiddenNow(weeks, sessions)
    PROVE  /\ HidRows(weeks, sessions)
           /\ weekAt' \in [Weeks -> 0..MaxHides] /\ lessonAt' \in [Lessons -> 0..MaxHides]
           /\ hidWith' \in [Weeks -> SUBSET Lessons]
<1>1. /\ hides' = hides + 1 /\ hides' \in 0..MaxHides
      /\ weekAt' = SetAll(weekAt, weeks, hides') /\ lessonAt' = SetAll(lessonAt, sessions, hides')
  BY SyllabusAssumption DEF HiddenNow, SyllabusTypeOK
<1>2. weekAt \in [Weeks -> 0..MaxHides] /\ lessonAt \in [Lessons -> 0..MaxHides]
  BY DEF SyllabusTypeOK
<1>3. /\ weekAt' \in [Weeks -> 0..MaxHides]
      /\ \A w \in Weeks : weekAt'[w] = IF w \in weeks THEN hides' ELSE weekAt[w]
  BY <1>1, <1>2 DEF SetAll
<1>4. /\ lessonAt' \in [Lessons -> 0..MaxHides]
      /\ \A s \in Lessons : lessonAt'[s] = IF s \in sessions THEN hides' ELSE lessonAt[s]
  BY <1>1, <1>2 DEF SetAll
<1>. QED  BY <1>1, <1>3, <1>4 DEF HidRows, HiddenNow, SyllabusTypeOK

LEMMA SaveRows ==
    ASSUME SyllabusTypeOK, Replace
    PROVE  /\ week' \in [Weeks -> States] /\ lesson' \in [Lessons -> States]
           /\ weekOf' \in [Lessons -> Weeks]
           /\ weekAt' \in [Weeks -> 0..MaxHides] /\ lessonAt' \in [Lessons -> 0..MaxHides]
           /\ hidWith' \in [Weeks -> SUBSET Lessons] /\ hides' \in 0..MaxHides
           /\ \E keep, stay : \E place \in [stay -> keep] :
                  /\ SavedAs(keep, stay, place)
                  /\ \/ /\ HidNothing
                        /\ \A w \in Weeks \ keep : ~Live(w)
                        /\ \A s \in Lessons \ stay : ~IsShown(s)
                     \/ HidRows({w \in Weeks : Live(w)} \ keep, {s \in Lessons : IsShown(s)} \ stay)
<1>1. PICK keep \in SUBSET {w \in Weeks : week[w] \in {"none", "live"}},
           stay \in SUBSET {s \in Lessons : lesson[s] \in {"none", "live"}} :
        \E place \in [stay -> keep] :
        LET droppedWeeks == {w \in Weeks : Live(w)} \ keep
            dropped == {s \in Lessons : IsShown(s)} \ stay
        IN
        /\ week' = SetAll(SetAll(week, keep, "live"), droppedWeeks, "hidden")
        /\ lesson' = SetAll(SetAll(lesson, stay, "live"), dropped, "hidden")
        /\ weekOf' = [s \in Lessons |-> IF s \in stay THEN place[s] ELSE weekOf[s]]
        /\ IF droppedWeeks \cup dropped = {} THEN NothingHidden
           ELSE HiddenNow(droppedWeeks, dropped)
  BY DEF Replace
<1>. DEFINE droppedWeeks == {w \in Weeks : Live(w)} \ keep
            dropped == {s \in Lessons : IsShown(s)} \ stay
<1>0. PICK place \in [stay -> keep] :
        /\ week' = SetAll(SetAll(week, keep, "live"), droppedWeeks, "hidden")
        /\ lesson' = SetAll(SetAll(lesson, stay, "live"), dropped, "hidden")
        /\ weekOf' = [s \in Lessons |-> IF s \in stay THEN place[s] ELSE weekOf[s]]
        /\ IF droppedWeeks \cup dropped = {} THEN NothingHidden
           ELSE HiddenNow(droppedWeeks, dropped)
  BY <1>1
<1>2. week \in [Weeks -> States] /\ lesson \in [Lessons -> States]
      /\ "live" \in States /\ "hidden" \in States
  BY DEF SyllabusTypeOK, States
<1>3. /\ week' \in [Weeks -> States]
      /\ \A w \in Weeks : week'[w] = IF w \in droppedWeeks THEN "hidden"
                                     ELSE IF w \in keep THEN "live" ELSE week[w]
  <2>1. /\ SetAll(week, keep, "live") \in [Weeks -> States]
        /\ \A w \in Weeks : SetAll(week, keep, "live")[w] = IF w \in keep THEN "live" ELSE week[w]
    BY <1>2 DEF SetAll
  <2>. QED  BY <1>0, <1>2, <2>1 DEF SetAll
<1>4. /\ lesson' \in [Lessons -> States]
      /\ \A s \in Lessons : lesson'[s] = IF s \in dropped THEN "hidden"
                                         ELSE IF s \in stay THEN "live" ELSE lesson[s]
  <2>1. /\ SetAll(lesson, stay, "live") \in [Lessons -> States]
        /\ \A s \in Lessons : SetAll(lesson, stay, "live")[s] = IF s \in stay THEN "live" ELSE lesson[s]
    BY <1>2 DEF SetAll
  <2>. QED  BY <1>0, <1>2, <2>1 DEF SetAll
<1>5. weekOf' \in [Lessons -> Weeks]
  BY <1>0 DEF SyllabusTypeOK
<1>6. SavedAs(keep, stay, place)
  BY <1>0, <1>3, <1>4 DEF SavedAs
<1>7. CASE droppedWeeks \cup dropped = {}
  <2>1. /\ HidNothing
        /\ \A w \in Weeks \ keep : ~Live(w)
        /\ \A s \in Lessons \ stay : ~IsShown(s)
    BY <1>0, <1>7 DEF NothingHidden, HidNothing
  <2>. QED  BY <1>3, <1>4, <1>5, <1>6, <2>1 DEF SyllabusTypeOK, HidNothing
<1>8. CASE droppedWeeks \cup dropped # {}
  <2>1. HiddenNow(droppedWeeks, dropped)
    BY <1>0, <1>8
  <2>0. droppedWeeks \in SUBSET Weeks /\ dropped \in SUBSET Lessons
    OBVIOUS
  <2>. HIDE DEF droppedWeeks, dropped
  <2>2. /\ HidRows(droppedWeeks, dropped)
        /\ weekAt' \in [Weeks -> 0..MaxHides] /\ lessonAt' \in [Lessons -> 0..MaxHides]
        /\ hidWith' \in [Weeks -> SUBSET Lessons]
    BY <2>0, <2>1, HiddenNowIs
  <2>3. hides' \in 0..MaxHides
    BY <2>2 DEF HidRows
  <2>. USE DEF droppedWeeks, dropped
  <2>. QED  BY <1>3, <1>4, <1>5, <1>6, <2>2, <2>3
<1>. QED  BY <1>7, <1>8

-----------------------------------------------------------------------------
(* Type correctness. *)

LEMMA ProgrammeType == SyllabusTypeOK => Programme \in Programmes
BY DEF SyllabusTypeOK, Programme, Programmes

LEMMA InitSyllabusType == SyllabusInit => SyllabusTypeOK
<1>. SUFFICES ASSUME SyllabusInit PROVE SyllabusTypeOK
  OBVIOUS
<1>1. Programme \in Programmes
  BY DEF SyllabusInit, Programme, Programmes
<1>. QED  BY <1>1, SyllabusAssumption DEF SyllabusInit, SyllabusTypeOK, States

LEMMA RestoreTypes ==
    ASSUME SyllabusTypeOK, NEW t \in Restorers, restore[t] # NoRestore
    PROVE  /\ restore[t].pc = "session" => restore[t].item \in Lessons
           /\ restore[t].pc = "week" => restore[t].item \in Weeks
           /\ restore[t].pc \in {"session", "week"}
BY DEF SyllabusTypeOK, Restores

LEMMA BumpType ==
    ASSUME SyllabusTypeOK, Bump \/ BumpLast
    PROVE  version' = version + 1 /\ version' \in 0..MaxVersion
BY SyllabusAssumption DEF SyllabusTypeOK, Bump, BumpLast

LEMMA ReplaceType ==
    ASSUME SyllabusTypeOK, Replace
    PROVE  SyllabusTypeOK'
<1>1. version' \in 0..MaxVersion /\ UNCHANGED <<editor, restore>>
  BY BumpType DEF Replace
<1>2. /\ week' \in [Weeks -> States] /\ lesson' \in [Lessons -> States]
      /\ weekOf' \in [Lessons -> Weeks]
      /\ weekAt' \in [Weeks -> 0..MaxHides] /\ lessonAt' \in [Lessons -> 0..MaxHides]
      /\ hidWith' \in [Weeks -> SUBSET Lessons] /\ hides' \in 0..MaxHides
  BY SaveRows
<1>. QED  BY <1>1, <1>2 DEF SyllabusTypeOK

LEMMA EditorType ==
    ASSUME SyllabusTypeOK, NEW e \in Editors,
           \/ OpenPage(e) \/ SaveCourse(e)
           \/ \E s \in Lessons, w \in Weeks : MoveLesson(e, s, w)
    PROVE  SyllabusTypeOK'
<1>1. CASE OpenPage(e)
  BY <1>1, ProgrammeType DEF OpenPage, rowVars, SyllabusTypeOK
<1>2. CASE SaveCourse(e)
  BY <1>2, ReplaceType DEF SaveCourse
<1>3. ASSUME NEW s \in Lessons, NEW w \in Weeks, MoveLesson(e, s, w)
      PROVE  SyllabusTypeOK'
  BY <1>3, BumpType DEF MoveLesson, NothingHidden, SyllabusTypeOK
<1>. QED  BY <1>1, <1>2, <1>3

LEMMA SetAllTypes ==
    ASSUME SyllabusTypeOK
    PROVE  /\ \A set, value : value \in {"live", "hidden", "purged"} =>
                  /\ SetAll(week, set, value) \in [Weeks -> States]
                  /\ SetAll(lesson, set, value) \in [Lessons -> States]
           /\ \A set : SetAll(weekAt, set, 0) \in [Weeks -> 0..MaxHides]
           /\ \A set : SetAll(lessonAt, set, 0) \in [Lessons -> 0..MaxHides]
BY SyllabusAssumption DEF SetAll, SyllabusTypeOK, States

LEMMA LessonType ==
    ASSUME SyllabusTypeOK, NEW s \in Lessons,
           \/ ArchiveLesson(s) \/ PurgeSession(s)
           \/ \E w \in Weeks : CreateLesson(s, w)
    PROVE  SyllabusTypeOK'
<1>1. version' \in 0..MaxVersion
  BY BumpType DEF CreateLesson, ArchiveLesson, PurgeSession
<1>2. ASSUME NEW w \in Weeks, CreateLesson(s, w)
      PROVE  SyllabusTypeOK'
  BY <1>1, <1>2, SetAllTypes DEF CreateLesson, NothingHidden, SyllabusTypeOK
<1>3. CASE ArchiveLesson(s)
  <2>1. HiddenNow({}, {s})
    BY <1>3 DEF ArchiveLesson
  <2>2. /\ weekAt' \in [Weeks -> 0..MaxHides] /\ lessonAt' \in [Lessons -> 0..MaxHides]
        /\ hidWith' \in [Weeks -> SUBSET Lessons] /\ hides' \in 0..MaxHides
    BY <2>1, HiddenNowIs DEF HidRows
  <2>. QED  BY <1>1, <1>3, <2>2, SetAllTypes DEF ArchiveLesson, SyllabusTypeOK
<1>4. CASE PurgeSession(s)
  BY <1>1, <1>4, SetAllTypes DEF PurgeSession, SyllabusTypeOK
<1>. QED  BY <1>2, <1>3, <1>4

LEMMA WeekType ==
    ASSUME SyllabusTypeOK, NEW w \in Weeks, ArchiveWeek(w) \/ PurgeWeek(w)
    PROVE  SyllabusTypeOK'
<1>1. version' \in 0..MaxVersion
  BY BumpType DEF ArchiveWeek, PurgeWeek
<1>2. CASE ArchiveWeek(w)
  <2>1. HiddenNow({w}, ShownIn(w)) /\ ShownIn(w) \in SUBSET Lessons
    BY <1>2 DEF ArchiveWeek, ShownIn, SessionsIn
  <2>2. /\ weekAt' \in [Weeks -> 0..MaxHides] /\ lessonAt' \in [Lessons -> 0..MaxHides]
        /\ hidWith' \in [Weeks -> SUBSET Lessons] /\ hides' \in 0..MaxHides
    BY <2>1, HiddenNowIs DEF HidRows
  <2>. QED  BY <1>1, <1>2, <2>2, SetAllTypes DEF ArchiveWeek, SyllabusTypeOK
<1>3. CASE PurgeWeek(w)
  BY <1>1, <1>3, SetAllTypes DEF PurgeWeek, SyllabusTypeOK
<1>. QED  BY <1>2, <1>3

(* What a batch does, row by row.                                          *)
NewPlaces(new, place) ==
    /\ new \in SUBSET Lessons /\ place \in [new -> Weeks]
    /\ \A s \in new : lesson[s] = "none" /\ week[place[s]] \in {"none", "live"}
    /\ \A w \in Weeks : week'[w] = IF \E s \in new : place[s] = w THEN "live" ELSE week[w]
    /\ \A s \in Lessons : lesson'[s] = IF s \in new THEN "live" ELSE lesson[s]
    /\ \A s \in Lessons : weekOf'[s] = IF s \in new THEN place[s] ELSE weekOf[s]
    /\ UNCHANGED <<weekAt, lessonAt, hides, hidWith>>

LEMMA BatchRows ==
    ASSUME SyllabusTypeOK, CreateBatch
    PROVE  /\ week' \in [Weeks -> States] /\ lesson' \in [Lessons -> States]
           /\ weekOf' \in [Lessons -> Weeks]
           /\ \E new : \E place \in [new -> Weeks] : NewPlaces(new, place)
<1>1. PICK new \in (SUBSET {s \in Lessons : lesson[s] = "none"}) \ {{}} :
          \E place \in [new -> {w \in Weeks : week[w] \in {"none", "live"}}] :
              /\ week' = SetAll(week, {place[s] : s \in new}, "live")
              /\ lesson' = SetAll(lesson, new, "live")
              /\ weekOf' = [s \in Lessons |-> IF s \in new THEN place[s] ELSE weekOf[s]]
  BY DEF CreateBatch
<1>2. PICK place \in [new -> {w \in Weeks : week[w] \in {"none", "live"}}] :
          /\ week' = SetAll(week, {place[s] : s \in new}, "live")
          /\ lesson' = SetAll(lesson, new, "live")
          /\ weekOf' = [s \in Lessons |-> IF s \in new THEN place[s] ELSE weekOf[s]]
  BY <1>1
<1>3. /\ week' \in [Weeks -> States] /\ lesson' \in [Lessons -> States]
      /\ weekOf' \in [Lessons -> Weeks]
  BY <1>2 DEF SetAll, SyllabusTypeOK, States
<1>4. /\ \A w \in Weeks : week'[w] = IF \E s \in new : place[s] = w THEN "live" ELSE week[w]
      /\ \A s \in Lessons : lesson'[s] = IF s \in new THEN "live" ELSE lesson[s]
  BY <1>2 DEF SetAll, SyllabusTypeOK
<1>5. new \in SUBSET Lessons /\ place \in [new -> Weeks]
      /\ \A s \in new : lesson[s] = "none" /\ week[place[s]] \in {"none", "live"}
  BY <1>1, <1>2
<1>. QED
  BY <1>2, <1>3, <1>4, <1>5 DEF NewPlaces, CreateBatch, NothingHidden

LEMMA BatchType ==
    ASSUME SyllabusTypeOK, CreateBatch \/ EditDetails
    PROVE  SyllabusTypeOK'
<1>1. version' \in 0..MaxVersion
  BY BumpType DEF CreateBatch, EditDetails
<1>2. CASE CreateBatch
  BY <1>1, <1>2, BatchRows DEF CreateBatch, NothingHidden, SyllabusTypeOK
<1>3. CASE EditDetails
  BY <1>1, <1>3 DEF EditDetails, rowVars, SyllabusTypeOK
<1>. QED  BY <1>2, <1>3

RestoreStep(t) ==
    \/ RestoreSession(t) \/ RestoreWeek(t)
    \/ \E s \in Lessons : RestoreSessionReads(t, s)
    \/ \E w \in Weeks : RestoreWeekReads(t, w)

LEMMA RestoreType ==
    ASSUME SyllabusTypeOK, NEW t \in Restorers, RestoreStep(t)
    PROVE  SyllabusTypeOK'
<1>1. \A tx \in Restores : RestoreBegins(t, tx) => SyllabusTypeOK'
  BY DEF RestoreBegins, rowVars, SyllabusTypeOK
<1>0. hides \in 0..MaxHides
  BY DEF SyllabusTypeOK
<1>2. \A s \in Lessons : RestoreSessionReads(t, s) => SyllabusTypeOK'
  BY <1>0, <1>1 DEF RestoreSessionReads, Restores
<1>3. \A w \in Weeks : RestoreWeekReads(t, w) => SyllabusTypeOK'
  BY <1>0, <1>1 DEF RestoreWeekReads, Restores
<1>4. CASE RestoreSession(t)
  BY <1>4, BumpType, RestoreTypes, SyllabusAssumption
     DEF RestoreSession, Ends, SetAll, States, SyllabusTypeOK
<1>5. CASE RestoreWeek(t)
  BY <1>5, BumpType, RestoreTypes, SyllabusAssumption
     DEF RestoreWeek, Ends, SetAll, States, SyllabusTypeOK
<1>. QED  BY <1>2, <1>3, <1>4, <1>5 DEF RestoreStep

LEMMA NextSyllabusType == SyllabusTypeOK /\ [SyllabusNext]_syllabusVars => SyllabusTypeOK'
<1>. SUFFICES ASSUME SyllabusTypeOK, [SyllabusNext]_syllabusVars
              PROVE  SyllabusTypeOK'
  OBVIOUS
<1>1. CASE UNCHANGED syllabusVars
  BY <1>1 DEF syllabusVars, rowVars, SyllabusTypeOK
<1>. QED
  BY <1>1, ReplaceType, EditorType, LessonType, BatchType, WeekType, RestoreType
     DEF SyllabusNext, RestoreStep

(* Weeks, sessions, pages and restores keep their shape.                   *)
THEOREM SyllabusTypeCorrect == SyllabusSpec => []SyllabusTypeOK
BY InitSyllabusType, NextSyllabusType, PTL DEF SyllabusSpec

-----------------------------------------------------------------------------
(* The version. *)

(* A page that has the version of the course shows its programme.          *)
VersionInv ==
    \A e \in Editors :
        /\ editor[e].version <= version
        /\ editor[e].version = version => editor[e].shows = Programme

(* Every write of the programme raises the version.                        *)
LEMMA VersionMoves ==
    ASSUME SyllabusTypeOK, [SyllabusNext]_syllabusVars
    PROVE  \/ version' = version + 1 /\ UNCHANGED editor
           \/ \E e \in Editors : OpenPage(e)
           \/ UNCHANGED <<rowVars, version, editor>>
<1>1. \A s \in Lessons, w \in Weeks :
          CreateLesson(s, w) => version' = version + 1 /\ UNCHANGED editor
  BY BumpType DEF CreateLesson
<1>2. Replace \/ (\E e \in Editors : SaveCourse(e)) => version' = version + 1 /\ UNCHANGED editor
  BY BumpType DEF Replace, SaveCourse
<1>3. \A e \in Editors, s \in Lessons, w \in Weeks :
          MoveLesson(e, s, w) => version' = version + 1 /\ UNCHANGED editor
  BY BumpType DEF MoveLesson
<1>4. \A t \in Restorers :
          RestoreSession(t) \/ RestoreWeek(t) => version' = version + 1 /\ UNCHANGED editor
  BY BumpType DEF RestoreSession, RestoreWeek
<1>5. \A t \in Restorers, s \in Lessons :
          RestoreSessionReads(t, s) => UNCHANGED <<rowVars, version, editor>>
  BY DEF RestoreSessionReads, RestoreBegins
<1>6. \A t \in Restorers, w \in Weeks :
          RestoreWeekReads(t, w) => UNCHANGED <<rowVars, version, editor>>
  BY DEF RestoreWeekReads, RestoreBegins
<1>7. \A s \in Lessons : ArchiveLesson(s) \/ PurgeSession(s) => version' = version + 1 /\ UNCHANGED editor
  BY BumpType DEF ArchiveLesson, PurgeSession
<1>8. \A w \in Weeks : ArchiveWeek(w) \/ PurgeWeek(w) => version' = version + 1 /\ UNCHANGED editor
  BY BumpType DEF ArchiveWeek, PurgeWeek
<1>9. UNCHANGED syllabusVars => UNCHANGED <<rowVars, version, editor>>
  BY DEF syllabusVars
<1>10. CreateBatch \/ EditDetails => version' = version + 1 /\ UNCHANGED editor
  BY BumpType DEF CreateBatch, EditDetails
<1>. QED
  BY <1>1, <1>2, <1>3, <1>4, <1>5, <1>6, <1>7, <1>8, <1>9, <1>10 DEF SyllabusNext

LEMMA VersionStep ==
    SyllabusTypeOK /\ VersionInv /\ [SyllabusNext]_syllabusVars => VersionInv'
<1>. SUFFICES ASSUME SyllabusTypeOK, VersionInv, [SyllabusNext]_syllabusVars
              PROVE  VersionInv'
  OBVIOUS
<1>1. CASE version' = version + 1 /\ UNCHANGED editor
  <2>1. \A e \in Editors : editor[e].version \in Nat /\ version \in Nat
    BY DEF SyllabusTypeOK
  <2>. QED  BY <1>1, <2>1 DEF VersionInv
<1>2. ASSUME NEW e \in Editors, OpenPage(e)
      PROVE  VersionInv'
  <2>1. version' = version /\ Programme' = Programme
    BY <1>2 DEF OpenPage, rowVars, Programme, Live, IsShown
  <2>2. editor' = [editor EXCEPT ![e] = [version |-> version, shows |-> Programme]]
    BY <1>2 DEF OpenPage
  <2>3. version <= version
    BY DEF SyllabusTypeOK
  <2>. QED  BY <2>1, <2>2, <2>3 DEF VersionInv, SyllabusTypeOK
<1>3. CASE UNCHANGED <<rowVars, version, editor>>
  <2>1. Programme' = Programme
    BY <1>3 DEF rowVars, Programme, Live, IsShown
  <2>. QED  BY <1>3, <2>1 DEF VersionInv
<1>. QED  BY <1>1, <1>2, <1>3, VersionMoves

(* A save replaces the programme its page was showing, however restores,   *)
(* hides and other saves interleave: none of them leaves the version (the  *)
(* restores, which come to the course row last, included).                 *)
THEOREM SaveIsCurrent == SyllabusSpec => SavesWhatWasShown
<1>1. SyllabusInit => VersionInv
  BY DEF SyllabusInit, VersionInv
<1>2. VersionInv =>
          \A e \in Editors : SaveCourse(e) => Programme = editor[e].shows
  BY DEF VersionInv, SaveCourse, Current
<1>3. SyllabusSpec => [](SyllabusTypeOK /\ VersionInv)
  BY <1>1, InitSyllabusType, NextSyllabusType, VersionStep, PTL DEF SyllabusSpec
<1>. QED  BY <1>2, <1>3, PTL DEF SavesWhatWasShown
-----------------------------------------------------------------------------
(* The rows. *)

(* A row has an instant while it is hidden, and none later than the last.  *)
InstantInv ==
    /\ \A s \in Lessons : lessonAt[s] <= hides /\ (lesson[s] # "hidden" => lessonAt[s] = 0)
    /\ \A w \in Weeks : week[w] = "hidden" => weekAt[w] \in 1..hides

(* The instant of a hidden week is that of the sessions hidden with it.    *)
TakenInv ==
    \A w \in Weeks : week[w] = "hidden" =>
        \A s \in Lessons :
            s \in hidWith[w] /\ lesson[s] # "purged"
                <=> weekOf[s] = w /\ lesson[s] = "hidden" /\ lessonAt[s] = weekAt[w]

RowsInv == SyllabusTypeOK /\ InstantInv /\ TakenInv

(* What a write that is neither a restore nor a purge leaves of the hidden *)
(* rows, and the weeks it hides: those after every restore that has read.  *)
HiddenStays ==
    /\ hides \in Nat /\ hides' \in Nat /\ hides <= hides'
    /\ \A s \in Lessons : lesson[s] = "hidden" =>
           lesson'[s] = "hidden" /\ lessonAt'[s] = lessonAt[s] /\ weekOf'[s] = weekOf[s]
    /\ \A w \in Weeks : week[w] = "hidden" => week'[w] = "hidden" /\ weekAt'[w] = weekAt[w]
    /\ \A w \in Weeks : week[w] = "live" =>
           week'[w] = "live" \/ (week'[w] = "hidden" /\ weekAt'[w] = hides + 1)

NoneGoesAstray == \A s \in Lessons : Astray(s)' => Astray(s)

RowsAreKept == RowsInv' /\ HiddenStays /\ NoneGoesAstray

LEMMA NothingWritten ==
    ASSUME RowsInv, SyllabusTypeOK', UNCHANGED <<rowVars, hides, hidWith>>
    PROVE  RowsAreKept
<1>1. InstantInv' /\ TakenInv'
  BY DEF RowsInv, InstantInv, TakenInv, rowVars
<1>2. HiddenStays
  BY DEF HiddenStays, RowsInv, SyllabusTypeOK, rowVars
<1>3. NoneGoesAstray
  BY DEF NoneGoesAstray, Astray, Live, IsShown, rowVars
<1>. QED  BY <1>1, <1>2, <1>3 DEF RowsAreKept, RowsInv

LEMMA SaveRowsInv ==
    ASSUME RowsInv, Replace, SyllabusTypeOK'
    PROVE  RowsAreKept
<1>. SyllabusTypeOK
  BY DEF RowsInv
<1>. USE DEF Live, IsShown
<1>1. PICK keep, stay : \E place \in [stay -> keep] :
          /\ SavedAs(keep, stay, place)
          /\ \/ /\ HidNothing
                /\ \A w \in Weeks \ keep : ~Live(w)
                /\ \A s \in Lessons \ stay : ~IsShown(s)
             \/ HidRows({w \in Weeks : Live(w)} \ keep, {s \in Lessons : IsShown(s)} \ stay)
  BY SaveRows
<1>2. PICK place \in [stay -> keep] :
          /\ SavedAs(keep, stay, place)
          /\ \/ /\ HidNothing
                /\ \A w \in Weeks \ keep : ~Live(w)
                /\ \A s \in Lessons \ stay : ~IsShown(s)
             \/ HidRows({w \in Weeks : Live(w)} \ keep, {s \in Lessons : IsShown(s)} \ stay)
  BY <1>1
<1>3. NoneGoesAstray
  BY <1>2 DEF SavedAs, NoneGoesAstray, Astray
<1>4. /\ \A w \in Weeks : week[w] = "hidden" => week'[w] = "hidden" /\ w \notin keep
      /\ \A s \in Lessons : lesson[s] \notin {"none", "live"} =>
             s \notin stay /\ lesson'[s] = lesson[s] /\ weekOf'[s] = weekOf[s]
      /\ \A s \in Lessons : s \in stay => lesson'[s] = "live" /\ weekOf'[s] \in keep
  BY <1>2 DEF SavedAs
<1>5. CASE /\ HidNothing
           /\ \A w \in Weeks \ keep : ~Live(w)
           /\ \A s \in Lessons \ stay : ~IsShown(s)
  <2>1. /\ \A w \in Weeks : week'[w] = "hidden" => week[w] = "hidden"
        /\ \A w \in Weeks : week[w] = "live" => week'[w] = "live"
        /\ \A s \in Lessons : lesson'[s] = "hidden" => lesson[s] = "hidden"
    BY <1>2, <1>5 DEF SavedAs
  <2>2. HiddenStays
    BY <1>4, <1>5, <2>1 DEF HiddenStays, HidNothing, SyllabusTypeOK
  <2>3. InstantInv'
    BY <1>4, <1>5, <2>1 DEF RowsInv, InstantInv, HidNothing
  <2>4. TakenInv'
    BY <1>4, <1>5, <2>1 DEF RowsInv, TakenInv, HidNothing
  <2>. QED
    BY <1>3, <2>2, <2>3, <2>4 DEF RowsInv, RowsAreKept
<1>6. CASE HidRows({w \in Weeks : Live(w)} \ keep, {s \in Lessons : IsShown(s)} \ stay)
  <2>1. /\ hides' = hides + 1 /\ hides \in Nat
        /\ \A s \in Lessons : lessonAt[s] \in Nat /\ lessonAt[s] <= hides
    BY <1>6 DEF HidRows, RowsInv, InstantInv, SyllabusTypeOK
  <2>2. \A s \in Lessons :
            \/ lesson[s] = "live" /\ s \notin stay /\ lesson'[s] = "hidden"
               /\ lessonAt'[s] = hides' /\ weekOf'[s] = weekOf[s]
            \/ lesson[s] \in {"none", "live"} /\ s \in stay /\ lesson'[s] = "live"
               /\ lessonAt'[s] = lessonAt[s]
            \/ lesson[s] # "live" /\ s \notin stay /\ lesson'[s] = lesson[s]
               /\ lessonAt'[s] = lessonAt[s] /\ weekOf'[s] = weekOf[s]
    BY <1>2, <1>6 DEF SavedAs, HidRows
  <2>3. \A w \in Weeks : week'[w] = "hidden" =>
            \/ /\ week[w] = "live" /\ w \notin keep /\ weekAt'[w] = hides'
               /\ hidWith'[w] = {s \in {x \in Lessons : lesson[x] = "live"} \ stay : weekOf'[s] = w}
            \/ week[w] = "hidden" /\ weekAt'[w] = weekAt[w] /\ hidWith'[w] = hidWith[w]
    BY <1>2, <1>6 DEF SavedAs, HidRows
  <2>4. InstantInv'
    <3>1. ASSUME NEW s \in Lessons
          PROVE  lessonAt'[s] <= hides' /\ (lesson'[s] # "hidden" => lessonAt'[s] = 0)
      <4>1. lessonAt[s] <= hides /\ (lesson[s] # "hidden" => lessonAt[s] = 0)
        BY DEF RowsInv, InstantInv
      <4>. QED  BY <2>1, <2>2, <4>1
    <3>2. ASSUME NEW w \in Weeks, week'[w] = "hidden"
          PROVE  weekAt'[w] \in 1..hides'
      <4>1. week[w] = "hidden" => weekAt[w] \in 1..hides
        BY DEF RowsInv, InstantInv
      <4>. QED  BY <2>1, <2>3, <3>2, <4>1
    <3>. QED  BY <3>1, <3>2 DEF InstantInv
  <2>5. ASSUME NEW w \in Weeks, week'[w] = "hidden", NEW s \in Lessons
        PROVE  s \in hidWith'[w] /\ lesson'[s] # "purged"
                   <=> weekOf'[s] = w /\ lesson'[s] = "hidden" /\ lessonAt'[s] = weekAt'[w]
    <3>1. CASE week[w] = "live" /\ w \notin keep /\ weekAt'[w] = hides'
               /\ hidWith'[w] = {x \in {y \in Lessons : lesson[y] = "live"} \ stay : weekOf'[x] = w}
      BY <1>4, <2>1, <2>2, <2>5, <3>1
    <3>2. CASE week[w] = "hidden" /\ weekAt'[w] = weekAt[w] /\ hidWith'[w] = hidWith[w]
      <4>1. /\ s \in hidWith[w] /\ lesson[s] # "purged"
                   <=> weekOf[s] = w /\ lesson[s] = "hidden" /\ lessonAt[s] = weekAt[w]
            /\ weekAt[w] \in 1..hides
        BY <3>2 DEF RowsInv, TakenInv, InstantInv
      <4>. QED  BY <1>4, <2>1, <2>2, <3>2, <4>1
    <3>. QED  BY <2>3, <2>5, <3>1, <3>2
  <2>6. HiddenStays
    <3>1. \A w \in Weeks : week[w] = "live" =>
              week'[w] = "live" \/ (week'[w] = "hidden" /\ weekAt'[w] = hides + 1)
      BY <1>2, <1>6, <2>1 DEF SavedAs, HidRows
    <3>2. \A w \in Weeks : week[w] = "hidden" => week'[w] = "hidden" /\ weekAt'[w] = weekAt[w]
      BY <1>4, <2>3
    <3>3. \A s \in Lessons : lesson[s] = "hidden" =>
              lesson'[s] = "hidden" /\ lessonAt'[s] = lessonAt[s] /\ weekOf'[s] = weekOf[s]
      BY <2>2
    <3>. QED  BY <2>1, <3>1, <3>2, <3>3 DEF HiddenStays
  <2>. QED  BY <1>3, <2>4, <2>5, <2>6 DEF RowsInv, TakenInv, RowsAreKept
<1>. QED  BY <1>2, <1>5, <1>6

LEMMA PlacedRowsInv ==
    ASSUME RowsInv, NEW s \in Lessons, NEW w \in Weeks, SyllabusTypeOK',
           CreateLesson(s, w) \/ \E e \in Editors : MoveLesson(e, s, w)
    PROVE  RowsAreKept
<1>. USE DEF Live, IsShown
<1>1. /\ UNCHANGED <<week, weekAt, lessonAt, hides, hidWith>>
      /\ week[w] = "live" /\ lesson[s] \in {"none", "live"}
      /\ weekOf' = [weekOf EXCEPT ![s] = w]
      /\ \A x \in Lessons : lesson'[x] = IF x = s THEN "live" ELSE lesson[x]
  BY DEF CreateLesson, MoveLesson, NothingHidden, SetAll, RowsInv, SyllabusTypeOK
<1>2. \A x \in Lessons : weekOf'[x] = IF x = s THEN w ELSE weekOf[x]
  BY <1>1 DEF RowsInv, SyllabusTypeOK
<1>3. InstantInv'
  BY <1>1, <1>2 DEF RowsInv, InstantInv
<1>4. TakenInv'
  BY <1>1, <1>2 DEF RowsInv, TakenInv
<1>5. HiddenStays
  BY <1>1, <1>2 DEF HiddenStays, RowsInv, SyllabusTypeOK
<1>6. NoneGoesAstray
  BY <1>1, <1>2 DEF NoneGoesAstray, Astray
<1>. QED  BY <1>3, <1>4, <1>5, <1>6 DEF RowsInv, RowsAreKept

LEMMA BatchRowsInv ==
    ASSUME RowsInv, CreateBatch, SyllabusTypeOK'
    PROVE  RowsAreKept
<1>. USE DEF Live, IsShown
<1>1. PICK new : \E place \in [new -> Weeks] : NewPlaces(new, place)
  BY BatchRows DEF RowsInv
<1>2. PICK place \in [new -> Weeks] : NewPlaces(new, place)
  BY <1>1
<1>4. InstantInv'
  BY <1>2 DEF NewPlaces, RowsInv, InstantInv
<1>5. ASSUME NEW w \in Weeks, week'[w] = "hidden"
      PROVE  week[w] = "hidden" /\ \A s \in new : place[s] # w
  BY <1>2, <1>5 DEF NewPlaces
<1>6. TakenInv'
  BY <1>2, <1>5 DEF NewPlaces, RowsInv, TakenInv
<1>7. HiddenStays
  <2>1. \A w \in Weeks : /\ week[w] = "live" => week'[w] = "live"
                         /\ week[w] = "hidden" => week'[w] = "hidden"
    BY <1>2 DEF NewPlaces
  <2>. QED  BY <1>2, <2>1 DEF NewPlaces, HiddenStays, RowsInv, SyllabusTypeOK
<1>8. NoneGoesAstray
  BY <1>2 DEF NewPlaces, NoneGoesAstray, Astray, RowsInv, SyllabusTypeOK
<1>. QED  BY <1>4, <1>6, <1>7, <1>8 DEF RowsInv, RowsAreKept

(* A hide outside a save: of a session, or of a week with those shown in it. *)
LEMMA HideRowsInv ==
    ASSUME RowsInv, SyllabusTypeOK', NEW weeks \in SUBSET Weeks, NEW sessions \in SUBSET Lessons,
           HidRows(weeks, sessions), UNCHANGED weekOf,
           week' = SetAll(week, weeks, "hidden"), lesson' = SetAll(lesson, sessions, "hidden"),
           \A w \in weeks : Live(w), \A s \in sessions : IsShown(s),
           \A s \in Lessons : IsShown(s) /\ weekOf[s] \in weeks => s \in sessions
    PROVE  RowsAreKept
<1>. USE DEF Live, IsShown
<1>1. /\ \A w \in Weeks : week'[w] = IF w \in weeks THEN "hidden" ELSE week[w]
      /\ \A s \in Lessons : lesson'[s] = IF s \in sessions THEN "hidden" ELSE lesson[s]
  BY DEF SetAll, RowsInv, SyllabusTypeOK
<1>2. /\ hides' = hides + 1 /\ hides \in Nat
      /\ \A s \in Lessons : lessonAt[s] \in Nat /\ lessonAt[s] <= hides
      /\ \A s \in Lessons : lessonAt'[s] = IF s \in sessions THEN hides' ELSE lessonAt[s]
      /\ \A w \in Weeks : weekAt'[w] = IF w \in weeks THEN hides' ELSE weekAt[w]
      /\ \A w \in Weeks : hidWith'[w] = IF w \in weeks THEN {s \in sessions : weekOf[s] = w}
                                        ELSE hidWith[w]
  BY DEF HidRows, RowsInv, InstantInv, SyllabusTypeOK
<1>3. NoneGoesAstray
  BY <1>1 DEF RowsInv, NoneGoesAstray, Astray, SyllabusTypeOK
<1>4. InstantInv'
  <2>1. ASSUME NEW s \in Lessons
        PROVE  lessonAt'[s] <= hides' /\ (lesson'[s] # "hidden" => lessonAt'[s] = 0)
    <3>1. lessonAt[s] <= hides /\ (lesson[s] # "hidden" => lessonAt[s] = 0)
      BY DEF RowsInv, InstantInv
    <3>. QED  BY <1>1, <1>2, <3>1
  <2>2. ASSUME NEW w \in Weeks, week'[w] = "hidden"
        PROVE  weekAt'[w] \in 1..hides'
    <3>1. week[w] = "hidden" => weekAt[w] \in 1..hides
      BY DEF RowsInv, InstantInv
    <3>. QED  BY <1>1, <1>2, <2>2, <3>1
  <2>. QED  BY <2>1, <2>2 DEF InstantInv
<1>5. ASSUME NEW w \in Weeks, week'[w] = "hidden", NEW s \in Lessons
      PROVE  s \in hidWith'[w] /\ lesson'[s] # "purged"
                 <=> weekOf'[s] = w /\ lesson'[s] = "hidden" /\ lessonAt'[s] = weekAt'[w]
  <2>1. CASE w \in weeks
    <3>1. hidWith'[w] = {x \in sessions : weekOf[x] = w} /\ weekAt'[w] = hides'
      BY <1>2, <2>1
    <3>2. s \in sessions <=> lessonAt'[s] = hides'
      BY <1>2
    <3>3. s \in sessions => lesson'[s] = "hidden"
      BY <1>1
    <3>. QED  BY <3>1, <3>2, <3>3
  <2>2. CASE w \notin weeks
    <3>1. week[w] = "hidden" /\ weekAt[w] \in 1..hides
      BY <1>1, <1>5, <2>2 DEF RowsInv, InstantInv
    <3>2. s \in hidWith[w] /\ lesson[s] # "purged"
                 <=> weekOf[s] = w /\ lesson[s] = "hidden" /\ lessonAt[s] = weekAt[w]
      BY <3>1 DEF RowsInv, TakenInv
    <3>3. s \in sessions => lesson[s] = "live" /\ lessonAt'[s] # weekAt'[w]
      BY <1>2, <2>2, <3>1
    <3>. QED  BY <1>1, <1>2, <2>2, <3>1, <3>2, <3>3
  <2>. QED  BY <2>1, <2>2
<1>6. HiddenStays
  <2>1. \A w \in Weeks : week[w] = "hidden" => week'[w] = "hidden" /\ weekAt'[w] = weekAt[w]
    BY <1>1, <1>2
  <2>2. \A s \in Lessons : lesson[s] = "hidden" =>
            lesson'[s] = "hidden" /\ lessonAt'[s] = lessonAt[s] /\ weekOf'[s] = weekOf[s]
    BY <1>1, <1>2
  <2>3. \A w \in Weeks : week[w] = "live" =>
            week'[w] = "live" \/ (week'[w] = "hidden" /\ weekAt'[w] = hides + 1)
    BY <1>1, <1>2
  <2>. QED  BY <1>2, <2>1, <2>2, <2>3 DEF HiddenStays
<1>. QED  BY <1>3, <1>4, <1>5, <1>6 DEF RowsInv, TakenInv, RowsAreKept

LEMMA ArchiveRowsInv ==
    ASSUME RowsInv, SyllabusTypeOK',
           (\E s \in Lessons : ArchiveLesson(s)) \/ (\E w \in Weeks : ArchiveWeek(w))
    PROVE  RowsAreKept
<1>1. ASSUME NEW s \in Lessons, ArchiveLesson(s)
      PROVE  RowsAreKept
  <2>1. HidRows({}, {s})
    BY <1>1, HiddenNowIs DEF ArchiveLesson, RowsInv
  <2>2. week' = SetAll(week, {}, "hidden")
    BY <1>1 DEF ArchiveLesson, SetAll, RowsInv, SyllabusTypeOK
  <2>3. /\ UNCHANGED weekOf /\ lesson' = SetAll(lesson, {s}, "hidden") /\ IsShown(s)
        /\ {} \in SUBSET Weeks /\ {s} \in SUBSET Lessons
    BY <1>1 DEF ArchiveLesson
  <2>4. /\ \A w \in {} : Live(w)
        /\ \A x \in {s} : IsShown(x)
        /\ \A x \in Lessons : IsShown(x) /\ weekOf[x] \in {} => x \in {s}
    BY <2>3
  <2>. HIDE DEF HidRows
  <2>. QED  BY <2>1, <2>2, <2>3, <2>4, HideRowsInv
<1>2. ASSUME NEW w \in Weeks, ArchiveWeek(w)
      PROVE  RowsAreKept
  <2>1. ShownIn(w) = {s \in Lessons : weekOf[s] = w /\ IsShown(s)}
    BY DEF ShownIn, SessionsIn, IsShown
  <2>2. HidRows({w}, ShownIn(w))
    BY <1>2, <2>1, HiddenNowIs DEF ArchiveWeek, RowsInv
  <2>. QED  BY <1>2, <2>1, <2>2, HideRowsInv DEF ArchiveWeek
<1>. QED  BY <1>1, <1>2

-----------------------------------------------------------------------------
(* The restores: what still stands of what they read when they commit.     *)

(* The session of a restore stays hidden, and its week is shown or was     *)
(* hidden after the restore read it: not at the session's own instant.     *)
SessionPends(t) ==
    LET s == restore[t].item IN
    /\ lesson[s] = "hidden" /\ lessonAt[s] <= restore[t].since
    /\ \/ week[weekOf[s]] = "live"
       \/ week[weekOf[s]] = "hidden" /\ restore[t].since < weekAt[weekOf[s]]

PendingInv ==
    \A t \in Restorers : restore[t] # NoRestore =>
        /\ restore[t].since <= hides
        /\ \A u \in Restorers :
               u # t /\ restore[u] # NoRestore => restore[u].item # restore[t].item
        /\ restore[t].pc = "session" => SessionPends(t)
        /\ restore[t].pc = "week" => week[restore[t].item] = "hidden"

SyllabusInv == RowsInv /\ PendingInv

LEMMA Since ==
    ASSUME SyllabusTypeOK, NEW t \in Restorers, restore[t] # NoRestore
    PROVE  restore[t].since \in Nat
BY SyllabusAssumption DEF SyllabusTypeOK, Restores

LEMMA WritePends ==
    ASSUME SyllabusInv, RowsAreKept, UNCHANGED restore
    PROVE  PendingInv'
<1>. SyllabusTypeOK /\ PendingInv /\ HiddenStays
  BY DEF SyllabusInv, RowsInv, RowsAreKept
<1>. SUFFICES ASSUME NEW t \in Restorers, restore[t] # NoRestore
              PROVE  /\ restore[t].since <= hides'
                     /\ \A u \in Restorers :
                            u # t /\ restore[u] # NoRestore => restore[u].item # restore[t].item
                     /\ restore[t].pc = "session" => SessionPends(t)'
                     /\ restore[t].pc = "week" => week'[restore[t].item] = "hidden"
  BY DEF PendingInv
<1>1. restore[t].since \in Nat /\ restore[t].since <= hides /\ restore[t].since <= hides'
  BY Since DEF PendingInv, HiddenStays
<1>2. ASSUME restore[t].pc = "session"
      PROVE  SessionPends(t)'
  <2>. DEFINE s == restore[t].item
              v == weekOf[s]
  <2>1. s \in Lessons /\ v \in Weeks /\ s' = s
    BY <1>2, RestoreTypes DEF SyllabusTypeOK
  <2>2. /\ lesson[s] = "hidden" /\ lessonAt[s] <= restore[t].since
        /\ week[v] = "live" \/ (week[v] = "hidden" /\ restore[t].since < weekAt[v])
    BY <1>2 DEF PendingInv, SessionPends
  <2>3. lesson'[s] = "hidden" /\ lessonAt'[s] = lessonAt[s] /\ weekOf'[s] = v
    BY <2>1, <2>2 DEF HiddenStays
  <2>4. week'[v] = "live" \/ (week'[v] = "hidden" /\ restore[t].since < weekAt'[v])
    <3>1. CASE week[v] = "live"
      <4>1. week'[v] = "live" \/ (week'[v] = "hidden" /\ weekAt'[v] = hides + 1)
        BY <2>1, <3>1 DEF HiddenStays
      <4>2. restore[t].since < hides + 1
        BY <1>1 DEF HiddenStays
      <4>. QED  BY <4>1, <4>2
    <3>2. CASE week[v] = "hidden" /\ restore[t].since < weekAt[v]
      BY <2>1, <3>2 DEF HiddenStays
    <3>. QED  BY <2>2, <3>1, <3>2
  <2>. QED  BY <2>2, <2>3, <2>4 DEF SessionPends
<1>3. restore[t].pc = "week" => week'[restore[t].item] = "hidden"
  BY RestoreTypes DEF PendingInv, HiddenStays
<1>. QED  BY <1>1, <1>2, <1>3 DEF PendingInv

(* What a restore of a session writes.                                     *)
LEMMA SessionComesBack ==
    ASSUME SyllabusInv, NEW t \in Restorers, RestoreSession(t)
    PROVE  LET s == restore[t].item IN
           /\ restore[t] # NoRestore /\ s \in Lessons /\ SessionPends(t)
           /\ weekOf[s] \in Weeks
           /\ UNCHANGED <<week, weekAt, weekOf, hides, hidWith>>
           /\ \A x \in Lessons : lesson'[x] = IF x = s THEN "live" ELSE lesson[x]
           /\ \A x \in Lessons : lessonAt'[x] = IF x = s THEN 0 ELSE lessonAt[x]
BY RestoreTypes DEF SyllabusInv, RestoreSession, PendingInv, SetAll, RowsInv, SyllabusTypeOK

LEMMA RestoreSessionRowsInv ==
    ASSUME SyllabusInv, NEW t \in Restorers, RestoreSession(t), SyllabusTypeOK'
    PROVE  RowsInv'
<1>. DEFINE s == restore[t].item
<1>1. /\ restore[t] # NoRestore /\ s \in Lessons /\ SessionPends(t)
      /\ weekOf[s] \in Weeks
      /\ UNCHANGED <<week, weekAt, weekOf, hides, hidWith>>
      /\ \A x \in Lessons : lesson'[x] = IF x = s THEN "live" ELSE lesson[x]
      /\ \A x \in Lessons : lessonAt'[x] = IF x = s THEN 0 ELSE lessonAt[x]
  BY SessionComesBack
<1>2. InstantInv'
  BY <1>1 DEF SyllabusInv, RowsInv, InstantInv, SyllabusTypeOK
<1>3. /\ lesson[s] = "hidden" /\ lessonAt[s] <= restore[t].since
      /\ \/ week[weekOf[s]] = "live"
         \/ week[weekOf[s]] = "hidden" /\ restore[t].since < weekAt[weekOf[s]]
  BY <1>1 DEF SessionPends
<1>4. /\ restore[t].since \in Nat /\ lessonAt[s] \in Nat
      /\ \A w \in Weeks : weekAt[w] \in Nat
  BY <1>1, Since DEF SyllabusInv, RowsInv, SyllabusTypeOK
<1>5. ASSUME NEW w \in Weeks, week[w] = "hidden"
      PROVE  s \notin hidWith[w]
  <2>1. s \in hidWith[w] => weekOf[s] = w /\ lessonAt[s] = weekAt[w]
    BY <1>1, <1>3, <1>5 DEF SyllabusInv, RowsInv, TakenInv
  <2>. QED  BY <1>3, <1>4, <1>5, <2>1
<1>6. TakenInv'
  BY <1>1, <1>5 DEF SyllabusInv, RowsInv, TakenInv
<1>. QED  BY <1>2, <1>6 DEF RowsInv

(* What a restore of a week writes.                                        *)
LEMMA WeekComesBack ==
    ASSUME SyllabusInv, NEW t \in Restorers, RestoreWeek(t)
    PROVE  LET w == restore[t].item IN
           /\ restore[t] # NoRestore /\ w \in Weeks /\ week[w] = "hidden"
           /\ UNCHANGED <<weekOf, hides, hidWith>>
           /\ \A x \in Weeks : week'[x] = IF x = w THEN "live" ELSE week[x]
           /\ \A x \in Weeks : weekAt'[x] = IF x = w THEN 0 ELSE weekAt[x]
           /\ \A x \in Lessons : lesson'[x] = IF x \in BackWith(w) THEN "live" ELSE lesson[x]
           /\ \A x \in Lessons : lessonAt'[x] = IF x \in BackWith(w) THEN 0 ELSE lessonAt[x]
BY RestoreTypes DEF SyllabusInv, RestoreWeek, PendingInv, SetAll, RowsInv, SyllabusTypeOK

(* They were hidden with the week: a shown one has no instant.             *)
LEMMA BackWithIs ==
    ASSUME SyllabusInv, NEW w \in Weeks, week[w] = "hidden"
    PROVE  BackWith(w) = {s \in Lessons : weekOf[s] = w /\ lesson[s] = "hidden"
                                          /\ lessonAt[s] = weekAt[w]}
<1>1. \A s \in Lessons : lesson[s] = "live" => lessonAt[s] # weekAt[w]
  BY DEF SyllabusInv, RowsInv, InstantInv, SyllabusTypeOK
<1>. QED  BY <1>1 DEF BackWith, SessionsIn

LEMMA RestoreWeekRowsInv ==
    ASSUME SyllabusInv, NEW t \in Restorers, RestoreWeek(t), SyllabusTypeOK'
    PROVE  RowsInv'
<1>. DEFINE w == restore[t].item
<1>1. /\ w \in Weeks /\ week[w] = "hidden"
      /\ UNCHANGED <<weekOf, hides, hidWith>>
      /\ \A x \in Weeks : week'[x] = IF x = w THEN "live" ELSE week[x]
      /\ \A x \in Weeks : weekAt'[x] = IF x = w THEN 0 ELSE weekAt[x]
      /\ \A x \in Lessons : lesson'[x] = IF x \in BackWith(w) THEN "live" ELSE lesson[x]
      /\ \A x \in Lessons : lessonAt'[x] = IF x \in BackWith(w) THEN 0 ELSE lessonAt[x]
  BY WeekComesBack
<1>. HIDE DEF w
<1>2. \A x \in BackWith(w) : x \in Lessons /\ weekOf[x] = w /\ lesson[x] # "purged"
  BY DEF BackWith, SessionsIn
<1>3. InstantInv'
  BY <1>1, <1>2 DEF SyllabusInv, RowsInv, InstantInv, SyllabusTypeOK
<1>4. TakenInv'
  BY <1>1, <1>2 DEF SyllabusInv, RowsInv, TakenInv
<1>. QED  BY <1>3, <1>4 DEF RowsInv

LEMMA PurgeSessionWrites ==
    ASSUME SyllabusTypeOK, NEW s \in Lessons, PurgeSession(s)
    PROVE  /\ lesson[s] = "hidden" /\ UNCHANGED <<week, weekAt, weekOf, hides, hidWith, restore>>
           /\ \A x \in Lessons : lesson'[x] = IF x = s THEN "purged" ELSE lesson[x]
           /\ \A x \in Lessons : lessonAt'[x] = IF x = s THEN 0 ELSE lessonAt[x]
BY DEF PurgeSession, SetAll, SyllabusTypeOK

LEMMA PurgeWeekWrites ==
    ASSUME SyllabusTypeOK, NEW w \in Weeks, PurgeWeek(w)
    PROVE  /\ week[w] = "hidden" /\ UNCHANGED <<weekOf, hides, hidWith, restore>>
           /\ \A x \in Weeks : week'[x] = IF x = w THEN "purged" ELSE week[x]
           /\ \A x \in Weeks : weekAt'[x] = IF x = w THEN 0 ELSE weekAt[x]
           /\ \A x \in Lessons : lesson'[x] = IF x \in SessionsIn(w) THEN "purged" ELSE lesson[x]
           /\ \A x \in Lessons : lessonAt'[x] = IF x \in SessionsIn(w) THEN 0 ELSE lessonAt[x]
BY DEF PurgeWeek, SetAll, SyllabusTypeOK

LEMMA PurgeRowsInv ==
    ASSUME RowsInv, SyllabusTypeOK',
           (\E s \in Lessons : PurgeSession(s)) \/ (\E w \in Weeks : PurgeWeek(w))
    PROVE  RowsInv'
<1>1. ASSUME NEW s \in Lessons, PurgeSession(s)
      PROVE  RowsInv'
  <2>1. /\ lesson[s] = "hidden" /\ UNCHANGED <<week, weekAt, weekOf, hides, hidWith>>
        /\ \A x \in Lessons : lesson'[x] = IF x = s THEN "purged" ELSE lesson[x]
        /\ \A x \in Lessons : lessonAt'[x] = IF x = s THEN 0 ELSE lessonAt[x]
    BY <1>1, PurgeSessionWrites DEF RowsInv
  <2>2. InstantInv'
    BY <2>1 DEF RowsInv, InstantInv, SyllabusTypeOK
  <2>3. TakenInv'
    BY <2>1 DEF RowsInv, TakenInv
  <2>. QED  BY <2>2, <2>3 DEF RowsInv
<1>2. ASSUME NEW w \in Weeks, PurgeWeek(w)
      PROVE  RowsInv'
  <2>1. /\ week[w] = "hidden" /\ UNCHANGED <<weekOf, hides, hidWith>>
        /\ \A x \in Weeks : week'[x] = IF x = w THEN "purged" ELSE week[x]
        /\ \A x \in Weeks : weekAt'[x] = IF x = w THEN 0 ELSE weekAt[x]
        /\ \A x \in Lessons : lesson'[x] = IF x \in SessionsIn(w) THEN "purged" ELSE lesson[x]
        /\ \A x \in Lessons : lessonAt'[x] = IF x \in SessionsIn(w) THEN 0 ELSE lessonAt[x]
    BY <1>2, PurgeWeekWrites DEF RowsInv
  <2>2. \A x \in SessionsIn(w) : weekOf[x] = w
    BY DEF SessionsIn
  <2>3. InstantInv'
    <3>1. \A x \in Lessons : lessonAt[x] <= hides /\ (lesson[x] # "hidden" => lessonAt[x] = 0)
      BY DEF RowsInv, InstantInv
    <3>2. hides \in Nat
      BY DEF RowsInv, SyllabusTypeOK
    <3>3. \A x \in Weeks : week'[x] = "hidden" => weekAt'[x] \in 1..hides'
      BY <2>1 DEF RowsInv, InstantInv
    <3>4. \A x \in Lessons : lessonAt'[x] <= hides' /\ (lesson'[x] # "hidden" => lessonAt'[x] = 0)
      BY <2>1, <3>1, <3>2
    <3>. QED  BY <3>3, <3>4 DEF InstantInv
  <2>4. TakenInv'
    BY <2>1, <2>2 DEF RowsInv, TakenInv
  <2>. QED  BY <2>3, <2>4 DEF RowsInv
<1>. QED  BY <1>1, <1>2

(* The other restores keep their rows when one commits or a purge comes:   *)
(* each has its own locked, and a week goes with none of its sessions held.*)
OthersUntouched ==
    \A u \in Restorers : restore'[u] # NoRestore =>
        /\ restore'[u] = restore[u]
        /\ hides' = hides
        /\ restore[u].pc = "session" =>
               LET s == restore[u].item IN
               /\ lesson'[s] = lesson[s] /\ lessonAt'[s] = lessonAt[s] /\ weekOf'[s] = weekOf[s]
               /\ \/ week'[weekOf[s]] = "live"
                  \/ /\ week'[weekOf[s]] = week[weekOf[s]]
                     /\ weekAt'[weekOf[s]] = weekAt[weekOf[s]]
        /\ restore[u].pc = "week" => week'[restore[u].item] = week[restore[u].item]

LEMMA OthersPend ==
    ASSUME PendingInv, OthersUntouched
    PROVE  PendingInv'
<1>1. \A u \in Restorers : restore'[u] # NoRestore /\ restore'[u].pc = "session" => SessionPends(u)'
  BY DEF PendingInv, OthersUntouched, SessionPends
<1>2. \A u \in Restorers : restore'[u] # NoRestore =>
          /\ restore[u] # NoRestore /\ restore'[u].since <= hides'
          /\ restore'[u].pc = "week" => week'[restore'[u].item] = "hidden"
  BY DEF PendingInv, OthersUntouched
<1>3. \A u, v \in Restorers : restore'[u] # NoRestore /\ restore'[v] # NoRestore /\ u # v =>
          restore'[u].item # restore'[v].item
  BY DEF PendingInv, OthersUntouched
<1>. QED  BY <1>1, <1>2, <1>3 DEF PendingInv

LEMMA CommitPends ==
    ASSUME SyllabusInv, NEW t \in Restorers, RestoreSession(t) \/ RestoreWeek(t)
    PROVE  PendingInv'
<1>. SyllabusTypeOK /\ PendingInv
  BY DEF SyllabusInv, RowsInv
<1>1. /\ restore[t] # NoRestore
      /\ \A u \in Restorers : restore'[u] = IF u = t THEN NoRestore ELSE restore[u]
  BY DEF RestoreSession, RestoreWeek, Ends, SyllabusTypeOK
<1>. SUFFICES ASSUME NEW u \in Restorers, restore'[u] # NoRestore
              PROVE  /\ restore'[u] = restore[u]
                     /\ hides' = hides
                     /\ restore[u].pc = "session" =>
                            LET s == restore[u].item IN
                            /\ lesson'[s] = lesson[s] /\ lessonAt'[s] = lessonAt[s]
                            /\ weekOf'[s] = weekOf[s]
                            /\ \/ week'[weekOf[s]] = "live"
                               \/ /\ week'[weekOf[s]] = week[weekOf[s]]
                                  /\ weekAt'[weekOf[s]] = weekAt[weekOf[s]]
                     /\ restore[u].pc = "week" => week'[restore[u].item] = week[restore[u].item]
  BY OthersPend DEF OthersUntouched
<1>2. u # t /\ restore'[u] = restore[u] /\ restore[u] # NoRestore
      /\ restore[u].item # restore[t].item
  BY <1>1 DEF PendingInv
<1>. DEFINE i == restore[u].item
<1>3. /\ restore[u].pc = "session" => i \in Lessons /\ weekOf[i] \in Weeks /\ SessionPends(u)
      /\ restore[u].pc = "week" => i \in Weeks
  BY <1>2, RestoreTypes DEF PendingInv, SyllabusTypeOK
<1>4. CASE RestoreSession(t)
  BY <1>2, <1>3, <1>4, SessionComesBack
<1>5. CASE RestoreWeek(t)
  <2>. DEFINE w == restore[t].item
  <2>1. /\ w \in Weeks /\ week[w] = "hidden"
        /\ UNCHANGED <<weekOf, hides, hidWith>>
        /\ \A x \in Weeks : week'[x] = IF x = w THEN "live" ELSE week[x]
        /\ \A x \in Weeks : weekAt'[x] = IF x = w THEN 0 ELSE weekAt[x]
        /\ \A x \in Lessons : lesson'[x] = IF x \in BackWith(w) THEN "live" ELSE lesson[x]
        /\ \A x \in Lessons : lessonAt'[x] = IF x \in BackWith(w) THEN 0 ELSE lessonAt[x]
    BY <1>5, WeekComesBack
  <2>2. i # w
    BY <1>2
  <2>3. restore[u].pc = "session" => i \notin BackWith(w)
    <3>. SUFFICES ASSUME restore[u].pc = "session", i \in BackWith(w) PROVE FALSE
      OBVIOUS
    <3>1. weekOf[i] = w /\ lessonAt[i] = weekAt[w]
      BY DEF BackWith, SessionsIn
    <3>2. lessonAt[i] <= restore[u].since /\ restore[u].since < weekAt[w]
      BY <1>3, <2>1, <3>1 DEF SessionPends
    <3>3. restore[u].since \in Nat /\ weekAt[w] \in Nat
      BY <1>2, <2>1, Since DEF SyllabusTypeOK
    <3>. QED  BY <3>1, <3>2, <3>3
  <2>. HIDE DEF w, i
  <2>4. restore[u].pc = "session" =>
            /\ lesson'[i] = lesson[i] /\ lessonAt'[i] = lessonAt[i] /\ weekOf'[i] = weekOf[i]
            /\ \/ week'[weekOf[i]] = "live"
               \/ /\ week'[weekOf[i]] = week[weekOf[i]]
                  /\ weekAt'[weekOf[i]] = weekAt[weekOf[i]]
    BY <1>3, <2>1, <2>3
  <2>5. restore[u].pc = "week" => week'[i] = week[i]
    BY <1>3, <2>1, <2>2
  <2>. QED  BY <1>2, <2>1, <2>4, <2>5 DEF i
<1>. QED  BY <1>4, <1>5

LEMMA PurgePends ==
    ASSUME SyllabusInv, (\E s \in Lessons : PurgeSession(s)) \/ (\E w \in Weeks : PurgeWeek(w))
    PROVE  PendingInv'
<1>. SyllabusTypeOK /\ PendingInv
  BY DEF SyllabusInv, RowsInv
<1>0. restore' = restore /\ hides' = hides
  BY DEF PurgeSession, PurgeWeek
<1>. SUFFICES ASSUME NEW u \in Restorers, restore[u] # NoRestore
              PROVE  /\ restore[u].pc = "session" =>
                            LET s == restore[u].item IN
                            /\ lesson'[s] = lesson[s] /\ lessonAt'[s] = lessonAt[s]
                            /\ weekOf'[s] = weekOf[s]
                            /\ \/ week'[weekOf[s]] = "live"
                               \/ /\ week'[weekOf[s]] = week[weekOf[s]]
                                  /\ weekAt'[weekOf[s]] = weekAt[weekOf[s]]
                     /\ restore[u].pc = "week" => week'[restore[u].item] = week[restore[u].item]
  BY <1>0, OthersPend DEF OthersUntouched
<1>. DEFINE i == restore[u].item
<1>1. /\ restore[u].pc = "session" =>
             i \in Lessons /\ weekOf[i] \in Weeks /\ lesson[i] = "hidden"
      /\ restore[u].pc = "week" => i \in Weeks
  BY RestoreTypes DEF PendingInv, SessionPends, SyllabusTypeOK
<1>2. ASSUME NEW s \in Lessons, PurgeSession(s)
      PROVE  /\ restore[u].pc = "session" =>
                    /\ lesson'[i] = lesson[i] /\ lessonAt'[i] = lessonAt[i]
                    /\ weekOf'[i] = weekOf[i] /\ week'[weekOf[i]] = week[weekOf[i]]
                    /\ weekAt'[weekOf[i]] = weekAt[weekOf[i]]
             /\ restore[u].pc = "week" => week'[i] = week[i]
  <2>1. i # s
    BY <1>2 DEF PurgeSession, Locked
  <2>. QED  BY <1>1, <1>2, <2>1, PurgeSessionWrites
<1>3. ASSUME NEW w \in Weeks, PurgeWeek(w)
      PROVE  /\ restore[u].pc = "session" =>
                    /\ lesson'[i] = lesson[i] /\ lessonAt'[i] = lessonAt[i]
                    /\ weekOf'[i] = weekOf[i] /\ week'[weekOf[i]] = week[weekOf[i]]
                    /\ weekAt'[weekOf[i]] = weekAt[weekOf[i]]
             /\ restore[u].pc = "week" => week'[i] = week[i]
  <2>1. i # w /\ i \notin SessionsIn(w)
    BY <1>3 DEF PurgeWeek, Locked
  <2>2. restore[u].pc = "session" => weekOf[i] # w
    BY <1>1, <2>1 DEF SessionsIn
  <2>. QED  BY <1>1, <1>3, <2>1, <2>2, PurgeWeekWrites
<1>. QED  BY <1>2, <1>3

LEMMA ReadPends ==
    ASSUME SyllabusInv, NEW t \in Restorers,
           \/ \E s \in Lessons : RestoreSessionReads(t, s)
           \/ \E w \in Weeks : RestoreWeekReads(t, w)
    PROVE  PendingInv'
<1>. SyllabusTypeOK /\ PendingInv
  BY DEF SyllabusInv, RowsInv
<1>0. hides \in 0..MaxHides /\ hides \in Nat
  BY SyllabusAssumption DEF SyllabusTypeOK
<1>1. ASSUME NEW tx \in Restores, RestoreBegins(t, tx), tx.since = hides,
             tx.pc = "session" =>
                 /\ tx.item \in Lessons /\ lesson[tx.item] = "hidden"
                 /\ week[weekOf[tx.item]] = "live",
             tx.pc = "week" => week[tx.item] = "hidden"
      PROVE  PendingInv'
  <2>1. /\ restore[t] = NoRestore /\ ~Locked({tx.item}) /\ UNCHANGED rowVars /\ hides' = hides
        /\ \A u \in Restorers : restore'[u] = IF u = t THEN tx ELSE restore[u]
    BY <1>1 DEF RestoreBegins, SyllabusTypeOK
  <2>2. \A u \in Restorers : u # t /\ restore[u] # NoRestore => restore[u].item # tx.item
    BY <2>1 DEF Locked
  <2>3. tx.item \in Lessons => lessonAt[tx.item] <= hides
    BY DEF SyllabusInv, RowsInv, InstantInv
  <2>4. tx.pc = "session" => SessionPends(t)'
    BY <1>1, <2>1, <2>3 DEF SessionPends, rowVars
  <2>5. \A u \in Restorers : u # t /\ restore[u] # NoRestore /\ restore[u].pc = "session"
            => SessionPends(u)'
    BY <2>1 DEF SessionPends, PendingInv, rowVars
  <2>6. hides <= hides
    BY <1>0
  <2>7. \A u \in Restorers : u # t /\ restore[u] # NoRestore =>
            /\ restore'[u].since <= hides'
            /\ restore'[u].pc = "week" => week'[restore'[u].item] = "hidden"
            /\ \A v \in Restorers :
                   v # u /\ restore'[v] # NoRestore => restore'[v].item # restore'[u].item
    BY <2>1, <2>2 DEF PendingInv, rowVars
  <2>8. /\ restore'[t].since <= hides'
        /\ restore'[t].pc = "week" => week'[restore'[t].item] = "hidden"
        /\ \A v \in Restorers :
               v # t /\ restore'[v] # NoRestore => restore'[v].item # restore'[t].item
    BY <1>1, <2>1, <2>2, <2>6 DEF rowVars
  <2>. QED  BY <2>1, <2>4, <2>5, <2>7, <2>8 DEF PendingInv
<1>2. ASSUME NEW s \in Lessons, RestoreSessionReads(t, s)
      PROVE  PendingInv'
  <2>. DEFINE tx == [pc |-> "session", item |-> s, since |-> hides]
  <2>1. tx \in Restores /\ tx.pc = "session" /\ tx.item = s /\ tx.since = hides
    BY <1>0 DEF Restores
  <2>2. RestoreBegins(t, tx) /\ lesson[s] = "hidden" /\ week[weekOf[s]] = "live"
    BY <1>2 DEF RestoreSessionReads, WeekShown, Live
  <2>. HIDE DEF tx
  <2>. QED  BY <1>1, <2>1, <2>2
<1>3. ASSUME NEW w \in Weeks, RestoreWeekReads(t, w)
      PROVE  PendingInv'
  <2>. DEFINE tx == [pc |-> "week", item |-> w, since |-> hides]
  <2>1. tx \in Restores /\ tx.pc = "week" /\ tx.item = w /\ tx.since = hides
    BY <1>0 DEF Restores
  <2>2. RestoreBegins(t, tx) /\ week[w] = "hidden"
    BY <1>3 DEF RestoreWeekReads
  <2>. HIDE DEF tx
  <2>. QED  BY <1>1, <2>1, <2>2
<1>. QED  BY <1>2, <1>3

(* The steps of the module: a write that keeps what restores have read, a  *)
(* read, a commit or a purge.                                              *)
RestoreReads(t) == \/ \E s \in Lessons : RestoreSessionReads(t, s)
            \/ \E w \in Weeks : RestoreWeekReads(t, w)

Purges == (\E s \in Lessons : PurgeSession(s)) \/ (\E w \in Weeks : PurgeWeek(w))

LEMMA SyllabusMoves ==
    ASSUME RowsInv, [SyllabusNext]_syllabusVars
    PROVE  \/ RowsAreKept /\ UNCHANGED restore
           \/ \E t \in Restorers : RestoreReads(t)
           \/ \E t \in Restorers : RestoreSession(t) \/ RestoreWeek(t)
           \/ Purges
<1>1. SyllabusTypeOK /\ SyllabusTypeOK'
  BY NextSyllabusType DEF RowsInv
<1>2. UNCHANGED <<rowVars, hides, hidWith>> => RowsAreKept
  BY <1>1, NothingWritten
<1>3. \A e \in Editors : OpenPage(e) => RowsAreKept /\ UNCHANGED restore
  BY <1>2 DEF OpenPage
<1>4. Replace \/ (\E e \in Editors : SaveCourse(e)) => RowsAreKept /\ UNCHANGED restore
  BY <1>1, SaveRowsInv DEF SaveCourse, Replace
<1>5. \A s \in Lessons, w \in Weeks :
          CreateLesson(s, w) \/ (\E e \in Editors : MoveLesson(e, s, w))
              => RowsAreKept /\ UNCHANGED restore
  BY <1>1, PlacedRowsInv DEF CreateLesson, MoveLesson
<1>6. (\E s \in Lessons : ArchiveLesson(s)) \/ (\E w \in Weeks : ArchiveWeek(w))
          => RowsAreKept /\ UNCHANGED restore
  BY <1>1, ArchiveRowsInv DEF ArchiveLesson, ArchiveWeek
<1>7. CreateBatch => RowsAreKept /\ UNCHANGED restore
  BY <1>1, BatchRowsInv DEF CreateBatch
<1>8. EditDetails => RowsAreKept /\ UNCHANGED restore
  BY <1>2 DEF EditDetails
<1>9. UNCHANGED syllabusVars => RowsAreKept /\ UNCHANGED restore
  BY <1>2 DEF syllabusVars
<1>. QED
  BY <1>3, <1>4, <1>5, <1>6, <1>7, <1>8, <1>9 DEF SyllabusNext, RestoreReads, Purges

LEMMA SyllabusInvStep ==
    SyllabusInv /\ [SyllabusNext]_syllabusVars => SyllabusInv'
<1>. SUFFICES ASSUME SyllabusInv, [SyllabusNext]_syllabusVars
              PROVE  SyllabusInv'
  OBVIOUS
<1>1. RowsInv /\ SyllabusTypeOK'
  BY NextSyllabusType DEF SyllabusInv, RowsInv
<1>2. CASE RowsAreKept /\ UNCHANGED restore
  BY <1>2, WritePends DEF RowsAreKept, SyllabusInv
<1>3. ASSUME NEW t \in Restorers, RestoreReads(t)
      PROVE  SyllabusInv'
  <2>1. UNCHANGED <<rowVars, hides, hidWith>>
    BY <1>3 DEF RestoreReads, RestoreSessionReads, RestoreWeekReads, RestoreBegins
  <2>. QED  BY <1>1, <1>3, <2>1, NothingWritten, ReadPends DEF RestoreReads, RowsAreKept, SyllabusInv
<1>4. ASSUME NEW t \in Restorers, RestoreSession(t) \/ RestoreWeek(t)
      PROVE  SyllabusInv'
  BY <1>1, <1>4, RestoreSessionRowsInv, RestoreWeekRowsInv, CommitPends DEF SyllabusInv
<1>5. CASE Purges
  BY <1>1, <1>5, PurgeRowsInv, PurgePends DEF Purges, SyllabusInv
<1>. QED  BY <1>1, <1>2, <1>3, <1>4, <1>5, SyllabusMoves

LEMMA SyllabusAlways == SyllabusSpec => []SyllabusInv
<1>1. SyllabusInit => SyllabusInv
  <2>. SUFFICES ASSUME SyllabusInit PROVE SyllabusInv
    OBVIOUS
  <2>1. SyllabusTypeOK
    BY InitSyllabusType
  <2>2. /\ \A s \in Lessons : lesson[s] \in {"none", "live"} /\ lessonAt[s] = 0
        /\ \A w \in Weeks : week[w] \in {"none", "live"}
        /\ hides = 0 /\ 0 <= 0
    BY DEF SyllabusInit
  <2>3. InstantInv /\ TakenInv
    BY <2>2 DEF InstantInv, TakenInv
  <2>4. PendingInv
    BY DEF SyllabusInit, PendingInv
  <2>. QED  BY <2>1, <2>3, <2>4 DEF SyllabusInv, RowsInv
<1>. QED  BY <1>1, SyllabusInvStep, PTL DEF SyllabusSpec

-----------------------------------------------------------------------------
(* What comes back with a week. *)

LEMMA OnlyRestored ==
    ASSUME SyllabusTypeOK, [SyllabusNext]_syllabusVars,
           NEW w \in Weeks, week[w] = "hidden", week'[w] = "live"
    PROVE  \E t \in Restorers : RestoreWeek(t) /\ restore[t].item = w
<1>1. \A e \in Editors : ~OpenPage(e)
  BY DEF OpenPage, rowVars
<1>2. ~Replace /\ \A e \in Editors : ~SaveCourse(e)
  <2>. SUFFICES ASSUME Replace PROVE FALSE
    BY DEF SaveCourse
  <2>1. PICK keep, stay : \E place \in [stay -> keep] : SavedAs(keep, stay, place)
    BY SaveRows
  <2>. QED  BY <2>1 DEF SavedAs, Live
<1>3. \A s \in Lessons, v \in Weeks :
          /\ ~CreateLesson(s, v)
          /\ \A e \in Editors : ~MoveLesson(e, s, v)
  BY DEF CreateLesson, MoveLesson
<1>4. \A s \in Lessons : ~ArchiveLesson(s) /\ ~PurgeSession(s)
  BY DEF ArchiveLesson, PurgeSession
<1>5. \A v \in Weeks : ~ArchiveWeek(v) /\ ~PurgeWeek(v)
  BY DEF ArchiveWeek, PurgeWeek, SetAll, SyllabusTypeOK
<1>6. \A t \in Restorers :
          /\ ~RestoreSession(t)
          /\ \A s \in Lessons : ~RestoreSessionReads(t, s)
          /\ \A v \in Weeks : ~RestoreWeekReads(t, v)
  BY DEF RestoreSession, RestoreSessionReads, RestoreWeekReads, RestoreBegins, rowVars
<1>7. \A t \in Restorers : RestoreWeek(t) => restore[t].item = w
  BY DEF RestoreWeek, SetAll, SyllabusTypeOK
<1>8. ~UNCHANGED syllabusVars /\ ~EditDetails
  BY DEF syllabusVars, rowVars, EditDetails
<1>9. ~CreateBatch
  <2>. SUFFICES ASSUME CreateBatch PROVE FALSE
    OBVIOUS
  <2>1. PICK new : \E place \in [new -> Weeks] : NewPlaces(new, place)
    BY BatchRows
  <2>. QED  BY <2>1 DEF NewPlaces
<1>. QED  BY <1>1, <1>2, <1>3, <1>4, <1>5, <1>6, <1>7, <1>8, <1>9 DEF SyllabusNext

(* A restore of a week brings back what the week's hide took, but what was *)
(* purged since, and nothing else: whatever saves, hides, purges and other *)
(* restores commit between its reads and its commit.                       *)
THEOREM WeekComesBackAsHidden == SyllabusSpec => RestoredAsHidden
<1>1. SyllabusInv /\ [SyllabusNext]_syllabusVars =>
          \A w \in Weeks :
              week[w] = "hidden" /\ week'[w] = "live" =>
                  {s \in Lessons : lesson[s] = "hidden" /\ lesson'[s] = "live"}
                      = {s \in hidWith[w] : lesson[s] # "purged"}
  <2>. SUFFICES ASSUME SyllabusInv, [SyllabusNext]_syllabusVars,
                       NEW w \in Weeks, week[w] = "hidden", week'[w] = "live"
                PROVE  {s \in Lessons : lesson[s] = "hidden" /\ lesson'[s] = "live"}
                           = {s \in hidWith[w] : lesson[s] # "purged"}
    OBVIOUS
  <2>1. PICK t \in Restorers : RestoreWeek(t) /\ restore[t].item = w
    BY OnlyRestored DEF SyllabusInv, RowsInv
  <2>2. \A s \in Lessons : lesson'[s] = IF s \in BackWith(w) THEN "live" ELSE lesson[s]
    BY <2>1, WeekComesBack
  <2>3. hidWith[w] \in SUBSET Lessons
    BY DEF SyllabusInv, RowsInv, SyllabusTypeOK
  <2>4. \A s \in Lessons :
            s \in hidWith[w] /\ lesson[s] # "purged"
                <=> weekOf[s] = w /\ lesson[s] = "hidden" /\ lessonAt[s] = weekAt[w]
    BY DEF SyllabusInv, RowsInv, TakenInv
  <2>5. BackWith(w) = {s \in Lessons : weekOf[s] = w /\ lesson[s] = "hidden"
                                       /\ lessonAt[s] = weekAt[w]}
    BY BackWithIs
  <2>. QED  BY <2>2, <2>3, <2>4, <2>5
<1>. QED  BY <1>1, SyllabusAlways, PTL DEF SyllabusSpec, RestoredAsHidden

-----------------------------------------------------------------------------
(* Sessions shown in a week that is not. *)

LEMMA OnlyByOlderRead ==
    ASSUME SyllabusInv, [SyllabusNext]_syllabusVars,
           NEW s \in Lessons, Astray(s)', ~Astray(s)
    PROVE  \E t \in Restorers :
               /\ restore[t] # NoRestore /\ restore'[t] = NoRestore
               /\ restore[t].item = s
               /\ restore[t].since < weekAt[weekOf[s]]
<1>. USE DEF Live, IsShown
<1>0. SyllabusTypeOK /\ RowsInv
  BY DEF SyllabusInv, RowsInv
<1>1. ~RowsAreKept
  BY DEF RowsAreKept, NoneGoesAstray
<1>2. \A t \in Restorers : ~RestoreReads(t)
  <2>1. \A t \in Restorers : RestoreReads(t) => UNCHANGED rowVars
    BY DEF RestoreReads, RestoreSessionReads, RestoreWeekReads, RestoreBegins
  <2>. QED  BY <2>1 DEF rowVars, Astray
<1>3. ~Purges
  <2>1. ASSUME NEW x \in Lessons, PurgeSession(x) PROVE FALSE
    <3>1. UNCHANGED <<week, weekOf>> /\ (lesson'[s] = "live" => lesson[s] = "live")
      BY <1>0, <2>1, PurgeSessionWrites
    <3>. QED  BY <3>1 DEF Astray
  <2>2. ASSUME NEW w \in Weeks, PurgeWeek(w) PROVE FALSE
    <3>1. /\ UNCHANGED weekOf
          /\ week'[weekOf[s]] = IF weekOf[s] = w THEN "purged" ELSE week[weekOf[s]]
          /\ lesson'[s] = IF s \in SessionsIn(w) THEN "purged" ELSE lesson[s]
      BY <1>0, <2>2, PurgeWeekWrites DEF SyllabusTypeOK
    <3>2. lesson[s] = "live" /\ weekOf[s] = w => s \in SessionsIn(w)
      BY DEF SessionsIn
    <3>. QED  BY <3>1, <3>2 DEF Astray
  <2>. QED  BY <2>1, <2>2 DEF Purges
<1>4. \A t \in Restorers : ~RestoreWeek(t)
  <2>. SUFFICES ASSUME NEW t \in Restorers, RestoreWeek(t) PROVE FALSE
    OBVIOUS
  <2>. DEFINE w == restore[t].item
  <2>1. /\ w \in Weeks /\ UNCHANGED weekOf /\ weekOf[s] \in Weeks
        /\ week'[weekOf[s]] = IF weekOf[s] = w THEN "live" ELSE week[weekOf[s]]
        /\ lesson'[s] = IF s \in BackWith(w) THEN "live" ELSE lesson[s]
    BY <1>0, WeekComesBack DEF SyllabusTypeOK
  <2>. HIDE DEF w
  <2>2. s \in BackWith(w) => weekOf[s] = w
    BY DEF BackWith, SessionsIn
  <2>. QED  BY <2>1, <2>2 DEF Astray
<1>5. PICK t \in Restorers : RestoreSession(t)
  BY <1>0, <1>1, <1>2, <1>3, <1>4, SyllabusMoves
<1>6. /\ restore[t] # NoRestore /\ SessionPends(t)
      /\ UNCHANGED <<week, weekOf>>
      /\ lesson'[s] = IF s = restore[t].item THEN "live" ELSE lesson[s]
  BY <1>5, SessionComesBack
<1>7. restore'[t] = NoRestore
  BY <1>0, <1>5 DEF RestoreSession, Ends, SyllabusTypeOK
<1>8. restore[t].item = s /\ week[weekOf[s]] # "live"
  BY <1>6 DEF Astray
<1>9. restore[t].since < weekAt[weekOf[s]]
  BY <1>6, <1>8 DEF SessionPends
<1>. QED  BY <1>6, <1>7, <1>8, <1>9

(* A session is shown in a hidden week by nothing but a restore that read  *)
(* the week before it was hidden: no save, move, hide, purge or restore of *)
(* a week does it, and no restore that read after the hide.                *)
THEOREM AstrayByOlderRead == SyllabusSpec => ShownByOlderReadOnly
<1>1. SyllabusInv /\ [SyllabusNext]_syllabusVars =>
          \A s \in Lessons :
              Astray(s)' /\ ~Astray(s) =>
                  \E t \in Restorers :
                      /\ restore[t] # NoRestore /\ restore'[t] = NoRestore
                      /\ restore[t].item = s
                      /\ restore[t].since < weekAt[weekOf[s]]
  BY OnlyByOlderRead
<1>. QED  BY <1>1, SyllabusAlways, PTL DEF SyllabusSpec, ShownByOlderReadOnly

=============================================================================
