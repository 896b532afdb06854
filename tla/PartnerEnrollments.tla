--------------------------- MODULE PartnerEnrollments ---------------------------
(***************************************************************************)
(* The seat of one person in one course, and the registrations of partner  *)
(* applications that stand for it (integration/partner-enrollment.service, *)
(* course.service, bulk-enrollment.service): a PUT seats the person, the   *)
(* DELETE of the same registration takes away a seat a PUT added.          *)
(*                                                                         *)
(* A step is one statement of the database: nothing holds the row between  *)
(* them, so every request overlaps every other, and bans land at any time. *)
(* created_at and updated_at are the number of the write that set them.    *)
(***************************************************************************)
EXTENDS Naturals

CONSTANTS
    Registrations,   \* a partner's registration for the course, each
    Requests,        \* HTTP requests at work at a time
    NoSeat, NoLink, NoRegistration,
    MaxStamps,       \* bound: writes of the seat
    MaxBans          \* bound: bans made and lifted

VARIABLES
    held,     \* enrollments
    link,     \* partner_enrollment_links
    banned,   \* an open ban bars the person from the course
    request,
    stamp,    \* how many writes the seat has had
    bans,     \* how many times a ban was made or lifted
    by        \* history: who gave the seat the status it has

seatVars == <<held, stamp, by>>
enrollmentVars == <<seatVars, link, banned, bans, request>>

Statuses == {"PENDING", "ENROLLED", "COMPLETED", "REVOKED"}
Stamps == 0..MaxStamps
Seats == [status : Statuses, born : Stamps, updated : Stamps]

(* owns: enrollment_created_at, where created_enrollment, of an open link; *)
(* what a closed one answers again is left out. 0 stands for null.         *)
Links == [open : BOOLEAN, owns : Stamps, removed : Stamps]

ASSUME SeatAssumption ==
    /\ MaxStamps \in Nat /\ MaxBans \in Nat
    /\ NoRegistration \notin Registrations
    /\ NoSeat \notin Seats /\ NoLink \notin Links

OwnOps == {"enroll", "leave", "progress",
           "approve", "reject", "complete", "reopen", "remove"}

(* What a request is at: an action of the talebe or the team, a PUT that   *)
(* gives a seat back or places the person, a DELETE.                       *)
Ops == OwnOps \cup {"give", "place", "delete"}

PutSteps == {"claim", "seat", "removals", "barred", "place", "held", "insert",
             "conflict", "lost", "settle", "mark", "link", "refused"}
DeleteSteps == {"verdict", "other", "handover", "remove", "redecide", "after", "close"}

RequestStates ==
    [pc : {"idle", "read", "approve", "ban", "write"} \cup PutSteps \cup DeleteSteps,
     op : Ops, expects : Statuses \cup {"NONE"},
     reg : Registrations \cup {NoRegistration},
     to : Registrations \cup {NoRegistration},
     at : Stamps,          \* a created_at or updated_at read
     inserted : BOOLEAN, closed : BOOLEAN, gone : BOOLEAN,
     since : 0..MaxBans]   \* history: bans when it began

Idle == [pc |-> "idle", op |-> "enroll", expects |-> "NONE",
         reg |-> NoRegistration, to |-> NoRegistration, at |-> 0,
         inserted |-> FALSE, closed |-> FALSE, gone |-> FALSE, since |-> 0]

SeatTypeOK ==
    /\ held \in Seats \cup {NoSeat}
    /\ link \in [Registrations -> Links \cup {NoLink}]
    /\ banned \in BOOLEAN
    /\ request \in [Requests -> RequestStates]
    /\ stamp \in Stamps
    /\ bans \in 0..MaxBans
    /\ by \in {"talebe", "team", "partner"}

EnrollmentInit ==
    /\ held = NoSeat
    /\ link = [l \in Registrations |-> NoLink]
    /\ banned = FALSE
    /\ request = [r \in Requests |-> Idle]
    /\ stamp = 0 /\ bans = 0
    /\ by = "talebe"

Status == IF held = NoSeat THEN "NONE" ELSE held.status

-----------------------------------------------------------------------------
Goes(r, state) == request' = [request EXCEPT ![r] = state]
GoesTo(r, pc) == Goes(r, [request[r] EXCEPT !.pc = pc])

Begins(r, state) ==
    /\ request[r] = Idle
    /\ Goes(r, [state EXCEPT !.since = bans])

SameSeat == UNCHANGED seatVars
SameLinks == UNCHANGED <<link, banned, bans>>

WriteSeat(status, who) ==
    /\ stamp < MaxStamps
    /\ stamp' = stamp + 1
    /\ held' = IF status = "NONE" THEN NoSeat
               ELSE IF held = NoSeat
               THEN [status |-> status, born |-> stamp + 1, updated |-> stamp + 1]
               ELSE [held EXCEPT !.status = status, !.updated = stamp + 1]
    /\ by' = IF status = Status THEN by ELSE who

(* A ban is made or lifted.                                                *)
BanChanges ==
    /\ bans < MaxBans
    /\ bans' = bans + 1
    /\ banned' = ~banned
    /\ SameSeat /\ UNCHANGED <<link, request>>

-----------------------------------------------------------------------------
(* The talebe's and the team's requests (course.service.ts).               *)

(* The statuses an action goes on from; it answers with an error else. An  *)
(* application goes on to its insert, which keeps a row that is there.     *)
From ==
    [enroll |-> {"NONE", "PENDING", "ENROLLED", "COMPLETED"},
     leave |-> {"PENDING", "ENROLLED"}, progress |-> {"ENROLLED", "COMPLETED"},
     reject |-> {"PENDING"}, complete |-> {"ENROLLED"}, reopen |-> {"COMPLETED"},
     remove |-> {"ENROLLED"}]

(* An application waits, or not, by the policies of course, köşk, medrese  *)
(* and platform.                                                           *)
Becomes(op, status) ==
    CASE op = "enroll" -> {"PENDING", "ENROLLED"}
      [] op \in {"leave", "reject"} -> {"NONE"}
      [] op \in {"approve", "reopen", "give", "place"} -> {"ENROLLED"}
      [] op = "complete" -> {"COMPLETED"}
      [] op = "remove" -> {"REVOKED"}
      [] OTHER -> {status}

Author(op) ==
    CASE op \in {"enroll", "leave", "progress"} -> "talebe"
      [] op \in {"give", "place"} -> "partner"
      [] OTHER -> "team"

(* assertNotBarred, which enroll and leave begin with.                     *)
AsksFirst(r, op) ==
    /\ op \in {"enroll", "leave"} /\ ~banned
    /\ Begins(r, [Idle EXCEPT !.pc = "read", !.op = op])
    /\ SameSeat /\ SameLinks

ReadsFor(r, op) ==
    /\ request[r].pc = "read" /\ request[r].op = op
    /\ IF Status \in From[op]
       THEN Goes(r, [request[r] EXCEPT !.pc = "write", !.expects =
                        IF op = "enroll" THEN "NONE" ELSE Status])
       ELSE Goes(r, Idle)
    /\ SameSeat /\ SameLinks

(* The other actions begin with findEnrollment; a reopening asks the ban   *)
(* next.                                                                   *)
ReadsFirst(r, op) ==
    /\ op \in OwnOps \ {"enroll", "leave", "approve"}
    /\ Status \in From[op]
    /\ Begins(r, [Idle EXCEPT !.pc = IF op = "reopen" THEN "ban" ELSE "write",
                              !.op = op, !.expects = Status])
    /\ SameSeat /\ SameLinks

ApproveBegins(r) ==
    /\ Begins(r, [Idle EXCEPT !.pc = "approve", !.op = "approve"])
    /\ SameSeat /\ SameLinks

OfPut(r) == request[r].op \in {"give", "place"}

(* EnrollmentStateError and EnrollmentNotFoundError: the team's request is *)
(* over, a PUT looks again.                                                *)
StateError(r) ==
    IF ~OfPut(r) THEN Goes(r, Idle)
    ELSE GoesTo(r, IF request[r].op = "give" THEN "place" ELSE "settle")

Answers(r) == IF OfPut(r) THEN GoesTo(r, "mark") ELSE Goes(r, Idle)

(* approveEnrollment, the team's or a PUT's: findEnrollment ...            *)
ApproveReads(r) ==
    /\ request[r].pc = "approve"
    /\ \/ Status \in {"NONE", "COMPLETED"} /\ StateError(r)
       \/ Status = "ENROLLED" /\ Answers(r)
       \/ /\ Status \in {"PENDING", "REVOKED"}
          /\ Goes(r, [request[r] EXCEPT !.pc = "ban", !.expects = Status])
    /\ SameSeat /\ SameLinks

(* Fault for TLC: an approval that does not ask the ban.                   *)
NeverBars == banned /\ bans = 0

Bars == banned

(* ... assertNotBarred, whose error ends a PUT too ...                     *)
AskBan(r) ==
    /\ request[r].pc = "ban"
    /\ IF ~Bars THEN GoesTo(r, "write")
       ELSE IF OfPut(r) THEN GoesTo(r, "refused") ELSE Goes(r, Idle)
    /\ SameSeat /\ SameLinks

(* Fault for TLC: a write that does not ask the status again.              *)
AnyStatus(status) == status \in Statuses \cup {"NONE"}

StillIs(status) == Status = status

(* ... and the write, conditional like every other one on the status that  *)
(* was read.                                                               *)
WriteStatus(r) ==
    LET op == request[r].op  expects == request[r].expects IN
    /\ request[r].pc = "write"
    /\ IF StillIs(expects)
       THEN /\ \E status \in Becomes(op, expects) : WriteSeat(status, Author(op))
            /\ Answers(r)
       ELSE /\ IF OfPut(r) THEN GoesTo(r, "lost") ELSE Goes(r, Idle)
            /\ SameSeat
    /\ SameLinks

(* lostRace of a PUT's approval; the others' changes nothing.              *)
LostRace(r) ==
    /\ request[r].pc = "lost"
    /\ IF Status = "ENROLLED" THEN GoesTo(r, "mark") ELSE StateError(r)
    /\ SameSeat /\ SameLinks

OwnStep(r) ==
    \/ ApproveBegins(r) \/ ApproveReads(r) \/ AskBan(r) \/ WriteStatus(r) \/ LostRace(r)
    \/ \E op \in OwnOps : AsksFirst(r, op) \/ ReadsFirst(r, op)
    \/ \E op \in {"enroll", "leave"} : ReadsFor(r, op)

-----------------------------------------------------------------------------
(* PUT (enroll of partner-enrollment.service.ts). *)

NewLink == [open |-> TRUE, owns |-> 0, removed |-> 0]
IsOpen(l) == link[l] # NoLink /\ link[l].open

(* findLink.                                                               *)
PutBegins(r, l) ==
    /\ Begins(r, [Idle EXCEPT !.pc = IF link[l] = NoLink THEN "claim" ELSE "seat",
                              !.op = "place", !.reg = l,
                              !.closed = link[l] # NoLink /\ ~IsOpen(l)])
    /\ SameSeat /\ SameLinks

(* claimLink: inserts the row, or takes the one inserted meanwhile.        *)
ClaimLink(r) ==
    LET l == request[r].reg IN
    /\ request[r].pc = "claim"
    /\ link' = IF link[l] = NoLink THEN [link EXCEPT ![l] = NewLink] ELSE link
    /\ Goes(r, [request[r] EXCEPT !.pc = "seat", !.inserted = link[l] = NoLink,
                                  !.closed = link[l] # NoLink /\ ~IsOpen(l)])
    /\ SameSeat /\ UNCHANGED <<banned, bans>>

(* seat: findEnrollment ...                                                *)
SeatReads(r) ==
    /\ request[r].pc = "seat"
    /\ IF Status = "REVOKED"
       THEN Goes(r, [request[r] EXCEPT !.pc = "removals", !.at = held.updated])
       ELSE GoesTo(r, "place")
    /\ SameSeat /\ SameLinks

(* ... removedByIntegration: what was read is as a DELETE left it ...      *)
ReadRemovals(r) ==
    /\ request[r].pc = "removals"
    /\ Goes(r, [request[r] EXCEPT !.at = 0, !.pc =
           IF \E l \in Registrations : link[l] # NoLink /\ link[l].removed = request[r].at
           THEN "barred" ELSE "place"])
    /\ SameSeat /\ SameLinks

(* ... and isBarred, before the seat is given back or the person placed.   *)
AskBarred(r) ==
    /\ request[r].pc \in {"barred", "place"}
    /\ IF banned THEN GoesTo(r, "refused")
       ELSE IF request[r].pc = "barred"
       THEN Goes(r, [request[r] EXCEPT !.pc = "approve", !.op = "give"])
       ELSE Goes(r, [request[r] EXCEPT !.pc = "held", !.op = "place"])
    /\ SameSeat /\ SameLinks

(* settleHeld, of a row read by place, or left by the insert.              *)
Settles(r) ==
    CASE Status = "PENDING" -> GoesTo(r, "approve")
      [] Status = "REVOKED" -> GoesTo(r, "refused")
      [] Status \in {"ENROLLED", "COMPLETED"} -> GoesTo(r, "link")

ReadHeld(r) ==
    /\ request[r].pc = "held"
    /\ IF Status = "NONE" THEN GoesTo(r, "insert") ELSE Settles(r)
    /\ SameSeat /\ SameLinks

(* enroll on conflict do nothing ...                                       *)
InsertSeat(r) ==
    /\ request[r].pc = "insert"
    /\ IF Status = "NONE"
       THEN WriteSeat("ENROLLED", "partner") /\ GoesTo(r, "mark")
       ELSE SameSeat /\ GoesTo(r, "conflict")
    /\ SameLinks

(* ... and findEnrollment of the row there, taken for the one inserted     *)
(* when it is ENROLLED; place throws when it is gone.                      *)
ReadConflict(r) ==
    /\ request[r].pc = "conflict"
    /\ IF Status = "NONE" THEN GoesTo(r, "refused")
       ELSE IF Status = "ENROLLED" THEN GoesTo(r, "mark") ELSE Settles(r)
    /\ SameSeat /\ SameLinks

(* After an error of approveEnrollment, as it is now (approve of bulk).    *)
Settle(r) ==
    /\ request[r].pc = "settle"
    /\ GoesTo(r, IF Status \in {"ENROLLED", "COMPLETED"} THEN "link" ELSE "refused")
    /\ SameSeat /\ SameLinks

(* The id of a deleted link is nobody's: whoever holds it writes no row.   *)
Forgets(q, l) ==
    [request[q] EXCEPT
        !.reg = IF @ = l /\ request[q].pc # "claim" THEN NoRegistration ELSE @,
        !.to = IF @ = l THEN NoRegistration ELSE @]

(* deleteLink.                                                             *)
PutRefused(r) ==
    LET l == request[r].reg IN
    /\ request[r].pc = "refused"
    /\ IF request[r].inserted /\ l \in Registrations
       THEN /\ link' = [link EXCEPT ![l] = NoLink]
            /\ request' = [q \in Requests |-> IF q = r THEN Idle ELSE Forgets(q, l)]
       ELSE Goes(r, Idle) /\ UNCHANGED link
    /\ SameSeat /\ UNCHANGED <<banned, bans>>

(* The seat was made: findEnrollment, for its created_at.                  *)
ReadMade(r) ==
    /\ request[r].pc = "mark"
    /\ Goes(r, [request[r] EXCEPT !.pc = "link",
                                  !.at = IF held = NoSeat THEN 0 ELSE held.born])
    /\ SameSeat /\ SameLinks

Updated(l, row) == IF l \in Registrations THEN [link EXCEPT ![l] = row] ELSE link

(* reopenLink, or markCreated when the seat was made.                      *)
MarkLink(r) ==
    LET l == request[r].reg  made == request[r].at IN
    /\ request[r].pc = "link"
    /\ link' =
           IF request[r].closed
           THEN Updated(l, [NewLink EXCEPT !.owns = made])
           ELSE IF made # 0
           THEN Updated(l, [link[l] EXCEPT !.owns = made])
           ELSE link
    /\ Goes(r, Idle)
    /\ SameSeat /\ UNCHANGED <<banned, bans>>

PutStep(r) ==
    \/ \E l \in Registrations : PutBegins(r, l)
    \/ ClaimLink(r) \/ SeatReads(r) \/ ReadRemovals(r) \/ AskBarred(r) \/ ReadHeld(r)
    \/ InsertSeat(r) \/ ReadConflict(r) \/ Settle(r) \/ PutRefused(r)
    \/ ReadMade(r) \/ MarkLink(r)

-----------------------------------------------------------------------------
(* DELETE (unenroll). *)

(* findLink; a link that is closed, or none, is answered at once.          *)
DeleteBegins(r, l) ==
    /\ IsOpen(l)
    /\ Begins(r, [Idle EXCEPT !.pc = IF link[l].owns # 0 THEN "verdict" ELSE "close",
                              !.op = "delete", !.reg = l, !.at = link[l].owns])
    /\ SameSeat /\ SameLinks

(* ownedSeat: there is none left to take away, or it is another seat than  *)
(* the one created at born, or a completion.                               *)
SeatGone == Status \in {"NONE", "REVOKED"}
Owned(born) == Status = "ENROLLED" /\ held.born = born

Closes(r, gone, removed) ==
    Goes(r, [request[r] EXCEPT !.pc = "close", !.gone = gone, !.at = removed])

(* findEnrollment.                                                         *)
ReadVerdict(r) ==
    /\ request[r].pc = "verdict"
    /\ IF Owned(request[r].at) THEN GoesTo(r, "other") ELSE Closes(r, SeatGone, 0)
    /\ SameSeat /\ SameLinks

(* findOtherOpenLink.                                                      *)
ReadOther(r) ==
    LET others == {l \in Registrations \ {request[r].reg} : IsOpen(l)} IN
    /\ request[r].pc = "other"
    /\ \/ others = {} /\ GoesTo(r, "remove")
       \/ \E l \in others : Goes(r, [request[r] EXCEPT !.pc = "handover", !.to = l])
    /\ SameSeat /\ SameLinks

(* handOver: both rows by id, whatever the other one is by now.            *)
HandOver(r) ==
    LET from == request[r].reg  to == request[r].to IN
    /\ request[r].pc = "handover"
    /\ link' = [l \in Registrations |->
                   IF l = from
                   THEN [link[l] EXCEPT !.open = FALSE, !.owns = 0]
                   ELSE IF l = to
                   THEN [link[l] EXCEPT !.owns = request[r].at]
                   ELSE link[l]]
    /\ Goes(r, Idle)
    /\ SameSeat /\ UNCHANGED <<banned, bans>>

(* removeEnrollment of the course, of an ENROLLED seat, whosever it is.    *)
RemoveSeat(r) ==
    /\ request[r].pc = "remove"
    /\ IF StillIs("ENROLLED")
       THEN WriteSeat("REVOKED", "partner") /\ GoesTo(r, "after")
       ELSE SameSeat /\ GoesTo(r, "redecide")
    /\ SameLinks

(* It moved: decided as it is now. Removed: what updated_at says by now.   *)
ReadAfter(r) ==
    /\ \/ request[r].pc = "redecide" /\ Closes(r, SeatGone, 0)
       \/ /\ request[r].pc = "after"
          /\ Closes(r, TRUE, IF Status = "REVOKED" THEN held.updated ELSE 0)
    /\ SameSeat /\ SameLinks

CloseLink(r) ==
    LET l == request[r].reg IN
    /\ request[r].pc = "close"
    /\ link' = Updated(l, [link[l] EXCEPT !.open = FALSE, !.owns = 0,
                                          !.removed = request[r].at])
    /\ Goes(r, Idle)
    /\ SameSeat /\ UNCHANGED <<banned, bans>>

DeleteStep(r) ==
    \/ \E l \in Registrations : DeleteBegins(r, l)
    \/ ReadVerdict(r) \/ ReadOther(r) \/ HandOver(r) \/ RemoveSeat(r) \/ ReadAfter(r)
    \/ CloseLink(r)

(* The instance dies, or a statement fails: the rest is not done.          *)
RequestDies(r) ==
    /\ request[r] # Idle
    /\ Goes(r, Idle)
    /\ SameSeat /\ SameLinks

EnrollmentNext ==
    \/ \E r \in Requests : OwnStep(r) \/ PutStep(r) \/ DeleteStep(r) \/ RequestDies(r)
    \/ BanChanges

EnrollmentSpec == EnrollmentInit /\ [][EnrollmentNext]_enrollmentVars

-----------------------------------------------------------------------------
(* "A DELETE from the partner removes only what the integration added"     *)
(* (partner-enrollment.schema.ts): never the seat a talebe took on their   *)
(* own.                                                                    *)
OnlyAddedIsTaken ==
    [][\A r \in Requests :
           request[r].pc = "remove" /\ request'[r].pc = "after" =>
               by # "talebe"]_enrollmentVars

(* A completion is only reopened, by the team, and a removal only approved *)
(* back: no request that read an older status undoes either, however the   *)
(* requests overlap (setEnrollmentStatus, deleteEnrollment).               *)
RecordsStand ==
    [][/\ Status = "COMPLETED" /\ Status' # "COMPLETED" =>
              Status' = "ENROLLED" /\ by' = "team"
       /\ Status = "REVOKED" /\ Status' # "REVOKED" =>
              Status' = "ENROLLED" /\ by' # "talebe"]_enrollmentVars

-----------------------------------------------------------------------------
(* The requests as those who share the seat see them.                      *)

Who(r) ==
    LET op == request[r].op IN
    IF request[r].pc = "idle" THEN "none"
    ELSE IF op \in OwnOps THEN Author(op)
    ELSE IF op = "delete" THEN "delete" ELSE "put"

(* Not barred at some instant since it began.                              *)
Free(r) == request[r].since # bans \/ ~banned

AnswerOf(r) ==
    CASE request[r].pc \in {"mark", "link"} -> "seated"
      [] request[r].pc = "refused" -> "refused"
      [] request[r].pc = "after" \/ (request[r].pc = "close" /\ request[r].gone) -> "removed"
      [] OTHER -> "none"

TaskNow(r) ==
    [who |-> Who(r), free |-> request[r].pc # "idle" /\ Free(r), answer |-> AnswerOf(r)]

Shared == INSTANCE SharedSeat WITH
    Requests <- Requests, status <- Status, by <- by, banned <- banned,
    task <- [r \in Requests |-> TaskNow(r)]

(* Every request changes the seat at one instant, by the rules SharedSeat  *)
(* states, however requests and bans overlap and wherever one dies: no     *)
(* seat goes to a person barred from before the request to its end, and a  *)
(* PUT or DELETE is answered with what was so at an instant of it          *)
(* (course.service.ts, place, unenroll).                                   *)
SeatIsShared == Shared!SharedSpec
=============================================================================
