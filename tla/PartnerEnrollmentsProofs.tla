----------------------- MODULE PartnerEnrollmentsProofs -----------------------
(***************************************************************************)
(* Proofs about PartnerEnrollments, for any registrations and requests.    *)
(* One inductive invariant says of each request what the step it has come  *)
(* to takes for granted: the link it read is still there, its write is     *)
(* about a status its operation goes on from, and the ban was off at some  *)
(* instant since it began once it has asked.                               *)
(***************************************************************************)
EXTENDS PartnerEnrollments, TLAPS

-----------------------------------------------------------------------------
(* The inductive invariant. *)

SeatPcs == {"idle", "read", "approve", "ban", "write"} \cup PutSteps \cup DeleteSteps

Approvals == {"approve", "give", "place"}

(* An id read is that of a row, until deleteLink takes it.                 *)
LinkedIn(q, links) ==
    /\ q.reg \in Registrations /\ q.pc # "claim" => links[q.reg] # NoLink
    /\ q.to \in Registrations => links[q.to] # NoLink

(* What a request came with to the step it is at.                          *)
AsRead(q) ==
    /\ q.pc = "read" => q.op \in {"enroll", "leave"}
    /\ q.pc = "approve" => q.op \in Approvals
    /\ q.pc \in {"ban", "write"} =>
           \/ q.op = "enroll" /\ q.expects = "NONE" /\ q.pc = "write"
           \/ q.op = "leave" /\ q.expects \in {"PENDING", "ENROLLED"} /\ q.pc = "write"
           \/ q.op = "progress" /\ q.expects \in {"ENROLLED", "COMPLETED"} /\ q.pc = "write"
           \/ q.op = "reject" /\ q.expects = "PENDING" /\ q.pc = "write"
           \/ q.op = "complete" /\ q.expects = "ENROLLED" /\ q.pc = "write"
           \/ q.op = "remove" /\ q.expects = "ENROLLED" /\ q.pc = "write"
           \/ q.op = "reopen" /\ q.expects = "COMPLETED"
           \/ q.op \in Approvals /\ q.expects \in {"PENDING", "REVOKED"}
    /\ q.pc \in PutSteps => q.op \in {"give", "place"}
    /\ q.pc \in DeleteSteps => q.op = "delete"

(* Past its question about the ban.                                        *)
HasAsked(q) ==
    \/ q.pc \in {"read", "held", "insert"}
    \/ q.pc = "write" /\ q.op \in {"enroll", "leave", "reopen"} \cup Approvals

AskedIn(q, n, barred) == q.since <= n /\ (HasAsked(q) => q.since # n \/ ~barred)

Good(q, links, n, barred) ==
    q \in RequestStates /\ LinkedIn(q, links) /\ AsRead(q) /\ AskedIn(q, n, barred)

SeatInv ==
    /\ SeatTypeOK
    /\ \A r \in Requests : Good(request[r], link, bans, banned)

LEMMA StampIsNat == 0 \in Stamps /\ \A n \in Stamps : n \in Nat /\ n <= MaxStamps
BY SeatAssumption DEF Stamps

LEMMA IdleGood ==
    ASSUME NEW links, NEW n \in 0..MaxBans, NEW barred \in BOOLEAN
    PROVE  Good(Idle, links, n, barred)
<1>1. Idle \in RequestStates
  BY StampIsNat, SeatAssumption DEF Idle, RequestStates, Ops, OwnOps
<1>2. LinkedIn(Idle, links) /\ AsRead(Idle)
  BY SeatAssumption DEF Idle, LinkedIn, AsRead, PutSteps, DeleteSteps
<1>3. AskedIn(Idle, n, barred)
  BY DEF Idle, AskedIn, HasAsked
<1>. QED  BY <1>1, <1>2, <1>3 DEF Good

LEMMA StatusType == ASSUME SeatTypeOK PROVE Status \in Statuses \cup {"NONE"}
BY DEF Status, SeatTypeOK, Seats

LEMMA SeatThere ==
    ASSUME SeatTypeOK, Status # "NONE"
    PROVE  held \in Seats /\ Status = held.status
BY DEF Status, SeatTypeOK

LEMMA LinkThere ==
    ASSUME SeatTypeOK, NEW l \in Registrations, link[l] # NoLink
    PROVE  link[l] \in Links
BY DEF SeatTypeOK

LEMMA InitSeat == EnrollmentInit => SeatInv
<1>. SUFFICES ASSUME EnrollmentInit PROVE SeatInv
  OBVIOUS
<1>1. bans \in 0..MaxBans /\ stamp \in Stamps
  BY StampIsNat, SeatAssumption DEF EnrollmentInit
<1>0. banned \in BOOLEAN
  BY DEF EnrollmentInit
<1>2. \A r \in Requests : request[r] = Idle
  BY DEF EnrollmentInit
<1>3. \A r \in Requests : Good(request[r], link, bans, banned)
  BY <1>0, <1>1, <1>2, IdleGood
<1>4. request \in [Requests -> RequestStates]
  BY <1>0, <1>1, <1>2, IdleGood DEF EnrollmentInit, Good
<1>. QED  BY <1>0, <1>1, <1>3, <1>4 DEF EnrollmentInit, SeatInv, SeatTypeOK

-----------------------------------------------------------------------------
(* What the parts of a step do. *)

(* A request goes on, and no row of a link is deleted.                     *)
LEMMA OneMoves ==
    ASSUME SeatInv, NEW r \in Requests, NEW state, Goes(r, state),
           Good(state, link', bans, banned), UNCHANGED <<banned, bans>>,
           \A l \in Registrations : link[l] # NoLink => link'[l] # NoLink
    PROVE  /\ request' \in [Requests -> RequestStates]
           /\ \A q \in Requests : Good(request'[q], link', bans', banned')
<1>1. state \in RequestStates
  BY DEF Good
<1>2. request' = [request EXCEPT ![r] = state] /\ request \in [Requests -> RequestStates]
  BY DEF Goes, SeatInv, SeatTypeOK
<1>3. ASSUME NEW q \in Requests PROVE Good(request'[q], link', bans, banned)
  <2>1. CASE q = r
    BY <1>2, <2>1
  <2>2. CASE q # r
    <3>1. request'[q] = request[q] /\ Good(request[q], link, bans, banned)
      BY <1>2, <2>2 DEF SeatInv
    <3>2. LinkedIn(request[q], link')
      BY <3>1 DEF Good, LinkedIn
    <3>. QED  BY <3>1, <3>2 DEF Good
  <2>. QED  BY <2>1, <2>2
<1>. QED  BY <1>1, <1>2, <1>3

(* A request that reads, or ends.                                          *)
LEMMA Reads ==
    ASSUME SeatInv, NEW r \in Requests, NEW state, Goes(r, state), SameSeat, SameLinks,
           Good(state, link, bans, banned)
    PROVE  SeatInv'
<1>1. link' = link /\ banned' = banned /\ bans' = bans
  BY DEF SameLinks
<1>2. /\ request' \in [Requests -> RequestStates]
      /\ \A q \in Requests : Good(request'[q], link', bans', banned')
  BY <1>1, OneMoves
<1>3. held' = held /\ stamp' = stamp /\ by' = by
  BY DEF SameSeat, seatVars
<1>. QED  BY <1>1, <1>2, <1>3 DEF SeatInv, SeatTypeOK

(* A write of the seat.                                                    *)
LEMMA SeatWritten ==
    ASSUME SeatTypeOK, NEW status \in Statuses \cup {"NONE"},
           NEW who \in {"talebe", "team", "partner"}, WriteSeat(status, who)
    PROVE  /\ held' \in Seats \cup {NoSeat} /\ stamp' \in Stamps
           /\ by' \in {"talebe", "team", "partner"}
           /\ Status' = status
           /\ status # Status => by' = who
           /\ status = Status => by' = by
<1>1. stamp + 1 \in Stamps /\ stamp' = stamp + 1
  BY SeatAssumption DEF WriteSeat, SeatTypeOK, Stamps
<1>2. CASE status = "NONE"
  BY <1>1, <1>2 DEF WriteSeat, SeatTypeOK, Status
<1>3. CASE status # "NONE" /\ held = NoSeat
  <2>1. held' = [status |-> status, born |-> stamp + 1, updated |-> stamp + 1]
    BY <1>3 DEF WriteSeat
  <2>2. held' \in Seats /\ held'.status = status
    BY <1>1, <1>3, <2>1 DEF Seats
  <2>3. Status' = status
    BY <2>2, SeatAssumption DEF Status
  <2>. QED  BY <1>1, <2>2, <2>3 DEF WriteSeat, SeatTypeOK
<1>4. CASE status # "NONE" /\ held # NoSeat
  <2>1. held \in Seats /\ held' = [held EXCEPT !.status = status, !.updated = stamp + 1]
    BY <1>4 DEF WriteSeat, SeatTypeOK
  <2>2. held' \in Seats /\ held'.status = status
    BY <1>1, <1>4, <2>1 DEF Seats
  <2>3. Status' = status
    BY <2>2, SeatAssumption DEF Status
  <2>. QED  BY <1>1, <2>2, <2>3 DEF WriteSeat, SeatTypeOK
<1>. QED  BY <1>2, <1>3, <1>4

LEMMA Writes ==
    ASSUME SeatInv, NEW r \in Requests, NEW state, Goes(r, state), SameLinks,
           NEW status \in Statuses \cup {"NONE"}, NEW who \in {"talebe", "team", "partner"},
           WriteSeat(status, who), Good(state, link, bans, banned)
    PROVE  SeatInv'
<1>1. link' = link /\ banned' = banned /\ bans' = bans
  BY DEF SameLinks
<1>2. /\ request' \in [Requests -> RequestStates]
      /\ \A q \in Requests : Good(request'[q], link', bans', banned')
  BY <1>1, OneMoves
<1>3. /\ held' \in Seats \cup {NoSeat} /\ stamp' \in Stamps
      /\ by' \in {"talebe", "team", "partner"}
  BY SeatWritten DEF SeatInv
<1>. QED  BY <1>1, <1>2, <1>3 DEF SeatInv, SeatTypeOK

(* A request that only goes to another step.                               *)
LEMMA OtherStep ==
    ASSUME NEW q, NEW links, NEW n, NEW barred, Good(q, links, n, barred), NEW pc \in SeatPcs,
           pc \notin {"claim", "read", "ban", "write", "held", "insert"}, q.pc # "claim",
           pc = "approve" => q.op \in Approvals,
           pc \in PutSteps => q.op \in {"give", "place"},
           pc \in DeleteSteps => q.op = "delete"
    PROVE  Good([q EXCEPT !.pc = pc], links, n, barred)
<1>. DEFINE s == [q EXCEPT !.pc = pc]
<1>1. q \in RequestStates
  BY DEF Good
<1>2. /\ s \in RequestStates /\ s.pc = pc /\ s.op = q.op /\ s.reg = q.reg /\ s.to = q.to
      /\ s.since = q.since
  BY <1>1 DEF RequestStates, SeatPcs
<1>. HIDE DEF s
<1>3. LinkedIn(s, links)
  BY <1>2 DEF Good, LinkedIn
<1>4. AsRead(s)
  BY <1>2 DEF AsRead
<1>5. AskedIn(s, n, barred)
  BY <1>2 DEF Good, AskedIn, HasAsked
<1>6. Good(s, links, n, barred)
  BY <1>2, <1>3, <1>4, <1>5 DEF Good
<1>. QED  BY <1>6 DEF s

-----------------------------------------------------------------------------
(* Every step keeps it: the talebe's and the team's requests.              *)

(* A request that begins.                                                  *)
LEMMA Begun ==
    ASSUME SeatInv, NEW r \in Requests, NEW state \in RequestStates, Begins(r, state),
           LinkedIn(state, link), AsRead(state), HasAsked(state) => ~banned
    PROVE  \E s : Goes(r, s) /\ Good(s, link, bans, banned)
<1>. DEFINE s == [state EXCEPT !.since = bans]
<1>1. bans \in 0..MaxBans
  BY DEF SeatInv, SeatTypeOK
<1>2. /\ s \in RequestStates /\ s.since = bans /\ s.pc = state.pc /\ s.op = state.op
      /\ s.reg = state.reg /\ s.to = state.to /\ s.expects = state.expects
  BY <1>1 DEF RequestStates
<1>3. Goes(r, s)
  BY DEF Begins
<1>. HIDE DEF s
<1>4. LinkedIn(s, link)
  BY <1>2 DEF LinkedIn
<1>5. AsRead(s)
  BY <1>2 DEF AsRead
<1>6. AskedIn(s, bans, banned)
  BY <1>1, <1>2 DEF AskedIn, HasAsked
<1>. QED  BY <1>2, <1>3, <1>4, <1>5, <1>6 DEF Good

LEMMA IdleType == Idle \in RequestStates
BY StampIsNat, SeatAssumption DEF Idle, RequestStates, Ops, OwnOps

LEMMA OwnBeginsKeep ==
    ASSUME SeatInv, NEW r \in Requests,
           \/ ApproveBegins(r)
           \/ \E op \in OwnOps : AsksFirst(r, op) \/ ReadsFirst(r, op)
    PROVE  SeatInv'
<1>1. CASE ApproveBegins(r)
  <2>. DEFINE s == [Idle EXCEPT !.pc = "approve", !.op = "approve"]
  <2>2. /\ s \in RequestStates /\ s.pc = "approve" /\ s.op = "approve"
        /\ s.reg = NoRegistration /\ s.to = NoRegistration
    BY IdleType DEF RequestStates, Idle, Ops, OwnOps
  <2>3. Begins(r, s) /\ SameSeat /\ SameLinks
    BY <1>1 DEF ApproveBegins
  <2>. HIDE DEF s
  <2>1. LinkedIn(s, link)
    BY <2>2, SeatAssumption DEF LinkedIn
  <2>4. AsRead(s) /\ ~HasAsked(s)
    BY <2>2 DEF AsRead, Approvals, PutSteps, DeleteSteps, HasAsked
  <2>5. PICK q : Goes(r, q) /\ Good(q, link, bans, banned)
    BY <2>1, <2>2, <2>3, <2>4, Begun
  <2>. QED  BY <2>3, <2>5, Reads
<1>2. ASSUME NEW op \in OwnOps, AsksFirst(r, op) PROVE SeatInv'
  <2>. DEFINE s == [Idle EXCEPT !.pc = "read", !.op = op]
  <2>2. /\ s \in RequestStates /\ s.pc = "read" /\ s.op = op
        /\ s.reg = NoRegistration /\ s.to = NoRegistration
    BY IdleType DEF RequestStates, Idle, Ops
  <2>3. Begins(r, s) /\ op \in {"enroll", "leave"} /\ ~banned /\ SameSeat /\ SameLinks
    BY <1>2 DEF AsksFirst
  <2>. HIDE DEF s
  <2>1. LinkedIn(s, link)
    BY <2>2, SeatAssumption DEF LinkedIn
  <2>4. AsRead(s)
    BY <2>2, <2>3 DEF AsRead, PutSteps, DeleteSteps
  <2>5. PICK q : Goes(r, q) /\ Good(q, link, bans, banned)
    BY <2>1, <2>2, <2>3, <2>4, Begun
  <2>. QED  BY <2>3, <2>5, Reads
<1>3. ASSUME NEW op \in OwnOps, ReadsFirst(r, op) PROVE SeatInv'
  <2>. DEFINE pc == IF op = "reopen" THEN "ban" ELSE "write"
              s == [Idle EXCEPT !.pc = pc, !.op = op, !.expects = Status]
  <2>1. pc \in SeatPcs /\ Status \in Statuses \cup {"NONE"}
    BY StatusType DEF SeatPcs, SeatInv
  <2>. HIDE DEF pc
  <2>2. /\ s \in RequestStates /\ s.pc = pc /\ s.op = op /\ s.expects = Status
        /\ s.reg = NoRegistration /\ s.to = NoRegistration
    BY <2>1, IdleType DEF RequestStates, Idle, Ops, SeatPcs
  <2>3. /\ Begins(r, s) /\ op \in OwnOps \ {"enroll", "leave", "approve"}
        /\ Status \in From[op] /\ SameSeat /\ SameLinks
    BY <1>3 DEF ReadsFirst, pc
  <2>. HIDE DEF s
  <2>7. LinkedIn(s, link)
    BY <2>2, SeatAssumption DEF LinkedIn
  <2>4. AsRead(s)
    BY <2>2, <2>3 DEF AsRead, PutSteps, DeleteSteps, From, OwnOps, pc
  <2>5. ~HasAsked(s)
    BY <2>2, <2>3 DEF HasAsked, Approvals, OwnOps, pc
  <2>6. PICK q : Goes(r, q) /\ Good(q, link, bans, banned)
    BY <2>7, <2>2, <2>3, <2>4, <2>5, Begun
  <2>. QED  BY <2>3, <2>6, Reads
<1>. QED  BY <1>1, <1>2, <1>3

(* Where a request that ended, failed or was answered goes.                *)
LEMMA EndGood == SeatInv => Good(Idle, link, bans, banned)
BY IdleGood DEF SeatInv, SeatTypeOK

LEMMA AnswersGood ==
    ASSUME SeatInv, NEW r \in Requests, request[r].pc # "claim",
           request[r].op \in Approvals \/ ~OfPut(r)
    PROVE  /\ Answers(r) => \E s : Goes(r, s) /\ Good(s, link, bans, banned)
           /\ StateError(r) => \E s : Goes(r, s) /\ Good(s, link, bans, banned)
<1>. USE DEF SeatInv
<1>1. ~OfPut(r) => (Answers(r) => Goes(r, Idle)) /\ (StateError(r) => Goes(r, Idle))
  BY DEF Answers, StateError
<1>2. ASSUME OfPut(r), NEW pc \in {"mark", "place", "settle", "lost"}
      PROVE  Good([request[r] EXCEPT !.pc = pc], link, bans, banned)
  BY <1>2, OtherStep DEF OfPut, SeatPcs, PutSteps, DeleteSteps
<1>3. ASSUME OfPut(r), Answers(r) PROVE Goes(r, [request[r] EXCEPT !.pc = "mark"])
  BY <1>3 DEF Answers, GoesTo
<1>4. ASSUME OfPut(r), StateError(r)
      PROVE  \E pc \in {"place", "settle"} : Goes(r, [request[r] EXCEPT !.pc = pc])
  BY <1>4 DEF StateError, GoesTo
<1>. QED  BY <1>1, <1>2, <1>3, <1>4, EndGood

LEMMA ApprovalKeeps ==
    ASSUME SeatInv, NEW r \in Requests,
           ApproveReads(r) \/ AskBan(r) \/ LostRace(r) \/ RequestDies(r)
    PROVE  SeatInv'
<1>. DEFINE q == request[r]
<1>1. Good(q, link, bans, banned) /\ q \in RequestStates
  BY DEF SeatInv, Good
<1>2. CASE RequestDies(r)
  BY <1>2, EndGood, Reads DEF RequestDies
<1>3. CASE ApproveReads(r)
  <2>1. q.op \in Approvals /\ q.pc = "approve" /\ SameSeat /\ SameLinks
    BY <1>1, <1>3 DEF ApproveReads, Good, AsRead
  <2>2. CASE StateError(r) \/ Answers(r)
    BY <2>1, <2>2, AnswersGood, Reads
  <2>3. CASE /\ Status \in {"PENDING", "REVOKED"}
             /\ Goes(r, [q EXCEPT !.pc = "ban", !.expects = Status])
    <3>. DEFINE s == [q EXCEPT !.pc = "ban", !.expects = Status]
    <3>1. /\ s \in RequestStates /\ s.pc = "ban" /\ s.expects = Status /\ s.op = q.op
          /\ s.reg = q.reg /\ s.to = q.to /\ s.since = q.since
      BY <1>1, <2>3 DEF RequestStates, Statuses
    <3>. HIDE DEF s
    <3>2. LinkedIn(s, link)
      BY <1>1, <2>1, <3>1 DEF Good, LinkedIn
    <3>3. AsRead(s) /\ AskedIn(s, bans, banned)
      BY <1>1, <2>1, <2>3, <3>1 DEF Good, AsRead, PutSteps, DeleteSteps, AskedIn, HasAsked
    <3>4. Good(s, link, bans, banned) /\ Goes(r, s)
      BY <2>3, <3>1, <3>2, <3>3 DEF Good, s
    <3>. QED  BY <2>1, <3>4, Reads
  <2>. QED  BY <1>3, <2>2, <2>3 DEF ApproveReads
<1>4. CASE AskBan(r)
  <2>1. q.pc = "ban" /\ SameSeat /\ SameLinks
    BY <1>4 DEF AskBan
  <2>2. CASE Goes(r, Idle)
    BY <2>1, <2>2, EndGood, Reads
  <2>3. CASE OfPut(r) /\ GoesTo(r, "refused")
    <3>1. Good([q EXCEPT !.pc = "refused"], link, bans, banned)
      BY <1>1, <2>1, <2>3, OtherStep DEF OfPut, SeatPcs, PutSteps, DeleteSteps
    <3>. QED  BY <2>1, <2>3, <3>1, Reads DEF GoesTo
  <2>4. CASE ~banned /\ GoesTo(r, "write")
    <3>. DEFINE s == [q EXCEPT !.pc = "write"]
    <3>1. /\ s \in RequestStates /\ s.pc = "write" /\ s.expects = q.expects /\ s.op = q.op
          /\ s.reg = q.reg /\ s.to = q.to /\ s.since = q.since
      BY <1>1 DEF RequestStates
    <3>. HIDE DEF s
    <3>2. LinkedIn(s, link)
      BY <1>1, <2>1, <3>1 DEF Good, LinkedIn
    <3>3. AsRead(s) /\ AskedIn(s, bans, banned)
      BY <1>1, <2>1, <2>4, <3>1 DEF Good, AsRead, PutSteps, DeleteSteps, AskedIn
    <3>4. Good(s, link, bans, banned) /\ Goes(r, s)
      BY <2>4, <3>1, <3>2, <3>3 DEF Good, s, GoesTo
    <3>. QED  BY <2>1, <3>4, Reads
  <2>. QED  BY <1>4, <2>2, <2>3, <2>4 DEF AskBan, Bars
<1>5. CASE LostRace(r)
  <2>1. q.pc = "lost" /\ q.op \in {"give", "place"} /\ SameSeat /\ SameLinks
    BY <1>1, <1>5 DEF LostRace, Good, AsRead, PutSteps
  <2>2. CASE GoesTo(r, "mark")
    <3>1. Good([q EXCEPT !.pc = "mark"], link, bans, banned)
      BY <1>1, <2>1, OtherStep DEF SeatPcs, PutSteps, DeleteSteps
    <3>. QED  BY <2>1, <2>2, <3>1, Reads DEF GoesTo
  <2>3. CASE StateError(r)
    BY <2>1, <2>3, AnswersGood, Reads DEF Approvals
  <2>. QED  BY <1>5, <2>2, <2>3 DEF LostRace
<1>. QED  BY <1>2, <1>3, <1>4, <1>5

LEMMA OwnReadKeeps ==
    ASSUME SeatInv, NEW r \in Requests, NEW op \in {"enroll", "leave"}, ReadsFor(r, op)
    PROVE  SeatInv'
<1>. DEFINE q == request[r]
            s == [q EXCEPT !.pc = "write", !.expects = IF op = "enroll" THEN "NONE" ELSE Status]
<1>1. Good(q, link, bans, banned) /\ q \in RequestStates
  BY DEF SeatInv, Good
<1>2. q.pc = "read" /\ q.op = op /\ SameSeat /\ SameLinks
  BY DEF ReadsFor
<1>3. CASE Goes(r, Idle)
  BY <1>2, <1>3, EndGood, Reads
<1>4. CASE Status \in From[op] /\ Goes(r, s)
  <2>1. /\ s \in RequestStates /\ s.pc = "write" /\ s.op = op /\ s.reg = q.reg /\ s.to = q.to
        /\ s.since = q.since
        /\ s.expects = IF op = "enroll" THEN "NONE" ELSE Status
    BY <1>1, <1>2, StatusType DEF RequestStates, SeatInv
  <2>. HIDE DEF s
  <2>2. LinkedIn(s, link)
    BY <1>1, <1>2, <2>1 DEF Good, LinkedIn
  <2>3. op = "leave" => Status \in {"PENDING", "ENROLLED"}
    BY <1>4 DEF From
  <2>4. AsRead(s)
    BY <2>1, <2>3 DEF AsRead, PutSteps, DeleteSteps
  <2>5. AskedIn(s, bans, banned)
    BY <1>1, <1>2, <2>1 DEF Good, AskedIn, HasAsked
  <2>6. Good(s, link, bans, banned)
    BY <2>1, <2>2, <2>4, <2>5 DEF Good
  <2>. QED  BY <1>2, <1>4, <2>6, Reads
<1>. QED  BY <1>3, <1>4 DEF ReadsFor

LEMMA Decided ==
    ASSUME NEW op \in Ops, NEW expects \in Statuses \cup {"NONE"},
           NEW status \in Becomes(op, expects)
    PROVE  status \in Statuses \cup {"NONE"} /\ Author(op) \in {"talebe", "team", "partner"}
<1>1. Author(op) \in {"talebe", "team", "partner"}
  BY DEF Author
<1>2. status \in Statuses \cup {"NONE"}
  BY DEF Becomes, Statuses
<1>. QED  BY <1>1, <1>2

LEMMA WriteKeeps ==
    ASSUME SeatInv, NEW r \in Requests, WriteStatus(r)
    PROVE  SeatInv'
<1>. DEFINE q == request[r]
<1>1. Good(q, link, bans, banned) /\ q \in RequestStates /\ q.pc = "write" /\ SameLinks
  BY DEF SeatInv, Good, WriteStatus
<1>2. q.op \in Ops /\ q.expects \in Statuses \cup {"NONE"}
  BY <1>1 DEF RequestStates
<1>3. OfPut(r) => q.op \in Approvals
  BY DEF OfPut, Approvals
<1>4. CASE /\ \E status \in Becomes(q.op, q.expects) : WriteSeat(status, Author(q.op))
           /\ Answers(r)
  <2>1. PICK status \in Becomes(q.op, q.expects) : WriteSeat(status, Author(q.op))
    BY <1>4
  <2>2. status \in Statuses \cup {"NONE"} /\ Author(q.op) \in {"talebe", "team", "partner"}
    BY <1>2, Decided
  <2>3. PICK s : Goes(r, s) /\ Good(s, link, bans, banned)
    BY <1>1, <1>3, <1>4, AnswersGood
  <2>. QED  BY <1>1, <2>1, <2>2, <2>3, Writes
<1>5. CASE SameSeat /\ OfPut(r) /\ GoesTo(r, "lost")
  <2>1. Good([q EXCEPT !.pc = "lost"], link, bans, banned)
    BY <1>1, <1>5, OtherStep DEF OfPut, SeatPcs, PutSteps, DeleteSteps
  <2>. QED  BY <1>1, <1>5, <2>1, Reads DEF GoesTo
<1>6. CASE SameSeat /\ Goes(r, Idle)
  BY <1>1, <1>6, EndGood, Reads
<1>. QED  BY <1>4, <1>5, <1>6 DEF WriteStatus

-----------------------------------------------------------------------------
(* Every step keeps it: PUT. *)

LEMMA PutReadsKeep ==
    ASSUME SeatInv, NEW r \in Requests,
           \/ \E l \in Registrations : PutBegins(r, l)
           \/ SeatReads(r) \/ ReadRemovals(r)
    PROVE  SeatInv'
<1>. DEFINE q == request[r]
<1>1. Good(q, link, bans, banned) /\ q \in RequestStates
  BY DEF SeatInv, Good
<1>2. ASSUME NEW l \in Registrations, PutBegins(r, l) PROVE SeatInv'
  <2>. DEFINE pc == IF link[l] = NoLink THEN "claim" ELSE "seat"
              closed == link[l] # NoLink /\ ~IsOpen(l)
              s == [Idle EXCEPT !.pc = pc, !.op = "place", !.reg = l, !.closed = closed]
  <2>1. pc \in {"claim", "seat"} /\ closed \in BOOLEAN
    OBVIOUS
  <2>2. Begins(r, s) /\ SameSeat /\ SameLinks
    BY <1>2 DEF PutBegins
  <2>3. pc = "seat" => link[l] # NoLink
    OBVIOUS
  <2>. HIDE DEF pc, closed
  <2>4. /\ s \in RequestStates /\ s.pc = pc /\ s.op = "place"
        /\ s.reg = l /\ s.to = NoRegistration
    BY <2>1, IdleType DEF RequestStates, Idle, Ops, PutSteps
  <2>. HIDE DEF s
  <2>5. LinkedIn(s, link)
    BY <2>1, <2>3, <2>4, SeatAssumption DEF LinkedIn
  <2>6. AsRead(s) /\ ~HasAsked(s)
    BY <2>1, <2>4 DEF AsRead, PutSteps, DeleteSteps, HasAsked
  <2>7. PICK t : Goes(r, t) /\ Good(t, link, bans, banned)
    BY <2>2, <2>4, <2>5, <2>6, Begun
  <2>. QED  BY <2>2, <2>7, Reads
<1>3. ASSUME NEW pc \in {"place", "removals", "barred"}, NEW n \in Stamps,
             q.pc \in {"seat", "removals"}
      PROVE  Good([q EXCEPT !.pc = pc, !.at = n], link, bans, banned)
  <2>. DEFINE s == [q EXCEPT !.pc = pc, !.at = n]
  <2>1. /\ s \in RequestStates /\ s.pc = pc /\ s.op = q.op /\ s.reg = q.reg /\ s.to = q.to
        /\ s.since = q.since
    BY <1>1 DEF RequestStates, PutSteps
  <2>2. q.op \in {"give", "place"}
    BY <1>1, <1>3 DEF Good, AsRead, PutSteps
  <2>. HIDE DEF s
  <2>3. LinkedIn(s, link)
    BY <1>1, <1>3, <2>1 DEF Good, LinkedIn
  <2>4. AsRead(s) /\ AskedIn(s, bans, banned)
    BY <1>1, <2>1, <2>2 DEF Good, AsRead, PutSteps, DeleteSteps, AskedIn, HasAsked
  <2>5. Good(s, link, bans, banned)
    BY <2>1, <2>3, <2>4 DEF Good
  <2>. QED  BY <2>5 DEF s
<1>4. CASE SeatReads(r)
  <2>1. q.pc = "seat" /\ SameSeat /\ SameLinks
    BY <1>4 DEF SeatReads
  <2>2. CASE Status = "REVOKED" /\ Goes(r, [q EXCEPT !.pc = "removals", !.at = held.updated])
    <3>1. held.updated \in Stamps
      BY <2>2, SeatThere DEF SeatInv, Seats
    <3>. QED  BY <1>3, <2>1, <2>2, <3>1, Reads
  <2>3. CASE GoesTo(r, "place")
    <3>1. Good([q EXCEPT !.pc = "place"], link, bans, banned)
      BY <1>1, <2>1, OtherStep DEF Good, AsRead, SeatPcs, PutSteps, DeleteSteps
    <3>. QED  BY <2>1, <2>3, <3>1, Reads DEF GoesTo
  <2>. QED  BY <1>4, <2>2, <2>3 DEF SeatReads
<1>5. CASE ReadRemovals(r)
  <2>1. q.pc = "removals" /\ SameSeat /\ SameLinks /\ 0 \in Stamps
    BY <1>5, StampIsNat DEF ReadRemovals
  <2>2. \E pc \in {"place", "barred"} : Goes(r, [q EXCEPT !.at = 0, !.pc = pc])
    BY <1>5 DEF ReadRemovals
  <2>3. PICK pc \in {"place", "barred"} : Goes(r, [q EXCEPT !.at = 0, !.pc = pc])
    BY <2>2
  <2>4. [q EXCEPT !.at = 0, !.pc = pc] = [q EXCEPT !.pc = pc, !.at = 0]
    BY <1>1 DEF RequestStates
  <2>5. Good([q EXCEPT !.pc = pc, !.at = 0], link, bans, banned)
    BY <1>3, <2>1
  <2>. QED  BY <2>1, <2>3, <2>4, <2>5, Reads
<1>. QED  BY <1>2, <1>4, <1>5

(* A PUT that asks, or finds, where it stands.                             *)
LEMMA PutLooksKeep ==
    ASSUME SeatInv, NEW r \in Requests,
           AskBarred(r) \/ ReadHeld(r) \/ ReadConflict(r) \/ Settle(r) \/ ReadMade(r)
    PROVE  SeatInv'
<1>. DEFINE q == request[r]
<1>1. Good(q, link, bans, banned) /\ q \in RequestStates
  BY DEF SeatInv, Good
<1>2. /\ q.pc \in {"barred", "place", "held", "conflict", "settle", "mark"}
      /\ SameSeat /\ SameLinks
  BY DEF AskBarred, ReadHeld, ReadConflict, Settle, ReadMade
<1>3. q.op \in {"give", "place"}
  BY <1>1, <1>2 DEF Good, AsRead, PutSteps
<1>4. ASSUME NEW pc \in {"approve", "refused", "link", "mark"}, GoesTo(r, pc) PROVE SeatInv'
  <2>1. Good([q EXCEPT !.pc = pc], link, bans, banned)
    BY <1>1, <1>2, <1>3, OtherStep DEF SeatPcs, PutSteps, DeleteSteps, Approvals
  <2>. QED  BY <1>2, <1>4, <2>1, Reads DEF GoesTo
<1>5. Settles(r) => \E pc \in {"approve", "refused", "link", "mark"} : GoesTo(r, pc) \/ Status = "NONE"
  BY StatusType DEF Settles, SeatInv, Statuses
<1>6. CASE AskBarred(r)
  <2>1. ASSUME NEW pc \in {"approve", "held"}, NEW op \in {"give", "place"}, ~banned,
               Goes(r, [q EXCEPT !.pc = pc, !.op = op])
        PROVE  SeatInv'
    <3>. DEFINE s == [q EXCEPT !.pc = pc, !.op = op]
    <3>1. /\ s \in RequestStates /\ s.pc = pc /\ s.op = op /\ s.reg = q.reg /\ s.to = q.to
          /\ s.since = q.since
      BY <1>1 DEF RequestStates, PutSteps, Ops
    <3>2. Goes(r, s)
      BY <2>1
    <3>. HIDE DEF s
    <3>3. LinkedIn(s, link)
      BY <1>1, <1>2, <3>1 DEF Good, LinkedIn
    <3>4. AsRead(s) /\ AskedIn(s, bans, banned)
      BY <1>1, <2>1, <3>1 DEF Good, AsRead, PutSteps, DeleteSteps, AskedIn, Approvals
    <3>5. Good(s, link, bans, banned)
      BY <3>1, <3>3, <3>4 DEF Good
    <3>. QED  BY <1>2, <3>2, <3>5, Reads
  <2>. QED  BY <1>4, <1>6, <2>1 DEF AskBarred
<1>7. CASE ReadHeld(r)
  <2>1. CASE Status = "NONE" /\ GoesTo(r, "insert")
    <3>. DEFINE s == [q EXCEPT !.pc = "insert"]
    <3>1. /\ s \in RequestStates /\ s.pc = "insert" /\ s.op = q.op /\ s.reg = q.reg /\ s.to = q.to
          /\ s.since = q.since
      BY <1>1 DEF RequestStates, PutSteps
    <3>2. Goes(r, s) /\ q.pc = "held"
      BY <1>7, <2>1 DEF GoesTo, ReadHeld
    <3>. HIDE DEF s
    <3>3. LinkedIn(s, link)
      BY <1>1, <1>2, <3>1 DEF Good, LinkedIn
    <3>4. AsRead(s) /\ AskedIn(s, bans, banned)
      BY <1>1, <1>3, <3>1, <3>2 DEF Good, AsRead, PutSteps, DeleteSteps, AskedIn, HasAsked
    <3>5. Good(s, link, bans, banned)
      BY <3>1, <3>3, <3>4 DEF Good
    <3>. QED  BY <1>2, <3>2, <3>5, Reads
  <2>2. CASE Status # "NONE" /\ Settles(r)
    BY <1>4, <1>5, <2>2
  <2>. QED  BY <1>7, <2>1, <2>2 DEF ReadHeld
<1>8. CASE ReadConflict(r)
  BY <1>4, <1>5, <1>8 DEF ReadConflict
<1>9. CASE Settle(r)
  BY <1>4, <1>9 DEF Settle
<1>10. CASE ReadMade(r)
  <2>. DEFINE n == IF held = NoSeat THEN 0 ELSE held.born
              s == [q EXCEPT !.pc = "link", !.at = n]
  <2>1. n \in Stamps
    BY StampIsNat DEF SeatInv, SeatTypeOK, Seats
  <2>2. Goes(r, s)
    BY <1>10 DEF ReadMade
  <2>. HIDE DEF n
  <2>3. /\ s \in RequestStates /\ s.pc = "link" /\ s.op = q.op /\ s.reg = q.reg /\ s.to = q.to
        /\ s.since = q.since
    BY <1>1, <2>1 DEF RequestStates, PutSteps
  <2>. HIDE DEF s
  <2>4. LinkedIn(s, link)
    BY <1>1, <1>2, <2>3 DEF Good, LinkedIn
  <2>5. AsRead(s) /\ AskedIn(s, bans, banned)
    BY <1>1, <1>3, <2>3 DEF Good, AsRead, PutSteps, DeleteSteps, AskedIn, HasAsked
  <2>6. Good(s, link, bans, banned)
    BY <2>3, <2>4, <2>5 DEF Good
  <2>. QED  BY <1>2, <2>2, <2>6, Reads
<1>. QED  BY <1>6, <1>7, <1>8, <1>9, <1>10

LEMMA InsertKeeps ==
    ASSUME SeatInv, NEW r \in Requests, InsertSeat(r)
    PROVE  SeatInv'
<1>. DEFINE q == request[r]
<1>1. Good(q, link, bans, banned) /\ q.pc = "insert" /\ SameLinks
  BY DEF SeatInv, InsertSeat
<1>2. q.op \in {"give", "place"}
  BY <1>1 DEF Good, AsRead, PutSteps
<1>3. ASSUME NEW pc \in {"mark", "conflict"} PROVE Good([q EXCEPT !.pc = pc], link, bans, banned)
  BY <1>1, <1>2, OtherStep DEF SeatPcs, PutSteps, DeleteSteps
<1>4. CASE WriteSeat("ENROLLED", "partner") /\ GoesTo(r, "mark")
  BY <1>1, <1>3, <1>4, Writes DEF GoesTo, Statuses
<1>5. CASE SameSeat /\ GoesTo(r, "conflict")
  BY <1>1, <1>3, <1>5, Reads DEF GoesTo
<1>. QED  BY <1>4, <1>5 DEF InsertSeat

(* What is left of the invariant when only links changed.                  *)
LEMMA LinksMove ==
    ASSUME SeatInv, SameSeat, UNCHANGED <<banned, bans>>,
           request' \in [Requests -> RequestStates],
           link' \in [Registrations -> Links \cup {NoLink}],
           \A q \in Requests : Good(request'[q], link', bans', banned')
    PROVE  SeatInv'
<1>1. held' = held /\ stamp' = stamp /\ by' = by
  BY DEF SameSeat, seatVars
<1>. QED  BY <1>1 DEF SeatInv, SeatTypeOK

LEMMA UpdatedRow ==
    ASSUME SeatInv, NEW l, NEW row \in Links, link' = Updated(l, row)
    PROVE  /\ link' \in [Registrations -> Links \cup {NoLink}]
           /\ \A m \in Registrations : link[m] # NoLink => link'[m] # NoLink
BY SeatAssumption DEF SeatInv, SeatTypeOK, Updated

LEMMA NewLinkType == NewLink \in Links
BY StampIsNat DEF NewLink, Links

LEMMA ClaimKeeps ==
    ASSUME SeatInv, NEW r \in Requests, ClaimLink(r)
    PROVE  SeatInv'
<1>. DEFINE q == request[r]  l == q.reg
            inserted == link[l] = NoLink
            closed == link[l] # NoLink /\ ~IsOpen(l)
            s == [q EXCEPT !.pc = "seat", !.inserted = inserted, !.closed = closed]
<1>1. Good(q, link, bans, banned) /\ q \in RequestStates /\ q.pc = "claim"
  BY DEF SeatInv, Good, ClaimLink
<1>2. /\ link' = IF link[l] = NoLink THEN [link EXCEPT ![l] = NewLink] ELSE link
      /\ Goes(r, s) /\ SameSeat /\ UNCHANGED <<banned, bans>>
  BY DEF ClaimLink
<1>3. link \in [Registrations -> Links \cup {NoLink}]
  BY DEF SeatInv, SeatTypeOK
<1>4. link' \in [Registrations -> Links \cup {NoLink}]
  BY <1>2, <1>3, NewLinkType
<1>5. /\ \A m \in Registrations : link[m] # NoLink => link'[m] # NoLink
      /\ l \in Registrations => link'[l] # NoLink
  BY <1>2, <1>3, NewLinkType, SeatAssumption
<1>6. inserted \in BOOLEAN /\ closed \in BOOLEAN
  OBVIOUS
<1>. HIDE DEF inserted, closed
<1>7. /\ s \in RequestStates /\ s.pc = "seat" /\ s.op = q.op /\ s.reg = q.reg /\ s.to = q.to
      /\ s.since = q.since
  BY <1>1, <1>6 DEF RequestStates, PutSteps
<1>. HIDE DEF s
<1>8. LinkedIn(s, link')
  BY <1>1, <1>5, <1>7 DEF Good, LinkedIn
<1>9. AsRead(s) /\ AskedIn(s, bans, banned)
  BY <1>1, <1>7 DEF Good, AsRead, PutSteps, DeleteSteps, AskedIn, HasAsked
<1>10. Good(s, link', bans, banned)
  BY <1>7, <1>8, <1>9 DEF Good
<1>. QED  BY <1>2, <1>4, <1>5, <1>10, OneMoves, LinksMove

LEMMA PutEndsKeep ==
    ASSUME SeatInv, NEW r \in Requests, MarkLink(r) \/ PutRefused(r)
    PROVE  SeatInv'
<1>. DEFINE q == request[r]  l == q.reg
<1>1. Good(q, link, bans, banned) /\ q \in RequestStates
  BY DEF SeatInv, Good
<1>2. \A links : Good(Idle, links, bans, banned)
  BY IdleGood DEF SeatInv, SeatTypeOK
<1>3. CASE MarkLink(r)
  <2>1. q.pc = "link" /\ Goes(r, Idle) /\ SameSeat /\ UNCHANGED <<banned, bans>>
    BY <1>3 DEF MarkLink
  <2>2. q.at \in Stamps /\ [NewLink EXCEPT !.owns = q.at] \in Links
    BY <1>1, NewLinkType DEF RequestStates, Links
  <2>3. l \in Registrations => link[l] \in Links /\ [link[l] EXCEPT !.owns = q.at] \in Links
    BY <1>1, <2>1, <2>2, LinkThere DEF Good, LinkedIn, SeatInv, Links
  <2>4. /\ link' \in [Registrations -> Links \cup {NoLink}]
        /\ \A m \in Registrations : link[m] # NoLink => link'[m] # NoLink
    <3>1. CASE link' = link
      BY <3>1 DEF SeatInv, SeatTypeOK
    <3>2. CASE l \notin Registrations
      BY <1>3, <3>1, <3>2 DEF MarkLink, Updated
    <3>3. CASE l \in Registrations /\ link' # link
      <4>1. \E row \in Links : link' = Updated(l, row)
        BY <1>3, <2>2, <2>3, <3>3 DEF MarkLink
      <4>. QED  BY <4>1, UpdatedRow
    <3>. QED  BY <3>1, <3>2, <3>3
  <2>. QED  BY <1>2, <2>1, <2>4, OneMoves, LinksMove
<1>4. CASE PutRefused(r)
  <2>1. q.pc = "refused" /\ SameSeat /\ UNCHANGED <<banned, bans>>
    BY <1>4 DEF PutRefused
  <2>2. CASE Goes(r, Idle) /\ UNCHANGED link
    BY <1>2, <2>1, <2>2, Reads DEF SameLinks
  <2>3. CASE /\ l \in Registrations
             /\ link' = [link EXCEPT ![l] = NoLink]
             /\ request' = [p \in Requests |-> IF p = r THEN Idle ELSE Forgets(p, l)]
    <3>1. link' \in [Registrations -> Links \cup {NoLink}]
      BY <2>3 DEF SeatInv, SeatTypeOK
    <3>2. ASSUME NEW p \in Requests PROVE Good(request'[p], link', bans, banned)
      <4>1. CASE p = r
        BY <1>2, <2>3, <4>1
      <4>2. CASE p # r
        <5>. DEFINE s == request[p]
                    t == Forgets(p, l)
        <5>1. Good(s, link, bans, banned) /\ s \in RequestStates
          BY DEF SeatInv, Good
        <5>2. /\ t \in RequestStates /\ t.pc = s.pc /\ t.op = s.op /\ t.since = s.since
              /\ t.expects = s.expects
              /\ t.reg = (IF s.reg = l /\ s.pc # "claim" THEN NoRegistration ELSE s.reg)
              /\ t.to = (IF s.to = l THEN NoRegistration ELSE s.to)
          BY <5>1 DEF RequestStates, Forgets
        <5>3. request'[p] = t
          BY <2>3, <4>2
        <5>. HIDE DEF t
        <5>4. \A m \in Registrations : m # l => link'[m] = link[m]
          BY <2>3 DEF SeatInv, SeatTypeOK
        <5>5. LinkedIn(t, link')
          BY <5>1, <5>2, <5>4, SeatAssumption DEF Good, LinkedIn
        <5>6. AsRead(t) /\ AskedIn(t, bans, banned)
          BY <5>1, <5>2 DEF Good, AsRead, AskedIn, HasAsked
        <5>. QED  BY <5>2, <5>3, <5>5, <5>6 DEF Good
      <4>. QED  BY <4>1, <4>2
    <3>3. request' \in [Requests -> RequestStates]
      BY <2>3, <3>2 DEF Good
    <3>. QED  BY <2>1, <3>1, <3>2, <3>3, LinksMove
  <2>. QED  BY <1>4, <2>1, <2>2, <2>3 DEF PutRefused
<1>. QED  BY <1>3, <1>4

-----------------------------------------------------------------------------
(* Every step keeps it: DELETE. *)

LEMMA ClosesGood ==
    ASSUME SeatInv, NEW r \in Requests, NEW gone \in BOOLEAN, NEW n \in Stamps,
           request[r].pc \in DeleteSteps
    PROVE  Good([request[r] EXCEPT !.pc = "close", !.gone = gone, !.at = n], link, bans, banned)
<1>. DEFINE q == request[r]
            s == [q EXCEPT !.pc = "close", !.gone = gone, !.at = n]
<1>1. Good(q, link, bans, banned) /\ q \in RequestStates
  BY DEF SeatInv, Good
<1>2. /\ s \in RequestStates /\ s.pc = "close" /\ s.op = q.op /\ s.reg = q.reg /\ s.to = q.to
      /\ s.since = q.since
  BY <1>1 DEF RequestStates, DeleteSteps
<1>3. q.op = "delete" /\ q.pc # "claim"
  BY <1>1 DEF Good, AsRead, DeleteSteps
<1>. HIDE DEF s
<1>4. LinkedIn(s, link)
  BY <1>1, <1>2, <1>3 DEF Good, LinkedIn
<1>5. AsRead(s) /\ AskedIn(s, bans, banned)
  BY <1>1, <1>2, <1>3 DEF Good, AsRead, PutSteps, DeleteSteps, AskedIn, HasAsked
<1>6. Good(s, link, bans, banned)
  BY <1>2, <1>4, <1>5 DEF Good
<1>. QED  BY <1>6 DEF s

LEMMA DeleteBeginsKeep ==
    ASSUME SeatInv, NEW r \in Requests, NEW l \in Registrations, DeleteBegins(r, l)
    PROVE  SeatInv'
<1>. DEFINE pc == IF link[l].owns # 0 THEN "verdict" ELSE "close"
            s == [Idle EXCEPT !.pc = pc, !.op = "delete", !.reg = l, !.at = link[l].owns]
<1>1. Begins(r, s) /\ SameSeat /\ SameLinks /\ link[l] # NoLink
  BY DEF DeleteBegins, IsOpen
<1>2. pc \in {"verdict", "close"}
  OBVIOUS
<1>3. link[l].owns \in Stamps
  BY <1>1, LinkThere DEF SeatInv, Links
<1>. HIDE DEF pc
<1>4. /\ s \in RequestStates /\ s.pc = pc /\ s.op = "delete" /\ s.reg = l
      /\ s.to = NoRegistration
  BY <1>2, <1>3, IdleType DEF RequestStates, Idle, Ops, DeleteSteps
<1>. HIDE DEF s
<1>5. LinkedIn(s, link)
  BY <1>1, <1>4, SeatAssumption DEF LinkedIn
<1>6. AsRead(s) /\ ~HasAsked(s)
  BY <1>2, <1>4 DEF AsRead, PutSteps, DeleteSteps, HasAsked
<1>7. PICK t : Goes(r, t) /\ Good(t, link, bans, banned)
  BY <1>1, <1>4, <1>5, <1>6, Begun
<1>. QED  BY <1>1, <1>7, Reads

LEMMA DeleteReadsKeep ==
    ASSUME SeatInv, NEW r \in Requests, ReadVerdict(r) \/ ReadOther(r) \/ ReadAfter(r)
    PROVE  SeatInv'
<1>. DEFINE q == request[r]
<1>1. Good(q, link, bans, banned) /\ q \in RequestStates
  BY DEF SeatInv, Good
<1>2. /\ q.pc \in {"verdict", "other", "after", "redecide"} /\ q.pc \in DeleteSteps
      /\ SameSeat /\ SameLinks
  BY DEF ReadVerdict, ReadOther, ReadAfter, DeleteSteps
<1>3. q.op = "delete"
  BY <1>1, <1>2 DEF Good, AsRead
<1>4. ASSUME NEW gone \in BOOLEAN, NEW n \in Stamps, Closes(r, gone, n) PROVE SeatInv'
  BY <1>2, <1>4, ClosesGood, Reads DEF Closes
<1>5. ASSUME NEW pc \in {"other", "remove"}, GoesTo(r, pc) PROVE SeatInv'
  <2>1. Good([q EXCEPT !.pc = pc], link, bans, banned)
    BY <1>1, <1>2, <1>3, OtherStep DEF SeatPcs, PutSteps, DeleteSteps
  <2>. QED  BY <1>2, <1>5, <2>1, Reads DEF GoesTo
<1>6. 0 \in Stamps /\ SeatGone \in BOOLEAN
  BY StampIsNat DEF SeatGone
<1>7. CASE ReadVerdict(r)
  BY <1>4, <1>5, <1>6, <1>7 DEF ReadVerdict
<1>8. CASE ReadAfter(r)
  <2>1. (IF Status = "REVOKED" THEN held.updated ELSE 0) \in Stamps
    BY <1>6, SeatThere DEF SeatInv, Seats
  <2>. QED  BY <1>4, <1>6, <1>8, <2>1 DEF ReadAfter
<1>9. CASE ReadOther(r)
  <2>1. ASSUME NEW l \in Registrations, IsOpen(l),
               Goes(r, [q EXCEPT !.pc = "handover", !.to = l])
        PROVE  SeatInv'
    <3>. DEFINE s == [q EXCEPT !.pc = "handover", !.to = l]
    <3>1. /\ s \in RequestStates /\ s.pc = "handover" /\ s.op = q.op /\ s.reg = q.reg
          /\ s.to = l /\ s.since = q.since
      BY <1>1 DEF RequestStates, DeleteSteps
    <3>2. Goes(r, s) /\ link[l] # NoLink
      BY <2>1 DEF IsOpen
    <3>. HIDE DEF s
    <3>3. LinkedIn(s, link)
      BY <1>1, <1>2, <3>1, <3>2 DEF Good, LinkedIn
    <3>4. AsRead(s) /\ AskedIn(s, bans, banned)
      BY <1>1, <1>3, <3>1 DEF Good, AsRead, PutSteps, DeleteSteps, AskedIn, HasAsked
    <3>5. Good(s, link, bans, banned)
      BY <3>1, <3>3, <3>4 DEF Good
    <3>. QED  BY <1>2, <3>2, <3>5, Reads
  <2>. QED  BY <1>5, <1>9, <2>1 DEF ReadOther
<1>. QED  BY <1>7, <1>8, <1>9

LEMMA RemovalKeeps ==
    ASSUME SeatInv, NEW r \in Requests, RemoveSeat(r)
    PROVE  SeatInv'
<1>. DEFINE q == request[r]
<1>1. Good(q, link, bans, banned) /\ q.pc = "remove" /\ SameLinks
  BY DEF SeatInv, RemoveSeat
<1>2. q.op = "delete"
  BY <1>1 DEF Good, AsRead, DeleteSteps
<1>3. ASSUME NEW pc \in {"after", "redecide"} PROVE Good([q EXCEPT !.pc = pc], link, bans, banned)
  BY <1>1, <1>2, OtherStep DEF SeatPcs, PutSteps, DeleteSteps
<1>4. CASE WriteSeat("REVOKED", "partner") /\ GoesTo(r, "after")
  BY <1>1, <1>3, <1>4, Writes DEF GoesTo, Statuses
<1>5. CASE SameSeat /\ GoesTo(r, "redecide")
  BY <1>1, <1>3, <1>5, Reads DEF GoesTo
<1>. QED  BY <1>4, <1>5 DEF RemoveSeat

LEMMA DeleteEndsKeep ==
    ASSUME SeatInv, NEW r \in Requests, HandOver(r) \/ CloseLink(r)
    PROVE  SeatInv'
<1>. DEFINE q == request[r]  l == q.reg
<1>1. Good(q, link, bans, banned) /\ q \in RequestStates
  BY DEF SeatInv, Good
<1>2. \A links : Good(Idle, links, bans, banned)
  BY IdleGood DEF SeatInv, SeatTypeOK
<1>3. /\ q.pc \in {"handover", "close"} /\ Goes(r, Idle) /\ SameSeat /\ UNCHANGED <<banned, bans>>
      /\ q.at \in Stamps /\ 0 \in Stamps
  BY <1>1, StampIsNat DEF HandOver, CloseLink, RequestStates
<1>4. l \in Registrations => link[l] \in Links
  BY <1>1, <1>3, LinkThere DEF Good, LinkedIn, SeatInv
<1>5. q.to \in Registrations => link[q.to] \in Links
  BY <1>1, LinkThere DEF Good, LinkedIn, SeatInv
<1>6. CASE HandOver(r)
  <2>1. ASSUME NEW m \in Registrations
        PROVE  link'[m] \in Links \cup {NoLink} /\ (link[m] # NoLink => link'[m] # NoLink)
    <3>1. CASE m = l
      <4>1. link'[m] = [link[m] EXCEPT !.open = FALSE, !.owns = 0]
        BY <1>6, <3>1 DEF HandOver
      <4>2. link'[m] \in Links
        BY <1>3, <1>4, <3>1, <4>1 DEF Links
      <4>. QED  BY <4>2, SeatAssumption
    <3>2. CASE m # l /\ m = q.to
      <4>1. link'[m] = [link[m] EXCEPT !.owns = q.at]
        BY <1>6, <3>2 DEF HandOver
      <4>2. link'[m] \in Links
        BY <1>3, <1>5, <3>2, <4>1 DEF Links
      <4>. QED  BY <4>2, SeatAssumption
    <3>3. CASE m # l /\ m # q.to
      BY <1>6, <3>3 DEF HandOver, SeatInv, SeatTypeOK
    <3>. QED  BY <3>1, <3>2, <3>3
  <2>2. link' \in [Registrations -> Links \cup {NoLink}]
    <3>1. \E f : link' = [m \in Registrations |-> f[m]] /\ DOMAIN link' = Registrations
      BY <1>6 DEF HandOver
    <3>. QED  BY <2>1, <3>1
  <2>. QED  BY <1>2, <1>3, <2>1, <2>2, OneMoves, LinksMove
<1>7. CASE CloseLink(r)
  <2>1. link' = Updated(l, [link[l] EXCEPT !.open = FALSE, !.owns = 0, !.removed = q.at])
    BY <1>7 DEF CloseLink
  <2>2. CASE l \in Registrations
    <3>1. [link[l] EXCEPT !.open = FALSE, !.owns = 0, !.removed = q.at] \in Links
      BY <1>3, <1>4, <2>2 DEF Links
    <3>2. /\ link' \in [Registrations -> Links \cup {NoLink}]
          /\ \A m \in Registrations : link[m] # NoLink => link'[m] # NoLink
      BY <2>1, <3>1, UpdatedRow
    <3>. QED  BY <1>2, <1>3, <3>2, OneMoves, LinksMove
  <2>3. CASE l \notin Registrations
    <3>1. link' = link
      BY <2>1, <2>3 DEF Updated
    <3>. QED  BY <1>2, <1>3, <3>1, Reads DEF SameLinks
  <2>. QED  BY <2>2, <2>3
<1>. QED  BY <1>6, <1>7

LEMMA BanKeeps == ASSUME SeatInv, BanChanges PROVE SeatInv'
<1>1. /\ bans' = bans + 1 /\ bans \in 0..MaxBans /\ bans' \in 0..MaxBans /\ banned' \in BOOLEAN
      /\ link' = link /\ request' = request /\ held' = held /\ stamp' = stamp /\ by' = by
  BY SeatAssumption DEF BanChanges, SeatInv, SeatTypeOK, SameSeat, seatVars
<1>2. ASSUME NEW r \in Requests PROVE Good(request[r], link, bans', banned')
  <2>1. Good(request[r], link, bans, banned) /\ request[r].since \in 0..MaxBans
    BY DEF SeatInv, Good, RequestStates
  <2>2. AskedIn(request[r], bans', banned')
    BY <1>1, <2>1 DEF Good, AskedIn
  <2>. QED  BY <2>1, <2>2 DEF Good
<1>. QED  BY <1>1, <1>2 DEF SeatInv, SeatTypeOK

LEMMA NextSeat == ASSUME SeatInv, [EnrollmentNext]_enrollmentVars PROVE SeatInv'
<1>1. ASSUME NEW r \in Requests, OwnStep(r) PROVE SeatInv'
  BY <1>1, OwnBeginsKeep, ApprovalKeeps, OwnReadKeeps, WriteKeeps DEF OwnStep
<1>2. ASSUME NEW r \in Requests, PutStep(r) PROVE SeatInv'
  BY <1>2, PutReadsKeep, PutLooksKeep, InsertKeeps, ClaimKeeps, PutEndsKeep DEF PutStep
<1>3. ASSUME NEW r \in Requests, DeleteStep(r) PROVE SeatInv'
  BY <1>3, DeleteBeginsKeep, DeleteReadsKeep, RemovalKeeps, DeleteEndsKeep DEF DeleteStep
<1>4. ASSUME NEW r \in Requests, RequestDies(r) PROVE SeatInv'
  BY <1>4, ApprovalKeeps
<1>5. CASE UNCHANGED enrollmentVars
  BY <1>5 DEF enrollmentVars, seatVars, SeatInv, SeatTypeOK
<1>. QED  BY <1>1, <1>2, <1>3, <1>4, <1>5, BanKeeps DEF EnrollmentNext

LEMMA SeatInvHolds == EnrollmentSpec => []SeatInv
BY InitSeat, NextSeat, PTL DEF EnrollmentSpec

(* The variables keep their types, for any number of registrations and     *)
(* requests, whatever overlaps and dies.                                   *)
THEOREM SeatTypeCorrect == EnrollmentSpec => []SeatTypeOK
BY SeatInvHolds, PTL DEF SeatInv

-----------------------------------------------------------------------------
(* Completions and removals stand. *)

RecordStep ==
    /\ Status = "COMPLETED" /\ Status' # "COMPLETED" =>
           Status' = "ENROLLED" /\ by' = "team"
    /\ Status = "REVOKED" /\ Status' # "REVOKED" =>
           Status' = "ENROLLED" /\ by' # "talebe"

LEMMA SameStatus == SameSeat => Status' = Status /\ by' = by
BY DEF SameSeat, seatVars, Status

(* Every step but a write of the seat leaves it.                           *)
LEMMA OthersLeaveSeat ==
    ASSUME NEW r \in Requests, OwnStep(r) \/ PutStep(r) \/ DeleteStep(r) \/ RequestDies(r)
    PROVE  SameSeat \/ WriteStatus(r) \/ InsertSeat(r) \/ RemoveSeat(r)
<1>1. CASE OwnStep(r)
  BY <1>1 DEF OwnStep, ApproveBegins, ApproveReads, AskBan, LostRace, AsksFirst, ReadsFirst,
              ReadsFor
<1>2. CASE PutStep(r)
  BY <1>2 DEF PutStep, PutBegins, ClaimLink, SeatReads, ReadRemovals, AskBarred, ReadHeld,
              ReadConflict, Settle, PutRefused, ReadMade, MarkLink
<1>3. CASE DeleteStep(r)
  BY <1>3 DEF DeleteStep, DeleteBegins, ReadVerdict, ReadOther, HandOver, ReadAfter, CloseLink
<1>. QED  BY <1>1, <1>2, <1>3 DEF RequestDies

(* What a conditioned write does to the status it was conditioned on.      *)
LEMMA WriteIs ==
    ASSUME SeatInv, NEW r \in Requests, WriteStatus(r), ~SameSeat
    PROVE  LET op == request[r].op IN
           /\ Status = request[r].expects
           /\ Answers(r)
           /\ Status' \in Becomes(op, Status)
           /\ Status' # Status => by' = Author(op)
           /\ Status' = Status => by' = by
<1>. DEFINE op == request[r].op
<1>1. /\ Status = request[r].expects /\ Answers(r)
      /\ \E status \in Becomes(op, Status) : WriteSeat(status, Author(op))
  BY DEF WriteStatus, StillIs
<1>2. PICK status \in Becomes(op, Status) : WriteSeat(status, Author(op))
  BY <1>1
<1>3. op \in Ops /\ Status \in Statuses \cup {"NONE"}
  BY StatusType DEF SeatInv, Good, RequestStates
<1>4. status \in Statuses \cup {"NONE"} /\ Author(op) \in {"talebe", "team", "partner"}
  BY <1>2, <1>3, Decided
<1>5. Status' = status /\ (status # Status => by' = Author(op)) /\ (status = Status => by' = by)
  BY <1>2, <1>4, SeatWritten DEF SeatInv
<1>. QED  BY <1>1, <1>2, <1>5

LEMMA InsertIs ==
    ASSUME SeatInv, NEW r \in Requests, InsertSeat(r), ~SameSeat
    PROVE  Status = "NONE" /\ Status' = "ENROLLED" /\ by' = "partner" /\ GoesTo(r, "mark")
BY SeatWritten DEF InsertSeat, SeatInv, Statuses

LEMMA RemovalIs ==
    ASSUME SeatInv, NEW r \in Requests, RemoveSeat(r), ~SameSeat
    PROVE  Status = "ENROLLED" /\ Status' = "REVOKED" /\ by' = "partner" /\ GoesTo(r, "after")
BY SeatWritten DEF RemoveSeat, StillIs, SeatInv, Statuses

LEMMA NextRecords == ASSUME SeatInv, [EnrollmentNext]_enrollmentVars PROVE RecordStep
<1>1. ASSUME NEW r \in Requests, WriteStatus(r), ~SameSeat PROVE RecordStep
  <2>. DEFINE op == request[r].op
  <2>1. /\ Status = request[r].expects /\ Status' \in Becomes(op, Status)
        /\ Status' # Status => by' = Author(op)
    BY <1>1, WriteIs
  <2>2. Good(request[r], link, bans, banned) /\ request[r].pc = "write"
    BY <1>1 DEF SeatInv, WriteStatus
  <2>3. /\ Status = "COMPLETED" => op \in {"progress", "reopen"}
        /\ Status = "REVOKED" => op \in Approvals
    BY <2>1, <2>2 DEF Good, AsRead, Approvals
  <2>4. Status = "COMPLETED" => Status' = Status \/ (Status' = "ENROLLED" /\ Author(op) = "team")
    BY <2>1, <2>3 DEF Becomes, Author
  <2>5. Status = "REVOKED" => Status' = "ENROLLED" /\ Author(op) # "talebe"
    BY <2>1, <2>3 DEF Becomes, Author, Approvals
  <2>. QED  BY <2>1, <2>4, <2>5 DEF RecordStep
<1>2. SameSeat => RecordStep
  BY SameStatus DEF RecordStep
<1>3. ASSUME NEW r \in Requests, InsertSeat(r) \/ RemoveSeat(r), ~SameSeat PROVE RecordStep
  BY <1>3, InsertIs, RemovalIs DEF RecordStep
<1>4. BanChanges \/ UNCHANGED enrollmentVars => SameSeat
  BY DEF BanChanges, enrollmentVars, SameSeat
<1>. QED  BY <1>1, <1>2, <1>3, <1>4, OthersLeaveSeat DEF EnrollmentNext

(* A completion is only reopened, by the team, and a removal only approved *)
(* back, by the team or for a partner: every write is conditioned on the   *)
(* status its request read.                                                *)
THEOREM RecordsAreKept == EnrollmentSpec => RecordsStand
<1>1. SeatInv /\ [EnrollmentNext]_enrollmentVars => [RecordStep]_enrollmentVars
  BY NextRecords
<1>. QED  BY <1>1, SeatInvHolds, PTL DEF EnrollmentSpec, RecordsStand, RecordStep

-----------------------------------------------------------------------------
(* The requests implement SharedSeat. *)

SharedStep == [Shared!SharedNext]_(Shared!sharedVars)

Tasks == [r \in Requests |-> TaskNow(r)]

Others(r) == \A q \in Requests \ {r} : TaskNow(q)' = TaskNow(q)
SameStanding == Status' = Status /\ by' = by

(* A request keeps what it knows of the ban and who it is.                 *)
RequestGoesOn(r) ==
    /\ request[r].pc # "idle" /\ request'[r].pc # "idle"
    /\ request'[r].since = request[r].since
    /\ Who(r)' = Who(r)

LEMMA InitShared == EnrollmentInit => Shared!SharedInit
<1>. SUFFICES ASSUME EnrollmentInit PROVE Shared!SharedInit
  OBVIOUS
<1>1. Status = "NONE" /\ by = "talebe" /\ banned = FALSE
  BY DEF EnrollmentInit, Status
<1>2. ASSUME NEW r \in Requests PROVE TaskNow(r) = Shared!NoTask
  <2>1. request[r] = Idle
    BY DEF EnrollmentInit
  <2>2. request[r].pc = "idle"
    BY <2>1 DEF Idle
  <2>3. Who(r) = "none" /\ AnswerOf(r) = "none"
    BY <2>2 DEF Who, AnswerOf
  <2>. QED  BY <2>2, <2>3 DEF TaskNow, Shared!NoTask
<1>. QED  BY <1>1, <1>2 DEF Shared!SharedInit

LEMMA TaskFields ==
    ASSUME NEW r \in Requests
    PROVE  /\ Tasks[r] = TaskNow(r)
           /\ TaskNow(r).who = Who(r) /\ TaskNow(r).answer = AnswerOf(r)
           /\ TaskNow(r).free = (request[r].pc # "idle" /\ Free(r))
BY DEF Tasks, TaskNow

LEMMA TasksMove ==
    ASSUME NEW r \in Requests, Others(r)
    PROVE  Tasks' = [Tasks EXCEPT ![r] = TaskNow(r)']
BY DEF Tasks, Others

(* One request moves and the others do not.                                *)
LEMMA OneGoes ==
    ASSUME SeatInv, NEW r \in Requests, NEW s, Goes(r, s), UNCHANGED <<banned, bans>>
    PROVE  request'[r] = s /\ Others(r)
<1>1. request' = [request EXCEPT ![r] = s] /\ request \in [Requests -> RequestStates]
  BY DEF Goes, SeatInv, SeatTypeOK
<1>2. request'[r] = s
  BY <1>1
<1>3. ASSUME NEW q \in Requests \ {r} PROVE TaskNow(q)' = TaskNow(q)
  <2>1. request'[q] = request[q]
    BY <1>1
  <2>. QED  BY <2>1 DEF TaskNow, Who, AnswerOf, Free
<1>. QED  BY <1>2, <1>3 DEF Others

LEMMA CanEnd ==
    ASSUME NEW r \in Requests, Others(r), SameStanding, banned' = banned,
           request'[r].pc = "idle"
    PROVE  SharedStep
<1>1. Who(r)' = "none" /\ AnswerOf(r)' = "none"
  BY DEF Who, AnswerOf
<1>2. TaskNow(r)' = Shared!NoTask
  BY <1>1 DEF TaskNow, Shared!NoTask
<1>3. Shared!Ends(r)
  BY <1>2, TasksMove DEF Shared!Ends, Tasks, Shared!SameSeating, SameStanding
<1>. QED  BY <1>3 DEF SharedStep, Shared!SharedNext

LEMMA CanCall ==
    ASSUME NEW r \in Requests, Others(r), SameStanding, banned' = banned, bans' = bans,
           request[r] = Idle, request'[r].pc # "idle", request'[r].since = bans,
           Who(r)' \in {"talebe", "team", "put", "delete"}, AnswerOf(r)' = "none"
    PROVE  SharedStep
<1>1. Who(r) = "none" /\ AnswerOf(r) = "none" /\ request[r].pc = "idle"
  BY DEF Who, AnswerOf, Idle
<1>2. TaskNow(r) = Shared!NoTask
  BY <1>1 DEF TaskNow, Shared!NoTask
<1>3. (request'[r].pc # "idle" /\ Free(r)') = ~banned
  BY DEF Free
<1>4. TaskNow(r)' = [who |-> Who(r)', free |-> ~banned, answer |-> "none"]
  BY <1>3 DEF TaskNow
<1>. DEFINE who == Who(r)'
<1>5. Shared!Calls(r, who)
  BY <1>2, <1>4, TasksMove, TaskFields DEF Shared!Calls, Tasks, Shared!SameSeating, SameStanding
<1>. QED  BY <1>5 DEF SharedStep, Shared!SharedNext

LEMMA CanStay ==
    ASSUME NEW r \in Requests, Others(r), SameStanding, UNCHANGED <<banned, bans>>, RequestGoesOn(r),
           AnswerOf(r)' = AnswerOf(r)
    PROVE  SharedStep
<1>1. TaskNow(r)' = TaskNow(r)
  BY DEF TaskNow, RequestGoesOn, Free
<1>2. Tasks' = Tasks
  BY <1>1 DEF Tasks, Others
<1>. QED  BY <1>2 DEF SharedStep, Shared!sharedVars, SameStanding, Tasks

LEMMA CanTell ==
    ASSUME NEW r \in Requests, Others(r), UNCHANGED <<banned, bans>>, RequestGoesOn(r),
           AnswerOf(r) = "none", NEW answer, AnswerOf(r)' = answer
    PROVE  Shared!Told(r, answer)
<1>1. (request'[r].pc # "idle" /\ Free(r)') = (request[r].pc # "idle" /\ Free(r))
  BY DEF RequestGoesOn, Free
<1>2. TaskNow(r)' = [TaskNow(r) EXCEPT !.answer = answer]
  BY <1>1 DEF TaskNow, RequestGoesOn
<1>. QED  BY <1>2, TasksMove, TaskFields DEF Shared!Told, Tasks

LEMMA CanSeat ==
    ASSUME NEW r \in Requests, Others(r), UNCHANGED <<banned, bans>>, RequestGoesOn(r),
           Who(r) = "put", AnswerOf(r) = "none", AnswerOf(r)' = "seated",
           \/ /\ Status \in {"NONE", "PENDING", "REVOKED"} /\ Free(r)
              /\ Status' = "ENROLLED" /\ by' = "partner"
           \/ Status \in {"ENROLLED", "COMPLETED"} /\ SameStanding
    PROVE  SharedStep
<1>1. Shared!Told(r, "seated")
  BY CanTell
<1>2. Shared!Registers(r)
  BY <1>1, TaskFields DEF Shared!Registers, Tasks, RequestGoesOn, Shared!SameSeating, SameStanding
<1>. QED  BY <1>2 DEF SharedStep, Shared!SharedNext

LEMMA CanRefuse ==
    ASSUME NEW r \in Requests, Others(r), UNCHANGED <<banned, bans>>, RequestGoesOn(r), SameStanding,
           Who(r) = "put", AnswerOf(r) = "none", AnswerOf(r)' = "refused",
           banned \/ Status \in {"NONE", "PENDING", "REVOKED"}
    PROVE  SharedStep
<1>1. Shared!Told(r, "refused")
  BY CanTell
<1>2. Shared!IsRefused(r)
  BY <1>1, TaskFields DEF Shared!IsRefused, Tasks, Shared!SameSeating, SameStanding
<1>. QED  BY <1>2 DEF SharedStep, Shared!SharedNext

LEMMA CanCancel ==
    ASSUME NEW r \in Requests, Others(r), UNCHANGED <<banned, bans>>, RequestGoesOn(r),
           Who(r) = "delete", AnswerOf(r) = "none", AnswerOf(r)' = "removed",
           \/ Status = "ENROLLED" /\ Status' = "REVOKED" /\ by' = "partner"
           \/ Status \in {"NONE", "REVOKED"} /\ SameStanding
    PROVE  SharedStep
<1>1. Shared!Told(r, "removed")
  BY CanTell
<1>2. Shared!Cancels(r)
  BY <1>1, TaskFields DEF Shared!Cancels, Tasks, Shared!SameSeating, SameStanding
<1>. QED  BY <1>2 DEF SharedStep, Shared!SharedNext

LEMMA CanDecide ==
    ASSUME NEW r \in Requests, Others(r), UNCHANGED <<banned, bans>>,
           request[r].pc # "idle", request'[r].pc = "idle", Who(r) \in {"talebe", "team"},
           <<Status, Status'>> \in Shared!Moves[Who(r)], by' = Who(r),
           Status' \in {"NONE", "ENROLLED", "PENDING", "COMPLETED", "REVOKED"},
           Who(r) = "talebe" \/ Status' = "ENROLLED" => Free(r)
    PROVE  SharedStep
<1>1. Who(r)' = "none" /\ AnswerOf(r)' = "none"
  BY DEF Who, AnswerOf
<1>2. TaskNow(r)' = Shared!NoTask
  BY <1>1 DEF TaskNow, Shared!NoTask
<1>. DEFINE to == Status'
<1>3. Shared!Decides(r, to)
  BY <1>2, TasksMove, TaskFields DEF Shared!Decides, Tasks
<1>. QED  BY <1>3 DEF SharedStep, Shared!SharedNext

-----------------------------------------------------------------------------
(* Step by step: the talebe's and the team's requests. *)

LEMMA Named ==
    ASSUME NEW r \in Requests
    PROVE  /\ request[r].op \in {"enroll", "leave", "progress"} /\ request[r].pc # "idle"
                  => Who(r) = "talebe"
           /\ request[r].op \in {"approve", "reject", "complete", "reopen", "remove"}
                     /\ request[r].pc # "idle" => Who(r) = "team"
           /\ request[r].op \in {"give", "place"} /\ request[r].pc # "idle" => Who(r) = "put"
           /\ request[r].op = "delete" /\ request[r].pc # "idle" => Who(r) = "delete"
BY DEF Who, OwnOps, Author

(* Who a request is for is a matter of its operation.                      *)
LEMMA SameOp ==
    ASSUME NEW r \in Requests, request[r].pc # "idle", request'[r].pc # "idle",
           request'[r].since = request[r].since,
           \/ request'[r].op = request[r].op
           \/ {request'[r].op, request[r].op} \subseteq {"give", "place"}
    PROVE  RequestGoesOn(r)
BY DEF RequestGoesOn, Who, OwnOps

LEMMA PcAnswer ==
    ASSUME NEW r \in Requests
    PROVE  /\ request[r].pc \notin {"mark", "link", "refused", "after", "close"}
                  => AnswerOf(r) = "none"
           /\ request[r].pc \in {"mark", "link"} => AnswerOf(r) = "seated"
           /\ request[r].pc = "refused" => AnswerOf(r) = "refused"
           /\ request[r].pc = "after" => AnswerOf(r) = "removed"
           /\ request[r].pc = "close" /\ request[r].gone => AnswerOf(r) = "removed"
           /\ request[r].pc = "close" /\ ~request[r].gone => AnswerOf(r) = "none"
BY DEF AnswerOf

LEMMA PcAnswerNext ==
    ASSUME NEW r \in Requests
    PROVE  /\ request'[r].pc \notin {"mark", "link", "refused", "after", "close"}
                  => AnswerOf(r)' = "none"
           /\ request'[r].pc \in {"mark", "link"} => AnswerOf(r)' = "seated"
           /\ request'[r].pc = "refused" => AnswerOf(r)' = "refused"
           /\ request'[r].pc = "after" => AnswerOf(r)' = "removed"
           /\ request'[r].pc = "close" /\ request'[r].gone => AnswerOf(r)' = "removed"
           /\ request'[r].pc = "close" /\ ~request'[r].gone => AnswerOf(r)' = "none"
BY DEF AnswerOf

LEMMA NamedNext ==
    ASSUME NEW r \in Requests, request'[r].op \in Ops, request'[r].pc # "idle"
    PROVE  Who(r)' \in {"talebe", "team", "put", "delete"}
BY DEF Who, Ops, OwnOps, Author

LEMMA BeginsIs ==
    ASSUME SeatInv, NEW r \in Requests, NEW state \in RequestStates, Begins(r, state),
           SameSeat, UNCHANGED <<banned, bans>>, state.pc # "idle",
           state.pc \notin {"mark", "link", "refused", "after"},
           state.pc = "close" => ~state.gone
    PROVE  SharedStep
<1>. DEFINE s == [state EXCEPT !.since = bans]
<1>1. /\ s.since = bans /\ s.pc = state.pc /\ s.op = state.op /\ s.gone = state.gone
      /\ state.op \in Ops
  BY DEF RequestStates
<1>2. Goes(r, s) /\ request[r] = Idle
  BY DEF Begins
<1>. HIDE DEF s
<1>3. request'[r] = s /\ Others(r)
  BY <1>2, OneGoes
<1>4. AnswerOf(r)' = "none" /\ Who(r)' \in {"talebe", "team", "put", "delete"}
  BY <1>1, <1>3, PcAnswerNext, NamedNext
<1>. QED  BY <1>1, <1>2, <1>3, <1>4, CanCall, SameStatus DEF SameStanding

LEMMA BeginningsShare ==
    ASSUME SeatInv, NEW r \in Requests,
           \/ ApproveBegins(r)
           \/ \E op \in OwnOps : AsksFirst(r, op) \/ ReadsFirst(r, op)
           \/ \E l \in Registrations : PutBegins(r, l) \/ DeleteBegins(r, l)
    PROVE  SharedStep
<1>1. UNCHANGED <<banned, bans>> /\ SameSeat
  BY DEF ApproveBegins, AsksFirst, ReadsFirst, PutBegins, DeleteBegins, SameLinks
<1>2. CASE ApproveBegins(r)
  <2>. DEFINE s == [Idle EXCEPT !.pc = "approve", !.op = "approve"]
  <2>1. s \in RequestStates /\ s.pc = "approve"
    BY IdleType DEF RequestStates, Idle, Ops, OwnOps
  <2>. QED  BY <1>1, <1>2, <2>1, BeginsIs DEF ApproveBegins
<1>3. ASSUME NEW op \in OwnOps, AsksFirst(r, op) PROVE SharedStep
  <2>. DEFINE s == [Idle EXCEPT !.pc = "read", !.op = op]
  <2>1. s \in RequestStates /\ s.pc = "read"
    BY IdleType DEF RequestStates, Idle, Ops
  <2>. QED  BY <1>1, <1>3, <2>1, BeginsIs DEF AsksFirst
<1>4. ASSUME NEW op \in OwnOps, ReadsFirst(r, op) PROVE SharedStep
  <2>. DEFINE pc == IF op = "reopen" THEN "ban" ELSE "write"
              s == [Idle EXCEPT !.pc = pc, !.op = op, !.expects = Status]
  <2>1. pc \in {"ban", "write"} /\ Status \in Statuses \cup {"NONE"}
    BY StatusType DEF SeatInv
  <2>2. Begins(r, s)
    BY <1>4 DEF ReadsFirst
  <2>. HIDE DEF pc
  <2>3. s \in RequestStates /\ s.pc = pc
    BY <2>1, IdleType DEF RequestStates, Idle, Ops
  <2>. HIDE DEF s
  <2>. QED  BY <1>1, <2>1, <2>2, <2>3, BeginsIs
<1>5. ASSUME NEW l \in Registrations, PutBegins(r, l) PROVE SharedStep
  <2>. DEFINE pc == IF link[l] = NoLink THEN "claim" ELSE "seat"
              closed == link[l] # NoLink /\ ~IsOpen(l)
              s == [Idle EXCEPT !.pc = pc, !.op = "place", !.reg = l, !.closed = closed]
  <2>1. pc \in {"claim", "seat"} /\ closed \in BOOLEAN
    OBVIOUS
  <2>2. Begins(r, s)
    BY <1>5 DEF PutBegins
  <2>. HIDE DEF pc, closed
  <2>3. s \in RequestStates /\ s.pc = pc
    BY <2>1, IdleType DEF RequestStates, Idle, Ops, PutSteps
  <2>. HIDE DEF s
  <2>. QED  BY <1>1, <2>1, <2>2, <2>3, BeginsIs
<1>6. ASSUME NEW l \in Registrations, DeleteBegins(r, l) PROVE SharedStep
  <2>. DEFINE pc == IF link[l].owns # 0 THEN "verdict" ELSE "close"
              s == [Idle EXCEPT !.pc = pc, !.op = "delete", !.reg = l, !.at = link[l].owns]
  <2>1. pc \in {"verdict", "close"}
    OBVIOUS
  <2>2. Begins(r, s) /\ link[l] # NoLink
    BY <1>6 DEF DeleteBegins, IsOpen
  <2>3. link[l].owns \in Stamps
    BY <2>2, LinkThere DEF SeatInv, Links
  <2>. HIDE DEF pc
  <2>4. s \in RequestStates /\ s.pc = pc /\ ~s.gone
    BY <2>1, <2>3, IdleType DEF RequestStates, Idle, Ops, DeleteSteps
  <2>. HIDE DEF s
  <2>. QED  BY <1>1, <2>1, <2>2, <2>4, BeginsIs
<1>. QED  BY <1>2, <1>3, <1>4, <1>5, <1>6

LEMMA EndsShare ==
    ASSUME SeatInv, NEW r \in Requests, Goes(r, Idle), SameSeat, UNCHANGED <<banned, bans>>
    PROVE  SharedStep
<1>1. request'[r] = Idle /\ Others(r)
  BY OneGoes
<1>2. request'[r].pc = "idle"
  BY <1>1 DEF Idle
<1>. QED  BY <1>1, <1>2, CanEnd, SameStatus DEF SameStanding

(* A request that goes to another step, keeping its other fields.          *)
LEMMA PcGoes ==
    ASSUME SeatInv, NEW r \in Requests, NEW pc \in SeatPcs \ {"idle"}, GoesTo(r, pc),
           request[r].pc # "idle", UNCHANGED <<banned, bans>>
    PROVE  /\ Others(r) /\ RequestGoesOn(r)
           /\ request'[r].pc = pc /\ request'[r].op = request[r].op
           /\ request'[r].gone = request[r].gone
<1>. DEFINE s == [request[r] EXCEPT !.pc = pc]
<1>1. request[r] \in RequestStates
  BY DEF SeatInv, SeatTypeOK
<1>2. s.pc = pc /\ s.op = request[r].op /\ s.since = request[r].since /\ s.gone = request[r].gone
  BY <1>1 DEF RequestStates
<1>3. Goes(r, s)
  BY DEF GoesTo
<1>. HIDE DEF s
<1>4. request'[r] = s /\ Others(r)
  BY <1>3, OneGoes
<1>. QED  BY <1>2, <1>4, SameOp

LEMMA StaysShare ==
    ASSUME SeatInv, NEW r \in Requests, NEW pc \in SeatPcs \ {"idle"}, GoesTo(r, pc), SameSeat,
           request[r].pc # "idle", UNCHANGED <<banned, bans>>,
           request[r].pc \notin {"mark", "link", "refused", "after", "close"},
           pc \notin {"mark", "link", "refused", "after", "close"}
    PROVE  SharedStep
<1>1. Others(r) /\ RequestGoesOn(r) /\ request'[r].pc = pc
  BY PcGoes
<1>2. AnswerOf(r)' = "none" /\ AnswerOf(r) = "none"
  BY <1>1, PcAnswer, PcAnswerNext
<1>. QED  BY <1>1, <1>2, CanStay, SameStatus DEF SameStanding

LEMMA SeatedShare ==
    ASSUME SeatInv, NEW r \in Requests, NEW pc \in {"mark", "link"}, GoesTo(r, pc), SameSeat,
           request[r].pc # "idle", UNCHANGED <<banned, bans>>, OfPut(r),
           request[r].pc \notin {"mark", "link", "refused", "after", "close"},
           Status \in {"ENROLLED", "COMPLETED"}
    PROVE  SharedStep
<1>1. Others(r) /\ RequestGoesOn(r) /\ request'[r].pc = pc
  BY PcGoes DEF SeatPcs, PutSteps
<1>2. AnswerOf(r)' = "seated" /\ AnswerOf(r) = "none" /\ Who(r) = "put"
  BY <1>1, PcAnswer, PcAnswerNext, Named DEF OfPut
<1>. QED  BY <1>1, <1>2, CanSeat, SameStatus DEF SameStanding

LEMMA RefusedShare ==
    ASSUME SeatInv, NEW r \in Requests, GoesTo(r, "refused"), SameSeat,
           request[r].pc # "idle", UNCHANGED <<banned, bans>>, OfPut(r),
           request[r].pc \notin {"mark", "link", "refused", "after", "close"},
           banned \/ Status \in {"NONE", "PENDING", "REVOKED"}
    PROVE  SharedStep
<1>1. Others(r) /\ RequestGoesOn(r) /\ request'[r].pc = "refused"
  BY PcGoes DEF SeatPcs, PutSteps
<1>2. AnswerOf(r)' = "refused" /\ AnswerOf(r) = "none" /\ Who(r) = "put"
  BY <1>1, PcAnswer, PcAnswerNext, Named DEF OfPut
<1>. QED  BY <1>1, <1>2, CanRefuse, SameStatus DEF SameStanding

LEMMA StateErrorShares ==
    ASSUME SeatInv, NEW r \in Requests, StateError(r), SameSeat, UNCHANGED <<banned, bans>>,
           request[r].pc \in {"approve", "lost"}
    PROVE  SharedStep
<1>1. CASE OfPut(r)
  <2>1. \E pc \in {"place", "settle"} : GoesTo(r, pc)
    BY <1>1 DEF StateError
  <2>. QED  BY <2>1, StaysShare DEF SeatPcs, PutSteps
<1>. QED  BY <1>1, EndsShare DEF StateError

(* What an approval, the team's or a PUT's, reads and asks.                *)
LEMMA ApprovalShares ==
    ASSUME SeatInv, NEW r \in Requests,
           \/ ApproveReads(r) \/ AskBan(r) \/ LostRace(r) \/ RequestDies(r)
           \/ \E op \in {"enroll", "leave"} : ReadsFor(r, op)
    PROVE  SharedStep
<1>. DEFINE q == request[r]
<1>0. q \in RequestStates /\ Good(q, link, bans, banned)
  BY DEF SeatInv, SeatTypeOK
<1>1. UNCHANGED <<banned, bans>> /\ SameSeat
  BY DEF ApproveReads, AskBan, LostRace, RequestDies, ReadsFor, SameLinks
<1>2. CASE RequestDies(r)
  BY <1>1, <1>2, EndsShare DEF RequestDies
<1>3. ASSUME NEW pc \in {"ban", "write"}, NEW expects, Goes(r, [q EXCEPT !.pc = pc, !.expects = expects]),
             q.pc \in {"read", "approve"}
      PROVE  SharedStep
  <2>. DEFINE s == [q EXCEPT !.pc = pc, !.expects = expects]
  <2>1. s.pc = pc /\ s.op = q.op /\ s.since = q.since
    BY <1>0 DEF RequestStates
  <2>2. Goes(r, s)
    BY <1>3
  <2>. HIDE DEF s
  <2>3. request'[r] = s /\ Others(r)
    BY <1>1, <2>2, OneGoes
  <2>4. AnswerOf(r)' = "none" /\ AnswerOf(r) = "none"
    BY <1>3, <2>1, <2>3, PcAnswer, PcAnswerNext
  <2>. QED  BY <1>1, <1>3, <2>1, <2>3, <2>4, SameOp, CanStay, SameStatus DEF SameStanding
<1>4. ASSUME NEW op \in {"enroll", "leave"}, ReadsFor(r, op) PROVE SharedStep
  BY <1>1, <1>3, <1>4, EndsShare DEF ReadsFor
<1>5. CASE ApproveReads(r)
  <2>1. q.pc = "approve"
    BY <1>5 DEF ApproveReads
  <2>2. CASE StateError(r)
    BY <1>1, <2>1, <2>2, StateErrorShares
  <2>3. CASE Status = "ENROLLED" /\ Answers(r)
    BY <1>1, <2>1, <2>3, SeatedShare, EndsShare DEF Answers
  <2>4. CASE Goes(r, [q EXCEPT !.pc = "ban", !.expects = Status])
    BY <1>3, <2>1, <2>4
  <2>. QED  BY <1>5, <2>2, <2>3, <2>4 DEF ApproveReads
<1>6. CASE AskBan(r)
  <2>1. q.pc = "ban"
    BY <1>6 DEF AskBan
  <2>2. CASE GoesTo(r, "write")
    BY <1>1, <2>1, <2>2, StaysShare DEF SeatPcs
  <2>3. CASE banned /\ OfPut(r) /\ GoesTo(r, "refused")
    BY <1>1, <2>1, <2>3, RefusedShare
  <2>. QED  BY <1>1, <1>6, <2>2, <2>3, EndsShare DEF AskBan, Bars
<1>7. CASE LostRace(r)
  <2>1. q.pc = "lost" /\ OfPut(r)
    BY <1>0, <1>7 DEF LostRace, OfPut, Good, AsRead, PutSteps
  <2>2. CASE Status = "ENROLLED" /\ GoesTo(r, "mark")
    BY <1>1, <2>1, <2>2, SeatedShare
  <2>3. CASE StateError(r)
    BY <1>1, <2>1, <2>3, StateErrorShares
  <2>. QED  BY <1>7, <2>2, <2>3 DEF LostRace
<1>. QED  BY <1>2, <1>4, <1>5, <1>6, <1>7

(* The write is the instant at which the seat changes.                     *)
LEMMA WriteShares ==
    ASSUME SeatInv, NEW r \in Requests, WriteStatus(r)
    PROVE  SharedStep
<1>. DEFINE q == request[r]  op == q.op
<1>1. UNCHANGED <<banned, bans>> /\ q.pc = "write"
  BY DEF WriteStatus, SameLinks
<1>2. Good(q, link, bans, banned) /\ q \in RequestStates
  BY DEF SeatInv, Good
<1>3. CASE SameSeat
  <2>1. CASE OfPut(r) /\ GoesTo(r, "lost")
    BY <1>1, <1>3, <2>1, StaysShare DEF SeatPcs, PutSteps
  <2>2. CASE Goes(r, Idle)
    BY <1>1, <1>3, <2>2, EndsShare
  <2>3. ASSUME NEW status, WriteSeat(status, Author(op)) PROVE FALSE
    <3>1. stamp' = stamp + 1 /\ stamp' = stamp /\ stamp \in Nat
      BY <1>3, <2>3, StampIsNat DEF WriteSeat, SameSeat, seatVars, SeatInv, SeatTypeOK
    <3>. QED  BY <3>1
  <2>. QED  BY <2>1, <2>2, <2>3 DEF WriteStatus
<1>4. CASE ~SameSeat
  <2>1. /\ Status = q.expects /\ Answers(r) /\ Status' \in Becomes(op, Status)
        /\ Status' # Status => by' = Author(op)
        /\ Status' = Status => by' = by
    BY <1>4, WriteIs
  <2>2. CASE OfPut(r)
    <3>1. GoesTo(r, "mark") /\ op \in {"give", "place"}
      BY <2>1, <2>2 DEF Answers, OfPut
    <3>2. /\ Others(r) /\ RequestGoesOn(r) /\ request'[r].pc = "mark"
      BY <1>1, <3>1, PcGoes DEF SeatPcs, PutSteps
    <3>3. AnswerOf(r)' = "seated" /\ AnswerOf(r) = "none" /\ Who(r) = "put"
      BY <1>1, <3>1, <3>2, PcAnswer, PcAnswerNext, Named
    <3>4. /\ Status \in {"PENDING", "REVOKED"} /\ Status' = "ENROLLED" /\ by' = "partner"
      BY <1>1, <1>2, <2>1, <3>1 DEF Good, AsRead, Becomes, Author
    <3>5. Free(r)
      BY <1>1, <1>2, <3>1 DEF Good, AskedIn, HasAsked, Approvals, Free
    <3>. QED  BY <1>1, <3>2, <3>3, <3>4, <3>5, CanSeat
  <2>3. CASE ~OfPut(r)
    <3>1. request'[r] = Idle /\ Others(r)
      BY <1>1, <2>1, <2>3, OneGoes DEF Answers
    <3>2. request'[r].pc = "idle"
      BY <3>1 DEF Idle
    <3>3. CASE op = "progress"
      <4>1. Status' = Status
        BY <2>1, <3>3 DEF Becomes
      <4>. QED  BY <1>1, <2>1, <3>1, <3>2, <4>1, CanEnd DEF SameStanding
    <3>4. CASE op # "progress"
      <4>1. \/ op = "enroll" /\ Status = "NONE" /\ Status' \in {"PENDING", "ENROLLED"}
            \/ op = "leave" /\ Status \in {"PENDING", "ENROLLED"} /\ Status' = "NONE"
            \/ op = "reject" /\ Status = "PENDING" /\ Status' = "NONE"
            \/ op = "complete" /\ Status = "ENROLLED" /\ Status' = "COMPLETED"
            \/ op = "remove" /\ Status = "ENROLLED" /\ Status' = "REVOKED"
            \/ op = "reopen" /\ Status = "COMPLETED" /\ Status' = "ENROLLED"
            \/ op = "approve" /\ Status \in {"PENDING", "REVOKED"} /\ Status' = "ENROLLED"
        BY <1>1, <1>2, <2>1, <2>3, <3>4 DEF Good, AsRead, Becomes, OfPut, Approvals
      <4>2. by' = Author(op)
        BY <2>1, <4>1
      <4>3. Who(r) = Author(op) /\ Who(r) = (IF op \in {"enroll", "leave"} THEN "talebe" ELSE "team")
        BY <1>1, <4>1, Named DEF Author
      <4>4. op \in {"enroll", "leave", "reopen", "approve"} => Free(r)
        BY <1>1, <1>2 DEF Good, AskedIn, HasAsked, Approvals, Free
      <4>5. <<Status, Status'>> \in Shared!Moves[Who(r)]
        BY <4>1, <4>3 DEF Shared!Moves
      <4>6. Who(r) = "talebe" \/ Status' = "ENROLLED" => Free(r)
        BY <4>1, <4>3, <4>4
      <4>7. /\ Status' \in {"NONE", "ENROLLED", "PENDING", "COMPLETED", "REVOKED"}
            /\ Who(r) \in {"talebe", "team"}
        BY <4>1, <4>3
      <4>. QED  BY <1>1, <3>1, <3>2, <4>2, <4>3, <4>5, <4>6, <4>7, CanDecide
    <3>. QED  BY <3>3, <3>4
  <2>. QED  BY <2>2, <2>3
<1>. QED  BY <1>3, <1>4

-----------------------------------------------------------------------------
(* Step by step: PUT and DELETE. *)

(* A step that changes fields SharedSeat does not see.                     *)
LEMMA FieldsShare ==
    ASSUME SeatInv, NEW r \in Requests, NEW s, Goes(r, s), SameSeat, UNCHANGED <<banned, bans>>,
           request[r].pc # "idle", s.pc # "idle", s.since = request[r].since,
           \/ s.op = request[r].op
           \/ {s.op, request[r].op} \subseteq {"give", "place"},
           \/ /\ request[r].pc \notin {"mark", "link", "refused", "after", "close"}
              /\ \/ s.pc \notin {"mark", "link", "refused", "after", "close"}
                 \/ s.pc = "close" /\ ~s.gone
           \/ request[r].pc = "mark" /\ s.pc = "link"
           \/ request[r].pc = "after" /\ s.pc = "close" /\ s.gone
    PROVE  SharedStep
<1>1. request'[r] = s /\ Others(r)
  BY OneGoes
<1>2. RequestGoesOn(r)
  BY <1>1, SameOp
<1>3. AnswerOf(r)' = AnswerOf(r)
  BY <1>1, PcAnswer, PcAnswerNext
<1>. QED  BY <1>1, <1>2, <1>3, CanStay, SameStatus DEF SameStanding

LEMMA PutReadsShare ==
    ASSUME SeatInv, NEW r \in Requests,
           ClaimLink(r) \/ SeatReads(r) \/ ReadRemovals(r) \/ ReadMade(r)
    PROVE  SharedStep
<1>. DEFINE q == request[r]
<1>0. q \in RequestStates
  BY DEF SeatInv, SeatTypeOK
<1>1. UNCHANGED <<banned, bans>> /\ SameSeat
  BY DEF ClaimLink, SeatReads, ReadRemovals, ReadMade, SameLinks
<1>2. CASE ClaimLink(r)
  <2>. DEFINE l == q.reg
              inserted == link[l] = NoLink
              closed == link[l] # NoLink /\ ~IsOpen(l)
              s == [q EXCEPT !.pc = "seat", !.inserted = inserted, !.closed = closed]
  <2>1. Goes(r, s) /\ q.pc = "claim"
    BY <1>2 DEF ClaimLink
  <2>. HIDE DEF inserted, closed
  <2>2. s.pc = "seat" /\ s.op = q.op /\ s.since = q.since
    BY <1>0 DEF RequestStates
  <2>. HIDE DEF s
  <2>. QED  BY <1>1, <2>1, <2>2, FieldsShare
<1>3. CASE SeatReads(r)
  <2>1. q.pc = "seat"
    BY <1>3 DEF SeatReads
  <2>2. CASE Goes(r, [q EXCEPT !.pc = "removals", !.at = held.updated])
    <3>. DEFINE s == [q EXCEPT !.pc = "removals", !.at = held.updated]
    <3>1. s.pc = "removals" /\ s.op = q.op /\ s.since = q.since
      BY <1>0 DEF RequestStates
    <3>. QED  BY <1>1, <2>1, <2>2, <3>1, FieldsShare
  <2>3. CASE GoesTo(r, "place")
    BY <1>1, <2>1, <2>3, StaysShare DEF SeatPcs, PutSteps
  <2>. QED  BY <1>3, <2>2, <2>3 DEF SeatReads
<1>4. CASE ReadRemovals(r)
  <2>1. q.pc = "removals"
    BY <1>4 DEF ReadRemovals
  <2>2. PICK pc \in {"barred", "place"} : Goes(r, [q EXCEPT !.at = 0, !.pc = pc])
    BY <1>4 DEF ReadRemovals
  <2>. DEFINE s == [q EXCEPT !.at = 0, !.pc = pc]
  <2>3. s.pc = pc /\ s.op = q.op /\ s.since = q.since
    BY <1>0 DEF RequestStates
  <2>. QED  BY <1>1, <2>1, <2>2, <2>3, FieldsShare
<1>5. CASE ReadMade(r)
  <2>. DEFINE n == IF held = NoSeat THEN 0 ELSE held.born
              s == [q EXCEPT !.pc = "link", !.at = n]
  <2>1. Goes(r, s) /\ q.pc = "mark"
    BY <1>5 DEF ReadMade
  <2>. HIDE DEF n
  <2>2. s.pc = "link" /\ s.op = q.op /\ s.since = q.since
    BY <1>0 DEF RequestStates
  <2>. HIDE DEF s
  <2>. QED  BY <1>1, <2>1, <2>2, FieldsShare
<1>. QED  BY <1>2, <1>3, <1>4, <1>5

(* What a PUT is told of the seat it looks at.                             *)
LEMMA SettlesShares ==
    ASSUME SeatInv, NEW r \in Requests, Settles(r), SameSeat, UNCHANGED <<banned, bans>>,
           request[r].pc \in {"held", "conflict"}, Status # "NONE"
    PROVE  SharedStep
<1>1. OfPut(r)
  BY DEF SeatInv, Good, AsRead, PutSteps, OfPut
<1>2. CASE Status = "PENDING"
  <2>1. GoesTo(r, "approve")
    BY <1>2 DEF Settles
  <2>. QED  BY <2>1, StaysShare DEF SeatPcs
<1>3. CASE Status = "REVOKED"
  <2>1. GoesTo(r, "refused")
    BY <1>3 DEF Settles
  <2>. QED  BY <1>1, <1>3, <2>1, RefusedShare
<1>4. CASE Status \in {"ENROLLED", "COMPLETED"}
  <2>1. GoesTo(r, "link")
    BY <1>4 DEF Settles
  <2>. QED  BY <1>1, <1>4, <2>1, SeatedShare
<1>. QED  BY <1>2, <1>3, <1>4, StatusType DEF SeatInv, Statuses

LEMMA PutLooksShare ==
    ASSUME SeatInv, NEW r \in Requests,
           AskBarred(r) \/ ReadHeld(r) \/ ReadConflict(r) \/ Settle(r)
    PROVE  SharedStep
<1>. DEFINE q == request[r]
<1>0. q \in RequestStates
  BY DEF SeatInv, SeatTypeOK
<1>1. UNCHANGED <<banned, bans>> /\ SameSeat
  BY DEF AskBarred, ReadHeld, ReadConflict, Settle, SameLinks
<1>2. q.pc \in {"barred", "place", "held", "conflict", "settle"}
  BY DEF AskBarred, ReadHeld, ReadConflict, Settle
<1>3. OfPut(r)
  BY <1>2 DEF SeatInv, Good, AsRead, PutSteps, OfPut
<1>4. CASE AskBarred(r)
  <2>1. CASE banned /\ GoesTo(r, "refused")
    BY <1>1, <1>2, <1>3, <2>1, RefusedShare
  <2>2. ASSUME NEW pc \in {"approve", "held"}, NEW op \in {"give", "place"},
               Goes(r, [q EXCEPT !.pc = pc, !.op = op])
        PROVE  SharedStep
    <3>. DEFINE s == [q EXCEPT !.pc = pc, !.op = op]
    <3>1. s.pc = pc /\ s.op = op /\ s.since = q.since
      BY <1>0 DEF RequestStates
    <3>2. Goes(r, s)
      BY <2>2
    <3>. HIDE DEF s
    <3>. QED  BY <1>1, <1>2, <1>3, <3>1, <3>2, FieldsShare DEF OfPut
  <2>. QED  BY <1>4, <2>1, <2>2 DEF AskBarred
<1>5. CASE ReadHeld(r)
  <2>1. CASE GoesTo(r, "insert")
    BY <1>1, <1>2, <2>1, StaysShare DEF SeatPcs, PutSteps
  <2>2. CASE Status # "NONE" /\ Settles(r)
    BY <1>1, <1>5, <2>2, SettlesShares DEF ReadHeld
  <2>. QED  BY <1>5, <2>1, <2>2 DEF ReadHeld
<1>6. CASE ReadConflict(r)
  <2>1. CASE Status = "NONE" /\ GoesTo(r, "refused")
    BY <1>1, <1>2, <1>3, <2>1, RefusedShare
  <2>2. CASE Status = "ENROLLED" /\ GoesTo(r, "mark")
    BY <1>1, <1>2, <1>3, <2>2, SeatedShare
  <2>3. CASE Status # "NONE" /\ Settles(r)
    BY <1>1, <1>6, <2>3, SettlesShares DEF ReadConflict
  <2>. QED  BY <1>6, <2>1, <2>2, <2>3 DEF ReadConflict
<1>7. CASE Settle(r)
  <2>1. CASE Status \in {"ENROLLED", "COMPLETED"} /\ GoesTo(r, "link")
    BY <1>1, <1>2, <1>3, <2>1, SeatedShare
  <2>2. CASE Status \notin {"ENROLLED", "COMPLETED"} /\ GoesTo(r, "refused")
    <3>1. Status \in {"NONE", "PENDING", "REVOKED"}
      BY <2>2, StatusType DEF SeatInv, Statuses
    <3>. QED  BY <1>1, <1>2, <1>3, <2>2, <3>1, RefusedShare
  <2>. QED  BY <1>7, <2>1, <2>2 DEF Settle
<1>. QED  BY <1>4, <1>5, <1>6, <1>7

LEMMA InsertShares ==
    ASSUME SeatInv, NEW r \in Requests, InsertSeat(r)
    PROVE  SharedStep
<1>. DEFINE q == request[r]
<1>1. UNCHANGED <<banned, bans>> /\ q.pc = "insert" /\ Good(q, link, bans, banned)
  BY DEF InsertSeat, SameLinks, SeatInv
<1>2. q.op \in {"give", "place"}
  BY <1>1 DEF Good, AsRead, PutSteps
<1>3. CASE SameSeat
  <2>1. CASE GoesTo(r, "conflict")
    BY <1>1, <1>3, <2>1, StaysShare DEF SeatPcs, PutSteps
  <2>2. CASE WriteSeat("ENROLLED", "partner")
    <3>1. stamp' = stamp + 1 /\ stamp' = stamp /\ stamp \in Nat
      BY <1>3, <2>2, StampIsNat DEF WriteSeat, SameSeat, seatVars, SeatInv, SeatTypeOK
    <3>. QED  BY <3>1
  <2>. QED  BY <2>1, <2>2 DEF InsertSeat
<1>4. CASE ~SameSeat
  <2>1. Status = "NONE" /\ Status' = "ENROLLED" /\ by' = "partner" /\ GoesTo(r, "mark")
    BY <1>4, InsertIs
  <2>2. Others(r) /\ RequestGoesOn(r) /\ request'[r].pc = "mark"
    BY <1>1, <2>1, PcGoes DEF SeatPcs, PutSteps
  <2>3. AnswerOf(r)' = "seated" /\ AnswerOf(r) = "none" /\ Who(r) = "put"
    BY <1>1, <1>2, <2>2, PcAnswer, PcAnswerNext, Named
  <2>4. Free(r)
    BY <1>1 DEF Good, AskedIn, HasAsked, Free
  <2>. QED  BY <1>1, <2>1, <2>2, <2>3, <2>4, CanSeat
<1>. QED  BY <1>3, <1>4

LEMMA RefusalShares ==
    ASSUME SeatInv, NEW r \in Requests, PutRefused(r)
    PROVE  SharedStep
<1>1. SameSeat /\ UNCHANGED <<banned, bans>>
  BY DEF PutRefused
<1>2. CASE Goes(r, Idle)
  BY <1>1, <1>2, EndsShare
<1>3. CASE request' = [q \in Requests |->
                          IF q = r THEN Idle ELSE Forgets(q, request[r].reg)]
  <2>1. request'[r] = Idle
    BY <1>3
  <2>2. request'[r].pc = "idle"
    BY <2>1 DEF Idle
  <2>3. ASSUME NEW q \in Requests \ {r} PROVE TaskNow(q)' = TaskNow(q)
    <3>. DEFINE t == Forgets(q, request[r].reg)
    <3>1. request[q] \in RequestStates
      BY DEF SeatInv, SeatTypeOK
    <3>2. /\ t.pc = request[q].pc /\ t.op = request[q].op
          /\ t.since = request[q].since /\ t.gone = request[q].gone
      BY <3>1 DEF Forgets, RequestStates
    <3>3. request'[q] = t
      BY <1>3
    <3>. HIDE DEF t
    <3>. QED  BY <1>1, <3>2, <3>3 DEF TaskNow, Who, AnswerOf, Free
  <2>. QED  BY <1>1, <2>2, <2>3, CanEnd, SameStatus DEF Others, SameStanding
<1>. QED  BY <1>2, <1>3 DEF PutRefused

(* DELETE: the seat is taken, or found gone, at the read that says so.     *)
LEMMA ClosesShare ==
    ASSUME SeatInv, NEW r \in Requests, NEW n, NEW gone \in BOOLEAN, Closes(r, gone, n),
           SameSeat, UNCHANGED <<banned, bans>>, request[r].pc \in {"verdict", "redecide"},
           gone => SeatGone
    PROVE  SharedStep
<1>. DEFINE q == request[r]
            s == [q EXCEPT !.pc = "close", !.gone = gone, !.at = n]
<1>1. q \in RequestStates /\ q.op = "delete"
  BY DEF SeatInv, SeatTypeOK, Good, AsRead, DeleteSteps
<1>2. s.pc = "close" /\ s.op = q.op /\ s.since = q.since /\ s.gone = gone
  BY <1>1 DEF RequestStates
<1>3. Goes(r, s)
  BY DEF Closes
<1>. HIDE DEF s
<1>4. CASE ~gone
  BY <1>2, <1>3, <1>4, FieldsShare
<1>5. CASE gone
  <2>1. request'[r] = s /\ Others(r)
    BY <1>3, OneGoes
  <2>2. RequestGoesOn(r)
    BY <1>2, <2>1, SameOp
  <2>3. AnswerOf(r)' = "removed" /\ AnswerOf(r) = "none" /\ Who(r) = "delete"
    BY <1>1, <1>2, <1>5, <2>1, PcAnswer, PcAnswerNext, Named
  <2>. QED  BY <1>5, <2>1, <2>2, <2>3, CanCancel, SameStatus DEF SameStanding, SeatGone
<1>. QED  BY <1>4, <1>5

LEMMA DeleteReadsShare ==
    ASSUME SeatInv, NEW r \in Requests, ReadVerdict(r) \/ ReadOther(r) \/ ReadAfter(r)
    PROVE  SharedStep
<1>. DEFINE q == request[r]
<1>1. UNCHANGED <<banned, bans>> /\ SameSeat /\ q \in RequestStates
  BY DEF ReadVerdict, ReadOther, ReadAfter, SameLinks, SeatInv, SeatTypeOK
<1>2. SeatGone \in BOOLEAN
  BY DEF SeatGone
<1>3. CASE ReadVerdict(r)
  BY <1>1, <1>2, <1>3, ClosesShare, StaysShare DEF ReadVerdict, SeatPcs, DeleteSteps
<1>4. CASE ReadOther(r)
  <2>1. ASSUME NEW l \in Registrations, Goes(r, [q EXCEPT !.pc = "handover", !.to = l])
        PROVE  SharedStep
    <3>. DEFINE s == [q EXCEPT !.pc = "handover", !.to = l]
    <3>1. s.pc = "handover" /\ s.op = q.op /\ s.since = q.since
      BY <1>1 DEF RequestStates
    <3>. QED  BY <1>1, <1>4, <2>1, <3>1, FieldsShare DEF ReadOther
  <2>. QED  BY <1>1, <1>4, <2>1, StaysShare DEF ReadOther, SeatPcs, DeleteSteps
<1>5. CASE ReadAfter(r)
  <2>1. CASE q.pc = "redecide" /\ Closes(r, SeatGone, 0)
    BY <1>1, <1>2, <2>1, ClosesShare
  <2>2. CASE q.pc = "after" /\ \E n : Closes(r, TRUE, n)
    <3>1. PICK n : Closes(r, TRUE, n)
      BY <2>2
    <3>. DEFINE s == [q EXCEPT !.pc = "close", !.gone = TRUE, !.at = n]
    <3>2. s.pc = "close" /\ s.op = q.op /\ s.since = q.since /\ s.gone = TRUE
      BY <1>1 DEF RequestStates
    <3>3. Goes(r, s)
      BY <3>1 DEF Closes
    <3>. HIDE DEF s
    <3>. QED  BY <1>1, <2>2, <3>2, <3>3, FieldsShare
  <2>. QED  BY <1>5, <2>1, <2>2 DEF ReadAfter
<1>. QED  BY <1>3, <1>4, <1>5

LEMMA RemovalShares ==
    ASSUME SeatInv, NEW r \in Requests, RemoveSeat(r)
    PROVE  SharedStep
<1>. DEFINE q == request[r]
<1>1. UNCHANGED <<banned, bans>> /\ q.pc = "remove" /\ Good(q, link, bans, banned)
  BY DEF RemoveSeat, SameLinks, SeatInv
<1>2. q.op = "delete"
  BY <1>1 DEF Good, AsRead, DeleteSteps
<1>3. CASE SameSeat
  <2>1. CASE GoesTo(r, "redecide")
    BY <1>1, <1>3, <2>1, StaysShare DEF SeatPcs, DeleteSteps
  <2>2. CASE WriteSeat("REVOKED", "partner")
    <3>1. stamp' = stamp + 1 /\ stamp' = stamp /\ stamp \in Nat
      BY <1>3, <2>2, StampIsNat DEF WriteSeat, SameSeat, seatVars, SeatInv, SeatTypeOK
    <3>. QED  BY <3>1
  <2>. QED  BY <2>1, <2>2 DEF RemoveSeat
<1>4. CASE ~SameSeat
  <2>1. Status = "ENROLLED" /\ Status' = "REVOKED" /\ by' = "partner" /\ GoesTo(r, "after")
    BY <1>4, RemovalIs
  <2>2. Others(r) /\ RequestGoesOn(r) /\ request'[r].pc = "after"
    BY <1>1, <2>1, PcGoes DEF SeatPcs, DeleteSteps
  <2>3. AnswerOf(r)' = "removed" /\ AnswerOf(r) = "none" /\ Who(r) = "delete"
    BY <1>1, <1>2, <2>2, PcAnswer, PcAnswerNext, Named
  <2>. QED  BY <1>1, <2>1, <2>2, <2>3, CanCancel
<1>. QED  BY <1>3, <1>4

LEMMA Freed ==
    ASSUME NEW who, NEW free, NEW answer, NEW yes
    PROVE  [[who |-> who, free |-> free, answer |-> answer] EXCEPT !.free = yes] =
               [who |-> who, free |-> yes, answer |-> answer]
OBVIOUS

LEMMA BanShares == ASSUME SeatInv, BanChanges PROVE SharedStep
<1>1. /\ bans' = bans + 1 /\ banned' = ~banned /\ request' = request
      /\ SameStanding /\ banned \in BOOLEAN
  BY SameStatus DEF BanChanges, SeatInv, SeatTypeOK, SameStanding
<1>2. ASSUME NEW r \in Requests
      PROVE  TaskNow(r)' = [TaskNow(r) EXCEPT !.free = TaskNow(r) # Shared!NoTask]
  <2>. DEFINE working == TaskNow(r) # Shared!NoTask
  <2>1. Who(r)' = Who(r) /\ AnswerOf(r)' = AnswerOf(r)
    BY <1>1 DEF Who, AnswerOf
  <2>2. request[r].since \in Nat /\ request[r].since <= bans /\ bans \in Nat
    BY DEF SeatInv, Good, AskedIn, RequestStates, SeatTypeOK
  <2>3. request[r].since # bans'
    BY <1>1, <2>2
  <2>4. working = (request[r].pc # "idle")
    <3>1. CASE request[r].pc = "idle"
      <4>1. Who(r) = "none" /\ AnswerOf(r) = "none"
        BY <3>1 DEF Who, AnswerOf
      <4>. QED  BY <3>1, <4>1 DEF TaskNow, Shared!NoTask
    <3>2. CASE request[r].pc # "idle"
      <4>1. request[r].op \in Ops
        BY DEF SeatInv, Good, RequestStates
      <4>2. Who(r) # "none"
        BY <3>2, <4>1 DEF Who, Ops, OwnOps, Author
      <4>. QED  BY <3>2, <4>2, TaskFields DEF Shared!NoTask
    <3>. QED  BY <3>1, <3>2
  <2>5. (request'[r].pc # "idle" /\ Free(r)') = working
    BY <1>1, <2>3, <2>4 DEF Free
  <2>. HIDE DEF working
  <2>6. TaskNow(r)' = [who |-> Who(r), free |-> working, answer |-> AnswerOf(r)]
    BY <2>1, <2>5 DEF TaskNow
  <2>7. [TaskNow(r) EXCEPT !.free = working] =
            [who |-> Who(r), free |-> working, answer |-> AnswerOf(r)]
    BY Freed DEF TaskNow
  <2>. QED  BY <2>6, <2>7 DEF working
<1>3. Shared!BanMoves
  BY <1>1, <1>2 DEF Shared!BanMoves, Shared!SameSeating, SameStanding
<1>. QED  BY <1>3 DEF SharedStep, Shared!SharedNext

LEMMA NextShared == ASSUME SeatInv, [EnrollmentNext]_enrollmentVars PROVE SharedStep
<1>1. ASSUME NEW r \in Requests, OwnStep(r) PROVE SharedStep
  BY <1>1, BeginningsShare, ApprovalShares, WriteShares DEF OwnStep
<1>2. ASSUME NEW r \in Requests, PutStep(r) PROVE SharedStep
  <2>1. CASE MarkLink(r)
    BY <2>1, EndsShare DEF MarkLink
  <2>. QED  BY <1>2, <2>1, BeginningsShare, PutReadsShare, PutLooksShare, InsertShares,
               RefusalShares DEF PutStep
<1>3. ASSUME NEW r \in Requests, DeleteStep(r) PROVE SharedStep
  <2>1. CASE HandOver(r) \/ CloseLink(r)
    BY <2>1, EndsShare DEF HandOver, CloseLink
  <2>. QED  BY <1>3, <2>1, BeginningsShare, DeleteReadsShare, RemovalShares DEF DeleteStep
<1>4. ASSUME NEW r \in Requests, RequestDies(r) PROVE SharedStep
  BY <1>4, ApprovalShares
<1>5. CASE UNCHANGED enrollmentVars
  <2>1. \A r \in Requests : TaskNow(r)' = TaskNow(r)
    BY <1>5 DEF enrollmentVars, TaskNow, Who, AnswerOf, Free
  <2>2. SameStanding /\ banned' = banned
    BY <1>5, SameStatus DEF enrollmentVars, SameSeat, SameStanding
  <2>. QED  BY <2>1, <2>2 DEF SharedStep, Shared!sharedVars, SameStanding
<1>. QED  BY <1>1, <1>2, <1>3, <1>4, <1>5, BanShares DEF EnrollmentNext

(* However requests and bans overlap, and wherever one dies, each changes  *)
(* the seat at one instant and by the rules of SharedSeat: the conditioned *)
(* write makes of a decision taken on a stale read a decision of the       *)
(* instant of the write.                                                   *)
THEOREM SeatImplementsShared == EnrollmentSpec => SeatIsShared
<1>1. SeatInv /\ [EnrollmentNext]_enrollmentVars =>
          [Shared!SharedNext]_(Shared!sharedVars)
  BY NextShared DEF SharedStep
<1>. QED  BY <1>1, InitShared, SeatInvHolds, PTL DEF EnrollmentSpec, SeatIsShared, Shared!SharedSpec
=============================================================================
