--------------------------- MODULE LessonInvitations ---------------------------
(***************************************************************************)
(* Calendar invitations (apps/tedrisat/src/lesson-invitation): the sweeps  *)
(* of the tedrisat instances e-mail each talebe a REQUEST for the sessions *)
(* that belong in their calendar and a CANCEL for those that no longer do, *)
(* and keep in lesson_invitations the last message of each pair of a       *)
(* session and a talebe.                                                   *)
(*                                                                         *)
(* A step is one statement of the database or one message given to the     *)
(* mail server. Time, length and titles of a session are one value, a      *)
(* version; a version's time is far ahead, within the horizon, or past.    *)
(***************************************************************************)
EXTENDS Naturals, FiniteSets

CONSTANTS
    Pairs,            \* a session and a talebe with a seat in its course
    Versions,         \* what a session's time, length and titles may be
    Sweepers,         \* instances of tedrisat
    NoRow, NoDue,
    MaxChanges,       \* bound: changes of the world around the sweeps
    InvitationFaults  \* subset of {"crash", "lostAnswer", "store"}

ASSUME InvitationAssumption ==
    /\ MaxChanges \in Nat
    /\ NoRow \notin [seq : Nat, says : Versions, cancelled : BOOLEAN]

VARIABLES
    row,       \* lesson_invitations
    seat,      \* "held": SHOULD_HOLD but for the time; "left"; "deleted"
    live,      \* the version each session has now
    when,      \* "far", "near" or "past": each version's time
    mailable,  \* the pairs whose talebe may be e-mailed
    changes,   \* how many changes there have been
    sweep,     \* the round of each instance
    sent,      \* the messages the mail server took for delivery
    refused    \* the messages it refused for good

worldVars == <<seat, live, when, mailable, changes>>
invitationVars == <<row, worldVars, sweep, sent, refused>>

Rows == [seq : Nat, says : Versions, cancelled : BOOLEAN]
Methods == {"CANCEL", "REQUEST"}

(* What a query returned: the pair, the row's sequence as last (none, or   *)
(* one more than it: 0 stands for null), and what the message is to say.   *)
Dues == [pair : Pairs, last : Nat, says : Versions]

SweepStates ==
    [pc : {"idle", "next", "claim", "send", "undo", "stop"}, method : Methods,
     todo : SUBSET Dues, due : Dues \cup {NoDue}, previous : Rows \cup {NoRow}]

Rest == [pc |-> "idle", method |-> "CANCEL", todo |-> {},
         due |-> NoDue, previous |-> NoRow]

(* One type invariant for the module.                                      *)
InvitationTypeOK ==
    /\ row \in [Pairs -> Rows \cup {NoRow}]
    /\ seat \in [Pairs -> {"held", "left", "deleted"}]
    /\ live \in [Pairs -> Versions]
    /\ when \in [Versions -> {"far", "near", "past"}]
    /\ mailable \in SUBSET Pairs
    /\ changes \in 0..MaxChanges
    /\ sweep \in [Sweepers -> SweepStates]
    /\ sent \in [Pairs -> SUBSET Rows]
    /\ refused \in [Pairs -> SUBSET Rows]

InvitationInit ==
    /\ row = [p \in Pairs |-> NoRow]
    /\ seat \in [Pairs -> {"held", "left"}]
    /\ live \in [Pairs -> Versions]
    /\ when \in [Versions -> {"far", "near"}]
    /\ mailable \in SUBSET Pairs
    /\ changes = 0
    /\ sweep = [i \in Sweepers |-> Rest]
    /\ sent = [p \in Pairs |-> {}]
    /\ refused = [p \in Pairs |-> {}]

-----------------------------------------------------------------------------
(* What is owed. *)

Standing(p) == row[p] # NoRow /\ ~row[p].cancelled

(* SHOULD_HOLD.                                                            *)
ShouldHold(p) == seat[p] = "held" /\ when[live[p]] # "past"

(* Fault for TLC: a session that moved is not news to who has it.          *)
NewOwed(p) == ShouldHold(p) /\ p \in mailable /\ ~Standing(p) /\ when[live[p]] = "near"

RequestOwed(p) ==
    /\ ShouldHold(p) /\ p \in mailable
    /\ IF Standing(p) THEN row[p].says # live[p] ELSE when[live[p]] = "near"

(* Fault for TLC: a cancelled event is cancelled again.                    *)
CancelAgain(p) ==
    /\ row[p] # NoRow /\ when[row[p].says] # "past"
    /\ p \in mailable /\ ~ShouldHold(p)

CancelOwed(p) ==
    /\ Standing(p) /\ when[row[p].says] # "past"
    /\ p \in mailable
    /\ ~ShouldHold(p)

LastOf(r) == IF r = NoRow THEN 0 ELSE r.seq + 1
DueOf(p, version) == [pair |-> p, last |-> LastOf(row[p]), says |-> version]

(* unchanged: the row still has the sequence that was read.                *)
Unchanged(p, last) == LastOf(row[p]) = last

-----------------------------------------------------------------------------
(* A round. *)

GoTo(i, state) ==
    sweep' = [sweep EXCEPT ![i] = state] /\ UNCHANGED <<worldVars>>

(* findCancellationsDue, the first query of round.                         *)
FindCancellations(i) ==
    /\ sweep[i].pc = "idle"
    /\ GoTo(i, [Rest EXCEPT !.pc = "next",
                   !.todo = {DueOf(p, row[p].says) : p \in {q \in Pairs : CancelOwed(q)}}])
    /\ UNCHANGED <<row, sent, refused>>

(* findRequestsDue, once the cancellations are out.                        *)
FindRequests(i) ==
    /\ sweep[i].pc = "next" /\ sweep[i].todo = {} /\ sweep[i].method = "CANCEL"
    /\ GoTo(i, [Rest EXCEPT !.pc = "next", !.method = "REQUEST",
                   !.todo = {DueOf(p, live[p]) : p \in {q \in Pairs : RequestOwed(q)}}])
    /\ UNCHANGED <<row, sent, refused>>

(* Fault for TLC: prune every row whose session is gone.                   *)
AnyOrphan(p) == seat[p] = "deleted"

Prunable(p) ==
    /\ seat[p] = "deleted"
    /\ row[p] # NoRow => row[p].cancelled \/ when[row[p].says] = "past"

(* pruneOrphans, the end of the round.                                     *)
PruneOrphans(i) ==
    /\ sweep[i].pc = "next" /\ sweep[i].todo = {} /\ sweep[i].method = "REQUEST"
    /\ row' = [p \in Pairs |-> IF Prunable(p) THEN NoRow ELSE row[p]]
    /\ GoTo(i, Rest)
    /\ UNCHANGED <<sent, refused>>

(* deliver begins: find reads the row to come back to.                     *)
FindPrevious(i) ==
    /\ sweep[i].pc = "next"
    /\ \E due \in sweep[i].todo :
           GoTo(i, [sweep[i] EXCEPT !.pc = "claim", !.todo = @ \ {due},
                       !.due = due, !.previous = row[due.pair]])
    /\ UNCHANGED <<row, sent, refused>>

Message(s) ==
    [seq |-> s.due.last, says |-> s.due.says, cancelled |-> s.method = "CANCEL"]

Forward(s) == [s EXCEPT !.pc = "next", !.due = NoDue, !.previous = NoRow]

(* claimCancel keeps what the row said; claimRequest writes what is due.   *)
Claimed(s) ==
    IF s.method = "CANCEL"
    THEN [Message(s) EXCEPT !.says = row[s.due.pair].says]
    ELSE Message(s)

(* The row says what is about to be sent, or another sweep was first.      *)
Claim(i) ==
    LET s == sweep[i] IN
    /\ s.pc = "claim"
    /\ IF Unchanged(s.due.pair, s.due.last)
       THEN /\ row' = [row EXCEPT ![s.due.pair] = Claimed(s)]
            /\ GoTo(i, [s EXCEPT !.pc = "send"])
       ELSE GoTo(i, Forward(s)) /\ UNCHANGED row
    /\ UNCHANGED <<sent, refused>>

Send(i) ==
    LET s == sweep[i] IN
    /\ s.pc = "send"
    /\ sent' = [sent EXCEPT ![s.due.pair] = @ \cup {Message(s)}]
    /\ GoTo(i, Forward(s))
    /\ UNCHANGED <<row, refused>>

(* Refused for good, or no bare address: the claim stands.                 *)
Refuse(i) ==
    LET s == sweep[i] IN
    /\ s.pc = "send"
    /\ refused' = [refused EXCEPT ![s.due.pair] = @ \cup {Message(s)}]
    /\ GoTo(i, Forward(s))
    /\ UNCHANGED <<row, sent>>

(* deferred: the claim is undone and the round goes on. failed: it stops.  *)
(* With "lostAnswer" the message went out all the same.                    *)
SendFails(i) ==
    LET s == sweep[i] IN
    /\ s.pc = "send"
    /\ \E pc \in {"undo", "stop"} : GoTo(i, [s EXCEPT !.pc = pc])
    /\ \/ UNCHANGED sent
       \/ "lostAnswer" \in InvitationFaults
          /\ sent' = [sent EXCEPT ![s.due.pair] = @ \cup {Message(s)}]
    /\ UNCHANGED <<row, refused>>

(* Fault for TLC: restore that always deletes.                             *)
NoPrevious(s) == IF s.due = NoDue THEN s.previous ELSE NoRow

Previous(s) == s.previous

(* restore; its own failure is logged and the claim left.                  *)
Restore(i) ==
    LET s == sweep[i] IN
    /\ s.pc \in {"undo", "stop"}
    /\ \/ /\ Unchanged(s.due.pair, s.due.last + 1)
          /\ row' = [row EXCEPT ![s.due.pair] = Previous(s)]
       \/ /\ ~Unchanged(s.due.pair, s.due.last + 1) \/ "store" \in InvitationFaults
          /\ UNCHANGED row
    /\ GoTo(i, IF s.pc = "undo" THEN Forward(s) ELSE Rest)
    /\ UNCHANGED <<sent, refused>>

(* A query of the round throws (run's catch), or the instance dies. A      *)
(* message given to the server may have gone out.                          *)
RoundEnds(i) ==
    LET s == sweep[i] IN
    /\ \/ s.pc \in {"next", "claim"} /\ "store" \in InvitationFaults
       \/ s.pc # "idle" /\ "crash" \in InvitationFaults
    /\ \/ UNCHANGED sent
       \/ s.pc = "send" /\ sent' = [sent EXCEPT ![s.due.pair] = @ \cup {Message(s)}]
    /\ GoTo(i, Rest)
    /\ UNCHANGED <<row, refused>>

-----------------------------------------------------------------------------
(* The world: courses, seats, bans, posts, the talebe, the clock. *)

Changed ==
    /\ changes < MaxChanges
    /\ changes' = changes + 1
    /\ UNCHANGED <<row, sweep, sent, refused>>

SeatChanges(p) ==
    /\ Changed /\ seat[p] # "deleted"
    /\ \E state \in {"held", "left", "deleted"} \ {seat[p]} :
           seat' = [seat EXCEPT ![p] = state]
    /\ UNCHANGED <<live, when, mailable>>

SessionMoves(p) ==
    /\ Changed /\ seat[p] # "deleted"
    /\ \E v \in Versions \ {live[p]} : live' = [live EXCEPT ![p] = v]
    /\ UNCHANGED <<seat, when, mailable>>

MailSwitched(p) ==
    /\ Changed
    /\ mailable' = IF p \in mailable THEN mailable \ {p} ELSE mailable \cup {p}
    /\ UNCHANGED <<seat, live, when>>

TimePasses(v) ==
    /\ Changed /\ when[v] # "past"
    /\ when' = [when EXCEPT ![v] = IF when[v] = "far" THEN "near" ELSE "past"]
    /\ UNCHANGED <<seat, live, mailable>>

Round(i) ==
    \/ FindCancellations(i) \/ FindRequests(i) \/ PruneOrphans(i)
    \/ FindPrevious(i) \/ Claim(i) \/ Send(i) \/ Refuse(i) \/ SendFails(i)
    \/ Restore(i) \/ RoundEnds(i)

World ==
    \/ \E p \in Pairs : SeatChanges(p) \/ SessionMoves(p) \/ MailSwitched(p)
    \/ \E v \in Versions : TimePasses(v)

InvitationNext == World \/ \E i \in Sweepers : Round(i)

RoundGoesOn(i) ==
    \/ FindCancellations(i) \/ FindRequests(i) \/ PruneOrphans(i)
    \/ FindPrevious(i) \/ Claim(i) \/ Restore(i)

Delivers(i) == Send(i) \/ Refuse(i)

(* kick and the timer start rounds for ever, a round goes on, and a        *)
(* message is not put off for ever.                                        *)
InvitationFairness ==
    \A i \in Sweepers :
        WF_invitationVars(RoundGoesOn(i)) /\ SF_invitationVars(Delivers(i))

InvitationSpec == InvitationInit /\ [][InvitationNext]_invitationVars

-----------------------------------------------------------------------------
(* What was told of a pair: sent, or refused by the server for good.       *)
Told(p) == sent[p] \cup refused[p]

InFlight(p) ==
    \E i \in Sweepers :
        sweep[i].pc \in {"send", "undo", "stop"} /\ sweep[i].due.pair = p

Newest(p) == CHOOSE m \in Told(p) : \A n \in Told(p) : n.seq <= m.seq

(* Unless a message is on its way, the row is the newest message that was  *)
(* sent or refused for good: a failed send leaves no trace (deliver,       *)
(* restore), for one instance that neither dies nor loses an answer.       *)
RowIsNewestTold ==
    \A p \in Pairs :
        row[p] # NoRow /\ ~InFlight(p) =>
            row[p] \in Told(p) /\ \A m \in Told(p) : m.seq <= row[p].seq

(* A message carries a higher SEQUENCE than every one before it, so that a *)
(* calendar takes it as newer (schema, RFC 5546): for one sweeping         *)
(* instance, whatever fails but the answer of a message that went out.     *)
SequencesRise ==
    [][\A p \in Pairs : \A m \in sent'[p] \ sent[p], n \in sent[p] :
           n.seq < m.seq]_invitationVars

(* A CANCEL follows the message that put the event there, by one, and says *)
(* what that said, for one sweeping instance without faults.               *)
CancelsRepeat ==
    [][\A p \in Pairs : \A m \in sent'[p] \ sent[p] :
           m.cancelled =>
               \E n \in Told(p) : ~n.cancelled /\ n.says = m.says /\ m.seq = n.seq + 1
       ]_invitationVars

Shown(p) == Told(p) # {} /\ ~Newest(p).cancelled

(* While a calendar shows a coming session the row its CANCEL is sent from *)
(* is there, the session deleted or not (schema: the sweep "sends its      *)
(* CANCEL, and only after that ... deletes the row"; pruneOrphans). For one*)
(* sweeping instance: a second one could prune between the claim of a      *)
(* CANCEL and its failed send.                                             *)
ShownIsRemembered ==
    \A p \in Pairs : Shown(p) /\ when[Newest(p).says] # "past" => row[p] # NoRow

(* What the newest message says is how things are: the session as it is    *)
(* for who should hold it, and no coming session for who should not.       *)
CalendarRight(p) ==
    p \in mailable =>
        /\ ShouldHold(p) /\ (Shown(p) \/ when[live[p]] = "near") =>
               Shown(p) /\ Newest(p).says = live[p]
        /\ ~ShouldHold(p) /\ Shown(p) => when[Newest(p).says] = "past"

(* Once the world is still, the sweeps of one instance bring every         *)
(* calendar to what it should be, however often sends fail.                *)
CalendarsSettle == \A p \in Pairs : <>[]CalendarRight(p)
=============================================================================
