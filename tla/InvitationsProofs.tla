-------------------------- MODULE InvitationsProofs --------------------------
(***************************************************************************)
(* Proofs about LessonInvitations, for any pairs, versions and changes:    *)
(* the types for any instances and faults, the rest for one instance.      *)
(***************************************************************************)
EXTENDS LessonInvitations, TLAPS

-----------------------------------------------------------------------------
(* What the steps of a round do. *)

Pcs == {"idle", "next", "claim", "send", "undo", "stop"}
Working == {"claim", "send", "undo", "stop"}
Claiming == {"send", "undo", "stop"}

(* A round at a pair has its due, and a CANCEL is of a message that was.   *)
DueOK(s) ==
    /\ s.pc \in Working => s.due \in Dues
    /\ s.method = "CANCEL" =>
           /\ \A d \in s.todo : d.last > 0
           /\ s.pc = "claim" => s.due.last > 0

SweepInv == InvitationTypeOK /\ \A i \in Sweepers : DueOK(sweep[i])

LEMMA RestIs ==
    /\ Rest \in SweepStates /\ Rest.pc = "idle" /\ Rest.todo = {}
    /\ Rest.method = "CANCEL"
BY DEF Rest, SweepStates, Methods

LEMMA RowIs ==
    /\ NoRow \notin Rows /\ LastOf(NoRow) = 0
    /\ \A r \in Rows : /\ r # NoRow /\ LastOf(r) = r.seq + 1 /\ LastOf(r) \in Nat
                       /\ r.seq \in Nat /\ r.says \in Versions /\ r.cancelled \in BOOLEAN
BY InvitationAssumption DEF Rows, LastOf

LEMMA GoesOn ==
    ASSUME InvitationTypeOK, NEW i \in Sweepers, NEW state, GoTo(i, state)
    PROVE  /\ sweep'[i] = state /\ UNCHANGED worldVars
           /\ \A j \in Sweepers \ {i} : sweep'[j] = sweep[j]
           /\ state \in SweepStates => sweep' \in [Sweepers -> SweepStates]
BY DEF GoTo, InvitationTypeOK

LEMMA MoveIs ==
    ASSUME NEW s \in SweepStates, NEW pc \in Pcs
    PROVE  /\ [s EXCEPT !.pc = pc] \in SweepStates
           /\ [s EXCEPT !.pc = pc].pc = pc /\ [s EXCEPT !.pc = pc].todo = s.todo
           /\ [s EXCEPT !.pc = pc].method = s.method /\ [s EXCEPT !.pc = pc].due = s.due
           /\ [s EXCEPT !.pc = pc].previous = s.previous
BY DEF SweepStates, Pcs

LEMMA ForwardIs ==
    ASSUME NEW s \in SweepStates
    PROVE  /\ Forward(s) \in SweepStates /\ Forward(s).pc = "next"
           /\ Forward(s).todo = s.todo /\ Forward(s).method = s.method
BY DEF SweepStates, Forward

LEMMA MessageIs ==
    ASSUME NEW s \in SweepStates, s.due \in Dues
    PROVE  /\ Message(s) \in Rows /\ Message(s).seq = s.due.last
           /\ Message(s).says = s.due.says /\ Message(s).cancelled = (s.method = "CANCEL")
BY DEF Dues, Rows, Message

LEMMA DueIs ==
    ASSUME InvitationTypeOK, NEW p \in Pairs, NEW v \in Versions
    PROVE  /\ DueOf(p, v) \in Dues /\ DueOf(p, v).pair = p /\ DueOf(p, v).says = v
           /\ DueOf(p, v).last = LastOf(row[p]) /\ LastOf(row[p]) \in Nat
<1>1. LastOf(row[p]) \in Nat
  BY RowIs DEF InvitationTypeOK
<1>. QED  BY <1>1 DEF DueOf, Dues

(* What a round was told it owes.                                          *)
FoundCancels == {DueOf(p, row[p].says) : p \in {q \in Pairs : CancelOwed(q)}}
FoundRequests == {DueOf(p, live[p]) : p \in {q \in Pairs : RequestOwed(q)}}

LEMMA FindsCancels ==
    ASSUME InvitationTypeOK, NEW i \in Sweepers, FindCancellations(i)
    PROVE  /\ sweep[i].pc = "idle" /\ UNCHANGED <<row, sent, refused, worldVars>>
           /\ \A j \in Sweepers \ {i} : sweep'[j] = sweep[j]
           /\ sweep' \in [Sweepers -> SweepStates]
           /\ sweep'[i].pc = "next" /\ sweep'[i].method = "CANCEL"
           /\ sweep'[i].todo = FoundCancels
           /\ \A d \in FoundCancels :
                  CancelOwed(d.pair) /\ d = DueOf(d.pair, row[d.pair].says) /\ d \in Dues
<1>. DEFINE state == [Rest EXCEPT !.pc = "next", !.todo = FoundCancels]
<1>1. \A p \in Pairs : CancelOwed(p) => row[p] \in Rows
  BY DEF CancelOwed, Standing, InvitationTypeOK
<1>2. \A p \in Pairs : CancelOwed(p) =>
          DueOf(p, row[p].says) \in Dues /\ DueOf(p, row[p].says).pair = p
  BY <1>1, RowIs, DueIs
<1>3. \A d \in FoundCancels :
          CancelOwed(d.pair) /\ d = DueOf(d.pair, row[d.pair].says) /\ d \in Dues
  BY <1>2 DEF FoundCancels
<1>. HIDE DEF FoundCancels
<1>4. state \in SweepStates /\ state.pc = "next" /\ state.method = "CANCEL"
      /\ state.todo = FoundCancels
  BY <1>3 DEF Rest, SweepStates, Methods
<1>5. GoTo(i, state) /\ sweep[i].pc = "idle" /\ UNCHANGED <<row, sent, refused>>
  BY DEF FindCancellations, FoundCancels
<1>. HIDE DEF state
<1>. QED  BY <1>3, <1>4, <1>5, GoesOn

LEMMA FindsRequests ==
    ASSUME InvitationTypeOK, NEW i \in Sweepers, FindRequests(i)
    PROVE  /\ sweep[i].pc = "next" /\ UNCHANGED <<row, sent, refused, worldVars>>
           /\ \A j \in Sweepers \ {i} : sweep'[j] = sweep[j]
           /\ sweep' \in [Sweepers -> SweepStates]
           /\ sweep'[i].pc = "next" /\ sweep'[i].method = "REQUEST"
           /\ sweep'[i].todo = FoundRequests
           /\ \A d \in FoundRequests :
                  RequestOwed(d.pair) /\ d = DueOf(d.pair, live[d.pair]) /\ d \in Dues
<1>. DEFINE state == [Rest EXCEPT !.pc = "next", !.method = "REQUEST",
                                  !.todo = FoundRequests]
<1>1. \A p \in Pairs : DueOf(p, live[p]) \in Dues /\ DueOf(p, live[p]).pair = p
  BY DueIs DEF InvitationTypeOK
<1>2. \A d \in FoundRequests :
          RequestOwed(d.pair) /\ d = DueOf(d.pair, live[d.pair]) /\ d \in Dues
  BY <1>1 DEF FoundRequests
<1>. HIDE DEF FoundRequests
<1>3. state \in SweepStates /\ state.pc = "next" /\ state.method = "REQUEST"
      /\ state.todo = FoundRequests
  BY <1>2 DEF Rest, SweepStates, Methods
<1>4. GoTo(i, state) /\ sweep[i].pc = "next" /\ UNCHANGED <<row, sent, refused>>
  BY DEF FindRequests, FoundRequests
<1>. HIDE DEF state
<1>. QED  BY <1>2, <1>3, <1>4, GoesOn

LEMMA Prunes ==
    ASSUME InvitationTypeOK, NEW i \in Sweepers, PruneOrphans(i)
    PROVE  /\ sweep[i].pc = "next" /\ UNCHANGED <<sent, refused, worldVars>>
           /\ \A j \in Sweepers \ {i} : sweep'[j] = sweep[j]
           /\ sweep' \in [Sweepers -> SweepStates] /\ sweep'[i] = Rest
           /\ \A p \in Pairs : row'[p] = IF Prunable(p) THEN NoRow ELSE row[p]
           /\ row' \in [Pairs -> Rows \cup {NoRow}]
BY RestIs, GoesOn DEF PruneOrphans, InvitationTypeOK

LEMMA FindsPrevious ==
    ASSUME InvitationTypeOK, NEW i \in Sweepers, FindPrevious(i)
    PROVE  /\ sweep[i].pc = "next" /\ UNCHANGED <<row, sent, refused, worldVars>>
           /\ \A j \in Sweepers \ {i} : sweep'[j] = sweep[j]
           /\ sweep' \in [Sweepers -> SweepStates]
           /\ sweep'[i].pc = "claim" /\ sweep'[i].method = sweep[i].method
           /\ sweep'[i].due \in sweep[i].todo /\ sweep'[i].due \in Dues
           /\ sweep'[i].due.pair \in Pairs
           /\ sweep'[i].todo = sweep[i].todo \ {sweep'[i].due}
           /\ sweep'[i].previous = row[sweep'[i].due.pair]
<1>1. PICK due \in sweep[i].todo :
          GoTo(i, [sweep[i] EXCEPT !.pc = "claim", !.todo = @ \ {due},
                                   !.due = due, !.previous = row[due.pair]])
  BY DEF FindPrevious
<1>. DEFINE state == [sweep[i] EXCEPT !.pc = "claim", !.todo = @ \ {due},
                                      !.due = due, !.previous = row[due.pair]]
<1>2. sweep[i] \in SweepStates /\ due \in Dues /\ due.pair \in Pairs
  BY DEF InvitationTypeOK, SweepStates, Dues
<1>3. row[due.pair] \in Rows \cup {NoRow}
  BY <1>2 DEF InvitationTypeOK
<1>4. state \in SweepStates /\ state.pc = "claim" /\ state.method = sweep[i].method
      /\ state.due = due /\ state.todo = sweep[i].todo \ {due}
      /\ state.previous = row[due.pair]
  BY <1>2, <1>3 DEF SweepStates
<1>5. GoTo(i, state) /\ sweep[i].pc = "next" /\ UNCHANGED <<row, sent, refused>>
  BY <1>1 DEF FindPrevious
<1>. HIDE DEF state
<1>. QED  BY <1>2, <1>4, <1>5, GoesOn

LEMMA ClaimIs ==
    ASSUME SweepInv, NEW i \in Sweepers, Claim(i)
    PROVE  LET s == sweep[i]  p == s.due.pair IN
           /\ s.pc = "claim" /\ p \in Pairs /\ s.due \in Dues
           /\ UNCHANGED <<sent, refused, worldVars>>
           /\ \A j \in Sweepers \ {i} : sweep'[j] = sweep[j]
           /\ sweep' \in [Sweepers -> SweepStates]
           /\ \/ /\ LastOf(row[p]) = s.due.last
                 /\ row' = [row EXCEPT ![p] = Claimed(s)]
                 /\ Claimed(s) \in Rows /\ Claimed(s).seq = s.due.last
                 /\ s.method = "CANCEL" => row[p] \in Rows
                 /\ sweep'[i].pc = "send" /\ sweep'[i].method = s.method
                 /\ sweep'[i].todo = s.todo /\ sweep'[i].due = s.due
                 /\ sweep'[i].previous = s.previous
              \/ /\ LastOf(row[p]) # s.due.last /\ UNCHANGED row
                 /\ sweep'[i] = Forward(s)
<1>. DEFINE s == sweep[i]  p == s.due.pair
<1>. InvitationTypeOK
  BY DEF SweepInv
<1>1. s \in SweepStates /\ s.pc = "claim" /\ s.due \in Dues
  BY DEF SweepInv, InvitationTypeOK, DueOK, Working, Claim
<1>2. p \in Pairs /\ s.due.last \in Nat
  BY <1>1 DEF Dues
<1>3. row[p] \in Rows \cup {NoRow}
  BY <1>2 DEF InvitationTypeOK
<1>4. UNCHANGED <<sent, refused>>
  BY DEF Claim
<1>5. CASE Unchanged(p, s.due.last)
  <2>1. row' = [row EXCEPT ![p] = Claimed(s)] /\ GoTo(i, [s EXCEPT !.pc = "send"])
    BY <1>5 DEF Claim
  <2>2. LastOf(row[p]) = s.due.last
    BY <1>5 DEF Unchanged
  <2>3. s.method = "CANCEL" => row[p] \in Rows
    <3>1. s.method = "CANCEL" => s.due.last > 0
      BY <1>1 DEF SweepInv, DueOK
    <3>. QED  BY <1>2, <1>3, <2>2, <3>1, RowIs
  <2>4. Claimed(s) \in Rows /\ Claimed(s).seq = s.due.last
    <3>1. Message(s) \in Rows /\ Message(s).seq = s.due.last
      BY <1>1, MessageIs
    <3>2. s.method = "CANCEL" => row[p].says \in Versions
      BY <2>3, RowIs
    <3>3. \A v \in Versions : /\ [Message(s) EXCEPT !.says = v] \in Rows
                              /\ [Message(s) EXCEPT !.says = v].seq = s.due.last
      BY <3>1 DEF Rows
    <3>. QED  BY <3>1, <3>2, <3>3 DEF Claimed
  <2>. DEFINE state == [s EXCEPT !.pc = "send"]
  <2>5. state \in SweepStates /\ state.pc = "send" /\ state.method = s.method
        /\ state.todo = s.todo /\ state.due = s.due /\ state.previous = s.previous
    BY <1>1, MoveIs DEF Pcs
  <2>. HIDE DEF state
  <2>6. GoTo(i, state)
    BY <2>1 DEF state
  <2>. QED  BY <1>1, <1>2, <1>4, <2>1, <2>2, <2>3, <2>4, <2>5, <2>6, GoesOn
<1>6. CASE ~Unchanged(p, s.due.last)
  <2>1. GoTo(i, Forward(s)) /\ UNCHANGED row
    BY <1>6 DEF Claim
  <2>2. LastOf(row[p]) # s.due.last
    BY <1>6 DEF Unchanged
  <2>. QED  BY <1>1, <1>2, <1>4, <2>1, <2>2, ForwardIs, GoesOn
<1>. QED  BY <1>5, <1>6

(* A message is added to what was told of its pair.                        *)
TellsOne(p, m) ==
    \/ sent' = [sent EXCEPT ![p] = @ \cup {m}] /\ UNCHANGED refused
    \/ refused' = [refused EXCEPT ![p] = @ \cup {m}] /\ UNCHANGED sent

LEMMA ToldIs ==
    ASSUME InvitationTypeOK
    PROVE  /\ \A p \in Pairs : Told(p) \in SUBSET Rows
           /\ UNCHANGED <<sent, refused>> => \A p : Told(p)' = Told(p)
           /\ \A p \in Pairs, m \in Rows : TellsOne(p, m) =>
                  /\ sent' \in [Pairs -> SUBSET Rows] /\ refused' \in [Pairs -> SUBSET Rows]
                  /\ \A q \in Pairs :
                         Told(q)' = IF q = p THEN Told(q) \cup {m} ELSE Told(q)
<1>. sent \in [Pairs -> SUBSET Rows] /\ refused \in [Pairs -> SUBSET Rows]
  BY DEF InvitationTypeOK
<1>1. ASSUME NEW p \in Pairs, NEW m \in Rows, TellsOne(p, m)
      PROVE  /\ sent' \in [Pairs -> SUBSET Rows] /\ refused' \in [Pairs -> SUBSET Rows]
             /\ \A q \in Pairs :
                    Told(q)' = IF q = p THEN Told(q) \cup {m} ELSE Told(q)
  <2>1. CASE sent' = [sent EXCEPT ![p] = @ \cup {m}] /\ UNCHANGED refused
    <3>1. /\ sent'[p] = sent[p] \cup {m} /\ sent[p] \cup {m} \in SUBSET Rows
          /\ \A q \in Pairs \ {p} : sent'[q] = sent[q]
      BY <2>1
    <3>2. sent' \in [Pairs -> SUBSET Rows] /\ refused' \in [Pairs -> SUBSET Rows]
      BY <2>1, <3>1
    <3>. QED  BY <2>1, <3>1, <3>2 DEF Told
  <2>2. CASE refused' = [refused EXCEPT ![p] = @ \cup {m}] /\ UNCHANGED sent
    <3>1. /\ refused'[p] = refused[p] \cup {m} /\ refused[p] \cup {m} \in SUBSET Rows
          /\ \A q \in Pairs \ {p} : refused'[q] = refused[q]
      BY <2>2
    <3>2. sent' \in [Pairs -> SUBSET Rows] /\ refused' \in [Pairs -> SUBSET Rows]
      BY <2>2, <3>1
    <3>. QED  BY <2>2, <3>1, <3>2 DEF Told
  <2>. QED  BY <1>1, <2>1, <2>2 DEF TellsOne
<1>2. \A p \in Pairs : Told(p) \in SUBSET Rows
  BY DEF Told
<1>3. UNCHANGED <<sent, refused>> => \A p : Told(p)' = Told(p)
  BY DEF Told
<1>. QED  BY <1>1, <1>2, <1>3

(* The mail server's answer to a message.                                  *)
LEMMA AnswerIs ==
    ASSUME SweepInv, NEW i \in Sweepers, Send(i) \/ Refuse(i) \/ SendFails(i)
    PROVE  LET s == sweep[i]  p == s.due.pair IN
           /\ s.pc = "send" /\ p \in Pairs /\ s.due \in Dues /\ Message(s) \in Rows
           /\ UNCHANGED <<row, worldVars>>
           /\ \A j \in Sweepers \ {i} : sweep'[j] = sweep[j]
           /\ sweep' \in [Sweepers -> SweepStates]
           /\ sweep'[i].method = s.method /\ sweep'[i].todo = s.todo
           /\ \/ sweep'[i].pc = "next" /\ TellsOne(p, Message(s))
              \/ /\ sweep'[i].pc \in {"undo", "stop"}
                 /\ sweep'[i].due = s.due /\ sweep'[i].previous = s.previous
                 /\ \/ UNCHANGED <<sent, refused>>
                    \/ "lostAnswer" \in InvitationFaults /\ TellsOne(p, Message(s))
<1>. DEFINE s == sweep[i]  p == s.due.pair
<1>. InvitationTypeOK
  BY DEF SweepInv
<1>1. s \in SweepStates /\ s.pc = "send" /\ s.due \in Dues
  BY DEF SweepInv, InvitationTypeOK, DueOK, Working, Send, Refuse, SendFails
<1>2. p \in Pairs /\ Message(s) \in Rows
  BY <1>1, MessageIs DEF Dues
<1>3. UNCHANGED row
  BY DEF Send, Refuse, SendFails
<1>4. CASE Send(i) \/ Refuse(i)
  <2>1. GoTo(i, Forward(s)) /\ TellsOne(p, Message(s))
    BY <1>4 DEF Send, Refuse, TellsOne
  <2>. QED  BY <1>1, <1>2, <1>3, <2>1, ForwardIs, GoesOn
<1>5. CASE SendFails(i)
  <2>1. PICK pc \in {"undo", "stop"} : GoTo(i, [s EXCEPT !.pc = pc])
    BY <1>5 DEF SendFails
  <2>2. \/ UNCHANGED <<sent, refused>>
        \/ "lostAnswer" \in InvitationFaults /\ TellsOne(p, Message(s))
    BY <1>5 DEF SendFails, TellsOne
  <2>. DEFINE state == [s EXCEPT !.pc = pc]
  <2>3. state \in SweepStates /\ state.pc = pc /\ state.method = s.method
        /\ state.todo = s.todo /\ state.due = s.due /\ state.previous = s.previous
    <3>1. pc \in Pcs
      BY DEF Pcs
    <3>. QED  BY <1>1, <3>1, MoveIs
  <2>. HIDE DEF state
  <2>4. GoTo(i, state)
    BY <2>1 DEF state
  <2>. QED  BY <1>1, <1>2, <1>3, <2>2, <2>3, <2>4, GoesOn
<1>. QED  BY <1>4, <1>5

LEMMA RestoreIs ==
    ASSUME SweepInv, NEW i \in Sweepers, Restore(i)
    PROVE  LET s == sweep[i]  p == s.due.pair IN
           /\ s.pc \in {"undo", "stop"} /\ p \in Pairs /\ s.due \in Dues
           /\ s.previous \in Rows \cup {NoRow}
           /\ UNCHANGED <<sent, refused, worldVars>>
           /\ \A j \in Sweepers \ {i} : sweep'[j] = sweep[j]
           /\ sweep' \in [Sweepers -> SweepStates]
           /\ sweep'[i] = Rest \/ sweep'[i] = Forward(s)
           /\ \/ row' = [row EXCEPT ![p] = s.previous]
              \/ /\ UNCHANGED row
                 /\ LastOf(row[p]) # s.due.last + 1 \/ "store" \in InvitationFaults
<1>. DEFINE s == sweep[i]  p == s.due.pair
<1>. InvitationTypeOK
  BY DEF SweepInv
<1>1. /\ s \in SweepStates /\ s.pc \in {"undo", "stop"} /\ s.due \in Dues
      /\ s.previous \in Rows \cup {NoRow}
  BY DEF SweepInv, InvitationTypeOK, DueOK, Working, Restore, SweepStates
<1>2. p \in Pairs
  BY <1>1 DEF Dues
<1>3. /\ UNCHANGED <<sent, refused>>
      /\ GoTo(i, Rest) \/ GoTo(i, Forward(s))
      /\ \/ row' = [row EXCEPT ![p] = s.previous]
         \/ /\ UNCHANGED row
            /\ LastOf(row[p]) # s.due.last + 1 \/ "store" \in InvitationFaults
  BY DEF Restore, Previous, Unchanged
<1>. QED  BY <1>1, <1>2, <1>3, RestIs, ForwardIs, GoesOn

LEMMA EndIs ==
    ASSUME SweepInv, NEW i \in Sweepers, RoundEnds(i)
    PROVE  LET s == sweep[i]  p == s.due.pair IN
           /\ UNCHANGED <<row, worldVars>> /\ sweep'[i] = Rest
           /\ \A j \in Sweepers \ {i} : sweep'[j] = sweep[j]
           /\ sweep' \in [Sweepers -> SweepStates]
           /\ \/ s.pc \in {"next", "claim"} /\ "store" \in InvitationFaults
              \/ "crash" \in InvitationFaults
           /\ \/ UNCHANGED <<sent, refused>>
              \/ /\ s.pc = "send" /\ p \in Pairs /\ s.due \in Dues /\ Message(s) \in Rows
                 /\ TellsOne(p, Message(s))
<1>. DEFINE s == sweep[i]  p == s.due.pair
<1>. InvitationTypeOK
  BY DEF SweepInv
<1>1. s.pc = "send" => s \in SweepStates /\ s.due \in Dues
  BY DEF SweepInv, InvitationTypeOK, DueOK, Working
<1>2. s.pc = "send" => p \in Pairs /\ Message(s) \in Rows
  BY <1>1, MessageIs DEF Dues
<1>3. /\ UNCHANGED row /\ GoTo(i, Rest)
      /\ \/ s.pc \in {"next", "claim"} /\ "store" \in InvitationFaults
         \/ "crash" \in InvitationFaults
      /\ \/ UNCHANGED <<sent, refused>>
         \/ s.pc = "send" /\ TellsOne(p, Message(s))
  BY DEF RoundEnds, TellsOne
<1>. QED  BY <1>1, <1>2, <1>3, RestIs, GoesOn

-----------------------------------------------------------------------------
(* Type correctness. *)

LEMMA WorldTypes ==
    ASSUME SweepInv, World
    PROVE  SweepInv' /\ UNCHANGED <<row, sweep, sent, refused>>
<1>. InvitationTypeOK
  BY DEF SweepInv
<1>1. Changed /\ UNCHANGED <<row, sweep, sent, refused>> /\ changes' \in 0..MaxChanges
  BY InvitationAssumption
     DEF World, SeatChanges, SessionMoves, MailSwitched, TimePasses, Changed, InvitationTypeOK
<1>2. \A i \in Sweepers : DueOK(sweep[i])'
  BY <1>1 DEF SweepInv, DueOK
<1>3. /\ seat' \in [Pairs -> {"held", "left", "deleted"}]
      /\ live' \in [Pairs -> Versions]
      /\ when' \in [Versions -> {"far", "near", "past"}]
      /\ mailable' \in SUBSET Pairs
  BY DEF World, SeatChanges, SessionMoves, MailSwitched, TimePasses, InvitationTypeOK
<1>. QED  BY <1>1, <1>2, <1>3 DEF SweepInv, InvitationTypeOK

LEMMA RoundTypes ==
    ASSUME SweepInv, NEW i \in Sweepers, Round(i)
    PROVE  SweepInv'
<1>. InvitationTypeOK /\ DueOK(sweep[i])
  BY DEF SweepInv
<1>1. ASSUME UNCHANGED worldVars, \A j \in Sweepers \ {i} : sweep'[j] = sweep[j],
             sweep' \in [Sweepers -> SweepStates], DueOK(sweep[i])',
             row' \in [Pairs -> Rows \cup {NoRow}],
             sent' \in [Pairs -> SUBSET Rows] /\ refused' \in [Pairs -> SUBSET Rows]
      PROVE  SweepInv'
  <2>1. \A j \in Sweepers : DueOK(sweep[j])'
    BY <1>1 DEF SweepInv, DueOK
  <2>. QED  BY <1>1, <2>1 DEF SweepInv, InvitationTypeOK, worldVars
<1>2. /\ row \in [Pairs -> Rows \cup {NoRow}]
      /\ sent \in [Pairs -> SUBSET Rows] /\ refused \in [Pairs -> SUBSET Rows]
      /\ sweep[i] \in SweepStates
  BY DEF InvitationTypeOK
<1>3. CASE FindCancellations(i)
  <2>1. \A d \in FoundCancels : d.last > 0
    <3>. SUFFICES ASSUME NEW d \in FoundCancels PROVE d.last > 0
      OBVIOUS
    <3>1. CancelOwed(d.pair) /\ d.last = LastOf(row[d.pair]) /\ d.pair \in Pairs
      BY <1>3, FindsCancels DEF Dues, DueOf
    <3>2. row[d.pair] \in Rows
      BY <1>2, <3>1 DEF CancelOwed, Standing
    <3>. QED  BY <3>1, <3>2, RowIs
  <2>2. DueOK(sweep[i])'
    BY <1>3, <2>1, FindsCancels DEF DueOK, Working
  <2>. QED  BY <1>1, <1>2, <1>3, <2>2, FindsCancels
<1>4. CASE FindRequests(i)
  <2>1. DueOK(sweep[i])'
    BY <1>4, FindsRequests DEF DueOK, Working
  <2>. QED  BY <1>1, <1>2, <1>4, <2>1, FindsRequests
<1>5. CASE PruneOrphans(i)
  <2>1. DueOK(sweep[i])'
    BY <1>5, Prunes, RestIs DEF DueOK, Working
  <2>. QED  BY <1>1, <1>2, <1>5, <2>1, Prunes
<1>6. CASE FindPrevious(i)
  <2>1. DueOK(sweep[i])'
    BY <1>6, FindsPrevious DEF DueOK
  <2>. QED  BY <1>1, <1>2, <1>6, <2>1, FindsPrevious
<1>7. CASE Claim(i)
  <2>1. DueOK(sweep[i])'
    <3>1. DueOK(Forward(sweep[i]))
      BY <1>2, ForwardIs DEF DueOK, Working
    <3>2. CASE sweep'[i] = Forward(sweep[i])
      BY <3>1, <3>2 DEF DueOK
    <3>3. CASE sweep'[i] # Forward(sweep[i])
      BY <1>7, <3>3, ClaimIs DEF DueOK
    <3>. QED  BY <3>2, <3>3
  <2>2. row' \in [Pairs -> Rows \cup {NoRow}]
    BY <1>2, <1>7, ClaimIs
  <2>. QED  BY <1>1, <1>2, <1>7, <2>1, <2>2, ClaimIs
<1>8. CASE Send(i) \/ Refuse(i) \/ SendFails(i)
  <2>1. DueOK(sweep[i])'
    BY <1>8, AnswerIs DEF DueOK, Working
  <2>2. sent' \in [Pairs -> SUBSET Rows] /\ refused' \in [Pairs -> SUBSET Rows]
    BY <1>2, <1>8, AnswerIs, ToldIs
  <2>. QED  BY <1>1, <1>2, <1>8, <2>1, <2>2, AnswerIs
<1>9. CASE Restore(i)
  <2>1. DueOK(sweep[i])'
    <3>1. DueOK(Forward(sweep[i])) /\ DueOK(Rest)
      BY <1>2, ForwardIs, RestIs DEF DueOK, Working
    <3>. QED  BY <1>9, <3>1, RestoreIs DEF DueOK
  <2>2. row' \in [Pairs -> Rows \cup {NoRow}]
    BY <1>2, <1>9, RestoreIs
  <2>. QED  BY <1>1, <1>2, <1>9, <2>1, <2>2, RestoreIs
<1>10. CASE RoundEnds(i)
  <2>1. DueOK(sweep[i])'
    BY <1>10, EndIs, RestIs DEF DueOK, Working
  <2>2. sent' \in [Pairs -> SUBSET Rows] /\ refused' \in [Pairs -> SUBSET Rows]
    BY <1>2, <1>10, EndIs, ToldIs
  <2>. QED  BY <1>1, <1>2, <1>10, <2>1, <2>2, EndIs
<1>. QED  BY <1>3, <1>4, <1>5, <1>6, <1>7, <1>8, <1>9, <1>10 DEF Round

LEMMA InitSweep == InvitationInit => SweepInv
<1>. SUFFICES ASSUME InvitationInit PROVE SweepInv
  OBVIOUS
<1>1. \A i \in Sweepers : DueOK(sweep[i])
  BY RestIs DEF InvitationInit, DueOK, Working
<1>2. InvitationTypeOK
  BY RestIs, InvitationAssumption DEF InvitationInit, InvitationTypeOK
<1>. QED  BY <1>1, <1>2 DEF SweepInv

LEMMA NextSweep == SweepInv /\ [InvitationNext]_invitationVars => SweepInv'
<1>. SUFFICES ASSUME SweepInv, [InvitationNext]_invitationVars PROVE SweepInv'
  OBVIOUS
<1>1. CASE UNCHANGED invitationVars
  BY <1>1 DEF invitationVars, worldVars, SweepInv, InvitationTypeOK, DueOK
<1>2. CASE World
  BY <1>2, WorldTypes
<1>3. ASSUME NEW i \in Sweepers, Round(i) PROVE SweepInv'
  BY <1>3, RoundTypes
<1>. QED  BY <1>1, <1>2, <1>3 DEF InvitationNext

LEMMA SweepHolds == InvitationSpec => []SweepInv
BY InitSweep, NextSweep, PTL DEF InvitationSpec

(* Rows, messages and rounds keep their shape: a CANCEL is of a row that   *)
(* was there, so claimCancel has a row to keep the words of.               *)
THEOREM InvitationTypeCorrect == InvitationSpec => []InvitationTypeOK
<1>1. SweepInv => InvitationTypeOK
  BY DEF SweepInv
<1>. QED  BY <1>1, SweepHolds, PTL

-----------------------------------------------------------------------------
(* Sequence numbers, with one instance that may die. *)

OneSweep == \A i, j \in Sweepers : i = j
Heard == "lostAnswer" \notin InvitationFaults

Under(p, n) == \A m \in Told(p) : m.seq < n
Fresh(p) == Under(p, LastOf(row[p]))

(* A round keeps to pairs whose next number is new, and holds the row it   *)
(* may have to come back to.                                               *)
Rising(s) ==
    /\ \A d \in s.todo : Fresh(d.pair)
    /\ s.pc = "claim" => Fresh(s.due.pair) /\ s.previous = row[s.due.pair]
    /\ s.pc \in Claiming =>
           /\ LastOf(row[s.due.pair]) = s.due.last + 1
           /\ LastOf(s.previous) = s.due.last
           /\ Under(s.due.pair, s.due.last)

(* Only a pair whose session is deleted, to which nothing more is sent, is *)
(* forgotten.                                                              *)
RiseInv ==
    /\ \A i \in Sweepers : Rising(sweep[i])
    /\ \A p \in Pairs : Fresh(p) \/ (row[p] = NoRow /\ seat[p] = "deleted")

LEMMA InitRise == InvitationInit => RiseInv
<1>. SUFFICES ASSUME InvitationInit PROVE RiseInv
  OBVIOUS
<1>1. \A p \in Pairs : Fresh(p)
  BY DEF InvitationInit, Fresh, Under, Told
<1>2. \A i \in Sweepers : Rising(sweep[i])
  BY RestIs DEF InvitationInit, Rising, Claiming
<1>. QED  BY <1>1, <1>2 DEF RiseInv

(* A number that is new stays new, and a row that changes has a new one.   *)
LEMMA FreshStays ==
    ASSUME SweepInv, Heard, NEW i \in Sweepers, Rising(sweep[i]), Round(i),
           ~PruneOrphans(i), NEW q \in Pairs
    PROVE  (Fresh(q) => Fresh(q)') /\ (row'[q] = row[q] \/ Fresh(q)')
<1>. DEFINE s == sweep[i]  p == s.due.pair  n == s.due.last
<1>1. InvitationTypeOK
  BY DEF SweepInv
<1>2. row \in [Pairs -> Rows \cup {NoRow}] /\ \A m \in Told(q) : m.seq \in Nat
  BY <1>1, ToldIs, RowIs DEF InvitationTypeOK
<1>3. ASSUME row'[q] = row[q], Told(q)' = Told(q)
      PROVE  (Fresh(q) => Fresh(q)') /\ (row'[q] = row[q] \/ Fresh(q)')
  BY <1>3 DEF Fresh, Under
<1>4. ASSUME s.due \in Dues PROVE n \in Nat
  BY <1>4 DEF Dues
<1>5. CASE FindCancellations(i) \/ FindRequests(i) \/ FindPrevious(i)
  BY <1>1, <1>3, <1>5, FindsCancels, FindsRequests, FindsPrevious, ToldIs
<1>6. CASE Claim(i)
  <2>1. Told(q)' = Told(q)
    BY <1>1, <1>6, ClaimIs, ToldIs
  <2>2. CASE row'[q] = row[q]
    BY <1>3, <2>1, <2>2
  <2>3. CASE row'[q] # row[q]
    <3>1. /\ q = p /\ LastOf(row[p]) = n /\ row'[q] \in Rows /\ row'[q].seq = n
          /\ n \in Nat /\ s.pc = "claim"
      BY <1>2, <1>4, <1>6, <2>3, ClaimIs
    <3>2. LastOf(row'[q]) = n + 1
      BY <3>1, RowIs
    <3>3. Under(q, n)
      BY <3>1 DEF Rising, Fresh
    <3>4. Fresh(q)'
      BY <1>2, <2>1, <3>1, <3>2, <3>3 DEF Fresh, Under
    <3>. QED  BY <3>4
  <2>. QED  BY <2>2, <2>3
<1>7. CASE Send(i) \/ Refuse(i) \/ SendFails(i) \/ RoundEnds(i)
  <2>1. row' = row
    BY <1>7, AnswerIs, EndIs
  <2>2. CASE UNCHANGED <<sent, refused>>
    BY <1>1, <1>3, <2>1, <2>2, ToldIs
  <2>3. CASE ~UNCHANGED <<sent, refused>>
    <3>1. /\ s.pc = "send" /\ p \in Pairs /\ s.due \in Dues /\ Message(s) \in Rows
          /\ TellsOne(p, Message(s))
      BY <1>7, <2>3, AnswerIs, EndIs DEF Heard
    <3>2. Told(q)' = IF q = p THEN Told(q) \cup {Message(s)} ELSE Told(q)
      BY <1>1, <3>1, ToldIs
    <3>3. CASE q # p
      BY <1>3, <2>1, <3>2, <3>3
    <3>4. CASE q = p
      <4>1. LastOf(row[q]) = n + 1 /\ Under(q, n) /\ n \in Nat
        BY <1>4, <3>1, <3>4 DEF Rising, Claiming
      <4>2. Message(s).seq = n
        BY DEF Message
      <4>3. \A m \in Told(q)' : m.seq < n + 1
        BY <1>2, <3>2, <4>1, <4>2 DEF Under
      <4>. QED  BY <2>1, <4>1, <4>3 DEF Fresh, Under
    <3>. QED  BY <3>3, <3>4
  <2>. QED  BY <2>2, <2>3
<1>8. CASE Restore(i)
  <2>1. Told(q)' = Told(q)
    BY <1>1, <1>8, RestoreIs, ToldIs
  <2>2. CASE row'[q] = row[q]
    BY <1>3, <2>1, <2>2
  <2>3. CASE row'[q] # row[q]
    <3>1. q = p /\ row'[q] = s.previous /\ s.pc \in Claiming
      BY <1>2, <1>8, <2>3, RestoreIs DEF Claiming
    <3>2. LastOf(row'[q]) = n /\ Under(q, n)
      BY <3>1 DEF Rising
    <3>. QED  BY <2>1, <3>2 DEF Fresh, Under
  <2>. QED  BY <2>2, <2>3
<1>. QED  BY <1>5, <1>6, <1>7, <1>8 DEF Round

(* What the round knows after its step.                                    *)
LEMMA RisesOn ==
    ASSUME SweepInv, RiseInv, Heard, NEW i \in Sweepers, Round(i)
    PROVE  Rising(sweep[i])'
<1>. DEFINE s == sweep[i]  t == sweep'[i]  p == s.due.pair  n == s.due.last
<1>1. InvitationTypeOK /\ Rising(s) /\ s \in SweepStates
  BY DEF SweepInv, RiseInv, InvitationTypeOK
<1>2. t.todo = {} /\ t.pc \in {"idle", "next"} => Rising(sweep[i])'
  BY DEF Rising, Claiming
<1>3. ASSUME t.todo \subseteq s.todo, t.pc \notin Working, ~PruneOrphans(i)
      PROVE  Rising(sweep[i])'
  <2>1. \A d \in s.todo : d.pair \in Pairs
    BY <1>1 DEF SweepStates, Dues
  <2>2. \A d \in t.todo : Fresh(d.pair)'
    BY <1>1, <1>3, <2>1, FreshStays DEF Rising
  <2>. QED  BY <1>3, <2>2 DEF Rising, Working, Claiming
<1>4. ASSUME t.todo \subseteq s.todo, ~PruneOrphans(i)
      PROVE  \A d \in t.todo : Fresh(d.pair)'
  <2>1. \A d \in s.todo : d.pair \in Pairs
    BY <1>1 DEF SweepStates, Dues
  <2>. QED  BY <1>1, <1>4, <2>1, FreshStays DEF Rising
<1>5. CASE FindCancellations(i) \/ FindRequests(i)
  <2>1. /\ t.pc = "next" /\ UNCHANGED <<row, sent, refused>>
        /\ \A d \in t.todo : d.pair \in Pairs /\ (CancelOwed(d.pair) \/ RequestOwed(d.pair))
    BY <1>1, <1>5, FindsCancels, FindsRequests DEF Dues
  <2>2. \A q \in Pairs : CancelOwed(q) \/ RequestOwed(q) => Fresh(q)
    BY DEF RiseInv, CancelOwed, Standing, RequestOwed, ShouldHold
  <2>3. \A q \in Pairs : Fresh(q) => Fresh(q)'
    BY <1>1, <2>1, ToldIs DEF Fresh, Under
  <2>. QED  BY <2>1, <2>2, <2>3 DEF Rising, Claiming
<1>6. CASE PruneOrphans(i) \/ RoundEnds(i)
  BY <1>1, <1>2, <1>6, Prunes, EndIs, RestIs
<1>7. CASE FindPrevious(i)
  <2>1. /\ s.pc = "next" /\ UNCHANGED <<row, sent, refused>> /\ t.pc = "claim"
        /\ t.due \in s.todo /\ t.due.pair \in Pairs /\ t.todo \subseteq s.todo
        /\ t.previous = row[t.due.pair]
    BY <1>1, <1>7, FindsPrevious
  <2>2. \A q \in Pairs : Fresh(q) => Fresh(q)'
    BY <1>1, <2>1, ToldIs DEF Fresh, Under
  <2>3. \A d \in s.todo : d.pair \in Pairs
    BY <1>1 DEF SweepStates, Dues
  <2>. QED  BY <1>1, <2>1, <2>2, <2>3 DEF Rising, Claiming
<1>8. CASE Claim(i)
  <2>0. s.pc = "claim" /\ ~PruneOrphans(i)
    BY <1>8 DEF Claim, PruneOrphans
  <2>1. CASE t = Forward(s)
    BY <1>1, <1>3, <2>0, <2>1, ForwardIs DEF Working
  <2>2. CASE t # Forward(s)
    <3>1. /\ p \in Pairs /\ s.due \in Dues /\ LastOf(row[p]) = n
          /\ row'[p] \in Rows /\ row'[p].seq = n
          /\ t.pc = "send" /\ t.todo = s.todo /\ t.due = s.due /\ t.previous = s.previous
          /\ UNCHANGED <<sent, refused>>
      BY <1>1, <1>8, <2>2, ClaimIs DEF InvitationTypeOK
    <3>2. LastOf(row'[p]) = n + 1
      BY <3>1, RowIs
    <3>3. LastOf(s.previous) = n /\ Under(p, n)
      BY <1>1, <2>0, <3>1 DEF Rising, Fresh
    <3>4. Under(p, n)'
      BY <1>1, <3>1, <3>3, ToldIs DEF Under
    <3>5. \A d \in t.todo : Fresh(d.pair)'
      BY <1>4, <2>0, <3>1
    <3>. QED  BY <3>1, <3>2, <3>3, <3>4, <3>5 DEF Rising, Under
  <2>. QED  BY <2>1, <2>2
<1>9. CASE Send(i) \/ Refuse(i) \/ SendFails(i)
  <2>1. s.pc = "send" /\ t.todo = s.todo /\ ~PruneOrphans(i) /\ row' = row
    BY <1>9, AnswerIs DEF PruneOrphans
  <2>2. CASE t.pc = "next"
    BY <1>3, <2>1, <2>2 DEF Working
  <2>3. CASE t.pc # "next"
    <3>1. /\ t.pc \in {"undo", "stop"} /\ t.due = s.due /\ t.previous = s.previous
          /\ UNCHANGED <<sent, refused>>
      BY <1>9, <2>3, AnswerIs DEF Heard
    <3>2. Under(p, n)'
      BY <1>1, <2>1, <3>1, ToldIs DEF Rising, Claiming, Under
    <3>3. LastOf(row'[p]) = n + 1 /\ LastOf(t.previous) = n
      BY <1>1, <2>1, <3>1 DEF Rising, Claiming
    <3>4. \A d \in t.todo : Fresh(d.pair)'
      BY <1>4, <2>1
    <3>. QED  BY <3>1, <3>2, <3>3, <3>4 DEF Rising, Under
  <2>. QED  BY <2>2, <2>3
<1>10. CASE Restore(i)
  <2>1. s.pc # "next" /\ ~PruneOrphans(i)
    BY <1>10 DEF Restore, PruneOrphans
  <2>2. t = Rest \/ t = Forward(s)
    BY <1>10, RestoreIs
  <2>3. t.todo \subseteq s.todo /\ t.pc \notin Working
    BY <1>1, <2>2, RestIs, ForwardIs DEF Working
  <2>. QED  BY <1>3, <2>1, <2>3
<1>. QED  BY <1>5, <1>6, <1>7, <1>8, <1>9, <1>10 DEF Round

LEMMA DeletedStays ==
    ASSUME InvitationTypeOK, World
    PROVE  \A p \in Pairs : seat[p] = "deleted" => seat'[p] = "deleted"
BY DEF World, SeatChanges, SessionMoves, MailSwitched, TimePasses, InvitationTypeOK

LEMMA NextRise ==
    OneSweep /\ Heard /\ SweepInv /\ RiseInv /\ [InvitationNext]_invitationVars => RiseInv'
<1>. SUFFICES ASSUME OneSweep, Heard, SweepInv, RiseInv, [InvitationNext]_invitationVars
              PROVE  RiseInv'
  OBVIOUS
<1>. InvitationTypeOK
  BY DEF SweepInv
<1>1. ASSUME UNCHANGED <<row, sweep, sent, refused>>,
             \A p \in Pairs : seat[p] = "deleted" => seat'[p] = "deleted"
      PROVE  RiseInv'
  <2>1. \A p : Fresh(p)' = Fresh(p) /\ \A n : Under(p, n)' = Under(p, n)
    BY <1>1, ToldIs DEF Fresh, Under
  <2>2. \A i \in Sweepers : Rising(sweep[i])'
    BY <1>1, <2>1 DEF RiseInv, Rising
  <2>. QED  BY <1>1, <2>1, <2>2 DEF RiseInv
<1>2. CASE UNCHANGED invitationVars
  BY <1>1, <1>2 DEF invitationVars, worldVars
<1>3. CASE World
  BY <1>1, <1>3, WorldTypes, DeletedStays
<1>4. ASSUME NEW i \in Sweepers, Round(i) PROVE RiseInv'
  <2>1. \A j \in Sweepers : Rising(sweep[j])'
    BY <1>4, RisesOn DEF OneSweep
  <2>2. \A p \in Pairs : Fresh(p)' \/ (row'[p] = NoRow /\ seat'[p] = "deleted")
    <3>1. CASE PruneOrphans(i)
      <4>1. /\ UNCHANGED <<sent, refused, seat>>
            /\ \A p \in Pairs : row'[p] = row[p] \/ (row'[p] = NoRow /\ seat[p] = "deleted")
        BY <3>1, Prunes DEF Prunable, worldVars
      <4>2. \A p \in Pairs : row'[p] = row[p] => Fresh(p)' = Fresh(p)
        BY <4>1, ToldIs DEF Fresh, Under
      <4>. QED  BY <4>1, <4>2 DEF RiseInv
    <3>2. CASE ~PruneOrphans(i)
      <4>1. UNCHANGED seat
        BY <1>4 DEF Round, GoTo, worldVars, FindCancellations, FindRequests, PruneOrphans,
                    FindPrevious, Claim, Send, Refuse, SendFails, Restore, RoundEnds
      <4>2. \A p \in Pairs : (Fresh(p) => Fresh(p)') /\ (row'[p] = row[p] \/ Fresh(p)')
        BY <1>4, <3>2, FreshStays DEF RiseInv
      <4>. QED  BY <4>1, <4>2 DEF RiseInv
    <3>. QED  BY <3>1, <3>2
  <2>. QED  BY <2>1, <2>2 DEF RiseInv
<1>. QED  BY <1>2, <1>3, <1>4 DEF InvitationNext

LEMMA RiseHolds ==
    ASSUME OneSweep, Heard
    PROVE  InvitationSpec => [](SweepInv /\ RiseInv)
<1>1. SweepInv /\ RiseInv /\ [InvitationNext]_invitationVars => SweepInv' /\ RiseInv'
  BY NextSweep, NextRise
<1>. QED  BY <1>1, InitSweep, InitRise, PTL DEF InvitationSpec

RiseStep == \A p \in Pairs : \A m \in sent'[p] \ sent[p], n \in sent[p] : n.seq < m.seq

LEMMA NextRises ==
    ASSUME SweepInv, RiseInv, [InvitationNext]_invitationVars
    PROVE  RiseStep
<1>. InvitationTypeOK
  BY DEF SweepInv
<1>1. UNCHANGED sent => RiseStep
  BY DEF RiseStep
<1>2. CASE UNCHANGED invitationVars \/ World
  BY <1>1, <1>2, WorldTypes DEF invitationVars
<1>3. ASSUME NEW i \in Sweepers, Round(i), ~UNCHANGED sent PROVE RiseStep
  <2>. DEFINE s == sweep[i]  p == s.due.pair
  <2>1. /\ s.pc = "send" /\ p \in Pairs /\ sent' = [sent EXCEPT ![p] = @ \cup {Message(s)}]
    <3>1. Send(i) \/ SendFails(i) \/ RoundEnds(i)
      BY <1>3 DEF Round, FindCancellations, FindRequests, PruneOrphans, FindPrevious, Claim,
                  Refuse, Restore
    <3>. QED  BY <1>3, <3>1, AnswerIs, EndIs DEF TellsOne
  <2>2. Message(s).seq = s.due.last
    BY DEF Message
  <2>3. \A n \in sent[p] : n.seq < s.due.last
    BY <2>1 DEF RiseInv, Rising, Claiming, Under, Told
  <2>4. \A q \in Pairs : \A m \in sent'[q] \ sent[q] : q = p /\ m = Message(s)
    BY <2>1 DEF InvitationTypeOK
  <2>. QED  BY <2>2, <2>3, <2>4 DEF RiseStep
<1>. QED  BY <1>1, <1>2, <1>3 DEF InvitationNext

(* A message carries a higher SEQUENCE than every one before it, the       *)
(* instance dying between any two statements and the database refusing.    *)
THEOREM MessagesRise ==
    ASSUME OneSweep, Heard
    PROVE  InvitationSpec => SequencesRise
<1>1. SweepInv /\ RiseInv /\ [InvitationNext]_invitationVars => [RiseStep]_invitationVars
  BY NextRises
<1>2. InvitationSpec => [][RiseStep]_invitationVars
  BY <1>1, RiseHolds, PTL DEF InvitationSpec
<1>. QED  BY <1>2 DEF SequencesRise, RiseStep

-----------------------------------------------------------------------------
(* Rows and messages, with one instance and nothing lost. *)

Sure == InvitationFaults = {}

Owes(s, d) ==
    /\ LastOf(row[d.pair]) = d.last
    /\ s.method = "CANCEL" => row[d.pair].says = d.says /\ ~row[d.pair].cancelled

(* What the round is to send is still due, once for a pair, and a claim    *)
(* holds the message it may have to come back to.                          *)
Telling(s) ==
    /\ \A d \in s.todo : Owes(s, d)
    /\ \A d, e \in s.todo : d.pair = e.pair => d = e
    /\ s.pc \in Working => \A d \in s.todo : d.pair # s.due.pair
    /\ s.pc = "claim" => Owes(s, s.due)
    /\ s.pc \in Claiming =>
           /\ row[s.due.pair] = Message(s)
           /\ s.previous = NoRow \/ s.previous \in Told(s.due.pair)
           /\ s.method = "CANCEL" =>
                  /\ s.previous # NoRow /\ ~s.previous.cancelled
                  /\ s.previous.says = s.due.says

(* The newest message is a CANCEL, or of a session that is past.           *)
Over(p) ==
    \E m \in Told(p) : /\ \A n \in Told(p) : n.seq <= m.seq
                       /\ m.cancelled \/ when[m.says] = "past"

Remembers(p) ==
    IF row[p] = NoRow THEN Told(p) = {} \/ Over(p) ELSE row[p] \in Told(p)

TellInv ==
    /\ \A i \in Sweepers : Telling(sweep[i])
    /\ \A p \in Pairs : \A m, n \in Told(p) : m.seq = n.seq => m = n
    /\ \A p \in Pairs : InFlight(p) \/ Remembers(p)

LEMMA InitTell == InvitationInit => TellInv
<1>. SUFFICES ASSUME InvitationInit PROVE TellInv
  OBVIOUS
<1>1. \A p \in Pairs : row[p] = NoRow /\ Told(p) = {}
  BY DEF InvitationInit, Told
<1>2. \A i \in Sweepers : Telling(sweep[i])
  BY RestIs DEF InvitationInit, Telling, Working, Claiming
<1>. QED  BY <1>1, <1>2 DEF TellInv, Remembers

(* A round between two pairs leaves none in flight.                        *)
LEMMA NoneInFlight ==
    ASSUME OneSweep, NEW i \in Sweepers, sweep[i].pc \notin Claiming
    PROVE  \A p : ~InFlight(p)
BY DEF OneSweep, InFlight, Claiming

LEMMA InFlightIs ==
    ASSUME OneSweep, NEW i \in Sweepers, NEW p
    PROVE  /\ InFlight(p) <=> sweep[i].pc \in Claiming /\ sweep[i].due.pair = p
           /\ InFlight(p)' <=> sweep'[i].pc \in Claiming /\ sweep'[i].due.pair = p
BY DEF OneSweep, InFlight, Claiming

(* What is told and remembered of a pair that a step leaves alone.         *)
LEMMA SameTold ==
    ASSUME NEW p, UNCHANGED when, row'[p] = row[p], Told(p)' = Told(p)
    PROVE  Remembers(p)' = Remembers(p)
BY DEF Remembers, Over

(* A round's list of what is due, after a step that leaves those rows.     *)
LEMMA SameDues ==
    ASSUME NEW s, NEW t, t.method = s.method, t.todo \subseteq s.todo, Telling(s),
           \A d \in t.todo : row'[d.pair] = row[d.pair]
    PROVE  /\ \A d \in t.todo : Owes(t, d)'
           /\ \A d, e \in t.todo : d.pair = e.pair => d = e
BY DEF Telling, Owes

LEMMA FindsTell ==
    ASSUME OneSweep, SweepInv, RiseInv, TellInv, NEW i \in Sweepers,
           FindCancellations(i) \/ FindRequests(i)
    PROVE  TellInv'
<1>. DEFINE s == sweep[i]  t == sweep'[i]
<1>. InvitationTypeOK
  BY DEF SweepInv
<1>1. /\ s.pc \in {"idle", "next"} /\ t.pc = "next"
      /\ UNCHANGED <<row, sent, refused, when>>
  BY FindsCancels, FindsRequests DEF worldVars
<1>2. \A d \in t.todo :
          /\ d.pair \in Pairs
          /\ \/ /\ t.method = "CANCEL" /\ CancelOwed(d.pair)
                /\ d = DueOf(d.pair, row[d.pair].says)
             \/ t.method = "REQUEST" /\ d = DueOf(d.pair, live[d.pair])
  BY FindsCancels, FindsRequests DEF Dues
<1>3. t.method \in {"CANCEL", "REQUEST"} /\
      \A d, e \in t.todo : d.pair = e.pair => d = e
  <2>1. CASE FindCancellations(i)
    BY <2>1, FindsCancels
  <2>2. CASE FindRequests(i)
    BY <2>2, FindsRequests
  <2>. QED  BY <2>1, <2>2
<1>4. \A d \in t.todo : Owes(t, d)
  BY <1>2 DEF Owes, DueOf, CancelOwed, Standing
<1>5. Telling(sweep[i])'
  BY <1>1, <1>3, <1>4 DEF Telling, Owes, Working, Claiming
<1>6. \A p \in Pairs : Told(p)' = Told(p) /\ Remembers(p)
  BY <1>1, NoneInFlight, ToldIs DEF TellInv, Claiming
<1>7. \A p \in Pairs : Remembers(p)'
  BY <1>1, <1>6, SameTold
<1>. QED  BY <1>5, <1>6, <1>7 DEF TellInv, OneSweep

LEMMA PrunesTell ==
    ASSUME OneSweep, SweepInv, RiseInv, TellInv, NEW i \in Sweepers, PruneOrphans(i)
    PROVE  TellInv'
<1>. InvitationTypeOK
  BY DEF SweepInv
<1>1. /\ sweep[i].pc = "next" /\ sweep'[i] = Rest /\ UNCHANGED <<sent, refused, when>>
      /\ \A p \in Pairs : row'[p] = IF Prunable(p) THEN NoRow ELSE row[p]
  BY Prunes DEF worldVars
<1>2. Telling(sweep[i])'
  BY <1>1, RestIs DEF Telling, Working, Claiming
<1>3. \A p \in Pairs : Told(p)' = Told(p) /\ Remembers(p)
  BY <1>1, NoneInFlight, ToldIs DEF TellInv, Claiming
<1>4. ASSUME NEW p \in Pairs PROVE Remembers(p)'
  <2>1. CASE row'[p] = row[p]
    BY <1>1, <1>3, <2>1, SameTold
  <2>2. CASE row'[p] # row[p]
    <3>1. /\ row'[p] = NoRow /\ row[p] # NoRow
          /\ row[p].cancelled \/ when[row[p].says] = "past"
      BY <1>1, <2>2 DEF Prunable
    <3>2. row[p] \in Told(p) /\ row[p] \in Rows
      BY <1>3, <3>1 DEF Remembers, InvitationTypeOK
    <3>3. \A m \in Told(p) : m.seq < row[p].seq + 1
      BY <3>1, <3>2, RowIs DEF RiseInv, Fresh, Under
    <3>4. \A m \in Told(p) : m.seq \in Nat /\ row[p].seq \in Nat
      BY <3>2, ToldIs, RowIs
    <3>5. \A m \in Told(p) : m.seq <= row[p].seq
      BY <3>3, <3>4
    <3>6. Over(p)'
      BY <1>1, <1>3, <3>1, <3>2, <3>5 DEF Over
    <3>. QED  BY <3>1, <3>6 DEF Remembers
  <2>. QED  BY <2>1, <2>2
<1>. QED  BY <1>2, <1>3, <1>4 DEF TellInv, OneSweep

LEMMA PreviousTell ==
    ASSUME OneSweep, SweepInv, RiseInv, TellInv, NEW i \in Sweepers, FindPrevious(i)
    PROVE  TellInv'
<1>. DEFINE s == sweep[i]  t == sweep'[i]
<1>. InvitationTypeOK
  BY DEF SweepInv
<1>1. /\ s.pc = "next" /\ UNCHANGED <<row, sent, refused, when>>
      /\ t.pc = "claim" /\ t.method = s.method /\ t.due \in s.todo
      /\ t.todo = s.todo \ {t.due}
  BY FindsPrevious DEF worldVars
<1>2. /\ \A d \in s.todo : Owes(s, d)
      /\ \A d, e \in s.todo : d.pair = e.pair => d = e
  BY DEF TellInv, Telling
<1>3. \A d \in s.todo : Owes(t, d)
  BY <1>1, <1>2 DEF Owes
<1>4. Telling(sweep[i])'
  BY <1>1, <1>2, <1>3 DEF Telling, Owes, Working, Claiming
<1>5. \A p \in Pairs : Told(p)' = Told(p) /\ Remembers(p)
  BY <1>1, NoneInFlight, ToldIs DEF TellInv, Claiming
<1>6. \A p \in Pairs : Remembers(p)'
  BY <1>1, <1>5, SameTold
<1>. QED  BY <1>4, <1>5, <1>6 DEF TellInv, OneSweep

LEMMA ClaimTell ==
    ASSUME OneSweep, SweepInv, RiseInv, TellInv, NEW i \in Sweepers, Claim(i)
    PROVE  TellInv'
<1>. DEFINE s == sweep[i]  t == sweep'[i]  p == s.due.pair
<1>. InvitationTypeOK
  BY DEF SweepInv
<1>1. s.pc = "claim" /\ Telling(s) /\ Rising(s) /\ p \in Pairs /\ s.due \in Dues
  BY ClaimIs DEF TellInv, RiseInv
<1>2. Owes(s, s.due) /\ s.previous = row[p]
  BY <1>1 DEF Telling, Rising
<1>3. /\ row' = [row EXCEPT ![p] = Claimed(s)]
      /\ s.method = "CANCEL" => row[p] \in Rows
      /\ t.pc = "send" /\ t.method = s.method /\ t.todo = s.todo /\ t.due = s.due
      /\ t.previous = s.previous /\ UNCHANGED <<sent, refused, when>>
  BY <1>2, ClaimIs DEF Owes, worldVars
<1>4. Claimed(s) = Message(s)
  BY <1>2 DEF Claimed, Message, Owes
<1>5. row'[p] = Message(s) /\ \A q \in Pairs \ {p} : row'[q] = row[q]
  BY <1>1, <1>3, <1>4 DEF InvitationTypeOK
<1>6. \A q \in Pairs : Told(q)' = Told(q) /\ Remembers(q)
  BY <1>1, <1>3, NoneInFlight, ToldIs DEF TellInv, Claiming
<1>7. s.previous = NoRow \/ s.previous \in Told(p)
  BY <1>1, <1>2, <1>6 DEF Remembers
<1>8. s.method = "CANCEL" =>
          s.previous # NoRow /\ ~s.previous.cancelled /\ s.previous.says = s.due.says
  BY <1>2, <1>3, RowIs DEF Owes
<1>9. /\ \A d \in s.todo : d.pair \in Pairs /\ d.pair # p /\ Owes(s, d)
      /\ \A d, e \in s.todo : d.pair = e.pair => d = e
  BY <1>1 DEF Telling, Working, InvitationTypeOK, SweepStates, Dues
<1>10. \A d \in t.todo : Owes(sweep[i], d)'
  BY <1>3, <1>5, <1>9 DEF Owes
<1>11. Message(sweep[i])' = Message(s)
  BY <1>3 DEF Message
<1>12. Telling(sweep[i])'
  BY <1>1, <1>3, <1>5, <1>6, <1>7, <1>8, <1>9, <1>10, <1>11 DEF Telling, Working
<1>13. \A q \in Pairs : q # p => Remembers(q)'
  BY <1>3, <1>5, <1>6, SameTold
<1>14. \A q \in Pairs : q = p => InFlight(q)'
  BY <1>3, InFlightIs DEF Claiming
<1>. QED  BY <1>6, <1>12, <1>13, <1>14 DEF TellInv, OneSweep

LEMMA AnswerTell ==
    ASSUME OneSweep, Sure, SweepInv, RiseInv, TellInv, NEW i \in Sweepers,
           Send(i) \/ Refuse(i) \/ SendFails(i)
    PROVE  TellInv'
<1>. DEFINE s == sweep[i]  t == sweep'[i]  p == s.due.pair
<1>. InvitationTypeOK
  BY DEF SweepInv
<1>1. /\ s.pc = "send" /\ p \in Pairs /\ s.due \in Dues /\ Message(s) \in Rows
      /\ UNCHANGED <<row, when>> /\ t.method = s.method /\ t.todo = s.todo
      /\ Telling(s) /\ Rising(s)
  BY AnswerIs DEF TellInv, RiseInv, worldVars
<1>2. /\ \A d \in t.todo : Owes(sweep[i], d)'
      /\ \A d, e \in t.todo : d.pair = e.pair => d = e
      /\ \A d \in t.todo : d.pair # p
  BY <1>1 DEF Telling, Working, Owes
<1>3. \A q \in Pairs : q # p => ~InFlight(q) /\ Remembers(q)
  BY <1>1, InFlightIs DEF TellInv
<1>4. row[p] = Message(s) /\ Under(p, s.due.last) /\ Message(s).seq = s.due.last
      /\ s.due.last \in Nat
  BY <1>1, MessageIs DEF Telling, Rising, Claiming, Message, Dues
<1>5. CASE t.pc = "next"
  <2>1. TellsOne(p, Message(s))
    BY <1>5, AnswerIs
  <2>2. \A q \in Pairs : Told(q)' = IF q = p THEN Told(q) \cup {Message(s)} ELSE Told(q)
    BY <1>1, <2>1, ToldIs
  <2>3. Telling(sweep[i])'
    BY <1>2, <1>5 DEF Telling, Working, Claiming
  <2>4. \A q \in Pairs : Remembers(q)'
    <3>1. \A q \in Pairs : q # p => Remembers(q)'
      BY <1>1, <1>3, <2>2, SameTold
    <3>2. \A q \in Pairs : q = p => Remembers(q)'
      BY <1>1, <1>4, <2>2, RowIs DEF Remembers
    <3>. QED  BY <3>1, <3>2
  <2>5. \A m \in Told(p) : m.seq \in Nat /\ m.seq # s.due.last
    BY <1>1, <1>4, ToldIs, RowIs DEF Under
  <2>6. \A q \in Pairs : \A m, n \in Told(q)' : m.seq = n.seq => m = n
    BY <1>4, <2>2, <2>5 DEF TellInv
  <2>. QED  BY <2>3, <2>4, <2>6 DEF TellInv, OneSweep
<1>6. CASE t.pc # "next"
  <2>1. /\ t.pc \in {"undo", "stop"} /\ t.due = s.due /\ t.previous = s.previous
        /\ UNCHANGED <<sent, refused>>
    BY <1>6, AnswerIs DEF Sure
  <2>2. \A q \in Pairs : Told(q)' = Told(q)
    BY <2>1, ToldIs
  <2>3. Message(sweep[i])' = Message(s)
    BY <1>1, <2>1 DEF Message
  <2>4. Telling(sweep[i])'
    BY <1>1, <1>2, <2>1, <2>2, <2>3 DEF Telling, Working, Claiming
  <2>5. \A q \in Pairs : q # p => Remembers(q)'
    BY <1>1, <1>3, <2>2, SameTold
  <2>6. \A q \in Pairs : q = p => InFlight(q)'
    BY <2>1, InFlightIs DEF Claiming
  <2>. QED  BY <2>2, <2>4, <2>5, <2>6 DEF TellInv, OneSweep
<1>. QED  BY <1>5, <1>6

LEMMA RestoreTell ==
    ASSUME OneSweep, Sure, SweepInv, RiseInv, TellInv, NEW i \in Sweepers, Restore(i)
    PROVE  TellInv'
<1>. DEFINE s == sweep[i]  t == sweep'[i]  p == s.due.pair
<1>. InvitationTypeOK
  BY DEF SweepInv
<1>1. /\ s.pc \in {"undo", "stop"} /\ p \in Pairs /\ s.due \in Dues
      /\ s \in SweepStates /\ UNCHANGED <<sent, refused, when>>
      /\ t = Rest \/ t = Forward(s)
      /\ Telling(s) /\ Rising(s)
  BY RestoreIs DEF TellInv, RiseInv, worldVars, InvitationTypeOK
<1>2. row' = [row EXCEPT ![p] = s.previous]
  <2>1. LastOf(row[p]) = s.due.last + 1
    BY <1>1 DEF Rising, Claiming
  <2>. QED  BY <2>1, RestoreIs DEF Sure
<1>3. row'[p] = s.previous /\ \A q \in Pairs \ {p} : row'[q] = row[q]
  BY <1>1, <1>2 DEF InvitationTypeOK
<1>4. /\ \A d \in s.todo : d.pair \in Pairs /\ d.pair # p /\ Owes(s, d)
      /\ \A d, e \in s.todo : d.pair = e.pair => d = e
  BY <1>1 DEF Telling, Working, SweepStates, Dues
<1>5. t.pc \in {"idle", "next"}
      /\ (t.todo = {} \/ (t.todo = s.todo /\ t.method = s.method))
  BY <1>1, RestIs, ForwardIs
<1>6. \A d \in t.todo : Owes(sweep[i], d)'
  BY <1>3, <1>4, <1>5 DEF Owes
<1>7. Telling(sweep[i])'
  BY <1>4, <1>5, <1>6 DEF Telling, Working, Claiming
<1>8. \A q \in Pairs : Told(q)' = Told(q)
  BY <1>1, ToldIs
<1>9. \A q \in Pairs : q # p => Remembers(q)'
  BY <1>1, <1>3, <1>8, InFlightIs, SameTold DEF TellInv
<1>10. \A q \in Pairs : q = p => Remembers(q)'
  <2>1. CASE s.previous = NoRow
    <3>1. \A m \in Told(p) : m.seq \in Nat /\ m.seq < 0
      BY <1>1, <2>1, ToldIs, RowIs DEF Rising, Claiming, Under
    <3>2. Told(p) = {}
      BY <3>1
    <3>. QED  BY <1>1, <1>3, <1>8, <2>1, <3>2 DEF Remembers
  <2>2. CASE s.previous # NoRow
    <3>1. s.previous \in Told(p)
      BY <1>1, <2>2 DEF Telling, Claiming
    <3>. QED  BY <1>1, <1>3, <1>8, <2>2, <3>1 DEF Remembers
  <2>. QED  BY <2>1, <2>2
<1>. QED  BY <1>7, <1>8, <1>9, <1>10 DEF TellInv, OneSweep

LEMMA NextTell ==
    OneSweep /\ Sure /\ SweepInv /\ RiseInv /\ TellInv /\ [InvitationNext]_invitationVars
        => TellInv'
<1>. SUFFICES ASSUME OneSweep, Sure, SweepInv, RiseInv, TellInv,
                     [InvitationNext]_invitationVars
              PROVE  TellInv'
  OBVIOUS
<1>. InvitationTypeOK
  BY DEF SweepInv
<1>1. ASSUME UNCHANGED <<row, sweep, sent, refused>>,
             \A v \in Versions : when[v] = "past" => when'[v] = "past"
      PROVE  TellInv'
  <2>1. \A p : Told(p)' = Told(p) /\ InFlight(p)' = InFlight(p)
    BY <1>1, ToldIs DEF InFlight
  <2>2. \A i \in Sweepers : Telling(sweep[i])'
    BY <1>1, <2>1 DEF TellInv, Telling, Owes, Message
  <2>3. \A p \in Pairs : Over(p) => Over(p)'
    <3>1. \A p \in Pairs : \A m \in Told(p) : m.says \in Versions
      BY ToldIs, RowIs
    <3>. QED  BY <1>1, <2>1, <3>1 DEF Over
  <2>. QED  BY <1>1, <2>1, <2>2, <2>3 DEF TellInv, Remembers
<1>2. CASE UNCHANGED invitationVars
  BY <1>1, <1>2 DEF invitationVars, worldVars
<1>3. CASE World
  <2>1. \A v \in Versions : when[v] = "past" => when'[v] = "past"
    BY <1>3 DEF World, SeatChanges, SessionMoves, MailSwitched, TimePasses, InvitationTypeOK
  <2>. QED  BY <1>1, <1>3, <2>1, WorldTypes
<1>4. ASSUME NEW i \in Sweepers, Round(i) PROVE TellInv'
  <2>1. ~RoundEnds(i)
    BY EndIs DEF Sure
  <2>. QED  BY <1>4, <2>1, FindsTell, PrunesTell, PreviousTell, ClaimTell, AnswerTell,
               RestoreTell DEF Round
<1>. QED  BY <1>2, <1>3, <1>4 DEF InvitationNext

LEMMA TellHolds ==
    ASSUME OneSweep, Sure
    PROVE  InvitationSpec => [](SweepInv /\ RiseInv /\ TellInv)
<1>1. Heard
  BY DEF Heard, Sure
<1>2. SweepInv /\ RiseInv /\ TellInv /\ [InvitationNext]_invitationVars
          => SweepInv' /\ RiseInv' /\ TellInv'
  BY <1>1, NextSweep, NextRise, NextTell
<1>. QED  BY <1>2, InitSweep, InitRise, InitTell, PTL DEF InvitationSpec

(* Unless a message is on its way, the row is the newest message that was  *)
(* sent or refused for good: a failed send leaves no trace.                *)
THEOREM RowIsNewest ==
    ASSUME OneSweep, Sure
    PROVE  InvitationSpec => []RowIsNewestTold
<1>1. ASSUME SweepInv, RiseInv, TellInv PROVE RowIsNewestTold
  <2>. InvitationTypeOK
    BY <1>1 DEF SweepInv
  <2>. SUFFICES ASSUME NEW p \in Pairs, row[p] # NoRow, ~InFlight(p)
                PROVE  row[p] \in Told(p) /\ \A m \in Told(p) : m.seq <= row[p].seq
    BY DEF RowIsNewestTold
  <2>1. row[p] \in Told(p) /\ row[p] \in Rows
    BY <1>1 DEF TellInv, Remembers, InvitationTypeOK
  <2>2. \A m \in Told(p) : m.seq < row[p].seq + 1
    BY <1>1, <2>1, RowIs DEF RiseInv, Fresh, Under
  <2>3. row[p].seq \in Nat /\ \A m \in Told(p) : m.seq \in Nat
    BY <2>1, ToldIs, RowIs
  <2>. QED  BY <2>1, <2>2, <2>3
<1>. QED  BY <1>1, TellHolds, PTL

(* While a calendar shows a coming session the row its CANCEL is sent from *)
(* is there, though the session be deleted (pruneOrphans).                 *)
THEOREM RowOutlivesSession ==
    ASSUME OneSweep, Sure
    PROVE  InvitationSpec => []ShownIsRemembered
<1>1. ASSUME SweepInv, RiseInv, TellInv PROVE ShownIsRemembered
  <2>. InvitationTypeOK
    BY <1>1 DEF SweepInv
  <2>. SUFFICES ASSUME NEW p \in Pairs, Shown(p), when[Newest(p).says] # "past",
                       row[p] = NoRow
                PROVE  FALSE
    BY DEF ShownIsRemembered
  <2>1. ~InFlight(p)
    <3>. SUFFICES ASSUME NEW i \in Sweepers, sweep[i].pc \in Claiming, sweep[i].due.pair = p
                  PROVE  FALSE
      BY DEF InFlight, Claiming
    <3>1. sweep[i].due.last + 1 = 0 /\ sweep[i].due \in Dues
      BY <1>1, RowIs DEF RiseInv, Rising, SweepInv, DueOK, Working, Claiming
    <3>. QED  BY <3>1 DEF Dues
  <2>2. Told(p) # {} /\ ~Newest(p).cancelled
    BY DEF Shown
  <2>3. Over(p)
    BY <1>1, <2>1, <2>2 DEF TellInv, Remembers
  <2>4. PICK m \in Told(p) : /\ \A n \in Told(p) : n.seq <= m.seq
                             /\ m.cancelled \/ when[m.says] = "past"
    BY <2>3 DEF Over
  <2>5. Newest(p) \in Told(p) /\ \A n \in Told(p) : n.seq <= Newest(p).seq
    BY <2>4 DEF Newest
  <2>6. m.seq \in Nat /\ Newest(p).seq \in Nat
    BY <2>5, ToldIs, RowIs
  <2>7. Newest(p) = m
    BY <1>1, <2>4, <2>5, <2>6 DEF TellInv
  <2>. QED  BY <2>2, <2>4, <2>7
<1>. QED  BY <1>1, TellHolds, PTL

CancelStep ==
    \A p \in Pairs : \A m \in sent'[p] \ sent[p] :
        m.cancelled =>
            \E n \in Told(p) : ~n.cancelled /\ n.says = m.says /\ m.seq = n.seq + 1

LEMMA NextCancels ==
    ASSUME SweepInv, RiseInv, TellInv, [InvitationNext]_invitationVars
    PROVE  CancelStep
<1>. InvitationTypeOK
  BY DEF SweepInv
<1>1. UNCHANGED sent => CancelStep
  BY DEF CancelStep
<1>2. CASE UNCHANGED invitationVars \/ World
  BY <1>1, <1>2, WorldTypes DEF invitationVars
<1>3. ASSUME NEW i \in Sweepers, Round(i), ~UNCHANGED sent PROVE CancelStep
  <2>. DEFINE s == sweep[i]  p == s.due.pair
  <2>1. /\ s.pc = "send" /\ p \in Pairs /\ s.due \in Dues
        /\ sent' = [sent EXCEPT ![p] = @ \cup {Message(s)}]
    <3>1. Send(i) \/ SendFails(i) \/ RoundEnds(i)
      BY <1>3 DEF Round, FindCancellations, FindRequests, PruneOrphans, FindPrevious, Claim,
                  Refuse, Restore
    <3>. QED  BY <1>3, <3>1, AnswerIs, EndIs DEF TellsOne
  <2>2. /\ Message(s).seq = s.due.last /\ Message(s).says = s.due.says
        /\ Message(s).cancelled => s.method = "CANCEL"
    BY DEF Message
  <2>3. \A q \in Pairs : \A m \in sent'[q] \ sent[q] : q = p /\ m = Message(s)
    BY <2>1 DEF InvitationTypeOK
  <2>4. /\ s.previous = NoRow \/ s.previous \in Told(p)
        /\ LastOf(s.previous) = s.due.last
        /\ s.method = "CANCEL" =>
               s.previous # NoRow /\ ~s.previous.cancelled /\ s.previous.says = s.due.says
    BY <2>1 DEF TellInv, Telling, RiseInv, Rising, Claiming
  <2>5. s.previous \in Told(p) => s.due.last = s.previous.seq + 1
    BY <2>1, <2>4, ToldIs, RowIs
  <2>. QED  BY <2>2, <2>3, <2>4, <2>5 DEF CancelStep
<1>. QED  BY <1>1, <1>2, <1>3 DEF InvitationNext

(* A CANCEL follows the message that put the event there, by one, and says *)
(* what that said.                                                         *)
THEOREM CancelsFollow ==
    ASSUME OneSweep, Sure
    PROVE  InvitationSpec => CancelsRepeat
<1>1. SweepInv /\ RiseInv /\ TellInv /\ [InvitationNext]_invitationVars
          => [CancelStep]_invitationVars
  BY NextCancels
<1>2. InvitationSpec => [][CancelStep]_invitationVars
  BY <1>1, TellHolds, PTL DEF InvitationSpec
<1>. QED  BY <1>2 DEF CancelsRepeat, CancelStep
=============================================================================
