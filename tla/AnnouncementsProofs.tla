-------------------------- MODULE AnnouncementsProofs --------------------------
(***************************************************************************)
(* Proofs about RecordingAnnouncements, for any sessions, requests and     *)
(* instances, any clock and any batch, with every fault.                   *)
(***************************************************************************)
EXTENDS RecordingAnnouncements, TLAPS

-----------------------------------------------------------------------------
(* Type correctness. *)

LEMMA InitNewsType == AnnouncementInit => NewsTypeOK
BY NewsAssumption DEF AnnouncementInit, NewsTypeOK, Times, Clock

LEMMA WriteType ==
    ASSUME NewsTypeOK, NEW l \in Sessions,
           \/ StartUpload(l) \/ SettleFailed(l) \/ MoveSession(l) \/ HideOrShow(l)
           \/ \E c \in Callers :
                  AddOrChange(c, l) \/ SetAvailability(c, l) \/ SettleReady(c, l)
    PROVE  NewsTypeOK'
<1>. USE DEF NewsTypeOK
<1>1. Write => writes' \in 0..MaxWrites
  BY NewsAssumption DEF Write
<1>2. \A c \in Callers, at \in Times :
          Announces(c, l, at) => caller' \in [Callers -> Calls \cup {NoCall}]
  BY DEF Announces, Calls
<1>3. SetAvailable(l) => available' \in [Sessions -> Times]
  BY DEF SetAvailable
<1>4. 0 \in Times /\ 1..now \subseteq Times
  BY NewsAssumption DEF Times, Clock
<1>5. CASE StartUpload(l)
  BY <1>5, <1>1 DEF StartUpload, Write
<1>6. CASE SettleFailed(l)
  BY <1>6 DEF SettleFailed
<1>7. CASE MoveSession(l)
  BY <1>7, <1>1 DEF MoveSession, Write
<1>8. CASE HideOrShow(l)
  BY <1>8, <1>1 DEF HideOrShow, Write
<1>9. ASSUME NEW c \in Callers, AddOrChange(c, l)
      PROVE  NewsTypeOK'
  BY <1>9, <1>1, <1>2, <1>3, <1>4 DEF AddOrChange, Write
<1>10. ASSUME NEW c \in Callers, SetAvailability(c, l)
       PROVE  NewsTypeOK'
  BY <1>10, <1>1, <1>2, <1>3, <1>4 DEF SetAvailability, Write
<1>11. ASSUME NEW c \in Callers, SettleReady(c, l)
       PROVE  NewsTypeOK'
  BY <1>11, <1>2, <1>4 DEF SettleReady
<1>. QED  BY <1>5, <1>6, <1>7, <1>8, <1>9, <1>10, <1>11

LEMMA CallerType ==
    ASSUME NewsTypeOK, NEW c \in Callers, CallerStep(c)
    PROVE  NewsTypeOK'
<1>. USE DEF NewsTypeOK
<1>1. caller[c] # NoCall /\ caller[c] \in Calls
  BY DEF CallerStep, ClaimOne, TellOne, CallerFails
<1>2. CASE ClaimOne(c)
  BY <1>1, <1>2 DEF ClaimOne, CallerGoes, NobodyTold, Marked, Calls
<1>3. CASE TellOne(c)
  BY <1>1, <1>3 DEF TellOne, CallerGoes, NobodyTold, Notify, Calls
<1>4. CASE CallerFails(c)
  BY <1>4 DEF CallerFails, CallerGoes, NobodyTold
<1>. QED  BY <1>2, <1>3, <1>4 DEF CallerStep

LEMMA PollerType ==
    ASSUME NewsTypeOK, NEW i \in Pollers, PollerStep(i)
    PROVE  NewsTypeOK'
<1>. USE DEF NewsTypeOK
<1>1. CASE ClaimDue(i)
  BY <1>1 DEF ClaimDue, PollerGoes, NobodyTold, Marked, Batches, Due
<1>2. CASE TellDue(i)
  BY <1>2 DEF TellDue, PollerGoes, NobodyTold, Notify
<1>3. CASE PollerFails(i)
  BY <1>3 DEF PollerFails, PollerGoes, NobodyTold
<1>. QED  BY <1>1, <1>2, <1>3 DEF PollerStep

LEMMA NextNewsType == NewsTypeOK /\ [AnnouncementNext]_announcementVars => NewsTypeOK'
<1>. SUFFICES ASSUME NewsTypeOK, [AnnouncementNext]_announcementVars
              PROVE  NewsTypeOK'
  OBVIOUS
<1>1. CASE ClockTicks
  BY <1>1, NewsAssumption DEF ClockTicks, NewsTypeOK, Clock
<1>2. CASE UNCHANGED announcementVars
  BY <1>2 DEF announcementVars, NewsTypeOK
<1>. QED  BY <1>1, <1>2, WriteType, CallerType, PollerType DEF AnnouncementNext

(* The rows, the calls of announce and the batches of the release polls    *)
(* keep their shape.                                                       *)
THEOREM NewsTypeCorrect == AnnouncementSpec => []NewsTypeOK
BY InitNewsType, NextNewsType, PTL DEF AnnouncementSpec

-----------------------------------------------------------------------------
(* One teller at a time. *)

(* What a caller knows of the time is past, and who was told is marked.    *)
NewsInv ==
    /\ NewsTypeOK
    /\ ToldOnce
    /\ \A c \in Callers : caller[c] # NoCall => caller[c].at <= now
    /\ \A l \in Sessions : notices[l] > 0 => l \in notified

LEMMA HandIs ==
    \A l : l \in InHand <=> \/ \E c \in Callers : l \in CallHolds(c)
                            \/ \E i \in Pollers : l \in poller[i]
<1>1. \A l : l \in UNION {CallHolds(c) : c \in Callers} <=> \E c \in Callers : l \in CallHolds(c)
  OBVIOUS
<1>2. \A l : l \in UNION {poller[i] : i \in Pollers} <=> \E i \in Pollers : l \in poller[i]
  OBVIOUS
<1>. QED  BY <1>1, <1>2 DEF InHand

LEMMA HandWillBe ==
    \A l : l \in InHand' <=> \/ \E c \in Callers : l \in CallHolds(c)'
                             \/ \E i \in Pollers : l \in poller'[i]
<1>1. \A l : l \in UNION {CallHolds(c)' : c \in Callers} <=> \E c \in Callers : l \in CallHolds(c)'
  OBVIOUS
<1>2. \A l : l \in UNION {poller'[i] : i \in Pollers} <=> \E i \in Pollers : l \in poller'[i]
  OBVIOUS
<1>. QED  BY <1>1, <1>2 DEF InHand

LEMMA CallerHand ==
    ASSUME NewsTypeOK, NEW c \in Callers, NEW call,
           caller' = [caller EXCEPT ![c] = call], UNCHANGED poller
    PROVE  /\ \A d \in Callers \ {c} : CallHolds(d)' = CallHolds(d)
           /\ CallHolds(c)' = {l \in Sessions :
                                  call # NoCall /\ call.pc = "tell" /\ call.session = l}
           /\ \A i \in Pollers : poller'[i] = poller[i]
BY DEF NewsTypeOK, CallHolds

(* The hands of the callers are what they were.                            *)
LEMMA SameHands ==
    ASSUME UNCHANGED poller, \A d \in Callers : CallHolds(d)' = CallHolds(d)
    PROVE  InHand' = InHand
BY HandIs, HandWillBe

LEMMA PollerHand ==
    ASSUME NewsTypeOK, NEW i \in Pollers, NEW todo,
           poller' = [poller EXCEPT ![i] = todo], UNCHANGED caller
    PROVE  /\ \A c \in Callers : CallHolds(c)' = CallHolds(c)
           /\ \A j \in Pollers \ {i} : poller'[j] = poller[j]
           /\ poller'[i] = todo
BY DEF NewsTypeOK, CallHolds

(* The calls of the callers that begin with a write know a past time.      *)
LEMMA BegunCalls ==
    ASSUME NewsInv, NEW c \in Callers, NEW l \in Sessions, NEW at \in 0..now,
           Announces(c, l, at), UNCHANGED <<poller, now>>
    PROVE  /\ \A d \in Callers : CallHolds(d)' = CallHolds(d)
           /\ \A d \in Callers : caller'[d] # NoCall => caller'[d].at <= now
<1>. DEFINE call == [pc |-> "claim", session |-> l, at |-> at]
<1>1. caller[c] = NoCall /\ caller' = [caller EXCEPT ![c] = call]
  BY DEF Announces
<1>2. call.pc = "claim" /\ call.at <= now
  BY DEF NewsInv, NewsTypeOK, Clock
<1>3. NewsTypeOK
  BY DEF NewsInv
<1>. HIDE DEF call
<1>4. CallHolds(c)' = {} /\ CallHolds(c) = {}
  BY <1>1, <1>2, <1>3, CallerHand DEF CallHolds
<1>5. \A d \in Callers : CallHolds(d)' = CallHolds(d)
  BY <1>1, <1>3, <1>4, CallerHand
<1>6. \A d \in Callers : caller'[d] # NoCall => caller'[d].at <= now
  BY <1>1, <1>2, <1>3 DEF NewsInv, NewsTypeOK
<1>. QED  BY <1>5, <1>6

(* A step that neither marks, nor tells, nor changes what is in hand.      *)
LEMMA QuietStep ==
    ASSUME NewsInv, NewsTypeOK', UNCHANGED <<notified, notices, poller>>, now <= now',
           \A d \in Callers : CallHolds(d)' = CallHolds(d),
           \A d \in Callers : caller'[d] # NoCall => caller'[d].at <= now
    PROVE  NewsInv'
<1>1. InHand' = InHand
  BY SameHands
<1>2. ToldOnce'
  BY <1>1 DEF NewsInv, ToldOnce
<1>3. \A d \in Callers : caller'[d] # NoCall => caller'[d].at <= now'
  <2>1. \A d \in Callers : caller'[d] # NoCall => caller'[d].at \in Nat
    BY DEF NewsTypeOK, Calls, Times
  <2>. QED  BY <2>1 DEF NewsInv, NewsTypeOK, Clock
<1>. QED  BY <1>2, <1>3 DEF NewsInv

LEMMA WriteQuiet ==
    ASSUME NewsInv, NewsTypeOK', NEW l \in Sessions,
           \/ StartUpload(l) \/ SettleFailed(l) \/ MoveSession(l) \/ HideOrShow(l)
           \/ \E c \in Callers :
                  AddOrChange(c, l) \/ SetAvailability(c, l) \/ SettleReady(c, l)
    PROVE  /\ UNCHANGED <<notified, notices, poller, now>>
           /\ \A d \in Callers : CallHolds(d)' = CallHolds(d)
           /\ \A d \in Callers : caller'[d] # NoCall => caller'[d].at <= now
<1>1. UNCHANGED <<notified, notices, poller, now>>
  BY DEF StartUpload, SettleFailed, MoveSession, HideOrShow, AddOrChange,
         SetAvailability, SettleReady, Write
<1>2. CASE UNCHANGED caller
  BY <1>1, <1>2 DEF NewsInv, CallHolds
<1>3. CASE \E c \in Callers : AddOrChange(c, l) \/ SetAvailability(c, l) \/ SettleReady(c, l)
  <2>1. PICK c \in Callers : \E at \in 0..now : Announces(c, l, at)
    BY <1>3 DEF AddOrChange, SetAvailability, SettleReady, NewsInv, NewsTypeOK, Clock
  <2>. QED  BY <1>1, <2>1, BegunCalls
<1>. QED
  BY <1>2, <1>3 DEF StartUpload, SettleFailed, MoveSession, HideOrShow

-----------------------------------------------------------------------------
(* What the steps of a teller do to what is in hand and to what was told.  *)

Takes(batch) ==
    /\ \A l \in batch : l \in Watchable /\ l \notin notified /\ notices[l] = 0
    /\ notified' = notified \cup batch
    /\ InHand' = InHand \cup batch
    /\ UNCHANGED notices

Tells(l) ==
    /\ l \in InHand /\ notices' = [notices EXCEPT ![l] = 1]
    /\ InHand' = InHand \ {l}
    /\ UNCHANGED notified

Drops(batch) ==
    /\ batch \subseteq InHand /\ InHand' = InHand \ batch
    /\ UNCHANGED <<notified, notices>>

(* Steps of tellers keep what can be watched.                              *)
TellerStep ==
    /\ UNCHANGED <<recording, available, start, hidden, now, writes>>
    /\ \/ \E batch \in SUBSET Sessions : Takes(batch) \/ Drops(batch)
       \/ \E l \in Sessions : Tells(l)

(* What two tellers hold stays apart.                                      *)
Apart ==
    /\ \A c, d \in Callers : c # d => CallHolds(c) \cap CallHolds(d) = {}
    /\ \A i, j \in Pollers : i # j => poller[i] \cap poller[j] = {}
    /\ \A c \in Callers, i \in Pollers : CallHolds(c) \cap poller[i] = {}

LEMMA InHandAre == ASSUME NewsTypeOK PROVE InHand \subseteq Sessions
BY HandIs DEF NewsTypeOK, CallHolds

(* A caller takes in hand what nobody holds, or lets go of what it holds.  *)
LEMMA CallerHands ==
    ASSUME NewsInv, NEW c \in Callers, NEW call,
           caller' = [caller EXCEPT ![c] = call], UNCHANGED poller,
           CallHolds(c)' \cap InHand = {}
    PROVE  /\ Apart'
           /\ InHand' = (InHand \ CallHolds(c)) \cup CallHolds(c)'
<1>. NewsTypeOK /\ ToldOnce
  BY DEF NewsInv
<1>1. /\ \A d \in Callers \ {c} : CallHolds(d)' = CallHolds(d)
      /\ \A i \in Pollers : poller'[i] = poller[i]
  BY CallerHand
<1>2. \A d \in Callers : CallHolds(d) \subseteq InHand
  BY HandIs
<1>3. \A i \in Pollers : poller[i] \subseteq InHand
  BY HandIs
<1>4. Apart'
  BY <1>1, <1>2, <1>3 DEF Apart, ToldOnce
<1>5. \A l : l \in InHand' <=> l \in (InHand \ CallHolds(c)) \cup CallHolds(c)'
  BY <1>1, HandIs, HandWillBe DEF ToldOnce
<1>. QED  BY <1>4, <1>5

LEMMA PollerHands ==
    ASSUME NewsInv, NEW i \in Pollers, NEW todo,
           poller' = [poller EXCEPT ![i] = todo], UNCHANGED caller,
           todo \cap (InHand \ poller[i]) = {}
    PROVE  /\ Apart'
           /\ InHand' = (InHand \ poller[i]) \cup todo
<1>. NewsTypeOK /\ ToldOnce
  BY DEF NewsInv
<1>1. /\ \A c \in Callers : CallHolds(c)' = CallHolds(c)
      /\ \A j \in Pollers \ {i} : poller'[j] = poller[j]
      /\ poller'[i] = todo
  BY PollerHand
<1>2. \A c \in Callers : CallHolds(c) \subseteq InHand /\ CallHolds(c) \cap poller[i] = {}
  BY HandIs DEF ToldOnce
<1>3. \A j \in Pollers \ {i} : poller[j] \subseteq InHand /\ poller[j] \cap poller[i] = {}
  BY HandIs DEF ToldOnce
<1>4. Apart'
  BY <1>1, <1>2, <1>3 DEF Apart, ToldOnce
<1>5. \A l : l \in InHand' <=> l \in (InHand \ poller[i]) \cup todo
  BY <1>1, <1>2, <1>3, HandIs, HandWillBe
<1>. QED  BY <1>4, <1>5

(* A READY recording that a claim takes can be watched.                    *)
LEMMA ClaimedIsWatchable ==
    ASSUME NewsInv, NEW c \in Callers, caller[c] # NoCall, Claims(caller[c])
    PROVE  LET l == caller[c].session IN
           l \in Sessions /\ l \in Watchable /\ l \notin notified /\ notices[l] = 0
<1>1. caller[c] \in Calls /\ caller[c].at <= now
  BY DEF NewsInv, NewsTypeOK
<1>2. ReleaseAt(caller[c].session) \in Nat /\ At(caller[c]) \in Nat /\ At(caller[c]) <= now
  BY <1>1, NewsAssumption DEF ReleaseAt, At, NewsInv, NewsTypeOK, Calls, Times, Clock
<1>. QED
  BY <1>1, <1>2 DEF Claims, Claimable, Watchable, ReleasedBy, NewsInv, NewsTypeOK, Calls, Clock

LEMMA CallerTells ==
    ASSUME NewsInv, NEW c \in Callers, CallerStep(c)
    PROVE  /\ Apart' /\ TellerStep
           /\ \A d \in Callers : caller'[d] # NoCall => caller'[d].at <= now
<1>. NewsTypeOK /\ ToldOnce
  BY DEF NewsInv
<1>. DEFINE old == caller[c]
<1>1. old # NoCall /\ old \in Calls /\ old.at <= now
  BY DEF CallerStep, ClaimOne, TellOne, CallerFails, NewsInv, NewsTypeOK
<1>2. UNCHANGED <<recording, available, start, hidden, now, poller, writes>>
  BY DEF CallerStep, ClaimOne, TellOne, CallerFails, CallerGoes
<1>3. /\ CallHolds(c) \in SUBSET Sessions
      /\ old.pc = "claim" => CallHolds(c) = {}
      /\ old.pc = "tell" => CallHolds(c) = {old.session}
      /\ CallHolds(c) \subseteq InHand
  BY <1>1, HandIs DEF CallHolds, Calls
<1>4. ASSUME caller' = [caller EXCEPT ![c] = NoCall]
      PROVE  /\ Apart' /\ InHand' = InHand \ CallHolds(c)
             /\ \A d \in Callers : caller'[d] # NoCall => caller'[d].at <= now
  <2>1. CallHolds(c)' = {}
    BY <1>2, <1>4, CallerHand
  <2>2. \A d \in Callers : caller'[d] # NoCall => caller'[d].at <= now
    BY <1>4 DEF NewsInv, NewsTypeOK
  <2>. QED  BY <1>2, <1>4, <2>1, <2>2, CallerHands
<1>5. CASE ClaimOne(c) /\ Claims(old)
  <2>. DEFINE call == [old EXCEPT !.pc = "tell"]
  <2>1. /\ caller' = [caller EXCEPT ![c] = call] /\ old.pc = "claim"
        /\ notified' = notified \cup {old.session} /\ UNCHANGED notices
    BY <1>5 DEF ClaimOne, CallerGoes, Marked, NobodyTold
  <2>2. /\ call # NoCall /\ call.pc = "tell" /\ call.session = old.session
        /\ call.at <= now
    BY <1>1 DEF NoCall, Calls
  <2>3. /\ old.session \in Sessions /\ old.session \in Watchable
        /\ old.session \notin notified /\ notices[old.session] = 0
    BY <1>1, <1>5, ClaimedIsWatchable
  <2>. HIDE DEF old, call
  <2>4. CallHolds(c)' = {old.session}
    <3>1. CallHolds(c)' = {l \in Sessions :
              call # NoCall /\ call.pc = "tell" /\ call.session = l}
      BY <1>2, <2>1, CallerHand
    <3>. QED  BY <2>2, <2>3, <3>1
  <2>5. old.session \notin InHand
    BY <2>3 DEF ToldOnce
  <2>6. Apart' /\ InHand' = InHand \cup {old.session}
    BY <1>2, <1>3, <2>1, <2>4, <2>5, CallerHands
  <2>7. Takes({old.session})
    BY <2>1, <2>3, <2>6 DEF Takes
  <2>8. \A d \in Callers : caller'[d] # NoCall => caller'[d].at <= now
    BY <2>1, <2>2 DEF NewsInv, NewsTypeOK
  <2>. QED  BY <1>2, <2>3, <2>6, <2>7, <2>8 DEF TellerStep
<1>6. CASE ClaimOne(c) /\ ~Claims(old)
  <2>1. /\ caller' = [caller EXCEPT ![c] = NoCall] /\ old.pc = "claim"
        /\ UNCHANGED <<notified, notices>>
    BY <1>6 DEF ClaimOne, CallerGoes, NobodyTold
  <2>2. Drops({})
    BY <1>3, <1>4, <2>1 DEF Drops
  <2>. QED  BY <1>2, <1>4, <2>1, <2>2 DEF TellerStep
<1>7. CASE TellOne(c)
  <2>1. /\ caller' = [caller EXCEPT ![c] = NoCall] /\ old.pc = "tell"
        /\ UNCHANGED notified
        /\ UNCHANGED notices \/ notices' = [notices EXCEPT ![old.session] = @ + 1]
    BY <1>7 DEF TellOne, CallerGoes, NobodyTold, Notify
  <2>2. old.session \in Sessions /\ old.session \in InHand /\ notices[old.session] = 0
    BY <1>1, <1>3, <2>1 DEF Calls, ToldOnce
  <2>3. Drops({old.session}) \/ Tells(old.session)
    BY <1>3, <1>4, <2>1, <2>2 DEF Drops, Tells
  <2>. QED  BY <1>2, <1>4, <2>1, <2>2, <2>3 DEF TellerStep
<1>8. CASE CallerFails(c)
  <2>1. caller' = [caller EXCEPT ![c] = NoCall] /\ UNCHANGED <<notified, notices>>
    BY <1>8 DEF CallerFails, CallerGoes, NobodyTold
  <2>2. Drops(CallHolds(c))
    BY <1>3, <1>4, <2>1 DEF Drops
  <2>. QED  BY <1>2, <1>3, <1>4, <2>1, <2>2 DEF TellerStep
<1>. QED  BY <1>5, <1>6, <1>7, <1>8 DEF CallerStep

LEMMA PollerTells ==
    ASSUME NewsInv, NEW i \in Pollers, PollerStep(i)
    PROVE  Apart' /\ TellerStep /\ UNCHANGED caller
<1>. NewsTypeOK /\ ToldOnce
  BY DEF NewsInv
<1>1. UNCHANGED <<recording, available, start, hidden, now, caller, writes>>
  BY DEF PollerStep, ClaimDue, TellDue, PollerFails, PollerGoes
<1>2. poller[i] \in SUBSET Sessions /\ poller[i] \subseteq InHand
  BY HandIs DEF NewsTypeOK
<1>3. CASE ClaimDue(i)
  <2>1. PICK batch \in Batches : notified' = Marked(batch) /\ PollerGoes(i, batch)
    BY <1>3 DEF ClaimDue
  <2>2. batch \in SUBSET Sessions /\ batch \subseteq Due
    BY DEF Batches, Due
  <2>3. \A l \in batch : l \in Watchable /\ l \notin notified
    BY <2>2 DEF Due, Claimable, Watchable
  <2>4. \A l \in batch : notices[l] = 0
    BY <2>2, <2>3 DEF NewsInv, NewsTypeOK
  <2>5. poller[i] = {} /\ notified' = notified \cup batch /\ UNCHANGED notices
    BY <1>3, <2>1 DEF ClaimDue, Marked, NobodyTold
  <2>6. poller' = [poller EXCEPT ![i] = batch]
    BY <2>1 DEF PollerGoes
  <2>7. batch \cap InHand = {}
    BY <2>3 DEF ToldOnce
  <2>8. Apart' /\ InHand' = InHand \cup batch
    BY <1>1, <2>5, <2>6, <2>7, PollerHands
  <2>9. Takes(batch)
    BY <2>3, <2>4, <2>5, <2>8 DEF Takes
  <2>. QED  BY <1>1, <2>2, <2>8, <2>9 DEF TellerStep
<1>4. ASSUME NEW gone \in SUBSET poller[i], poller' = [poller EXCEPT ![i] = @ \ gone]
      PROVE  Apart' /\ InHand' = InHand \ gone
  <2>1. /\ Apart'
        /\ InHand' = (InHand \ poller[i]) \cup (poller[i] \ gone)
    BY <1>1, <1>4, PollerHands
  <2>. QED  BY <1>2, <2>1
<1>5. CASE TellDue(i)
  <2>1. PICK l \in poller[i] :
            /\ IF l \in hidden THEN NobodyTold ELSE Notify(l)
            /\ poller' = [poller EXCEPT ![i] = @ \ {l}]
            /\ UNCHANGED notified
    BY <1>5 DEF TellDue, PollerGoes
  <2>2. l \in InHand /\ l \in Sessions /\ notices[l] = 0
    BY <1>2 DEF ToldOnce
  <2>3. Apart' /\ InHand' = InHand \ {l}
    BY <1>4, <2>1
  <2>4. Tells(l) \/ Drops({l})
    BY <2>1, <2>2, <2>3 DEF Tells, Drops, NobodyTold, Notify
  <2>. QED  BY <1>1, <2>2, <2>3, <2>4 DEF TellerStep
<1>6. CASE PollerFails(i)
  <2>1. /\ UNCHANGED <<notified, notices>>
        /\ \E gone \in SUBSET poller[i] : poller' = [poller EXCEPT ![i] = @ \ gone]
    <3>1. CASE \E l \in poller[i] : PollerGoes(i, poller[i] \ {l})
      BY <1>6, <3>1 DEF PollerFails, PollerGoes, NobodyTold
    <3>2. CASE PollerGoes(i, {})
      <4>1. poller' = [poller EXCEPT ![i] = @ \ poller[i]]
        BY <3>2 DEF PollerGoes
      <4>. QED  BY <1>6, <4>1 DEF PollerFails, NobodyTold
    <3>. QED  BY <1>6, <3>1, <3>2 DEF PollerFails
  <2>2. PICK gone \in SUBSET poller[i] : poller' = [poller EXCEPT ![i] = @ \ gone]
    BY <2>1
  <2>3. Apart' /\ InHand' = InHand \ gone
    BY <1>4, <2>2
  <2>4. Drops(gone)
    BY <1>2, <2>1, <2>3 DEF Drops
  <2>. QED  BY <1>1, <1>2, <2>3, <2>4 DEF TellerStep
<1>. QED  BY <1>3, <1>5, <1>6 DEF PollerStep

LEMMA TellerKeeps ==
    ASSUME NewsInv, NewsTypeOK', Apart', TellerStep,
           \A d \in Callers : caller'[d] # NoCall => caller'[d].at <= now
    PROVE  NewsInv'
<1>. NewsTypeOK /\ ToldOnce
  BY DEF NewsInv
<1>0. \A l \in Sessions : notices[l] \in Nat /\ notices[l] <= 1
  BY DEF NewsTypeOK, ToldOnce
<1>1. CASE \E batch \in SUBSET Sessions : Takes(batch)
  BY <1>0, <1>1 DEF Takes, NewsInv, ToldOnce, TellerStep, Apart
<1>2. CASE \E batch \in SUBSET Sessions : Drops(batch)
  BY <1>0, <1>2 DEF Drops, NewsInv, ToldOnce, TellerStep, Apart
<1>3. CASE \E l \in Sessions : Tells(l)
  <2>. PICK l \in Sessions : Tells(l)
    BY <1>3
  <2>1. /\ notices'[l] = 1 /\ \A m \in Sessions \ {l} : notices'[m] = notices[m]
        /\ l \in notified /\ InHand \subseteq Sessions
    BY InHandAre DEF Tells, NewsTypeOK, ToldOnce
  <2>2. ToldOnce'
    BY <1>0, <2>1 DEF Tells, ToldOnce, Apart
  <2>. QED  BY <2>1, <2>2 DEF Tells, NewsInv, TellerStep
<1>. QED  BY <1>1, <1>2, <1>3 DEF TellerStep

LEMMA InitNewsInv == AnnouncementInit => NewsInv
<1>. SUFFICES ASSUME AnnouncementInit PROVE NewsInv
  OBVIOUS
<1>1. NewsTypeOK
  BY InitNewsType
<1>2. (\A c \in Callers : CallHolds(c) = {}) /\ (\A i \in Pollers : poller[i] = {})
  BY DEF AnnouncementInit, CallHolds
<1>3. InHand = {}
  BY <1>2, HandIs
<1>. QED  BY <1>1, <1>2, <1>3 DEF AnnouncementInit, NewsInv, ToldOnce

(* A step is a write, or a step of one teller.                             *)
LEMMA StepKinds ==
    ASSUME NewsInv, [AnnouncementNext]_announcementVars
    PROVE  /\ NewsInv'
           /\ \/ TellerStep
              \/ UNCHANGED <<notified, notices>> /\ InHand' = InHand
<1>. NewsTypeOK /\ NewsTypeOK'
  BY NextNewsType DEF NewsInv
<1>1. ASSUME NEW l \in Sessions,
             \/ StartUpload(l) \/ SettleFailed(l) \/ MoveSession(l) \/ HideOrShow(l)
             \/ \E c \in Callers :
                    AddOrChange(c, l) \/ SetAvailability(c, l) \/ SettleReady(c, l)
      PROVE  NewsInv' /\ UNCHANGED <<notified, notices>> /\ InHand' = InHand
  <2>1. /\ UNCHANGED <<notified, notices, poller, now>>
        /\ \A d \in Callers : CallHolds(d)' = CallHolds(d)
        /\ \A d \in Callers : caller'[d] # NoCall => caller'[d].at <= now
    BY <1>1, WriteQuiet
  <2>2. now <= now'
    BY <2>1 DEF NewsTypeOK, Clock
  <2>3. InHand' = InHand
    BY <2>1, SameHands
  <2>. QED  BY <2>1, <2>2, <2>3, QuietStep
<1>2. CASE ClockTicks \/ UNCHANGED announcementVars
  <2>1. /\ UNCHANGED <<notified, notices, poller, caller>> /\ now <= now'
        /\ \A d \in Callers : CallHolds(d)' = CallHolds(d)
    BY <1>2 DEF ClockTicks, announcementVars, CallHolds, NewsTypeOK, Clock
  <2>2. InHand' = InHand
    BY <2>1, SameHands
  <2>. QED  BY <2>1, <2>2, QuietStep DEF NewsInv
<1>3. ASSUME NEW c \in Callers, CallerStep(c)
      PROVE  NewsInv' /\ TellerStep
  BY <1>3, CallerTells, TellerKeeps
<1>4. ASSUME NEW i \in Pollers, PollerStep(i)
      PROVE  NewsInv' /\ TellerStep
  BY <1>4, PollerTells, TellerKeeps DEF NewsInv
<1>. QED  BY <1>1, <1>2, <1>3, <1>4 DEF AnnouncementNext

LEMMA NewsInvariant == AnnouncementSpec => []NewsInv
BY InitNewsInv, StepKinds, PTL DEF AnnouncementSpec

(* Nobody is told of a recording twice, and no two tellers have it in hand *)
(* (claimAnnouncement, claimDueAnnouncements).                             *)
THEOREM TellersTakeTurns == AnnouncementSpec => []ToldOnce
BY NewsInvariant, PTL DEF NewsInv

-----------------------------------------------------------------------------
(* The announcements implement the promise. *)

LEMMA InitPromise == AnnouncementInit => Promise!NewsInit
<1>. SUFFICES ASSUME AnnouncementInit PROVE Promise!NewsInit
  OBVIOUS
<1>1. News = [l \in Sessions |-> "fresh"]
  BY DEF AnnouncementInit, News
<1>. QED  BY <1>1 DEF Promise!NewsInit, Watchable

LEMMA TellerPromise ==
    ASSUME NewsInv, TellerStep
    PROVE  Promise!NewsNext
<1>. NewsTypeOK /\ ToldOnce
  BY DEF NewsInv
<1>1. UNCHANGED Watchable
  BY DEF TellerStep, Watchable, ReleasedBy, ReleaseAt
<1>2. \A l \in Sessions : News[l] =
         IF notices[l] > 0 THEN "told" ELSE IF l \notin notified THEN "fresh"
         ELSE IF l \in InHand THEN "taken" ELSE "dropped"
  BY DEF News
<1>3. \A l \in InHand : l \in Sessions /\ News[l] = "taken"
  BY <1>2, InHandAre DEF ToldOnce
<1>4. ASSUME NEW batch \in SUBSET Sessions, Takes(batch)
      PROVE  Promise!Take(batch)
  <2>1. \A l \in batch : News[l] = "fresh" /\ l \in Watchable
    BY <1>2, <1>4 DEF Takes
  <2>2. News' = [l \in Sessions |-> IF l \in batch THEN "taken" ELSE News[l]]
    BY <1>4 DEF Takes, News
  <2>. QED  BY <1>1, <2>1, <2>2 DEF Promise!Take, Promise!Becomes
<1>5. ASSUME NEW batch \in SUBSET Sessions, Drops(batch)
      PROVE  Promise!Drop(batch)
  <2>1. \A l \in batch : News[l] = "taken"
    BY <1>3, <1>5 DEF Drops
  <2>2. \A l \in batch : notices[l] = 0 /\ l \in notified
    BY <1>5 DEF Drops, ToldOnce
  <2>3. News' = [l \in Sessions |-> IF l \in batch THEN "dropped" ELSE News[l]]
    BY <1>5, <2>2 DEF Drops, News
  <2>. QED  BY <1>1, <2>1, <2>3 DEF Promise!Drop, Promise!Becomes
<1>6. ASSUME NEW l \in Sessions, Tells(l)
      PROVE  Promise!Tell(l)
  <2>1. News[l] = "taken"
    BY <1>3, <1>6 DEF Tells
  <2>2. notices' = [notices EXCEPT ![l] = 1] /\ DOMAIN notices = Sessions
    BY <1>6 DEF Tells, NewsTypeOK
  <2>3. News' = [m \in Sessions |-> IF m \in {l} THEN "told" ELSE News[m]]
    BY <1>6, <2>2 DEF Tells, News
  <2>. QED  BY <1>1, <2>1, <2>3 DEF Promise!Tell, Promise!Becomes
<1>. QED  BY <1>4, <1>5, <1>6 DEF TellerStep, Promise!NewsNext

LEMMA StepPromise ==
    ASSUME NewsInv, [AnnouncementNext]_announcementVars
    PROVE  [Promise!NewsNext]_<<Watchable, News>>
<1>1. CASE TellerStep
  BY <1>1, TellerPromise
<1>2. CASE UNCHANGED <<notified, notices>> /\ InHand' = InHand
  <2>1. UNCHANGED News
    BY <1>2 DEF News
  <2>2. Watchable' \in SUBSET Sessions
    BY DEF Watchable
  <2>. QED  BY <2>1, <2>2 DEF Promise!NewsNext, Promise!OpenOrClose
<1>. QED  BY <1>1, <1>2, StepKinds

(* Whatever requests and polls write, announce, fail or leave undone, a    *)
(* recording is news once, taken up by one teller while it can be watched, *)
(* and told of at most once.                                               *)
THEOREM AnnouncementsKeepPromise == AnnouncementSpec => KeepsPromise
<1>1. AnnouncementInit => Promise!NewsInit
  BY InitPromise
<1>2. NewsInv /\ [AnnouncementNext]_announcementVars
         => [Promise!NewsNext]_<<Watchable, News>>
  BY StepPromise
<1>3. AnnouncementSpec => Promise!NewsInit /\ [][Promise!NewsNext]_<<Watchable, News>>
  BY <1>1, <1>2, NewsInvariant, PTL DEF AnnouncementSpec
<1>. QED  BY <1>3 DEF KeepsPromise, Promise!NewsSpec, Promise!newsVars

=============================================================================
