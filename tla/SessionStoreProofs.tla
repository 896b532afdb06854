------------------------- MODULE SessionStoreProofs -------------------------
(***************************************************************************)
(* Theorems about SessionStore, for every number of sessions, replicas,    *)
(* requests, SSO sessions and token generations, and every set of faults.  *)
(***************************************************************************)
EXTENDS SessionStore, TLAPS

(* The components of a flight's key.                                       *)
LEMMA FlightKeys ==
    /\ \A f \in Flights : /\ Key(f) \in Sessions /\ Gen(f) \in Gens
                          /\ f[1] \in Replicas
    /\ \A r \in Replicas, s \in Sessions, g \in Gens :
          /\ <<r, s, g>> \in Flights
          /\ Key(<<r, s, g>>) = s /\ Gen(<<r, s, g>>) = g
BY DEF Flights, Key, Gen

(* The states of a request are of its type.                                *)
LEMMA RequestTypes ==
    /\ Idle \in RequestStates
    /\ \A f \in Flights :
          /\ At("loaded", f) \in RequestStates /\ At("reload", f) \in RequestStates
          /\ At("remove", f) \in RequestStates /\ At("signOut", f) \in RequestStates
          /\ \A usable \in BOOLEAN : Joined(f, usable) \in RequestStates
    /\ \A r \in Replicas, s \in Sessions, old \in Sessions \cup {NoSession} :
          /\ SigningIn("create", r, s, old) \in RequestStates
          /\ SigningIn("index", r, s, old) \in RequestStates
          /\ SigningIn("replace", r, s, old) \in RequestStates
BY DEF RequestStates

(* What the fields of a request's state are.                               *)
LEMMA RequestFields ==
    ASSUME NEW r \in RequestStates
    PROVE  /\ r.pc \in {"idle", "loaded", "reload", "remove", "signOut", "joined",
                        "create", "index", "replace"}
           /\ r.pc = "idle" <=> r = Idle
           /\ r.pc \in {"loaded", "reload", "remove", "signOut", "joined"}
                 => r.at \in Flights
           /\ r.pc = "joined" => r.usable \in BOOLEAN
           /\ r.pc \in {"create", "index", "replace"}
                 => /\ r.replica \in Replicas /\ r.session \in Sessions
                    /\ r.old \in Sessions \cup {NoSession}
<1>1. CASE r = Idle
  BY <1>1 DEF Idle
<1>2. ASSUME NEW pc \in {"loaded", "reload", "remove", "signOut"}, NEW f \in Flights,
             r = At(pc, f)
      PROVE  r.pc = pc /\ r.at = f
  BY <1>2 DEF At
<1>3. ASSUME NEW f \in Flights, NEW usable \in BOOLEAN, r = Joined(f, usable)
      PROVE  r.pc = "joined" /\ r.at = f /\ r.usable = usable
  BY <1>3 DEF Joined
<1>4. ASSUME NEW pc \in {"create", "index", "replace"}, NEW p \in Replicas,
             NEW s \in Sessions, NEW old \in Sessions \cup {NoSession},
             r = SigningIn(pc, p, s, old)
      PROVE  r.pc = pc /\ r.replica = p /\ r.session = s /\ r.old = old
  BY <1>4 DEF SigningIn
<1>5. \/ r = Idle
      \/ \E pc \in {"loaded", "reload", "remove", "signOut"}, f \in Flights : r = At(pc, f)
      \/ \E f \in Flights, usable \in BOOLEAN : r = Joined(f, usable)
      \/ \E pc \in {"create", "index", "replace"}, p \in Replicas, s \in Sessions,
            old \in Sessions \cup {NoSession} : r = SigningIn(pc, p, s, old)
  BY DEF RequestStates
<1>. QED  BY <1>1, <1>2, <1>3, <1>4, <1>5 DEF Idle

(* The states of a flight are of its type.                                 *)
LEMMA FlightTypes ==
    /\ Plain("none") \in FlightStates /\ Plain("lock") \in FlightStates
    /\ Plain("check") \in FlightStates /\ Plain("refresh") \in FlightStates
    /\ Plain("write") \in FlightStates /\ Plain("index") \in FlightStates
    /\ Plain("drop") \in FlightStates /\ Plain("settled") \in FlightStates
    /\ \A left \in 1..Polls :
          /\ Waiting("wait", left) \in FlightStates
          /\ Waiting("peek", left) \in FlightStates
          /\ Waiting("last", left) \in FlightStates
    /\ Releasing("refreshed") \in FlightStates /\ Releasing("final") \in FlightStates
    /\ Releasing("later") \in FlightStates /\ Releasing("thrown") \in FlightStates
BY DEF FlightStates, Outcomes

(* What the fields of a flight's state are.                                *)
LEMMA FlightFields ==
    ASSUME NEW r \in FlightStates
    PROVE  /\ r.pc \in {"none", "lock", "check", "refresh", "write", "index", "drop",
                        "settled", "wait", "peek", "last", "release"}
           /\ r.pc \in {"wait", "peek", "last"} => r.left \in 1..Polls
           /\ r.pc = "release" => r.outcome \in Outcomes
<1>1. ASSUME NEW pc \in {"none", "lock", "check", "refresh", "write", "index", "drop",
                         "settled"}, r = Plain(pc)
      PROVE  r.pc = pc
  BY <1>1 DEF Plain
<1>2. ASSUME NEW pc \in {"wait", "peek", "last"}, NEW left \in 1..Polls,
             r = Waiting(pc, left)
      PROVE  r.pc = pc /\ r.left = left
  BY <1>2 DEF Waiting
<1>3. ASSUME NEW outcome \in Outcomes, r = Releasing(outcome)
      PROVE  r.pc = "release" /\ r.outcome = outcome
  BY <1>3 DEF Releasing
<1>4. \/ \E pc \in {"none", "lock", "check", "refresh", "write", "index", "drop",
                    "settled"} : r = Plain(pc)
      \/ \E pc \in {"wait", "peek", "last"}, left \in 1..Polls : r = Waiting(pc, left)
      \/ \E outcome \in Outcomes : r = Releasing(outcome)
  BY DEF FlightStates
<1>. QED  BY <1>1, <1>2, <1>3, <1>4

(* The states of a logout are of its type.                                 *)
LEMMA LogoutTypes ==
    /\ Idle \in LogoutStates
    /\ \A pc \in {"members", "delete", "clean", "done", "failed"},
          before \in SUBSET Sessions, found \in SUBSET Sessions :
             LogoutAt(pc, before, found) \in LogoutStates
    /\ \A r \in LogoutStates :
          r.pc # "idle" => r.before \in SUBSET Sessions /\ r.found \in SUBSET Sessions
BY DEF LogoutStates, LogoutAt, Idle

-----------------------------------------------------------------------------
(* Type correctness. *)

LEMMA ToType ==
    ASSUME TypeOK, NEW q \in Requests, NEW state \in RequestStates, To(q, state)
    PROVE  request' \in [Requests -> RequestStates]
BY DEF TypeOK, To

LEMMA StepType ==
    ASSUME TypeOK, NEW f \in Flights, NEW state \in FlightStates, Step(f, state)
    PROVE  flight' \in [Flights -> FlightStates]
BY DEF TypeOK, Step

LEMMA SettleType ==
    ASSUME TypeOK, NEW f \in Flights, NEW outcome \in Outcomes, Settle(f, outcome)
    PROVE  /\ request' \in [Requests -> RequestStates]
           /\ flight' \in [Flights -> FlightStates]
<1>1. flight' \in [Flights -> FlightStates]
  <2>1. Plain(IF outcome = "refreshed" THEN "settled" ELSE "none") \in FlightStates
    BY FlightTypes
  <2>. QED  BY <2>1, StepType DEF Settle
<1>2. ASSUME NEW q \in Requests, request[q].pc = "joined", request[q].at = f
      PROVE  AfterRenewal(q, outcome) \in RequestStates
  BY <1>2, RequestTypes DEF AfterRenewal
<1>3. request' \in [Requests -> RequestStates]
  BY <1>2 DEF Settle, TypeOK
<1>. QED  BY <1>1, <1>3

LEMMA StoreTypes ==
    ASSUME TypeOK, NEW s \in Sessions, NEW gone \in SUBSET Sessions, NEW keys
    PROVE  /\ Indexed(s, keys) => index' \in [Keys -> SUBSET Sessions]
           /\ Unindexed(gone, keys) => index' \in [Keys -> SUBSET Sessions]
           /\ Deleted(gone) => entry' \in [Sessions -> {"none", "stored", "gone"}]
<1>1. Indexed(s, keys) => index' \in [Keys -> SUBSET Sessions]
  BY DEF TypeOK, Indexed
<1>2. Unindexed(gone, keys) => index' \in [Keys -> SUBSET Sessions]
  BY DEF TypeOK, Unindexed
<1>3. Deleted(gone) => entry' \in [Sessions -> {"none", "stored", "gone"}]
  BY DEF TypeOK, Deleted
<1>. QED  BY <1>1, <1>2, <1>3

LEMMA DropTypes ==
    ASSUME TypeOK, NEW s \in Sessions, Drop(s) \/ DropSome(s)
    PROVE  /\ index' \in [Keys -> SUBSET Sessions]
           /\ entry' \in [Sessions -> {"none", "stored", "gone"}]
<1>. {s} \in SUBSET Sessions
  OBVIOUS
<1>1. CASE Drop(s)
  BY <1>1, StoreTypes DEF Drop
<1>2. CASE Deleted({s}) /\ (UNCHANGED index \/ Unindexed({s}, {SidOf[s]}))
  BY <1>2, StoreTypes DEF TypeOK
<1>3. CASE UNCHANGED <<entry, index>>
  BY <1>3 DEF TypeOK
<1>. QED  BY <1>1, <1>2, <1>3 DEF DropSome

LEMMA IndexedTypes ==
    ASSUME TypeOK, NEW s \in Sessions, IndexedSome(s)
    PROVE  index' \in [Keys -> SUBSET Sessions]
<1>1. CASE UNCHANGED index
  BY <1>1 DEF TypeOK
<1>2. CASE UNCHANGED index \/ Indexed(s, {SidOf[s]}) \/ Indexed(s, KeysOf(s))
  BY <1>1, <1>2, StoreTypes
<1>. QED  BY <1>2 DEF IndexedSome

(* The steps of a request keep every variable in its type.                 *)
LEMMA RequestTypeStep ==
    ASSUME TypeOK, NEW q \in Requests, RequestStep(q)
    PROVE  TypeOK'
<1>. request[q] \in RequestStates
  BY DEF TypeOK
<1>1. CASE Create(q)
  <2>. DEFINE r == request[q]
  <2>1. r.pc = "create" /\ r.session \in Sessions
    BY <1>1, RequestFields DEF Create
  <2>2. SigningIn("index", r.replica, r.session, r.old) \in RequestStates
    BY <2>1, RequestFields, RequestTypes
  <2>3. request' \in [Requests -> RequestStates]
    BY <1>1, <2>2, ToType DEF Create
  <2>. QED  BY <1>1, <2>1, <2>3, ConstantsAssumption DEF Create, TypeOK, idpVars
<1>2. CASE IndexNew(q)
  <2>. DEFINE r == request[q]
  <2>1. r.pc = "index" /\ r.session \in Sessions
    BY <1>2, RequestFields DEF IndexNew
  <2>2. SigningIn("replace", r.replica, r.session, r.old) \in RequestStates
    BY <2>1, RequestFields, RequestTypes
  <2>3. request' \in [Requests -> RequestStates]
    BY <1>2, <2>2, ToType, RequestTypes DEF IndexNew
  <2>4. index' \in [Keys -> SUBSET Sessions]
    BY <1>2, <2>1, StoreTypes DEF IndexNew
  <2>. QED  BY <1>2, <2>1, <2>3, <2>4 DEF IndexNew, TypeOK, idpVars
<1>3. CASE Replace(q)
  <2>. DEFINE r == request[q]
  <2>1. r.pc = "replace" /\ r.session \in Sessions
    BY <1>3, RequestFields DEF Replace
  <2>2. request' \in [Requests -> RequestStates]
    BY <1>3, ToType, RequestTypes DEF Replace
  <2>3. /\ index' \in [Keys -> SUBSET Sessions]
        /\ entry' \in [Sessions -> {"none", "stored", "gone"}]
    <3>1. CASE r.old \in Sessions
      BY <1>3, <3>1, DropTypes DEF Replace
    <3>2. CASE r.old \notin Sessions
      BY <1>3, <3>2 DEF Replace, Drop, Deleted, Unindexed, TypeOK
    <3>. QED  BY <3>1, <3>2
  <2>. QED  BY <1>3, <2>1, <2>2, <2>3 DEF Replace, TypeOK, idpVars
<1>4. CASE StillFresh(q)
  <2>1. request' \in [Requests -> RequestStates]
    BY <1>4, ToType, RequestTypes DEF StillFresh
  <2>. QED  BY <1>4, <2>1 DEF StillFresh, TypeOK, storeVars, idpVars
<1>5. CASE Reload(q)
  <2>1. request[q].at \in Flights
    BY <1>5, RequestFields DEF Reload
  <2>2. request' \in [Requests -> RequestStates]
    BY <1>5, <2>1, ToType, RequestTypes DEF Reload
  <2>. QED  BY <1>5, <2>2 DEF Reload, TypeOK, storeVars, idpVars
<1>6. CASE Remove(q)
  <2>1. Key(request[q].at) \in Sessions
    BY <1>6, RequestFields, FlightKeys DEF Remove
  <2>2. request' \in [Requests -> RequestStates]
    BY <1>6, ToType, RequestTypes DEF Remove
  <2>. QED  BY <1>6, <2>1, <2>2, DropTypes DEF Remove, TypeOK, idpVars
<1>7. CASE RequestFails(q)
  <2>1. request' \in [Requests -> RequestStates]
    BY <1>7, ToType, RequestTypes DEF RequestFails
  <2>2. /\ index' \in [Keys -> SUBSET Sessions]
        /\ entry' \in [Sessions -> {"none", "stored", "gone"}]
    <3>1. CASE UNCHANGED <<entry, index>>
      BY <3>1 DEF TypeOK
    <3>2. CASE request[q].pc = "index" /\ IndexedSome(request[q].session) /\ UNCHANGED entry
      <4>1. request[q].session \in Sessions
        BY <3>2, RequestFields
      <4>. QED  BY <3>2, <4>1, IndexedTypes DEF TypeOK
    <3>3. CASE request[q].pc = "replace" /\ DropSome(request[q].old)
      <4>1. CASE request[q].old \in Sessions
        BY <3>3, <4>1, DropTypes
      <4>2. CASE request[q].old \notin Sessions
        BY <3>3, <4>2 DEF DropSome, Drop, Deleted, Unindexed, TypeOK
      <4>. QED  BY <4>1, <4>2
    <3>4. CASE /\ request[q].pc \in {"remove", "signOut"}
               /\ DropSome(Key(request[q].at))
      <4>1. Key(request[q].at) \in Sessions
        BY <3>4, RequestFields, FlightKeys
      <4>. QED  BY <3>4, <4>1, DropTypes
    <3>. QED  BY <1>7, <3>1, <3>2, <3>3, <3>4 DEF RequestFails
  <2>. QED  BY <1>7, <2>1, <2>2 DEF RequestFails, TypeOK, idpVars
<1>8. ASSUME NEW usable \in BOOLEAN, DeadlinePassed(q, usable)
      PROVE  TypeOK'
  <2>1. request[q].at \in Flights
    BY <1>8, RequestFields DEF DeadlinePassed
  <2>2. request' \in [Requests -> RequestStates]
    BY <1>8, <2>1, ToType, RequestTypes DEF DeadlinePassed
  <2>. QED  BY <1>8, <2>2 DEF DeadlinePassed, TypeOK, storeVars, idpVars
<1>9. ASSUME NEW usable \in BOOLEAN, Renew(q, usable)
      PROVE  TypeOK'
  <2>1. request[q].at \in Flights
    BY <1>9, RequestFields DEF Renew
  <2>2. request' \in [Requests -> RequestStates]
    BY <1>9, <2>1, ToType, RequestTypes DEF Renew
  <2>3. flight' \in [Flights -> FlightStates]
    BY <1>9, <2>1, FlightTypes DEF Renew, TypeOK
  <2>. QED  BY <1>9, <2>2, <2>3 DEF Renew, TypeOK, storeVars, idpVars
<1>. QED  BY <1>1, <1>2, <1>3, <1>4, <1>5, <1>6, <1>7, <1>8, <1>9 DEF RequestStep

(* What keeps the generations within MaxGen: the newest is not refreshed,  *)
(* and stored tokens are of some generation.                               *)
Bounded ==
    /\ \A f \in Flights : flight[f].pc # "none" => Gen(f) < MaxGen
    /\ \A s \in Sessions : Stored(s) => gen[s] # 0

LEMMA GrantType ==
    ASSUME TypeOK, Bounded, NEW f \in Flights, flight[f].pc # "none"
    PROVE  Gen(f) + 1 \in 1..MaxGen
<1>. MaxGen \in Nat /\ Gen(f) \in 1..MaxGen /\ Gen(f) < MaxGen
  BY FlightKeys, ConstantsAssumption DEF Gens, Bounded
<1>. QED  OBVIOUS

(* The steps of a refresh keep every variable in its type.                 *)
LEMMA FlightTypeStep ==
    ASSUME TypeOK, Bounded, NEW f \in Flights, FlightStep(f) \/ Forget(f)
    PROVE  TypeOK'
<1>. flight[f] \in FlightStates /\ Key(f) \in Sessions /\ Gen(f) \in Gens
  BY FlightKeys DEF TypeOK
<1>. MaxGen \in Nat /\ Polls \in Nat
  BY ConstantsAssumption
<1>1. CASE TakeLock(f)
  <2>1. Polls \in 1..Polls
    BY ConstantsAssumption
  <2>2. flight' \in [Flights -> FlightStates]
    BY <1>1, <2>1, StepType, FlightTypes DEF TakeLock
  <2>3. lock' \in [Sessions -> Flights \cup {NoFlight}]
    BY <1>1 DEF TakeLock, TypeOK
  <2>. QED  BY <1>1, <2>2, <2>3 DEF TakeLock, TypeOK, idpVars
<1>2. CASE Check(f)
  <2>1. flight' \in [Flights -> FlightStates]
    <3>1. (IF ~Stored(Key(f)) THEN Releasing("final")
           ELSE IF Newer(f) THEN Releasing("refreshed")
           ELSE Plain("refresh")) \in FlightStates
      BY FlightTypes
    <3>. QED  BY <1>2, <3>1, StepType DEF Check
  <2>. QED  BY <1>2, <2>1 DEF Check, TypeOK, storeVars, idpVars
<1>3. CASE Grant(f)
  <2>1. flight' \in [Flights -> FlightStates]
    BY <1>3, StepType, FlightTypes DEF Grant
  <2>2. Gen(f) + 1 \in 0..MaxGen
    BY <1>3, GrantType DEF Grant
  <2>. QED  BY <1>3, <2>1, <2>2 DEF Grant, TypeOK, storeVars
<1>4. CASE Refuse(f)
  <2>1. flight' \in [Flights -> FlightStates]
    BY <1>4, StepType, FlightTypes DEF Refuse
  <2>. QED  BY <1>4, <2>1 DEF Refuse, TypeOK, storeVars, idpVars
<1>5. CASE Unanswered(f)
  <2>1. flight' \in [Flights -> FlightStates]
    BY <1>5, StepType, FlightTypes DEF Unanswered
  <2>2. Gen(f) + 1 \in 0..MaxGen
    BY <1>5, GrantType DEF Unanswered
  <2>. QED  BY <1>5, <2>1, <2>2 DEF Unanswered, TypeOK, storeVars
<1>6. CASE Write(f)
  <2>1. flight' \in [Flights -> FlightStates]
    BY <1>6, StepType, FlightTypes DEF Write
  <2>2. Gen(f) + 1 \in 0..MaxGen
    BY <1>6, GrantType DEF Write
  <2>. QED  BY <1>6, <2>1, <2>2 DEF Write, TypeOK, idpVars
<1>7. CASE IndexAgain(f)
  <2>1. flight' \in [Flights -> FlightStates]
    BY <1>7, StepType, FlightTypes DEF IndexAgain
  <2>. QED  BY <1>7, <2>1, StoreTypes DEF IndexAgain, TypeOK, idpVars
<1>8. CASE DropRefused(f)
  <2>1. flight' \in [Flights -> FlightStates]
    BY <1>8, StepType, FlightTypes DEF DropRefused
  <2>. QED  BY <1>8, <2>1, DropTypes DEF DropRefused, TypeOK, idpVars
<1>9. CASE Release(f)
  <2>1. flight[f].outcome \in Outcomes
    BY <1>9, FlightFields DEF Release
  <2>2. /\ request' \in [Requests -> RequestStates]
        /\ flight' \in [Flights -> FlightStates]
    BY <1>9, <2>1, SettleType DEF Release
  <2>3. lock' \in [Sessions -> Flights \cup {NoFlight}]
    BY <1>9 DEF Release, TypeOK
  <2>. QED  BY <1>9, <2>2, <2>3 DEF Release, TypeOK, idpVars
<1>10. CASE Wait(f)
  <2>1. flight[f].left \in 1..Polls
    BY <1>10, FlightFields DEF Wait
  <2>2. Waiting("peek", flight[f].left) \in FlightStates
    BY <2>1, FlightTypes
  <2>3. /\ request' \in [Requests -> RequestStates]
        /\ flight' \in [Flights -> FlightStates]
    BY <1>10, <2>2, StepType, SettleType DEF Wait, Outcomes, TypeOK
  <2>. QED  BY <1>10, <2>3 DEF Wait, TypeOK, storeVars, idpVars
<1>11. CASE Peek(f)
  <2>1. flight[f].left \in 1..Polls
    BY <1>11, FlightFields DEF Peek
  <2>2. flight[f].left > 1 => NextPoll(flight[f].left) \in 1..Polls
    BY <2>1 DEF NextPoll
  <2>3. /\ Waiting("last", flight[f].left) \in FlightStates
        /\ flight[f].left > 1
              => Waiting("wait", NextPoll(flight[f].left)) \in FlightStates
    BY <2>1, <2>2, FlightTypes
  <2>4. /\ request' \in [Requests -> RequestStates]
        /\ flight' \in [Flights -> FlightStates]
    BY <1>11, <2>3, StepType, SettleType DEF Peek, Outcomes, TypeOK
  <2>. QED  BY <1>11, <2>4 DEF Peek, TypeOK, storeVars, idpVars
<1>12. CASE WaitLast(f)
  <2>1. PICK outcome \in Outcomes : Settle(f, outcome)
    BY <1>12 DEF WaitLast, Outcomes
  <2>. QED  BY <1>12, <2>1, SettleType DEF WaitLast, TypeOK, storeVars, idpVars
<1>13. CASE FlightFails(f)
  <2>1. CASE /\ flight[f].pc \in {"lock", "wait", "peek", "last"}
             /\ Settle(f, "thrown")
             /\ UNCHANGED <<entry, index, lost>>
    BY <1>13, <2>1, SettleType DEF FlightFails, TypeOK, Outcomes
  <2>2. CASE /\ Step(f, Releasing("thrown"))
             /\ lost' = IF flight[f].pc = "write" THEN lost \cup {Key(f)} ELSE lost
             /\ \/ flight[f].pc \in {"check", "write"} /\ UNCHANGED <<entry, index>>
                \/ flight[f].pc = "index" /\ IndexedSome(Key(f)) /\ UNCHANGED entry
                \/ flight[f].pc = "drop" /\ DropSome(Key(f))
             /\ UNCHANGED request
    <3>1. flight' \in [Flights -> FlightStates]
      BY <2>2, StepType, FlightTypes
    <3>2. /\ index' \in [Keys -> SUBSET Sessions]
          /\ entry' \in [Sessions -> {"none", "stored", "gone"}]
      <4>1. CASE UNCHANGED <<entry, index>>
        BY <4>1 DEF TypeOK
      <4>2. CASE IndexedSome(Key(f)) /\ UNCHANGED entry
        BY <4>2, IndexedTypes DEF TypeOK
      <4>3. CASE DropSome(Key(f))
        BY <4>3, DropTypes
      <4>. QED  BY <2>2, <4>1, <4>2, <4>3
    <3>3. lost' \subseteq Sessions
      BY <2>2 DEF TypeOK
    <3>. QED  BY <1>13, <2>2, <3>1, <3>2, <3>3 DEF FlightFails, TypeOK
  <2>. QED  BY <1>13, <2>1, <2>2 DEF FlightFails
<1>14. CASE Forget(f)
  <2>1. flight' \in [Flights -> FlightStates]
    BY <1>14, StepType, FlightTypes DEF Forget
  <2>. QED  BY <1>14, <2>1 DEF Forget, TypeOK, storeVars, idpVars
<1>. QED
  BY <1>1, <1>2, <1>3, <1>4, <1>5, <1>6, <1>7, <1>8, <1>9, <1>10, <1>11, <1>12, <1>13,
     <1>14 DEF FlightStep

(* The other steps keep every variable in its type.                        *)
LEMMA OtherTypeStep ==
    ASSUME TypeOK, Bounded,
           \/ \E q \in Requests, r \in Replicas, s \in Sessions :
                 \/ Load(q, r, s) \/ SignOut(q, r, s)
                 \/ \E old \in Sessions \cup {NoSession} : Callback(q, r, s, old)
           \/ \E x \in Sids : EndSso(x) \/ Backchannel(x) \/ LogoutStep(x)
           \/ \E s \in Sessions : LockExpires(s) \/ EntryExpires(s)
           \/ \E r \in Replicas : Crash(r)
    PROVE  TypeOK'
<1>1. ASSUME NEW q \in Requests, NEW r \in Replicas, NEW s \in Sessions,
             Load(q, r, s) \/ SignOut(q, r, s)
      PROVE  TypeOK'
  <2>1. Loads(s) => <<r, s, gen[s]>> \in Flights
    <3>1. Loads(s) => gen[s] \in Gens
      BY ConstantsAssumption DEF TypeOK, Bounded, Gens, Loads
    <3>. QED  BY <3>1, FlightKeys
  <2>2. request' \in [Requests -> RequestStates]
    BY <1>1, <2>1, ToType, RequestTypes DEF Load, SignOut, TypeOK
  <2>. QED  BY <1>1, <2>2 DEF Load, SignOut, TypeOK, storeVars, idpVars
<1>2. ASSUME NEW q \in Requests, NEW r \in Replicas, NEW s \in Sessions,
             NEW old \in Sessions \cup {NoSession}, Callback(q, r, s, old)
      PROVE  TypeOK'
  <2>1. request' \in [Requests -> RequestStates]
    BY <1>2, ToType, RequestTypes DEF Callback
  <2>2. granted' \in [Sessions -> 0..MaxGen]
    BY <1>2, ConstantsAssumption DEF Callback, TypeOK
  <2>. QED  BY <1>2, <2>1, <2>2 DEF Callback, TypeOK, storeVars
<1>3. ASSUME NEW x \in Sids, EndSso(x)
      PROVE  TypeOK'
  BY <1>3 DEF EndSso, TypeOK, storeVars
<1>4. ASSUME NEW x \in Sids, Backchannel(x)
      PROVE  TypeOK'
  <2>1. LogoutAt("members", {s \in signedIn : Names(x, s)}, {}) \in LogoutStates
    BY LogoutTypes DEF TypeOK
  <2>. QED  BY <1>4, <2>1 DEF Backchannel, TypeOK, idpVars
<1>5. ASSUME NEW x \in Sids, LogoutStep(x)
      PROVE  TypeOK'
  <2>. /\ logout[x] \in LogoutStates
       /\ NamedBy(x) \in Keys
    BY ConstantsAssumption DEF TypeOK, NamedBy, Keys
  <2>. index[NamedBy(x)] \in SUBSET Sessions
    BY DEF TypeOK
  <2>1. CASE Members(x)
    BY <2>1, LogoutTypes DEF Members, TypeOK, storeVars, idpVars
  <2>2. CASE DeleteSessions(x)
    <3>1. logout[x].found \in SUBSET Sessions /\ logout[x].before \in SUBSET Sessions
      BY <2>2, LogoutTypes DEF DeleteSessions
    <3>2. entry' \in [Sessions -> {"none", "stored", "gone"}]
      BY <2>2 DEF DeleteSessions, Deleted, TypeOK
    <3>. QED  BY <2>2, <3>1, <3>2, LogoutTypes DEF DeleteSessions, TypeOK, idpVars
  <2>3. CASE CleanIndex(x)
    <3>1. logout[x].found \in SUBSET Sessions /\ logout[x].before \in SUBSET Sessions
      BY <2>3, LogoutTypes DEF CleanIndex
    <3>2. index' \in [Keys -> SUBSET Sessions]
      BY <2>3 DEF CleanIndex, TypeOK
    <3>. QED  BY <2>3, <3>1, <3>2, LogoutTypes DEF CleanIndex, TypeOK, idpVars
  <2>4. CASE LogoutFails(x)
    BY <2>4, LogoutTypes DEF LogoutFails, TypeOK, storeVars, idpVars
  <2>. QED  BY <1>5, <2>1, <2>2, <2>3, <2>4 DEF LogoutStep
<1>6. ASSUME NEW s \in Sessions, LockExpires(s)
      PROVE  TypeOK'
  BY <1>6 DEF LockExpires, TypeOK, idpVars
<1>7. ASSUME NEW s \in Sessions, EntryExpires(s)
      PROVE  TypeOK'
  BY <1>7 DEF EntryExpires, Deleted, TypeOK, idpVars
<1>8. ASSUME NEW r \in Replicas, Crash(r)
      PROVE  TypeOK'
  <2>1. request' \in [Requests -> RequestStates]
    BY <1>8, RequestTypes DEF Crash, TypeOK
  <2>2. flight' \in [Flights -> FlightStates]
    BY <1>8, FlightTypes DEF Crash, TypeOK
  <2>3. lost' \subseteq Sessions
    BY <1>8, FlightKeys DEF Crash, TypeOK
  <2>. QED  BY <1>8, <2>1, <2>2, <2>3 DEF Crash, TypeOK, storeVars
<1>. QED  BY <1>1, <1>2, <1>3, <1>4, <1>5, <1>6, <1>7, <1>8

-----------------------------------------------------------------------------
(* Token generations. *)

Holding == {"loaded", "reload", "remove", "signOut", "joined"}

(* The IdP is at most one generation ahead of the store: while a refresh   *)
(* waits to be written, or when its answer was lost. Nobody holds a newer  *)
(* generation than the stored one, so that only the stored one is ever     *)
(* refreshed with success.                                                 *)
GenInv ==
    /\ \A s \in Sessions : granted[s] \in {gen[s], gen[s] + 1}
    /\ \A s \in Sessions : entry[s] = "none" <=> gen[s] = 0
    /\ \A q \in Requests : request[q].pc \in Holding
          => Gen(request[q].at) <= gen[Key(request[q].at)]
    /\ \A f \in Flights : flight[f].pc # "none" => Gen(f) <= gen[Key(f)]
    /\ \A f \in Flights : flight[f].pc = "write"
          => gen[Key(f)] = Gen(f) /\ granted[Key(f)] = Gen(f) + 1
    /\ \A f, g \in Flights :
          flight[f].pc = "write" /\ flight[g].pc = "write" /\ Key(f) = Key(g) => f = g
    /\ \A q \in Requests : request[q].pc = "create"
          => entry[request[q].session] = "none" /\ granted[request[q].session] = 1
    /\ \A p, q \in Requests :
          request[p].pc = "create" /\ request[q].pc = "create"
             /\ request[p].session = request[q].session => p = q

(* A step that neither grants nor stores tokens.                           *)
QuietEntries ==
    \A s \in Sessions : entry'[s] = entry[s] \/ (Stored(s) /\ entry'[s] = "gone")
QuietRequests ==
    \A q \in Requests :
        /\ request'[q].pc = "create" => request'[q] = request[q]
        /\ request'[q].pc \in Holding
              => Gen(request'[q].at) <= gen[Key(request'[q].at)]
QuietFlights ==
    \A f \in Flights :
        /\ flight'[f].pc # "none" => Gen(f) <= gen[Key(f)] /\ Gen(f) < MaxGen
        /\ flight'[f].pc = "write" => flight[f].pc = "write"

LEMMA Quiet ==
    ASSUME TypeOK, GenInv, Bounded, QuietEntries, QuietRequests, QuietFlights,
           UNCHANGED <<gen, granted>>
    PROVE  GenInv' /\ Bounded'
<1>1. Bounded'
  BY DEF QuietEntries, QuietFlights, Bounded, Stored
<1>2. (\A s \in Sessions : granted[s] \in {gen[s], gen[s] + 1})'
  BY DEF GenInv
<1>3. (\A s \in Sessions : entry[s] = "none" <=> gen[s] = 0)'
  BY DEF GenInv, QuietEntries, Stored
<1>4. (\A q \in Requests : request[q].pc \in Holding
          => Gen(request[q].at) <= gen[Key(request[q].at)])'
  BY DEF QuietRequests, Key, Gen
<1>5. (\A f \in Flights : flight[f].pc # "none" => Gen(f) <= gen[Key(f)])'
  BY DEF QuietFlights, Key, Gen
<1>6. (\A f \in Flights : flight[f].pc = "write"
          => gen[Key(f)] = Gen(f) /\ granted[Key(f)] = Gen(f) + 1)'
  BY DEF QuietFlights, GenInv, Key, Gen
<1>7. (\A f, g \in Flights :
          flight[f].pc = "write" /\ flight[g].pc = "write" /\ Key(f) = Key(g) => f = g)'
  BY DEF QuietFlights, GenInv, Key
<1>8. (\A q \in Requests : request[q].pc = "create"
          => entry[request[q].session] = "none" /\ granted[request[q].session] = 1)'
  <2>1. ASSUME NEW q \in Requests, request'[q].pc = "create"
        PROVE  entry'[request'[q].session] = "none" /\ granted[request'[q].session] = 1
    <3>1. request'[q] = request[q]
      BY <2>1 DEF QuietRequests
    <3>2. request[q].session \in Sessions
      BY <2>1, <3>1, RequestFields DEF TypeOK
    <3>. QED  BY <2>1, <3>1, <3>2 DEF GenInv, QuietEntries, Stored
  <2>. QED  BY <2>1
<1>9. (\A p, q \in Requests :
          request[p].pc = "create" /\ request[q].pc = "create"
             /\ request[p].session = request[q].session => p = q)'
  BY DEF QuietRequests, GenInv
<1>. QED  BY <1>1, <1>2, <1>3, <1>4, <1>5, <1>6, <1>7, <1>8, <1>9 DEF GenInv

(* The IdP uses the stored generation up for flight f.                     *)
LEMMA UsedUp ==
    ASSUME TypeOK, GenInv, Bounded, NEW f \in Flights, NEW state,
           flight[f].pc = "refresh", state.pc # "none",
           gen[Key(f)] = Gen(f), granted[Key(f)] = Gen(f),
           granted' = [granted EXCEPT ![Key(f)] = Gen(f) + 1],
           flight' = [flight EXCEPT ![f] = state],
           UNCHANGED <<entry, gen, request>>
    PROVE  GenInv' /\ Bounded'
<1>. Key(f) \in Sessions /\ Gen(f) \in Nat /\ Gen(f) >= 1
  BY FlightKeys, ConstantsAssumption DEF Gens
<1>0. gen \in [Sessions -> Nat] /\ granted \in [Sessions -> Nat]
  BY ConstantsAssumption DEF TypeOK
<1>1. Bounded'
  BY DEF Bounded, Stored, TypeOK
<1>2. (\A s \in Sessions : granted[s] \in {gen[s], gen[s] + 1})'
  BY <1>0 DEF GenInv
<1>3. (\A s \in Sessions : entry[s] = "none" <=> gen[s] = 0)'
  BY DEF GenInv
<1>4. (\A q \in Requests : request[q].pc \in Holding
          => Gen(request[q].at) <= gen[Key(request[q].at)])'
  BY DEF GenInv, Key, Gen
<1>5. (\A g \in Flights : flight[g].pc # "none" => Gen(g) <= gen[Key(g)])'
  BY DEF GenInv, Key, Gen, TypeOK
<1>6. ASSUME NEW g \in Flights, g # f, flight[g].pc = "write"
      PROVE  Key(g) # Key(f)
  BY <1>0, <1>6, FlightKeys DEF GenInv
<1>7. (\A g \in Flights : flight[g].pc = "write"
          => gen[Key(g)] = Gen(g) /\ granted[Key(g)] = Gen(g) + 1)'
  <2>1. ASSUME NEW g \in Flights, flight'[g].pc = "write"
        PROVE  gen[Key(g)] = Gen(g) /\ granted'[Key(g)] = Gen(g) + 1
    <3>1. CASE g = f
      BY <3>1, <1>0
    <3>2. CASE g # f
      BY <1>6, <2>1, <3>2, FlightKeys DEF GenInv, TypeOK
    <3>. QED  BY <3>1, <3>2
  <2>. QED  BY <2>1 DEF Key, Gen
<1>8. (\A g, h \in Flights :
          flight[g].pc = "write" /\ flight[h].pc = "write" /\ Key(g) = Key(h) => g = h)'
  BY <1>6 DEF GenInv, TypeOK, Key
<1>9. (\A q \in Requests : request[q].pc = "create"
          => entry[request[q].session] = "none" /\ granted[request[q].session] = 1)'
  <2>1. ASSUME NEW q \in Requests, request[q].pc = "create"
        PROVE  granted'[request[q].session] = 1
    <3>1. request[q].session \in Sessions
      BY <2>1, RequestFields DEF TypeOK
    <3>2. request[q].session # Key(f)
      BY <2>1, <1>0, <3>1 DEF GenInv
    <3>. QED  BY <2>1, <3>1, <3>2 DEF GenInv
  <2>. QED  BY <2>1 DEF GenInv
<1>10. (\A p, q \in Requests :
          request[p].pc = "create" /\ request[q].pc = "create"
             /\ request[p].session = request[q].session => p = q)'
  BY DEF GenInv
<1>. QED  BY <1>1, <1>2, <1>3, <1>4, <1>5, <1>7, <1>8, <1>9, <1>10 DEF GenInv

(* The store takes the newer tokens: it has caught up with the IdP.        *)
LEMMA WriteGen ==
    ASSUME TypeOK, GenInv, Bounded, NEW f \in Flights, Write(f), Present(Key(f))
    PROVE  GenInv' /\ Bounded'
<1>. Key(f) \in Sessions /\ Gen(f) \in Nat /\ Gen(f) >= 1
  BY FlightKeys, ConstantsAssumption DEF Gens
<1>0. /\ gen \in [Sessions -> Nat] /\ granted \in [Sessions -> Nat]
      /\ gen[Key(f)] = Gen(f) /\ granted[Key(f)] = Gen(f) + 1
      /\ flight[f].pc = "write" /\ Stored(Key(f))
      /\ gen' = [gen EXCEPT ![Key(f)] = Gen(f) + 1]
      /\ flight' = [flight EXCEPT ![f] = Plain("index")]
      /\ entry' = entry
      /\ UNCHANGED <<granted, request>>
  <2>1. /\ flight[f].pc = "write" /\ Stored(Key(f))
        /\ gen' = [gen EXCEPT ![Key(f)] = Gen(f) + 1]
        /\ flight' = [flight EXCEPT ![f] = Plain("index")]
        /\ entry' = [entry EXCEPT ![Key(f)] = "stored"]
        /\ UNCHANGED <<granted, request>>
    BY DEF Write, Present, Step, idpVars
  <2>2. entry' = entry
    BY <2>1 DEF TypeOK, Stored
  <2>3. gen \in [Sessions -> Nat] /\ granted \in [Sessions -> Nat]
    BY ConstantsAssumption DEF TypeOK
  <2>. QED  BY <2>1, <2>2, <2>3 DEF GenInv
<1>. Plain("index").pc = "index"
  BY DEF Plain
<1>1. Bounded'
  BY <1>0 DEF Bounded, Stored, TypeOK
<1>2. (\A s \in Sessions : granted[s] \in {gen[s], gen[s] + 1})'
  BY <1>0 DEF GenInv
<1>3. (\A s \in Sessions : entry[s] = "none" <=> gen[s] = 0)'
  BY <1>0 DEF GenInv, Stored
<1>a. \A s \in Sessions : gen[s] <= gen'[s]
  BY <1>0
<1>4. (\A q \in Requests : request[q].pc \in Holding
          => Gen(request[q].at) <= gen[Key(request[q].at)])'
  <2>1. ASSUME NEW q \in Requests, request[q].pc \in Holding
        PROVE  Gen(request[q].at) <= gen'[Key(request[q].at)]
    <3>1. request[q].at \in Flights
      BY <2>1, RequestFields DEF TypeOK, Holding
    <3>. QED  BY <1>0, <1>a, <2>1, <3>1, FlightKeys, ConstantsAssumption DEF GenInv, Gens
  <2>. QED  BY <1>0, <2>1 DEF Key, Gen
<1>5. (\A g \in Flights : flight[g].pc # "none" => Gen(g) <= gen[Key(g)])'
  <2>1. ASSUME NEW g \in Flights, flight'[g].pc # "none"
        PROVE  Gen(g) <= gen'[Key(g)]
    <3>1. Gen(g) <= gen[Key(g)]
      BY <1>0, <2>1 DEF GenInv, TypeOK
    <3>. QED  BY <1>0, <1>a, <3>1, FlightKeys, ConstantsAssumption DEF Gens
  <2>. QED  BY <2>1 DEF Key, Gen
<1>6. ASSUME NEW g \in Flights, flight'[g].pc = "write"
      PROVE  flight[g].pc = "write" /\ Key(g) # Key(f)
  BY <1>0, <1>6 DEF GenInv, TypeOK
<1>7. (\A g \in Flights : flight[g].pc = "write"
          => gen[Key(g)] = Gen(g) /\ granted[Key(g)] = Gen(g) + 1)'
  <2>1. ASSUME NEW g \in Flights, flight'[g].pc = "write"
        PROVE  gen'[Key(g)] = Gen(g) /\ granted'[Key(g)] = Gen(g) + 1
    BY <1>0, <1>6, <2>1, FlightKeys DEF GenInv
  <2>. QED  BY <2>1 DEF Key, Gen
<1>8. (\A g, h \in Flights :
          flight[g].pc = "write" /\ flight[h].pc = "write" /\ Key(g) = Key(h) => g = h)'
  BY <1>6 DEF GenInv, Key
<1>9. (\A q \in Requests : request[q].pc = "create"
          => entry[request[q].session] = "none" /\ granted[request[q].session] = 1)'
  BY <1>0 DEF GenInv
<1>10. (\A p, q \in Requests :
          request[p].pc = "create" /\ request[q].pc = "create"
             /\ request[p].session = request[q].session => p = q)'
  BY <1>0 DEF GenInv
<1>. QED  BY <1>1, <1>2, <1>3, <1>4, <1>5, <1>7, <1>8, <1>9, <1>10 DEF GenInv

(* A request that settles with its flight goes on with what it held.       *)
LEMMA SettleQuiet ==
    ASSUME TypeOK, GenInv, Bounded, NEW f \in Flights, NEW outcome \in Outcomes,
           flight[f].pc # "none", Settle(f, outcome)
    PROVE  QuietRequests /\ QuietFlights
<1>1. QuietRequests
  <2>1. ASSUME NEW q \in Requests
        PROVE  /\ request'[q].pc = "create" => request'[q] = request[q]
               /\ request'[q].pc \in Holding
                     => Gen(request'[q].at) <= gen[Key(request'[q].at)]
    <3>1. CASE request[q].pc = "joined" /\ request[q].at = f
      <4>1. request'[q] = Idle \/ request'[q] = At("reload", f)
        BY <3>1 DEF Settle, AfterRenewal
      <4>. QED  BY <3>1, <4>1 DEF GenInv, Holding, Idle, At
    <3>2. CASE ~(request[q].pc = "joined" /\ request[q].at = f)
      <4>1. request'[q] = request[q]
        BY <3>2 DEF Settle
      <4>. QED  BY <4>1 DEF GenInv
    <3>. QED  BY <3>1, <3>2
  <2>. QED  BY <2>1 DEF QuietRequests
<1>2. QuietFlights
  <2>1. flight' = [flight EXCEPT ![f] =
            Plain(IF outcome = "refreshed" THEN "settled" ELSE "none")]
    BY DEF Settle, Step
  <2>. QED  BY <2>1 DEF QuietFlights, GenInv, Bounded, TypeOK, Plain
<1>. QED  BY <1>1, <1>2

(* A flight that moves to a state other than "write".                      *)
LEMMA StepQuiet ==
    ASSUME TypeOK, GenInv, Bounded, NEW f \in Flights, NEW state,
           flight[f].pc # "none", state.pc # "write", Step(f, state)
    PROVE  QuietFlights
BY DEF QuietFlights, GenInv, Bounded, TypeOK, Step

(* A request that moves to a state that holds nothing newer than the store.*)
LEMMA ToQuiet ==
    ASSUME TypeOK, GenInv, NEW q \in Requests, NEW state, To(q, state),
           state.pc # "create",
           state.pc \in Holding => Gen(state.at) <= gen[Key(state.at)]
    PROVE  QuietRequests
BY DEF QuietRequests, GenInv, TypeOK, To

LEMMA SameQuiet ==
    ASSUME TypeOK, GenInv, Bounded
    PROVE  /\ UNCHANGED entry => QuietEntries
           /\ UNCHANGED request => QuietRequests
           /\ UNCHANGED flight => QuietFlights
BY DEF QuietEntries, QuietRequests, QuietFlights, GenInv, Bounded, TypeOK

LEMMA DeletedQuiet ==
    ASSUME TypeOK, NEW gone, Deleted(gone)
    PROVE  QuietEntries
BY DEF QuietEntries, Deleted

LEMMA DropQuiet ==
    ASSUME TypeOK, NEW s, Drop(s) \/ DropSome(s)
    PROVE  QuietEntries
<1>1. Deleted({s}) \/ UNCHANGED entry
  BY DEF Drop, DropSome
<1>. QED  BY <1>1, DeletedQuiet DEF QuietEntries

(* The steps of a refresh that neither grant nor store tokens.             *)
LEMMA FlightGenStep ==
    ASSUME TypeOK, GenInv, Bounded, NEW f \in Flights, FlightStep(f) \/ Forget(f)
    PROVE  GenInv' /\ Bounded'
<1>. flight[f] \in FlightStates /\ Key(f) \in Sessions /\ Gen(f) \in Gens
  BY FlightKeys DEF TypeOK
<1>1. CASE TakeLock(f) \/ Check(f) \/ Refuse(f) \/ IndexAgain(f) \/ DropRefused(f)
           \/ Forget(f)
  <2>1. PICK state : Step(f, state) /\ state.pc # "write" /\ flight[f].pc # "none"
    BY <1>1 DEF TakeLock, Check, Refuse, IndexAgain, DropRefused, Forget,
                Plain, Waiting, Releasing
  <2>2. QuietFlights
    BY <2>1, StepQuiet
  <2>3. QuietEntries
    BY <1>1, SameQuiet, DropQuiet DEF TakeLock, Check, Refuse, IndexAgain, DropRefused,
                Forget, storeVars
  <2>4. UNCHANGED <<request, gen, granted>>
    BY <1>1 DEF TakeLock, Check, Refuse, IndexAgain, DropRefused, Forget, storeVars, idpVars
  <2>. QED  BY <2>2, <2>3, <2>4, SameQuiet, Quiet
<1>2. CASE Release(f) \/ WaitLast(f)
  <2>1. PICK outcome \in Outcomes : Settle(f, outcome) /\ flight[f].pc # "none"
    BY <1>2, FlightFields DEF Release, WaitLast, Outcomes
  <2>2. UNCHANGED <<entry, gen, granted>>
    BY <1>2 DEF Release, WaitLast, storeVars, idpVars
  <2>. QED  BY <2>1, <2>2, SettleQuiet, SameQuiet, Quiet
<1>3. CASE Wait(f) \/ Peek(f)
  <2>1. UNCHANGED <<entry, gen, granted>> /\ flight[f].pc # "none"
    BY <1>3 DEF Wait, Peek, storeVars, idpVars
  <2>2. \/ \E outcome \in Outcomes : Settle(f, outcome)
        \/ \E state : Step(f, state) /\ state.pc # "write" /\ UNCHANGED request
    BY <1>3 DEF Wait, Peek, Waiting, Outcomes
  <2>. QED  BY <2>1, <2>2, SettleQuiet, StepQuiet, SameQuiet, Quiet
<1>4. CASE FlightFails(f)
  <2>1. UNCHANGED <<gen, granted>> /\ flight[f].pc # "none"
    BY <1>4 DEF FlightFails
  <2>2. \/ Settle(f, "thrown")
        \/ Step(f, Releasing("thrown")) /\ UNCHANGED request
    BY <1>4 DEF FlightFails
  <2>3. QuietEntries
    BY <1>4, SameQuiet, DropQuiet DEF FlightFails
  <2>4. Releasing("thrown").pc # "write" /\ "thrown" \in Outcomes
    BY DEF Releasing, Outcomes
  <2>. QED  BY <2>1, <2>2, <2>3, <2>4, SettleQuiet, StepQuiet, SameQuiet, Quiet
<1>5. CASE Grant(f)
  <2>1. /\ flight[f].pc = "refresh" /\ Gen(f) = granted[Key(f)]
        /\ granted' = [granted EXCEPT ![Key(f)] = Gen(f) + 1]
        /\ flight' = [flight EXCEPT ![f] = Plain("write")]
        /\ UNCHANGED <<entry, gen, request>>
    BY <1>5 DEF Grant, Accepts, Step, storeVars
  <2>2. gen[Key(f)] = Gen(f)
    BY <2>1, ConstantsAssumption DEF GenInv, TypeOK, Gens
  <2>. Plain("write").pc = "write"
    BY DEF Plain
  <2>. QED  BY <2>1, <2>2, UsedUp, ConstantsAssumption
<1>6. CASE Unanswered(f)
  <2>1. /\ flight[f].pc = "refresh" /\ Step(f, Releasing("later"))
        /\ UNCHANGED <<entry, gen, request>>
    BY <1>6 DEF Unanswered, storeVars
  <2>2. Releasing("later").pc # "write" /\ Releasing("later").pc # "none"
    BY DEF Releasing
  <2>3. CASE UNCHANGED granted
    BY <2>1, <2>2, <2>3, StepQuiet, SameQuiet, Quiet
  <2>4. CASE Accepts(f) /\ granted' = [granted EXCEPT ![Key(f)] = Gen(f) + 1]
    <3>1. flight' = [flight EXCEPT ![f] = Releasing("later")]
      BY <2>1 DEF Step
    <3>2. gen[Key(f)] = Gen(f) /\ Gen(f) = granted[Key(f)]
      BY <2>1, <2>4, ConstantsAssumption DEF GenInv, TypeOK, Gens, Accepts
    <3>. QED  BY <2>1, <2>2, <2>4, <3>1, <3>2, UsedUp
  <2>. QED  BY <1>6, <2>3, <2>4 DEF Unanswered
<1>7. CASE Write(f)
  <2>1. CASE Present(Key(f))
    BY <1>7, <2>1, WriteGen
  <2>2. CASE ~Present(Key(f))
    <3>1. /\ Step(f, Releasing("final")) /\ flight[f].pc # "none"
          /\ UNCHANGED <<entry, gen, granted, request>>
      BY <1>7, <2>2 DEF Write, idpVars
    <3>2. Releasing("final").pc # "write"
      BY DEF Releasing
    <3>. QED  BY <3>1, <3>2, StepQuiet, SameQuiet, Quiet
  <2>. QED  BY <2>1, <2>2
<1>. QED
  BY <1>1, <1>2, <1>3, <1>4, <1>5, <1>6, <1>7 DEF FlightStep


(* Create stores a session nobody stored before.                           *)
LEMMA CreateGen ==
    ASSUME TypeOK, GenInv, Bounded, NEW q \in Requests, Create(q)
    PROVE  GenInv' /\ Bounded'
<1>. DEFINE s == request[q].session
<1>1. /\ s \in Sessions /\ request[q].pc = "create"
      /\ entry[s] = "none" /\ granted[s] = 1 /\ gen[s] = 0
  BY RequestFields DEF Create, TypeOK, GenInv
<1>2. /\ entry' = [entry EXCEPT ![s] = "stored"] /\ gen' = [gen EXCEPT ![s] = 1]
      /\ \E state : state.pc = "index" /\ To(q, state)
      /\ UNCHANGED <<granted, flight>>
  BY DEF Create, idpVars, SigningIn
<1>3. PICK state : state.pc = "index" /\ request' = [request EXCEPT ![q] = state]
  BY <1>2 DEF To
<1>4. /\ gen \in [Sessions -> Nat] /\ granted \in [Sessions -> Nat]
      /\ entry \in [Sessions -> {"none", "stored", "gone"}]
  BY ConstantsAssumption DEF TypeOK
<1>. HIDE DEF s
<1>5. \A p \in Requests : p # q => request'[p] = request[p]
  BY <1>3 DEF TypeOK
<1>6. request'[q] = state
  BY <1>3 DEF TypeOK
<1>7. Bounded'
  BY <1>1, <1>2, <1>4 DEF Bounded, Stored
<1>8. (\A t \in Sessions : granted[t] \in {gen[t], gen[t] + 1})'
  BY <1>1, <1>2, <1>4 DEF GenInv
<1>9. (\A t \in Sessions : entry[t] = "none" <=> gen[t] = 0)'
  BY <1>1, <1>2, <1>4 DEF GenInv
<1>10. \A t \in Sessions : gen[t] <= gen'[t]
  BY <1>1, <1>2, <1>4
<1>11. (\A p \in Requests : request[p].pc \in Holding
          => Gen(request[p].at) <= gen[Key(request[p].at)])'
  <2>1. ASSUME NEW p \in Requests, request'[p].pc \in Holding
        PROVE  Gen(request'[p].at) <= gen'[Key(request'[p].at)]
    <3>1. p # q /\ request'[p] = request[p]
      BY <1>3, <1>5, <1>6, <2>1 DEF Holding
    <3>2. request[p].at \in Flights
      BY <2>1, <3>1, RequestFields DEF TypeOK, Holding
    <3>3. /\ Key(request[p].at) \in Sessions /\ Gen(request[p].at) \in Nat
          /\ Gen(request[p].at) <= gen[Key(request[p].at)]
      BY <2>1, <3>1, <3>2, FlightKeys, ConstantsAssumption DEF GenInv, Gens
    <3>. QED  BY <1>2, <1>4, <1>10, <3>1, <3>3, <1>1
  <2>. QED  BY <2>1 DEF Key, Gen
<1>12. (\A f \in Flights : flight[f].pc # "none" => Gen(f) <= gen[Key(f)])'
  <2>1. ASSUME NEW f \in Flights, flight[f].pc # "none"
        PROVE  Gen(f) <= gen'[Key(f)]
    BY <1>1, <1>2, <1>4, <2>1, FlightKeys, ConstantsAssumption DEF GenInv, Gens
  <2>. QED  BY <1>2, <2>1 DEF Key, Gen
<1>13. \A f \in Flights : flight[f].pc = "write" => Key(f) # s
  BY <1>1, FlightKeys, ConstantsAssumption DEF GenInv, Gens
<1>14. (\A f \in Flights : flight[f].pc = "write"
          => gen[Key(f)] = Gen(f) /\ granted[Key(f)] = Gen(f) + 1)'
  <2>1. ASSUME NEW f \in Flights, flight[f].pc = "write"
        PROVE  gen'[Key(f)] = Gen(f) /\ granted[Key(f)] = Gen(f) + 1
    BY <1>2, <1>4, <1>13, <2>1, FlightKeys DEF GenInv
  <2>. QED  BY <1>2, <2>1 DEF Key, Gen
<1>15. (\A f, g \in Flights :
          flight[f].pc = "write" /\ flight[g].pc = "write" /\ Key(f) = Key(g) => f = g)'
  BY <1>2 DEF GenInv, Key
<1>16. (\A p \in Requests : request[p].pc = "create"
          => entry[request[p].session] = "none" /\ granted[request[p].session] = 1)'
  <2>1. ASSUME NEW p \in Requests, request'[p].pc = "create"
        PROVE  /\ entry'[request'[p].session] = "none"
               /\ granted[request'[p].session] = 1
    <3>1. p # q /\ request'[p] = request[p]
      BY <1>3, <1>5, <1>6, <2>1
    <3>2. request[p].session \in Sessions /\ request[p].session # s
      BY <1>1, <2>1, <3>1, RequestFields DEF GenInv, TypeOK, s
    <3>. QED  BY <1>2, <1>4, <2>1, <3>1, <3>2 DEF GenInv
  <2>. QED  BY <1>2, <2>1
<1>17. (\A o, p \in Requests :
          request[o].pc = "create" /\ request[p].pc = "create"
             /\ request[o].session = request[p].session => o = p)'
  BY <1>3, <1>5, <1>6 DEF GenInv
<1>. QED  BY <1>7, <1>8, <1>9, <1>11, <1>12, <1>14, <1>15, <1>16, <1>17 DEF GenInv

(* The steps of a request.                                                 *)
LEMMA RequestGenStep ==
    ASSUME TypeOK, GenInv, Bounded, NEW q \in Requests, RequestStep(q)
    PROVE  GenInv' /\ Bounded'
<1>. request[q] \in RequestStates
  BY DEF TypeOK
<1>a. \A f \in Flights :
         request[q].pc \in Holding /\ request[q].at = f => Gen(f) <= gen[Key(f)]
  BY DEF GenInv
<1>1. CASE Create(q)
  BY <1>1, CreateGen
<1>2. CASE IndexNew(q)
  <2>1. PICK state : state.pc \in {"idle", "replace"} /\ To(q, state)
    BY <1>2 DEF IndexNew, Idle, SigningIn
  <2>2. QuietRequests
    BY <2>1, ToQuiet DEF Holding
  <2>. QED  BY <1>2, <2>2, SameQuiet, Quiet DEF IndexNew, idpVars
<1>3. CASE Replace(q) \/ Remove(q) \/ RequestFails(q)
  <2>1. To(q, Idle) /\ UNCHANGED <<gen, granted, flight>>
    BY <1>3 DEF Replace, Remove, RequestFails, idpVars
  <2>2. QuietRequests
    BY <2>1, ToQuiet DEF Holding, Idle
  <2>3. QuietEntries
    BY <1>3, DropQuiet, SameQuiet DEF Replace, Remove, RequestFails
  <2>. QED  BY <2>1, <2>2, <2>3, SameQuiet, Quiet
<1>4. ASSUME NEW usable \in BOOLEAN,
             StillFresh(q) \/ Reload(q) \/ DeadlinePassed(q, usable)
      PROVE  GenInv' /\ Bounded'
  <2>1. UNCHANGED <<entry, gen, granted, flight>> /\ request[q].pc \in Holding
    BY <1>4 DEF StillFresh, Reload, DeadlinePassed, storeVars, idpVars, Holding
  <2>2. \/ To(q, Idle) \/ To(q, At("reload", request[q].at))
        \/ To(q, At("remove", request[q].at))
    BY <1>4 DEF StillFresh, Reload, DeadlinePassed
  <2>3. QuietRequests
    BY <2>1, <2>2, ToQuiet DEF GenInv, Holding, Idle, At
  <2>. QED  BY <2>1, <2>3, SameQuiet, Quiet
<1>5. ASSUME NEW usable \in BOOLEAN, Renew(q, usable)
      PROVE  GenInv' /\ Bounded'
  <2>. DEFINE f == request[q].at
  <2>1. /\ f \in Flights /\ request[q].pc = "loaded" /\ Gen(f) < MaxGen
        /\ UNCHANGED <<entry, gen, granted>>
        /\ To(q, Idle) \/ To(q, Joined(f, usable))
        /\ flight' = flight \/ flight' = [flight EXCEPT ![f] = Plain("lock")]
    BY <1>5, RequestFields DEF Renew, storeVars, idpVars
  <2>2. Gen(f) <= gen[Key(f)]
    BY <2>1 DEF GenInv, Holding
  <2>3. QuietRequests
    BY <2>1, <2>2, ToQuiet DEF Holding, Idle, Joined
  <2>4. QuietFlights
    BY <2>1, <2>2, SameQuiet DEF QuietFlights, GenInv, Bounded, TypeOK, Plain
  <2>. QED  BY <2>1, <2>3, <2>4, SameQuiet, Quiet
<1>. QED  BY <1>1, <1>2, <1>3, <1>4, <1>5 DEF RequestStep

(* The steps that start a sign-in, a request or a logout, and those of     *)
(* time and failure.                                                       *)
LEMMA OtherGenStep ==
    ASSUME TypeOK, GenInv, Bounded,
           \/ \E q \in Requests, r \in Replicas, s \in Sessions :
                 \/ Load(q, r, s) \/ SignOut(q, r, s)
                 \/ \E old \in Sessions \cup {NoSession} : Callback(q, r, s, old)
           \/ \E x \in Sids : EndSso(x) \/ Backchannel(x) \/ LogoutStep(x)
           \/ \E s \in Sessions : LockExpires(s) \/ EntryExpires(s)
           \/ \E r \in Replicas : Crash(r)
    PROVE  GenInv' /\ Bounded'
<1>1. ASSUME NEW q \in Requests, NEW r \in Replicas, NEW s \in Sessions,
             Load(q, r, s) \/ SignOut(q, r, s)
      PROVE  GenInv' /\ Bounded'
  <2>1. Loads(s) => /\ Gen(<<r, s, gen[s]>>) = gen[s] /\ Key(<<r, s, gen[s]>>) = s
                    /\ gen[s] \in Nat
    BY ConstantsAssumption DEF TypeOK, Gen, Key
  <2>2. QuietRequests
    BY <1>1, <2>1, ToQuiet, SameQuiet DEF Load, SignOut, Holding, At
  <2>. QED  BY <1>1, <2>2, SameQuiet, Quiet DEF Load, SignOut, storeVars, idpVars
<1>2. ASSUME NEW q \in Requests, NEW r \in Replicas, NEW s \in Sessions,
             NEW old \in Sessions \cup {NoSession}, Callback(q, r, s, old)
      PROVE  GenInv' /\ Bounded'
  <2>. DEFINE state == SigningIn("create", r, s, old)
  <2>1. /\ gen \in [Sessions -> Nat] /\ granted \in [Sessions -> Nat]
    BY ConstantsAssumption DEF TypeOK
  <2>2. /\ granted[s] = 0 /\ granted' = [granted EXCEPT ![s] = 1]
        /\ request' = [request EXCEPT ![q] = state]
        /\ state.pc = "create" /\ state.session = s
        /\ UNCHANGED <<entry, gen, flight>>
    BY <1>2 DEF Callback, To, storeVars, SigningIn
  <2>3. gen[s] = 0 /\ entry[s] = "none"
    BY <2>1, <2>2 DEF GenInv
  <2>. HIDE DEF state
  <2>4. \A p \in Requests : request'[p] = IF p = q THEN state ELSE request[p]
    BY <2>2 DEF TypeOK
  <2>5. Bounded'
    BY <2>2 DEF Bounded, Stored
  <2>6. (\A t \in Sessions : granted[t] \in {gen[t], gen[t] + 1})'
    BY <2>1, <2>2, <2>3 DEF GenInv
  <2>7. (\A t \in Sessions : entry[t] = "none" <=> gen[t] = 0)'
    BY <2>2 DEF GenInv
  <2>8. (\A p \in Requests : request[p].pc \in Holding
            => Gen(request[p].at) <= gen[Key(request[p].at)])'
    BY <2>2, <2>4 DEF GenInv, Holding, Gen, Key
  <2>9. (\A f \in Flights : flight[f].pc # "none" => Gen(f) <= gen[Key(f)])'
    BY <2>2 DEF GenInv, Gen, Key
  <2>10. \A f \in Flights : flight[f].pc = "write" => Key(f) # s
    BY <2>3, FlightKeys, ConstantsAssumption DEF GenInv, Gens
  <2>11. (\A f \in Flights : flight[f].pc = "write"
            => gen[Key(f)] = Gen(f) /\ granted[Key(f)] = Gen(f) + 1)'
    <3>1. ASSUME NEW f \in Flights, flight[f].pc = "write"
          PROVE  gen[Key(f)] = Gen(f) /\ granted'[Key(f)] = Gen(f) + 1
      BY <2>1, <2>2, <2>10, <3>1, FlightKeys DEF GenInv
    <3>. QED  BY <2>2, <3>1 DEF Key, Gen
  <2>12. (\A f, g \in Flights :
            flight[f].pc = "write" /\ flight[g].pc = "write" /\ Key(f) = Key(g) => f = g)'
    BY <2>2 DEF GenInv, Key
  <2>13. \A p \in Requests : request[p].pc = "create" => request[p].session # s
    BY <2>2 DEF GenInv
  <2>14. (\A p \in Requests : request[p].pc = "create"
            => entry[request[p].session] = "none" /\ granted[request[p].session] = 1)'
    <3>1. ASSUME NEW p \in Requests, request'[p].pc = "create"
          PROVE  /\ entry[request'[p].session] = "none"
                 /\ granted'[request'[p].session] = 1
      <4>1. CASE p = q
        BY <2>1, <2>2, <2>3, <2>4, <4>1
      <4>2. CASE p # q
        <5>1. request'[p] = request[p] /\ request[p].session \in Sessions
          BY <2>4, <3>1, <4>2, RequestFields DEF TypeOK
        <5>. QED  BY <2>1, <2>2, <2>13, <3>1, <5>1 DEF GenInv
      <4>. QED  BY <4>1, <4>2
    <3>. QED  BY <2>2, <3>1
  <2>15. (\A o, p \in Requests :
            request[o].pc = "create" /\ request[p].pc = "create"
               /\ request[o].session = request[p].session => o = p)'
    BY <2>2, <2>4, <2>13 DEF GenInv
  <2>. QED
    BY <2>5, <2>6, <2>7, <2>8, <2>9, <2>11, <2>12, <2>14, <2>15 DEF GenInv
<1>3. ASSUME NEW x \in Sids, EndSso(x) \/ Backchannel(x) \/ LogoutStep(x)
      PROVE  GenInv' /\ Bounded'
  <2>1. UNCHANGED <<gen, granted, request, flight>>
    BY <1>3 DEF EndSso, Backchannel, LogoutStep, Members, DeleteSessions, CleanIndex,
                LogoutFails, storeVars, idpVars
  <2>2. QuietEntries
    BY <1>3, DeletedQuiet, SameQuiet
    DEF EndSso, Backchannel, LogoutStep, Members, DeleteSessions, CleanIndex,
        LogoutFails, storeVars
  <2>. QED  BY <2>1, <2>2, SameQuiet, Quiet
<1>4. ASSUME NEW s \in Sessions, LockExpires(s) \/ EntryExpires(s)
      PROVE  GenInv' /\ Bounded'
  <2>1. UNCHANGED <<gen, granted, request, flight>>
    BY <1>4 DEF LockExpires, EntryExpires, idpVars
  <2>2. QuietEntries
    BY <1>4, DeletedQuiet, SameQuiet DEF LockExpires, EntryExpires
  <2>. QED  BY <2>1, <2>2, SameQuiet, Quiet
<1>5. ASSUME NEW r \in Replicas, Crash(r)
      PROVE  GenInv' /\ Bounded'
  <2>1. UNCHANGED <<entry, gen, granted>>
    BY <1>5 DEF Crash, storeVars
  <2>2. QuietRequests
    <3>1. \A q \in Requests : request'[q] \in {Idle, request[q]}
      BY <1>5 DEF Crash
    <3>. QED  BY <3>1 DEF QuietRequests, GenInv, Holding, Idle
  <2>3. QuietFlights
    <3>1. \A f \in Flights : flight'[f] \in {Plain("none"), flight[f]}
      BY <1>5 DEF Crash
    <3>. QED  BY <3>1 DEF QuietFlights, GenInv, Bounded, Plain
  <2>. QED  BY <2>1, <2>2, <2>3, SameQuiet, Quiet
<1>. QED  BY <1>1, <1>2, <1>3, <1>4, <1>5

(* The invariant behind the theorems below.                                *)
StoreInv == TypeOK /\ GenInv /\ Bounded

LEMMA StoreInvInit == Init => StoreInv
<1>. SUFFICES ASSUME Init PROVE StoreInv
  OBVIOUS
<1>1. TypeOK
  BY RequestTypes, FlightTypes, LogoutTypes, ConstantsAssumption DEF Init, TypeOK
<1>2. Bounded
  BY DEF Init, Bounded, Stored, Plain
<1>3. GenInv
  BY DEF Init, GenInv, Plain, Idle, Holding
<1>. QED  BY <1>1, <1>2, <1>3 DEF StoreInv

LEMMA StoreInvNext == StoreInv /\ [Next]_vars => StoreInv'
<1>. SUFFICES ASSUME StoreInv, [Next]_vars PROVE StoreInv'
  OBVIOUS
<1>. TypeOK /\ GenInv /\ Bounded
  BY DEF StoreInv
<1>1. CASE UNCHANGED vars
  <2>1. TypeOK'
    BY <1>1 DEF TypeOK, vars, storeVars, idpVars
  <2>. QED  BY <1>1, <2>1, SameQuiet, Quiet DEF vars, storeVars, idpVars, StoreInv
<1>2. CASE Next
  <2>1. \/ \E q \in Requests : RequestStep(q)
        \/ \E f \in Flights : FlightStep(f) \/ Forget(f)
        \/ \E q \in Requests, r \in Replicas, s \in Sessions :
              \/ Load(q, r, s) \/ SignOut(q, r, s)
              \/ \E old \in Sessions \cup {NoSession} : Callback(q, r, s, old)
        \/ \E x \in Sids : EndSso(x) \/ Backchannel(x) \/ LogoutStep(x)
        \/ \E s \in Sessions : LockExpires(s) \/ EntryExpires(s)
        \/ \E r \in Replicas : Crash(r)
    BY <1>2 DEF Next
  <2>2. TypeOK'
    BY <2>1, RequestTypeStep, FlightTypeStep, OtherTypeStep
  <2>3. GenInv' /\ Bounded'
    BY <2>1, RequestGenStep, FlightGenStep, OtherGenStep
  <2>. QED  BY <2>2, <2>3 DEF StoreInv
<1>. QED  BY <1>1, <1>2

LEMMA StoreInvariant == Spec => []StoreInv
BY StoreInvInit, StoreInvNext, PTL DEF Spec

(* Every variable keeps its type; the IdP's generations and the stored     *)
(* ones stay within their bound because at most one refresh of a session   *)
(* succeeds between two writes (refreshExclusively).                       *)
THEOREM SessionTypeCorrect == Spec => []TypeOK
<1>1. StoreInv => TypeOK
  BY DEF StoreInv
<1>. QED  BY <1>1, StoreInvariant, PTL

-----------------------------------------------------------------------------
(* The store implements SessionLife. *)

LifeStep == Life!Next \/ UNCHANGED <<entry, gen>>

(* What deletes entries is one End of SessionLife, or nothing.             *)
LEMMA DeletedLife ==
    ASSUME TypeOK, NEW gone, Deleted(gone), UNCHANGED gen
    PROVE  LifeStep
<1>. DEFINE ended == {s \in Sessions : s \in gone /\ Stored(s)}
<1>1. entry' = [s \in Sessions |-> IF s \in ended THEN "gone" ELSE entry[s]]
  BY DEF Deleted
<1>2. \A s \in ended : entry[s] = "stored"
  BY DEF Stored
<1>3. ended \in SUBSET Sessions
  OBVIOUS
<1>4. Life!End(ended)
  BY <1>1, <1>2 DEF Life!End
<1>. QED  BY <1>3, <1>4 DEF LifeStep, Life!Next

LEMMA DropLife ==
    ASSUME TypeOK, NEW s, Drop(s) \/ DropSome(s), UNCHANGED gen
    PROVE  LifeStep
<1>1. Deleted({s}) \/ UNCHANGED entry
  BY DEF Drop, DropSome
<1>. QED  BY <1>1, DeletedLife DEF LifeStep

LEMMA LifeStepTaken == StoreInv /\ [Next]_vars => LifeStep
<1>. SUFFICES ASSUME StoreInv, [Next]_vars PROVE LifeStep
  OBVIOUS
<1>. TypeOK /\ GenInv /\ Bounded
  BY DEF StoreInv
<1>1. CASE UNCHANGED vars
  BY <1>1 DEF vars, storeVars, LifeStep
<1>2. ASSUME NEW q \in Requests, NEW r \in Replicas, NEW s \in Sessions,
             \/ Load(q, r, s) \/ SignOut(q, r, s)
             \/ \E old \in Sessions \cup {NoSession} : Callback(q, r, s, old)
      PROVE  LifeStep
  BY <1>2 DEF Load, SignOut, Callback, storeVars, LifeStep
<1>3. ASSUME NEW q \in Requests, RequestStep(q)
      PROVE  LifeStep
  <2>1. CASE Create(q)
    <3>. DEFINE s == request[q].session
    <3>1. s \in Sessions /\ entry[s] = "none"
      BY <2>1, RequestFields DEF Create, TypeOK, GenInv
    <3>2. Life!SignIn(s)
      BY <2>1, <3>1 DEF Create, Life!SignIn
    <3>. QED  BY <3>1, <3>2 DEF LifeStep, Life!Next
  <2>2. CASE Replace(q) \/ Remove(q)
    BY <2>2, DropLife DEF Replace, Remove
  <2>3. CASE RequestFails(q)
    <3>1. UNCHANGED gen
      BY <2>3 DEF RequestFails
    <3>2. \/ UNCHANGED entry
          \/ DropSome(request[q].old)
          \/ DropSome(Key(request[q].at))
      BY <2>3 DEF RequestFails
    <3>. QED  BY <3>1, <3>2, DropLife DEF LifeStep
  <2>4. ASSUME NEW usable \in BOOLEAN,
               \/ IndexNew(q) \/ StillFresh(q) \/ Reload(q)
               \/ DeadlinePassed(q, usable) \/ Renew(q, usable)
        PROVE  LifeStep
    BY <2>4 DEF IndexNew, StillFresh, Reload, DeadlinePassed, Renew, storeVars, LifeStep
  <2>. QED  BY <1>3, <2>1, <2>2, <2>3, <2>4 DEF RequestStep
<1>4. ASSUME NEW f \in Flights, FlightStep(f) \/ Forget(f)
      PROVE  LifeStep
  <2>1. CASE Write(f) /\ Present(Key(f))
    <3>1. /\ Key(f) \in Sessions /\ gen[Key(f)] = Gen(f)
      BY <2>1, FlightKeys DEF Write, GenInv
    <3>2. /\ entry[Key(f)] = "stored" /\ gen' = [gen EXCEPT ![Key(f)] = Gen(f) + 1]
          /\ entry' = [entry EXCEPT ![Key(f)] = "stored"]
      BY <2>1 DEF Write, Present, Stored
    <3>3. entry' = entry
      BY <3>2 DEF TypeOK
    <3>4. Life!Refresh(Key(f))
      BY <3>1, <3>2, <3>3 DEF Life!Refresh
    <3>. QED  BY <3>1, <3>4 DEF LifeStep, Life!Next
  <2>2. CASE DropRefused(f)
    BY <2>2, DropLife DEF DropRefused
  <2>3. CASE FlightFails(f)
    <3>1. UNCHANGED gen /\ (UNCHANGED entry \/ DropSome(Key(f)))
      BY <2>3 DEF FlightFails
    <3>. QED  BY <3>1, DropLife DEF LifeStep
  <2>4. CASE \/ TakeLock(f) \/ Check(f) \/ Grant(f) \/ Refuse(f) \/ Unanswered(f)
             \/ (Write(f) /\ ~Present(Key(f)))
             \/ IndexAgain(f) \/ Release(f) \/ Wait(f) \/ Peek(f) \/ WaitLast(f)
             \/ Forget(f)
    BY <2>4 DEF TakeLock, Check, Grant, Refuse, Unanswered, Write, IndexAgain, Release,
                Wait, Peek, WaitLast, Forget, storeVars, LifeStep
  <2>. QED  BY <1>4, <2>1, <2>2, <2>3, <2>4 DEF FlightStep
<1>5. ASSUME NEW x \in Sids, EndSso(x) \/ Backchannel(x) \/ LogoutStep(x)
      PROVE  LifeStep
  <2>1. CASE DeleteSessions(x)
    BY <2>1, DeletedLife DEF DeleteSessions
  <2>2. CASE ~DeleteSessions(x)
    BY <1>5, <2>2 DEF EndSso, Backchannel, LogoutStep, Members, CleanIndex, LogoutFails,
                      storeVars, LifeStep
  <2>. QED  BY <2>1, <2>2
<1>6. ASSUME NEW s \in Sessions, LockExpires(s) \/ EntryExpires(s)
      PROVE  LifeStep
  BY <1>6, DeletedLife DEF LockExpires, EntryExpires, LifeStep
<1>7. ASSUME NEW r \in Replicas, Crash(r)
      PROVE  LifeStep
  BY <1>7 DEF Crash, storeVars, LifeStep
<1>. QED  BY <1>1, <1>2, <1>3, <1>4, <1>5, <1>6, <1>7 DEF Next

(* The store of any number of replicas, requests and logouts, crashes and  *)
(* failures included, implements SessionLife: an ended session is never    *)
(* stored again and no generation of tokens is skipped or brought back     *)
(* (create with NX, write with XX, drop; session-store.ts).                *)
THEOREM StoreImplementsLife == Spec => LifeSpec
<1>1. Init => Life!Init
  BY DEF Init, Life!Init
<1>2. LifeStep => [Life!Next]_<<entry, gen>>
  BY DEF LifeStep
<1>3. Spec => Life!Init /\ [][Life!Next]_<<entry, gen>>
  BY <1>1, <1>2, StoreInvariant, LifeStepTaken, PTL DEF Spec
<1>. QED  BY <1>3 DEF LifeSpec, Life!Spec

-----------------------------------------------------------------------------
(* Back-channel logout, of a client whose tokens name the SSO session. *)

Tracked(s) ==
    \/ s \in signedIn
    \/ \E q \in Requests : request[q].pc = "replace" /\ request[q].session = s

(* Until the logout token of its SSO session is recorded, a stored session *)
(* a browser may hold is in the index; from then on the logout finds what  *)
(* was there: nothing takes a session out of the index but its own end.    *)
LogoutInv ==
    /\ \A q \in Requests :
          request[q].pc = "index" => entry[request[q].session] # "none"
    /\ \A s \in Sessions : Tracked(s) =>
          /\ entry[s] # "none"
          /\ Stored(s) /\ SidOf[s] \notin used => s \in index[SidOf[s]]
    /\ \A x \in Sids : logout[x].pc # "idle" => x \in used
    /\ \A x \in Sids, s \in Sessions :
          logout[x].pc # "idle" /\ s \in logout[x].before =>
             /\ s \in signedIn /\ SidOf[s] = x
             /\ Stored(s) => /\ logout[x].pc = "members" => s \in index[x]
                             /\ logout[x].pc = "delete" => s \in logout[x].found
                             /\ logout[x].pc \notin {"clean", "done"}

(* A step that leaves the logouts alone and keeps indexed what is stored.  *)
EndedStayEnded ==
    \A s \in Sessions : entry[s] # "none" =>
        /\ entry'[s] # "none"
        /\ entry'[s] = "stored" => entry[s] = "stored"
IndexKept ==
    \A s \in Sessions :
        entry'[s] = "stored" /\ s \in index[SidOf[s]] => s \in index'[SidOf[s]]
Enters(s) == entry'[s] # "none" /\ s \in index'[SidOf[s]]

LEMMA LogoutUntouched ==
    ASSUME TypeOK, LogoutInv, UNCHANGED <<used, logout>>, signedIn \subseteq signedIn',
           EndedStayEnded, IndexKept,
           \A q \in Requests :
              request'[q].pc = "index" => entry'[request'[q].session] # "none",
           \A s \in signedIn' : Tracked(s) \/ Enters(s),
           \A q \in Requests : request'[q].pc = "replace"
              => Tracked(request'[q].session) \/ Enters(request'[q].session)
    PROVE  LogoutInv'
<1>1. (\A q \in Requests :
          request[q].pc = "index" => entry[request[q].session] # "none")'
  OBVIOUS
<1>2. (\A s \in Sessions : Tracked(s) =>
          /\ entry[s] # "none"
          /\ Stored(s) /\ SidOf[s] \notin used => s \in index[SidOf[s]])'
  <2>1. ASSUME NEW s \in Sessions, Tracked(s)'
        PROVE  /\ entry'[s] # "none"
               /\ entry'[s] = "stored" /\ SidOf[s] \notin used => s \in index'[SidOf[s]]
    <3>1. Tracked(s) \/ Enters(s)
      BY <2>1 DEF Tracked
    <3>2. CASE Enters(s)
      BY <3>2 DEF Enters
    <3>3. CASE Tracked(s)
      BY <3>3 DEF LogoutInv, EndedStayEnded, IndexKept, Stored
    <3>. QED  BY <3>1, <3>2, <3>3
  <2>. QED  BY <2>1 DEF Stored
<1>3. (\A x \in Sids, s \in Sessions :
          logout[x].pc # "idle" /\ s \in logout[x].before =>
             /\ s \in signedIn /\ SidOf[s] = x
             /\ Stored(s) => /\ logout[x].pc = "members" => s \in index[x]
                             /\ logout[x].pc = "delete" => s \in logout[x].found
                             /\ logout[x].pc \notin {"clean", "done"})'
  <2>1. ASSUME NEW x \in Sids, NEW s \in Sessions,
               logout[x].pc # "idle", s \in logout[x].before
        PROVE  /\ s \in signedIn' /\ SidOf[s] = x
               /\ entry'[s] = "stored" =>
                     /\ logout[x].pc = "members" => s \in index'[x]
                     /\ logout[x].pc = "delete" => s \in logout[x].found
                     /\ logout[x].pc \notin {"clean", "done"}
    <3>1. s \in signedIn /\ SidOf[s] = x
      BY <2>1 DEF LogoutInv
    <3>2. entry'[s] = "stored" => Stored(s)
      BY <3>1 DEF LogoutInv, EndedStayEnded, Stored, Tracked
    <3>. QED  BY <2>1, <3>1, <3>2 DEF LogoutInv, IndexKept
  <2>. QED  BY <2>1 DEF Stored
<1>4. (\A x \in Sids : logout[x].pc # "idle" => x \in used)'
  BY DEF LogoutInv
<1>. QED  BY <1>1, <1>2, <1>3, <1>4 DEF LogoutInv

(* A step that, besides, signs nobody in.                                  *)
LEMMA LogoutCalm ==
    ASSUME TypeOK, LogoutInv, QuietEntries, IndexKept,
           UNCHANGED <<used, logout, signedIn>>,
           \A q \in Requests :
              request'[q].pc \in {"index", "replace"} => request'[q] = request[q]
    PROVE  LogoutInv'
<1>1. EndedStayEnded
  BY DEF QuietEntries, EndedStayEnded, Stored
<1>2. \A q \in Requests :
         request'[q].pc = "index" => entry'[request'[q].session] # "none"
  <2>1. ASSUME NEW q \in Requests, request'[q].pc = "index"
        PROVE  entry'[request'[q].session] # "none"
    <3>1. request'[q] = request[q] /\ request[q].session \in Sessions
      BY <2>1, RequestFields DEF TypeOK
    <3>. QED  BY <1>1, <2>1, <3>1 DEF LogoutInv, EndedStayEnded
  <2>. QED  BY <2>1
<1>3. \A q \in Requests : request'[q].pc = "replace" => Tracked(request'[q].session)
  BY DEF Tracked
<1>4. \A s \in signedIn' : Tracked(s)
  BY DEF Tracked
<1>. QED  BY <1>1, <1>2, <1>3, <1>4, LogoutUntouched

LEMMA IndexedKept ==
    ASSUME TypeOK, NEW s, NEW keys
    PROVE  /\ Indexed(s, keys) => IndexKept
           /\ UNCHANGED index => IndexKept
<1>1. \A t \in Sessions : SidOf[t] \in Keys
  BY ConstantsAssumption DEF Keys
<1>. QED  BY <1>1 DEF Indexed, IndexKept

LEMMA DropKept ==
    ASSUME TypeOK, NEW s, Drop(s) \/ DropSome(s)
    PROVE  IndexKept
<1>1. \A t \in Sessions : SidOf[t] \in Keys
  BY ConstantsAssumption DEF Keys
<1>2. CASE UNCHANGED index
  BY <1>2, IndexedKept
<1>3. ASSUME NEW keys, Deleted({s}), Unindexed({s}, keys)
      PROVE  IndexKept
  <2>1. ASSUME NEW t \in Sessions, entry'[t] = "stored", t \in index[SidOf[t]]
        PROVE  t \in index'[SidOf[t]]
    <3>1. t # s
      BY <1>3, <2>1 DEF Deleted, Stored
    <3>. QED  BY <1>1, <1>3, <2>1, <3>1 DEF Unindexed
  <2>. QED  BY <2>1 DEF IndexKept
<1>. QED  BY <1>2, <1>3 DEF Drop, DropSome

(* The steps of a request.                                                 *)
LEMMA RequestLogoutStep ==
    ASSUME StoreInv, LogoutInv, NEW q \in Requests, RequestStep(q)
    PROVE  LogoutInv'
<1>. TypeOK /\ GenInv /\ request[q] \in RequestStates
  BY DEF StoreInv, TypeOK
<1>a. ASSUME NEW state, To(q, state), state.pc \notin {"index", "replace"}
      PROVE  \A p \in Requests :
                request'[p].pc \in {"index", "replace"} => request'[p] = request[p]
  BY <1>a DEF To, TypeOK
<1>b. \A s \in Sessions : SidOf[s] \in Keys
  BY ConstantsAssumption DEF Keys
<1>1. CASE Create(q)
  <2>. DEFINE s == request[q].session
  <2>1. s \in Sessions /\ entry[s] = "none"
    BY <1>1, RequestFields DEF Create, GenInv
  <2>2. PICK state : /\ state.pc = "index" /\ state.session = s
                     /\ request' = [request EXCEPT ![q] = state]
    BY <1>1 DEF Create, To, SigningIn
  <2>3. /\ entry' = [entry EXCEPT ![s] = "stored"]
        /\ UNCHANGED <<index, used, logout, signedIn>>
    BY <1>1 DEF Create
  <2>. HIDE DEF s
  <2>4. \A t \in Sessions : entry'[t] = IF t = s THEN "stored" ELSE entry[t]
    BY <2>1, <2>3 DEF TypeOK
  <2>5. EndedStayEnded
    BY <2>1, <2>4 DEF EndedStayEnded
  <2>6. \A p \in Requests : request'[p] = IF p = q THEN state ELSE request[p]
    BY <2>2 DEF TypeOK
  <2>7. ASSUME NEW p \in Requests, request'[p].pc = "index"
        PROVE  entry'[request'[p].session] # "none"
    <3>1. CASE p = q
      BY <2>1, <2>2, <2>4, <2>6, <3>1
    <3>2. CASE p # q
      <4>1. request'[p] = request[p] /\ request[p].session \in Sessions
        BY <2>6, <2>7, <3>2, RequestFields DEF TypeOK
      <4>. QED  BY <2>4, <2>7, <4>1 DEF LogoutInv
    <3>. QED  BY <3>1, <3>2
  <2>8. \A p \in Requests : request'[p].pc = "replace" => Tracked(request'[p].session)
    BY <2>2, <2>6 DEF Tracked
  <2>9. \A t \in signedIn' : Tracked(t)
    BY <2>3 DEF Tracked
  <2>. QED  BY <2>3, <2>5, <2>7, <2>8, <2>9, IndexedKept, LogoutUntouched
<1>2. CASE IndexNew(q)
  <2>. DEFINE s == request[q].session
  <2>1. s \in Sessions /\ entry[s] # "none"
    BY <1>2, RequestFields DEF IndexNew, LogoutInv
  <2>2. /\ Indexed(s, KeysOf(s)) /\ UNCHANGED <<entry, used, logout>>
        /\ signedIn' \in {signedIn, signedIn \cup {s}}
    BY <1>2 DEF IndexNew
  <2>3. PICK state : /\ state.pc = "idle" \/ (state.pc = "replace" /\ state.session = s)
                     /\ request' = [request EXCEPT ![q] = state]
    BY <1>2 DEF IndexNew, To, Idle, SigningIn
  <2>. HIDE DEF s
  <2>4. Enters(s)
    BY <1>b, <2>1, <2>2 DEF Enters, Indexed, KeysOf
  <2>5. \A p \in Requests : request'[p] = IF p = q THEN state ELSE request[p]
    BY <2>3 DEF TypeOK
  <2>6. EndedStayEnded
    BY <2>2 DEF EndedStayEnded
  <2>7. \A p \in Requests :
           request'[p].pc = "index" => entry'[request'[p].session] # "none"
    BY <2>2, <2>3, <2>5 DEF LogoutInv
  <2>8. \A p \in Requests : request'[p].pc = "replace"
           => Tracked(request'[p].session) \/ Enters(request'[p].session)
    BY <2>3, <2>4, <2>5 DEF Tracked
  <2>9. \A t \in signedIn' : Tracked(t) \/ Enters(t)
    BY <2>2, <2>4 DEF Tracked
  <2>. QED  BY <2>2, <2>6, <2>7, <2>8, <2>9, IndexedKept, LogoutUntouched
<1>3. CASE Replace(q)
  <2>1. /\ Drop(request[q].old) /\ UNCHANGED <<used, logout>>
        /\ request[q].pc = "replace"
        /\ signedIn' = signedIn \cup {request[q].session}
        /\ request' = [request EXCEPT ![q] = Idle]
    BY <1>3 DEF Replace, To, idpVars
  <2>2. \A p \in Requests : request'[p] = IF p = q THEN Idle ELSE request[p]
    BY <2>1 DEF TypeOK
  <2>3. QuietEntries /\ IndexKept
    BY <2>1, DropQuiet, DropKept
  <2>4. EndedStayEnded
    BY <2>3 DEF QuietEntries, EndedStayEnded, Stored
  <2>5. ASSUME NEW p \in Requests, request'[p].pc = "index"
        PROVE  entry'[request'[p].session] # "none"
    <3>1. request'[p] = request[p] /\ request[p].session \in Sessions
      BY <2>2, <2>5, RequestFields DEF TypeOK, Idle
    <3>. QED  BY <2>4, <2>5, <3>1 DEF LogoutInv, EndedStayEnded
  <2>6. \A p \in Requests : request'[p].pc = "replace" => Tracked(request'[p].session)
    BY <2>2 DEF Tracked, Idle
  <2>7. \A t \in signedIn' : Tracked(t)
    BY <2>1 DEF Tracked
  <2>. QED  BY <2>1, <2>3, <2>4, <2>5, <2>6, <2>7, LogoutUntouched
<1>4. CASE Remove(q) \/ RequestFails(q)
  <2>1. To(q, Idle) /\ UNCHANGED <<used, logout, signedIn>>
    BY <1>4 DEF Remove, RequestFails, idpVars
  <2>2. \A p \in Requests :
           request'[p].pc \in {"index", "replace"} => request'[p] = request[p]
    BY <1>a, <2>1 DEF Idle
  <2>3. QuietEntries
    BY <1>4, DropQuiet DEF Remove, RequestFails, QuietEntries
  <2>4. IndexKept
    <3>1. CASE Remove(q)
      BY <3>1, DropKept DEF Remove
    <3>2. CASE RequestFails(q)
      <4>1. \/ UNCHANGED index \/ IndexedSome(request[q].session)
            \/ DropSome(request[q].old) \/ DropSome(Key(request[q].at))
        BY <3>2 DEF RequestFails
      <4>. QED  BY <4>1, DropKept, IndexedKept DEF IndexedSome
    <3>. QED  BY <1>4, <3>1, <3>2
  <2>. QED  BY <2>1, <2>2, <2>3, <2>4, LogoutCalm
<1>5. ASSUME NEW usable \in BOOLEAN,
             \/ StillFresh(q) \/ Reload(q) \/ DeadlinePassed(q, usable)
             \/ Renew(q, usable)
      PROVE  LogoutInv'
  <2>1. UNCHANGED <<entry, index, used, logout, signedIn>>
    BY <1>5 DEF StillFresh, Reload, DeadlinePassed, Renew, storeVars
  <2>2. \E state : state.pc \notin {"index", "replace"} /\ To(q, state)
    BY <1>5 DEF StillFresh, Reload, DeadlinePassed, Renew, Idle, At, Joined
  <2>3. \A p \in Requests :
           request'[p].pc \in {"index", "replace"} => request'[p] = request[p]
    BY <1>a, <2>2
  <2>4. QuietEntries
    BY <2>1 DEF QuietEntries
  <2>. QED  BY <2>1, <2>3, <2>4, IndexedKept, LogoutCalm
<1>. QED  BY <1>1, <1>2, <1>3, <1>4, <1>5 DEF RequestStep

(* The steps of a refresh.                                                 *)
LEMMA FlightLogoutStep ==
    ASSUME StoreInv, LogoutInv, NEW f \in Flights, FlightStep(f) \/ Forget(f)
    PROVE  LogoutInv'
<1>. TypeOK
  BY DEF StoreInv
<1>1. UNCHANGED <<used, logout, signedIn>>
  BY DEF FlightStep, TakeLock, Check, Grant, Refuse, Unanswered, Write, IndexAgain,
         DropRefused, Release, Wait, Peek, WaitLast, FlightFails, Forget, storeVars
<1>2. ASSUME NEW outcome, Settle(f, outcome)
      PROVE  \A q \in Requests :
                request'[q].pc \in {"index", "replace"} => request'[q] = request[q]
  BY <1>2 DEF Settle, AfterRenewal, Idle, At
<1>3. \A q \in Requests :
         request'[q].pc \in {"index", "replace"} => request'[q] = request[q]
  <2>1. UNCHANGED request \/ \E outcome : Settle(f, outcome)
    BY DEF FlightStep, TakeLock, Check, Grant, Refuse, Unanswered, Write, IndexAgain,
           DropRefused, Release, Wait, Peek, WaitLast, FlightFails, Forget
  <2>. QED  BY <1>2, <2>1
<1>4. QuietEntries /\ IndexKept
  <2>1. CASE DropRefused(f)
    BY <2>1, DropQuiet, DropKept DEF DropRefused
  <2>2. CASE IndexAgain(f)
    BY <2>2, IndexedKept DEF IndexAgain, QuietEntries
  <2>3. CASE FlightFails(f)
    <3>1. \/ UNCHANGED <<entry, index>> \/ (IndexedSome(Key(f)) /\ UNCHANGED entry)
          \/ DropSome(Key(f))
      BY <2>3 DEF FlightFails
    <3>. QED  BY <3>1, DropQuiet, DropKept, IndexedKept DEF IndexedSome, QuietEntries
  <2>4. CASE Write(f)
    <3>1. UNCHANGED index /\ (UNCHANGED entry \/ entry' = [entry EXCEPT ![Key(f)] = "stored"])
      BY <2>4 DEF Write
    <3>2. entry' # entry => Stored(Key(f))
      BY <2>4 DEF Write, Present
    <3>. QED  BY <3>1, <3>2, IndexedKept, FlightKeys DEF QuietEntries, Stored, TypeOK
  <2>5. CASE \/ TakeLock(f) \/ Check(f) \/ Grant(f) \/ Refuse(f) \/ Unanswered(f)
             \/ Release(f) \/ Wait(f) \/ Peek(f) \/ WaitLast(f) \/ Forget(f)
    <3>1. UNCHANGED <<entry, index>>
      BY <2>5 DEF TakeLock, Check, Grant, Refuse, Unanswered, Release, Wait, Peek,
                  WaitLast, Forget, storeVars
    <3>. QED  BY <3>1, IndexedKept DEF QuietEntries
  <2>. QED  BY <2>1, <2>2, <2>3, <2>4, <2>5 DEF FlightStep
<1>. QED  BY <1>1, <1>3, <1>4, LogoutCalm

(* A logout moves on, and takes out of the index sessions of its own.      *)
LEMMA LogoutMoves ==
    ASSUME TypeOK, LogoutInv, QuietEntries, NEW x \in Sids, NEW state,
           logout' = [logout EXCEPT ![x] = state],
           UNCHANGED <<signedIn, request>>, used \subseteq used', x \in used',
           \A s \in Sessions : SidOf[s] # x /\ s \in index[SidOf[s]]
              => s \in index'[SidOf[s]],
           \A s \in Sessions : s \in state.before =>
              /\ s \in signedIn /\ SidOf[s] = x
              /\ entry'[s] = "stored" =>
                    /\ state.pc = "members" => s \in index'[x]
                    /\ state.pc = "delete" => s \in state.found
                    /\ state.pc \notin {"clean", "done"}
    PROVE  LogoutInv'
<1>. EndedStayEnded
  BY DEF QuietEntries, EndedStayEnded, Stored
<1>. \A y \in Sids : logout'[y] = IF y = x THEN state ELSE logout[y]
  BY DEF TypeOK
<1>1. (\A q \in Requests :
          request[q].pc = "index" => entry[request[q].session] # "none")'
  <2>1. ASSUME NEW q \in Requests, request[q].pc = "index"
        PROVE  entry'[request[q].session] # "none"
    BY <2>1, RequestFields DEF TypeOK, LogoutInv, EndedStayEnded
  <2>. QED  BY <2>1
<1>2. (\A s \in Sessions : Tracked(s) =>
          /\ entry[s] # "none"
          /\ Stored(s) /\ SidOf[s] \notin used => s \in index[SidOf[s]])'
  <2>1. ASSUME NEW s \in Sessions, Tracked(s)
        PROVE  /\ entry'[s] # "none"
               /\ entry'[s] = "stored" /\ SidOf[s] \notin used' => s \in index'[SidOf[s]]
    BY <2>1 DEF LogoutInv, EndedStayEnded, Stored
  <2>. QED  BY <2>1 DEF Stored, Tracked
<1>3. (\A y \in Sids, s \in Sessions :
          logout[y].pc # "idle" /\ s \in logout[y].before =>
             /\ s \in signedIn /\ SidOf[s] = y
             /\ Stored(s) => /\ logout[y].pc = "members" => s \in index[y]
                             /\ logout[y].pc = "delete" => s \in logout[y].found
                             /\ logout[y].pc \notin {"clean", "done"})'
  <2>1. ASSUME NEW y \in Sids, NEW s \in Sessions, y # x,
               logout[y].pc # "idle", s \in logout[y].before
        PROVE  /\ s \in signedIn /\ SidOf[s] = y
               /\ entry'[s] = "stored" =>
                     /\ logout[y].pc = "members" => s \in index'[y]
                     /\ logout[y].pc = "delete" => s \in logout[y].found
                     /\ logout[y].pc \notin {"clean", "done"}
    <3>1. s \in signedIn /\ SidOf[s] = y
      BY <2>1 DEF LogoutInv
    <3>2. entry'[s] = "stored" => Stored(s)
      BY <3>1 DEF LogoutInv, EndedStayEnded, Stored, Tracked
    <3>. QED  BY <2>1, <3>1, <3>2 DEF LogoutInv
  <2>. QED  BY <2>1 DEF Stored
<1>4. (\A y \in Sids : logout[y].pc # "idle" => y \in used)'
  BY DEF LogoutInv
<1>. QED  BY <1>1, <1>2, <1>3, <1>4 DEF LogoutInv

(* The steps of a logout.                                                  *)
LEMMA LogoutLogoutStep ==
    ASSUME StoreInv, LogoutInv, SidInToken, NEW x \in Sids,
           Backchannel(x) \/ LogoutStep(x)
    PROVE  LogoutInv'
<1>. TypeOK
  BY DEF StoreInv
<1>. /\ NamedBy(x) = x /\ SubOf[x] \notin Sids
     /\ \A s \in Sessions : SidOf[s] \in Keys /\ SidOf[s] \in Sids
  BY ConstantsAssumption DEF NamedBy, Keys
<1>a. LogoutStep(x) => logout[x].pc # "idle" /\ x \in used
  BY DEF LogoutStep, Members, DeleteSessions, CleanIndex, LogoutFails, LogoutInv
<1>b. \A s \in Sessions : LogoutStep(x) /\ s \in logout[x].before =>
         /\ s \in signedIn /\ SidOf[s] = x
         /\ Stored(s) => /\ logout[x].pc = "members" => s \in index[x]
                         /\ logout[x].pc = "delete" => s \in logout[x].found
                         /\ logout[x].pc \notin {"clean", "done"}
  BY <1>a DEF LogoutInv
<1>c. \A pc, before, found :
         /\ LogoutAt(pc, before, found).pc = pc
         /\ LogoutAt(pc, before, found).before = before
         /\ LogoutAt(pc, before, found).found = found
  BY DEF LogoutAt
<1>1. CASE Backchannel(x)
  <2>. DEFINE state == LogoutAt("members", {s \in signedIn : Names(x, s)}, {})
  <2>1. /\ logout' = [logout EXCEPT ![x] = state]
        /\ x \notin used /\ used' = used \cup {x}
        /\ UNCHANGED <<entry, index, signedIn, request>>
    BY <1>1 DEF Backchannel
  <2>2. state.pc = "members" /\ state.before = {s \in signedIn : SidOf[s] = x}
    BY DEF LogoutAt, Names
  <2>. HIDE DEF state
  <2>3. \A s \in signedIn : Stored(s) /\ SidOf[s] = x => s \in index[x]
    BY <2>1 DEF LogoutInv, Tracked, TypeOK
  <2>4. \A s \in Sessions : s \in state.before =>
           /\ s \in signedIn /\ SidOf[s] = x
           /\ entry'[s] = "stored" => s \in index'[x]
    BY <2>1, <2>2, <2>3 DEF Stored
  <2>. QED  BY <2>1, <2>2, <2>4, SameQuiet, LogoutMoves DEF QuietEntries
<1>2. CASE Members(x)
  <2>. DEFINE state == LogoutAt("delete", logout[x].before, index[x])
  <2>1. /\ logout' = [logout EXCEPT ![x] = state] /\ logout[x].pc = "members"
        /\ UNCHANGED <<entry, index, used, signedIn, request>>
    BY <1>2 DEF Members, storeVars
  <2>2. /\ state.pc = "delete" /\ state.before = logout[x].before
        /\ state.found = index[x]
    BY <1>c
  <2>. HIDE DEF state
  <2>3. \A s \in Sessions : s \in state.before =>
           /\ s \in signedIn /\ SidOf[s] = x
           /\ entry'[s] = "stored" => s \in state.found
    BY <1>2, <1>b, <2>1, <2>2 DEF LogoutStep, Stored
  <2>. QED  BY <1>2, <1>a, <2>1, <2>2, <2>3, LogoutMoves DEF QuietEntries, LogoutStep
<1>3. CASE DeleteSessions(x)
  <2>. DEFINE state == LogoutAt("clean", logout[x].before, logout[x].found)
  <2>1. /\ logout' = [logout EXCEPT ![x] = state] /\ logout[x].pc = "delete"
        /\ Deleted(logout[x].found)
        /\ UNCHANGED <<index, used, signedIn, request>>
    BY <1>3 DEF DeleteSessions
  <2>2. state.pc = "clean" /\ state.before = logout[x].before
    BY <1>c
  <2>. HIDE DEF state
  <2>3. \A s \in Sessions : s \in state.before =>
           s \in signedIn /\ SidOf[s] = x /\ entry'[s] # "stored"
    BY <1>3, <1>b, <2>1, <2>2 DEF LogoutStep, Stored, Deleted
  <2>4. QuietEntries
    BY <2>1, DeletedQuiet
  <2>5. x \in used' /\ used \subseteq used' /\ UNCHANGED <<signedIn, request>>
    BY <1>3, <1>a, <2>1 DEF LogoutStep
  <2>6. \A s \in Sessions : s \in index[SidOf[s]] => s \in index'[SidOf[s]]
    BY <2>1
  <2>7. \A s \in Sessions : s \in state.before =>
           /\ s \in signedIn /\ SidOf[s] = x
           /\ entry'[s] = "stored" =>
                 /\ state.pc = "members" => s \in index'[x]
                 /\ state.pc = "delete" => s \in state.found
                 /\ state.pc \notin {"clean", "done"}
    BY <2>3
  <2>. QED  BY <2>1, <2>4, <2>5, <2>6, <2>7, LogoutMoves
<1>4. CASE CleanIndex(x)
  <2>. DEFINE state == LogoutAt("done", logout[x].before, logout[x].found)
  <2>1. /\ logout' = [logout EXCEPT ![x] = state] /\ logout[x].pc = "clean"
        /\ index' = [k \in Keys |->
              IF k = x THEN {}
              ELSE IF k = SubOf[x] THEN index[k] \ logout[x].found ELSE index[k]]
        /\ UNCHANGED <<entry, used, signedIn, request>>
    BY <1>4 DEF CleanIndex
  <2>2. state.pc = "done" /\ state.before = logout[x].before
    BY <1>c
  <2>. HIDE DEF state
  <2>3. \A s \in Sessions : s \in state.before =>
           s \in signedIn /\ SidOf[s] = x /\ entry'[s] # "stored"
    BY <1>4, <1>b, <2>1, <2>2 DEF LogoutStep, Stored
  <2>4. \A s \in Sessions : SidOf[s] # x /\ s \in index[SidOf[s]]
           => s \in index'[SidOf[s]]
    BY <2>1
  <2>5. QuietEntries
    BY <2>1 DEF QuietEntries
  <2>6. x \in used
    BY <1>4, <1>a DEF LogoutStep
  <2>7. /\ logout' = [logout EXCEPT ![x] = state]
        /\ UNCHANGED <<signedIn, request>> /\ used \subseteq used' /\ x \in used'
    BY <2>1, <2>6
  <2>8. \A s \in Sessions : s \in state.before =>
           /\ s \in signedIn /\ SidOf[s] = x
           /\ entry'[s] = "stored" =>
                 /\ state.pc = "members" => s \in index'[x]
                 /\ state.pc = "delete" => s \in state.found
                 /\ state.pc \notin {"clean", "done"}
    BY <2>3
  <2>. QED  BY <2>4, <2>5, <2>7, <2>8, LogoutMoves
<1>5. CASE LogoutFails(x)
  <2>. DEFINE state == LogoutAt("failed", logout[x].before, logout[x].found)
  <2>1. /\ logout' = [logout EXCEPT ![x] = state]
        /\ UNCHANGED <<entry, used, signedIn, request>>
        /\ UNCHANGED index \/ index' = [index EXCEPT ![x] = {}]
    BY <1>5 DEF LogoutFails
  <2>2. state.pc = "failed" /\ state.before = logout[x].before
    BY <1>c
  <2>. HIDE DEF state
  <2>3. \A s \in Sessions : s \in state.before => s \in signedIn /\ SidOf[s] = x
    BY <1>5, <1>b, <2>2 DEF LogoutStep
  <2>4. \A s \in Sessions : SidOf[s] # x /\ s \in index[SidOf[s]]
           => s \in index'[SidOf[s]]
    BY <2>1 DEF TypeOK
  <2>. QED
    BY <1>5, <1>a, <2>1, <2>2, <2>3, <2>4, LogoutMoves DEF QuietEntries, LogoutStep
<1>. QED  BY <1>1, <1>2, <1>3, <1>4, <1>5 DEF LogoutStep

LEMMA LogoutInvNext ==
    ASSUME SidInToken
    PROVE  StoreInv /\ LogoutInv /\ [Next]_vars => LogoutInv'
<1>. SUFFICES ASSUME StoreInv, LogoutInv, [Next]_vars PROVE LogoutInv'
  OBVIOUS
<1>. TypeOK
  BY DEF StoreInv
<1>1. CASE UNCHANGED vars
  BY <1>1, IndexedKept, LogoutCalm DEF vars, storeVars, QuietEntries
<1>2. ASSUME NEW q \in Requests, NEW r \in Replicas, NEW s \in Sessions,
             \/ Load(q, r, s) \/ SignOut(q, r, s)
             \/ \E old \in Sessions \cup {NoSession} : Callback(q, r, s, old)
      PROVE  LogoutInv'
  <2>1. UNCHANGED <<entry, index, used, logout, signedIn>>
    BY <1>2 DEF Load, SignOut, Callback, storeVars
  <2>2. UNCHANGED request \/ \E state : state.pc \in {"loaded", "signOut", "create"}
                                        /\ To(q, state)
    <3>1. ASSUME NEW old \in Sessions \cup {NoSession}, Callback(q, r, s, old)
          PROVE  SigningIn("create", r, s, old).pc = "create"
                 /\ To(q, SigningIn("create", r, s, old))
      BY <3>1 DEF Callback, SigningIn
    <3>2. CASE Load(q, r, s) \/ SignOut(q, r, s)
      BY <3>2 DEF Load, SignOut, At
    <3>. QED  BY <1>2, <3>1, <3>2
  <2>3. \A p \in Requests :
           request'[p].pc \in {"index", "replace"} => request'[p] = request[p]
    BY <2>2 DEF To, TypeOK
  <2>. QED  BY <2>1, <2>3, IndexedKept, LogoutCalm DEF QuietEntries
<1>3. ASSUME NEW x \in Sids, EndSso(x)
      PROVE  LogoutInv'
  BY <1>3, IndexedKept, LogoutCalm DEF EndSso, storeVars, QuietEntries
<1>4. ASSUME NEW s \in Sessions, LockExpires(s) \/ EntryExpires(s)
      PROVE  LogoutInv'
  <2>1. UNCHANGED <<index, used, logout, signedIn, request>>
    BY <1>4 DEF LockExpires, EntryExpires
  <2>2. QuietEntries
    BY <1>4, DeletedQuiet DEF LockExpires, EntryExpires, QuietEntries
  <2>. QED  BY <2>1, <2>2, IndexedKept, LogoutCalm
<1>5. ASSUME NEW r \in Replicas, Crash(r)
      PROVE  LogoutInv'
  <2>1. UNCHANGED <<entry, index, used, logout, signedIn>>
    BY <1>5 DEF Crash, storeVars
  <2>2. \A q \in Requests :
           request'[q].pc \in {"index", "replace"} => request'[q] = request[q]
    BY <1>5 DEF Crash, Idle
  <2>. QED  BY <2>1, <2>2, IndexedKept, LogoutCalm DEF QuietEntries
<1>. QED
  BY <1>1, <1>2, <1>3, <1>4, <1>5, RequestLogoutStep, FlightLogoutStep, LogoutLogoutStep
  DEF Next

(* A logout token that names the SSO session ends every session of it that *)
(* was signed in when the token arrived, and once it is answered with      *)
(* success none of them is in the store, whatever refreshes, sign-ins and  *)
(* sign-outs of any number of replicas did meanwhile (endIdpSession).      *)
THEOREM LogoutEndsSessions == SidInToken => (Spec => []LogoutComplete)
<1>. SUFFICES ASSUME SidInToken PROVE Spec => []LogoutComplete
  OBVIOUS
<1>1. Init => LogoutInv
  BY DEF Init, LogoutInv, Tracked, Idle
<1>2. StoreInv /\ LogoutInv => LogoutComplete
  <2>. SUFFICES ASSUME StoreInv, LogoutInv, NEW x \in Sids, logout[x].pc = "done",
                       NEW s \in logout[x].before, Stored(s)
                PROVE  FALSE
    BY DEF LogoutComplete
  <2>. QED  BY LogoutTypes DEF LogoutInv, StoreInv, TypeOK
<1>3. StoreInv /\ LogoutInv /\ [Next]_vars => LogoutInv'
  BY LogoutInvNext
<1>. QED  BY <1>1, <1>2, <1>3, StoreInvariant, PTL DEF Spec

-----------------------------------------------------------------------------
(* A refresh token is spent once, while a lock outlives the refresh it     *)
(* guards. *)

(* The lock of a working flight is its own; the IdP is ahead of the store  *)
(* only while a refresh waits to be written, or when tokens were lost.     *)
Exclusive == \A f \in Flights : Working(f) => lock[Key(f)] = f
Ahead ==
    \A s \in Sessions : Stored(s) /\ granted[s] = gen[s] + 1 =>
        s \in lost \/ \E f \in Flights : Key(f) = s /\ flight[f].pc = "write"
SpendInv == Exclusive /\ Ahead /\ TokenSpentOnce

(* A step that starts no work, takes no lock, and loses what it does not   *)
(* write.                                                                  *)
WorkGoesOn ==
    \A f \in Flights :
        /\ flight'[f].pc \in UnderLock => flight[f].pc \in UnderLock
        /\ flight'[f].pc = "refresh" => flight[f].pc = "refresh"
        /\ flight[f].pc = "write" => flight'[f].pc = "write" \/ Key(f) \in lost'

LEMMA SpendQuiet ==
    ASSUME TypeOK, SpendInv, QuietEntries, WorkGoesOn, UNCHANGED <<gen, granted, lock>>,
           lost \subseteq lost'
    PROVE  SpendInv'
<1>1. Exclusive'
  BY DEF SpendInv, Exclusive, WorkGoesOn, Working, Key
<1>2. Ahead'
  <2>1. ASSUME NEW s \in Sessions, entry'[s] = "stored", granted[s] = gen[s] + 1
        PROVE  s \in lost' \/ \E f \in Flights : Key(f) = s /\ flight'[f].pc = "write"
    BY <2>1 DEF SpendInv, Ahead, QuietEntries, WorkGoesOn, Stored
  <2>. QED  BY <2>1 DEF Ahead, Stored, Key
<1>3. TokenSpentOnce'
  BY DEF SpendInv, TokenSpentOnce, WorkGoesOn, Key, Gen
<1>. QED  BY <1>1, <1>2, <1>3 DEF SpendInv

(* Two refreshes of one session do not work at once.                       *)
LEMMA OneWorks ==
    ASSUME SpendInv, NEW f \in Flights, NEW g \in Flights, Working(f), Working(g),
           Key(f) = Key(g)
    PROVE  f = g
BY DEF SpendInv, Exclusive

(* A refresh under its lock moves on, and loses what it does not write.    *)
LEMMA WorkQuiet ==
    ASSUME TypeOK, SpendInv, QuietEntries, UNCHANGED <<gen, granted, lock>>,
           lost \subseteq lost', NEW f \in Flights, NEW state,
           flight' = [flight EXCEPT ![f] = state],
           state.pc \in UnderLock => Working(f),
           state.pc # "refresh", flight[f].pc # "write" \/ Key(f) \in lost'
    PROVE  SpendInv'
<1>1. WorkGoesOn
  BY DEF WorkGoesOn, TypeOK, Working
<1>. QED  BY <1>1, SpendQuiet

(* A flight that leaves what the lock guards, or never was there.          *)
LEMMA SettleSpend ==
    ASSUME TypeOK, SpendInv, QuietEntries, UNCHANGED <<gen, granted, lost>>,
           NEW f \in Flights, NEW outcome, flight[f].pc # "write", Settle(f, outcome),
           \/ UNCHANGED lock
           \/ lock[Key(f)] = f /\ lock' = [lock EXCEPT ![Key(f)] = NoFlight]
    PROVE  SpendInv'
<1>. DEFINE state == Plain(IF outcome = "refreshed" THEN "settled" ELSE "none")
<1>1. flight' = [flight EXCEPT ![f] = state]
  BY DEF Settle, Step
<1>2. state.pc \in {"settled", "none"}
  BY DEF Plain
<1>. HIDE DEF state
<1>3. \A g \in Flights : flight'[g] = IF g = f THEN state ELSE flight[g]
  BY <1>1 DEF TypeOK
<1>4. WorkGoesOn
  BY <1>2, <1>3 DEF WorkGoesOn, UnderLock
<1>5. CASE UNCHANGED lock
  BY <1>4, <1>5, SpendQuiet
<1>6. CASE lock[Key(f)] = f /\ lock' = [lock EXCEPT ![Key(f)] = NoFlight]
  <2>1. ASSUME NEW g \in Flights, flight'[g].pc \in UnderLock
        PROVE  lock'[Key(g)] = g
    <3>1. g # f /\ Working(g)
      BY <1>2, <1>3, <2>1 DEF UnderLock, Working
    <3>2. lock[Key(g)] = g
      BY <3>1 DEF SpendInv, Exclusive
    <3>3. Key(g) # Key(f)
      BY <1>6, <3>1, <3>2
    <3>. QED  BY <1>6, <3>2, <3>3, FlightKeys DEF TypeOK
  <2>2. Exclusive'
    BY <2>1 DEF Exclusive, Working, Key
  <2>3. Ahead'
    <3>1. ASSUME NEW s \in Sessions, entry'[s] = "stored", granted[s] = gen[s] + 1
          PROVE  s \in lost \/ \E g \in Flights : Key(g) = s /\ flight'[g].pc = "write"
      BY <1>3, <3>1 DEF SpendInv, Ahead, QuietEntries, Stored
    <3>. QED  BY <3>1 DEF Ahead, Stored, Key
  <2>4. TokenSpentOnce'
    BY <1>4 DEF SpendInv, TokenSpentOnce, WorkGoesOn, Key, Gen
  <2>. QED  BY <2>2, <2>3, <2>4 DEF SpendInv
<1>. QED  BY <1>5, <1>6

(* The IdP uses up the token of the flight that holds the lock.            *)
LEMMA UsedUpSpend ==
    ASSUME StoreInv, SpendInv, NEW f \in Flights, NEW state,
           flight[f].pc = "refresh", state.pc \in {"write", "release"},
           flight' = [flight EXCEPT ![f] = state],
           granted' = [granted EXCEPT ![Key(f)] = Gen(f) + 1],
           UNCHANGED <<entry, gen, lock>>, lost \subseteq lost',
           state.pc = "write" \/ Key(f) \in lost'
    PROVE  SpendInv'
<1>. TypeOK /\ Working(f)
  BY DEF StoreInv, Working, UnderLock
<1>1. \A g \in Flights : flight'[g] = IF g = f THEN state ELSE flight[g]
  BY DEF TypeOK
<1>2. Exclusive'
  BY <1>1 DEF SpendInv, Exclusive, Working, UnderLock, Key
<1>3. Ahead'
  <2>1. ASSUME NEW s \in Sessions, Stored(s), granted'[s] = gen[s] + 1
        PROVE  s \in lost' \/ \E g \in Flights : Key(g) = s /\ flight'[g].pc = "write"
    <3>1. CASE s = Key(f)
      BY <1>1, <3>1
    <3>2. CASE s # Key(f)
      <4>1. granted[s] = gen[s] + 1
        BY <2>1, <3>2 DEF TypeOK
      <4>2. s \in lost \/ \E g \in Flights : Key(g) = s /\ flight[g].pc = "write"
        BY <2>1, <4>1 DEF SpendInv, Ahead
      <4>. QED  BY <1>1, <3>2, <4>2
    <3>. QED  BY <3>1, <3>2
  <2>. QED  BY <2>1 DEF Ahead, Stored, Key
<1>4. TokenSpentOnce'
  <2>1. ASSUME NEW g \in Flights, flight'[g].pc = "refresh"
        PROVE  granted'[Key(g)] = Gen(g) \/ Key(g) \in lost'
    <3>1. g # f /\ flight[g].pc = "refresh"
      BY <1>1, <2>1
    <3>2. Key(g) # Key(f)
      BY <3>1, OneWorks DEF Working, UnderLock
    <3>. QED  BY <3>1, <3>2, FlightKeys DEF SpendInv, TokenSpentOnce, TypeOK
  <2>. QED  BY <2>1 DEF TokenSpentOnce, Key, Gen
<1>. QED  BY <1>2, <1>3, <1>4 DEF SpendInv

(* The steps of a refresh.                                                 *)
LEMMA FlightSpendStep ==
    ASSUME StoreInv, SpendInv, NEW f \in Flights, FlightStep(f) \/ Forget(f)
    PROVE  SpendInv'
<1>. TypeOK /\ GenInv /\ Key(f) \in Sessions
  BY FlightKeys DEF StoreInv
<1>a. \A pc, outcome : Plain(pc).pc = pc /\ Releasing(outcome).pc = "release"
  BY DEF Plain, Releasing
<1>b. UNCHANGED entry => QuietEntries
  BY DEF QuietEntries
<1>1. CASE TakeLock(f)
  <2>1. CASE lock[Key(f)] = NoFlight
    <3>1. /\ flight' = [flight EXCEPT ![f] = Plain("check")]
          /\ lock' = [lock EXCEPT ![Key(f)] = f] /\ flight[f].pc = "lock"
          /\ UNCHANGED <<entry, gen, granted, lost>>
      BY <1>1, <2>1 DEF TakeLock, Step, idpVars
    <3>2. \A g \in Flights : flight'[g] = IF g = f THEN Plain("check") ELSE flight[g]
      BY <3>1 DEF TypeOK
    <3>3. ASSUME NEW g \in Flights, flight'[g].pc \in UnderLock
          PROVE  lock'[Key(g)] = g
      <4>1. CASE g = f
        BY <3>1, <4>1 DEF TypeOK
      <4>2. CASE g # f
        <5>1. lock[Key(g)] = g
          BY <3>2, <3>3, <4>2 DEF SpendInv, Exclusive, Working
        <5>2. Key(g) # Key(f)
          BY <2>1, <5>1, NoFlightAssumption
        <5>. QED  BY <3>1, <5>1, <5>2, FlightKeys DEF TypeOK
      <4>. QED  BY <4>1, <4>2
    <3>4. Exclusive'
      BY <3>3 DEF Exclusive, Working, Key
    <3>5. Ahead'
      <4>1. \A g \in Flights : flight[g].pc = "write" => flight'[g].pc = "write"
        BY <3>1, <3>2
      <4>. QED  BY <3>1, <4>1 DEF SpendInv, Ahead, Stored, Key
    <3>6. TokenSpentOnce'
      <4>1. \A g \in Flights : flight'[g].pc = "refresh" => flight[g].pc = "refresh"
        BY <1>a, <3>2
      <4>. QED  BY <3>1, <4>1 DEF SpendInv, TokenSpentOnce, Key, Gen
    <3>. QED  BY <3>4, <3>5, <3>6 DEF SpendInv
  <2>2. CASE lock[Key(f)] # NoFlight
    <3>1. /\ flight' = [flight EXCEPT ![f] = Waiting("wait", Polls)]
          /\ Waiting("wait", Polls).pc = "wait" /\ flight[f].pc = "lock"
          /\ UNCHANGED <<entry, gen, granted, lock, lost>>
      BY <1>1, <2>2 DEF TakeLock, Step, Waiting, idpVars
    <3>. QED  BY <1>b, <3>1, WorkQuiet DEF UnderLock
  <2>. QED  BY <2>1, <2>2
<1>2. CASE Check(f)
  <2>1. /\ flight[f].pc = "check" /\ UNCHANGED <<entry, gen, granted, lock, lost>>
        /\ \E state : /\ flight' = [flight EXCEPT ![f] = state]
                      /\ state.pc = "release" \/ state.pc = "refresh"
                      /\ state.pc = "refresh" => Stored(Key(f)) /\ ~Newer(f)
    BY <1>2, <1>a DEF Check, Step, storeVars, idpVars
  <2>2. PICK state : /\ flight' = [flight EXCEPT ![f] = state]
                     /\ state.pc = "release" \/ state.pc = "refresh"
                     /\ state.pc = "refresh" => Stored(Key(f)) /\ ~Newer(f)
    BY <2>1
  <2>3. \A g \in Flights : flight'[g] = IF g = f THEN state ELSE flight[g]
    BY <2>2 DEF TypeOK
  <2>4. Working(f)
    BY <2>1 DEF Working, UnderLock
  <2>5. Exclusive'
    <3>1. \A g \in Flights : flight'[g].pc \in UnderLock => Working(g)
      BY <2>3, <2>4 DEF Working
    <3>. QED  BY <2>1, <3>1 DEF SpendInv, Exclusive, Working, Key
  <2>6. Ahead'
    <3>1. \A g \in Flights : flight[g].pc = "write" => flight'[g].pc = "write"
      BY <2>1, <2>3
    <3>. QED  BY <2>1, <3>1 DEF SpendInv, Ahead, Stored, Key
  <2>7. ASSUME state.pc = "refresh"
        PROVE  granted[Key(f)] = Gen(f) \/ Key(f) \in lost
    <3>1. Stored(Key(f)) /\ gen[Key(f)] = Gen(f)
      BY <2>2, <2>7 DEF Newer
    <3>2. ~\E g \in Flights : Key(g) = Key(f) /\ flight[g].pc = "write"
      BY <2>1, <2>4, OneWorks DEF Working, UnderLock
    <3>. QED  BY <3>1, <3>2 DEF SpendInv, Ahead, GenInv
  <2>8. TokenSpentOnce'
    <3>1. ASSUME NEW g \in Flights, flight'[g].pc = "refresh"
          PROVE  granted[Key(g)] = Gen(g) \/ Key(g) \in lost
      BY <2>3, <2>7, <3>1 DEF SpendInv, TokenSpentOnce
    <3>. QED  BY <2>1, <3>1 DEF TokenSpentOnce, Key, Gen
  <2>. QED  BY <2>5, <2>6, <2>8 DEF SpendInv
<1>3. CASE Grant(f)
  <2>1. /\ flight[f].pc = "refresh" /\ flight' = [flight EXCEPT ![f] = Plain("write")]
        /\ granted' = [granted EXCEPT ![Key(f)] = Gen(f) + 1]
        /\ UNCHANGED <<entry, gen, lock, lost>>
    BY <1>3 DEF Grant, Step, storeVars
  <2>. QED  BY <1>a, <2>1, UsedUpSpend
<1>4. CASE Unanswered(f)
  <2>1. /\ flight[f].pc = "refresh"
        /\ flight' = [flight EXCEPT ![f] = Releasing("later")]
        /\ UNCHANGED <<entry, gen, lock>>
    BY <1>4 DEF Unanswered, Step, storeVars
  <2>2. CASE UNCHANGED <<granted, lost>>
    BY <1>a, <1>b, <2>1, <2>2, WorkQuiet DEF Working, UnderLock
  <2>3. CASE /\ granted' = [granted EXCEPT ![Key(f)] = Gen(f) + 1]
             /\ lost' = lost \cup {Key(f)}
    BY <1>a, <2>1, <2>3, UsedUpSpend
  <2>. QED  BY <1>4, <2>2, <2>3 DEF Unanswered
<1>5. CASE Refuse(f) \/ IndexAgain(f) \/ DropRefused(f)
  <2>1. /\ flight[f].pc \in {"refresh", "index", "drop"}
        /\ UNCHANGED <<gen, granted, lock, lost>>
        /\ \/ flight' = [flight EXCEPT ![f] = Plain("drop")]
           \/ \E outcome : flight' = [flight EXCEPT ![f] = Releasing(outcome)]
    BY <1>5 DEF Refuse, IndexAgain, DropRefused, Step, storeVars, idpVars
  <2>2. QuietEntries
    BY <1>5, <1>b, DropQuiet DEF Refuse, IndexAgain, DropRefused, storeVars
  <2>3. PICK state : /\ flight' = [flight EXCEPT ![f] = state]
                     /\ state.pc \in {"drop", "release"}
    BY <1>a, <2>1
  <2>. QED  BY <2>1, <2>2, <2>3, WorkQuiet DEF Working, UnderLock
<1>6. CASE Write(f)
  <2>1. /\ flight[f].pc = "write" /\ UNCHANGED <<granted, lock, lost>>
        /\ gen[Key(f)] = Gen(f) /\ granted[Key(f)] = Gen(f) + 1
    BY <1>6 DEF Write, GenInv, idpVars
  <2>2. Working(f)
    BY <2>1 DEF Working, UnderLock
  <2>3. PICK state : /\ flight' = [flight EXCEPT ![f] = state]
                     /\ state.pc \in {"index", "release"}
                     /\ \/ /\ Stored(Key(f))
                           /\ entry' = [entry EXCEPT ![Key(f)] = "stored"]
                           /\ gen' = [gen EXCEPT ![Key(f)] = Gen(f) + 1]
                        \/ ~Stored(Key(f)) /\ UNCHANGED <<entry, gen>>
    BY <1>6, <1>a DEF Write, Present, Step
  <2>4. \A g \in Flights : flight'[g] = IF g = f THEN state ELSE flight[g]
    BY <2>3 DEF TypeOK
  <2>5. Exclusive'
    <3>1. \A g \in Flights : flight'[g].pc \in UnderLock => Working(g)
      BY <2>2, <2>4 DEF Working
    <3>. QED  BY <2>1, <3>1 DEF SpendInv, Exclusive, Working, Key
  <2>6. Ahead'
    <3>1. ASSUME NEW s \in Sessions, entry'[s] = "stored", granted[s] = gen'[s] + 1
          PROVE  s \in lost \/ \E g \in Flights : Key(g) = s /\ flight'[g].pc = "write"
      <4>1. Gen(f) \in Nat
        BY FlightKeys, ConstantsAssumption DEF Gens
      <4>2. s # Key(f)
        BY <2>1, <2>3, <3>1, <4>1 DEF TypeOK, Stored
      <4>3. Stored(s) /\ granted[s] = gen[s] + 1
        BY <2>3, <3>1, <4>2 DEF TypeOK, Stored
      <4>4. s \in lost \/ \E g \in Flights : Key(g) = s /\ flight[g].pc = "write"
        BY <4>3 DEF SpendInv, Ahead
      <4>. QED  BY <2>4, <4>2, <4>4
    <3>. QED  BY <2>1, <3>1 DEF Ahead, Stored, Key
  <2>7. TokenSpentOnce'
    <3>1. \A g \in Flights : flight'[g].pc = "refresh" => flight[g].pc = "refresh"
      BY <2>3, <2>4
    <3>. QED  BY <2>1, <3>1 DEF SpendInv, TokenSpentOnce, Key, Gen
  <2>. QED  BY <2>5, <2>6, <2>7 DEF SpendInv
<1>7. CASE Release(f)
  <2>1. /\ flight[f].pc = "release" /\ Settle(f, flight[f].outcome)
        /\ UNCHANGED <<entry, gen, granted, lost>>
        /\ \/ UNCHANGED lock
           \/ lock[Key(f)] = f /\ lock' = [lock EXCEPT ![Key(f)] = NoFlight]
    BY <1>7 DEF Release, idpVars
  <2>. QED  BY <1>b, <2>1, SettleSpend
<1>8. CASE Wait(f) \/ Peek(f) \/ WaitLast(f) \/ Forget(f)
  <2>1. /\ flight[f].pc \in {"wait", "peek", "last", "settled"}
        /\ UNCHANGED <<entry, gen, granted, lock, lost>>
        /\ \/ \E outcome : Settle(f, outcome)
           \/ \E state : /\ flight' = [flight EXCEPT ![f] = state]
                         /\ state.pc \in {"wait", "peek", "last", "none"}
    BY <1>8, <1>a DEF Wait, Peek, WaitLast, Forget, Step, Waiting, storeVars, idpVars
  <2>2. ASSUME NEW state, flight' = [flight EXCEPT ![f] = state],
               state.pc \in {"wait", "peek", "last", "none"}
        PROVE  SpendInv'
    BY <1>b, <2>1, <2>2, WorkQuiet DEF UnderLock
  <2>. QED  BY <1>b, <2>1, <2>2, SettleSpend
<1>9. CASE FlightFails(f)
  <2>1. CASE /\ flight[f].pc \in {"lock", "wait", "peek", "last"}
             /\ Settle(f, "thrown") /\ UNCHANGED <<entry, index, lost>>
    BY <1>9, <1>b, <2>1, SettleSpend DEF FlightFails
  <2>2. CASE /\ flight[f].pc \in {"check", "write", "index", "drop"}
             /\ Step(f, Releasing("thrown"))
             /\ lost' = IF flight[f].pc = "write" THEN lost \cup {Key(f)} ELSE lost
             /\ UNCHANGED entry \/ DropSome(Key(f))
    <3>1. QuietEntries
      BY <1>b, <2>2, DropQuiet
    <3>2. /\ flight' = [flight EXCEPT ![f] = Releasing("thrown")]
          /\ UNCHANGED <<gen, granted, lock>> /\ lost \subseteq lost'
          /\ (flight[f].pc # "write" \/ Key(f) \in lost') /\ Working(f)
      BY <1>9, <2>2 DEF FlightFails, Step, Working, UnderLock
    <3>. QED  BY <1>a, <2>2, <3>1, <3>2, WorkQuiet DEF Working, UnderLock
  <2>. QED  BY <1>9, <2>1, <2>2 DEF FlightFails
<1>. QED
  BY <1>1, <1>2, <1>3, <1>4, <1>5, <1>6, <1>7, <1>8, <1>9 DEF FlightStep

LEMMA SpendInvNext ==
    ASSUME "slow" \notin Faults
    PROVE  StoreInv /\ SpendInv /\ [Next]_vars => SpendInv'
<1>. SUFFICES ASSUME StoreInv, SpendInv, [Next]_vars PROVE SpendInv'
  OBVIOUS
<1>. TypeOK /\ GenInv
  BY DEF StoreInv
<1>a. UNCHANGED flight => WorkGoesOn
  BY DEF WorkGoesOn
<1>b. UNCHANGED entry => QuietEntries
  BY DEF QuietEntries
<1>1. CASE UNCHANGED vars
  BY <1>1, <1>a, <1>b, SpendQuiet DEF vars, storeVars, idpVars
<1>2. ASSUME NEW q \in Requests, NEW r \in Replicas, NEW s \in Sessions,
             Load(q, r, s) \/ SignOut(q, r, s)
      PROVE  SpendInv'
  BY <1>2, <1>a, <1>b, SpendQuiet DEF Load, SignOut, storeVars, idpVars
<1>3. ASSUME NEW q \in Requests, NEW r \in Replicas, NEW s \in Sessions,
             NEW old \in Sessions \cup {NoSession}, Callback(q, r, s, old)
      PROVE  SpendInv'
  <2>1. /\ granted[s] = 0 /\ granted' = [granted EXCEPT ![s] = 1]
        /\ UNCHANGED <<entry, gen, lock, lost, flight>>
    BY <1>3 DEF Callback, storeVars
  <2>2. ~Stored(s)
    BY <2>1, ConstantsAssumption DEF GenInv, TypeOK, Stored
  <2>3. \A f \in Flights : flight[f].pc = "refresh" => Key(f) # s \/ Key(f) \in lost
    <3>1. \A f \in Flights : Gen(f) # 0
      BY FlightKeys, ConstantsAssumption DEF Gens
    <3>. QED  BY <2>1, <3>1 DEF SpendInv, TokenSpentOnce
  <2>4. Exclusive'
    BY <2>1 DEF SpendInv, Exclusive, Working, Key
  <2>5. Ahead'
    BY <2>1, <2>2 DEF SpendInv, Ahead, Stored, Key, TypeOK
  <2>6. TokenSpentOnce'
    <3>1. ASSUME NEW f \in Flights, flight[f].pc = "refresh"
          PROVE  granted'[Key(f)] = Gen(f) \/ Key(f) \in lost
      BY <2>1, <2>3, <3>1, FlightKeys DEF SpendInv, TokenSpentOnce, TypeOK
    <3>. QED  BY <2>1, <3>1 DEF TokenSpentOnce, Key, Gen
  <2>. QED  BY <2>4, <2>5, <2>6 DEF SpendInv
<1>4. ASSUME NEW q \in Requests, RequestStep(q)
      PROVE  SpendInv'
  <2>1. CASE Create(q)
    <3>. DEFINE s == request[q].session
    <3>1. s \in Sessions /\ granted[s] = 1
      BY <2>1, RequestFields DEF Create, GenInv, TypeOK
    <3>2. /\ entry' = [entry EXCEPT ![s] = "stored"] /\ gen' = [gen EXCEPT ![s] = 1]
          /\ UNCHANGED <<granted, lock, lost, flight>>
      BY <2>1 DEF Create, idpVars
    <3>. HIDE DEF s
    <3>3. Exclusive'
      BY <3>2 DEF SpendInv, Exclusive, Working, Key
    <3>4. Ahead'
      <4>1. ASSUME NEW t \in Sessions, entry'[t] = "stored", granted[t] = gen'[t] + 1
            PROVE  t \in lost \/ \E f \in Flights : Key(f) = t /\ flight[f].pc = "write"
        <5>1. t # s
          BY <3>1, <3>2, <4>1 DEF TypeOK
        <5>. QED  BY <3>2, <4>1, <5>1 DEF SpendInv, Ahead, Stored, TypeOK
      <4>. QED  BY <3>2, <4>1 DEF Ahead, Stored, Key
    <3>5. TokenSpentOnce'
      BY <3>2 DEF SpendInv, TokenSpentOnce, Key, Gen
    <3>. QED  BY <3>3, <3>4, <3>5 DEF SpendInv
  <2>2. CASE Replace(q) \/ Remove(q) \/ RequestFails(q)
    <3>1. UNCHANGED <<gen, granted, lock, lost, flight>>
      BY <2>2 DEF Replace, Remove, RequestFails, idpVars
    <3>2. QuietEntries
      BY <2>2, <1>b, DropQuiet DEF Replace, Remove, RequestFails
    <3>. QED  BY <1>a, <3>1, <3>2, SpendQuiet
  <2>3. ASSUME NEW usable \in BOOLEAN, Renew(q, usable)
        PROVE  SpendInv'
    <3>1. UNCHANGED <<entry, gen, granted, lock, lost>>
      BY <2>3 DEF Renew, storeVars, idpVars
    <3>2. \/ UNCHANGED flight
          \/ /\ flight[request[q].at].pc = "none"
             /\ flight' = [flight EXCEPT ![request[q].at] = Plain("lock")]
      BY <2>3 DEF Renew
    <3>3. WorkGoesOn
      BY <1>a, <3>2 DEF WorkGoesOn, TypeOK, Plain, UnderLock
    <3>. QED  BY <1>b, <3>1, <3>3, SpendQuiet
  <2>4. ASSUME NEW usable \in BOOLEAN,
               IndexNew(q) \/ StillFresh(q) \/ Reload(q) \/ DeadlinePassed(q, usable)
        PROVE  SpendInv'
    <3>1. UNCHANGED <<entry, gen, granted, lock, lost, flight>>
      BY <2>4 DEF IndexNew, StillFresh, Reload, DeadlinePassed, storeVars, idpVars
    <3>. QED  BY <1>a, <1>b, <3>1, SpendQuiet
  <2>. QED  BY <1>4, <2>1, <2>2, <2>3, <2>4 DEF RequestStep
<1>5. ASSUME NEW x \in Sids, EndSso(x) \/ Backchannel(x) \/ LogoutStep(x)
      PROVE  SpendInv'
  <2>1. UNCHANGED <<gen, granted, lock, lost, flight>>
    BY <1>5 DEF EndSso, Backchannel, LogoutStep, Members, DeleteSessions, CleanIndex,
                LogoutFails, storeVars, idpVars
  <2>2. QuietEntries
    BY <1>5, <1>b, DeletedQuiet
    DEF EndSso, Backchannel, LogoutStep, Members, DeleteSessions, CleanIndex,
        LogoutFails, storeVars
  <2>. QED  BY <1>a, <2>1, <2>2, SpendQuiet
<1>6. ASSUME NEW s \in Sessions, EntryExpires(s)
      PROVE  SpendInv'
  <2>1. QuietEntries
    BY <1>6, DeletedQuiet DEF EntryExpires
  <2>. QED  BY <1>6, <1>a, <2>1, SpendQuiet DEF EntryExpires, idpVars
<1>7. ASSUME NEW s \in Sessions, LockExpires(s)
      PROVE  SpendInv'
  <2>1. /\ ~Working(lock[s]) /\ lock' = [lock EXCEPT ![s] = NoFlight]
        /\ UNCHANGED <<entry, gen, granted, lost, flight>>
    BY <1>7 DEF LockExpires, idpVars
  <2>2. ASSUME NEW f \in Flights, Working(f)
        PROVE  lock'[Key(f)] = f
    BY <2>1, <2>2, FlightKeys DEF SpendInv, Exclusive, TypeOK
  <2>3. Exclusive'
    BY <2>1, <2>2 DEF Exclusive, Working, Key
  <2>4. Ahead' /\ TokenSpentOnce'
    BY <2>1 DEF SpendInv, Ahead, TokenSpentOnce, Stored, Key, Gen
  <2>. QED  BY <2>3, <2>4 DEF SpendInv
<1>8. ASSUME NEW r \in Replicas, Crash(r)
      PROVE  SpendInv'
  <2>1. UNCHANGED <<entry, gen, granted, lock>> /\ lost \subseteq lost'
    BY <1>8 DEF Crash, storeVars
  <2>2. ASSUME NEW f \in Flights
        PROVE  \/ flight'[f] = flight[f]
               \/ /\ flight'[f] = Plain("none")
                  /\ flight[f].pc = "write" => Key(f) \in lost'
    BY <1>8 DEF Crash
  <2>3. WorkGoesOn
    BY <2>2 DEF WorkGoesOn, Plain, UnderLock
  <2>. QED  BY <1>b, <2>1, <2>3, SpendQuiet
<1>. QED
  BY <1>1, <1>2, <1>3, <1>4, <1>5, <1>6, <1>7, <1>8, FlightSpendStep DEF Next

(* While a lock lives as long as the refresh it guards, a refresh token is *)
(* sent to the IdP a second time only when the answer to the first was     *)
(* lost, whatever replicas race for it, crash, or lose the store           *)
(* (refreshExclusively).                                                   *)
THEOREM TokensSpentOnce == "slow" \notin Faults => (Spec => []TokenSpentOnce)
<1>. SUFFICES ASSUME "slow" \notin Faults PROVE Spec => []TokenSpentOnce
  OBVIOUS
<1>1. Init => SpendInv
  BY DEF Init, SpendInv, Exclusive, Ahead, TokenSpentOnce, Working, UnderLock, Plain, Stored
<1>2. SpendInv => TokenSpentOnce
  BY DEF SpendInv
<1>3. StoreInv /\ SpendInv /\ [Next]_vars => SpendInv'
  BY SpendInvNext
<1>. QED  BY <1>1, <1>2, <1>3, StoreInvariant, PTL DEF Spec
=============================================================================
