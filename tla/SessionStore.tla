---------------------------- MODULE SessionStore ----------------------------
(***************************************************************************)
(* Sessions in the store of @medaris/auth (libs/auth/src/server): the      *)
(* requests, sign-ins, sign-outs and back-channel logouts the replicas of  *)
(* a web app serve, over one Valkey and one identity provider.             *)
(*                                                                         *)
(* A session is known by its key in the store, sha256 of the id in the     *)
(* cookie. Its tokens are counted: generation 1 is the sign-in's, every    *)
(* refresh the IdP grants makes the next. The IdP rotates refresh tokens:  *)
(* a generation is accepted once.                                          *)
(*                                                                         *)
(* A step is one command of Valkey, one call of the IdP, or what a replica *)
(* does between two of them. Commands sent together (Promise.all) go over  *)
(* the replica's one connection in order, and are one step; when the store *)
(* fails, any first part of them may have been carried out.                *)
(* The tokens' age is not kept: a request finds them fresh, about to run   *)
(* out or run out.                                                         *)
(***************************************************************************)
EXTENDS Naturals, FiniteSets

CONSTANTS
    Sessions,   \* keys of sessions in the store
    Replicas,   \* processes of the web app
    Requests,   \* requests that may be in flight at once
    Sids, Subs, \* the IdP's SSO sessions, and accounts
    SidOf,      \* the SSO session of each session
    SubOf,      \* the account of each SSO session
    SidInToken, \* "Backchannel logout session required" of the client
    NoSession,
    NoFlight,
    MaxGen,     \* bound: token generations of a session
    Polls,      \* LOCK_WAIT_MS / LOCK_POLL_MS
    Faults      \* subset of {"store", "idp", "crash", "slow"}

ASSUME ConstantsAssumption ==
    /\ SidOf \in [Sessions -> Sids] /\ SubOf \in [Sids -> Subs]
    /\ Sids \cap Subs = {}
    /\ SidInToken \in BOOLEAN
    /\ NoSession \notin Sessions
    /\ MaxGen \in Nat \ {0} /\ Polls \in Nat \ {0}

Gens == 1..MaxGen
(* A request or a refresh: its replica, the session, and the generation of *)
(* the tokens the replica read.                                            *)
Flights == Replicas \X Sessions \X Gens
ASSUME NoFlightAssumption == NoFlight \notin Flights

Key(f) == f[2]
Gen(f) == f[3]
Keys == Sids \cup Subs

VARIABLES
    entry,      \* s:<hash>: "none" yet, "stored", or "gone"
    gen,        \* the generation of the tokens stored last
    index,      \* sid:<sid> and sub:<sub>
    lock,       \* lock:<hash>
    used,       \* jti:<jti>, of the token that tells the end of an SSO session
    granted,    \* IdP: the newest generation of each session's tokens
    lost,       \* sessions whose newest tokens never reached the store
    over,       \* IdP: the SSO sessions that have ended
    signedIn,   \* sessions whose id a browser was given
    request,    \* the requests in flight
    flight,     \* the single-flight table of each replica
    logout      \* what became of each logout token

storeVars == <<entry, gen, index, lock, used>>
idpVars == <<granted, lost, over>>
vars == <<storeVars, idpVars, signedIn, request, flight, logout>>

-----------------------------------------------------------------------------
(* The store. *)

Stored(s) == entry[s] = "stored"

(* Fault for TLC: what is stored taken for what was read.                  *)
NeverNewer(f) == f \notin Flights

(* The stored tokens are not those that were read.                         *)
Newer(f) == gen[Key(f)] # Gen(f)

(* Fault for TLC: write with neither NX nor XX.                            *)
AnyEntry(s) == s \in Sessions

(* SET XX: only over a session that is still there.                        *)
Present(s) == Stored(s)

(* Fault for TLC: sessions indexed by account only.                        *)
KeyOfSub(s) == {SubOf[SidOf[s]]}
KeysOf(s) == {SidOf[s], SubOf[SidOf[s]]}

Indexed(s, keys) ==
    index' = [k \in Keys |-> IF k \in keys THEN index[k] \cup {s} ELSE index[k]]

Unindexed(gone, keys) ==
    index' = [k \in Keys |-> IF k \in keys THEN index[k] \ gone ELSE index[k]]

Deleted(gone) ==
    entry' = [s \in Sessions |->
                 IF s \in gone /\ Stored(s) THEN "gone" ELSE entry[s]]

(* drop: DEL, SREM sid, SREM sub.                                          *)
Drop(s) == Deleted({s}) /\ Unindexed({s}, KeysOf(s))

(* drop when the store fails: the first of its commands were carried out,  *)
(* all of them if only an answer is missing (COMMAND_TIMEOUT_MS).          *)
DropSome(s) ==
    \/ UNCHANGED <<entry, index>>
    \/ Deleted({s}) /\ (UNCHANGED index \/ Unindexed({s}, {SidOf[s]}))
    \/ Drop(s)

(* The same of write's addToSet, sid before sub.                           *)
IndexedSome(s) ==
    UNCHANGED index \/ Indexed(s, {SidOf[s]}) \/ Indexed(s, KeysOf(s))

-----------------------------------------------------------------------------
(* Processes. *)

Idle == [pc |-> "idle"]
At(pc, f) == [pc |-> pc, at |-> f]
Joined(f, usable) == [pc |-> "joined", at |-> f, usable |-> usable]
SigningIn(pc, r, s, old) == [pc |-> pc, replica |-> r, session |-> s, old |-> old]

RequestStates ==
    {Idle}
    \cup {At(pc, f) : pc \in {"loaded", "reload", "remove", "signOut"}, f \in Flights}
    \cup {Joined(f, usable) : f \in Flights, usable \in BOOLEAN}
    \cup {SigningIn(pc, r, s, old) : pc \in {"create", "index", "replace"},
             r \in Replicas, s \in Sessions, old \in Sessions \cup {NoSession}}

Outcomes == {"refreshed", "final", "later", "thrown"}
Plain(pc) == [pc |-> pc]
Waiting(pc, left) == [pc |-> pc, left |-> left]
Releasing(outcome) == [pc |-> "release", outcome |-> outcome]

(* The flights that hold, or held, the session's lock.                     *)
UnderLock == {"check", "refresh", "write", "index", "drop", "release"}

FlightStates ==
    {Plain(pc) : pc \in {"none", "lock", "check", "refresh", "write", "index",
                         "drop", "settled"}}
    \cup {Waiting(pc, left) : pc \in {"wait", "peek", "last"}, left \in 1..Polls}
    \cup {Releasing(outcome) : outcome \in Outcomes}

LogoutStates ==
    {Idle} \cup [pc : {"members", "delete", "clean", "done", "failed"},
                before : SUBSET Sessions, found : SUBSET Sessions]

ReplicaOf(q) ==
    IF request[q].pc \in {"create", "index", "replace"}
    THEN request[q].replica ELSE request[q].at[1]

TypeOK ==
    /\ entry \in [Sessions -> {"none", "stored", "gone"}]
    /\ gen \in [Sessions -> 0..MaxGen]
    /\ index \in [Keys -> SUBSET Sessions]
    /\ lock \in [Sessions -> Flights \cup {NoFlight}]
    /\ used \subseteq Sids
    /\ granted \in [Sessions -> 0..MaxGen]
    /\ lost \subseteq Sessions
    /\ over \subseteq Sids
    /\ signedIn \subseteq Sessions
    /\ request \in [Requests -> RequestStates]
    /\ flight \in [Flights -> FlightStates]
    /\ logout \in [Sids -> LogoutStates]

Init ==
    /\ entry = [s \in Sessions |-> "none"]
    /\ gen = [s \in Sessions |-> 0]
    /\ index = [k \in Keys |-> {}]
    /\ lock = [s \in Sessions |-> NoFlight]
    /\ used = {}
    /\ granted = [s \in Sessions |-> 0]
    /\ lost = {} /\ over = {} /\ signedIn = {}
    /\ request = [q \in Requests |-> Idle]
    /\ flight = [f \in Flights |-> Plain("none")]
    /\ logout = [x \in Sids |-> Idle]

-----------------------------------------------------------------------------
(* Signing in (routes.ts callback, SessionStore.create). The IdP redeems   *)
(* the code only while its SSO session lives; the browser may hold the     *)
(* cookie of another session, which the new one replaces.                  *)

(* Fault for TLC: a cookie taken for a session without asking the store.   *)
CookieOnly(s) == s \in Sessions

(* load: the cookie names a session, and the store has it.                 *)
Loads(s) == s \in signedIn /\ Stored(s)

To(q, state) == request' = [request EXCEPT ![q] = state]

Callback(q, r, s, old) ==
    /\ request[q] = Idle
    /\ granted[s] = 0 /\ SidOf[s] \notin over
    /\ old # NoSession => Loads(old)
    /\ granted' = [granted EXCEPT ![s] = 1]
    /\ To(q, SigningIn("create", r, s, old))
    /\ UNCHANGED <<storeVars, lost, over, signedIn, flight, logout>>

(* SET NX; a fresh random id is never taken.                               *)
Create(q) ==
    LET r == request[q] IN
    /\ r.pc = "create"
    /\ entry' = [entry EXCEPT ![r.session] = "stored"]
    /\ gen' = [gen EXCEPT ![r.session] = 1]
    /\ To(q, SigningIn("index", r.replica, r.session, r.old))
    /\ UNCHANGED <<index, lock, used, idpVars, signedIn, flight, logout>>

IndexNew(q) ==
    LET r == request[q] IN
    /\ r.pc = "index"
    /\ Indexed(r.session, KeysOf(r.session))
    /\ IF r.old = NoSession
       THEN To(q, Idle) /\ signedIn' = signedIn \cup {r.session}
       ELSE /\ To(q, SigningIn("replace", r.replica, r.session, r.old))
            /\ UNCHANGED signedIn
    /\ UNCHANGED <<entry, gen, lock, used, idpVars, flight, logout>>

Replace(q) ==
    LET r == request[q] IN
    /\ r.pc = "replace"
    /\ Drop(r.old)
    /\ To(q, Idle)
    /\ signedIn' = signedIn \cup {r.session}
    /\ UNCHANGED <<gen, lock, used, idpVars, flight, logout>>

-----------------------------------------------------------------------------
(* A request under the proxy (proxy.ts settle, renewal.ts renew) and a     *)
(* sign-out. A visitor carries no cookie, and load finds nothing once the  *)
(* session is gone: the cookie goes, which changes nothing here.           *)

Load(q, r, s) ==
    /\ request[q] = Idle
    /\ IF Loads(s)
       THEN To(q, At("loaded", <<r, s, gen[s]>>))
       ELSE UNCHANGED request
    /\ UNCHANGED <<storeVars, idpVars, signedIn, flight, logout>>

(* More than a minute left: nothing to do.                                 *)
StillFresh(q) ==
    /\ request[q].pc = "loaded"
    /\ To(q, Idle)
    /\ UNCHANGED <<storeVars, idpVars, signedIn, flight, logout>>

(* The refresh token's deadline has passed since it was read, and with it  *)
(* the entry's, unless that holds newer tokens by now: no call of the IdP. *)
DeadlinePassed(q, usable) ==
    /\ request[q].pc = "loaded"
    /\ ~Stored(Key(request[q].at)) \/ Newer(request[q].at)
    /\ To(q, IF usable THEN Idle ELSE At("reload", request[q].at))
    /\ UNCHANGED <<storeVars, idpVars, signedIn, flight, logout>>

(* Less than a minute left (`usable`: more than five seconds): one refresh *)
(* per refresh token in this process, and its answer again within the      *)
(* grace. MaxGen is the bound of the model.                                *)
Renew(q, usable) ==
    /\ request[q].pc = "loaded"
    /\ LET f == request[q].at IN
       /\ Gen(f) < MaxGen
       /\ To(q, IF flight[f].pc = "settled" THEN Idle ELSE Joined(f, usable))
       /\ flight' = IF flight[f].pc = "none"
                    THEN [flight EXCEPT ![f] = Plain("lock")] ELSE flight
    /\ UNCHANGED <<storeVars, idpVars, signedIn, logout>>

(* settle, after a renewal that ended the session: another replica may     *)
(* have stored a newer one.                                                *)
Reload(q) ==
    /\ request[q].pc = "reload"
    /\ LET f == request[q].at IN
       To(q, IF Stored(Key(f)) /\ Newer(f) THEN Idle ELSE At("remove", f))
    /\ UNCHANGED <<storeVars, idpVars, signedIn, flight, logout>>

(* SessionStore.remove.                                                    *)
Remove(q) ==
    /\ request[q].pc \in {"remove", "signOut"}
    /\ Drop(Key(request[q].at))
    /\ To(q, Idle)
    /\ UNCHANGED <<gen, lock, used, idpVars, signedIn, flight, logout>>

SignOut(q, r, s) ==
    /\ request[q] = Idle
    /\ Loads(s)
    /\ To(q, At("signOut", <<r, s, gen[s]>>))
    /\ UNCHANGED <<storeVars, idpVars, signedIn, flight, logout>>

(* SessionStoreUnavailableError: the request, or the sign-in, ends here.   *)
RequestFails(q) ==
    /\ "store" \in Faults
    /\ \/ request[q].pc \in {"create", "reload"} /\ UNCHANGED <<entry, index>>
       \/ request[q].pc = "index" /\ IndexedSome(request[q].session) /\ UNCHANGED entry
       \/ request[q].pc = "replace" /\ DropSome(request[q].old)
       \/ request[q].pc \in {"remove", "signOut"} /\ DropSome(Key(request[q].at))
    /\ To(q, Idle)
    /\ UNCHANGED <<gen, lock, used, idpVars, signedIn, flight, logout>>

-----------------------------------------------------------------------------
(* A refresh: one flight of the single-flight table, inside                *)
(* refreshExclusively.                                                     *)

Step(f, state) == flight' = [flight EXCEPT ![f] = state]

(* What a request does with the outcome it waited for.                     *)
AfterRenewal(q, outcome) ==
    IF outcome = "final" \/ (outcome = "later" /\ ~request[q].usable)
    THEN At("reload", request[q].at) ELSE Idle

(* The flight's promise settles: every request that joined it goes on, and *)
(* only a refreshed session is handed out again.                           *)
Settle(f, outcome) ==
    /\ Step(f, Plain(IF outcome = "refreshed" THEN "settled" ELSE "none"))
    /\ request' = [q \in Requests |->
           IF request[q].pc = "joined" /\ request[q].at = f
           THEN AfterRenewal(q, outcome) ELSE request[q]]

TakeLock(f) ==
    /\ flight[f].pc = "lock"
    /\ IF lock[Key(f)] = NoFlight
       THEN Step(f, Plain("check")) /\ lock' = [lock EXCEPT ![Key(f)] = f]
       ELSE Step(f, Waiting("wait", Polls)) /\ UNCHANGED lock
    /\ UNCHANGED <<entry, gen, index, used, idpVars, signedIn, request, logout>>

(* Another replica may have finished a refresh before the lock was taken.  *)
Check(f) ==
    /\ flight[f].pc = "check"
    /\ Step(f, IF ~Stored(Key(f)) THEN Releasing("final")
               ELSE IF Newer(f) THEN Releasing("refreshed")
               ELSE Plain("refresh"))
    /\ UNCHANGED <<storeVars, idpVars, signedIn, request, logout>>

(* The IdP's side of a refresh token grant.                                *)
Accepts(f) == Gen(f) = granted[Key(f)] /\ SidOf[Key(f)] \notin over

Grant(f) ==
    /\ flight[f].pc = "refresh" /\ Accepts(f)
    /\ granted' = [granted EXCEPT ![Key(f)] = Gen(f) + 1]
    /\ Step(f, Plain("write"))
    /\ UNCHANGED <<storeVars, lost, over, signedIn, request, logout>>

(* invalid_grant: the SSO session is gone, or the token was used before.   *)
Refuse(f) ==
    /\ flight[f].pc = "refresh" /\ ~Accepts(f)
    /\ Step(f, Plain("drop"))
    /\ UNCHANGED <<storeVars, idpVars, signedIn, request, logout>>

(* A timeout, a network error, a 5xx; the IdP may have used the token up.  *)
Unanswered(f) ==
    /\ "idp" \in Faults
    /\ flight[f].pc = "refresh"
    /\ Step(f, Releasing("later"))
    /\ \/ UNCHANGED <<granted, lost>>
       \/ /\ Accepts(f)
          /\ granted' = [granted EXCEPT ![Key(f)] = Gen(f) + 1]
          /\ lost' = lost \cup {Key(f)}
    /\ UNCHANGED <<storeVars, over, signedIn, request, logout>>

(* A session that a logout deleted meanwhile is not brought back.          *)
Write(f) ==
    /\ flight[f].pc = "write"
    /\ IF Present(Key(f))
       THEN /\ entry' = [entry EXCEPT ![Key(f)] = "stored"]
            /\ gen' = [gen EXCEPT ![Key(f)] = Gen(f) + 1]
            /\ Step(f, Plain("index"))
       ELSE UNCHANGED <<entry, gen>> /\ Step(f, Releasing("final"))
    /\ UNCHANGED <<index, lock, used, idpVars, signedIn, request, logout>>

IndexAgain(f) ==
    /\ flight[f].pc = "index"
    /\ Indexed(Key(f), KeysOf(Key(f)))
    /\ Step(f, Releasing("refreshed"))
    /\ UNCHANGED <<entry, gen, lock, used, idpVars, signedIn, request, logout>>

DropRefused(f) ==
    /\ flight[f].pc = "drop"
    /\ Drop(Key(f))
    /\ Step(f, Releasing("final"))
    /\ UNCHANGED <<gen, lock, used, idpVars, signedIn, request, logout>>

(* delIfEquals, whose failure is ignored: the lock then stays for its TTL. *)
Release(f) ==
    /\ flight[f].pc = "release"
    /\ \/ lock[Key(f)] = f /\ lock' = [lock EXCEPT ![Key(f)] = NoFlight]
       \/ lock[Key(f)] # f /\ UNCHANGED lock
       \/ "store" \in Faults /\ UNCHANGED lock
    /\ Settle(f, flight[f].outcome)
    /\ UNCHANGED <<entry, gen, index, used, idpVars, signedIn, logout>>

(* The loop of a replica that lost the lock: read the session, then the    *)
(* lock, and once the lock is gone the session again.                      *)
Wait(f) ==
    /\ flight[f].pc = "wait"
    /\ IF ~Stored(Key(f)) THEN Settle(f, "final")
       ELSE IF Newer(f) THEN Settle(f, "refreshed")
       ELSE Step(f, Waiting("peek", flight[f].left)) /\ UNCHANGED request
    /\ UNCHANGED <<storeVars, idpVars, signedIn, logout>>

(* Fault for TLC: no end to the polls.                                     *)
PollAgain(left) == left

NextPoll(left) == left - 1

Peek(f) ==
    /\ flight[f].pc = "peek"
    /\ IF lock[Key(f)] = NoFlight
       THEN Step(f, Waiting("last", flight[f].left)) /\ UNCHANGED request
       ELSE IF flight[f].left > 1
       THEN Step(f, Waiting("wait", NextPoll(flight[f].left))) /\ UNCHANGED request
       ELSE Settle(f, "later")
    /\ UNCHANGED <<storeVars, idpVars, signedIn, logout>>

WaitLast(f) ==
    /\ flight[f].pc = "last"
    /\ Settle(f, IF ~Stored(Key(f)) THEN "final"
                 ELSE IF Newer(f) THEN "refreshed" ELSE "later")
    /\ UNCHANGED <<storeVars, idpVars, signedIn, logout>>

(* The store fails under a flight: with the lock held, it is released on   *)
(* the way out; tokens that were not written are lost.                     *)
FlightFails(f) ==
    /\ "store" \in Faults
    /\ \/ /\ flight[f].pc \in {"lock", "wait", "peek", "last"}
          /\ Settle(f, "thrown")
          /\ UNCHANGED <<entry, index, lost>>
       \/ /\ flight[f].pc \in {"check", "write", "index", "drop"}
          /\ Step(f, Releasing("thrown"))
          /\ lost' = IF flight[f].pc = "write" THEN lost \cup {Key(f)} ELSE lost
          /\ \/ flight[f].pc \in {"check", "write"} /\ UNCHANGED <<entry, index>>
             \/ flight[f].pc = "index" /\ IndexedSome(Key(f)) /\ UNCHANGED entry
             \/ flight[f].pc = "drop" /\ DropSome(Key(f))
          /\ UNCHANGED request
    /\ UNCHANGED <<gen, lock, used, granted, over, signedIn, logout>>

(* The grace of a settled flight is over.                                  *)
Forget(f) ==
    /\ flight[f].pc = "settled"
    /\ Step(f, Plain("none"))
    /\ UNCHANGED <<storeVars, idpVars, signedIn, request, logout>>

-----------------------------------------------------------------------------
(* Back-channel logout (routes.ts backchannelLogout, endIdpSession). The   *)
(* IdP posts one token when SSO session x has ended; it names the account, *)
(* and x unless the client's setting leaves it out. Without it the token   *)
(* stands for the account.                                                 *)

NamedBy(x) == IF SidInToken THEN x ELSE SubOf[x]
Names(x, s) ==
    IF SidInToken THEN SidOf[s] = x ELSE SubOf[SidOf[s]] = SubOf[x]

EndSso(x) ==
    /\ x \notin over
    /\ over' = over \cup {x}
    /\ UNCHANGED <<storeVars, granted, lost, signedIn, request, flight, logout>>

LogoutAt(pc, before, found) == [pc |-> pc, before |-> before, found |-> found]

(* firstUse; `before` keeps the sessions signed in by now.                 *)
Backchannel(x) ==
    /\ x \in over /\ x \notin used
    /\ used' = used \cup {x}
    /\ logout' = [logout EXCEPT ![x] =
           LogoutAt("members", {s \in signedIn : Names(x, s)}, {})]
    /\ UNCHANGED <<entry, gen, index, lock, idpVars, signedIn, request, flight>>

Members(x) ==
    /\ logout[x].pc = "members"
    /\ logout' = [logout EXCEPT ![x] =
           LogoutAt("delete", logout[x].before, index[NamedBy(x)])]
    /\ UNCHANGED <<storeVars, idpVars, signedIn, request, flight>>

DeleteSessions(x) ==
    /\ logout[x].pc = "delete"
    /\ Deleted(logout[x].found)
    /\ logout' = [logout EXCEPT ![x] =
           LogoutAt("clean", logout[x].before, logout[x].found)]
    /\ UNCHANGED <<gen, index, lock, used, idpVars, signedIn, request, flight>>

(* The index goes, and the sessions from the account's.                    *)
CleanIndex(x) ==
    /\ logout[x].pc = "clean"
    /\ index' = [k \in Keys |->
           IF k = NamedBy(x) THEN {}
           ELSE IF k = SubOf[x] THEN index[k] \ logout[x].found ELSE index[k]]
    /\ logout' = [logout EXCEPT ![x] =
           LogoutAt("done", logout[x].before, logout[x].found)]
    /\ UNCHANGED <<entry, gen, lock, used, idpVars, signedIn, request, flight>>

(* 503, or the replica died: the token's jti stays used. The index may     *)
(* have gone, and not the sessions from the account's.                     *)
LogoutFails(x) ==
    /\ Faults \cap {"store", "crash"} # {}
    /\ logout[x].pc \in {"members", "delete", "clean"}
    /\ \/ UNCHANGED index
       \/ logout[x].pc = "clean" /\ index' = [index EXCEPT ![NamedBy(x)] = {}]
    /\ logout' = [logout EXCEPT ![x] =
           LogoutAt("failed", logout[x].before, logout[x].found)]
    /\ UNCHANGED <<entry, gen, lock, used, idpVars, signedIn, request, flight>>

-----------------------------------------------------------------------------
(* Time and failures. *)

Working(f) == flight[f].pc \in UnderLock

(* The lock's TTL. It outlives its owner's work unless that is "slow":     *)
(* LOCK_TTL_MS is what one call of the IdP may take.                       *)
LockExpires(s) ==
    /\ lock[s] # NoFlight
    /\ "slow" \in Faults \/ ~Working(lock[s])
    /\ lock' = [lock EXCEPT ![s] = NoFlight]
    /\ UNCHANGED <<entry, gen, index, used, idpVars, signedIn, request, flight, logout>>

(* The entry's TTL, the refresh token's life.                              *)
EntryExpires(s) ==
    /\ Stored(s)
    /\ Deleted({s})
    /\ UNCHANGED <<gen, index, lock, used, idpVars, signedIn, request, flight, logout>>

(* A replica dies: its requests and its flights are gone, its locks stay.  *)
Crash(r) ==
    /\ "crash" \in Faults
    /\ request' = [q \in Requests |->
           IF request[q] # Idle /\ ReplicaOf(q) = r THEN Idle ELSE request[q]]
    /\ flight' = [f \in Flights |-> IF f[1] = r THEN Plain("none") ELSE flight[f]]
    /\ lost' = lost \cup {Key(f) : f \in {g \in Flights : g[1] = r /\ flight[g].pc = "write"}}
    /\ UNCHANGED <<storeVars, granted, over, signedIn, logout>>

-----------------------------------------------------------------------------
RequestStep(q) ==
    \/ Create(q) \/ IndexNew(q) \/ Replace(q)
    \/ StillFresh(q) \/ Reload(q) \/ Remove(q) \/ RequestFails(q)
    \/ \E usable \in BOOLEAN : DeadlinePassed(q, usable) \/ Renew(q, usable)

FlightStep(f) ==
    \/ TakeLock(f) \/ Check(f)
    \/ Grant(f) \/ Refuse(f) \/ Unanswered(f)
    \/ Write(f) \/ IndexAgain(f) \/ DropRefused(f) \/ Release(f)
    \/ Wait(f) \/ Peek(f) \/ WaitLast(f) \/ FlightFails(f)

LogoutStep(x) ==
    Members(x) \/ DeleteSessions(x) \/ CleanIndex(x) \/ LogoutFails(x)

Next ==
    \/ \E q \in Requests, r \in Replicas, s \in Sessions :
          \/ Load(q, r, s) \/ SignOut(q, r, s)
          \/ \E old \in Sessions \cup {NoSession} : Callback(q, r, s, old)
    \/ \E q \in Requests : RequestStep(q)
    \/ \E f \in Flights : FlightStep(f) \/ Forget(f)
    \/ \E x \in Sids : EndSso(x) \/ Backchannel(x) \/ LogoutStep(x)
    \/ \E s \in Sessions : LockExpires(s) \/ EntryExpires(s)
    \/ \E r \in Replicas : Crash(r)

Spec == Init /\ [][Next]_vars

(* A replica that is up runs what it was asked to: every wait of a request *)
(* is one for a call with a timeout.                                       *)
Fairness ==
    /\ \A q \in Requests : WF_vars(RequestStep(q))
    /\ \A f \in Flights : WF_vars(FlightStep(f))

FairSpec == Spec /\ Fairness

-----------------------------------------------------------------------------
(* Properties. *)

(* The store implements SessionLife: whatever requests, refreshes and      *)
(* logouts do to a session together, its tokens are replaced one           *)
(* generation after the other and an ended session is not brought back     *)
(* (write with "present", session-store.ts).                               *)
Life == INSTANCE SessionLife WITH
    Sessions <- Sessions, entry <- entry, gen <- gen
LifeSpec == Life!Spec

(* A refresh token goes to the IdP a second time only after the answer to  *)
(* the first was lost: the lock, and the session read again under it, keep *)
(* two replicas from both spending it (refreshExclusively).                *)
TokenSpentOnce ==
    \A f \in Flights :
        flight[f].pc = "refresh" => granted[Key(f)] = Gen(f) \/ Key(f) \in lost

(* When a back-channel logout has been answered with success, no session   *)
(* it names that was signed in when it arrived is left in the store,       *)
(* whatever refreshed or replaced it meanwhile (endIdpSession).            *)
LogoutComplete ==
    \A x \in Sids :
        logout[x].pc = "done" => \A s \in logout[x].before : ~Stored(s)

(* A session that another replica refreshed since the request read it is   *)
(* kept, not deleted (the comment in proxy.ts settle).                     *)
KeepsNewerSession ==
    [][\A q \in Requests :
          request[q].pc = "remove" /\ Stored(Key(request[q].at)) /\ Remove(q)
              => gen[Key(request[q].at)] = Gen(request[q].at)]_vars

(* No request waits for ever: not for the refresh it joined, nor for a     *)
(* lock whose owner died.                                                  *)
RequestsEnd == \A q \in Requests : request[q] # Idle ~> request[q] = Idle
=============================================================================
