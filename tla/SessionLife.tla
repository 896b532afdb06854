---------------------------- MODULE SessionLife ----------------------------
(***************************************************************************)
(* What the session store promises of one session id, whatever the number  *)
(* of replicas, requests and logouts that act on it: the id is stored at   *)
(* most once, its tokens are replaced one generation after the other, no   *)
(* generation skipped or brought back, and once the session has ended      *)
(* nothing stores it again.                                                *)
(***************************************************************************)
EXTENDS Naturals

CONSTANT Sessions   \* session ids

VARIABLES
    entry,          \* "none", "stored" or "gone"
    gen             \* the generation of the tokens stored last

SignIn(s) ==
    /\ entry[s] = "none"
    /\ entry' = [entry EXCEPT ![s] = "stored"]
    /\ gen' = [gen EXCEPT ![s] = 1]

Refresh(s) ==
    /\ entry[s] = "stored"
    /\ gen' = [gen EXCEPT ![s] = gen[s] + 1]
    /\ UNCHANGED entry

(* A logout ends any number of sessions at once.                           *)
End(gone) ==
    /\ \A s \in gone : entry[s] = "stored"
    /\ entry' = [s \in Sessions |-> IF s \in gone THEN "gone" ELSE entry[s]]
    /\ UNCHANGED gen

Init ==
    /\ entry = [s \in Sessions |-> "none"]
    /\ gen = [s \in Sessions |-> 0]

Next ==
    \/ \E s \in Sessions : SignIn(s) \/ Refresh(s)
    \/ \E gone \in SUBSET Sessions : End(gone)

Spec == Init /\ [][Next]_<<entry, gen>>
=============================================================================
