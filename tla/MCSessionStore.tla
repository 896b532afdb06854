-------------------------- MODULE MCSessionStore --------------------------
(* Instances of SessionStore for TLC.                                      *)
EXTENDS SessionStore, TLC

CONSTANTS h1, h2, sidA, sidB, sub

(* Sessions of one SSO session, or of two SSO sessions of one account.     *)
OneSid == [s \in Sessions |-> sidA]
TwoSids == [s \in Sessions |-> IF s = h1 THEN sidA ELSE sidB]
OneSub == [x \in Sids |-> sub]

Symmetry == Permutations(Replicas) \cup Permutations(Requests)
===========================================================================
