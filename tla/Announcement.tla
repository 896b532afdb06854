------------------------------ MODULE Announcement ------------------------------
(***************************************************************************)
(* What "Kayıt eklendi" promises (recording-release.poller.ts, its header; *)
(* MDRS-283, MDRS-288): the news of a recording is taken up once, by one   *)
(* teller and only while the recording can be watched; that teller tells   *)
(* it at most once or drops it for good.                                   *)
(***************************************************************************)
CONSTANT Items

VARIABLES
    watchable,  \* the items that can be watched
    news        \* "fresh", "taken", "told" or "dropped"

newsVars == <<watchable, news>>

NewsInit ==
    /\ watchable \in SUBSET Items
    /\ news = [l \in Items |-> "fresh"]

Becomes(batch, state) == [l \in Items |-> IF l \in batch THEN state ELSE news[l]]

(* A teller takes up news of what can be watched then: one, or a batch.    *)
Take(batch) ==
    /\ \A l \in batch : l \in watchable /\ news[l] = "fresh"
    /\ news' = Becomes(batch, "taken")
    /\ UNCHANGED watchable

Tell(l) ==
    /\ news[l] = "taken"
    /\ news' = Becomes({l}, "told")
    /\ UNCHANGED watchable

Drop(batch) ==
    /\ \A l \in batch : news[l] = "taken"
    /\ news' = Becomes(batch, "dropped")
    /\ UNCHANGED watchable

OpenOrClose ==
    /\ watchable' \in SUBSET Items
    /\ UNCHANGED news

NewsNext ==
    \/ \E batch \in SUBSET Items : Take(batch) \/ Drop(batch)
    \/ \E l \in Items : Tell(l)
    \/ OpenOrClose

NewsSpec == NewsInit /\ [][NewsNext]_newsVars
=============================================================================
