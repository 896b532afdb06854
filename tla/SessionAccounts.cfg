SPECIFICATION Spec
CONSTANTS
    h1 = h1
    h2 = h2
    sidA = sidA
    sidB = sidB
    sub = sub
    Sessions = {h1, h2}
    Replicas = {r1, r2}
    Requests = {q1, q2}
    Sids = {sidA, sidB}
    Subs = {sub}
    SidOf <- TwoSids
    SubOf <- OneSub
    SidInToken = FALSE
    NoSession = NoSession
    NoFlight = NoFlight
    MaxGen = 1
    Polls = 1
    Faults = {}
SYMMETRY Symmetry
INVARIANT
    LogoutComplete
