SPECIFICATION Spec
CONSTANTS
    h1 = h1
    h2 = h2
    sidA = sidA
    sidB = sidB
    sub = sub
    Sessions = {h1}
    Replicas = {r1, r2}
    Requests = {q1, q2}
    Sids = {sidA}
    Subs = {sub}
    SidOf <- OneSid
    SubOf <- OneSub
    SidInToken = TRUE
    NoSession = NoSession
    NoFlight = NoFlight
    MaxGen = 2
    Polls = 1
    Faults = {}
SYMMETRY Symmetry
PROPERTY
    KeepsNewerSession
