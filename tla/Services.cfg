SPECIFICATION FairServices
CONSTANTS
    Services = {"invitations", "storage", "announcements"}
    Pairs = {pair}
    Versions = {v1, v2}
    Sweepers = {sweeper}
    NoRow = NoRow
    NoDue = NoDue
    MaxChanges = 3
    InvitationFaults = {}
    Uploads = {u1, u2}
    Places = {place}
    AnyPlace = place
    PlaceOf <- OnePlace
    Cleaners = {c1, c2}
    StorageHazards = {"crash"}
    Sessions = {l1, l2}
    Callers = {caller}
    Pollers = {p1}
    LastTime = 2
    Batch = 1
    MaxWrites = 2
    NewsFaults = {"crash", "store"}
    Registrations = {a}
    Requests = {r1}
    NoSeat = NoSeat
    NoLink = NoLink
    NoRegistration = NoRegistration
    MaxStamps = 1
    MaxBans = 0
    Weeks = {w1, w2}
    Lessons = {s1, s2}
    Editors = {e1}
    Restorers = {t1}
    MaxHides = 1
    MaxVersion = 1
INVARIANTS
    RowIsNewestTold
    ShownIsRemembered
    RecordedIsStored
    OthersAreQueued
PROPERTIES
    CancelsRepeat
    CalendarsSettle
    StoreCatchesUp
    ReleasedIsAnnounced
CHECK_DEADLOCK FALSE
