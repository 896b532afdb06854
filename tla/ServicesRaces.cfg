SPECIFICATION ServicesSpec
CONSTANTS
    Services = {"invitations", "announcements", "enrollments", "syllabus"}
    Pairs = {pair}
    Versions = {v1, v2}
    Sweepers = {sweeper}
    NoRow = NoRow
    NoDue = NoDue
    MaxChanges = 2
    InvitationFaults = {"crash", "store"}
    Uploads = {u1}
    Places = {place}
    AnyPlace = place
    PlaceOf <- OnePlace
    Cleaners = {c1, c2}
    StorageHazards = {"crash"}
    Sessions = {l1, l2}
    Callers = {caller}
    Pollers = {p1, p2}
    LastTime = 2
    Batch = 1
    MaxWrites = 2
    NewsFaults = {"crash", "store"}
    Registrations = {a, b}
    Requests = {r1, r2}
    NoSeat = NoSeat
    NoLink = NoLink
    NoRegistration = NoRegistration
    MaxStamps = 3
    MaxBans = 1
    Weeks = {w1, w2}
    Lessons = {s1, s2}
    Editors = {e1}
    Restorers = {t1, t2}
    MaxHides = 2
    MaxVersion = 3
SYMMETRY SeatSymmetry
INVARIANTS
    ServicesTypeOK
PROPERTIES
    SequencesRise
    KeepsPromise
    RecordsStand
    SeatIsShared
    SavesWhatWasShown
    RestoredAsHidden
    ShownByOlderReadOnly
CHECK_DEADLOCK FALSE
