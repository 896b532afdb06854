SPECIFICATION EnrollmentSpec
CONSTANTS
    Registrations = {a}
    Requests = {r1, r2}
    NoSeat = NoSeat
    NoLink = NoLink
    NoRegistration = NoRegistration
    MaxStamps = 3
    MaxBans = 0
PROPERTIES
    OnlyAddedIsTaken
