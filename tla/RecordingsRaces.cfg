CONSTANTS
  Lessons = {l1}
  Videos = {v1, v2}
  Staff = {s1, s2}
  Pollers = {p1}
  NoVideo = NoVideo
SYMMETRY VideosAndStaff
SPECIFICATION Spec
INVARIANTS
  TypeOK
  SettledByItsOwnVideo
  RunningUploadKept
PROPERTIES
  UploadsAreSerialised
  ReplacedUploadIsQueued
  DeletedOnlyAfterReplacement
  RemovalIsNeverForgotten
