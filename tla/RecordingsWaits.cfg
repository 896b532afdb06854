CONSTANTS
  Lessons = {l1}
  Videos = {v1, v2, v3}
  Staff = {s1}
  Pollers = {p1}
  NoVideo = NoVideo
SPECIFICATION Spec
PROPERTY RemovalNamesItsReplacement
