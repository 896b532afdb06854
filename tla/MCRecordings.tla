---------------------------- MODULE MCRecordings ----------------------------
(* Instances of Recordings for TLC. Videos, requests and instances are      *)
(* interchangeable; symmetry is used for safety only.                       *)
EXTENDS Recordings, TLC

VideosAndStaff == Permutations(Videos) \cup Permutations(Staff)

AllProcesses ==
    Permutations(Lessons) \cup Permutations(Staff) \cup Permutations(Pollers)

(* The polls read nothing of the lessons' own columns, so for liveness the  *)
(* sessions stay as they are; a purge, which frees videos, is checked by    *)
(* the safety runs.                                                         *)
LiveSpec == Init /\ [][Next /\ UNCHANGED lessonVars]_vars /\ Fairness

=============================================================================
