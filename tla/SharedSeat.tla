------------------------------ MODULE SharedSeat ------------------------------
(***************************************************************************)
(* What one person's seat in a course promises to those who share it: the  *)
(* talebe, the course's team and the partner applications. Every request,  *)
(* however many statements it is made of and whatever overlaps it, changes *)
(* the seat at one instant between its call and its end, if at all, and    *)
(* what a partner is told was true at such an instant too.                 *)
(***************************************************************************)
CONSTANTS Requests

VARIABLES
    status,   \* of the enrollment, "NONE" without one
    by,       \* who gave it that status
    banned,
    task      \* the requests at work

sharedVars == <<status, by, banned, task>>

(* free: the person was not barred at some instant since the call.         *)
NoTask == [who |-> "none", free |-> FALSE, answer |-> "none"]

SharedInit ==
    /\ status = "NONE" /\ by = "talebe" /\ banned = FALSE
    /\ task = [r \in Requests |-> NoTask]

SameSeating == UNCHANGED <<status, by>>

Calls(r, who) ==
    /\ task[r] = NoTask
    /\ task' = [task EXCEPT ![r] = [who |-> who, free |-> ~banned, answer |-> "none"]]
    /\ SameSeating /\ UNCHANGED banned

(* A request ends with its answer, or with an error or a crash at any time.*)
Ends(r) ==
    /\ task' = [task EXCEPT ![r] = NoTask]
    /\ SameSeating /\ UNCHANGED banned

(* A ban is made or lifted.                                                *)
BanMoves ==
    /\ banned' = ~banned
    /\ task' = [r \in Requests |-> [task[r] EXCEPT !.free = task[r] # NoTask]]
    /\ SameSeating

-----------------------------------------------------------------------------
(* What the talebe and the team may make of a seat.                        *)
Moves ==
    [talebe |-> {"NONE"} \X {"PENDING", "ENROLLED"} \cup {"PENDING", "ENROLLED"} \X {"NONE"},
     team |-> {"PENDING", "REVOKED", "COMPLETED"} \X {"ENROLLED"}
              \cup {<<"PENDING", "NONE">>} \cup {"ENROLLED"} \X {"COMPLETED", "REVOKED"}]

(* Barred all along, the person neither takes nor leaves a seat, and the   *)
(* team gives none.                                                        *)
Decides(r, to) ==
    /\ task[r].who \in {"talebe", "team"}
    /\ <<status, to>> \in Moves[task[r].who]
    /\ task[r].who = "talebe" \/ to = "ENROLLED" => task[r].free
    /\ status' = to /\ by' = task[r].who
    /\ task' = [task EXCEPT ![r] = NoTask]
    /\ UNCHANGED banned

Told(r, answer) ==
    /\ task[r].answer = "none"
    /\ task' = [task EXCEPT ![r].answer = answer]
    /\ UNCHANGED banned

(* PUT: the person is seated, or found in their seat. A completion stays.  *)
Registers(r) ==
    /\ task[r].who = "put" /\ Told(r, "seated")
    /\ \/ /\ status \in {"NONE", "PENDING", "REVOKED"} /\ task[r].free
          /\ status' = "ENROLLED" /\ by' = "partner"
       \/ status \in {"ENROLLED", "COMPLETED"} /\ SameSeating

(* It is refused for a ban, or while there is no seat to speak of.         *)
IsRefused(r) ==
    /\ task[r].who = "put" /\ Told(r, "refused")
    /\ banned \/ status \in {"NONE", "PENDING", "REVOKED"}
    /\ SameSeating

(* DELETE: the active seat is taken away, or there was none.               *)
Cancels(r) ==
    /\ task[r].who = "delete" /\ Told(r, "removed")
    /\ \/ status = "ENROLLED" /\ status' = "REVOKED" /\ by' = "partner"
       \/ status \in {"NONE", "REVOKED"} /\ SameSeating

SharedNext ==
    \/ BanMoves
    \/ \E r \in Requests :
           \/ Ends(r) \/ Registers(r) \/ IsRefused(r) \/ Cancels(r)
           \/ \E who \in {"talebe", "team", "put", "delete"} : Calls(r, who)
           \/ \E to \in {"NONE", "ENROLLED", "PENDING", "COMPLETED", "REVOKED"} : Decides(r, to)

SharedSpec == SharedInit /\ [][SharedNext]_sharedVars
===============================================================================
