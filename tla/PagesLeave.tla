---------------------------- MODULE PagesLeave ------------------------------
(***************************************************************************)
(* The pages of leave, cover and teachers, one at a time: a user is on one *)
(* page (tab), and every page module speaks of the page that is open.      *)
(***************************************************************************)
EXTENDS PageJobs

CONSTANTS Leaves,                     \* periods of leave to be covered, by number
          Filed,                      \* of these: asked for before the queue is opened
          Today,                      \* of these: today's, for the board
          Subs, Home, AtLimit,        \* teachers who may stand in, those of the department, those at the limit
          BoardSubs, BoardHome, BoardAtLimit,
          LastDate, Periods, Scheduled, MaxLeaves,
          Employed, MaxTeachers

VARIABLE tab

Desk  == INSTANCE LeavesDesk WITH Substitutes <- Subs
Board == INSTANCE TodayBoard WITH Subs <- BoardSubs, Home <- BoardHome, AtLimit <- BoardAtLimit
Own   == INSTANCE SelfCover
Mine  == INSTANCE MyLeaves WITH MaxClicks <- MaxClicks + 1
Crew  == INSTANCE TeachersDesk WITH MaxClicks <- MaxClicks - 1

ASSUME PagesAssumption ==
    /\ Desk!DeskAssumption /\ Board!BoardAssumption /\ Own!CoverAssumption
    /\ Mine!LeaveAssumption /\ Crew!TeachersAssumption

Init ==
    \/ tab = "leaves" /\ Desk!Init
    \/ tab = "today" /\ Board!Init
    \/ tab = "own cover" /\ Own!Init
    \/ tab = "my leaves" /\ Mine!Init
    \/ tab = "teachers" /\ Crew!Init

Next ==
    /\ UNCHANGED tab
    /\ \/ tab = "leaves" /\ Desk!Next
       \/ tab = "today" /\ Board!Next
       \/ tab = "own cover" /\ Own!Next
       \/ tab = "my leaves" /\ Mine!Next
       \/ tab = "teachers" /\ Crew!Next

Spec == Init /\ [][Next]_<<vars, tab>>

-----------------------------------------------------------------------------
(* What is disabled or spins on these pages has a handler that will come back, also after
   failures; the one exception is the bar of bulk actions of the teachers' page once its
   handler has thrown (pg.stuck of TeachersDesk, Teachers.jsx:430-440). *)
WaitingHasJob ==
    /\ tab = "leaves" => Desk!WaitingHasJob
    /\ tab = "today" => Board!WaitingHasJob
    /\ tab = "own cover" => Own!WaitingHasJob
    /\ tab = "my leaves" => Mine!WaitingHasJob
    /\ tab = "teachers" => Crew!WaitingHasJob

(* Leave requests: the limit is only overridden for a teacher the server has warned about. *)
LimitAcknowledged == tab = "leaves" => Desk!LimitAcknowledged

(* Leave requests: a substitute never stands on a leave that is undecided or rejected. *)
RefusedUncovered == tab = "leaves" => Desk!RefusedUncovered

(* Today: the counts an automatic run reports are of what it did. *)
RunAddsUp == tab = "today" => Board!RunAddsUp

(* Today: a covered period keeps its substitute until that very period is overridden or undone. *)
CoverKept == [][tab = "today" => Board!CoverKeptStep]_<<vars, tab>>

(* A teacher's own cover: no teacher at the limit is assigned unasked. *)
LimitAsked == [][tab = "own cover" => Own!LimitAskedStep]_<<vars, tab>>

(* A teacher's own leave: what a success page says is on record. *)
SuccessRecorded == tab = "my leaves" => Mine!SuccessRecorded

(* Teachers: what a bulk removal says it removed is gone. *)
DeletedAsTold == tab = "teachers" => Crew!DeletedAsTold
=============================================================================
