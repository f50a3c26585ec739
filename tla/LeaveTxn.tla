------------------------------ MODULE LeaveTxn ------------------------------
(***************************************************************************)
(* The leave and substitution service of FAFLOW (services/leave_service.py *)
(* with the parts of substitution_service, teacher_substitution_service    *)
(* and credit_service it calls), as the database transactions it runs.     *)
(*                                                                         *)
(* FastAPI runs the synchronous handlers in a thread pool, so several      *)
(* requests are in flight at once, each in a PostgreSQL READ COMMITTED     *)
(* transaction of its own.  A request of worker w is two steps here:       *)
(*   BeginX(w)  the handler has read the committed tables and passed every *)
(*              check: what it read and decided is kept in txn[w];         *)
(*   CommitX(w) its INSERTs, UPDATEs and DELETEs commit together.          *)
(* Between the two, other workers commit, the calendar is edited, the      *)
(* operations mode is switched and time passes.  A handler whose checks    *)
(* fail answers 4xx and changes nothing, so it is not a step.  All reads   *)
(* of a handler happen at one instant, its writes at another.              *)
(*                                                                         *)
(* Only approve_leave and reject_leave lock the leave row (SELECT ... FOR  *)
(* UPDATE); they hold it from Begin to Commit.                             *)
(***************************************************************************)
EXTENDS Integers, Sequences

CONSTANTS
    Teachers,     \* users with role teacher, all active, of one department
    Workers,      \* handler threads
    MaxLeaves,    \* bound: rows ever inserted in leave_requests
    MaxRows,      \* bound: a new assignment starts while fewer rows were made
    MaxNet,       \* bound: an override starts while the ledger is this small
    LastDay,      \* bound: the days of the calendar are 1..LastDay
    MaxOrder,     \* settings.DAY_ORDER_MAX
    Periods,      \* period numbers of a day
    Batches,      \* period lists one submission may carry, in ascending order
    Timetable     \* <<teacher, day order, period>> of every timetable slot

ASSUME BoundsAssumption ==
    /\ MaxLeaves \in Nat /\ MaxRows \in Nat /\ MaxNet \in Nat
    /\ LastDay \in Nat /\ MaxOrder \in Nat
ASSUME PeriodsAssumption ==
    /\ Batches \subseteq Seq(Periods) \ {<<>>}
    /\ \A ps \in Batches : \A i, j \in 1..Len(ps) : i # j => ps[i] # ps[j]
ASSUME TimetableAssumption == Timetable \subseteq Teachers \X (1..MaxOrder) \X Periods

Leaves == 1..MaxLeaves          \* primary keys of leave_requests
Days == 1..LastDay
NonWorking == 0                 \* calendar value of a date classes cannot use

VARIABLES
    leave,      \* leave_requests, by primary key
    seq,        \* the last key drawn from the primary-key sequence
    asg,        \* alter_assignments: at most one row per leave (UNIQUE)
    made,       \* how many assignment rows each leave has ever had
    net,        \* credit_transactions summed per leave and teacher
    calendar,   \* calendar_days: the day order of a date, or NonWorking
    mode,       \* get_mode(): "autonomous" or "manual" (manual, assisted)
    today, phase, \* the clock, read in the institution's time zone
    txn         \* what each worker's open request read and decided

vars == <<leave, seq, asg, made, net, calendar, mode, today, phase, txn>>
env == <<calendar, mode, today, phase>>

Row == [status: {"pending", "approved", "rejected", "cancelled"},
        teacher: Teachers, date: Days, order: 1..MaxOrder, period: Periods]
NoLeave == [status |-> "none"]
Assignment == [id: Nat \ {0}, sub: Teachers, locked: BOOLEAN]
NoAsg == [id |-> 0]
Asg == Assignment \cup {NoAsg}

Idle == [op |-> "idle"]
Request ==
    {Idle}
      \cup [op: {"submit"}, first: 0..MaxLeaves, rows: Seq(Row)]
      \cup [op: {"approve", "reject"}, leaf: Leaves]
      \cup [op: {"assign"}, leaf: Leaves, sub: Teachers]
      \cup [op: {"override"}, leaf: Leaves, sub: Teachers, seen: Assignment]
      \cup [op: {"undo"}, leaf: Leaves, seen: Assignment]
      \cup [op: {"lock"}, leaf: Leaves, seen: Assignment, locked: BOOLEAN]
      \cup [op: {"cancel"}, leaf: Leaves, seen: Asg]
      \cup [op: {"clear"}, seen: [Leaves -> Asg]]
      \cup [op: {"queued"}, todo: Seq(Leaves) \ {<<>>}]
      \cup [op: {"auto"}, leaf: Leaves, sub: Teachers, todo: Seq(Leaves)]

TypeOK ==
    /\ leave \in [Leaves -> Row \cup {NoLeave}]
    /\ seq \in 0..MaxLeaves
    /\ asg \in [Leaves -> Asg]
    /\ made \in [Leaves -> Nat]
    /\ net \in [Leaves -> [Teachers -> Int]]
    /\ calendar \in [Days -> 0..MaxOrder]
    /\ mode \in {"autonomous", "manual"}
    /\ today \in 0..LastDay
    /\ phase \in {"morning", "day", "evening"}
    /\ txn \in [Workers -> Request]

Init ==
    /\ leave = [l \in Leaves |-> NoLeave]
    /\ seq = 0
    /\ asg = [l \in Leaves |-> NoAsg]
    /\ made = [l \in Leaves |-> 0]
    /\ net = [l \in Leaves |-> [t \in Teachers |-> 0]]
    /\ calendar \in [Days -> 0..MaxOrder]
    /\ mode = "manual"
    /\ today = 0
    /\ phase = "day"
    /\ txn = [w \in Workers |-> Idle]

-----------------------------------------------------------------------------
(* What the handlers' checks read.                                         *)

Slot(l) == <<leave[l].date, leave[l].period>>
Exists(l) == leave[l] # NoLeave
Covered(l) == asg[l] # NoAsg
Open(l) == leave[l].status \in {"pending", "approved"}
WorkingDay(d) == calendar[d] # NonWorking

\* is_substitution_expired: past dates, and today from 17:00 on.
Expired(d) == d < today \/ (d = today /\ phase = "evening")

\* cancel_leave_by_teacher: a future date, or today before 10:00.
SelfCancellable(d) == d > today \/ (d = today /\ phase = "morning")

\* The hard conflict checks of one candidate against one leave.
Teaching(s, l) == <<s, leave[l].order, leave[l].period>> \in Timetable
OnApprovedLeave(s, l) ==
    \E m \in Leaves : leave[m].status = "approved"
                        /\ leave[m].teacher = s /\ Slot(m) = Slot(l)
\* Mutant: the double-booking query filters on the absent teacher.
CoversSlotOfAbsentee(s, l) ==
    \E m \in Leaves \ {l} : Covered(m) /\ asg[m].sub = leave[l].teacher
                              /\ Slot(m) = Slot(l)
CoversSlot(s, l) ==
    \E m \in Leaves \ {l} : Covered(m) /\ asg[m].sub = s /\ Slot(m) = Slot(l)
CoversDate(s, d) ==
    \E m \in Leaves : Covered(m) /\ asg[m].sub = s /\ leave[m].date = d
CanCover(s, l) ==
    /\ s # leave[l].teacher
    /\ ~Teaching(s, l)
    /\ ~OnApprovedLeave(s, l)
    /\ ~CoversSlot(s, l)

\* The row lock of an open approve_leave or reject_leave.
Holds(w, l) == txn[w].op \in {"approve", "reject"} /\ txn[w].leaf = l
LockFree(l) == \A w \in Workers : ~Holds(w, l)

\* Writes that several handlers share.
Ready(w, request) == txn[w] = Idle /\ txn' = [txn EXCEPT ![w] = request]
Next1(todo) == IF todo = <<>> THEN Idle ELSE [op |-> "queued", todo |-> todo]
Finish(w) == txn' = [txn EXCEPT ![w] = Idle]
Credit(n, plus, minus) == [[n EXCEPT ![plus] = @ + 1] EXCEPT ![minus] = @ - 1]
-----------------------------------------------------------------------------
(* Submission: submit_leave, submit_leave_batch, submit_leave_by_admin.    *)

\* Mutant: the duplicate check forgets the pending leaves.
NoApprovedLeave(t, d, p) ==
    \A m \in Leaves : Exists(m) /\ leave[m].teacher = t
                        /\ Slot(m) = <<d, p>> => leave[m].status # "approved"

\* No pending or approved leave of t for that date and period.
NoOpenLeave(t, d, p) ==
    \A m \in Leaves : Exists(m) /\ leave[m].teacher = t
                        /\ Slot(m) = <<d, p>> => ~Open(m)

\* The rows get their keys when they are flushed; a rollback burns the keys.
Submit(w, t, d, ps, st) ==
    /\ WorkingDay(d)
    /\ \A i \in 1..Len(ps) : NoOpenLeave(t, d, ps[i])
    /\ seq + Len(ps) <= MaxLeaves
    /\ Ready(w, [op |-> "submit", first |-> seq,
                 rows |-> [i \in 1..Len(ps) |->
                             [status |-> st, teacher |-> t, date |-> d,
                              order |-> calendar[d], period |-> ps[i]]]])
    /\ seq' = seq + Len(ps)
    /\ UNCHANGED <<leave, asg, made, net, env>>

\* A teacher's leaves start pending, or approved in autonomous mode.
BeginSubmit(w, t, d, ps) ==
    Submit(w, t, d, ps, IF mode = "autonomous" THEN "approved" ELSE "pending")

\* An administrator's entry is approved at once, in every mode.
BeginSubmitByAdmin(w, t, d, ps) == Submit(w, t, d, ps, "approved")

\* Approved rows are then handed one by one to auto_process_approved_leave.
CommitSubmit(w) ==
    /\ txn[w].op = "submit"
    /\ LET first == txn[w].first
           rows == txn[w].rows
           new == first + 1 .. first + Len(rows)
           todo == IF rows[1].status = "approved"
                   THEN [i \in 1..Len(rows) |-> first + i] ELSE <<>>
       IN  /\ leave' = [l \in Leaves |->
                          IF l \in new THEN rows[l - first] ELSE leave[l]]
           /\ txn' = [txn EXCEPT ![w] = Next1(todo)]
    /\ UNCHANGED <<seq, asg, made, net, env>>

-----------------------------------------------------------------------------
(* Decision: approve_leave, reject_leave, and their bulk forms, which run  *)
(* the single form once per id and commit each.                            *)

BeginApprove(w, l) ==
    /\ LockFree(l)
    /\ leave[l].status = "pending"
    /\ WorkingDay(leave[l].date)
    /\ Ready(w, [op |-> "approve", leaf |-> l])
    /\ UNCHANGED <<leave, seq, asg, made, net, env>>

CommitApprove(w) ==
    /\ txn[w].op = "approve"
    /\ leave' = [leave EXCEPT ![txn[w].leaf].status = "approved"]
    /\ txn' = [txn EXCEPT ![w] = Next1(<<txn[w].leaf>>)]
    /\ UNCHANGED <<seq, asg, made, net, env>>

\* Mutant: reject_leave reads the leave without for_update.
BeginRejectUnlocked(w, l) ==
    /\ leave[l].status = "pending"
    /\ Ready(w, [op |-> "reject", leaf |-> l])
    /\ UNCHANGED <<leave, seq, asg, made, net, env>>

BeginReject(w, l) ==
    /\ LockFree(l)
    /\ leave[l].status = "pending"
    /\ Ready(w, [op |-> "reject", leaf |-> l])
    /\ UNCHANGED <<leave, seq, asg, made, net, env>>

CommitReject(w) ==
    /\ txn[w].op = "reject"
    /\ leave' = [leave EXCEPT ![txn[w].leaf].status = "rejected"]
    /\ Finish(w)
    /\ UNCHANGED <<seq, asg, made, net, env>>

-----------------------------------------------------------------------------
(* Assignment: create_assignment is the common write of assign_substitute  *)
(* and of the autonomous engine.                                           *)

\* The INSERT fails on UNIQUE(leave_request_id) when a row is there: the
\* request answers 500 and its transaction rolls back.
CreateAssignment(w, l, s, after) ==
    IF Covered(l)
    THEN Finish(w) /\ UNCHANGED <<asg, made, net>>
    ELSE /\ made' = [made EXCEPT ![l] = @ + 1]
         /\ asg' = [asg EXCEPT ![l] = [id |-> made[l] + 1, sub |-> s,
                                       locked |-> FALSE]]
         /\ net' = [net EXCEPT ![l] = Credit(@, s, leave[l].teacher)]
         /\ txn' = [txn EXCEPT ![w] = after]

\* Mutant: an assignment may be made before the leave is approved.
BeginAssignEarly(w, l, s) ==
    /\ Open(l)
    /\ ~Expired(leave[l].date)
    /\ ~Covered(l)
    /\ WorkingDay(leave[l].date)
    /\ CanCover(s, l)
    /\ made[l] < MaxRows
    /\ Ready(w, [op |-> "assign", leaf |-> l, sub |-> s])
    /\ UNCHANGED <<leave, seq, asg, made, net, env>>

BeginAssign(w, l, s) ==
    /\ leave[l].status = "approved"
    /\ ~Expired(leave[l].date)
    /\ ~Covered(l)
    /\ WorkingDay(leave[l].date)
    /\ CanCover(s, l)
    /\ made[l] < MaxRows
    /\ Ready(w, [op |-> "assign", leaf |-> l, sub |-> s])
    /\ UNCHANGED <<leave, seq, asg, made, net, env>>

CommitAssign(w) ==
    /\ txn[w].op = "assign"
    /\ CreateAssignment(w, txn[w].leaf, txn[w].sub, Idle)
    /\ UNCHANGED <<leave, seq, env>>

\* auto_process_approved_leave reads the mode and the candidates afresh, in
\* a transaction that starts after the leave was committed as approved; it
\* looks neither at the leave's status nor at the calendar, nor for a row.
\* Opt-in, weekly cap, score and workload thresholds choose the candidate.
BeginAuto(w, s) ==
    /\ txn[w].op = "queued"
    /\ LET l == Head(txn[w].todo)
       IN  /\ mode = "autonomous"
           /\ CanCover(s, l)
           /\ ~CoversDate(s, leave[l].date)
           /\ made[l] < MaxRows
           /\ txn' = [txn EXCEPT ![w] = [op |-> "auto", leaf |-> l, sub |-> s,
                                         todo |-> Tail(txn[w].todo)]]
    /\ UNCHANGED <<leave, seq, asg, made, net, env>>

\* Mutant: the engine has no answer when nobody is eligible.
SkipAutoOtherMode(w) ==
    /\ txn[w].op = "queued"
    /\ mode # "autonomous"
    /\ txn' = [txn EXCEPT ![w] = Next1(Tail(txn[w].todo))]
    /\ UNCHANGED <<leave, seq, asg, made, net, env>>

\* Another mode, or no candidate that is eligible, opted in and safe.
SkipAuto(w) ==
    /\ txn[w].op = "queued"
    /\ txn' = [txn EXCEPT ![w] = Next1(Tail(txn[w].todo))]
    /\ UNCHANGED <<leave, seq, asg, made, net, env>>

CommitAuto(w) ==
    /\ txn[w].op = "auto"
    /\ CreateAssignment(w, txn[w].leaf, txn[w].sub, Next1(txn[w].todo))
    /\ UNCHANGED <<leave, seq, env>>
-----------------------------------------------------------------------------
(* Change of an assignment: override_substitute, set_assignment_lock,      *)
(* undo_assignment, teacher_clear_assignments.                             *)

\* Neither the leave's status nor the calendar is read again here.
BeginOverride(w, l, s) ==
    /\ Covered(l)
    /\ ~Expired(leave[l].date)
    /\ ~asg[l].locked
    /\ s # asg[l].sub
    /\ CanCover(s, l)
    /\ \A t \in Teachers : net[l][t] \in -MaxNet..MaxNet
    /\ Ready(w, [op |-> "override", leaf |-> l, sub |-> s, seen |-> asg[l]])
    /\ UNCHANGED <<leave, seq, asg, made, net, env>>

\* Mutant: the override takes the credit from the absent teacher again
\* instead of from the substitute it replaces.
CommitOverrideTwicePaid(w) ==
    /\ txn[w].op = "override"
    /\ LET l == txn[w].leaf
       IN  /\ asg' = [asg EXCEPT ![l].sub = txn[w].sub]
           /\ net' = [net EXCEPT ![l] = Credit(@, txn[w].sub, leave[l].teacher)]
    /\ Finish(w)
    /\ UNCHANGED <<leave, seq, made, env>>

\* The UPDATE is by the row's key: when the row is gone it matches nothing,
\* the ORM raises StaleDataError and the credit changes roll back with it.
CommitOverride(w) ==
    /\ txn[w].op = "override"
    /\ LET l == txn[w].leaf
           seen == txn[w].seen
       IN  IF asg[l].id = seen.id
           THEN /\ asg' = [asg EXCEPT ![l].sub = txn[w].sub]
                /\ net' = [net EXCEPT ![l] = Credit(@, txn[w].sub, seen.sub)]
           ELSE UNCHANGED <<asg, net>>
    /\ Finish(w)
    /\ UNCHANGED <<leave, seq, made, env>>

\* Writing the value that was read changes nothing, so only a flip is a step.
BeginLock(w, l) ==
    /\ Covered(l)
    /\ ~Expired(leave[l].date)
    /\ Ready(w, [op |-> "lock", leaf |-> l, seen |-> asg[l],
                 locked |-> ~asg[l].locked])
    /\ UNCHANGED <<leave, seq, asg, made, net, env>>

CommitLock(w) ==
    /\ txn[w].op = "lock"
    /\ LET l == txn[w].leaf
       IN  asg' = IF asg[l].id = txn[w].seen.id
                  THEN [asg EXCEPT ![l].locked = txn[w].locked] ELSE asg
    /\ Finish(w)
    /\ UNCHANGED <<leave, seq, made, net, env>>

\* Reversal of the assignment `seen` of leave l: the credits go back, and the
\* row is deleted by key; a DELETE that matches no row is only a warning.
Reversed(n, l, seen) ==
    IF seen = NoAsg THEN n[l] ELSE Credit(n[l], leave[l].teacher, seen.sub)
Remaining(l, seen) == IF asg[l].id = seen.id THEN NoAsg ELSE asg[l]

BeginUndo(w, l) ==
    /\ Covered(l)
    /\ ~Expired(leave[l].date)
    /\ ~asg[l].locked
    /\ Ready(w, [op |-> "undo", leaf |-> l, seen |-> asg[l]])
    /\ UNCHANGED <<leave, seq, asg, made, net, env>>

CommitUndo(w) ==
    /\ txn[w].op = "undo"
    /\ LET l == txn[w].leaf
       IN  /\ asg' = [asg EXCEPT ![l] = Remaining(l, txn[w].seen)]
           /\ net' = [net EXCEPT ![l] = Reversed(net, l, txn[w].seen)]
    /\ Finish(w)
    /\ UNCHANGED <<leave, seq, made, env>>

\* Every covered approved leave of the teacher, locked or past ones included;
\* not available to teachers in autonomous mode.
BeginClear(w, t) ==
    /\ mode # "autonomous"
    /\ Ready(w, [op |-> "clear",
                 seen |-> [l \in Leaves |->
                             IF leave[l].status = "approved" /\ leave[l].teacher = t
                             THEN asg[l] ELSE NoAsg]])
    /\ UNCHANGED <<leave, seq, asg, made, net, env>>

CommitClear(w) ==
    /\ txn[w].op = "clear"
    /\ LET seen == txn[w].seen
       IN  /\ asg' = [l \in Leaves |-> Remaining(l, seen[l])]
           /\ net' = [l \in Leaves |-> Reversed(net, l, seen[l])]
    /\ Finish(w)
    /\ UNCHANGED <<leave, seq, made, env>>

-----------------------------------------------------------------------------
(* Cancellation.  Neither function locks the row it reads; the UPDATE waits *)
(* for a row lock and then writes "cancelled" unconditionally.              *)

\* Mutant: the cancellation does not look for an assignment to reverse.
BeginCancelStatusOnly(w, l) ==
    /\ Open(l)
    /\ Ready(w, [op |-> "cancel", leaf |-> l, seen |-> NoAsg])
    /\ UNCHANGED <<leave, seq, asg, made, net, env>>

BeginCancel(w, l) ==
    /\ Open(l)
    /\ Ready(w, [op |-> "cancel", leaf |-> l, seen |-> asg[l]])
    /\ UNCHANGED <<leave, seq, asg, made, net, env>>

\* Teachers cancel their own leaves, before the cutoff.
BeginCancelByTeacher(w, l) == BeginCancel(w, l) /\ SelfCancellable(leave[l].date)

\* Administrators cancel any leave at any time.
BeginCancelByAdmin(w, l) == BeginCancel(w, l)

\* Mutant: the cancellation's UPDATE does not wait for the row lock.
CommitCancelAnyTime(w) ==
    /\ txn[w].op = "cancel"
    /\ LET l == txn[w].leaf
       IN  /\ leave' = [leave EXCEPT ![l].status = "cancelled"]
           /\ asg' = [asg EXCEPT ![l] = Remaining(l, txn[w].seen)]
           /\ net' = [net EXCEPT ![l] = Reversed(net, l, txn[w].seen)]
    /\ Finish(w)
    /\ UNCHANGED <<seq, made, env>>

CommitCancel(w) ==
    /\ txn[w].op = "cancel"
    /\ LET l == txn[w].leaf
       IN  /\ LockFree(l)
           /\ leave' = [leave EXCEPT ![l].status = "cancelled"]
           /\ asg' = [asg EXCEPT ![l] = Remaining(l, txn[w].seen)]
           /\ net' = [net EXCEPT ![l] = Reversed(net, l, txn[w].seen)]
    /\ Finish(w)
    /\ UNCHANGED <<seq, made, env>>

-----------------------------------------------------------------------------
(* What happens around the requests.                                       *)

\* The process dies, the database picks the transaction as a deadlock
\* victim, a connection drops: what was not committed is lost.
Abort(w) ==
    /\ txn[w] # Idle
    /\ Finish(w)
    /\ UNCHANGED <<leave, seq, asg, made, net, env>>

\* Mutant: the day order is advanced without wrapping at the maximum.
MarkDayNoWrap(d, order) ==
    /\ calendar' = [calendar EXCEPT ![d] = order + 1]
    /\ UNCHANGED <<leave, seq, asg, made, net, mode, today, phase, txn>>

\* One edit of the academic calendar (day_order_service.mark_day), of which
\* this module sees the day order or its absence.
MarkDay(d, order) ==
    /\ calendar' = [calendar EXCEPT ![d] = order]
    /\ UNCHANGED <<leave, seq, asg, made, net, mode, today, phase, txn>>

\* set_mode and set_global_override.
SetMode(m) ==
    /\ mode' = m
    /\ UNCHANGED <<leave, seq, asg, made, net, calendar, today, phase, txn>>

\* 10:00, 17:00 and midnight.
Tick ==
    /\ \/ phase = "morning" /\ phase' = "day" /\ today' = today
       \/ phase = "day" /\ phase' = "evening" /\ today' = today
       \/ phase = "evening" /\ phase' = "morning" /\ today < LastDay
            /\ today' = today + 1
    /\ UNCHANGED <<leave, seq, asg, made, net, calendar, mode, txn>>

Begin(w) ==
    \/ \E t \in Teachers, d \in Days, ps \in Batches :
          BeginSubmit(w, t, d, ps) \/ BeginSubmitByAdmin(w, t, d, ps)
    \/ \E l \in Leaves :
          \/ BeginApprove(w, l)
          \/ BeginReject(w, l)
          \/ BeginLock(w, l)
          \/ BeginUndo(w, l)
          \/ BeginCancelByTeacher(w, l)
          \/ BeginCancelByAdmin(w, l)
          \/ \E s \in Teachers : BeginAssign(w, l, s) \/ BeginOverride(w, l, s)
    \/ \E t \in Teachers : BeginClear(w, t)

Proceed(w) ==
    \/ CommitSubmit(w)
    \/ CommitApprove(w)
    \/ CommitReject(w)
    \/ CommitAssign(w)
    \/ \E s \in Teachers : BeginAuto(w, s)
    \/ SkipAuto(w)
    \/ CommitAuto(w)
    \/ CommitOverride(w)
    \/ CommitLock(w)
    \/ CommitUndo(w)
    \/ CommitClear(w)
    \/ CommitCancel(w)

Environment ==
    \/ \E d \in Days, order \in 0..MaxOrder : MarkDay(d, order)
    \/ \E m \in {"autonomous", "manual"} : SetMode(m)
    \/ Tick

Next ==
    \/ \E w \in Workers : Begin(w) \/ Proceed(w) \/ Abort(w)
    \/ Environment

Spec == Init /\ [][Next]_vars

\* A thread-pool worker runs its handler to the end unless it is aborted, and
\* PostgreSQL grants a row lock to its waiters in turn, so a cancellation is
\* not passed over forever (strong fairness of the step that waits).  Nobody
\* has to send requests, and the environment owes nothing.
FairSpec ==
    Spec /\ \A w \in Workers : WF_vars(Proceed(w)) /\ SF_vars(CommitCancel(w))
-----------------------------------------------------------------------------
(* Properties that hold whatever the interleaving of the workers.          *)

\* A rejected leave is never covered and never moved a credit: approval and
\* rejection of one leave exclude each other through the row lock, and every
\* assignment starts from a leave that was read as approved.
RejectedUncovered ==
    \A l \in Leaves : leave[l].status = "rejected" =>
        ~Covered(l) /\ \A t \in Teachers : net[l][t] = 0

\* Only a pending leave is approved or rejected, and nothing returns to pending:
\* approval and rejection exclude each other, and neither revives a cancelled
\* leave (approve_leave and reject_leave re-read the status under the row lock
\* that a cancellation has to wait for).  Cancellations are left out: they read
\* without the lock, see RejectionIsFinal.
DecidesPendingOnly ==
    [][\A l \in Leaves :
          leave'[l].status \notin {leave[l].status, "cancelled"} =>
              <<leave[l].status, leave'[l].status>> \in
                  {<<"none", "pending">>, <<"none", "approved">>,
                   <<"pending", "approved">>, <<"pending", "rejected">>}]_vars

\* Every admitted request ends: no handler waits forever for a row lock, and
\* the autonomous pass over a batch comes to its end.
EveryRequestEnds == \A w \in Workers : txn[w] # Idle ~> txn[w] = Idle

-----------------------------------------------------------------------------
(* Properties of requests that do not overlap (one worker).  The runs with *)
(* two workers show which of them the code loses when requests do overlap. *)

\* The ledger reflects who is covering the class right now (docstring of
\* override_substitute): per leave, one credit from the absent teacher to the
\* present substitute, and nothing once the assignment is undone, cleared or
\* cancelled.
LedgerMatchesCoverage ==
    \A l \in Leaves, t \in Teachers :
        net[l][t] = CASE Covered(l) /\ t = asg[l].sub -> 1
                      [] Covered(l) /\ t = leave[l].teacher -> -1
                      [] OTHER -> 0

\* Reversal invariant: a cancelled leave has no substitute and no credit left
\* on the ledger; cancellation undoes whatever assign, override, lock and the
\* engine did before.
CancelledReversed ==
    \A l \in Leaves : leave[l].status = "cancelled" =>
        ~Covered(l) /\ \A t \in Teachers : net[l][t] = 0

\* Nobody covers two classes in one period, through any mix of manual
\* assignment, override and the autonomous engine.
NoDoubleBooking ==
    \A l, m \in Leaves :
        l # m /\ Covered(l) /\ Covered(m) /\ Slot(l) = Slot(m) =>
            asg[l].sub # asg[m].sub

\* A teacher never has two pending or approved leaves for one period (the
\* duplicate protection of the three submit functions).
NoDuplicateLeave ==
    \A l, m \in Leaves :
        l # m /\ Open(l) /\ Open(m) /\ Slot(l) = Slot(m) =>
            leave[l].teacher # leave[m].teacher

-----------------------------------------------------------------------------
(* What the whole of it is for.                                            *)

\* Refinement: a college that sends one request at a time sees the atomic book
\* of LeaveBook.  Every commit is one entry, decision, cover, release or
\* cancellation of it, done on facts that still hold when it commits, and the
\* ledger is settled in the same step; every other step leaves it alone.
Coverage == [l \in Leaves |-> IF Covered(l) THEN {asg[l].sub} ELSE {}]
Book == INSTANCE LeaveBook WITH
    Orders <- 1..MaxOrder, cover <- Coverage, ledger <- net
ActsAsBook == Book!Spec

-----------------------------------------------------------------------------
(* Claims of the repository's texts that the code does not keep.           *)

\* A substitute is only ever put on a class of a working day (docstring of
\* apply_credit_change): at the start of an override the date is one.
OverrideOnWorkingDay ==
    [][\A w \in Workers :
          txn[w] = Idle /\ txn'[w].op = "override" =>
              WorkingDay(leave[txn'[w].leaf].date)]_vars

\* A rejected leave stays rejected (the state diagram of Leave_Management.md
\* has no way out of Rejected, and both cancellations answer 400 to one): a
\* cancellation that read the leave while it was pending overwrites it.  No run
\* checks it (README, section 4).
RejectionIsFinal ==
    [][\A l \in Leaves :
          leave[l].status = "rejected" => leave'[l].status = "rejected"]_vars
=============================================================================
