-------------------------- MODULE DayOrderCalendar --------------------------
(***************************************************************************)
(* The academic calendar and its day-order rotation                        *)
(* (services/day_order_service.py): working days carry a day order that    *)
(* counts 1..MaxOrder round and round, other days pause the rotation, and  *)
(* every edit of a date resequences the working days after it that nobody  *)
(* pinned.                                                                 *)
(*                                                                         *)
(* An edit is a database transaction of two steps: Begin reads the table   *)
(* and computes the rows the handler leaves behind, Commit executes the    *)
(* statements the ORM derives from the difference: INSERT for a row that   *)
(* was not there, DELETE by key, UPDATE by key of the changed columns and  *)
(* of no others.  A statement that breaks a constraint of the table, or an *)
(* UPDATE whose row is gone, rolls the whole transaction back.             *)
(***************************************************************************)
EXTENDS Integers, FiniteSetsExt

CONSTANTS
    Workers,          \* handler threads
    NDates,           \* bound: the dates are 1..NDates
    MaxOrder,         \* settings.DAY_ORDER_MAX
    NonWorkingTypes,  \* the day types other than working
    MaxRows           \* bound: rows inserted per date

ASSUME CalendarBounds == NDates \in Nat /\ MaxOrder \in Nat \ {0} /\ MaxRows \in Nat
ASSUME CalendarTypes == "working" \notin NonWorkingTypes

Dates == 1..NDates
Orders == 1..MaxOrder
Null == 0                       \* day_order IS NULL
DayTypes == NonWorkingTypes \cup {"working"}

VARIABLES
    day,      \* calendar_days by date (UNIQUE)
    made,     \* how many rows each date has ever had: the next row's key
    txn       \* what each worker's open request read, and wants to leave behind

vars == <<day, made, txn>>

CalendarDay == [id: Nat \ {0}, type: DayTypes, order: 0..MaxOrder, manual: BOOLEAN]
NoRow == [id |-> 0, type |-> "absent", order |-> Null, manual |-> FALSE]
Table == [Dates -> CalendarDay \cup {NoRow}]

Idle == [op |-> "idle"]
Span == [first: Dates, next: 1..NDates + 1, last: 0..NDates, type: DayTypes]
Single(d) == [first |-> d, next |-> d + 1, last |-> d, type |-> "working"]
Request ==
    {Idle}
      \cup [op: {"edit"}, date: Dates, read: Table, new: Table, span: Span]
      \cup [op: {"range"}, span: Span]

TypeOK ==
    /\ day \in Table
    /\ made \in [Dates -> Nat]
    /\ txn \in [Workers -> Request]

Init ==
    /\ day = [d \in Dates |-> NoRow]
    /\ made = [d \in Dates |-> 0]
    /\ txn = [w \in Workers |-> Idle]

-----------------------------------------------------------------------------
(* What an edit computes from the table it read.                           *)

Exists(c, d) == c[d] # NoRow
Working(c, d) == c[d].type = "working"

\* Mutant: the order after the last one is out of range.
NextDayOrderNoWrap(order) == IF order \in 1..MaxOrder THEN order + 1 ELSE 1

\* _next_day_order, and DAY_ORDER_MIN where there is no order to continue.
NextDayOrder(order) == IF order \in 1..MaxOrder - 1 THEN order + 1 ELSE 1

\* The order of _last_working_day_before, Null when there is no such day.
LastOrderBefore(c, d) ==
    LET before == {e \in 1..d - 1 : Working(c, e)}
    IN  IF before = {} THEN Null ELSE c[Max(before)].order

\* Mutant: the walk also rewrites the pinned days.
MovesPinned(c, d, e) == e > d /\ Working(c, e)

\* The rows the walk over the days after d rewrites.
Moves(c, d, e) == e > d /\ Working(c, e) /\ ~c[e].manual

\* Mutant: the walk does not take over the order of a pinned day.
PassingPastPinned(row, running) ==
    IF row.type # "working" \/ row.manual THEN running ELSE NextDayOrder(running)

\* The order the walk carries on when it has passed a row.
Passing(row, running) ==
    IF row.type # "working" THEN running
    ELSE IF row.manual THEN row.order ELSE NextDayOrder(running)

\* _resequence_following_days; running[e] is the order the walk carries when
\* it has passed date e.  It starts from the day before d, not from d.
Resequence(c, d) ==
    LET running[e \in d..NDates] ==
          IF e = d THEN LastOrderBefore(c, d) ELSE Passing(c[e], running[e - 1])
    IN  [e \in Dates |->
           IF Moves(c, d, e) THEN [c[e] EXCEPT !.order = NextDayOrder(running[e - 1])]
           ELSE c[e]]

\* The row mark_day leaves for date d: a non-working day has no order, a
\* given order pins the day, otherwise the rotation continues.  A new row
\* gets the key that follows the date's earlier ones.
Marked(c, d, type, order) ==
    [id |-> IF Exists(c, d) THEN c[d].id ELSE made[d] + 1,
     type |-> type,
     order |-> IF type # "working" THEN Null
               ELSE IF order # Null THEN order
               ELSE NextDayOrder(LastOrderBefore(c, d)),
     manual |-> type = "working" /\ order # Null]

-----------------------------------------------------------------------------
(* Requests.                                                               *)

\* A request keeps the rows it will change, as read and as wanted.
Open(w, d, row, span) ==
    LET wanted == Resequence([day EXCEPT ![d] = row], d)
        OfChanged(c) == [e \in Dates |-> IF wanted[e] = day[e] THEN NoRow ELSE c[e]]
    IN  txn' = [txn EXCEPT ![w] = [op |-> "edit", date |-> d, span |-> span,
                                   read |-> OfChanged(day), new |-> OfChanged(wanted)]]
Fresh(d) == Exists(day, d) \/ made[d] < MaxRows

\* POST /days/mark: any type, with or without an explicit order.
BeginMark(w, d, type, order) ==
    /\ txn[w] = Idle
    /\ Fresh(d)
    /\ Open(w, d, Marked(day, d, type, order), Single(d))
    /\ UNCHANGED <<day, made>>

\* reassign_day_order, skip_day_order and each entry of the legacy bulk-set.
BeginReassign(w, d, order) ==
    /\ txn[w] = Idle
    /\ Fresh(d)
    /\ Exists(day, d) => Working(day, d)
    /\ Open(w, d, Marked(day, d, "working", order), Single(d))
    /\ UNCHANGED <<day, made>>

\* clear_override: the day rejoins the rotation.
BeginClearOverride(w, d) ==
    /\ txn[w] = Idle
    /\ Working(day, d)
    /\ Open(w, d, Marked(day, d, "working", Null), Single(d))
    /\ UNCHANGED <<day, made>>

\* delete_day.
BeginDelete(w, d) ==
    /\ txn[w] = Idle
    /\ Exists(day, d)
    /\ Open(w, d, NoRow, Single(d))
    /\ UNCHANGED <<day, made>>

\* bulk_mark_range marks the dates one by one, each in a transaction of its
\* own that reads the calendar afresh.
BeginBulk(w, first, last, type) ==
    /\ txn[w] = Idle
    /\ txn' = [txn EXCEPT ![w] = [op |-> "range", span |->
                 [first |-> first, next |-> first, last |-> last, type |-> type]]]
    /\ UNCHANGED <<day, made>>

\* Mutant: a day of the range that has an entry already is passed over.
NextOfBulkNewOnly(w) ==
    /\ txn[w].op = "range"
    /\ LET span == txn[w].span
           d == span.next
       IN  /\ d <= span.last /\ Fresh(d)
           /\ Open(w, d, IF Exists(day, d) THEN day[d] ELSE Marked(day, d, span.type, Null),
                   [span EXCEPT !.next = d + 1])
    /\ UNCHANGED <<day, made>>

NextOfBulk(w) ==
    /\ txn[w].op = "range"
    /\ LET span == txn[w].span
           d == span.next
       IN  /\ d <= span.last /\ Fresh(d)
           /\ Open(w, d, Marked(day, d, span.type, Null), [span EXCEPT !.next = d + 1])
    /\ UNCHANGED <<day, made>>

-----------------------------------------------------------------------------
(* The statements of a transaction, row by row.                            *)

Inserts(t, e) == t.read[e] = NoRow /\ t.new[e] # NoRow
Deletes(t, e) == t.read[e] # NoRow /\ t.new[e] = NoRow
Updates(t, e) == t.read[e] # t.new[e] /\ t.read[e] # NoRow /\ t.new[e] # NoRow

Changed(old, new, now) == IF old = new THEN now ELSE new
Updated(old, new, now) ==
    [now EXCEPT !.type = Changed(old.type, new.type, now.type),
                !.order = Changed(old.order, new.order, now.order),
                !.manual = Changed(old.manual, new.manual, now.manual)]

\* The row of date e after the statements of t.
After(t, e) ==
    CASE Inserts(t, e) -> [t.new[e] EXCEPT !.id = made[e] + 1]
      [] Deletes(t, e) -> IF day[e].id = t.read[e].id THEN NoRow ELSE day[e]
      [] Updates(t, e) -> Updated(t.read[e], t.new[e], day[e])
      [] OTHER -> day[e]

\* Mutant: the table lacks chk_calendar_day_order.
AcceptedUnchecked(t) ==
    \A e \in Dates :
        /\ Inserts(t, e) => day[e] = NoRow
        /\ Updates(t, e) => day[e].id = t.read[e].id

\* UNIQUE(date), the row an UPDATE expects to match, chk_calendar_day_order.
Accepted(t) ==
    \A e \in Dates :
        /\ Inserts(t, e) => day[e] = NoRow
        /\ Updates(t, e) => day[e].id = t.read[e].id
        /\ After(t, e).type = "working" \/ After(t, e).order = Null

Commit(w) ==
    /\ txn[w].op = "edit"
    /\ LET t == txn[w]
           more == IF t.span.next > t.span.last THEN Idle
                   ELSE [op |-> "range", span |-> t.span]
       IN  /\ Accepted(t)
           /\ day' = [e \in Dates |-> After(t, e)]
           /\ made' = [e \in Dates |-> IF Inserts(t, e) THEN made[e] + 1 ELSE made[e]]
           /\ txn' = [txn EXCEPT ![w] = more]

\* A constraint fails, or the process or its connection dies: the open
\* transaction is rolled back, and the rest of a range is never marked.
Rollback(w) ==
    /\ txn[w] # Idle
    /\ txn' = [txn EXCEPT ![w] = Idle]
    /\ UNCHANGED <<day, made>>

Edit(w) ==
    \E d \in Dates :
        \/ \E type \in DayTypes, order \in 0..MaxOrder : BeginMark(w, d, type, order)
        \/ \E order \in Orders : BeginReassign(w, d, order)
        \/ BeginClearOverride(w, d)
        \/ BeginDelete(w, d)
        \/ \E last \in d..NDates, type \in NonWorkingTypes : BeginBulk(w, d, last, type)

Next == \E w \in Workers : Edit(w) \/ NextOfBulk(w) \/ Commit(w) \/ Rollback(w)

Spec == Init /\ [][Next]_vars

-----------------------------------------------------------------------------
(* Properties.                                                             *)

\* A working day has a day order and no other day has one, whatever edits
\* overlap: is_working_day and assert_working_day_or_400 rely on it, and a
\* holiday that kept an order would come back as a teaching day in every
\* query by day_order.
OrderIffWorking ==
    \A d \in Dates : Exists(day, d) =>
        (Working(day, d) <=> day[d].order # Null)

\* Worker w's edit commits in this step.
Commits(w) == txn[w].op = "edit" /\ txn[w] # txn'[w] /\ day # day'

\* An edit leaves alone the days before it, the days that are not working
\* and the days somebody pinned (edits that do not overlap).
EditReachesOnlyTheRotation ==
    [][\A w \in Workers, e \in Dates :
          /\ Commits(w) /\ e # txn[w].date
          /\ e < txn[w].date \/ ~Working(day, e) \/ day[e].manual
          => day'[e] = day[e]]_vars

\* Taking a day out of the rotation (a holiday, a deleted entry) leaves the
\* rotation gapless: every later day that is not pinned follows the working
\* day before it (the 24/25/26-Aug example of the module's docstring).
Continues(c, e) == c[e].order = NextDayOrder(LastOrderBefore(c, e))
HolidayKeepsRotation ==
    [][\A w \in Workers, e \in Dates :
          /\ Commits(w) /\ ~Working(day', txn[w].date)
          /\ e > txn[w].date /\ Working(day', e) /\ ~day'[e].manual
          => Continues(day', e)]_vars

\* A bulk range that ran to its end has marked every date it was asked for,
\* although each date was a transaction that rewrote the days after it.
BulkMarksEveryDate ==
    [][\A w \in Workers :
          Commits(w) /\ txn[w].span.type # "working" /\ txn'[w] = Idle =>
              \A d \in txn[w].span.first .. txn[w].span.last :
                  day'[d].type = txn[w].span.type]_vars

-----------------------------------------------------------------------------
(* Claims of the repository's texts that the code does not keep.           *)

\* Setting a day order re-sequences everything after it: the first working
\* day after the edited one follows the edited one's order.
RotationFollowsTheEdit ==
    [][\A w \in Workers, e \in Dates :
          /\ Commits(w) /\ Working(day', txn[w].date)
          /\ e > txn[w].date /\ Working(day', e) /\ ~day'[e].manual
          /\ \A f \in txn[w].date + 1 .. e - 1 : ~Working(day', f)
          => day'[e].order = NextDayOrder(day'[txn[w].date].order)]_vars

\* A manual override survives the resequencing of other dates.
PinnedSurvives ==
    [][\A w \in Workers, e \in Dates :
          /\ Commits(w) /\ e # txn[w].date
          /\ Working(day, e) /\ day[e].manual
          => day'[e].order = day[e].order]_vars
=============================================================================
