---------------------------- MODULE CalendarDesk ----------------------------
(***************************************************************************)
(* The academic calendar page (frontend/src/pages/admin/AcademicCalendar.  *)
(* jsx): a month of days, marked one by one, many at once, or all the days *)
(* without an entry in a row.  A day's Day Order is DayOrderCalendar's     *)
(* affair: here a working day is pinned to one or follows the sequence.    *)
(***************************************************************************)
EXTENDS PageJobs, FiniteSetsExt

CONSTANTS LastDay, PerMonth,  \* the days are 1..LastDay, PerMonth to a month
          Weekends,           \* those that are Saturdays and Sundays
          Terms               \* academic years there may be; a semester each

Dates == 1..LastDay
Month(d) == (d - 1) \div PerMonth
Months == {Month(d) : d \in Dates}

CalendarAssumption ==
    /\ LastDay \in Nat /\ PerMonth \in Nat \ {0} /\ Weekends \subseteq Dates
    /\ None \notin [done : Nat, total : Nat]   \* no progress is not a count

-----------------------------------------------------------------------------
(* What the page shows *)

(* Modals cover the page. *)
Open == pg.dialog = None /\ ~pg.managing

(* The days without an entry, so far as the page knows. *)
UnsetDates == {d \in Dates : /\ Month(d) = pg.month /\ pg.days[d] = "unset"
                             /\ d \in Weekends => pg.weekends}

Grid == Open /\ ~pg.loading

-----------------------------------------------------------------------------
(* Clicks *)

GoTo(m) ==
    /\ Open /\ m # pg.month
    /\ Start("load", [m |-> m]) /\ UNCHANGED srv
    /\ pg' = [pg EXCEPT !.month = m, !.loading = TRUE]

(* The arrows; today is in the first month. *)
Turn(m) == m \in {0, pg.month - 1, pg.month + 1} /\ GoTo(m)

(* MonthYearPicker *)
PickMonth(m) == GoTo(m)

(* LeaveQuickPanel: a change of mode or of type drops the selection. *)
ChangePanel ==
    /\ Open
    /\ Click
    /\ \/ pg' = [pg EXCEPT !.batch = ~@, !.sel = {}]
       \/ pg' = [pg EXCEPT !.marking = ~@, !.sel = {}]
       \/ pg' = [pg EXCEPT !.sel = {}]

IncludeWeekends == Open /\ Click /\ pg' = [pg EXCEPT !.weekends = ~@]

(* handleDayClick: a tap selects, marks, or opens the dialog. *)
Select(d) ==
    /\ Grid /\ pg.marking /\ pg.batch
    /\ Click
    /\ pg' = [pg EXCEPT !.sel = (@ \ {d}) \cup ({d} \ @)]

QuickMark(d) ==
    /\ Grid /\ pg.marking /\ ~pg.batch
    /\ Start("quick", [d |-> d, was |-> pg.days[d], m |-> pg.month]) /\ UNCHANGED srv
    /\ pg' = [pg EXCEPT !.quick = d]

OpenDay(d) ==
    /\ Grid /\ ~pg.marking
    /\ Click
    /\ pg' = [pg EXCEPT !.dialog = [d |-> d, was |-> pg.days[d]]]

(* commitBatchSelection: one call at a time, in the order of the dates. *)
CommitBatch ==
    /\ Open /\ pg.marking /\ pg.batch /\ pg.sel # {} /\ "batch" \notin pg.saving
    /\ LET d == Min(pg.sel)
       IN  Start("batch", [d |-> d, left |-> pg.sel \ {d}, m |-> pg.month])
    /\ pg' = [pg EXCEPT !.saving = @ \cup {"batch"}]
    /\ UNCHANGED srv

(* autoFillRemaining: the same for the days without an entry. *)
AutoFill ==
    /\ Open /\ UnsetDates # {} /\ pg.fill = None
    /\ LET d == Min(UnsetDates)
       IN  Start("fill", [d |-> d, left |-> UnsetDates \ {d}, m |-> pg.month])
    /\ pg' = [pg EXCEPT !.fill = [done |-> 0, total |-> Cardinality(UnsetDates)]]
    /\ UNCHANGED srv

(* MarkDayModal.  Its buttons wait for each other, closing it waits for none. *)
DialogCall(h, kind) ==
    /\ pg.dialog # None /\ "dialog" \notin pg.saving
    /\ Start(h, [d |-> pg.dialog.d, kind |-> kind, m |-> pg.month])
    /\ pg' = [pg EXCEPT !.saving = @ \cup {"dialog"}]
    /\ UNCHANGED srv

SaveDay(kind) == DialogCall("save", kind)
DeleteDay == pg.dialog # None /\ pg.dialog.was # "unset" /\ DialogCall("delete", None)
ClearOverride == pg.dialog # None /\ pg.dialog.was = "pinned" /\ DialogCall("clear", None)
CloseDialog == pg.dialog # None /\ Local /\ pg' = [pg EXCEPT !.dialog = None]

PanelCall(h, a) ==
    /\ h \notin pg.saving
    /\ Start(h, a) /\ UNCHANGED srv
    /\ pg' = [pg EXCEPT !.saving = @ \cup {h}]

(* SkipReassignPanel *)
SkipReassign(d) == Open /\ PanelCall("skip", [d |-> d, m |-> pg.month])

(* BulkHolidayPanel *)
BulkMark(from, to) == Open /\ PanelCall("bulk", [from |-> from, to |-> to, m |-> pg.month])

(* AcademicYearsPanel *)
Manage == Grid /\ Click /\ pg' = [pg EXCEPT !.managing = TRUE]
CloseYears == pg.managing /\ Local /\ pg' = [pg EXCEPT !.managing = FALSE]
CreateYear(t) == pg.managing /\ PanelCall("year", [t |-> t])
CreateSemester(t) ==
    /\ pg.managing /\ t \in pg.years
    /\ Start("semester", [s |-> t]) /\ UNCHANGED <<srv, pg>>

-----------------------------------------------------------------------------
(* The server *)

(* get_range *)
Shown(m) == [d \in Dates |-> IF Month(d) = m THEN srv.days[d] ELSE "unset"]

ServeRead(j) ==
    /\ Sent(j, {"load", "years"})
    /\ UNCHANGED srv
    /\ Answer(j, "ok", IF j.h = "years" THEN srv.years ELSE Shown(j.a.m))

Marked(j, days) == srv' = [srv EXCEPT !.days = days] /\ Answer(j, "ok", None)
Refused(j) == UNCHANGED srv /\ Answer(j, "refused", None)

(* mark_day, whatever the date held *)
ServeMark(j) ==
    /\ Sent(j, {"quick", "batch", "fill", "save"})
    /\ Marked(j, [srv.days EXCEPT ![j.a.d] =
                     CASE j.h = "save" -> j.a.kind [] j.h = "fill" -> "working" [] OTHER -> "leave"])

(* delete_day, clear_override *)
ServeRelease(j) ==
    /\ Sent(j, {"delete", "clear"})
    /\ IF srv.days[j.a.d] = "unset" \/ (j.h = "clear" /\ srv.days[j.a.d] = "leave")
       THEN Refused(j)
       ELSE Marked(j, [srv.days EXCEPT ![j.a.d] = IF j.h = "delete" THEN "unset" ELSE "working"])

(* skip_day_order, reassign_day_order: not on a leave day *)
ServeSkip(j) ==
    /\ Sent(j, {"skip"})
    /\ IF srv.days[j.a.d] = "leave" THEN Refused(j)
       ELSE Marked(j, [srv.days EXCEPT ![j.a.d] = "pinned"])

(* bulk_mark_range *)
ServeBulk(j) ==
    /\ Sent(j, {"bulk"})
    /\ Marked(j, [d \in Dates |-> IF d \in j.a.from..j.a.to THEN "leave" ELSE srv.days[d]])

(* create_academic_year, create_semester: neither may overlap another. *)
ServeTerm(j) ==
    \/ /\ Sent(j, {"year"})
       /\ IF j.a.t \in srv.years THEN Refused(j)
          ELSE srv' = [srv EXCEPT !.years = @ \cup {j.a.t}] /\ Answer(j, "ok", None)
    \/ /\ Sent(j, {"semester"})
       /\ IF j.a.s \in srv.semesters THEN Refused(j)
          ELSE srv' = [srv EXCEPT !.semesters = @ \cup {j.a.s}] /\ Answer(j, "ok", None)

-----------------------------------------------------------------------------
(* After the await *)

(* Every load shows a spinner until any load is back. *)
Reload(j) == Job("load", [m |-> j.a.m])

(* load; the date of the address is opened when the spinner goes *)
OnLoad(j) ==
    /\ Back(j, {"load"})
    /\ Then(j, {})
    /\ LET days == IF j.res = "ok" THEN j.got ELSE pg.days
           jump == pg.jump # None /\ Month(pg.jump) = pg.month
       IN  pg' = [pg EXCEPT !.days = days, !.loading = FALSE,
                            !.jump = IF jump THEN None ELSE @,
                            !.dialog = IF jump THEN [d |-> pg.jump, was |-> days[pg.jump]] ELSE @]

(* A day that could not be marked opens in the dialog. *)
OnQuick(j) ==
    /\ Back(j, {"quick"})
    /\ Then(j, IF j.res = "ok" THEN {Reload(j)} ELSE {})
    /\ LET P == [pg EXCEPT !.quick = None]
       IN  pg' = IF j.res = "ok" THEN [P EXCEPT !.loading = TRUE]
                 ELSE [P EXCEPT !.dialog = [d |-> j.a.d, was |-> j.a.was]]

NextOf(j) == LET d == Min(j.a.left) IN Job(j.h, [j.a EXCEPT !.d = d, !.left = @ \ {d}])

OnBatch(j) ==
    /\ Back(j, {"batch"})
    /\ LET done == j.res = "ok" /\ j.a.left = {}
           over == [pg EXCEPT !.saving = @ \ {"batch"}]
       IN  /\ Then(j, CASE done -> {Reload(j)} [] j.res = "ok" /\ ~done -> {NextOf(j)} [] OTHER -> {})
           /\ pg' = CASE done -> [over EXCEPT !.sel = {}, !.loading = TRUE]
                      [] j.res = "ok" /\ ~done -> pg
                      [] OTHER -> over

(* Mutant: the count goes on after the last day of the list as seen now. *)
OnFillRecounts(j) ==
    /\ Back(j, {"fill"})
    /\ IF j.res = "ok" /\ j.a.left # {}
       THEN Then(j, {NextOf(j)}) /\ pg' = [pg EXCEPT !.fill = [done |-> @.done + 1, total |-> Cardinality(UnsetDates)]]
       ELSE Then(j, {Reload(j)}) /\ pg' = [pg EXCEPT !.fill = None, !.loading = TRUE]
OnFill(j) ==
    /\ Back(j, {"fill"})
    /\ IF j.res = "ok" /\ j.a.left # {}
       THEN Then(j, {NextOf(j)}) /\ pg' = [pg EXCEPT !.fill.done = @ + 1]
       ELSE Then(j, {Reload(j)}) /\ pg' = [pg EXCEPT !.fill = None, !.loading = TRUE]

(* onSaved, onClose: whichever dialog is open by now *)
OnDialog(j) ==
    /\ Back(j, {"save", "delete", "clear"})
    /\ Then(j, IF j.res = "ok" THEN {Reload(j)} ELSE {})
    /\ LET P == [pg EXCEPT !.saving = @ \ {"dialog"}]
       IN  pg' = IF j.res = "ok" THEN [P EXCEPT !.dialog = None, !.loading = TRUE] ELSE P

OnPanel(j) ==
    /\ Back(j, {"skip", "bulk"})
    /\ Then(j, IF j.res = "ok" THEN {Reload(j)} ELSE {})
    /\ pg' = [pg EXCEPT !.saving = @ \ {j.h}, !.loading = @ \/ j.res = "ok"]

OnYear(j) ==
    /\ Back(j, {"year"})
    /\ Then(j, IF j.res = "ok" THEN {Job("years", [all |-> TRUE])} ELSE {})
    /\ pg' = [pg EXCEPT !.saving = @ \ {"year"}]

OnTerms(j) ==
    /\ Back(j, {"years", "semester"})
    /\ Then(j, {})
    /\ pg' = IF j.h = "years" /\ j.res = "ok" THEN [pg EXCEPT !.years = j.got] ELSE pg

-----------------------------------------------------------------------------
Fresh == [month |-> 0, days |-> [d \in Dates |-> "unset"], loading |-> TRUE,
          marking |-> FALSE, batch |-> FALSE, sel |-> {}, weekends |-> FALSE,
          quick |-> None, saving |-> {}, fill |-> None, dialog |-> None,
          jump |-> None, managing |-> FALSE, years |-> srv.years]

(* The page just opened on the month of today, the first one, or on the date of the *)
(* address; or in use: a month loaded, and days selected or not.                    *)
Init ==
    /\ \E days \in [Dates -> {"unset", "leave"}], years \in SUBSET Terms :
          srv = [days |-> days, years |-> years, semesters |-> {}]
    /\ \/ \E jump \in Dates \cup {None} :
             LET m == IF jump = None THEN 0 ELSE Month(jump)
             IN  /\ pg = [Fresh EXCEPT !.month = m, !.jump = jump]
                 /\ jobs = {Job("load", [m |-> 0]), Job("load", [m |-> m])}
       \/ /\ \E m \in Months, marking, batch \in BOOLEAN, sel \in {{}, {1}, {1, LastDay}} :
                /\ sel # {} => batch
                /\ batch => marking
                /\ pg = [Fresh EXCEPT !.month = m, !.days = Shown(m), !.loading = FALSE,
                                      !.marking = marking, !.batch = batch, !.sel = sel]
          /\ jobs = {}
    /\ clicks = 0

Next ==
    \/ \E j \in jobs :
          \/ ServeRead(j) \/ ServeMark(j) \/ ServeRelease(j) \/ ServeSkip(j) \/ ServeBulk(j)
          \/ ServeTerm(j) \/ Fail(j)
          \/ OnLoad(j) \/ OnQuick(j) \/ OnBatch(j) \/ OnFill(j) \/ OnDialog(j) \/ OnPanel(j)
          \/ OnYear(j) \/ OnTerms(j)
    \/ \E m \in Months : Turn(m) \/ PickMonth(m)
    \/ \E d \in {e \in Dates : Month(e) = pg.month} : Select(d) \/ QuickMark(d) \/ OpenDay(d)
    \/ \E d \in Dates : SkipReassign(d)
    \/ \E to \in Dates : \E from \in 1..to : BulkMark(from, to)
    \/ \E kind \in {"working", "pinned", "leave"} : SaveDay(kind)
    \/ \E t \in Terms : CreateYear(t) \/ CreateSemester(t)
    \/ ChangePanel \/ IncludeWeekends \/ CommitBatch \/ AutoFill
    \/ DeleteDay \/ ClearOverride \/ CloseDialog \/ Manage \/ CloseYears

Spec == Init /\ [][Next]_vars

-----------------------------------------------------------------------------
(***************************************************************************)
(* "Filling day n of m": what is filled, what is under way and what is     *)
(* left are always the m days of the click, whatever is loaded, marked or  *)
(* shown meanwhile.                                                        *)
(***************************************************************************)
FillAddsUp ==
    pg.fill # None =>
        \E j \in jobs : j.h = "fill" /\ pg.fill.done + 1 + Cardinality(j.a.left) = pg.fill.total

(***************************************************************************)
(* Auto-fill only fills "every remaining unset day": a day marked as leave *)
(* becomes a working day only from its own dialog (AcademicCalendar.jsx,   *)
(* the comment of autoFillRemaining and the text of AutoFillPanel).  No    *)
(* run checks it: the page does not keep it (README, section 4).           *)
(***************************************************************************)
FillKeepsLeaveStep ==
    \A d \in Dates :
        srv.days[d] = "leave" /\ srv'.days[d] = "working" =>
            \E j \in jobs : Sent(j, {"save"}) /\ j.a.d = d
FillKeepsLeave == [][FillKeepsLeaveStep]_vars

(***************************************************************************)
(* The page never waits for nothing: the spinner, the day being marked,    *)
(* each panel that is saving and the progress of the auto-fill all have a  *)
(* handler that will come back.                                            *)
(***************************************************************************)
WaitingHasJob ==
    /\ pg.loading => InFlight({"load"})
    /\ pg.quick # None => InFlight({"quick"})
    /\ pg.fill # None => InFlight({"fill"})
    /\ "dialog" \in pg.saving => InFlight({"save", "delete", "clear"})
    /\ \A h \in pg.saving \ {"dialog"} : InFlight({h})
=============================================================================
