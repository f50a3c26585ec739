------------------------------ MODULE MyLeaves ------------------------------
(***************************************************************************)
(* A teacher asks for leave and looks after it: the form                   *)
(* (frontend/src/pages/teacher/ApplyLeave.jsx), the history                *)
(* (LeaveHistory.jsx), and any other page.  Going to a page mounts it      *)
(* anew; what the page that was left awaited finds nobody (a.on), but the  *)
(* timer that follows a request goes off wherever the teacher is.          *)
(***************************************************************************)
EXTENDS PageJobs

CONSTANTS LastDate,   \* bound: dates are 1..LastDate, today is 1 at first
          Periods,
          Scheduled,  \* the teacher's periods on the timetable of any day
          MaxLeaves   \* bound: periods of leave ever asked for

LeaveAssumption ==
    /\ LastDate \in Nat \ {0, 1} /\ MaxLeaves \in Nat
    /\ Periods \subseteq Nat /\ IsFiniteSet(Periods) /\ Scheduled \subseteq Periods

Dates == 1 .. LastDate
Live == {"pending", "approved"}

(* Rows: what the server keeps of a period of leave, with its id. *)
Ids == DOMAIN srv.leaves
Row(i) == [id |-> i, date |-> srv.leaves[i].date, per |-> srv.leaves[i].per, st |-> srv.leaves[i].st]

-----------------------------------------------------------------------------
(* The pages *)

Fresh(p) ==
    [page |-> p, loading |-> p = "history",
     form |-> [date |-> srv.today + 1, whole |-> TRUE, per |-> {}],
     info |-> None, checking |-> p = "apply", success |-> None,
     rows |-> {}, filter |-> "all", detail |-> None, policy |-> FALSE, cancel |-> None, acting |-> None]

Resolve(d) == Job("resolve", [on |-> TRUE, date |-> d])
Load == Job("load", [on |-> TRUE])
Mounted(p) == CASE p = "apply"   -> {Resolve(srv.today + 1)}
                [] p = "history" -> {Load}
                [] p = "other"   -> {}

(* A page that is left stays in its handlers only. *)
Enter(p, J) ==
    IF p = pg.page THEN UNCHANGED pg /\ jobs' = J
    ELSE pg' = Fresh(p) /\ jobs' = {[j EXCEPT !.a.on = FALSE] : j \in J} \cup Mounted(p)

Goto(p) ==
    /\ p # pg.page /\ clicks < MaxClicks /\ clicks' = clicks + 1
    /\ UNCHANGED srv /\ Enter(p, jobs)

(* The form; the page of a success replaces it. *)
Form == pg.page = "apply" /\ pg.success = None
Blocked == pg.info # None /\ pg.info.blocked

SetDate(d) ==
    /\ Form /\ d # pg.form.date /\ d >= srv.today
    /\ Start("resolve", [on |-> TRUE, date |-> d])
    /\ UNCHANGED srv /\ pg' = [pg EXCEPT !.form.date = d, !.checking = TRUE]

SetMode(whole) ==
    /\ Form /\ whole # pg.form.whole /\ Click
    /\ pg' = [pg EXCEPT !.form.whole = whole, !.form.per = IF whole THEN {} ELSE @]

SetPeriods(S) ==
    /\ Form /\ ~pg.form.whole /\ S # pg.form.per /\ Click
    /\ pg' = [pg EXCEPT !.form.per = S]

(* One period goes by itself, several as a batch: the server does the same. *)
HandleSubmit ==
    /\ Form /\ ~pg.loading /\ ~Blocked
    /\ pg.form.whole \/ pg.form.per # {}
    /\ Start("apply", [on |-> TRUE, form |-> pg.form, day |-> IF pg.info = None THEN None ELSE pg.info.date])
    /\ UNCHANGED srv /\ pg' = [pg EXCEPT !.loading = TRUE]

(* The history: rows of the same day and status stand together. *)
History == pg.page = "history"
Listed == {r \in pg.rows : pg.filter \in {"all", r.st}}
DayGroup(r) == {x \in Listed : x.date = r.date /\ x.st = r.st}
Plain == History /\ ~pg.loading /\ pg.detail = None /\ pg.cancel = None /\ ~pg.policy

(* getCancelability: of the row as it was read, by the clock of now. *)
Cancelable(r) == r.st \in Live /\ r.date >= srv.today /\ (r.date = srv.today => ~srv.late)
First(S) == CHOOSE r \in S : \A x \in S : r.per <= x.per

Filters == {"all", "pending", "approved", "rejected", "cancelled"}
SetFilter(f) == Plain /\ f # pg.filter /\ Click /\ pg' = [pg EXCEPT !.filter = f]
ViewDetail(r) ==
    /\ Plain \/ (History /\ pg.detail # None /\ pg.cancel = None /\ r.date = pg.detail.date)
    /\ r \in pg.rows /\ r # pg.detail /\ Click
    /\ pg' = [pg EXCEPT !.detail = r]

AskCancel(r) ==
    LET may == {x \in DayGroup(r) : Cancelable(x)}
    IN  /\ Plain /\ pg.acting = None /\ r \in Listed /\ may # {} /\ Click
        /\ pg' = [pg EXCEPT !.cancel = First(may)]
AskCancelOfDetail ==
    /\ History /\ pg.detail # None /\ Cancelable(pg.detail) /\ Click
    /\ pg' = [pg EXCEPT !.cancel = pg.detail, !.detail = None]
ShowPolicy(r) ==
    /\ Plain /\ r \in Listed /\ r.st \in Live /\ \A x \in DayGroup(r) : ~Cancelable(x)
    /\ Click /\ pg' = [pg EXCEPT !.policy = TRUE]
CloseDialog ==
    /\ pg.detail # None \/ pg.cancel # None \/ pg.policy
    /\ Local /\ pg' = [pg EXCEPT !.detail = None, !.cancel = None, !.policy = FALSE]

HandleCancel ==
    /\ History /\ pg.cancel # None /\ pg.acting = None
    /\ Start("cancel", [on |-> TRUE, id |-> pg.cancel.id])
    /\ UNCHANGED srv /\ pg' = [pg EXCEPT !.acting = pg.cancel.id]

-----------------------------------------------------------------------------
(* The server *)

ServeResolve(j) ==
    /\ Sent(j, {"resolve"})
    /\ UNCHANGED srv /\ Answer(j, "ok", [date |-> j.a.date, blocked |-> j.a.date \in srv.blocked])

ServeLoad(j) ==
    /\ Sent(j, {"load"})
    /\ UNCHANGED srv /\ Answer(j, "ok", [rows |-> {Row(i) : i \in Ids}])

Asked(f) == IF f.whole THEN Scheduled ELSE f.per
Taken(f, p) == \E i \in Ids : srv.leaves[i].date = f.date /\ srv.leaves[i].per = p /\ srv.leaves[i].st \in Live
Acceptable(f) == f.date \notin srv.blocked /\ Asked(f) # {} /\ \A p \in Asked(f) : ~Taken(f, p)

(* The periods of a batch are filed in their order. *)
Nth(S, i) == CHOOSE p \in S : Cardinality({q \in S : q <= p}) = i

(* submit_leave, submit_leave_batch: all the periods, or none of them. *)
ServeApply(j) ==
    /\ Sent(j, {"apply"})
    /\ LET f == j.a.form
           n == Cardinality(Asked(f))
           k == Cardinality(Ids)
           st == IF srv.auto THEN "approved" ELSE "pending"
       IN  IF ~Acceptable(f) THEN UNCHANGED srv /\ Answer(j, "refused", None)
           ELSE /\ k + n <= MaxLeaves
                /\ srv' = [srv EXCEPT !.leaves = [i \in 1 .. k + n |->
                              IF i <= k THEN @[i] ELSE [date |-> f.date, per |-> Nth(Asked(f), i - k), st |-> st]]]
                /\ Answer(j, "ok", None)

(* cancel_leave_by_teacher; what becomes of the cover is LeaveTxn's. *)
ServeCancel(j) ==
    /\ Sent(j, {"cancel"})
    /\ IF Cancelable(Row(j.a.id))
       THEN srv' = [srv EXCEPT !.leaves[j.a.id].st = "cancelled"] /\ Answer(j, "ok", None)
       ELSE UNCHANGED srv /\ Answer(j, "refused", None)

(* The administrator decides or sets the calendar and the mode; ten o'clock; midnight. *)
Elsewhere ==
    /\ clicks < MaxClicks /\ clicks' = clicks + 1
    /\ UNCHANGED <<pg, jobs>>
    /\ \/ \E i \in Ids, st \in {"approved", "rejected"} :
             srv.leaves[i].st = "pending" /\ srv' = [srv EXCEPT !.leaves[i].st = st]
       \/ \E d \in Dates \ srv.blocked : d >= srv.today /\ srv' = [srv EXCEPT !.blocked = @ \cup {d}]
       \/ srv' = [srv EXCEPT !.auto = ~@]
       \/ ~srv.late /\ srv' = [srv EXCEPT !.late = TRUE]
       \/ srv.late /\ srv.today + 1 < LastDate /\ srv' = [srv EXCEPT !.late = FALSE, !.today = @ + 1]

-----------------------------------------------------------------------------
(* After the await *)

(* Of a page that was left nothing is seen, except that an accepted request sets its timer. *)
OnLeft(j) ==
    /\ Back(j, {"resolve", "load", "apply", "cancel"}) /\ ~j.a.on
    /\ Then(j, IF j.h = "apply" /\ j.res = "ok" THEN {Job("redirect", [on |-> FALSE])} ELSE {})
    /\ UNCHANGED pg

(* The answer fills the form of now, whatever date it is about. *)
OnResolved(j) ==
    /\ Back(j, {"resolve"}) /\ j.a.on
    /\ Then(j, {})
    /\ pg' = [pg EXCEPT !.checking = FALSE, !.info = j.got]

OnLoaded(j) ==
    /\ Back(j, {"load"}) /\ j.a.on
    /\ Then(j, {})
    /\ pg' = [pg EXCEPT !.loading = FALSE, !.rows = IF j.res = "ok" THEN j.got.rows ELSE @]

Succeed(j, f) ==
    /\ Back(j, {"apply"}) /\ j.a.on /\ j.res = "ok"
    /\ Then(j, {Job("redirect", [on |-> FALSE])})
    /\ pg' = [pg EXCEPT !.loading = FALSE, !.success = [form |-> f, day |-> j.a.day]]
(* Mutant: the page shows the form of now, not the one that was sent. *)
OnAppliedOfNow(j) == Succeed(j, pg.form)
OnApplied(j) == Succeed(j, j.a.form)

OnApplyFailed(j) ==
    /\ Back(j, {"apply"}) /\ j.a.on /\ j.res # "ok"
    /\ Then(j, {})
    /\ pg' = [pg EXCEPT !.loading = FALSE]

(* setTimeout(() => navigate('/teacher/leaves')): nothing clears it. *)
Redirect(j) ==
    /\ j.h = "redirect"
    /\ UNCHANGED <<srv, clicks>> /\ Enter("history", jobs \ {j})

(* The dialog of now closes; the list is read again. *)
OnCancelled(j) ==
    /\ Back(j, {"cancel"}) /\ j.a.on
    /\ IF j.res = "ok" THEN /\ Then(j, {Load})
                            /\ pg' = [pg EXCEPT !.cancel = None, !.loading = TRUE, !.acting = None]
       ELSE Then(j, {}) /\ pg' = [pg EXCEPT !.acting = None]

-----------------------------------------------------------------------------
Init ==
    /\ srv = [leaves |-> <<>>, blocked |-> {}, auto |-> FALSE, late |-> FALSE, today |-> 1]
    /\ pg = Fresh("apply")
    /\ jobs = Mounted("apply")
    /\ clicks = 0

Next ==
    \/ \E j \in jobs :
          \/ ServeResolve(j) \/ ServeLoad(j) \/ ServeApply(j) \/ ServeCancel(j)
          \/ j.h # "redirect" /\ Fail(j)
          \/ OnLeft(j) \/ OnResolved(j) \/ OnLoaded(j) \/ OnApplied(j) \/ OnApplyFailed(j)
          \/ Redirect(j) \/ OnCancelled(j)
    \/ \E p \in {"apply", "history", "other"} : Goto(p)
    \/ \E d \in Dates : SetDate(d)
    \/ \E w \in BOOLEAN : SetMode(w)
    \/ \E S \in SUBSET Periods : SetPeriods(S)
    \/ \E f \in Filters : SetFilter(f)
    \/ \E r \in pg.rows : ViewDetail(r) \/ AskCancel(r) \/ ShowPolicy(r)
    \/ HandleSubmit \/ AskCancelOfDetail \/ CloseDialog \/ HandleCancel
    \/ Elsewhere

Spec == Init /\ [][Next]_vars

-----------------------------------------------------------------------------
(***************************************************************************)
(* "Your leave request has been recorded successfully": the day and every  *)
(* period the page says so of are on record, whatever was changed in the   *)
(* form while the request was under way.                                   *)
(***************************************************************************)
SuccessRecorded ==
    pg.success # None =>
        \A p \in Asked(pg.success.form) :
            \E i \in Ids : srv.leaves[i].date = pg.success.form.date /\ srv.leaves[i].per = p

(***************************************************************************)
(* The Day Order of the page of a success, and what blocks the form, is    *)
(* that of its date.  No run checks it: the page does not keep it          *)
(* (README, section 4).                                                    *)
(***************************************************************************)
InfoOfDate ==
    /\ pg.success # None => pg.success.day \in {None, pg.success.form.date}
    /\ (Form /\ ~pg.checking /\ pg.info # None) => pg.info.date = pg.form.date

(***************************************************************************)
(* The page never waits for nothing: the spinners and the disabled buttons *)
(* have a call that will come back.                                        *)
(***************************************************************************)
Awaits(H) == \E j \in jobs : j.h \in H /\ j.a.on
WaitingHasJob ==
    /\ pg.loading => Awaits(IF pg.page = "apply" THEN {"apply"} ELSE {"load"})
    /\ pg.checking => Awaits({"resolve"})
    /\ pg.acting # None => Awaits({"cancel"})
=============================================================================
