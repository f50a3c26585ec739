----------------------------- MODULE TodayBoard -----------------------------
(***************************************************************************)
(* The board of one day's substitutions (frontend/src/pages/common/        *)
(* TodaySubstitutions.jsx), as a department's administrator uses it: the   *)
(* dialogs that assign and change a substitute, and the run that assigns   *)
(* all of a day's uncovered periods one after the other.                   *)
(***************************************************************************)
EXTENDS PageJobs

CONSTANTS Leaves,    \* approved leaves, all in one period of their day
          Today,     \* those of today; the others are of the next day
          Subs, Home, \* teachers, and those of the administrator's department
          AtLimit    \* teachers at their limit of substitutions

BoardAssumption ==
    /\ Leaves \subseteq Nat /\ IsFiniteSet(Leaves) /\ Today \subseteq Leaves
    /\ Home \subseteq Subs /\ AtLimit \subseteq Subs
    /\ None \notin [done : Nat, total : Nat]

-----------------------------------------------------------------------------
(* The page *)

DayOf(l) == IF l \in Today THEN "today" ELSE "next"
OnDay(d) == {l \in Leaves : DayOf(l) = d}

NoBoard == [day |-> "none", rows |-> <<>>, past |-> FALSE]
Rows == DOMAIN pg.board.rows
Uncovered == {l \in Rows : pg.board.rows[l] = None}

(* The status tabs. *)
InTab(l) ==
    CASE pg.tab = "all"            -> TRUE
      [] pg.tab = "needs_coverage" -> l \in Uncovered
      [] pg.tab = "assigned"       -> l \notin Uncovered /\ ~pg.board.past
      [] pg.tab = "completed"      -> pg.board.past
(* The other filters let some rows through: those of a teacher, a class, a period, a source. *)
InView == {l \in Rows \cap pg.through : InTab(l)}

(* A dialog covers the table; while a day loads there is only a spinner. *)
Table == ~pg.loading /\ pg.assign = None /\ pg.override = None /\ ~pg.confirm
Call(h, a) == Start(h, a) /\ UNCHANGED srv

(* loadDashboard *)
Load(d) == Job("load", d)
DashboardLoad(d) == Call("load", d)

(* The date picker, the arrows and Today. *)
ChangeDate(d) ==
    /\ Table /\ d # pg.day
    /\ DashboardLoad(d)
    /\ pg' = [pg EXCEPT !.day = d, !.loading = TRUE]

(* The refresh button; the timer runs only while the day shown is today. *)
Refresh ==
    /\ \/ Table /\ ~pg.refreshing
       \/ pg.live /\ pg.day = "today"
    /\ Call("silent", pg.day)
    /\ pg' = [pg EXCEPT !.refreshing = TRUE]

ToggleLive == Table /\ pg.day = "today" /\ Click /\ pg' = [pg EXCEPT !.live = ~@]
SetTab(t) == Table /\ pg.tab # t /\ Click /\ pg' = [pg EXCEPT !.tab = t]

(* The filter bar, and the button and chips that empty it. *)
SetFilter(F) == Table /\ F # pg.through /\ Click /\ pg' = [pg EXCEPT !.through = F]
ResetFilters ==
    /\ Table /\ (pg.through # Leaves \/ pg.tab # "all")
    /\ Click
    /\ pg' = [pg EXCEPT !.through = Leaves, !.tab = "all"]

(* One slot says which action is under way; each handler's finally empties it. *)
OpenDialog(h, l) ==
    /\ Table /\ l \in InView /\ ~pg.board.past /\ pg.busy = None
    /\ IF h = "openAssign" THEN l \in Uncovered ELSE l \notin Uncovered
    /\ Call(h, [l |-> l, cur |-> pg.board.rows[l]])
    /\ pg' = [pg EXCEPT !.busy = [h |-> h, l |-> l], !.cross = FALSE, !.fetching = TRUE]

(* The switches of a dialog read the candidates of the first dialog there is. *)
ToggleFilter ==
    /\ pg.assign # None \/ pg.override # None
    /\ ~pg.loading /\ ~pg.fetching
    /\ \E cross \in BOOLEAN :
          /\ LET D == IF pg.assign # None THEN pg.assign ELSE pg.override
             IN  Call("filter", [l |-> D.l, cross |-> cross,
                                 assign |-> pg.assign # None, override |-> pg.override # None])
          /\ pg' = [pg EXCEPT !.cross = cross, !.fetching = TRUE]

CloseDialog ==
    /\ ~pg.loading
    /\ Local
    /\ \/ pg.assign # None   /\ pg' = [pg EXCEPT !.assign = None]
       \/ pg.override # None /\ pg' = [pg EXCEPT !.override = None]
       \/ pg.confirm         /\ pg' = [pg EXCEPT !.confirm = FALSE]

(* The list of candidates of dialog D, each with its button. *)
Offered(D, s) == ~pg.loading /\ D # None /\ s \in D.cand /\ pg.busy = None

(* handleAssignRecommended and handleAssignManual. *)
Assign(s) ==
    /\ Offered(pg.assign, s)
    /\ Call("assign", [l |-> pg.assign.l, s |-> s, cross |-> pg.cross, day |-> pg.day])
    /\ pg' = [pg EXCEPT !.busy = [h |-> "assign", l |-> None]]

Override(s) ==
    /\ Offered(pg.override, s) /\ s # pg.override.cur
    /\ Call("override", [l |-> pg.override.l, s |-> s, cross |-> pg.cross, day |-> pg.day])
    /\ pg' = [pg EXCEPT !.busy = [h |-> "override", l |-> None]]

(* Remove waits only for itself. *)
Undo(l) ==
    /\ Table /\ l \in InView \ Uncovered /\ ~pg.board.past
    /\ pg.busy # [h |-> "undo", l |-> l]
    /\ Call("undo", [l |-> l, day |-> pg.day])
    /\ pg' = [pg EXCEPT !.busy = [h |-> "undo", l |-> l]]

AskAutoAssign ==
    /\ Table /\ InView \cap Uncovered # {} /\ pg.auto = None
    /\ Click
    /\ pg' = [pg EXCEPT !.confirm = TRUE]

(* One period of a run; left are those after it. *)
AutoStep(T, ok, skip, day) ==
    LET l == CHOOSE x \in T : \A y \in T : x <= y
    IN  Job("recs", [l |-> l, left |-> T \ {l}, ok |-> ok, skip |-> skip, day |-> day])

(* runAutoAssignAll takes the uncovered periods in view when it is clicked. *)
RunAutoAssign ==
    /\ ~pg.loading /\ pg.confirm
    /\ LET targets == InView \cap Uncovered
       IN  IF targets = {}
           THEN Click /\ pg' = [pg EXCEPT !.confirm = FALSE]
           ELSE /\ clicks < MaxClicks /\ clicks' = clicks + 1
                /\ jobs' = jobs \cup {AutoStep(targets, 0, 0, pg.day)}
                /\ UNCHANGED srv
                /\ pg' = [pg EXCEPT !.confirm = FALSE, !.auto = [done |-> 0, total |-> Cardinality(targets)]]

-----------------------------------------------------------------------------
(* The server *)

Expired(l) == srv.past /\ l \in Today
Covering(s, d) == {l \in OnDay(d) : srv.sub[l] = s}
Within(cross) == IF cross THEN Subs ELSE Home

(* get_ranked_recommendations and get_free_teachers: who is free in the period. *)
Candidates(l, cross) == {s \in Within(cross) : Covering(s, DayOf(l)) = {}}

(* Mutant: whether the leave has a substitute already is not looked at. *)
AssignableAgain(l, s, cross) ==
    /\ ~Expired(l) /\ s \in Within(cross) \ AtLimit
    /\ Covering(s, DayOf(l)) \subseteq {l}
(* assign_substitute; the board never asks to exceed the limit. *)
Assignable(l, s, cross) ==
    /\ srv.sub[l] = None /\ ~Expired(l)
    /\ s \in Within(cross) \ AtLimit
    /\ Covering(s, DayOf(l)) = {}

ServeAssign(j) ==
    /\ Sent(j, {"assign", "autoAssign"})
    /\ IF Assignable(j.a.l, j.a.s, j.a.cross)
       THEN srv' = [srv EXCEPT !.sub[j.a.l] = j.a.s] /\ Answer(j, "ok", None)
       ELSE UNCHANGED srv /\ Answer(j, "refused", None)

ServeOverride(j) ==
    /\ Sent(j, {"override"})
    /\ IF /\ srv.sub[j.a.l] \notin {None, j.a.s} /\ ~Expired(j.a.l)
          /\ j.a.s \in Within(j.a.cross) \ AtLimit
          /\ Covering(j.a.s, DayOf(j.a.l)) = {}
       THEN srv' = [srv EXCEPT !.sub[j.a.l] = j.a.s] /\ Answer(j, "ok", None)
       ELSE UNCHANGED srv /\ Answer(j, "refused", None)

ServeUndo(j) ==
    /\ Sent(j, {"undo"})
    /\ IF srv.sub[j.a.l] # None /\ ~Expired(j.a.l)
       THEN srv' = [srv EXCEPT !.sub[j.a.l] = None] /\ Answer(j, "ok", None)
       ELSE UNCHANGED srv /\ Answer(j, "refused", None)

(* get_today_substitutions *)
ServeLoad(j) ==
    /\ Sent(j, {"load", "silent", "autoEnd"})
    /\ UNCHANGED srv
    /\ LET d == IF j.h = "autoEnd" THEN j.a.day ELSE j.a
       IN  Answer(j, "ok", [day |-> d, past |-> srv.past /\ d = "today",
                            rows |-> [l \in OnDay(d) |-> srv.sub[l]]])

ServeCandidates(j) ==
    /\ Sent(j, {"openAssign", "openOverride", "filter"})
    /\ UNCHANGED srv
    /\ Answer(j, "ok", Candidates(j.a.l, j.h = "filter" /\ j.a.cross))

(* The best of the recommendations, or none. *)
ServeRecs(j) ==
    /\ Sent(j, {"recs"})
    /\ UNCHANGED srv
    /\ LET free == Candidates(j.a.l, FALSE)
       IN  IF free = {} THEN Answer(j, "ok", None)
           ELSE \E best \in free : Answer(j, "ok", best)

(* The absent teacher, who manages their own substitutions, takes one. *)
CoverElsewhere(l, s) ==
    /\ Assignable(l, s, FALSE)
    /\ clicks < MaxClicks /\ clicks' = clicks + 1
    /\ srv' = [srv EXCEPT !.sub[l] = s]
    /\ UNCHANGED <<pg, jobs>>

(* Five in the afternoon. *)
CutOff == ~srv.past /\ srv' = [srv EXCEPT !.past = TRUE] /\ UNCHANGED <<pg, jobs, clicks>>

-----------------------------------------------------------------------------
(* After the await *)

(* The answer also sets the day that is shown. *)
OnLoaded(j) ==
    /\ Back(j, {"load", "silent", "autoEnd"})
    /\ Then(j, {})
    /\ LET P == [pg EXCEPT !.loading = FALSE, !.refreshing = FALSE]
       IN  pg' = IF j.res = "ok" THEN [P EXCEPT !.board = j.got, !.day = j.got.day] ELSE P

(* fetchCandidates answers two empty lists when it fails, and the dialog opens. *)
OnOpened(j) ==
    /\ Back(j, {"openAssign", "openOverride"})
    /\ Then(j, {})
    /\ LET D == [l |-> j.a.l, cand |-> IF j.res = "ok" THEN j.got ELSE {}, cur |-> j.a.cur]
           P == [pg EXCEPT !.busy = None, !.fetching = FALSE]
       IN  pg' = IF j.h = "openAssign" THEN [P EXCEPT !.assign = D] ELSE [P EXCEPT !.override = D]

(* The dialogs there were at the click, if they are still there, get the candidates. *)
OnFiltered(j) ==
    /\ Back(j, {"filter"})
    /\ Then(j, {})
    /\ LET cand == IF j.res = "ok" THEN j.got ELSE {}
           New(D, was) == IF was /\ D # None THEN [D EXCEPT !.cand = cand] ELSE D
       IN  pg' = [pg EXCEPT !.fetching = FALSE, !.assign = New(@, j.a.assign),
                            !.override = New(@, j.a.override)]

OnWritten(j) ==
    /\ Back(j, {"assign", "override", "undo"})
    /\ Then(j, IF j.res = "ok" THEN {Load(j.a.day)} ELSE {})
    /\ LET P == [pg EXCEPT !.busy = None]
       IN  pg' = CASE j.res # "ok" \/ j.h = "undo" -> P
                   [] j.res = "ok" /\ j.h = "assign" -> [P EXCEPT !.assign = None]
                   [] OTHER -> [P EXCEPT !.override = None]

(* A period of the run is over: the next one, or the board is read again. *)
AutoNext(j, ok, skip) ==
    /\ Then(j, IF j.a.left = {} THEN {Job("autoEnd", [ok |-> ok, skip |-> skip, day |-> j.a.day])}
               ELSE {AutoStep(j.a.left, ok, skip, j.a.day)})
    /\ pg' = IF j.a.left = {} THEN [pg EXCEPT !.auto = None, !.refreshing = TRUE]
             ELSE [pg EXCEPT !.auto.done = @ + 1]

OnRecommended(j) ==
    /\ Back(j, {"recs"}) /\ j.res = "ok" /\ j.got # None
    /\ Then(j, {Job("autoAssign", [l |-> j.a.l, left |-> j.a.left, ok |-> j.a.ok, skip |-> j.a.skip,
                                   day |-> j.a.day, s |-> j.got, cross |-> FALSE])})
    /\ UNCHANGED pg

(* Mutant: a period that nobody can cover does not count. *)
OnSkippedForgets(j) ==
    /\ \/ Back(j, {"recs"}) /\ (j.res = "failed" \/ j.got = None)
       \/ Back(j, {"autoAssign"}) /\ j.res # "ok"
    /\ AutoNext(j, j.a.ok, j.a.skip)
OnSkipped(j) ==
    /\ \/ Back(j, {"recs"}) /\ (j.res = "failed" \/ j.got = None)
       \/ Back(j, {"autoAssign"}) /\ j.res # "ok"
    /\ AutoNext(j, j.a.ok, j.a.skip + 1)

OnAutoAssigned(j) ==
    /\ Back(j, {"autoAssign"}) /\ j.res = "ok"
    /\ AutoNext(j, j.a.ok + 1, j.a.skip)

-----------------------------------------------------------------------------
Init ==
    /\ \E sub \in [Leaves -> Home \cup {None}] :
          /\ \A l, m \in Leaves : (l # m /\ DayOf(l) = DayOf(m)) => (sub[l] = None \/ sub[l] # sub[m])
          /\ srv = [sub |-> sub, past |-> FALSE]
    /\ pg = [day |-> "today", board |-> NoBoard, loading |-> TRUE, refreshing |-> FALSE, live |-> FALSE,
             tab |-> "all", through |-> Leaves, assign |-> None, override |-> None, busy |-> None, cross |-> FALSE,
             fetching |-> FALSE, confirm |-> FALSE, auto |-> None]
    /\ jobs = {Load("today")}
    /\ clicks = 0

Next ==
    \/ \E j \in jobs :
          \/ ServeAssign(j) \/ ServeOverride(j) \/ ServeUndo(j) \/ ServeLoad(j)
          \/ ServeCandidates(j) \/ ServeRecs(j) \/ Fail(j)
          \/ OnLoaded(j) \/ OnOpened(j) \/ OnFiltered(j) \/ OnWritten(j)
          \/ OnRecommended(j) \/ OnSkipped(j) \/ OnAutoAssigned(j)
    \/ \E d \in {"today", "next"} : ChangeDate(d)
    \/ \E t \in {"all", "needs_coverage", "assigned", "completed"} : SetTab(t)
    \/ \E F \in SUBSET Leaves : SetFilter(F)
    \/ ResetFilters
    \/ \E l \in Leaves : OpenDialog("openAssign", l) \/ OpenDialog("openOverride", l) \/ Undo(l)
    \/ \E s \in Subs : Assign(s) \/ Override(s)
    \/ Refresh \/ ToggleLive \/ ToggleFilter \/ CloseDialog \/ AskAutoAssign \/ RunAutoAssign
    \/ \E l \in Leaves, s \in Subs : CoverElsewhere(l, s)
    \/ CutOff

Spec == Init /\ [][Next]_vars

-----------------------------------------------------------------------------
(***************************************************************************)
(* A period that has a substitute keeps it, however stale the board and    *)
(* whatever else runs, until its administrator changes or removes the      *)
(* substitute of that very period.                                         *)
(***************************************************************************)
CoverKeptStep ==
    \A l \in Leaves : (srv.sub[l] # None /\ srv'.sub[l] # srv.sub[l]) =>
        \E j \in jobs : Sent(j, {"override", "undo"}) /\ j.a.l = l
CoverKept == [][CoverKeptStep]_vars

(***************************************************************************)
(* "Auto-assign all" takes every period it started with exactly once: what *)
(* it assigned, what it skipped and what is left always add up to what the *)
(* progress bar says, also when calls of the run fail half-way.            *)
(***************************************************************************)
RunAddsUp ==
    /\ pg.auto # None <=> InFlight({"recs", "autoAssign"})
    /\ \A j \in jobs : j.h \in {"recs", "autoAssign"} =>
          /\ j.a.ok + j.a.skip = pg.auto.done
          /\ pg.auto.done + Cardinality(j.a.left) + 1 = pg.auto.total

(***************************************************************************)
(* The page never waits for nothing: the spinner and the buttons that are  *)
(* disabled have a handler that will come back.                            *)
(***************************************************************************)
WaitingHasJob ==
    /\ pg.loading => InFlight({"load"})
    /\ pg.refreshing => InFlight({"silent", "autoEnd"})
    /\ pg.fetching => InFlight({"openAssign", "openOverride", "filter"})
    /\ pg.busy # None => InFlight({pg.busy.h})
=============================================================================
