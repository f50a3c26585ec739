----------------------------- MODULE SelfCover -----------------------------
(***************************************************************************)
(* A teacher's own substitutions (frontend/src/pages/teacher/              *)
(* Substitution.jsx): one teacher lists the periods of leave, assigns and  *)
(* changes their substitutes, and clears them all.  Others meanwhile       *)
(* decide the leaves, cover them and switch the mode off.                  *)
(***************************************************************************)
EXTENDS PageJobs

CONSTANTS Leaves,     \* the teacher's periods of leave, no two at the same time
          Subs, Home, \* the other teachers, and those of the same department
          AtLimit     \* teachers at their limit of substitutions

CoverAssumption == Home \subseteq Subs /\ AtLimit \subseteq Subs

-----------------------------------------------------------------------------
(* The page *)

NeedsRows == pg.needs
CoverRows == pg.covered
PastRows  == pg.past
Rows == CASE pg.tab = "needs-cover"     -> NeedsRows
          [] pg.tab = "assigned-cover"  -> CoverRows
          [] pg.tab = "completed-cover" -> PastRows

(* The boundary at the root replaces a page that does not render. *)
Shown == ~pg.loading /\ pg.enabled /\ ~pg.crashed
(* The two confirmations, the candidates and the warning each cover the page. *)
Plain == Shown /\ pg.modal = None /\ pg.warn = None /\ ~pg.askClear /\ ~pg.askReset

(* loadData asks for the mode first, then for both lists at once; who awaits it. *)
LoadData(who) == Job("enabled", [who |-> who])
LoadLists(who) == [Job("lists", [who |-> who]) EXCEPT !.got = [needs |-> None, all |-> None]]

SetTab(t) == Plain /\ t # pg.tab /\ Click /\ pg' = [pg EXCEPT !.tab = t]

OpenAssignModal(l) ==
    /\ Plain /\ pg.busy = None /\ l \in Rows \ PastRows
    /\ Start("open", [l |-> l, override |-> pg.tab = "assigned-cover"])
    /\ UNCHANGED srv
    /\ pg' = [pg EXCEPT !.busy = "open", !.cross = FALSE]

(* The switches; a change of department also reads the candidates again. *)
ApplyFilters ==
    /\ Shown /\ pg.modal # None /\ pg.warn = None
    /\ \E cross \in BOOLEAN :
          /\ cross = pg.cross \/ pg.busy # "filter"
          /\ Start("filter", [l |-> pg.modal.l, cross |-> cross])
          /\ pg' = [pg EXCEPT !.busy = "filter", !.cross = cross]
    /\ UNCHANGED srv

CloseModal == Shown /\ pg.modal # None /\ pg.warn = None /\ Local /\ pg' = [pg EXCEPT !.modal = None]
CancelWarning == Shown /\ pg.warn # None /\ pg.busy # "assign" /\ Local /\ pg' = [pg EXCEPT !.warn = None]

(* The row of a candidate; the open dialog says which leave, else the warning. *)
Send(s, force) ==
    LET D == IF pg.modal # None THEN pg.modal ELSE pg.warn
    IN  /\ pg.busy # "assign"
        /\ Start("assign", [l |-> D.l, s |-> s, override |-> D.override, force |-> force])
        /\ UNCHANGED srv
        /\ pg' = [pg EXCEPT !.busy = "assign"]

(* The list of candidates; the warning covers it. *)
Offered(s) == Shown /\ pg.warn = None /\ pg.modal # None /\ s \in pg.modal.cand

(* Mutant: the warning is acknowledged in advance. *)
AssignSubstituteForced(s) == Offered(s) /\ Send(s, TRUE)
AssignSubstitute(s) == Offered(s) /\ Send(s, FALSE)
AssignAnyway == Shown /\ pg.warn # None /\ Send(pg.warn.s, TRUE)

AskClear == Plain /\ CoverRows # {} /\ Click /\ pg' = [pg EXCEPT !.askClear = TRUE]
AskReset == Plain /\ Click /\ pg' = [pg EXCEPT !.askReset = TRUE]
CancelAsk ==
    /\ Shown /\ (pg.askClear \/ pg.askReset) /\ Local
    /\ pg' = [pg EXCEPT !.askClear = FALSE, !.askReset = FALSE]

ClearAllAssignments ==
    /\ Shown /\ pg.askClear /\ pg.busy # "clear_all"
    /\ Start("clear_all", None) /\ UNCHANGED srv
    /\ pg' = [pg EXCEPT !.busy = "clear_all"]

ResetPreferences ==
    /\ Shown /\ pg.askReset /\ pg.busy # "reset_prefs"
    /\ Start("reset_prefs", None) /\ UNCHANGED srv
    /\ pg' = [pg EXCEPT !.busy = "reset_prefs"]

-----------------------------------------------------------------------------
(* The server *)

Expired(l) == l \in srv.past
Covered == {l \in Leaves : srv.sub[l] # None}

ServeEnabled(j) ==
    /\ Sent(j, {"enabled"})
    /\ UNCHANGED srv /\ Answer(j, "ok", [on |-> srv.allowed])

(* teacher_get_leave_requests, and the teacher's leaves of get_my_leaves: two calls. *)
ServeMyLeaves(j) ==
    /\ Sent(j, {"lists"}) /\ j.got.needs = None /\ srv.allowed
    /\ UNCHANGED srv
    /\ Answer(j, IF j.got.all = None THEN "sent" ELSE "ok",
              [j.got EXCEPT !.needs = {l \in Leaves \ Covered : ~Expired(l)}])

ServeAllLeaves(j) ==
    /\ Sent(j, {"lists"}) /\ j.got.all = None
    /\ UNCHANGED srv
    /\ LET approved == Leaves \ srv.pending
       IN  Answer(j, IF j.got.needs = None THEN "sent" ELSE "ok",
                  [j.got EXCEPT !.all = [covered |-> {l \in approved \cap Covered : ~Expired(l)},
                                         past    |-> approved \cap srv.past]])

(* teacher_get_candidates and teacher_get_free_teachers *)
ServeCandidates(j) ==
    /\ Sent(j, {"open", "filter"}) /\ srv.allowed
    /\ UNCHANGED srv
    /\ IF Expired(j.a.l) THEN Answer(j, "refused", None)
       ELSE LET within == IF j.h = "filter" /\ j.a.cross THEN Subs ELSE Home
            IN  Answer(j, "ok", [cand |-> within \ {srv.sub[j.a.l]}])

(* teacher_assign_substitute and teacher_override_substitute, with what they call. *)
Eligible(a) ==
    /\ ~Expired(a.l) /\ a.s # srv.sub[a.l]
    /\ IF a.override THEN a.l \in Covered \ srv.locked ELSE a.l \notin Covered \cup srv.pending

ServeAssign(j) ==
    /\ Sent(j, {"assign"}) /\ srv.allowed
    /\ CASE ~Eligible(j.a) -> UNCHANGED srv /\ Answer(j, "refused", None)
         [] Eligible(j.a) /\ j.a.s \in AtLimit /\ ~j.a.force -> UNCHANGED srv /\ Answer(j, "limit", None)
         [] OTHER -> srv' = [srv EXCEPT !.sub[j.a.l] = j.a.s] /\ Answer(j, "ok", None)

(* teacher_clear_assignments: neither the cutoff nor the lock is looked at. *)
ServeClearAll(j) ==
    /\ Sent(j, {"clear_all"}) /\ srv.allowed
    /\ srv' = [srv EXCEPT !.sub = [l \in Leaves |-> IF l \in srv.pending THEN @[l] ELSE None], !.locked = {}]
    /\ Answer(j, "ok", None)

ServeReset(j) ==
    /\ Sent(j, {"reset_prefs"}) /\ srv.allowed
    /\ srv' = [srv EXCEPT !.prefs = "default"]
    /\ Answer(j, "ok", None)

(* check_teacher_self_management_allowed, first in every one of these calls. *)
ServeNotAllowed(j) ==
    /\ Sent(j, {"lists", "open", "filter", "assign", "clear_all", "reset_prefs"})
    /\ ~srv.allowed /\ (j.h = "lists" => j.got.needs = None)
    /\ UNCHANGED srv /\ Answer(j, "refused", None)

(* The administrator switches the mode, approves a leave, covers or locks a period; five o'clock. *)
Elsewhere ==
    /\ clicks < MaxClicks /\ clicks' = clicks + 1
    /\ UNCHANGED <<pg, jobs>>
    /\ \/ srv' = [srv EXCEPT !.allowed = ~@]
       \/ \E l \in Leaves :
             \/ l \in srv.pending /\ srv' = [srv EXCEPT !.pending = @ \ {l}]
             \/ l \notin srv.past /\ srv' = [srv EXCEPT !.past = @ \cup {l}]
             \/ /\ l \notin Covered \cup srv.pending \cup srv.past
                /\ \E s \in Home \ AtLimit : srv' = [srv EXCEPT !.sub[l] = s]
             \/ l \in Covered \ (srv.locked \cup srv.past) /\ srv' = [srv EXCEPT !.locked = @ \cup {l}]

-----------------------------------------------------------------------------
(* After the await *)

(* The end of loadData and of the handler that awaited it. *)
Loaded(P, who) == [P EXCEPT !.loading = FALSE, !.busy = IF who = "mount" THEN @ ELSE None]

OnEnabled(j) ==
    /\ Back(j, {"enabled"})
    /\ LET P == IF j.res = "ok" THEN [pg EXCEPT !.enabled = j.got.on] ELSE pg
       IN  IF j.res = "ok" /\ j.got.on
           THEN Then(j, {LoadLists(j.a.who)}) /\ pg' = P
           ELSE Then(j, {}) /\ pg' = Loaded(P, j.a.who)

OnLists(j) ==
    /\ Back(j, {"lists"})
    /\ Then(j, {})
    /\ pg' = Loaded(IF j.res # "ok" THEN pg
                    ELSE [pg EXCEPT !.needs = j.got.needs, !.covered = j.got.all.covered,
                                    !.past = j.got.all.past], j.a.who)

OnOpened(j) ==
    /\ Back(j, {"open"})
    /\ Then(j, {})
    /\ pg' = [pg EXCEPT !.busy = None,
                        !.modal = IF j.res = "ok" THEN [l |-> j.a.l, override |-> j.a.override, cand |-> j.got.cand]
                                  ELSE @]

(* The dialog of now gets the candidates; one that was closed has no leave to show. *)
OnFiltered(j) ==
    /\ Back(j, {"filter"})
    /\ Then(j, {})
    /\ LET P == [pg EXCEPT !.busy = None]
       IN  pg' = CASE j.res # "ok" -> P
                   [] j.res = "ok" /\ pg.modal = None -> [P EXCEPT !.crashed = TRUE]
                   [] OTHER -> [P EXCEPT !.modal.cand = j.got.cand]

OnAssigned(j) ==
    /\ Back(j, {"assign"}) /\ j.res = "ok"
    /\ Then(j, {LoadData("assign")})
    /\ pg' = [pg EXCEPT !.warn = None, !.modal = None]

(* warned remembers which warnings there have been; only LimitAsked reads it. *)
OnLimit(j) ==
    /\ Back(j, {"assign"}) /\ j.res = "limit"
    /\ Then(j, {})
    /\ pg' = [pg EXCEPT !.busy = None, !.warned = @ \cup {j.a.s},
                        !.warn = [l |-> j.a.l, s |-> j.a.s, override |-> j.a.override]]

OnDone(j) ==
    /\ Back(j, {"clear_all", "reset_prefs"}) /\ j.res = "ok"
    /\ Then(j, {LoadData(j.h)})
    /\ pg' = IF j.h = "clear_all" THEN [pg EXCEPT !.askClear = FALSE] ELSE [pg EXCEPT !.askReset = FALSE]

(* Mutant: nothing empties the slot after an error. *)
OnErrorStaysBusy(j) ==
    /\ Back(j, {"assign", "clear_all", "reset_prefs"}) /\ j.res \in {"refused", "failed"}
    /\ Then(j, {}) /\ UNCHANGED pg
OnError(j) ==
    /\ Back(j, {"assign", "clear_all", "reset_prefs"}) /\ j.res \in {"refused", "failed"}
    /\ Then(j, {})
    /\ pg' = [pg EXCEPT !.busy = None]

-----------------------------------------------------------------------------
Init ==
    /\ \E sub \in [Leaves -> Home \cup {None}], past, pending, locked \in SUBSET Leaves :
          /\ \A l \in Leaves : sub[l] = None => l \notin locked
          /\ \A l \in pending : sub[l] = None
          /\ srv = [allowed |-> TRUE, sub |-> sub, past |-> past, pending |-> pending,
                    locked |-> locked, prefs |-> "own"]
    /\ pg = [loading |-> TRUE, enabled |-> FALSE, crashed |-> FALSE, tab |-> "needs-cover",
             needs |-> {}, covered |-> {}, past |-> {}, modal |-> None, warn |-> None, warned |-> {},
             askClear |-> FALSE, askReset |-> FALSE, busy |-> None, cross |-> FALSE]
    /\ jobs = {LoadData("mount")}
    /\ clicks = 0

Next ==
    \/ \E j \in jobs :
          \/ ServeEnabled(j) \/ ServeMyLeaves(j) \/ ServeAllLeaves(j) \/ ServeCandidates(j)
          \/ ServeAssign(j) \/ ServeClearAll(j) \/ ServeReset(j) \/ ServeNotAllowed(j) \/ Fail(j)
          \/ OnEnabled(j) \/ OnLists(j) \/ OnOpened(j) \/ OnFiltered(j) \/ OnAssigned(j)
          \/ OnLimit(j) \/ OnDone(j) \/ OnError(j)
    \/ \E t \in {"needs-cover", "assigned-cover", "completed-cover"} : SetTab(t)
    \/ \E l \in Leaves : OpenAssignModal(l)
    \/ \E s \in Subs : AssignSubstitute(s)
    \/ ApplyFilters \/ CloseModal \/ CancelWarning \/ AssignAnyway
    \/ AskClear \/ AskReset \/ CancelAsk \/ ClearAllAssignments \/ ResetPreferences
    \/ Elsewhere

Spec == Init /\ [][Next]_vars

-----------------------------------------------------------------------------
(***************************************************************************)
(* A teacher who is at the limit is made a substitute only after the page  *)
(* has warned of that very teacher, whatever dialogs were closed and       *)
(* opened while the calls were under way.                                  *)
(***************************************************************************)
LimitAskedStep ==
    \A j \in jobs : \A l \in Leaves :
        (Sent(j, {"assign"}) /\ j \notin jobs' /\ srv'.sub[l] # srv.sub[l] /\ srv'.sub[l] \in AtLimit)
        => srv'.sub[l] \in pg.warned
LimitAsked == [][LimitAskedStep]_vars

(***************************************************************************)
(* What is over stands: the substitute of a period is not changed after    *)
(* the cutoff ("Cannot modify an expired substitution").  Clear All does.  *)
(***************************************************************************)
PastCoverStandsStep ==
    \A l \in Leaves : (l \in srv.past /\ srv.sub[l] # None) => srv'.sub[l] = srv.sub[l]
PastCoverStands == [][PastCoverStandsStep]_vars

(***************************************************************************)
(* The dialog of candidates has a leave; else the page does not render.    *)
(* No run checks it: the page does not keep it (README, section 4).        *)
(***************************************************************************)
DialogHasLeave == ~pg.crashed

(***************************************************************************)
(* The page never waits for nothing: the spinner and the buttons that are  *)
(* disabled have a handler that will come back.                            *)
(***************************************************************************)
WaitingHasJob ==
    /\ pg.loading => InFlight({"enabled", "lists"})
    /\ pg.busy # None => \E j \in jobs : pg.busy \in {j.h, IF j.h \in {"enabled", "lists"} THEN j.a.who ELSE None}
=============================================================================
