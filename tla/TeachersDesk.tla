---------------------------- MODULE TeachersDesk ----------------------------
(***************************************************************************)
(* The list of teachers (frontend/src/pages/admin/Teachers.jsx) and the    *)
(* requests behind it (routes/teachers.py, auth_service.py and the         *)
(* preferences of routes/campus_operations.py).  A teacher is a number,    *)
(* never used twice.  Names and addresses are left out: whether an address *)
(* is taken is left open.  Of the preferences one is kept: whether the     *)
(* teacher accepts automatic assignments.                                  *)
(***************************************************************************)
EXTENDS PageJobs

CONSTANTS Employed,    \* the teachers at the start: 1..Employed
          MaxTeachers  \* bound: teachers ever employed

TeachersAssumption == Employed \in Nat /\ MaxTeachers \in Nat /\ Employed <= MaxTeachers

(* srv.active: the account flag of every teacher there is; srv.accepts: the preference. *)
Without(f, t) == [u \in DOMAIN f \ {t} |-> f[u]]
With(f, new, v) == [u \in DOMAIN f \cup new |-> IF u \in new THEN v ELSE f[u]]

-----------------------------------------------------------------------------
(* The list, its filters and the ticked rows *)

Load == Job("load", [all |-> TRUE])

Bare == pg.dialog = "none"

(* The search field and the department filter are a choice of the teachers left out. *)
Listed == {t \in DOMAIN pg.rows : pg.filter = "all" \/ pg.rows[t] = (pg.filter = "active")}

(* Whatever is filtered, the ticks are taken off. *)
SetFilter(f) == Bare /\ f # pg.filter /\ Click /\ pg' = [pg EXCEPT !.filter = f, !.selected = {}]

Ticks(S) == Bare /\ ~pg.loading /\ Local /\ pg' = [pg EXCEPT !.selected = S]
ToggleSelectOne(t) == t \in Listed /\ Ticks(IF t \in pg.selected THEN pg.selected \ {t} ELSE pg.selected \cup {t})
ToggleSelectAll ==
    Listed # {} /\ Ticks(IF Listed \subseteq pg.selected THEN pg.selected \ Listed ELSE pg.selected \cup Listed)
ClearSelection == pg.selected # {} /\ Ticks({})

-----------------------------------------------------------------------------
(* Bulk actions: one request per ticked teacher, all at once *)

Bulk(h, S, to, kept) == Start(h, [ids |-> S, left |-> S, failed |-> 0, to |-> to, kept |-> kept])

MayBulk == pg.selected # {} /\ ~pg.bulkBusy

(***************************************************************************)
(* The request repeats the row of the list.  For a ticked teacher who is   *)
(* no longer in the list there is none: the handler throws there, what it  *)
(* has sent before, if anything, stays sent, and nothing makes the bar     *)
(* usable again.                                                           *)
(***************************************************************************)
BulkStatus(to) ==
    /\ Bare /\ MayBulk /\ UNCHANGED srv
    /\ IF pg.selected \subseteq DOMAIN pg.rows
       THEN Bulk("status", pg.selected, to, TRUE) /\ pg' = [pg EXCEPT !.bulkBusy = TRUE]
       ELSE /\ \/ \E S \in SUBSET (pg.selected \cap DOMAIN pg.rows) : S # {} /\ Bulk("status", S, to, FALSE)
               \/ Click
            /\ pg' = [pg EXCEPT !.bulkBusy = TRUE, !.stuck = TRUE]

BulkDelete ==
    /\ pg.dialog = "bulkDelete" /\ ~pg.bulkBusy /\ UNCHANGED srv
    /\ Bulk("remove", pg.selected, FALSE, TRUE)
    /\ pg' = [pg EXCEPT !.bulkBusy = TRUE]

-----------------------------------------------------------------------------
(* The dialogs *)

Opens(d, t) == Bare /\ Local /\ pg' = [pg EXCEPT !.dialog = d, !.of = t]

OpenAdd        == Opens("add", None)
OpenImport     == Opens("import", None)
OpenBulkDelete == MayBulk /\ Opens("bulkDelete", None)
OpenDelete(t)  == t \in Listed /\ Opens("delete", t)
OpenEditModal(t) ==
    t \in Listed /\ Bare /\ Local /\ pg' = [pg EXCEPT !.dialog = "edit", !.of = t, !.form = pg.rows[t]]
OpenPreferences(t) ==
    /\ t \in Listed /\ Bare /\ Start("prefs", [t |-> t]) /\ UNCHANGED srv
    /\ pg' = [pg EXCEPT !.dialog = "prefs", !.of = t, !.prefLoading = TRUE]

(* What a dialog was about is set anew when it is opened, and forgotten here. *)
Closed(P) == [P EXCEPT !.dialog = "none", !.of = None, !.form = TRUE]
Shut(P, d) == IF P.dialog = d THEN Closed(P) ELSE P
CloseDialog == ~Bare /\ Local /\ pg' = Closed(pg)
ToggleActive == pg.dialog = "edit" /\ Click /\ pg' = [pg EXCEPT !.form = ~@]
EditPrefs == pg.dialog = "prefs" /\ ~pg.prefLoading /\ Click /\ pg' = [pg EXCEPT !.prefForm = ~@]

(* The button of a dialog: one flag for each kind, whoever the dialog is about. *)
Submit(d, h, a) ==
    /\ pg.dialog = d /\ d \notin pg.saving /\ UNCHANGED srv
    /\ Start(h, a)
    /\ pg' = [pg EXCEPT !.saving = @ \cup {d}]

Create          == Submit("add", "create", [n |-> 1])
BulkSubmit(n)   == Submit("import", "import", [n |-> n])
Update          == Submit("edit", "update", [t |-> pg.of, to |-> pg.form])
DeleteConfirm   == Submit("delete", "delete", [t |-> pg.of])
SavePreferences == ~pg.prefLoading /\ Submit("prefs", "override", [t |-> pg.of, to |-> pg.prefForm])

DialogOf(h) ==
    CASE h = "create" -> "add" [] h = "import" -> "import" [] h = "update" -> "edit"
      [] h = "delete" -> "delete" [] h = "override" -> "prefs"
Forms == {"create", "import", "update", "delete", "override"}

-----------------------------------------------------------------------------
(* The server *)

There(t) == t \in DOMAIN srv.active

(* With a teacher go the slots, the leaves, the covers, the credits and the preferences. *)
Removed(t) == [srv EXCEPT !.active = Without(@, t), !.accepts = Without(@, t)]
Flagged(t, to) == [srv EXCEPT !.active[t] = to]

ServeList(j) == Sent(j, {"load"}) /\ UNCHANGED srv /\ Answer(j, "ok", [rows |-> srv.active])

(* A new account, or several of an import in one transaction; taken addresses are passed over. *)
ServeCreate(j) ==
    /\ Sent(j, {"create", "import"})
    /\ \E k \in 0..j.a.n :
          /\ srv.last + k <= MaxTeachers
          /\ LET new == (srv.last + 1)..(srv.last + k)
             IN  srv' = [active |-> With(srv.active, new, TRUE), accepts |-> With(srv.accepts, new, TRUE),
                         last |-> srv.last + k]
          /\ Answer(j, IF k = 0 /\ j.h = "create" THEN "refused" ELSE "ok", None)

ServeOne(j) ==
    /\ Sent(j, {"update", "delete", "override", "prefs"})
    /\ IF ~There(j.a.t) THEN UNCHANGED srv /\ Answer(j, "refused", None)
       ELSE /\ srv' = CASE j.h = "update"   -> Flagged(j.a.t, j.a.to)
                        [] j.h = "delete"   -> Removed(j.a.t)
                        [] j.h = "override" -> [srv EXCEPT !.accepts[j.a.t] = j.a.to]
                        [] j.h = "prefs"    -> srv
            /\ Answer(j, "ok", IF j.h = "prefs" THEN [accepts |-> srv.accepts[j.a.t]] ELSE None)

(* One request of a bulk action is settled; the handler goes on when all are. *)
Settled(j, t, ok) ==
    /\ UNCHANGED pg
    /\ LET k == [j EXCEPT !.a.left = @ \ {t}, !.a.failed = IF ok THEN @ ELSE @ + 1]
       IN  jobs' = (jobs \ {j}) \cup {[k EXCEPT !.res = IF k.a.left = {} THEN "ok" ELSE "sent"]}

ServeBulk(j) ==
    /\ Sent(j, {"status", "remove"})
    /\ \E t \in j.a.left :
          /\ srv' = CASE ~There(t)       -> srv
                      [] j.h = "status" /\ There(t) -> Flagged(t, j.a.to)
                      [] OTHER           -> Removed(t)
          /\ Settled(j, t, There(t))
          /\ UNCHANGED clicks

(* One request of a bulk action is lost, before it is served or after. *)
LoseOne(j) ==
    /\ Sent(j, {"status", "remove"})
    /\ clicks < MaxClicks /\ clicks' = clicks + 1
    /\ \E t \in j.a.left :
          /\ \/ UNCHANGED srv
             \/ There(t) /\ j.h = "remove" /\ srv' = Removed(t)
             \/ There(t) /\ j.h = "status" /\ srv' = Flagged(t, j.a.to)
          /\ Settled(j, t, FALSE)

Lose(j) == j.h \notin {"status", "remove", "close"} /\ Fail(j)

(* Another admin removes or disables a teacher; a teacher changes the own preference. *)
Elsewhere(t) ==
    /\ There(t) /\ clicks < MaxClicks /\ clicks' = clicks + 1 /\ UNCHANGED <<pg, jobs>>
    /\ \/ srv' = Removed(t)
       \/ srv' = Flagged(t, ~srv.active[t])
       \/ srv' = [srv EXCEPT !.accepts[t] = ~@]

-----------------------------------------------------------------------------
(* After the await *)

OnLoaded(j) ==
    /\ Back(j, {"load"}) /\ Then(j, {})
    /\ pg' = IF j.res = "ok" THEN [pg EXCEPT !.rows = j.got.rows, !.loading = FALSE]
                             ELSE [pg EXCEPT !.loading = FALSE]

(* The answer fills the form of whichever dialog is open; without one the last form stays. *)
OnPreferences(j) ==
    /\ Back(j, {"prefs"}) /\ Then(j, {})
    /\ pg' = IF j.res = "ok" THEN [pg EXCEPT !.prefForm = j.got.accepts, !.prefLoading = FALSE]
                             ELSE [pg EXCEPT !.prefLoading = FALSE]

(* The dialog closes, after 1.5 seconds that of the preferences, and the import shows its counts. *)
OnSaved(j) ==
    /\ Back(j, Forms) /\ j.res = "ok"
    /\ Then(j, IF j.h = "override" THEN {[Job("close", [d |-> "prefs"]) EXCEPT !.res = "ok"]} ELSE {Load})
    /\ LET P == [pg EXCEPT !.saving = @ \ {DialogOf(j.h)}]
       IN  pg' = IF j.h \in {"override", "import"} THEN P ELSE Shut(P, DialogOf(j.h))

OnTimer(j) == Back(j, {"close"}) /\ Then(j, {}) /\ pg' = Shut(pg, j.a.d)

OnRefused(j) ==
    /\ Back(j, Forms) /\ j.res # "ok" /\ Then(j, {})
    /\ pg' = [pg EXCEPT !.saving = @ \ {DialogOf(j.h)}]

AfterBulk(j, done) ==
    LET P == [pg EXCEPT !.bulkBusy = FALSE, !.selected = {}, !.told = None]
    IN  IF j.h = "remove" THEN Shut([P EXCEPT !.told = [ids |-> j.a.ids, deleted |-> done]], "bulkDelete") ELSE P

(* Mutant: the banner counts every request that was answered. *)
OnBulkCountsAll(j) ==
    /\ Back(j, {"status", "remove"}) /\ j.a.kept
    /\ Then(j, {Load})
    /\ pg' = AfterBulk(j, Cardinality(j.a.ids))
OnBulk(j) ==
    /\ Back(j, {"status", "remove"}) /\ j.a.kept
    /\ Then(j, {Load})
    /\ pg' = AfterBulk(j, Cardinality(j.a.ids) - j.a.failed)

OnAbandoned(j) == Back(j, {"status"}) /\ ~j.a.kept /\ Then(j, {}) /\ UNCHANGED pg

-----------------------------------------------------------------------------
Init ==
    /\ srv = [active |-> [t \in 1..Employed |-> TRUE], accepts |-> [t \in 1..Employed |-> TRUE], last |-> Employed]
    /\ pg = [rows |-> <<>>, loading |-> TRUE, filter |-> "all", selected |-> {}, bulkBusy |-> FALSE, stuck |-> FALSE,
             dialog |-> "none", of |-> None, form |-> TRUE, prefForm |-> TRUE, prefLoading |-> FALSE,
             saving |-> {}, told |-> None]
    /\ jobs = {Load}
    /\ clicks = 0

Next ==
    \/ \E j \in jobs :
          \/ ServeList(j) \/ ServeCreate(j) \/ ServeOne(j) \/ ServeBulk(j) \/ LoseOne(j) \/ Lose(j)
          \/ OnLoaded(j) \/ OnPreferences(j) \/ OnSaved(j) \/ OnTimer(j) \/ OnRefused(j) \/ OnBulk(j) \/ OnAbandoned(j)
    \/ \E t \in 1..MaxTeachers :
          \/ ToggleSelectOne(t) \/ OpenEditModal(t) \/ OpenDelete(t) \/ OpenPreferences(t) \/ Elsewhere(t)
    \/ \E f \in {"all", "active", "disabled"} : SetFilter(f)
    \/ \E to \in BOOLEAN : BulkStatus(to)
    \/ \E n \in 1..(MaxTeachers - Employed) : BulkSubmit(n)
    \/ ToggleSelectAll \/ ClearSelection \/ OpenAdd \/ OpenImport \/ OpenBulkDelete \/ CloseDialog
    \/ ToggleActive \/ EditPrefs \/ Create \/ Update \/ DeleteConfirm \/ SavePreferences \/ BulkDelete

Spec == Init /\ [][Next]_vars

-----------------------------------------------------------------------------
(***************************************************************************)
(* A bulk removal never claims more than was done: at least as many of the *)
(* ticked teachers are gone as its banner says, however its requests and   *)
(* those of another admin are interleaved, refused and lost.               *)
(***************************************************************************)
DeletedAsTold ==
    pg.told # None => Cardinality(pg.told.ids \ DOMAIN srv.active) >= pg.told.deleted

(***************************************************************************)
(* What spins or is disabled for a call has a handler that will come back, *)
(* with one exception, the bar of bulk actions: once its handler has       *)
(* thrown (pg.stuck) nothing makes it usable again, see BulkBarReturns.    *)
(***************************************************************************)
WaitingHasJob ==
    /\ pg.loading => InFlight({"load"})
    /\ pg.prefLoading => InFlight({"prefs"})
    /\ pg.bulkBusy => pg.stuck \/ InFlight({"status", "remove"})
    /\ \A d \in pg.saving : \E j \in jobs : j.h \in Forms /\ DialogOf(j.h) = d

(***************************************************************************)
(* A claim of the repository's texts that the code does not keep: a screen *)
(* that freezes is a bug (uiux1.md).  The bar of bulk actions stays        *)
(* disabled for good when a ticked teacher has left the list.  No run      *)
(* checks it (README, section 4).                                          *)
(***************************************************************************)
BulkBarReturns == pg.bulkBusy => InFlight({"status", "remove"})
=============================================================================
