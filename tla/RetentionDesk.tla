--------------------------- MODULE RetentionDesk ----------------------------
(***************************************************************************)
(* The retention page (frontend/src/pages/admin/DataRetention.jsx) of the  *)
(* system administrator: records are purged by kind and age, on demand,    *)
(* with a preview and a backup first, or by the policy, which the server   *)
(* looks at whenever it is read.                                           *)
(***************************************************************************)
EXTENDS Archive

CONSTANTS MaxBackups \* bound: backups ever made

RetentionAssumption == MaxBackups \in Nat

(* Records are of a kind, and old or not; a leave is decided or pending, a credit record hangs on a decided one. *)
Targets == {"logs", "leaves", "credits", "backups"}
Rows == {[t |-> t, old |-> old] : t \in {"logs", "leaves", "pending", "credits"}, old \in BOOLEAN}
TargetOf(r) == IF r.t = "pending" THEN "leaves" ELSE r.t
Filters == {"old", "range", "all"}

-----------------------------------------------------------------------------
(* Purging *)

(* _resolve_date_cutoff; a range of dates here is that of what is not old. *)
InFilter(f, old) == f = "all" \/ (f = "old" /\ old) \/ (f = "range" /\ ~old)

(* What the preview counts, *)
Counted(s, c) == {r \in s.data : TargetOf(r) \in c.targets /\ InFilter(c.filter, r.old)}

(* and what is deleted: the credit records of the leaves go with them. *)
Deleted(s, c) ==
    Counted(s, c) \cup
    {r \in s.data : r.t = "credits" /\ [t |-> "leaves", old |-> r.old] \in Counted(s, c)}

EraseAll(s, gone) ==
    [s EXCEPT !.index = @ \ gone, !.files = {f \in @ : \A e \in gone : f.name # e.name}]

(* Mutant: the backup made a moment ago is purged with the others. *)
PurgedBackupsAll(s, c, own) ==
    IF "backups" \notin c.targets THEN {} ELSE {e \in s.index : InFilter(c.filter, e.at = 0)}
(* A backup is old when it is from before the page was opened. *)
PurgedBackups(s, c, own) ==
    IF "backups" \notin c.targets THEN {} ELSE {e \in s.index \ {own} : InFilter(c.filter, e.at = 0)}

-----------------------------------------------------------------------------
(* The page *)

Criteria == [targets |-> pg.targets, filter |-> pg.filter]

Open == ~pg.confirm

(* fetchData; the two calls of it are one here: the policy's does the work. *)
Refresh ==
    /\ Open /\ ~pg.loading
    /\ Start("fetch", [of |-> None]) /\ UNCHANGED srv
    /\ pg' = [pg EXCEPT !.loading = TRUE]

(* Every change of what to purge drops the preview. *)
ToggleTarget(t) ==
    /\ Open
    /\ Click
    /\ pg' = [pg EXCEPT !.targets = (@ \ {t}) \cup ({t} \ @), !.preview = None]

SelectAllTargets ==
    /\ Open
    /\ Click
    /\ pg' = [pg EXCEPT !.targets = IF @ = Targets THEN {} ELSE Targets, !.preview = None]

ChooseFilter(f) ==
    /\ Open /\ f # pg.filter
    /\ Click
    /\ pg' = [pg EXCEPT !.filter = f, !.preview = None]

(* The backup first: not a matter of the preview *)
ToggleBackupFirst == Open /\ Click /\ pg' = [pg EXCEPT !.backup = ~@]

PreviewPurge ==
    /\ Open /\ ~pg.previewing /\ pg.targets # {}
    /\ Start("preview", Criteria) /\ UNCHANGED srv
    /\ pg' = [pg EXCEPT !.previewing = TRUE]

(* The modal covers the page; its phrase is typed before it lets one go on. *)
OpenConfirm ==
    /\ Open /\ pg.targets # {}
    /\ Click
    /\ pg' = [pg EXCEPT !.confirm = TRUE]

(* Mutant: Cancel is not disabled while the records are purged. *)
CancelConfirmAnyTime ==
    /\ pg.confirm
    /\ Local
    /\ pg' = [pg EXCEPT !.confirm = FALSE]
CancelConfirm ==
    /\ pg.confirm /\ ~pg.purging
    /\ Local
    /\ pg' = [pg EXCEPT !.confirm = FALSE]

ExecutePurge ==
    /\ pg.confirm /\ ~pg.purging
    /\ Start("purge", [c |-> Criteria, backup |-> pg.backup]) /\ UNCHANGED srv
    /\ pg' = [pg EXCEPT !.purging = TRUE]

DismissResult ==
    /\ Open /\ pg.result # None
    /\ Local
    /\ pg' = [pg EXCEPT !.result = None]

(* The policy's form, and its button *)
EditPolicy ==
    /\ Open /\ pg.form # None
    /\ Click
    /\ \/ pg' = [pg EXCEPT !.form.on = ~@]
       \/ pg' = [pg EXCEPT !.form.leaves = ~@]
       \/ pg' = [pg EXCEPT !.form.credits = ~@]

SavePolicy ==
    /\ Open /\ pg.form # None /\ ~pg.saving
    /\ Start("save", [policy |-> pg.form]) /\ UNCHANGED srv
    /\ pg' = [pg EXCEPT !.saving = TRUE]

RunAutoCleanup ==
    /\ Open /\ pg.form # None /\ ~pg.running
    /\ Start("cleanup", [of |-> None]) /\ UNCHANGED srv
    /\ pg' = [pg EXCEPT !.running = TRUE]

-----------------------------------------------------------------------------
(* The server *)

(* check_and_run_auto_cleanup: old records, old backups, and with a count of one all but the newest; *)
(* of the leaves those that are decided, with the credit records that hang on them.                  *)
Cleaned(s) ==
    LET kinds == {"logs"} \cup (IF s.policy.leaves THEN {"leaves", "credits"} ELSE {})
                          \cup (IF s.policy.credits THEN {"credits"} ELSE {})
        data == {r \in s.data : ~(r.old /\ r.t \in kinds)}
        aged == EraseAll(s, {e \in s.index : e.at = 0})
        over == {e \in aged.index : \E f \in aged.index : e.at < f.at}
    IN  [EraseAll(aged, over) EXCEPT !.data = data, !.last = clicks]

ServeFetch(j) ==
    /\ Sent(j, {"fetch"})
    /\ srv' = IF Due(srv.policy.on, srv.last, 2) THEN Cleaned(srv) ELSE srv
    /\ Answer(j, "ok", srv.policy)

ServeCleanup(j) ==
    /\ Sent(j, {"cleanup"})
    /\ srv' = Cleaned(srv)
    /\ Answer(j, "ok", None)

ServeSave(j) ==
    /\ Sent(j, {"save"})
    /\ srv' = [srv EXCEPT !.policy = j.a.policy]
    /\ Answer(j, "ok", j.a.policy)

ServePreview(j) ==
    /\ Sent(j, {"preview"})
    /\ UNCHANGED srv
    /\ Answer(j, "ok", [rows |-> Counted(srv, j.a)])

(* execute_selective_purge: a backup that fails is logged, and the purge goes on. *)
ServeBackup(j) ==
    /\ Sent(j, {"purge"}) /\ j.a.backup
    /\ \/ /\ srv.next < MaxBackups
          /\ srv' = Backup(srv, "full", FALSE)
          /\ Answer(j, "backed", [own |-> EntryOf(srv', srv.next)])
       \/ /\ clicks < MaxClicks
          /\ UNCHANGED <<srv, pg>> /\ clicks' = clicks + 1
          /\ jobs' = (jobs \ {j}) \cup {[j EXCEPT !.res = "backed", !.got = [own |-> None]]}

ServePurge(j) ==
    /\ j.h = "purge" /\ (j.res = "backed" \/ (j.res = "sent" /\ ~j.a.backup))
    /\ LET own == IF j.res = "backed" THEN j.got.own ELSE None
           s == EraseAll(srv, PurgedBackups(srv, j.a.c, own))
       IN  /\ srv' = [s EXCEPT !.data = @ \ Deleted(srv, j.a.c)]
           /\ Answer(j, "ok", [own |-> own])

(* The users go on working. *)
Work ==
    /\ clicks < MaxClicks /\ clicks' = clicks + 1
    /\ \E r \in Rows : ~r.old /\ srv' = [srv EXCEPT !.data = @ \cup {r}]
    /\ UNCHANGED <<pg, jobs>>

-----------------------------------------------------------------------------
(* After the await *)

Done(j, h) == j.h = h /\ j.res \in {"ok", "failed"}

(* The form is filled again, whatever has been changed in it. *)
OnFetched(j) ==
    /\ Done(j, "fetch")
    /\ Then(j, {})
    /\ pg' = IF j.res = "ok" THEN [pg EXCEPT !.loading = FALSE, !.form = j.got]
             ELSE [pg EXCEPT !.loading = FALSE]

OnSaved(j) ==
    /\ Done(j, "save")
    /\ Then(j, {})
    /\ pg' = [pg EXCEPT !.saving = FALSE, !.form = IF j.res = "ok" THEN j.got ELSE @]

Reread == {Job("fetch", [of |-> None])}

OnCleaned(j) ==
    /\ Done(j, "cleanup")
    /\ Then(j, IF j.res = "ok" THEN Reread ELSE {})
    /\ pg' = [pg EXCEPT !.running = FALSE, !.loading = @ \/ j.res = "ok"]

(* The preview is shown, whatever is chosen by now. *)
OnPreviewed(j) ==
    /\ Done(j, "preview")
    /\ Then(j, {})
    /\ pg' = [pg EXCEPT !.previewing = FALSE, !.preview = IF j.res = "ok" THEN j.got ELSE @]

OnPurged(j) ==
    /\ Done(j, "purge")
    /\ Then(j, IF j.res = "ok" THEN Reread ELSE {})
    /\ pg' = IF j.res = "ok"
             THEN [pg EXCEPT !.purging = FALSE, !.confirm = FALSE, !.preview = None, !.result = j.got,
                             !.loading = TRUE]
             ELSE [pg EXCEPT !.purging = FALSE]

-----------------------------------------------------------------------------
(* The page opens, or everything has been chosen on it. *)
Init ==
    /\ \E on, leaves, credits, known \in BOOLEAN :
          LET s == [data |-> {r \in Rows : r.old}, index |-> {}, files |-> {}, next |-> 0,
                    policy |-> [on |-> on, leaves |-> leaves, credits |-> credits], last |-> IF known THEN 0 ELSE None]
          IN  srv = Write(s, Entry(s, "full", 0, FALSE), s.data)
    /\ LET fresh == [loading |-> TRUE, form |-> None, saving |-> FALSE, running |-> FALSE,
                     targets |-> {"logs"}, filter |-> "old", backup |-> TRUE, previewing |-> FALSE,
                     preview |-> None, confirm |-> FALSE, purging |-> FALSE, result |-> None]
       IN  \/ pg = fresh /\ jobs = Reread
           \/ /\ pg = [fresh EXCEPT !.loading = FALSE, !.form = srv.policy, !.targets = Targets, !.filter = "all"]
              /\ jobs = {}
    /\ clicks = 1

Next ==
    \/ \E j \in jobs :
          \/ ServeFetch(j) \/ ServeCleanup(j) \/ ServeSave(j) \/ ServePreview(j) \/ ServeBackup(j)
          \/ ServePurge(j) \/ Fail(j)
          \/ OnFetched(j) \/ OnSaved(j) \/ OnCleaned(j) \/ OnPreviewed(j) \/ OnPurged(j)
    \/ \E t \in Targets : ToggleTarget(t)
    \/ \E f \in Filters : ChooseFilter(f)
    \/ Refresh \/ SelectAllTargets \/ ToggleBackupFirst \/ PreviewPurge \/ OpenConfirm \/ CancelConfirm
    \/ ExecutePurge \/ DismissResult \/ EditPolicy \/ SavePolicy \/ RunAutoCleanup \/ Work

Spec == Init /\ [][Next]_vars

-----------------------------------------------------------------------------
(***************************************************************************)
(* The backup that a purge has made outlives the purge, also when backups  *)
(* are purged with the rest and a clean-up runs at the same time: the file *)
(* it wrote is there when the purge has deleted what it was made for       *)
(* ("don't delete the backup we just created moments ago").                *)
(***************************************************************************)
BackupOutlivesPurgeStep ==
    \A j \in jobs' :
        j.h = "purge" /\ j.res = "ok" /\ j.got.own # None /\ j \notin jobs =>
            Intact(srv', j.got.own)
BackupOutlivesPurge == [][BackupOutlivesPurgeStep]_vars

(***************************************************************************)
(* "An automatic snapshot backup will be created immediately before data   *)
(* is deleted" (DataRetention.jsx, the text of the dialog): a purge that   *)
(* was asked to make a backup first does not delete without one.           *)
(***************************************************************************)
NeverBareStep ==
    \A j \in jobs' :
        j.h = "purge" /\ j.res = "ok" /\ j.a.backup /\ j \notin jobs /\ srv'.data # srv.data =>
            j.got.own # None
NeverBare == [][NeverBareStep]_vars

(***************************************************************************)
(* A purge under way deletes what its dialog names: the dialog is open and *)
(* what is chosen behind it is what was sent.                              *)
(***************************************************************************)
PurgeAsShown ==
    \A j \in jobs : j.h = "purge" => pg.confirm /\ pg.purging /\ j.a.c = Criteria

(***************************************************************************)
(* The page never waits for nothing.                                       *)
(***************************************************************************)
WaitingHasJob ==
    /\ pg.loading => InFlight({"fetch"})
    /\ pg.saving => InFlight({"save"})
    /\ pg.running => InFlight({"cleanup"})
    /\ pg.previewing => InFlight({"preview"})
    /\ pg.purging => InFlight({"purge"})
=============================================================================
