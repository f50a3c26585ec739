----------------------------- MODULE BackupDesk -----------------------------
(***************************************************************************)
(* The backup page (frontend/src/pages/admin/Backup.jsx) of the system     *)
(* administrator: backups are created, imported, validated, restored and   *)
(* deleted, and made on a schedule, which the server looks at whenever the *)
(* page reads something.  The schedule is itself part of what is backed    *)
(* up.                                                                     *)
(***************************************************************************)
EXTENDS Archive

CONSTANTS Intervals, \* days there may be between automatic backups
          MaxBackups \* bound: backups ever made

BackupAssumption == Intervals \subseteq Nat \ {0} /\ MaxBackups \in Nat

Reads == {"list", "summary", "schedule"}

-----------------------------------------------------------------------------
(* The page *)

Open == pg.restore = None /\ pg.delete = None
Idle == ~pg.loading /\ ~pg.creating /\ ~pg.importing

(* fetchAll: three calls at once; n tells one fetch from another. *)
Fetch(n, after) == {Job(h, [n |-> n, after |-> after]) : h \in Reads}

Refresh ==
    /\ Open /\ Idle
    /\ clicks < MaxClicks /\ clicks' = clicks + 1
    /\ Cardinality(jobs) < MaxJobs
    /\ jobs' = jobs \cup Fetch(clicks, "refresh")
    /\ UNCHANGED srv
    /\ pg' = [pg EXCEPT !.loading = TRUE]

Create ==
    /\ Open /\ Idle
    /\ Start("create", [of |-> None]) /\ UNCHANGED srv
    /\ pg' = [pg EXCEPT !.creating = TRUE]

(* handleFileSelect: a file that is a backup, or is not *)
Import ==
    /\ Open /\ Idle
    /\ \E f \in srv.files \cup {None} : Start("import", [of |-> f])
    /\ UNCHANGED srv
    /\ pg' = [pg EXCEPT !.importing = TRUE]

(* The rows shown: safety backups are left out. *)
UserBackups == {e \in pg.list : e.kind # "pre"}

Download(e) ==
    /\ Open /\ ~pg.loading /\ e \in UserBackups
    /\ Start("download", [id |-> e.id]) /\ UNCHANGED <<srv, pg>>

Validate(e) ==
    /\ Open /\ ~pg.loading /\ e \in UserBackups /\ e.id \notin pg.validating
    /\ Start("validate", [id |-> e.id]) /\ UNCHANGED srv
    /\ pg' = [pg EXCEPT !.validating = @ \cup {e.id}]

OpenRestore(e) ==
    /\ Open /\ ~pg.loading /\ e \in UserBackups
    /\ Click
    /\ pg' = [pg EXCEPT !.restore = e.id]

OpenDelete(e) ==
    /\ Open /\ ~pg.loading /\ e \in UserBackups
    /\ Click
    /\ pg' = [pg EXCEPT !.delete = e.id]

(* RestoreModal, once its sentence is typed *)
ConfirmRestore ==
    /\ pg.restore # None /\ ~pg.restoring
    /\ Start("restore", [id |-> pg.restore]) /\ UNCHANGED srv
    /\ pg' = [pg EXCEPT !.restoring = TRUE]

(* Mutant: Cancel is not disabled while the restore runs. *)
CancelRestoreAnyTime ==
    /\ pg.restore # None
    /\ Local
    /\ pg' = [pg EXCEPT !.restore = None]
CancelRestore ==
    /\ pg.restore # None /\ ~pg.restoring
    /\ Local
    /\ pg' = [pg EXCEPT !.restore = None]

(* DeleteModal *)
ConfirmDelete ==
    /\ pg.delete # None /\ ~pg.deleting
    /\ Start("delete", [id |-> pg.delete]) /\ UNCHANGED srv
    /\ pg' = [pg EXCEPT !.deleting = TRUE]

CancelDelete ==
    /\ pg.delete # None /\ ~pg.deleting
    /\ Local
    /\ pg' = [pg EXCEPT !.delete = None]

Schedule(on, every) ==
    /\ Open /\ ~pg.saving
    /\ Start("reschedule", [on |-> on, every |-> every]) /\ UNCHANGED srv
    /\ pg' = [pg EXCEPT !.saving = TRUE]

(* handleUpdateInterval and handleToggleSchedule send the other half as shown. *)
UpdateInterval(n) == Schedule(pg.schedule.on, n)
ToggleSchedule == Schedule(~pg.schedule.on, pg.schedule.every)

RunAutoNow ==
    /\ Open /\ ~pg.running /\ ~pg.creating
    /\ Start("runAuto", [of |-> None]) /\ UNCHANGED srv
    /\ pg' = [pg EXCEPT !.running = TRUE]

-----------------------------------------------------------------------------
(* The server *)

Room(s) == s.next < MaxBackups
ScheduleOf(s) == [on |-> s.data.on, every |-> s.data.every]

Newest(s) == EntryOf(s, s.next - 1)

(* get_backup_schedule_settings: without a time of its own, that of the first of the index *)
LastAuto(s) ==
    CASE s.data.last # None -> s.data.last
      [] s.data.last = None /\ s.index # {} ->
            (CHOOSE e \in s.index : \A f \in s.index : f.id <= e.id).at
      [] OTHER -> None

(* A read first asks whether a backup is due ... *)
ServeCheck(j) ==
    /\ Sent(j, Reads \cup {"rescheduled"})
    /\ UNCHANGED srv
    /\ Answer(j, IF Due(srv.data.on, LastAuto(srv), srv.data.every) /\ Room(srv) THEN "due" ELSE "checked", None)

AutoBackup(s, due) == LET b == Backup(s, "auto", due) IN [b EXCEPT !.data.last = clicks]

(* ... and makes it, ... *)
ServeAuto(j) ==
    /\ j.res = "due" /\ Room(srv)
    /\ srv' = AutoBackup(srv, TRUE)
    /\ Answer(j, "checked", None)

(* ... and then reads. *)
ServeRead(j) ==
    /\ j.res = "checked"
    /\ UNCHANGED srv
    /\ Answer(j, "ok", CASE j.h = "list" -> srv.index
                         [] j.h = "summary" -> [count |-> Cardinality({e \in srv.index : e.kind # "pre"})]
                         [] OTHER -> ScheduleOf(srv))

(* create_backup, run_auto_backup_now *)
ServeCreate(j) ==
    /\ Sent(j, {"create", "runAuto"}) /\ Room(srv)
    /\ srv' = IF j.h = "create" THEN Backup(srv, "full", FALSE) ELSE AutoBackup(srv, FALSE)
    /\ Answer(j, "ok", Newest(srv'))

(* import_backup: the backup keeps the time it was made at, long ago. *)
ServeImport(j) ==
    /\ Sent(j, {"import"}) /\ Room(srv)
    /\ IF j.a.of = None THEN UNCHANGED srv /\ Answer(j, "refused", None)
       ELSE LET e == Entry(srv, "imported", 0, FALSE)
            IN  srv' = Write(srv, e, j.a.of.data) /\ Answer(j, "ok", e)

(* validate_backup, get_backup_file_path: no file, or not the one that was written *)
ServeFile(j) ==
    /\ Sent(j, {"validate", "download"})
    /\ UNCHANGED srv
    /\ IF Known(srv, j.a.id) /\ (j.h = "validate" \/ OnDisk(srv, EntryOf(srv, j.a.id)))
       THEN Answer(j, "ok", [valid |-> Intact(srv, EntryOf(srv, j.a.id))])
       ELSE Answer(j, "refused", None)

(* restore_backup: the file is read and a safety backup made ... *)
ServeSafety(j) ==
    /\ Sent(j, {"restore"}) /\ Room(srv)
    /\ IF Known(srv, j.a.id) /\ OnDisk(srv, EntryOf(srv, j.a.id))
       THEN /\ srv' = Backup(srv, "pre", FALSE)
            /\ Answer(j, "safe", [data |-> Content(srv, EntryOf(srv, j.a.id))])
       ELSE UNCHANGED srv /\ Answer(j, "refused", None)

(* ... before the data are replaced, the schedule with them. *)
ServeRestore(j) ==
    /\ j.res = "safe"
    /\ srv' = [srv EXCEPT !.data = j.got.data]
    /\ Answer(j, "ok", None)

ServeDelete(j) ==
    /\ Sent(j, {"delete"})
    /\ IF Known(srv, j.a.id)
       THEN srv' = Erase(srv, EntryOf(srv, j.a.id)) /\ Answer(j, "ok", None)
       ELSE UNCHANGED srv /\ Answer(j, "refused", None)

(* update_backup_schedule_settings *)
ServeSchedule(j) ==
    /\ Sent(j, {"reschedule"})
    /\ srv' = [srv EXCEPT !.data.on = j.a.on, !.data.every = j.a.every]
    /\ Answer(j, "ok", ScheduleOf(srv'))

(* The users go on working. *)
Work ==
    /\ clicks < MaxClicks /\ clicks' = clicks + 1
    /\ srv' = [srv EXCEPT !.data.v = @ + 1]
    /\ UNCHANGED <<pg, jobs>>

-----------------------------------------------------------------------------
(* After the await *)

Done(j, H) == j.h \in H /\ j.res \in {"ok", "refused", "failed"}

Fetched(a) == {j \in jobs : j.h \in Reads /\ j.a = a}

(* Promise.all goes on when all three are there, ... *)
OnFetched(j) ==
    /\ Done(j, {"list"})
    /\ LET all == Fetched(j.a)
           Got(h) == (CHOOSE k \in all : k.h = h).got
           Ok(h) == \E k \in all : k.h = h /\ k.res = "ok"
       IN  /\ Cardinality(all) = 3 /\ \A k \in all : Done(k, Reads)
           /\ Ok("list") /\ Ok("summary")
           /\ pg' = [pg EXCEPT !.list = j.got, !.count = Got("summary").count, !.loading = FALSE,
                               !.schedule = IF Ok("schedule") THEN Got("schedule") ELSE [on |-> TRUE, every |-> 7],
                               !.restoring = IF j.a.after = "restore" THEN FALSE ELSE @]
           /\ jobs' = jobs \ all
    /\ UNCHANGED <<srv, clicks>>

(* ... or as soon as the list or the summary fails; the others answer to nobody. *)
OnFetchFailed(j) ==
    /\ Done(j, {"list", "summary"}) /\ j.res # "ok"
    /\ Then(j, {})
    /\ pg' = IF Cardinality(Fetched(j.a)) < 3 THEN pg
             ELSE [pg EXCEPT !.loading = FALSE, !.restoring = IF j.a.after = "restore" THEN FALSE ELSE @]

OnOrphan(j) ==
    /\ Done(j, Reads) /\ Cardinality(Fetched(j.a)) < 3
    /\ Then(j, {})
    /\ UNCHANGED pg

(* handleCreate, handleFileSelect: the list and the count as they are by now *)
OnCreated(j) ==
    /\ Done(j, {"create", "import"})
    /\ Then(j, {})
    /\ LET P == IF j.h = "create" THEN [pg EXCEPT !.creating = FALSE] ELSE [pg EXCEPT !.importing = FALSE]
       IN  pg' = IF j.res = "ok" THEN [P EXCEPT !.list = @ \cup {j.got}, !.count = @ + 1] ELSE P

OnValidated(j) ==
    /\ Done(j, {"validate", "download"})
    /\ Then(j, {})
    /\ pg' = IF j.h = "validate" THEN [pg EXCEPT !.validating = @ \ {j.a.id}] ELSE pg

(* handleRestoreConfirm: after a restore everything is read again. *)
OnRestored(j) ==
    /\ Done(j, {"restore"})
    /\ Then(j, IF j.res = "ok" THEN Fetch(clicks, "restore") ELSE {})
    /\ pg' = IF j.res = "ok" THEN [pg EXCEPT !.restore = None, !.loading = TRUE]
             ELSE [pg EXCEPT !.restoring = FALSE]

OnDeleted(j) ==
    /\ Done(j, {"delete"})
    /\ Then(j, {})
    /\ pg' = IF j.res = "ok"
             THEN [pg EXCEPT !.deleting = FALSE, !.delete = None, !.count = IF @ = 0 THEN 0 ELSE @ - 1,
                             !.list = {e \in @ : e.id # j.a.id}]
             ELSE [pg EXCEPT !.deleting = FALSE]

OnScheduled(j) ==
    /\ Done(j, {"reschedule"})
    /\ Then(j, {})
    /\ pg' = [pg EXCEPT !.saving = FALSE, !.schedule = IF j.res = "ok" THEN j.got ELSE @]

(* handleRunAutoNow: the list, not the count; then the schedule is read again. *)
OnRunAuto(j) ==
    \/ /\ Done(j, {"runAuto"})
       /\ Then(j, IF j.res = "ok" THEN {Job("rescheduled", [of |-> None])} ELSE {})
       /\ pg' = IF j.res = "ok" THEN [pg EXCEPT !.list = @ \cup {j.got}] ELSE [pg EXCEPT !.running = FALSE]
    \/ /\ Done(j, {"rescheduled"})
       /\ Then(j, {})
       /\ pg' = [pg EXCEPT !.running = FALSE, !.schedule = IF j.res = "ok" THEN j.got ELSE @]

-----------------------------------------------------------------------------
(* One backup there is already; the page opens. *)
Init ==
    /\ \E on \in BOOLEAN, every \in Intervals, last \in {None, 0} :
          LET d == [v |-> 0, on |-> on, every |-> every, last |-> last]
              s == [data |-> d, index |-> {}, files |-> {}, next |-> 0]
          IN  /\ srv = Write(s, Entry(s, "full", 0, FALSE), d)
              /\ pg = [list |-> {}, count |-> 0, schedule |-> [on |-> TRUE, every |-> 7], loading |-> TRUE,
                       creating |-> FALSE, importing |-> FALSE, validating |-> {}, restore |-> None,
                       restoring |-> FALSE, delete |-> None, deleting |-> FALSE, saving |-> FALSE,
                       running |-> FALSE]
    /\ jobs = Fetch(0, "open")
    /\ clicks = 1

Next ==
    \/ \E j \in jobs :
          \/ ServeCheck(j) \/ ServeAuto(j) \/ ServeRead(j) \/ ServeCreate(j) \/ ServeImport(j)
          \/ ServeFile(j) \/ ServeSafety(j) \/ ServeRestore(j) \/ ServeDelete(j) \/ ServeSchedule(j)
          \/ Fail(j)
          \/ OnFetched(j) \/ OnFetchFailed(j) \/ OnOrphan(j) \/ OnCreated(j) \/ OnValidated(j)
          \/ OnRestored(j) \/ OnDeleted(j) \/ OnScheduled(j) \/ OnRunAuto(j)
    \/ \E e \in pg.list : Download(e) \/ Validate(e) \/ OpenRestore(e) \/ OpenDelete(e)
    \/ \E n \in Intervals : UpdateInterval(n)
    \/ Refresh \/ Create \/ Import \/ ConfirmRestore \/ CancelRestore \/ ConfirmDelete \/ CancelDelete
    \/ ToggleSchedule \/ RunAutoNow \/ Work

Spec == Init /\ [][Next]_vars

-----------------------------------------------------------------------------
(***************************************************************************)
(* A restore under way is in front of the user: its dialog is open, names  *)
(* the backup that is being restored, and cannot be left.                  *)
(***************************************************************************)
RestoreShown ==
    \A j \in jobs : j.h = "restore" => pg.restoring /\ pg.restore = j.a.id

(***************************************************************************)
(* "The system automatically backs up data every n days": no two backups   *)
(* that the schedule asked for are of the same time, and in the same file  *)
(* (Backup.jsx, the text of the schedule; check_and_run_auto_backup).  No  *)
(* run checks it: the service does not keep it (README, section 4).        *)
(***************************************************************************)
AutoOnce ==
    \A e, f \in srv.index : e.due /\ f.due /\ e.name = f.name => e = f

(***************************************************************************)
(* The page never waits for nothing: whatever is loading, being created,   *)
(* imported, validated, restored, deleted or saved has a handler that will *)
(* come back.                                                              *)
(***************************************************************************)
WaitingHasJob ==
    /\ pg.loading => InFlight(Reads)
    /\ pg.creating => InFlight({"create"})
    /\ pg.importing => InFlight({"import"})
    /\ \A id \in pg.validating : \E j \in jobs : j.h = "validate" /\ j.a.id = id
    /\ pg.restoring => InFlight({"restore"} \cup Reads)
    /\ pg.deleting => InFlight({"delete"})
    /\ pg.saving => InFlight({"reschedule"})
    /\ pg.running => InFlight({"runAuto", "rescheduled"})
=============================================================================
