# FAFLOW in TLA+

FAFLOW is the faculty leave, substitution and campus-operations system of a
college: a FastAPI / SQLAlchemy / PostgreSQL backend (`src/backend/app`) with a
React single-page frontend (`src/frontend/src`). This directory specifies the
parts of both whose correctness depends on the order in which requests, answers,
users, administrators and clocks act, model-checks them with TLC and proves
their safety properties with TLAPS.

## 1. The system

**Backend.** All handlers are synchronous, so FastAPI runs them in a thread
pool; several are in flight at once. Each request has one SQLAlchemy session
(`database.py:38`, autoflush off) on a PostgreSQL READ COMMITTED transaction;
`get_db` closes it, so what was not committed rolls back. Some handlers commit
several times (one commit per date of a bulk range, per approval and then per
autonomous assignment). Row locks (`SELECT ... FOR UPDATE`) exist in two places
only: the leave row in `approve_leave` / `reject_leave`, and the credit row in
`apply_credit_change`. Everything else is read, decide, write.

**Frontend.** Each page is a React component with local state and no shared
store beyond the session in `localStorage`. A handler is an `async` function:
it runs to its first `await`, the user goes on clicking, and the rest runs when
the answer comes - with the variables it closed over when it was clicked, but
onto the state the page has by then. Several handlers of one page wait at once,
their answers come in any order, and there is no cancellation.

| Component | State | Operations | Interacts with | What is hard | What makes it correct | Module |
|---|---|---|---|---|---|---|
| Leave lifecycle (`leave_service`) | `leave_requests` | submit (single, batch, by admin), approve, reject, cancel (teacher before 10:00, admin) | calendar, engine, credits | unlocked reads, retries, cutoffs | decisions of pending leaves only; cancelled leaves are reversed; no duplicates | `LeaveTxn` |
| Assignments (`leave_service`, `teacher_substitution_service`) | `alter_assignments` (unique per leave) | assign, override, lock, undo, clear all | credits, calendar, timetable | rows replaced or gone under an open request | nobody double-booked; ledger = present coverage | `LeaveTxn`, `LeaveBook` |
| Substitution engine (`substitution_service`) | mode settings, preferences | choose and assign in autonomous mode; modes, override, bulk | leave lifecycle, credits | runs in a second transaction after the approval | hard eligibility never bends; the pass ends | `LeaveTxn`, `SettingsDesk` |
| Credit ledger (`credit_service`) | `teacher_credits`, `credit_transactions` | apply a change | assignments | creation race, lock order | balance = sum of the ledger | sums in `LeaveTxn` |
| Academic calendar (`day_order_service`) | `calendar_days` | mark, bulk mark, assign, skip, clear override, delete | leaves copy its order | resequencing of overlapping suffixes, pins | orders exactly on working days; gapless rotation | `DayOrderCalendar` |
| Calendar page | month, panels, batch, auto-fill | marks, fills, terms | calendar | a fill that takes its time over a month that is left | the fill does each date it counted | `CalendarDesk` |
| Sign-in, session, routing | token and user in `localStorage`, per-tab state | sign in, first set-up, expire, sign out, navigate, switch department | every page | several windows, stale answers, guards redirecting to each other | tabs rest on pages their guards admit; menu links lead | `Session` |
| Leave queue (administrator) | rows, ticks, dialogs | decide, bulk, substitute, cancel | leave lifecycle | optimistic updates, partial failure, stale dialogs | limits are acknowledged for what is sent | `LeavesDesk` |
| Today's substitutions | board, dialogs, run | assign, override, undo, auto-assign all | assignments | long run over a changing board | covers kept; counts true | `TodayBoard` |
| A teacher's cover | lists, dialogs | assign, override, clear all, reset | assignments | stale modal, mode switched off | the limit is asked; what is over stands | `SelfCover` |
| A teacher's leave | form, history, timers | apply, cancel | leave lifecycle, calendar | late lookups, redirect timer | what success says is on record | `MyLeaves` |
| Teachers | list, ticks, forms | CRUD, import, bulk | leaves, timetable | one request per ticked teacher | counts told = counts done | `TeachersDesk` |
| Timetable editor | grid with history | paint, update, remove, undo, reset | timetable slots | grid and server part ways | clashes are combined classes; resets authorised | `TimetableDesk`, `GridHistory` |
| Timetable entry and approval | submissions, grid | submit, review, bulk review | timetable slots | reviews of stale lists | decided once; approved before it is in the timetable | `TimetableEntry` |
| Settings | modes, switches, admins | panels, bulk, cap, resets | engine, admins | late answers of another department | an override leaves the modes below it; the cap | `SettingsDesk` |
| Backup / restore | JSON files and an index | create, import, validate, restore, delete, schedule | whole database | index without a lock; restore replaces the settings | a restore is the one shown | `Archive`, `BackupDesk` |
| Data retention | record tables, policy | policy, clean-up, preview, purge | backups, leaves | failing backup, choice changed behind the dialog | purged as shown, backed up before | `Archive`, `RetentionDesk` |
| Staff leave and credits | staff leaves, `StaffCredit` | apply, approve, reject, cancel, adjust, quota | staff records | absolute balances without locks; a commit in the middle | balance = ledger | `StaffDesk` |
| Governance | assignments, leave status | emergency override, direct assignment | leave lifecycle, *not* credits | writes behind the leave service | no credit reversed that was never booked | planned |
| Announcements, notifications, traffic manager, startup | - | - | every service | push before commit, retries, polling | receipts match; idempotent | planned |
| Rooms, classes, subjects, departments, staff records; reports; deployment | - | CRUD, queries, scripts | - | - | - | section 7 |

## 2. The modules

| Module | What it is |
|---|---|
| `LeaveTxn`, `MCLeaveTxn`, `LeaveTxn_proofs` | leave lifecycle, assignments, autonomous engine and ledger as database transactions of several workers; the small institutions TLC checks; an inductive invariant and three theorems for overlapping requests |
| `LeaveBook`, `LeaveBook_proofs`, `LeaveSerial_proofs` | what the leave service promises when every request is one step; the book keeps its invariant; `LeaveTxn` with one worker implements it |
| `DayOrderCalendar`, `MCDayOrderCalendar`, `DayOrderCalendar_proofs` | the calendar: the resequencing algorithm, and its edits as transactions of ORM statements; theorems for overlapping edits, and about the rotation for edits one at a time |
| `Session`, `MCSession`, `Session_proofs` | tabs, shared storage, guards, navigation, interceptors; its inductive invariant, the theorems that the router always rests and that the menus' links lead |
| `PageJobs`, `PageJobs_proofs` | what all pages have in common: clicks, calls, answers, continuations, failures; lemmas about jobs |
| `LeavesDesk`, `TodayBoard`, `SelfCover`, `MyLeaves`, `TeachersDesk` | the pages about leave, cover and teachers |
| `PagesLeave`, `PagesLeave_proofs` | these five, one of them open; an inductive invariant per page and a theorem per property of the run |
| `GridHistory`, `TimetableDesk`, `TimetableEntry`, `SettingsDesk`, `CalendarDesk`, `Archive`, `BackupDesk`, `RetentionDesk`, `StaffDesk` | the pages of the office |
| `PagesOffice`, `PagesOffice_proofs` | these seven, one of them open; again an invariant per page and a theorem per property |

### LeaveTxn

A request of worker `w` is two steps. `BeginX(w)` is the handler up to its
commit: it reads the committed tables, passes every check and keeps in `txn[w]`
what it read and decided. `CommitX(w)` is the effect of its statements at
COMMIT. A failed check is a 4xx that changes nothing and therefore no step.
Between the two steps other workers commit, the calendar is edited (`MarkDay`),
the mode is switched (`SetMode`), time passes (`Tick`) or the request dies
(`Abort`: crash, lost connection, deadlock victim).

| Variable | In the code |
|---|---|
| `leave`, `seq` | `leave_requests` by primary key, and the key sequence (a rolled back insert burns its keys) |
| `asg`, `made` | `alter_assignments` by leave (UNIQUE on the leave) and how many rows each leave has had, so that a row and its replacement are told apart by key |
| `net` | `credit_transactions`, summed per leave and teacher; credit rows are locked from read to commit, so changes add up |
| `calendar` | day order of a date as `is_working_day` sees it |
| `mode` | `get_mode`; manual and assisted behave alike here |
| `today`, `phase` | the clock; 10:00 and 17:00 are the cutoffs |
| `txn` | the open request of each worker |

Faithful details that matter: only approve and reject hold a row lock
(`LockFree`), and a cancellation's UPDATE waits for it and then overwrites;
an UPDATE of an assignment whose row is gone raises and rolls back
(`CommitOverride`), while a DELETE that matches nothing only warns, so its
credit changes commit (`CommitUndo`, `CommitClear`, `CommitCancel`); inserting a
second assignment violates UNIQUE and rolls back (`CreateAssignment`); the
engine (`BeginAuto`) looks neither at the leave's status nor at the calendar.

Abstractions: one department (scoping and `is_active` only remove candidates,
and every candidate choice is nondeterministic); opt-in, caps, scores and
workload thresholds are that choice; teachers' self-management endpoints are
the same actions behind more guards; bulk forms are sequences of the single
form, as in the code; the timetable is a constant; reads of one handler happen
at one instant; server-local time and institution time are one clock;
notifications and audit rows are left out. Governance and the deletion
endpoints also write these tables; they are not part of the module, so its
properties are about the leave service on its own.

### LeaveBook

The promise without the machinery: `leave`, `cover` (who covers each leave) and
`ledger`, which is by definition a function of the other two (`Due`, `Settle`).
Its entries are submit, decide, cover, release and cancel, each atomic and each
made on facts true at that moment (`Free`: not absent, not in class, covering
nothing else in the period). `LeaveTxn` maps `cover` to `Coverage` and `ledger`
to `net`; begins, locks, aborts and the environment are stuttering steps, each
commit is one entry. `ActsAsBook` is that refinement: it holds when requests do
not overlap, and `leave_ledger_race` shows one of the ways overlapping requests
break it (section 4 has the others).

### DayOrderCalendar

`Resequence`, `Marked` and `NextDayOrder` are the algorithm of
`_resequence_following_days` and `mark_day`. An edit reads the table and
computes its wanted rows at Begin; at `Commit` each changed row becomes an
INSERT, a DELETE by key or an UPDATE of the changed columns only
(`After`, `Updated`), subject to UNIQUE(date), to the UPDATE matching its row,
and to `chk_calendar_day_order` (`Accepted`); otherwise it rolls back.
`NextOfBulk` is one date of `bulk_mark_range`, a transaction of its own.

Abstractions: label, notes, year, semester and author columns; orders outside
1..MaxOrder, which the request schema and the table's CHECK refuse. Dates are
numbered, and a calendar has `NDates` of them.

### Session

`storage` is `localStorage`, `tab[t]` what React keeps in a tab (page, session,
department), `calls[t]` the requests in flight; `issued`, `expired` and `fresh`
are the server's tokens and its accounts on default credentials. The guards of
`Guards.jsx` are operators that answer `Outlet` or an address; `Redirect` asks
those above a page from the outside in as the route table of `App.jsx` nests
them, and `Settle` follows three redirects. A request reads token and
department from storage, not from the tab; `OnDenied` is the 401 interceptor,
which clears the storage and reloads the tab at `/login`. `SignInElsewhere` and
`SignOutElsewhere` are windows of the same browser that are not followed.

### The pages (PageJobs and the modules that extend it)

A page module has `pg` (the component's state), `srv` (the part of the server's
state it works on) and `jobs`: handlers waiting for an answer, each with what
it closed over (`a`), its stage (`res`) and what it was answered (`got`). A
click `Start`s a job; a `Serve...` action is one request of it at the server,
one transaction; an `On...` action is the continuation after the `await` and
changes `pg` exactly as the code's setters do, which for a handler that reads
again means that it starts the next job (`Then`). `Fail` is an error status, a
timeout or an answer that is lost after the server has done its work. Actions
named `Elsewhere`, `Work`, `CutOff`, `CoverElsewhere` are other people and the
clock. Buttons that the page disables are guards; buttons that it does not
disable can be pressed again while the handler waits. Requests are one at a
time at the server here - their overlap is `LeaveTxn`'s and
`DayOrderCalendar`'s subject - except in `StaffDesk`, where `Interleaved` lets
another request commit between a read and a commit, and in the multi-request
handlers, which are one step per request, and in `LeavesDesk`, where an approval
commits (`ServeDecision`) before the engine assigns in a transaction of its own
(`Engine`) and the answer follows both (`ServeDecided`).

| Module | `pg` abstracts | `srv` abstracts |
|---|---|---|
| `LeavesDesk` | rows shown, tab, ticks, toast with its undo, substitution dialog, limit warning, cancel dialog | one teacher's requests of a day with status, substitute and lock; approved ones the engine is still to look at |
| `TodayBoard` | the board as last read, its date, filters, dialogs, the run's counts | who covers each period, whether the day is over |
| `SelfCover` | two lists, dialog, warning, the two questions | leaves with status, substitutes, which are past, the switch |
| `MyLeaves` | form, calendar info, success page, history and its dialogs | leave records and the calendar's answer per date |
| `TeachersDesk` | list as last read, ticks, forms | who is there, active, accepts automatic assignments |
| `TimetableDesk` | grid with past, present and future, selection, combine mode, clash, reset dialog | slots with teacher, class, room and cell; submissions as far as a reset takes them |
| `TimetableEntry` | the same grid for a teacher; the reviewer's list, ticks and search | submissions and slots |
| `SettingsDesk` | each panel's copy of a setting, confirmations, ticks, reset form | settings by department, administrators |
| `CalendarDesk` | month, days as last read, panel, batch, fill, dialogs | type of each date, years and terms |
| `BackupDesk` | list, dialogs, schedule form, spinners | index, files, schedule, a version number of the data |
| `RetentionDesk` | targets, filters, preview, confirmation, result, policy form | rows by kind, policy, backups |
| `StaffDesk` | tab, lists, dialogs, ledger | leave, balance, quota and ledger of each member of staff |

Abstracted everywhere: texts, layout, sorting, searching by text (a nondeterministic
subset where a search decides what is acted on), charts, printing, export.
`Archive` holds what backup and retention share of `backup_service`;
`GridHistory` is the undo reducer both timetable pages have a copy of.

## 3. Runs

| Run | Bounds | Shows |
|---|---|---|
| `leave_concurrent` | 2 workers, 3 teachers, 1 leave, 1 day, 1 assignment row | `TypeOK`; `RejectedUncovered`; `DecidesPendingOnly`: what the one row lock protects holds under every interleaving |
| `leave_serial` | 1 worker, 3 teachers, 2 leaves, 2 periods, 2 rows per leave, one timetable slot | `LedgerMatchesCoverage`, `CancelledReversed`, `NoDoubleBooking`, `NoDuplicateLeave`, `ActsAsBook` for every sequence of requests, the autonomous pass and aborts included |
| `leave_fair` | 2 workers, 1 leave | `EveryRequestEnds` |
| `calendar_serial` | 1 worker, 4 dates, 3 orders, 1 row per date | `EditReachesOnlyTheRotation`, `HolidayKeepsRotation`, `BulkMarksEveryDate` for every sequence of edits |
| `calendar_concurrent` | 2 workers, 2 dates, 2 orders, 2 other day types | `TypeOK`, `OrderIffWorking` under overlapping edits |
| `session` | 1 tab, 7 accounts of seven roles, 1 department, 2 tokens, 1 request in flight, 5 addresses gone to | `TypeOK`, `TabsRest`, `MenusLead`, `ExpiredTabLeaves` |
| `pages_leave` | 5 pages, 2 waiting handlers, 2 to 4 clicks | the eight properties below |
| `pages_office` | 7 pages, 2 waiting handlers, 2 to 4 clicks | the thirteen properties below |
| `leave_ledger_race` | 2 workers | violated: two overlapping reversals move credits twice |
| `calendar_restart` | 1 worker | violated: the day after a pinned day does not continue from the pin |
| `purge_bare` | 3 backups, 4 clicks | violated: a purge whose backup failed deletes all the same |
| `cover_cleared` | 2 leaves, 2 substitutes, 3 clicks | violated: Clear All reverses covers that are over |

What the page runs claim:

* `WaitingHasJob`: on every page, whatever spins or is disabled because a call
  is out has a handler that will come back - also after failures and when
  handlers share one flag. One exception is written into it (`pg.stuck` of
  `TeachersDesk`): the bulk bar of the teachers' page after its handler threw
  (`BulkBarReturns`, section 4).
* `LimitAcknowledged` (leave queue), `LimitAsked` (own cover): an assignment
  over the 7-day limit was asked for again after a warning about that teacher.
* `RefusedUncovered`: no substitute on an undecided or rejected leave, through
  optimistic decisions, rollbacks, undo and the engine's own transaction. Of a
  cancelled leave it is false (`CancelledUncovered`, section 4).
* `RunAddsUp`, `FillAddsUp`, `DeletedAsTold`: the counts a long handler reports
  are those of what it did, although the page changes under it.
* `CoverKept`: a covered period keeps its substitute until that period is
  overridden or undone.
* `SuccessRecorded`: the periods a success page names are on record.
* `HistoryBounded`: no mix of edits, undos and redos grows the history.
* `ClashIsCombined`, `SlotsApproved`, `DecisionsFinal`: the timetable's rules
  through painting, replacing, approving, one by one and in bulk, while the
  administrator creates, combines, deletes and resets. A teacher's own Combine
  Class never reaches the timetable; two slots clash only where the
  administrator's mode made one of them.
* `ResetAuthorised`: a slot leaves the timetable by a change of that slot or by a
  reset whose dialog covered it *when it was confirmed* - its fields stay open to
  edits while the reset is under way - with the words typed if it is of
  everything; submissions only when that was ticked. An administrator of one
  department removes what its teachers teach and what its classes are taught,
  by whomever: a department's reset does take slots of other departments'
  teachers in its classes.
* `PurgeAsShown`, `RestoreShown`: what is sent is what the dialog on screen asks
  for.
* `AdminsCapped`, `OverrideKeepsModes`, `BackupOutlivesPurge`,
  `StaffLedgerAddsUp`: the server's side of settings, purge and staff credits.

Their limits. `RunAddsUp` and `FillAddsUp` are about the counts a handler keeps
itself, not about what the server has in the end. In `TodayBoard` others only
assign; a teacher's undo or clear-all, cancellations and governance are not
steps of it. `SlotsApproved`, `DecisionsFinal`, `ClashIsCombined` and
`AdminsCapped` have one request at a time at the server; two reviewers of one
submission who both read before either commits are not in them. In
`RetentionDesk` only the page and the automatic clean-up touch backups.

Why the bounds suffice. The database races involve two requests and one leave,
or two leaves of one slot; three teachers are an absent one, a substitute and
another substitute. `MaxLeaves` bounds inserted rows, `MaxRows` the rows an
assignment (or a date) ever has - two are needed for "gone and replaced" -
`MaxNet` the ledger an override may start from, `LastDay` the calendar. Four
dates with three orders give the rotation a wrap, a pause, a pin and a day after
it. With two workers `MaxRows` is 1, so a deleted and reinserted row under an
open edit is covered by the proofs only. A page hazard needs one handler
waiting, one other click and one late or failed answer: `MaxClicks` (which also
counts failures and what others do) and `MaxJobs` give each page that and one
more; a page's instance in `PagesLeave` and `PagesOffice` adds or takes away a click so that all
its actions fire and the run stays short. The two page runs start on every page
and stay on it: pages share no state but the session. The session has one tab
followed step by step, because tabs act on each other through storage and
server only, which `SignInElsewhere`, `SignOutElsewhere` and `Expire` change in
every way another tab can. Deadlock checking is off where the bounds make the
system stop.

Fairness. `leave_fair`: weak fairness of `Proceed(w)`, because a pool thread runs
its handler to the end, and strong fairness of `CommitCancel(w)`, because its
UPDATE waits for a row lock that PostgreSQL hands to its waiters in turn.
`session`: weak fairness of `Ask`, because the shell's interval timers fire
(`Sidebar.jsx:74`, `BottomNav.jsx:62`), strong fairness of `Serve` and
`Deliver`, because a reload drops the request and nobody reloads for ever
faster than the network. Nobody has to send requests, sign in, click or let
time pass. Pages have no liveness property: a call may never be answered, and
`client.js` sets no timeout on it.

## 4. What the code does not keep

Kept as runs:

* **Double reversal** (`leave_service.py:664`, `leave_ledger_race`): two
  overlapping undo / clear / cancel requests reverse one credit pair twice.
* **Rotation after a pin** (`day_order_service.py:74`, `calendar_restart`): the
  walk restarts from the day *before* the edited one, so "everything after it
  continues counting up from there" does not happen.
* **Purge without its backup** (`data_retention_service.py:436`, `purge_bare`):
  a failing backup is logged and the purge goes on, while the dialog promises
  one "immediately before data is deleted" (`DataRetention.jsx:969`).
* **Cleared past cover** (`teacher_substitution_service.py:255`,
  `cover_cleared`): Clear All asks neither for the cutoff nor for the lock,
  which undo and override do ("Cannot modify an expired substitution", :238).

Stated in the modules and refuted by TLC, but not kept as runs. TLC shows each
with the constants named below, or with the module's own Init and Next for one
leave and two substitutes, one department, or two teachers, and at most three
clicks and two waiting handlers.

* **Rejection overwritten** (`leave_service.py:751`, :818, `RejectionIsFinal`,
  constants of `LeaveTxn_ledger_race.cfg`): a cancellation tests the status
  without the lock and writes `cancelled` whatever it has become, although
  `Leave_Management.md:22` has no way out of Rejected. `DecidesPendingOnly` says
  what does hold: approvals and rejections are of pending leaves only.
* **Cover on a cancelled leave** (`leave_service.py:308`, `CancelledUncovered`
  of `LeavesDesk`): `approve_leave` commits, then the engine assigns without
  asking for the status again; a cancellation between the two has nothing to
  reverse, although `Business_Rules.md:34` has it reverse every credit and
  unassign the substitute.
* **Mode of another department** (`Settings.jsx:1454`, `ModeShown` of
  `SettingsDesk`): reads of the mode are not ordered, so the answer for a
  department that was left fills the panel of the present one, whose own answer
  had come; the panel says that it is about the present department (:157).
* **Palette commands that bounce** (`QuickSearch.jsx:39`, `PaletteLeads` of
  `Session`, constants of `Session_tabs.cfg`): its commands are filtered by
  `isAdmin` alone, so the principal, managers and staff are offered pages their
  guards refuse, and everybody the jump to a date of the administrators'
  calendar, while the audit note offers it to "All"
  (`DELIGHT_AND_FRICTION_AUDIT_NOTE.md:19`).
* **Frozen bulk bar** (`Teachers.jsx:433`, `BulkBarReturns` of `TeachersDesk`): a
  teacher ticked and then deleted singly stays ticked; the next bulk change reads
  the name of nobody after `setBulkBusy(true)` and outside any `try`, so the bar
  is disabled until the page is reloaded, which `uiux1.md:51` calls a bug.

Also seen in the models. Leave service (`MCLeaveTxn` with the
constants of `LeaveTxn_ledger_race.cfg` and another property): a cancellation
that read the leave before an assignment committed leaves a substitute on a
cancelled leave (`CancelledReversed`, `leave_service.py:746`, against
`Business_Rules.md:34`); two assignments double-book a teacher
(`NoDoubleBooking`, :455, with two leaves); an override moves credits on a date
that became a holiday (`OverrideOnWorkingDay`, :533, with one worker and two
calendar changes); overlapping duplicate submissions both pass (:35); an
administrator's override is refused on a locked assignment although
`models/leave.py:84-88` says the lock never binds an administrator. Calendar: a
resequencing that read a day before it was pinned overwrites the pin
(`PinnedSurvives`, `day_order_service.py:77`, two workers).

Session and navigation:

* The department header outlives the session: the key `active_department_id`
  is not removed at sign-out (`client.js:16-18`, `DepartmentContext.jsx:11`).
* `/register` lists departments with a request that needs a token, so its own
  401 sends the visitor to `/login`.
* A late 401 of an old token clears a newer session (`client.js:28-38`).
* The first set-up tests for a role `staff` that no account has (`FirstLoginSetup.jsx`).

Leave queue (`Leaves.jsx`), where `DialogIsWhole` fails: opening the dialog
after an approval looks for a group under a key that contains the old status
(:179, :328), and a dialog without its parts does not render; the toast's Undo
asks for a decision the server refuses (:680, `leave_service.py:330`); the limit
confirmation goes out for the period that is active by then (:493, :535); a
rollback restores rows from before the click; one `actionLoading` slot serves
all rows; bulk buttons count ticks the filter hides.

Today's board: a failed load leaves the header on the new date with the old
rows, and a late one sets the date back; candidates of one period arrive in the
dialog of another; an automatic run counts covered periods as "no eligible
teacher found"; a teacher at the limit can never be assigned here.

Own cover (`Substitution.jsx:231`): `DialogHasLeave` fails - a candidate list
that arrives after the dialog was closed opens one without a leave; the list of
periods to cover includes undecided leaves; the two lists are read separately.

A teacher's leave: `InfoOfDate` fails - a slow calendar answer describes the
previous date, which the success page then shows; the redirect timer
(`ApplyLeave.jsx:126`) is never cleared and pulls the teacher away from another
page; a batch that fails after its commit answers 500 "please try again", and
the retry is a duplicate (`leave_service.py:228-260`); the earliest date is
computed in UTC; the group's Cancel cancels the first period only.

Teachers: dialogs say that a teacher with records is not removed
(`Teachers.jsx:813`, :828), but `routes/teachers.py:140-166` removes the records;
late preferences of another teacher fill the form; a stale row
is written back whole.

Timetable editor: `GridIsSaved` fails - Undo and Redo change the grid and not
the server; an update deletes and then creates, so a refused create loses the
slot. Entry:
teachers' own edits of slots are always 403; `allow_combined_class` is dropped
between submission and slot; the banner says success when nothing was approved;
ticks hidden by the search are reviewed; `bulk_review` goes on with a session
whose flush failed.

Settings: the answer to a saved mode fills the panel of whatever department is
chosen by then; the bulk panel and the system-wide override set departments to
autonomous without the confirmation that the mode panel asks for; the
self-management panel is read once and saved to the administrator's own
setting; the cap is count-then-insert. Calendar page: `FillKeepsLeave` fails -
auto-fill works from the entries loaded at the click and turns a day marked as
leave meanwhile into a working day (`AcademicCalendar.jsx:1192-1194`); a late
load of another month shows everything unset.

Backup: `AutoOnce` fails - every read of the page triggers the schedule check,
and two of them make the same automatic backup (`routes/backup.py:58,157,171`,
`backup_service.py:1078`); safety backups are never listed (`Backup.jsx:547`);
a restore also restores the schedule; the index is rewritten without a lock.
Retention: a late preview belongs to other criteria and omits the credit
records that go with leaves (`data_retention_service.py:252-258`); a reload
discards policy edits; purging all records also deletes what was written since
its backup.

Staff: `StaffLedgerAddsUp` fails when requests overlap (`Interleaved = TRUE`):
balances are absolute and unlocked (`staff_leave_service.py:126-172`,
`Credit_Management.md:33-45`); cancelling sets an absent member active; a
failed ledger read leaves another person's figures under the new name.

## 5. Proofs

All theorems hold for every set of teachers and workers, every number of
leaves, dates, periods and orders, under the named assumptions of the modules
(bounds are natural numbers, batches are non-empty
lists of different periods, as `sorted(set(...))` makes them, `"working"` is
no non-working type).

`LeaveTxn_proofs`: `Invariance` (`Spec => []IInv`), from it `TypeCorrect`,
`RejectedNeverCovered` and `OnlyPendingIsDecided`. `RejectedUncovered` is not
inductive: an open assignment might cover a leave that is rejected first. `IInv`
adds that (a) open requests name leaves that exist and had the status the
handler checked, approved leaves being never rejected again; (b) two requests
that hold the lock of one leave are one request, and two submissions have
disjoint fresh keys (`Apart`); (c) a leave that is neither approved nor
cancelled has never been covered and never moved a credit. Requests of other
workers are shown undisturbed once and for all (`OnlyRequest`, `SameTables`);
the rest is one lemma per group of actions.

`LeaveBook_proofs`: `BookInOrder`, by one lemma per entry. `LeaveSerial_proofs`
has one more hypothesis, `Serial`: all workers are one worker. `SInv` adds to
`IInv` the book's own invariant of the mapped state and `ReadHolds`: what an
open request read still holds - the assignment it saw is the present one, the
leave it assigns is still approved and uncovered and its substitute still free,
the rest of a batch is untouched. With several workers `ReadHolds` is exactly
what breaks. Each commit lemma shows one entry of the book (`SubmitIsSubmit`,
`DecisionIsDecide`, `AssignIsCover`, `OverrideIsCover`, `ReversalIsRelease`,
`CancelIsCancel`), every other step a stutter; the book's lemma `EntryKeeps`,
instantiated by the mapping, then gives its invariant in the next state.
`SerialIsBook` is the refinement; `SerialLedger`, `SerialReversal`,
`SerialNoDoubleBooking` and `SerialNoDuplicate` read the other properties of
`leave_serial` off the invariant.

`DayOrderCalendar_proofs`: `Invariance`, `TypeCorrect`,
`WorkingDaysHaveOrders`. The table's CHECK forbids an order on a day off, but
not a working day without one. The invariant says the same of the rows every
open edit read and wants; an UPDATE that changes the type then changes the
order with it, so merging changed columns into a row that moved in the
meantime keeps the equivalence or fails the CHECK.
Under `Serial`, `SInv` adds that an open edit still finds the calendar it read
(`EditHolds`) and that a bulk range has marked the dates that had their turn
(`RangeHolds`); a commit then leaves exactly the calendar the edit aimed at
(`CommitReaches`), from which `SerialReach`, `SerialRotation` and `SerialBulk`
follow for calendars of any length. What the recursion of `Resequence` computes is
proved without an induction theorem, by the least date that would refute it:
first that the recursive function exists (`WalkExists`, `RunningIs`), then that
it carries the order of the last working day (`WalkCarries`). With overlapping
edits `EditHolds` is what breaks.

`Session_proofs`: `Invariance`, `TypeCorrect`, `TabsAlwaysRest`,
`CallersAreKnown`. The heart is a lemma about the route table (`SettleRests`):
from every address, known or not, and for every session at most three redirects
lead to a page whose guards admit the session. It is proved for nobody signed in
(every guard says `/login`, which rests), for an account that must change its
credentials (every chain ends at the set-up form) and for all others (at the
latest their home page rests, whatever the role). The state invariant then needs
each handler that moves a tab to let the router settle for the session it
leaves. `TypeOK` is not inductive: the session that an answer grants names the
account of its request, so `IInv` adds `CallersKnown`, which for the set-up
form follows from `TabsRest`.

`MenusAlwaysLead` is a fact about the same table: whichever link the sidebar,
the drawer, the bottom bar or the notification bell offers an account, the
guards of its page admit it. Of the palette that is false (`PaletteLeads`,
section 4).

`PageJobs_proofs`: what every page needs of its jobs. They are records of four
fields; an answer, or the loss of one, leaves a job the job of its handler.

`PagesLeave_proofs`: `PagesAreSound` is `Spec => []PagesInv`, where `PagesInv`
says that the page that is open has its invariant; the nine others read one
property of the run each off it. The pages' invariants add to the properties
what the waiting handlers carry:

* Leave queue (`DeskInv`): whoever a limit warning is about - in an answer on
  its way or in the dialog - the server has asked for; the toast's Undo neither
  sets nor ends `busy`, so `busy` is some other handler's.
* Today (`BoardInv`): there is at most one run; its job carries what is left,
  and its assigned and skipped add up to the bar's count. `LeastOf` (a non-empty
  set of naturals has a least element) lets it take the next period.
* Own cover (`OwnInv`): the warning in front of the user, and every call that
  overrides it, is about a teacher the page has warned of.
* A teacher's leave (`MineInv`): the form a job or the success page names was
  recorded when its call was answered, and rows of the server are never taken
  away (`RowsStay`); a submission gives its periods rows of their own, because
  ranks in a finite set are one-to-one (`RankIsOneToOne`).
* Teachers (`CrewInv`): of those a bulk removal was about, at least as many are
  gone as it has counted, and who is gone does not return (`NoneReturns`).

`PagesOffice_proofs`: `OfficeIsSound` and thirteen theorems, the same way.

* Timetable (`GridInv`): past and future *together* have at most `Cap` grids;
  the past alone being short would not survive a redo. The histories are
  sequences over some set that no constant names, so the invariant quantifies
  over it. New slots have identities above all others, which makes "the later
  one" of `ClashIsCombined` the one just created. `ResetAuthorised` is an action
  property: each group of actions is shown to keep the slots or to remove them
  as one of its two cases says; that an administrator of one department has no
  wider say follows from the checks of the server, not from the dialog.
* Entry (`EntryInv`): every list, tick and review that is under way names
  submissions that exist; submissions are appended, decided or deleted, and their
  numbers are not used again. Slots are apart unless one was combined
  (`EntryApart`), which every way of adding one keeps (`EntryAdds`).
* Settings (`ModesInv`): active administrators are a finite set within the cap.
* Calendar (`DaysInv`): there is at most one fill, and only it changes its
  count; every date it has left is a date, so the set shrinks by one.
* Backup (`SavesInv`): a refresh is three fetches with one token, and `loading`
  stays until one refresh is *complete* (`Full`). At most one refresh was
  started by a restore, only after the restore was answered, and it keeps the
  dialog open; tokens are older than the next click, so no new refresh can be
  taken for it.
* Retention (`PurgeInv`): backups have distinct times and are named by them; a
  purge that has made its backup holds the newest entry there is (`Kept`), which
  is why a clean-up or a purge of backups leaves its file. One purge at a time.
* Staff (`CrewInv`): at most one request has read and not committed, and what
  it read is what is stored; a credit row, if there is one, equals its ledger.

Every page has a frame lemma (which parts of the invariant a step disturbs that
adds only harmless jobs), then one lemma per group of actions with a step per
action. In `PagesLeave` and `PagesOffice` a property of an instance speaks of
the copies the instance has of library operators (`Days!Cardinality`); lemmas
like `DaysSets` identify them with the library's.

Assumptions these proofs need and the code justifies: the administrators, the
leaves and the periods are finitely many, and `None` is not one of the records
it is told apart from (a fill's count, a run's count, a credit row). TLC
evaluates them in the runs.

Model-checked only: liveness (`EveryRequestEnds`, `ExpiredTabLeaves`; the
backends have no fairness and no ENABLED). Every invariant and every action
property of the passing runs is a theorem, those of the serial runs under the
hypothesis that there is one worker.

## 6. Plan

1. Proofs: undo and redo of `GridHistory` as inverses; which of the leave
   service's promises survive overlapping requests of different leaves.
2. `Governance` and the deletion endpoints composed with `LeaveTxn`: which
   ledger statements survive writers that skip the credits; the substitute's
   own later leave.
3. `CreditTxn`: balance row, its creation race and the lock order; deadlock.
4. `LeaveCalendar`: leaves with the real resequencing instead of `MarkDay`
   (stale `day_order`). `MarkDay` admits more edits than the calendar makes,
   so what holds of `LeaveTxn` holds of the composition.
5. `TimetableTxn`: the check-then-insert of slots with overlapping requests.
6. `Announcements`, `Notifications`, `StartupRetry`, `TrafficManager`;
   `AdminLeaveEntry`, the manager's staff forms and the class editor as pages.

## 7. Not modelled

Reports, dashboards, exports and storage figures only read. Rooms, classes,
subjects, departments, staff records and managers are single-row CRUD behind
forms like those of `TeachersDesk`. Announcements, notifications, governance,
startup and the traffic manager are in the plan. Of the modelled pages, markup,
style, text, printing, charts, responsive layout, themes and keyboard handling
are left out, and so are the toasts' wording and timers that only hide them.
Deployment scripts manage processes on one host. `components/ui`, `hooks` and
`utils` are presentation helpers; the push registration in `utils` talks to the
browser only.
