---------------------------- MODULE PagesOffice -----------------------------
(***************************************************************************)
(* The pages of the timetable, the calendar, the settings, the data and    *)
(* the staff, one at a time as in PagesLeave.                              *)
(***************************************************************************)
EXTENDS PageJobs, GridHistory

CONSTANTS Teachers, Classes, Rooms, Cells, \* of the timetable
          Dept, DeptClasses, Home,        \* a department's teachers, its classes, its first teacher
          Me, Other,                      \* two teachers who enter their own slots
          Depts, Own,                     \* departments, and that of the settings page
          Admins, MaxSecondary,           \* its secondary administrators, and how many may be active
          LastDay, PerMonth, Weekends, Terms,
          Intervals,                      \* days between automatic backups
          MaxBackups, MaxSnapshots,       \* bounds: backups made on the page of backups, of retention
          Staff, Leaves, Quotas

VARIABLE tab

Grid  == INSTANCE TimetableDesk WITH MaxClicks <- MaxClicks + 1
Entry == INSTANCE TimetableEntry WITH MaxClicks <- MaxClicks + 1
Modes == INSTANCE SettingsDesk
Days  == INSTANCE CalendarDesk WITH MaxClicks <- MaxClicks - 1
Saves == INSTANCE BackupDesk
Purge == INSTANCE RetentionDesk WITH MaxBackups <- MaxSnapshots, MaxClicks <- MaxClicks + 1
Crew  == INSTANCE StaffDesk WITH Interleaved <- FALSE

ASSUME PagesAssumption ==
    /\ Grid!EditorAssumption /\ Entry!EntryAssumption /\ Modes!SettingsAssumption /\ Days!CalendarAssumption
    /\ Saves!BackupAssumption /\ Purge!RetentionAssumption /\ Crew!StaffAssumption

Init ==
    \/ tab = "timetable" /\ Grid!Init
    \/ tab = "entry" /\ Entry!Init
    \/ tab = "settings" /\ Modes!Init
    \/ tab = "calendar" /\ Days!Init
    \/ tab = "backup" /\ Saves!Init
    \/ tab = "retention" /\ Purge!Init
    \/ tab = "staff" /\ Crew!Init

Next ==
    /\ UNCHANGED tab
    /\ \/ tab = "timetable" /\ Grid!Next
       \/ tab = "entry" /\ Entry!Next
       \/ tab = "settings" /\ Modes!Next
       \/ tab = "calendar" /\ Days!Next
       \/ tab = "backup" /\ Saves!Next
       \/ tab = "retention" /\ Purge!Next
       \/ tab = "staff" /\ Crew!Next

Spec == Init /\ [][Next]_<<vars, tab>>

-----------------------------------------------------------------------------
(* No page waits for nothing: what is disabled or spins has a handler that will come back. *)
WaitingHasJob ==
    /\ tab = "timetable" => Grid!WaitingHasJob
    /\ tab = "entry" => Entry!WaitingHasJob
    /\ tab = "settings" => Modes!WaitingHasJob
    /\ tab = "calendar" => Days!WaitingHasJob
    /\ tab = "backup" => Saves!WaitingHasJob
    /\ tab = "retention" => Purge!WaitingHasJob
    /\ tab = "staff" => Crew!WaitingHasJob

(* Timetable and entry: no sequence of edits, undos and redos grows a history past its limit. *)
HistoryBounded ==
    /\ tab = "timetable" => Grid!HistoryBounded
    /\ tab = "entry" => Entry!HistoryBounded

(* Timetable: two slots of one teacher, class or room in one cell are a combined class. *)
ClashIsCombined == tab = "timetable" => Grid!ClashIsCombined

(* Timetable: a slot goes as the click asked, and an administrator takes only the department's. *)
ResetAuthorised == [][tab = "timetable" => Grid!ResetAuthorisedStep]_<<vars, tab>>

(* Entry: what a teacher entered is in the timetable only if it was approved. *)
SlotsApproved == tab = "entry" => Entry!SlotsApproved

(* Entry: a submission that was decided is never decided again. *)
DecisionsFinal == [][tab = "entry" => Entry!DecisionsFinalStep]_<<vars, tab>>

(* Settings: a department never has more active secondary admins than allowed. *)
AdminsCapped == tab = "settings" => Modes!AdminsCapped

(* Settings: an override leaves the modes of the departments as they were set. *)
OverrideKeepsModes == [][tab = "settings" => Modes!OverrideKeepsModesStep]_<<vars, tab>>

(* Calendar: the counts of a bulk fill add up to the dates it was started with. *)
FillAddsUp == tab = "calendar" => Days!FillAddsUp

(* Backup: a restore under way is the one its dialog shows. *)
RestoreShown == tab = "backup" => Saves!RestoreShown

(* Retention: what is purged is what the dialog asked about. *)
PurgeAsShown == tab = "retention" => Purge!PurgeAsShown

(* Retention: a purge never takes the backup it has just made. *)
BackupOutlivesPurge == [][tab = "retention" => Purge!BackupOutlivesPurgeStep]_<<vars, tab>>

(* Staff: balance, quota and the ledger of a person always agree. *)
StaffLedgerAddsUp == tab = "staff" => Crew!StaffLedgerAddsUp
=============================================================================
