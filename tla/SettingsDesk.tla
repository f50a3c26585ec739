---------------------------- MODULE SettingsDesk ----------------------------
(***************************************************************************)
(* The settings page (frontend/src/pages/admin/Settings.jsx) of a system   *)
(* administrator, who works on one department at a time or on none, and of *)
(* a department's super admin.  Each panel is saved on its own; a setting  *)
(* of a department hides the institution's.                                *)
(***************************************************************************)
EXTENDS PageJobs

CONSTANTS Depts, Own,  \* departments, and the one of the department's super admin
          Admins,      \* accounts of Own there may be: secondary admins
          MaxSecondary \* how many of them may be active

SettingsAssumption == Own \in Depts /\ MaxSecondary \in Nat /\ IsFiniteSet(Admins)

Modes == {"manual", "autonomous"}  \* assisted is applied as manual is
Everywhere == Depts \cup {None}    \* None: the institution's own setting

-----------------------------------------------------------------------------
(* The settings *)

(* get_setting *)
Setting(f, d, default) ==
    CASE d # None /\ f[d] # None -> f[d]
      [] (d = None \/ f[d] = None) /\ f[None] # None -> f[None]
      [] OTHER -> default

(* CampusOperationsModeOut *)
ModeConfig(s, d) ==
    LET conf == Setting(s.mode, d, "manual")
    IN  [conf |-> conf, over |-> s.over, mode |-> IF s.over # None THEN s.over ELSE conf]

(* get_tenant_department_id: a department's admin is always in its department. *)
Tenant == IF pg.system THEN pg.dept ELSE Own
Institution == pg.system /\ pg.dept = None

-----------------------------------------------------------------------------
(* The panels *)

Open == ~pg.out /\ ~pg.confirm /\ ~pg.adding

(* A panel that is saving has its own buttons disabled, no others. *)
Save(panel, a) ==
    /\ panel \notin pg.saving
    /\ Start(panel, a) /\ UNCHANGED srv

(* The department switcher; the page reads the mode again, and nothing else. *)
SwitchDepartment(d) ==
    /\ Open /\ pg.system /\ d # pg.dept
    /\ Start("config", d) /\ UNCHANGED srv
    /\ pg' = [pg EXCEPT !.dept = d, !.loading = TRUE]

(* handleSelect: autonomous is confirmed first. *)
SelectMode(m) ==
    /\ Open /\ ~pg.loading /\ m # pg.cfg.conf
    /\ IF m = "autonomous"
       THEN "mode" \notin pg.saving /\ Click /\ pg' = [pg EXCEPT !.confirm = TRUE]
       ELSE /\ Save("mode", [m |-> m, d |-> Tenant])
            /\ pg' = [pg EXCEPT !.saving = @ \cup {"mode"}]

ConfirmAutonomous ==
    /\ ~pg.out /\ pg.confirm
    /\ Save("mode", [m |-> "autonomous", d |-> Tenant])
    /\ pg' = [pg EXCEPT !.saving = @ \cup {"mode"}]

CloseDialogs ==
    /\ ~pg.out /\ (pg.confirm \/ pg.adding)
    /\ Local
    /\ pg' = [pg EXCEPT !.confirm = FALSE, !.adding = FALSE]

(* GlobalOverridePanel *)
SelectOverride(o) ==
    /\ Open /\ Institution /\ o # pg.cfg.over
    /\ Save("override", [o |-> o, d |-> Tenant])
    /\ pg' = [pg EXCEPT !.saving = @ \cup {"override"}]

(* The switch of cross-department substitutions is never disabled. *)
ToggleCross ==
    /\ Open
    /\ Start("cross", [on |-> ~pg.cross, d |-> Tenant]) /\ UNCHANGED <<srv, pg>>

(* TeachersModeSettings, read once when the page opens. *)
ToggleSelf ==
    /\ Open /\ pg.cfg.mode # "autonomous"
    /\ Save("self", [on |-> ~pg.self])
    /\ pg' = [pg EXCEPT !.saving = @ \cup {"self"}]

TickDepartment(d) == Open /\ Institution /\ Click /\ pg' = [pg EXCEPT !.ticked = (@ \ {d}) \cup ({d} \ @)]

(* BulkConfigPanel *)
ApplyBulk ==
    /\ Open /\ Institution /\ pg.ticked # {}
    /\ \E m \in Modes, on \in BOOLEAN : Save("bulk", [ds |-> pg.ticked, m |-> m, on |-> on])
    /\ pg' = [pg EXCEPT !.saving = @ \cup {"bulk"}]

(* Forms of which only the saving matters here. *)
Form(panel) ==
    /\ Open
    /\ Save(panel, Tenant)
    /\ pg' = [pg EXCEPT !.saving = @ \cup {panel}]

(* DryRunPanel: a simulation, nothing is saved. *)
RunDryRun == Institution /\ Form("dryRun")

(* BulkTeacherPreferencesPanel *)
ApplyPreferences == Form("preferences")

(* ClearHistoryPanel: its two buttons wait for each other. *)
ClearHistory == Form("clear")

-----------------------------------------------------------------------------
(* Admin accounts, of the department's super admin *)

OpenAddAdmin ==
    /\ Open /\ ~pg.system /\ Cardinality(pg.active) < MaxSecondary
    /\ Click
    /\ pg' = [pg EXCEPT !.adding = TRUE]

CreateAdmin(x) ==
    /\ ~pg.out /\ pg.adding
    /\ Save("create", x)
    /\ pg' = [pg EXCEPT !.saving = @ \cup {"create"}]

(* toggleActive asks for the opposite of what the list showed. *)
ToggleActive(x) ==
    /\ Open /\ ~pg.system /\ x \in pg.listed
    /\ Start(IF x \in pg.active THEN "disable" ELSE "enable", x) /\ UNCHANGED <<srv, pg>>

-----------------------------------------------------------------------------
(* Resetting timetables, and everything *)

(* TimetableResetPanel: the department, whether a teacher is ticked, and what was typed stay when the scope changes. *)
EditReset ==
    /\ Open
    /\ Click
    /\ \/ \E scope \in {"department", "teachers"} \cup (IF pg.system THEN {"all"} ELSE {}) :
             scope # pg.scope /\ pg' = [pg EXCEPT !.scope = scope]
       \/ pg.scope = "department" /\ pg.system /\ \E d \in Everywhere : pg' = [pg EXCEPT !.of = d]
       \/ pg.scope = "teachers" /\ pg' = [pg EXCEPT !.chosen = ~@]
       \/ pg.scope = "all" /\ pg' = [pg EXCEPT !.typed = ~@]

(* handleReset *)
ResetTimetable ==
    /\ Open
    /\ pg.scope = "department" => pg.of # None
    /\ pg.scope = "teachers" => pg.chosen
    /\ pg.scope = "all" => pg.typed
    /\ Save("reset", [scope |-> pg.scope, of |-> IF pg.scope = "department" THEN pg.of ELSE None])
    /\ pg' = [pg EXCEPT !.saving = @ \cup {"reset"}]

(* FactoryResetPanel: the password is right or not. *)
FactoryReset ==
    /\ Open
    /\ \E right \in BOOLEAN : Save("factory", [right |-> right])
    /\ pg' = [pg EXCEPT !.saving = @ \cup {"factory"}]

(* Four seconds later, wherever the user is. *)
SignOut ==
    /\ pg.done /\ ~pg.out
    /\ Local
    /\ pg' = [pg EXCEPT !.out = TRUE]

-----------------------------------------------------------------------------
(* The server *)

(* After a factory reset the account must change its credentials first. *)
ServeLocked(j) ==
    /\ srv.wiped /\ j.res = "sent"
    /\ UNCHANGED srv
    /\ Answer(j, "refused", None)

ServeRead(j) ==
    /\ ~srv.wiped /\ Sent(j, {"config", "policy", "admins", "dryRun"})
    /\ UNCHANGED srv
    /\ Answer(j, "ok", CASE j.h = "config" -> ModeConfig(srv, j.a)
                         [] j.h = "policy" -> [on |-> Setting(srv.cross, j.a, FALSE)]
                         [] j.h = "admins" -> [listed |-> srv.listed, active |-> srv.active]
                         [] j.h = "dryRun" -> None)

Saved(j, s) == srv' = s /\ Answer(j, "ok", None)

(* The answer is of the department that was chosen at the click. *)
ModeSaved(j, s) == srv' = s /\ Answer(j, "ok", ModeConfig(s, j.a.d))

(* Mutant: the override is written over what the departments have configured. *)
ServeModeWritesThrough(j) ==
    /\ ~srv.wiped
    /\ \/ /\ Sent(j, {"mode"})
          /\ ModeSaved(j, [srv EXCEPT !.mode[j.a.d] = j.a.m])
       \/ /\ Sent(j, {"override"})
          /\ ModeSaved(j, [srv EXCEPT !.over = j.a.o, !.mode = [d \in Everywhere |-> j.a.o]])
(* set_mode of the routes: one or the other. *)
ServeMode(j) ==
    /\ ~srv.wiped
    /\ \/ /\ Sent(j, {"mode"})
          /\ ModeSaved(j, [srv EXCEPT !.mode[j.a.d] = j.a.m])
       \/ /\ Sent(j, {"override"})
          /\ ModeSaved(j, [srv EXCEPT !.over = j.a.o])

(* Self-management is of the administrator's own department, whatever the switcher says. *)
ServeSwitch(j) ==
    /\ ~srv.wiped
    /\ \/ /\ Sent(j, {"cross"})
          /\ Saved(j, [srv EXCEPT !.cross[j.a.d] = j.a.on])
       \/ /\ Sent(j, {"self"})
          /\ Saved(j, [srv EXCEPT !.self[IF pg.system THEN None ELSE Own] = j.a.on])

(* bulk_config *)
ServeBulk(j) ==
    /\ ~srv.wiped /\ Sent(j, {"bulk"})
    /\ Saved(j, [srv EXCEPT !.mode = [d \in Everywhere |-> IF d \in j.a.ds THEN j.a.m ELSE @[d]],
                            !.self = [d \in Everywhere |-> IF d \in j.a.ds THEN j.a.on ELSE @[d]]])

(* Mutant: the limit is not looked at when an account is enabled again. *)
MayBeActiveUnlessNew(h, x) == h = "enable" \/ Cardinality(srv.active \ {x}) < MaxSecondary
(* The limit of active secondary admins. *)
MayBeActive(h, x) == Cardinality(srv.active \ {x}) < MaxSecondary

(* create_secondary_admin, set_secondary_admin_active *)
ServeAdmin(j) ==
    /\ ~srv.wiped /\ Sent(j, {"create", "enable", "disable"})
    /\ IF \/ j.h = "disable"
          \/ MayBeActive(j.h, j.a) /\ (j.h = "create" => j.a \notin srv.listed)
       THEN Saved(j, [srv EXCEPT !.listed = @ \cup {j.a},
                                 !.active = IF j.h = "disable" THEN @ \ {j.a} ELSE @ \cup {j.a}])
       ELSE UNCHANGED srv /\ Answer(j, "refused", None)

(* bulk_override_preferences, clear_credits_history and reset_timetable: other tables. *)
ServeOther(j) ==
    /\ ~srv.wiped /\ Sent(j, {"preferences", "clear", "reset"})
    /\ Saved(j, srv)

(* perform_factory_reset and perform_department_reset *)
ServeFactory(j) ==
    /\ ~srv.wiped /\ Sent(j, {"factory"})
    /\ LET Cleared(f) == [d \in Everywhere |-> IF pg.system \/ d = Own THEN None ELSE f[d]]
       IN  IF ~j.a.right THEN UNCHANGED srv /\ Answer(j, "refused", None)
           ELSE Saved(j, [mode |-> Cleared(srv.mode), self |-> Cleared(srv.self), cross |-> Cleared(srv.cross),
                          over |-> IF pg.system THEN None ELSE srv.over,
                          listed |-> {}, active |-> {}, wiped |-> TRUE])

-----------------------------------------------------------------------------
(* After the await *)

(* fetchConfig, whichever department it was for; its second call is of the one chosen by now. *)
OnConfig(j) ==
    /\ Back(j, {"config"})
    /\ IF j.res = "ok"
       THEN Then(j, {Job("policy", Tenant)}) /\ pg' = [pg EXCEPT !.cfg = j.got]
       ELSE Then(j, {}) /\ pg' = [pg EXCEPT !.loading = FALSE]

OnPolicy(j) ==
    /\ Back(j, {"policy"})
    /\ Then(j, {})
    /\ pg' = [pg EXCEPT !.loading = FALSE, !.cross = IF j.res = "ok" THEN j.got.on ELSE @]

OnSaved(j) ==
    /\ Back(j, {"mode", "override", "self", "preferences", "clear", "dryRun"})
    /\ Then(j, {})
    /\ LET P == [pg EXCEPT !.saving = @ \ {j.h}]
       IN  pg' = IF j.res # "ok" THEN P
                 ELSE [P EXCEPT !.cfg = IF j.h \in {"mode", "override"} THEN j.got ELSE @,
                                !.self = IF j.h = "self" THEN j.a.on ELSE @,
                                !.confirm = IF j.h = "mode" THEN FALSE ELSE @]

(* The settings are read again, of the department chosen by now. *)
OnBulk(j) ==
    /\ Back(j, {"bulk"})
    /\ Then(j, IF j.res = "ok" THEN {Job("config", Tenant)} ELSE {})
    /\ LET P == [pg EXCEPT !.saving = @ \ {"bulk"}]
       IN  pg' = IF j.res = "ok" THEN [P EXCEPT !.ticked = {}, !.loading = TRUE] ELSE P

OnCross(j) ==
    /\ Back(j, {"cross"})
    /\ Then(j, {})
    /\ pg' = IF j.res = "ok" THEN [pg EXCEPT !.cross = j.a.on] ELSE pg

OnReset(j) ==
    /\ Back(j, {"reset"})
    /\ Then(j, {})
    /\ LET P == [pg EXCEPT !.saving = @ \ {"reset"}]
       IN  pg' = IF j.res = "ok" THEN [P EXCEPT !.typed = FALSE, !.chosen = FALSE] ELSE P

(* A refused toggle is not caught: the list stays as it was. *)
OnAdmin(j) ==
    /\ Back(j, {"create", "enable", "disable"})
    /\ Then(j, IF j.res = "ok" THEN {Job("admins", None)} ELSE {})
    /\ pg' = IF j.h # "create" THEN pg
             ELSE [pg EXCEPT !.saving = @ \ {"create"}, !.adding = IF j.res = "ok" THEN FALSE ELSE @]

OnListed(j) ==
    /\ Back(j, {"admins"})
    /\ Then(j, {})
    /\ pg' = IF j.res = "ok" THEN [pg EXCEPT !.listed = j.got.listed, !.active = j.got.active] ELSE pg

OnFactory(j) ==
    /\ Back(j, {"factory"})
    /\ Then(j, {})
    /\ pg' = [pg EXCEPT !.saving = @ \ {"factory"}, !.done = (j.res = "ok" \/ @)]

-----------------------------------------------------------------------------
Init ==
    /\ \E listed \in SUBSET Admins : \E active \in SUBSET listed, system \in BOOLEAN, over, set \in Modes \cup {None} :
          LET s == [mode |-> [d \in Everywhere |-> IF d = Own THEN set ELSE None],
                    self |-> [d \in Everywhere |-> None], cross |-> [d \in Everywhere |-> None],
                    over |-> over, listed |-> listed, active |-> active, wiped |-> FALSE]
          IN  /\ Cardinality(active) <= MaxSecondary
              /\ system => listed = {}
              /\ srv = s
              /\ pg = [system |-> system, dept |-> None, cfg |-> ModeConfig(s, IF system THEN None ELSE Own),
                       loading |-> FALSE, cross |-> FALSE, self |-> FALSE, confirm |-> FALSE, adding |-> FALSE,
                       saving |-> {}, ticked |-> {}, listed |-> listed, active |-> active,
                       scope |-> "department", of |-> Own, chosen |-> FALSE, typed |-> FALSE, done |-> FALSE, out |-> FALSE]
    /\ jobs = {}
    /\ clicks = 0

Next ==
    \/ \E j \in jobs :
          \/ ServeLocked(j) \/ ServeRead(j) \/ ServeMode(j) \/ ServeSwitch(j) \/ ServeBulk(j)
          \/ ServeAdmin(j) \/ ServeOther(j) \/ ServeFactory(j) \/ Fail(j)
          \/ OnConfig(j) \/ OnPolicy(j) \/ OnSaved(j) \/ OnBulk(j) \/ OnCross(j) \/ OnReset(j)
          \/ OnAdmin(j) \/ OnListed(j) \/ OnFactory(j)
    \/ \E d \in Everywhere : SwitchDepartment(d)
    \/ \E d \in Depts : TickDepartment(d)
    \/ \E m \in Modes : SelectMode(m)
    \/ \E o \in Modes \cup {None} : SelectOverride(o)
    \/ \E x \in Admins : CreateAdmin(x) \/ ToggleActive(x)
    \/ ConfirmAutonomous \/ CloseDialogs \/ ToggleCross \/ ToggleSelf \/ ApplyBulk
    \/ RunDryRun \/ ApplyPreferences \/ ClearHistory
    \/ OpenAddAdmin \/ EditReset \/ ResetTimetable \/ FactoryReset \/ SignOut

Spec == Init /\ [][Next]_vars

-----------------------------------------------------------------------------
(***************************************************************************)
(* A system-wide override can be taken back: whatever else is saved at the *)
(* same time, no department's configured mode changes with the override,   *)
(* unless everything is wiped ("No Override: each department operates in   *)
(* its own configured campus mode").                                       *)
(***************************************************************************)
OverrideKeepsModesStep == (srv'.over # srv.over /\ ~srv'.wiped) => srv'.mode = srv.mode
OverrideKeepsModes == [][OverrideKeepsModesStep]_vars

(***************************************************************************)
(* No more secondary admins are active than the limit, whatever the list   *)
(* on the page still shows when accounts are added and enabled from it.    *)
(***************************************************************************)
AdminsCapped == Cardinality(srv.active) <= MaxSecondary

(***************************************************************************)
(* The panel of modes "controls how much the system does automatically for *)
(* [the department's] leaves", or "the default fallback mode when a        *)
(* department has not set its own" (its text): once it has been read, the  *)
(* answer to a call made for another department does not fill it with a    *)
(* mode that is not the one of what it names.  The code does not keep it   *)
(* and no run checks it (README, section 4).                               *)
(***************************************************************************)
AskedOf(j) == IF j.h = "config" THEN j.a ELSE j.a.d
ModeShownStep ==
    \A j \in jobs \ jobs' :
        pg'.cfg.conf # pg.cfg.conf /\ ~pg.loading /\ AskedOf(j) # Tenant =>
            pg'.cfg.conf = ModeConfig(srv, Tenant).conf
ModeShown == [][ModeShownStep]_vars

(***************************************************************************)
(* The page never waits for nothing: each panel that is saving, and the    *)
(* spinner, have a handler that will come back.                            *)
(***************************************************************************)
WaitingHasJob ==
    /\ pg.loading => InFlight({"config", "policy"})
    /\ \A p \in pg.saving : InFlight({p})
=============================================================================
