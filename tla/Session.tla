------------------------------ MODULE Session ------------------------------
(***************************************************************************)
(* Who is signed in, in the browser: the tabs of one browser, the local    *)
(* storage they share, the route guards, the navigation and the request    *)
(* and response interceptors of the HTTP client.                           *)
(*                                                                         *)
(* Sources: frontend/src/api/client.js, context/AuthContext.jsx,           *)
(* context/DepartmentContext.jsx, routes/Guards.jsx, App.jsx,              *)
(* pages/auth/*.jsx and components/layout/*.jsx.                           *)
(***************************************************************************)
EXTENDS Naturals, FiniteSets

CONSTANTS Users,        \* accounts of the installation
          RoleOf,       \* the role of each account
          Newcomers,    \* accounts still on default or reset credentials
          Departments,
          AllDepts,     \* the "All Departments" view: no department is sent
          Nobody,
          Tabs,
          Visited,      \* addresses the users of the model go to
          MaxLogins,    \* bound: tokens issued
          MaxCalls      \* bound: requests in flight of one tab

Roles == {"admin", "system_admin", "principal", "governance", "manager",
          "lab_staff", "non_teaching_staff", "teacher"}

ASSUME SessionAssumption ==
    /\ RoleOf \in [Users -> Roles]
    /\ Newcomers \subseteq Users
    /\ AllDepts \notin Departments
    /\ Nobody \notin Users
    /\ MaxLogins \in Nat /\ MaxCalls \in Nat

(***************************************************************************)
(* A session is what `credits_token` and `credits_user` hold together: the *)
(* number of the token, the account and its must_change_credentials flag   *)
(* as it was when the token was issued.  Number 0 is no token.             *)
(***************************************************************************)
NoSession == [no |-> 0, id |-> Nobody, must |-> FALSE]
Session == [no : 1..MaxLogins, id : Users, must : BOOLEAN] \cup {NoSession}

VARIABLES
    storage,     \* localStorage: [session, dept]
    tab,         \* per tab: [page, session, dept], the state React keeps
    calls,       \* per tab: the requests in flight
    issued,      \* server: number of tokens issued so far
    expired,     \* server: tokens it no longer accepts
    fresh        \* server: accounts that must change their credentials

vars == <<storage, tab, calls, issued, expired, fresh>>

-----------------------------------------------------------------------------
(* The role flags of AuthContext *)

Role(s) == IF s = NoSession THEN "none" ELSE RoleOf[s.id]

IsAdmin(s)       == Role(s) \in {"admin", "system_admin", "principal", "governance"}
IsSystemAdmin(s) == Role(s) = "system_admin"
IsPrincipal(s)   == Role(s) = "principal"
IsGovernance(s)  == Role(s) = "governance"
IsManager(s)     == Role(s) = "manager"
IsStaff(s)       == Role(s) \in {"lab_staff", "non_teaching_staff"}

-----------------------------------------------------------------------------
(***************************************************************************)
(* The guards.  A guard answers Outlet (render the page) or the address it *)
(* navigates to instead.                                                   *)
(***************************************************************************)
Outlet == "outlet"

Home(s) ==
    CASE IsGovernance(s) -> "/governance"
      [] IsPrincipal(s)  -> "/principal/dashboard"
      [] IsManager(s)    -> "/manager/dashboard"
      [] IsStaff(s)      -> "/staff/dashboard"
      [] OTHER           -> IF IsAdmin(s) THEN "/admin/dashboard" ELSE "/teacher/dashboard"

ProtectedRoute(s) == IF s = NoSession THEN "/login" ELSE Outlet

GovernanceRoute(s) ==
    IF IsGovernance(s) \/ IsSystemAdmin(s) THEN Outlet ELSE "/login"

AdminRoute(s) ==
    CASE s = NoSession  -> "/login"
      [] IsPrincipal(s) -> "/principal/dashboard"
      [] OTHER          -> IF IsAdmin(s) THEN Outlet ELSE "/teacher/dashboard"

SystemAdminRoute(s) ==
    CASE s = NoSession -> "/login"
      [] OTHER         -> IF IsSystemAdmin(s) THEN Outlet ELSE "/admin/dashboard"

PrincipalRoute(s) == IF IsPrincipal(s) THEN Outlet ELSE "/login"

(* Mutant: the guard tests the wrong role. *)
ManagerRouteWrongRole(s) == IF IsSystemAdmin(s) THEN Outlet ELSE "/login"
ManagerRoute(s) == IF IsManager(s) THEN Outlet ELSE "/login"

StaffRoute(s) ==
    IF IsStaff(s) \/ IsManager(s) \/ IsAdmin(s) THEN Outlet ELSE "/login"

TeacherRoute(s) ==
    CASE s = NoSession -> "/login"
      [] IsGovernance(s) \/ IsPrincipal(s) \/ IsManager(s) \/ IsStaff(s) -> Home(s)
      [] OTHER -> Outlet

GuestRoute(s) ==
    CASE s = NoSession -> Outlet
      [] s.must        -> "/first-login-setup"
      [] OTHER         -> Home(s)

RequireCredentialsSet(s) == IF s.must THEN "/first-login-setup" ELSE Outlet

FirstLoginSetupRoute(s) ==
    IF s = NoSession THEN "/login" ELSE IF ~s.must THEN Home(s) ELSE Outlet

-----------------------------------------------------------------------------
(* The route table of App.jsx: the pages under each guard *)

GuestPages == {"/login", "/register"}

AdminPages ==
    {"/admin/dashboard", "/admin/setup", "/admin/academic-calendar",
     "/admin/academic-calendar/reports", "/admin/teachers", "/admin/timetable",
     "/admin/timetable/approvals", "/admin/leaves", "/admin/leave-entry",
     "/admin/credits", "/admin/subjects", "/admin/classes",
     "/admin/class-directory", "/admin/class-timetable", "/admin/departments",
     "/admin/rooms", "/admin/resource-availability",
     "/admin/today-substitutions", "/admin/settings", "/admin/backup"}

SystemAdminPages == {"/admin/managers", "/admin/system-metrics", "/admin/data-retention"}
GovernancePages  == {"/governance", "/governance/timetable"}
PrincipalPages   == {"/principal/dashboard", "/principal/class-timetable"}
ManagerPages     == {"/manager/dashboard", "/manager/lab-staff",
                     "/manager/non-teaching-staff", "/manager/leaves", "/manager/directory"}
StaffPages       == {"/staff/dashboard", "/staff/leaves"}
TeacherPages     == {"/teacher/dashboard", "/teacher/timetable", "/teacher/class-timetable",
                     "/teacher/leave/apply", "/teacher/leaves", "/teacher/substitution",
                     "/teacher/today-coverage", "/teacher/credits", "/teacher/preferences"}
SharedPages      == {"/announcements", "/announcements/:id"}

ShellPages == AdminPages \cup SystemAdminPages \cup GovernancePages \cup PrincipalPages
              \cup ManagerPages \cup StaffPages \cup TeacherPages \cup SharedPages
Pages == GuestPages \cup {"/first-login-setup"} \cup ShellPages

(* The guards above a page, asked from the outside in. *)
OuterGuard(p, s) ==
    CASE p \in AdminPages \cup SystemAdminPages -> AdminRoute(s)
      [] p \in GovernancePages -> GovernanceRoute(s)
      [] p \in PrincipalPages  -> PrincipalRoute(s)
      [] p \in ManagerPages    -> ManagerRoute(s)
      [] p \in StaffPages      -> StaffRoute(s)
      [] p \in TeacherPages    -> TeacherRoute(s)
      [] p \in SharedPages     -> ProtectedRoute(s)

(* Mutant: the last route of the table is forgotten. *)
RedirectWithoutCatchAll(p, s) ==
    IF p \in GuestPages THEN GuestRoute(s)
    ELSE IF p = "/first-login-setup" THEN FirstLoginSetupRoute(s)
    ELSE IF p \notin Pages THEN Outlet
    ELSE IF OuterGuard(p, s) # Outlet THEN OuterGuard(p, s)
    ELSE IF RequireCredentialsSet(s) # Outlet THEN RequireCredentialsSet(s)
    ELSE IF p \in SystemAdminPages THEN SystemAdminRoute(s)
    ELSE Outlet
Redirect(p, s) ==
    IF p \in GuestPages THEN GuestRoute(s)
    ELSE IF p = "/first-login-setup" THEN FirstLoginSetupRoute(s)
    ELSE IF p \notin Pages THEN "/login"
    ELSE IF OuterGuard(p, s) # Outlet THEN OuterGuard(p, s)
    ELSE IF RequireCredentialsSet(s) # Outlet THEN RequireCredentialsSet(s)
    ELSE IF p \in SystemAdminPages THEN SystemAdminRoute(s)
    ELSE Outlet

(***************************************************************************)
(* Where the router comes to rest.  Three redirects are always enough      *)
(* (TabsRest checks it, and Session_proofs proves it).                     *)
(***************************************************************************)
Hop(p, s) == LET to == Redirect(p, s) IN IF to = Outlet THEN p ELSE to
Settle(p, s) ==
    LET first  == Hop(p, s)
        second == Hop(first, s)
    IN  Hop(second, s)

-----------------------------------------------------------------------------
(* The links the layout offers: sidebar, bottom bar, drawer, notification  *)
(* bell and search palette                                                 *)

AdminNav ==
    {"/admin/dashboard", "/announcements", "/admin/academic-calendar", "/admin/timetable",
     "/admin/class-timetable", "/admin/timetable/approvals", "/admin/class-directory",
     "/admin/resource-availability", "/admin/leaves", "/admin/leave-entry",
     "/admin/today-substitutions", "/admin/credits", "/admin/setup", "/admin/teachers",
     "/admin/subjects", "/admin/classes", "/admin/rooms", "/admin/settings"}

TeacherNav == (TeacherPages \ {"/teacher/preferences"}) \cup {"/announcements"}

SystemAdminNav ==
    {"/admin/dashboard", "/announcements", "/admin/academic-calendar", "/admin/timetable",
     "/admin/class-timetable", "/admin/timetable/approvals", "/admin/setup",
     "/admin/departments", "/admin/managers", "/admin/classes", "/admin/rooms",
     "/admin/teachers", "/admin/subjects", "/admin/system-metrics", "/admin/settings",
     "/admin/backup", "/admin/data-retention"}

ManagerNav    == ManagerPages \cup {"/announcements"}
PrincipalNav  == PrincipalPages \cup {"/announcements"}
StaffNav      == StaffPages \cup {"/announcements"}
GovernanceNav ==
    {"/governance", "/announcements", "/admin/academic-calendar", "/admin/class-timetable",
     "/admin/today-substitutions", "/admin/leaves", "/admin/backup", "/admin/settings"}

(* Mutant: the order of the tests forgets that a principal is also isAdmin. *)
SidebarNavAdminFirst(s) ==
    IF IsSystemAdmin(s)     THEN SystemAdminNav
    ELSE IF IsAdmin(s)      THEN AdminNav
    ELSE IF IsManager(s)    THEN ManagerNav
    ELSE IF IsStaff(s)      THEN StaffNav
    ELSE TeacherNav
SidebarNav(s) ==
    IF IsGovernance(s)       THEN GovernanceNav
    ELSE IF IsSystemAdmin(s) THEN SystemAdminNav
    ELSE IF IsPrincipal(s)   THEN PrincipalNav
    ELSE IF IsManager(s)     THEN ManagerNav
    ELSE IF IsStaff(s)       THEN StaffNav
    ELSE IF IsAdmin(s)       THEN AdminNav
    ELSE TeacherNav

(* The drawer of small screens chooses among the same groups. *)
DrawerNav(s) == SidebarNav(s)

SettingsLink(s) ==
    (IF IsAdmin(s) /\ ~IsPrincipal(s) THEN {"/admin/settings"} ELSE {})
    \cup (IF ~IsAdmin(s) /\ ~IsManager(s) /\ ~IsStaff(s) THEN {"/teacher/preferences"} ELSE {})

BottomTabs(s) ==
    CASE IsGovernance(s)  -> {"/governance", "/admin/today-substitutions"}
      [] IsSystemAdmin(s) -> {"/admin/departments", "/announcements"}
      [] IsPrincipal(s)   -> {"/principal/dashboard", "/announcements"}
      [] IsManager(s)     -> {"/manager/dashboard", "/announcements", "/manager/lab-staff",
                              "/manager/leaves"}
      [] IsStaff(s)       -> {"/staff/dashboard", "/announcements", "/staff/leaves"}
      [] OTHER ->
             IF IsAdmin(s)
             THEN {"/admin/dashboard", "/announcements", "/admin/academic-calendar",
                   "/admin/leaves"}
             ELSE {"/teacher/dashboard", "/announcements", "/teacher/timetable",
                   "/teacher/leaves"}

(* NotificationBell: a notification about an announcement leads to it. *)
BellLinks == {"/announcements", "/announcements/:id"}

MenuLinks(s) ==
    SidebarNav(s) \cup DrawerNav(s) \cup SettingsLink(s) \cup BottomTabs(s) \cup BellLinks

(* QuickSearch: commands by the flag isAdmin alone, for all roles, and the *)
(* jump to a date, which asks for no role.                                 *)
PaletteLinks(s) ==
    {"/admin/academic-calendar"} \cup
    (IF IsAdmin(s)
     THEN {"/admin/dashboard", "/admin/setup", "/admin/timetable", "/admin/leaves",
           "/admin/settings"}
     ELSE {"/teacher/dashboard", "/teacher/timetable", "/teacher/leave/apply",
           "/teacher/leaves", "/teacher/preferences"})

-----------------------------------------------------------------------------
(***************************************************************************)
(* Requests.  The request interceptor reads the token and the department   *)
(* from storage, not from the state of the tab.                            *)
(***************************************************************************)
Call == [kind : {"data", "login", "setup"}, who : Users \cup {Nobody},
         no : 0..MaxLogins, dept : Departments \cup {AllDepts},
         mounted : BOOLEAN, res : {"pending", "ok", "refused", "denied"},
         grant : Session]

Request(kind, who) ==
    [kind |-> kind, who |-> who, no |-> storage.session.no, dept |-> storage.dept,
     mounted |-> TRUE, res |-> "pending", grant |-> NoSession]

Unmount(cs) == {[c EXCEPT !.mounted = FALSE] : c \in cs}

CanCall(t) == Cardinality(calls[t]) < MaxCalls

(* AppShell polls the unread counts every 30 seconds, and every page loads its data. *)
Ask(t) ==
    /\ tab[t].page \in ShellPages
    /\ CanCall(t)
    /\ calls' = [calls EXCEPT ![t] = @ \cup {Request("data", tab[t].session.id)}]
    /\ UNCHANGED <<storage, tab, issued, expired, fresh>>

(* The form of /register lists the departments when it mounts; the list wants a token. *)
AskDepartments(t) ==
    /\ tab[t].page = "/register"
    /\ CanCall(t)
    /\ calls' = [calls EXCEPT ![t] = @ \cup {Request("data", Nobody)}]
    /\ UNCHANGED <<storage, tab, issued, expired, fresh>>

(* Login.jsx handleSubmit, up to its await; `loading` keeps a second submit out. *)
SubmitLogin(t, u) ==
    /\ tab[t].page = "/login"
    /\ ~\E c \in calls[t] : c.kind = "login" /\ c.mounted
    /\ CanCall(t)
    /\ calls' = [calls EXCEPT ![t] = @ \cup {Request("login", u)}]
    /\ UNCHANGED <<storage, tab, issued, expired, fresh>>

(* FirstLoginSetup.jsx handleSubmit with matching passwords, up to its await. *)
SubmitSetup(t) ==
    /\ tab[t].page = "/first-login-setup"
    /\ ~\E c \in calls[t] : c.kind = "setup" /\ c.mounted
    /\ CanCall(t)
    /\ calls' = [calls EXCEPT ![t] = @ \cup {Request("setup", tab[t].session.id)}]
    /\ UNCHANGED <<storage, tab, issued, expired, fresh>>

-----------------------------------------------------------------------------
(* The server's answer to a request *)

Valid(no) == no > 0 /\ no \notin expired

Answer(t, c, a) ==
    calls' = [calls EXCEPT ![t] = (@ \ {c}) \cup {a}]

ServeData(t, c) ==
    /\ c.kind = "data" /\ c.res = "pending"
    /\ Answer(t, c, [c EXCEPT !.res = IF Valid(c.no) THEN "ok" ELSE "denied"])
    /\ UNCHANGED <<storage, tab, issued, expired, fresh>>

ServeLogin(t, c) ==
    /\ c.kind = "login" /\ c.res = "pending"
    /\ \/ /\ issued < MaxLogins
          /\ issued' = issued + 1
          /\ Answer(t, c, [c EXCEPT !.res = "ok",
                !.grant = [no |-> issued + 1, id |-> c.who, must |-> c.who \in fresh]])
       \/ Answer(t, c, [c EXCEPT !.res = "denied"]) /\ UNCHANGED issued
    /\ UNCHANGED <<storage, tab, expired, fresh>>

ServeSetup(t, c) ==
    /\ c.kind = "setup" /\ c.res = "pending"
    /\ IF ~Valid(c.no)
       THEN Answer(t, c, [c EXCEPT !.res = "denied"]) /\ UNCHANGED <<issued, fresh>>
       ELSE \/ /\ issued < MaxLogins
               /\ issued' = issued + 1
               /\ fresh' = fresh \ {c.who}
               /\ Answer(t, c, [c EXCEPT !.res = "ok",
                     !.grant = [no |-> issued + 1, id |-> c.who, must |-> FALSE]])
            \/ Answer(t, c, [c EXCEPT !.res = "refused"]) /\ UNCHANGED <<issued, fresh>>
    /\ UNCHANGED <<storage, tab, expired>>

(* ACCESS_TOKEN_EXPIRE_MINUTES go by, or the account is disabled. *)
Expire(n) ==
    /\ n \in 1..issued /\ n \notin expired
    /\ expired' = expired \cup {n}
    /\ UNCHANGED <<storage, tab, calls, issued, fresh>>

-----------------------------------------------------------------------------
(* What the tab does with the answer *)

(* The providers mount anew: state is read from storage, requests are gone. *)
DeptOnMount(s, d) == IF IsSystemAdmin(s) THEN d ELSE AllDepts

FreshTab(p, s, d) == [page |-> Settle(p, s), session |-> s, dept |-> DeptOnMount(s, d)]

(* Mutant: the interceptor forgets to drop the stored session. *)
OnDeniedKeepsSession(t, c) ==
    /\ c \in calls[t] /\ c.res = "denied"
    /\ tab[t].page # "/login"
    /\ tab' = [tab EXCEPT ![t] = FreshTab("/login", storage.session, storage.dept)]
    /\ calls' = [calls EXCEPT ![t] = {}]
    /\ UNCHANGED <<storage, issued, expired, fresh>>
(* The response interceptor: a 401 away from /login ends the session and loads /login. *)
OnDenied(t, c) ==
    /\ c \in calls[t] /\ c.res = "denied"
    /\ tab[t].page # "/login"
    /\ storage' = [storage EXCEPT !.session = NoSession]
    /\ tab' = [tab EXCEPT ![t] = FreshTab("/login", NoSession, storage.dept)]
    /\ calls' = [calls EXCEPT ![t] = {}]
    /\ UNCHANGED <<issued, expired, fresh>>

(* On /login a 401 is a failed attempt: the form shows the message. *)
OnRefused(t, c) ==
    /\ c \in calls[t]
    /\ \/ c.res = "denied" /\ tab[t].page = "/login"
       \/ c.res = "refused"
       \/ c.res = "ok" /\ c.kind = "data"
    /\ calls' = [calls EXCEPT ![t] = @ \ {c}]
    /\ UNCHANGED <<storage, tab, issued, expired, fresh>>

(* Login.jsx: where the form sends each role. *)
LoginTarget(s) ==
    IF s.must THEN "/first-login-setup" ELSE
    CASE IsPrincipal(s) -> "/principal/dashboard"
      [] Role(s) \in {"admin", "system_admin"} -> "/admin/dashboard"
      [] IsManager(s) -> "/manager/dashboard"
      [] IsStaff(s) -> "/staff/dashboard"
      [] OTHER -> "/teacher/dashboard"

(* FirstLoginSetup.jsx tests for a role "staff" that no account has. *)
SetupTarget(s) ==
    CASE IsPrincipal(s) -> "/principal/dashboard"
      [] Role(s) \in {"admin", "system_admin"} -> "/admin/dashboard"
      [] IsManager(s) -> "/manager/dashboard"
      [] OTHER -> "/teacher/dashboard"

(* AuthContext login(): storage and state take the session; the department is left alone. *)
Enter(t, s, target) ==
    /\ storage' = [storage EXCEPT !.session = s]
    /\ tab' = [tab EXCEPT ![t].session = s, ![t].page = Settle(target, s)]

OnLogin(t, c) ==
    /\ c \in calls[t] /\ c.kind = "login" /\ c.res = "ok"
    /\ Enter(t, c.grant, LoginTarget(c.grant))
    /\ calls' = [calls EXCEPT ![t] = Unmount(@ \ {c})]
    /\ UNCHANGED <<issued, expired, fresh>>

OnSetup(t, c) ==
    /\ c \in calls[t] /\ c.kind = "setup" /\ c.res = "ok"
    /\ Enter(t, c.grant, SetupTarget(c.grant))
    /\ calls' = [calls EXCEPT ![t] = Unmount(@ \ {c})]
    /\ UNCHANGED <<issued, expired, fresh>>

-----------------------------------------------------------------------------
(* What the user does *)

(* A link, or the address bar of the application: the page below unmounts. *)
Goto(t, p) ==
    /\ p # tab[t].page
    /\ tab' = [tab EXCEPT ![t].page = Settle(p, tab[t].session)]
    /\ calls' = [calls EXCEPT ![t] = Unmount(@)]
    /\ UNCHANGED <<storage, issued, expired, fresh>>

(* The browser's reload button. *)
Reload(t) ==
    /\ tab' = [tab EXCEPT ![t] = FreshTab(tab[t].page, storage.session, storage.dept)]
    /\ calls' = [calls EXCEPT ![t] = {}]
    /\ UNCHANGED <<storage, issued, expired, fresh>>

(* "Sign out" of the sidebar, the drawer, the palette and the setup page. *)
Logout(t) ==
    /\ tab[t].page \in ShellPages \cup {"/first-login-setup"}
    /\ storage' = [storage EXCEPT !.session = NoSession]
    /\ tab' = [tab EXCEPT ![t].session = NoSession, ![t].page = "/login"]
    /\ calls' = [calls EXCEPT ![t] = Unmount(@)]
    /\ UNCHANGED <<issued, expired, fresh>>

(* The workspace switcher of the sidebar and the top bar, for a system admin. *)
SetActiveDepartment(t, d) ==
    /\ tab[t].page \in ShellPages
    /\ IsSystemAdmin(tab[t].session)
    /\ d # tab[t].dept
    /\ storage' = [storage EXCEPT !.dept = d]
    /\ tab' = [tab EXCEPT ![t].dept = d]
    /\ UNCHANGED <<calls, issued, expired, fresh>>

(***************************************************************************)
(* Windows of the same browser that are not followed tab by tab: they run  *)
(* the same login() and logout(), and write the same storage.              *)
(***************************************************************************)
SignInElsewhere(u) ==
    /\ issued < MaxLogins
    /\ issued' = issued + 1
    /\ storage' = [storage EXCEPT !.session =
                       [no |-> issued + 1, id |-> u, must |-> u \in fresh]]
    /\ UNCHANGED <<tab, calls, expired, fresh>>

SignOutElsewhere ==
    /\ storage.session # NoSession
    /\ storage' = [storage EXCEPT !.session = NoSession]
    /\ UNCHANGED <<tab, calls, issued, expired, fresh>>

-----------------------------------------------------------------------------
Init ==
    /\ storage = [session |-> NoSession, dept |-> AllDepts]
    /\ tab = [t \in Tabs |-> FreshTab("/login", NoSession, AllDepts)]
    /\ calls = [t \in Tabs |-> {}]
    /\ issued = 0
    /\ expired = {}
    /\ fresh = Newcomers

Serve(t) == \E c \in calls[t] : ServeData(t, c) \/ ServeLogin(t, c) \/ ServeSetup(t, c)
Deliver(t) == \E c \in calls[t] : OnDenied(t, c) \/ OnRefused(t, c) \/ OnLogin(t, c) \/ OnSetup(t, c)

Next ==
    \E t \in Tabs :
        \/ Ask(t)
        \/ AskDepartments(t)
        \/ \E u \in Users : SubmitLogin(t, u)
        \/ SubmitSetup(t)
        \/ \E c \in calls[t] : ServeData(t, c)
        \/ \E c \in calls[t] : ServeLogin(t, c)
        \/ \E c \in calls[t] : ServeSetup(t, c)
        \/ \E c \in calls[t] : OnDenied(t, c)
        \/ \E c \in calls[t] : OnRefused(t, c)
        \/ \E c \in calls[t] : OnLogin(t, c)
        \/ \E c \in calls[t] : OnSetup(t, c)
        \/ \E p \in Visited : Goto(t, p)
        \/ Reload(t)
        \/ Logout(t)
        \/ \E d \in Departments \cup {AllDepts} : SetActiveDepartment(t, d)
        \/ \E u \in Users : SignInElsewhere(u)
        \/ SignOutElsewhere
        \/ \E n \in 1..issued : Expire(n)

Spec == Init /\ [][Next]_vars

(***************************************************************************)
(* Fairness: the interval timers of the shell keep firing, and requests    *)
(* that keep being made are answered: strong, because a reload drops the   *)
(* request, and a user does not for ever reload faster than the network.   *)
(***************************************************************************)
Fairness ==
    \A t \in Tabs : WF_vars(Ask(t)) /\ SF_vars(Serve(t)) /\ SF_vars(Deliver(t))

FairSpec == Spec /\ Fairness

-----------------------------------------------------------------------------
TypeOK ==
    /\ storage \in [session : Session, dept : Departments \cup {AllDepts}]
    /\ tab \in [Tabs -> [page : Pages, session : Session, dept : Departments \cup {AllDepts}]]
    /\ calls \in [Tabs -> SUBSET Call]
    /\ issued \in 0..MaxLogins
    /\ expired \subseteq 1..issued
    /\ fresh \subseteq Users

(***************************************************************************)
(* No tab ever rests on a page its own guards refuse, and the guards never *)
(* send each other round in a circle: whatever the order of sign-ins,      *)
(* sign-outs, expiries and reloads, the page shown is one that is admitted *)
(* for the account the tab believes in (Guards.jsx, App.jsx).              *)
(***************************************************************************)
TabsRest == \A t \in Tabs : Redirect(tab[t].page, tab[t].session) = Outlet

(***************************************************************************)
(* Every link of the menus leads where it says: none in the sidebar, the   *)
(* drawer, the bottom bar and the notification bell is bounced by a guard  *)
(* for the account it is offered to (navConfig.jsx, Sidebar.jsx,           *)
(* MobileDrawer.jsx, BottomNav.jsx and NotificationBell.jsx against        *)
(* Guards.jsx and App.jsx).  The palette's commands are PaletteLeads.      *)
(***************************************************************************)
MenusLead ==
    \A t \in Tabs : tab[t].page \in ShellPages =>
        \A l \in MenuLinks(tab[t].session) : Redirect(l, tab[t].session) = Outlet

(***************************************************************************)
(* A tab of an expired session does not stay on its page: the next poll of *)
(* the shell is refused and brings the tab to /login, unless the browser   *)
(* holds an accepted token again (client.js, Sidebar.jsx).                 *)
(***************************************************************************)
ExpiredTabLeaves ==
    \A t \in Tabs :
        (tab[t].page \in ShellPages /\ tab[t].session.no \in expired)
            ~> (tab[t].page \notin ShellPages \/ Valid(storage.session.no))

-----------------------------------------------------------------------------
(***************************************************************************)
(* A claim of the repository's texts that the code does not keep: the      *)
(* command palette looks up navigation for all (persona "All" in the audit *)
(* note).  Its commands for teachers are offered to managers and staff,    *)
(* those for administrators to the principal, the jump to a date to all,   *)
(* and the guards send them elsewhere.  No run checks it (README,          *)
(* section 4).                                                             *)
(***************************************************************************)
PaletteLeads ==
    \A t \in Tabs : tab[t].page \in ShellPages =>
        \A l \in PaletteLinks(tab[t].session) : Redirect(l, tab[t].session) = Outlet
=============================================================================
