--------------------------- MODULE Session_proofs ---------------------------
(***************************************************************************)
(* No tab of a browser ever rests on a page its guards refuse, for every   *)
(* set of accounts, roles, departments and tabs: the guards of the route   *)
(* table never send each other round in a circle, three redirects are      *)
(* always enough, and every handler that moves a tab or changes its        *)
(* session lets the router settle.                                         *)
(***************************************************************************)
EXTENDS Session, TLAPS

-----------------------------------------------------------------------------
(* The route table *)

(* The pages the guards redirect to: which guards are above them. *)
LEMMA LandingPages ==
    /\ "/login" \in GuestPages
    /\ "/first-login-setup" \notin GuestPages
    /\ "/first-login-setup" \in Pages
    /\ \A p \in {"/governance", "/principal/dashboard", "/manager/dashboard",
                 "/staff/dashboard", "/admin/dashboard", "/teacher/dashboard"} :
           p \notin GuestPages /\ p # "/first-login-setup" /\ p \in Pages
           /\ p \notin SystemAdminPages
BY DEF GuestPages, Pages, ShellPages, AdminPages, SystemAdminPages, GovernancePages,
       PrincipalPages, ManagerPages, StaffPages, TeacherPages, SharedPages

LEMMA LandingGuards ==
    ASSUME NEW s
    PROVE  /\ OuterGuard("/governance", s) = GovernanceRoute(s)
           /\ OuterGuard("/principal/dashboard", s) = PrincipalRoute(s)
           /\ OuterGuard("/manager/dashboard", s) = ManagerRoute(s)
           /\ OuterGuard("/staff/dashboard", s) = StaffRoute(s)
           /\ OuterGuard("/admin/dashboard", s) = AdminRoute(s)
           /\ OuterGuard("/teacher/dashboard", s) = TeacherRoute(s)
BY DEF OuterGuard, AdminPages, SystemAdminPages, GovernancePages,
       PrincipalPages, ManagerPages, StaffPages, TeacherPages, SharedPages

(* What a guard may answer. *)
LEMMA GuardAnswers ==
    ASSUME NEW s \in Session, NEW p \in ShellPages
    PROVE  OuterGuard(p, s) \in {Outlet, "/login", "/teacher/dashboard", Home(s)}
<1>1. AdminRoute(s) \in {Outlet, "/login", "/teacher/dashboard", Home(s)}
  BY DEF AdminRoute, Home, IsPrincipal, IsGovernance, IsManager, IsStaff
<1>2. TeacherRoute(s) \in {Outlet, "/login", Home(s)}
  BY DEF TeacherRoute
<1>3. /\ GovernanceRoute(s) \in {Outlet, "/login"} /\ PrincipalRoute(s) \in {Outlet, "/login"}
      /\ ManagerRoute(s) \in {Outlet, "/login"} /\ StaffRoute(s) \in {Outlet, "/login"}
      /\ ProtectedRoute(s) \in {Outlet, "/login"}
  BY DEF GovernanceRoute, PrincipalRoute, ManagerRoute, StaffRoute, ProtectedRoute
<1>4. \/ p \in AdminPages \cup SystemAdminPages \/ p \in GovernancePages \/ p \in PrincipalPages
      \/ p \in ManagerPages \/ p \in StaffPages \/ p \in TeacherPages \/ p \in SharedPages
  BY DEF ShellPages
<1>. QED  BY <1>1, <1>2, <1>3, <1>4 DEF OuterGuard

(* A page that is rendered is a page of the table. *)
LEMMA RenderedIsPage ==
    ASSUME NEW p, NEW s, Redirect(p, s) = Outlet
    PROVE  p \in Pages
<1>1. CASE p \in GuestPages
  BY <1>1 DEF Pages
<1>2. CASE p = "/first-login-setup"
  BY <1>2 DEF Pages
<1>3. CASE p \notin GuestPages /\ p # "/first-login-setup" /\ p \notin Pages
  <2>1. Redirect(p, s) = "/login"
    BY <1>3 DEF Redirect
  <2>. QED  BY <2>1 DEF Outlet
<1>. QED  BY <1>1, <1>2, <1>3

(* None, one, two or three redirects, and the page rests. *)
LEMMA ThreeHops ==
    ASSUME NEW p, NEW q, NEW r, NEW t, NEW s,
           q = Hop(p, s), r = Hop(q, s), t = Hop(r, s),
           \/ Redirect(p, s) = Outlet \/ Redirect(q, s) = Outlet
           \/ Redirect(r, s) = Outlet \/ Redirect(t, s) = Outlet
    PROVE  Redirect(Settle(p, s), s) = Outlet /\ Settle(p, s) \in Pages
<1>1. Settle(p, s) = t
  BY DEF Settle
<1>2. Redirect(p, s) = Outlet => q = p
  BY DEF Hop
<1>3. Redirect(q, s) = Outlet => r = q
  BY DEF Hop
<1>4. Redirect(r, s) = Outlet => t = r
  BY DEF Hop
<1>. QED  BY <1>1, <1>2, <1>3, <1>4, RenderedIsPage

-----------------------------------------------------------------------------
(* Nobody signed in: every guarded page leads to the form, which rests. *)
LEMMA SignedOutRests ==
    ASSUME NEW p
    PROVE  Redirect(Settle(p, NoSession), NoSession) = Outlet
           /\ Settle(p, NoSession) \in Pages
<1>1. ~IsAdmin(NoSession) /\ ~IsSystemAdmin(NoSession) /\ ~IsPrincipal(NoSession)
      /\ ~IsGovernance(NoSession) /\ ~IsManager(NoSession) /\ ~IsStaff(NoSession)
  BY DEF IsAdmin, IsSystemAdmin, IsPrincipal, IsGovernance, IsManager, IsStaff, Role
<1>2. \A q \in ShellPages : OuterGuard(q, NoSession) = "/login"
  <2>1. AdminRoute(NoSession) = "/login" /\ TeacherRoute(NoSession) = "/login"
    BY <1>1 DEF AdminRoute, TeacherRoute
  <2>2. /\ GovernanceRoute(NoSession) = "/login" /\ PrincipalRoute(NoSession) = "/login"
        /\ ManagerRoute(NoSession) = "/login" /\ StaffRoute(NoSession) = "/login"
        /\ ProtectedRoute(NoSession) = "/login"
    BY <1>1 DEF GovernanceRoute, PrincipalRoute, ManagerRoute, StaffRoute, ProtectedRoute
  <2>. QED  BY <2>1, <2>2 DEF OuterGuard, ShellPages
<1>5. GuestRoute(NoSession) = Outlet
  BY DEF GuestRoute, NoSession
<1>3. Redirect("/login", NoSession) = Outlet
  BY <1>5, LandingPages DEF Redirect
<1>4. Redirect(p, NoSession) \in {Outlet, "/login"}
  <2>1. CASE p \in ShellPages /\ p \notin GuestPages /\ p # "/first-login-setup"
    <3>1. OuterGuard(p, NoSession) = "/login" /\ "/login" # Outlet /\ p \in Pages
      BY <1>2, <2>1 DEF Outlet, Pages
    <3>. QED  BY <2>1, <3>1 DEF Redirect
  <2>2. CASE p \in GuestPages
    BY <1>5, <2>2 DEF Redirect
  <2>3. CASE p = "/first-login-setup"
    BY <2>3, LandingPages DEF Redirect, FirstLoginSetupRoute
  <2>4. CASE p \notin Pages
    BY <2>4 DEF Redirect, Pages
  <2>. QED  BY <2>1, <2>2, <2>3, <2>4 DEF Pages
<1>6. Redirect(p, NoSession) = Outlet \/ Redirect(Hop(p, NoSession), NoSession) = Outlet
  BY <1>3, <1>4 DEF Hop
<1>. QED  BY <1>6, ThreeHops

(* An account that must change its credentials ends at the set-up form. *)
LEMMA NewcomerRests ==
    ASSUME NEW s \in Session, s # NoSession, s.must, NEW p
    PROVE  Redirect(Settle(p, s), s) = Outlet /\ Settle(p, s) \in Pages
<1>. DEFINE Setup == "/first-login-setup"
<1>1. Redirect(Setup, s) = Outlet
  BY LandingPages DEF Redirect, FirstLoginSetupRoute
<1>0. GuestRoute(s) = Setup
  BY DEF GuestRoute
<1>2. Redirect("/login", s) = Setup
  BY <1>0, LandingPages DEF Redirect
<1>3. RequireCredentialsSet(s) = Setup /\ Setup # Outlet
  BY DEF RequireCredentialsSet, Outlet
<1>4. Redirect(Home(s), s) = Setup
  BY <1>3, LandingPages, LandingGuards
     DEF Redirect, Home, GovernanceRoute, PrincipalRoute, ManagerRoute, StaffRoute, AdminRoute,
         TeacherRoute, IsGovernance, IsPrincipal, IsManager, IsStaff, IsAdmin
<1>5. Redirect("/teacher/dashboard", s) \in {Setup, Home(s)}
  BY <1>3, LandingPages, LandingGuards DEF Redirect, TeacherRoute
<1>6. Redirect(p, s) \in {Outlet, "/login", Setup, Home(s), "/teacher/dashboard"}
  <2>1. CASE p \in ShellPages /\ p \notin GuestPages /\ p # Setup
    <3>1. OuterGuard(p, s) \in {Outlet, "/login", Home(s), "/teacher/dashboard"}
      BY <2>1, GuardAnswers
    <3>. QED  BY <1>3, <2>1, <3>1 DEF Redirect, Pages
  <2>2. CASE p \in GuestPages
    BY <1>0, <2>2 DEF Redirect
  <2>3. CASE p = Setup
    BY <1>1, <2>3
  <2>4. CASE p \notin Pages
    BY <2>4 DEF Redirect, Pages
  <2>. QED  BY <2>1, <2>2, <2>3, <2>4 DEF Pages
<1>7. Setup # Outlet /\ "/login" # Outlet /\ "/teacher/dashboard" # Outlet /\ Home(s) # Outlet
  BY DEF Outlet, Home
<1>. DEFINE q == Hop(p, s)
            r == Hop(q, s)
            t == Hop(r, s)
<1>8. \A x : Redirect(x, s) = Outlet \/ Hop(x, s) = Redirect(x, s)
  BY DEF Hop
<1>9. \/ Redirect(p, s) = Outlet \/ Redirect(q, s) = Outlet
      \/ Redirect(r, s) = Outlet \/ Redirect(t, s) = Outlet
  <2>1. CASE Redirect(p, s) = Outlet
    BY <2>1
  <2>2. CASE Redirect(p, s) = "/login"
    BY <1>1, <1>2, <1>7, <1>8, <2>2
  <2>3. CASE Redirect(p, s) = Setup
    BY <1>1, <1>7, <1>8, <2>3
  <2>4. CASE Redirect(p, s) = Home(s)
    BY <1>1, <1>4, <1>7, <1>8, <2>4
  <2>5. CASE Redirect(p, s) = "/teacher/dashboard"
    BY <1>1, <1>4, <1>5, <1>7, <1>8, <2>5
  <2>. QED  BY <1>6, <2>1, <2>2, <2>3, <2>4, <2>5
<1>. QED  BY <1>9, ThreeHops

(* Everybody else ends at a page of the account, at the latest at its home. *)
LEMMA SettledRests ==
    ASSUME NEW s \in Session, s # NoSession, ~s.must, NEW p
    PROVE  Redirect(Settle(p, s), s) = Outlet /\ Settle(p, s) \in Pages
<1>3. RequireCredentialsSet(s) = Outlet
  BY DEF RequireCredentialsSet
<1>1. Redirect(Home(s), s) = Outlet
  BY <1>3, LandingPages, LandingGuards
     DEF Redirect, Home, GovernanceRoute, PrincipalRoute, ManagerRoute, StaffRoute, AdminRoute,
         TeacherRoute, IsGovernance, IsPrincipal, IsManager, IsStaff, IsAdmin
<1>2. Redirect("/login", s) = Home(s)
  BY LandingPages DEF Redirect, GuestRoute
<1>4. Redirect("/teacher/dashboard", s) \in {Outlet, Home(s)}
  BY <1>3, LandingPages, LandingGuards DEF Redirect, TeacherRoute
<1>5. ASSUME AdminRoute(s) = Outlet
      PROVE  Redirect("/admin/dashboard", s) = Outlet
  BY <1>3, <1>5, LandingPages, LandingGuards DEF Redirect
<1>6. \/ Redirect(p, s) \in {Outlet, "/login", Home(s), "/teacher/dashboard"}
      \/ Redirect(p, s) = "/admin/dashboard" /\ AdminRoute(s) = Outlet
  <2>1. CASE p \in ShellPages /\ p \notin GuestPages /\ p # "/first-login-setup"
    <3>1. OuterGuard(p, s) \in {Outlet, "/login", Home(s), "/teacher/dashboard"}
      BY <2>1, GuardAnswers
    <3>2. CASE OuterGuard(p, s) # Outlet
      BY <2>1, <3>1, <3>2 DEF Redirect, Pages
    <3>3. CASE OuterGuard(p, s) = Outlet /\ p \in SystemAdminPages
      <4>1. OuterGuard(p, s) = AdminRoute(s)
        BY <3>3 DEF OuterGuard, AdminPages, SystemAdminPages, GovernancePages,
                    PrincipalPages, ManagerPages, StaffPages, TeacherPages, SharedPages
      <4>. QED  BY <1>3, <2>1, <3>3, <4>1 DEF Redirect, Pages, SystemAdminRoute
    <3>4. CASE OuterGuard(p, s) = Outlet /\ p \notin SystemAdminPages
      BY <1>3, <2>1, <3>4 DEF Redirect, Pages
    <3>. QED  BY <3>2, <3>3, <3>4
  <2>2. CASE p \in GuestPages
    BY <2>2 DEF Redirect, GuestRoute
  <2>3. CASE p = "/first-login-setup"
    BY <2>3, LandingPages DEF Redirect, FirstLoginSetupRoute
  <2>4. CASE p \notin Pages
    BY <2>4 DEF Redirect, Pages
  <2>. QED  BY <2>1, <2>2, <2>3, <2>4 DEF Pages
<1>7. "/admin/dashboard" # Outlet /\ "/login" # Outlet /\ "/teacher/dashboard" # Outlet
      /\ Home(s) # Outlet
  BY DEF Outlet, Home
<1>. DEFINE q == Hop(p, s)
            r == Hop(q, s)
<1>8. \A x : Redirect(x, s) = Outlet \/ Hop(x, s) = Redirect(x, s)
  BY DEF Hop
<1>9. Redirect(p, s) = Outlet \/ Redirect(q, s) = Outlet \/ Redirect(r, s) = Outlet
  <2>1. CASE Redirect(p, s) = Outlet
    BY <2>1
  <2>2. CASE Redirect(p, s) = "/login"
    BY <1>1, <1>2, <1>7, <1>8, <2>2
  <2>3. CASE Redirect(p, s) = Home(s)
    BY <1>1, <1>7, <1>8, <2>3
  <2>4. CASE Redirect(p, s) = "/teacher/dashboard"
    BY <1>1, <1>4, <1>7, <1>8, <2>4
  <2>5. CASE Redirect(p, s) = "/admin/dashboard" /\ AdminRoute(s) = Outlet
    BY <1>5, <1>7, <1>8, <2>5
  <2>. QED  BY <1>6, <2>1, <2>2, <2>3, <2>4, <2>5
<1>. QED  BY <1>9, ThreeHops

(* Three redirects are enough, from every address and for every session. *)
LEMMA SettleRests ==
    ASSUME NEW s \in Session, NEW p
    PROVE  Redirect(Settle(p, s), s) = Outlet /\ Settle(p, s) \in Pages
BY SignedOutRests, NewcomerRests, SettledRests

-----------------------------------------------------------------------------
(* Helpers on the state's records *)

(* A tab that is mounted anew, or sent elsewhere, settles on a page that is rendered. *)
LEMMA MountedTab ==
    ASSUME NEW p, NEW s \in Session, NEW d \in Departments \cup {AllDepts}
    PROVE  /\ FreshTab(p, s, d) \in [page : Pages, session : Session,
                                     dept : Departments \cup {AllDepts}]
           /\ Redirect(FreshTab(p, s, d).page, FreshTab(p, s, d).session) = Outlet
<1>1. DeptOnMount(s, d) \in Departments \cup {AllDepts}
  BY DEF DeptOnMount
<1>. QED  BY <1>1, SettleRests DEF FreshTab

LEMMA NoSessionIsSession == NoSession \in Session
BY DEF Session

LEMMA RequestIsCall ==
    ASSUME TypeOK, NEW kind \in {"data", "login", "setup"}, NEW who \in Users \cup {Nobody}
    PROVE  Request(kind, who) \in Call
<1>1. storage.session.no \in 0..MaxLogins /\ storage.dept \in Departments \cup {AllDepts}
  BY SessionAssumption DEF TypeOK, Session, NoSession
<1>. QED  BY <1>1, NoSessionIsSession DEF Request, Call

LEMMA UnmountedAreCalls ==
    ASSUME NEW cs \in SUBSET Call
    PROVE  Unmount(cs) \in SUBSET Call
BY DEF Unmount, Call

LEMMA AccountOfSession ==
    ASSUME NEW s \in Session
    PROVE  s.id \in Users \cup {Nobody}
BY DEF Session, NoSession

-----------------------------------------------------------------------------
(***************************************************************************)
(* The inductive invariant: TypeOK alone is not preserved, because the     *)
(* token of an answer names the account of its request.  A request to sign *)
(* in or to set up an account comes from a known account, which for the    *)
(* set-up form follows from TabsRest: the form has a session.              *)
(***************************************************************************)
CallersKnown == \A t \in Tabs : \A c \in calls[t] : c.kind # "data" => c.who \in Users
IInv == TypeOK /\ TabsRest /\ CallersKnown

LEMMA InitHolds == Init => IInv
<1>. SUFFICES ASSUME Init  PROVE IInv
  OBVIOUS
<1>1. \A t \in Tabs : tab[t] = FreshTab("/login", NoSession, AllDepts)
  BY DEF Init
<1>2. TabsRest
  BY <1>1, MountedTab, NoSessionIsSession DEF TabsRest
<1>3. TypeOK
  BY <1>1, MountedTab, NoSessionIsSession, SessionAssumption DEF TypeOK, Init
<1>4. CallersKnown
  BY DEF CallersKnown, Init
<1>. QED  BY <1>2, <1>3, <1>4 DEF IInv

(* The set-up form is shown to an account. *)
LEMMA SetupHasAccount ==
    ASSUME IInv, NEW t \in Tabs, tab[t].page = "/first-login-setup"
    PROVE  tab[t].session.id \in Users
<1>1. tab[t].session \in Session /\ Redirect("/first-login-setup", tab[t].session) = Outlet
  BY DEF IInv, TypeOK, TabsRest
<1>2. tab[t].session # NoSession
  BY <1>1, LandingPages DEF Redirect, FirstLoginSetupRoute, Outlet
<1>. QED  BY <1>1, <1>2 DEF Session

(* Requests of tab t are replaced by calls of known callers. *)
LEMMA CallsReplaced ==
    ASSUME IInv, NEW t \in Tabs, NEW S \in SUBSET Call, calls' = [calls EXCEPT ![t] = S],
           \A c \in S : c.kind # "data" => c.who \in Users
    PROVE  calls' \in [Tabs -> SUBSET Call] /\ CallersKnown'
<1>1. calls \in [Tabs -> SUBSET Call] /\ CallersKnown
  BY DEF IInv, TypeOK
<1>. QED  BY <1>1 DEF CallersKnown

(* Asking changes nothing but the requests in flight. *)
LEMMA Asking ==
    ASSUME IInv, NEW t \in Tabs,
           \/ Ask(t) \/ AskDepartments(t) \/ SubmitSetup(t)
           \/ \E u \in Users : SubmitLogin(t, u)
    PROVE  IInv'
<1>1. tab[t].session.id \in Users \cup {Nobody}
  BY AccountOfSession DEF IInv, TypeOK
<1>2. PICK c \in Call : /\ calls' = [calls EXCEPT ![t] = @ \cup {c}]
                        /\ c.kind # "data" => c.who \in Users
  <2>1. CASE Ask(t) \/ AskDepartments(t)
    <3>1. \A who \in Users \cup {Nobody} :
              Request("data", who) \in Call /\ Request("data", who).kind = "data"
      BY RequestIsCall DEF IInv, Request
    <3>. QED  BY <1>1, <2>1, <3>1 DEF Ask, AskDepartments
  <2>2. CASE SubmitSetup(t)
    <3>1. tab[t].session.id \in Users
      BY <2>2, SetupHasAccount DEF SubmitSetup
    <3>2. LET c == Request("setup", tab[t].session.id) IN c \in Call /\ c.who \in Users
      BY <3>1, RequestIsCall DEF IInv, Request
    <3>. QED  BY <2>2, <3>2 DEF SubmitSetup
  <2>3. ASSUME NEW u \in Users, SubmitLogin(t, u)
        PROVE  \E c \in Call : /\ calls' = [calls EXCEPT ![t] = @ \cup {c}]
                               /\ c.kind # "data" => c.who \in Users
    <3>1. Request("login", u) \in Call /\ Request("login", u).who \in Users
      BY RequestIsCall DEF IInv, Request
    <3>. QED  BY <2>3, <3>1 DEF SubmitLogin
  <2>. QED  BY <2>1, <2>2, <2>3
<1>3. UNCHANGED <<storage, tab, issued, expired, fresh>>
  BY DEF Ask, AskDepartments, SubmitSetup, SubmitLogin
<1>4. calls' \in [Tabs -> SUBSET Call] /\ CallersKnown'
  <2>1. calls[t] \in SUBSET Call /\ \A d \in calls[t] : d.kind # "data" => d.who \in Users
    BY DEF IInv, TypeOK, CallersKnown
  <2>. DEFINE S == calls[t] \cup {c}
  <2>2. S \in SUBSET Call /\ \A d \in S : d.kind # "data" => d.who \in Users
    BY <1>2, <2>1
  <2>3. calls' = [calls EXCEPT ![t] = S]
    BY <1>2
  <2>. HIDE DEF S
  <2>. QED  BY <2>2, <2>3, CallsReplaced
<1>. QED  BY <1>3, <1>4 DEF IInv, TypeOK, TabsRest

(* So does the server's answer, which issues tokens within the bound. *)
LEMMA Serving ==
    ASSUME IInv, NEW t \in Tabs, NEW c \in calls[t],
           ServeData(t, c) \/ ServeLogin(t, c) \/ ServeSetup(t, c)
    PROVE  IInv'
<1>1. c \in Call /\ (c.kind # "data" => c.who \in Users)
  BY DEF IInv, TypeOK, CallersKnown
<1>2. issued \in 0..MaxLogins /\ (issued < MaxLogins => issued + 1 \in 1..MaxLogins)
  BY SessionAssumption DEF IInv, TypeOK
<1>3. ASSUME NEW res \in {"pending", "ok", "refused", "denied"}, NEW grant \in Session
      PROVE  /\ [c EXCEPT !.res = res] \in Call
             /\ [c EXCEPT !.res = res, !.grant = grant] \in Call
             /\ [c EXCEPT !.res = res].kind = c.kind /\ [c EXCEPT !.res = res].who = c.who
             /\ [c EXCEPT !.res = res, !.grant = grant].kind = c.kind
             /\ [c EXCEPT !.res = res, !.grant = grant].who = c.who
  BY <1>1 DEF Call
<1>4. ASSUME issued < MaxLogins, NEW u \in Users, NEW m \in BOOLEAN
      PROVE  [no |-> issued + 1, id |-> u, must |-> m] \in Session
  BY <1>2, <1>4 DEF Session
<1>5. PICK a \in Call : /\ calls' = [calls EXCEPT ![t] = (@ \ {c}) \cup {a}]
                        /\ a.kind = c.kind /\ a.who = c.who
  <2>1. CASE ServeData(t, c)
    <3>1. \E res \in {"ok", "denied"} : Answer(t, c, [c EXCEPT !.res = res])
      BY <2>1 DEF ServeData
    <3>. QED  BY <1>3, <3>1, NoSessionIsSession DEF Answer
  <2>2. CASE ServeLogin(t, c)
    <3>1. CASE Answer(t, c, [c EXCEPT !.res = "denied"])
      BY <1>3, <3>1, NoSessionIsSession DEF Answer
    <3>2. CASE /\ issued < MaxLogins
               /\ Answer(t, c, [c EXCEPT !.res = "ok",
                     !.grant = [no |-> issued + 1, id |-> c.who, must |-> c.who \in fresh]])
      <4>. DEFINE g == [no |-> issued + 1, id |-> c.who, must |-> c.who \in fresh]
      <4>1. c.who \in Users /\ (c.who \in fresh) \in BOOLEAN
        BY <1>1, <2>2 DEF ServeLogin
      <4>2. g \in Session
        BY <1>4, <3>2, <4>1
      <4>. HIDE DEF g
      <4>3. LET a == [c EXCEPT !.res = "ok", !.grant = g]
            IN  a \in Call /\ a.kind = c.kind /\ a.who = c.who
        BY <1>3, <4>2
      <4>4. Answer(t, c, [c EXCEPT !.res = "ok", !.grant = g])
        BY <3>2 DEF g
      <4>. QED  BY <4>3, <4>4 DEF Answer
    <3>. QED  BY <2>2, <3>1, <3>2 DEF ServeLogin
  <2>3. CASE ServeSetup(t, c)
    <3>1. CASE \E res \in {"refused", "denied"} : Answer(t, c, [c EXCEPT !.res = res])
      BY <1>3, <3>1, NoSessionIsSession DEF Answer
    <3>2. CASE /\ issued < MaxLogins
               /\ Answer(t, c, [c EXCEPT !.res = "ok",
                     !.grant = [no |-> issued + 1, id |-> c.who, must |-> FALSE]])
      BY <1>1, <1>3, <1>4, <2>3, <3>2 DEF Answer, ServeSetup
    <3>. QED  BY <2>3, <3>1, <3>2 DEF ServeSetup
  <2>. QED  BY <2>1, <2>2, <2>3
<1>6. issued' \in 0..MaxLogins /\ issued <= issued' /\ fresh' \subseteq Users
  BY <1>2 DEF IInv, TypeOK, ServeData, ServeLogin, ServeSetup
<1>7. UNCHANGED <<storage, tab, expired>>
  BY DEF ServeData, ServeLogin, ServeSetup
<1>8. calls' \in [Tabs -> SUBSET Call] /\ CallersKnown'
  <2>1. calls[t] \in SUBSET Call /\ \A d \in calls[t] : d.kind # "data" => d.who \in Users
    BY DEF IInv, TypeOK, CallersKnown
  <2>. DEFINE S == (calls[t] \ {c}) \cup {a}
  <2>2. S \in SUBSET Call /\ \A d \in S : d.kind # "data" => d.who \in Users
    BY <1>1, <1>5, <2>1
  <2>3. calls' = [calls EXCEPT ![t] = S]
    BY <1>5
  <2>. HIDE DEF S
  <2>. QED  BY <2>2, <2>3, CallsReplaced
<1>9. TypeOK'
  BY <1>6, <1>7, <1>8 DEF IInv, TypeOK
<1>. QED  BY <1>7, <1>8, <1>9 DEF IInv, TabsRest

(* Every handler that moves the tab lets the router settle for its session. *)
LEMMA Delivering ==
    ASSUME IInv, NEW t \in Tabs, NEW c \in calls[t],
           OnDenied(t, c) \/ OnRefused(t, c) \/ OnLogin(t, c) \/ OnSetup(t, c)
    PROVE  IInv'
<1>1. c \in Call /\ calls[t] \in SUBSET Call
      /\ \A d \in calls[t] : d.kind # "data" => d.who \in Users
  BY DEF IInv, TypeOK, CallersKnown
<1>2. UNCHANGED <<issued, expired, fresh>>
  BY DEF OnDenied, OnRefused, OnLogin, OnSetup
<1>3. /\ tab \in [Tabs -> [page : Pages, session : Session, dept : Departments \cup {AllDepts}]]
      /\ storage \in [session : Session, dept : Departments \cup {AllDepts}]
      /\ \A v \in Tabs : Redirect(tab[v].page, tab[v].session) = Outlet
  BY DEF IInv, TypeOK, TabsRest
<1>4. PICK S \in SUBSET Call : /\ calls' = [calls EXCEPT ![t] = S]
                               /\ \A d \in S : d.kind # "data" => d.who \in Users
  <2>1. \A d \in Call : [d EXCEPT !.mounted = FALSE] \in Call
                        /\ [d EXCEPT !.mounted = FALSE].kind = d.kind
                        /\ [d EXCEPT !.mounted = FALSE].who = d.who
    BY DEF Call
  <2>2. CASE OnDenied(t, c)
    <3>1. {} \in SUBSET Call /\ calls' = [calls EXCEPT ![t] = {}]
      BY <2>2 DEF OnDenied
    <3>. QED  BY <3>1
  <2>3. CASE OnRefused(t, c)
    <3>. DEFINE R == calls[t] \ {c}
    <3>1. R \in SUBSET Call /\ calls' = [calls EXCEPT ![t] = R]
      BY <1>1, <2>3 DEF OnRefused
    <3>2. \A d \in R : d.kind # "data" => d.who \in Users
      BY <1>1
    <3>. QED  BY <3>1, <3>2
  <2>4. CASE OnLogin(t, c) \/ OnSetup(t, c)
    <3>. DEFINE R == Unmount(calls[t] \ {c})
    <3>1. R \in SUBSET Call /\ calls' = [calls EXCEPT ![t] = R]
      BY <1>1, <2>4, UnmountedAreCalls DEF OnLogin, OnSetup
    <3>2. \A d \in R : d.kind # "data" => d.who \in Users
      BY <1>1, <2>1 DEF Unmount
    <3>. QED  BY <3>1, <3>2
  <2>. QED  BY <2>2, <2>3, <2>4
<1>5. calls' \in [Tabs -> SUBSET Call] /\ CallersKnown'
  BY <1>4, CallsReplaced
<1>6. CASE OnDenied(t, c)
  <2>1. storage' = [storage EXCEPT !.session = NoSession]
        /\ tab' = [tab EXCEPT ![t] = FreshTab("/login", NoSession, storage.dept)]
    BY <1>6 DEF OnDenied
  <2>2. storage.dept \in Departments \cup {AllDepts}
    BY <1>3
  <2>3. storage' \in [session : Session, dept : Departments \cup {AllDepts}]
    BY <1>3, <2>1, NoSessionIsSession
  <2>4. /\ tab' \in [Tabs -> [page : Pages, session : Session, dept : Departments \cup {AllDepts}]]
        /\ \A v \in Tabs : Redirect(tab'[v].page, tab'[v].session) = Outlet
    BY <1>3, <2>1, <2>2, MountedTab, NoSessionIsSession
  <2>. QED  BY <1>2, <1>5, <2>3, <2>4 DEF IInv, TypeOK, TabsRest
<1>7. CASE OnRefused(t, c)
  BY <1>2, <1>5, <1>7 DEF IInv, TypeOK, TabsRest, OnRefused
<1>8. ASSUME NEW target, Enter(t, c.grant, target)
      PROVE  IInv'
  <2>1. c.grant \in Session
    BY <1>1 DEF Call
  <2>2. Redirect(Settle(target, c.grant), c.grant) = Outlet /\ Settle(target, c.grant) \in Pages
    BY <2>1, SettleRests
  <2>3. storage' \in [session : Session, dept : Departments \cup {AllDepts}]
    BY <1>3, <1>8, <2>1 DEF Enter
  <2>4. /\ tab' \in [Tabs -> [page : Pages, session : Session, dept : Departments \cup {AllDepts}]]
        /\ tab'[t].page = Settle(target, c.grant) /\ tab'[t].session = c.grant
        /\ \A v \in Tabs \ {t} : tab'[v] = tab[v]
    BY <1>3, <1>8, <2>1, <2>2 DEF Enter
  <2>5. \A v \in Tabs : Redirect(tab'[v].page, tab'[v].session) = Outlet
    BY <1>3, <2>2, <2>4
  <2>. QED  BY <1>2, <1>5, <2>3, <2>4, <2>5 DEF IInv, TypeOK, TabsRest
<1>. QED  BY <1>6, <1>7, <1>8 DEF OnLogin, OnSetup

-----------------------------------------------------------------------------
(* What the user does *)

LEMMA Moving ==
    ASSUME IInv, NEW t \in Tabs,
           (\E p \in Visited : Goto(t, p)) \/ Reload(t) \/ Logout(t)
    PROVE  IInv'
<1>1. UNCHANGED <<issued, expired, fresh>>
  BY DEF Goto, Reload, Logout
<1>2. /\ tab \in [Tabs -> [page : Pages, session : Session, dept : Departments \cup {AllDepts}]]
      /\ storage \in [session : Session, dept : Departments \cup {AllDepts}]
      /\ calls[t] \in SUBSET Call
      /\ \A v \in Tabs : Redirect(tab[v].page, tab[v].session) = Outlet
      /\ \A d \in calls[t] : d.kind # "data" => d.who \in Users
  BY DEF IInv, TypeOK, TabsRest, CallersKnown
<1>3. storage' \in [session : Session, dept : Departments \cup {AllDepts}]
  BY <1>2, NoSessionIsSession DEF Goto, Reload, Logout
<1>4. PICK S \in SUBSET Call : /\ calls' = [calls EXCEPT ![t] = S]
                               /\ \A d \in S : d.kind # "data" => d.who \in Users
  <2>1. CASE Reload(t)
    <3>1. {} \in SUBSET Call /\ calls' = [calls EXCEPT ![t] = {}]
      BY <2>1 DEF Reload
    <3>. QED  BY <3>1
  <2>2. CASE Logout(t) \/ \E p \in Visited : Goto(t, p)
    <3>. DEFINE R == Unmount(calls[t])
    <3>1. R \in SUBSET Call /\ calls' = [calls EXCEPT ![t] = R]
      BY <1>2, <2>2, UnmountedAreCalls DEF Goto, Logout
    <3>2. \A d \in Call : [d EXCEPT !.mounted = FALSE].kind = d.kind
                          /\ [d EXCEPT !.mounted = FALSE].who = d.who
      BY DEF Call
    <3>3. \A e \in R : \E d \in calls[t] : e = [d EXCEPT !.mounted = FALSE]
      BY DEF Unmount
    <3>4. ASSUME NEW e \in R
          PROVE  e.kind # "data" => e.who \in Users
      <4>1. PICK d \in calls[t] : e = [d EXCEPT !.mounted = FALSE]
        BY <3>3
      <4>2. e.kind = d.kind /\ e.who = d.who
        BY <1>2, <3>2, <4>1
      <4>. QED  BY <1>2, <4>2
    <3>. HIDE DEF R
    <3>. QED  BY <3>1, <3>4
  <2>. QED  BY <2>1, <2>2
<1>5. calls' \in [Tabs -> SUBSET Call] /\ CallersKnown'
  BY <1>4, CallsReplaced
<1>6. ASSUME NEW page \in Pages, NEW s \in Session, Redirect(page, s) = Outlet,
             tab' = [tab EXCEPT ![t].session = s, ![t].page = page]
      PROVE  /\ tab' \in [Tabs -> [page : Pages, session : Session,
                                   dept : Departments \cup {AllDepts}]]
             /\ \A v \in Tabs : Redirect(tab'[v].page, tab'[v].session) = Outlet
  BY <1>2, <1>6
<1>7. /\ tab' \in [Tabs -> [page : Pages, session : Session, dept : Departments \cup {AllDepts}]]
      /\ \A v \in Tabs : Redirect(tab'[v].page, tab'[v].session) = Outlet
  <2>1. CASE Reload(t)
    <3>. DEFINE f == FreshTab(tab[t].page, storage.session, storage.dept)
    <3>1. /\ f \in [page : Pages, session : Session, dept : Departments \cup {AllDepts}]
          /\ Redirect(f.page, f.session) = Outlet
      BY <1>2, MountedTab
    <3>2. tab' = [tab EXCEPT ![t] = f]
      BY <2>1 DEF Reload
    <3>. HIDE DEF f
    <3>. QED  BY <1>2, <3>1, <3>2
  <2>2. ASSUME NEW p \in Visited, Goto(t, p)
        PROVE  /\ tab' \in [Tabs -> [page : Pages, session : Session,
                                     dept : Departments \cup {AllDepts}]]
               /\ \A v \in Tabs : Redirect(tab'[v].page, tab'[v].session) = Outlet
    <3>. DEFINE to == Settle(p, tab[t].session)
    <3>1. to \in Pages /\ Redirect(to, tab[t].session) = Outlet
      BY <1>2, SettleRests
    <3>2. tab' = [tab EXCEPT ![t].page = to]
      BY <2>2 DEF Goto
    <3>. HIDE DEF to
    <3>. QED  BY <1>2, <3>1, <3>2
  <2>3. CASE Logout(t)
    <3>1. GuestRoute(NoSession) = Outlet
      BY DEF GuestRoute, NoSession
    <3>2. Redirect("/login", NoSession) = Outlet /\ "/login" \in Pages
      BY <3>1, LandingPages DEF Redirect, Pages
    <3>3. tab' = [tab EXCEPT ![t].session = NoSession, ![t].page = "/login"]
      BY <2>3 DEF Logout
    <3>. QED  BY <1>6, <3>2, <3>3, NoSessionIsSession
  <2>. QED  BY <2>1, <2>2, <2>3
<1>. QED  BY <1>1, <1>3, <1>5, <1>7 DEF IInv, TypeOK, TabsRest

(* Switching the department, other windows and expiry move no tab and change no session of one. *)
LEMMA Elsewhere ==
    ASSUME IInv,
           \/ \E t \in Tabs, d \in Departments \cup {AllDepts} : SetActiveDepartment(t, d)
           \/ \E u \in Users : SignInElsewhere(u)
           \/ SignOutElsewhere
           \/ \E n \in 1..issued : Expire(n)
    PROVE  IInv'
<1>1. UNCHANGED calls
  BY DEF SetActiveDepartment, SignInElsewhere, SignOutElsewhere, Expire
<1>2. CASE \E t \in Tabs, d \in Departments \cup {AllDepts} : SetActiveDepartment(t, d)
  <2>1. PICK t \in Tabs, d \in Departments \cup {AllDepts} : SetActiveDepartment(t, d)
    BY <1>2
  <2>2. TypeOK'
    BY <1>1, <2>1 DEF IInv, TypeOK, SetActiveDepartment
  <2>3. \A v \in Tabs : tab'[v].page = tab[v].page /\ tab'[v].session = tab[v].session
    BY <2>1 DEF IInv, TypeOK, SetActiveDepartment
  <2>. QED  BY <1>1, <2>2, <2>3 DEF IInv, TabsRest, CallersKnown
<1>3. ASSUME NEW u \in Users, SignInElsewhere(u)
      PROVE  IInv'
  <2>1. issued + 1 \in 1..MaxLogins /\ issued \in 0..MaxLogins /\ expired \subseteq 1..issued
    BY <1>3, SessionAssumption DEF IInv, TypeOK, SignInElsewhere
  <2>2. (u \in fresh) \in BOOLEAN
    OBVIOUS
  <2>3. [no |-> issued + 1, id |-> u, must |-> u \in fresh] \in Session
    BY <2>1, <2>2 DEF Session
  <2>4. storage' \in [session : Session, dept : Departments \cup {AllDepts}]
    BY <1>3, <2>3 DEF IInv, TypeOK, SignInElsewhere
  <2>5. issued' \in 0..MaxLogins /\ expired' \subseteq 1..issued'
    BY <1>3, <2>1, SessionAssumption DEF SignInElsewhere
  <2>. QED  BY <1>1, <1>3, <2>4, <2>5 DEF IInv, TypeOK, TabsRest, CallersKnown, SignInElsewhere
<1>4. CASE SignOutElsewhere
  BY <1>1, <1>4, NoSessionIsSession DEF IInv, TypeOK, TabsRest, CallersKnown, SignOutElsewhere
<1>5. CASE \E n \in 1..issued : Expire(n)
  BY <1>1, <1>5 DEF IInv, TypeOK, TabsRest, CallersKnown, Expire
<1>. QED  BY <1>2, <1>3, <1>4, <1>5

LEMMA NextHolds == IInv /\ [Next]_vars => IInv'
<1>. SUFFICES ASSUME IInv, [Next]_vars  PROVE IInv'
  OBVIOUS
<1>1. CASE UNCHANGED vars
  BY <1>1 DEF IInv, TypeOK, TabsRest, CallersKnown, vars
<1>2. CASE Next
  BY <1>2, Asking, Serving, Delivering, Moving, Elsewhere DEF Next
<1>. QED  BY <1>1, <1>2

(***************************************************************************)
(* The inductive invariant holds whatever accounts sign in and out, in     *)
(* whatever order answers arrive and tokens expire (client.js, Guards.jsx, *)
(* App.jsx, AuthContext.jsx).                                              *)
(***************************************************************************)
THEOREM Invariance == Spec => []IInv
BY InitHolds, NextHolds, PTL DEF Spec

(* The state of the browser keeps its type. *)
THEOREM TypeCorrect == Spec => []TypeOK
<1>1. IInv => TypeOK
  BY DEF IInv
<1>. QED  BY <1>1, Invariance, PTL

(***************************************************************************)
(* No tab rests on a page its guards refuse: the page shown is admitted    *)
(* for the account the tab believes in, for every table of roles.          *)
(***************************************************************************)
THEOREM TabsAlwaysRest == Spec => []TabsRest
<1>1. IInv => TabsRest
  BY DEF IInv
<1>. QED  BY <1>1, Invariance, PTL

(***************************************************************************)
(* Requests that sign in or set up an account name an account: the set-up  *)
(* form is never shown to nobody (Guards.jsx, FirstLoginSetup.jsx).        *)
(***************************************************************************)
THEOREM CallersAreKnown == Spec => []CallersKnown
<1>1. IInv => CallersKnown
  BY DEF IInv
<1>. QED  BY <1>1, Invariance, PTL
-----------------------------------------------------------------------------
(* The links of the layout *)

(* Which guard is above a page of the shell: no page is listed twice. *)
LEMMA PageGuards ==
    ASSUME NEW s
    PROVE  /\ \A p \in AdminPages \cup SystemAdminPages : OuterGuard(p, s) = AdminRoute(s)
           /\ \A p \in GovernancePages : OuterGuard(p, s) = GovernanceRoute(s)
           /\ \A p \in PrincipalPages : OuterGuard(p, s) = PrincipalRoute(s)
           /\ \A p \in ManagerPages : OuterGuard(p, s) = ManagerRoute(s)
           /\ \A p \in StaffPages : OuterGuard(p, s) = StaffRoute(s)
           /\ \A p \in TeacherPages : OuterGuard(p, s) = TeacherRoute(s)
           /\ \A p \in SharedPages : OuterGuard(p, s) = ProtectedRoute(s)
<1>1. /\ (AdminPages \cup SystemAdminPages) \cap (GovernancePages \cup PrincipalPages \cup ManagerPages
             \cup StaffPages \cup TeacherPages \cup SharedPages) = {}
  BY DEF AdminPages, SystemAdminPages, GovernancePages, PrincipalPages, ManagerPages, StaffPages,
         TeacherPages, SharedPages
<1>2. /\ GovernancePages \cap (PrincipalPages \cup ManagerPages \cup StaffPages \cup TeacherPages \cup SharedPages) = {}
      /\ PrincipalPages \cap (ManagerPages \cup StaffPages \cup TeacherPages \cup SharedPages) = {}
      /\ ManagerPages \cap (StaffPages \cup TeacherPages \cup SharedPages) = {}
      /\ StaffPages \cap (TeacherPages \cup SharedPages) = {}
      /\ TeacherPages \cap SharedPages = {}
  BY DEF GovernancePages, PrincipalPages, ManagerPages, StaffPages, TeacherPages, SharedPages
<1>. QED  BY <1>1, <1>2 DEF OuterGuard

LEMMA ShellIsInner ==
    /\ ShellPages \subseteq Pages /\ ShellPages \cap GuestPages = {} /\ "/first-login-setup" \notin ShellPages
    /\ (GovernancePages \cup PrincipalPages \cup ManagerPages \cup StaffPages \cup TeacherPages \cup SharedPages
          \cup AdminPages) \cap SystemAdminPages = {}
BY DEF Pages, ShellPages, GuestPages, AdminPages, SystemAdminPages, GovernancePages, PrincipalPages,
       ManagerPages, StaffPages, TeacherPages, SharedPages

(* A page of the shell is only shown to an account that has set its credentials. *)
LEMMA ShellIsSignedIn ==
    ASSUME NEW s \in Session, NEW p \in ShellPages, Redirect(p, s) = Outlet
    PROVE  s # NoSession /\ ~s.must
<1>1. OuterGuard(p, s) = Outlet /\ RequireCredentialsSet(s) = Outlet
  BY ShellIsInner DEF Redirect
<1>2. s # NoSession
  <2>1. CASE s = NoSession
    <3>1. ~IsAdmin(s) /\ ~IsSystemAdmin(s) /\ ~IsPrincipal(s) /\ ~IsGovernance(s) /\ ~IsManager(s) /\ ~IsStaff(s)
      BY <2>1 DEF IsAdmin, IsSystemAdmin, IsPrincipal, IsGovernance, IsManager, IsStaff, Role
    <3>2. AdminRoute(s) = "/login" /\ TeacherRoute(s) = "/login"
      BY <2>1, <3>1 DEF AdminRoute, TeacherRoute
    <3>3. /\ GovernanceRoute(s) = "/login" /\ PrincipalRoute(s) = "/login" /\ ManagerRoute(s) = "/login"
          /\ StaffRoute(s) = "/login" /\ ProtectedRoute(s) = "/login"
      BY <2>1, <3>1 DEF GovernanceRoute, PrincipalRoute, ManagerRoute, StaffRoute, ProtectedRoute
    <3>4. OuterGuard(p, s) = "/login"
      BY <3>2, <3>3, PageGuards DEF ShellPages
    <3>. QED  BY <1>1, <3>4 DEF Outlet
  <2>. QED  BY <2>1
<1>. QED  BY <1>1, <1>2 DEF RequireCredentialsSet, Outlet

(* The pages the guards admit an account to, whatever its role. *)
LEMMA Admitted ==
    ASSUME NEW s \in Session, s # NoSession, ~s.must, NEW p \in ShellPages
    PROVE  /\ p \notin SystemAdminPages /\ OuterGuard(p, s) = Outlet => Redirect(p, s) = Outlet
           /\ IsSystemAdmin(s) /\ OuterGuard(p, s) = Outlet => Redirect(p, s) = Outlet
           /\ p \in SharedPages => Redirect(p, s) = Outlet
<1>1. RequireCredentialsSet(s) = Outlet
  BY DEF RequireCredentialsSet
<1>2. IsSystemAdmin(s) => SystemAdminRoute(s) = Outlet
  BY DEF SystemAdminRoute
<1>3. p \in SharedPages => OuterGuard(p, s) = Outlet
  BY PageGuards DEF ProtectedRoute
<1>. QED  BY <1>1, <1>2, <1>3, ShellIsInner DEF Redirect

(* What the layout offers, role by role. *)
LEMMA Offered ==
    ASSUME NEW s \in Session, s # NoSession
    PROVE  MenuLinks(s) \subseteq SharedPages \cup
               (IF IsGovernance(s) THEN GovernancePages \cup AdminPages
                ELSE IF IsSystemAdmin(s) THEN AdminPages \cup SystemAdminPages
                ELSE IF IsPrincipal(s) THEN PrincipalPages
                ELSE IF IsManager(s) THEN ManagerPages
                ELSE IF IsStaff(s) THEN StaffPages
                ELSE IF IsAdmin(s) THEN AdminPages
                ELSE TeacherPages)
<1>. USE DEF MenuLinks, BellLinks, DrawerNav, SidebarNav, SettingsLink, BottomTabs
<1>1. CASE IsGovernance(s)
  <2>1. IsAdmin(s) /\ ~IsSystemAdmin(s) /\ ~IsPrincipal(s) /\ ~IsManager(s) /\ ~IsStaff(s)
    BY <1>1 DEF IsSystemAdmin, IsGovernance, IsAdmin, IsPrincipal, IsManager, IsStaff
  <2>. QED  BY <1>1, <2>1 DEF GovernanceNav, GovernancePages, AdminPages, SharedPages
<1>2. CASE IsSystemAdmin(s)
  <2>1. IsAdmin(s) /\ ~IsPrincipal(s) /\ ~IsGovernance(s) /\ ~IsManager(s) /\ ~IsStaff(s)
    BY <1>2 DEF IsSystemAdmin, IsGovernance, IsAdmin, IsPrincipal, IsManager, IsStaff
  <2>. QED  BY <1>2, <2>1 DEF SystemAdminNav, SystemAdminPages, AdminPages, SharedPages
<1>3. CASE IsPrincipal(s)
  <2>1. IsAdmin(s) /\ ~IsSystemAdmin(s) /\ ~IsGovernance(s) /\ ~IsManager(s) /\ ~IsStaff(s)
    BY <1>3 DEF IsSystemAdmin, IsGovernance, IsAdmin, IsPrincipal, IsManager, IsStaff
  <2>. QED  BY <1>3, <2>1 DEF PrincipalNav, PrincipalPages, SharedPages
<1>4. CASE IsManager(s)
  <2>1. ~IsAdmin(s) /\ ~IsSystemAdmin(s) /\ ~IsGovernance(s) /\ ~IsPrincipal(s) /\ ~IsStaff(s)
    BY <1>4 DEF IsSystemAdmin, IsGovernance, IsAdmin, IsPrincipal, IsManager, IsStaff
  <2>. QED  BY <1>4, <2>1 DEF ManagerNav, ManagerPages, SharedPages
<1>5. CASE IsStaff(s)
  <2>1. ~IsAdmin(s) /\ ~IsSystemAdmin(s) /\ ~IsGovernance(s) /\ ~IsPrincipal(s) /\ ~IsManager(s)
    BY <1>5 DEF IsSystemAdmin, IsGovernance, IsAdmin, IsPrincipal, IsManager, IsStaff
  <2>. QED  BY <1>5, <2>1 DEF StaffNav, StaffPages, SharedPages
<1>6. CASE IsAdmin(s) /\ ~IsSystemAdmin(s) /\ ~IsGovernance(s) /\ ~IsPrincipal(s)
  <2>1. ~IsManager(s) /\ ~IsStaff(s)
    BY <1>6 DEF IsAdmin, IsManager, IsStaff
  <2>. QED  BY <1>6, <2>1 DEF AdminNav, AdminPages, SharedPages
<1>7. CASE /\ ~IsAdmin(s) /\ ~IsSystemAdmin(s) /\ ~IsGovernance(s) /\ ~IsPrincipal(s)
           /\ ~IsManager(s) /\ ~IsStaff(s)
  BY <1>7 DEF TeacherNav, TeacherPages, SharedPages
<1>. QED  BY <1>1, <1>2, <1>3, <1>4, <1>5, <1>6, <1>7

LEMMA LinkLeads ==
    ASSUME NEW s \in Session, s # NoSession, ~s.must, NEW l \in MenuLinks(s)
    PROVE  Redirect(l, s) = Outlet
<1>1. CASE l \in SharedPages
  BY <1>1, Admitted DEF ShellPages
<1>2. CASE l \notin SharedPages /\ (IsGovernance(s) \/ IsSystemAdmin(s))
  <2>1. ~IsPrincipal(s) /\ IsAdmin(s) /\ (IsGovernance(s) => ~IsSystemAdmin(s))
    BY <1>2 DEF IsGovernance, IsSystemAdmin, IsPrincipal, IsAdmin
  <2>2. AdminRoute(s) = Outlet /\ GovernanceRoute(s) = Outlet
    BY <1>2, <2>1 DEF AdminRoute, GovernanceRoute
  <2>3. /\ l \in AdminPages \cup GovernancePages \cup SystemAdminPages
        /\ IsGovernance(s) => l \notin SystemAdminPages
    BY <1>2, Offered, ShellIsInner
  <2>4. l \in ShellPages /\ OuterGuard(l, s) = Outlet
    BY <2>2, <2>3, PageGuards DEF ShellPages
  <2>. QED  BY <1>2, <2>3, <2>4, Admitted
<1>3. CASE l \notin SharedPages /\ IsPrincipal(s)
  <2>1. ~IsGovernance(s) /\ ~IsSystemAdmin(s) /\ PrincipalRoute(s) = Outlet
    BY <1>3 DEF IsGovernance, IsSystemAdmin, IsPrincipal, PrincipalRoute
  <2>2. l \in PrincipalPages /\ l \in ShellPages
    BY <1>3, <2>1, Offered DEF ShellPages
  <2>. QED  BY <2>1, <2>2, PageGuards, ShellIsInner, Admitted
<1>4. CASE l \notin SharedPages /\ IsManager(s)
  <2>1. ~IsGovernance(s) /\ ~IsSystemAdmin(s) /\ ~IsPrincipal(s) /\ ManagerRoute(s) = Outlet
    BY <1>4 DEF IsGovernance, IsSystemAdmin, IsPrincipal, IsManager, ManagerRoute
  <2>2. l \in ManagerPages /\ l \in ShellPages
    BY <1>4, <2>1, Offered DEF ShellPages
  <2>. QED  BY <2>1, <2>2, PageGuards, ShellIsInner, Admitted
<1>5. CASE l \notin SharedPages /\ IsStaff(s)
  <2>1. /\ ~IsGovernance(s) /\ ~IsSystemAdmin(s) /\ ~IsPrincipal(s) /\ ~IsManager(s)
        /\ StaffRoute(s) = Outlet
    BY <1>5 DEF IsGovernance, IsSystemAdmin, IsPrincipal, IsManager, IsStaff, StaffRoute
  <2>2. l \in StaffPages /\ l \in ShellPages
    BY <1>5, <2>1, Offered DEF ShellPages
  <2>. QED  BY <2>1, <2>2, PageGuards, ShellIsInner, Admitted
<1>6. CASE /\ l \notin SharedPages /\ ~IsGovernance(s) /\ ~IsSystemAdmin(s) /\ ~IsPrincipal(s)
           /\ ~IsManager(s) /\ ~IsStaff(s)
  <2>1. IF IsAdmin(s) THEN AdminRoute(s) = Outlet /\ l \in AdminPages
                      ELSE TeacherRoute(s) = Outlet /\ l \in TeacherPages
    BY <1>6, Offered DEF AdminRoute, TeacherRoute
  <2>2. l \in ShellPages /\ l \notin SystemAdminPages
    BY <2>1, ShellIsInner DEF ShellPages
  <2>3. OuterGuard(l, s) = Outlet
    BY <2>1, PageGuards
  <2>. QED  BY <2>2, <2>3, Admitted
<1>. QED  BY <1>1, <1>2, <1>3, <1>4, <1>5, <1>6

(***************************************************************************)
(* Every link of the sidebar, the drawer, the bottom bar, the settings and *)
(* the notification bell leads where it says, for every table of roles:    *)
(* none is offered to an account whose guards send it elsewhere            *)
(* (navConfig.jsx, Sidebar.jsx, NotificationBell.jsx, Guards.jsx, App.jsx).*)
(* The search palette's commands are not among them: they do bounce.       *)
(***************************************************************************)
THEOREM MenusAlwaysLead == Spec => []MenusLead
<1>1. IInv => MenusLead
  <2>1. ASSUME IInv, NEW t \in Tabs, tab[t].page \in ShellPages
        PROVE  \A l \in MenuLinks(tab[t].session) : Redirect(l, tab[t].session) = Outlet
    <3>1. tab[t].session \in Session /\ Redirect(tab[t].page, tab[t].session) = Outlet
      BY <2>1 DEF IInv, TypeOK, TabsRest
    <3>. QED  BY <2>1, <3>1, ShellIsSignedIn, LinkLeads
  <2>. QED  BY <2>1 DEF MenusLead
<1>. QED  BY <1>1, Invariance, PTL

=============================================================================
