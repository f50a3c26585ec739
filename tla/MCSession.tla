----------------------------- MODULE MCSession -----------------------------
EXTENDS Session, TLC

CONSTANTS root, gov, head, boss, newby, chief, prof, d1, t1

MCUsers == {root, gov, head, boss, newby, chief, prof}
MCRoleOf == (root :> "system_admin") @@ (gov :> "governance") @@ (head :> "principal")
            @@ (boss :> "manager") @@ (newby :> "lab_staff")
            @@ (chief :> "admin") @@ (prof :> "teacher")
MCVisited == {"/register", "/admin/managers", "/manager/leaves", "/announcements/:id",
               "/nowhere"}
=============================================================================
