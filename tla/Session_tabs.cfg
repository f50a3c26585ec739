SPECIFICATION FairSpec
CONSTANTS
    root = root
    gov = gov
    head = head
    boss = boss
    newby = newby
    chief = chief
    prof = prof
    d1 = d1
    t1 = t1
    AllDepts = AllDepts
    Nobody = Nobody
    Users <- MCUsers
    RoleOf <- MCRoleOf
    Newcomers = {newby}
    Departments = {d1}
    Tabs = {t1}
    Visited <- MCVisited
    MaxLogins = 2
    MaxCalls = 1
INVARIANTS
    TypeOK
    TabsRest
    MenusLead
PROPERTY
    ExpiredTabLeaves
