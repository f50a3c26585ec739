----------------------------- MODULE StaffDesk -----------------------------
(***************************************************************************)
(* Leaves and leave credits of the operational staff: the manager's page   *)
(* (frontend/src/pages/manager/StaffLeaves.jsx) and the requests behind it *)
(* (staff_leave_service.py), of this manager, of another one and of the    *)
(* staff.  A request reads the leave and the credit, takes no lock, and    *)
(* commits the balance it computed; between the two another may commit.    *)
(***************************************************************************)
EXTENDS PageJobs, Integers

CONSTANTS Staff,
          Leaves,      \* numbers: leave l is of l days; no two of one person overlap
          Quotas,      \* the annual quotas a manager sets
          Interleaved  \* whether two requests are ever served at the same time

StaffAssumption ==
    /\ Leaves \subseteq Nat \ {0} /\ Quotas \subseteq Nat /\ Interleaved \in BOOLEAN
    /\ None \notin [balance : Int, quota : Nat]

Opening == 12
Days(l) == l

-----------------------------------------------------------------------------
(* The page *)

Load(tab) == Job("load", [tab |-> tab])

(* Each dialog covers the page and what was opened before it. *)
Plain == pg.action = None /\ pg.adjust = None /\ pg.quota = None
Bare == Plain /\ pg.ledger = None

(* The effect on the tab and the filters reads the page again. *)
ReadAgain(tab) ==
    /\ Start("load", [tab |-> tab]) /\ UNCHANGED srv
    /\ pg' = [pg EXCEPT !.tab = tab, !.loading = TRUE]
SetTab(tab) == Bare /\ tab # pg.tab /\ ReadAgain(tab)
SetFilter == Bare /\ ReadAgain(pg.tab)

OpenAction(type, l) ==
    /\ Bare /\ ~pg.loading /\ pg.tab # "credits"
    /\ l \in DOMAIN pg.rows /\ pg.rows[l] = "pending"
    /\ Local /\ pg' = [pg EXCEPT !.action = [type |-> type, l |-> l]]

(* From the header, or from the row or the card of a person. *)
OpenAdjust(e) == Bare /\ e \in DOMAIN pg.credits /\ Local /\ pg' = [pg EXCEPT !.adjust = e]
OpenQuota(e)  == Bare /\ e \in DOMAIN pg.credits /\ Local /\ pg' = [pg EXCEPT !.quota = e]

OpenStaffLedger(e) ==
    /\ Bare /\ ~pg.loading /\ pg.tab = "credits" /\ e \in DOMAIN pg.credits
    /\ Start("ledger", [of |-> e]) /\ UNCHANGED srv
    /\ pg' = [pg EXCEPT !.ledger = e, !.reading = TRUE]

CloseDialog ==
    /\ Local
    /\ \/ pg.action # None /\ pg' = [pg EXCEPT !.action = None]
       \/ pg.adjust # None /\ pg' = [pg EXCEPT !.adjust = None]
       \/ pg.quota # None  /\ pg' = [pg EXCEPT !.quota = None]
       \/ Plain /\ pg.ledger # None /\ pg' = [pg EXCEPT !.ledger = None]

(* A request that changes something; tab: where the page was, or that it is not this page. *)
Request(h, tab, l, e, n, move) ==
    Start(h, [tab |-> tab, l |-> l, e |-> e, n |-> n, move |-> move]) /\ UNCHANGED srv
Processing == pg' = [pg EXCEPT !.processing = TRUE]

ApproveReject ==
    /\ pg.action # None /\ ~pg.processing
    /\ Request(pg.action.type, pg.tab, pg.action.l, srv.owner[pg.action.l], 0, FALSE)
    /\ Processing
CreditAdjust(n) == pg.adjust # None /\ ~pg.processing /\ Request("adjust", pg.tab, 0, pg.adjust, n, TRUE) /\ Processing
UpdateQuota(n, move) == pg.quota # None /\ ~pg.processing /\ Request("quota", pg.tab, 0, pg.quota, n, move) /\ Processing

(* Another manager decides or adjusts; a member of the staff applies or cancels. *)
Elsewhere ==
    /\ UNCHANGED pg
    /\ \/ \E l \in Leaves, h \in {"approve", "reject", "cancel"} :
             srv.status[l] # "none" /\ Request(h, "other", l, srv.owner[l], 0, FALSE)
       \/ \E e \in Staff : Request("adjust", "other", 0, e, 1, TRUE)

ApplyElsewhere(l) ==
    /\ srv.status[l] = "none"
    /\ clicks < MaxClicks /\ clicks' = clicks + 1
    /\ srv' = [srv EXCEPT !.status[l] = "pending"]
    /\ UNCHANGED <<pg, jobs>>

-----------------------------------------------------------------------------
(* The server *)

Writes == {"approve", "reject", "cancel", "adjust", "quota"}

(* The row of a person's credit, and the entry that opens it, made at the first use. *)
CreditOf(e) == IF srv.credit[e] = None THEN [balance |-> Opening, quota |-> Opening] ELSE srv.credit[e]
WithCredit(E) ==
    [srv EXCEPT !.credit = [e \in Staff |-> IF e \in E THEN CreditOf(e) ELSE @[e]],
                !.ledger = [e \in Staff |-> IF e \in E /\ srv.credit[e] = None THEN Opening ELSE @[e]]]

(* What the request finds: whether it may go on, and the credit it computes with. *)
Allowed(j) ==
    CASE j.h \in {"approve", "reject"} -> srv.status[j.a.l] = "pending"
      [] j.h = "cancel"                -> srv.status[j.a.l] \in {"pending", "approved"}
      [] OTHER                         -> TRUE
ReadsCredit(j) == j.h \in {"approve", "adjust", "quota"} \/ (j.h = "cancel" /\ srv.status[j.a.l] = "approved")

ServeRead(j) ==
    /\ Sent(j, Writes)
    /\ Interleaved \/ ~\E k \in jobs : k.res = "read"
    /\ IF ~Allowed(j)
       THEN UNCHANGED srv /\ Answer(j, "refused", None)
       ELSE IF ReadsCredit(j)
       THEN srv' = WithCredit({j.a.e}) /\ Answer(j, "read", [credit |-> CreditOf(j.a.e)])
       ELSE UNCHANGED srv /\ Answer(j, "read", [credit |-> None])

(* A quota of zero counts as none set (`or DEFAULT_OPENING_BALANCE`). *)
OldQuota(q) == IF q = 0 THEN Opening ELSE q

(* The change of the balance, which is also the entry of the ledger. *)
Change(j) ==
    CASE j.h = "approve" -> 0 - Days(j.a.l)
      [] j.h = "cancel"  -> Days(j.a.l)
      [] j.h = "adjust"  -> j.a.n
      [] j.h = "quota"   -> IF j.a.move THEN j.a.n - OldQuota(j.got.credit.quota) ELSE 0
      [] OTHER           -> 0

NewStatus(j) ==
    CASE j.h = "approve" -> "approved"
      [] j.h = "reject"  -> "rejected"
      [] j.h = "cancel"  -> "cancelled"

(* Mutant: a leave that was never approved is refunded too. *)
RefundsAnyway(j) == j.got.credit # None \/ j.h = "cancel"
HasEntry(j) == j.got.credit # None

CreditAfter(j) ==
    LET read == IF j.got.credit = None THEN CreditOf(j.a.e) ELSE j.got.credit
    IN  [balance |-> read.balance + Change(j), quota |-> IF j.h = "quota" THEN j.a.n ELSE read.quota]

(* A row keeps the columns that the request does not write. *)
ServeCommit(j) ==
    /\ j.h \in Writes /\ j.res = "read"
    /\ LET after == CreditAfter(j)
           S == IF j.a.l = 0 THEN srv ELSE [srv EXCEPT !.status[j.a.l] = NewStatus(j)]
           C == IF ~HasEntry(j) THEN S
                ELSE [S EXCEPT !.credit[j.a.e] = [balance |-> IF Change(j) = 0 THEN CreditOf(j.a.e).balance ELSE after.balance,
                                                  quota   |-> IF j.h = "quota" THEN after.quota ELSE CreditOf(j.a.e).quota],
                               !.ledger[j.a.e] = @ + Change(j)]
       IN  srv' = IF HasEntry(j) /\ j.a.l # 0 THEN [C EXCEPT !.net[j.a.l] = @ + Change(j)] ELSE C
    /\ Answer(j, "ok", None)

(* The list of all credits makes the rows that are missing; the list of leaves follows the tab. *)
ServeLoad(j) ==
    /\ Sent(j, {"load"})
    /\ srv' = WithCredit(Staff)
    /\ LET shown == {l \in Leaves : CASE j.a.tab = "pending" -> srv.status[l] = "pending"
                                      [] j.a.tab = "history" -> srv.status[l] # "none"
                                      [] OTHER -> FALSE}
       IN  Answer(j, "ok", [rows |-> [l \in shown |-> srv.status[l]],
                            credits |-> [e \in Staff |-> CreditOf(e)]])

ServeLedger(j) ==
    /\ Sent(j, {"ledger"})
    /\ srv' = WithCredit({j.a.of})
    /\ Answer(j, "ok", [of |-> j.a.of, balance |-> CreditOf(j.a.of).balance])

-----------------------------------------------------------------------------
(* After the await *)

OnLoaded(j) ==
    /\ Back(j, {"load"})
    /\ Then(j, {})
    /\ LET P == [pg EXCEPT !.loading = FALSE]
       IN  pg' = CASE j.res # "ok" -> P
                   [] j.res = "ok" /\ j.a.tab = "credits" -> [P EXCEPT !.credits = j.got.credits]
                   [] OTHER -> [P EXCEPT !.credits = j.got.credits, !.rows = j.got.rows]

(* A ledger that cannot be read leaves the last one, under the new name. *)
OnLedger(j) ==
    /\ Back(j, {"ledger"})
    /\ Then(j, {})
    /\ LET P == [pg EXCEPT !.reading = FALSE]
       IN  pg' = IF j.res = "ok" THEN [P EXCEPT !.summary = j.got] ELSE P

(* The tab of the click is read again; a ledger is not, none was open at the click. *)
OnWritten(j) ==
    /\ Back(j, Writes) /\ j.a.tab # "other" /\ j.res = "ok"
    /\ Then(j, {Load(j.a.tab)})
    /\ LET P == [pg EXCEPT !.processing = FALSE, !.loading = TRUE]
       IN  pg' = CASE j.h \in {"approve", "reject"} -> [P EXCEPT !.action = None]
                   [] j.h = "adjust" -> [P EXCEPT !.adjust = None]
                   [] j.h = "quota"  -> [P EXCEPT !.quota = None]

OnError(j) ==
    /\ Back(j, Writes) /\ j.a.tab # "other" /\ j.res \in {"refused", "failed"}
    /\ Then(j, {}) /\ pg' = [pg EXCEPT !.processing = FALSE]

OnElsewhere(j) ==
    /\ Back(j, Writes) /\ j.a.tab = "other" /\ j.res # "read"
    /\ Then(j, {}) /\ UNCHANGED pg

-----------------------------------------------------------------------------
Init ==
    /\ \E owner \in [Leaves -> Staff], status \in [Leaves -> {"none", "pending"}] :
          srv = [owner |-> owner, status |-> status, credit |-> [e \in Staff |-> None],
                 ledger |-> [e \in Staff |-> 0], net |-> [l \in Leaves |-> 0]]
    /\ pg = [tab |-> "pending", rows |-> <<>>, credits |-> <<>>, loading |-> TRUE, action |-> None,
             adjust |-> None, quota |-> None, ledger |-> None, summary |-> None, reading |-> FALSE,
             processing |-> FALSE]
    /\ jobs = {Load("pending")}
    /\ clicks = 0

Next ==
    \/ \E j \in jobs :
          \/ ServeRead(j) \/ ServeCommit(j) \/ ServeLoad(j) \/ ServeLedger(j) \/ Fail(j)
          \/ OnLoaded(j) \/ OnLedger(j) \/ OnWritten(j) \/ OnError(j) \/ OnElsewhere(j)
    \/ \E tab \in {"pending", "history", "credits"} : SetTab(tab)
    \/ \E l \in Leaves : OpenAction("approve", l) \/ OpenAction("reject", l) \/ ApplyElsewhere(l)
    \/ \E e \in Staff : OpenAdjust(e) \/ OpenQuota(e) \/ OpenStaffLedger(e)
    \/ \E n \in {1, -1} : CreditAdjust(n)
    \/ \E n \in Quotas, move \in BOOLEAN : UpdateQuota(n, move)
    \/ SetFilter \/ CloseDialog \/ ApproveReject \/ Elsewhere

Spec == Init /\ [][Next]_vars

-----------------------------------------------------------------------------
(***************************************************************************)
(* The balance of every member of the staff is what the entries of the     *)
(* ledger add up to, and the entries about a leave take its days off       *)
(* exactly while it is approved: through approvals, refunds, awards and    *)
(* changed quotas, calls that fail and answers that are lost.  It holds    *)
(* while requests are served one at a time; nothing in the code makes      *)
(* them wait for each other, and when they do not it fails.                *)
(***************************************************************************)
StaffLedgerAddsUp ==
    /\ \A e \in Staff : srv.credit[e] # None => srv.credit[e].balance = srv.ledger[e]
    /\ \A l \in Leaves : srv.net[l] = IF srv.status[l] = "approved" THEN 0 - Days(l) ELSE 0

(***************************************************************************)
(* The page never waits for nothing: the spinners and the buttons that are *)
(* disabled have a handler that will come back.                            *)
(***************************************************************************)
WaitingHasJob ==
    /\ pg.loading => InFlight({"load"})
    /\ pg.reading => InFlight({"ledger"})
    /\ pg.processing => \E j \in jobs : j.h \in Writes /\ j.a.tab # "other"
=============================================================================
