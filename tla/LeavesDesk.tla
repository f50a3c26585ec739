----------------------------- MODULE LeavesDesk -----------------------------
(***************************************************************************)
(* The administrator's queue of leave requests (frontend/src/pages/admin/  *)
(* Leaves.jsx): decisions with an optimistic update and an Undo, bulk      *)
(* decisions, the substitution dialog with its candidate lists, the        *)
(* acknowledgement of the 7-day limit and the cancellation dialog.         *)
(***************************************************************************)
EXTENDS PageJobs

CONSTANTS Leaves,      \* period numbers of the requests of one teacher and day
          Filed,       \* the ones filed before the page is opened
          Substitutes, \* teachers who may stand in
          AtLimit      \* those who have reached the 7-day limit

DeskAssumption ==
    /\ Leaves \subseteq Nat /\ Filed \subseteq Leaves
    /\ AtLimit \subseteq Substitutes

Statuses == {"pending", "approved", "rejected", "cancelled"}
Row == [st : Statuses, sub : Substitutes \cup {None}, locked : BOOLEAN]

-----------------------------------------------------------------------------
(* Grouping and filtering of the queue *)

(* groupLeaves: rows of one teacher, day and reason are told apart by status. *)
Key(rows, l) == rows[l].st
Requests(rows, k) == {l \in DOMAIN rows : Key(rows, l) = k}
First(S) == CHOOSE l \in S : \A m \in S : l <= m

NeedsSub(rows, k) == k = "approved" /\ \E l \in Requests(rows, k) : rows[l].sub = None

InTab(rows, k, t) ==
    CASE t = "needs_sub" -> NeedsSub(rows, k)
      [] t = "rejected"  -> k \in {"rejected", "cancelled"}
      [] t = "all"       -> TRUE
      [] OTHER           -> k = t

Queue == {k \in Statuses : Requests(pg.shown, k) # {} /\ InTab(pg.shown, k, pg.tab)}

(* The buttons a row of the queue offers. *)
RowOffers(k) ==
    (IF k = "pending" /\ pg.busy = None THEN {"approve", "reject"} ELSE {})
    \cup (IF k = "approved" THEN {"substitute"} ELSE {})
    \cup (IF k \notin {"cancelled", "rejected"} /\ pg.busy = None THEN {"cancel"} ELSE {})

NoDialog == [open |-> FALSE, group |-> None, view |-> <<>>, active |-> None,
             of |-> None, cross |-> FALSE]

(* Rendering the dialog reads its group and its candidates: without them the page breaks. *)
Crashed == pg.dialog.open /\ (pg.dialog.group = None \/ pg.dialog.of = None)

(* A handler that marks the page busy, and the end of its marking. *)
Busily(h, a) == ~Crashed /\ Start(h, a) /\ UNCHANGED srv
Idle == [pg EXCEPT !.busy = None]

Load == Job("load", None)

(* What the dialog's handlers close over: its request and its group, a teacher, a flag. *)
Arg(l, k, view, t, flag) == [l |-> l, group |-> k, view |-> view, t |-> t, flag |-> flag]
OnActive(t, flag) ==
    Arg(pg.dialog.active, pg.dialog.group, pg.dialog.view, t, flag)

-----------------------------------------------------------------------------
(* The server *)

Decidable(l) == l \in DOMAIN srv.rows /\ srv.rows[l].st = "pending"
Live(l) == l \in DOMAIN srv.rows /\ srv.rows[l].st \in {"pending", "approved"}
Covered(l, t) == [srv.rows EXCEPT ![l].sub = t, ![l].locked = FALSE]

Deciding == {"approve", "reject", "undoApprove", "undoReject", "bulk", "cancel", "orphan"}

(* approve, reject and admin-cancel, one request after the other; the rest of a  *)
(* Promise.all whose first failure has been handled goes on as an orphan.  An    *)
(* approval has committed when its handler calls the substitution engine.        *)
ServeDecision(j) ==
    /\ Sent(j, Deciding)
    /\ j.h = "bulk" => j.a.all \cap srv.engine = {}
    /\ \E l \in j.a.ids :
          LET able == IF j.a.st = "cancelled" THEN Live(l) ELSE Decidable(l)
          IN  /\ srv' = IF able THEN [srv EXCEPT
                             !.rows = [Covered(l, None) EXCEPT ![l].st = j.a.st],
                             !.engine = IF j.a.st = "approved" THEN @ \cup {l} ELSE @]
                        ELSE srv
              /\ jobs' = (jobs \ {j}) \cup {[j EXCEPT !.a.ids = @ \ {l},
                             !.res = IF able \/ j.h = "orphan" THEN "sent" ELSE "failed"]}
    /\ UNCHANGED <<pg, clicks>>

(* All requests of j are decided and the engine is done with them: the answer. *)
ServeDecided(j) ==
    /\ Sent(j, Deciding) /\ j.a.ids = {} /\ j.a.all \cap srv.engine = {}
    /\ Answer(j, IF j.a.all \subseteq DOMAIN srv.rows THEN "ok" ELSE "failed", None)
    /\ UNCHANGED srv

(* auto_process_approved_leave, in a transaction of its own: in autonomous mode it covers *)
(* the leave as it was handed to it, whatever its status has become; in the other modes,  *)
(* or when nobody is eligible, it does nothing.                                           *)
Engine(l) ==
    /\ l \in srv.engine
    /\ \E t \in {None} \cup (Substitutes \ {srv.rows[m].sub : m \in DOMAIN srv.rows}) :
          /\ t # None => srv.rows[l].sub = None
          /\ srv' = [srv EXCEPT !.engine = @ \ {l},
                                !.rows = IF t = None THEN @ ELSE Covered(l, t)]
    /\ UNCHANGED <<pg, jobs, clicks>>

(* Somebody has covered the leave meanwhile: the INSERT breaks UNIQUE, and the approval *)
(* answers 500 although it has been committed.                                          *)
EngineClash(j) ==
    /\ Sent(j, Deciding)
    /\ \E l \in j.a.all \cap srv.engine :
          /\ srv.rows[l].sub # None
          /\ srv' = [srv EXCEPT !.engine = @ \ {l}]
    /\ Answer(j, "failed", None)

Rest(j) == IF j.a.ids = {} THEN {}
           ELSE {[j EXCEPT !.h = "orphan", !.res = "sent", !.a.view = <<>>, !.a.all = {}]}

OrphanEnds(j) == Back(j, {"orphan"}) /\ Then(j, {}) /\ UNCHANGED pg

(* Mutant: the status of the request is not looked at. *)
AssignableAnyStatus(j) ==
    /\ j.a.l \in DOMAIN srv.rows
    /\ IF j.h = "assign" THEN srv.rows[j.a.l].sub = None
       ELSE srv.rows[j.a.l].sub \notin {None, j.a.t} /\ ~srv.rows[j.a.l].locked
(* An override looks at the assignment and not at the leave's status. *)
Assignable(j) ==
    /\ j.a.l \in DOMAIN srv.rows
    /\ IF j.h = "assign" THEN srv.rows[j.a.l].st = "approved" /\ srv.rows[j.a.l].sub = None
       ELSE srv.rows[j.a.l].sub \notin {None, j.a.t} /\ ~srv.rows[j.a.l].locked

ServeAssignment(j) ==
    /\ Sent(j, {"assign", "override"})
    /\ LET warned == Assignable(j) /\ j.a.t \in AtLimit /\ ~j.a.flag
       IN  /\ Answer(j, IF warned THEN "limit" ELSE IF Assignable(j) THEN "ok" ELSE "failed", None)
           /\ srv' = IF warned THEN [srv EXCEPT !.acked = @ \cup {j.a.t}]
                     ELSE IF Assignable(j) THEN [srv EXCEPT !.rows = Covered(j.a.l, j.a.t)]
                     ELSE srv

ServeUndoOrLock(j) ==
    /\ Sent(j, {"unassign", "lock"})
    /\ LET l == j.a.l
           able == /\ l \in DOMAIN srv.rows /\ srv.rows[l].sub # None
                   /\ j.h = "lock" \/ ~srv.rows[l].locked
       IN  /\ Answer(j, IF able THEN "ok" ELSE "failed", None)
           /\ srv' = IF ~able THEN srv
                     ELSE IF j.h = "lock" THEN [srv EXCEPT !.rows[l].locked = j.a.flag]
                     ELSE [srv EXCEPT !.rows = Covered(l, None)]

(* An engine at work finds its leave gone. *)
ServeClear(j) ==
    /\ Sent(j, {"clear"})
    /\ Answer(j, "ok", None)
    /\ srv' = [srv EXCEPT !.rows = <<>>, !.engine = {}]

(* Reads: the list of leaves; the candidates of a request, the impact of a cancellation. *)
ServeRead(j) ==
    /\ Sent(j, {"load", "reload", "open", "switch", "filter", "reopen", "impact"})
    /\ Answer(j, "ok", IF j.h \in {"load", "reload"} THEN srv.rows ELSE None)
    /\ UNCHANGED srv

(* A teacher files another request. *)
Apply(l) ==
    /\ l \notin DOMAIN srv.rows
    /\ srv' = [srv EXCEPT !.rows = [m \in DOMAIN @ \cup {l} |->
                 IF m = l THEN [st |-> "pending", sub |-> None, locked |-> FALSE] ELSE @[m]]]
    /\ UNCHANGED <<pg, jobs, clicks>>

(* The teacher withdraws one, or another administrator cancels it. *)
CancelElsewhere(l) ==
    /\ Live(l)
    /\ clicks < MaxClicks /\ clicks' = clicks + 1
    /\ srv' = [srv EXCEPT !.rows = [Covered(l, None) EXCEPT ![l].st = "cancelled"]]
    /\ UNCHANGED <<pg, jobs>>

-----------------------------------------------------------------------------
(* Decisions on a group *)

(* What a decision closes over: the requests still to be sent, all of them, the rows before. *)
Decision(ids, view, st) == [ids |-> ids, all |-> ids, view |-> view, st |-> st]

Optimistic(rows, ids, st) ==
    [l \in DOMAIN rows |-> IF l \in ids THEN [rows[l] EXCEPT !.st = st] ELSE rows[l]]

(* handleApproveGroup and handleRejectGroup up to the await. *)
DecideGroup(h, st) ==
    /\ "pending" \in Queue /\ h \in RowOffers("pending")
    /\ LET ids == Requests(pg.shown, "pending")
       IN  /\ Busily(h, Decision(ids, pg.shown, st))
           /\ pg' = [pg EXCEPT !.busy = h, !.shown = Optimistic(@, ids, st)]

ApproveGroup == DecideGroup("approve", "approved")
RejectGroup == DecideGroup("reject", "rejected")

(* The approvals are in: the rows are read again before anything else happens. *)
OnApproved(j) ==
    /\ Back(j, {"approve"}) /\ j.res = "ok"
    /\ Then(j, {Job("reload", [by |-> "approve", ids |-> j.a.all])})
    /\ UNCHANGED pg

(* The group is looked up under its old key, which names the pending rows.  load swallows *)
(* a failure and reads as no rows: the page keeps its own, and the toast comes as well.   *)
OnApprovedRead(j) ==
    /\ Back(j, {"reload"}) /\ j.a.by = "approve"
    /\ LET rows  == IF j.res = "ok" THEN j.got ELSE <<>>
           again == Requests(rows, "pending")
           uncovered == \E l \in j.a.ids \cap DOMAIN rows : rows[l].sub = None
       IN  Then(j, IF again = {} \/ ~uncovered THEN {}
                   ELSE {Job("open", Arg(First(again), "pending", rows, None, pg.cross))})
    /\ pg' = [Idle EXCEPT !.shown = IF j.res = "ok" THEN j.got ELSE @,
                          !.undo = [h |-> "undoApprove", ids |-> j.a.ids]]

OnRejected(j) ==
    /\ Back(j, {"reject"}) /\ j.res = "ok"
    /\ Then(j, {Load})
    /\ pg' = [Idle EXCEPT !.undo = [h |-> "undoReject", ids |-> j.a.all]]

(* One call of the Promise.all failed: the rows go back to what they were. *)
OnDecisionFailed(j) ==
    /\ Back(j, {"approve", "reject"}) /\ j.res = "failed"
    /\ Then(j, Rest(j))
    /\ pg' = [Idle EXCEPT !.shown = j.a.view, !.undo = None]

(* The Undo of the toast rejects what was approved and approves what was rejected. *)
PressUndo ==
    /\ pg.undo # None
    /\ Busily(pg.undo.h, Decision(pg.undo.ids, <<>>,
                                  IF pg.undo.h = "undoApprove" THEN "rejected" ELSE "approved"))
    /\ pg' = [pg EXCEPT !.undo = None]

OnUndo(j) ==
    /\ Back(j, {"undoApprove", "undoReject"})
    /\ Then(j, IF j.res = "ok" THEN {Load} ELSE Rest(j))
    /\ UNCHANGED pg

(* The toast goes after six seconds. *)
ToastEnds == pg.undo # None /\ Local /\ pg' = [pg EXCEPT !.undo = None]

OnLoaded(j) ==
    /\ Back(j, {"load"})
    /\ Then(j, {})
    /\ pg' = [pg EXCEPT !.shown = IF j.res = "ok" THEN j.got ELSE @]

-----------------------------------------------------------------------------
(* Selection, bulk decisions, clearing the history *)

ToggleSelect ==
    /\ ~Crashed /\ "pending" \in Queue
    /\ Click
    /\ pg' = [pg EXCEPT !.ticked = ~@]

(* Only what the present tab shows is sent, whatever is ticked. *)
TickedRequests == IF pg.ticked /\ "pending" \in Queue THEN Requests(pg.shown, "pending") ELSE {}

BulkDecide(st) ==
    /\ pg.busy # "bulk" /\ TickedRequests # {}
    /\ Busily("bulk", Decision(TickedRequests, <<>>, st))
    /\ pg' = [pg EXCEPT !.busy = "bulk"]

OnBulk(j) ==
    /\ Back(j, {"bulk"})
    /\ Then(j, IF j.res = "ok" THEN {Load} ELSE {})
    /\ pg' = [Idle EXCEPT !.ticked = IF j.res = "ok" THEN FALSE ELSE @]

ClearHistory ==
    /\ ~pg.ticked /\ pg.busy # "clear"
    /\ Busily("clear", None)
    /\ pg' = [pg EXCEPT !.busy = "clear"]

OnCleared(j) ==
    /\ Back(j, {"clear"})
    /\ Then(j, IF j.res = "ok" THEN {Load} ELSE {})
    /\ pg' = Idle

SetTab(t) == ~Crashed /\ pg.tab # t /\ Click /\ pg' = [pg EXCEPT !.tab = t]

-----------------------------------------------------------------------------
(* The substitution dialog *)

OpenSubModal ==
    /\ ~pg.dialog.open /\ "approved" \in Queue /\ "substitute" \in RowOffers("approved")
    /\ Busily("open", Arg(First(Requests(pg.shown, "approved")), "approved", pg.shown, None, pg.cross))
    /\ pg' = [pg EXCEPT !.busy = "open"]

(* openSubModal sets the whole dialog. *)
OnOpened(j) ==
    /\ Back(j, {"open", "reopen"})
    /\ Then(j, {})
    /\ pg' = [Idle EXCEPT !.dialog =
                 IF j.res = "failed" THEN @
                 ELSE [open |-> TRUE, group |-> j.a.group, view |-> j.a.view, active |-> j.a.l,
                       of |-> j.a.l, cross |-> j.a.flag]]

CloseDialog ==
    /\ pg.dialog.open /\ ~Crashed
    /\ Local
    /\ pg' = [pg EXCEPT !.dialog = NoDialog]

Assigned == pg.dialog.view[pg.dialog.active].sub # None
Locked == pg.dialog.view[pg.dialog.active].locked

(* switchSubModalPeriod: the buttons of the other periods. *)
SwitchPeriod(l) ==
    /\ pg.dialog.open /\ ~Crashed /\ pg.busy # "switch"
    /\ l \in Requests(pg.dialog.view, pg.dialog.group) \ {pg.dialog.active}
    /\ Busily("switch", Arg(l, None, <<>>, None, pg.cross))
    /\ pg' = [pg EXCEPT !.busy = "switch"]

(* The updater spreads the dialog as it is now, even one that has been closed. *)
OnSwitched(j) ==
    /\ Back(j, {"switch"})
    /\ Then(j, {})
    /\ pg' = [Idle EXCEPT !.dialog =
                 IF j.res = "failed" THEN @
                 ELSE [@ EXCEPT !.open = TRUE, !.active = j.a.l, !.of = j.a.l, !.cross = j.a.flag]]

(* applyCandidateFilters, from the "Other Departments" switch. *)
ToggleCross ==
    /\ pg.dialog.open /\ pg.busy # "filter"
    /\ Busily("filter", Arg(pg.dialog.active, None, <<>>, None, ~pg.cross))
    /\ pg' = [pg EXCEPT !.busy = "filter", !.cross = ~@]

OnFiltered(j) ==
    /\ Back(j, {"filter"})
    /\ Then(j, {})
    /\ pg' = [Idle EXCEPT !.dialog =
                 IF j.res = "failed" THEN @
                 ELSE [@ EXCEPT !.open = TRUE, !.of = j.a.l, !.cross = j.a.flag]]

(* Mutant: the acknowledgement is sent without having been asked for. *)
AssignUnasked(t) ==
    /\ pg.dialog.open /\ ~Crashed /\ ~(Assigned /\ Locked) /\ pg.busy # "assign"
    /\ Busily("assign", OnActive(t, TRUE))
    /\ pg' = [pg EXCEPT !.busy = "assign"]
(* handleAssignSubstitute from a candidate row; a recommended one can also be pressed when *)
(* the period has a substitute.                                                            *)
Assign(t) ==
    /\ pg.dialog.open /\ ~Crashed /\ ~(Assigned /\ Locked) /\ pg.busy # "assign"
    /\ Busily("assign", OnActive(t, FALSE))
    /\ pg' = [pg EXCEPT !.busy = "assign"]

(* handleOverride from the Swap button of another teacher. *)
Override(t) ==
    /\ pg.dialog.open /\ ~Crashed /\ Assigned /\ ~Locked /\ pg.busy # "override"
    /\ pg.dialog.view[pg.dialog.active].sub # t
    /\ Busily("override", OnActive(t, FALSE))
    /\ pg' = [pg EXCEPT !.busy = "override"]

(* "I Understand & Assign": the teacher of the warning, the request now active. *)
ConfirmLimit ==
    /\ pg.limit # None /\ pg.dialog.open /\ pg.busy \notin {"assign", "override"}
    /\ Busily(pg.limit.h, OnActive(pg.limit.t, TRUE))
    /\ pg' = [pg EXCEPT !.busy = pg.limit.h]

DismissLimit ==
    /\ pg.limit # None /\ ~Crashed /\ pg.busy \notin {"assign", "override"}
    /\ Local
    /\ pg' = [pg EXCEPT !.limit = None]

OnLimit(j) ==
    /\ Back(j, {"assign", "override"}) /\ j.res = "limit"
    /\ Then(j, {})
    /\ pg' = [Idle EXCEPT !.limit = [h |-> j.h, t |-> j.a.t]]

Undo ==
    /\ pg.dialog.open /\ ~Crashed /\ Assigned /\ ~Locked /\ pg.busy # "unassign"
    /\ Busily("unassign", OnActive(None, FALSE))
    /\ pg' = [pg EXCEPT !.busy = "unassign"]

ToggleLock ==
    /\ pg.dialog.open /\ ~Crashed /\ Assigned /\ pg.busy # "lock"
    /\ Busily("lock", OnActive(None, ~Locked))
    /\ pg' = [pg EXCEPT !.busy = "lock"]

InDialog == {"assign", "override", "unassign", "lock"}

(* The write is in: the warning goes, and the rows are read again. *)
OnWritten(j) ==
    /\ Back(j, InDialog) /\ j.res = "ok"
    /\ Then(j, {Job("reload", [by |-> j.h, l |-> j.a.l, group |-> j.a.group])})
    /\ pg' = [pg EXCEPT !.limit = IF j.h \in {"assign", "override"} THEN None ELSE @]

(* The fresh rows: lock puts the fresh group in the dialog, the others read candidates again. *)
OnWrittenRead(j) ==
    /\ Back(j, {"reload"}) /\ j.res = "ok" /\ j.a.by \in InDialog
    /\ LET found  == j.a.l \in Requests(j.got, j.a.group)
           locked == [pg.dialog EXCEPT !.open = TRUE, !.group = j.a.group,
                                       !.view = j.got, !.active = j.a.l]
           again  == found /\ j.a.by # "lock"
       IN  /\ Then(j, IF ~again THEN {}
                      ELSE {Job("reopen", Arg(j.a.l, j.a.group, j.got, None,
                                              j.a.by = "assign" /\ pg.cross))})
           /\ pg' = [pg EXCEPT !.shown = j.got,
                               !.dialog = IF found /\ ~again THEN locked ELSE @,
                               !.busy = IF again THEN @ ELSE None]

OnDialogFailed(j) ==
    /\ Back(j, InDialog \cup {"reload"}) /\ j.res = "failed"
    /\ j.h = "reload" => j.a.by \in InDialog
    /\ Then(j, {})
    /\ pg' = Idle

-----------------------------------------------------------------------------
(* The cancellation dialog *)

OpenCancel(k) ==
    /\ k \in Queue /\ "cancel" \in RowOffers(k)
    /\ Busily("impact", Requests(pg.shown, k))
    /\ pg' = [pg EXCEPT !.busy = "impact"]

OnImpact(j) ==
    /\ Back(j, {"impact"})
    /\ Then(j, {})
    /\ pg' = [Idle EXCEPT !.cancelling = IF j.res = "ok" THEN j.a ELSE @]

KeepLeaves == pg.cancelling # {} /\ ~Crashed /\ Local /\ pg' = [pg EXCEPT !.cancelling = {}]

AdminCancel ==
    /\ pg.cancelling # {} /\ pg.busy # "cancel"
    /\ Busily("cancel", Decision(pg.cancelling, <<>>, "cancelled"))
    /\ pg' = [pg EXCEPT !.busy = "cancel"]

(* A failed cancellation leaves the dialog and the rows as they are. *)
OnCancelled(j) ==
    /\ Back(j, {"cancel"})
    /\ Then(j, IF j.res = "ok" THEN {Load} ELSE Rest(j))
    /\ pg' = [Idle EXCEPT !.cancelling = IF j.res = "ok" THEN {} ELSE @]

-----------------------------------------------------------------------------
Init ==
    /\ \E rows \in [Filed -> Row] :
          /\ \A l \in Filed : /\ rows[l].st \in {"pending", "approved"}
                              /\ rows[l].sub # None => rows[l].st = "approved"
                              /\ ~rows[l].locked
          /\ srv = [rows |-> rows, acked |-> {}, engine |-> {}]
    /\ pg = [shown |-> <<>>, busy |-> None, dialog |-> NoDialog, cancelling |-> {},
             limit |-> None, undo |-> None, tab |-> "all", cross |-> FALSE, ticked |-> FALSE]
    /\ jobs = {Load}
    /\ clicks = 0

Next ==
    \/ \E j \in jobs :
          \/ ServeDecision(j) \/ ServeDecided(j) \/ EngineClash(j)
          \/ ServeAssignment(j) \/ ServeUndoOrLock(j) \/ ServeClear(j) \/ ServeRead(j)
          \/ Fail(j) \/ OrphanEnds(j)
          \/ OnApproved(j) \/ OnApprovedRead(j) \/ OnRejected(j) \/ OnDecisionFailed(j)
          \/ OnUndo(j) \/ OnLoaded(j) \/ OnBulk(j) \/ OnCleared(j)
          \/ OnOpened(j) \/ OnSwitched(j) \/ OnFiltered(j) \/ OnLimit(j)
          \/ OnWritten(j) \/ OnWrittenRead(j) \/ OnDialogFailed(j)
          \/ OnImpact(j) \/ OnCancelled(j)
    \/ \E l \in Leaves : Apply(l) \/ CancelElsewhere(l) \/ Engine(l) \/ SwitchPeriod(l)
    \/ \E t \in Substitutes : Assign(t) \/ Override(t)
    \/ ApproveGroup \/ RejectGroup \/ PressUndo \/ ToastEnds \/ ToggleSelect
    \/ BulkDecide("approved") \/ BulkDecide("rejected") \/ ClearHistory
    \/ \E k \in Statuses : OpenCancel(k)
    \/ \E t \in {"all", "needs_sub"} : SetTab(t)
    \/ OpenSubModal \/ CloseDialog \/ ToggleCross \/ ConfirmLimit \/ DismissLimit
    \/ Undo \/ ToggleLock \/ KeepLeaves \/ AdminCancel

Spec == Init /\ [][Next]_vars

-----------------------------------------------------------------------------
(***************************************************************************)
(* The page never waits for nothing: while a button is disabled as busy,   *)
(* some handler is still waiting for an answer that will release it.       *)
(***************************************************************************)
WaitingHasJob == pg.busy # None => \E j \in jobs : j.h \notin {"load", "orphan"}

(***************************************************************************)
(* The limit is only ever overridden for a teacher about whom the server   *)
(* asked for the acknowledgement (the dialog "Explicit authorization       *)
(* required to proceed with this assignment").                             *)
(***************************************************************************)
LimitAcknowledged ==
    \A j \in jobs : (j.h \in {"assign", "override"} /\ j.a.flag) => j.a.t \in srv.acked

(***************************************************************************)
(* A substitute never stands on a leave that is undecided or rejected,     *)
(* whatever the page, its orphaned calls, its Undo and the engine send in  *)
(* whatever order.                                                         *)
(***************************************************************************)
RefusedUncovered ==
    \A l \in DOMAIN srv.rows : srv.rows[l].sub # None => srv.rows[l].st \in {"approved", "cancelled"}

(***************************************************************************)
(* "Any cancelled leave must atomically reverse the exact credit delta and *)
(* unassign the allocated substitute." (Business_Rules.md:34).  Violated:  *)
(* the engine runs after the approval has committed and does not look      *)
(* whether the leave was cancelled in between.  No run checks it (README,  *)
(* section 4).                                                             *)
(***************************************************************************)
CancelledUncovered ==
    \A l \in DOMAIN srv.rows : srv.rows[l].st = "cancelled" => srv.rows[l].sub = None

(***************************************************************************)
(* The substitution dialog always has the parts its comment lists: "group, *)
(* activeReq, recommendations, others" (Leaves.jsx:146).  No run checks    *)
(* it: the page does not keep it (README, section 4).                      *)
(***************************************************************************)
DialogIsWhole == ~Crashed
=============================================================================
