------------------------- MODULE PagesLeave_proofs -------------------------
(***************************************************************************)
(* Proofs about the pages of leave, cover and teachers: what PagesLeave    *)
(* checks on a small instance, for all leaves, teachers and bounds.        *)
(***************************************************************************)
EXTENDS PagesLeave, PageJobs_proofs, Integers, FiniteSetTheorems, WellFoundedInduction

-----------------------------------------------------------------------------
(* Leave requests (LeavesDesk) *)

DeskShape ==
    /\ JobsShaped
    /\ DOMAIN srv = {"rows", "acked", "engine"}
    /\ \A l \in DOMAIN srv.rows : DOMAIN srv.rows[l] = {"st", "sub", "locked"}
    /\ DOMAIN pg = {"shown", "busy", "dialog", "cancelling", "limit", "undo", "tab", "cross", "ticked"}

(* Whoever a warning is about has been acknowledged: in the answer and in the dialog. *)
DeskWarned ==
    /\ \A j \in jobs : (j.h \in {"assign", "override"} /\ j.res = "limit") => j.a.t \in srv.acked
    /\ pg.limit # None => pg.limit.h \in {"assign", "override"} /\ pg.limit.t \in srv.acked

(* A toast's Undo does not mark the page busy and does not end its being so. *)
Undoes == {"undoApprove", "undoReject"}
DeskReleases == {"approve", "reject", "bulk", "clear", "open", "reopen", "switch", "filter", "assign",
                 "override", "unassign", "lock", "reload", "impact", "cancel"}
DeskBusy ==
    /\ pg.undo # None => pg.undo.h \in Undoes
    /\ pg.busy # None => InFlight(DeskReleases)

(* What the engine was handed was approved, and what was approved can only be cancelled. *)
DeskEngine == \A l \in srv.engine : l \in DOMAIN srv.rows /\ srv.rows[l].st \in {"approved", "cancelled"}

DeskInv ==
    /\ DeskShape /\ DeskWarned /\ DeskBusy /\ DeskEngine
    /\ Desk!LimitAcknowledged /\ Desk!RefusedUncovered

LEMMA DeskStarts == ASSUME Desk!Init PROVE DeskInv
  BY DEF DeskInv, DeskShape, DeskWarned, DeskBusy, DeskEngine, Desk!LimitAcknowledged, Desk!RefusedUncovered,
     JobsShaped, JobFields, Desk!Init, Desk!Load, Desk!Job, Desk!Row

(* A new call that does not assign, or assigns with an acknowledgement that was given. *)
DeskHarmless(k) ==
    k.h \in {"assign", "override"} => k.res = "sent" /\ (k.a.flag => k.a.t \in srv.acked)

(* What the page does with its own state keeps the invariant. *)
LEMMA DeskFrame ==
  ASSUME DeskInv, UNCHANGED srv, JobsShaped',
         \A k \in jobs' \ jobs : DeskHarmless(k),
         DOMAIN pg' = DOMAIN pg,
         pg'.limit # None => 
           pg'.limit = pg.limit \/ (pg'.limit.h \in {"assign", "override"} /\ pg'.limit.t \in srv.acked),
         pg'.undo # None => pg'.undo = pg.undo \/ pg'.undo.h \in Undoes,
         pg'.busy # None => InFlight(DeskReleases)'
  PROVE  DeskInv'
  <1> USE DEF DeskInv
  <1>1. DeskShape'
    BY DEF DeskShape
  <1>2. DeskWarned' /\ Desk!LimitAcknowledged'
    BY DEF DeskHarmless, DeskWarned, Desk!LimitAcknowledged
  <1>3. DeskBusy'
    BY DEF DeskBusy
  <1>4. Desk!RefusedUncovered' /\ DeskEngine'
    BY DEF Desk!RefusedUncovered, DeskEngine
  <1> QED BY <1>1, <1>2, <1>3, <1>4

LEMMA DeskRest ==
  ASSUME JobsShaped, NEW j \in jobs
  PROVE  \A k \in Desk!Rest(j) : DOMAIN k = JobFields /\ k.h = "orphan"
  BY DEF Desk!Rest, JobsShaped, JobFields

LEMMA DeskContinues ==
  ASSUME DeskInv, NEW j \in jobs,
         \/ Desk!OrphanEnds(j) \/ Desk!OnApproved(j) \/ Desk!OnApprovedRead(j) \/ Desk!OnRejected(j)
         \/ Desk!OnDecisionFailed(j) \/ Desk!OnUndo(j) \/ Desk!OnLoaded(j) \/ Desk!OnBulk(j) \/ Desk!OnCleared(j)
         \/ Desk!OnOpened(j) \/ Desk!OnSwitched(j) \/ Desk!OnFiltered(j) \/ Desk!OnWritten(j)
         \/ Desk!OnWrittenRead(j) \/ Desk!OnDialogFailed(j) \/ Desk!OnImpact(j) \/ Desk!OnCancelled(j)
         \/ Desk!OnLimit(j)
  PROVE  DeskInv'
  <1> USE DEF DeskInv, DeskShape, DeskHarmless, Desk!Then, Desk!Back
  <1>1. CASE Desk!OrphanEnds(j)
    <2>1. JobsShaped' /\ \A k \in jobs' \ jobs : DeskHarmless(k)
      BY <1>1 DEF JobsShaped, JobFields, Desk!OrphanEnds
    <2>2. pg'.busy # None => InFlight(DeskReleases)'
      BY <1>1 DEF DeskBusy, DeskReleases, InFlight, Desk!OrphanEnds
    <2> QED BY <1>1, <2>1, <2>2, DeskFrame DEF Desk!OrphanEnds
  <1>2. CASE Desk!OnApproved(j)
    <2>1. JobsShaped' /\ \A k \in jobs' \ jobs : DeskHarmless(k)
      BY <1>2 DEF JobsShaped, JobFields, Desk!OnApproved, Desk!Job
    <2>2. Job("reload", [by |-> "approve", ids |-> j.a.all]) \in jobs'
      BY <1>2 DEF Desk!OnApproved, Desk!Job, Job
    <2>3. InFlight(DeskReleases)'
      BY <2>2, NewJob DEF InFlight, DeskReleases
    <2> QED BY <1>2, <2>1, <2>3, DeskFrame DEF Desk!OnApproved, InFlight, DeskReleases
  <1>3. CASE Desk!OnApprovedRead(j)
    <2>1. JobsShaped' /\ \A k \in jobs' \ jobs : DeskHarmless(k)
      BY <1>3 DEF JobsShaped, JobFields, Desk!OnApprovedRead, Desk!Job, Desk!Idle
    <2>2. pg'.busy # None => InFlight(DeskReleases)'
      BY <1>3 DEF DeskBusy, DeskReleases, InFlight, Desk!OnApprovedRead, Desk!Job, Desk!Idle
    <2> QED BY <1>3, <2>1, <2>2, DeskFrame DEF Desk!OnApprovedRead, Desk!Job, Desk!Idle, Undoes
  <1>4. CASE Desk!OnRejected(j)
    <2>1. JobsShaped' /\ \A k \in jobs' \ jobs : DeskHarmless(k)
      BY <1>4 DEF JobsShaped, JobFields, Desk!OnRejected, Desk!Load, Desk!Job, Desk!Idle
    <2>2. pg'.busy # None => InFlight(DeskReleases)'
      BY <1>4 DEF DeskBusy, DeskReleases, InFlight, Desk!OnRejected, Desk!Load, Desk!Job, Desk!Idle
    <2> QED BY <1>4, <2>1, <2>2, DeskFrame DEF Desk!OnRejected, Desk!Load, Desk!Job, Desk!Idle, Undoes
  <1>5. CASE Desk!OnDecisionFailed(j)
    <2>1. JobsShaped' /\ \A k \in jobs' \ jobs : DeskHarmless(k)
      BY <1>5, DeskRest DEF JobsShaped, JobFields, Desk!OnDecisionFailed, Desk!Idle
    <2>2. pg'.busy # None => InFlight(DeskReleases)'
      BY <1>5, DeskRest DEF DeskBusy, DeskReleases, InFlight, Desk!OnDecisionFailed, Desk!Idle, JobsShaped, JobFields
    <2> QED BY <1>5, <2>1, <2>2, DeskFrame DEF Desk!OnDecisionFailed, Desk!Rest, Desk!Idle, JobsShaped, JobFields
  <1>6. CASE Desk!OnUndo(j)
    <2>1. JobsShaped' /\ \A k \in jobs' \ jobs : DeskHarmless(k)
      BY <1>6, DeskRest DEF JobsShaped, JobFields, Desk!OnUndo, Desk!Load, Desk!Job, DeskReleases
    <2>2. pg'.busy # None => InFlight(DeskReleases)'
      BY <1>6, DeskRest DEF DeskBusy, DeskReleases, InFlight, Desk!OnUndo, Desk!Load, Desk!Job
    <2> QED BY <1>6, <2>1, <2>2, DeskFrame DEF Desk!OnUndo, Desk!Load, Desk!Job, Desk!Rest, DeskReleases
  <1>7. CASE Desk!OnLoaded(j)
    <2>1. JobsShaped' /\ \A k \in jobs' \ jobs : DeskHarmless(k)
      BY <1>7 DEF JobsShaped, JobFields, Desk!OnLoaded
    <2>2. pg'.busy # None => InFlight(DeskReleases)'
      BY <1>7 DEF DeskBusy, DeskReleases, InFlight, Desk!OnLoaded
    <2> QED BY <1>7, <2>1, <2>2, DeskFrame DEF Desk!OnLoaded
  <1>8. CASE Desk!OnBulk(j)
    <2>1. JobsShaped' /\ \A k \in jobs' \ jobs : DeskHarmless(k)
      BY <1>8 DEF JobsShaped, JobFields, Desk!OnBulk, Desk!Load, Desk!Job, Desk!Idle
    <2>2. pg'.busy # None => InFlight(DeskReleases)'
      BY <1>8 DEF DeskBusy, DeskReleases, InFlight, Desk!OnBulk, Desk!Load, Desk!Job, Desk!Idle
    <2> QED BY <1>8, <2>1, <2>2, DeskFrame DEF Desk!OnBulk, Desk!Load, Desk!Job, Desk!Idle
  <1>9. CASE Desk!OnCleared(j)
    <2>1. JobsShaped' /\ \A k \in jobs' \ jobs : DeskHarmless(k)
      BY <1>9 DEF JobsShaped, JobFields, Desk!OnCleared, Desk!Load, Desk!Job, Desk!Idle
    <2>2. pg'.busy # None => InFlight(DeskReleases)'
      BY <1>9 DEF DeskBusy, DeskReleases, InFlight, Desk!OnCleared, Desk!Load, Desk!Job, Desk!Idle
    <2> QED BY <1>9, <2>1, <2>2, DeskFrame DEF Desk!OnCleared, Desk!Load, Desk!Job, Desk!Idle
  <1>10. CASE Desk!OnOpened(j)
    <2>1. JobsShaped' /\ \A k \in jobs' \ jobs : DeskHarmless(k)
      BY <1>10 DEF JobsShaped, JobFields, Desk!OnOpened, Desk!Idle
    <2>2. pg'.busy # None => InFlight(DeskReleases)'
      BY <1>10 DEF DeskBusy, DeskReleases, InFlight, Desk!OnOpened, Desk!Idle
    <2> QED BY <1>10, <2>1, <2>2, DeskFrame DEF Desk!OnOpened, Desk!Idle
  <1>11. CASE Desk!OnSwitched(j)
    <2>1. JobsShaped' /\ \A k \in jobs' \ jobs : DeskHarmless(k)
      BY <1>11 DEF JobsShaped, JobFields, Desk!OnSwitched, Desk!Idle
    <2>2. pg'.busy # None => InFlight(DeskReleases)'
      BY <1>11 DEF DeskBusy, DeskReleases, InFlight, Desk!OnSwitched, Desk!Idle
    <2> QED BY <1>11, <2>1, <2>2, DeskFrame DEF Desk!OnSwitched, Desk!Idle
  <1>12. CASE Desk!OnFiltered(j)
    <2>1. JobsShaped' /\ \A k \in jobs' \ jobs : DeskHarmless(k)
      BY <1>12 DEF JobsShaped, JobFields, Desk!OnFiltered, Desk!Idle
    <2>2. pg'.busy # None => InFlight(DeskReleases)'
      BY <1>12 DEF DeskBusy, DeskReleases, InFlight, Desk!OnFiltered, Desk!Idle
    <2> QED BY <1>12, <2>1, <2>2, DeskFrame DEF Desk!OnFiltered, Desk!Idle
  <1>13. CASE Desk!OnWritten(j)
    <2>1. JobsShaped' /\ \A k \in jobs' \ jobs : DeskHarmless(k)
      BY <1>13 DEF JobsShaped, JobFields, Desk!OnWritten, Desk!Job
    <2>2. Job("reload", [by |-> j.h, l |-> j.a.l, group |-> j.a.group]) \in jobs'
      BY <1>13 DEF Desk!OnWritten, Desk!Job, Job
    <2>3. InFlight(DeskReleases)'
      BY <2>2, NewJob DEF InFlight, DeskReleases
    <2> QED BY <1>13, <2>1, <2>3, DeskFrame DEF Desk!OnWritten, InFlight, DeskReleases
  <1>14. CASE Desk!OnWrittenRead(j)
    <2>1. JobsShaped' /\ \A k \in jobs' \ jobs : DeskHarmless(k)
      BY <1>14 DEF JobsShaped, JobFields, Desk!OnWrittenRead, Desk!Job
    <2>2. pg'.busy # None =>
            Job("reopen", Desk!Arg(j.a.l, j.a.group, j.got, None, j.a.by = "assign" /\ pg.cross)) \in jobs'
      BY <1>14 DEF Desk!OnWrittenRead, Desk!Job, Job
    <2>3. pg'.busy # None => InFlight(DeskReleases)'
      BY <2>2, NewJob DEF InFlight, DeskReleases
    <2> QED BY <1>14, <2>1, <2>3, DeskFrame DEF Desk!OnWrittenRead, InFlight, DeskReleases
  <1>15. CASE Desk!OnDialogFailed(j)
    <2>1. JobsShaped' /\ \A k \in jobs' \ jobs : DeskHarmless(k)
      BY <1>15 DEF JobsShaped, JobFields, Desk!OnDialogFailed, Desk!Idle
    <2>2. pg'.busy # None => InFlight(DeskReleases)'
      BY <1>15 DEF DeskBusy, DeskReleases, InFlight, Desk!OnDialogFailed, Desk!Idle
    <2> QED BY <1>15, <2>1, <2>2, DeskFrame DEF Desk!OnDialogFailed, Desk!Idle
  <1>16. CASE Desk!OnImpact(j)
    <2>1. JobsShaped' /\ \A k \in jobs' \ jobs : DeskHarmless(k)
      BY <1>16 DEF JobsShaped, JobFields, Desk!OnImpact, Desk!Idle
    <2>2. pg'.busy # None => InFlight(DeskReleases)'
      BY <1>16 DEF DeskBusy, DeskReleases, InFlight, Desk!OnImpact, Desk!Idle
    <2> QED BY <1>16, <2>1, <2>2, DeskFrame DEF Desk!OnImpact, Desk!Idle
  <1>17. CASE Desk!OnCancelled(j)
    <2>1. JobsShaped' /\ \A k \in jobs' \ jobs : DeskHarmless(k)
      BY <1>17, DeskRest DEF JobsShaped, JobFields, Desk!OnCancelled, Desk!Idle, Desk!Load, Desk!Job
    <2>2. pg'.busy # None => InFlight(DeskReleases)'
      BY <1>17, DeskRest DEF DeskBusy, DeskReleases, InFlight, Desk!OnCancelled, Desk!Idle, Desk!Load, Desk!Job
    <2> QED BY <1>17, <2>1, <2>2, DeskFrame DEF Desk!OnCancelled, Desk!Idle, Desk!Load, Desk!Job, Desk!Rest
  <1>18. CASE Desk!OnLimit(j)
    <2>1. JobsShaped' /\ \A k \in jobs' \ jobs : DeskHarmless(k)
      BY <1>18 DEF JobsShaped, JobFields, Desk!OnLimit
    <2> QED BY <1>18, <2>1, DeskFrame DEF Desk!OnLimit, Desk!Idle, DeskWarned
  <1> QED BY <1>1, <1>2, <1>3, <1>4, <1>5, <1>6, <1>7, <1>8, <1>9, <1>10, <1>11, <1>12, <1>13, <1>14, <1>15, <1>16, <1>17, <1>18

(* A click that calls sends one new job. *)
LEMMA DeskCalls ==
  ASSUME JobsShaped, NEW h, NEW a, Desk!Busily(h, a)
  PROVE  /\ JobsShaped' /\ UNCHANGED srv
         /\ \A k \in jobs' \ jobs : k = Job(h, a)
         /\ InFlight(DeskReleases) \/ h \in DeskReleases => InFlight(DeskReleases)'
  <1>1. jobs' = jobs \cup {Job(h, a)} /\ UNCHANGED srv
    BY DEF Desk!Busily, Desk!Start, Desk!Job, Job
  <1>2. DOMAIN Job(h, a) = JobFields /\ Job(h, a).h = h
    BY NewJob
  <1> QED BY <1>1, <1>2, Started

LEMMA DeskClicks ==
  ASSUME DeskInv,
         \/ Desk!ApproveGroup \/ Desk!RejectGroup \/ Desk!BulkDecide("approved") \/ Desk!BulkDecide("rejected")
         \/ Desk!ClearHistory \/ Desk!OpenSubModal \/ Desk!ToggleCross \/ Desk!Undo \/ Desk!ToggleLock
         \/ Desk!AdminCancel
         \/ \E l \in Leaves : Desk!SwitchPeriod(l)
         \/ \E k \in Desk!Statuses : Desk!OpenCancel(k)
         \/ Desk!PressUndo
  PROVE  DeskInv'
  <1> USE DEF DeskInv, DeskShape, DeskHarmless
  <1>1. CASE Desk!ApproveGroup
    <2>1. JobsShaped' /\ UNCHANGED srv /\ \A k \in jobs' \ jobs : DeskHarmless(k)
      BY <1>1, DeskCalls, NewJob DEF Desk!ApproveGroup, Desk!DecideGroup
    <2>2. pg'.busy # None => InFlight(DeskReleases)'
      BY <1>1, DeskCalls DEF Desk!ApproveGroup, Desk!DecideGroup, DeskReleases, DeskBusy
    <2> QED BY <1>1, <2>1, <2>2, DeskFrame DEF Desk!ApproveGroup, Desk!DecideGroup
  <1>2. CASE Desk!RejectGroup
    <2>1. JobsShaped' /\ UNCHANGED srv /\ \A k \in jobs' \ jobs : DeskHarmless(k)
      BY <1>2, DeskCalls, NewJob DEF Desk!RejectGroup, Desk!DecideGroup
    <2>2. pg'.busy # None => InFlight(DeskReleases)'
      BY <1>2, DeskCalls DEF Desk!RejectGroup, Desk!DecideGroup, DeskReleases, DeskBusy
    <2> QED BY <1>2, <2>1, <2>2, DeskFrame DEF Desk!RejectGroup, Desk!DecideGroup
  <1>3. CASE Desk!BulkDecide("approved") \/ Desk!BulkDecide("rejected")
    <2>1. JobsShaped' /\ UNCHANGED srv /\ \A k \in jobs' \ jobs : DeskHarmless(k)
      BY <1>3, DeskCalls, NewJob DEF Desk!BulkDecide
    <2>2. pg'.busy # None => InFlight(DeskReleases)'
      BY <1>3, DeskCalls DEF Desk!BulkDecide, DeskReleases, DeskBusy
    <2> QED BY <1>3, <2>1, <2>2, DeskFrame DEF Desk!BulkDecide
  <1>4. CASE Desk!ClearHistory
    <2>1. JobsShaped' /\ UNCHANGED srv /\ \A k \in jobs' \ jobs : DeskHarmless(k)
      BY <1>4, DeskCalls, NewJob DEF Desk!ClearHistory
    <2>2. pg'.busy # None => InFlight(DeskReleases)'
      BY <1>4, DeskCalls DEF Desk!ClearHistory, DeskReleases, DeskBusy
    <2> QED BY <1>4, <2>1, <2>2, DeskFrame DEF Desk!ClearHistory
  <1>5. CASE Desk!OpenSubModal
    <2>1. JobsShaped' /\ UNCHANGED srv /\ \A k \in jobs' \ jobs : DeskHarmless(k)
      BY <1>5, DeskCalls, NewJob DEF Desk!OpenSubModal
    <2>2. pg'.busy # None => InFlight(DeskReleases)'
      BY <1>5, DeskCalls DEF Desk!OpenSubModal, DeskReleases, DeskBusy
    <2> QED BY <1>5, <2>1, <2>2, DeskFrame DEF Desk!OpenSubModal
  <1>6. CASE Desk!ToggleCross
    <2>1. JobsShaped' /\ UNCHANGED srv /\ \A k \in jobs' \ jobs : DeskHarmless(k)
      BY <1>6, DeskCalls, NewJob DEF Desk!ToggleCross
    <2>2. pg'.busy # None => InFlight(DeskReleases)'
      BY <1>6, DeskCalls DEF Desk!ToggleCross, DeskReleases, DeskBusy
    <2> QED BY <1>6, <2>1, <2>2, DeskFrame DEF Desk!ToggleCross
  <1>7. CASE Desk!Undo
    <2>1. JobsShaped' /\ UNCHANGED srv /\ \A k \in jobs' \ jobs : DeskHarmless(k)
      BY <1>7, DeskCalls, NewJob DEF Desk!Undo, Desk!OnActive, Desk!Arg
    <2>2. pg'.busy # None => InFlight(DeskReleases)'
      BY <1>7, DeskCalls DEF Desk!Undo, DeskReleases, DeskBusy
    <2> QED BY <1>7, <2>1, <2>2, DeskFrame DEF Desk!Undo
  <1>8. CASE Desk!ToggleLock
    <2>1. JobsShaped' /\ UNCHANGED srv /\ \A k \in jobs' \ jobs : DeskHarmless(k)
      BY <1>8, DeskCalls, NewJob DEF Desk!ToggleLock
    <2>2. pg'.busy # None => InFlight(DeskReleases)'
      BY <1>8, DeskCalls DEF Desk!ToggleLock, DeskReleases, DeskBusy
    <2> QED BY <1>8, <2>1, <2>2, DeskFrame DEF Desk!ToggleLock
  <1>9. CASE Desk!AdminCancel
    <2>1. JobsShaped' /\ UNCHANGED srv /\ \A k \in jobs' \ jobs : DeskHarmless(k)
      BY <1>9, DeskCalls, NewJob DEF Desk!AdminCancel
    <2>2. pg'.busy # None => InFlight(DeskReleases)'
      BY <1>9, DeskCalls DEF Desk!AdminCancel, DeskReleases, DeskBusy
    <2> QED BY <1>9, <2>1, <2>2, DeskFrame DEF Desk!AdminCancel
  <1>10. CASE \E l \in Leaves : Desk!SwitchPeriod(l)
    <2>1. JobsShaped' /\ UNCHANGED srv /\ \A k \in jobs' \ jobs : DeskHarmless(k)
      BY <1>10, DeskCalls, NewJob DEF Desk!SwitchPeriod
    <2>2. pg'.busy # None => InFlight(DeskReleases)'
      BY <1>10, DeskCalls DEF Desk!SwitchPeriod, DeskReleases, DeskBusy
    <2> QED BY <1>10, <2>1, <2>2, DeskFrame DEF Desk!SwitchPeriod
  <1>11. CASE \E k \in Desk!Statuses : Desk!OpenCancel(k)
    <2>1. JobsShaped' /\ UNCHANGED srv /\ \A k \in jobs' \ jobs : DeskHarmless(k)
      BY <1>11, DeskCalls, NewJob DEF Desk!OpenCancel
    <2>2. pg'.busy # None => InFlight(DeskReleases)'
      BY <1>11, DeskCalls DEF Desk!OpenCancel, DeskReleases, DeskBusy
    <2> QED BY <1>11, <2>1, <2>2, DeskFrame DEF Desk!OpenCancel
  <1>12. CASE Desk!PressUndo
    <2>1. JobsShaped' /\ UNCHANGED srv /\ \A k \in jobs' \ jobs : DeskHarmless(k)
      BY <1>12, DeskCalls, NewJob DEF Desk!PressUndo, DeskBusy, Undoes
    <2>2. pg'.busy # None => InFlight(DeskReleases)'
      BY <1>12, DeskCalls DEF Desk!PressUndo, DeskReleases, DeskBusy
    <2> QED BY <1>12, <2>1, <2>2, DeskFrame DEF Desk!PressUndo
  <1> QED BY <1>1, <1>2, <1>3, <1>4, <1>5, <1>6, <1>7, <1>8, <1>9, <1>10, <1>11, <1>12

LEMMA DeskAssigns ==
  ASSUME DeskInv,
         (\E t \in Subs : Desk!Assign(t) \/ Desk!Override(t)) \/ Desk!ConfirmLimit
  PROVE  DeskInv'
  <1> USE DEF DeskInv, DeskShape
  <1>1. CASE \E t \in Subs : Desk!Assign(t)
    <2>1. JobsShaped' /\ UNCHANGED srv /\ \A k \in jobs' \ jobs : DeskHarmless(k)
      BY <1>1, DeskCalls, NewJob DEF Desk!Assign, DeskHarmless, DeskWarned, Desk!OnActive, Desk!Arg
    <2>2. pg'.busy # None => InFlight(DeskReleases)'
      BY <1>1, DeskCalls DEF Desk!Assign, DeskReleases, DeskBusy
    <2> QED BY <1>1, <2>1, <2>2, DeskFrame DEF Desk!Assign
  <1>2. CASE \E t \in Subs : Desk!Override(t)
    <2>1. JobsShaped' /\ UNCHANGED srv /\ \A k \in jobs' \ jobs : DeskHarmless(k)
      BY <1>2, DeskCalls, NewJob DEF Desk!Override, DeskHarmless, DeskWarned, Desk!OnActive, Desk!Arg
    <2>2. pg'.busy # None => InFlight(DeskReleases)'
      BY <1>2, DeskCalls DEF Desk!Override, DeskReleases, DeskBusy
    <2> QED BY <1>2, <2>1, <2>2, DeskFrame DEF Desk!Override
  <1>3. CASE Desk!ConfirmLimit
    <2>1. JobsShaped' /\ UNCHANGED srv /\ \A k \in jobs' \ jobs : DeskHarmless(k)
      BY <1>3, DeskCalls, NewJob DEF Desk!ConfirmLimit, DeskHarmless, DeskWarned, Desk!OnActive, Desk!Arg
    <2>2. pg'.busy # None => InFlight(DeskReleases)'
      BY <1>3, DeskCalls DEF Desk!ConfirmLimit, DeskReleases, DeskBusy, DeskWarned
    <2> QED BY <1>3, <2>1, <2>2, DeskFrame DEF Desk!ConfirmLimit
  <1> QED BY <1>1, <1>2, <1>3

LEMMA DeskRests ==
  ASSUME DeskInv,
         \/ Desk!ToastEnds \/ Desk!ToggleSelect \/ Desk!CloseDialog \/ Desk!DismissLimit \/ Desk!KeepLeaves
         \/ \E t \in {"all", "needs_sub"} : Desk!SetTab(t)
         \/ UNCHANGED vars
  PROVE  DeskInv'
  <1>1. UNCHANGED <<srv, jobs>>
    BY DEF Desk!ToastEnds, Desk!ToggleSelect, Desk!CloseDialog, Desk!DismissLimit, Desk!KeepLeaves, Desk!SetTab,
           Desk!Local, Desk!Click, vars
  <1>2. /\ DOMAIN pg' = DOMAIN pg /\ pg'.busy = pg.busy
        /\ pg'.limit \in {None, pg.limit} /\ pg'.undo \in {None, pg.undo}
    BY DEF Desk!ToastEnds, Desk!ToggleSelect, Desk!CloseDialog, Desk!DismissLimit, Desk!KeepLeaves, Desk!SetTab,
           vars, DeskInv, DeskShape
  <1>3. JobsShaped' /\ (InFlight(DeskReleases) => InFlight(DeskReleases)') /\ \A k \in jobs' \ jobs : DeskHarmless(k)
    BY <1>1 DEF JobsShaped, InFlight, DeskInv, DeskShape
  <1> QED BY <1>1, <1>2, <1>3, DeskFrame DEF DeskInv, DeskBusy

(* A step of the server or of others: what it must keep of the rows and of the jobs. *)
LEMMA DeskServerFrame ==
  ASSUME DeskInv, UNCHANGED pg, JobsShaped', InFlight(DeskReleases) => InFlight(DeskReleases)',
         \A k \in jobs' : k.h \in {"assign", "override"} =>
            /\ k.res = "limit" => k.a.t \in srv'.acked
            /\ k.a.flag => k.a.t \in srv'.acked,
         DOMAIN srv' = DOMAIN srv, srv.acked \subseteq srv'.acked,
         \A m \in DOMAIN srv'.rows : /\ DOMAIN srv'.rows[m] = {"st", "sub", "locked"}
                                     /\ srv'.rows[m].sub # None => srv'.rows[m].st \in {"approved", "cancelled"},
         \A m \in srv'.engine : m \in DOMAIN srv'.rows /\ srv'.rows[m].st \in {"approved", "cancelled"}
  PROVE  DeskInv'
  <1> USE DEF DeskInv
  <1>a. \A m \in DOMAIN srv'.rows : DOMAIN srv'.rows[m] = {"st", "sub", "locked"}
    OBVIOUS
  <1>b. \A m \in DOMAIN srv'.rows : srv'.rows[m].sub # None => srv'.rows[m].st \in {"approved", "cancelled"}
    OBVIOUS
  <1>1. DeskShape'
    BY <1>a DEF DeskShape
  <1>2. DeskWarned' /\ Desk!LimitAcknowledged'
    BY DEF DeskWarned, Desk!LimitAcknowledged
  <1>3. DeskBusy'
    BY DEF DeskBusy
  <1>4. DeskEngine' /\ Desk!RefusedUncovered'
    BY <1>b DEF DeskEngine, Desk!RefusedUncovered
  <1> QED BY <1>1, <1>2, <1>3, <1>4

LEMMA DeskAnswers ==
  ASSUME DeskInv, NEW j \in jobs, NEW r, NEW g,
         jobs' = (jobs \ {j}) \cup {[j EXCEPT !.res = r, !.got = g]},
         srv.acked \subseteq srv'.acked,
         j.h \in {"assign", "override"} /\ r = "limit" => j.a.t \in srv'.acked
  PROVE  /\ JobsShaped' /\ (InFlight(DeskReleases) => InFlight(DeskReleases)')
         /\ \A k \in jobs' : k.h \in {"assign", "override"} =>
               /\ k.res = "limit" => k.a.t \in srv'.acked
               /\ k.a.flag => k.a.t \in srv'.acked
  <1>1. JobsShaped' /\ (InFlight(DeskReleases) => InFlight(DeskReleases)')
    BY AnsweredWith DEF DeskInv, DeskShape
  <1>2. \A k \in jobs' : k.h \in {"assign", "override"} =>
               /\ k.res = "limit" => k.a.t \in srv'.acked
               /\ k.a.flag => k.a.t \in srv'.acked
    BY DEF DeskInv, DeskShape, DeskWarned, Desk!LimitAcknowledged, JobsShaped, JobFields
  <1> QED BY <1>1, <1>2

LEMMA DeskServes ==
  ASSUME DeskInv, NEW j \in jobs,
         \/ Desk!ServeDecided(j) \/ Desk!EngineClash(j) \/ Desk!ServeAssignment(j) \/ Desk!ServeUndoOrLock(j)
         \/ Desk!ServeClear(j) \/ Desk!ServeRead(j) \/ Desk!Fail(j)
  PROVE  DeskInv'
  <1> USE DEF Desk!Answer, Desk!Sent
  <1>a. /\ DOMAIN srv = {"rows", "acked", "engine"}
        /\ \A m \in DOMAIN srv.rows : /\ DOMAIN srv.rows[m] = {"st", "sub", "locked"}
                                      /\ srv.rows[m].sub # None => srv.rows[m].st \in {"approved", "cancelled"}
        /\ \A m \in srv.engine : m \in DOMAIN srv.rows /\ srv.rows[m].st \in {"approved", "cancelled"}
    BY DEF DeskInv, DeskShape, DeskEngine, Desk!RefusedUncovered
  <1>1. CASE Desk!Fail(j)
    BY <1>1, <1>a, DeskAnswers, DeskServerFrame DEF Desk!Fail
  <1>2. CASE Desk!ServeDecided(j)
    BY <1>2, <1>a, DeskAnswers, DeskServerFrame DEF Desk!ServeDecided, Desk!Deciding
  <1>3. CASE Desk!EngineClash(j)
    <2>1. PICK l \in srv.engine : srv' = [srv EXCEPT !.engine = @ \ {l}]
      BY <1>3 DEF Desk!EngineClash
    <2>2. srv'.rows = srv.rows /\ srv'.acked = srv.acked /\ srv'.engine \subseteq srv.engine /\ DOMAIN srv' = DOMAIN srv
      BY <2>1, <1>a
    <2>3. UNCHANGED pg /\ jobs' = (jobs \ {j}) \cup {[j EXCEPT !.res = "failed", !.got = None]}
      BY <1>3 DEF Desk!EngineClash
    <2> QED BY <2>2, <2>3, <1>a, DeskAnswers, DeskServerFrame
  <1>4. CASE Desk!ServeAssignment(j)
    <2>1. PICK warned \in BOOLEAN, able \in BOOLEAN :
            /\ warned => able
            /\ able => Desk!Assignable(j)
            /\ UNCHANGED pg
            /\ jobs' = (jobs \ {j}) \cup {[j EXCEPT !.res = IF warned THEN "limit" ELSE IF able THEN "ok" ELSE "failed",
                                                  !.got = None]}
            /\ srv' = IF warned THEN [srv EXCEPT !.acked = @ \cup {j.a.t}]
                      ELSE IF able THEN [srv EXCEPT !.rows = Desk!Covered(j.a.l, j.a.t)] ELSE srv
      <3>1. /\ (Desk!Assignable(j) /\ j.a.t \in AtLimit /\ ~j.a.flag) \in BOOLEAN
            /\ Desk!Assignable(j) \in BOOLEAN
        BY DEF Desk!Assignable
      <3> QED BY <1>4, <3>1 DEF Desk!ServeAssignment
    <2>2. DOMAIN srv' = DOMAIN srv /\ srv'.engine = srv.engine /\ srv.acked \subseteq srv'.acked
      BY <2>1, <1>a
    <2>3. warned => j.a.t \in srv'.acked
      BY <2>1, <1>a
    <2>4. /\ DOMAIN srv'.rows = DOMAIN srv.rows
          /\ \A m \in DOMAIN srv'.rows : /\ DOMAIN srv'.rows[m] = {"st", "sub", "locked"}
                                         /\ srv'.rows[m].st = srv.rows[m].st
                                         /\ srv'.rows[m].sub # None => srv'.rows[m].st \in {"approved", "cancelled"}
      BY <2>1, <1>a DEF Desk!Covered, Desk!Assignable
    <2>5. /\ JobsShaped' /\ (InFlight(DeskReleases) => InFlight(DeskReleases)')
          /\ \A k \in jobs' : k.h \in {"assign", "override"} =>
                /\ k.res = "limit" => k.a.t \in srv'.acked
                /\ k.a.flag => k.a.t \in srv'.acked
      BY <2>1, <2>2, <2>3, DeskAnswers
    <2> QED BY <2>1, <2>2, <2>4, <2>5, <1>a, DeskServerFrame
  <1>5. CASE Desk!ServeUndoOrLock(j)
    <2>1. PICK r : UNCHANGED pg /\ jobs' = (jobs \ {j}) \cup {[j EXCEPT !.res = r, !.got = None]} /\ r # "limit"
      BY <1>5 DEF Desk!ServeUndoOrLock
    <2>2. \/ srv' = srv
          \/ srv' = [srv EXCEPT !.rows[j.a.l].locked = j.a.flag]
          \/ srv' = [srv EXCEPT !.rows = Desk!Covered(j.a.l, None)]
      BY <1>5 DEF Desk!ServeUndoOrLock
    <2>3. DOMAIN srv' = DOMAIN srv /\ srv'.engine = srv.engine /\ srv'.acked = srv.acked
      BY <2>2, <1>a
    <2>4. /\ DOMAIN srv'.rows = DOMAIN srv.rows
          /\ \A m \in DOMAIN srv'.rows : /\ DOMAIN srv'.rows[m] = {"st", "sub", "locked"}
                                         /\ srv'.rows[m].st = srv.rows[m].st
                                         /\ srv'.rows[m].sub \in {None, srv.rows[m].sub}
      BY <2>2, <1>a DEF Desk!Covered
    <2> QED BY <2>1, <2>3, <2>4, <1>a, DeskAnswers, DeskServerFrame
  <1>6. CASE Desk!ServeClear(j)
    <2>1. /\ UNCHANGED pg /\ jobs' = (jobs \ {j}) \cup {[j EXCEPT !.res = "ok", !.got = None]}
          /\ srv'.rows = <<>> /\ srv'.engine = {} /\ srv'.acked = srv.acked /\ DOMAIN srv' = DOMAIN srv
      BY <1>6, <1>a DEF Desk!ServeClear
    <2>2. DOMAIN srv'.rows = {}
      BY <2>1
    <2> QED BY <2>1, <2>2, DeskAnswers, DeskServerFrame
  <1>7. CASE Desk!ServeRead(j)
    <2>1. PICK g : UNCHANGED <<pg, srv>> /\ jobs' = (jobs \ {j}) \cup {[j EXCEPT !.res = "ok", !.got = g]}
      BY <1>7 DEF Desk!ServeRead
    <2> QED BY <2>1, <1>a, DeskAnswers, DeskServerFrame
  <1> QED BY <1>1, <1>2, <1>3, <1>4, <1>5, <1>6, <1>7

(* One request of a decision: a pending leave is decided, a live one cancelled. *)
LEMMA DeskDecides ==
  ASSUME DeskInv, NEW j \in jobs, Desk!ServeDecision(j)
  PROVE  DeskInv'
  <1>a. /\ DOMAIN srv = {"rows", "acked", "engine"}
        /\ \A m \in DOMAIN srv.rows : /\ DOMAIN srv.rows[m] = {"st", "sub", "locked"}
                                      /\ srv.rows[m].sub # None => srv.rows[m].st \in {"approved", "cancelled"}
        /\ \A m \in srv.engine : m \in DOMAIN srv.rows /\ srv.rows[m].st \in {"approved", "cancelled"}
    BY DEF DeskInv, DeskShape, DeskEngine, Desk!RefusedUncovered
  <1>1. PICK rest, res : jobs' = (jobs \ {j}) \cup {[j EXCEPT !.a.ids = rest, !.res = res]}
    BY DEF Desk!ServeDecision
  <1>2. LET k == [j EXCEPT !.a.ids = rest, !.res = res] IN DOMAIN k = JobFields /\ k.h = j.h
    BY DEF JobsShaped, JobFields, DeskInv, DeskShape
  <1>3. j.h \notin {"assign", "override"}
    BY DEF Desk!ServeDecision, Desk!Sent, Desk!Deciding
  <1>4. JobsShaped' /\ (InFlight(DeskReleases) => InFlight(DeskReleases)')
    BY <1>1, <1>2, Answered DEF DeskInv, DeskShape
  <1>5. PICK l : \/ srv' = srv
                 \/ /\ IF j.a.st = "cancelled" THEN Desk!Live(l) ELSE Desk!Decidable(l)
                    /\ srv' = [srv EXCEPT
                            !.rows = [Desk!Covered(l, None) EXCEPT ![l].st = j.a.st],
                            !.engine = IF j.a.st = "approved" THEN @ \cup {l} ELSE @]
    BY DEF Desk!ServeDecision
  <1>6. DOMAIN srv' = DOMAIN srv /\ srv'.acked = srv.acked /\ UNCHANGED pg
    BY <1>5, <1>a DEF Desk!ServeDecision
  <1>7. \A k \in jobs' : k.h \in {"assign", "override"} =>
            /\ k.res = "limit" => k.a.t \in srv'.acked
            /\ k.a.flag => k.a.t \in srv'.acked
    BY <1>1, <1>2, <1>3, <1>6 DEF DeskInv, DeskWarned, Desk!LimitAcknowledged
  <1>b. \/ srv' = srv
        \/ /\ l \in DOMAIN srv.rows
           /\ DOMAIN srv'.rows = DOMAIN srv.rows
           /\ DOMAIN srv'.rows[l] = {"st", "sub", "locked"}
           /\ srv'.rows[l].sub = None /\ srv'.rows[l].st = j.a.st
           /\ \A m \in DOMAIN srv.rows \ {l} : srv'.rows[m] = srv.rows[m]
           /\ srv'.engine = IF j.a.st = "approved" THEN srv.engine \cup {l} ELSE srv.engine
           /\ j.a.st = "cancelled" \/ srv.rows[l].st = "pending"
    <2>1. CASE srv' = srv
      BY <2>1
    <2>2. CASE /\ IF j.a.st = "cancelled" THEN Desk!Live(l) ELSE Desk!Decidable(l)
               /\ srv' = [srv EXCEPT
                            !.rows = [Desk!Covered(l, None) EXCEPT ![l].st = j.a.st],
                            !.engine = IF j.a.st = "approved" THEN @ \cup {l} ELSE @]
      <3>1. l \in DOMAIN srv.rows /\ (j.a.st = "cancelled" \/ srv.rows[l].st = "pending")
        BY <2>2 DEF Desk!Live, Desk!Decidable
      <3>2. /\ srv'.rows = [Desk!Covered(l, None) EXCEPT ![l].st = j.a.st]
            /\ srv'.engine = IF j.a.st = "approved" THEN srv.engine \cup {l} ELSE srv.engine
        BY <2>2, <1>a
      <3>3. /\ DOMAIN srv'.rows = DOMAIN srv.rows
            /\ \A m \in DOMAIN srv.rows \ {l} : srv'.rows[m] = srv.rows[m]
            /\ srv'.rows[l] = [srv.rows[l] EXCEPT !.sub = None, !.locked = FALSE, !.st = j.a.st]
        BY <3>1, <3>2, <1>a DEF Desk!Covered
      <3>4. /\ DOMAIN srv'.rows[l] = {"st", "sub", "locked"}
            /\ srv'.rows[l].sub = None /\ srv'.rows[l].st = j.a.st
        BY <3>1, <3>3, <1>a
      <3> QED BY <3>1, <3>2, <3>3, <3>4
    <2> QED BY <1>5, <2>1, <2>2
  <1>8. \A m \in DOMAIN srv'.rows : /\ DOMAIN srv'.rows[m] = {"st", "sub", "locked"}
                                    /\ srv'.rows[m].sub # None => srv'.rows[m].st \in {"approved", "cancelled"}
    BY <1>b, <1>a
  <1>9. \A m \in srv'.engine : m \in DOMAIN srv'.rows /\ srv'.rows[m].st \in {"approved", "cancelled"}
    BY <1>b, <1>a
  <1> QED BY <1>4, <1>6, <1>7, <1>8, <1>9, DeskServerFrame

(* Others at work on the rows: the engine, the teacher, another administrator. *)
LEMMA DeskOthers ==
  ASSUME DeskInv, NEW l \in Leaves, Desk!Apply(l) \/ Desk!CancelElsewhere(l) \/ Desk!Engine(l)
  PROVE  DeskInv'
  <1>a. /\ DOMAIN srv = {"rows", "acked", "engine"}
        /\ \A m \in DOMAIN srv.rows : /\ DOMAIN srv.rows[m] = {"st", "sub", "locked"}
                                      /\ srv.rows[m].sub # None => srv.rows[m].st \in {"approved", "cancelled"}
        /\ \A m \in srv.engine : m \in DOMAIN srv.rows /\ srv.rows[m].st \in {"approved", "cancelled"}
    BY DEF DeskInv, DeskShape, DeskEngine, Desk!RefusedUncovered
  <1>1. UNCHANGED <<pg, jobs>> /\ DOMAIN srv' = DOMAIN srv /\ srv'.acked = srv.acked
    BY <1>a DEF Desk!Apply, Desk!CancelElsewhere, Desk!Engine
  <1>2. /\ JobsShaped' /\ (InFlight(DeskReleases) => InFlight(DeskReleases)')
        /\ \A k \in jobs' : k.h \in {"assign", "override"} =>
              /\ k.res = "limit" => k.a.t \in srv'.acked
              /\ k.a.flag => k.a.t \in srv'.acked
    BY <1>1 DEF DeskInv, DeskShape, DeskWarned, Desk!LimitAcknowledged, JobsShaped, InFlight
  <1>3. /\ \A m \in DOMAIN srv'.rows :
             /\ DOMAIN srv'.rows[m] = {"st", "sub", "locked"}
             /\ srv'.rows[m].sub # None => srv'.rows[m].st \in {"approved", "cancelled"}
        /\ \A m \in srv'.engine : m \in DOMAIN srv'.rows /\ srv'.rows[m].st \in {"approved", "cancelled"}
    <2>1. CASE Desk!Apply(l)
      BY <2>1, <1>a DEF Desk!Apply
    <2>2. CASE Desk!CancelElsewhere(l)
      BY <2>2, <1>a DEF Desk!CancelElsewhere, Desk!Covered, Desk!Live
    <2>3. CASE Desk!Engine(l)
      <3>1. l \in srv.engine /\ srv.rows[l].st \in {"approved", "cancelled"} /\ l \in DOMAIN srv.rows
        BY <2>3, <1>a DEF Desk!Engine
      <3>2. PICK t : srv' = [srv EXCEPT !.engine = @ \ {l},
                                       !.rows = IF t = None THEN @ ELSE Desk!Covered(l, t)]
        BY <2>3 DEF Desk!Engine
      <3>3. srv'.engine \subseteq srv.engine /\ srv'.rows = IF t = None THEN srv.rows ELSE Desk!Covered(l, t)
        BY <3>2, <1>a
      <3>4. /\ DOMAIN srv'.rows = DOMAIN srv.rows
            /\ \A m \in DOMAIN srv.rows : /\ DOMAIN srv'.rows[m] = {"st", "sub", "locked"}
                                          /\ srv'.rows[m].st = srv.rows[m].st
                                          /\ m # l => srv'.rows[m].sub = srv.rows[m].sub
        BY <3>3, <1>a DEF Desk!Covered
      <3> QED BY <3>1, <3>3, <3>4, <1>a
    <2> QED BY <2>1, <2>2, <2>3
  <1> QED BY <1>1, <1>2, <1>3, DeskServerFrame

LEMMA DeskKeeps == ASSUME DeskInv, [Desk!Next]_vars PROVE DeskInv'
  BY DeskServes, DeskDecides, DeskContinues, DeskClicks, DeskAssigns, DeskRests, DeskOthers DEF Desk!Next

LEMMA DeskHolds == ASSUME DeskInv PROVE Desk!WaitingHasJob /\ Desk!LimitAcknowledged /\ Desk!RefusedUncovered
  BY DEF DeskInv, DeskBusy, InFlight, DeskReleases, Desk!WaitingHasJob

-----------------------------------------------------------------------------
(* Today's substitutions (TodayBoard) *)

BoardShape ==
    /\ JobsShaped
    /\ DOMAIN srv = {"sub", "past"} /\ DOMAIN srv.sub = Leaves
    /\ DOMAIN pg = {"day", "board", "loading", "refreshing", "live", "tab", "through", "assign", "override",
                    "busy", "cross", "fetching", "confirm", "auto"}

(* The board shows leaves only, and so will what has been read. *)
Reads == {"load", "silent", "autoEnd"}
BoardRows ==
    /\ DOMAIN pg.board.rows \subseteq Leaves
    /\ \A j \in jobs : (j.h \in Reads /\ j.res = "ok") => DOMAIN j.got.rows \subseteq Leaves

(* There is one run at most, and no question about another while it goes on. *)
Run == {"recs", "autoAssign"}
RunCounts(j) ==
    /\ j.a.left \in SUBSET Leaves /\ j.a.ok \in Nat /\ j.a.skip \in Nat
    /\ pg.auto \in [done : Nat, total : Nat]
    /\ j.a.ok + j.a.skip = pg.auto.done
    /\ pg.auto.done + Cardinality(j.a.left) + 1 = pg.auto.total
BoardRun ==
    /\ pg.confirm => pg.auto = None
    /\ pg.auto # None <=> InFlight(Run)
    /\ \A j, k \in jobs : (j.h \in Run /\ k.h \in Run) => j = k
    /\ \A j \in jobs : j.h \in Run => RunCounts(j)

Clicked == {"openAssign", "openOverride", "assign", "override", "undo"}
BoardWaits ==
    /\ pg.loading => InFlight({"load"})
    /\ pg.refreshing => InFlight({"silent", "autoEnd"})
    /\ pg.fetching => InFlight({"openAssign", "openOverride", "filter"})
    /\ pg.busy # None => pg.busy.h \in Clicked /\ InFlight({pg.busy.h})

BoardInv == BoardShape /\ BoardRows /\ BoardRun /\ BoardWaits

LEMMA BoardStarts == ASSUME Board!Init PROVE BoardInv
  BY DEF BoardInv, BoardShape, BoardRows, BoardRun, BoardWaits, JobsShaped, JobFields,
     InFlight, Run,     Board!Init, Board!Load, Board!Job, Board!NoBoard

(* Every non-empty set of numbers has a least one. *)
LEMMA LeastOf ==
  ASSUME NEW T, T \subseteq Nat, T # {}
  PROVE  \E x \in T : \A y \in T : x <= y
  <1> DEFINE R == OpToRel(<, Nat)
  <1>1. IsWellFoundedOn(R, Nat)
    BY NatLessThanWellFounded
  <1>2. R = {p \in Nat \X Nat : p[1] < p[2]}
    BY DEF OpToRel
  <1> HIDE DEF R
  <1>3. PICK x \in T : \A y \in T : ~ (<<y, x>> \in R)
    BY <1>1, WFMin
  <1>4. ASSUME NEW y \in T PROVE x <= y
    <2>1. ~ (<<y, x>> \in {p \in Nat \X Nat : p[1] < p[2]})
      BY <1>2, <1>3
    <2> QED BY <2>1
  <1> QED BY <1>4

(* An instance of the module has the same notion of finite sets as this one. *)
LEMMA BoardSets == \A S : (Board!IsFiniteSet(S) <=> IsFiniteSet(S)) /\ Board!Cardinality(S) = Cardinality(S)
  BY DEF Board!IsFiniteSet, IsFiniteSet, Board!Cardinality, Cardinality

LEMMA LeavesAreFinite == Leaves \subseteq Nat /\ IsFiniteSet(Leaves)
  BY PagesAssumption, BoardSets DEF PagesAssumption, Board!BoardAssumption

LEMMA NoneIsNoCount == None \notin [done : Nat, total : Nat]
  BY PagesAssumption DEF PagesAssumption, Board!BoardAssumption

LEMMA AutoStepTakesOne ==
  ASSUME NEW T \in SUBSET Leaves, T # {}, NEW ok, NEW skip, NEW day
  PROVE  LET k == Board!AutoStep(T, ok, skip, day)
         IN  /\ DOMAIN k = JobFields /\ k.h = "recs"
             /\ k.a.left \in SUBSET Leaves /\ k.a.ok = ok /\ k.a.skip = skip
             /\ Cardinality(T) \in Nat /\ Cardinality(k.a.left) \in Nat
             /\ Cardinality(k.a.left) + 1 = Cardinality(T)
  <1> DEFINE l == CHOOSE x \in T : \A y \in T : x <= y
  <1>1. T \subseteq Nat /\ IsFiniteSet(T)
    BY FS_Subset, LeavesAreFinite
  <1>2. l \in T
    <2>1. \E x \in T : \A y \in T : x <= y
      BY <1>1, LeastOf
    <2> QED BY <2>1
  <1>3. Board!AutoStep(T, ok, skip, day).a.left = T \ {l}
    BY DEF Board!AutoStep, Board!Job
  <1>4. LET k == Board!AutoStep(T, ok, skip, day)
        IN  DOMAIN k = JobFields /\ k.h = "recs" /\ k.a.ok = ok /\ k.a.skip = skip
    BY DEF Board!AutoStep, Board!Job, JobFields
  <1> HIDE DEF l
  <1>5. IsFiniteSet(T \ {l}) /\ Cardinality(T \ {l}) = Cardinality(T) - 1
    BY <1>1, <1>2, FS_RemoveElement
  <1>6. Cardinality(T) \in Nat /\ Cardinality(T \ {l}) \in Nat
    BY <1>1, <1>5, FS_CardinalityType
  <1> QED BY <1>3, <1>4, <1>5, <1>6

(* A step that leaves the run alone. *)
SameRun == \A k : k.h \in Run => (k \in jobs <=> k \in jobs')

LEMMA BoardFrame ==
  ASSUME BoardInv, JobsShaped', SameRun, BoardWaits', BoardRows',
         DOMAIN srv' = DOMAIN srv, DOMAIN srv'.sub = DOMAIN srv.sub, DOMAIN pg' = DOMAIN pg,
         pg'.auto = pg.auto, pg'.confirm => pg.auto = None
  PROVE  BoardInv'
  <1>1. BoardShape'
    BY DEF BoardInv, BoardShape
  <1>2. InFlight(Run) <=> InFlight(Run)'
    BY DEF InFlight, SameRun
  <1>3. BoardRun'
    BY <1>2 DEF BoardInv, BoardRun, RunCounts, SameRun
  <1> QED BY <1>1, <1>3 DEF BoardInv

(* Every call of the run, answered or followed by the next, carries the counts on. *)
LEMMA BoardRunGoesOn ==
  ASSUME BoardInv, NEW j \in jobs, j.h \in Run, NEW k, k.h \in Run, jobs' = (jobs \ {j}) \cup {k},
         RunCounts(k)', pg'.auto # None, ~pg'.confirm
  PROVE  BoardRun'
  <1>1. \A i \in jobs' : i.h \in Run => i = k
    BY DEF BoardInv, BoardRun
  <1>2. InFlight(Run)'
    BY DEF InFlight
  <1> QED BY <1>1, <1>2 DEF BoardRun

LEMMA BoardAnswers ==
  ASSUME BoardInv, NEW j \in jobs, NEW r, NEW g, j.h \in Reads /\ r = "ok" => DOMAIN g.rows \subseteq Leaves,
         jobs' = (jobs \ {j}) \cup {[j EXCEPT !.res = r, !.got = g]}, pg' = pg,
         DOMAIN srv' = DOMAIN srv, DOMAIN srv'.sub = DOMAIN srv.sub
  PROVE  BoardInv'
  <1> DEFINE k == [j EXCEPT !.res = r, !.got = g]
  <1>1. DOMAIN k = JobFields /\ k.h = j.h /\ k.a = j.a /\ k.res = r /\ k.got = g
    BY DEF BoardInv, BoardShape, JobsShaped, JobFields
  <1>2. JobsShaped' /\ \A H : InFlight(H) => InFlight(H)'
    BY AnsweredWith DEF BoardInv, BoardShape
  <1>3. BoardWaits'
    BY <1>2 DEF BoardInv, BoardWaits
  <1>4. BoardRows'
    <2> HIDE DEF k
    <2>1. jobs' = (jobs \ {j}) \cup {k}
      BY DEF k
    <2> QED BY <1>1, <2>1 DEF BoardInv, BoardRows
  <1>5. CASE j.h \notin Run
    <2>1. SameRun
      BY <1>1, <1>5 DEF SameRun
    <2> QED BY <1>2, <1>3, <1>4, <2>1, BoardFrame DEF BoardInv, BoardRun
  <1>6. CASE j.h \in Run
    <2>1. RunCounts(k)'
      BY <1>1, <1>6 DEF BoardInv, BoardRun, RunCounts
    <2>2. pg.auto # None /\ ~pg.confirm
      BY <1>6 DEF BoardInv, BoardRun, InFlight
    <2>3. BoardRun'
      BY <1>1, <1>6, <2>1, <2>2, BoardRunGoesOn
    <2> QED BY <1>2, <1>3, <1>4, <2>3 DEF BoardInv, BoardShape
  <1> QED BY <1>5, <1>6

LEMMA BoardServes ==
  ASSUME BoardInv, NEW j \in jobs,
         \/ Board!ServeAssign(j) \/ Board!ServeOverride(j) \/ Board!ServeUndo(j) \/ Board!ServeLoad(j)
         \/ Board!ServeCandidates(j) \/ Board!ServeRecs(j) \/ Board!Fail(j)
  PROVE  BoardInv'
  <1> USE DEF Board!Answer, Board!Sent
  <1>1. CASE Board!ServeAssign(j) \/ Board!ServeOverride(j) \/ Board!ServeUndo(j)
    <2>1. j.h \notin Reads /\ pg' = pg
      BY <1>1 DEF Board!ServeAssign, Board!ServeOverride, Board!ServeUndo, Reads
    <2>2. \E r : jobs' = (jobs \ {j}) \cup {[j EXCEPT !.res = r, !.got = None]}
      BY <1>1 DEF Board!ServeAssign, Board!ServeOverride, Board!ServeUndo
    <2>3. srv' = srv \/ \E l, s : srv' = [srv EXCEPT !.sub[l] = s]
      BY <1>1 DEF Board!ServeAssign, Board!ServeOverride, Board!ServeUndo
    <2>4. DOMAIN srv' = DOMAIN srv /\ DOMAIN srv'.sub = DOMAIN srv.sub
      BY <2>3 DEF BoardInv, BoardShape
    <2> QED BY <2>1, <2>2, <2>4, BoardAnswers
  <1>4. CASE Board!ServeLoad(j)
    <2>1. \A d : Board!OnDay(d) \subseteq Leaves
      BY DEF Board!OnDay
    <2> QED BY <1>4, <2>1, BoardAnswers DEF Board!ServeLoad
  <1>5. CASE Board!ServeCandidates(j)
    BY <1>5, BoardAnswers DEF Board!ServeCandidates, Reads
  <1>6. CASE Board!ServeRecs(j)
    BY <1>6, BoardAnswers DEF Board!ServeRecs, Reads
  <1>7. CASE Board!Fail(j)
    BY <1>7, BoardAnswers DEF Board!Fail
  <1> QED BY <1>1, <1>4, <1>5, <1>6, <1>7

LEMMA BoardContinues ==
  ASSUME BoardInv, NEW j \in jobs,
         Board!OnLoaded(j) \/ Board!OnOpened(j) \/ Board!OnFiltered(j) \/ Board!OnWritten(j)
  PROVE  BoardInv'
  <1> USE DEF BoardInv, BoardShape, BoardRows, BoardWaits, Reads, Run, Clicked, Board!Then, Board!Back
  <1>0. pg.confirm => pg.auto = None
    BY DEF BoardRun
  <1>1. CASE Board!OnLoaded(j)
    <2>1. JobsShaped' /\ SameRun /\ DOMAIN pg' = DOMAIN pg
      BY <1>1 DEF JobsShaped, SameRun, Board!OnLoaded
    <2>2. BoardRows'
      BY <1>1 DEF Board!OnLoaded
    <2>3. BoardWaits'
      BY <1>1 DEF Board!OnLoaded, InFlight
    <2> QED BY <1>0, <1>1, <2>1, <2>2, <2>3, BoardFrame DEF Board!OnLoaded
  <1>2. CASE Board!OnOpened(j)
    <2>1. JobsShaped' /\ SameRun /\ DOMAIN pg' = DOMAIN pg
      BY <1>2 DEF JobsShaped, SameRun, Board!OnOpened
    <2>2. BoardRows'
      BY <1>2 DEF Board!OnOpened
    <2>3. BoardWaits'
      BY <1>2 DEF Board!OnOpened, InFlight
    <2> QED BY <1>0, <1>2, <2>1, <2>2, <2>3, BoardFrame DEF Board!OnOpened
  <1>3. CASE Board!OnFiltered(j)
    <2>1. JobsShaped' /\ SameRun /\ DOMAIN pg' = DOMAIN pg
      BY <1>3 DEF JobsShaped, SameRun, Board!OnFiltered
    <2>2. BoardRows'
      BY <1>3 DEF Board!OnFiltered
    <2>3. BoardWaits'
      BY <1>3 DEF Board!OnFiltered, InFlight
    <2> QED BY <1>0, <1>3, <2>1, <2>2, <2>3, BoardFrame DEF Board!OnFiltered
  <1>4. CASE Board!OnWritten(j)
    <2>1. JobsShaped' /\ SameRun /\ DOMAIN pg' = DOMAIN pg
      BY <1>4 DEF JobsShaped, JobFields, SameRun, Board!OnWritten, Board!Load, Board!Job
    <2>2. BoardRows'
      BY <1>4 DEF Board!OnWritten, Board!Load, Board!Job
    <2>3. BoardWaits'
      BY <1>4 DEF Board!OnWritten, InFlight
    <2> QED BY <1>0, <1>4, <2>1, <2>2, <2>3, BoardFrame DEF Board!OnWritten
  <1> QED BY <1>1, <1>2, <1>3, <1>4

(* A period of the run is over: the counts of the next one add up, or the run is over. *)
LEMMA BoardRunsOn ==
  ASSUME BoardInv, NEW j \in jobs, j.h \in Run, NEW ok \in Nat, NEW skip \in Nat,
         ok + skip = j.a.ok + j.a.skip + 1, Board!AutoNext(j, ok, skip)
  PROVE  BoardInv'
  <1> USE DEF Board!Then
  <1>1. /\ RunCounts(j) /\ pg.auto # None /\ ~pg.confirm
        /\ \A k \in jobs : k.h \in Run => k = j
        /\ UNCHANGED srv
    BY DEF BoardInv, BoardRun, InFlight, Board!AutoNext
  <1>2. CASE j.a.left = {}
    <2> DEFINE k == Job("autoEnd", [ok |-> ok, skip |-> skip, day |-> j.a.day])
    <2>1. jobs' = (jobs \ {j}) \cup {k} /\ pg' = [pg EXCEPT !.auto = None, !.refreshing = TRUE]
      BY <1>2 DEF Board!AutoNext, Board!Job, Job
    <2>2. DOMAIN k = JobFields /\ k.h = "autoEnd" /\ k.res = "sent"
      BY NewJob
    <2> HIDE DEF k
    <2>3. BoardShape'
      BY <1>1, <2>1, <2>2 DEF BoardInv, BoardShape, JobsShaped
    <2>4. BoardRows'
      BY <2>1, <2>2 DEF BoardInv, BoardRows, BoardShape
    <2>5. InFlight({"silent", "autoEnd"})'
      BY <2>1, <2>2 DEF InFlight
    <2>6. ~InFlight(Run)'
      BY <1>1, <2>1, <2>2 DEF InFlight, Run
    <2>7. BoardRun'
      BY <1>1, <2>1, <2>6 DEF BoardInv, BoardRun, BoardShape, InFlight
    <2>8. BoardWaits'
      BY <2>1, <2>5 DEF BoardInv, BoardShape, BoardWaits, InFlight, Run, Clicked
    <2> QED BY <2>3, <2>4, <2>7, <2>8 DEF BoardInv
  <1>3. CASE j.a.left # {}
    <2> DEFINE k == Board!AutoStep(j.a.left, ok, skip, j.a.day)
    <2>1. jobs' = (jobs \ {j}) \cup {k} /\ pg' = [pg EXCEPT !.auto.done = @ + 1]
      BY <1>3 DEF Board!AutoNext
    <2>2. /\ DOMAIN k = JobFields /\ k.h = "recs" /\ k.a.ok = ok /\ k.a.skip = skip
          /\ k.a.left \in SUBSET Leaves /\ Cardinality(k.a.left) \in Nat
          /\ Cardinality(k.a.left) + 1 = Cardinality(j.a.left)
      BY <1>1, <1>3, AutoStepTakesOne DEF RunCounts
    <2> HIDE DEF k
    <2>3. BoardShape'
      BY <1>1, <2>1, <2>2 DEF BoardInv, BoardShape, JobsShaped
    <2>4. BoardRows'
      BY <2>1, <2>2 DEF BoardInv, BoardRows, BoardShape, Reads
    <2>5. pg'.auto = [pg.auto EXCEPT !.done = @ + 1]
      BY <2>1 DEF BoardInv, BoardShape
    <2>6. pg'.auto \in [done : Nat, total : Nat] /\ pg'.auto.done = pg.auto.done + 1 /\ pg'.auto.total = pg.auto.total
      BY <1>1, <2>5 DEF RunCounts
    <2>7. RunCounts(k)'
      BY <1>1, <2>2, <2>6 DEF RunCounts
    <2>8. pg'.auto # None /\ ~pg'.confirm
      BY <1>1, <2>1, <2>6, NoneIsNoCount DEF BoardInv, BoardShape
    <2>9. BoardRun'
      BY <2>1, <2>2, <2>7, <2>8, BoardRunGoesOn DEF Run
    <2>10. BoardWaits'
      BY <2>1 DEF BoardInv, BoardShape, BoardWaits, InFlight, Run, Clicked
    <2> QED BY <2>3, <2>4, <2>9, <2>10 DEF BoardInv
  <1> QED BY <1>2, <1>3

LEMMA BoardRecommends ==
  ASSUME BoardInv, NEW j \in jobs, Board!OnRecommended(j) \/ Board!OnSkipped(j) \/ Board!OnAutoAssigned(j)
  PROVE  BoardInv'
  <1> USE DEF Board!Back
  <1>0. j.h \in Run /\ RunCounts(j) /\ pg.auto # None /\ ~pg.confirm
    BY DEF Board!OnRecommended, Board!OnSkipped, Board!OnAutoAssigned, Run, BoardInv, BoardRun, InFlight
  <1>1. CASE Board!OnRecommended(j)
    <2> DEFINE k == Job("autoAssign", [l |-> j.a.l, left |-> j.a.left, ok |-> j.a.ok, skip |-> j.a.skip,
                                       day |-> j.a.day, s |-> j.got, cross |-> FALSE])
    <2>1. jobs' = (jobs \ {j}) \cup {k} /\ UNCHANGED <<srv, pg>>
      BY <1>1 DEF Board!OnRecommended, Board!Then, Board!Job, Job
    <2>2. /\ DOMAIN k = JobFields /\ k.h = "autoAssign"
          /\ k.a.left = j.a.left /\ k.a.ok = j.a.ok /\ k.a.skip = j.a.skip
      BY NewJob
    <2> HIDE DEF k
    <2>3. BoardShape' /\ BoardRows'
      BY <2>1, <2>2 DEF BoardInv, BoardShape, JobsShaped, BoardRows, Reads
    <2>4. RunCounts(k)'
      BY <1>0, <2>1, <2>2 DEF RunCounts
    <2>5. BoardRun'
      BY <1>0, <2>1, <2>2, <2>4, BoardRunGoesOn DEF Run
    <2>6. BoardWaits'
      BY <1>0, <2>1 DEF BoardInv, BoardWaits, InFlight, Run, Clicked
    <2> QED BY <2>3, <2>5, <2>6 DEF BoardInv
  <1>2. CASE Board!OnSkipped(j)
    BY <1>0, <1>2, BoardRunsOn DEF Board!OnSkipped, RunCounts
  <1>3. CASE Board!OnAutoAssigned(j)
    BY <1>0, <1>3, BoardRunsOn DEF Board!OnAutoAssigned, RunCounts
  <1> QED BY <1>1, <1>2, <1>3

(* A click that calls: what it disables or spins waits for the new job. *)
LEMMA BoardCalls ==
  ASSUME BoardInv, NEW h, NEW a, h \notin Run, Board!Call(h, a),
         DOMAIN pg' = DOMAIN pg, pg'.board = pg.board, pg'.auto = pg.auto, pg'.confirm = pg.confirm,
         pg'.loading => pg.loading \/ h = "load",
         pg'.refreshing => pg.refreshing \/ h = "silent",
         pg'.fetching => pg.fetching \/ h \in {"openAssign", "openOverride", "filter"},
         pg'.busy = pg.busy \/ (h \in Clicked /\ pg'.busy.h = h)
  PROVE  BoardInv'
  <1> DEFINE k == Job(h, a)
  <1>1. jobs' = jobs \cup {k} /\ UNCHANGED srv
    BY DEF Board!Call, Board!Start, Board!Job, Job
  <1>2. DOMAIN k = JobFields /\ k.h = h /\ k.res = "sent"
    BY NewJob
  <1> HIDE DEF k
  <1>3. JobsShaped' /\ \A H : InFlight(H) \/ h \in H => InFlight(H)'
    BY <1>1, <1>2, Started DEF BoardInv, BoardShape
  <1>4. SameRun
    BY <1>1, <1>2 DEF SameRun
  <1>5. BoardRows'
    BY <1>1, <1>2 DEF BoardInv, BoardRows
  <1>6. BoardWaits'
    BY <1>3 DEF BoardInv, BoardWaits
  <1> QED BY <1>1, <1>3, <1>4, <1>5, <1>6, BoardFrame DEF BoardInv, BoardRun

LEMMA BoardClicks ==
  ASSUME BoardInv,
         \/ \E d \in {"today", "next"} : Board!ChangeDate(d)
         \/ \E l \in Leaves : Board!OpenDialog("openAssign", l) \/ Board!OpenDialog("openOverride", l) \/ Board!Undo(l)
         \/ \E s \in BoardSubs : Board!Assign(s) \/ Board!Override(s)
         \/ Board!Refresh \/ Board!ToggleFilter
  PROVE  BoardInv'
  <1>0. DOMAIN pg = {"day", "board", "loading", "refreshing", "live", "tab", "through", "assign", "override",
                     "busy", "cross", "fetching", "confirm", "auto"}
    BY DEF BoardInv, BoardShape
  <1>1. CASE \E d \in {"today", "next"} : Board!ChangeDate(d)
    BY <1>0, <1>1, BoardCalls DEF Board!ChangeDate, Board!DashboardLoad, Run
  <1>2. ASSUME NEW l \in Leaves, NEW h \in {"openAssign", "openOverride"}, Board!OpenDialog(h, l)
        PROVE  BoardInv'
    BY <1>0, <1>2, BoardCalls DEF Board!OpenDialog, Run, Clicked
  <1>3. CASE \E l \in Leaves : Board!Undo(l)
    BY <1>0, <1>3, BoardCalls DEF Board!Undo, Run, Clicked
  <1>4. CASE \E s \in BoardSubs : Board!Assign(s)
    BY <1>0, <1>4, BoardCalls DEF Board!Assign, Run, Clicked
  <1>5. CASE \E s \in BoardSubs : Board!Override(s)
    BY <1>0, <1>5, BoardCalls DEF Board!Override, Run, Clicked
  <1>6. CASE Board!Refresh
    BY <1>0, <1>6, BoardCalls DEF Board!Refresh, Run
  <1>7. CASE Board!ToggleFilter
    <2>1. PICK a, cross : /\ Board!Call("filter", a)
                          /\ pg' = [pg EXCEPT !.cross = cross, !.fetching = TRUE]
      BY <1>7 DEF Board!ToggleFilter
    <2> QED BY <1>0, <2>1, BoardCalls DEF Run
  <1> QED BY <1>1, <1>2, <1>3, <1>4, <1>5, <1>6, <1>7

LEMMA BoardRests ==
  ASSUME BoardInv,
         \/ \E t \in {"all", "needs_coverage", "assigned", "completed"} : Board!SetTab(t)
         \/ \E F \in SUBSET Leaves : Board!SetFilter(F)
         \/ Board!ResetFilters \/ Board!ToggleLive \/ Board!CloseDialog \/ Board!AskAutoAssign
         \/ \E l \in Leaves, s \in BoardSubs : Board!CoverElsewhere(l, s)
         \/ Board!CutOff
         \/ UNCHANGED vars
  PROVE  BoardInv'
  <1> USE DEF Board!SetTab, Board!SetFilter, Board!ResetFilters, Board!ToggleLive, Board!CloseDialog,
              Board!AskAutoAssign, Board!CoverElsewhere, Board!CutOff, Board!Local, Board!Click, vars
  <1>1. jobs' = jobs
    OBVIOUS
  <1>2. DOMAIN srv' = DOMAIN srv /\ DOMAIN srv'.sub = DOMAIN srv.sub
    <2>1. \/ srv' = srv \/ srv' = [srv EXCEPT !.past = TRUE]
          \/ \E l, s : srv' = [srv EXCEPT !.sub[l] = s]
      OBVIOUS
    <2> QED BY <2>1 DEF BoardInv, BoardShape
  <1>3. /\ DOMAIN pg' = DOMAIN pg /\ pg'.auto = pg.auto /\ pg'.board = pg.board
        /\ pg'.loading = pg.loading /\ pg'.refreshing = pg.refreshing
        /\ pg'.fetching = pg.fetching /\ pg'.busy = pg.busy
    BY DEF BoardInv, BoardShape
  <1>4. pg'.confirm => pg.auto = None
    BY DEF BoardInv, BoardShape, BoardRun
  <1>5. JobsShaped' /\ SameRun /\ BoardRows' /\ BoardWaits'
    BY <1>1, <1>3 DEF BoardInv, BoardShape, JobsShaped, SameRun, BoardRows, BoardWaits, InFlight
  <1> QED BY <1>2, <1>3, <1>4, <1>5, BoardFrame

(* The run is asked for only while there is none. *)
LEMMA BoardRunStarts == ASSUME BoardInv, Board!RunAutoAssign PROVE BoardInv'
  <1>a. PICK T : T = Board!InView \cap Board!Uncovered
    OBVIOUS
  <1>0. /\ pg.confirm /\ pg.auto = None /\ UNCHANGED srv
        /\ \A i \in jobs : i.h \notin Run
    BY DEF Board!RunAutoAssign, Board!Click, BoardInv, BoardRun, InFlight
  <1>1. T \in SUBSET Leaves
    BY <1>a DEF Board!InView, Board!Uncovered, Board!Rows, BoardInv, BoardRows
  <1>2. CASE T = {}
    <2>1. jobs' = jobs /\ pg' = [pg EXCEPT !.confirm = FALSE]
      BY <1>2, <1>a DEF Board!RunAutoAssign, Board!Click
    <2>2. JobsShaped' /\ SameRun /\ BoardRows' /\ BoardWaits'
      BY <2>1 DEF BoardInv, BoardShape, JobsShaped, SameRun, BoardRows, BoardWaits, InFlight
    <2> QED BY <1>0, <2>1, <2>2, BoardFrame DEF BoardInv, BoardShape
  <1>3. CASE T # {}
    <2>a. PICK k : k = Board!AutoStep(T, 0, 0, pg.day)
      OBVIOUS
    <2>1. /\ jobs' = jobs \cup {k}
          /\ pg' = [pg EXCEPT !.confirm = FALSE, !.auto = [done |-> 0, total |-> Cardinality(T)]]
      BY <1>3, <1>a, <2>a, BoardSets DEF Board!RunAutoAssign
    <2>2. /\ DOMAIN k = JobFields /\ k.h = "recs" /\ k.a.ok = 0 /\ k.a.skip = 0
          /\ k.a.left \in SUBSET Leaves /\ Cardinality(k.a.left) \in Nat
          /\ Cardinality(T) \in Nat /\ Cardinality(k.a.left) + 1 = Cardinality(T)
      BY <1>1, <1>3, <2>a, AutoStepTakesOne
    <2>3. BoardShape'
      BY <1>0, <2>1, <2>2 DEF BoardInv, BoardShape, JobsShaped
    <2>4. BoardRows'
      BY <2>1, <2>2 DEF BoardInv, BoardRows, BoardShape, Reads
    <2>5. pg'.auto = [done |-> 0, total |-> Cardinality(T)] /\ ~pg'.confirm
      BY <2>1 DEF BoardInv, BoardShape
    <2>6. pg'.auto \in [done : Nat, total : Nat] /\ pg'.auto # None
      BY <2>2, <2>5, NoneIsNoCount
    <2>7. RunCounts(k)'
      BY <2>2, <2>5, <2>6 DEF RunCounts
    <2>8. InFlight(Run)' /\ \A i \in jobs' : i.h \in Run => i = k
      BY <1>0, <2>1, <2>2 DEF InFlight, Run
    <2>9. BoardRun'
      BY <2>5, <2>6, <2>7, <2>8 DEF BoardRun
    <2>10. BoardWaits'
      BY <2>1 DEF BoardInv, BoardShape, BoardWaits, InFlight
    <2> QED BY <2>3, <2>4, <2>9, <2>10 DEF BoardInv
  <1> QED BY <1>2, <1>3

LEMMA BoardKeeps == ASSUME BoardInv, [Board!Next]_vars PROVE BoardInv'
  BY BoardServes, BoardContinues, BoardRecommends, BoardClicks, BoardRests, BoardRunStarts DEF Board!Next

LEMMA BoardHolds == ASSUME BoardInv PROVE Board!WaitingHasJob /\ Board!RunAddsUp
  BY BoardSets DEF BoardInv, BoardWaits, BoardRun, RunCounts, Run, InFlight, Board!InFlight,
     Board!WaitingHasJob, Board!RunAddsUp

(* Only the calls that change or remove a substitute take a leave's away. *)
LEMMA BoardCovers == ASSUME BoardInv, [Board!Next]_vars PROVE Board!CoverKeptStep
  <1> USE DEF BoardInv, BoardShape, Board!CoverKeptStep, Board!Sent
  <1> SUFFICES ASSUME srv' # srv PROVE Board!CoverKeptStep
    OBVIOUS
  <1>1. ASSUME NEW j \in jobs, Board!ServeAssign(j) PROVE Board!CoverKeptStep
    BY <1>1 DEF Board!ServeAssign, Board!Assignable
  <1>2. ASSUME NEW j \in jobs, Board!ServeOverride(j) PROVE Board!CoverKeptStep
    BY <1>2 DEF Board!ServeOverride
  <1>3. ASSUME NEW j \in jobs, Board!ServeUndo(j) PROVE Board!CoverKeptStep
    BY <1>3 DEF Board!ServeUndo
  <1>4. CASE \E l \in Leaves, s \in BoardSubs : Board!CoverElsewhere(l, s)
    BY <1>4 DEF Board!CoverElsewhere, Board!Assignable
  <1>5. CASE Board!CutOff
    BY <1>5 DEF Board!CutOff
  <1>6. ASSUME NEW j \in jobs,
               \/ Board!ServeLoad(j) \/ Board!ServeCandidates(j) \/ Board!ServeRecs(j) \/ Board!Fail(j)
               \/ Board!OnLoaded(j) \/ Board!OnOpened(j) \/ Board!OnFiltered(j) \/ Board!OnWritten(j)
               \/ Board!OnRecommended(j) \/ Board!OnSkipped(j) \/ Board!OnAutoAssigned(j)
        PROVE  FALSE
    BY <1>6 DEF Board!ServeLoad, Board!ServeCandidates, Board!ServeRecs, Board!Fail, Board!OnLoaded,
       Board!OnOpened, Board!OnFiltered, Board!OnWritten, Board!OnRecommended, Board!OnSkipped,
       Board!OnAutoAssigned, Board!AutoNext, Board!Then
  <1>7. ASSUME \/ \E d \in {"today", "next"} : Board!ChangeDate(d)
               \/ \E t \in {"all", "needs_coverage", "assigned", "completed"} : Board!SetTab(t)
               \/ \E F \in SUBSET Leaves : Board!SetFilter(F)
               \/ Board!ResetFilters
               \/ \E l \in Leaves : \/ Board!OpenDialog("openAssign", l) \/ Board!OpenDialog("openOverride", l)
                                    \/ Board!Undo(l)
               \/ \E s \in BoardSubs : Board!Assign(s) \/ Board!Override(s)
               \/ Board!Refresh \/ Board!ToggleLive \/ Board!ToggleFilter \/ Board!CloseDialog
               \/ Board!AskAutoAssign \/ Board!RunAutoAssign
               \/ UNCHANGED vars
        PROVE  FALSE
    BY <1>7 DEF Board!ChangeDate, Board!DashboardLoad, Board!SetTab, Board!SetFilter, Board!ResetFilters,
       Board!OpenDialog, Board!Undo, Board!Assign, Board!Override, Board!Refresh, Board!ToggleLive,
       Board!ToggleFilter, Board!CloseDialog, Board!AskAutoAssign, Board!RunAutoAssign, Board!Call,
       Board!Click, Board!Local, vars
  <1> QED BY <1>1, <1>2, <1>3, <1>4, <1>5, <1>6, <1>7 DEF Board!Next

-----------------------------------------------------------------------------
(* A teacher's own substitutions (SelfCover) *)

OwnShape ==
    /\ JobsShaped
    /\ DOMAIN srv = {"allowed", "sub", "past", "pending", "locked", "prefs"} /\ DOMAIN srv.sub = Leaves
    /\ DOMAIN pg = {"loading", "enabled", "crashed", "tab", "needs", "covered", "past", "modal", "warn", "warned",
                    "askClear", "askReset", "busy", "cross"}

(* The limit is exceeded on purpose only for a teacher there has been a warning about. *)
OwnForced(k) == k.h = "assign" /\ k.a.force => k.a.s \in pg.warned
OwnWarned ==
    /\ \A j \in jobs : OwnForced(j)
    /\ pg.warn # None => pg.warn.s \in pg.warned

(* The handler, or the reading of the lists it awaits. *)
Marks(j) == {j.h, IF j.h \in {"enabled", "lists"} THEN j.a.who ELSE None}
Awaited(b) == \E j \in jobs : b \in Marks(j)
OwnWaits ==
    /\ pg.loading => InFlight({"enabled", "lists"})
    /\ pg.busy \in {None, "open", "filter", "assign", "clear_all", "reset_prefs"}
    /\ pg.busy # None => Awaited(pg.busy)
    /\ \A j \in jobs : j.h \in {"enabled", "lists"} => j.a.who \in {"mount", "assign", "clear_all", "reset_prefs"}

OwnInv == OwnShape /\ OwnWarned /\ OwnWaits

LEMMA OwnStarts == ASSUME Own!Init PROVE OwnInv
  BY DEF OwnInv, OwnShape, OwnWarned, OwnForced, OwnWaits, JobsShaped, JobFields, InFlight, Own!Init,
     Own!LoadData, Own!Job

LEMMA OwnFrame ==
  ASSUME OwnInv, JobsShaped', OwnWaits', DOMAIN srv' = DOMAIN srv, DOMAIN srv'.sub = DOMAIN srv.sub,
         DOMAIN pg' = DOMAIN pg, pg.warned \subseteq pg'.warned,
         pg'.warn # None => pg'.warn = pg.warn \/ pg'.warn.s \in pg'.warned,
         \A k \in jobs' \ jobs : OwnForced(k)'
  PROVE  OwnInv'
  <1>1. OwnShape'
    BY DEF OwnInv, OwnShape
  <1>2. OwnWarned'
    BY DEF OwnInv, OwnWarned, OwnForced
  <1> QED BY <1>1, <1>2 DEF OwnInv

LEMMA OwnAnswers ==
  ASSUME OwnInv, NEW j \in jobs, NEW r, NEW g, jobs' = (jobs \ {j}) \cup {[j EXCEPT !.res = r, !.got = g]},
         pg' = pg, DOMAIN srv' = DOMAIN srv, DOMAIN srv'.sub = DOMAIN srv.sub
  PROVE  OwnInv'
  <1> DEFINE k == [j EXCEPT !.res = r, !.got = g]
  <1>1. DOMAIN k = JobFields /\ k.h = j.h /\ k.a = j.a
    BY DEF OwnInv, OwnShape, JobsShaped, JobFields
  <1>2. JobsShaped' /\ \A H : InFlight(H) => InFlight(H)'
    BY AnsweredWith DEF OwnInv, OwnShape
  <1>3. jobs' = (jobs \ {j}) \cup {k}
    OBVIOUS
  <1> HIDE DEF k
  <1>4. Marks(k) = Marks(j)
    BY <1>1 DEF Marks
  <1>5. \A b : Awaited(b) => Awaited(b)'
    BY <1>3, <1>4 DEF Awaited
  <1>6. OwnWaits'
    BY <1>1, <1>2, <1>3, <1>5 DEF OwnInv, OwnWaits
  <1>7. \A i \in jobs' \ jobs : OwnForced(i)'
    BY <1>1, <1>3 DEF OwnInv, OwnWarned, OwnForced
  <1> QED BY <1>2, <1>6, <1>7, OwnFrame

LEMMA OwnServes ==
  ASSUME OwnInv, NEW j \in jobs,
         \/ Own!ServeEnabled(j) \/ Own!ServeMyLeaves(j) \/ Own!ServeAllLeaves(j) \/ Own!ServeCandidates(j)
         \/ Own!ServeAssign(j) \/ Own!ServeClearAll(j) \/ Own!ServeReset(j) \/ Own!ServeNotAllowed(j) \/ Own!Fail(j)
  PROVE  OwnInv'
  <1>1. /\ pg' = pg
        /\ \E r, g : jobs' = (jobs \ {j}) \cup {[j EXCEPT !.res = r, !.got = g]}
    BY DEF Own!ServeEnabled, Own!ServeMyLeaves, Own!ServeAllLeaves, Own!ServeCandidates, Own!ServeAssign,
       Own!ServeClearAll, Own!ServeReset, Own!ServeNotAllowed, Own!Fail, Own!Answer
  <1>2. \/ srv' = srv \/ srv' = [srv EXCEPT !.prefs = "default"]
        \/ srv' = [srv EXCEPT !.sub[j.a.l] = j.a.s]
        \/ DOMAIN srv' = DOMAIN srv /\ DOMAIN srv'.sub = Leaves
    <2>1. CASE Own!ServeClearAll(j)
      BY <2>1 DEF Own!ServeClearAll, OwnInv, OwnShape
    <2>2. CASE Own!ServeAssign(j)
      BY <2>2 DEF Own!ServeAssign, Own!Answer
    <2>3. CASE \/ Own!ServeEnabled(j) \/ Own!ServeMyLeaves(j) \/ Own!ServeAllLeaves(j) \/ Own!ServeCandidates(j)
               \/ Own!ServeReset(j) \/ Own!ServeNotAllowed(j) \/ Own!Fail(j)
      BY <2>3 DEF Own!ServeEnabled, Own!ServeMyLeaves, Own!ServeAllLeaves, Own!ServeCandidates,
         Own!ServeReset, Own!ServeNotAllowed, Own!Fail, Own!Answer
    <2> QED BY <2>1, <2>2, <2>3
  <1>3. DOMAIN srv' = DOMAIN srv /\ DOMAIN srv'.sub = DOMAIN srv.sub
    BY <1>2 DEF OwnInv, OwnShape
  <1> QED BY <1>1, <1>3, OwnAnswers

(* Who awaited the job that ends awaits the reading it starts. *)
LEMMA OwnHandsOver ==
  ASSUME OwnInv, NEW j \in jobs, NEW h \in {"enabled", "lists"}, NEW k, k.h = h,
         k.a.who \in {"mount", "assign", "clear_all", "reset_prefs"},
         pg.busy # None /\ pg.busy \in Marks(j) => pg.busy = k.a.who,
         jobs' = (jobs \ {j}) \cup {k}, pg'.busy = pg.busy
  PROVE  OwnWaits'
  <1>1. InFlight({"enabled", "lists"})'
    BY DEF InFlight
  <1>2. k.a.who \in Marks(k)
    BY DEF Marks
  <1>3. ASSUME pg.busy # None PROVE Awaited(pg.busy)'
    <2>1. PICK i \in jobs : pg.busy \in Marks(i)
      BY <1>3 DEF OwnInv, OwnWaits, Awaited
    <2>2. CASE i = j
      <3>1. pg.busy \in Marks(k)
        BY <1>2, <1>3, <2>1, <2>2
      <3> QED BY <3>1 DEF Awaited
    <2>3. CASE i # j
      BY <2>1, <2>3 DEF Awaited
    <2> QED BY <2>2, <2>3
  <1>4. \A i \in jobs' : i.h \in {"enabled", "lists"} => i.a.who \in {"mount", "assign", "clear_all", "reset_prefs"}
    BY DEF OwnInv, OwnWaits
  <1> QED BY <1>1, <1>3, <1>4 DEF OwnInv, OwnWaits, Awaited, Marks

LEMMA OwnContinues ==
  ASSUME OwnInv, NEW j \in jobs,
         \/ Own!OnEnabled(j) \/ Own!OnLists(j) \/ Own!OnOpened(j) \/ Own!OnFiltered(j) \/ Own!OnAssigned(j)
         \/ Own!OnLimit(j) \/ Own!OnDone(j) \/ Own!OnError(j)
  PROVE  OwnInv'
  <1> USE DEF OwnInv, OwnShape, OwnForced, Own!Then, Own!Back
  <1>1. CASE Own!OnEnabled(j)
    <2> USE DEF Own!OnEnabled, Own!LoadLists, Own!Job, Own!Loaded
    <2>1. JobsShaped' /\ \A k \in jobs' \ jobs : OwnForced(k)'
      BY <1>1 DEF JobsShaped, JobFields
    <2>2. OwnWaits'
      <3>1. j.a.who \in {"mount", "assign", "clear_all", "reset_prefs"} /\ Marks(j) = {"enabled", j.a.who}
        BY <1>1 DEF OwnWaits, Marks
      <3>2. CASE j.res = "ok" /\ j.got.on
        <4>1. PICK k : k = Own!LoadLists(j.a.who)
          OBVIOUS
        <4>2. k.h = "lists" /\ k.a.who = j.a.who
          BY <4>1
        <4>3. jobs' = (jobs \ {j}) \cup {k} /\ pg'.busy = pg.busy
          BY <1>1, <3>2, <4>1
        <4> QED BY <3>1, <4>2, <4>3, OwnHandsOver DEF OwnWaits
      <3>3. CASE ~(j.res = "ok" /\ j.got.on)
        <4>1. /\ jobs' = jobs \ {j} /\ ~pg'.loading
              /\ pg'.busy = IF j.a.who = "mount" THEN pg.busy ELSE None
          BY <1>1, <3>3
        <4> QED BY <3>1, <4>1 DEF OwnWaits, Awaited
      <3> QED BY <3>2, <3>3
    <2> QED BY <1>1, <2>1, <2>2, OwnFrame
  <1>2. CASE Own!OnLists(j)
    <2> USE DEF Own!OnLists, Own!Loaded
    <2>1. JobsShaped' /\ \A k \in jobs' \ jobs : OwnForced(k)'
      BY <1>2 DEF JobsShaped, JobFields
    <2>2. OwnWaits'
      BY <1>2 DEF OwnWaits, InFlight, Awaited, Marks
    <2> QED BY <1>2, <2>1, <2>2, OwnFrame
  <1>3. CASE Own!OnOpened(j)
    <2> USE DEF Own!OnOpened
    <2>1. JobsShaped' /\ \A k \in jobs' \ jobs : OwnForced(k)'
      BY <1>3 DEF JobsShaped, JobFields
    <2>2. OwnWaits'
      BY <1>3 DEF OwnWaits, InFlight
    <2> QED BY <1>3, <2>1, <2>2, OwnFrame
  <1>4. CASE Own!OnFiltered(j)
    <2> USE DEF Own!OnFiltered
    <2>1. JobsShaped' /\ \A k \in jobs' \ jobs : OwnForced(k)'
      BY <1>4 DEF JobsShaped, JobFields
    <2>2. OwnWaits'
      BY <1>4 DEF OwnWaits, InFlight
    <2> QED BY <1>4, <2>1, <2>2, OwnFrame
  <1>5. CASE Own!OnAssigned(j)
    <2> USE DEF Own!OnAssigned, Own!LoadData, Own!Job
    <2>1. JobsShaped' /\ \A k \in jobs' \ jobs : OwnForced(k)'
      BY <1>5 DEF JobsShaped, JobFields
    <2>2. OwnWaits'
      <3>1. PICK k : k = Own!LoadData("assign")
        OBVIOUS
      <3>2. k.h = "enabled" /\ k.a.who = "assign"
        BY <3>1
      <3>3. Marks(j) = {"assign", None} /\ jobs' = (jobs \ {j}) \cup {k} /\ pg'.busy = pg.busy
        BY <1>5, <3>1 DEF Marks
      <3> QED BY <3>2, <3>3, OwnHandsOver DEF OwnWaits
    <2> QED BY <1>5, <2>1, <2>2, OwnFrame
  <1>6. CASE Own!OnLimit(j)
    <2> USE DEF Own!OnLimit
    <2>1. JobsShaped' /\ \A k \in jobs' \ jobs : OwnForced(k)'
      BY <1>6 DEF JobsShaped, JobFields
    <2>2. OwnWaits'
      BY <1>6 DEF OwnWaits, InFlight
    <2> QED BY <1>6, <2>1, <2>2, OwnFrame
  <1>7. CASE Own!OnDone(j)
    <2> USE DEF Own!OnDone, Own!LoadData, Own!Job
    <2>1. JobsShaped' /\ \A k \in jobs' \ jobs : OwnForced(k)'
      BY <1>7 DEF JobsShaped, JobFields
    <2>2. OwnWaits'
      <3>1. PICK k : k = Own!LoadData(j.h)
        OBVIOUS
      <3>2. k.h = "enabled" /\ k.a.who = j.h /\ j.h \in {"clear_all", "reset_prefs"}
        BY <1>7, <3>1
      <3>3. Marks(j) = {j.h, None} /\ jobs' = (jobs \ {j}) \cup {k} /\ pg'.busy = pg.busy
        BY <1>7, <3>1 DEF Marks
      <3> QED BY <3>2, <3>3, OwnHandsOver DEF OwnWaits
    <2> QED BY <1>7, <2>1, <2>2, OwnFrame
  <1>8. CASE Own!OnError(j)
    <2> USE DEF Own!OnError
    <2>1. JobsShaped' /\ \A k \in jobs' \ jobs : OwnForced(k)'
      BY <1>8 DEF JobsShaped, JobFields
    <2>2. OwnWaits'
      BY <1>8 DEF OwnWaits, InFlight
    <2> QED BY <1>8, <2>1, <2>2, OwnFrame
  <1> QED BY <1>1, <1>2, <1>3, <1>4, <1>5, <1>6, <1>7, <1>8

LEMMA OwnClicks ==
  ASSUME OwnInv,
         \/ \E l \in Leaves : Own!OpenAssignModal(l)
         \/ \E s \in Subs : Own!AssignSubstitute(s)
         \/ Own!ApplyFilters \/ Own!AssignAnyway \/ Own!ClearAllAssignments \/ Own!ResetPreferences
  PROVE  OwnInv'
  <1> USE DEF Own!OpenAssignModal, Own!AssignSubstitute, Own!ApplyFilters, Own!AssignAnyway,
              Own!ClearAllAssignments, Own!ResetPreferences, Own!Send, Own!Start
  <1>1. PICK h, a : /\ jobs' = jobs \cup {Job(h, a)} /\ UNCHANGED srv
                    /\ h \in {"open", "filter", "assign", "clear_all", "reset_prefs"} /\ pg'.busy = h
                    /\ OwnForced(Job(h, a))
                    /\ DOMAIN pg' = DOMAIN pg /\ pg'.warn = pg.warn /\ pg'.warned = pg.warned
                    /\ pg'.loading = pg.loading
    <2> USE DEF Own!Job, Job, OwnInv, OwnShape, OwnWarned, OwnForced
    <2>1. CASE \E l \in Leaves : Own!OpenAssignModal(l)
      BY <2>1
    <2>2. CASE \E s \in Subs : Own!AssignSubstitute(s)
      BY <2>2
    <2>3. CASE Own!ApplyFilters
      BY <2>3
    <2>4. CASE Own!AssignAnyway
      BY <2>4
    <2>5. CASE Own!ClearAllAssignments
      BY <2>5
    <2>6. CASE Own!ResetPreferences
      BY <2>6
    <2> QED BY <2>1, <2>2, <2>3, <2>4, <2>5, <2>6
  <1>2. PICK k : k = Job(h, a)
    OBVIOUS
  <1>3. DOMAIN k = JobFields /\ k.h = h
    BY <1>2, NewJob
  <1>4. JobsShaped' /\ \A H : InFlight(H) => InFlight(H)'
    BY <1>1, <1>2, <1>3, Started DEF OwnInv, OwnShape
  <1>5. OwnWaits'
    BY <1>1, <1>2, <1>3, <1>4 DEF OwnInv, OwnWaits, Awaited, Marks
  <1>6. \A i \in jobs' \ jobs : OwnForced(i)'
    BY <1>1 DEF OwnForced
  <1> QED BY <1>1, <1>4, <1>5, <1>6, OwnFrame

LEMMA OwnRests ==
  ASSUME OwnInv,
         \/ \E t \in {"needs-cover", "assigned-cover", "completed-cover"} : Own!SetTab(t)
         \/ Own!CloseModal \/ Own!CancelWarning \/ Own!AskClear \/ Own!AskReset \/ Own!CancelAsk
         \/ Own!Elsewhere
         \/ UNCHANGED vars
  PROVE  OwnInv'
  <1> USE DEF Own!SetTab, Own!CloseModal, Own!CancelWarning, Own!AskClear, Own!AskReset, Own!CancelAsk,
              Own!Elsewhere, Own!Local, Own!Click, vars
  <1>1. jobs' = jobs
    OBVIOUS
  <1>2. \/ srv' = srv \/ \E l, s : srv' = [srv EXCEPT !.sub[l] = s]
        \/ \E x : \/ srv' = [srv EXCEPT !.allowed = x] \/ srv' = [srv EXCEPT !.pending = x]
                  \/ srv' = [srv EXCEPT !.past = x] \/ srv' = [srv EXCEPT !.locked = x]
    OBVIOUS
  <1>3. DOMAIN srv' = DOMAIN srv /\ DOMAIN srv'.sub = DOMAIN srv.sub
    BY <1>2 DEF OwnInv, OwnShape
  <1>4. /\ DOMAIN pg' = DOMAIN pg /\ pg'.busy = pg.busy /\ pg'.loading = pg.loading
        /\ pg'.warned = pg.warned /\ pg'.warn \in {None, pg.warn}
    BY DEF OwnInv, OwnShape
  <1>5. JobsShaped' /\ OwnWaits'
    BY <1>1, <1>4 DEF OwnInv, OwnShape, JobsShaped, OwnWaits, InFlight, Awaited, Marks
  <1> QED BY <1>1, <1>3, <1>4, <1>5, OwnFrame

LEMMA OwnKeeps == ASSUME OwnInv, [Own!Next]_vars PROVE OwnInv'
  BY OwnServes, OwnContinues, OwnClicks, OwnRests DEF Own!Next

LEMMA OwnHolds == ASSUME OwnInv PROVE Own!WaitingHasJob
  BY DEF OwnInv, OwnWaits, Awaited, Marks, InFlight, Own!InFlight, Own!WaitingHasJob

(* Only the server's own handling of an assignment ends it and covers with a teacher at the limit. *)
LEMMA OwnAsks == ASSUME OwnInv, [Own!Next]_vars PROVE Own!LimitAskedStep
  <1> SUFFICES ASSUME NEW j \in jobs, NEW l \in Leaves, Own!Sent(j, {"assign"}), j \notin jobs',
                      srv'.sub[l] # srv.sub[l], srv'.sub[l] \in AtLimit
               PROVE  srv'.sub[l] \in pg.warned
    BY DEF Own!LimitAskedStep
  <1>1. ASSUME NEW i \in jobs, Own!ServeAssign(i) PROVE srv'.sub[l] \in pg.warned
    <2>1. i.h = "assign" /\ srv' = [srv EXCEPT !.sub[i.a.l] = i.a.s]
      BY <1>1 DEF Own!ServeAssign, Own!Sent
    <2>2. l = i.a.l /\ srv'.sub[l] = i.a.s
      BY <2>1 DEF OwnInv, OwnShape
    <2>3. i.a.force
      BY <1>1, <2>2 DEF Own!ServeAssign
    <2> QED BY <2>1, <2>2, <2>3 DEF OwnInv, OwnWarned, OwnForced
  <1>2. ASSUME NEW i \in jobs, Own!ServeClearAll(i) \/ Own!ServeReset(i) PROVE FALSE
    BY <1>2 DEF Own!ServeClearAll, Own!ServeReset, Own!Sent, Own!Answer
  <1>3. ASSUME NEW i \in jobs,
               \/ Own!ServeEnabled(i) \/ Own!ServeMyLeaves(i) \/ Own!ServeAllLeaves(i) \/ Own!ServeCandidates(i)
               \/ Own!ServeNotAllowed(i) \/ Own!Fail(i) \/ Own!OnEnabled(i) \/ Own!OnLists(i) \/ Own!OnOpened(i)
               \/ Own!OnFiltered(i) \/ Own!OnAssigned(i) \/ Own!OnLimit(i) \/ Own!OnDone(i) \/ Own!OnError(i)
        PROVE  FALSE
    BY <1>3 DEF Own!ServeEnabled, Own!ServeMyLeaves, Own!ServeAllLeaves, Own!ServeCandidates,
       Own!ServeNotAllowed, Own!Fail, Own!OnEnabled, Own!OnLists, Own!OnOpened, Own!OnFiltered,
       Own!OnAssigned, Own!OnLimit, Own!OnDone, Own!OnError, Own!Then
  <1>4. ASSUME \/ \E m \in Leaves : Own!OpenAssignModal(m)
               \/ \E s \in Subs : Own!AssignSubstitute(s)
               \/ Own!ApplyFilters \/ Own!AssignAnyway \/ Own!ClearAllAssignments \/ Own!ResetPreferences
        PROVE  FALSE
    BY <1>4 DEF Own!OpenAssignModal, Own!AssignSubstitute, Own!ApplyFilters, Own!AssignAnyway,
       Own!ClearAllAssignments, Own!ResetPreferences, Own!Send
  <1>5. ASSUME \/ \E t \in {"needs-cover", "assigned-cover", "completed-cover"} : Own!SetTab(t)
               \/ Own!CloseModal \/ Own!CancelWarning \/ Own!AskClear \/ Own!AskReset \/ Own!CancelAsk
               \/ Own!Elsewhere \/ UNCHANGED vars
        PROVE  FALSE
    BY <1>5 DEF Own!SetTab, Own!CloseModal, Own!CancelWarning, Own!AskClear, Own!AskReset, Own!CancelAsk,
       Own!Elsewhere, Own!Local, Own!Click, vars
  <1> QED BY <1>1, <1>2, <1>3, <1>4, <1>5 DEF Own!Next

-----------------------------------------------------------------------------
(* A teacher's own leave (MyLeaves) *)

MineShape ==
    /\ JobsShaped
    /\ DOMAIN srv = {"leaves", "blocked", "auto", "late", "today"}
    /\ \E n \in Nat : DOMAIN srv.leaves = 1 .. n
    /\ \A i \in DOMAIN srv.leaves : DOMAIN srv.leaves[i] = {"date", "per", "st"}
    /\ DOMAIN pg = {"page", "loading", "form", "info", "checking", "success", "rows", "filter", "detail",
                    "policy", "cancel", "acting"}
    /\ DOMAIN pg.form = {"date", "whole", "per"} /\ pg.form.per \subseteq Periods

(* Every period that form f asks for is on record. *)
Recorded(f) ==
    \A p \in Mine!Asked(f) : \E i \in DOMAIN srv.leaves : srv.leaves[i].date = f.date /\ srv.leaves[i].per = p

(* A handler that is on is of the page that is open; an accepted request is on record. *)
MineJob(k) ==
    /\ "on" \in DOMAIN k.a
    /\ k.a.on => \/ pg.page = "apply" /\ k.h \in {"resolve", "apply"}
                 \/ pg.page = "history" /\ k.h \in {"load", "cancel"}
    /\ k.h = "apply" => "form" \in DOMAIN k.a /\ k.a.form.per \subseteq Periods
    /\ k.h = "apply" /\ k.res = "ok" => Recorded(k.a.form)

MineInv ==
    /\ MineShape
    /\ \A j \in jobs : MineJob(j)
    /\ pg.success # None => Recorded(pg.success.form)
    /\ Mine!WaitingHasJob

LEMMA MineStarts == ASSUME Mine!Init PROVE MineInv
  <1>0. DOMAIN <<>> = 1 .. 0
    OBVIOUS
  <1>1. MineShape
    <2>1. srv.leaves = <<>> /\ DOMAIN srv = {"leaves", "blocked", "auto", "late", "today"}
      BY DEF Mine!Init
    <2>2. JobsShaped
      BY DEF Mine!Init, Mine!Mounted, Mine!Resolve, Mine!Job, JobsShaped, JobFields
    <2>3. /\ DOMAIN pg = {"page", "loading", "form", "info", "checking", "success", "rows", "filter", "detail",
                          "policy", "cancel", "acting"}
          /\ DOMAIN pg.form = {"date", "whole", "per"} /\ pg.form.per \subseteq Periods
      BY DEF Mine!Init, Mine!Fresh
    <2>4. 0 \in Nat /\ DOMAIN srv.leaves = 1 .. 0
      BY <1>0, <2>1
    <2> QED BY <2>1, <2>2, <2>3, <2>4 DEF MineShape
  <1>2. \A j \in jobs : MineJob(j)
    BY DEF Mine!Init, Mine!Fresh, Mine!Mounted, Mine!Resolve, Mine!Job, MineJob
  <1>3. Mine!WaitingHasJob /\ pg.success = None
    BY DEF Mine!Init, Mine!Fresh, Mine!Mounted, Mine!Resolve, Mine!Job, Mine!WaitingHasJob, Mine!Awaits
  <1> QED BY <1>1, <1>2, <1>3 DEF MineInv

(* A period of leave that was asked for stays on record, whatever becomes of it. *)
RowsStay ==
    /\ DOMAIN srv' = DOMAIN srv
    /\ \E n \in Nat : DOMAIN srv'.leaves = 1 .. n
    /\ \A i \in DOMAIN srv'.leaves : DOMAIN srv'.leaves[i] = {"date", "per", "st"}
    /\ \A i \in DOMAIN srv.leaves :
          i \in DOMAIN srv'.leaves /\ srv'.leaves[i].date = srv.leaves[i].date /\ srv'.leaves[i].per = srv.leaves[i].per

LEMMA StaysRecorded == ASSUME RowsStay, NEW f, Recorded(f) PROVE Recorded(f)'
  BY DEF RowsStay, Recorded, Mine!Asked

LEMMA SameRows == ASSUME MineInv, UNCHANGED srv PROVE RowsStay
  BY DEF RowsStay, MineInv, MineShape

(* What the open page does. *)
LEMMA MineFrame ==
  ASSUME MineInv, RowsStay, JobsShaped', Mine!WaitingHasJob', \A k \in jobs' \ jobs : MineJob(k)',
         DOMAIN pg' = DOMAIN pg, pg'.page = pg.page, pg'.form = pg.form \/
           (DOMAIN pg'.form = {"date", "whole", "per"} /\ pg'.form.per \subseteq Periods),
         pg'.success = pg.success \/ Recorded(pg'.success.form)
  PROVE  MineInv'
  <1>1. MineShape'
    BY DEF MineInv, MineShape, RowsStay
  <1>2. ASSUME NEW j \in jobs PROVE MineJob(j)'
    BY StaysRecorded DEF MineInv, MineJob
  <1>3. ASSUME pg'.success # None PROVE Recorded(pg.success.form)'
    <2>1. \A p \in Mine!Asked(pg'.success.form) :
            \E i \in DOMAIN srv.leaves : srv.leaves[i].date = pg'.success.form.date /\ srv.leaves[i].per = p
      BY <1>3 DEF MineInv, Recorded, Mine!Asked
    <2> QED BY <2>1 DEF RowsStay, Recorded, Mine!Asked
  <1> QED BY <1>1, <1>2, <1>3 DEF MineInv

LEMMA MineAnswers ==
  ASSUME MineInv, RowsStay, NEW j \in jobs, NEW r, NEW g, UNCHANGED pg,
         jobs' = (jobs \ {j}) \cup {[j EXCEPT !.res = r, !.got = g]},
         j.h = "apply" /\ r = "ok" => Recorded(j.a.form)'
  PROVE  MineInv'
  <1>1. PICK k : k = [j EXCEPT !.res = r, !.got = g]
    OBVIOUS
  <1>2. DOMAIN k = JobFields /\ k.h = j.h /\ k.a = j.a /\ k.res = r
    BY <1>1 DEF MineInv, MineShape, JobsShaped, JobFields
  <1>3. JobsShaped'
    BY AnsweredWith DEF MineInv, MineShape
  <1>4. MineJob(k)'
    BY <1>2 DEF MineInv, MineJob
  <1>5. \A H : Mine!Awaits(H) => Mine!Awaits(H)'
    BY <1>1, <1>2 DEF Mine!Awaits
  <1>6. Mine!WaitingHasJob'
    BY <1>5 DEF MineInv, Mine!WaitingHasJob
  <1> QED BY <1>1, <1>3, <1>4, <1>6, MineFrame

(* Another page is entered: nothing of the old one is on. *)
LEMMA MineEnters ==
  ASSUME MineInv, NEW p \in {"apply", "history", "other"}, NEW J \in SUBSET jobs,
         \A j \in jobs \ J : j.h = "redirect", UNCHANGED srv, Mine!Enter(p, J)
  PROVE  MineInv'
  <1>0. RowsStay
    BY SameRows
  <1>1. CASE p = pg.page
    <2>1. jobs' = J /\ pg' = pg
      BY <1>1 DEF Mine!Enter
    <2>2. JobsShaped' /\ Mine!WaitingHasJob'
      BY <2>1 DEF MineInv, MineShape, MineJob, JobsShaped, Mine!WaitingHasJob, Mine!Awaits
    <2> QED BY <1>0, <2>1, <2>2, MineFrame
  <1>2. CASE p # pg.page
    <2>1. pg' = Mine!Fresh(p) /\ jobs' = {[j EXCEPT !.a.on = FALSE] : j \in J} \cup Mine!Mounted(p)
      BY <1>2 DEF Mine!Enter
    <2>2. ASSUME NEW k \in Mine!Mounted(p)
          PROVE  DOMAIN k = JobFields /\ MineJob(k)'
      BY <2>1, <2>2 DEF Mine!Mounted, Mine!Resolve, Mine!Load, Mine!Job, Mine!Fresh, JobFields, MineJob
    <2>3. ASSUME NEW j \in J
          PROVE  LET k == [j EXCEPT !.a.on = FALSE] IN DOMAIN k = JobFields /\ MineJob(k)'
      <3>1. PICK k : k = [j EXCEPT !.a.on = FALSE]
        OBVIOUS
      <3>2. /\ DOMAIN k = JobFields /\ k.h = j.h /\ k.res = j.res /\ DOMAIN k.a = DOMAIN j.a
            /\ k.a.on = FALSE /\ ("form" \in DOMAIN j.a => k.a.form = j.a.form)
        BY <3>1 DEF MineInv, MineShape, JobsShaped, JobFields, MineJob
      <3>3. MineJob(k)'
        BY <1>0, <3>2, StaysRecorded DEF MineInv, MineJob
      <3> QED BY <3>1, <3>2, <3>3
    <2>4. JobsShaped' /\ \A k \in jobs' : MineJob(k)'
      BY <2>1, <2>2, <2>3 DEF JobsShaped
    <2>5. MineShape'
      BY <1>0, <2>1, <2>4 DEF MineShape, RowsStay, MineInv, Mine!Fresh
    <2>6. pg'.success = None
      BY <2>1 DEF Mine!Fresh
    <2>7. Mine!WaitingHasJob'
      <3>1. /\ pg'.page = p /\ pg'.acting = None
            /\ pg'.loading <=> p = "history"
            /\ pg'.checking <=> p = "apply"
        BY <2>1 DEF Mine!Fresh
      <3>2. CASE p = "history"
        <4>1. \E k \in jobs' : k.h = "load" /\ k.a.on
          <5>1. Mine!Load \in jobs'
            BY <2>1, <3>2 DEF Mine!Mounted
          <5> QED BY <5>1 DEF Mine!Load, Mine!Job
        <4>2. Mine!Awaits({"load"})'
          BY <4>1 DEF Mine!Awaits
        <4> QED BY <3>1, <3>2, <4>2 DEF Mine!WaitingHasJob
      <3>3. CASE p = "apply"
        <4>1. \E k \in jobs' : k.h = "resolve" /\ k.a.on
          <5>1. PICK d : Mine!Resolve(d) \in jobs'
            BY <2>1, <3>3 DEF Mine!Mounted
          <5> QED BY <5>1 DEF Mine!Resolve, Mine!Job
        <4>2. Mine!Awaits({"resolve"})'
          BY <4>1 DEF Mine!Awaits
        <4> QED BY <3>1, <3>3, <4>2 DEF Mine!WaitingHasJob
      <3>4. CASE p = "other"
        BY <3>1, <3>4 DEF Mine!WaitingHasJob
      <3> QED BY <3>2, <3>3, <3>4
    <2> QED BY <2>4, <2>5, <2>6, <2>7 DEF MineInv
  <1> QED BY <1>1, <1>2

(* The periods a form asks for have a first, a second, and so on. *)
Rank(S, p) == Cardinality({q \in S : q <= p})

LEMMA RankIsOneToOne ==
  ASSUME NEW S, S \subseteq Nat, IsFiniteSet(S)
  PROVE  /\ \A p \in S : Rank(S, p) \in 1 .. Cardinality(S)
         /\ \A p, q \in S : Rank(S, p) = Rank(S, q) => p = q
  <1> DEFINE Upto(p) == {q \in S : q <= p}
  <1>1. ASSUME NEW p \in S PROVE /\ IsFiniteSet(Upto(p)) /\ Rank(S, p) = Cardinality(Upto(p))
                                 /\ Rank(S, p) \in Nat /\ Rank(S, p) <= Cardinality(S) /\ p \in Upto(p)
    <2>1. Upto(p) \in SUBSET S /\ p \in Upto(p)
      OBVIOUS
    <2>2. IsFiniteSet(Upto(p)) /\ Cardinality(Upto(p)) <= Cardinality(S)
      BY <2>1, FS_Subset
    <2>3. Cardinality(Upto(p)) \in Nat
      BY <2>2, FS_CardinalityType
    <2> QED BY <2>1, <2>2, <2>3 DEF Rank
  <1>2. ASSUME NEW p \in S PROVE Rank(S, p) \in 1 .. Cardinality(S)
    <2>1. Rank(S, p) # 0
      BY <1>1, FS_EmptySet
    <2>2. Cardinality(S) \in Nat
      BY FS_CardinalityType
    <2>3. Rank(S, p) \in Nat /\ Rank(S, p) <= Cardinality(S)
      BY <1>1
    <2> QED BY <2>1, <2>2, <2>3
  <1>3. ASSUME NEW p \in S, NEW q \in S, Rank(S, p) = Rank(S, q), p <= q PROVE p = q
    <2>1. ASSUME NEW x \in S, x <= p PROVE x <= q
      <3>1. x \in Nat /\ p \in Nat /\ q \in Nat
        OBVIOUS
      <3> QED BY <1>3, <2>1, <3>1
    <2>5. Upto(p) \in SUBSET Upto(q)
      BY <2>1
    <2>2. Upto(q) = Upto(p)
      BY <1>1, <1>3, <2>5, FS_Subset
    <2>3. q \in Upto(p)
      BY <1>1, <2>2
    <2>4. q <= p /\ q \in Nat /\ p \in Nat
      BY <2>3
    <2> QED BY <1>3, <2>4
  <1>4. ASSUME NEW p \in S, NEW q \in S, Rank(S, p) = Rank(S, q) PROVE p = q
    BY <1>3, <1>4
  <1> QED BY <1>2, <1>4

LEMMA MineSets == \A S : (Mine!IsFiniteSet(S) <=> IsFiniteSet(S)) /\ Mine!Cardinality(S) = Cardinality(S)
  BY DEF Mine!IsFiniteSet, IsFiniteSet, Mine!Cardinality, Cardinality

(* The server puts every period that is asked for on record. *)
LEMMA MineApplies ==
  ASSUME MineInv, NEW j \in jobs, Mine!ServeApply(j), Mine!Acceptable(j.a.form)
  PROVE  RowsStay /\ Recorded(j.a.form)'
  <1> DEFINE S == Mine!Asked(j.a.form)
  <1>1. PICK k \in Nat : DOMAIN srv.leaves = 1 .. k
    BY DEF MineInv, MineShape
  <1>2. Mine!Cardinality(Mine!Ids) = k
    BY <1>1, MineSets, FS_Interval DEF Mine!Ids
  <1>3. S \subseteq Nat /\ IsFiniteSet(S)
    <2>1. S \in SUBSET Periods
      BY PagesAssumption DEF PagesAssumption, Mine!LeaveAssumption, Mine!Asked, MineInv, MineJob, Mine!ServeApply, Mine!Sent
    <2>2. Periods \subseteq Nat /\ IsFiniteSet(Periods)
      BY PagesAssumption, MineSets DEF PagesAssumption, Mine!LeaveAssumption
    <2> QED BY <2>1, <2>2, FS_Subset
  <1>4. PICK n \in Nat : n = Cardinality(S)
    BY <1>3, FS_CardinalityType
  <1> HIDE DEF S
  <1>5. ASSUME NEW p \in S PROVE Rank(S, p) \in 1 .. n /\ Mine!Nth(S, Rank(S, p)) = p
    <2>1. Rank(S, p) \in 1 .. n
      BY <1>3, <1>4, RankIsOneToOne
    <2>2. \A q \in S : Rank(S, q) = Rank(S, p) => q = p
      BY <1>3, RankIsOneToOne
    <2>3. \A q : Mine!Cardinality({x \in S : x <= q}) = Rank(S, q)
      BY MineSets DEF Rank
    <2>4. Mine!Nth(S, Rank(S, p)) = CHOOSE q \in S : Rank(S, q) = Rank(S, p)
      BY <2>3 DEF Mine!Nth
    <2> QED BY <2>1, <2>2, <2>4
  <1> DEFINE K == Mine!Cardinality(Mine!Ids)
             N == Mine!Cardinality(Mine!Asked(j.a.form))
             st == IF srv.auto THEN "approved" ELSE "pending"
             Put(i) == [date |-> j.a.form.date, per |-> Mine!Nth(Mine!Asked(j.a.form), i - K), st |-> st]
  <1>6. srv' = [srv EXCEPT !.leaves = [i \in 1 .. K + N |-> IF i <= K THEN srv.leaves[i] ELSE Put(i)]]
    BY DEF Mine!ServeApply
  <1>7. K = k /\ N = n
    BY <1>2, <1>4, MineSets DEF S
  <1>8. \A i : /\ DOMAIN Put(i) = {"date", "per", "st"} /\ Put(i).date = j.a.form.date
               /\ Put(i).per = Mine!Nth(S, i - k)
    BY <1>7 DEF S
  <1> HIDE DEF K, N, Put
  <1>9. /\ DOMAIN srv' = DOMAIN srv /\ DOMAIN srv'.leaves = 1 .. (k + n) /\ k + n \in Nat
        /\ \A i \in 1 .. k : i \in 1 .. (k + n) /\ srv'.leaves[i] = srv.leaves[i]
        /\ \A i \in 1 .. (k + n) : i \notin 1 .. k => srv'.leaves[i] = Put(i)
    BY <1>6, <1>7 DEF MineInv, MineShape
  <1>10. RowsStay
    <2>1. \A i \in 1 .. (k + n) : DOMAIN srv'.leaves[i] = {"date", "per", "st"}
      <3>1. \A i \in 1 .. k : DOMAIN srv.leaves[i] = {"date", "per", "st"}
        BY <1>1 DEF MineInv, MineShape
      <3> QED BY <1>9, <1>8, <3>1
    <2> QED BY <1>1, <1>9, <2>1 DEF RowsStay
  <1>11. ASSUME NEW p \in S
        PROVE  \E i \in DOMAIN srv'.leaves : srv'.leaves[i].date = j.a.form.date /\ srv'.leaves[i].per = p
    <2>1. PICK i \in 1 .. (k + n) : i \notin 1 .. k /\ Mine!Nth(S, i - k) = p
      <3>1. PICK r \in 1 .. n : r = Rank(S, p)
        BY <1>5
      <3>2. k + r \in 1 .. (k + n) /\ k + r \notin 1 .. k /\ (k + r) - k = r
        BY <3>1
      <3> QED BY <1>5, <3>1, <3>2
    <2> QED BY <1>9, <1>8, <2>1
  <1> QED BY <1>10, <1>11 DEF Recorded, Mine!Asked, S

LEMMA MineServes ==
  ASSUME MineInv, NEW j \in jobs,
         \/ Mine!ServeResolve(j) \/ Mine!ServeLoad(j) \/ Mine!ServeApply(j) \/ Mine!ServeCancel(j)
         \/ Mine!Fail(j)
  PROVE  MineInv'
  <1> USE DEF Mine!Answer, Mine!Sent
  <1>1. CASE Mine!ServeResolve(j)
    BY <1>1, SameRows, MineAnswers DEF Mine!ServeResolve
  <1>2. CASE Mine!ServeLoad(j)
    BY <1>2, SameRows, MineAnswers DEF Mine!ServeLoad
  <1>3. CASE Mine!ServeApply(j) /\ Mine!Acceptable(j.a.form)
    <2>1. RowsStay /\ Recorded(j.a.form)'
      BY <1>3, MineApplies
    <2>2. jobs' = (jobs \ {j}) \cup {[j EXCEPT !.res = "ok", !.got = None]} /\ UNCHANGED pg
      BY <1>3 DEF Mine!ServeApply
    <2> QED BY <2>1, <2>2, MineAnswers
  <1>4. CASE Mine!ServeApply(j) /\ ~Mine!Acceptable(j.a.form)
    <2>1. jobs' = (jobs \ {j}) \cup {[j EXCEPT !.res = "refused", !.got = None]} /\ UNCHANGED <<pg, srv>>
      BY <1>4 DEF Mine!ServeApply
    <2> QED BY <2>1, SameRows, MineAnswers
  <1>5. CASE Mine!ServeCancel(j)
    <2>1. j.h # "apply" /\ UNCHANGED pg /\ \E r : jobs' = (jobs \ {j}) \cup {[j EXCEPT !.res = r, !.got = None]}
      BY <1>5 DEF Mine!ServeCancel
    <2>2. srv' = srv \/ srv' = [srv EXCEPT !.leaves[j.a.id].st = "cancelled"]
      BY <1>5 DEF Mine!ServeCancel
    <2>3. RowsStay
      BY <2>2, SameRows DEF RowsStay, MineInv, MineShape
    <2> QED BY <2>1, <2>3, MineAnswers
  <1>6. CASE Mine!Fail(j)
    BY <1>6, SameRows, MineAnswers DEF Mine!Fail
  <1> QED BY <1>1, <1>2, <1>3, <1>4, <1>5, <1>6

LEMMA MineContinues ==
  ASSUME MineInv, NEW j \in jobs,
         \/ Mine!OnLeft(j) \/ Mine!OnResolved(j) \/ Mine!OnLoaded(j) \/ Mine!OnApplied(j)
         \/ Mine!OnApplyFailed(j) \/ Mine!OnCancelled(j)
  PROVE  MineInv'
  <1> USE DEF Mine!Then, Mine!Back
  <1>0. UNCHANGED srv /\ RowsStay
    BY SameRows DEF Mine!OnLeft, Mine!OnResolved, Mine!OnLoaded, Mine!OnApplied, Mine!Succeed, Mine!OnApplyFailed,
       Mine!OnCancelled
  <1>1. /\ DOMAIN pg = {"page", "loading", "form", "info", "checking", "success", "rows", "filter", "detail",
                        "policy", "cancel", "acting"}
        /\ MineJob(j) /\ JobsShaped /\ Mine!WaitingHasJob
    BY DEF MineInv, MineShape
  <1>2. CASE Mine!OnLeft(j)
    <2>1. JobsShaped' /\ \A k \in jobs' \ jobs : MineJob(k)'
      BY <1>1, <1>2 DEF Mine!OnLeft, Mine!Job, JobsShaped, JobFields, MineJob
    <2>2. Mine!WaitingHasJob'
      BY <1>1, <1>2 DEF Mine!OnLeft, Mine!WaitingHasJob, Mine!Awaits
    <2> QED BY <1>0, <1>2, <2>1, <2>2, MineFrame DEF Mine!OnLeft
  <1>3. CASE Mine!OnResolved(j)
    <2>1. JobsShaped' /\ \A k \in jobs' \ jobs : MineJob(k)'
      BY <1>1, <1>3 DEF Mine!OnResolved, JobsShaped
    <2>2. Mine!WaitingHasJob'
      BY <1>1, <1>3 DEF Mine!OnResolved, Mine!WaitingHasJob, Mine!Awaits
    <2> QED BY <1>0, <1>1, <1>3, <2>1, <2>2, MineFrame DEF Mine!OnResolved
  <1>4. CASE Mine!OnLoaded(j)
    <2>1. JobsShaped' /\ \A k \in jobs' \ jobs : MineJob(k)'
      BY <1>1, <1>4 DEF Mine!OnLoaded, JobsShaped
    <2>2. Mine!WaitingHasJob'
      BY <1>1, <1>4 DEF Mine!OnLoaded, Mine!WaitingHasJob, Mine!Awaits
    <2> QED BY <1>0, <1>1, <1>4, <2>1, <2>2, MineFrame DEF Mine!OnLoaded
  <1>5. CASE Mine!OnApplied(j)
    <2>1. JobsShaped' /\ \A k \in jobs' \ jobs : MineJob(k)'
      BY <1>1, <1>5 DEF Mine!OnApplied, Mine!Succeed, Mine!Job, JobsShaped, JobFields, MineJob
    <2>2. Mine!WaitingHasJob'
      BY <1>1, <1>5 DEF Mine!OnApplied, Mine!Succeed, Mine!WaitingHasJob, Mine!Awaits
    <2>3. Recorded(j.a.form) /\ pg'.success.form = j.a.form
      BY <1>1, <1>5 DEF Mine!OnApplied, Mine!Succeed, MineJob
    <2> QED BY <1>0, <1>1, <1>5, <2>1, <2>2, <2>3, MineFrame DEF Mine!OnApplied, Mine!Succeed
  <1>6. CASE Mine!OnApplyFailed(j)
    <2>1. JobsShaped' /\ \A k \in jobs' \ jobs : MineJob(k)'
      BY <1>1, <1>6 DEF Mine!OnApplyFailed, JobsShaped
    <2>2. Mine!WaitingHasJob'
      BY <1>1, <1>6 DEF Mine!OnApplyFailed, Mine!WaitingHasJob, Mine!Awaits
    <2> QED BY <1>0, <1>1, <1>6, <2>1, <2>2, MineFrame DEF Mine!OnApplyFailed
  <1>7. CASE Mine!OnCancelled(j) /\ j.res = "ok"
    <2>1. PICK k : k = Mine!Load
      OBVIOUS
    <2>2. jobs' = (jobs \ {j}) \cup {k} /\ pg' = [pg EXCEPT !.cancel = None, !.loading = TRUE, !.acting = None]
      BY <1>7, <2>1 DEF Mine!OnCancelled
    <2>3. DOMAIN k = JobFields /\ k.h = "load" /\ "on" \in DOMAIN k.a /\ k.a.on
      BY <2>1 DEF Mine!Load, Mine!Job, JobFields
    <2>4. pg.page = "history"
      BY <1>1, <1>7 DEF Mine!OnCancelled, MineJob
    <2>5. pg'.page = "history" /\ pg'.acting = None /\ pg'.checking = pg.checking
      BY <1>1, <2>2, <2>4
    <2>6. JobsShaped' /\ MineJob(k)'
      BY <1>1, <2>2, <2>3, <2>5 DEF JobsShaped, MineJob
    <2>7. Mine!Awaits({"load"})'
      BY <2>2, <2>3 DEF Mine!Awaits
    <2>8. Mine!Awaits({"resolve"}) => Mine!Awaits({"resolve"})'
      BY <1>7, <2>2 DEF Mine!Awaits, Mine!OnCancelled
    <2>9. Mine!WaitingHasJob'
      BY <1>1, <2>5, <2>7, <2>8 DEF Mine!WaitingHasJob
    <2> QED BY <1>0, <1>1, <2>2, <2>6, <2>9, MineFrame
  <1>8. CASE Mine!OnCancelled(j) /\ j.res # "ok"
    <2>1. jobs' = jobs \ {j} /\ pg' = [pg EXCEPT !.acting = None] /\ j.h = "cancel"
      BY <1>8 DEF Mine!OnCancelled
    <2>2. JobsShaped' /\ Mine!WaitingHasJob'
      BY <1>1, <2>1 DEF JobsShaped, Mine!WaitingHasJob, Mine!Awaits
    <2> QED BY <1>0, <1>1, <2>1, <2>2, MineFrame
  <1> QED BY <1>2, <1>3, <1>4, <1>5, <1>6, <1>7, <1>8

LEMMA MineMoves ==
  ASSUME MineInv,
         \/ \E j \in jobs : Mine!Redirect(j)
         \/ \E p \in {"apply", "history", "other"} : Mine!Goto(p)
  PROVE  MineInv'
  <1>1. ASSUME NEW j \in jobs, Mine!Redirect(j) PROVE MineInv'
    BY <1>1, MineEnters DEF Mine!Redirect
  <1>2. ASSUME NEW p \in {"apply", "history", "other"}, Mine!Goto(p) PROVE MineInv'
    BY <1>2, MineEnters DEF Mine!Goto
  <1> QED BY <1>1, <1>2

(* A click that calls, for the page that is open. *)
MineSends(h, a) ==
    /\ jobs' = jobs \cup {Job(h, a)}
    /\ "on" \in DOMAIN a /\ a.on = TRUE
    /\ h = "apply" => "form" \in DOMAIN a /\ a.form = pg.form
    /\ \/ pg.page = "apply" /\ h \in {"resolve", "apply"}
       \/ pg.page = "history" /\ h = "cancel"
    /\ DOMAIN pg' = DOMAIN pg /\ pg'.page = pg.page /\ pg'.success = pg.success
    /\ DOMAIN pg'.form = DOMAIN pg.form /\ pg'.form.per = pg.form.per
    /\ pg'.loading = pg.loading \/ h = "apply"
    /\ pg'.checking = pg.checking \/ h = "resolve"
    /\ pg'.acting = pg.acting \/ h = "cancel"

LEMMA MineClicks ==
  ASSUME MineInv, (\E d \in Mine!Dates : Mine!SetDate(d)) \/ Mine!HandleSubmit \/ Mine!HandleCancel
  PROVE  MineInv'
  <1>0. /\ MineShape /\ Mine!WaitingHasJob
        /\ UNCHANGED srv /\ RowsStay
    BY SameRows DEF MineInv, Mine!SetDate, Mine!HandleSubmit, Mine!HandleCancel
  <1>1. ASSUME \E d \in Mine!Dates : Mine!SetDate(d) PROVE \E h, a : MineSends(h, a)
    <2>1. PICK d, a : /\ a = [on |-> TRUE, date |-> d]
                      /\ jobs' = jobs \cup {Job("resolve", a)} /\ pg.page = "apply"
                      /\ pg' = [pg EXCEPT !.form.date = d, !.checking = TRUE]
      BY <1>1 DEF Mine!SetDate, Mine!Start, Mine!Job, Job, Mine!Form
    <2>2. MineSends("resolve", a)
      BY <1>0, <2>1 DEF MineShape, MineSends
    <2> QED BY <2>2
  <1>2. ASSUME Mine!HandleSubmit PROVE \E h, a : MineSends(h, a)
    <2>1. PICK d, a : /\ a = [on |-> TRUE, form |-> pg.form, day |-> d]
                      /\ jobs' = jobs \cup {Job("apply", a)} /\ pg.page = "apply"
                      /\ pg' = [pg EXCEPT !.loading = TRUE]
      BY <1>2 DEF Mine!HandleSubmit, Mine!Start, Mine!Job, Job, Mine!Form
    <2>2. MineSends("apply", a)
      BY <1>0, <2>1 DEF MineShape, MineSends
    <2> QED BY <2>2
  <1>3. ASSUME Mine!HandleCancel PROVE \E h, a : MineSends(h, a)
    <2>1. PICK i, a : /\ a = [on |-> TRUE, id |-> i]
                      /\ jobs' = jobs \cup {Job("cancel", a)} /\ pg.page = "history"
                      /\ pg' = [pg EXCEPT !.acting = i]
      BY <1>3 DEF Mine!HandleCancel, Mine!Start, Mine!Job, Job, Mine!History
    <2>2. MineSends("cancel", a)
      BY <1>0, <2>1 DEF MineShape, MineSends
    <2> QED BY <2>2
  <1>4. PICK h, a : MineSends(h, a)
    BY <1>1, <1>2, <1>3
  <1> USE DEF MineSends
  <1>5. PICK k : k = Job(h, a)
    OBVIOUS
  <1>6. DOMAIN k = JobFields /\ k.h = h /\ k.a = a /\ k.res = "sent"
    BY <1>5, NewJob
  <1>7. JobsShaped'
    BY <1>0, <1>4, <1>5, <1>6 DEF MineShape, JobsShaped
  <1>8. MineJob(k)'
    BY <1>0, <1>4, <1>6 DEF MineJob, MineShape
  <1>9. \A H : Mine!Awaits(H) \/ h \in H => Mine!Awaits(H)'
    BY <1>4, <1>5, <1>6 DEF Mine!Awaits
  <1>10. Mine!WaitingHasJob'
    BY <1>0, <1>4, <1>9 DEF Mine!WaitingHasJob
  <1> QED BY <1>0, <1>4, <1>5, <1>7, <1>8, <1>10, MineFrame DEF MineShape

LEMMA MineRests ==
  ASSUME MineInv,
         \/ \E w \in BOOLEAN : Mine!SetMode(w)
         \/ \E S \in SUBSET Periods : Mine!SetPeriods(S)
         \/ \E f \in Mine!Filters : Mine!SetFilter(f)
         \/ \E r \in pg.rows : Mine!ViewDetail(r) \/ Mine!AskCancel(r) \/ Mine!ShowPolicy(r)
         \/ Mine!AskCancelOfDetail \/ Mine!CloseDialog
         \/ Mine!Elsewhere
         \/ UNCHANGED vars
  PROVE  MineInv'
  <1>0. MineShape /\ Mine!WaitingHasJob
    BY DEF MineInv
  <1>1. jobs' = jobs
    BY DEF Mine!SetMode, Mine!SetPeriods, Mine!SetFilter, Mine!ViewDetail, Mine!AskCancel, Mine!ShowPolicy,
       Mine!AskCancelOfDetail, Mine!CloseDialog, Mine!Elsewhere, Mine!Click, Mine!Local, vars
  <1>2. RowsStay
    <2>1. CASE Mine!Elsewhere
      <3>1. \/ \E i \in Mine!Ids : \E st : srv' = [srv EXCEPT !.leaves[i].st = st]
            \/ /\ DOMAIN srv' = DOMAIN srv /\ srv'.leaves = srv.leaves
        BY <1>0, <2>1 DEF Mine!Elsewhere, MineShape
      <3> QED BY <1>0, <3>1 DEF RowsStay, MineShape
    <2>2. CASE ~Mine!Elsewhere
      BY <2>2, SameRows DEF Mine!SetMode, Mine!SetPeriods, Mine!SetFilter, Mine!ViewDetail, Mine!AskCancel,
         Mine!ShowPolicy, Mine!AskCancelOfDetail, Mine!CloseDialog, Mine!Click, Mine!Local, vars
    <2> QED BY <2>1, <2>2
  <1>3. /\ DOMAIN pg' = DOMAIN pg /\ pg'.page = pg.page /\ pg'.success = pg.success
        /\ pg'.loading = pg.loading /\ pg'.checking = pg.checking /\ pg'.acting = pg.acting
        /\ DOMAIN pg'.form = DOMAIN pg.form /\ pg'.form.per \subseteq Periods
    <2>1. CASE \E w \in BOOLEAN : Mine!SetMode(w)
      <3>1. PICK w, S : pg' = [pg EXCEPT !.form.whole = w, !.form.per = S] /\ S \in {{}, pg.form.per}
        BY <2>1 DEF Mine!SetMode
      <3> QED BY <1>0, <3>1 DEF MineShape
    <2>2. CASE \E S \in SUBSET Periods : Mine!SetPeriods(S)
      BY <1>0, <2>2 DEF Mine!SetPeriods, MineShape
    <2>3. CASE \/ \E f \in Mine!Filters : Mine!SetFilter(f)
               \/ \E r \in pg.rows : Mine!ViewDetail(r) \/ Mine!AskCancel(r) \/ Mine!ShowPolicy(r)
               \/ Mine!AskCancelOfDetail \/ Mine!CloseDialog
      BY <1>0, <2>3 DEF Mine!SetFilter, Mine!ViewDetail, Mine!AskCancel, Mine!ShowPolicy,
         Mine!AskCancelOfDetail, Mine!CloseDialog, MineShape
    <2>4. CASE Mine!Elsewhere \/ UNCHANGED vars
      BY <1>0, <2>4 DEF Mine!Elsewhere, vars, MineShape
    <2> QED BY <2>1, <2>2, <2>3, <2>4
  <1>4. JobsShaped' /\ Mine!WaitingHasJob'
    BY <1>0, <1>1, <1>3 DEF MineShape, JobsShaped, Mine!WaitingHasJob, Mine!Awaits
  <1> QED BY <1>0, <1>1, <1>2, <1>3, <1>4, MineFrame DEF MineShape

LEMMA MineKeeps == ASSUME MineInv, [Mine!Next]_vars PROVE MineInv'
  BY MineServes, MineContinues, MineMoves, MineClicks, MineRests DEF Mine!Next

LEMMA MineHolds == ASSUME MineInv PROVE Mine!WaitingHasJob /\ Mine!SuccessRecorded
  BY DEF MineInv, Recorded, Mine!SuccessRecorded, Mine!Ids

-----------------------------------------------------------------------------
(* Teachers (TeachersDesk) *)

CrewShape ==
    /\ JobsShaped
    /\ DOMAIN srv = {"active", "accepts", "last"}
    /\ srv.last \in Nat /\ DOMAIN srv.active \subseteq 1 .. srv.last
    /\ DOMAIN pg = {"rows", "loading", "filter", "selected", "bulkBusy", "stuck", "dialog", "of", "form",
                    "prefForm", "prefLoading", "saving", "told"}
    /\ DOMAIN pg.rows \subseteq 1 .. srv.last /\ pg.selected \subseteq 1 .. srv.last

(* What a bulk removal does not count as failed is gone; a bulk action that is not kept has thrown. *)
Bulks == {"status", "remove"}
CrewJob(k) ==
    /\ k.h = "load" /\ k.res = "ok" => DOMAIN k.got.rows \subseteq 1 .. srv.last
    /\ k.h \in {"create", "import"} => k.a.n \in Nat
    /\ k.h \in Bulks => DOMAIN k.a = {"ids", "left", "failed", "to", "kept"}
    /\ k.h = "status" /\ ~k.a.kept => pg.stuck
    /\ k.h = "remove" =>
          /\ k.a.kept /\ (k.res # "sent" => k.a.left = {})
          /\ k.a.ids \subseteq 1 .. srv.last /\ k.a.left \subseteq k.a.ids /\ k.a.failed \in Nat
          /\ Cardinality((k.a.ids \ k.a.left) \cap DOMAIN srv.active) <= k.a.failed

(* What a banner says is not more than is gone. *)
CrewTold(b) ==
    /\ b.ids \subseteq 1 .. srv.last /\ b.deleted \in Int
    /\ Cardinality(b.ids \ DOMAIN srv.active) >= b.deleted

Saves(d) == \E j \in jobs : j.h \in Crew!Forms /\ Crew!DialogOf(j.h) = d
CrewWaits ==
    /\ pg.loading => InFlight({"load"})
    /\ pg.prefLoading => InFlight({"prefs"})
    /\ pg.bulkBusy => pg.stuck \/ InFlight(Bulks)
    /\ \A d \in pg.saving : Saves(d)

CrewInv ==
    /\ CrewShape
    /\ \A j \in jobs : CrewJob(j)
    /\ pg.told # None => CrewTold(pg.told)
    /\ CrewWaits

LEMMA CrewStarts == ASSUME Crew!Init PROVE CrewInv
  <1>1. Employed \in Nat /\ 1 .. 0 \subseteq 1 .. Employed /\ DOMAIN <<>> = 1 .. 0
    BY PagesAssumption DEF PagesAssumption, Crew!TeachersAssumption
  <1>2. /\ srv = [active |-> [t \in 1 .. Employed |-> TRUE], accepts |-> [t \in 1 .. Employed |-> TRUE], last |-> Employed]
        /\ jobs = {Crew!Load}
        /\ pg.rows = <<>> /\ pg.selected = {} /\ pg.told = None /\ pg.loading /\ ~pg.bulkBusy /\ ~pg.prefLoading
        /\ pg.saving = {}
        /\ DOMAIN pg = {"rows", "loading", "filter", "selected", "bulkBusy", "stuck", "dialog", "of", "form",
                        "prefForm", "prefLoading", "saving", "told"}
    BY DEF Crew!Init
  <1>3. DOMAIN Crew!Load = JobFields /\ Crew!Load.h = "load" /\ Crew!Load.res = "sent"
    BY DEF Crew!Load, Crew!Job, JobFields
  <1>4. CrewShape
    BY <1>1, <1>2, <1>3 DEF CrewShape, JobsShaped
  <1>5. (\A j \in jobs : CrewJob(j)) /\ CrewWaits
    BY <1>2, <1>3 DEF CrewJob, CrewWaits, InFlight, Bulks
  <1> QED BY <1>2, <1>4, <1>5 DEF CrewInv

(* The server gives no number twice: who has one and is gone stays gone. *)
NoneReturns ==
    /\ DOMAIN srv' = DOMAIN srv /\ srv'.last \in Nat /\ srv.last <= srv'.last
    /\ DOMAIN srv'.active \subseteq 1 .. srv'.last
    /\ DOMAIN srv'.active \cap 1 .. srv.last \subseteq DOMAIN srv.active

LEMMA Smaller ==
  ASSUME NEW n \in Nat, NEW T, T \subseteq 1 .. n, NEW S, S \subseteq T
  PROVE  /\ IsFiniteSet(S) /\ IsFiniteSet(T)
         /\ Cardinality(S) \in Nat /\ Cardinality(T) \in Nat /\ Cardinality(S) <= Cardinality(T)
  <1>1. IsFiniteSet(1 .. n)
    BY FS_Interval
  <1>2. IsFiniteSet(T)
    BY <1>1, FS_Subset
  <1>3. IsFiniteSet(S) /\ Cardinality(S) <= Cardinality(T)
    BY <1>2, FS_Subset
  <1> QED BY <1>2, <1>3, FS_CardinalityType

LEMMA CrewJobStays ==
  ASSUME CrewInv, NoneReturns, NEW k, CrewJob(k), pg.stuck => pg'.stuck PROVE CrewJob(k)'
  <1>1. 1 .. srv.last \subseteq 1 .. srv'.last /\ srv.last \in Nat
    BY DEF NoneReturns, CrewInv, CrewShape
  <1>2. ASSUME k.h = "remove"
        PROVE  Cardinality((k.a.ids \ k.a.left) \cap DOMAIN srv'.active) <= k.a.failed
    <2> DEFINE S == (k.a.ids \ k.a.left) \cap DOMAIN srv'.active
               T == (k.a.ids \ k.a.left) \cap DOMAIN srv.active
    <2>1. S \subseteq T /\ T \subseteq 1 .. srv.last
      BY <1>2 DEF NoneReturns, CrewJob
    <2>2. Cardinality(S) \in Nat /\ Cardinality(T) \in Nat /\ Cardinality(S) <= Cardinality(T)
      BY <1>1, <2>1, Smaller
    <2>3. Cardinality(T) <= k.a.failed /\ k.a.failed \in Nat
      BY <1>2 DEF CrewJob
    <2> HIDE DEF S, T
    <2>4. Cardinality(S) <= k.a.failed
      BY <2>2, <2>3
    <2> QED BY <2>4 DEF S
  <1> QED BY <1>1, <1>2 DEF CrewJob

LEMMA CrewStaysTold ==
  ASSUME CrewInv, NoneReturns, NEW b, CrewTold(b) PROVE CrewTold(b)'
  <1>1. 1 .. srv.last \subseteq 1 .. srv'.last /\ srv.last \in Nat
    BY DEF NoneReturns, CrewInv, CrewShape
  <1> DEFINE S == b.ids \ DOMAIN srv.active
             T == b.ids \ DOMAIN srv'.active
  <1>2. S \subseteq T /\ T \subseteq 1 .. srv.last
    BY DEF NoneReturns, CrewTold
  <1>3. Cardinality(S) \in Nat /\ Cardinality(T) \in Nat /\ Cardinality(S) <= Cardinality(T)
    BY <1>1, <1>2, Smaller
  <1>4. Cardinality(S) >= b.deleted /\ b.deleted \in Int /\ b.ids \subseteq 1 .. srv.last
    BY DEF CrewTold
  <1> HIDE DEF S, T
  <1>5. Cardinality(T) >= b.deleted
    BY <1>3, <1>4
  <1> QED BY <1>1, <1>4, <1>5 DEF CrewTold, T

LEMMA CrewFrame ==
  ASSUME CrewInv, NoneReturns, JobsShaped', CrewWaits', \A k \in jobs' \ jobs : CrewJob(k)',
         DOMAIN pg' = DOMAIN pg, pg.stuck => pg'.stuck,
         DOMAIN pg'.rows \subseteq 1 .. srv'.last, pg'.selected \subseteq 1 .. srv'.last,
         pg'.told \in {None, pg.told} \/ CrewTold(pg.told)'
  PROVE  CrewInv'
  <1>1. CrewShape'
    BY DEF CrewInv, CrewShape, NoneReturns
  <1>2. ASSUME NEW j \in jobs PROVE CrewJob(j)'
    BY CrewJobStays DEF CrewInv
  <1>3. ASSUME pg'.told # None PROVE CrewTold(pg.told)'
    <2>1. PICK b : b = pg'.told
      OBVIOUS
    <2>2. CASE pg'.told = pg.told
      <3>1. CrewTold(b)
        BY <1>3, <2>1, <2>2 DEF CrewInv, CrewTold
      <3>2. CrewTold(b)'
        BY <3>1, CrewStaysTold
      <3> QED BY <2>1, <3>2 DEF CrewTold
    <2> QED BY <1>3, <2>2
  <1> QED BY <1>1, <1>2, <1>3 DEF CrewInv

LEMMA CrewAnswers ==
  ASSUME CrewInv, NoneReturns, NEW j \in jobs, NEW r, NEW g, j.h \notin Bulks, UNCHANGED pg,
         j.h = "load" /\ r = "ok" => DOMAIN g.rows \subseteq 1 .. srv.last,
         jobs' = (jobs \ {j}) \cup {[j EXCEPT !.res = r, !.got = g]}
  PROVE  CrewInv'
  <1>1. PICK k : k = [j EXCEPT !.res = r, !.got = g]
    OBVIOUS
  <1>2. DOMAIN k = JobFields /\ k.h = j.h /\ k.a = j.a /\ k.res = r /\ k.got = g
    BY <1>1 DEF CrewInv, CrewShape, JobsShaped, JobFields
  <1>3. JobsShaped' /\ \A H : InFlight(H) => InFlight(H)'
    BY AnsweredWith DEF CrewInv, CrewShape
  <1>4. 1 .. srv.last \subseteq 1 .. srv'.last
    BY DEF NoneReturns, CrewInv, CrewShape
  <1>5. CrewJob(k)'
    BY <1>2, <1>4 DEF CrewJob, Bulks, CrewInv
  <1>6. \A d : Saves(d) => Saves(d)'
    BY <1>1, <1>2 DEF Saves
  <1>7. CrewWaits'
    BY <1>3, <1>6 DEF CrewInv, CrewWaits
  <1> QED BY <1>1, <1>3, <1>4, <1>5, <1>7, CrewFrame DEF CrewInv, CrewShape

(* One request of a bulk action is settled: it succeeded and its teacher is gone, or it counts as failed. *)
LEMMA CrewSettles ==
  ASSUME CrewInv, NoneReturns, NEW j \in jobs, j.h \in Bulks, j.res = "sent", NEW t \in j.a.left,
         NEW ok \in BOOLEAN, Crew!Settled(j, t, ok),
         j.h = "remove" /\ ok => t \notin DOMAIN srv'.active
  PROVE  CrewInv'
  <1>1. PICK k : /\ k = [j EXCEPT !.a.left = @ \ {t}, !.a.failed = IF ok THEN @ ELSE @ + 1,
                                  !.res = IF j.a.left \ {t} = {} THEN "ok" ELSE "sent"]
                 /\ jobs' = (jobs \ {j}) \cup {k} /\ pg' = pg
    <2>1. DOMAIN j = JobFields /\ DOMAIN j.a = {"ids", "left", "failed", "to", "kept"}
      BY DEF CrewInv, CrewShape, JobsShaped, CrewJob
    <2>2. [j EXCEPT !.a.left = @ \ {t}, !.a.failed = IF ok THEN @ ELSE @ + 1].a.left = j.a.left \ {t}
      BY <2>1 DEF JobFields
    <2> QED BY <2>1, <2>2 DEF Crew!Settled
  <1>2. /\ DOMAIN k = JobFields /\ k.h = j.h /\ DOMAIN k.a = DOMAIN j.a
        /\ k.a.ids = j.a.ids /\ k.a.kept = j.a.kept /\ k.a.left = j.a.left \ {t}
        /\ k.a.failed = IF ok THEN j.a.failed ELSE j.a.failed + 1
        /\ k.res = IF j.a.left \ {t} = {} THEN "ok" ELSE "sent"
    <2>1. DOMAIN j = JobFields /\ DOMAIN j.a = {"ids", "left", "failed", "to", "kept"}
      BY DEF CrewInv, CrewShape, JobsShaped, CrewJob
    <2> QED BY <1>1, <2>1 DEF JobFields
  <1>3. JobsShaped' /\ \A H : InFlight(H) => InFlight(H)'
    BY <1>1, <1>2, Answered DEF CrewInv, CrewShape
  <1>4. \A d : Saves(d) => Saves(d)'
    BY <1>1, <1>2 DEF Saves
  <1>5. CrewWaits'
    BY <1>1, <1>3, <1>4 DEF CrewInv, CrewWaits
  <1>6. 1 .. srv.last \subseteq 1 .. srv'.last /\ srv.last \in Nat
    BY DEF NoneReturns, CrewInv, CrewShape
  <1>7. CrewJob(j)'
    BY CrewJobStays, <1>1 DEF CrewInv
  <1>8. ASSUME j.h = "remove"
        PROVE  /\ k.a.failed \in Nat
               /\ Cardinality((k.a.ids \ k.a.left) \cap DOMAIN srv'.active) <= k.a.failed
    <2> DEFINE S == (j.a.ids \ j.a.left) \cap DOMAIN srv'.active
               T == (k.a.ids \ k.a.left) \cap DOMAIN srv'.active
    <2>1. j.a.ids \subseteq 1 .. srv.last /\ j.a.left \subseteq j.a.ids /\ j.a.failed \in Nat
      BY <1>8 DEF CrewInv, CrewJob
    <2>2. Cardinality(S) <= j.a.failed
      BY <1>7, <1>8 DEF CrewJob
    <2>3. S \subseteq 1 .. srv.last /\ T \subseteq S \cup {t} /\ (ok => T \subseteq S) /\ t \in 1 .. srv.last
      BY <1>2, <1>8, <2>1
    <2> HIDE DEF S, T
    <2>4. IsFiniteSet(S) /\ Cardinality(S) \in Nat
      BY <1>6, <2>3, Smaller
    <2>a. S \cup {t} \subseteq 1 .. srv.last
      BY <2>3
    <2>b. Cardinality(S \cup {t}) = IF t \in S THEN Cardinality(S) ELSE Cardinality(S) + 1
      BY <2>4, FS_AddElement
    <2>5. S \cup {t} \subseteq 1 .. srv.last /\ Cardinality(S \cup {t}) <= Cardinality(S) + 1
      BY <2>4, <2>a, <2>b
    <2>6. /\ Cardinality(T) \in Nat /\ Cardinality(S \cup {t}) \in Nat
          /\ Cardinality(T) <= Cardinality(S \cup {t})
      BY <1>6, <2>3, <2>5, Smaller
    <2>7. ok => Cardinality(T) <= Cardinality(S)
      BY <1>6, <2>3, Smaller
    <2>8. Cardinality(T) <= k.a.failed /\ k.a.failed \in Nat
      BY <1>2, <2>1, <2>2, <2>4, <2>5, <2>6, <2>7
    <2> QED BY <2>8 DEF T
  <1>9. CrewJob(k)'
    BY <1>2, <1>6, <1>7, <1>8 DEF CrewJob, Bulks
  <1> QED BY <1>1, <1>3, <1>5, <1>6, <1>9, CrewFrame DEF CrewInv, CrewShape

(* What the server does to the teachers. *)
LEMMA CrewServer ==
  ASSUME CrewInv,
         \/ UNCHANGED srv
         \/ \E t : srv' = Crew!Removed(t)
         \/ \E t, v : srv' = Crew!Flagged(t, v)
         \/ \E t, v : srv' = [srv EXCEPT !.accepts[t] = v]
         \/ \E n \in Nat : srv' = [active |-> Crew!With(srv.active, srv.last + 1 .. srv.last + n, TRUE),
                                  accepts |-> Crew!With(srv.accepts, srv.last + 1 .. srv.last + n, TRUE),
                                  last |-> srv.last + n]
  PROVE  NoneReturns /\ \A t : srv' = Crew!Removed(t) => t \notin DOMAIN srv'.active
  <1>0. /\ DOMAIN srv = {"active", "accepts", "last"}
        /\ srv.last \in Nat /\ DOMAIN srv.active \subseteq 1 .. srv.last
    BY DEF CrewInv, CrewShape
  <1>1. ASSUME UNCHANGED srv \/ \E t, v : srv' = [srv EXCEPT !.accepts[t] = v] PROVE NoneReturns
    BY <1>0, <1>1 DEF NoneReturns
  <1>2. ASSUME NEW t, NEW v, srv' = Crew!Flagged(t, v) PROVE NoneReturns
    BY <1>0, <1>2 DEF Crew!Flagged, NoneReturns
  <1>3. ASSUME NEW t, srv' = Crew!Removed(t) PROVE NoneReturns /\ t \notin DOMAIN srv'.active
    <2>1. /\ DOMAIN srv' = DOMAIN srv /\ srv'.last = srv.last
          /\ DOMAIN srv'.active = DOMAIN srv.active \ {t}
      BY <1>0, <1>3 DEF Crew!Removed, Crew!Without
    <2> QED BY <1>0, <2>1 DEF NoneReturns
  <1>4. ASSUME NEW n \in Nat, srv' = [active |-> Crew!With(srv.active, srv.last + 1 .. srv.last + n, TRUE),
                                     accepts |-> Crew!With(srv.accepts, srv.last + 1 .. srv.last + n, TRUE),
                                     last |-> srv.last + n]
        PROVE  NoneReturns
    <2>1. /\ DOMAIN srv' = DOMAIN srv /\ srv'.last = srv.last + n
          /\ DOMAIN srv'.active = DOMAIN srv.active \cup (srv.last + 1 .. srv.last + n)
      BY <1>0, <1>4 DEF Crew!With
    <2>2. /\ DOMAIN srv.active \subseteq 1 .. srv.last + n
          /\ (srv.last + 1 .. srv.last + n) \subseteq 1 .. srv.last + n
          /\ (srv.last + 1 .. srv.last + n) \cap (1 .. srv.last) = {}
      BY <1>0
    <2> QED BY <1>0, <2>1, <2>2 DEF NoneReturns
  <1> QED BY <1>1, <1>2, <1>3, <1>4

LEMMA CrewServes ==
  ASSUME CrewInv, NEW j \in jobs,
         \/ Crew!ServeList(j) \/ Crew!ServeCreate(j) \/ Crew!ServeOne(j) \/ Crew!ServeBulk(j)
         \/ Crew!LoseOne(j) \/ Crew!Lose(j)
  PROVE  CrewInv'
  <1> USE DEF Crew!Sent
  <1>1. CASE Crew!ServeList(j)
    <2>1. DOMAIN srv.active \subseteq 1 .. srv.last
      BY DEF CrewInv, CrewShape
    <2> QED BY <1>1, <2>1, CrewServer, CrewAnswers DEF Crew!ServeList, Crew!Answer, Bulks
  <1>2. CASE Crew!ServeCreate(j)
    <2>1. /\ j.h \notin Bulks \cup {"load"} /\ UNCHANGED pg
          /\ \E r : jobs' = (jobs \ {j}) \cup {[j EXCEPT !.res = r, !.got = None]}
          /\ \E n \in Nat : srv' = [active |-> Crew!With(srv.active, srv.last + 1 .. srv.last + n, TRUE),
                                   accepts |-> Crew!With(srv.accepts, srv.last + 1 .. srv.last + n, TRUE),
                                   last |-> srv.last + n]
      <3>1. j.h \in {"create", "import"} /\ j.a.n \in Nat
        BY <1>2 DEF Crew!ServeCreate, CrewInv, CrewJob
      <3>2. \A n \in 0 .. j.a.n : n \in Nat
        BY <3>1
      <3> QED BY <1>2, <3>1, <3>2 DEF Crew!ServeCreate, Crew!Answer, Bulks
    <2>2. NoneReturns
      BY <2>1, CrewServer
    <2> QED BY <2>1, <2>2, CrewAnswers
  <1>3. CASE Crew!ServeOne(j)
    <2>1. /\ j.h \notin Bulks \cup {"load"} /\ UNCHANGED pg
          /\ \E r, g : jobs' = (jobs \ {j}) \cup {[j EXCEPT !.res = r, !.got = g]}
      BY <1>3 DEF Crew!ServeOne, Crew!Answer, Bulks
    <2>2. \/ UNCHANGED srv
          \/ \E t : srv' = Crew!Removed(t)
          \/ \E t, v : srv' = Crew!Flagged(t, v)
          \/ \E t, v : srv' = [srv EXCEPT !.accepts[t] = v]
      BY <1>3 DEF Crew!ServeOne
    <2>3. NoneReturns
      BY <2>2, CrewServer
    <2> QED BY <2>1, <2>3, CrewAnswers
  <1>4. CASE Crew!ServeBulk(j)
    <2>1. PICK t \in j.a.left :
            /\ j.h \in Bulks /\ j.res = "sent" /\ Crew!Settled(j, t, Crew!There(t))
            /\ \/ UNCHANGED srv /\ ~Crew!There(t)
               \/ srv' = Crew!Flagged(t, j.a.to) /\ j.h = "status"
               \/ srv' = Crew!Removed(t)
      BY <1>4 DEF Crew!ServeBulk, Bulks
    <2>2. NoneReturns /\ (srv' = Crew!Removed(t) => t \notin DOMAIN srv'.active)
      BY <2>1, CrewServer
    <2>3. CASE Crew!There(t)
      <3>1. Crew!Settled(j, t, TRUE)
        BY <2>1, <2>3 DEF Crew!Settled
      <3>2. j.h = "remove" => t \notin DOMAIN srv'.active
        BY <2>1, <2>2, <2>3
      <3> QED BY <2>1, <2>2, <3>1, <3>2, CrewSettles
    <2>4. CASE ~Crew!There(t)
      <3>1. Crew!Settled(j, t, FALSE)
        BY <2>1, <2>4 DEF Crew!Settled
      <3> QED BY <2>1, <2>2, <3>1, CrewSettles
    <2> QED BY <2>3, <2>4
  <1>5. CASE Crew!LoseOne(j)
    <2>1. PICK t \in j.a.left :
            /\ j.h \in Bulks /\ j.res = "sent" /\ Crew!Settled(j, t, FALSE)
            /\ UNCHANGED srv \/ srv' = Crew!Flagged(t, j.a.to) \/ srv' = Crew!Removed(t)
      BY <1>5 DEF Crew!LoseOne, Bulks
    <2>2. NoneReturns
      BY <2>1, CrewServer
    <2> QED BY <2>1, <2>2, CrewSettles
  <1>6. CASE Crew!Lose(j)
    BY <1>6, CrewServer, CrewAnswers DEF Crew!Lose, Crew!Fail, Bulks
  <1> QED BY <1>1, <1>2, <1>3, <1>4, <1>5, <1>6

LEMMA CrewStill == ASSUME CrewInv, UNCHANGED srv PROVE NoneReturns
  BY CrewServer

LEMMA CrewReturns ==
  ASSUME CrewInv, NEW j \in jobs, Crew!OnLoaded(j) \/ Crew!OnPreferences(j) \/ Crew!OnRefused(j)
  PROVE  CrewInv'
  <1>0. /\ UNCHANGED srv /\ jobs' = jobs \ {j} /\ j.h \notin Bulks /\ j.res # "sent"
        /\ JobsShaped /\ CrewWaits /\ NoneReturns
        /\ DOMAIN pg.rows \subseteq 1 .. srv.last /\ pg.selected \subseteq 1 .. srv.last
    BY CrewStill DEF Crew!OnLoaded, Crew!OnPreferences, Crew!OnRefused, Crew!Then, Crew!Back, Bulks, CrewInv,
       CrewShape, Crew!Forms
  <1>1. JobsShaped' /\ \A k \in jobs' \ jobs : CrewJob(k)'
    BY <1>0 DEF JobsShaped
  <1>2. \A H : InFlight(H) /\ j.h \notin H => InFlight(H)'
    BY <1>0 DEF InFlight
  <1>3. \A d : Saves(d) /\ (j.h \in Crew!Forms => Crew!DialogOf(j.h) # d) => Saves(d)'
    BY <1>0 DEF Saves
  <1>4. /\ DOMAIN pg' = DOMAIN pg /\ pg'.selected = pg.selected /\ pg'.told = pg.told /\ pg'.stuck = pg.stuck
        /\ pg'.bulkBusy = pg.bulkBusy
        /\ pg'.loading => pg.loading /\ j.h # "load"
        /\ pg'.prefLoading => pg.prefLoading /\ j.h # "prefs"
        /\ pg'.saving \subseteq pg.saving /\ (j.h \in Crew!Forms => Crew!DialogOf(j.h) \notin pg'.saving)
        /\ DOMAIN pg'.rows \subseteq 1 .. srv.last
    <2>1. CASE Crew!OnLoaded(j)
      <3>1. j.h = "load" /\ j.h \notin Crew!Forms /\ (j.res = "ok" => DOMAIN j.got.rows \subseteq 1 .. srv.last)
        BY <2>1 DEF Crew!OnLoaded, Crew!Back, CrewInv, CrewJob, Crew!Forms
      <3> QED BY <1>0, <2>1, <3>1 DEF Crew!OnLoaded, CrewInv, CrewShape
    <2>2. CASE Crew!OnPreferences(j)
      <3>1. j.h = "prefs" /\ j.h \notin Crew!Forms
        BY <2>2 DEF Crew!OnPreferences, Crew!Back, Crew!Forms
      <3> QED BY <1>0, <2>2, <3>1 DEF Crew!OnPreferences, CrewInv, CrewShape
    <2>3. CASE Crew!OnRefused(j)
      <3>1. j.h \in Crew!Forms /\ j.h \notin {"load", "prefs"}
        BY <2>3 DEF Crew!OnRefused, Crew!Back, Crew!Forms
      <3> QED BY <1>0, <2>3, <3>1 DEF Crew!OnRefused, CrewInv, CrewShape
    <2> QED BY <2>1, <2>2, <2>3
  <1>5. CrewWaits'
    BY <1>0, <1>2, <1>3, <1>4 DEF CrewWaits, Bulks
  <1> QED BY <1>0, <1>1, <1>4, <1>5, CrewFrame

LEMMA CrewShuts ==
  ASSUME CrewInv, NEW P, NEW d, DOMAIN P = DOMAIN pg
  PROVE  LET Q == Crew!Shut(P, d)
         IN  /\ DOMAIN Q = DOMAIN pg /\ Q.rows = P.rows /\ Q.selected = P.selected /\ Q.told = P.told
             /\ Q.stuck = P.stuck /\ Q.bulkBusy = P.bulkBusy /\ Q.loading = P.loading
             /\ Q.prefLoading = P.prefLoading /\ Q.saving = P.saving
  BY DEF Crew!Shut, Crew!Closed, CrewInv, CrewShape

LEMMA CrewSaves ==
  ASSUME CrewInv, NEW j \in jobs, Crew!OnSaved(j) \/ Crew!OnTimer(j)
  PROVE  CrewInv'
  <1>0. /\ UNCHANGED srv /\ j.res # "sent"
        /\ JobsShaped /\ CrewWaits /\ NoneReturns
        /\ DOMAIN pg.rows \subseteq 1 .. srv.last /\ pg.selected \subseteq 1 .. srv.last
    BY CrewStill DEF Crew!OnSaved, Crew!OnTimer, Crew!Then, Crew!Back, CrewInv, CrewShape
  <1>1. /\ j.h \notin Bulks \cup {"load", "prefs"}
        /\ \E S : /\ jobs' = (jobs \ {j}) \cup S
                  /\ \A k \in S : DOMAIN k = JobFields /\ (k.h = "close" \/ (k.h = "load" /\ k.res = "sent"))
    <2>1. CASE Crew!OnTimer(j)
      <3>1. jobs' = (jobs \ {j}) \cup {} /\ j.h = "close"
        BY <2>1 DEF Crew!OnTimer, Crew!Then, Crew!Back
      <3>2. PICK S : S = {} /\ jobs' = (jobs \ {j}) \cup S
        BY <3>1
      <3>3. \A k \in S : DOMAIN k = JobFields /\ (k.h = "close" \/ (k.h = "load" /\ k.res = "sent"))
        BY <3>2
      <3> QED BY <3>1, <3>2, <3>3 DEF Bulks
    <2>2. CASE Crew!OnSaved(j)
      <3>1. PICK k, l : k = [Crew!Job("close", [d |-> "prefs"]) EXCEPT !.res = "ok"] /\ l = Crew!Load
        OBVIOUS
      <3>2. DOMAIN k = JobFields /\ k.h = "close" /\ DOMAIN l = JobFields /\ l.h = "load" /\ l.res = "sent"
        BY <3>1 DEF Crew!Job, Crew!Load, JobFields
      <3>3. jobs' = (jobs \ {j}) \cup {k} \/ jobs' = (jobs \ {j}) \cup {l}
        BY <2>2, <3>1 DEF Crew!OnSaved, Crew!Then
      <3>4. PICK S : S \in {{k}, {l}} /\ jobs' = (jobs \ {j}) \cup S
        BY <3>3
      <3>5. j.h \notin Bulks \cup {"load", "prefs"}
        BY <2>2 DEF Crew!OnSaved, Crew!Back, Crew!Forms, Bulks
      <3> QED BY <3>2, <3>4, <3>5
    <2> QED BY <2>1, <2>2
  <1>2. JobsShaped' /\ \A k \in jobs' \ jobs : CrewJob(k)'
    BY <1>0, <1>1 DEF JobsShaped, CrewJob, Bulks
  <1>3. \A H : InFlight(H) /\ j.h \notin H => InFlight(H)'
    BY <1>1 DEF InFlight
  <1>4. \A d : Saves(d) /\ (j.h \in Crew!Forms => Crew!DialogOf(j.h) # d) => Saves(d)'
    BY <1>1 DEF Saves
  <1>5. /\ DOMAIN pg' = DOMAIN pg /\ pg'.rows = pg.rows /\ pg'.selected = pg.selected /\ pg'.told = pg.told
        /\ pg'.stuck = pg.stuck /\ pg'.bulkBusy = pg.bulkBusy /\ pg'.loading = pg.loading
        /\ pg'.prefLoading = pg.prefLoading
        /\ pg'.saving \subseteq pg.saving /\ (j.h \in Crew!Forms => Crew!DialogOf(j.h) \notin pg'.saving)
    <2>1. CASE Crew!OnTimer(j)
      BY <2>1, CrewShuts DEF Crew!OnTimer, Crew!Back, Crew!Forms
    <2>2. CASE Crew!OnSaved(j)
      <3>1. PICK P : P = [pg EXCEPT !.saving = @ \ {Crew!DialogOf(j.h)}]
        OBVIOUS
      <3>2. pg' = P \/ pg' = Crew!Shut(P, Crew!DialogOf(j.h))
        BY <2>2, <3>1 DEF Crew!OnSaved
      <3>3. /\ DOMAIN P = DOMAIN pg /\ P.rows = pg.rows /\ P.selected = pg.selected /\ P.told = pg.told
            /\ P.stuck = pg.stuck /\ P.bulkBusy = pg.bulkBusy /\ P.loading = pg.loading
            /\ P.prefLoading = pg.prefLoading /\ P.saving = pg.saving \ {Crew!DialogOf(j.h)}
        BY <3>1 DEF CrewInv, CrewShape
      <3>4. PICK d : d = Crew!DialogOf(j.h)
        OBVIOUS
      <3>5. LET Q == Crew!Shut(P, d)
            IN  /\ DOMAIN Q = DOMAIN pg /\ Q.rows = P.rows /\ Q.selected = P.selected /\ Q.told = P.told
                /\ Q.stuck = P.stuck /\ Q.bulkBusy = P.bulkBusy /\ Q.loading = P.loading
                /\ Q.prefLoading = P.prefLoading /\ Q.saving = P.saving
        BY <3>3, CrewShuts
      <3>6. pg' \in {P, Crew!Shut(P, d)}
        BY <3>2, <3>4
      <3> QED BY <3>3, <3>4, <3>5, <3>6
    <2> QED BY <2>1, <2>2
  <1>6. CrewWaits'
    BY <1>0, <1>1, <1>3, <1>4, <1>5 DEF CrewWaits, Bulks
  <1> QED BY <1>0, <1>2, <1>5, <1>6, CrewFrame

LEMMA CrewSets == \A S : Crew!Cardinality(S) = Cardinality(S)
  BY DEF Crew!IsFiniteSet, IsFiniteSet, Crew!Cardinality, Cardinality

LEMMA CrewBulks ==
  ASSUME CrewInv, NEW j \in jobs, Crew!OnBulk(j)
  PROVE  CrewInv'
  <1>0. /\ UNCHANGED srv /\ j.res # "sent" /\ j.h \in Bulks
        /\ JobsShaped /\ CrewWaits /\ NoneReturns /\ CrewJob(j)
        /\ srv.last \in Nat /\ DOMAIN pg.rows \subseteq 1 .. srv.last /\ pg.selected \subseteq 1 .. srv.last
    BY CrewStill DEF Crew!OnBulk, Crew!Then, Crew!Back, CrewInv, CrewShape, Bulks
  <1>1. PICK l : l = Crew!Load
    OBVIOUS
  <1>2. /\ jobs' = (jobs \ {j}) \cup {l}
        /\ DOMAIN l = JobFields /\ l.h = "load" /\ l.res = "sent"
    BY <1>1 DEF Crew!OnBulk, Crew!Then, Crew!Job, Crew!Load, JobFields
  <1>3. JobsShaped' /\ \A k \in jobs' \ jobs : CrewJob(k)'
    BY <1>0, <1>2 DEF JobsShaped, CrewJob, Bulks
  <1>4. \A H : InFlight(H) /\ H \in {{"load"}, {"prefs"}} => InFlight(H)'
    BY <1>0, <1>2 DEF InFlight, Bulks
  <1>5. \A d : Saves(d) => Saves(d)'
    BY <1>0, <1>2 DEF Saves, Bulks, Crew!Forms
  <1>6. PICK n : n = Crew!Cardinality(j.a.ids) - j.a.failed
    OBVIOUS
  <1>7. PICK P, b : /\ P = [pg EXCEPT !.bulkBusy = FALSE, !.selected = {}, !.told = None]
                    /\ b = [ids |-> j.a.ids, deleted |-> n]
    OBVIOUS
  <1>8. PICK Q : Q = [P EXCEPT !.told = b]
    OBVIOUS
  <1>9. \/ j.h = "remove" /\ pg' = Crew!Shut(Q, "bulkDelete")
        \/ pg' = P
    BY <1>6, <1>7, <1>8 DEF Crew!OnBulk, Crew!AfterBulk
  <1>10. /\ DOMAIN P = DOMAIN pg /\ P.rows = pg.rows /\ P.selected = {} /\ P.stuck = pg.stuck /\ ~P.bulkBusy
         /\ P.loading = pg.loading /\ P.prefLoading = pg.prefLoading /\ P.saving = pg.saving /\ P.told = None
    BY <1>7 DEF CrewInv, CrewShape
  <1>11. /\ DOMAIN Q = DOMAIN pg /\ Q.rows = pg.rows /\ Q.selected = {} /\ Q.stuck = pg.stuck /\ ~Q.bulkBusy
         /\ Q.loading = pg.loading /\ Q.prefLoading = pg.prefLoading /\ Q.saving = pg.saving /\ Q.told = b
    BY <1>8, <1>10 DEF CrewInv, CrewShape
  <1>12. /\ DOMAIN pg' = DOMAIN pg /\ pg'.rows = pg.rows /\ pg'.selected = {} /\ pg'.stuck = pg.stuck
         /\ ~pg'.bulkBusy /\ pg'.loading = pg.loading /\ pg'.prefLoading = pg.prefLoading
         /\ pg'.saving = pg.saving /\ (pg'.told = None \/ (j.h = "remove" /\ pg'.told = b))
    BY <1>9, <1>10, <1>11, CrewShuts
  <1>13. ASSUME j.h = "remove" PROVE CrewTold(b)
    <2> DEFINE S == j.a.ids \cap DOMAIN srv.active
               T == j.a.ids \ DOMAIN srv.active
    <2>1. /\ j.a.ids \subseteq 1 .. srv.last /\ j.a.failed \in Nat
          /\ (j.a.ids \ j.a.left) \cap DOMAIN srv.active = S
          /\ Cardinality((j.a.ids \ j.a.left) \cap DOMAIN srv.active) <= j.a.failed
      BY <1>0, <1>13 DEF CrewJob
    <2>2. /\ S \subseteq j.a.ids /\ IsFiniteSet(j.a.ids)
          /\ Cardinality(S) \in Nat /\ Cardinality(j.a.ids) \in Nat
      BY <1>0, <2>1, Smaller
    <2>3. T = j.a.ids \ S
      OBVIOUS
    <2>4. IsFiniteSet(S) /\ IsFiniteSet(T) /\ Cardinality(T) \in Nat
      BY <2>2, FS_Subset, FS_CardinalityType
    <2>5. Cardinality(T) = Cardinality(j.a.ids) - Cardinality(j.a.ids \cap S)
      BY <2>2, <2>3, <2>4, FS_Difference
    <2>6. j.a.ids \cap S = S /\ Cardinality(S) <= j.a.failed
      BY <2>1
    <2>7. n = Cardinality(j.a.ids) - j.a.failed
      BY <1>6, CrewSets
    <2> HIDE DEF S, T
    <2>8. n \in Int /\ Cardinality(T) >= n
      <3>1. PICK all, there, gone, failed : /\ all = Cardinality(j.a.ids) /\ there = Cardinality(S)
                                            /\ gone = Cardinality(T) /\ failed = j.a.failed
        OBVIOUS
      <3>2. /\ all \in Nat /\ there \in Nat /\ gone \in Nat /\ failed \in Nat
            /\ gone = all - there /\ there <= failed /\ n = all - failed
        BY <2>1, <2>2, <2>4, <2>5, <2>6, <2>7, <3>1
      <3> QED BY <3>1, <3>2
    <2> QED BY <1>7, <2>1, <2>8 DEF CrewTold, T
  <1>14. pg'.told # None => CrewTold(pg.told)'
    BY <1>0, <1>12, <1>13 DEF CrewTold
  <1>15. CrewWaits'
    BY <1>0, <1>2, <1>4, <1>5, <1>12 DEF CrewWaits
  <1> QED BY <1>0, <1>3, <1>12, <1>14, <1>15, CrewFrame

LEMMA CrewAbandons ==
  ASSUME CrewInv, NEW j \in jobs, Crew!OnAbandoned(j)
  PROVE  CrewInv'
  <1>0. /\ UNCHANGED <<srv, pg>> /\ jobs' = jobs \ {j} /\ j.h = "status" /\ pg.stuck
        /\ JobsShaped /\ CrewWaits /\ NoneReturns
        /\ DOMAIN pg.rows \subseteq 1 .. srv.last /\ pg.selected \subseteq 1 .. srv.last
    BY CrewStill DEF Crew!OnAbandoned, Crew!Then, Crew!Back, CrewInv, CrewShape, CrewJob
  <1>1. JobsShaped'
    BY <1>0 DEF JobsShaped
  <1>2. \A H : InFlight(H) /\ H \in {{"load"}, {"prefs"}} => InFlight(H)'
    BY <1>0 DEF InFlight
  <1>3. \A d : Saves(d) => Saves(d)'
    BY <1>0 DEF Saves, Crew!Forms
  <1>4. CrewWaits'
    BY <1>0, <1>2, <1>3 DEF CrewWaits
  <1> QED BY <1>0, <1>1, <1>4, CrewFrame

-----------------------------------------------------------------------------
(* What a click of the teachers page does: at most one job, its flag, and nothing of what is kept. *)
CrewClicks(h) ==
    /\ UNCHANGED srv
    /\ \A k \in jobs' \ jobs : DOMAIN k = JobFields /\ CrewJob(k)' /\ k.h = h
    /\ jobs \subseteq jobs' /\ (h = "none" \/ \E k \in jobs' : k.h = h)
    /\ DOMAIN pg' = DOMAIN pg /\ pg'.rows = pg.rows /\ pg'.told = pg.told
    /\ pg'.selected \subseteq pg.selected \cup DOMAIN pg.rows
    /\ pg'.stuck \in {pg.stuck, TRUE} /\ pg'.loading = pg.loading
    /\ pg'.prefLoading = pg.prefLoading \/ h = "prefs"
    /\ pg'.bulkBusy = pg.bulkBusy \/ h \in Bulks \/ pg'.stuck
    /\ \A d \in pg'.saving \ pg.saving : h \in Crew!Forms /\ Crew!DialogOf(h) = d

LEMMA CrewClicked == ASSUME CrewInv, NEW h, CrewClicks(h) PROVE CrewInv'
  <1> USE DEF CrewClicks
  <1>0. /\ JobsShaped /\ CrewWaits /\ NoneReturns
        /\ DOMAIN pg.rows \subseteq 1 .. srv.last /\ pg.selected \subseteq 1 .. srv.last
    BY CrewStill DEF CrewInv, CrewShape
  <1>1. JobsShaped'
    BY <1>0 DEF JobsShaped
  <1>2. \A H : InFlight(H) \/ (h \in H /\ h # "none") => InFlight(H)'
    BY DEF InFlight
  <1>3. \A d : Saves(d) \/ (h \in Crew!Forms /\ Crew!DialogOf(h) = d) => Saves(d)'
    BY DEF Saves, Crew!Forms
  <1>4. CrewWaits'
    BY <1>0, <1>2, <1>3 DEF CrewWaits, Bulks
  <1> QED BY <1>0, <1>1, <1>4, CrewFrame

LEMMA CrewRests ==
  ASSUME CrewInv,
         \/ \E t : Crew!ToggleSelectOne(t) \/ Crew!OpenEditModal(t) \/ Crew!OpenDelete(t)
         \/ \E f : Crew!SetFilter(f)
         \/ Crew!ToggleSelectAll \/ Crew!ClearSelection
         \/ Crew!OpenAdd \/ Crew!OpenImport \/ Crew!OpenBulkDelete \/ Crew!CloseDialog
         \/ Crew!ToggleActive \/ Crew!EditPrefs
  PROVE  CrewInv'
  <1>1. UNCHANGED <<srv, jobs>>
    BY DEF Crew!ToggleSelectOne, Crew!OpenEditModal, Crew!OpenDelete, Crew!SetFilter, Crew!ToggleSelectAll,
       Crew!ClearSelection, Crew!OpenAdd, Crew!OpenImport, Crew!OpenBulkDelete, Crew!CloseDialog,
       Crew!ToggleActive, Crew!EditPrefs, Crew!Opens, Crew!Ticks, Crew!Click, Crew!Local
  <1>2. \/ \E S : pg' = [pg EXCEPT !.selected = S] /\ S \subseteq pg.selected \cup DOMAIN pg.rows
        \/ \E f : pg' = [pg EXCEPT !.filter = f, !.selected = {}]
        \/ \E d, t : pg' = [pg EXCEPT !.dialog = d, !.of = t]
        \/ \E d, t, b : pg' = [pg EXCEPT !.dialog = d, !.of = t, !.form = b]
        \/ \E b : pg' = [pg EXCEPT !.form = b]
        \/ \E b : pg' = [pg EXCEPT !.prefForm = b]
    <2>1. CASE \/ (\E t : Crew!ToggleSelectOne(t)) \/ Crew!ToggleSelectAll \/ Crew!ClearSelection
      <3>1. Crew!Listed \subseteq DOMAIN pg.rows
        BY DEF Crew!Listed
      <3>2. PICK S : pg' = [pg EXCEPT !.selected = S] /\ S \subseteq pg.selected \cup Crew!Listed
        BY <2>1 DEF Crew!ToggleSelectOne, Crew!ToggleSelectAll, Crew!ClearSelection, Crew!Ticks
      <3> QED BY <3>1, <3>2
    <2>2. CASE \/ \E t : Crew!OpenEditModal(t) \/ Crew!OpenDelete(t)
               \/ Crew!OpenAdd \/ Crew!OpenImport \/ Crew!OpenBulkDelete \/ Crew!CloseDialog
      BY <2>2 DEF Crew!OpenEditModal, Crew!OpenDelete, Crew!OpenAdd, Crew!OpenImport, Crew!OpenBulkDelete,
         Crew!CloseDialog, Crew!Opens, Crew!Closed
    <2>3. CASE (\E f : Crew!SetFilter(f)) \/ Crew!ToggleActive \/ Crew!EditPrefs
      BY <2>3 DEF Crew!SetFilter, Crew!ToggleActive, Crew!EditPrefs
    <2> QED BY <2>1, <2>2, <2>3
  <1>3. CrewClicks("none")
    BY <1>1, <1>2 DEF CrewClicks, CrewInv, CrewShape
  <1> QED BY <1>3, CrewClicked

LEMMA CrewBars ==
  ASSUME CrewInv, (\E to \in BOOLEAN : Crew!BulkStatus(to)) \/ Crew!BulkDelete
  PROVE  CrewInv'
  <1>0. /\ DOMAIN pg.rows \subseteq 1 .. srv.last /\ pg.selected \subseteq 1 .. srv.last
        /\ DOMAIN pg = {"rows", "loading", "filter", "selected", "bulkBusy", "stuck", "dialog", "of", "form",
                        "prefForm", "prefLoading", "saving", "told"}
    BY DEF CrewInv, CrewShape
  <1>1. ASSUME NEW to \in BOOLEAN, Crew!BulkStatus(to), ~UNCHANGED jobs PROVE CrewClicks("status")
    <2>1. PICK S, b : /\ jobs' = jobs \cup {Job("status", [ids |-> S, left |-> S, failed |-> 0, to |-> to, kept |-> b])}
                      /\ UNCHANGED srv
                      /\ \/ b /\ pg' = [pg EXCEPT !.bulkBusy = TRUE]
                         \/ pg' = [pg EXCEPT !.bulkBusy = TRUE, !.stuck = TRUE]
      BY <1>1 DEF Crew!BulkStatus, Crew!Bulk, Crew!Start, Crew!Click, Crew!Job, Job
    <2>2. PICK k, a : /\ a = [ids |-> S, left |-> S, failed |-> 0, to |-> to, kept |-> b]
                      /\ k = Job("status", a) /\ jobs' = jobs \cup {k}
      BY <2>1
    <2>3. DOMAIN k = JobFields /\ k.h = "status" /\ k.a = a
      BY <2>2, NewJob
    <2>4. CrewJob(k)'
      <3>1. DOMAIN a = {"ids", "left", "failed", "to", "kept"} /\ a.kept = b
        BY <2>2
      <3>2. b \/ pg'.stuck
        BY <1>0, <2>1
      <3> QED BY <2>3, <3>1, <3>2 DEF CrewJob, Bulks
    <2> QED BY <1>0, <2>1, <2>2, <2>3, <2>4 DEF CrewClicks, Bulks
  <1>2. ASSUME Crew!BulkDelete PROVE CrewClicks("remove")
    <2>1. PICK k, a : /\ a = [ids |-> pg.selected, left |-> pg.selected, failed |-> 0, to |-> FALSE, kept |-> TRUE]
                      /\ k = Job("remove", a) /\ jobs' = jobs \cup {k}
                      /\ UNCHANGED srv /\ pg' = [pg EXCEPT !.bulkBusy = TRUE]
      BY <1>2 DEF Crew!BulkDelete, Crew!Bulk, Crew!Start, Crew!Job, Job
    <2>2. DOMAIN k = JobFields /\ k.h = "remove" /\ k.a = a /\ k.res = "sent"
      BY <2>1, NewJob
    <2>3. (a.ids \ a.left) \cap DOMAIN srv'.active = {} /\ Cardinality({}) = 0
      BY <2>1, FS_EmptySet
    <2>4. Cardinality((a.ids \ a.left) \cap DOMAIN srv'.active) <= a.failed
      BY <2>1, <2>3
    <2>5. CrewJob(k)'
      <3>1. /\ DOMAIN a = {"ids", "left", "failed", "to", "kept"} /\ a.kept
            /\ a.ids = pg.selected /\ a.left = pg.selected /\ a.failed = 0
        BY <2>1
      <3>2. Cardinality((k.a.ids \ k.a.left) \cap DOMAIN srv'.active) <= k.a.failed
        BY <2>2, <2>4
      <3>3. a.ids \subseteq 1 .. srv'.last /\ a.left \subseteq a.ids /\ a.failed \in Nat
        BY <1>0, <2>1, <3>1
      <3>4. k.a.kept
        BY <2>2, <3>1
      <3> QED BY <2>2, <3>1, <3>2, <3>3, <3>4 DEF CrewJob, Bulks
    <2> QED BY <1>0, <2>1, <2>2, <2>5 DEF CrewClicks, Bulks
  <1>3. ASSUME NEW to \in BOOLEAN, Crew!BulkStatus(to), UNCHANGED jobs PROVE CrewInv'
    <2>1. UNCHANGED srv /\ (\/ pg' = [pg EXCEPT !.bulkBusy = TRUE]
                          \/ pg' = [pg EXCEPT !.bulkBusy = TRUE, !.stuck = TRUE])
      BY <1>3 DEF Crew!BulkStatus
    <2>2. CASE pg'.stuck
      <3>1. CrewClicks("none")
        BY <1>0, <1>3, <2>1, <2>2 DEF CrewClicks
      <3> QED BY <3>1, CrewClicked
    <2>3. CASE ~pg'.stuck
      <3>1. PICK k : k.h = "status" /\ k \in jobs'
        <4>1. PICK S, b : /\ Crew!Bulk("status", S, to, b)
                          /\ b
          BY <1>0, <1>3, <2>1, <2>3 DEF Crew!BulkStatus
        <4>2. PICK a : Job("status", a) \in jobs'
          BY <4>1 DEF Crew!Bulk, Crew!Start, Crew!Job, Job
        <4> QED BY <4>2, NewJob
      <3>2. CrewClicks("status")
        BY <1>0, <1>3, <2>1, <2>3, <3>1 DEF CrewClicks, Bulks
      <3> QED BY <3>2, CrewClicked
    <2> QED BY <2>2, <2>3
  <1> QED BY <1>1, <1>2, <1>3, CrewClicked

(* The button of a dialog. *)
LEMMA CrewSubmits ==
  ASSUME CrewInv, NEW d, NEW h \in Crew!Forms, NEW a, Crew!Submit(d, h, a), Crew!DialogOf(h) = d,
         h \in {"create", "import"} => a.n \in Nat
  PROVE  CrewInv'
  <1>1. PICK k : /\ k = Job(h, a) /\ jobs' = jobs \cup {k}
                 /\ UNCHANGED srv /\ pg' = [pg EXCEPT !.saving = @ \cup {d}]
    BY DEF Crew!Submit, Crew!Start, Crew!Job, Job
  <1>2. DOMAIN k = JobFields /\ k.h = h /\ k.a = a
    BY <1>1, NewJob
  <1>3. CrewJob(k)'
    BY <1>2 DEF CrewJob, Bulks, Crew!Forms
  <1>4. CrewClicks(h)
    BY <1>1, <1>2, <1>3 DEF CrewClicks, CrewInv, CrewShape
  <1> QED BY <1>4, CrewClicked

LEMMA CrewDialogs ==
  ASSUME CrewInv,
         \/ Crew!Create \/ Crew!Update \/ Crew!DeleteConfirm \/ Crew!SavePreferences
         \/ \E n \in 1 .. (MaxTeachers - Employed) : Crew!BulkSubmit(n)
         \/ \E t : Crew!OpenPreferences(t)
  PROVE  CrewInv'
  <1>1. CASE Crew!Create
    <2>1. PICK a : a = [n |-> 1] /\ Crew!Submit("add", "create", a) /\ a.n \in Nat
      BY <1>1 DEF Crew!Create
    <2> QED BY <2>1, CrewSubmits DEF Crew!DialogOf, Crew!Forms
  <1>2. CASE \E n \in 1 .. (MaxTeachers - Employed) : Crew!BulkSubmit(n)
    <2>1. PICK n \in 1 .. (MaxTeachers - Employed) : Crew!BulkSubmit(n)
      BY <1>2
    <2>2. n \in Nat
      BY PagesAssumption DEF PagesAssumption, Crew!TeachersAssumption
    <2>3. PICK a : a = [n |-> n] /\ Crew!Submit("import", "import", a) /\ a.n \in Nat
      BY <2>1, <2>2 DEF Crew!BulkSubmit
    <2> QED BY <2>3, CrewSubmits DEF Crew!DialogOf, Crew!Forms
  <1>3. CASE Crew!Update
    BY <1>3, CrewSubmits DEF Crew!Update, Crew!DialogOf, Crew!Forms
  <1>4. CASE Crew!DeleteConfirm
    BY <1>4, CrewSubmits DEF Crew!DeleteConfirm, Crew!DialogOf, Crew!Forms
  <1>5. CASE Crew!SavePreferences
    BY <1>5, CrewSubmits DEF Crew!SavePreferences, Crew!DialogOf, Crew!Forms
  <1>6. CASE \E t : Crew!OpenPreferences(t)
    <2>1. PICK t, k : /\ k = Job("prefs", [t |-> t]) /\ jobs' = jobs \cup {k} /\ UNCHANGED srv
                      /\ pg' = [pg EXCEPT !.dialog = "prefs", !.of = t, !.prefLoading = TRUE]
      BY <1>6 DEF Crew!OpenPreferences, Crew!Start, Crew!Job, Job
    <2>2. DOMAIN k = JobFields /\ k.h = "prefs"
      BY <2>1, NewJob
    <2>3. CrewJob(k)'
      BY <2>2 DEF CrewJob, Bulks
    <2>4. CrewClicks("prefs")
      BY <2>1, <2>2, <2>3 DEF CrewClicks, CrewInv, CrewShape
    <2> QED BY <2>4, CrewClicked
  <1> QED BY <1>1, <1>2, <1>3, <1>4, <1>5, <1>6

LEMMA CrewElsewhere ==
  ASSUME CrewInv, (\E t : Crew!Elsewhere(t)) \/ UNCHANGED vars
  PROVE  CrewInv'
  <1>1. /\ UNCHANGED <<pg, jobs>>
        /\ \/ UNCHANGED srv
           \/ \E t : srv' = Crew!Removed(t)
           \/ \E t, v : srv' = Crew!Flagged(t, v)
           \/ \E t, v : srv' = [srv EXCEPT !.accepts[t] = v]
    BY DEF Crew!Elsewhere, vars
  <1>2. NoneReturns
    BY <1>1, CrewServer
  <1>3. JobsShaped' /\ CrewWaits'
    BY <1>1 DEF CrewInv, CrewShape, JobsShaped, CrewWaits, InFlight, Saves
  <1>4. /\ DOMAIN pg.rows \subseteq 1 .. srv.last /\ pg.selected \subseteq 1 .. srv.last
        /\ 1 .. srv.last \subseteq 1 .. srv'.last
    BY <1>2 DEF CrewInv, CrewShape, NoneReturns
  <1> QED BY <1>1, <1>2, <1>3, <1>4, CrewFrame

LEMMA CrewKeeps == ASSUME CrewInv, [Crew!Next]_vars PROVE CrewInv'
  BY CrewServes, CrewReturns, CrewSaves, CrewBulks, CrewAbandons, CrewRests, CrewBars, CrewDialogs, CrewElsewhere
     DEF Crew!Next

LEMMA CrewHolds == ASSUME CrewInv PROVE Crew!WaitingHasJob /\ Crew!DeletedAsTold
  <1>1. Crew!WaitingHasJob
    BY DEF CrewInv, CrewWaits, Crew!WaitingHasJob, Crew!InFlight, InFlight, Saves, Bulks
  <1>2. Crew!DeletedAsTold
    BY CrewSets DEF CrewInv, CrewTold, Crew!DeletedAsTold
  <1> QED BY <1>1, <1>2

-----------------------------------------------------------------------------
(* The pages together: the page that is open keeps its invariant. *)
PagesInv ==
    /\ tab = "leaves" => DeskInv
    /\ tab = "today" => BoardInv
    /\ tab = "own cover" => OwnInv
    /\ tab = "my leaves" => MineInv
    /\ tab = "teachers" => CrewInv

LEMMA PagesStart == Init => PagesInv
  BY DeskStarts, BoardStarts, OwnStarts, MineStarts, CrewStarts DEF Init, PagesInv

LEMMA OnePage ==
  ASSUME [Next]_<<vars, tab>>
  PROVE  /\ tab' = tab
         /\ tab = "leaves" => [Desk!Next]_vars
         /\ tab = "today" => [Board!Next]_vars
         /\ tab = "own cover" => [Own!Next]_vars
         /\ tab = "my leaves" => [Mine!Next]_vars
         /\ tab = "teachers" => [Crew!Next]_vars
  BY DEF Next

LEMMA PagesKeep == PagesInv /\ [Next]_<<vars, tab>> => PagesInv'
  <1> SUFFICES ASSUME PagesInv, [Next]_<<vars, tab>> PROVE PagesInv'
    OBVIOUS
  <1>1. ASSUME tab = "leaves" PROVE DeskInv'
    BY <1>1, OnePage, DeskKeeps DEF PagesInv
  <1>2. ASSUME tab = "today" PROVE BoardInv'
    BY <1>2, OnePage, BoardKeeps DEF PagesInv
  <1>3. ASSUME tab = "own cover" PROVE OwnInv'
    BY <1>3, OnePage, OwnKeeps DEF PagesInv
  <1>4. ASSUME tab = "my leaves" PROVE MineInv'
    BY <1>4, OnePage, MineKeeps DEF PagesInv
  <1>5. ASSUME tab = "teachers" PROVE CrewInv'
    BY <1>5, OnePage, CrewKeeps DEF PagesInv
  <1> QED BY <1>1, <1>2, <1>3, <1>4, <1>5, OnePage DEF PagesInv

(***************************************************************************)
(* Every page keeps its inductive invariant: the shape of its records, and *)
(* what its handlers in flight, its server and what it shows owe each      *)
(* other.                                                                  *)
(***************************************************************************)
THEOREM PagesAreSound == Spec => []PagesInv
  BY PagesStart, PagesKeep, PTL DEF Spec

(***************************************************************************)
(* Whenever a spinner of the pages of leave, cover and teachers turns or a *)
(* button is disabled, a handler is in flight whose return ends that - all *)
(* but the bar of bulk actions of the teachers page once its handler has   *)
(* thrown (Teachers.jsx:430-440), which stays disabled.                    *)
(***************************************************************************)
THEOREM SpinnersEndButBulkBar == Spec => []WaitingHasJob
  <1>1. PagesInv => WaitingHasJob
    BY DeskHolds, BoardHolds, OwnHolds, MineHolds, CrewHolds DEF PagesInv, WaitingHasJob
  <1> QED BY <1>1, PagesAreSound, PTL

(***************************************************************************)
(* Leave requests: no call that overrides the credit limit is under way    *)
(* for a teacher about whom the server has not asked for it, whatever      *)
(* dialogs were opened and answers came in between.                        *)
(***************************************************************************)
THEOREM LimitIsAcknowledged == Spec => []LimitAcknowledged
  <1>1. PagesInv => LimitAcknowledged
    BY DeskHolds DEF PagesInv, LimitAcknowledged
  <1> QED BY <1>1, PagesAreSound, PTL

(***************************************************************************)
(* Leave requests: however the handlers of the queue, cancellations and    *)
(* the passes of the engine are interleaved, no substitute stands on an    *)
(* undecided or a rejected leave.                                          *)
(***************************************************************************)
THEOREM RefusedIsUncovered == Spec => []RefusedUncovered
  <1>1. PagesInv => RefusedUncovered
    BY DeskHolds DEF PagesInv, RefusedUncovered
  <1> QED BY <1>1, PagesAreSound, PTL

(***************************************************************************)
(* Today: an automatic run takes every period it started with once: what   *)
(* it assigned, skipped and has left add up to what its bar shows, also    *)
(* when calls of it fail half-way.                                         *)
(***************************************************************************)
THEOREM RunReportsAddUp == Spec => []RunAddsUp
  <1>1. PagesInv => RunAddsUp
    BY BoardHolds DEF PagesInv, RunAddsUp
  <1> QED BY <1>1, PagesAreSound, PTL

(***************************************************************************)
(* A teacher's own leave: every period a success page speaks of is on      *)
(* record for its day, whatever was changed in the form meanwhile.         *)
(***************************************************************************)
THEOREM SuccessIsRecorded == Spec => []SuccessRecorded
  <1>1. PagesInv => SuccessRecorded
    BY MineHolds DEF PagesInv, SuccessRecorded
  <1> QED BY <1>1, PagesAreSound, PTL

(***************************************************************************)
(* Teachers: the banner of a bulk removal never counts more than are gone, *)
(* whoever else removes teachers and whichever requests are lost.          *)
(***************************************************************************)
THEOREM DeletedIsAsTold == Spec => []DeletedAsTold
  <1>1. PagesInv => DeletedAsTold
    BY CrewHolds DEF PagesInv, DeletedAsTold
  <1> QED BY <1>1, PagesAreSound, PTL

(***************************************************************************)
(* Today: no step takes the substitute of a covered period away but an     *)
(* override or undo of that very period.                                   *)
(***************************************************************************)
THEOREM CoverIsKept == Spec => CoverKept
  <1>1. PagesInv /\ [Next]_<<vars, tab>> => [tab = "today" => Board!CoverKeptStep]_<<vars, tab>>
    BY OnePage, BoardCovers DEF PagesInv
  <1> QED BY <1>1, PagesAreSound, PTL DEF Spec, CoverKept

(***************************************************************************)
(* A teacher's own cover: a teacher at the limit is made a substitute only *)
(* after the page has warned of that very teacher.                         *)
(***************************************************************************)
THEOREM LimitIsAsked == Spec => LimitAsked
  <1>1. PagesInv /\ [Next]_<<vars, tab>> => [tab = "own cover" => Own!LimitAskedStep]_<<vars, tab>>
    BY OnePage, OwnAsks DEF PagesInv
  <1> QED BY <1>1, PagesAreSound, PTL DEF Spec, LimitAsked

=============================================================================
