------------------------ MODULE PagesOffice_proofs -------------------------
(***************************************************************************)
(* Proofs about the pages of the timetable, the calendar, the settings,    *)
(* the data and the staff: what PagesOffice checks on a small instance,    *)
(* for all teachers, classes, cells, dates and bounds.  For every page one *)
(* inductive invariant, which every step of the page keeps.                *)
(***************************************************************************)
EXTENDS PagesOffice, PageJobs_proofs, Integers, SequenceTheorems, FiniteSetTheorems, WellFoundedInduction

-----------------------------------------------------------------------------
(* The undo history of the two editors (GridHistory) *)

(* Its grids are of some set, and with those a redo can bring back at most Cap. *)
HistoryOk(H) ==
    /\ DOMAIN H = {"past", "present", "future"}
    /\ \E S : H.past \in Seq(S) /\ H.future \in Seq(S) /\ H.present \in S
    /\ Len(H.past) + Len(H.future) <= Cap

LEMMA LastOf ==
  ASSUME NEW S, NEW s \in Seq(S), NEW n \in Nat
  PROVE  Last(s, n) \in Seq(S) /\ Len(Last(s, n)) <= n
  <1>1. CASE Len(s) <= n
    BY <1>1 DEF Last
  <1>2. CASE ~(Len(s) <= n)
    <2>1. PICK k, m : k = Len(s) /\ m = k - n + 1
      OBVIOUS
    <2>2. k \in Nat /\ m \in Nat /\ m >= 1 /\ (m <= k => k - m + 1 = n)
      BY <1>2, <2>1, LenProperties
    <2>3. \A i \in m .. k : s[i] \in S
      BY <2>1, <2>2, ElementOfSeq
    <2>4. SubSeq(s, m, k) \in Seq(S) /\ Len(SubSeq(s, m, k)) = IF m <= k THEN k - m + 1 ELSE 0
      BY <2>2, <2>3, SubSeqProperties
    <2> QED BY <1>2, <2>1, <2>2, <2>4 DEF Last
  <1> QED BY <1>1, <1>2

LEMMA HistoryInitOk ==
  ASSUME NEW g
  PROVE  HistoryOk(HistoryInit(g))
  <1>1. PICK S : S = {g}
    OBVIOUS
  <1>2. <<>> \in Seq(S) /\ g \in S /\ Len(<<>>) = 0
    BY <1>1, EmptySeq
  <1> QED BY <1>2, CapAssumption DEF HistoryOk, HistoryInit

LEMMA HistorySetOk ==
  ASSUME NEW H, HistoryOk(H), NEW g
  PROVE  HistoryOk(HistorySet(H, g))
  <1>1. PICK S : H.past \in Seq(S) /\ H.future \in Seq(S) /\ H.present \in S
    BY DEF HistoryOk
  <1>2. PICK T : T = S \cup {g}
    OBVIOUS
  <1>3. H.past \in Seq(T) /\ H.present \in T /\ g \in T /\ <<>> \in Seq(T) /\ Len(<<>>) = 0
    BY <1>1, <1>2
  <1>4. Last(H.past, Cap - 1) \in Seq(T) /\ Len(Last(H.past, Cap - 1)) <= Cap - 1
    BY <1>3, LastOf, CapAssumption
  <1>5. PICK p : p = Last(H.past, Cap - 1)
    OBVIOUS
  <1>6. Append(p, H.present) \in Seq(T) /\ Len(Append(p, H.present)) <= Cap
    BY <1>3, <1>4, <1>5, CapAssumption
  <1> QED BY <1>3, <1>5, <1>6, CapAssumption DEF HistoryOk, HistorySet

LEMMA HistoryUndoOk ==
  ASSUME NEW H, HistoryOk(H)
  PROVE  HistoryOk(HistoryUndo(H))
  <1>1. PICK S : H.past \in Seq(S) /\ H.future \in Seq(S) /\ H.present \in S
    BY DEF HistoryOk
  <1>2. CASE H.past = <<>>
    BY <1>2 DEF HistoryUndo
  <1>3. CASE H.past # <<>>
    <2>1. PICK p, q : p = H.past /\ q = H.future
      OBVIOUS
    <2>2. Len(p) \in Nat /\ Len(p) > 0 /\ Len(q) \in Nat /\ Len(p) + Len(q) <= Cap
      BY <1>1, <1>3, <2>1, EmptySeq DEF HistoryOk
    <2>3. SubSeq(p, 1, Len(p) - 1) \in Seq(S) /\ Len(SubSeq(p, 1, Len(p) - 1)) = Len(p) - 1 /\ p[Len(p)] \in S
      BY <1>1, <2>1, <2>2
    <2>4. <<H.present>> \o q \in Seq(S) /\ Len(<<H.present>> \o q) = Len(q) + 1
      BY <1>1, <2>1, <2>2
    <2>5. HistoryUndo(H) = [past |-> SubSeq(p, 1, Len(p) - 1), present |-> p[Len(p)], future |-> <<H.present>> \o q]
      BY <1>3, <2>1 DEF HistoryUndo
    <2>6. DOMAIN HistoryUndo(H) = {"past", "present", "future"}
      BY <2>5
    <2>7. /\ HistoryUndo(H).past \in Seq(S) /\ Len(HistoryUndo(H).past) = Len(p) - 1
          /\ HistoryUndo(H).future \in Seq(S) /\ Len(HistoryUndo(H).future) = Len(q) + 1
          /\ HistoryUndo(H).present \in S
      BY <2>3, <2>4, <2>5
    <2> QED BY <2>2, <2>6, <2>7, CapAssumption DEF HistoryOk
  <1> QED BY <1>2, <1>3

LEMMA HistoryRedoOk ==
  ASSUME NEW H, HistoryOk(H)
  PROVE  HistoryOk(HistoryRedo(H))
  <1>1. PICK S : H.past \in Seq(S) /\ H.future \in Seq(S) /\ H.present \in S
    BY DEF HistoryOk
  <1>2. CASE H.future = <<>>
    BY <1>2 DEF HistoryRedo
  <1>3. CASE H.future # <<>>
    <2>1. PICK p, q : p = H.past /\ q = H.future
      OBVIOUS
    <2>2. Len(p) \in Nat /\ Len(q) \in Nat /\ Len(q) > 0 /\ Len(p) + Len(q) <= Cap
      BY <1>1, <1>3, <2>1, EmptySeq DEF HistoryOk
    <2>3. Append(p, H.present) \in Seq(S) /\ Len(Append(p, H.present)) = Len(p) + 1
      BY <1>1, <2>1
    <2>4. Tail(q) \in Seq(S) /\ Len(Tail(q)) = Len(q) - 1 /\ Head(q) \in S
      BY <1>1, <1>3, <2>1
    <2>5. HistoryRedo(H) = [past |-> Append(p, H.present), present |-> Head(q), future |-> Tail(q)]
      BY <1>3, <2>1 DEF HistoryRedo
    <2> QED BY <2>2, <2>3, <2>4, <2>5, CapAssumption DEF HistoryOk
  <1> QED BY <1>2, <1>3

-----------------------------------------------------------------------------
(* The administrator's editor (TimetableDesk) *)

LEMMA GridHistory ==
  /\ \A g : Grid!HistoryInit(g) = HistoryInit(g)
  /\ \A H, g : Grid!HistorySet(H, g) = HistorySet(H, g)
  /\ \A H : Grid!HistoryUndo(H) = HistoryUndo(H) /\ Grid!HistoryRedo(H) = HistoryRedo(H)
  BY DEF Grid!HistoryInit, HistoryInit, Grid!HistorySet, HistorySet, Grid!Last, Last, Grid!HistoryUndo, HistoryUndo,
     Grid!HistoryRedo, HistoryRedo

GridPage(p) ==
    /\ DOMAIN p = {"system", "teacher", "hist", "sel", "class", "combine", "saving", "loading", "clash", "reset",
                   "resetting"}
    /\ HistoryOk(p.hist)

GridServer ==
    /\ DOMAIN srv = {"slots", "subs", "next"} /\ srv.next \in Nat
    /\ \A s \in srv.slots : s.id \in Nat /\ s.id < srv.next

(* A reset of everybody on its way was typed out. *)
GridHarmless(k) == k.h = "reset" => (k.a.asked.scope = "all" => k.a.asked.typed)

GridInv ==
    /\ JobsShaped /\ GridServer /\ GridPage(pg) /\ (\A k \in jobs : GridHarmless(k))
    /\ Grid!WaitingHasJob /\ Grid!ClashIsCombined

LEMMA GridStarts == ASSUME PagesAssumption, Grid!Init PROVE GridInv
  <1>1. HistoryOk(Grid!HistoryInit({}))
    BY GridHistory, HistoryInitOk
  <1>2. GridPage(pg)
    BY <1>1 DEF GridPage, Grid!Init
  <1>3. JobsShaped /\ Grid!WaitingHasJob /\ \A k \in jobs : GridHarmless(k)
    BY DEF Grid!Init, Grid!Job, JobsShaped, JobFields, Grid!WaitingHasJob, Grid!InFlight, GridHarmless
  <1>4. GridServer /\ Grid!ClashIsCombined
    BY DEF Grid!Init, GridServer, Grid!ClashIsCombined
  <1> QED BY <1>2, <1>3, <1>4 DEF GridInv

LEMMA GridRests == ASSUME UNCHANGED srv PROVE Grid!ResetAuthorisedStep
  BY DEF Grid!ResetAuthorisedStep

(* What the page does with its own state keeps the invariant. *)
LEMMA GridFrame ==
  ASSUME GridInv, UNCHANGED srv, JobsShaped', \A k \in jobs' \ jobs : GridHarmless(k), GridPage(pg'),
         Grid!WaitingHasJob'
  PROVE  GridInv' /\ Grid!ResetAuthorisedStep
  <1> USE DEF GridInv
  <1>1. GridServer' /\ Grid!ClashIsCombined'
    BY DEF GridServer, Grid!ClashIsCombined
  <1>2. \A k \in jobs' : GridHarmless(k)
    OBVIOUS
  <1> QED BY <1>1, <1>2, GridRests DEF GridPage, GridHarmless

LEMMA GridContinues ==
  ASSUME GridInv, NEW j \in jobs,
         \/ Grid!OnLoaded(j) \/ Grid!OnCreated(j) \/ Grid!OnRefused(j) \/ Grid!OnRemoved(j) \/ Grid!OnUpdated(j)
         \/ Grid!OnUpdateFailed(j) \/ Grid!OnReset(j)
  PROVE  GridInv' /\ Grid!ResetAuthorisedStep
  <1> USE GridHistory, HistoryInitOk, HistorySetOk DEF GridInv, GridPage, Grid!Then, Grid!Back
  <1>1. CASE Grid!OnLoaded(j)
    <2>1. JobsShaped' /\ \A k \in jobs' \ jobs : GridHarmless(k)
      BY <1>1 DEF JobsShaped, JobFields, GridHarmless, Grid!OnLoaded
    <2>2. Grid!WaitingHasJob'
      BY <1>1 DEF Grid!WaitingHasJob, Grid!InFlight, JobsShaped, JobFields, Grid!OnLoaded
    <2> QED BY <1>1, <2>1, <2>2, GridFrame DEF Grid!OnLoaded
  <1>2. CASE Grid!OnCreated(j)
    <2>1. JobsShaped' /\ \A k \in jobs' \ jobs : GridHarmless(k)
      BY <1>2 DEF JobsShaped, JobFields, GridHarmless, Grid!OnCreated
    <2>2. Grid!WaitingHasJob'
      BY <1>2 DEF Grid!WaitingHasJob, Grid!InFlight, JobsShaped, JobFields, Grid!OnCreated
    <2> QED BY <1>2, <2>1, <2>2, GridFrame DEF Grid!OnCreated
  <1>3. CASE Grid!OnRefused(j)
    <2>1. JobsShaped' /\ \A k \in jobs' \ jobs : GridHarmless(k)
      BY <1>3 DEF JobsShaped, JobFields, GridHarmless, Grid!OnRefused
    <2>2. Grid!WaitingHasJob'
      BY <1>3 DEF Grid!WaitingHasJob, Grid!InFlight, JobsShaped, JobFields, Grid!OnRefused
    <2> QED BY <1>3, <2>1, <2>2, GridFrame DEF Grid!OnRefused
  <1>4. CASE Grid!OnRemoved(j)
    <2>1. JobsShaped' /\ \A k \in jobs' \ jobs : GridHarmless(k)
      BY <1>4 DEF JobsShaped, JobFields, GridHarmless, Grid!OnRemoved
    <2>2. Grid!WaitingHasJob'
      BY <1>4 DEF Grid!WaitingHasJob, Grid!InFlight, JobsShaped, JobFields, Grid!OnRemoved
    <2> QED BY <1>4, <2>1, <2>2, GridFrame DEF Grid!OnRemoved
  <1>5. CASE Grid!OnUpdated(j)
    <2>1. JobsShaped' /\ \A k \in jobs' \ jobs : GridHarmless(k)
      BY <1>5 DEF JobsShaped, JobFields, GridHarmless, Grid!OnUpdated
    <2>2. Grid!WaitingHasJob'
      BY <1>5 DEF Grid!WaitingHasJob, Grid!InFlight, JobsShaped, JobFields, Grid!OnUpdated
    <2> QED BY <1>5, <2>1, <2>2, GridFrame DEF Grid!OnUpdated
  <1>6. CASE Grid!OnUpdateFailed(j)
    <2>1. JobsShaped' /\ \A k \in jobs' \ jobs : GridHarmless(k)
      BY <1>6 DEF JobsShaped, JobFields, GridHarmless, Grid!OnUpdateFailed, Grid!Job
    <2>0. Job("load", j.a.of) \in jobs'
      BY <1>6 DEF Grid!OnUpdateFailed, Grid!Job, Job
    <2>2. Grid!WaitingHasJob'
      BY <1>6, <2>0, NewJob DEF Grid!WaitingHasJob, Grid!InFlight, Grid!OnUpdateFailed
    <2> QED BY <1>6, <2>1, <2>2, GridFrame DEF Grid!OnUpdateFailed, Grid!Job
  <1>7. CASE Grid!OnReset(j)
    <2>1. JobsShaped' /\ \A k \in jobs' \ jobs : GridHarmless(k)
      BY <1>7 DEF JobsShaped, JobFields, GridHarmless, Grid!OnReset
    <2>2. Grid!WaitingHasJob'
      BY <1>7 DEF Grid!WaitingHasJob, Grid!InFlight, JobsShaped, JobFields, Grid!OnReset
    <2> QED BY <1>7, <2>1, <2>2, GridFrame DEF Grid!OnReset
  <1> QED BY <1>1, <1>2, <1>3, <1>4, <1>5, <1>6, <1>7

LEMMA GridCalls ==
  ASSUME JobsShaped, NEW h, NEW a, Grid!Call(h, a)
  PROVE  /\ JobsShaped' /\ UNCHANGED srv
         /\ \A k \in jobs' \ jobs : k = Job(h, a)
         /\ \A H : Grid!InFlight(H) \/ h \in H => Grid!InFlight(H)'
  <1>1. jobs' = jobs \cup {Job(h, a)} /\ UNCHANGED srv
    BY DEF Grid!Call, Grid!Start, Grid!Job, Job
  <1>2. DOMAIN Job(h, a) = JobFields /\ Job(h, a).h = h
    BY NewJob
  <1> QED BY <1>1, <1>2, Started DEF Grid!InFlight, InFlight

LEMMA GridSends ==
  ASSUME PagesAssumption, GridInv,
         \/ \E t \in Teachers : Grid!SelectTeacher(t)
         \/ \E cell \in Cells : Grid!AssignSlot(cell)
         \/ \E c \in Classes : Grid!AssignFromPanel(c)
         \/ Grid!RemoveSlot
         \/ \E c \in Classes : Grid!UpdateSlot(c)
         \/ Grid!ExecuteReset
  PROVE  GridInv' /\ Grid!ResetAuthorisedStep
  <1> USE DEF GridInv, GridPage, GridHarmless
  <1>1. CASE \E t \in Teachers : Grid!SelectTeacher(t)
    <2>1. PICK a : Grid!Call("load", a)
      BY <1>1 DEF Grid!SelectTeacher
    <2>2. /\ JobsShaped' /\ UNCHANGED srv
          /\ \A k \in jobs' \ jobs : k = Job("load", a)
          /\ \A H : Grid!InFlight(H) \/ "load" \in H => Grid!InFlight(H)'
      BY <2>1, GridCalls
    <2>3. \A k \in jobs' \ jobs : GridHarmless(k)
      BY <2>1, <2>2, NewJob
    <2>4. Grid!WaitingHasJob'
      BY <1>1, <2>2 DEF Grid!SelectTeacher, Grid!WaitingHasJob
    <2> QED BY <1>1, <2>2, <2>3, <2>4, GridFrame DEF Grid!SelectTeacher
  <1>2. CASE \E cell \in Cells : Grid!AssignSlot(cell)
    <2>1. PICK a : Grid!Call("create", a)
      BY <1>2 DEF Grid!AssignSlot
    <2>2. /\ JobsShaped' /\ UNCHANGED srv
          /\ \A k \in jobs' \ jobs : k = Job("create", a)
          /\ \A H : Grid!InFlight(H) \/ "create" \in H => Grid!InFlight(H)'
      BY <2>1, GridCalls
    <2>3. \A k \in jobs' \ jobs : GridHarmless(k)
      BY <2>1, <2>2, NewJob
    <2>4. Grid!WaitingHasJob'
      BY <1>2, <2>2 DEF Grid!AssignSlot, Grid!WaitingHasJob
    <2> QED BY <1>2, <2>2, <2>3, <2>4, GridFrame DEF Grid!AssignSlot
  <1>3. CASE \E c \in Classes : Grid!AssignFromPanel(c)
    <2>1. PICK a : Grid!Call("panel", a)
      BY <1>3 DEF Grid!AssignFromPanel
    <2>2. /\ JobsShaped' /\ UNCHANGED srv
          /\ \A k \in jobs' \ jobs : k = Job("panel", a)
          /\ \A H : Grid!InFlight(H) \/ "panel" \in H => Grid!InFlight(H)'
      BY <2>1, GridCalls
    <2>3. \A k \in jobs' \ jobs : GridHarmless(k)
      BY <2>1, <2>2, NewJob
    <2>4. Grid!WaitingHasJob'
      BY <1>3, <2>2 DEF Grid!AssignFromPanel, Grid!WaitingHasJob
    <2> QED BY <1>3, <2>2, <2>3, <2>4, GridFrame DEF Grid!AssignFromPanel
  <1>4. CASE Grid!RemoveSlot
    <2>1. PICK a : Grid!Call("remove", a)
      BY <1>4 DEF Grid!RemoveSlot
    <2>2. /\ JobsShaped' /\ UNCHANGED srv
          /\ \A k \in jobs' \ jobs : k = Job("remove", a)
          /\ \A H : Grid!InFlight(H) \/ "remove" \in H => Grid!InFlight(H)'
      BY <2>1, GridCalls
    <2>3. \A k \in jobs' \ jobs : GridHarmless(k)
      BY <2>1, <2>2, NewJob
    <2>4. Grid!WaitingHasJob'
      BY <1>4, <2>2 DEF Grid!RemoveSlot, Grid!WaitingHasJob
    <2> QED BY <1>4, <2>2, <2>3, <2>4, GridFrame DEF Grid!RemoveSlot
  <1>5. CASE \E c \in Classes : Grid!UpdateSlot(c)
    <2>1. PICK a : Grid!Call("update", a)
      BY <1>5 DEF Grid!UpdateSlot
    <2>2. /\ JobsShaped' /\ UNCHANGED srv
          /\ \A k \in jobs' \ jobs : k = Job("update", a)
          /\ \A H : Grid!InFlight(H) \/ "update" \in H => Grid!InFlight(H)'
      BY <2>1, GridCalls
    <2>3. \A k \in jobs' \ jobs : GridHarmless(k)
      BY <2>1, <2>2, NewJob
    <2>4. Grid!WaitingHasJob'
      BY <1>5, <2>2 DEF Grid!UpdateSlot, Grid!WaitingHasJob
    <2> QED BY <1>5, <2>2, <2>3, <2>4, GridFrame DEF Grid!UpdateSlot
  <1>6. CASE Grid!ExecuteReset
    <2>1. PICK a : Grid!Call("reset", a) /\ (a.asked.scope = "all" => a.asked.typed)
      BY <1>6 DEF Grid!ExecuteReset, Grid!ResetReady
    <2>2. /\ JobsShaped' /\ UNCHANGED srv
          /\ \A k \in jobs' \ jobs : k = Job("reset", a)
          /\ \A H : Grid!InFlight(H) \/ "reset" \in H => Grid!InFlight(H)'
      BY <2>1, GridCalls
    <2>3. \A k \in jobs' \ jobs : GridHarmless(k)
      BY <2>1, <2>2, NewJob
    <2>4. Grid!WaitingHasJob'
      BY <1>6, <2>2 DEF Grid!ExecuteReset, Grid!WaitingHasJob
    <2> QED BY <1>6, <2>2, <2>3, <2>4, GridFrame DEF Grid!ExecuteReset
  <1> QED BY <1>1, <1>2, <1>3, <1>4, <1>5, <1>6

LEMMA GridClicks ==
  ASSUME PagesAssumption, GridInv,
         \/ \E c \in Classes : Grid!SelectClass(c)
         \/ Grid!ToggleCombine
         \/ \E cell \in Cells : Grid!AssignOccupied(cell)
         \/ \E cell \in Cells : Grid!SelectCell(cell)
         \/ Grid!PressUndo
         \/ Grid!PressRedo
         \/ Grid!Deselect
         \/ Grid!DismissClash
         \/ Grid!OpenReset
         \/ Grid!EditReset
         \/ Grid!CloseReset
  PROVE  GridInv' /\ Grid!ResetAuthorisedStep
  <1> USE GridHistory, HistoryUndoOk, HistoryRedoOk DEF GridInv, GridPage
  <1>0. UNCHANGED <<srv, jobs>> /\ pg'.saving = pg.saving /\ pg'.loading = pg.loading /\ pg'.resetting = pg.resetting
    BY DEF Grid!Click, Grid!Local, Grid!SelectClass, Grid!ToggleCombine, Grid!AssignOccupied, Grid!SelectCell,
       Grid!PressUndo, Grid!PressRedo, Grid!Deselect, Grid!DismissClash, Grid!OpenReset, Grid!EditReset, Grid!CloseReset
  <1>a. JobsShaped' /\ UNCHANGED srv /\ (\A k \in jobs' \ jobs : GridHarmless(k)) /\ Grid!WaitingHasJob'
    BY <1>0 DEF JobsShaped, Grid!WaitingHasJob, Grid!InFlight
  <1>b. GridPage(pg') => GridInv' /\ Grid!ResetAuthorisedStep
    BY <1>0, <1>a, GridFrame
  <1>1. CASE \E c \in Classes : Grid!SelectClass(c)
    BY <1>1, <1>b DEF Grid!SelectClass
  <1>2. CASE Grid!ToggleCombine
    BY <1>2, <1>b DEF Grid!ToggleCombine
  <1>3. CASE \E cell \in Cells : Grid!AssignOccupied(cell)
    BY <1>3, <1>b DEF Grid!AssignOccupied
  <1>4. CASE \E cell \in Cells : Grid!SelectCell(cell)
    BY <1>4, <1>b DEF Grid!SelectCell
  <1>5. CASE Grid!PressUndo
    BY <1>5, <1>b DEF Grid!PressUndo
  <1>6. CASE Grid!PressRedo
    BY <1>6, <1>b DEF Grid!PressRedo
  <1>7. CASE Grid!Deselect
    BY <1>7, <1>b DEF Grid!Deselect
  <1>8. CASE Grid!DismissClash
    BY <1>8, <1>b DEF Grid!DismissClash
  <1>9. CASE Grid!OpenReset
    BY <1>9, <1>b DEF Grid!OpenReset
  <1>10. CASE Grid!EditReset
    BY <1>10, <1>b DEF Grid!EditReset
  <1>11. CASE Grid!CloseReset
    BY <1>11, <1>b DEF Grid!CloseReset
  <1> QED BY <1>1, <1>2, <1>3, <1>4, <1>5, <1>6, <1>7, <1>8, <1>9, <1>10, <1>11

LEMMA GridAnswers ==
  ASSUME GridInv, NEW j \in jobs, NEW r, NEW g, jobs' = (jobs \ {j}) \cup {[j EXCEPT !.res = r, !.got = g]},
         UNCHANGED pg, GridServer', Grid!ClashIsCombined'
  PROVE  GridInv'
  <1> USE DEF GridInv
  <1>1. JobsShaped' /\ \A H : InFlight(H) => InFlight(H)'
    BY AnsweredWith
  <1>2. Grid!WaitingHasJob'
    BY <1>1 DEF Grid!WaitingHasJob, Grid!InFlight, InFlight
  <1>3. (\A k \in jobs : GridHarmless(k))'
    BY DEF GridHarmless, JobsShaped, JobFields
  <1> QED BY <1>1, <1>2, <1>3 DEF GridPage

LEMMA GridAnswersOnly ==
  ASSUME GridInv, NEW j \in jobs, NEW r, NEW g, jobs' = (jobs \ {j}) \cup {[j EXCEPT !.res = r, !.got = g]},
         UNCHANGED <<srv, pg>>
  PROVE  GridInv' /\ Grid!ResetAuthorisedStep
  <1>1. GridServer' /\ Grid!ClashIsCombined'
    BY DEF GridInv, GridServer, Grid!ClashIsCombined
  <1> QED BY <1>1, GridAnswers, GridRests

(* Fewer slots are no new clash. *)
LEMMA GridTakes ==
  ASSUME GridInv, NEW j \in jobs, NEW r, NEW g, jobs' = (jobs \ {j}) \cup {[j EXCEPT !.res = r, !.got = g]},
         UNCHANGED pg, DOMAIN srv' = DOMAIN srv, srv'.next = srv.next, srv'.slots \subseteq srv.slots
  PROVE  GridInv'
  <1>1. GridServer' /\ Grid!ClashIsCombined'
    BY DEF GridInv, GridServer, Grid!ClashIsCombined
  <1> QED BY <1>1, GridAnswers

LEMMA GridInserts ==
  ASSUME GridInv, NEW j \in jobs, Grid!ServeCreate(j), Grid!Conflicts(j.a) = {}
  PROVE  GridInv' /\ Grid!ResetAuthorisedStep
  <1> USE DEF GridInv
  <1>1. PICK new : /\ new = [id |-> srv.next, t |-> j.a.t, c |-> j.a.c, r |-> j.a.r, at |-> j.a.at, comb |-> j.a.comb]
                   /\ srv' = [srv EXCEPT !.slots = @ \cup {new}, !.next = @ + 1]
                   /\ Grid!Answer(j, "ok", new)
    BY DEF Grid!ServeCreate, Grid!NewSlot, Grid!Insert
  <1>2. DOMAIN srv' = DOMAIN srv /\ srv'.slots = srv.slots \cup {new} /\ srv'.next = srv.next + 1 /\ srv'.subs = srv.subs
    BY <1>1 DEF GridServer
  <1>3. GridServer'
    BY <1>1, <1>2 DEF GridServer
  <1>4. \A s \in srv.slots : (s.at = new.at /\ (s.t = new.t \/ s.c = new.c \/ (new.r # None /\ s.r = new.r))) => new.comb
    <2> SUFFICES ASSUME NEW s \in srv.slots, s.at = new.at, s.t = new.t \/ s.c = new.c \/ (new.r # None /\ s.r = new.r),
                        ~new.comb
                 PROVE  FALSE
      OBVIOUS
    <2>1. s.at = j.a.at /\ ~j.a.comb /\ (s.t = j.a.t \/ s.c = j.a.c \/ (j.a.r # None /\ s.r = j.a.r))
      BY <1>1
    <2> QED BY <2>1 DEF Grid!Conflicts
  <1>5. \A s \in srv.slots : s.id < new.id /\ ~(new.id < s.id)
    BY <1>1 DEF GridServer
  <1>6. Grid!ClashIsCombined'
    BY <1>1, <1>2, <1>4, <1>5 DEF Grid!ClashIsCombined, GridServer
  <1>7. Grid!ResetAuthorisedStep
    BY <1>2 DEF Grid!ResetAuthorisedStep
  <1> QED BY <1>1, <1>3, <1>6, <1>7, GridAnswers DEF Grid!Answer

LEMMA GridDeletes ==
  ASSUME GridInv, NEW j \in jobs, Grid!ServeDelete(j)
  PROVE  GridInv' /\ Grid!ResetAuthorisedStep
  <1> USE DEF GridInv
  <1>1. PICK it : it = {s \in srv.slots : s.id = j.a.id}
    OBVIOUS
  <1>2. CASE pg.system \/ \A s \in it : Grid!OfDepartment(s)
    <2>1. PICK r : srv' = [srv EXCEPT !.slots = @ \ it] /\ Grid!Answer(j, r, None)
      BY <1>1, <1>2 DEF Grid!ServeDelete
    <2>2. DOMAIN srv' = DOMAIN srv /\ srv'.slots = srv.slots \ it /\ srv'.next = srv.next /\ srv'.subs = srv.subs
      BY <2>1 DEF GridServer
    <2>3. j.h \in {"remove", "update"}
      BY DEF Grid!ServeDelete, Grid!Sent
    <2>4. Grid!ResetAuthorisedStep
      BY <1>1, <1>2, <2>2, <2>3 DEF Grid!ResetAuthorisedStep
    <2> QED BY <2>1, <2>2, <2>4, GridTakes DEF Grid!Answer
  <1>3. CASE ~(pg.system \/ \A s \in it : Grid!OfDepartment(s))
    BY <1>1, <1>3, GridAnswersOnly DEF Grid!ServeDelete, Grid!Answer
  <1> QED BY <1>2, <1>3

LEMMA GridResets ==
  ASSUME GridInv, NEW j \in jobs, Grid!ServeReset(j)
  PROVE  GridInv' /\ Grid!ResetAuthorisedStep
  <1> USE DEF GridInv
  <1>1. PICK R : R = j.a.asked
    OBVIOUS
  <1>2. CASE Grid!MayReset(R)
    <2>1. /\ srv' = [srv EXCEPT !.slots = {s \in @ : ~Grid!InScope(R, s)},
                                !.subs = {u \in @ : ~(R.subs /\ Grid!InScope(R, u))}]
          /\ Grid!Answer(j, "ok", None)
      BY <1>1, <1>2 DEF Grid!ServeReset
    <2>2. /\ DOMAIN srv' = DOMAIN srv /\ srv'.next = srv.next
          /\ srv'.slots = {s \in srv.slots : ~Grid!InScope(R, s)}
          /\ srv'.subs = {u \in srv.subs : ~(R.subs /\ Grid!InScope(R, u))}
      BY <2>1 DEF GridServer
    <2>3. R \in {k.a.asked : k \in {k \in jobs : k.h = "reset" /\ (k.a.asked.scope = "all" => k.a.asked.typed)}}
      BY <1>1 DEF GridHarmless, Grid!ServeReset, Grid!Sent
    <2>4. ASSUME NEW s \in srv.slots, Grid!InScope(R, s), ~pg.system
          PROVE  Grid!OfDepartment(s)
      BY <1>2, <2>4 DEF Grid!MayReset, Grid!InScope, Grid!OfDepartment, Grid!TeachersOf, Grid!ClassesOf
    <2>5. Grid!ResetAuthorisedStep
      BY <2>2, <2>3, <2>4 DEF Grid!ResetAuthorisedStep
    <2> QED BY <2>1, <2>2, <2>5, GridTakes DEF Grid!Answer
  <1>3. CASE ~Grid!MayReset(R)
    BY <1>1, <1>3, GridAnswersOnly DEF Grid!ServeReset, Grid!Answer
  <1> QED BY <1>2, <1>3

LEMMA GridServes ==
  ASSUME GridInv, NEW j \in jobs,
         Grid!ServeCreate(j) \/ Grid!ServeDelete(j) \/ Grid!ServeLoad(j) \/ Grid!ServeReset(j) \/ Grid!Fail(j)
  PROVE  GridInv' /\ Grid!ResetAuthorisedStep
  <1>1. CASE Grid!ServeCreate(j) /\ Grid!Conflicts(j.a) = {}
    BY <1>1, GridInserts
  <1>2. CASE Grid!ServeCreate(j) /\ Grid!Conflicts(j.a) # {}
    BY <1>2, GridAnswersOnly DEF Grid!ServeCreate, Grid!Answer
  <1>3. CASE Grid!ServeLoad(j)
    BY <1>3, GridAnswersOnly DEF Grid!ServeLoad, Grid!Answer
  <1>4. CASE Grid!Fail(j)
    BY <1>4, GridAnswersOnly DEF Grid!Fail
  <1> QED BY <1>1, <1>2, <1>3, <1>4, GridDeletes, GridResets

LEMMA GridSteps == ASSUME PagesAssumption, GridInv, Grid!Next PROVE GridInv' /\ Grid!ResetAuthorisedStep
  BY GridServes, GridContinues, GridSends, GridClicks DEF Grid!Next

LEMMA GridHolds == GridInv => Grid!HistoryBounded /\ Grid!WaitingHasJob /\ Grid!ClashIsCombined
  BY DEF GridInv, GridPage, HistoryOk, Grid!HistoryBounded

-----------------------------------------------------------------------------
(* A teacher's entry and its review (TimetableEntry) *)

LEMMA EntryHistory ==
  /\ \A g : Entry!HistoryInit(g) = HistoryInit(g)
  /\ \A H, g : Entry!HistorySet(H, g) = HistorySet(H, g)
  /\ \A H : Entry!HistoryUndo(H) = HistoryUndo(H) /\ Entry!HistoryRedo(H) = HistoryRedo(H)
  BY DEF Entry!HistoryInit, HistoryInit, Entry!HistorySet, HistorySet, Entry!Last, Last, Entry!HistoryUndo,
     HistoryUndo, Entry!HistoryRedo, HistoryRedo

(* A slot that comes from a submission comes from one that is on record, and is the teacher's. *)
EntryServer ==
    /\ DOMAIN srv = {"slots", "subs", "disabled"}
    /\ \E S : srv.subs \in Seq(S)
    /\ \A i \in DOMAIN srv.subs : DOMAIN srv.subs[i] = {"c", "r", "at", "st"}
    /\ \A s \in srv.slots : s.of = 0 \/ (s.of \in DOMAIN srv.subs /\ s.t = Me)

(* What the administrator's page lists and ticks are submissions. *)
EntryPage ==
    /\ DOMAIN pg = {"hist", "sel", "class", "combine", "saving", "loading", "clash", "clearing", "items", "ticked",
                    "query", "acting", "fetching"}
    /\ HistoryOk(pg.hist)
    /\ pg.items \subseteq DOMAIN srv.subs /\ pg.ticked \subseteq DOMAIN srv.subs

(* So are those a waiting review is about, and those a list that comes back names. *)
EntryKnown(k) ==
    /\ k.h = "review" => k.a.id \in DOMAIN srv.subs /\ k.a.approved \in BOOLEAN
    /\ k.h = "bulk" => DOMAIN k.a = {"ids", "approved"} /\ k.a.approved \in BOOLEAN /\ k.a.ids \subseteq DOMAIN srv.subs
    /\ (k.h = "items" /\ k.res = "ok") => k.got \subseteq DOMAIN srv.subs

EntryInv ==
    /\ JobsShaped /\ EntryServer /\ EntryPage /\ \A k \in jobs : EntryKnown(k)
    /\ Entry!WaitingHasJob /\ Entry!SlotsApproved

LEMMA EntryStarts == ASSUME PagesAssumption, Entry!Init PROVE EntryInv
  <1>1. HistoryOk(Entry!HistoryInit({}))
    BY EntryHistory, HistoryInitOk
  <1>2. PICK e, s : /\ srv = [slots |-> {s}, subs |-> <<e>>, disabled |-> FALSE]
                    /\ DOMAIN e = {"c", "r", "at", "st"} /\ s.of = 0
    <2>1. PICK c \in Classes, d \in Classes, r \in Entry!RoomChoices, cell \in Cells :
             srv = [slots |-> {[t |-> Other, c |-> d, r |-> r, at |-> cell, of |-> 0, comb |-> FALSE]},
                    subs |-> <<[c |-> c, r |-> r, at |-> cell, st |-> "pending"]>>, disabled |-> FALSE]
      BY DEF Entry!Init
    <2>2. PICK e, s : /\ e = [c |-> c, r |-> r, at |-> cell, st |-> "pending"]
                      /\ s = [t |-> Other, c |-> d, r |-> r, at |-> cell, of |-> 0, comb |-> FALSE]
      OBVIOUS
    <2>3. srv = [slots |-> {s}, subs |-> <<e>>, disabled |-> FALSE]
      BY <2>1, <2>2
    <2>4. DOMAIN e = {"c", "r", "at", "st"} /\ s.of = 0
      BY <2>2
    <2> QED BY <2>3, <2>4
  <1>3. EntryServer /\ Entry!SlotsApproved
    <2>2. srv.subs = <<e>> /\ <<e>> \in Seq({e}) /\ DOMAIN <<e>> = {1} /\ DOMAIN e = {"c", "r", "at", "st"}
      BY <1>2
    <2>3. PICK S : S = {e}
      OBVIOUS
    <2>4. srv.subs \in Seq(S) /\ srv.subs[1] = e
      BY <2>2, <2>3
    <2>5. DOMAIN srv = {"slots", "subs", "disabled"} /\ srv.slots = {s} /\ s.of = 0
      BY <1>2
    <2>6. EntryServer
      BY <2>2, <2>4, <2>5 DEF EntryServer
    <2>7. Entry!SlotsApproved
      BY <2>5 DEF Entry!SlotsApproved
    <2> QED BY <2>6, <2>7
  <1>4. EntryPage
    BY <1>1 DEF EntryPage, Entry!Init
  <1>5. JobsShaped /\ Entry!WaitingHasJob /\ \A k \in jobs : EntryKnown(k)
    BY DEF Entry!Init, Entry!Job, JobsShaped, JobFields, Entry!WaitingHasJob, Entry!InFlight, EntryKnown
  <1> QED BY <1>3, <1>4, <1>5 DEF EntryInv

(* What the pages do with their own state keeps the invariant. *)
LEMMA EntryFrame ==
  ASSUME EntryInv, UNCHANGED srv, JobsShaped', \A k \in jobs' \ jobs : EntryKnown(k),
         EntryPage', Entry!WaitingHasJob'
  PROVE  EntryInv' /\ Entry!DecisionsFinalStep
  <1>1. EntryServer' /\ Entry!SlotsApproved'
    BY DEF EntryInv, EntryServer, Entry!SlotsApproved
  <1>2. \A k \in jobs' : EntryKnown(k)'
    BY DEF EntryInv, EntryKnown
  <1>3. Entry!DecisionsFinalStep
    BY DEF Entry!DecisionsFinalStep, Entry!Ids
  <1> QED BY <1>1, <1>2, <1>3 DEF EntryInv

LEMMA EntryContinues ==
  ASSUME EntryInv, NEW j \in jobs,
         \/ Entry!OnLoaded(j) \/ Entry!OnSubmitted(j) \/ Entry!OnRefused(j) \/ Entry!OnForbidden(j)
         \/ Entry!OnUpdateFailed(j) \/ Entry!OnReviewed(j) \/ Entry!OnItems(j)
  PROVE  EntryInv' /\ Entry!DecisionsFinalStep
  <1> USE EntryHistory, HistoryInitOk, HistorySetOk DEF EntryInv, EntryPage, Entry!Then, Entry!Back
  <1>1. CASE Entry!OnLoaded(j)
    <2>1. JobsShaped' /\ \A k \in jobs' \ jobs : EntryKnown(k)
      BY <1>1 DEF JobsShaped, JobFields, EntryKnown, Entry!OnLoaded
    <2>2. Entry!WaitingHasJob'
      BY <1>1 DEF Entry!WaitingHasJob, Entry!InFlight, JobsShaped, JobFields, Entry!OnLoaded
    <2> QED BY <1>1, <2>1, <2>2, EntryFrame DEF Entry!OnLoaded
  <1>2. CASE Entry!OnSubmitted(j)
    <2>1. JobsShaped' /\ \A k \in jobs' \ jobs : EntryKnown(k)
      BY <1>2 DEF JobsShaped, JobFields, EntryKnown, Entry!OnSubmitted
    <2>2. Entry!WaitingHasJob'
      BY <1>2 DEF Entry!WaitingHasJob, Entry!InFlight, JobsShaped, JobFields, Entry!OnSubmitted
    <2> QED BY <1>2, <2>1, <2>2, EntryFrame DEF Entry!OnSubmitted
  <1>3. CASE Entry!OnRefused(j)
    <2>1. JobsShaped' /\ \A k \in jobs' \ jobs : EntryKnown(k)
      BY <1>3 DEF JobsShaped, JobFields, EntryKnown, Entry!OnRefused
    <2>2. Entry!WaitingHasJob'
      BY <1>3 DEF Entry!WaitingHasJob, Entry!InFlight, JobsShaped, JobFields, Entry!OnRefused
    <2> QED BY <1>3, <2>1, <2>2, EntryFrame DEF Entry!OnRefused
  <1>4. CASE Entry!OnForbidden(j)
    <2>1. JobsShaped' /\ \A k \in jobs' \ jobs : EntryKnown(k)
      BY <1>4 DEF JobsShaped, JobFields, EntryKnown, Entry!OnForbidden
    <2>2. Entry!WaitingHasJob'
      BY <1>4 DEF Entry!WaitingHasJob, Entry!InFlight, JobsShaped, JobFields, Entry!OnForbidden
    <2> QED BY <1>4, <2>1, <2>2, EntryFrame DEF Entry!OnForbidden
  <1>5. CASE Entry!OnUpdateFailed(j)
    <2>1. JobsShaped' /\ \A k \in jobs' \ jobs : EntryKnown(k)
      BY <1>5 DEF JobsShaped, JobFields, EntryKnown, Entry!OnUpdateFailed, Entry!Job
    <2>0. Job("load", None) \in jobs'
      BY <1>5 DEF Entry!OnUpdateFailed, Entry!Job, Job
    <2>2. Entry!WaitingHasJob'
      BY <1>5, <2>0, NewJob DEF Entry!WaitingHasJob, Entry!InFlight, Entry!OnUpdateFailed
    <2> QED BY <1>5, <2>1, <2>2, EntryFrame DEF Entry!OnUpdateFailed, Entry!Job
  <1>6. CASE Entry!OnReviewed(j)
    <2>1. JobsShaped' /\ \A k \in jobs' \ jobs : EntryKnown(k)
      BY <1>6 DEF JobsShaped, JobFields, EntryKnown, Entry!OnReviewed, Entry!Job
    <2>0. j.res = "ok" => Job("items", None) \in jobs'
      BY <1>6 DEF Entry!OnReviewed, Entry!Job, Job
    <2>2. Entry!WaitingHasJob'
      BY <1>6, <2>0, NewJob DEF Entry!WaitingHasJob, Entry!InFlight, Entry!OnReviewed
    <2>3. EntryPage' /\ UNCHANGED srv
      BY <1>6 DEF Entry!OnReviewed
    <2> QED BY <2>1, <2>2, <2>3, EntryFrame
  <1>7. CASE Entry!OnItems(j)
    <2>1. JobsShaped' /\ \A k \in jobs' \ jobs : EntryKnown(k)
      BY <1>7 DEF JobsShaped, JobFields, EntryKnown, Entry!OnItems
    <2>2. Entry!WaitingHasJob'
      BY <1>7 DEF Entry!WaitingHasJob, Entry!InFlight, JobsShaped, JobFields, Entry!OnItems
    <2>3. EntryPage' /\ UNCHANGED srv
      BY <1>7 DEF Entry!OnItems, EntryKnown
    <2> QED BY <2>1, <2>2, <2>3, EntryFrame
  <1> QED BY <1>1, <1>2, <1>3, <1>4, <1>5, <1>6, <1>7

LEMMA EntryCalls ==
  ASSUME JobsShaped, NEW h, NEW a, Entry!Call(h, a)
  PROVE  /\ JobsShaped' /\ UNCHANGED srv
         /\ \A k \in jobs' \ jobs : k = Job(h, a)
         /\ \A H : Entry!InFlight(H) \/ h \in H => Entry!InFlight(H)'
  <1>1. jobs' = jobs \cup {Job(h, a)} /\ UNCHANGED srv
    BY DEF Entry!Call, Entry!Start, Entry!Job, Job
  <1>2. DOMAIN Job(h, a) = JobFields /\ Job(h, a).h = h
    BY NewJob
  <1> QED BY <1>1, <1>2, Started DEF Entry!InFlight, InFlight

LEMMA EntrySends ==
  ASSUME EntryInv,
         \/ \E cell \in Cells : Entry!AssignSlot(cell)
         \/ \E c \in Classes : Entry!AssignFromPanel(c)
         \/ Entry!RemoveSlot
         \/ Entry!UpdateSlot
         \/ Entry!CombineAndAssign
         \/ Entry!ClearAll
         \/ Entry!OpenApprovals
         \/ \E i \in pg.items, approved \in BOOLEAN : Entry!SingleReview(i, approved)
         \/ \E approved \in BOOLEAN : Entry!HandleBulkReview(approved)
  PROVE  EntryInv' /\ Entry!DecisionsFinalStep
  <1> USE DEF EntryInv, EntryPage
  <1>1. CASE \E cell \in Cells : Entry!AssignSlot(cell)
    <2>0. PICK cell \in Cells : Entry!AssignSlot(cell)
      BY <1>1
    <2>1. PICK a : Entry!Call("create", a)
      BY <2>0 DEF Entry!AssignSlot
    <2>2. JobsShaped' /\ UNCHANGED srv /\ \A k \in jobs' \ jobs : EntryKnown(k)
      BY <2>0, <2>1, EntryCalls, NewJob DEF EntryKnown, Entry!AssignSlot
    <2>3. \A H : Entry!InFlight(H) \/ "create" \in H => Entry!InFlight(H)'
      BY <2>1, EntryCalls
    <2>4. Entry!WaitingHasJob'
      BY <2>0, <2>3 DEF Entry!AssignSlot, Entry!WaitingHasJob
    <2> QED BY <2>0, <2>2, <2>4, EntryFrame DEF Entry!AssignSlot
  <1>2. CASE \E c \in Classes : Entry!AssignFromPanel(c)
    <2>0. PICK c \in Classes : Entry!AssignFromPanel(c)
      BY <1>2
    <2>1. PICK a : Entry!Call("panel", a)
      BY <2>0 DEF Entry!AssignFromPanel
    <2>2. JobsShaped' /\ UNCHANGED srv /\ \A k \in jobs' \ jobs : EntryKnown(k)
      BY <2>0, <2>1, EntryCalls, NewJob DEF EntryKnown, Entry!AssignFromPanel
    <2>3. \A H : Entry!InFlight(H) \/ "panel" \in H => Entry!InFlight(H)'
      BY <2>1, EntryCalls
    <2>4. Entry!WaitingHasJob'
      BY <2>0, <2>3 DEF Entry!AssignFromPanel, Entry!WaitingHasJob
    <2> QED BY <2>0, <2>2, <2>4, EntryFrame DEF Entry!AssignFromPanel
  <1>3. CASE Entry!RemoveSlot
    <2>1. PICK a : Entry!Call("remove", a)
      BY <1>3 DEF Entry!RemoveSlot
    <2>2. JobsShaped' /\ UNCHANGED srv /\ \A k \in jobs' \ jobs : EntryKnown(k)
      BY <1>3, <2>1, EntryCalls, NewJob DEF EntryKnown, Entry!RemoveSlot
    <2>3. \A H : Entry!InFlight(H) \/ "remove" \in H => Entry!InFlight(H)'
      BY <2>1, EntryCalls
    <2>4. Entry!WaitingHasJob'
      BY <1>3, <2>3 DEF Entry!RemoveSlot, Entry!WaitingHasJob
    <2> QED BY <1>3, <2>2, <2>4, EntryFrame DEF Entry!RemoveSlot
  <1>4. CASE Entry!UpdateSlot
    <2>1. PICK a : Entry!Call("update", a)
      BY <1>4 DEF Entry!UpdateSlot
    <2>2. JobsShaped' /\ UNCHANGED srv /\ \A k \in jobs' \ jobs : EntryKnown(k)
      BY <1>4, <2>1, EntryCalls, NewJob DEF EntryKnown, Entry!UpdateSlot
    <2>3. \A H : Entry!InFlight(H) \/ "update" \in H => Entry!InFlight(H)'
      BY <2>1, EntryCalls
    <2>4. Entry!WaitingHasJob'
      BY <1>4, <2>3 DEF Entry!UpdateSlot, Entry!WaitingHasJob
    <2> QED BY <1>4, <2>2, <2>4, EntryFrame DEF Entry!UpdateSlot
  <1>5. CASE Entry!CombineAndAssign
    <2>1. PICK a : Entry!Call("combine", a)
      BY <1>5 DEF Entry!CombineAndAssign
    <2>2. JobsShaped' /\ UNCHANGED srv /\ \A k \in jobs' \ jobs : EntryKnown(k)
      BY <1>5, <2>1, EntryCalls, NewJob DEF EntryKnown, Entry!CombineAndAssign
    <2>3. \A H : Entry!InFlight(H) \/ "combine" \in H => Entry!InFlight(H)'
      BY <2>1, EntryCalls
    <2>4. Entry!WaitingHasJob'
      BY <1>5, <2>3 DEF Entry!CombineAndAssign, Entry!WaitingHasJob
    <2> QED BY <1>5, <2>2, <2>4, EntryFrame DEF Entry!CombineAndAssign
  <1>6. CASE Entry!ClearAll
    <2>1. PICK a : Entry!Call("clear", a)
      BY <1>6 DEF Entry!ClearAll
    <2>2. JobsShaped' /\ UNCHANGED srv /\ \A k \in jobs' \ jobs : EntryKnown(k)
      BY <1>6, <2>1, EntryCalls, NewJob DEF EntryKnown, Entry!ClearAll
    <2>3. \A H : Entry!InFlight(H) \/ "clear" \in H => Entry!InFlight(H)'
      BY <2>1, EntryCalls
    <2>4. Entry!WaitingHasJob'
      BY <1>6, <2>3 DEF Entry!ClearAll, Entry!WaitingHasJob
    <2> QED BY <1>6, <2>2, <2>4, EntryFrame DEF Entry!ClearAll
  <1>7. CASE Entry!OpenApprovals
    <2>1. PICK a : Entry!Call("items", a)
      BY <1>7 DEF Entry!OpenApprovals
    <2>2. JobsShaped' /\ UNCHANGED srv /\ \A k \in jobs' \ jobs : EntryKnown(k)
      BY <1>7, <2>1, EntryCalls, NewJob DEF EntryKnown, Entry!OpenApprovals
    <2>3. \A H : Entry!InFlight(H) \/ "items" \in H => Entry!InFlight(H)'
      BY <2>1, EntryCalls
    <2>4. Entry!WaitingHasJob'
      BY <1>7, <2>3 DEF Entry!OpenApprovals, Entry!WaitingHasJob
    <2> QED BY <1>7, <2>2, <2>4, EntryFrame DEF Entry!OpenApprovals
  <1>8. CASE \E i \in pg.items, approved \in BOOLEAN : Entry!SingleReview(i, approved)
    <2>0. PICK i \in pg.items, approved \in BOOLEAN : Entry!SingleReview(i, approved)
      BY <1>8
    <2>1. PICK a : Entry!Call("review", a) /\ a.id = i /\ a.approved \in BOOLEAN
      BY <2>0 DEF Entry!SingleReview
    <2>2. JobsShaped' /\ UNCHANGED srv /\ \A k \in jobs' \ jobs : EntryKnown(k)
      BY <2>0, <2>1, EntryCalls, NewJob DEF EntryKnown, Entry!SingleReview, Entry!Filtered
    <2>3. \A H : Entry!InFlight(H) \/ "review" \in H => Entry!InFlight(H)'
      BY <2>1, EntryCalls
    <2>4. Entry!WaitingHasJob'
      BY <2>0, <2>3 DEF Entry!SingleReview, Entry!WaitingHasJob
    <2> QED BY <2>0, <2>2, <2>4, EntryFrame DEF Entry!SingleReview
  <1>9. CASE \E approved \in BOOLEAN : Entry!HandleBulkReview(approved)
    <2>0. PICK approved \in BOOLEAN : Entry!HandleBulkReview(approved)
      BY <1>9
    <2>1. PICK a : Entry!Call("bulk", a) /\ a.approved \in BOOLEAN /\ DOMAIN a = {"ids", "approved"} /\ (a.ids = pg.items \/ a.ids = pg.ticked)
      BY <2>0 DEF Entry!HandleBulkReview
    <2>2. JobsShaped' /\ UNCHANGED srv /\ \A k \in jobs' \ jobs : EntryKnown(k)
      BY <2>0, <2>1, EntryCalls, NewJob DEF EntryKnown, Entry!HandleBulkReview
    <2>3. \A H : Entry!InFlight(H) \/ "bulk" \in H => Entry!InFlight(H)'
      BY <2>1, EntryCalls
    <2>4. Entry!WaitingHasJob'
      BY <2>0, <2>3 DEF Entry!HandleBulkReview, Entry!WaitingHasJob
    <2> QED BY <2>0, <2>2, <2>4, EntryFrame DEF Entry!HandleBulkReview
  <1> QED BY <1>1, <1>2, <1>3, <1>4, <1>5, <1>6, <1>7, <1>8, <1>9

LEMMA EntryClicks ==
  ASSUME EntryInv,
         \/ \E c \in Classes : Entry!SelectClass(c)
         \/ Entry!ToggleCombine
         \/ \E cell \in Cells : Entry!SelectCell(cell)
         \/ Entry!DismissClash
         \/ Entry!OpenClear
         \/ Entry!KeepSlots
         \/ Entry!PressUndo
         \/ Entry!PressRedo
         \/ Entry!Deselect
         \/ \E c \in Classes : Entry!Search(c)
         \/ \E i \in pg.items : Entry!ToggleOne(i)
         \/ Entry!ToggleAll
  PROVE  EntryInv' /\ Entry!DecisionsFinalStep
  <1> USE EntryHistory, HistoryUndoOk, HistoryRedoOk DEF EntryInv, EntryPage
  <1>0. UNCHANGED <<srv, jobs>> /\ pg'.saving = pg.saving /\ pg'.loading = pg.loading
        /\ pg'.fetching = pg.fetching /\ pg'.acting = pg.acting
    BY DEF Entry!Click, Entry!Local, Entry!SelectClass, Entry!ToggleCombine, Entry!SelectCell, Entry!DismissClash, Entry!OpenClear, Entry!KeepSlots, Entry!PressUndo, Entry!PressRedo, Entry!Deselect, Entry!Search, Entry!ToggleOne, Entry!ToggleAll
  <1>a. JobsShaped' /\ UNCHANGED srv /\ (\A k \in jobs' \ jobs : EntryKnown(k)) /\ Entry!WaitingHasJob'
    BY <1>0 DEF JobsShaped, Entry!WaitingHasJob, Entry!InFlight
  <1>b. EntryPage' => EntryInv' /\ Entry!DecisionsFinalStep
    BY <1>0, <1>a, EntryFrame
  <1>1. CASE \E c \in Classes : Entry!SelectClass(c)
    BY <1>1, <1>0, <1>b DEF Entry!SelectClass
  <1>2. CASE Entry!ToggleCombine
    BY <1>2, <1>0, <1>b DEF Entry!ToggleCombine, Entry!Filtered
  <1>3. CASE \E cell \in Cells : Entry!SelectCell(cell)
    BY <1>3, <1>0, <1>b DEF Entry!SelectCell
  <1>4. CASE Entry!DismissClash
    BY <1>4, <1>0, <1>b DEF Entry!DismissClash
  <1>5. CASE Entry!OpenClear
    BY <1>5, <1>0, <1>b DEF Entry!OpenClear
  <1>6. CASE Entry!KeepSlots
    BY <1>6, <1>0, <1>b DEF Entry!KeepSlots
  <1>7. CASE Entry!PressUndo
    BY <1>7, <1>0, <1>b DEF Entry!PressUndo
  <1>8. CASE Entry!PressRedo
    BY <1>8, <1>0, <1>b DEF Entry!PressRedo
  <1>9. CASE Entry!Deselect
    BY <1>9, <1>0, <1>b DEF Entry!Deselect
  <1>10. CASE \E c \in Classes : Entry!Search(c)
    BY <1>10, <1>0, <1>b DEF Entry!Search
  <1>11. CASE \E i \in pg.items : Entry!ToggleOne(i)
    BY <1>11, <1>0, <1>b DEF Entry!ToggleOne, Entry!Filtered
  <1>12. CASE Entry!ToggleAll
    BY <1>12, <1>0, <1>b DEF Entry!ToggleAll, Entry!Filtered
  <1> QED BY <1>1, <1>2, <1>3, <1>4, <1>5, <1>6, <1>7, <1>8, <1>9, <1>10, <1>11, <1>12

(* Two slots that share nothing but perhaps the cell. *)
EntryApart(s, u) == s.at = u.at => s.t # u.t /\ s.c # u.c /\ (s.r = u.r => s.r = None)

(* One more slot keeps the second half of SlotsApproved, if it is combined or apart from the others. *)
LEMMA EntryAdds ==
  ASSUME Entry!SlotsApproved, NEW S, NEW new, S \subseteq srv.slots \cup {new}, srv'.slots = S,
         new \in S => new.comb \/ \A s \in srv.slots : EntryApart(s, new),
         \A s \in S : s.of # 0 => srv'.subs[s.of].st = "approved"
  PROVE  Entry!SlotsApproved'
  BY DEF Entry!SlotsApproved, EntryApart

(* A review changes one pending submission, and adds at most the slot it asks for. *)
LEMMA EntryReviews ==
  ASSUME EntryServer, Entry!SlotsApproved, PagesAssumption, NEW i \in DOMAIN srv.subs, NEW approved \in BOOLEAN,
         srv' = Entry!Review(srv, i, approved)
  PROVE  /\ EntryServer' /\ Entry!SlotsApproved' /\ Entry!DecisionsFinalStep
         /\ DOMAIN srv'.subs = DOMAIN srv.subs
  <1>1. CASE srv' = srv
    BY <1>1 DEF EntryServer, Entry!SlotsApproved, Entry!DecisionsFinalStep, Entry!Ids
  <1>2. CASE srv' # srv
    <2>1. PICK e, st, new :
            /\ e = srv.subs[i] /\ e.st = "pending" /\ st = IF approved THEN "approved" ELSE "rejected"
            /\ new = [t |-> Me, c |-> e.c, r |-> e.r, at |-> e.at, of |-> i, comb |-> FALSE]
            /\ srv' = [srv EXCEPT !.subs[i].st = st, !.slots = @ \cup (IF approved THEN {new} ELSE {})]
            /\ approved => Entry!Conflicts(srv, Me, e, FALSE) = {}
      BY <1>2 DEF Entry!Review, Entry!Decided, Entry!Slot
    <2>2. /\ DOMAIN srv' = DOMAIN srv /\ srv'.slots = srv.slots \cup (IF approved THEN {new} ELSE {})
          /\ srv'.subs = [srv.subs EXCEPT ![i].st = st]
      BY <2>1 DEF EntryServer
    <2>3. PICK S : srv.subs \in Seq(S)
      BY DEF EntryServer
    <2>4. PICK f : f = [e EXCEPT !.st = st]
      OBVIOUS
    <2>5. DOMAIN f = {"c", "r", "at", "st"} /\ f.st = st
      BY <2>1, <2>4 DEF EntryServer
    <2>6. srv'.subs = [srv.subs EXCEPT ![i] = f]
      BY <2>1, <2>2, <2>4
    <2>7. \E T : srv'.subs \in Seq(T)
      <3>1. PICK T : T = S \cup {f}
        OBVIOUS
      <3>2. srv.subs \in Seq(T) /\ f \in T /\ i \in 1 .. Len(srv.subs)
        BY <2>3, <3>1, LenProperties
      <3> QED BY <2>6, <3>2, ExceptSeq
    <2>8. DOMAIN srv'.subs = DOMAIN srv.subs /\ \A k \in DOMAIN srv.subs : srv'.subs[k] = IF k = i THEN f ELSE srv.subs[k]
      BY <2>6
    <2>9. EntryServer'
      BY <2>1, <2>2, <2>5, <2>7, <2>8 DEF EntryServer
    <2>10. Entry!SlotsApproved'
      <3>1. \A s \in srv'.slots : s.of # 0 => srv'.subs[s.of].st = "approved"
        BY <2>1, <2>2, <2>5, <2>8 DEF EntryServer, Entry!SlotsApproved
      <3>2. approved => \A s \in srv.slots : EntryApart(s, new)
        BY <2>1 DEF Entry!Conflicts, EntryApart
      <3>3. CASE approved
        <4>1. srv'.slots \subseteq srv.slots \cup {new}
          BY <2>2
        <4> QED BY <3>1, <3>2, <3>3, <4>1, EntryAdds
      <3>4. CASE ~approved
        <4>1. srv'.slots = srv.slots
          BY <2>2, <3>4
        <4> QED BY <3>1, <4>1 DEF Entry!SlotsApproved
      <3> QED BY <3>3, <3>4
    <2>11. Entry!DecisionsFinalStep
      BY <2>1, <2>8 DEF Entry!DecisionsFinalStep, Entry!Ids
    <2> QED BY <2>8, <2>9, <2>10, <2>11
  <1> QED BY <1>1, <1>2

LEMMA EntryAnswers ==
  ASSUME EntryInv, NEW j \in jobs, NEW k, jobs' = (jobs \ {j}) \cup {k}, DOMAIN k = JobFields, k.h = j.h,
         UNCHANGED pg, EntryServer', Entry!SlotsApproved', DOMAIN srv.subs \subseteq DOMAIN srv'.subs,
         EntryKnown(k)
  PROVE  EntryInv'
  <1> USE DEF EntryInv
  <1>1. JobsShaped' /\ \A H : InFlight(H) => InFlight(H)'
    BY Answered
  <1>2. Entry!WaitingHasJob'
    BY <1>1 DEF Entry!WaitingHasJob, Entry!InFlight, InFlight
  <1>3. \A x \in jobs' : EntryKnown(x)'
    BY DEF EntryKnown
  <1> QED BY <1>1, <1>2, <1>3 DEF EntryPage

LEMMA EntryServes ==
  ASSUME PagesAssumption, EntryInv, NEW j \in jobs,
         \/ Entry!ServeSubmit(j) \/ Entry!ServeForbidden(j) \/ Entry!ServeLoad(j) \/ Entry!ServeReview(j)
         \/ Entry!ServeBulk(j) \/ Entry!ServePending(j) \/ Entry!Fail(j)
  PROVE  EntryInv' /\ Entry!DecisionsFinalStep
  <1> USE DEF EntryInv
  <1>a. ASSUME NEW r, NEW g PROVE LET k == [j EXCEPT !.res = r, !.got = g]
                                  IN  DOMAIN k = JobFields /\ k.h = j.h /\ k.a = j.a /\ k.res = r /\ k.got = g
    BY DEF JobsShaped, JobFields
  <1>b. EntryKnown(j)
    OBVIOUS
  <1>c. ASSUME NEW r, NEW g, UNCHANGED <<srv, pg>>, jobs' = (jobs \ {j}) \cup {[j EXCEPT !.res = r, !.got = g]},
               j.h = "items" /\ r = "ok" => g \subseteq DOMAIN srv.subs
        PROVE  EntryInv' /\ Entry!DecisionsFinalStep
    <2>1. EntryServer' /\ Entry!SlotsApproved' /\ Entry!DecisionsFinalStep
      BY <1>c DEF EntryServer, Entry!SlotsApproved, Entry!DecisionsFinalStep, Entry!Ids
    <2>2. PICK k : k = [j EXCEPT !.res = r, !.got = g]
      OBVIOUS
    <2>3. DOMAIN k = JobFields /\ k.h = j.h /\ EntryKnown(k)
      BY <1>a, <1>b, <1>c, <2>2 DEF EntryKnown
    <2> QED BY <1>c, <2>1, <2>2, <2>3, EntryAnswers
  <1>1. CASE Entry!ServeSubmit(j) /\ UNCHANGED srv
    <2>1. j.h # "items"
      BY <1>1 DEF Entry!ServeSubmit, Entry!Sent
    <2> QED BY <1>1, <1>c, <2>1 DEF Entry!ServeSubmit, Entry!Answer
  <1>2. CASE Entry!ServeSubmit(j) /\ ~UNCHANGED srv
    <2>1. PICK e, g : /\ e = [c |-> j.a.c, r |-> j.a.r, at |-> j.a.at, st |-> "pending"]
                      /\ srv' = [srv EXCEPT !.subs = Append(@, e)] /\ Entry!Answer(j, "ok", g)
                      /\ j.h # "items"
      BY <1>2 DEF Entry!ServeSubmit, Entry!Sent
    <2>2. PICK S : srv.subs \in Seq(S)
      BY DEF EntryServer
    <2>3. PICK T : T = S \cup {e}
      OBVIOUS
    <2>4. DOMAIN srv' = DOMAIN srv /\ srv'.slots = srv.slots /\ srv'.subs = Append(srv.subs, e)
      BY <2>1 DEF EntryServer
    <2>5. srv.subs \in Seq(T) /\ e \in T /\ Len(srv.subs) \in Nat /\ DOMAIN srv.subs = 1 .. Len(srv.subs)
      BY <2>2, <2>3, LenProperties
    <2>6. /\ srv'.subs \in Seq(T) /\ DOMAIN srv'.subs = 1 .. Len(srv.subs) + 1
          /\ \A i \in DOMAIN srv.subs : srv'.subs[i] = srv.subs[i]
          /\ srv'.subs[Len(srv.subs) + 1] = e
      BY <2>4, <2>5, AppendProperties, LenProperties
    <2>7. DOMAIN srv.subs \subseteq DOMAIN srv'.subs
      BY <2>5, <2>6
    <2>8. \A i \in DOMAIN srv'.subs : i \in DOMAIN srv.subs \/ i = Len(srv.subs) + 1
      BY <2>5, <2>6
    <2>9. EntryServer'
      BY <2>1, <2>4, <2>6, <2>7, <2>8 DEF EntryServer
    <2>10. Entry!SlotsApproved' /\ Entry!DecisionsFinalStep
      BY <2>4, <2>6 DEF EntryServer, Entry!SlotsApproved, Entry!DecisionsFinalStep, Entry!Ids
    <2>11. PICK k : k = [j EXCEPT !.res = "ok", !.got = g]
      OBVIOUS
    <2>12. DOMAIN k = JobFields /\ k.h = j.h /\ EntryKnown(k)
      BY <1>a, <1>b, <2>1, <2>11 DEF EntryKnown
    <2>13. jobs' = (jobs \ {j}) \cup {k} /\ UNCHANGED pg
      BY <2>1, <2>11 DEF Entry!Answer
    <2> QED BY <2>7, <2>9, <2>10, <2>12, <2>13, EntryAnswers
  <1>3. CASE Entry!ServeForbidden(j)
    BY <1>3, <1>c DEF Entry!ServeForbidden, Entry!Answer
  <1>4. CASE Entry!ServeLoad(j)
    BY <1>4, <1>c DEF Entry!ServeLoad, Entry!Answer, Entry!Sent
  <1>5. CASE Entry!ServeReview(j)
    <2>1. j.a.id \in DOMAIN srv.subs /\ j.a.approved \in BOOLEAN /\ j.h # "items"
      BY <1>5, <1>b DEF Entry!ServeReview, Entry!Sent, EntryKnown
    <2>2. PICK r : srv' = Entry!Review(srv, j.a.id, j.a.approved) /\ Entry!Answer(j, r, None)
      BY <1>5 DEF Entry!ServeReview
    <2>3. EntryServer' /\ Entry!SlotsApproved' /\ Entry!DecisionsFinalStep /\ DOMAIN srv'.subs = DOMAIN srv.subs
      BY <2>1, <2>2, EntryReviews
    <2>4. PICK k : k = [j EXCEPT !.res = r, !.got = None]
      OBVIOUS
    <2>5. DOMAIN k = JobFields /\ k.h = j.h /\ EntryKnown(k)
      BY <1>a, <1>b, <2>1, <2>4 DEF EntryKnown
    <2>6. jobs' = (jobs \ {j}) \cup {k} /\ UNCHANGED pg
      BY <2>2, <2>4 DEF Entry!Answer
    <2> QED BY <2>3, <2>5, <2>6, EntryAnswers
  <1>6. CASE Entry!ServeBulk(j) /\ j.a.ids = {}
    BY <1>6, <1>c DEF Entry!ServeBulk, Entry!Answer, Entry!Sent
  <1>7. CASE Entry!ServeBulk(j) /\ j.a.ids # {}
    <2>1. PICK i \in j.a.ids : /\ srv' = Entry!Review(srv, i, j.a.approved) /\ UNCHANGED pg
                               /\ jobs' = (jobs \ {j}) \cup {[j EXCEPT !.a.ids = @ \ {i}]}
      BY <1>7 DEF Entry!ServeBulk
    <2>2. j.h = "bulk" /\ DOMAIN j.a = {"ids", "approved"} /\ j.a.approved \in BOOLEAN /\ i \in DOMAIN srv.subs
      BY <1>7, <1>b, <2>1 DEF Entry!ServeBulk, Entry!Sent, EntryKnown
    <2>3. EntryServer' /\ Entry!SlotsApproved' /\ Entry!DecisionsFinalStep /\ DOMAIN srv'.subs = DOMAIN srv.subs
      BY <2>1, <2>2, EntryReviews
    <2>4. PICK k : k = [j EXCEPT !.a.ids = @ \ {i}]
      OBVIOUS
    <2>5. /\ DOMAIN k = JobFields /\ k.h = j.h /\ DOMAIN k.a = DOMAIN j.a /\ k.a.approved = j.a.approved
          /\ k.a.ids = j.a.ids \ {i}
      BY <2>2, <2>4 DEF JobsShaped, JobFields
    <2>6. EntryKnown(k)
      BY <1>b, <2>2, <2>5 DEF EntryKnown
    <2> QED BY <2>1, <2>3, <2>4, <2>5, <2>6, EntryAnswers
  <1>8. CASE Entry!ServePending(j)
    BY <1>8, <1>c DEF Entry!ServePending, Entry!Answer, Entry!Pending, Entry!Ids
  <1>9. CASE Entry!Fail(j)
    BY <1>9, <1>c DEF Entry!Fail
  <1> QED BY <1>1, <1>2, <1>3, <1>4, <1>5, <1>6, <1>7, <1>8, <1>9

(* Meanwhile others change slots and submissions, and neither pages nor calls. *)
LEMMA EntryMeanwhile ==
  ASSUME EntryInv, UNCHANGED <<pg, jobs>>, EntryServer', Entry!SlotsApproved', DOMAIN srv.subs \subseteq DOMAIN srv'.subs
  PROVE  EntryInv'
  <1>1. EntryPage' /\ JobsShaped' /\ Entry!WaitingHasJob' /\ \A k \in jobs' : EntryKnown(k)'
    BY DEF EntryInv, EntryPage, JobsShaped, Entry!WaitingHasJob, Entry!InFlight, EntryKnown
  <1> QED BY <1>1 DEF EntryInv

LEMMA EntryElsewhere ==
  ASSUME PagesAssumption, EntryInv, Entry!ServeElsewhere
  PROVE  EntryInv' /\ Entry!DecisionsFinalStep
  <1> USE DEF EntryInv
  <1>0. UNCHANGED <<pg, jobs>>
    BY DEF Entry!ServeElsewhere
  <1>1. CASE DOMAIN srv' = DOMAIN srv /\ srv'.subs = srv.subs /\ srv'.slots \subseteq srv.slots
    <2>1. EntryServer' /\ Entry!SlotsApproved' /\ Entry!DecisionsFinalStep
      BY <1>1 DEF EntryServer, Entry!SlotsApproved, Entry!DecisionsFinalStep, Entry!Ids
    <2> QED BY <1>0, <1>1, <2>1, EntryMeanwhile
  <1>2. CASE \E t \in {Me, Other}, c \in Classes, r \in Entry!RoomChoices, cell \in Cells, comb \in BOOLEAN :
                LET e == [c |-> c, r |-> r, at |-> cell]
                IN  /\ Entry!Conflicts(srv, t, e, comb) = {}
                    /\ srv' = [srv EXCEPT !.slots = @ \cup {Entry!Slot(t, e, 0, comb)}]
    <2>1. PICK t \in {Me, Other}, c \in Classes, r \in Entry!RoomChoices, cell \in Cells, comb \in BOOLEAN :
                LET e == [c |-> c, r |-> r, at |-> cell]
                IN  /\ Entry!Conflicts(srv, t, e, comb) = {}
                    /\ srv' = [srv EXCEPT !.slots = @ \cup {Entry!Slot(t, e, 0, comb)}]
      BY <1>2
    <2>2. PICK new : new = [t |-> t, c |-> c, r |-> r, at |-> cell, of |-> 0, comb |-> comb]
      OBVIOUS
    <2>3. DOMAIN srv' = DOMAIN srv /\ srv'.subs = srv.subs /\ srv'.slots = srv.slots \cup {new}
      BY <2>1, <2>2 DEF Entry!Slot, EntryServer
    <2>4. new.comb \/ \A s \in srv.slots : EntryApart(s, new)
      BY <2>1, <2>2 DEF Entry!Conflicts, EntryApart
    <2>5. \A s \in srv'.slots : s.of # 0 => srv'.subs[s.of].st = "approved"
      BY <2>2, <2>3 DEF Entry!SlotsApproved
    <2>6. Entry!SlotsApproved'
      BY <2>3, <2>4, <2>5, EntryAdds
    <2>7. EntryServer' /\ Entry!DecisionsFinalStep
      BY <2>2, <2>3 DEF EntryServer, Entry!DecisionsFinalStep, Entry!Ids
    <2> QED BY <1>0, <2>3, <2>6, <2>7, EntryMeanwhile
  <1>3. CASE srv' = [srv EXCEPT !.slots = {s \in @ : s.t # Me},
                                !.subs = [i \in Entry!Ids |-> [srv.subs[i] EXCEPT !.st = "deleted"]]]
    <2>1. PICK S : srv.subs \in Seq(S)
      BY DEF EntryServer
    <2>2. PICK f : f = [i \in DOMAIN srv.subs |-> [srv.subs[i] EXCEPT !.st = "deleted"]]
      OBVIOUS
    <2>3. DOMAIN srv' = DOMAIN srv /\ srv'.slots = {s \in srv.slots : s.t # Me} /\ srv'.subs = f
      BY <1>3, <2>2 DEF EntryServer, Entry!Ids
    <2>4. /\ DOMAIN f = DOMAIN srv.subs
          /\ \A i \in DOMAIN f : DOMAIN f[i] = {"c", "r", "at", "st"} /\ f[i].st = "deleted"
      BY <2>2 DEF EntryServer
    <2>5. \E T : f \in Seq(T)
      <3>1. PICK n \in Nat : DOMAIN f = 1 .. n
        BY <2>1, <2>4, LenProperties
      <3>2. PICK T : T = {f[i] : i \in DOMAIN f}
        OBVIOUS
      <3>3. f = [i \in 1 .. n |-> f[i]] /\ \A i \in 1 .. n : f[i] \in T
        BY <2>2, <3>1, <3>2
      <3>4. f \in [1 .. n -> T]
        BY <3>3
      <3> QED BY <3>4, SeqDef
    <2>6. \A s \in srv'.slots : s \in srv.slots /\ s.of = 0
      BY <2>3 DEF EntryServer
    <2>7. EntryServer' /\ Entry!SlotsApproved'
      BY <2>3, <2>4, <2>5, <2>6 DEF EntryServer, Entry!SlotsApproved
    <2>8. Entry!DecisionsFinalStep
      BY <2>3, <2>4 DEF Entry!DecisionsFinalStep, Entry!Ids
    <2> QED BY <1>0, <2>3, <2>4, <2>7, <2>8, EntryMeanwhile
  <1>4. CASE \E i \in Entry!Pending : srv' = [srv EXCEPT !.subs[i].st = "deleted"]
    <2>1. PICK i \in DOMAIN srv.subs : srv.subs[i].st = "pending" /\ srv' = [srv EXCEPT !.subs[i].st = "deleted"]
      BY <1>4 DEF Entry!Pending, Entry!Ids
    <2>2. PICK f : f = [srv.subs[i] EXCEPT !.st = "deleted"]
      OBVIOUS
    <2>3. DOMAIN srv' = DOMAIN srv /\ srv'.slots = srv.slots /\ srv'.subs = [srv.subs EXCEPT ![i] = f]
      BY <2>1, <2>2 DEF EntryServer
    <2>4. DOMAIN f = {"c", "r", "at", "st"}
      BY <2>2 DEF EntryServer
    <2>5. \E T : srv'.subs \in Seq(T)
      <3>1. PICK S : srv.subs \in Seq(S)
        BY DEF EntryServer
      <3>2. PICK T : T = S \cup {f}
        OBVIOUS
      <3>3. srv.subs \in Seq(T) /\ f \in T /\ i \in 1 .. Len(srv.subs)
        BY <2>1, <3>1, <3>2, LenProperties
      <3> QED BY <2>3, <3>3, ExceptSeq
    <2>6. DOMAIN srv'.subs = DOMAIN srv.subs /\ \A k \in DOMAIN srv.subs : srv'.subs[k] = IF k = i THEN f ELSE srv.subs[k]
      BY <2>3
    <2>7. \A s \in srv.slots : s.of # 0 => s.of # i
      BY <2>1 DEF Entry!SlotsApproved
    <2>8. EntryServer'
      BY <2>3, <2>4, <2>5, <2>6 DEF EntryServer
    <2>9. Entry!SlotsApproved'
      <3>1. \A s \in srv'.slots : s.of # 0 => srv'.subs[s.of].st = "approved"
        BY <2>3, <2>6, <2>7 DEF EntryServer, Entry!SlotsApproved
      <3> QED BY <2>3, <3>1 DEF Entry!SlotsApproved
    <2>10. Entry!DecisionsFinalStep
      BY <2>1, <2>6 DEF Entry!DecisionsFinalStep, Entry!Ids
    <2> QED BY <1>0, <2>6, <2>8, <2>9, <2>10, EntryMeanwhile
  <1>5. \/ DOMAIN srv' = DOMAIN srv /\ srv'.subs = srv.subs /\ srv'.slots \subseteq srv.slots
        \/ \E t \in {Me, Other}, c \in Classes, r \in Entry!RoomChoices, cell \in Cells, comb \in BOOLEAN :
              LET e == [c |-> c, r |-> r, at |-> cell]
              IN  /\ Entry!Conflicts(srv, t, e, comb) = {}
                  /\ srv' = [srv EXCEPT !.slots = @ \cup {Entry!Slot(t, e, 0, comb)}]
        \/ srv' = [srv EXCEPT !.slots = {s \in @ : s.t # Me},
                              !.subs = [i \in Entry!Ids |-> [srv.subs[i] EXCEPT !.st = "deleted"]]]
        \/ \E i \in Entry!Pending : srv' = [srv EXCEPT !.subs[i].st = "deleted"]
    <2>1. (srv' = [srv EXCEPT !.disabled = ~@] \/ \E s \in srv.slots : srv' = [srv EXCEPT !.slots = @ \ {s}])
            => DOMAIN srv' = DOMAIN srv /\ srv'.subs = srv.subs /\ srv'.slots \subseteq srv.slots
      BY DEF EntryServer
    <2> QED BY <2>1 DEF Entry!ServeElsewhere
  <1> QED BY <1>1, <1>2, <1>3, <1>4, <1>5

LEMMA EntrySteps == ASSUME PagesAssumption, EntryInv, Entry!Next PROVE EntryInv' /\ Entry!DecisionsFinalStep
  BY EntryServes, EntryContinues, EntrySends, EntryClicks, EntryElsewhere DEF Entry!Next

LEMMA EntryHolds == EntryInv => Entry!HistoryBounded /\ Entry!WaitingHasJob /\ Entry!SlotsApproved
  BY DEF EntryInv, EntryPage, HistoryOk, Entry!HistoryBounded

-----------------------------------------------------------------------------
(* The settings page (SettingsDesk) *)

LEMMA ModesCounts == \A S : Modes!IsFiniteSet(S) <=> IsFiniteSet(S)
  BY DEF Modes!IsFiniteSet, IsFiniteSet

LEMMA ModesCardinality == \A S : Modes!Cardinality(S) = Cardinality(S)
  BY ModesCounts DEF Modes!Cardinality, Cardinality

(* The panels that show that they are saving. *)
Panels == {"mode", "override", "self", "bulk", "preferences", "clear", "dryRun", "create", "reset", "factory"}

ModesServer ==
    /\ DOMAIN srv = {"mode", "self", "cross", "over", "listed", "active", "wiped"}
    /\ IsFiniteSet(srv.active) /\ Cardinality(srv.active) <= MaxSecondary

ModesPage ==
    /\ DOMAIN pg = {"system", "dept", "cfg", "loading", "cross", "self", "confirm", "adding", "saving", "ticked",
                    "listed", "active", "scope", "of", "chosen", "typed", "done", "out"}
    /\ pg.saving \subseteq Panels

ModesInv == JobsShaped /\ ModesServer /\ ModesPage /\ Modes!WaitingHasJob

LEMMA ModesStarts == ASSUME PagesAssumption, Modes!Init PROVE ModesInv
  <1>1. PICK listed \in SUBSET Admins : \E active \in SUBSET listed :
          Modes!Cardinality(active) <= MaxSecondary /\ srv.active = active /\ DOMAIN srv =
            {"mode", "self", "cross", "over", "listed", "active", "wiped"}
    BY DEF Modes!Init
  <1>2. ModesServer
    BY <1>1, ModesCardinality, ModesCounts, FS_Subset DEF ModesServer, PagesAssumption, Modes!SettingsAssumption
  <1>3. ModesPage /\ pg.saving = {} /\ pg.loading = FALSE /\ jobs = {}
    BY DEF ModesPage, Modes!Init
  <1> QED BY <1>2, <1>3 DEF ModesInv, JobsShaped, Modes!WaitingHasJob

LEMMA ModesFrame ==
  ASSUME ModesInv, UNCHANGED srv, JobsShaped', ModesPage', Modes!WaitingHasJob'
  PROVE  ModesInv' /\ Modes!OverrideKeepsModesStep
  BY DEF ModesInv, ModesServer, Modes!OverrideKeepsModesStep

LEMMA ModesContinues ==
  ASSUME ModesInv, NEW j \in jobs,
         \/ Modes!OnConfig(j)
         \/ Modes!OnPolicy(j)
         \/ Modes!OnSaved(j)
         \/ Modes!OnBulk(j)
         \/ Modes!OnCross(j)
         \/ Modes!OnReset(j)
         \/ Modes!OnAdmin(j)
         \/ Modes!OnListed(j)
         \/ Modes!OnFactory(j)
  PROVE  ModesInv' /\ Modes!OverrideKeepsModesStep
  <1> USE DEF ModesInv, ModesPage, Modes!Then, Modes!Back
  <1>1. CASE Modes!OnConfig(j)
    <2>1. JobsShaped'
      BY <1>1 DEF JobsShaped, JobFields, Modes!OnConfig, Modes!Job
    <2>2. j.res = "ok" => Job("policy", Modes!Tenant) \in jobs'
      BY <1>1 DEF Modes!OnConfig, Modes!Job, Job
    <2>3. Modes!WaitingHasJob'
      BY <1>1, <2>2, NewJob DEF Modes!WaitingHasJob, Modes!InFlight, Modes!OnConfig, Panels
    <2>4. ModesPage' /\ UNCHANGED srv
      BY <1>1 DEF Modes!OnConfig
    <2> QED BY <2>1, <2>3, <2>4, ModesFrame
  <1>2. CASE Modes!OnPolicy(j)
    <2>1. JobsShaped'
      BY <1>2 DEF JobsShaped, JobFields, Modes!OnPolicy
    <2>3. Modes!WaitingHasJob'
      BY <1>2 DEF Modes!WaitingHasJob, Modes!InFlight, JobsShaped, JobFields, Modes!OnPolicy, Panels
    <2>4. ModesPage' /\ UNCHANGED srv
      BY <1>2 DEF Modes!OnPolicy
    <2> QED BY <2>1, <2>3, <2>4, ModesFrame
  <1>3. CASE Modes!OnSaved(j)
    <2>1. JobsShaped'
      BY <1>3 DEF JobsShaped, JobFields, Modes!OnSaved
    <2>3. Modes!WaitingHasJob'
      BY <1>3 DEF Modes!WaitingHasJob, Modes!InFlight, JobsShaped, JobFields, Modes!OnSaved
    <2>4. ModesPage' /\ UNCHANGED srv
      BY <1>3 DEF Modes!OnSaved
    <2> QED BY <2>1, <2>3, <2>4, ModesFrame
  <1>4. CASE Modes!OnBulk(j)
    <2>1. JobsShaped'
      BY <1>4 DEF JobsShaped, JobFields, Modes!OnBulk, Modes!Job
    <2>2. j.res = "ok" => Job("config", Modes!Tenant) \in jobs'
      BY <1>4 DEF Modes!OnBulk, Modes!Job, Job
    <2>3. Modes!WaitingHasJob'
      BY <1>4, <2>2, NewJob DEF Modes!WaitingHasJob, Modes!InFlight, Modes!OnBulk
    <2>4. ModesPage' /\ UNCHANGED srv
      BY <1>4 DEF Modes!OnBulk
    <2> QED BY <2>1, <2>3, <2>4, ModesFrame
  <1>5. CASE Modes!OnCross(j)
    <2>1. JobsShaped'
      BY <1>5 DEF JobsShaped, JobFields, Modes!OnCross
    <2>3. Modes!WaitingHasJob'
      BY <1>5 DEF Modes!WaitingHasJob, Modes!InFlight, JobsShaped, JobFields, Modes!OnCross, Panels
    <2>4. ModesPage' /\ UNCHANGED srv
      BY <1>5 DEF Modes!OnCross
    <2> QED BY <2>1, <2>3, <2>4, ModesFrame
  <1>6. CASE Modes!OnReset(j)
    <2>1. JobsShaped'
      BY <1>6 DEF JobsShaped, JobFields, Modes!OnReset
    <2>3. Modes!WaitingHasJob'
      BY <1>6 DEF Modes!WaitingHasJob, Modes!InFlight, JobsShaped, JobFields, Modes!OnReset
    <2>4. ModesPage' /\ UNCHANGED srv
      BY <1>6 DEF Modes!OnReset
    <2> QED BY <2>1, <2>3, <2>4, ModesFrame
  <1>7. CASE Modes!OnAdmin(j)
    <2>1. JobsShaped'
      BY <1>7 DEF JobsShaped, JobFields, Modes!OnAdmin, Modes!Job
    <2>2. j.res = "ok" => Job("admins", None) \in jobs'
      BY <1>7 DEF Modes!OnAdmin, Modes!Job, Job
    <2>3. Modes!WaitingHasJob'
      BY <1>7, <2>2, NewJob DEF Modes!WaitingHasJob, Modes!InFlight, Modes!OnAdmin, Panels
    <2>4. ModesPage' /\ UNCHANGED srv
      BY <1>7 DEF Modes!OnAdmin
    <2> QED BY <2>1, <2>3, <2>4, ModesFrame
  <1>8. CASE Modes!OnListed(j)
    <2>1. JobsShaped'
      BY <1>8 DEF JobsShaped, JobFields, Modes!OnListed
    <2>3. Modes!WaitingHasJob'
      BY <1>8 DEF Modes!WaitingHasJob, Modes!InFlight, JobsShaped, JobFields, Modes!OnListed, Panels
    <2>4. ModesPage' /\ UNCHANGED srv
      BY <1>8 DEF Modes!OnListed
    <2> QED BY <2>1, <2>3, <2>4, ModesFrame
  <1>9. CASE Modes!OnFactory(j)
    <2>1. JobsShaped'
      BY <1>9 DEF JobsShaped, JobFields, Modes!OnFactory
    <2>3. Modes!WaitingHasJob'
      BY <1>9 DEF Modes!WaitingHasJob, Modes!InFlight, JobsShaped, JobFields, Modes!OnFactory
    <2>4. ModesPage' /\ UNCHANGED srv
      BY <1>9 DEF Modes!OnFactory
    <2> QED BY <2>1, <2>3, <2>4, ModesFrame
  <1> QED BY <1>1, <1>2, <1>3, <1>4, <1>5, <1>6, <1>7, <1>8, <1>9

LEMMA ModesCalls ==
  ASSUME JobsShaped, NEW h, NEW a, Modes!Start(h, a)
  PROVE  /\ JobsShaped'
         /\ \A k \in jobs' \ jobs : k = Job(h, a)
         /\ \A H : Modes!InFlight(H) \/ h \in H => Modes!InFlight(H)'
  <1>1. jobs' = jobs \cup {Job(h, a)}
    BY DEF Modes!Start, Modes!Job, Job
  <1>2. DOMAIN Job(h, a) = JobFields /\ Job(h, a).h = h
    BY NewJob
  <1> QED BY <1>1, <1>2, Started DEF Modes!InFlight, InFlight

LEMMA ModesSends ==
  ASSUME ModesInv,
         \/ \E d \in Modes!Everywhere : Modes!SwitchDepartment(d)
         \/ Modes!ConfirmAutonomous
         \/ \E o \in Modes!Modes \cup {None} : Modes!SelectOverride(o)
         \/ Modes!ToggleCross
         \/ Modes!ToggleSelf
         \/ Modes!ApplyBulk
         \/ Modes!RunDryRun
         \/ Modes!ApplyPreferences
         \/ Modes!ClearHistory
         \/ \E x \in Admins : Modes!CreateAdmin(x)
         \/ Modes!ResetTimetable
         \/ Modes!FactoryReset
  PROVE  ModesInv' /\ Modes!OverrideKeepsModesStep
  <1> USE DEF ModesInv, ModesPage, Panels
  <1>1. CASE \E d \in Modes!Everywhere : Modes!SwitchDepartment(d)
    <2>0. PICK d \in Modes!Everywhere : Modes!SwitchDepartment(d)
      BY <1>1
    <2>1. PICK a : Modes!Start("config", a) /\ UNCHANGED srv
      BY <2>0 DEF Modes!SwitchDepartment, Modes!Save
    <2>2. JobsShaped'
      BY <2>1, ModesCalls
    <2>3. \A H : Modes!InFlight(H) \/ "config" \in H => Modes!InFlight(H)'
      BY <2>1, ModesCalls
    <2>4. ModesPage' /\ Modes!WaitingHasJob'
      BY <2>0, <2>3 DEF Modes!SwitchDepartment, Modes!WaitingHasJob
    <2> QED BY <2>1, <2>2, <2>4, ModesFrame
  <1>2. CASE Modes!ConfirmAutonomous
    <2>1. PICK a : Modes!Start("mode", a) /\ UNCHANGED srv
      BY <1>2 DEF Modes!ConfirmAutonomous, Modes!Save
    <2>2. JobsShaped'
      BY <2>1, ModesCalls
    <2>3. \A H : Modes!InFlight(H) \/ "mode" \in H => Modes!InFlight(H)'
      BY <2>1, ModesCalls
    <2>4. ModesPage' /\ Modes!WaitingHasJob'
      BY <1>2, <2>3 DEF Modes!ConfirmAutonomous, Modes!WaitingHasJob
    <2> QED BY <2>1, <2>2, <2>4, ModesFrame
  <1>3. CASE \E o \in Modes!Modes \cup {None} : Modes!SelectOverride(o)
    <2>0. PICK o \in Modes!Modes \cup {None} : Modes!SelectOverride(o)
      BY <1>3
    <2>1. PICK a : Modes!Start("override", a) /\ UNCHANGED srv
      BY <2>0 DEF Modes!SelectOverride, Modes!Save
    <2>2. JobsShaped'
      BY <2>1, ModesCalls
    <2>3. \A H : Modes!InFlight(H) \/ "override" \in H => Modes!InFlight(H)'
      BY <2>1, ModesCalls
    <2>4. ModesPage' /\ Modes!WaitingHasJob'
      BY <2>0, <2>3 DEF Modes!SelectOverride, Modes!WaitingHasJob
    <2> QED BY <2>1, <2>2, <2>4, ModesFrame
  <1>4. CASE Modes!ToggleCross
    <2>1. PICK a : Modes!Start("cross", a) /\ UNCHANGED srv
      BY <1>4 DEF Modes!ToggleCross, Modes!Save
    <2>2. JobsShaped'
      BY <2>1, ModesCalls
    <2>3. \A H : Modes!InFlight(H) \/ "cross" \in H => Modes!InFlight(H)'
      BY <2>1, ModesCalls
    <2>4. ModesPage' /\ Modes!WaitingHasJob'
      BY <1>4, <2>3 DEF Modes!ToggleCross, Modes!WaitingHasJob
    <2> QED BY <2>1, <2>2, <2>4, ModesFrame
  <1>5. CASE Modes!ToggleSelf
    <2>1. PICK a : Modes!Start("self", a) /\ UNCHANGED srv
      BY <1>5 DEF Modes!ToggleSelf, Modes!Save
    <2>2. JobsShaped'
      BY <2>1, ModesCalls
    <2>3. \A H : Modes!InFlight(H) \/ "self" \in H => Modes!InFlight(H)'
      BY <2>1, ModesCalls
    <2>4. ModesPage' /\ Modes!WaitingHasJob'
      BY <1>5, <2>3 DEF Modes!ToggleSelf, Modes!WaitingHasJob
    <2> QED BY <2>1, <2>2, <2>4, ModesFrame
  <1>6. CASE Modes!ApplyBulk
    <2>1. PICK a : Modes!Start("bulk", a) /\ UNCHANGED srv
      BY <1>6 DEF Modes!ApplyBulk, Modes!Save
    <2>2. JobsShaped'
      BY <2>1, ModesCalls
    <2>3. \A H : Modes!InFlight(H) \/ "bulk" \in H => Modes!InFlight(H)'
      BY <2>1, ModesCalls
    <2>4. ModesPage' /\ Modes!WaitingHasJob'
      BY <1>6, <2>3 DEF Modes!ApplyBulk, Modes!WaitingHasJob
    <2> QED BY <2>1, <2>2, <2>4, ModesFrame
  <1>7. CASE Modes!RunDryRun
    <2>1. PICK a : Modes!Start("dryRun", a) /\ UNCHANGED srv
      BY <1>7 DEF Modes!RunDryRun, Modes!Save, Modes!Form
    <2>2. JobsShaped'
      BY <2>1, ModesCalls
    <2>3. \A H : Modes!InFlight(H) \/ "dryRun" \in H => Modes!InFlight(H)'
      BY <2>1, ModesCalls
    <2>4. ModesPage' /\ Modes!WaitingHasJob'
      BY <1>7, <2>3 DEF Modes!RunDryRun, Modes!Form, Modes!WaitingHasJob
    <2> QED BY <2>1, <2>2, <2>4, ModesFrame
  <1>8. CASE Modes!ApplyPreferences
    <2>1. PICK a : Modes!Start("preferences", a) /\ UNCHANGED srv
      BY <1>8 DEF Modes!ApplyPreferences, Modes!Save, Modes!Form
    <2>2. JobsShaped'
      BY <2>1, ModesCalls
    <2>3. \A H : Modes!InFlight(H) \/ "preferences" \in H => Modes!InFlight(H)'
      BY <2>1, ModesCalls
    <2>4. ModesPage' /\ Modes!WaitingHasJob'
      BY <1>8, <2>3 DEF Modes!ApplyPreferences, Modes!Form, Modes!WaitingHasJob
    <2> QED BY <2>1, <2>2, <2>4, ModesFrame
  <1>9. CASE Modes!ClearHistory
    <2>1. PICK a : Modes!Start("clear", a) /\ UNCHANGED srv
      BY <1>9 DEF Modes!ClearHistory, Modes!Save, Modes!Form
    <2>2. JobsShaped'
      BY <2>1, ModesCalls
    <2>3. \A H : Modes!InFlight(H) \/ "clear" \in H => Modes!InFlight(H)'
      BY <2>1, ModesCalls
    <2>4. ModesPage' /\ Modes!WaitingHasJob'
      BY <1>9, <2>3 DEF Modes!ClearHistory, Modes!Form, Modes!WaitingHasJob
    <2> QED BY <2>1, <2>2, <2>4, ModesFrame
  <1>10. CASE \E x \in Admins : Modes!CreateAdmin(x)
    <2>0. PICK x \in Admins : Modes!CreateAdmin(x)
      BY <1>10
    <2>1. PICK a : Modes!Start("create", a) /\ UNCHANGED srv
      BY <2>0 DEF Modes!CreateAdmin, Modes!Save
    <2>2. JobsShaped'
      BY <2>1, ModesCalls
    <2>3. \A H : Modes!InFlight(H) \/ "create" \in H => Modes!InFlight(H)'
      BY <2>1, ModesCalls
    <2>4. ModesPage' /\ Modes!WaitingHasJob'
      BY <2>0, <2>3 DEF Modes!CreateAdmin, Modes!WaitingHasJob
    <2> QED BY <2>1, <2>2, <2>4, ModesFrame
  <1>11. CASE Modes!ResetTimetable
    <2>1. PICK a : Modes!Start("reset", a) /\ UNCHANGED srv
      BY <1>11 DEF Modes!ResetTimetable, Modes!Save
    <2>2. JobsShaped'
      BY <2>1, ModesCalls
    <2>3. \A H : Modes!InFlight(H) \/ "reset" \in H => Modes!InFlight(H)'
      BY <2>1, ModesCalls
    <2>4. ModesPage' /\ Modes!WaitingHasJob'
      BY <1>11, <2>3 DEF Modes!ResetTimetable, Modes!WaitingHasJob
    <2> QED BY <2>1, <2>2, <2>4, ModesFrame
  <1>12. CASE Modes!FactoryReset
    <2>1. PICK a : Modes!Start("factory", a) /\ UNCHANGED srv
      BY <1>12 DEF Modes!FactoryReset, Modes!Save
    <2>2. JobsShaped'
      BY <2>1, ModesCalls
    <2>3. \A H : Modes!InFlight(H) \/ "factory" \in H => Modes!InFlight(H)'
      BY <2>1, ModesCalls
    <2>4. ModesPage' /\ Modes!WaitingHasJob'
      BY <1>12, <2>3 DEF Modes!FactoryReset, Modes!WaitingHasJob
    <2> QED BY <2>1, <2>2, <2>4, ModesFrame
  <1> QED BY <1>1, <1>2, <1>3, <1>4, <1>5, <1>6, <1>7, <1>8, <1>9, <1>10, <1>11, <1>12

LEMMA ModesClicks ==
  ASSUME ModesInv,
         \/ Modes!CloseDialogs
         \/ \E d \in Depts : Modes!TickDepartment(d)
         \/ Modes!OpenAddAdmin
         \/ Modes!EditReset
         \/ Modes!SignOut
  PROVE  ModesInv' /\ Modes!OverrideKeepsModesStep
  <1> USE DEF ModesInv, ModesPage
  <1>a. UNCHANGED <<srv, jobs>> /\ pg'.saving = pg.saving /\ pg'.loading = pg.loading
    BY DEF Modes!Click, Modes!Local, Modes!CloseDialogs, Modes!TickDepartment, Modes!OpenAddAdmin, Modes!EditReset, Modes!SignOut
  <1>b. JobsShaped' /\ Modes!WaitingHasJob'
    BY <1>a DEF JobsShaped, Modes!WaitingHasJob, Modes!InFlight
  <1>c. ModesPage' => ModesInv' /\ Modes!OverrideKeepsModesStep
    BY <1>a, <1>b, ModesFrame
  <1>1. CASE Modes!CloseDialogs
    BY <1>1, <1>a, <1>c DEF Modes!CloseDialogs
  <1>2. CASE \E d \in Depts : Modes!TickDepartment(d)
    BY <1>2, <1>a, <1>c DEF Modes!TickDepartment
  <1>3. CASE Modes!OpenAddAdmin
    BY <1>3, <1>a, <1>c DEF Modes!OpenAddAdmin
  <1>4. CASE Modes!EditReset
    BY <1>4, <1>a, <1>c DEF Modes!EditReset
  <1>5. CASE Modes!SignOut
    BY <1>5, <1>a, <1>c DEF Modes!SignOut
  <1> QED BY <1>1, <1>2, <1>3, <1>4, <1>5

LEMMA ModesSelects ==
  ASSUME ModesInv, NEW m \in Modes!Modes, Modes!SelectMode(m)
  PROVE  ModesInv' /\ Modes!OverrideKeepsModesStep
  <1> USE DEF ModesInv, ModesPage
  <1>1. CASE m = "autonomous"
    <2>1. UNCHANGED <<srv, jobs>> /\ pg' = [pg EXCEPT !.confirm = TRUE]
      BY <1>1 DEF Modes!SelectMode, Modes!Click
    <2>2. ModesPage' /\ Modes!WaitingHasJob' /\ JobsShaped'
      BY <2>1 DEF Modes!WaitingHasJob, Modes!InFlight, JobsShaped
    <2> QED BY <2>1, <2>2, ModesFrame
  <1>2. CASE m # "autonomous"
    <2>1. PICK a : Modes!Start("mode", a) /\ UNCHANGED srv /\ pg' = [pg EXCEPT !.saving = @ \cup {"mode"}]
      BY <1>2 DEF Modes!SelectMode, Modes!Save
    <2>2. JobsShaped'
      BY <1>2, <2>1, ModesCalls
    <2>3. \A H : Modes!InFlight(H) \/ "mode" \in H => Modes!InFlight(H)'
      BY <2>1, ModesCalls
    <2>4. ModesPage' /\ Modes!WaitingHasJob'
      BY <2>1, <2>3 DEF Panels, Modes!WaitingHasJob
    <2> QED BY <2>1, <2>2, <2>4, ModesFrame
  <1> QED BY <1>1, <1>2

LEMMA ModesToggles ==
  ASSUME ModesInv, NEW x \in Admins, Modes!ToggleActive(x)
  PROVE  ModesInv' /\ Modes!OverrideKeepsModesStep
  <1> USE DEF ModesInv, ModesPage
  <1>1. PICK h : Modes!Start(h, x) /\ UNCHANGED <<srv, pg>> /\ h \in {"enable", "disable"}
    BY DEF Modes!ToggleActive
  <1>2. JobsShaped'
    BY <1>1, ModesCalls
  <1>3. \A H : Modes!InFlight(H) => Modes!InFlight(H)'
    BY <1>1, ModesCalls
  <1>4. ModesPage' /\ Modes!WaitingHasJob'
    BY <1>1, <1>3 DEF Modes!WaitingHasJob
  <1> QED BY <1>1, <1>2, <1>4, ModesFrame

LEMMA ModesAnswers ==
  ASSUME ModesInv, NEW j \in jobs, NEW r, NEW g, jobs' = (jobs \ {j}) \cup {[j EXCEPT !.res = r, !.got = g]},
         UNCHANGED pg, ModesServer'
  PROVE  ModesInv'
  <1> USE DEF ModesInv
  <1>1. JobsShaped' /\ \A H : InFlight(H) => InFlight(H)'
    BY AnsweredWith
  <1>2. Modes!WaitingHasJob'
    BY <1>1 DEF Modes!WaitingHasJob, Modes!InFlight, InFlight
  <1> QED BY <1>1, <1>2 DEF ModesPage

LEMMA NextBelow == \A i, j \in Nat : i < j => i + 1 <= j
  OBVIOUS

(* What the server does to who is active: nothing, or one account within the limit. *)
LEMMA ModesActive ==
  ASSUME PagesAssumption, ModesServer, NEW x, Modes!MayBeActive("", x)
  PROVE  IsFiniteSet(srv.active \cup {x}) /\ Cardinality(srv.active \cup {x}) <= MaxSecondary
  <1>1. PICK S : S = srv.active \ {x}
    OBVIOUS
  <1>2. IsFiniteSet(S) /\ Cardinality(S) < MaxSecondary /\ Cardinality(S) \in Nat /\ MaxSecondary \in Nat
    BY <1>1, FS_RemoveElement, FS_CardinalityType, ModesCardinality
       DEF ModesServer, Modes!MayBeActive, PagesAssumption, Modes!SettingsAssumption
  <1>3. IsFiniteSet(S \cup {x}) /\ Cardinality(S \cup {x}) = Cardinality(S) + 1
    BY <1>1, <1>2, FS_AddElement
  <1>4. S \cup {x} = srv.active \cup {x}
    BY <1>1
  <1>5. PICK n \in Nat, m \in Nat : n = Cardinality(S) /\ m = MaxSecondary
    BY <1>2
  <1>6. n < m
    BY <1>2, <1>5
  <1>7. n + 1 <= m
    BY <1>6, NextBelow
  <1>8. Cardinality(srv.active \cup {x}) = n + 1
    BY <1>3, <1>4, <1>5
  <1>9. Cardinality(srv.active \cup {x}) <= m
    BY <1>7, <1>8
  <1>10. Cardinality(srv.active \cup {x}) <= MaxSecondary
    BY <1>5, <1>9, Zenon
  <1> QED BY <1>3, <1>4, <1>10

LEMMA ModesServes ==
  ASSUME PagesAssumption, ModesInv, NEW j \in jobs,
         \/ Modes!ServeLocked(j) \/ Modes!ServeRead(j) \/ Modes!ServeMode(j) \/ Modes!ServeSwitch(j)
         \/ Modes!ServeBulk(j) \/ Modes!ServeAdmin(j) \/ Modes!ServeOther(j) \/ Modes!ServeFactory(j) \/ Modes!Fail(j)
  PROVE  ModesInv' /\ Modes!OverrideKeepsModesStep
  <1> USE DEF ModesInv
  <1>a. ASSUME UNCHANGED srv PROVE ModesServer' /\ Modes!OverrideKeepsModesStep
    BY <1>a DEF ModesServer, Modes!OverrideKeepsModesStep
  <1>b. ASSUME NEW s, srv' = s, DOMAIN s = DOMAIN srv, s.active = srv.active
        PROVE  ModesServer'
    BY <1>b DEF ModesServer
  <1>1. CASE Modes!ServeLocked(j)
    BY <1>1, <1>a, ModesAnswers DEF Modes!ServeLocked, Modes!Answer
  <1>2. CASE Modes!ServeRead(j)
    BY <1>2, <1>a, ModesAnswers DEF Modes!ServeRead, Modes!Answer
  <1>3. CASE Modes!ServeMode(j)
    <2>1. ModesServer' /\ Modes!OverrideKeepsModesStep
      BY <1>3 DEF Modes!ServeMode, Modes!ModeSaved, Modes!OverrideKeepsModesStep, ModesServer
    <2> QED BY <1>3, <2>1, ModesAnswers DEF Modes!ServeMode, Modes!ModeSaved, Modes!Answer
  <1>4. CASE Modes!ServeSwitch(j)
    <2>1. ModesServer' /\ Modes!OverrideKeepsModesStep
      BY <1>4 DEF Modes!ServeSwitch, Modes!Saved, Modes!OverrideKeepsModesStep, ModesServer
    <2> QED BY <1>4, <2>1, ModesAnswers DEF Modes!ServeSwitch, Modes!Saved, Modes!Answer
  <1>5. CASE Modes!ServeBulk(j)
    <2>1. ModesServer' /\ Modes!OverrideKeepsModesStep
      BY <1>5 DEF Modes!ServeBulk, Modes!Saved, Modes!OverrideKeepsModesStep, ModesServer
    <2> QED BY <1>5, <2>1, ModesAnswers DEF Modes!ServeBulk, Modes!Saved, Modes!Answer
  <1>6. CASE Modes!ServeAdmin(j) /\ UNCHANGED srv
    <2>1. PICK r, g : Modes!Answer(j, r, g)
      BY <1>6 DEF Modes!ServeAdmin, Modes!Saved
    <2> QED BY <1>6, <2>1, <1>a, ModesAnswers DEF Modes!Answer
  <1>7. CASE Modes!ServeAdmin(j) /\ ~UNCHANGED srv
    <2>1. PICK g : /\ Modes!Answer(j, "ok", g)
                   /\ srv' = [srv EXCEPT !.listed = @ \cup {j.a},
                                 !.active = IF j.h = "disable" THEN @ \ {j.a} ELSE @ \cup {j.a}]
                   /\ j.h = "disable" \/ Modes!MayBeActive(j.h, j.a)
      BY <1>7 DEF Modes!ServeAdmin, Modes!Saved
    <2>2. DOMAIN srv' = DOMAIN srv /\ srv'.over = srv.over
          /\ srv'.active = IF j.h = "disable" THEN srv.active \ {j.a} ELSE srv.active \cup {j.a}
      BY <2>1 DEF ModesServer
    <2>3. CASE j.h = "disable"
      <3>1. PICK k, n : k = Cardinality(srv.active) /\ n = Cardinality(srv.active \ {j.a})
        OBVIOUS
      <3>2. IsFiniteSet(srv.active \ {j.a}) /\ k \in Nat /\ n \in Nat /\ n <= k
        BY <3>1, FS_Subset, FS_CardinalityType DEF ModesServer
      <3>3. n <= MaxSecondary
        BY <3>1, <3>2 DEF ModesServer, PagesAssumption, Modes!SettingsAssumption
      <3> QED BY <2>1, <2>2, <2>3, <3>1, <3>2, <3>3, ModesAnswers
             DEF ModesServer, Modes!Answer, Modes!OverrideKeepsModesStep
    <2>4. CASE j.h # "disable"
      <3>1. Modes!MayBeActive("", j.a)
        BY <2>1, <2>4 DEF Modes!MayBeActive
      <3> QED BY <2>1, <2>2, <2>4, <3>1, ModesActive, ModesAnswers
             DEF ModesServer, Modes!Answer, Modes!OverrideKeepsModesStep
    <2> QED BY <2>3, <2>4
  <1>8. CASE Modes!ServeOther(j)
    BY <1>8, <1>a, ModesAnswers DEF Modes!ServeOther, Modes!Saved, Modes!Answer
  <1>9. CASE Modes!ServeFactory(j) /\ UNCHANGED srv
    <2>1. PICK r, g : Modes!Answer(j, r, g)
      BY <1>9 DEF Modes!ServeFactory, Modes!Saved
    <2> QED BY <1>9, <2>1, <1>a, ModesAnswers DEF Modes!Answer
  <1>10. CASE Modes!ServeFactory(j) /\ ~UNCHANGED srv
    <2>1. PICK g : /\ Modes!Answer(j, "ok", g) /\ srv'.active = {} /\ srv'.wiped
                   /\ DOMAIN srv' = {"mode", "self", "cross", "over", "listed", "active", "wiped"}
      BY <1>10 DEF Modes!ServeFactory, Modes!Saved
    <2>2. ModesServer' /\ Modes!OverrideKeepsModesStep
      BY <2>1, FS_EmptySet DEF ModesServer, Modes!OverrideKeepsModesStep, PagesAssumption, Modes!SettingsAssumption
    <2> QED BY <2>1, <2>2, ModesAnswers DEF Modes!Answer
  <1>11. CASE Modes!Fail(j)
    BY <1>11, <1>a, ModesAnswers DEF Modes!Fail
  <1> QED BY <1>1, <1>2, <1>3, <1>4, <1>5, <1>6, <1>7, <1>8, <1>9, <1>10, <1>11

LEMMA ModesSteps == ASSUME PagesAssumption, ModesInv, Modes!Next PROVE ModesInv' /\ Modes!OverrideKeepsModesStep
  BY ModesServes, ModesContinues, ModesSends, ModesClicks, ModesSelects, ModesToggles DEF Modes!Next

LEMMA ModesHolds == ModesInv => Modes!WaitingHasJob /\ Modes!AdminsCapped
  BY ModesCardinality DEF ModesInv, ModesServer, Modes!AdminsCapped

-----------------------------------------------------------------------------
(* The academic calendar page (CalendarDesk) *)

LEMMA DaysSets == \A S : (Days!IsFiniteSet(S) <=> IsFiniteSet(S)) /\ Days!Cardinality(S) = Cardinality(S)
  BY DEF Days!IsFiniteSet, IsFiniteSet, Days!Cardinality, Cardinality

(* Every non-empty set of numbers has a least one. *)
LEMMA LeastOf ==
  ASSUME NEW T, T \subseteq Nat, T # {}
  PROVE  \E x \in T : \A y \in T : x <= y
  <1> DEFINE R == OpToRel(<, Nat)
  <1>1. IsWellFoundedOn(R, Nat)
    BY NatLessThanWellFounded
  <1>2. R = {p \in Nat \X Nat : p[1] < p[2]}
    BY DEF OpToRel
  <1> HIDE DEF R
  <1>3. PICK x \in T : \A y \in T : ~ (<<y, x>> \in R)
    BY <1>1, WFMin
  <1>4. ASSUME NEW y \in T PROVE x <= y
    <2>1. ~ (<<y, x>> \in {p \in Nat \X Nat : p[1] < p[2]})
      BY <1>2, <1>3
    <2> QED BY <2>1
  <1> QED BY <1>4

(* The first of some dates is one of them, and without it there is one less. *)
LEMMA DaysMin ==
  ASSUME PagesAssumption, NEW S, S \subseteq Days!Dates, S # {}
  PROVE  /\ Days!Min(S) \in S
         /\ Cardinality(S) \in Nat /\ Cardinality(S \ {Days!Min(S)}) \in Nat
         /\ Cardinality(S \ {Days!Min(S)}) + 1 = Cardinality(S)
  <1>0. Days!Dates = 1 .. LastDay /\ LastDay \in Nat
    BY DEF Days!Dates, PagesAssumption, Days!CalendarAssumption
  <1>a. IsFiniteSet(Days!Dates)
    BY <1>0, FS_Interval
  <1>b. S \in SUBSET Days!Dates
    OBVIOUS
  <1>c. IsFiniteSet(S)
    BY <1>a, <1>b, FS_Subset
  <1>d. 1 .. LastDay \subseteq Nat
    BY <1>0
  <1>1. S \subseteq Nat /\ IsFiniteSet(S)
    BY <1>0, <1>b, <1>c, <1>d
  <1>2. Days!Min(S) \in S
    BY <1>1, LeastOf DEF Days!Min
  <1>3. PICK m : m = Days!Min(S)
    OBVIOUS
  <1>4. Cardinality(S) \in Nat /\ IsFiniteSet(S \ {m}) /\ Cardinality(S \ {m}) \in Nat
    BY <1>1, FS_CardinalityType, FS_RemoveElement
  <1>5. Cardinality(S \ {m}) = Cardinality(S) - 1
    BY <1>1, <1>2, <1>3, FS_RemoveElement
  <1>6. PICK a, b : a = Cardinality(S) /\ b = Cardinality(S \ {m})
    OBVIOUS
  <1>7. b + 1 = a
    BY <1>4, <1>5, <1>6
  <1> QED BY <1>2, <1>3, <1>4, <1>6, <1>7

DaysPage ==
    /\ DOMAIN pg = {"month", "days", "loading", "marking", "batch", "sel", "weekends", "quick", "saving", "fill",
                    "dialog", "jump", "managing", "years"}
    /\ pg.saving \subseteq {"dialog", "batch", "skip", "bulk", "year"}

(* The one auto-fill there is: what it has done, the day under way and the days left. *)
Filling(j, f) ==
    /\ f # None /\ DOMAIN f = {"done", "total"} /\ f.done \in Nat /\ f.total \in Nat
    /\ DOMAIN j.a = {"d", "left", "m"} /\ j.a.left \subseteq Days!Dates
    /\ f.done + 1 + Cardinality(j.a.left) = f.total

DaysFill ==
    /\ \A j \in jobs : j.h = "fill" => Filling(j, pg.fill)
    /\ \A j, k \in jobs : (j.h = "fill" /\ k.h = "fill") => j = k

DaysInv == JobsShaped /\ DaysPage /\ DaysFill /\ Days!WaitingHasJob

LEMMA DaysStarts == ASSUME Days!Init PROVE DaysInv
  <1>1. DaysPage /\ pg.saving = {} /\ pg.fill = None /\ pg.quick = None
    BY DEF Days!Init, Days!Fresh, DaysPage
  <1>2. (jobs = {} /\ pg.loading = FALSE) \/ \E m : jobs = {Job("load", [m |-> 0]), Job("load", [m |-> m])}
    BY DEF Days!Init, Days!Fresh, Days!Job, Job
  <1>3. JobsShaped /\ DaysFill /\ (pg.loading => InFlight({"load"}))
    <2>1. CASE jobs = {} /\ pg.loading = FALSE
      BY <2>1 DEF JobsShaped, DaysFill
    <2>2. CASE \E m : jobs = {Job("load", [m |-> 0]), Job("load", [m |-> m])}
      <3>1. jobs # {} /\ \A j \in jobs : DOMAIN j = JobFields /\ j.h = "load"
        BY <2>2, NewJob
      <3> QED BY <3>1 DEF JobsShaped, DaysFill, InFlight
    <2> QED BY <1>2, <2>1, <2>2
  <1> QED BY <1>1, <1>3 DEF DaysInv, Days!WaitingHasJob, Days!InFlight, InFlight

DaysHarmless(k) == k.h # "fill"

LEMMA DaysFrame ==
  ASSUME DaysInv, JobsShaped', \A k \in jobs' \ jobs : DaysHarmless(k), pg'.fill = pg.fill, DaysPage',
         Days!WaitingHasJob'
  PROVE  DaysInv'
  <1>1. DaysFill'
    BY DEF DaysInv, DaysFill, DaysHarmless, Filling
  <1> QED BY <1>1 DEF DaysInv

LEMMA DaysContinues ==
  ASSUME DaysInv, NEW j \in jobs,
         \/ Days!OnLoad(j)
         \/ Days!OnQuick(j)
         \/ Days!OnBatch(j)
         \/ Days!OnDialog(j)
         \/ Days!OnPanel(j)
         \/ Days!OnYear(j)
         \/ Days!OnTerms(j)
  PROVE  DaysInv'
  <1> USE DEF DaysInv, DaysPage, Days!Then, Days!Back
  <1>1. CASE Days!OnLoad(j)
    <2>1. JobsShaped' /\ \A k \in jobs' \ jobs : DaysHarmless(k)
      BY <1>1 DEF JobsShaped, JobFields, DaysHarmless, Days!OnLoad
    <2>3. Days!WaitingHasJob'
      BY <1>1 DEF Days!WaitingHasJob, Days!InFlight, JobsShaped, JobFields, Days!OnLoad
    <2>4. pg'.fill = pg.fill /\ DaysPage' 
      BY <1>1 DEF Days!OnLoad
    <2> QED BY <2>1, <2>3, <2>4, DaysFrame
  <1>2. CASE Days!OnQuick(j)
    <2>1. JobsShaped' /\ \A k \in jobs' \ jobs : DaysHarmless(k)
      BY <1>2 DEF JobsShaped, JobFields, DaysHarmless, Days!OnQuick, Days!Reload, Days!Job
    <2>2. j.res = "ok" => Job("load", [m |-> j.a.m]) \in jobs'
      BY <1>2 DEF Days!OnQuick, Days!Job, Job, Days!Reload
    <2>3. Days!WaitingHasJob'
      BY <1>2, <2>2, NewJob DEF Days!WaitingHasJob, Days!InFlight, Days!OnQuick, Days!Reload
    <2>4. pg'.fill = pg.fill /\ DaysPage' 
      BY <1>2 DEF Days!OnQuick, Days!Reload
    <2> QED BY <2>1, <2>3, <2>4, DaysFrame
  <1>3. CASE Days!OnBatch(j)
    <2>1. JobsShaped' /\ \A k \in jobs' \ jobs : DaysHarmless(k)
      BY <1>3 DEF JobsShaped, JobFields, DaysHarmless, Days!OnBatch, Days!Reload, Days!NextOf, Days!Job
    <2>2. /\ (j.res = "ok" /\ j.a.left = {}) => \E x : Job("load", x) \in jobs'
          /\ (j.res = "ok" /\ j.a.left # {}) => \E x : Job("batch", x) \in jobs'
      BY <1>3 DEF Days!OnBatch, Days!Job, Job, Days!Reload, Days!NextOf
    <2>3. Days!WaitingHasJob'
      BY <1>3, <2>2, NewJob DEF Days!WaitingHasJob, Days!InFlight, Days!OnBatch, Days!Reload, Days!NextOf
    <2>4. pg'.fill = pg.fill /\ DaysPage' 
      BY <1>3 DEF Days!OnBatch, Days!Reload, Days!NextOf
    <2> QED BY <2>1, <2>3, <2>4, DaysFrame
  <1>4. CASE Days!OnDialog(j)
    <2>1. JobsShaped' /\ \A k \in jobs' \ jobs : DaysHarmless(k)
      BY <1>4 DEF JobsShaped, JobFields, DaysHarmless, Days!OnDialog, Days!Reload, Days!Job
    <2>2. j.res = "ok" => Job("load", [m |-> j.a.m]) \in jobs'
      BY <1>4 DEF Days!OnDialog, Days!Job, Job, Days!Reload
    <2>3. Days!WaitingHasJob'
      BY <1>4, <2>2, NewJob DEF Days!WaitingHasJob, Days!InFlight, Days!OnDialog, Days!Reload
    <2>4. pg'.fill = pg.fill /\ DaysPage' 
      BY <1>4 DEF Days!OnDialog, Days!Reload
    <2> QED BY <2>1, <2>3, <2>4, DaysFrame
  <1>5. CASE Days!OnPanel(j)
    <2>1. JobsShaped' /\ \A k \in jobs' \ jobs : DaysHarmless(k)
      BY <1>5 DEF JobsShaped, JobFields, DaysHarmless, Days!OnPanel, Days!Reload, Days!Job
    <2>2. j.res = "ok" => Job("load", [m |-> j.a.m]) \in jobs'
      BY <1>5 DEF Days!OnPanel, Days!Job, Job, Days!Reload
    <2>a. /\ jobs \ {j} \subseteq jobs' /\ j.h \in {"skip", "bulk"} /\ pg'.saving = pg.saving \ {j.h}
          /\ pg'.quick = pg.quick /\ pg'.fill = pg.fill /\ (pg'.loading => pg.loading \/ j.res = "ok")
      BY <1>5 DEF Days!OnPanel
    <2>b. \A H : (Days!InFlight(H) /\ j.h \notin H) => Days!InFlight(H)'
      BY <2>a DEF Days!InFlight
    <2>c. j.res = "ok" => Days!InFlight({"load"})'
      BY <2>2, NewJob DEF Days!InFlight
    <2>3. Days!WaitingHasJob'
      BY <2>a, <2>b, <2>c DEF Days!WaitingHasJob
    <2>4. pg'.fill = pg.fill /\ DaysPage' 
      BY <1>5 DEF Days!OnPanel, Days!Reload
    <2> QED BY <2>1, <2>3, <2>4, DaysFrame
  <1>6. CASE Days!OnYear(j)
    <2>1. JobsShaped' /\ \A k \in jobs' \ jobs : DaysHarmless(k)
      BY <1>6 DEF JobsShaped, JobFields, DaysHarmless, Days!OnYear, Days!Job
    <2>2. j.res = "ok" => Job("years", [all |-> TRUE]) \in jobs'
      BY <1>6 DEF Days!OnYear, Days!Job, Job
    <2>3. Days!WaitingHasJob'
      BY <1>6, <2>2, NewJob DEF Days!WaitingHasJob, Days!InFlight, Days!OnYear
    <2>4. pg'.fill = pg.fill /\ DaysPage' 
      BY <1>6 DEF Days!OnYear
    <2> QED BY <2>1, <2>3, <2>4, DaysFrame
  <1>7. CASE Days!OnTerms(j)
    <2>1. JobsShaped' /\ \A k \in jobs' \ jobs : DaysHarmless(k)
      BY <1>7 DEF JobsShaped, JobFields, DaysHarmless, Days!OnTerms
    <2>3. Days!WaitingHasJob'
      BY <1>7 DEF Days!WaitingHasJob, Days!InFlight, JobsShaped, JobFields, Days!OnTerms
    <2>4. pg'.fill = pg.fill /\ DaysPage' 
      BY <1>7 DEF Days!OnTerms
    <2> QED BY <2>1, <2>3, <2>4, DaysFrame
  <1> QED BY <1>1, <1>2, <1>3, <1>4, <1>5, <1>6, <1>7

LEMMA DaysCalls ==
  ASSUME JobsShaped, NEW h, NEW a, Days!Start(h, a)
  PROVE  /\ JobsShaped'
         /\ \A k \in jobs' \ jobs : k = Job(h, a)
         /\ \A H : Days!InFlight(H) \/ h \in H => Days!InFlight(H)'
  <1>1. jobs' = jobs \cup {Job(h, a)}
    BY DEF Days!Start, Days!Job, Job
  <1>2. DOMAIN Job(h, a) = JobFields /\ Job(h, a).h = h
    BY NewJob
  <1> QED BY <1>1, <1>2, Started DEF Days!InFlight, InFlight

LEMMA DaysSends ==
  ASSUME DaysInv,
         \/ \E m \in Days!Months : Days!Turn(m)
         \/ \E m \in Days!Months : Days!PickMonth(m)
         \/ \E d \in Days!Dates : Days!QuickMark(d)
         \/ Days!CommitBatch
         \/ \E kind \in {"working", "pinned", "leave"} : Days!SaveDay(kind)
         \/ Days!DeleteDay
         \/ Days!ClearOverride
         \/ \E d \in Days!Dates : Days!SkipReassign(d)
         \/ \E from \in Nat, to \in Nat : Days!BulkMark(from, to)
         \/ \E t \in Terms : Days!CreateYear(t)
         \/ \E t \in Terms : Days!CreateSemester(t)
  PROVE  DaysInv'
  <1> USE DEF DaysInv, DaysPage
  <1>1. CASE \E m \in Days!Months : Days!Turn(m)
    <2>0. PICK m \in Days!Months : Days!Turn(m)
      BY <1>1
    <2>1. PICK a : Days!Start("load", a) 
      BY <2>0 DEF Days!Turn, Days!GoTo
    <2>2. JobsShaped' /\ \A k \in jobs' \ jobs : DaysHarmless(k)
      BY <2>1, DaysCalls, NewJob DEF DaysHarmless
    <2>3. \A H : Days!InFlight(H) \/ "load" \in H => Days!InFlight(H)'
      BY <2>1, DaysCalls
    <2>4. pg'.fill = pg.fill /\ DaysPage' /\ Days!WaitingHasJob'
      BY <2>0, <2>3 DEF Days!Turn, Days!GoTo, Days!WaitingHasJob
    <2> QED BY <2>1, <2>2, <2>4, DaysFrame
  <1>2. CASE \E m \in Days!Months : Days!PickMonth(m)
    <2>0. PICK m \in Days!Months : Days!PickMonth(m)
      BY <1>2
    <2>1. PICK a : Days!Start("load", a) 
      BY <2>0 DEF Days!PickMonth, Days!GoTo
    <2>2. JobsShaped' /\ \A k \in jobs' \ jobs : DaysHarmless(k)
      BY <2>1, DaysCalls, NewJob DEF DaysHarmless
    <2>3. \A H : Days!InFlight(H) \/ "load" \in H => Days!InFlight(H)'
      BY <2>1, DaysCalls
    <2>4. pg'.fill = pg.fill /\ DaysPage' /\ Days!WaitingHasJob'
      BY <2>0, <2>3 DEF Days!PickMonth, Days!GoTo, Days!WaitingHasJob
    <2> QED BY <2>1, <2>2, <2>4, DaysFrame
  <1>3. CASE \E d \in Days!Dates : Days!QuickMark(d)
    <2>0. PICK d \in Days!Dates : Days!QuickMark(d)
      BY <1>3
    <2>1. PICK a : Days!Start("quick", a) 
      BY <2>0 DEF Days!QuickMark
    <2>2. JobsShaped' /\ \A k \in jobs' \ jobs : DaysHarmless(k)
      BY <2>1, DaysCalls, NewJob DEF DaysHarmless
    <2>3. \A H : Days!InFlight(H) \/ "quick" \in H => Days!InFlight(H)'
      BY <2>1, DaysCalls
    <2>4. pg'.fill = pg.fill /\ DaysPage' /\ Days!WaitingHasJob'
      BY <2>0, <2>3 DEF Days!QuickMark, Days!WaitingHasJob
    <2> QED BY <2>1, <2>2, <2>4, DaysFrame
  <1>4. CASE Days!CommitBatch
    <2>1. PICK a : Days!Start("batch", a) 
      BY <1>4 DEF Days!CommitBatch
    <2>2. JobsShaped' /\ \A k \in jobs' \ jobs : DaysHarmless(k)
      BY <2>1, DaysCalls, NewJob DEF DaysHarmless
    <2>3. \A H : Days!InFlight(H) \/ "batch" \in H => Days!InFlight(H)'
      BY <2>1, DaysCalls
    <2>4. pg'.fill = pg.fill /\ DaysPage' /\ Days!WaitingHasJob'
      BY <1>4, <2>3 DEF Days!CommitBatch, Days!WaitingHasJob
    <2> QED BY <2>1, <2>2, <2>4, DaysFrame
  <1>5. CASE \E kind \in {"working", "pinned", "leave"} : Days!SaveDay(kind)
    <2>0. PICK kind \in {"working", "pinned", "leave"} : Days!SaveDay(kind)
      BY <1>5
    <2>1. PICK a : Days!Start("save", a) 
      BY <2>0 DEF Days!SaveDay, Days!DialogCall
    <2>2. JobsShaped' /\ \A k \in jobs' \ jobs : DaysHarmless(k)
      BY <2>1, DaysCalls, NewJob DEF DaysHarmless
    <2>3. \A H : Days!InFlight(H) \/ "save" \in H => Days!InFlight(H)'
      BY <2>1, DaysCalls
    <2>4. pg'.fill = pg.fill /\ DaysPage' /\ Days!WaitingHasJob'
      BY <2>0, <2>3 DEF Days!SaveDay, Days!DialogCall, Days!WaitingHasJob
    <2> QED BY <2>1, <2>2, <2>4, DaysFrame
  <1>6. CASE Days!DeleteDay
    <2>1. PICK a : Days!Start("delete", a) 
      BY <1>6 DEF Days!DeleteDay, Days!DialogCall
    <2>2. JobsShaped' /\ \A k \in jobs' \ jobs : DaysHarmless(k)
      BY <2>1, DaysCalls, NewJob DEF DaysHarmless
    <2>3. \A H : Days!InFlight(H) \/ "delete" \in H => Days!InFlight(H)'
      BY <2>1, DaysCalls
    <2>4. pg'.fill = pg.fill /\ DaysPage' /\ Days!WaitingHasJob'
      BY <1>6, <2>3 DEF Days!DeleteDay, Days!DialogCall, Days!WaitingHasJob
    <2> QED BY <2>1, <2>2, <2>4, DaysFrame
  <1>7. CASE Days!ClearOverride
    <2>1. PICK a : Days!Start("clear", a) 
      BY <1>7 DEF Days!ClearOverride, Days!DialogCall
    <2>2. JobsShaped' /\ \A k \in jobs' \ jobs : DaysHarmless(k)
      BY <2>1, DaysCalls, NewJob DEF DaysHarmless
    <2>3. \A H : Days!InFlight(H) \/ "clear" \in H => Days!InFlight(H)'
      BY <2>1, DaysCalls
    <2>4. pg'.fill = pg.fill /\ DaysPage' /\ Days!WaitingHasJob'
      BY <1>7, <2>3 DEF Days!ClearOverride, Days!DialogCall, Days!WaitingHasJob
    <2> QED BY <2>1, <2>2, <2>4, DaysFrame
  <1>8. CASE \E d \in Days!Dates : Days!SkipReassign(d)
    <2>0. PICK d \in Days!Dates : Days!SkipReassign(d)
      BY <1>8
    <2>1. PICK a : Days!Start("skip", a) 
      BY <2>0 DEF Days!SkipReassign, Days!PanelCall
    <2>2. JobsShaped' /\ \A k \in jobs' \ jobs : DaysHarmless(k)
      BY <2>1, DaysCalls, NewJob DEF DaysHarmless
    <2>3. \A H : Days!InFlight(H) \/ "skip" \in H => Days!InFlight(H)'
      BY <2>1, DaysCalls
    <2>4. pg'.fill = pg.fill /\ DaysPage' /\ Days!WaitingHasJob'
      BY <2>0, <2>3 DEF Days!SkipReassign, Days!PanelCall, Days!WaitingHasJob
    <2> QED BY <2>1, <2>2, <2>4, DaysFrame
  <1>9. CASE \E from \in Nat, to \in Nat : Days!BulkMark(from, to)
    <2>0. PICK from \in Nat, to \in Nat : Days!BulkMark(from, to)
      BY <1>9
    <2>1. PICK a : Days!Start("bulk", a) 
      BY <2>0 DEF Days!BulkMark, Days!PanelCall
    <2>2. JobsShaped' /\ \A k \in jobs' \ jobs : DaysHarmless(k)
      BY <2>1, DaysCalls, NewJob DEF DaysHarmless
    <2>3. \A H : Days!InFlight(H) \/ "bulk" \in H => Days!InFlight(H)'
      BY <2>1, DaysCalls
    <2>4. pg'.fill = pg.fill /\ DaysPage' /\ Days!WaitingHasJob'
      BY <2>0, <2>3 DEF Days!BulkMark, Days!PanelCall, Days!WaitingHasJob
    <2> QED BY <2>1, <2>2, <2>4, DaysFrame
  <1>10. CASE \E t \in Terms : Days!CreateYear(t)
    <2>0. PICK t \in Terms : Days!CreateYear(t)
      BY <1>10
    <2>1. PICK a : Days!Start("year", a) 
      BY <2>0 DEF Days!CreateYear, Days!PanelCall
    <2>2. JobsShaped' /\ \A k \in jobs' \ jobs : DaysHarmless(k)
      BY <2>1, DaysCalls, NewJob DEF DaysHarmless
    <2>3. \A H : Days!InFlight(H) \/ "year" \in H => Days!InFlight(H)'
      BY <2>1, DaysCalls
    <2>4. pg'.fill = pg.fill /\ DaysPage' /\ Days!WaitingHasJob'
      BY <2>0, <2>3 DEF Days!CreateYear, Days!PanelCall, Days!WaitingHasJob
    <2> QED BY <2>1, <2>2, <2>4, DaysFrame
  <1>11. CASE \E t \in Terms : Days!CreateSemester(t)
    <2>0. PICK t \in Terms : Days!CreateSemester(t)
      BY <1>11
    <2>1. PICK a : Days!Start("semester", a) 
      BY <2>0 DEF Days!CreateSemester
    <2>2. JobsShaped' /\ \A k \in jobs' \ jobs : DaysHarmless(k)
      BY <2>1, DaysCalls, NewJob DEF DaysHarmless
    <2>3. \A H : Days!InFlight(H) \/ "semester" \in H => Days!InFlight(H)'
      BY <2>1, DaysCalls
    <2>4. pg'.fill = pg.fill /\ DaysPage' /\ Days!WaitingHasJob'
      BY <2>0, <2>3 DEF Days!CreateSemester, Days!WaitingHasJob
    <2> QED BY <2>1, <2>2, <2>4, DaysFrame
  <1> QED BY <1>1, <1>2, <1>3, <1>4, <1>5, <1>6, <1>7, <1>8, <1>9, <1>10, <1>11

LEMMA DaysClicks ==
  ASSUME DaysInv,
         \/ Days!ChangePanel
         \/ Days!IncludeWeekends
         \/ \E d \in Days!Dates : Days!Select(d)
         \/ \E d \in Days!Dates : Days!OpenDay(d)
         \/ Days!CloseDialog
         \/ Days!Manage
         \/ Days!CloseYears
  PROVE  DaysInv'
  <1> USE DEF DaysInv, DaysPage
  <1>a. UNCHANGED <<srv, jobs>> /\ pg'.saving = pg.saving /\ pg'.loading = pg.loading /\ pg'.quick = pg.quick /\ pg'.fill = pg.fill
    BY DEF Days!Click, Days!Local, Days!ChangePanel, Days!IncludeWeekends, Days!Select, Days!OpenDay, Days!CloseDialog, Days!Manage, Days!CloseYears
  <1>b. JobsShaped' /\ (\A k \in jobs' \ jobs : DaysHarmless(k)) /\ Days!WaitingHasJob'
    BY <1>a DEF JobsShaped, Days!WaitingHasJob, Days!InFlight
  <1>c. pg'.fill = pg.fill /\ DaysPage' => DaysInv'
    BY <1>a, <1>b, DaysFrame
  <1>1. CASE Days!ChangePanel
    BY <1>1, <1>a, <1>c DEF Days!ChangePanel
  <1>2. CASE Days!IncludeWeekends
    BY <1>2, <1>a, <1>c DEF Days!IncludeWeekends
  <1>3. CASE \E d \in Days!Dates : Days!Select(d)
    BY <1>3, <1>a, <1>c DEF Days!Select
  <1>4. CASE \E d \in Days!Dates : Days!OpenDay(d)
    BY <1>4, <1>a, <1>c DEF Days!OpenDay
  <1>5. CASE Days!CloseDialog
    BY <1>5, <1>a, <1>c DEF Days!CloseDialog
  <1>6. CASE Days!Manage
    BY <1>6, <1>a, <1>c DEF Days!Manage
  <1>7. CASE Days!CloseYears
    BY <1>7, <1>a, <1>c DEF Days!CloseYears
  <1> QED BY <1>1, <1>2, <1>3, <1>4, <1>5, <1>6, <1>7

(* Auto-fill starts with the first of the days without an entry ... *)
LEMMA DaysFillStarts ==
  ASSUME PagesAssumption, DaysInv, Days!AutoFill
  PROVE  DaysInv'
  <1> USE DEF DaysInv, DaysPage
  <1>1. PICK S, d, f : /\ S = Days!UnsetDates /\ S # {} /\ d = Days!Min(S)
                       /\ f = [done |-> 0, total |-> Cardinality(S)]
                       /\ pg.fill = None /\ Days!Start("fill", [d |-> d, left |-> S \ {d}, m |-> pg.month])
                       /\ pg' = [pg EXCEPT !.fill = f]
    BY DaysSets DEF Days!AutoFill
  <1>2. S \subseteq Days!Dates
    BY <1>1 DEF Days!UnsetDates
  <1>3. Cardinality(S) \in Nat /\ Cardinality(S \ {d}) + 1 = Cardinality(S) /\ Cardinality(S \ {d}) \in Nat
    BY <1>1, <1>2, DaysMin
  <1>4. PICK a, b : a = Cardinality(S) /\ b = Cardinality(S \ {d})
    OBVIOUS
  <1>5. a \in Nat /\ b \in Nat /\ 0 + 1 + b = a
    BY <1>3, <1>4
  <1>6. f # None
    BY <1>1, <1>4, <1>5 DEF PagesAssumption, Days!CalendarAssumption
  <1>7. PICK k : k = Job("fill", [d |-> d, left |-> S \ {d}, m |-> pg.month])
    OBVIOUS
  <1>8. jobs' = jobs \cup {k} /\ k.h = "fill" /\ k.a = [d |-> d, left |-> S \ {d}, m |-> pg.month]
    BY <1>1, <1>7, NewJob DEF Days!Start, Days!Job, Job
  <1>9. Filling(k, f)
    BY <1>1, <1>2, <1>4, <1>5, <1>6, <1>8 DEF Filling
  <1>10. \A j \in jobs : j.h # "fill"
    BY <1>1 DEF DaysFill, Filling
  <1>11. DaysFill'
    BY <1>1, <1>8, <1>9, <1>10 DEF DaysFill
  <1>12. JobsShaped' /\ \A H : Days!InFlight(H) \/ "fill" \in H => Days!InFlight(H)'
    BY <1>1, DaysCalls
  <1>13. DaysPage' /\ Days!WaitingHasJob'
    BY <1>1, <1>12 DEF Days!WaitingHasJob
  <1> QED BY <1>11, <1>12, <1>13

(* ... and goes on with the first of those left, until one fails or none is left. *)
LEMMA DaysFillGoesOn ==
  ASSUME PagesAssumption, DaysInv, NEW j \in jobs, Days!OnFill(j)
  PROVE  DaysInv'
  <1> USE DEF DaysInv, DaysPage
  <1>1. j.h = "fill" /\ Filling(j, pg.fill) /\ \A k \in jobs : k.h = "fill" => k = j
    BY DEF Days!OnFill, Days!Back, DaysFill
  <1>2. CASE j.res = "ok" /\ j.a.left # {}
    <2>1. PICK d, k : /\ d = Days!Min(j.a.left) /\ k = Job("fill", [j.a EXCEPT !.d = d, !.left = @ \ {d}])
                      /\ jobs' = (jobs \ {j}) \cup {k} /\ pg' = [pg EXCEPT !.fill.done = @ + 1]
      BY <1>1, <1>2 DEF Days!OnFill, Days!Then, Days!NextOf, Days!Job, Job
    <2>a. PICK a : a = [j.a EXCEPT !.d = d, !.left = @ \ {d}]
      OBVIOUS
    <2>b. DOMAIN a = {"d", "left", "m"} /\ a.left = j.a.left \ {d}
      BY <1>1, <2>a DEF Filling
    <2>c. k = Job("fill", a)
      BY <2>1, <2>a
    <2>2. DOMAIN k = JobFields /\ k.h = "fill" /\ DOMAIN k.a = {"d", "left", "m"} /\ k.a.left = j.a.left \ {d}
      BY <2>b, <2>c, NewJob
    <2>3. /\ Cardinality(j.a.left) \in Nat /\ Cardinality(j.a.left \ {d}) + 1 = Cardinality(j.a.left)
          /\ Cardinality(j.a.left \ {d}) \in Nat
      BY <1>1, <1>2, <2>1, DaysMin DEF Filling
    <2>4. PICK n, b, f : n = Cardinality(j.a.left) /\ b = Cardinality(j.a.left \ {d}) /\ f = pg.fill
      OBVIOUS
    <2>5. /\ n \in Nat /\ b \in Nat /\ b + 1 = n /\ f.done \in Nat /\ f.total \in Nat /\ f.done + 1 + n = f.total
          /\ DOMAIN f = {"done", "total"}
      BY <1>1, <2>3, <2>4 DEF Filling
    <2>6. pg'.fill = [f EXCEPT !.done = @ + 1]
      BY <2>1, <2>4
    <2>7. /\ DOMAIN pg'.fill = {"done", "total"} /\ pg'.fill.done = f.done + 1 /\ pg'.fill.total = f.total
          /\ pg'.fill \in [done : Nat, total : Nat]
      BY <2>5, <2>6
    <2>8. Filling(k, pg'.fill)
      <3>1. pg'.fill # None
        BY <2>7 DEF PagesAssumption, Days!CalendarAssumption
      <3>2. k.a.left \subseteq Days!Dates
        BY <1>1, <2>2 DEF Filling
      <3>3. pg'.fill.done + 1 + Cardinality(k.a.left) = pg'.fill.total
        BY <2>2, <2>4, <2>5, <2>7
      <3> QED BY <2>2, <2>5, <2>7, <3>1, <3>2, <3>3 DEF Filling
    <2>9. DaysFill' /\ JobsShaped'
      BY <1>1, <2>1, <2>2, <2>8 DEF DaysFill, JobsShaped
    <2>10. DaysPage' /\ Days!WaitingHasJob'
      BY <1>1, <2>1, <2>2 DEF Days!WaitingHasJob, Days!InFlight
    <2> QED BY <2>9, <2>10
  <1>3. CASE ~(j.res = "ok" /\ j.a.left # {})
    <2>1. PICK k : /\ k = Job("load", [m |-> j.a.m]) /\ jobs' = (jobs \ {j}) \cup {k}
                   /\ pg' = [pg EXCEPT !.fill = None, !.loading = TRUE]
      BY <1>3 DEF Days!OnFill, Days!Then, Days!Reload, Days!Job, Job
    <2>2. DOMAIN k = JobFields /\ k.h = "load"
      BY <2>1, NewJob
    <2>3. DaysFill' /\ JobsShaped'
      BY <1>1, <2>1, <2>2 DEF DaysFill, JobsShaped
    <2>4. DaysPage' /\ Days!WaitingHasJob'
      BY <1>1, <2>1, <2>2 DEF Days!WaitingHasJob, Days!InFlight
    <2> QED BY <2>3, <2>4
  <1> QED BY <1>2, <1>3

LEMMA DaysServes ==
  ASSUME DaysInv, NEW j \in jobs,
         \/ Days!ServeRead(j) \/ Days!ServeMark(j) \/ Days!ServeRelease(j) \/ Days!ServeSkip(j)
         \/ Days!ServeBulk(j) \/ Days!ServeTerm(j) \/ Days!Fail(j)
  PROVE  DaysInv'
  <1> USE DEF DaysInv
  <1>1. UNCHANGED pg /\ \E r, g : jobs' = (jobs \ {j}) \cup {[j EXCEPT !.res = r, !.got = g]}
    BY DEF Days!ServeRead, Days!ServeMark, Days!ServeRelease, Days!ServeSkip, Days!ServeBulk, Days!ServeTerm,
           Days!Fail, Days!Marked, Days!Refused, Days!Answer
  <1>2. PICK r, g : jobs' = (jobs \ {j}) \cup {[j EXCEPT !.res = r, !.got = g]}
    BY <1>1
  <1>3. PICK k : k = [j EXCEPT !.res = r, !.got = g]
    OBVIOUS
  <1>4. jobs' = (jobs \ {j}) \cup {k} /\ k.h = j.h /\ k.a = j.a
    BY <1>2, <1>3 DEF JobsShaped, JobFields
  <1>5. JobsShaped' /\ \A H : InFlight(H) => InFlight(H)'
    BY <1>2, AnsweredWith
  <1>6. Days!WaitingHasJob' /\ DaysPage'
    BY <1>1, <1>5 DEF Days!WaitingHasJob, Days!InFlight, InFlight, DaysPage
  <1>7. DaysFill'
    BY <1>1, <1>4 DEF DaysFill, Filling
  <1> QED BY <1>5, <1>6, <1>7

LEMMA DaysSteps == ASSUME PagesAssumption, DaysInv, Days!Next PROVE DaysInv'
  <1>1. \A to \in Days!Dates : to \in Nat /\ \A from \in 1 .. to : from \in Nat
    BY DEF Days!Dates
  <1> QED BY <1>1, DaysServes, DaysContinues, DaysSends, DaysClicks, DaysFillStarts, DaysFillGoesOn DEF Days!Next

LEMMA DaysHolds == DaysInv => Days!WaitingHasJob /\ Days!FillAddsUp
  BY DaysSets DEF DaysInv, DaysFill, Filling, Days!FillAddsUp, Days!WaitingHasJob, Days!InFlight

-----------------------------------------------------------------------------
(* The backup page (BackupDesk) *)

LEMMA SavesSets == \A S : (Saves!IsFiniteSet(S) <=> IsFiniteSet(S)) /\ Saves!Cardinality(S) = Cardinality(S)
  BY DEF Saves!IsFiniteSet, IsFiniteSet, Saves!Cardinality, Cardinality

(* The three calls of a fetch are all there. *)
Full(a) == \A h \in Saves!Reads : \E j \in jobs : j.h = h /\ j.a = a

SavesPage ==
    DOMAIN pg = {"list", "count", "schedule", "loading", "creating", "importing", "validating", "restore",
                 "restoring", "delete", "deleting", "saving", "running"}

(* A fetch is told by the click it is from, and has one call of each kind. *)
SavesReads ==
    /\ clicks \in Nat
    /\ \A j \in jobs :
          j.h \in Saves!Reads =>
              /\ DOMAIN j.a = {"n", "after"} /\ j.a.n \in Nat /\ j.a.n <= clicks
              /\ (j.a.after # "restore" \/ InFlight({"restore"})) => j.a.n < clicks
    /\ \A j, k \in jobs : (j.h \in Saves!Reads /\ k.h = j.h /\ k.a = j.a) => j = k

(* One restore at a time is under way or being read after; restoring says that it is. *)
SavesRestore ==
    /\ \A j \in jobs : j.h = "restore" => pg.restoring /\ pg.restore = j.a.id /\ j.a.id # None
    /\ \A j, k \in jobs : (j.h = "restore" /\ k.h = "restore") => j = k
    /\ \A a : (Full(a) /\ a.after = "restore") => pg.restoring /\ ~InFlight({"restore"})
    /\ \A a, b : (Full(a) /\ Full(b) /\ a.after = "restore" /\ b.after = "restore") => a = b
    /\ pg.restoring => InFlight({"restore"}) \/ \E a : Full(a) /\ a.after = "restore"

SavesLoads == pg.loading => \E a : Full(a)

SavesTasks ==
    /\ pg.creating => Saves!InFlight({"create"})
    /\ pg.importing => Saves!InFlight({"import"})
    /\ \A id \in pg.validating : \E j \in jobs : j.h = "validate" /\ j.a.id = id
    /\ pg.deleting => Saves!InFlight({"delete"})
    /\ pg.saving => Saves!InFlight({"reschedule"})
    /\ pg.running => Saves!InFlight({"runAuto", "rescheduled"})

SavesInv == JobsShaped /\ SavesPage /\ SavesReads /\ SavesRestore /\ SavesLoads /\ SavesTasks

(* A fetch that is complete is of three calls, one that is not of fewer. *)
LEMMA SavesCount ==
  ASSUME SavesReads, NEW a
  PROVE  /\ Full(a) => Saves!Cardinality(Saves!Fetched(a)) = 3
         /\ ~Full(a) => Saves!Cardinality(Saves!Fetched(a)) # 3 /\ Saves!Cardinality(Saves!Fetched(a)) < 3
  <1>1. PICK F : F = Saves!Fetched(a)
    OBVIOUS
  <1>2. /\ F = {j \in jobs : j.h \in {"list", "summary", "schedule"} /\ j.a = a}
        /\ \A j, k \in F : j.h = k.h => j = k
    BY <1>1 DEF Saves!Fetched, Saves!Reads, SavesReads
  <1>3. CASE Full(a)
    <2>1. PICK x, y, z : /\ x \in jobs /\ x.h = "list" /\ x.a = a
                         /\ y \in jobs /\ y.h = "summary" /\ y.a = a
                         /\ z \in jobs /\ z.h = "schedule" /\ z.a = a
      BY <1>3 DEF Full, Saves!Reads
    <2>2. F = {x} \cup {y} \cup {z} /\ x # y /\ z \notin {x} \cup {y} /\ y \notin {x}
      BY <1>2, <2>1
    <2>3. IsFiniteSet({x}) /\ Cardinality({x}) = 1
      BY FS_Singleton
    <2>4. IsFiniteSet({x} \cup {y}) /\ Cardinality({x} \cup {y}) = 1 + 1
      BY <2>2, <2>3, FS_AddElement
    <2>5. Cardinality({x} \cup {y} \cup {z}) = 1 + 1 + 1
      BY <2>2, <2>4, FS_AddElement
    <2>6. Cardinality(F) = 3
      BY <2>2, <2>5
    <2> QED BY <1>1, <1>3, <2>6, SavesSets
  <1>4. CASE ~Full(a)
    <2>1. PICK g \in {"list", "summary", "schedule"} : \A j \in F : j.h # g
      BY <1>2, <1>4 DEF Full, Saves!Reads
    <2>2. PICK p, q : \A j \in F : j.h = p \/ j.h = q
      <3>1. CASE g = "list"
        BY <1>2, <2>1, <3>1
      <3>2. CASE g = "summary"
        BY <1>2, <2>1, <3>2
      <3>3. CASE g = "schedule"
        BY <1>2, <2>1, <3>3
      <3> QED BY <2>1, <3>1, <3>2, <3>3
    <2>3. PICK x, y : F \subseteq {x} \cup {y}
      <3>1. CASE F = {}
        BY <3>1
      <3>2. CASE F # {}
        <4>1. PICK x \in F : TRUE
          BY <3>2
        <4>2. CASE \A j \in F : j = x
          BY <4>2
        <4>3. CASE \E j \in F : j # x
          <5>1. PICK y \in F : y # x
            BY <4>3
          <5>2. \A j \in F : j = x \/ j = y
            BY <1>2, <2>2, <4>1, <5>1
          <5> QED BY <5>2
        <4> QED BY <4>2, <4>3
      <3> QED BY <3>1, <3>2
    <2>4. IsFiniteSet({x}) /\ Cardinality({x}) = 1
      BY FS_Singleton
    <2>5. PICK S : S = {x} \cup {y}
      OBVIOUS
    <2>6. IsFiniteSet(S) /\ (Cardinality(S) = 1 \/ Cardinality(S) = 1 + 1)
      BY <2>4, <2>5, FS_AddElement
    <2>7. F \in SUBSET S
      BY <2>3, <2>5
    <2>8. IsFiniteSet(F) /\ Cardinality(F) <= Cardinality(S)
      BY <2>6, <2>7, FS_Subset
    <2>9. Cardinality(F) \in Nat
      BY <2>8, FS_CardinalityType
    <2>10. PICK m, n : m = Cardinality(F) /\ n = Cardinality(S)
      OBVIOUS
    <2>11. m \in Nat /\ (n = 1 \/ n = 2) /\ m <= n
      BY <2>6, <2>8, <2>9, <2>10
    <2>12. m # 3 /\ m < 3
      BY <2>11
    <2> QED BY <1>1, <1>4, <2>10, <2>12, SavesSets
  <1> QED BY <1>3, <1>4

(* The calls of a fetch that starts: one of each kind. *)
LEMMA SavesFetch ==
  ASSUME NEW n, NEW after
  PROVE  /\ \A k \in Saves!Fetch(n, after) :
               DOMAIN k = JobFields /\ k.h \in Saves!Reads /\ k.a = [n |-> n, after |-> after]
         /\ \A h \in Saves!Reads : \E k \in Saves!Fetch(n, after) : k.h = h
         /\ \A j, k \in Saves!Fetch(n, after) : j.h = k.h => j = k
  <1>1. Saves!Fetch(n, after) = {Job(h, [n |-> n, after |-> after]) : h \in Saves!Reads}
    BY DEF Saves!Fetch, Saves!Job, Job
  <1> QED BY <1>1, NewJob

(* A new fetch is complete and leaves the others as they were. *)
LEMMA SavesNewFetch ==
  ASSUME SavesInv, NEW D, \A d \in D : d.h \notin Saves!Reads, NEW after, NEW a, a = [n |-> clicks, after |-> after],
         jobs' = (jobs \ D) \cup Saves!Fetch(clicks, after),
         after # "restore" \/ InFlight({"restore"})
  PROVE  /\ JobsShaped' /\ Full(a)' /\ \A b : b # a => (Full(b) <=> Full(b)')
         /\ ~Full(a)
         /\ \A j, k \in jobs' : (j.h \in Saves!Reads /\ k.h = j.h /\ k.a = j.a) => j = k
  <1>1. PICK F : F = Saves!Fetch(clicks, after)
    OBVIOUS
  <1>2. /\ \A k \in F : DOMAIN k = JobFields /\ k.h \in Saves!Reads /\ k.a = a
        /\ \A h \in Saves!Reads : \E k \in F : k.h = h
        /\ \A j, k \in F : j.h = k.h => j = k
        /\ jobs' = (jobs \ D) \cup F
    BY <1>1, SavesFetch
  <1>3. a.n = clicks /\ a.after = after
    OBVIOUS
  <1>4. \A j \in jobs : j.h \in Saves!Reads => j.a # a
    BY <1>3 DEF SavesInv, SavesReads
  <1>5. JobsShaped'
    BY <1>2 DEF SavesInv, JobsShaped
  <1>6. Full(a)' /\ ~Full(a)
    BY <1>2, <1>4 DEF Full, Saves!Reads
  <1>7. \A b : b # a => (Full(b) <=> Full(b)')
    BY <1>2 DEF Full
  <1>8. \A j, k \in jobs : (j.h \in Saves!Reads /\ k.h = j.h /\ k.a = j.a) => j = k
    BY DEF SavesInv, SavesReads
  <1>9. \A j, k \in jobs' : (j.h \in Saves!Reads /\ k.h = j.h /\ k.a = j.a) => j = k
    BY <1>2, <1>4, <1>8
  <1> QED BY <1>5, <1>6, <1>7, <1>9

LEMMA SavesStarts == ASSUME Saves!Init PROVE SavesInv
  <1>1. PICK F : F = Saves!Fetch(0, "open")
    OBVIOUS
  <1>2. jobs = F /\ clicks = 1
    BY <1>1 DEF Saves!Init
  <1>3. /\ SavesPage /\ pg.restoring = FALSE /\ pg.creating = FALSE /\ pg.importing = FALSE /\ pg.validating = {}
        /\ pg.deleting = FALSE /\ pg.saving = FALSE /\ pg.running = FALSE
    BY DEF Saves!Init, SavesPage
  <1>4. PICK a : a = [n |-> 0, after |-> "open"]
    OBVIOUS
  <1>5. a.after = "open" /\ a.n = 0 /\ DOMAIN a = {"n", "after"}
    BY <1>4
  <1>6. /\ \A k \in F : DOMAIN k = JobFields /\ k.h \in Saves!Reads /\ k.a = a
        /\ \A h \in Saves!Reads : \E k \in F : k.h = h
        /\ \A j, k \in F : j.h = k.h => j = k
    BY <1>1, <1>4, SavesFetch
  <1>7. JobsShaped /\ SavesReads
    BY <1>2, <1>5, <1>6 DEF JobsShaped, SavesReads
  <1>8. Full(a) /\ \A b : Full(b) => b = a
    BY <1>2, <1>6 DEF Full, Saves!Reads
  <1>9. SavesRestore
    BY <1>2, <1>3, <1>5, <1>6, <1>8 DEF SavesRestore, Saves!Reads
  <1> QED BY <1>3, <1>7, <1>8, <1>9 DEF SavesInv, SavesLoads, SavesTasks

SavesHarmless(k) == k.h \notin Saves!Reads \cup {"restore"}

(* Steps of the other handlers leave fetches and restores alone. *)
LEMMA SavesFrame ==
  ASSUME SavesInv, JobsShaped', \A k \in (jobs' \ jobs) \cup (jobs \ jobs') : SavesHarmless(k),
         clicks' \in {clicks, clicks + 1}, pg'.loading = pg.loading, pg'.restoring = pg.restoring,
         pg'.restore = pg.restore \/ ~InFlight({"restore"}), SavesPage', SavesTasks'
  PROVE  SavesInv'
  <1>1. \A h \in Saves!Reads \cup {"restore"} : \A j : (j \in jobs /\ j.h = h) <=> (j \in jobs' /\ j.h = h)
    BY DEF SavesHarmless
  <1>2. (InFlight({"restore"}) <=> InFlight({"restore"})') /\ \A a : Full(a) <=> Full(a)'
    BY <1>1 DEF InFlight, Full
  <1>3. clicks \in Nat /\ clicks' \in Nat /\ \A n \in Nat : (n <= clicks => n <= clicks') /\ (n < clicks => n < clicks')
    BY DEF SavesInv, SavesReads
  <1>4. SavesReads'
    BY <1>1, <1>2, <1>3 DEF SavesInv, SavesReads
  <1>5. SavesRestore'
    BY <1>1, <1>2 DEF SavesInv, SavesRestore, InFlight
  <1> QED BY <1>2, <1>4, <1>5 DEF SavesInv, SavesLoads

(* A job that is answered stays the call it was. *)
LEMMA SavesAnswers ==
  ASSUME SavesInv, NEW j \in jobs, NEW r, NEW g, jobs' = (jobs \ {j}) \cup {[j EXCEPT !.res = r, !.got = g]},
         UNCHANGED pg, clicks' \in {clicks, clicks + 1}
  PROVE  SavesInv'
  <1>1. PICK k : k = [j EXCEPT !.res = r, !.got = g]
    OBVIOUS
  <1>2. jobs' = (jobs \ {j}) \cup {k} /\ k.h = j.h /\ k.a = j.a /\ DOMAIN k = JobFields
    BY <1>1 DEF SavesInv, JobsShaped, JobFields
  <1>3. JobsShaped' /\ \A H : Saves!InFlight(H) => Saves!InFlight(H)'
    BY <1>2 DEF SavesInv, JobsShaped, Saves!InFlight
  <1>4. \A h, a : (\E i \in jobs : i.h = h /\ i.a = a) <=> (\E i \in jobs' : i.h = h /\ i.a = a)
    BY <1>2
  <1>5. (InFlight({"restore"}) <=> InFlight({"restore"})') /\ \A a : Full(a) <=> Full(a)'
    BY <1>2, <1>4 DEF InFlight, Full
  <1>6. clicks \in Nat /\ clicks' \in Nat /\ \A n \in Nat : (n <= clicks => n <= clicks') /\ (n < clicks => n < clicks')
    BY DEF SavesInv, SavesReads
  <1>7. \A i \in jobs' : \E m \in jobs : m.h = i.h /\ m.a = i.a
    BY <1>2
  <1>8. \A i \in jobs' : i.h \in Saves!Reads =>
              /\ DOMAIN i.a = {"n", "after"} /\ i.a.n \in Nat /\ i.a.n <= clicks'
              /\ (i.a.after # "restore" \/ InFlight({"restore"})') => i.a.n < clicks'
    BY <1>5, <1>6, <1>7 DEF SavesInv, SavesReads
  <1>9. \A i, m \in jobs' : (i.h \in Saves!Reads /\ m.h = i.h /\ m.a = i.a) => i = m
    BY <1>2 DEF SavesInv, SavesReads
  <1>10. SavesReads'
    BY <1>6, <1>8, <1>9 DEF SavesReads
  <1>11. SavesRestore'
    BY <1>2, <1>5 DEF SavesInv, SavesRestore, InFlight
  <1>12. \A id \in pg.validating : \E i \in jobs' : i.h = "validate" /\ i.a.id = id
    <2>1. \A i \in jobs : i \in jobs' \/ (i = j /\ k \in jobs')
      BY <1>2
    <2>2. \A id \in pg.validating : \E i \in jobs : i.h = "validate" /\ i.a.id = id
      BY DEF SavesInv, SavesTasks
    <2> QED BY <1>2, <2>1, <2>2
  <1>13. SavesTasks' /\ SavesPage' /\ SavesLoads'
    BY <1>3, <1>5, <1>12 DEF SavesInv, SavesTasks, SavesPage, SavesLoads
  <1> QED BY <1>3, <1>10, <1>11, <1>13 DEF SavesInv

LEMMA SavesServes ==
  ASSUME SavesInv, NEW j \in jobs,
         \/ Saves!ServeCheck(j)
         \/ Saves!ServeAuto(j)
         \/ Saves!ServeRead(j)
         \/ Saves!ServeCreate(j)
         \/ Saves!ServeImport(j)
         \/ Saves!ServeFile(j)
         \/ Saves!ServeSafety(j)
         \/ Saves!ServeRestore(j)
         \/ Saves!ServeDelete(j)
         \/ Saves!ServeSchedule(j)
         \/ Saves!Fail(j)
  PROVE  SavesInv'
  <1>1. CASE Saves!ServeCheck(j)
    BY <1>1, SavesAnswers DEF Saves!ServeCheck, Saves!Answer
  <1>2. CASE Saves!ServeAuto(j)
    BY <1>2, SavesAnswers DEF Saves!ServeAuto, Saves!Answer
  <1>3. CASE Saves!ServeRead(j)
    BY <1>3, SavesAnswers DEF Saves!ServeRead, Saves!Answer
  <1>4. CASE Saves!ServeCreate(j)
    BY <1>4, SavesAnswers DEF Saves!ServeCreate, Saves!Answer
  <1>5. CASE Saves!ServeImport(j)
    BY <1>5, SavesAnswers DEF Saves!ServeImport, Saves!Answer
  <1>6. CASE Saves!ServeFile(j)
    BY <1>6, SavesAnswers DEF Saves!ServeFile, Saves!Answer
  <1>7. CASE Saves!ServeSafety(j)
    BY <1>7, SavesAnswers DEF Saves!ServeSafety, Saves!Answer
  <1>8. CASE Saves!ServeRestore(j)
    BY <1>8, SavesAnswers DEF Saves!ServeRestore, Saves!Answer
  <1>9. CASE Saves!ServeDelete(j)
    BY <1>9, SavesAnswers DEF Saves!ServeDelete, Saves!Answer
  <1>10. CASE Saves!ServeSchedule(j)
    BY <1>10, SavesAnswers DEF Saves!ServeSchedule, Saves!Answer
  <1>11. CASE Saves!Fail(j)
    BY <1>11, SavesAnswers DEF Saves!Fail, Saves!Answer
  <1> QED BY <1>1, <1>2, <1>3, <1>4, <1>5, <1>6, <1>7, <1>8, <1>9, <1>10, <1>11

(* Everything has been read, or something has not: the fetch is over. *)
LEMMA SavesFetchEnds ==
  ASSUME SavesInv, NEW j \in jobs, j.h \in Saves!Reads, NEW D, D \subseteq Saves!Fetched(j.a), j \in D,
         jobs' = jobs \ D, UNCHANGED clicks, NEW p, pg' = p, DOMAIN p = DOMAIN pg,
         \A f \in DOMAIN pg \ {"list", "count", "loading", "schedule", "restoring"} : p[f] = pg[f],
         IF Full(j.a) THEN p.loading = FALSE /\ p.restoring = (IF j.a.after = "restore" THEN FALSE ELSE pg.restoring)
                      ELSE p.loading = pg.loading /\ p.restoring = pg.restoring
  PROVE  SavesInv'
  <1> USE DEF SavesInv
  <1>1. /\ jobs' \subseteq jobs /\ j \notin jobs' /\ j.h \in Saves!Reads
        /\ \A k \in jobs \ jobs' : k.h \in Saves!Reads /\ k.a = j.a
    BY DEF Saves!Fetched
  <1>2. ~Full(j.a)'
    BY <1>1 DEF Full, SavesReads
  <1>3. \A b : b # j.a => (Full(b) <=> Full(b)')
    BY <1>1 DEF Full
  <1>4. /\ InFlight({"restore"}) <=> InFlight({"restore"})'
        /\ \A i : (i \in jobs /\ i.h = "restore") <=> (i \in jobs' /\ i.h = "restore")
    BY <1>1 DEF InFlight, Saves!Reads
  <1>5. JobsShaped' /\ SavesReads'
    BY <1>1, <1>4 DEF JobsShaped, SavesReads
  <1>6. SavesPage' /\ pg'.restore = pg.restore
    BY DEF SavesPage
  <1>7. SavesTasks'
    <2>1. /\ p.creating = pg.creating /\ p.importing = pg.importing /\ p.validating = pg.validating
          /\ p.deleting = pg.deleting /\ p.saving = pg.saving /\ p.running = pg.running
      BY DEF SavesPage
    <2>2. \A i : (i \in jobs /\ i.h \notin Saves!Reads) => i \in jobs'
      BY <1>1
    <2> QED BY <2>1, <2>2 DEF SavesTasks, Saves!InFlight, Saves!Reads
  <1>8. SavesLoads'
    BY <1>3 DEF SavesLoads
  <1>9. SavesRestore'
    <2>1. CASE ~(Full(j.a) /\ j.a.after = "restore")
      <3>1. pg'.restoring = pg.restoring /\ \A a : (Full(a) /\ a.after = "restore") <=> (Full(a)' /\ a.after = "restore")
        BY <1>2, <1>3, <2>1
      <3> QED BY <1>4, <1>6, <3>1 DEF SavesRestore
    <2>2. CASE Full(j.a) /\ j.a.after = "restore"
      <3>1. pg'.restoring = FALSE /\ ~InFlight({"restore"})' /\ \A a : ~(Full(a)' /\ a.after = "restore")
        BY <1>2, <1>3, <1>4, <2>2 DEF SavesRestore
      <3> QED BY <3>1 DEF SavesRestore, InFlight
    <2> QED BY <2>1, <2>2
  <1> QED BY <1>5, <1>6, <1>7, <1>8, <1>9

LEMMA SavesReadsEnd ==
  ASSUME SavesInv, NEW j \in jobs, Saves!OnFetched(j) \/ Saves!OnFetchFailed(j) \/ Saves!OnOrphan(j)
  PROVE  SavesInv'
  <1>0. /\ Full(j.a) => Saves!Cardinality(Saves!Fetched(j.a)) = 3
        /\ ~Full(j.a) => Saves!Cardinality(Saves!Fetched(j.a)) # 3 /\ Saves!Cardinality(Saves!Fetched(j.a)) < 3
        /\ ~(3 < 3)
    BY SavesCount DEF SavesInv
  <1>a. j.h \in Saves!Reads => j \in Saves!Fetched(j.a)
    BY DEF Saves!Fetched
  <1>1. CASE Saves!OnFetched(j)
    <2>1. j.h \in Saves!Reads /\ Full(j.a) /\ jobs' = jobs \ Saves!Fetched(j.a) /\ UNCHANGED clicks
      BY <1>0, <1>1 DEF Saves!OnFetched, Saves!Done, Saves!Reads
    <2>2. PICK l, c, z : pg' = [pg EXCEPT !.list = l, !.count = c, !.loading = FALSE, !.schedule = z,
                                          !.restoring = IF j.a.after = "restore" THEN FALSE ELSE @]
      BY <1>1 DEF Saves!OnFetched
    <2>3. PICK p : p = pg'
      OBVIOUS
    <2>4. /\ DOMAIN p = DOMAIN pg /\ p.loading = FALSE
          /\ p.restoring = (IF j.a.after = "restore" THEN FALSE ELSE pg.restoring)
          /\ \A f \in DOMAIN pg \ {"list", "count", "loading", "schedule", "restoring"} : p[f] = pg[f]
      BY <2>2, <2>3 DEF SavesInv, SavesPage
    <2> QED BY <1>a, <2>1, <2>3, <2>4, SavesFetchEnds
  <1>2. CASE Saves!OnFetchFailed(j)
    <2>1. j.h \in Saves!Reads /\ jobs' = jobs \ {j} /\ UNCHANGED clicks
      BY <1>2 DEF Saves!OnFetchFailed, Saves!Done, Saves!Reads, Saves!Then
    <2>2. PICK p : p = pg'
      OBVIOUS
    <2>3. IF Full(j.a) THEN p = [pg EXCEPT !.loading = FALSE, !.restoring = IF j.a.after = "restore" THEN FALSE ELSE @]
                       ELSE p = pg
      BY <1>0, <1>2, <2>2 DEF Saves!OnFetchFailed
    <2>4. /\ DOMAIN p = DOMAIN pg
          /\ IF Full(j.a) THEN p.loading = FALSE /\ p.restoring = (IF j.a.after = "restore" THEN FALSE ELSE pg.restoring)
                          ELSE p.loading = pg.loading /\ p.restoring = pg.restoring
          /\ \A f \in DOMAIN pg \ {"list", "count", "loading", "schedule", "restoring"} : p[f] = pg[f]
      BY <2>3 DEF SavesInv, SavesPage
    <2> QED BY <1>a, <2>1, <2>2, <2>4, SavesFetchEnds
  <1>3. CASE Saves!OnOrphan(j)
    <2>1. j.h \in Saves!Reads /\ jobs' = jobs \ {j} /\ UNCHANGED <<pg, clicks>> /\ ~Full(j.a)
      BY <1>0, <1>3 DEF Saves!OnOrphan, Saves!Done, Saves!Reads, Saves!Then
    <2> QED BY <1>a, <2>1, SavesFetchEnds
  <1> QED BY <1>1, <1>2, <1>3

(* Everything is read again, on demand ... *)
LEMMA SavesRefresh ==
  ASSUME SavesInv, Saves!Refresh
  PROVE  SavesInv'
  <1> USE DEF SavesInv
  <1>1. PICK a : a = [n |-> clicks, after |-> "refresh"]
    OBVIOUS
  <1>2. /\ jobs' = jobs \cup Saves!Fetch(clicks, "refresh") /\ clicks' = clicks + 1
        /\ pg' = [pg EXCEPT !.loading = TRUE]
    BY DEF Saves!Refresh
  <1>3. jobs' = (jobs \ {}) \cup Saves!Fetch(clicks, "refresh")
    BY <1>2
  <1>4. /\ JobsShaped' /\ Full(a)' /\ \A b : b # a => (Full(b) <=> Full(b)')
        /\ \A j, k \in jobs' : (j.h \in Saves!Reads /\ k.h = j.h /\ k.a = j.a) => j = k
    BY <1>1, <1>3, SavesNewFetch
  <1>5. a.after = "refresh" /\ a.n = clicks /\ DOMAIN a = {"n", "after"}
    BY <1>1
  <1>6. \A k \in jobs' \ jobs : k.h \in Saves!Reads /\ k.a = a
    BY <1>1, <1>2, SavesFetch
  <1>7. clicks \in Nat /\ clicks' \in Nat /\ clicks < clicks' /\ \A n \in Nat : n <= clicks => n <= clicks' /\ n < clicks'
    BY <1>2 DEF SavesReads
  <1>8. SavesReads'
    <2>1. \A j \in jobs' : j.h \in Saves!Reads => DOMAIN j.a = {"n", "after"} /\ j.a.n \in Nat /\ j.a.n <= clicks
      BY <1>5, <1>6, <1>7 DEF SavesReads
    <2> QED BY <1>4, <1>7, <2>1 DEF SavesReads
  <1>9. \A i : (i \in jobs /\ i.h \notin Saves!Reads) <=> (i \in jobs' /\ i.h \notin Saves!Reads)
    BY <1>2, <1>6
  <1>10. (InFlight({"restore"}) <=> InFlight({"restore"})') /\ \A H : Saves!InFlight(H) => Saves!InFlight(H)'
    BY <1>2, <1>9 DEF InFlight, Saves!InFlight, Saves!Reads
  <1>11. SavesPage' /\ pg'.restoring = pg.restoring /\ pg'.restore = pg.restore
    BY <1>2 DEF SavesPage
  <1>12. SavesRestore'
    BY <1>4, <1>5, <1>9, <1>10, <1>11 DEF SavesRestore, Saves!Reads
  <1>13. SavesTasks'
    BY <1>2, <1>10 DEF SavesTasks, SavesPage
  <1> QED BY <1>4, <1>8, <1>11, <1>12, <1>13 DEF SavesLoads

(* ... and after a restore, whose dialog is closed by then. *)
LEMMA SavesRestored ==
  ASSUME SavesInv, NEW j \in jobs, Saves!OnRestored(j)
  PROVE  SavesInv'
  <1> USE DEF SavesInv
  <1>1. /\ j.h = "restore" /\ j.h \notin Saves!Reads /\ UNCHANGED clicks /\ pg.restoring
        /\ \A i \in jobs : i.h = "restore" => i = j
        /\ \A a : ~(Full(a) /\ a.after = "restore")
    BY DEF Saves!OnRestored, Saves!Done, Saves!Then, Saves!Reads, SavesRestore, InFlight
  <1>2. CASE j.res # "ok"
    <2>1. jobs' = jobs \ {j} /\ pg' = [pg EXCEPT !.restoring = FALSE]
      BY <1>2 DEF Saves!OnRestored, Saves!Then
    <2>2. \A i : (i \in jobs /\ i.h # "restore") <=> (i \in jobs' /\ i.h # "restore")
      BY <1>1, <2>1
    <2>3. ~InFlight({"restore"})' /\ \A a : Full(a) <=> Full(a)'
      BY <1>1, <2>1, <2>2 DEF InFlight, Full, Saves!Reads
    <2>4. JobsShaped' /\ SavesReads' /\ SavesPage' /\ SavesLoads'
      BY <1>1, <2>1, <2>3 DEF JobsShaped, SavesReads, SavesPage, SavesLoads
    <2>5. SavesTasks'
      BY <2>1, <2>2 DEF SavesTasks, SavesPage, Saves!InFlight
    <2>6. SavesRestore'
      BY <1>1, <2>1, <2>3 DEF SavesRestore, SavesPage, InFlight
    <2> QED BY <2>4, <2>5, <2>6
  <1>3. CASE j.res = "ok"
    <2>1. PICK a : a = [n |-> clicks, after |-> "restore"]
      OBVIOUS
    <2>2. /\ jobs' = (jobs \ {j}) \cup Saves!Fetch(clicks, "restore")
          /\ pg' = [pg EXCEPT !.restore = None, !.loading = TRUE]
      BY <1>3 DEF Saves!OnRestored, Saves!Then
    <2>3. InFlight({"restore"})
      BY <1>1 DEF InFlight
    <2>4. /\ JobsShaped' /\ Full(a)' /\ \A b : b # a => (Full(b) <=> Full(b)')
          /\ \A i, k \in jobs' : (i.h \in Saves!Reads /\ k.h = i.h /\ k.a = i.a) => i = k
      BY <1>1, <2>1, <2>2, <2>3, SavesNewFetch
    <2>5. a.after = "restore" /\ a.n = clicks /\ DOMAIN a = {"n", "after"}
      BY <2>1
    <2>6. \A k \in jobs' \ jobs : k.h \in Saves!Reads /\ k.a = a
      BY <2>1, <2>2, SavesFetch
    <2>7. \A i : (i \in jobs' /\ i.h \notin Saves!Reads) <=> (i \in jobs /\ i # j /\ i.h \notin Saves!Reads)
      <3>1. \A k \in Saves!Fetch(clicks, "restore") : k.h \in Saves!Reads
        BY SavesFetch
      <3> QED BY <1>1, <2>2, <3>1
    <2>8. ~InFlight({"restore"})' /\ \A i \in jobs' : i.h # "restore"
      BY <1>1, <2>7 DEF InFlight, Saves!Reads
    <2>9. SavesReads'
      <3>0. clicks \in Nat /\ clicks <= clicks
        BY DEF SavesReads
      <3>1. \A i \in jobs' : i.h \in Saves!Reads =>
                 /\ DOMAIN i.a = {"n", "after"} /\ i.a.n \in Nat /\ i.a.n <= clicks
                 /\ i.a.after # "restore" => i.a.n < clicks
        BY <2>5, <2>6, <3>0 DEF SavesReads
      <3> QED BY <1>1, <2>4, <2>8, <3>0, <3>1 DEF SavesReads
    <2>10. SavesPage' /\ pg'.restoring = pg.restoring
      BY <2>2 DEF SavesPage
    <2>11. SavesRestore'
      <3>1. \A b : (Full(b)' /\ b.after = "restore") => b = a
        BY <1>1, <2>4
      <3> QED BY <1>1, <2>4, <2>5, <2>8, <2>10, <3>1 DEF SavesRestore
    <2>12. SavesTasks'
      BY <1>1, <2>2, <2>7 DEF SavesTasks, SavesPage, Saves!InFlight, Saves!Reads
    <2> QED BY <2>4, <2>9, <2>10, <2>11, <2>12 DEF SavesLoads
  <1> QED BY <1>2, <1>3

LEMMA SavesCalls ==
  ASSUME JobsShaped, NEW h, NEW a, Saves!Start(h, a)
  PROVE  /\ JobsShaped'
         /\ \A k \in jobs' \ jobs : k = Job(h, a)
         /\ jobs \subseteq jobs' /\ clicks' = clicks + 1
         /\ \A H : Saves!InFlight(H) \/ h \in H => Saves!InFlight(H)'
  <1>1. jobs' = jobs \cup {Job(h, a)} /\ clicks' = clicks + 1
    BY DEF Saves!Start, Saves!Job, Job
  <1>2. DOMAIN Job(h, a) = JobFields /\ Job(h, a).h = h
    BY NewJob
  <1> QED BY <1>1, <1>2, Started DEF Saves!InFlight, InFlight

(* A restore is sent from its dialog when none is under way. *)
LEMMA SavesConfirms ==
  ASSUME SavesInv, Saves!ConfirmRestore
  PROVE  SavesInv'
  <1> USE DEF SavesInv
  <1>1. PICK k : k = Job("restore", [id |-> pg.restore])
    OBVIOUS
  <1>2. /\ jobs' = jobs \cup {k} /\ clicks' = clicks + 1 /\ pg.restore # None /\ ~pg.restoring
        /\ pg' = [pg EXCEPT !.restoring = TRUE]
    BY <1>1 DEF Saves!ConfirmRestore, Saves!Start, Saves!Job, Job
  <1>3. k.h = "restore" /\ k.a.id = pg.restore /\ DOMAIN k = JobFields /\ k.h \notin Saves!Reads
    BY <1>1, NewJob DEF Saves!Reads
  <1>4. ~InFlight({"restore"}) /\ \A a : ~(Full(a) /\ a.after = "restore")
    BY <1>2 DEF SavesRestore, InFlight
  <1>5. \A a : Full(a) <=> Full(a)'
    BY <1>2, <1>3 DEF Full
  <1>6. JobsShaped' /\ \A H : Saves!InFlight(H) => Saves!InFlight(H)'
    BY <1>2, <1>3 DEF JobsShaped, Saves!InFlight
  <1>7. clicks \in Nat /\ clicks' \in Nat /\ \A n \in Nat : n <= clicks => n <= clicks' /\ n < clicks'
    BY <1>2 DEF SavesReads
  <1>8. SavesReads'
    BY <1>2, <1>3, <1>7 DEF SavesReads
  <1>9. SavesPage' /\ pg'.restoring = TRUE /\ pg'.restore = pg.restore
    BY <1>2 DEF SavesPage
  <1>10. SavesRestore'
    BY <1>2, <1>3, <1>4, <1>5, <1>9 DEF SavesRestore, InFlight
  <1>11. SavesTasks' /\ SavesLoads'
    BY <1>2, <1>5, <1>6 DEF SavesTasks, SavesLoads, SavesPage
  <1> QED BY <1>6, <1>8, <1>9, <1>10, <1>11

LEMMA SavesContinues ==
  ASSUME SavesInv, NEW j \in jobs,
         \/ Saves!OnCreated(j)
         \/ Saves!OnValidated(j)
         \/ Saves!OnDeleted(j)
         \/ Saves!OnScheduled(j)
         \/ Saves!OnRunAuto(j)
  PROVE  SavesInv'
  <1> USE DEF SavesInv, SavesPage, Saves!Done, Saves!Then, Saves!Reads
  <1>1. CASE Saves!OnCreated(j)
    <2>1. JobsShaped' /\ \A k \in (jobs' \ jobs) \cup (jobs \ jobs') : SavesHarmless(k)
      BY <1>1 DEF JobsShaped, JobFields, SavesHarmless, Saves!OnCreated
    <2>3. SavesTasks'
      BY <1>1 DEF SavesTasks, Saves!InFlight, JobsShaped, JobFields, Saves!OnCreated
    <2>4. SavesPage' /\ pg'.loading = pg.loading /\ pg'.restoring = pg.restoring /\ pg'.restore = pg.restore /\ UNCHANGED clicks
      BY <1>1 DEF Saves!OnCreated
    <2> QED BY <2>1, <2>3, <2>4, SavesFrame
  <1>2. CASE Saves!OnValidated(j)
    <2>1. JobsShaped' /\ \A k \in (jobs' \ jobs) \cup (jobs \ jobs') : SavesHarmless(k)
      BY <1>2 DEF JobsShaped, JobFields, SavesHarmless, Saves!OnValidated
    <2>3. SavesTasks'
      BY <1>2 DEF SavesTasks, Saves!InFlight, JobsShaped, JobFields, Saves!OnValidated
    <2>4. SavesPage' /\ pg'.loading = pg.loading /\ pg'.restoring = pg.restoring /\ pg'.restore = pg.restore /\ UNCHANGED clicks
      BY <1>2 DEF Saves!OnValidated
    <2> QED BY <2>1, <2>3, <2>4, SavesFrame
  <1>3. CASE Saves!OnDeleted(j)
    <2>1. JobsShaped' /\ \A k \in (jobs' \ jobs) \cup (jobs \ jobs') : SavesHarmless(k)
      BY <1>3 DEF JobsShaped, JobFields, SavesHarmless, Saves!OnDeleted
    <2>3. SavesTasks'
      BY <1>3 DEF SavesTasks, Saves!InFlight, JobsShaped, JobFields, Saves!OnDeleted
    <2>4. SavesPage' /\ pg'.loading = pg.loading /\ pg'.restoring = pg.restoring /\ pg'.restore = pg.restore /\ UNCHANGED clicks
      BY <1>3 DEF Saves!OnDeleted
    <2> QED BY <2>1, <2>3, <2>4, SavesFrame
  <1>4. CASE Saves!OnScheduled(j)
    <2>1. JobsShaped' /\ \A k \in (jobs' \ jobs) \cup (jobs \ jobs') : SavesHarmless(k)
      BY <1>4 DEF JobsShaped, JobFields, SavesHarmless, Saves!OnScheduled
    <2>3. SavesTasks'
      BY <1>4 DEF SavesTasks, Saves!InFlight, JobsShaped, JobFields, Saves!OnScheduled
    <2>4. SavesPage' /\ pg'.loading = pg.loading /\ pg'.restoring = pg.restoring /\ pg'.restore = pg.restore /\ UNCHANGED clicks
      BY <1>4 DEF Saves!OnScheduled
    <2> QED BY <2>1, <2>3, <2>4, SavesFrame
  <1>5. CASE Saves!OnRunAuto(j)
    <2>a. /\ jobs' \subseteq (jobs \ {j}) \cup {Job("rescheduled", [of |-> None])}
          /\ jobs \ {j} \subseteq jobs' /\ j.h \in {"runAuto", "rescheduled"}
      BY <1>5 DEF Saves!OnRunAuto, Saves!Job, Job
    <2>1. JobsShaped' /\ \A k \in (jobs' \ jobs) \cup (jobs \ jobs') : SavesHarmless(k)
      BY <2>a, NewJob DEF JobsShaped, SavesHarmless
    <2>2. (j.h = "runAuto" /\ j.res = "ok") => \E x : Job("rescheduled", x) \in jobs'
      BY <1>5 DEF Saves!OnRunAuto, Saves!Job, Job
    <2>3. SavesTasks'
      <3>1. /\ pg'.running => pg.running /\ (j.h = "runAuto" /\ j.res = "ok")
            /\ pg'.creating = pg.creating /\ pg'.importing = pg.importing /\ pg'.validating = pg.validating
            /\ pg'.deleting = pg.deleting /\ pg'.saving = pg.saving
        BY <1>5 DEF Saves!OnRunAuto
      <3>2. pg'.running => Saves!InFlight({"runAuto", "rescheduled"})'
        BY <2>2, <3>1, NewJob DEF Saves!InFlight
      <3> QED BY <2>a, <3>1, <3>2 DEF SavesTasks, Saves!InFlight
    <2>4. SavesPage' /\ pg'.loading = pg.loading /\ pg'.restoring = pg.restoring /\ pg'.restore = pg.restore /\ UNCHANGED clicks
      BY <1>5 DEF Saves!OnRunAuto
    <2> QED BY <2>1, <2>3, <2>4, SavesFrame
  <1> QED BY <1>1, <1>2, <1>3, <1>4, <1>5

LEMMA SavesSends ==
  ASSUME SavesInv,
         \/ Saves!Create
         \/ Saves!Import
         \/ \E e \in pg.list : Saves!Download(e)
         \/ \E e \in pg.list : Saves!Validate(e)
         \/ Saves!ConfirmDelete
         \/ \E n \in Intervals : Saves!UpdateInterval(n)
         \/ Saves!ToggleSchedule
         \/ Saves!RunAutoNow
  PROVE  SavesInv'
  <1> USE DEF SavesInv, SavesPage, Saves!Reads
  <1>1. CASE Saves!Create
    <2>1. PICK a : Saves!Start("create", a) /\ UNCHANGED srv
      BY <1>1 DEF Saves!Create
    <2>2. JobsShaped' /\ \A k \in (jobs' \ jobs) \cup (jobs \ jobs') : SavesHarmless(k)
      BY <2>1, SavesCalls, NewJob DEF SavesHarmless
    <2>3. \A H : Saves!InFlight(H) \/ "create" \in H => Saves!InFlight(H)'
      BY <2>1, SavesCalls
    <2>a. jobs \subseteq jobs' /\ clicks' \in {clicks, clicks + 1}
      BY <2>1, SavesCalls
    <2>4. SavesPage' /\ pg'.loading = pg.loading /\ pg'.restoring = pg.restoring /\ pg'.restore = pg.restore /\ SavesTasks'
      BY <1>1, <2>3, <2>a DEF Saves!Create, SavesTasks
    <2> QED BY <2>2, <2>4, <2>a, SavesFrame
  <1>2. CASE Saves!Import
    <2>1. PICK a : Saves!Start("import", a) /\ UNCHANGED srv
      BY <1>2 DEF Saves!Import
    <2>2. JobsShaped' /\ \A k \in (jobs' \ jobs) \cup (jobs \ jobs') : SavesHarmless(k)
      BY <2>1, SavesCalls, NewJob DEF SavesHarmless
    <2>3. \A H : Saves!InFlight(H) \/ "import" \in H => Saves!InFlight(H)'
      BY <2>1, SavesCalls
    <2>a. jobs \subseteq jobs' /\ clicks' \in {clicks, clicks + 1}
      BY <2>1, SavesCalls
    <2>4. SavesPage' /\ pg'.loading = pg.loading /\ pg'.restoring = pg.restoring /\ pg'.restore = pg.restore /\ SavesTasks'
      BY <1>2, <2>3, <2>a DEF Saves!Import, SavesTasks
    <2> QED BY <2>2, <2>4, <2>a, SavesFrame
  <1>3. CASE \E e \in pg.list : Saves!Download(e)
    <2>0. PICK e \in pg.list : Saves!Download(e)
      BY <1>3
    <2>1. PICK a : Saves!Start("download", a) /\ UNCHANGED srv
      BY <2>0 DEF Saves!Download
    <2>2. JobsShaped' /\ \A k \in (jobs' \ jobs) \cup (jobs \ jobs') : SavesHarmless(k)
      BY <2>1, SavesCalls, NewJob DEF SavesHarmless
    <2>3. \A H : Saves!InFlight(H) \/ "download" \in H => Saves!InFlight(H)'
      BY <2>1, SavesCalls
    <2>a. jobs \subseteq jobs' /\ clicks' \in {clicks, clicks + 1}
      BY <2>1, SavesCalls
    <2>4. SavesPage' /\ pg'.loading = pg.loading /\ pg'.restoring = pg.restoring /\ pg'.restore = pg.restore /\ SavesTasks'
      BY <2>0, <2>3, <2>a DEF Saves!Download, SavesTasks
    <2> QED BY <2>2, <2>4, <2>a, SavesFrame
  <1>4. CASE \E e \in pg.list : Saves!Validate(e)
    <2>0. PICK e \in pg.list : Saves!Validate(e)
      BY <1>4
    <2>1. PICK a : Saves!Start("validate", a) /\ UNCHANGED srv
      BY <2>0 DEF Saves!Validate
    <2>2. JobsShaped' /\ \A k \in (jobs' \ jobs) \cup (jobs \ jobs') : SavesHarmless(k)
      BY <2>1, SavesCalls, NewJob DEF SavesHarmless
    <2>3. \A H : Saves!InFlight(H) \/ "validate" \in H => Saves!InFlight(H)'
      BY <2>1, SavesCalls
    <2>a. jobs \subseteq jobs' /\ clicks' \in {clicks, clicks + 1}
      BY <2>1, SavesCalls
    <2>b. \E k \in jobs' : k.h = "validate" /\ k.a.id = e.id
      <3>1. Job("validate", [id |-> e.id]) \in jobs'
        BY <2>0 DEF Saves!Validate, Saves!Start, Saves!Job, Job
      <3> QED BY <3>1, NewJob
    <2>4. SavesPage' /\ pg'.loading = pg.loading /\ pg'.restoring = pg.restoring /\ pg'.restore = pg.restore /\ SavesTasks'
      BY <2>0, <2>3, <2>a, <2>b DEF Saves!Validate, SavesTasks
    <2> QED BY <2>2, <2>4, <2>a, SavesFrame
  <1>5. CASE Saves!ConfirmDelete
    <2>1. PICK a : Saves!Start("delete", a) /\ UNCHANGED srv
      BY <1>5 DEF Saves!ConfirmDelete
    <2>2. JobsShaped' /\ \A k \in (jobs' \ jobs) \cup (jobs \ jobs') : SavesHarmless(k)
      BY <2>1, SavesCalls, NewJob DEF SavesHarmless
    <2>3. \A H : Saves!InFlight(H) \/ "delete" \in H => Saves!InFlight(H)'
      BY <2>1, SavesCalls
    <2>a. jobs \subseteq jobs' /\ clicks' \in {clicks, clicks + 1}
      BY <2>1, SavesCalls
    <2>4. SavesPage' /\ pg'.loading = pg.loading /\ pg'.restoring = pg.restoring /\ pg'.restore = pg.restore /\ SavesTasks'
      BY <1>5, <2>3, <2>a DEF Saves!ConfirmDelete, SavesTasks
    <2> QED BY <2>2, <2>4, <2>a, SavesFrame
  <1>6. CASE \E n \in Intervals : Saves!UpdateInterval(n)
    <2>0. PICK n \in Intervals : Saves!UpdateInterval(n)
      BY <1>6
    <2>1. PICK a : Saves!Start("reschedule", a) /\ UNCHANGED srv
      BY <2>0 DEF Saves!UpdateInterval, Saves!Schedule
    <2>2. JobsShaped' /\ \A k \in (jobs' \ jobs) \cup (jobs \ jobs') : SavesHarmless(k)
      BY <2>1, SavesCalls, NewJob DEF SavesHarmless
    <2>3. \A H : Saves!InFlight(H) \/ "reschedule" \in H => Saves!InFlight(H)'
      BY <2>1, SavesCalls
    <2>a. jobs \subseteq jobs' /\ clicks' \in {clicks, clicks + 1}
      BY <2>1, SavesCalls
    <2>4. SavesPage' /\ pg'.loading = pg.loading /\ pg'.restoring = pg.restoring /\ pg'.restore = pg.restore /\ SavesTasks'
      BY <2>0, <2>3, <2>a DEF Saves!UpdateInterval, Saves!Schedule, SavesTasks
    <2> QED BY <2>2, <2>4, <2>a, SavesFrame
  <1>7. CASE Saves!ToggleSchedule
    <2>1. PICK a : Saves!Start("reschedule", a) /\ UNCHANGED srv
      BY <1>7 DEF Saves!ToggleSchedule, Saves!Schedule
    <2>2. JobsShaped' /\ \A k \in (jobs' \ jobs) \cup (jobs \ jobs') : SavesHarmless(k)
      BY <2>1, SavesCalls, NewJob DEF SavesHarmless
    <2>3. \A H : Saves!InFlight(H) \/ "reschedule" \in H => Saves!InFlight(H)'
      BY <2>1, SavesCalls
    <2>a. jobs \subseteq jobs' /\ clicks' \in {clicks, clicks + 1}
      BY <2>1, SavesCalls
    <2>4. SavesPage' /\ pg'.loading = pg.loading /\ pg'.restoring = pg.restoring /\ pg'.restore = pg.restore /\ SavesTasks'
      BY <1>7, <2>3, <2>a DEF Saves!ToggleSchedule, Saves!Schedule, SavesTasks
    <2> QED BY <2>2, <2>4, <2>a, SavesFrame
  <1>8. CASE Saves!RunAutoNow
    <2>1. PICK a : Saves!Start("runAuto", a) /\ UNCHANGED srv
      BY <1>8 DEF Saves!RunAutoNow
    <2>2. JobsShaped' /\ \A k \in (jobs' \ jobs) \cup (jobs \ jobs') : SavesHarmless(k)
      BY <2>1, SavesCalls, NewJob DEF SavesHarmless
    <2>3. \A H : Saves!InFlight(H) \/ "runAuto" \in H => Saves!InFlight(H)'
      BY <2>1, SavesCalls
    <2>a. jobs \subseteq jobs' /\ clicks' \in {clicks, clicks + 1}
      BY <2>1, SavesCalls
    <2>4. SavesPage' /\ pg'.loading = pg.loading /\ pg'.restoring = pg.restoring /\ pg'.restore = pg.restore /\ SavesTasks'
      BY <1>8, <2>3, <2>a DEF Saves!RunAutoNow, SavesTasks
    <2> QED BY <2>2, <2>4, <2>a, SavesFrame
  <1> QED BY <1>1, <1>2, <1>3, <1>4, <1>5, <1>6, <1>7, <1>8

LEMMA SavesClicks ==
  ASSUME SavesInv,
         \/ \E e \in pg.list : Saves!OpenRestore(e)
         \/ \E e \in pg.list : Saves!OpenDelete(e)
         \/ Saves!CancelRestore
         \/ Saves!CancelDelete
         \/ Saves!Work
  PROVE  SavesInv'
  <1> USE DEF SavesInv, SavesPage
  <1>a. UNCHANGED jobs /\ clicks' \in {clicks, clicks + 1} /\ pg'.loading = pg.loading /\ pg'.creating = pg.creating /\ pg'.importing = pg.importing /\ pg'.validating = pg.validating /\ pg'.restoring = pg.restoring /\ pg'.deleting = pg.deleting /\ pg'.saving = pg.saving /\ pg'.running = pg.running
    BY DEF Saves!Click, Saves!Local, Saves!OpenRestore, Saves!OpenDelete, Saves!CancelRestore, Saves!CancelDelete, Saves!Work
  <1>b. JobsShaped' /\ (\A k \in (jobs' \ jobs) \cup (jobs \ jobs') : SavesHarmless(k)) /\ SavesTasks'
    BY <1>a DEF JobsShaped, SavesTasks, Saves!InFlight
  <1>c. (SavesPage' /\ (pg'.restore = pg.restore \/ ~InFlight({"restore"}))) => SavesInv'
    BY <1>a, <1>b, SavesFrame
  <1>1. CASE \E e \in pg.list : Saves!OpenRestore(e)
    BY <1>1, <1>a, <1>c DEF Saves!OpenRestore, Saves!Open, SavesRestore, InFlight
  <1>2. CASE \E e \in pg.list : Saves!OpenDelete(e)
    BY <1>2, <1>a, <1>c DEF Saves!OpenDelete
  <1>3. CASE Saves!CancelRestore
    BY <1>3, <1>a, <1>c DEF Saves!CancelRestore, SavesRestore, InFlight
  <1>4. CASE Saves!CancelDelete
    BY <1>4, <1>a, <1>c DEF Saves!CancelDelete
  <1>5. CASE Saves!Work
    BY <1>5, <1>a, <1>c DEF Saves!Work
  <1> QED BY <1>1, <1>2, <1>3, <1>4, <1>5

LEMMA SavesSteps == ASSUME SavesInv, Saves!Next PROVE SavesInv'
  BY SavesServes, SavesReadsEnd, SavesRefresh, SavesRestored, SavesConfirms, SavesContinues, SavesSends, SavesClicks
     DEF Saves!Next

LEMMA SavesHolds == SavesInv => Saves!WaitingHasJob /\ Saves!RestoreShown
  <1> SUFFICES ASSUME SavesInv PROVE Saves!WaitingHasJob /\ Saves!RestoreShown
    OBVIOUS
  <1>1. \A a : Full(a) => Saves!InFlight(Saves!Reads)
    BY DEF Full, Saves!InFlight, Saves!Reads
  <1>2. pg.loading => Saves!InFlight(Saves!Reads)
    BY <1>1 DEF SavesInv, SavesLoads
  <1>3. pg.restoring => Saves!InFlight({"restore"} \cup Saves!Reads)
    BY <1>1 DEF SavesInv, SavesRestore, Saves!InFlight, InFlight
  <1> QED BY <1>2, <1>3 DEF SavesInv, SavesTasks, SavesRestore, Saves!WaitingHasJob, Saves!RestoreShown

-----------------------------------------------------------------------------
(* The retention page (RetentionDesk) *)

PurgePage ==
    DOMAIN pg = {"loading", "form", "saving", "running", "targets", "filter", "backup", "previewing", "preview",
                 "confirm", "purging", "result"}

(* No two backups of the index are of the same time, and so none share a file. *)
PurgeIndex(s) ==
    /\ DOMAIN s = {"data", "index", "files", "next", "policy", "last"} /\ s.next \in Nat
    /\ \A e \in s.index : e.id \in Nat /\ e.id < s.next /\ e.at \in Nat /\ e.name = <<"full", e.at>>
    /\ \A e, f \in s.index : e.at = f.at => e = f

PurgeServer ==
    /\ clicks \in Nat /\ clicks >= 1
    /\ PurgeIndex(srv) /\ \A e \in srv.index : e.at <= clicks

(* A backup made for a purge: the newest, and in its file. *)
Kept(s, o) == o \in s.index /\ o.at >= 1 /\ Purge!Intact(s, o) /\ \A e \in s.index : e.at <= o.at

(* The one purge there is: what it was asked, and what it found or made. *)
PurgeJobs ==
    /\ \A j \in jobs : j.h = "purge" => pg.confirm /\ pg.purging /\ j.a.c = Purge!Criteria
    /\ \A j, k \in jobs : (j.h = "purge" /\ k.h = "purge") => j = k
    /\ \A j \in jobs : (j.h = "purge" /\ j.res = "sent") => \A e \in srv.index : e.at < clicks
    /\ \A j \in jobs : (j.h = "purge" /\ j.res = "backed" /\ j.got.own # None) => Kept(srv, j.got.own)

PurgeInv == JobsShaped /\ PurgePage /\ PurgeServer /\ PurgeJobs /\ Purge!WaitingHasJob

LEMMA PurgeStarts == ASSUME Purge!Init PROVE PurgeInv
  <1>1. /\ PurgePage /\ pg.saving = FALSE /\ pg.running = FALSE /\ pg.previewing = FALSE /\ pg.purging = FALSE
        /\ (jobs = {} /\ pg.loading = FALSE) \/ jobs = {Job("fetch", [of |-> None])}
    <2>1. PICK p : /\ p = [loading |-> TRUE, form |-> None, saving |-> FALSE, running |-> FALSE,
                           targets |-> {"logs"}, filter |-> "old", backup |-> TRUE, previewing |-> FALSE,
                           preview |-> None, confirm |-> FALSE, purging |-> FALSE, result |-> None]
                   /\ \/ pg = p /\ jobs = {Job("fetch", [of |-> None])}
                      \/ /\ pg = [p EXCEPT !.loading = FALSE, !.form = srv.policy, !.targets = Purge!Targets,
                                           !.filter = "all"]
                         /\ jobs = {}
      BY DEF Purge!Init, Purge!Reread, Purge!Job, Job
    <2>2. CASE pg = p /\ jobs = {Job("fetch", [of |-> None])}
      BY <2>1, <2>2 DEF PurgePage
    <2>3. CASE pg = [p EXCEPT !.loading = FALSE, !.form = srv.policy, !.targets = Purge!Targets, !.filter = "all"]
               /\ jobs = {}
      BY <2>1, <2>3 DEF PurgePage
    <2> QED BY <2>1, <2>2, <2>3
  <1>2. JobsShaped /\ (\A j \in jobs : j.h = "fetch") /\ (pg.loading => Purge!InFlight({"fetch"}))
    BY <1>1, NewJob DEF JobsShaped, Purge!InFlight
  <1>3. PurgeServer
    <2>1. clicks = 1
      BY DEF Purge!Init
    <2>2. PICK s, p, l :
             /\ s = [data |-> {r \in Purge!Rows : r.old}, index |-> {}, files |-> {}, next |-> 0,
                     policy |-> p, last |-> l]
             /\ srv = Purge!Write(s, Purge!Entry(s, "full", 0, FALSE), s.data)
      BY DEF Purge!Init
    <2>3. PICK e : e = Purge!Entry(s, "full", 0, FALSE)
      OBVIOUS
    <2>4. e.id = 0 /\ e.at = 0 /\ e.name = <<"full", 0>>
      BY <2>2, <2>3 DEF Purge!Entry
    <2>5. DOMAIN srv = {"data", "index", "files", "next", "policy", "last"} /\ srv.index = {e} /\ srv.next = 1
      BY <2>2, <2>3 DEF Purge!Write
    <2> QED BY <2>1, <2>4, <2>5 DEF PurgeServer, PurgeIndex
  <1> QED BY <1>1, <1>2, <1>3 DEF PurgeInv, PurgeJobs, Purge!WaitingHasJob

(* What a purge was asked is still behind its dialog. *)
PurgeSame ==
    pg'.confirm = pg.confirm /\ pg'.purging = pg.purging /\ pg'.targets = pg.targets /\ pg'.filter = pg.filter

PurgeHarmless(k) == k.h # "purge"

LEMMA PurgeFrame ==
  ASSUME PurgeInv, JobsShaped', \A k \in jobs' \ jobs : PurgeHarmless(k), clicks' \in {clicks, clicks + 1},
         srv'.index = srv.index, srv'.files = srv.files, srv'.next = srv.next, DOMAIN srv' = DOMAIN srv,
         PurgePage', PurgeSame \/ ~InFlight({"purge"})', Purge!WaitingHasJob'
  PROVE  PurgeInv' /\ Purge!BackupOutlivesPurgeStep
  <1> USE DEF PurgeInv, PurgeHarmless
  <1>1. clicks \in Nat /\ clicks' \in Nat /\ \A n \in Nat : (n <= clicks => n <= clicks') /\ (n < clicks => n < clicks')
    BY DEF PurgeServer
  <1>2. PurgeServer'
    <2>1. clicks' >= 1
      BY DEF PurgeServer
    <2> QED BY <1>1, <2>1 DEF PurgeServer, PurgeIndex
  <1>3. PurgeJobs'
    <2>1. \A j \in jobs' : j.h = "purge" => j \in jobs /\ PurgeSame
      BY DEF InFlight
    <2>2. \A o : Kept(srv, o) => Kept(srv', o)
      BY DEF Kept, Purge!Intact
    <2>3. \A j \in jobs' : (j.h = "purge" /\ j.res = "sent") => \A e \in srv'.index : e.at < clicks'
      BY <1>1, <2>1 DEF PurgeJobs, PurgeServer, PurgeIndex
    <2> QED BY <2>1, <2>2, <2>3 DEF PurgeJobs, PurgeSame, Purge!Criteria
  <1>4. Purge!BackupOutlivesPurgeStep
    BY DEF Purge!BackupOutlivesPurgeStep
  <1> QED BY <1>2, <1>3, <1>4

(* Entries that go take their files, and no file of the entries that stay. *)
LEMMA PurgeErases ==
  ASSUME NEW s, PurgeIndex(s), NEW gone, NEW t, t = Purge!EraseAll(s, gone)
  PROVE  /\ PurgeIndex(t) /\ t.index \subseteq s.index /\ t.next = s.next
         /\ gone \subseteq s.index => \A o : (o \notin gone /\ Kept(s, o)) => Kept(t, o)
  <1>1. /\ DOMAIN t = {"data", "index", "files", "next", "policy", "last"} /\ t.next = s.next
        /\ t.index = s.index \ gone /\ t.files = {f \in s.files : \A e \in gone : f.name # e.name}
    BY DEF Purge!EraseAll, PurgeIndex
  <1>2. PurgeIndex(t) /\ t.index \subseteq s.index
    BY <1>1 DEF PurgeIndex
  <1>3. ASSUME gone \subseteq s.index, NEW o, o \notin gone, Kept(s, o) PROVE Kept(t, o)
    <2>1. o \in t.index /\ o.at >= 1 /\ \A e \in t.index : e.at <= o.at
      BY <1>1, <1>3 DEF Kept
    <2>2. \A e \in gone : e.name # o.name
      <3>1. ASSUME NEW e \in gone, e.name = o.name PROVE FALSE
        <4>1. e \in s.index /\ o \in s.index /\ e # o
          BY <1>3 DEF Kept
        <4>2. e.name = <<"full", e.at>> /\ o.name = <<"full", o.at>>
          BY <4>1 DEF PurgeIndex
        <4>a. PICK a, b : a = e.at /\ b = o.at
          OBVIOUS
        <4>b. <<"full", a>> = <<"full", b>>
          BY <3>1, <4>2, <4>a
        <4>3. e.at = o.at
          BY <4>a, <4>b
        <4> QED BY <4>1, <4>3 DEF PurgeIndex
      <3> QED BY <3>1
    <2>3. Purge!Intact(t, o)
      BY <1>1, <1>3, <2>2 DEF Kept, Purge!Intact
    <2> QED BY <2>1, <2>3 DEF Kept
  <1> QED BY <1>1, <1>2, <1>3

(* A clean-up keeps the newest backup when it is from after the page was opened. *)
LEMMA PurgeCleans ==
  ASSUME PurgeServer, NEW t, t = Purge!Cleaned(srv)
  PROVE  /\ PurgeIndex(t) /\ t.index \subseteq srv.index
         /\ \A o : Kept(srv, o) => Kept(t, o)
  <1>1. PICK old, aged, over, data, last :
           /\ old = {e \in srv.index : e.at = 0} /\ aged = Purge!EraseAll(srv, old)
           /\ over = {e \in aged.index : \E f \in aged.index : e.at < f.at}
           /\ t = [Purge!EraseAll(aged, over) EXCEPT !.data = data, !.last = last]
    BY DEF Purge!Cleaned
  <1>2. PICK u : u = Purge!EraseAll(aged, over)
    OBVIOUS
  <1>3. PurgeIndex(srv) /\ old \subseteq srv.index /\ over \subseteq aged.index
    BY <1>1 DEF PurgeServer
  <1>4. PurgeIndex(aged) /\ aged.index \subseteq srv.index /\ \A o : (o \notin old /\ Kept(srv, o)) => Kept(aged, o)
    BY <1>1, <1>3, PurgeErases
  <1>5. PurgeIndex(u) /\ u.index \subseteq aged.index /\ \A o : (o \notin over /\ Kept(aged, o)) => Kept(u, o)
    BY <1>1, <1>2, <1>3, <1>4, PurgeErases
  <1>6. ASSUME NEW o, Kept(srv, o) PROVE Kept(u, o)
    <2>1. o \notin old
      <3>1. o.at # 0
        BY <1>6 DEF Kept, PurgeServer, PurgeIndex
      <3> QED BY <1>1, <3>1
    <2>2. Kept(aged, o)
      BY <1>4, <1>6, <2>1
    <2>3. o \notin over
      <3>1. \A f \in aged.index : f.at \in Nat /\ f.at <= o.at /\ o.at \in Nat
        BY <1>4, <2>2 DEF Kept, PurgeIndex
      <3>2. \A f \in aged.index : ~(o.at < f.at)
        BY <3>1
      <3> QED BY <1>1, <3>2
    <2> QED BY <1>5, <2>2, <2>3
  <1>7. DOMAIN t = DOMAIN u /\ t.index = u.index /\ t.files = u.files /\ t.next = u.next
    BY <1>1, <1>2, <1>5 DEF PurgeIndex
  <1>8. PurgeIndex(t)
    BY <1>5, <1>7 DEF PurgeIndex
  <1>9. \A o : Kept(u, o) => Kept(t, o)
    BY <1>7 DEF Kept, Purge!Intact
  <1> QED BY <1>4, <1>5, <1>6, <1>7, <1>8, <1>9

(* A job that is answered stays the call it was; what goes from the index is not what a purge has made. *)
LEMMA PurgeAnswers ==
  ASSUME PurgeInv, NEW j \in jobs, NEW r, NEW g, jobs' = (jobs \ {j}) \cup {[j EXCEPT !.res = r, !.got = g]},
         UNCHANGED pg, clicks' \in {clicks, clicks + 1},
         PurgeIndex(srv'), srv'.index \subseteq srv.index, \A o : Kept(srv, o) => Kept(srv', o),
         j.h # "purge" \/ r = "failed" \/ (r = "backed" /\ g.own = None)
  PROVE  PurgeInv' /\ Purge!BackupOutlivesPurgeStep
  <1> USE DEF PurgeInv
  <1>1. PICK k : k = [j EXCEPT !.res = r, !.got = g]
    OBVIOUS
  <1>2. /\ jobs' = (jobs \ {j}) \cup {k} /\ k.h = j.h /\ k.a = j.a /\ k.res = r /\ k.got = g
        /\ DOMAIN k = JobFields
    BY <1>1 DEF JobsShaped, JobFields
  <1>3. JobsShaped' /\ \A H : Purge!InFlight(H) => Purge!InFlight(H)'
    BY <1>2 DEF JobsShaped, Purge!InFlight
  <1>4. clicks \in Nat /\ clicks' \in Nat /\ \A n \in Nat : (n <= clicks => n <= clicks') /\ (n < clicks => n < clicks')
    BY DEF PurgeServer
  <1>5. PurgeServer'
    <2>1. clicks' >= 1
      BY DEF PurgeServer
    <2> QED BY <1>4, <2>1 DEF PurgeServer, PurgeIndex
  <1>6. PurgeJobs'
    <2>1. /\ \A i \in jobs' : i.h = "purge" => pg.confirm /\ pg.purging /\ i.a.c = Purge!Criteria
          /\ \A i, m \in jobs' : (i.h = "purge" /\ m.h = "purge") => i = m
      BY <1>2 DEF PurgeJobs
    <2>2. \A i \in jobs' : (i.h = "purge" /\ i.res = "sent") => i \in jobs
      BY <1>2
    <2>3. \A i \in jobs' : (i.h = "purge" /\ i.res = "sent") => \A e \in srv'.index : e.at < clicks'
      BY <1>4, <2>2 DEF PurgeJobs, PurgeServer, PurgeIndex
    <2>4. \A i \in jobs' : (i.h = "purge" /\ i.res = "backed" /\ i.got.own # None) => i \in jobs
      BY <1>2
    <2>5. Purge!Criteria' = Purge!Criteria
      BY DEF Purge!Criteria
    <2> QED BY <2>1, <2>3, <2>4, <2>5 DEF PurgeJobs
  <1>7. PurgePage' /\ Purge!WaitingHasJob'
    BY <1>3 DEF PurgePage, Purge!WaitingHasJob
  <1>8. Purge!BackupOutlivesPurgeStep
    BY <1>2 DEF Purge!BackupOutlivesPurgeStep
  <1> QED BY <1>3, <1>5, <1>6, <1>7, <1>8

LEMMA PurgeServes ==
  ASSUME PurgeInv, NEW j \in jobs,
         \/ Purge!ServeFetch(j) \/ Purge!ServeCleanup(j) \/ Purge!ServeSave(j) \/ Purge!ServePreview(j)
         \/ Purge!Fail(j)
  PROVE  PurgeInv' /\ Purge!BackupOutlivesPurgeStep
  <1>a. PurgeServer /\ PurgeIndex(srv)
    BY DEF PurgeInv, PurgeServer
  <1>b. srv' = srv => PurgeIndex(srv') /\ srv'.index \subseteq srv.index /\ \A o : Kept(srv, o) => Kept(srv', o)
    BY <1>a
  <1>c. srv' = Purge!Cleaned(srv) =>
          PurgeIndex(srv') /\ srv'.index \subseteq srv.index /\ \A o : Kept(srv, o) => Kept(srv', o)
    BY <1>a, PurgeCleans
  <1>1. CASE Purge!ServeFetch(j)
    <2>1. j.h # "purge" /\ (srv' = srv \/ srv' = Purge!Cleaned(srv))
      BY <1>1 DEF Purge!ServeFetch, Purge!Sent
    <2> QED BY <1>1, <1>b, <1>c, <2>1, PurgeAnswers DEF Purge!ServeFetch, Purge!Answer
  <1>2. CASE Purge!ServeCleanup(j)
    <2>1. j.h # "purge" /\ srv' = Purge!Cleaned(srv)
      BY <1>2 DEF Purge!ServeCleanup, Purge!Sent
    <2> QED BY <1>2, <1>c, <2>1, PurgeAnswers DEF Purge!ServeCleanup, Purge!Answer
  <1>3. CASE Purge!ServeSave(j)
    <2>1. j.h # "purge" /\ srv' = [srv EXCEPT !.policy = j.a.policy]
      BY <1>3 DEF Purge!ServeSave, Purge!Sent
    <2>2. srv'.index = srv.index /\ srv'.files = srv.files /\ srv'.next = srv.next /\ DOMAIN srv' = DOMAIN srv
      BY <1>a, <2>1 DEF PurgeIndex
    <2>3. PurgeIndex(srv') /\ \A o : Kept(srv, o) => Kept(srv', o)
      BY <1>a, <2>2 DEF PurgeIndex, Kept, Purge!Intact
    <2> QED BY <1>3, <2>1, <2>2, <2>3, PurgeAnswers DEF Purge!ServeSave, Purge!Answer
  <1>4. CASE Purge!ServePreview(j)
    <2>1. j.h # "purge"
      BY <1>4 DEF Purge!ServePreview, Purge!Sent
    <2> QED BY <1>4, <1>b, <2>1, PurgeAnswers DEF Purge!ServePreview, Purge!Answer
  <1>5. CASE Purge!Fail(j)
    BY <1>5, <1>b, PurgeAnswers DEF Purge!Fail
  <1> QED BY <1>1, <1>2, <1>3, <1>4, <1>5

(* execute_selective_purge: the backup first, of a time of its own; ... *)
LEMMA PurgeBacksUp ==
  ASSUME PurgeInv, NEW j \in jobs, Purge!ServeBackup(j)
  PROVE  PurgeInv' /\ Purge!BackupOutlivesPurgeStep
  <1> USE DEF PurgeInv
  <1>1. j.h = "purge" /\ j.res = "sent" /\ UNCHANGED pg /\ \A i \in jobs : i.h = "purge" => i = j
    BY DEF Purge!ServeBackup, Purge!Sent, Purge!Answer, PurgeJobs
  <1>2. CASE srv' = Purge!Backup(srv, "full", FALSE) /\ Purge!Answer(j, "backed", [own |-> Purge!EntryOf(srv', srv.next)])
    <2>1. PICK o : o = Purge!Entry(srv, "full", clicks, FALSE)
      OBVIOUS
    <2>2. o.id = srv.next /\ o.at = clicks /\ o.name = <<"full", clicks>>
      BY <2>1 DEF Purge!Entry
    <2>a. PICK F, f : /\ f = [name |-> o.name, id |-> o.id, data |-> srv.data]
                      /\ srv' = [srv EXCEPT !.index = @ \cup {o}, !.next = @ + 1, !.files = F \cup {f}]
      BY <1>2, <2>1 DEF Purge!Backup, Purge!Write
    <2>b. DOMAIN srv = {"data", "index", "files", "next", "policy", "last"}
      BY DEF PurgeServer, PurgeIndex
    <2>c. srv'.files = F \cup {f} /\ f.name = o.name /\ f.id = o.id
      BY <2>a, <2>b
    <2>3. /\ srv'.index = srv.index \cup {o} /\ srv'.next = srv.next + 1 /\ DOMAIN srv' = DOMAIN srv
          /\ \E g \in srv'.files : g.name = o.name /\ g.id = o.id
      BY <2>a, <2>b, <2>c
    <2>4. \A e \in srv.index : e.at \in Nat /\ e.at < clicks /\ e.id \in Nat /\ e.id < srv.next
      BY <1>1 DEF PurgeServer, PurgeIndex, PurgeJobs
    <2>5. clicks \in Nat /\ clicks >= 1 /\ srv.next \in Nat /\ UNCHANGED clicks
      BY <1>2 DEF PurgeServer, PurgeIndex, Purge!Answer
    <2>6. \A e \in srv.index : e.id # srv.next /\ e.at # clicks /\ e.at <= clicks /\ e.id < srv.next + 1
      BY <2>4, <2>5
    <2>7. Purge!EntryOf(srv', srv.next) = o
      BY <2>2, <2>3, <2>6 DEF Purge!EntryOf
    <2>8. PurgeServer'
      <3>1. srv.next + 1 \in Nat /\ srv.next < srv.next + 1 /\ clicks <= clicks
        BY <2>5
      <3>2. \A e \in srv'.index : e.id \in Nat /\ e.id < srv'.next /\ e.at \in Nat /\ e.name = <<"full", e.at>> /\ e.at <= clicks
        BY <2>2, <2>3, <2>4, <2>5, <2>6, <3>1 DEF PurgeServer, PurgeIndex
      <3>3. \A e, g \in srv'.index : e.at = g.at => e = g
        BY <2>2, <2>3, <2>6 DEF PurgeServer, PurgeIndex
      <3> QED BY <2>3, <2>5, <3>1, <3>2, <3>3 DEF PurgeServer, PurgeIndex
    <2>9. Kept(srv', o)
      <3>1. \A e \in srv'.index : e.at <= o.at
        BY <2>2, <2>3, <2>5, <2>6
      <3> QED BY <2>2, <2>3, <2>5, <3>1 DEF Kept, Purge!Intact
    <2>10. PICK k : k = [j EXCEPT !.res = "backed", !.got = [own |-> o]]
      OBVIOUS
    <2>11. /\ jobs' = (jobs \ {j}) \cup {k} /\ k.h = "purge" /\ k.a = j.a /\ k.res = "backed" /\ k.got = [own |-> o]
           /\ DOMAIN k = JobFields
      BY <1>1, <1>2, <2>7, <2>10 DEF JobsShaped, JobFields, Purge!Answer
    <2>12. JobsShaped' /\ \A H : Purge!InFlight(H) => Purge!InFlight(H)'
      BY <1>1, <2>11 DEF JobsShaped, Purge!InFlight
    <2>13. \A i \in jobs' : i.h = "purge" => i = k
      BY <1>1, <2>11
    <2>14. PurgeJobs'
      BY <1>1, <2>9, <2>11, <2>13 DEF PurgeJobs, Purge!Criteria
    <2>15. PurgePage' /\ Purge!WaitingHasJob'
      BY <1>1, <2>12 DEF PurgePage, Purge!WaitingHasJob
    <2>16. Purge!BackupOutlivesPurgeStep
      BY <2>11, <2>13 DEF Purge!BackupOutlivesPurgeStep
    <2> QED BY <2>8, <2>12, <2>14, <2>15, <2>16
  <1>3. CASE /\ UNCHANGED srv /\ clicks' = clicks + 1
             /\ jobs' = (jobs \ {j}) \cup {[j EXCEPT !.res = "backed", !.got = [own |-> None]]}
    <2>1. PurgeIndex(srv') /\ srv'.index \subseteq srv.index /\ \A o : Kept(srv, o) => Kept(srv', o)
      BY <1>3 DEF PurgeServer
    <2>2. [own |-> None].own = None
      OBVIOUS
    <2> QED BY <1>1, <1>3, <2>1, <2>2, PurgeAnswers
  <1> QED BY <1>2, <1>3 DEF Purge!ServeBackup

(* ... then the purge, which leaves it where it is. *)
LEMMA PurgePurges ==
  ASSUME PurgeInv, NEW j \in jobs, Purge!ServePurge(j)
  PROVE  PurgeInv' /\ Purge!BackupOutlivesPurgeStep
  <1> USE DEF PurgeInv
  <1>1. j.h = "purge" /\ j.res \in {"sent", "backed"} /\ UNCHANGED <<pg, clicks>> /\ \A i \in jobs : i.h = "purge" => i = j
    BY DEF Purge!ServePurge, Purge!Answer, PurgeJobs
  <1>2. PICK own, gone, t, data :
           /\ own = (IF j.res = "backed" THEN j.got.own ELSE None) /\ gone = Purge!PurgedBackups(srv, j.a.c, own)
           /\ t = Purge!EraseAll(srv, gone) /\ srv' = [t EXCEPT !.data = data]
           /\ jobs' = (jobs \ {j}) \cup {[j EXCEPT !.res = "ok", !.got = [own |-> own]]}
    BY DEF Purge!ServePurge, Purge!Answer
  <1>3. gone \subseteq srv.index /\ own \notin gone
    BY <1>2 DEF Purge!PurgedBackups
  <1>4. /\ PurgeIndex(t) /\ t.index \subseteq srv.index
        /\ own # None => Kept(t, own)
    <2>1. own # None => Kept(srv, own)
      BY <1>1, <1>2 DEF PurgeJobs
    <2>2. PurgeIndex(srv)
      BY DEF PurgeServer
    <2> QED BY <1>2, <1>3, <2>1, <2>2, PurgeErases
  <1>5. srv'.index = t.index /\ srv'.files = t.files /\ srv'.next = t.next /\ DOMAIN srv' = DOMAIN t
    BY <1>2, <1>4 DEF PurgeIndex
  <1>6. PurgeServer'
    BY <1>1, <1>4, <1>5 DEF PurgeServer, PurgeIndex
  <1>7. own # None => Purge!Intact(srv', own)
    BY <1>4, <1>5 DEF Kept, Purge!Intact
  <1>8. PICK k : k = [j EXCEPT !.res = "ok", !.got = [own |-> own]]
    OBVIOUS
  <1>9. /\ jobs' = (jobs \ {j}) \cup {k} /\ k.h = "purge" /\ k.a = j.a /\ k.res = "ok" /\ k.got = [own |-> own]
        /\ DOMAIN k = JobFields
    BY <1>1, <1>2, <1>8 DEF JobsShaped, JobFields
  <1>10. JobsShaped' /\ \A H : Purge!InFlight(H) => Purge!InFlight(H)'
    BY <1>1, <1>9 DEF JobsShaped, Purge!InFlight
  <1>11. \A i \in jobs' : i.h = "purge" => i = k
    BY <1>1, <1>9
  <1>12. PurgeJobs'
    BY <1>1, <1>9, <1>11 DEF PurgeJobs, Purge!Criteria
  <1>13. PurgePage' /\ Purge!WaitingHasJob'
    BY <1>1, <1>10 DEF PurgePage, Purge!WaitingHasJob
  <1>14. Purge!BackupOutlivesPurgeStep
    BY <1>7, <1>9, <1>11 DEF Purge!BackupOutlivesPurgeStep
  <1> QED BY <1>6, <1>10, <1>12, <1>13, <1>14

LEMMA PurgeCalls ==
  ASSUME JobsShaped, NEW h, NEW a, Purge!Start(h, a)
  PROVE  /\ JobsShaped'
         /\ \A k \in jobs' \ jobs : k = Job(h, a)
         /\ jobs \subseteq jobs' /\ clicks' = clicks + 1
         /\ \A H : Purge!InFlight(H) \/ h \in H => Purge!InFlight(H)'
  <1>1. jobs' = jobs \cup {Job(h, a)} /\ clicks' = clicks + 1
    BY DEF Purge!Start, Purge!Job, Job
  <1>2. DOMAIN Job(h, a) = JobFields /\ Job(h, a).h = h
    BY NewJob
  <1> QED BY <1>1, <1>2, Started DEF Purge!InFlight, InFlight

(* A purge is sent from its dialog, when none is under way. *)
LEMMA PurgeExecutes ==
  ASSUME PurgeInv, Purge!ExecutePurge
  PROVE  PurgeInv' /\ Purge!BackupOutlivesPurgeStep
  <1> USE DEF PurgeInv
  <1>1. PICK k : k = Job("purge", [c |-> Purge!Criteria, backup |-> pg.backup])
    OBVIOUS
  <1>2. /\ jobs' = jobs \cup {k} /\ clicks' = clicks + 1 /\ UNCHANGED srv /\ pg.confirm /\ ~pg.purging
        /\ pg' = [pg EXCEPT !.purging = TRUE]
    BY <1>1 DEF Purge!ExecutePurge, Purge!Start, Purge!Job, Job
  <1>3. k.h = "purge" /\ k.a.c = Purge!Criteria /\ k.res = "sent" /\ DOMAIN k = JobFields
    BY <1>1, NewJob
  <1>4. \A i \in jobs' : i.h = "purge" => i = k
    BY <1>2 DEF PurgeJobs
  <1>5. JobsShaped' /\ \A H : (Purge!InFlight(H) \/ "purge" \in H) => Purge!InFlight(H)'
    BY <1>2, <1>3 DEF JobsShaped, Purge!InFlight
  <1>6. clicks \in Nat /\ clicks' \in Nat /\ clicks' >= 1 /\ \A n \in Nat : n <= clicks => n <= clicks' /\ n < clicks'
    BY <1>2 DEF PurgeServer
  <1>7. PurgeServer' /\ \A e \in srv'.index : e.at < clicks'
    BY <1>2, <1>6 DEF PurgeServer, PurgeIndex
  <1>8. PurgePage' /\ pg'.confirm = pg.confirm /\ pg'.purging = TRUE /\ Purge!Criteria' = Purge!Criteria
    BY <1>2 DEF PurgePage, Purge!Criteria
  <1>9. PurgeJobs'
    BY <1>2, <1>3, <1>4, <1>7, <1>8 DEF PurgeJobs
  <1>10. Purge!WaitingHasJob'
    BY <1>2, <1>5 DEF Purge!WaitingHasJob, PurgePage
  <1>11. Purge!BackupOutlivesPurgeStep
    BY <1>3, <1>4 DEF Purge!BackupOutlivesPurgeStep
  <1> QED BY <1>5, <1>7, <1>8, <1>9, <1>10, <1>11

LEMMA PurgeContinues ==
  ASSUME PurgeInv, NEW j \in jobs,
         \/ Purge!OnFetched(j)
         \/ Purge!OnSaved(j)
         \/ Purge!OnCleaned(j)
         \/ Purge!OnPreviewed(j)
         \/ Purge!OnPurged(j)
  PROVE  PurgeInv' /\ Purge!BackupOutlivesPurgeStep
  <1> USE DEF PurgeInv, PurgePage, PurgeSame, Purge!Done, Purge!Then
  <1>1. CASE Purge!OnFetched(j)
    <2>1. JobsShaped' /\ \A k \in jobs' \ jobs : PurgeHarmless(k)
      BY <1>1 DEF JobsShaped, JobFields, PurgeHarmless, Purge!OnFetched
    <2>3. Purge!WaitingHasJob'
      BY <1>1 DEF Purge!WaitingHasJob, Purge!InFlight, JobsShaped, JobFields, Purge!OnFetched
    <2>4. PurgePage' /\ PurgeSame /\ UNCHANGED <<srv, clicks>>
      BY <1>1 DEF Purge!OnFetched
    <2> QED BY <2>1, <2>3, <2>4, PurgeFrame
  <1>2. CASE Purge!OnSaved(j)
    <2>1. JobsShaped' /\ \A k \in jobs' \ jobs : PurgeHarmless(k)
      BY <1>2 DEF JobsShaped, JobFields, PurgeHarmless, Purge!OnSaved
    <2>3. Purge!WaitingHasJob'
      BY <1>2 DEF Purge!WaitingHasJob, Purge!InFlight, JobsShaped, JobFields, Purge!OnSaved
    <2>4. PurgePage' /\ PurgeSame /\ UNCHANGED <<srv, clicks>>
      BY <1>2 DEF Purge!OnSaved
    <2> QED BY <2>1, <2>3, <2>4, PurgeFrame
  <1>3. CASE Purge!OnCleaned(j)
    <2>1. JobsShaped' /\ \A k \in jobs' \ jobs : PurgeHarmless(k)
      BY <1>3 DEF JobsShaped, JobFields, PurgeHarmless, Purge!OnCleaned, Purge!Reread, Purge!Job
    <2>2. j.res = "ok" => \E x : Job("fetch", x) \in jobs'
      BY <1>3 DEF Purge!OnCleaned, Purge!Job, Job, Purge!Reread
    <2>3. Purge!WaitingHasJob'
      <3>1. /\ pg'.loading => pg.loading \/ j.res = "ok"
            /\ pg'.saving = pg.saving /\ pg'.running = FALSE /\ pg'.previewing = pg.previewing
            /\ pg'.purging = pg.purging /\ j.h = "cleanup" /\ jobs \ {j} \subseteq jobs'
        BY <1>3 DEF Purge!OnCleaned
      <3>2. pg'.loading => Purge!InFlight({"fetch"})'
        BY <2>2, <3>1, NewJob DEF Purge!WaitingHasJob, Purge!InFlight
      <3> QED BY <3>1, <3>2 DEF Purge!WaitingHasJob, Purge!InFlight
    <2>4. PurgePage' /\ PurgeSame /\ UNCHANGED <<srv, clicks>>
      BY <1>3 DEF Purge!OnCleaned, Purge!Reread
    <2> QED BY <2>1, <2>3, <2>4, PurgeFrame
  <1>4. CASE Purge!OnPreviewed(j)
    <2>1. JobsShaped' /\ \A k \in jobs' \ jobs : PurgeHarmless(k)
      BY <1>4 DEF JobsShaped, JobFields, PurgeHarmless, Purge!OnPreviewed
    <2>3. Purge!WaitingHasJob'
      BY <1>4 DEF Purge!WaitingHasJob, Purge!InFlight, JobsShaped, JobFields, Purge!OnPreviewed
    <2>4. PurgePage' /\ PurgeSame /\ UNCHANGED <<srv, clicks>>
      BY <1>4 DEF Purge!OnPreviewed
    <2> QED BY <2>1, <2>3, <2>4, PurgeFrame
  <1>5. CASE Purge!OnPurged(j)
    <2>1. JobsShaped' /\ \A k \in jobs' \ jobs : PurgeHarmless(k)
      BY <1>5 DEF JobsShaped, JobFields, PurgeHarmless, Purge!OnPurged, Purge!Reread, Purge!Job
    <2>2. j.res = "ok" => \E x : Job("fetch", x) \in jobs'
      BY <1>5 DEF Purge!OnPurged, Purge!Job, Job, Purge!Reread
    <2>3. Purge!WaitingHasJob'
      BY <1>5, <2>2, NewJob DEF Purge!WaitingHasJob, Purge!InFlight, Purge!OnPurged, Purge!Reread
    <2>4. PurgePage' /\ ~InFlight({"purge"})' /\ UNCHANGED <<srv, clicks>>
      BY <1>5 DEF Purge!OnPurged, PurgeJobs, InFlight, Purge!Job, Purge!Reread
    <2> QED BY <2>1, <2>3, <2>4, PurgeFrame
  <1> QED BY <1>1, <1>2, <1>3, <1>4, <1>5

LEMMA PurgeSends ==
  ASSUME PurgeInv,
         \/ Purge!Refresh
         \/ Purge!PreviewPurge
         \/ Purge!SavePolicy
         \/ Purge!RunAutoCleanup
  PROVE  PurgeInv' /\ Purge!BackupOutlivesPurgeStep
  <1> USE DEF PurgeInv, PurgePage, PurgeSame
  <1>1. CASE Purge!Refresh
    <2>1. PICK a : Purge!Start("fetch", a) /\ UNCHANGED srv
      BY <1>1 DEF Purge!Refresh
    <2>2. JobsShaped' /\ \A k \in jobs' \ jobs : PurgeHarmless(k)
      BY <2>1, PurgeCalls, NewJob DEF PurgeHarmless
    <2>3. \A H : Purge!InFlight(H) \/ "fetch" \in H => Purge!InFlight(H)'
      BY <2>1, PurgeCalls
    <2>a. clicks' \in {clicks, clicks + 1}
      BY <2>1, PurgeCalls
    <2>4. PurgePage' /\ PurgeSame /\ Purge!WaitingHasJob'
      BY <1>1, <2>3 DEF Purge!Refresh, Purge!WaitingHasJob
    <2> QED BY <2>1, <2>2, <2>4, <2>a, PurgeFrame
  <1>2. CASE Purge!PreviewPurge
    <2>1. PICK a : Purge!Start("preview", a) /\ UNCHANGED srv
      BY <1>2 DEF Purge!PreviewPurge
    <2>2. JobsShaped' /\ \A k \in jobs' \ jobs : PurgeHarmless(k)
      BY <2>1, PurgeCalls, NewJob DEF PurgeHarmless
    <2>3. \A H : Purge!InFlight(H) \/ "preview" \in H => Purge!InFlight(H)'
      BY <2>1, PurgeCalls
    <2>a. clicks' \in {clicks, clicks + 1}
      BY <2>1, PurgeCalls
    <2>4. PurgePage' /\ PurgeSame /\ Purge!WaitingHasJob'
      BY <1>2, <2>3 DEF Purge!PreviewPurge, Purge!WaitingHasJob
    <2> QED BY <2>1, <2>2, <2>4, <2>a, PurgeFrame
  <1>3. CASE Purge!SavePolicy
    <2>1. PICK a : Purge!Start("save", a) /\ UNCHANGED srv
      BY <1>3 DEF Purge!SavePolicy
    <2>2. JobsShaped' /\ \A k \in jobs' \ jobs : PurgeHarmless(k)
      BY <2>1, PurgeCalls, NewJob DEF PurgeHarmless
    <2>3. \A H : Purge!InFlight(H) \/ "save" \in H => Purge!InFlight(H)'
      BY <2>1, PurgeCalls
    <2>a. clicks' \in {clicks, clicks + 1}
      BY <2>1, PurgeCalls
    <2>4. PurgePage' /\ PurgeSame /\ Purge!WaitingHasJob'
      BY <1>3, <2>3 DEF Purge!SavePolicy, Purge!WaitingHasJob
    <2> QED BY <2>1, <2>2, <2>4, <2>a, PurgeFrame
  <1>4. CASE Purge!RunAutoCleanup
    <2>1. PICK a : Purge!Start("cleanup", a) /\ UNCHANGED srv
      BY <1>4 DEF Purge!RunAutoCleanup
    <2>2. JobsShaped' /\ \A k \in jobs' \ jobs : PurgeHarmless(k)
      BY <2>1, PurgeCalls, NewJob DEF PurgeHarmless
    <2>3. \A H : Purge!InFlight(H) \/ "cleanup" \in H => Purge!InFlight(H)'
      BY <2>1, PurgeCalls
    <2>a. clicks' \in {clicks, clicks + 1}
      BY <2>1, PurgeCalls
    <2>4. PurgePage' /\ PurgeSame /\ Purge!WaitingHasJob'
      BY <1>4, <2>3 DEF Purge!RunAutoCleanup, Purge!WaitingHasJob
    <2> QED BY <2>1, <2>2, <2>4, <2>a, PurgeFrame
  <1> QED BY <1>1, <1>2, <1>3, <1>4

LEMMA PurgeClicks ==
  ASSUME PurgeInv,
         \/ \E t \in Purge!Targets : Purge!ToggleTarget(t)
         \/ \E f \in Purge!Filters : Purge!ChooseFilter(f)
         \/ Purge!SelectAllTargets
         \/ Purge!ToggleBackupFirst
         \/ Purge!OpenConfirm
         \/ Purge!CancelConfirm
         \/ Purge!DismissResult
         \/ Purge!EditPolicy
  PROVE  PurgeInv' /\ Purge!BackupOutlivesPurgeStep
  <1> USE DEF PurgeInv, PurgePage
  <1>a. UNCHANGED <<srv, jobs>> /\ clicks' \in {clicks, clicks + 1} /\ pg'.loading = pg.loading /\ pg'.saving = pg.saving /\ pg'.running = pg.running /\ pg'.previewing = pg.previewing /\ pg'.purging = pg.purging
    BY DEF Purge!Click, Purge!Local, Purge!ToggleTarget, Purge!ChooseFilter, Purge!SelectAllTargets, Purge!ToggleBackupFirst, Purge!OpenConfirm, Purge!CancelConfirm, Purge!DismissResult, Purge!EditPolicy
  <1>b. JobsShaped' /\ (\A k \in jobs' \ jobs : PurgeHarmless(k)) /\ Purge!WaitingHasJob'
    BY <1>a DEF JobsShaped, Purge!WaitingHasJob, Purge!InFlight
  <1>c. (PurgePage' /\ ~InFlight({"purge"})) => PurgeInv' /\ Purge!BackupOutlivesPurgeStep
    BY <1>a, <1>b, PurgeFrame DEF InFlight
  <1>1. CASE \E t \in Purge!Targets : Purge!ToggleTarget(t)
    BY <1>1, <1>a, <1>c DEF PurgeJobs, InFlight, Purge!Open, Purge!ToggleTarget
  <1>2. CASE \E f \in Purge!Filters : Purge!ChooseFilter(f)
    BY <1>2, <1>a, <1>c DEF PurgeJobs, InFlight, Purge!Open, Purge!ChooseFilter
  <1>3. CASE Purge!SelectAllTargets
    BY <1>3, <1>a, <1>c DEF PurgeJobs, InFlight, Purge!Open, Purge!SelectAllTargets
  <1>4. CASE Purge!ToggleBackupFirst
    BY <1>4, <1>a, <1>c DEF PurgeJobs, InFlight, Purge!Open, Purge!ToggleBackupFirst
  <1>5. CASE Purge!OpenConfirm
    BY <1>5, <1>a, <1>c DEF PurgeJobs, InFlight, Purge!Open, Purge!OpenConfirm
  <1>6. CASE Purge!CancelConfirm
    BY <1>6, <1>a, <1>c DEF PurgeJobs, InFlight, Purge!Open, Purge!CancelConfirm
  <1>7. CASE Purge!DismissResult
    BY <1>7, <1>a, <1>c DEF PurgeJobs, InFlight, Purge!Open, Purge!DismissResult
  <1>8. CASE Purge!EditPolicy
    BY <1>8, <1>a, <1>c DEF PurgeJobs, InFlight, Purge!Open, Purge!EditPolicy
  <1> QED BY <1>1, <1>2, <1>3, <1>4, <1>5, <1>6, <1>7, <1>8

LEMMA PurgeWork ==
  ASSUME PurgeInv, Purge!Work
  PROVE  PurgeInv' /\ Purge!BackupOutlivesPurgeStep
  <1> USE DEF PurgeInv
  <1>1. UNCHANGED <<pg, jobs>> /\ clicks' = clicks + 1 /\ \E d : srv' = [srv EXCEPT !.data = d]
    BY DEF Purge!Work
  <1>2. srv'.index = srv.index /\ srv'.files = srv.files /\ srv'.next = srv.next /\ DOMAIN srv' = DOMAIN srv
    BY <1>1 DEF PurgeServer, PurgeIndex
  <1>3. JobsShaped' /\ PurgePage' /\ PurgeSame /\ Purge!WaitingHasJob'
    BY <1>1 DEF JobsShaped, PurgePage, PurgeSame, Purge!WaitingHasJob, Purge!InFlight
  <1> QED BY <1>1, <1>2, <1>3, PurgeFrame

LEMMA PurgeSteps == ASSUME PurgeInv, Purge!Next PROVE PurgeInv' /\ Purge!BackupOutlivesPurgeStep
  BY PurgeServes, PurgeBacksUp, PurgePurges, PurgeExecutes, PurgeContinues, PurgeSends, PurgeClicks, PurgeWork
     DEF Purge!Next

LEMMA PurgeHolds == PurgeInv => Purge!WaitingHasJob /\ Purge!PurgeAsShown
  BY DEF PurgeInv, PurgeJobs, Purge!PurgeAsShown

-----------------------------------------------------------------------------
(* The staff page (StaffDesk), while requests are served one at a time *)

Credits == [balance : Int, quota : Nat]

CrewPage ==
    /\ DOMAIN pg = {"tab", "rows", "credits", "loading", "action", "adjust", "quota", "ledger", "summary",
                    "reading", "processing"}
    /\ pg.tab # "other"
    /\ pg.action # None => pg.action.type \in {"approve", "reject"} /\ pg.action.l \in Leaves
    /\ (pg.adjust # None => pg.adjust \in Staff) /\ (pg.quota # None => pg.quota \in Staff)

(* The credit c of a person whose entries add up to g: not opened yet, or of this balance. *)
CrewRow(c, g) == (c = None /\ g = 0) \/ (c # None /\ c \in Credits /\ c.balance = g)

CrewServer ==
    /\ DOMAIN srv = {"owner", "status", "credit", "ledger", "net"}
    /\ srv.owner \in [Leaves -> Staff]
    /\ DOMAIN srv.status = Leaves /\ DOMAIN srv.net = Leaves
    /\ DOMAIN srv.credit = Staff /\ DOMAIN srv.ledger = Staff
    /\ \A e \in Staff : CrewRow(srv.credit[e], srv.ledger[e])
    /\ \A l \in Leaves : srv.net[l] = IF srv.status[l] = "approved" THEN 0 - l ELSE 0

(* What a request that changes something is about, *)
CrewAsked(j) ==
    j.h \in Crew!Writes =>
        /\ j.a.e \in Staff /\ j.a.n \in Int /\ (j.h = "quota" => j.a.n \in Nat)
        /\ IF j.h \in {"approve", "reject", "cancel"} THEN j.a.l \in Leaves ELSE j.a.l = 0
        /\ j.a.tab # "other" => j.h # "cancel"

(* and what it has read: the leave and the credit as they still are. *)
CrewRead(j) ==
    /\ j.h \in Crew!Writes
    /\ j.h \in {"approve", "reject"} => srv.status[j.a.l] = "pending"
    /\ j.h = "cancel" => srv.status[j.a.l] \in {"pending", "approved"}
    /\ IF j.h \in {"approve", "adjust", "quota"} \/ (j.h = "cancel" /\ srv.status[j.a.l] = "approved")
       THEN j.got.credit = srv.credit[j.a.e] /\ srv.credit[j.a.e] # None
       ELSE j.got.credit = None

CrewJobs ==
    /\ \A j \in jobs : CrewAsked(j) /\ (j.res = "read" => CrewRead(j))
    /\ \A j, k \in jobs : (j.res = "read" /\ k.res = "read") => j = k

CrewInv == JobsShaped /\ CrewPage /\ CrewServer /\ CrewJobs /\ Crew!WaitingHasJob

LEMMA CrewStarts == ASSUME Crew!Init PROVE CrewInv
  <1>1. PICK j : jobs = {j} /\ j = Job("load", [tab |-> "pending"])
    BY DEF Crew!Init, Crew!Load, Crew!Job, Job
  <1>2. DOMAIN j = JobFields /\ j.h = "load" /\ j.res = "sent"
    BY <1>1, NewJob
  <1>3. JobsShaped /\ CrewJobs /\ Crew!InFlight({"load"})
    BY <1>1, <1>2 DEF JobsShaped, CrewJobs, CrewAsked, Crew!Writes, Crew!InFlight
  <1>4. CrewPage /\ pg.reading = FALSE /\ pg.processing = FALSE
    BY DEF Crew!Init, CrewPage
  <1>5. CrewServer
    <2>1. PICK owner \in [Leaves -> Staff], status \in [Leaves -> {"none", "pending"}] :
             srv = [owner |-> owner, status |-> status, credit |-> [e \in Staff |-> None],
                    ledger |-> [e \in Staff |-> 0], net |-> [l \in Leaves |-> 0]]
      BY DEF Crew!Init
    <2>2. \A l \in Leaves : status[l] # "approved"
      BY <2>1
    <2> QED BY <2>1, <2>2 DEF CrewServer, CrewRow
  <1> QED BY <1>3, <1>4, <1>5 DEF CrewInv, Crew!WaitingHasJob

CrewHarmless(k) == CrewAsked(k) /\ k.res # "read"

(* Steps of the page leave the server alone. *)
LEMMA CrewFrame ==
  ASSUME CrewInv, JobsShaped', \A k \in jobs' \ jobs : CrewHarmless(k), UNCHANGED srv, CrewPage',
         Crew!WaitingHasJob'
  PROVE  CrewInv'
  <1>1. \A j : CrewAsked(j) <=> CrewAsked(j)'
    BY DEF CrewAsked
  <1>2. \A j : CrewRead(j) <=> CrewRead(j)'
    BY DEF CrewRead
  <1>3. CrewJobs'
    BY <1>1, <1>2 DEF CrewInv, CrewJobs, CrewHarmless
  <1>4. CrewServer'
    BY DEF CrewInv, CrewServer
  <1> QED BY <1>3, <1>4 DEF CrewInv

(* Rows that are made at their first use leave those that there were. *)
LEMMA CrewOpens ==
  ASSUME PagesAssumption, CrewServer, NEW E, NEW t, t = Crew!WithCredit(E)
  PROVE  /\ DOMAIN t = DOMAIN srv /\ t.owner = srv.owner /\ t.status = srv.status /\ t.net = srv.net
         /\ DOMAIN t.credit = Staff /\ DOMAIN t.ledger = Staff
         /\ \A e \in Staff : CrewRow(t.credit[e], t.ledger[e])
         /\ \A e \in Staff : srv.credit[e] # None => t.credit[e] = srv.credit[e]
         /\ \A e \in Staff : e \in E => t.credit[e] = Crew!CreditOf(e) /\ t.credit[e] # None
  <1>1. PICK C, L : /\ C = [e \in Staff |-> IF e \in E THEN Crew!CreditOf(e) ELSE srv.credit[e]]
                    /\ L = [e \in Staff |-> IF e \in E /\ srv.credit[e] = None THEN 12 ELSE srv.ledger[e]]
                    /\ t = [srv EXCEPT !.credit = C, !.ledger = L]
    BY DEF Crew!WithCredit, Crew!Opening
  <1>2. PICK o : o = [balance |-> 12, quota |-> 12]
    OBVIOUS
  <1>3. o \in Credits /\ o.balance = 12
    BY <1>2 DEF Credits
  <1>4. o # None
    BY <1>3 DEF Credits, PagesAssumption, Crew!StaffAssumption
  <1>5. \A e \in Staff : Crew!CreditOf(e) = IF srv.credit[e] = None THEN o ELSE srv.credit[e]
    BY <1>2 DEF Crew!CreditOf, Crew!Opening
  <1>6. /\ DOMAIN t = DOMAIN srv /\ t.owner = srv.owner /\ t.status = srv.status /\ t.net = srv.net
        /\ t.credit = C /\ t.ledger = L
    BY <1>1 DEF CrewServer
  <1>7. \A e \in Staff : CrewRow(C[e], L[e])
    BY <1>1, <1>3, <1>4, <1>5 DEF CrewServer, CrewRow
  <1>8. \A e \in Staff : srv.credit[e] # None => C[e] = srv.credit[e]
    BY <1>1, <1>5
  <1>9. \A e \in Staff : e \in E => C[e] = Crew!CreditOf(e) /\ C[e] # None
    BY <1>1, <1>4, <1>5
  <1>10. DOMAIN C = Staff /\ DOMAIN L = Staff
    BY <1>1
  <1> QED BY <1>6, <1>7, <1>8, <1>9, <1>10

(* A job that is answered stays the request it was. *)
LEMMA CrewAnswers ==
  ASSUME CrewInv, NEW j \in jobs, NEW r, NEW g, jobs' = (jobs \ {j}) \cup {[j EXCEPT !.res = r, !.got = g]},
         UNCHANGED pg
  PROVE  /\ JobsShaped' /\ CrewPage' /\ Crew!WaitingHasJob'
         /\ \A i \in jobs' : CrewAsked(i)
  <1> USE DEF CrewInv
  <1>1. PICK k : k = [j EXCEPT !.res = r, !.got = g]
    OBVIOUS
  <1>2. /\ jobs' = (jobs \ {j}) \cup {k} /\ k.h = j.h /\ k.a = j.a /\ k.res = r /\ k.got = g
        /\ DOMAIN k = JobFields
    BY <1>1 DEF JobsShaped, JobFields
  <1>3. JobsShaped' /\ \A H : Crew!InFlight(H) => Crew!InFlight(H)'
    BY <1>2 DEF JobsShaped, Crew!InFlight
  <1>4. pg.processing => \E i \in jobs' : i.h \in Crew!Writes /\ i.a.tab # "other"
    <2>1. \A i \in jobs : i \in jobs' \/ (i = j /\ k \in jobs')
      BY <1>2
    <2> QED BY <1>2, <2>1 DEF Crew!WaitingHasJob
  <1>5. CrewPage' /\ Crew!WaitingHasJob'
    BY <1>3, <1>4 DEF CrewPage, Crew!WaitingHasJob
  <1>6. \A i \in jobs' : CrewAsked(i)
    BY <1>2 DEF CrewJobs, CrewAsked
  <1> QED BY <1>2, <1>3, <1>5, <1>6

(* What is read is still so after a step that leaves the leaves alone and no credit changed. *)
LEMMA CrewKeeps ==
  ASSUME CrewServer, DOMAIN srv' = DOMAIN srv, srv'.owner = srv.owner, srv'.status = srv.status, srv'.net = srv.net,
         DOMAIN srv'.credit = Staff, DOMAIN srv'.ledger = Staff,
         \A e \in Staff : CrewRow(srv'.credit[e], srv'.ledger[e]),
         \A e \in Staff : srv.credit[e] # None => srv'.credit[e] = srv.credit[e]
  PROVE  /\ CrewServer'
         /\ \A j : (CrewAsked(j) <=> CrewAsked(j)') /\ ((CrewAsked(j) /\ CrewRead(j)) => CrewRead(j)')
  <1>1. CrewServer'
    BY DEF CrewServer
  <1>2. \A j : CrewAsked(j) <=> CrewAsked(j)'
    BY DEF CrewAsked
  <1>3. \A j : (CrewAsked(j) /\ CrewRead(j)) => CrewRead(j)'
    BY DEF CrewAsked, CrewRead
  <1> QED BY <1>1, <1>2, <1>3

(* An answer that reads nothing, or a lost one *)
LEMMA CrewAnswersPlain ==
  ASSUME PagesAssumption, CrewInv, NEW j \in jobs, NEW r, NEW g, r # "read", NEW E,
         jobs' = (jobs \ {j}) \cup {[j EXCEPT !.res = r, !.got = g]}, UNCHANGED pg,
         srv' = srv \/ srv' = Crew!WithCredit(E)
  PROVE  CrewInv'
  <1> USE DEF CrewInv
  <1>0. PICK k : k = [j EXCEPT !.res = r, !.got = g]
    OBVIOUS
  <1>1. jobs' = (jobs \ {j}) \cup {k} /\ k.h = j.h /\ k.a = j.a /\ k.res = r /\ k.got = g
    BY <1>0 DEF JobsShaped, JobFields
  <1>2. CrewServer' /\ \A i : (CrewAsked(i) <=> CrewAsked(i)') /\ ((CrewAsked(i) /\ CrewRead(i)) => CrewRead(i)')
    <2>1. CASE srv' = srv
      BY <2>1, CrewKeeps DEF CrewServer
    <2>2. CASE srv' = Crew!WithCredit(E)
      BY <2>2, CrewOpens, CrewKeeps
    <2> QED BY <2>1, <2>2
  <1>3. JobsShaped' /\ CrewPage' /\ Crew!WaitingHasJob' /\ \A i \in jobs' : CrewAsked(i)
    BY CrewAnswers
  <1>4. CrewJobs'
    BY <1>1, <1>2, <1>3 DEF CrewJobs
  <1> QED BY <1>2, <1>3, <1>4

(* A request reads, when no other has read and not written. *)
LEMMA CrewReads ==
  ASSUME PagesAssumption, CrewInv, NEW j \in jobs, Crew!ServeRead(j)
  PROVE  CrewInv'
  <1> USE DEF CrewInv
  <1>1. j.h \in Crew!Writes /\ (\A i \in jobs : i.res # "read") /\ CrewAsked(j)
    BY DEF Crew!ServeRead, Crew!Sent, CrewJobs
  <1>2. CASE ~Crew!Allowed(j)
    <2>1. srv' = srv /\ jobs' = (jobs \ {j}) \cup {[j EXCEPT !.res = "refused", !.got = None]} /\ UNCHANGED pg
      BY <1>2 DEF Crew!ServeRead, Crew!Answer
    <2> QED BY <2>1, CrewAnswersPlain
  <1>3. CASE Crew!Allowed(j) /\ Crew!ReadsCredit(j)
    <2>1. PICK g : /\ g = [credit |-> Crew!CreditOf(j.a.e)] /\ srv' = Crew!WithCredit({j.a.e}) /\ UNCHANGED pg
                   /\ jobs' = (jobs \ {j}) \cup {[j EXCEPT !.res = "read", !.got = g]}
      BY <1>3 DEF Crew!ServeRead, Crew!Answer
    <2>a. PICK k : k = [j EXCEPT !.res = "read", !.got = g]
      OBVIOUS
    <2>2. jobs' = (jobs \ {j}) \cup {k} /\ k.h = j.h /\ k.a = j.a /\ k.res = "read" /\ k.got = g
      BY <2>1, <2>a DEF JobsShaped, JobFields
    <2>3. /\ CrewServer' /\ \A i : CrewAsked(i) <=> CrewAsked(i)'
          /\ srv'.status = srv.status /\ srv'.credit[j.a.e] = Crew!CreditOf(j.a.e) /\ srv'.credit[j.a.e] # None
      BY <1>1, <2>1, CrewOpens, CrewKeeps DEF CrewAsked
    <2>4. CrewRead(k)'
      <3>1. /\ j.h \in {"approve", "reject"} => srv.status[j.a.l] = "pending"
            /\ j.h = "cancel" => srv.status[j.a.l] \in {"pending", "approved"}
        BY <1>3 DEF Crew!Allowed
      <3>2. j.h \in {"approve", "adjust", "quota"} \/ (j.h = "cancel" /\ srv.status[j.a.l] = "approved")
        BY <1>3 DEF Crew!ReadsCredit
      <3>3. k.got.credit = srv'.credit[k.a.e] /\ srv'.credit[k.a.e] # None
        BY <2>1, <2>2, <2>3
      <3>4. srv'.status[k.a.l] = srv.status[j.a.l] /\ k.h = j.h
        BY <2>2, <2>3
      <3> QED BY <1>1, <3>1, <3>2, <3>3, <3>4 DEF CrewRead
    <2>5. JobsShaped' /\ CrewPage' /\ Crew!WaitingHasJob' /\ \A i \in jobs' : CrewAsked(i)
      BY <2>1, CrewAnswers
    <2>6. CrewJobs'
      BY <1>1, <2>2, <2>3, <2>4, <2>5 DEF CrewJobs
    <2> QED BY <2>3, <2>5, <2>6
  <1>4. CASE Crew!Allowed(j) /\ ~Crew!ReadsCredit(j)
    <2>1. PICK g : /\ g = [credit |-> None] /\ srv' = srv /\ UNCHANGED pg
                   /\ jobs' = (jobs \ {j}) \cup {[j EXCEPT !.res = "read", !.got = g]}
      BY <1>4 DEF Crew!ServeRead, Crew!Answer
    <2>a. PICK k : k = [j EXCEPT !.res = "read", !.got = g]
      OBVIOUS
    <2>2. jobs' = (jobs \ {j}) \cup {k} /\ k.h = j.h /\ k.a = j.a /\ k.res = "read" /\ k.got = g
      BY <2>1, <2>a DEF JobsShaped, JobFields
    <2>3. CrewServer' /\ \A i : CrewAsked(i) <=> CrewAsked(i)'
      BY <2>1, CrewKeeps DEF CrewServer
    <2>4. CrewRead(k)'
      <3>1. /\ j.h \in {"approve", "reject"} => srv.status[j.a.l] = "pending"
            /\ j.h = "cancel" => srv.status[j.a.l] \in {"pending", "approved"}
        BY <1>4 DEF Crew!Allowed
      <3>2. ~(j.h \in {"approve", "adjust", "quota"} \/ (j.h = "cancel" /\ srv.status[j.a.l] = "approved"))
        BY <1>4 DEF Crew!ReadsCredit
      <3> QED BY <1>1, <2>1, <2>2, <3>1, <3>2 DEF CrewRead
    <2>5. JobsShaped' /\ CrewPage' /\ Crew!WaitingHasJob' /\ \A i \in jobs' : CrewAsked(i)
      BY <2>1, CrewAnswers
    <2>6. CrewJobs'
      BY <1>1, <2>2, <2>3, <2>4, <2>5 DEF CrewJobs
    <2> QED BY <2>3, <2>5, <2>6
  <1> QED BY <1>2, <1>3, <1>4

(* What the request that has read writes: the status, and the same change to the balance and the ledger. *)
LEMMA CrewWrites ==
  ASSUME PagesAssumption, CrewInv, NEW j \in jobs, Crew!ServeCommit(j)
  PROVE  CrewServer' /\ srv'.owner = srv.owner
  <1> USE DEF CrewInv
  <1>1. j.h \in Crew!Writes /\ j.res = "read" /\ CrewAsked(j) /\ CrewRead(j)
    BY DEF Crew!ServeCommit, CrewJobs
  <1>2. PICK e, l, c : e = j.a.e /\ l = j.a.l /\ c = Crew!Change(j)
    OBVIOUS
  <1>0. 0 \notin Leaves /\ Leaves \subseteq Nat /\ None \notin Credits
    BY DEF PagesAssumption, Crew!StaffAssumption, Credits
  <1>3. PICK S : /\ S = IF l = 0 THEN srv ELSE [srv EXCEPT !.status[l] = Crew!NewStatus(j)]
    OBVIOUS
  <1>4. CASE ~Crew!HasEntry(j)
    <2>1. srv' = S
      BY <1>2, <1>3, <1>4 DEF Crew!ServeCommit
    <2>2. j.h \in {"reject", "cancel"} /\ l \in Leaves /\ l # 0 /\ srv.status[l] = "pending"
      BY <1>0, <1>1, <1>2, <1>4 DEF Crew!HasEntry, CrewAsked, CrewRead, Crew!Writes
    <2>3. PICK v : v = Crew!NewStatus(j) /\ v # "approved"
      BY <2>2 DEF Crew!NewStatus
    <2>4. srv' = [srv EXCEPT !.status = [@ EXCEPT ![l] = v]]
      BY <1>3, <2>1, <2>2, <2>3
    <2> QED BY <2>2, <2>3, <2>4 DEF CrewServer
  <1>5. CASE Crew!HasEntry(j)
    <2>1. /\ j.h \in {"approve", "adjust", "quota"} \/ (j.h = "cancel" /\ srv.status[l] = "approved")
          /\ e \in Staff /\ j.got.credit = srv.credit[e] /\ srv.credit[e] # None
      BY <1>1, <1>2, <1>5 DEF Crew!HasEntry, CrewAsked, CrewRead
    <2>2. PICK x, b, q : x = srv.credit[e] /\ b = x.balance /\ q = x.quota
      OBVIOUS
    <2>3. x = [balance |-> b, quota |-> q] /\ b \in Int /\ q \in Nat /\ b = srv.ledger[e] /\ x # None
      BY <2>1, <2>2 DEF CrewServer, CrewRow, Credits
    <2>4. c \in Int
      BY <1>0, <1>1, <1>2, <2>1, <2>2, <2>3 DEF Crew!Change, Crew!OldQuota, Crew!Opening, Crew!Days, CrewAsked, Crew!Writes
    <2>5. Crew!CreditOf(e) = x /\ Crew!CreditAfter(j).balance = b + c
          /\ Crew!CreditAfter(j).quota = (IF j.h = "quota" THEN j.a.n ELSE q)
      BY <1>2, <2>1, <2>2, <2>3 DEF Crew!CreditOf, Crew!CreditAfter
    <2>6. PICK y : y = [balance |-> b + c, quota |-> IF j.h = "quota" THEN j.a.n ELSE q]
      OBVIOUS
    <2>7. y \in Credits /\ y.balance = b + c /\ y # None
      <3>1. (IF j.h = "quota" THEN j.a.n ELSE q) \in Nat
        BY <1>1, <2>3 DEF CrewAsked
      <3>2. b + c \in Int
        BY <2>3, <2>4
      <3> QED BY <1>0, <2>6, <3>1, <3>2 DEF Credits
    <2>8. c = 0 => b + c = b
      BY <2>3
    <2>a. PICK C : C = [S EXCEPT !.credit[e] = y, !.ledger[e] = @ + c]
      OBVIOUS
    <2>9. srv' = IF l # 0 THEN [C EXCEPT !.net[l] = @ + c] ELSE C
      <3>1. y = [balance |-> IF c = 0 THEN Crew!CreditOf(e).balance ELSE Crew!CreditAfter(j).balance,
                 quota |-> IF j.h = "quota" THEN Crew!CreditAfter(j).quota ELSE Crew!CreditOf(e).quota]
        BY <2>2, <2>5, <2>6, <2>8
      <3>2. PICK z : z = [balance |-> IF Crew!Change(j) = 0 THEN Crew!CreditOf(j.a.e).balance
                                      ELSE Crew!CreditAfter(j).balance,
                          quota |-> IF j.h = "quota" THEN Crew!CreditAfter(j).quota ELSE Crew!CreditOf(j.a.e).quota]
        OBVIOUS
      <3>3. z = y
        BY <1>2, <3>1, <3>2
      <3>4. PICK T : T = IF j.a.l = 0 THEN srv ELSE [srv EXCEPT !.status[j.a.l] = Crew!NewStatus(j)]
        OBVIOUS
      <3>5. PICK D : D = [T EXCEPT !.credit[j.a.e] = z, !.ledger[j.a.e] = @ + Crew!Change(j)]
        OBVIOUS
      <3>6. srv' = IF j.a.l # 0 THEN [D EXCEPT !.net[j.a.l] = @ + Crew!Change(j)] ELSE D
        BY <1>5, <3>2, <3>4, <3>5 DEF Crew!ServeCommit
      <3>7. T = S
        BY <1>2, <1>3, <3>4
      <3>8. D = C
        BY <1>2, <2>a, <3>3, <3>5, <3>7
      <3> QED BY <1>2, <3>6, <3>8
    <2>10. DOMAIN S = DOMAIN srv /\ S.credit = srv.credit /\ S.ledger = srv.ledger /\ S.net = srv.net
           /\ S.owner = srv.owner /\ S.status = IF l = 0 THEN srv.status ELSE [srv.status EXCEPT ![l] = Crew!NewStatus(j)]
      BY <1>3 DEF CrewServer
    <2>11. /\ DOMAIN srv' = DOMAIN srv /\ srv'.owner = srv.owner /\ srv'.status = S.status
           /\ srv'.credit = [srv.credit EXCEPT ![e] = y]
           /\ srv'.ledger = [srv.ledger EXCEPT ![e] = srv.ledger[e] + c]
           /\ srv'.net = IF l = 0 THEN srv.net ELSE [srv.net EXCEPT ![l] = srv.net[l] + c]
      BY <2>a, <2>9, <2>10 DEF CrewServer
    <2>12. /\ DOMAIN srv'.credit = Staff /\ DOMAIN srv'.ledger = Staff
           /\ \A f \in Staff : CrewRow(srv'.credit[f], srv'.ledger[f])
      BY <2>1, <2>3, <2>7, <2>11 DEF CrewServer, CrewRow
    <2>13. /\ DOMAIN srv'.status = Leaves /\ DOMAIN srv'.net = Leaves
           /\ \A m \in Leaves : srv'.net[m] = IF srv'.status[m] = "approved" THEN 0 - m ELSE 0
      <3>1. CASE l = 0
        BY <2>10, <2>11, <3>1 DEF CrewServer
      <3>2. CASE l # 0
        <4>1. j.h \in {"approve", "cancel"} /\ l \in Leaves /\ l \in Nat
          BY <1>0, <1>1, <1>2, <2>1, <3>2 DEF CrewAsked
        <4>2. PICK v : v = Crew!NewStatus(j)
          OBVIOUS
        <4>3. /\ srv'.status = [srv.status EXCEPT ![l] = v]
              /\ srv'.net = [srv.net EXCEPT ![l] = srv.net[l] + c]
          BY <2>10, <2>11, <3>2, <4>2
        <4>4. srv.net[l] + c = IF v = "approved" THEN 0 - l ELSE 0
          <5>1. CASE j.h = "approve"
            <6>1. v = "approved" /\ c = 0 - l
              BY <1>2, <4>2, <5>1 DEF Crew!NewStatus, Crew!Change, Crew!Days
            <6>2. srv.net[l] = 0
              BY <1>1, <1>2, <4>1, <5>1 DEF CrewRead, CrewServer
            <6> QED BY <4>1, <6>1, <6>2
          <5>2. CASE j.h = "cancel"
            <6>1. v = "cancelled" /\ c = l
              BY <1>2, <4>2, <5>2 DEF Crew!NewStatus, Crew!Change, Crew!Days
            <6>2. srv.net[l] = 0 - l
              BY <2>1, <4>1, <5>2 DEF CrewServer
            <6> QED BY <4>1, <6>1, <6>2
          <5> QED BY <4>1, <5>1, <5>2
        <4> QED BY <4>1, <4>3, <4>4 DEF CrewServer
      <3> QED BY <3>1, <3>2
    <2> QED BY <2>11, <2>12, <2>13 DEF CrewServer
  <1> QED BY <1>4, <1>5

LEMMA CrewCommits ==
  ASSUME PagesAssumption, CrewInv, NEW j \in jobs, Crew!ServeCommit(j)
  PROVE  CrewInv'
  <1> USE DEF CrewInv
  <1>1. /\ j.res = "read" /\ UNCHANGED pg /\ jobs' = (jobs \ {j}) \cup {[j EXCEPT !.res = "ok", !.got = None]}
        /\ \A i \in jobs : i.res = "read" => i = j
    BY DEF Crew!ServeCommit, Crew!Answer, CrewJobs
  <1>a. PICK k : k = [j EXCEPT !.res = "ok", !.got = None]
    OBVIOUS
  <1>2. jobs' = (jobs \ {j}) \cup {k} /\ k.h = j.h /\ k.a = j.a /\ k.res = "ok"
    BY <1>1, <1>a DEF JobsShaped, JobFields
  <1>3. JobsShaped' /\ CrewPage' /\ Crew!WaitingHasJob' /\ \A i \in jobs' : CrewAsked(i)
    BY <1>1, CrewAnswers
  <1>4. CrewServer' /\ \A i : CrewAsked(i) <=> CrewAsked(i)'
    BY CrewWrites DEF CrewAsked
  <1>5. CrewJobs'
    BY <1>1, <1>2, <1>3, <1>4 DEF CrewJobs
  <1> QED BY <1>3, <1>4, <1>5

LEMMA CrewServes ==
  ASSUME PagesAssumption, CrewInv, NEW j \in jobs, Crew!ServeLoad(j) \/ Crew!ServeLedger(j) \/ Crew!Fail(j)
  PROVE  CrewInv'
  <1>1. CASE Crew!ServeLoad(j)
    <2>1. PICK g : /\ srv' = Crew!WithCredit(Staff) /\ UNCHANGED pg
                   /\ jobs' = (jobs \ {j}) \cup {[j EXCEPT !.res = "ok", !.got = g]}
      BY <1>1 DEF Crew!ServeLoad, Crew!Answer
    <2> QED BY <2>1, CrewAnswersPlain
  <1>2. CASE Crew!ServeLedger(j)
    <2>1. PICK g : /\ srv' = Crew!WithCredit({j.a.of}) /\ UNCHANGED pg
                   /\ jobs' = (jobs \ {j}) \cup {[j EXCEPT !.res = "ok", !.got = g]}
      BY <1>2 DEF Crew!ServeLedger, Crew!Answer
    <2> QED BY <2>1, CrewAnswersPlain
  <1>3. CASE Crew!Fail(j)
    <2>1. /\ srv' = srv /\ UNCHANGED pg
          /\ jobs' = (jobs \ {j}) \cup {[j EXCEPT !.res = "failed", !.got = None]}
      BY <1>3 DEF Crew!Fail
    <2> QED BY <2>1, CrewAnswersPlain
  <1> QED BY <1>1, <1>2, <1>3

(* A member of the staff applies: no request has read a leave that is not there. *)
LEMMA CrewApplies ==
  ASSUME CrewInv, NEW l \in Leaves, Crew!ApplyElsewhere(l)
  PROVE  CrewInv'
  <1> USE DEF CrewInv
  <1>1. srv.status[l] = "none" /\ srv' = [srv EXCEPT !.status = [@ EXCEPT ![l] = "pending"]] /\ UNCHANGED <<pg, jobs>>
    BY DEF Crew!ApplyElsewhere
  <1>2. /\ DOMAIN srv' = DOMAIN srv /\ srv'.owner = srv.owner /\ srv'.credit = srv.credit /\ srv'.ledger = srv.ledger
        /\ srv'.net = srv.net /\ srv'.status = [srv.status EXCEPT ![l] = "pending"]
    BY <1>1 DEF CrewServer
  <1>3. CrewServer'
    BY <1>1, <1>2 DEF CrewServer
  <1>4. \A j : CrewAsked(j) <=> CrewAsked(j)'
    BY <1>2 DEF CrewAsked
  <1>5. ASSUME NEW j, CrewAsked(j), CrewRead(j) PROVE CrewRead(j)'
    <2>1. j.h \in {"approve", "reject", "cancel"} => j.a.l # l /\ srv'.status[j.a.l] = srv.status[j.a.l]
      BY <1>1, <1>2, <1>5 DEF CrewAsked, CrewRead, CrewServer
    <2>2. j.h \in Crew!Writes
      BY <1>5 DEF CrewRead
    <2>3. CASE j.h \in {"approve", "reject", "cancel"}
      BY <1>2, <1>5, <2>1, <2>3 DEF CrewRead
    <2>4. CASE j.h \notin {"approve", "reject", "cancel"}
      BY <1>2, <1>5, <2>4 DEF CrewRead
    <2> QED BY <2>3, <2>4
  <1>6. CrewJobs'
    BY <1>1, <1>4, <1>5 DEF CrewJobs
  <1> QED BY <1>1, <1>3, <1>6 DEF JobsShaped, CrewPage, Crew!WaitingHasJob, Crew!InFlight

LEMMA CrewContinues ==
  ASSUME CrewInv, NEW j \in jobs,
         \/ Crew!OnLoaded(j)
         \/ Crew!OnLedger(j)
         \/ Crew!OnWritten(j)
         \/ Crew!OnError(j)
         \/ Crew!OnElsewhere(j)
  PROVE  CrewInv'
  <1> USE DEF CrewInv, CrewPage, Crew!Writes, Crew!Then, Crew!Back
  <1>1. CASE Crew!OnLoaded(j)
    <2>1. JobsShaped' /\ \A k \in jobs' \ jobs : CrewHarmless(k)
      BY <1>1 DEF JobsShaped, JobFields, CrewHarmless, Crew!OnLoaded
    <2>3. Crew!WaitingHasJob'
      BY <1>1 DEF Crew!WaitingHasJob, Crew!InFlight, JobsShaped, JobFields, Crew!OnLoaded
    <2>4. CrewPage' /\ UNCHANGED srv
      BY <1>1 DEF Crew!OnLoaded
    <2> QED BY <2>1, <2>3, <2>4, CrewFrame
  <1>2. CASE Crew!OnLedger(j)
    <2>1. JobsShaped' /\ \A k \in jobs' \ jobs : CrewHarmless(k)
      BY <1>2 DEF JobsShaped, JobFields, CrewHarmless, Crew!OnLedger
    <2>3. Crew!WaitingHasJob'
      BY <1>2 DEF Crew!WaitingHasJob, Crew!InFlight, JobsShaped, JobFields, Crew!OnLedger
    <2>4. CrewPage' /\ UNCHANGED srv
      BY <1>2 DEF Crew!OnLedger
    <2> QED BY <2>1, <2>3, <2>4, CrewFrame
  <1>3. CASE Crew!OnWritten(j)
    <2>1. JobsShaped' /\ \A k \in jobs' \ jobs : CrewHarmless(k)
      BY <1>3 DEF JobsShaped, JobFields, CrewHarmless, Crew!OnWritten, Crew!Load, Crew!Job, CrewAsked, CrewJobs
    <2>2. \E x : Job("load", x) \in jobs'
      BY <1>3 DEF Crew!OnWritten, Crew!Job, Job, Crew!Load
    <2>3. Crew!WaitingHasJob'
      <3>1. /\ pg'.processing = FALSE /\ pg'.reading = pg.reading /\ jobs \ {j} \subseteq jobs'
            /\ j.h \in Crew!Writes
        BY <1>3 DEF Crew!OnWritten, CrewJobs, CrewAsked
      <3>2. Crew!InFlight({"load"})'
        BY <2>2, NewJob DEF Crew!InFlight
      <3> QED BY <3>1, <3>2 DEF Crew!WaitingHasJob, Crew!InFlight
    <2>4. CrewPage' /\ UNCHANGED srv
      BY <1>3 DEF Crew!OnWritten, Crew!Load, CrewJobs, CrewAsked
    <2> QED BY <2>1, <2>3, <2>4, CrewFrame
  <1>4. CASE Crew!OnError(j)
    <2>1. JobsShaped' /\ \A k \in jobs' \ jobs : CrewHarmless(k)
      BY <1>4 DEF JobsShaped, JobFields, CrewHarmless, Crew!OnError
    <2>3. Crew!WaitingHasJob'
      BY <1>4 DEF Crew!WaitingHasJob, Crew!InFlight, JobsShaped, JobFields, Crew!OnError
    <2>4. CrewPage' /\ UNCHANGED srv
      BY <1>4 DEF Crew!OnError
    <2> QED BY <2>1, <2>3, <2>4, CrewFrame
  <1>5. CASE Crew!OnElsewhere(j)
    <2>1. JobsShaped' /\ \A k \in jobs' \ jobs : CrewHarmless(k)
      BY <1>5 DEF JobsShaped, JobFields, CrewHarmless, Crew!OnElsewhere
    <2>3. Crew!WaitingHasJob'
      BY <1>5 DEF Crew!WaitingHasJob, Crew!InFlight, JobsShaped, JobFields, Crew!OnElsewhere
    <2>4. CrewPage' /\ UNCHANGED srv
      BY <1>5 DEF Crew!OnElsewhere
    <2> QED BY <2>1, <2>3, <2>4, CrewFrame
  <1> QED BY <1>1, <1>2, <1>3, <1>4, <1>5

LEMMA CrewCalls ==
  ASSUME JobsShaped, NEW h, NEW a, Crew!Start(h, a)
  PROVE  /\ JobsShaped'
         /\ \A k \in jobs' \ jobs : k = Job(h, a)
         /\ jobs \subseteq jobs'
         /\ \A H : Crew!InFlight(H) \/ h \in H => Crew!InFlight(H)'
  <1>1. jobs' = jobs \cup {Job(h, a)}
    BY DEF Crew!Start, Crew!Job, Job
  <1>2. DOMAIN Job(h, a) = JobFields /\ Job(h, a).h = h
    BY NewJob
  <1> QED BY <1>1, <1>2, Started DEF Crew!InFlight, InFlight

LEMMA CrewSends ==
  ASSUME CrewInv,
         \/ \E t \in {"pending", "history", "credits"} : Crew!SetTab(t)
         \/ Crew!SetFilter
         \/ \E e \in Staff : Crew!OpenStaffLedger(e)
  PROVE  CrewInv'
  <1> USE DEF CrewInv, CrewPage
  <1>1. CASE \E t \in {"pending", "history", "credits"} : Crew!SetTab(t)
    <2>0. PICK t \in {"pending", "history", "credits"} : Crew!SetTab(t)
      BY <1>1
    <2>1. PICK a : Crew!Start("load", a) /\ UNCHANGED srv
      BY <2>0 DEF Crew!SetTab, Crew!ReadAgain, Crew!Load
    <2>2. JobsShaped' /\ \A k \in jobs' \ jobs : CrewHarmless(k)
      BY <2>1, CrewCalls, NewJob DEF CrewHarmless, CrewAsked, Crew!Writes
    <2>3. \A H : Crew!InFlight(H) \/ "load" \in H => Crew!InFlight(H)'
      BY <2>1, CrewCalls
    <2>a. jobs \subseteq jobs'
      BY <2>1, CrewCalls
    <2>4. CrewPage' /\ Crew!WaitingHasJob'
      BY <2>0, <2>3, <2>a DEF Crew!SetTab, Crew!ReadAgain, Crew!Load, Crew!WaitingHasJob
    <2> QED BY <2>1, <2>2, <2>4, CrewFrame
  <1>2. CASE Crew!SetFilter
    <2>1. PICK a : Crew!Start("load", a) /\ UNCHANGED srv
      BY <1>2 DEF Crew!SetFilter, Crew!ReadAgain, Crew!Load
    <2>2. JobsShaped' /\ \A k \in jobs' \ jobs : CrewHarmless(k)
      BY <2>1, CrewCalls, NewJob DEF CrewHarmless, CrewAsked, Crew!Writes
    <2>3. \A H : Crew!InFlight(H) \/ "load" \in H => Crew!InFlight(H)'
      BY <2>1, CrewCalls
    <2>a. jobs \subseteq jobs'
      BY <2>1, CrewCalls
    <2>4. CrewPage' /\ Crew!WaitingHasJob'
      BY <1>2, <2>3, <2>a DEF Crew!SetFilter, Crew!ReadAgain, Crew!Load, Crew!WaitingHasJob
    <2> QED BY <2>1, <2>2, <2>4, CrewFrame
  <1>3. CASE \E e \in Staff : Crew!OpenStaffLedger(e)
    <2>0. PICK e \in Staff : Crew!OpenStaffLedger(e)
      BY <1>3
    <2>1. PICK a : Crew!Start("ledger", a) /\ UNCHANGED srv
      BY <2>0 DEF Crew!OpenStaffLedger
    <2>2. JobsShaped' /\ \A k \in jobs' \ jobs : CrewHarmless(k)
      BY <2>1, CrewCalls, NewJob DEF CrewHarmless, CrewAsked, Crew!Writes
    <2>3. \A H : Crew!InFlight(H) \/ "ledger" \in H => Crew!InFlight(H)'
      BY <2>1, CrewCalls
    <2>a. jobs \subseteq jobs'
      BY <2>1, CrewCalls
    <2>4. CrewPage' /\ Crew!WaitingHasJob'
      BY <2>0, <2>3, <2>a DEF Crew!OpenStaffLedger, Crew!WaitingHasJob
    <2> QED BY <2>1, <2>2, <2>4, CrewFrame
  <1> QED BY <1>1, <1>2, <1>3

(* A request that changes something is of a person, and of a leave or a credit. *)
LEMMA CrewRequests ==
  ASSUME CrewInv, NEW h \in Crew!Writes, NEW t, NEW l, NEW e, NEW n, NEW m, Crew!Request(h, t, l, e, n, m),
         e \in Staff, n \in Int, h = "quota" => n \in Nat,
         IF h \in {"approve", "reject", "cancel"} THEN l \in Leaves ELSE l = 0,
         t # "other" => h # "cancel",
         UNCHANGED pg \/ (pg' = [pg EXCEPT !.processing = TRUE] /\ t # "other")
  PROVE  CrewInv'
  <1> USE DEF CrewInv
  <1>1. PICK a, k : a = [tab |-> t, l |-> l, e |-> e, n |-> n, move |-> m] /\ k = Job(h, a)
    OBVIOUS
  <1>2. Crew!Start(h, a) /\ UNCHANGED srv
    BY <1>1 DEF Crew!Request
  <1>3. jobs' = jobs \cup {k}
    BY <1>1, <1>2 DEF Crew!Start, Crew!Job, Job
  <1>4. k.h = h /\ k.a = a /\ k.res = "sent"
    BY <1>1, NewJob
  <1>5. a.e = e /\ a.n = n /\ a.l = l /\ a.tab = t
    BY <1>1
  <1>6. CrewHarmless(k)
    BY <1>4, <1>5 DEF CrewHarmless, CrewAsked
  <1>7. JobsShaped' /\ \A H : Crew!InFlight(H) => Crew!InFlight(H)'
    BY <1>2, CrewCalls
  <1>8. t # "other" => \E i \in jobs' : i.h \in Crew!Writes /\ i.a.tab # "other"
    BY <1>3, <1>4, <1>5
  <1>9. CrewPage' /\ Crew!WaitingHasJob'
    <2>1. CASE UNCHANGED pg
      BY <1>3, <1>7, <2>1 DEF CrewPage, Crew!WaitingHasJob
    <2>2. CASE pg' = [pg EXCEPT !.processing = TRUE] /\ t # "other"
      BY <1>7, <1>8, <2>2 DEF CrewPage, Crew!WaitingHasJob
    <2> QED BY <2>1, <2>2
  <1> QED BY <1>2, <1>3, <1>6, <1>7, <1>9, CrewFrame

LEMMA CrewDecides ==
  ASSUME PagesAssumption, CrewInv,
         \/ Crew!ApproveReject \/ (\E n \in {1, -1} : Crew!CreditAdjust(n))
         \/ (\E n \in Quotas, m \in BOOLEAN : Crew!UpdateQuota(n, m)) \/ Crew!Elsewhere
  PROVE  CrewInv'
  <1>a. /\ pg.tab # "other" /\ \A l \in Leaves : srv.owner[l] \in Staff
        /\ pg.action # None => pg.action.type \in {"approve", "reject"} /\ pg.action.l \in Leaves
        /\ (pg.adjust # None => pg.adjust \in Staff) /\ (pg.quota # None => pg.quota \in Staff)
    BY DEF CrewInv, CrewPage, CrewServer
  <1>b. 0 \in Int /\ 1 \in Int /\ -1 \in Int /\ \A n \in Quotas : n \in Nat /\ n \in Int
    BY DEF PagesAssumption, Crew!StaffAssumption
  <1>c. Crew!Writes = {"approve", "reject", "cancel", "adjust", "quota"}
    BY DEF Crew!Writes
  <1>1. CASE Crew!ApproveReject
    <2>1. PICK h, l : /\ h = pg.action.type /\ l = pg.action.l /\ pg.action # None
                      /\ Crew!Request(h, pg.tab, l, srv.owner[l], 0, FALSE) /\ pg' = [pg EXCEPT !.processing = TRUE]
      BY <1>1 DEF Crew!ApproveReject, Crew!Processing
    <2>2. h \in {"approve", "reject"} /\ l \in Leaves
      BY <1>a, <2>1
    <2> QED BY <1>a, <1>b, <1>c, <2>1, <2>2, CrewRequests
  <1>2. CASE \E n \in {1, -1} : Crew!CreditAdjust(n)
    <2>1. PICK n \in {1, -1} : Crew!CreditAdjust(n)
      BY <1>2
    <2>2. pg.adjust \in Staff /\ Crew!Request("adjust", pg.tab, 0, pg.adjust, n, TRUE) /\ pg' = [pg EXCEPT !.processing = TRUE]
      BY <1>a, <2>1 DEF Crew!CreditAdjust, Crew!Processing
    <2> QED BY <1>a, <1>b, <1>c, <2>2, CrewRequests
  <1>3. CASE \E n \in Quotas, m \in BOOLEAN : Crew!UpdateQuota(n, m)
    <2>1. PICK n \in Quotas, m \in BOOLEAN : Crew!UpdateQuota(n, m)
      BY <1>3
    <2>2. pg.quota \in Staff /\ Crew!Request("quota", pg.tab, 0, pg.quota, n, m) /\ pg' = [pg EXCEPT !.processing = TRUE]
      BY <1>a, <2>1 DEF Crew!UpdateQuota, Crew!Processing
    <2> QED BY <1>a, <1>b, <1>c, <2>2, CrewRequests
  <1>4. CASE Crew!Elsewhere
    <2>1. UNCHANGED pg
      BY <1>4 DEF Crew!Elsewhere
    <2>2. CASE \E l \in Leaves, h \in {"approve", "reject", "cancel"} : Crew!Request(h, "other", l, srv.owner[l], 0, FALSE)
      BY <1>a, <1>b, <1>c, <2>1, <2>2, CrewRequests
    <2>3. CASE \E e \in Staff : Crew!Request("adjust", "other", 0, e, 1, TRUE)
      BY <1>b, <1>c, <2>1, <2>3, CrewRequests
    <2> QED BY <1>4, <2>2, <2>3 DEF Crew!Elsewhere
  <1> QED BY <1>1, <1>2, <1>3, <1>4

LEMMA CrewClicks ==
  ASSUME CrewInv,
         \/ \E l \in Leaves : Crew!OpenAction("approve", l) \/ Crew!OpenAction("reject", l)
         \/ \E e \in Staff : Crew!OpenAdjust(e) \/ Crew!OpenQuota(e)
         \/ Crew!CloseDialog
  PROVE  CrewInv'
  <1> USE DEF CrewInv, CrewPage
  <1>1. UNCHANGED <<srv, jobs>> /\ pg'.loading = pg.loading /\ pg'.reading = pg.reading /\ pg'.processing = pg.processing
    BY DEF Crew!Local, Crew!OpenAction, Crew!OpenAdjust, Crew!OpenQuota, Crew!CloseDialog
  <1>2. JobsShaped' /\ (\A k \in jobs' \ jobs : CrewHarmless(k)) /\ Crew!WaitingHasJob'
    BY <1>1 DEF JobsShaped, Crew!WaitingHasJob, Crew!InFlight
  <1>3. CrewPage' => CrewInv'
    BY <1>1, <1>2, CrewFrame
  <1>4. CASE \E l \in Leaves : Crew!OpenAction("approve", l) \/ Crew!OpenAction("reject", l)
    <2>1. PICK l \in Leaves : Crew!OpenAction("approve", l) \/ Crew!OpenAction("reject", l)
      BY <1>4
    <2>2. PICK a : a.type \in {"approve", "reject"} /\ a.l = l /\ pg' = [pg EXCEPT !.action = a]
      BY <2>1 DEF Crew!OpenAction
    <2> QED BY <1>3, <2>2
  <1>5. CASE \E e \in Staff : Crew!OpenAdjust(e) \/ Crew!OpenQuota(e)
    BY <1>3, <1>5 DEF Crew!OpenAdjust, Crew!OpenQuota
  <1>6. CASE Crew!CloseDialog
    BY <1>3, <1>6 DEF Crew!CloseDialog
  <1> QED BY <1>4, <1>5, <1>6

LEMMA CrewSteps == ASSUME PagesAssumption, CrewInv, Crew!Next PROVE CrewInv'
  BY CrewReads, CrewCommits, CrewServes, CrewContinues, CrewSends, CrewDecides, CrewClicks, CrewApplies
     DEF Crew!Next

LEMMA CrewHolds == CrewInv => Crew!WaitingHasJob /\ Crew!StaffLedgerAddsUp
  BY DEF CrewInv, CrewServer, CrewRow, Crew!StaffLedgerAddsUp, Crew!Days

-----------------------------------------------------------------------------
(* A step that changes nothing on a page keeps its invariant. *)

LEMMA GridIdles == ASSUME GridInv, UNCHANGED vars PROVE GridInv' /\ Grid!ResetAuthorisedStep
  <1>1. GridInv'
    BY DEF vars, GridInv, JobsShaped, GridServer, GridPage, Grid!WaitingHasJob, Grid!InFlight, Grid!ClashIsCombined
  <1>2. UNCHANGED srv
    BY DEF vars
  <1> QED BY <1>1, <1>2, GridRests

LEMMA EntryIdles == ASSUME EntryInv, UNCHANGED vars PROVE EntryInv' /\ Entry!DecisionsFinalStep
  BY DEF vars, EntryInv, JobsShaped, EntryServer, EntryPage, EntryKnown, Entry!WaitingHasJob, Entry!InFlight,
         Entry!SlotsApproved, Entry!DecisionsFinalStep

LEMMA ModesIdles == ASSUME ModesInv, UNCHANGED vars PROVE ModesInv' /\ Modes!OverrideKeepsModesStep
  BY DEF vars, ModesInv, JobsShaped, ModesServer, ModesPage, Modes!WaitingHasJob, Modes!InFlight,
         Modes!OverrideKeepsModesStep

LEMMA DaysIdles == ASSUME DaysInv, UNCHANGED vars PROVE DaysInv'
  BY DEF vars, DaysInv, JobsShaped, DaysPage, DaysFill, Days!WaitingHasJob, Days!InFlight

LEMMA SavesIdles == ASSUME SavesInv, UNCHANGED vars PROVE SavesInv'
  BY DEF vars, SavesInv, JobsShaped, SavesPage, SavesReads, SavesRestore, SavesLoads, SavesTasks, Full, InFlight,
         Saves!InFlight

LEMMA PurgeIdles == ASSUME PurgeInv, UNCHANGED vars PROVE PurgeInv' /\ Purge!BackupOutlivesPurgeStep
  BY DEF vars, PurgeInv, JobsShaped, PurgePage, PurgeServer, PurgeJobs, Kept, Purge!Criteria, Purge!WaitingHasJob,
         Purge!InFlight, Purge!BackupOutlivesPurgeStep

LEMMA CrewIdles == ASSUME CrewInv, UNCHANGED vars PROVE CrewInv'
  BY DEF vars, CrewInv, JobsShaped, CrewPage, CrewServer, CrewJobs, CrewAsked, CrewRead, Crew!WaitingHasJob, Crew!InFlight

-----------------------------------------------------------------------------
(* The pages together: the page that is open keeps its invariant. *)
OfficeInv ==
    /\ tab = "timetable" => GridInv
    /\ tab = "entry" => EntryInv
    /\ tab = "settings" => ModesInv
    /\ tab = "calendar" => DaysInv
    /\ tab = "backup" => SavesInv
    /\ tab = "retention" => PurgeInv
    /\ tab = "staff" => CrewInv

LEMMA OfficeStart == Init => OfficeInv
  BY PagesAssumption, GridStarts, EntryStarts, ModesStarts, DaysStarts, SavesStarts, PurgeStarts, CrewStarts
     DEF Init, OfficeInv

(* What the step of one page does, for the page that is open. *)
LEMMA OfficeSteps ==
  ASSUME OfficeInv, Next
  PROVE  /\ OfficeInv'
         /\ tab = "timetable" => Grid!ResetAuthorisedStep
         /\ tab = "entry" => Entry!DecisionsFinalStep
         /\ tab = "settings" => Modes!OverrideKeepsModesStep
         /\ tab = "retention" => Purge!BackupOutlivesPurgeStep
  <1> USE PagesAssumption DEF OfficeInv
  <1>1. CASE tab = "timetable" /\ tab' = tab /\ Grid!Next
    BY <1>1, GridSteps
  <1>2. CASE tab = "entry" /\ tab' = tab /\ Entry!Next
    BY <1>2, EntrySteps
  <1>3. CASE tab = "settings" /\ tab' = tab /\ Modes!Next
    BY <1>3, ModesSteps
  <1>4. CASE tab = "calendar" /\ tab' = tab /\ Days!Next
    BY <1>4, DaysSteps
  <1>5. CASE tab = "backup" /\ tab' = tab /\ Saves!Next
    BY <1>5, SavesSteps
  <1>6. CASE tab = "retention" /\ tab' = tab /\ Purge!Next
    BY <1>6, PurgeSteps
  <1>7. CASE tab = "staff" /\ tab' = tab /\ Crew!Next
    BY <1>7, CrewSteps
  <1> QED BY <1>1, <1>2, <1>3, <1>4, <1>5, <1>6, <1>7 DEF Next

LEMMA OfficeIdles ==
  ASSUME OfficeInv, UNCHANGED <<vars, tab>>
  PROVE  /\ OfficeInv'
         /\ tab = "timetable" => Grid!ResetAuthorisedStep
         /\ tab = "entry" => Entry!DecisionsFinalStep
         /\ tab = "settings" => Modes!OverrideKeepsModesStep
         /\ tab = "retention" => Purge!BackupOutlivesPurgeStep
  BY GridIdles, EntryIdles, ModesIdles, DaysIdles, SavesIdles, PurgeIdles, CrewIdles DEF OfficeInv

LEMMA OfficeKeep == OfficeInv /\ [Next]_<<vars, tab>> => OfficeInv'
  BY OfficeSteps, OfficeIdles

(***************************************************************************)
(* Every page keeps its inductive invariant: the shape of its records and  *)
(* of its jobs, what its jobs still carry of an earlier state, and the     *)
(* handler each busy flag of it waits for.                                 *)
(***************************************************************************)
THEOREM OfficeIsSound == Spec => []OfficeInv
  BY OfficeStart, OfficeKeep, PTL DEF Spec

(***************************************************************************)
(* No page of the timetable, the calendar, the settings, the data or the   *)
(* staff waits for nothing: whenever a spinner turns or a button is        *)
(* disabled, a handler is in flight whose return ends that.                *)
(***************************************************************************)
THEOREM NoOfficePageHangs == Spec => []WaitingHasJob
  <1>1. OfficeInv => WaitingHasJob
    BY GridHolds, EntryHolds, ModesHolds, DaysHolds, SavesHolds, PurgeHolds, CrewHolds DEF OfficeInv, WaitingHasJob
  <1> QED BY <1>1, OfficeIsSound, PTL

(***************************************************************************)
(* The two timetable editors: no sequence of edits, undos and redos grows  *)
(* the undo history past its limit.                                        *)
(***************************************************************************)
THEOREM HistoryIsBounded == Spec => []HistoryBounded
  <1>1. OfficeInv => HistoryBounded
    BY GridHolds, EntryHolds DEF OfficeInv, HistoryBounded
  <1> QED BY <1>1, OfficeIsSound, PTL

(***************************************************************************)
(* Timetable: of two slots of one teacher or class in one cell the later   *)
(* one was created as a combined class, however the two editors create,    *)
(* replace, remove, undo and reset.                                        *)
(***************************************************************************)
THEOREM OnlyCombinedClash == Spec => []ClashIsCombined
  <1>1. OfficeInv => ClashIsCombined
    BY GridHolds DEF OfficeInv, ClashIsCombined
  <1> QED BY <1>1, OfficeIsSound, PTL

(***************************************************************************)
(* Timetable: slots leave it only by a change that was clicked or by a     *)
(* confirmed reset that covers them, of which the words were typed when it *)
(* is of every timetable, whatever was edited in the dialog since; and an  *)
(* administrator of one department removes only what its teachers teach    *)
(* or its classes are taught.                                              *)
(***************************************************************************)
THEOREM ResetIsAuthorised == Spec => ResetAuthorised
  <1>1. OfficeInv /\ [Next]_<<vars, tab>> => [tab = "timetable" => Grid!ResetAuthorisedStep]_<<vars, tab>>
    BY OfficeSteps
  <1> QED BY <1>1, OfficeIsSound, PTL DEF Spec, ResetAuthorised

(***************************************************************************)
(* Entry: a slot that came of a submission is in the timetable only if     *)
(* that submission is approved, and no two slots clash, in whatever order  *)
(* slots are submitted, combined, cleared and reviewed.                    *)
(***************************************************************************)
THEOREM OnlyApprovedIsTaught == Spec => []SlotsApproved
  <1>1. OfficeInv => SlotsApproved
    BY EntryHolds DEF OfficeInv, SlotsApproved
  <1> QED BY <1>1, OfficeIsSound, PTL

(***************************************************************************)
(* Entry: no step changes a submission that was decided, also when a       *)
(* single and a bulk review of it are both under way.                      *)
(***************************************************************************)
THEOREM DecisionsAreFinal == Spec => DecisionsFinal
  <1>1. OfficeInv /\ [Next]_<<vars, tab>> => [tab = "entry" => Entry!DecisionsFinalStep]_<<vars, tab>>
    BY OfficeSteps
  <1> QED BY <1>1, OfficeIsSound, PTL DEF Spec, DecisionsFinal

(***************************************************************************)
(* Settings: no more secondary administrators are active than the limit,   *)
(* whatever list the page still shows when accounts are added and enabled  *)
(* from it.                                                                *)
(***************************************************************************)
THEOREM AdminsAreCapped == Spec => []AdminsCapped
  <1>1. OfficeInv => AdminsCapped
    BY ModesHolds DEF OfficeInv, AdminsCapped
  <1> QED BY <1>1, OfficeIsSound, PTL

(***************************************************************************)
(* Settings: whatever is saved at the same time, a step that changes the   *)
(* override leaves the configured modes of the departments as they were,   *)
(* unless everything is wiped.                                             *)
(***************************************************************************)
THEOREM OverrideKeepsTheModes == Spec => OverrideKeepsModes
  <1>1. OfficeInv /\ [Next]_<<vars, tab>> => [tab = "settings" => Modes!OverrideKeepsModesStep]_<<vars, tab>>
    BY OfficeSteps
  <1> QED BY <1>1, OfficeIsSound, PTL DEF Spec, OverrideKeepsModes

(***************************************************************************)
(* Calendar: the days a fill has done, the one under way and those left    *)
(* add up to the days it was started with, whatever is loaded, marked or   *)
(* shown meanwhile.                                                        *)
(***************************************************************************)
THEOREM FillCountsAddUp == Spec => []FillAddsUp
  <1>1. OfficeInv => FillAddsUp
    BY DaysHolds DEF OfficeInv, FillAddsUp
  <1> QED BY <1>1, OfficeIsSound, PTL

(***************************************************************************)
(* Backup: while a restore is under way its dialog is open and names the   *)
(* backup that is restored, whatever else the page fetches and deletes.    *)
(***************************************************************************)
THEOREM RestoreIsShown == Spec => []RestoreShown
  <1>1. OfficeInv => RestoreShown
    BY SavesHolds DEF OfficeInv, RestoreShown
  <1> QED BY <1>1, OfficeIsSound, PTL

(***************************************************************************)
(* Retention: while a purge is under way its dialog is open, and what is   *)
(* chosen behind it is what was sent.                                      *)
(***************************************************************************)
THEOREM PurgeIsAsShown == Spec => []PurgeAsShown
  <1>1. OfficeInv => PurgeAsShown
    BY PurgeHolds DEF OfficeInv, PurgeAsShown
  <1> QED BY <1>1, OfficeIsSound, PTL

(***************************************************************************)
(* Retention: when a purge has deleted what it was asked to, the file of   *)
(* the backup it made first is still there, also when backups are purged   *)
(* with the rest and a clean-up runs meanwhile.                            *)
(***************************************************************************)
THEOREM OwnBackupOutlivesPurge == Spec => BackupOutlivesPurge
  <1>1. OfficeInv /\ [Next]_<<vars, tab>> => [tab = "retention" => Purge!BackupOutlivesPurgeStep]_<<vars, tab>>
    BY OfficeSteps
  <1> QED BY <1>1, OfficeIsSound, PTL DEF Spec, BackupOutlivesPurge

(***************************************************************************)
(* Staff: while requests are served one at a time, a balance is what the   *)
(* entries of the ledger add up to, and those about a leave take its days  *)
(* off exactly while it is approved.                                       *)
(***************************************************************************)
THEOREM StaffLedgerIsKept == Spec => []StaffLedgerAddsUp
  <1>1. OfficeInv => StaffLedgerAddsUp
    BY CrewHolds DEF OfficeInv, StaffLedgerAddsUp
  <1> QED BY <1>1, OfficeIsSound, PTL

=============================================================================
