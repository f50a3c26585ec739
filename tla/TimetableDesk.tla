--------------------------- MODULE TimetableDesk ---------------------------
(***************************************************************************)
(* The administrator's timetable editor (frontend/src/pages/admin/         *)
(* Timetable.jsx).  Every change is saved at once; the grid is a copy with *)
(* an undo history of its own, which the server knows nothing about.       *)
(***************************************************************************)
EXTENDS PageJobs, GridHistory

CONSTANTS Teachers, Classes, Rooms, Cells,
          Dept,      \* the teachers of the administrator's department
          DeptClasses, \* the classes of that department
          Home       \* the first of its teachers, selected when the page opens

EditorAssumption == None \notin Rooms /\ Dept \subseteq Teachers /\ Home \in Dept /\ DeptClasses \subseteq Classes

-----------------------------------------------------------------------------
(* The page *)

Shown == pg.hist.present
SlotAt(cell) == {s \in Shown : s.at = cell}
Cell(cell, slots) == [at |-> cell, slot |-> IF slots = {} THEN None ELSE CHOOSE s \in slots : TRUE]

(* filteredTeachers: an administrator of one department is held to it. *)
Offered == IF pg.system THEN Teachers ELSE Dept

(* The dialogs cover the page. *)
Clear == pg.reset = None /\ ~pg.clash
Grid == Clear /\ pg.teacher # None /\ ~pg.loading

(* What the detail panel of the selected cell offers, also while the grid loads. *)
PanelAssigns == Clear /\ pg.sel # None /\ pg.sel.slot = None /\ pg.class = None /\ ~pg.saving
PanelEdits == Clear /\ pg.sel # None /\ pg.sel.slot # None

Call(h, a) == Start(h, a) /\ UNCHANGED srv

(* What a handler that changes a slot has closed over; of: the teacher chosen at the click. *)
Change(t, c, r, cell, id) ==
    [of |-> pg.teacher, t |-> t, c |-> c, r |-> r, at |-> cell, id |-> id, comb |-> pg.combine, slots |-> Shown]

(* The room a select or a quick chip is set to; no room is a theory hour. *)
RoomChoices == Rooms \cup {None}

(* The teacher picker; the effect on the choice loads the slots. *)
SelectTeacher(t) ==
    /\ Clear /\ t \in Offered \ {pg.teacher}
    /\ Call("load", t)
    /\ pg' = [pg EXCEPT !.teacher = t, !.sel = None, !.class = None, !.loading = TRUE]

(* A class card of the left panel; a subject picks a class of its department. *)
SelectClass(c) ==
    /\ Clear
    /\ Click
    /\ pg' = [pg EXCEPT !.class = IF @ = c THEN None ELSE c]

ToggleCombine == Clear /\ Click /\ pg' = [pg EXCEPT !.combine = ~@]

(* assignSlot on a taken cell: the conflict dialog, and nothing is sent. *)
AssignOccupied(cell) ==
    /\ Grid /\ SlotAt(cell) # {}
    /\ Click
    /\ pg' = [pg EXCEPT !.clash = TRUE]

(* assignSlot, from a click, a paint stroke or a drop: `saving` does not stop it. *)
AssignSlot(cell) ==
    /\ Grid /\ pg.class # None /\ SlotAt(cell) = {}
    /\ \E r \in RoomChoices : Call("create", Change(pg.teacher, pg.class, r, cell, None))
    /\ pg' = [pg EXCEPT !.saving = TRUE]

(* handleCellClick when it selects. *)
SelectCell(cell) ==
    /\ Grid /\ (pg.class = None \/ SlotAt(cell) # {})
    /\ Click
    /\ pg' = [pg EXCEPT !.sel = Cell(cell, SlotAt(cell))]

(* handleAssignFromPanel: the cell selected, whatever it holds by now. *)
AssignFromPanel(c) ==
    /\ PanelAssigns
    /\ \E r \in RoomChoices : Call("panel", Change(pg.teacher, c, r, pg.sel.at, None))
    /\ pg' = [pg EXCEPT !.saving = TRUE]

(* "Remove this slot" of the detail panel. *)
RemoveSlot ==
    /\ PanelEdits /\ ~pg.saving
    /\ Call("remove", Change(pg.sel.slot.t, None, None, pg.sel.at, pg.sel.slot.id))
    /\ pg' = [pg EXCEPT !.saving = TRUE]

(* updateSlot, from a select of the detail panel (class, room or subject): delete, then create. *)
UpdateSlot(c) ==
    /\ PanelEdits
    /\ \E r \in RoomChoices :
          /\ c = pg.sel.slot.c \/ r = pg.sel.slot.r
          /\ Call("update", Change(pg.sel.slot.t, c, r, pg.sel.at, pg.sel.slot.id))
    /\ pg' = [pg EXCEPT !.saving = TRUE]

(* Ctrl+Z and Ctrl+Y, the buttons: the grid only. *)
PressUndo ==
    /\ pg.hist.past # <<>>
    /\ Click
    /\ pg' = [pg EXCEPT !.hist = HistoryUndo(@)]

PressRedo ==
    /\ pg.hist.future # <<>>
    /\ Click
    /\ pg' = [pg EXCEPT !.hist = HistoryRedo(@)]

(* Escape *)
Deselect ==
    /\ pg.class # None \/ pg.sel # None
    /\ Local
    /\ pg' = [pg EXCEPT !.class = None, !.sel = None]

DismissClash ==
    /\ pg.clash
    /\ Local
    /\ \E combine \in {pg.combine, TRUE} : pg' = [pg EXCEPT !.clash = FALSE, !.combine = combine]

-----------------------------------------------------------------------------
(* The reset dialog *)

(* handleOpenResetModal: the dialog starts with the teacher shown and a department. *)
OpenReset ==
    /\ Clear /\ ~pg.saving
    /\ Click
    /\ pg' = [pg EXCEPT !.reset = [scope |-> "teachers", dept |-> "own", who |-> {pg.teacher},
                                   typed |-> FALSE, subs |-> FALSE]]

Scopes == {"department", "teachers"} \cup (IF pg.system THEN {"all"} ELSE {})

(* "own": of an administrator of one department his, of the system's the first of the list. *)
Departments == IF pg.system THEN {"own", "other"} ELSE {"own"}
TeachersOf(d) == IF d = "own" THEN Dept ELSE Teachers \ Dept
ClassesOf(d) == IF d = "own" THEN DeptClasses ELSE Classes \ DeptClasses

(* The form stays open to edits also while a reset is under way. *)
EditReset ==
    /\ pg.reset # None
    /\ Click
    /\ \/ \E scope \in Scopes \ {pg.reset.scope} : pg' = [pg EXCEPT !.reset.scope = scope]
       \/ \E d \in Departments \ {pg.reset.dept} : pg' = [pg EXCEPT !.reset.dept = d]
       \/ \E t \in Offered : pg' = [pg EXCEPT !.reset.who = (@ \ {t}) \cup ({t} \ @)]
       \/ pg' = [pg EXCEPT !.reset.typed = ~@]
       \/ pg' = [pg EXCEPT !.reset.subs = ~@]

CloseReset ==
    /\ pg.reset # None /\ ~pg.resetting
    /\ Local
    /\ pg' = [pg EXCEPT !.reset = None]

(* Mutant: the words that confirm a reset of all teachers need not be typed. *)
ResetReadyUntyped(R) == R.scope = "teachers" => R.who # {}
(* The conditions of the button, and again of handleExecuteReset. *)
ResetReady(R) ==
    /\ R.scope = "teachers" => R.who # {}
    /\ R.scope = "all" => R.typed

ExecuteReset ==
    /\ pg.reset # None /\ ~pg.resetting
    /\ ResetReady(pg.reset)
    /\ Call("reset", [teacher |-> pg.teacher, asked |-> pg.reset])
    /\ pg' = [pg EXCEPT !.resetting = TRUE]

-----------------------------------------------------------------------------
(* The server *)

(* _check_conflicts, whoever the slot belongs to. *)
Conflicts(a) ==
    {s \in srv.slots :
        /\ s.at = a.at
        /\ IF a.comb THEN s.t = a.t /\ s.c = a.c
           ELSE s.t = a.t \/ s.c = a.c \/ (a.r # None /\ s.r = a.r)}

NewSlot(a) == [id |-> srv.next, t |-> a.t, c |-> a.c, r |-> a.r, at |-> a.at, comb |-> a.comb]
Insert(slot) == srv' = [srv EXCEPT !.slots = @ \cup {slot}, !.next = @ + 1]

(* Mutant: nothing is checked when a slot is created. *)
ServeCreateUnchecked(j) ==
    /\ Sent(j, {"create", "panel"}) \/ (j.h = "update" /\ j.res = "deleted")
    /\ Insert(NewSlot(j.a)) /\ Answer(j, "ok", NewSlot(j.a))
(* create_slot *)
ServeCreate(j) ==
    /\ Sent(j, {"create", "panel"}) \/ (j.h = "update" /\ j.res = "deleted")
    /\ IF Conflicts(j.a) = {}
       THEN Insert(NewSlot(j.a)) /\ Answer(j, "ok", NewSlot(j.a))
       ELSE UNCHANGED srv /\ Answer(j, "conflict", None)

(* A slot is of the administrator's department by its teacher or by its class. *)
OfDepartment(s) == s.t \in Dept \/ s.c \in DeptClasses

(* delete_slot: also a slot that is gone is deleted without an error. *)
ServeDelete(j) ==
    /\ Sent(j, {"remove", "update"})
    /\ LET it == {s \in srv.slots : s.id = j.a.id}
       IN  IF pg.system \/ \A s \in it : OfDepartment(s)
           THEN /\ srv' = [srv EXCEPT !.slots = @ \ it]
                /\ Answer(j, IF j.h = "update" THEN "deleted" ELSE "ok", None)
           ELSE UNCHANGED srv /\ Answer(j, "failed", None)

ServeLoad(j) ==
    /\ Sent(j, {"load"})
    /\ UNCHANGED srv
    /\ Answer(j, "ok", {s \in srv.slots : s.t = j.a})

(* What a reset takes: a department also loses what its classes are taught by others. *)
InScope(R, s) ==
    CASE R.scope = "all"        -> TRUE
      [] R.scope = "department" -> s.t \in TeachersOf(R.dept) \/ s.c \in ClassesOf(R.dept)
      [] R.scope = "teachers"   -> s.t \in R.who

(* Who may: everything is for the system's administrator, the rest of the own department. *)
MayReset(R) ==
    \/ pg.system
    \/ R.scope = "department" /\ R.dept = "own"
    \/ R.scope = "teachers" /\ R.who \subseteq Dept

(* reset_timetable *)
ServeReset(j) ==
    /\ Sent(j, {"reset"})
    /\ LET R == j.a.asked
       IN  IF MayReset(R)
           THEN /\ srv' = [srv EXCEPT !.slots = {s \in @ : ~InScope(R, s)},
                                      !.subs = {u \in @ : ~(R.subs /\ InScope(R, u))}]
                /\ Answer(j, "ok", None)
           ELSE UNCHANGED srv /\ Answer(j, "failed", None)

-----------------------------------------------------------------------------
(* After the await *)

(* loadSlots: whichever teacher it was for. *)
OnLoaded(j) ==
    /\ Back(j, {"load"})
    /\ Then(j, {})
    /\ pg' = IF j.res = "ok"
             THEN [pg EXCEPT !.hist = HistoryInit(j.got), !.sel = None, !.class = None,
                             !.loading = FALSE]
             ELSE [pg EXCEPT !.loading = FALSE]

(* The new slot is added to the grid of the render the handler was created in. *)
OnCreated(j) ==
    /\ Back(j, {"create", "panel"}) /\ j.res = "ok"
    /\ Then(j, {})
    /\ pg' = [pg EXCEPT !.hist = HistorySet(@, j.a.slots \cup {j.got}), !.saving = FALSE,
                        !.sel = IF j.h = "panel" THEN None ELSE @]

(* Mutant: a refused assignment leaves the page saving. *)
OnRefusedStaysSaving(j) ==
    /\ Back(j, {"create", "panel"}) /\ j.res # "ok"
    /\ Then(j, {})
    /\ pg' = [pg EXCEPT !.clash = TRUE]
OnRefused(j) ==
    /\ Back(j, {"create", "panel"}) /\ j.res # "ok"
    /\ Then(j, {})
    /\ pg' = [pg EXCEPT !.clash = TRUE, !.saving = FALSE]

OnRemoved(j) ==
    /\ Back(j, {"remove"})
    /\ Then(j, {})
    /\ pg' = IF j.res = "ok"
             THEN [pg EXCEPT !.hist = HistorySet(@, {s \in j.a.slots : s.id # j.a.id}),
                             !.sel = None, !.saving = FALSE]
             ELSE [pg EXCEPT !.saving = FALSE]

OnUpdated(j) ==
    /\ Back(j, {"update"}) /\ j.res = "ok"
    /\ Then(j, {})
    /\ LET swap == {IF s.id = j.a.id THEN j.got ELSE s : s \in j.a.slots}
       IN  pg' = [pg EXCEPT !.hist = HistorySet(@, swap), !.saving = FALSE,
                            !.sel = IF @ = None THEN None ELSE [@ EXCEPT !.slot = j.got]]

(* An update that failed, before or after its delete: the teacher chosen at the click is read again. *)
OnUpdateFailed(j) ==
    /\ Back(j, {"update"}) /\ j.res \in {"failed", "conflict"}
    /\ Then(j, {Job("load", j.a.of)})
    /\ pg' = [pg EXCEPT !.saving = FALSE, !.loading = TRUE]

(* isAffected: with the scope of the click, whatever the form holds by now. *)
Affects(R, t) ==
    CASE R.scope = "all"        -> TRUE
      [] R.scope = "department" -> t \in TeachersOf(R.dept)
      [] R.scope = "teachers"   -> t \in R.who

OnReset(j) ==
    /\ Back(j, {"reset"})
    /\ Then(j, {})
    /\ pg' = IF j.res # "ok" THEN [pg EXCEPT !.resetting = FALSE]
             ELSE LET emptied == Affects(j.a.asked, j.a.teacher)
                  IN  [pg EXCEPT !.resetting = FALSE, !.reset = None,
                                 !.hist = IF emptied THEN HistoryInit({}) ELSE @,
                                 !.sel = IF emptied THEN None ELSE @]

-----------------------------------------------------------------------------
(* The page opens on the first teacher; the server holds a slot of some teacher and one submission. *)
Init ==
    /\ \E t \in Teachers, c \in Classes, r \in RoomChoices, cell \in Cells :
          srv = [slots |-> {[id |-> 0, t |-> t, c |-> c, r |-> r, at |-> cell, comb |-> FALSE]},
                 subs |-> {[t |-> t, c |-> c]}, next |-> 1]
    /\ \E system \in BOOLEAN :
       pg = [system |-> system, teacher |-> Home, hist |-> HistoryInit({}), sel |-> None, class |-> None,
             combine |-> FALSE, saving |-> FALSE, loading |-> TRUE, clash |-> FALSE,
             reset |-> None, resetting |-> FALSE]
    /\ jobs = {Job("load", Home)}
    /\ clicks = 0

Next ==
    \/ \E j \in jobs :
          \/ ServeCreate(j) \/ ServeDelete(j) \/ ServeLoad(j) \/ ServeReset(j) \/ Fail(j)
          \/ OnLoaded(j) \/ OnCreated(j) \/ OnRefused(j) \/ OnRemoved(j)
          \/ OnUpdated(j) \/ OnUpdateFailed(j) \/ OnReset(j)
    \/ \E t \in Teachers : SelectTeacher(t)
    \/ \E c \in Classes : SelectClass(c) \/ AssignFromPanel(c) \/ UpdateSlot(c)
    \/ \E cell \in Cells : AssignOccupied(cell) \/ AssignSlot(cell) \/ SelectCell(cell)
    \/ ToggleCombine \/ RemoveSlot \/ PressUndo \/ PressRedo \/ Deselect \/ DismissClash
    \/ OpenReset \/ EditReset \/ CloseReset \/ ExecuteReset

Spec == Init /\ [][Next]_vars

-----------------------------------------------------------------------------
(***************************************************************************)
(* The undo history never holds more grids than its cap, also counting     *)
(* those a redo can bring back, in whatever order changes, undos, redos    *)
(* and late answers come (historyReducer slices only when a change is set).*)
(***************************************************************************)
HistoryBounded == Len(pg.hist.past) + Len(pg.hist.future) <= Cap

(***************************************************************************)
(* The page never waits for nothing: "Saving", the loading grid and the    *)
(* reset dialog each have a handler that is still to come back.            *)
(***************************************************************************)
WaitingHasJob ==
    /\ pg.saving => InFlight({"create", "panel", "remove", "update"})
    /\ pg.loading => InFlight({"load"})
    /\ pg.resetting => InFlight({"reset"})

(***************************************************************************)
(* Two slots of one teacher, one class or one room in the same cell: the   *)
(* later one was created in Combine Class mode, also when it replaced      *)
(* another slot.                                                           *)
(***************************************************************************)
ClashIsCombined ==
    \A s, u \in srv.slots :
        (s.id < u.id /\ s.at = u.at /\ (s.t = u.t \/ s.c = u.c \/ (u.r # None /\ s.r = u.r))) => u.comb

(***************************************************************************)
(* A slot goes only by a handler that was clicked for it: a change of the  *)
(* slot itself, or a reset whose dialog, as it stood at the click and      *)
(* whatever is edited in it meanwhile, covered the slot, with the words    *)
(* typed when it covered everybody; a submission only by such a reset that *)
(* asked for submissions too.  And an administrator of one department      *)
(* removes nothing that is neither taught by its teachers nor held in its  *)
(* classes.                                                                *)
(***************************************************************************)
ResetAuthorisedStep ==
    LET confirmed == {j.a.asked : j \in {k \in jobs : k.h = "reset" /\ (k.a.asked.scope = "all" => k.a.asked.typed)}}
        edited == {j.a.id : j \in {k \in jobs : k.h \in {"remove", "update"}}}
    IN  /\ \A s \in srv.slots \ srv'.slots :
              /\ s.id \in edited \/ \E R \in confirmed : InScope(R, s)
              /\ pg.system \/ OfDepartment(s)
        /\ \A u \in srv.subs \ srv'.subs : \E R \in confirmed : R.subs /\ InScope(R, u)
ResetAuthorised == [][ResetAuthorisedStep]_vars

(***************************************************************************)
(* At rest the grid shows the server's slots of the selected teacher       *)
(* ("Undo (Ctrl+Z)" and the toasts say that slots came and went).  No run  *)
(* checks it: the page does not keep it (README, section 4).               *)
(***************************************************************************)
GridIsSaved == jobs = {} => Shown = {s \in srv.slots : s.t = pg.teacher}
=============================================================================
