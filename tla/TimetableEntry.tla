--------------------------- MODULE TimetableEntry ---------------------------
(***************************************************************************)
(* A teacher enters the own timetable (frontend/src/pages/teacher/         *)
(* Timetable.jsx) and the administrator reviews it (frontend/src/pages/    *)
(* admin/TimetableApprovals.jsx), over the submissions of                  *)
(* backend/app/services/timetable_submission_service.py.                   *)
(*                                                                         *)
(* The teacher's page is written as the administrator's editor is, but     *)
(* the calls that change slots are for administrators: an assignment falls *)
(* back to a submission, the other changes are refused.                    *)
(***************************************************************************)
EXTENDS PageJobs, GridHistory

CONSTANTS Me,        \* the teacher
          Other,     \* a colleague, whose slots are in the way
          Classes, Rooms, Cells

EntryAssumption == Me # Other /\ None \notin Rooms

-----------------------------------------------------------------------------
(* The teacher's page *)

Shown == pg.hist.present
SlotAt(cell) == {s \in Shown : s.at = cell}
Cell(cell) == [at |-> cell, slot |-> IF SlotAt(cell) = {} THEN None
                                     ELSE CHOOSE s \in SlotAt(cell) : TRUE]

(* The two dialogs cover the page. *)
Clear == pg.clash = None /\ ~pg.clearing
Grid == Clear /\ ~pg.loading

Call(h, a) == Start(h, a) /\ UNCHANGED srv

(* A class, the room a select or a quick chip is set to (or none), and a cell. *)
RoomChoices == Rooms \cup {None}
Entry(c, r, cell, comb) == [c |-> c, r |-> r, at |-> cell, comb |-> comb, slots |-> Shown]

(* A class card or a subject of the left panel. *)
SelectClass(c) ==
    /\ Clear
    /\ Click
    /\ pg' = [pg EXCEPT !.class = IF @ = c THEN None ELSE c]

ToggleCombine == Clear /\ Click /\ pg' = [pg EXCEPT !.combine = ~@]

(* assignSlot, by click, stroke or drop; a taken cell is only reported. *)
AssignSlot(cell) ==
    /\ Grid /\ pg.class # None /\ SlotAt(cell) = {}
    /\ \E r \in RoomChoices : Call("create", Entry(pg.class, r, cell, pg.combine))
    /\ pg' = [pg EXCEPT !.saving = TRUE]

(* handleCellClick when it selects. *)
SelectCell(cell) ==
    /\ Grid /\ (pg.class = None \/ SlotAt(cell) # {})
    /\ Click
    /\ pg' = [pg EXCEPT !.sel = Cell(cell)]

(* What the detail panel of the selected cell offers, and the cards of the phone. *)
PanelAssigns == Clear /\ pg.sel # None /\ pg.sel.slot = None /\ ~pg.saving
PanelEdits == Clear /\ pg.sel # None /\ pg.sel.slot # None

(* handleAssignFromPanel, and handleMobileAssign of the phone's dialog. *)
AssignFromPanel(c) ==
    /\ PanelAssigns
    /\ \E r \in RoomChoices : Call("panel", Entry(c, r, pg.sel.at, pg.combine))
    /\ pg' = [pg EXCEPT !.saving = TRUE]

RemoveSlot ==
    /\ PanelEdits /\ ~pg.saving
    /\ Call("remove", pg.sel.at)
    /\ pg' = [pg EXCEPT !.saving = TRUE]

(* updateSlot, also from the phone's dialog. *)
UpdateSlot ==
    /\ PanelEdits
    /\ Call("update", pg.sel.at)
    /\ pg' = [pg EXCEPT !.saving = TRUE]

(* "Combine Class & Assign" of the conflict dialog: the entry it was raised for. *)
CombineAndAssign ==
    /\ pg.clash # None /\ ~pg.saving
    /\ Call("combine", Entry(pg.clash.c, pg.clash.r, pg.clash.at, TRUE))
    /\ pg' = [pg EXCEPT !.saving = TRUE]

DismissClash == pg.clash # None /\ Local /\ pg' = [pg EXCEPT !.clash = None]

OpenClear == Clear /\ Shown # {} /\ ~pg.saving /\ Click /\ pg' = [pg EXCEPT !.clearing = TRUE]
KeepSlots == pg.clearing /\ Local /\ pg' = [pg EXCEPT !.clearing = FALSE]
ClearAll ==
    /\ pg.clearing
    /\ Call("clear", None)
    /\ pg' = [pg EXCEPT !.clearing = FALSE, !.saving = TRUE]

PressUndo == pg.hist.past # <<>> /\ Click /\ pg' = [pg EXCEPT !.hist = HistoryUndo(@)]
PressRedo == pg.hist.future # <<>> /\ Click /\ pg' = [pg EXCEPT !.hist = HistoryRedo(@)]

Deselect ==
    /\ pg.class # None \/ pg.sel # None
    /\ Local
    /\ pg' = [pg EXCEPT !.class = None, !.sel = None]

-----------------------------------------------------------------------------
(* The server *)

(* _check_conflicts: comb is what the call says of itself. *)
Conflicts(S, t, e, comb) ==
    {s \in S.slots :
        /\ s.at = e.at
        /\ IF comb THEN s.t = t /\ s.c = e.c
           ELSE s.t = t \/ s.c = e.c \/ (e.r # None /\ s.r = e.r)}

Slot(t, e, of, comb) == [t |-> t, c |-> e.c, r |-> e.r, at |-> e.at, of |-> of, comb |-> comb]

(* A submission keeps its number when it is deleted: numbers are not used again. *)
Ids == DOMAIN srv.subs
Pending == {i \in Ids : srv.subs[i].st = "pending"}

(* submit: the submission does not keep allow_combined_class. *)
ServeSubmit(j) ==
    /\ Sent(j, {"create", "panel", "combine"})
    /\ IF srv.disabled THEN UNCHANGED srv /\ Answer(j, "failed", None)
       ELSE IF Conflicts(srv, Me, j.a, j.a.comb) # {} THEN UNCHANGED srv /\ Answer(j, "conflict", None)
       ELSE /\ srv' = [srv EXCEPT !.subs = Append(@, [c |-> j.a.c, r |-> j.a.r, at |-> j.a.at, st |-> "pending"])]
            /\ Answer(j, "ok", [c |-> j.a.c, at |-> j.a.at])

(* Deleting a slot or all of them is for administrators. *)
ServeForbidden(j) ==
    /\ Sent(j, {"remove", "update", "clear"})
    /\ UNCHANGED srv
    /\ Answer(j, "failed", None)

ServeLoad(j) ==
    /\ Sent(j, {"load"})
    /\ UNCHANGED srv
    /\ Answer(j, "ok", {[c |-> s.c, at |-> s.at] : s \in {x \in srv.slots : x.t = Me}})

(* What a decision does. *)
Decided(S, i, approved) ==
    [S EXCEPT !.subs[i].st = IF approved THEN "approved" ELSE "rejected",
              !.slots = @ \cup (IF approved THEN {Slot(Me, S.subs[i], i, FALSE)} ELSE {})]

(* Mutants: a submission that has been decided can be decided again; an approval  *)
(* relies on the check made when the entry was submitted.                         *)
ReviewTwice(S, i, approved) ==
    IF approved /\ Conflicts(S, Me, S.subs[i], FALSE) # {} THEN S ELSE Decided(S, i, approved)
ReviewUnchecked(S, i, approved) ==
    IF S.subs[i].st # "pending" THEN S ELSE Decided(S, i, approved)
(* review: approval checks the conflicts again, never as a combined class. *)
Review(S, i, approved) ==
    IF S.subs[i].st # "pending" \/ (approved /\ Conflicts(S, Me, S.subs[i], FALSE) # {}) THEN S
    ELSE Decided(S, i, approved)

ServeReview(j) ==
    /\ Sent(j, {"review"})
    /\ srv' = Review(srv, j.a.id, j.a.approved)
    /\ Answer(j, IF srv'.subs[j.a.id].st = srv.subs[j.a.id].st THEN "failed" ELSE "ok", None)

(* bulk_review, one submission at a time in the order they were ticked: each review is *)
(* committed before the next, and the ones refused are only counted.                   *)
ServeBulk(j) ==
    /\ Sent(j, {"bulk"})
    /\ IF j.a.ids = {} THEN UNCHANGED srv /\ Answer(j, "ok", None)
       ELSE \E i \in j.a.ids :
               /\ srv' = Review(srv, i, j.a.approved)
               /\ jobs' = (jobs \ {j}) \cup {[j EXCEPT !.a.ids = @ \ {i}]}
               /\ UNCHANGED <<pg, clicks>>

ServePending(j) ==
    /\ Sent(j, {"items"})
    /\ UNCHANGED srv
    /\ Answer(j, "ok", Pending)

(* Meanwhile the settings page, the administrator's editor (a slot deleted or created,  *)
(* also in Combine Class mode; the teacher reset, submissions too) and cancel.          *)
ServeElsewhere ==
    /\ clicks < MaxClicks /\ clicks' = clicks + 1
    /\ \/ srv' = [srv EXCEPT !.disabled = ~@]
       \/ \E s \in srv.slots : srv' = [srv EXCEPT !.slots = @ \ {s}]
       \/ \E t \in {Me, Other}, c \in Classes, r \in RoomChoices, cell \in Cells, comb \in BOOLEAN :
             LET e == [c |-> c, r |-> r, at |-> cell]
             IN  /\ Conflicts(srv, t, e, comb) = {}
                 /\ srv' = [srv EXCEPT !.slots = @ \cup {Slot(t, e, 0, comb)}]
       \/ srv' = [srv EXCEPT !.slots = {s \in @ : s.t # Me},
                             !.subs = [i \in Ids |-> [srv.subs[i] EXCEPT !.st = "deleted"]]]
       \/ \E i \in Pending : srv' = [srv EXCEPT !.subs[i].st = "deleted"]
    /\ UNCHANGED <<pg, jobs>>

-----------------------------------------------------------------------------
(* The teacher's page after the await *)

OnLoaded(j) ==
    /\ Back(j, {"load"})
    /\ Then(j, {})
    /\ pg' = IF j.res = "ok"
             THEN [pg EXCEPT !.hist = HistoryInit(j.got), !.sel = None, !.class = None,
                             !.loading = FALSE]
             ELSE [pg EXCEPT !.loading = FALSE]

(* The submission is shown as a slot. *)
OnSubmitted(j) ==
    /\ Back(j, {"create", "panel", "combine"}) /\ j.res = "ok"
    /\ Then(j, {})
    /\ pg' = [pg EXCEPT !.hist = HistorySet(@, j.a.slots \cup {j.got}), !.saving = FALSE,
                        !.sel = IF j.h = "panel" THEN None ELSE @,
                        !.clash = IF j.h = "combine" THEN None ELSE @,
                        !.combine = @ \/ j.h = "combine"]

(* The conflict dialog opens for whatever was refused; a refused combination keeps it. *)
OnRefused(j) ==
    /\ Back(j, {"create", "panel", "combine"}) /\ j.res # "ok"
    /\ Then(j, {})
    /\ pg' = [pg EXCEPT !.saving = FALSE,
                        !.clash = IF j.h = "combine" THEN @ ELSE [c |-> j.a.c, r |-> j.a.r, at |-> j.a.at]]

OnForbidden(j) ==
    /\ Back(j, {"remove", "clear"})
    /\ Then(j, {})
    /\ pg' = [pg EXCEPT !.saving = FALSE]

(* A refused update reads the slots again. *)
OnUpdateFailed(j) ==
    /\ Back(j, {"update"})
    /\ Then(j, {Job("load", None)})
    /\ pg' = [pg EXCEPT !.saving = FALSE, !.loading = TRUE]

-----------------------------------------------------------------------------
(* The administrator's page *)

(* Ids the search box leaves in the table. *)
Filtered == {i \in pg.items : pg.query = None \/ srv.subs[i].c = pg.query}

(* While the list loads the page is a spinner. *)
Ready == ~pg.fetching /\ pg.acting = None

OpenApprovals ==
    /\ ~pg.fetching
    /\ Call("items", None)
    /\ pg' = [pg EXCEPT !.fetching = TRUE, !.items = {}, !.ticked = {}, !.query = None, !.acting = None]

Search(c) == ~pg.fetching /\ pg.query # c /\ Click /\ pg' = [pg EXCEPT !.query = c]

ToggleOne(i) ==
    /\ ~pg.fetching /\ i \in Filtered
    /\ Click
    /\ pg' = [pg EXCEPT !.ticked = (@ \ {i}) \cup ({i} \ @)]

(* The box in the header: compares how many are ticked, not which. *)
ToggleAll ==
    /\ ~pg.fetching /\ Filtered # {}
    /\ Click
    /\ pg' = [pg EXCEPT !.ticked = IF Cardinality(@) = Cardinality(Filtered) THEN {} ELSE Filtered]

SingleReview(i, approved) ==
    /\ Ready /\ i \in Filtered
    /\ Call("review", [id |-> i, approved |-> approved])
    /\ pg' = [pg EXCEPT !.acting = "one"]

(* The ticked ones, also those a later search hides; all of them when none is ticked. *)
HandleBulkReview(approved) ==
    /\ Ready /\ pg.items # {}
    /\ Call("bulk", [ids |-> IF pg.ticked = {} THEN pg.items ELSE pg.ticked, approved |-> approved])
    /\ pg' = [pg EXCEPT !.acting = "bulk"]

(* load() is part of the handler: it is awaited, and then the buttons come back. *)
OnReviewed(j) ==
    /\ Back(j, {"review", "bulk"})
    /\ Then(j, IF j.res = "ok" THEN {Job("items", None)} ELSE {})
    /\ pg' = IF j.res = "ok" THEN [pg EXCEPT !.fetching = TRUE] ELSE [pg EXCEPT !.acting = None]

OnItems(j) ==
    /\ Back(j, {"items"})
    /\ Then(j, {})
    /\ pg' = IF j.res = "ok"
             THEN [pg EXCEPT !.items = j.got, !.ticked = {}, !.fetching = FALSE, !.acting = None]
             ELSE [pg EXCEPT !.fetching = FALSE, !.acting = None]

-----------------------------------------------------------------------------
Init ==
    /\ \E c, d \in Classes, r \in RoomChoices, cell \in Cells :
          srv = [slots |-> {[t |-> Other, c |-> d, r |-> r, at |-> cell, of |-> 0, comb |-> FALSE]},
                 subs |-> <<[c |-> c, r |-> r, at |-> cell, st |-> "pending"]>>, disabled |-> FALSE]
    /\ pg = [hist |-> HistoryInit({}), sel |-> None, class |-> None, combine |-> FALSE,
             saving |-> FALSE, loading |-> TRUE, clash |-> None, clearing |-> FALSE,
             items |-> {}, ticked |-> {}, query |-> None, acting |-> None, fetching |-> FALSE]
    /\ jobs = {Job("load", None)}
    /\ clicks = 0

Next ==
    \/ \E j \in jobs :
          \/ ServeSubmit(j) \/ ServeForbidden(j) \/ ServeLoad(j) \/ ServeReview(j) \/ ServeBulk(j)
          \/ ServePending(j) \/ Fail(j)
          \/ OnLoaded(j) \/ OnSubmitted(j) \/ OnRefused(j) \/ OnForbidden(j) \/ OnUpdateFailed(j)
          \/ OnReviewed(j) \/ OnItems(j)
    \/ \E c \in Classes : SelectClass(c) \/ AssignFromPanel(c) \/ Search(c)
    \/ \E cell \in Cells : AssignSlot(cell) \/ SelectCell(cell)
    \/ \E i \in pg.items : ToggleOne(i) \/ SingleReview(i, TRUE) \/ SingleReview(i, FALSE)
    \/ \E approved \in BOOLEAN : HandleBulkReview(approved)
    \/ ToggleCombine \/ RemoveSlot \/ UpdateSlot \/ CombineAndAssign \/ DismissClash \/ OpenClear \/ KeepSlots
    \/ ClearAll \/ PressUndo \/ PressRedo \/ Deselect \/ OpenApprovals \/ ToggleAll \/ ServeElsewhere

Spec == Init /\ [][Next]_vars

-----------------------------------------------------------------------------
(***************************************************************************)
(* The undo history of the teacher's grid stays within its cap.            *)
(***************************************************************************)
HistoryBounded == Len(pg.hist.past) + Len(pg.hist.future) <= Cap

(***************************************************************************)
(* "Saving", the spinners and the disabled buttons of both pages each have *)
(* a handler that is still to come back.                                   *)
(***************************************************************************)
WaitingHasJob ==
    /\ pg.saving => InFlight({"create", "panel", "combine", "remove", "update", "clear"})
    /\ pg.loading => InFlight({"load"})
    /\ pg.fetching => InFlight({"items"})
    /\ pg.acting # None => InFlight({"review", "bulk", "items"})

(***************************************************************************)
(* Whatever the teacher combines, undoes and sends again, and however the  *)
(* administrator approves and edits: a slot that came from a submission is *)
(* of one that is approved, and two slots of one teacher, class or room in *)
(* one cell are there only by the administrator's Combine Class mode - a   *)
(* teacher's own combination never gets that far.                          *)
(***************************************************************************)
SlotsApproved ==
    /\ \A s \in srv.slots : s.of # 0 => srv.subs[s.of].st = "approved"
    /\ \A s, u \in srv.slots :
          (s # u /\ s.at = u.at /\ (s.t = u.t \/ s.c = u.c \/ (s.r # None /\ s.r = u.r))) => s.comb \/ u.comb

(***************************************************************************)
(* A decision is final: a reviewed submission is never reviewed again, by  *)
(* single or bulk review, late or repeated, and never cancelled; only a    *)
(* reset of the timetable deletes it.                                      *)
(***************************************************************************)
DecisionsFinalStep ==
    \A i \in Ids : srv.subs[i].st # "pending" =>
        \/ srv'.subs[i] = srv.subs[i]
        \/ srv'.subs[i].st = "deleted" /\ \A k \in Ids : srv'.subs[k].st = "deleted"
DecisionsFinal == [][DecisionsFinalStep]_vars
=============================================================================
