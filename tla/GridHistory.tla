---------------------------- MODULE GridHistory ----------------------------
(***************************************************************************)
(* The undo history of the timetable editors (historyReducer of            *)
(* frontend/src/pages/admin/Timetable.jsx, the same in teacher/).  It      *)
(* moves between grids the page has shown; the server is not told.         *)
(***************************************************************************)
EXTENDS Naturals, Sequences

CONSTANT Cap   \* grids the history keeps: 20 in the code

ASSUME CapAssumption == Cap \in Nat \ {0}

Last(s, n) == IF Len(s) <= n THEN s ELSE SubSeq(s, Len(s) - n + 1, Len(s))

(* Mutant: the history keeps one entry too many. *)
HistorySetKeepsAll(H, slots) ==
    [past |-> Append(Last(H.past, Cap), H.present), present |-> slots, future |-> <<>>]
HistorySet(H, slots) ==
    [past |-> Append(Last(H.past, Cap - 1), H.present), present |-> slots, future |-> <<>>]

HistoryInit(slots) == [past |-> <<>>, present |-> slots, future |-> <<>>]

HistoryUndo(H) ==
    IF H.past = <<>> THEN H
    ELSE [past    |-> SubSeq(H.past, 1, Len(H.past) - 1),
          present |-> H.past[Len(H.past)],
          future  |-> <<H.present>> \o H.future]

HistoryRedo(H) ==
    IF H.future = <<>> THEN H
    ELSE [past |-> Append(H.past, H.present), present |-> Head(H.future), future |-> Tail(H.future)]

=============================================================================
