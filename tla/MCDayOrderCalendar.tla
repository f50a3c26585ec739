------------------------ MODULE MCDayOrderCalendar -------------------------
(* Short calendars for DayOrderCalendar.                                   *)
EXTENDS DayOrderCalendar, TLC

CONSTANTS w1, w2, holiday, exam_day

Interchangeable == Permutations(Workers) \cup Permutations(NonWorkingTypes)
=============================================================================
