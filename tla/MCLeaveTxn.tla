----------------------------- MODULE MCLeaveTxn -----------------------------
(* Small institutions for LeaveTxn: three teachers, short days.            *)
EXTENDS LeaveTxn, TLC

CONSTANTS t1, t2, t3, w1, w2

OnePeriod == {1}
TwoPeriods == {1, 2}
SingleBatches == {<<1>>}
AllBatches == {<<1>>, <<2>>, <<1, 2>>}

\* t1 teaches the first period of the first day order, so never covers it.
T1Busy == {<<t1, 1, 1>>}
NobodyBusy == {}

\* The teachers no timetable slot tells apart.
IdleTeachers == Permutations({t2, t3})
AllTeachers == Permutations({t1, t2, t3})
=============================================================================
