------------------------------ MODULE LeaveBook ------------------------------
(***************************************************************************)
(* What the leave and substitution service promises to a college that sends *)
(* it one request at a time: a book of leaves, of who covers each of them,  *)
(* and of the credit owed for it.  Every request is one step.  There is no  *)
(* transaction, no mode, no clock and no calendar here: LeaveTxn implements *)
(* this module when its requests do not overlap.                            *)
(***************************************************************************)
EXTENDS Integers

CONSTANTS
    Leaves,       \* the lines of the book
    Teachers, Days, Orders, Periods,
    Timetable     \* <<teacher, day order, period>> of every timetable slot

VARIABLES
    leave,        \* a line: empty, or who is absent, when, and its status
    cover,        \* who covers the class: nobody, or one teacher
    ledger        \* the credit each teacher has from each leave

vars == <<leave, cover, ledger>>

Row == [status: {"pending", "approved", "rejected", "cancelled"},
        teacher: Teachers, date: Days, order: Orders, period: Periods]
Empty == [status |-> "none"]

Open(l) == leave[l].status \in {"pending", "approved"}
Slot(l) == <<leave[l].date, leave[l].period>>

\* One credit from the absent teacher to the one who covers, if somebody does.
Due(row, c) ==
    [t \in Teachers |-> IF t \in c THEN 1
                        ELSE IF c # {} /\ t = row.teacher THEN -1 ELSE 0]

\* A teacher who is neither absent, nor in class, nor covering another class
\* in the period of leave l.
Free(s, l) ==
    /\ s # leave[l].teacher
    /\ <<s, leave[l].order, leave[l].period>> \notin Timetable
    /\ \A m \in Leaves \ {l} :
          /\ s \in cover[m] => Slot(m) # Slot(l)
          /\ leave[m].status = "approved" /\ leave[m].teacher = s
                => Slot(m) # Slot(l)

Init ==
    /\ leave = [l \in Leaves |-> Empty]
    /\ cover = [l \in Leaves |-> {}]
    /\ ledger = [l \in Leaves |-> Due(Empty, {})]

\* New lines, none for a period its teacher already has an open line for.
Submit(new) ==
    /\ leave' \in [Leaves -> Row \cup {Empty}]
    /\ \A l \in Leaves :
          IF l \in new THEN leave[l] = Empty /\ Open(l)'
                       ELSE leave'[l] = leave[l]
    /\ \A l \in new, m \in Leaves :
          l # m /\ Open(m)' /\ Slot(m)' = Slot(l)' =>
              leave'[m].teacher # leave'[l].teacher
    /\ UNCHANGED cover

Decide(l, decision) ==
    /\ leave[l].status = "pending"
    /\ leave' = [leave EXCEPT ![l].status = decision]
    /\ UNCHANGED cover

\* A free teacher takes the class, or takes it over from another.
Cover(l, s) ==
    /\ leave[l].status = "approved"
    /\ Free(s, l)
    /\ s \notin cover[l]
    /\ cover' = [cover EXCEPT ![l] = {s}]
    /\ UNCHANGED leave

Release(gone) ==
    /\ cover' = [l \in Leaves |-> IF l \in gone THEN {} ELSE cover[l]]
    /\ UNCHANGED leave

Cancel(l) ==
    /\ Open(l)
    /\ leave' = [leave EXCEPT ![l].status = "cancelled"]
    /\ cover' = [cover EXCEPT ![l] = {}]

Entry ==
    \/ \E new \in SUBSET Leaves : Submit(new) \/ Release(new)
    \/ \E l \in Leaves :
          \/ \E decision \in {"approved", "rejected"} : Decide(l, decision)
          \/ \E s \in Teachers : Cover(l, s)
          \/ Cancel(l)

\* With every entry the ledger is settled.
Settle == ledger' = [l \in Leaves |-> Due(leave'[l], cover'[l])]

Next == Entry /\ Settle
Spec == Init /\ [][Next]_vars
-----------------------------------------------------------------------------
(* What follows from it for the book.                                      *)

\* Only approved leaves are covered, each by one other teacher.
CoveredIsApproved ==
    \A l \in Leaves : cover[l] # {} =>
        /\ leave[l].status = "approved"
        /\ \E s \in Teachers \ {leave[l].teacher} : cover[l] = {s}

\* Nobody covers two classes of one period.
NobodyTwice ==
    \A l, m \in Leaves : l # m /\ cover[l] \cap cover[m] # {} => Slot(l) # Slot(m)

\* No teacher has two open lines for one period.
OneOpenLine ==
    \A l, m \in Leaves :
        l # m /\ Open(l) /\ Open(m) /\ Slot(l) = Slot(m) =>
            leave[l].teacher # leave[m].teacher

BookInv ==
    /\ leave \in [Leaves -> Row \cup {Empty}]
    /\ cover \in [Leaves -> SUBSET Teachers]
    /\ ledger = [l \in Leaves |-> Due(leave[l], cover[l])]
    /\ CoveredIsApproved /\ NobodyTwice /\ OneOpenLine
=============================================================================
