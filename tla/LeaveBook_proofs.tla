-------------------------- MODULE LeaveBook_proofs ---------------------------
(***************************************************************************)
(* The book of LeaveBook keeps its invariant, for all constants.           *)
(***************************************************************************)
EXTENDS LeaveBook, TLAPS

\* A change of status of one line leaves everything else in the book alone.
LEMMA NewStatus ==
    ASSUME BookInv, NEW l \in Leaves, leave[l] # Empty,
           NEW st \in {"approved", "rejected", "cancelled"},
           leave' = [leave EXCEPT ![l].status = st]
    PROVE  /\ leave' \in [Leaves -> Row \cup {Empty}]
           /\ leave'[l] = [leave[l] EXCEPT !.status = st]
           /\ leave'[l].status = st /\ leave'[l].teacher = leave[l].teacher
           /\ Slot(l)' = Slot(l)
           /\ \A m \in Leaves : m # l => leave'[m] = leave[m]
<1>1. leave[l] \in Row BY DEF BookInv
<1>2. leave'[l] = [leave[l] EXCEPT !.status = st]
      /\ \A m \in Leaves : m # l => leave'[m] = leave[m]
  BY DEF BookInv
<1>3. [leave[l] EXCEPT !.status = st] \in Row BY <1>1 DEF Row
<1> QED BY <1>1, <1>2, <1>3 DEF BookInv, Row, Slot

\* New lines are uncovered, and differ from every open line of the same
\* period in their teacher.
LEMMA SubmitKeeps ==
    ASSUME BookInv, NEW new \in SUBSET Leaves, Submit(new), Settle PROVE BookInv'
<1>1. /\ leave' \in [Leaves -> Row \cup {Empty}] /\ cover' = cover
      /\ \A l \in Leaves : l \in new \/ leave'[l] = leave[l]
      /\ \A l \in new : leave[l] = Empty
  BY DEF Submit
<1>2. \A l \in new : cover[l] = {}
  BY <1>1 DEF BookInv, CoveredIsApproved, Empty
<1>3. CoveredIsApproved'
  BY <1>1, <1>2 DEF BookInv, CoveredIsApproved
<1>4. NobodyTwice'
  BY <1>1, <1>2 DEF BookInv, NobodyTwice, Slot
<1>5. ASSUME NEW l \in Leaves, NEW m \in Leaves, l # m, Open(l)', Open(m)',
             Slot(l)' = Slot(m)'
      PROVE  leave'[l].teacher # leave'[m].teacher
  <2>1. CASE l \in new \/ m \in new BY <1>5, <2>1 DEF Submit
  <2>2. CASE l \notin new /\ m \notin new
    <3>1. leave'[l] = leave[l] /\ leave'[m] = leave[m] BY <1>1, <2>2
    <3> QED BY <1>5, <3>1 DEF BookInv, OneOpenLine, Open, Slot
  <2> QED BY <2>1, <2>2
<1> QED BY <1>1, <1>3, <1>4, <1>5 DEF BookInv, OneOpenLine, Settle

\* A decision is about a line nobody covers yet.
LEMMA DecideKeeps ==
    ASSUME BookInv, NEW l \in Leaves, NEW decision \in {"approved", "rejected"},
           Decide(l, decision), Settle
    PROVE  BookInv'
<1>1. /\ leave[l] # Empty /\ Open(l) /\ cover' = cover /\ cover[l] = {}
      /\ leave' = [leave EXCEPT ![l].status = decision]
  BY DEF Decide, Empty, Open, BookInv, CoveredIsApproved
<1>2. /\ leave' \in [Leaves -> Row \cup {Empty}]
      /\ leave'[l].teacher = leave[l].teacher /\ Slot(l)' = Slot(l)
      /\ \A m \in Leaves : m # l => leave'[m] = leave[m]
  BY <1>1, NewStatus
<1>3. CoveredIsApproved'
  BY <1>1, <1>2 DEF BookInv, CoveredIsApproved
<1>4. NobodyTwice'
  BY <1>1, <1>2 DEF BookInv, NobodyTwice, Slot
<1>5. OneOpenLine'
  BY <1>1, <1>2 DEF BookInv, OneOpenLine, Slot, Open
<1> QED BY <1>1, <1>2, <1>3, <1>4, <1>5 DEF BookInv, Settle

\* Who covers a class was free in its period.
LEMMA CoverKeeps ==
    ASSUME BookInv, NEW l \in Leaves, NEW s \in Teachers, Cover(l, s), Settle
    PROVE  BookInv'
<1>1. /\ leave' = leave /\ leave[l].status = "approved" /\ Free(s, l)
      /\ cover' = [cover EXCEPT ![l] = {s}]
  BY DEF Cover
<1>2. /\ cover' \in [Leaves -> SUBSET Teachers] /\ cover'[l] = {s}
      /\ \A m \in Leaves : m # l => cover'[m] = cover[m]
  BY <1>1 DEF BookInv
<1>3. CoveredIsApproved'
  BY <1>1, <1>2 DEF BookInv, CoveredIsApproved, Free
<1>4. ASSUME NEW k \in Leaves, NEW m \in Leaves, k # m, cover'[k] \cap cover'[m] # {}
      PROVE  Slot(k)' # Slot(m)'
  <2>1. CASE k = l
    <3>1. s \in cover[m] BY <1>2, <1>4, <2>1
    <3> QED BY <1>1, <1>4, <2>1, <3>1 DEF Free, Slot
  <2>2. CASE m = l
    <3>1. s \in cover[k] BY <1>2, <1>4, <2>2
    <3> QED BY <1>1, <1>4, <2>2, <3>1 DEF Free, Slot
  <2>3. CASE k # l /\ m # l
    BY <1>1, <1>2, <1>4, <2>3 DEF BookInv, NobodyTwice, Slot
  <2> QED BY <2>1, <2>2, <2>3
<1>5. OneOpenLine'
  BY <1>1 DEF BookInv, OneOpenLine, Slot, Open
<1> QED BY <1>1, <1>2, <1>3, <1>4, <1>5 DEF BookInv, NobodyTwice, Settle

\* Releasing classes can only make teachers free.
LEMMA ReleaseKeeps ==
    ASSUME BookInv, NEW gone \in SUBSET Leaves, Release(gone), Settle PROVE BookInv'
<1>1. /\ leave' = leave
      /\ cover' = [l \in Leaves |-> IF l \in gone THEN {} ELSE cover[l]]
  BY DEF Release
<1>2. cover' \in [Leaves -> SUBSET Teachers]
      /\ \A l \in Leaves : cover'[l] = {} \/ cover'[l] = cover[l]
  BY <1>1 DEF BookInv
<1>3. CoveredIsApproved' BY <1>1, <1>2 DEF BookInv, CoveredIsApproved
<1>4. NobodyTwice' BY <1>1, <1>2 DEF BookInv, NobodyTwice, Slot
<1>5. OneOpenLine' BY <1>1 DEF BookInv, OneOpenLine, Slot, Open
<1> QED BY <1>1, <1>2, <1>3, <1>4, <1>5 DEF BookInv, Settle

\* A cancelled line is not open and not covered.
LEMMA CancelKeeps ==
    ASSUME BookInv, NEW l \in Leaves, Cancel(l), Settle PROVE BookInv'
<1>1. /\ leave[l] # Empty
      /\ leave' = [leave EXCEPT ![l].status = "cancelled"]
      /\ cover' = [cover EXCEPT ![l] = {}]
  BY DEF Cancel, Empty, Open
<1>2. /\ leave' \in [Leaves -> Row \cup {Empty}] /\ leave'[l].status = "cancelled"
      /\ leave'[l].teacher = leave[l].teacher /\ Slot(l)' = Slot(l)
      /\ \A m \in Leaves : m # l => leave'[m] = leave[m]
  BY <1>1, NewStatus
<1>3. /\ cover' \in [Leaves -> SUBSET Teachers] /\ cover'[l] = {}
      /\ \A m \in Leaves : m # l => cover'[m] = cover[m]
  BY <1>1 DEF BookInv
<1>4. CoveredIsApproved' BY <1>2, <1>3 DEF BookInv, CoveredIsApproved
<1>5. NobodyTwice' BY <1>2, <1>3 DEF BookInv, NobodyTwice, Slot
<1>6. OneOpenLine' BY <1>2 DEF BookInv, OneOpenLine, Slot, Open
<1> QED BY <1>2, <1>3, <1>4, <1>5, <1>6 DEF BookInv, Settle

\* Every entry, of any kind, keeps the book's invariant.
LEMMA EntryKeeps == BookInv /\ [Next]_vars => BookInv'
<1>1. ASSUME BookInv, Entry, Settle PROVE BookInv'
  BY <1>1, SubmitKeeps, ReleaseKeeps, DecideKeeps, CoverKeeps, CancelKeeps DEF Entry
<1>2. ASSUME BookInv, UNCHANGED vars PROVE BookInv'
  BY <1>2 DEF vars, BookInv, CoveredIsApproved, NobodyTwice, OneOpenLine, Slot, Open
<1> QED BY <1>1, <1>2 DEF Next

\* An empty book satisfies the invariant.
LEMMA EmptyBook == Init => BookInv
BY DEF Init, BookInv, CoveredIsApproved, NobodyTwice, OneOpenLine, Open, Empty

\* The atomic service keeps its book in order: only approved leaves covered,
\* nobody twice in one period, one open leave per teacher and period, and a
\* ledger that is a function of who covers what.
THEOREM BookInOrder == Spec => []BookInv
BY EmptyBook, EntryKeeps, PTL DEF Spec
=============================================================================
