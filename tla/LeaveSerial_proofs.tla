------------------------- MODULE LeaveSerial_proofs --------------------------
(***************************************************************************)
(* Requests that do not overlap: LeaveTxn with a single worker implements  *)
(* LeaveBook, for all other constants.  What a request read at its begin   *)
(* still holds at its commit, because only the calendar, the mode and the  *)
(* clock have moved in between.                                            *)
(***************************************************************************)
EXTENDS LeaveTxn_proofs

BookP == INSTANCE LeaveBook_proofs WITH
    Orders <- 1..MaxOrder, cover <- Coverage, ledger <- net

\* A college that sends one request at a time keeps one worker busy.
Serial == \A v, w \in Workers : v = w

\* What an open request read, and still finds when it commits.
Assignable(l) == leave[l].status = "approved" /\ ~Covered(l)
SubmitHolds(r) ==
    r.op = "submit" =>
        /\ \A i \in 1..Len(r.rows) :
              NoOpenLeave(r.rows[i].teacher, r.rows[i].date, r.rows[i].period)
        /\ \A i, j \in 1..Len(r.rows) : i # j => r.rows[i].period # r.rows[j].period
AssignHolds(r) ==
    r.op \in {"assign", "auto"} => Assignable(r.leaf) /\ CanCover(r.sub, r.leaf)
OverrideHolds(r) ==
    r.op = "override" => r.sub # r.seen.sub /\ CanCover(r.sub, r.leaf)
SeenHolds(r) ==
    r.op \in {"override", "undo", "lock", "cancel"} => r.seen = asg[r.leaf]
CancelHolds(r) == r.op = "cancel" => Open(r.leaf)
ClearHolds(r) ==
    r.op = "clear" => \A l \in Leaves : r.seen[l] \in {asg[l], NoAsg}
QueueHolds(r) ==
    /\ r.op \in {"queued", "auto"} =>
          /\ \A i \in 1..Len(r.todo) : Assignable(r.todo[i])
          /\ \A i, j \in 1..Len(r.todo) : i # j => r.todo[i] # r.todo[j]
    /\ r.op = "auto" => \A i \in 1..Len(r.todo) : r.todo[i] # r.leaf
ReadHolds(r) ==
    /\ SubmitHolds(r) /\ AssignHolds(r) /\ OverrideHolds(r) /\ SeenHolds(r)
    /\ CancelHolds(r) /\ ClearHolds(r) /\ QueueHolds(r)

SInv ==
    /\ IInv
    /\ Book!BookInv
    /\ \A w \in Workers : ReadHolds(txn[w])
-----------------------------------------------------------------------------
(* The book and the tables.                                                *)

\* The two instances of the book are one.
LEMMA BookKeeps == Book!BookInv /\ [Book!Next]_(Book!vars) => Book!BookInv'
BY BookP!EntryKeeps
DEF Book!BookInv, Book!Next, Book!vars, Book!Entry, Book!Settle, Book!Submit, Book!Release,
    Book!Decide, Book!Cover, Book!Cancel, Book!Free, Book!Open, Book!Slot, Book!Due,
    Book!Row, Book!Empty, Book!CoveredIsApproved, Book!NobodyTwice, Book!OneOpenLine,
    BookP!BookInv, BookP!Next, BookP!vars, BookP!Entry, BookP!Settle, BookP!Submit, BookP!Release,
    BookP!Decide, BookP!Cover, BookP!Cancel, BookP!Free, BookP!Open, BookP!Slot, BookP!Due,
    BookP!Row, BookP!Empty, BookP!CoveredIsApproved, BookP!NobodyTwice, BookP!OneOpenLine

\* An empty book is in order.
LEMMA EmptyBookHere == Book!Init => Book!BookInv
BY BookP!EmptyBook
DEF Book!Init, Book!BookInv, Book!Open, Book!Slot, Book!Due, Book!Row, Book!Empty,
    Book!CoveredIsApproved, Book!NobodyTwice, Book!OneOpenLine,
    BookP!Init, BookP!BookInv, BookP!Open, BookP!Slot, BookP!Due, BookP!Row, BookP!Empty,
    BookP!CoveredIsApproved, BookP!NobodyTwice, BookP!OneOpenLine

\* What teacher t is owed for leave l.
Owed(l, t) ==
    IF ~Covered(l) THEN 0
    ELSE IF t = asg[l].sub THEN 1 ELSE IF t = leave[l].teacher THEN -1 ELSE 0

\* The ledger is the book's when every entry is what the coverage says.
LEMMA LedgerForm ==
    ASSUME TypeOK'
    PROVE  (\A l \in Leaves, t \in Teachers : net'[l][t] = Owed(l, t)') => Book!Settle
<1> SUFFICES ASSUME \A l \in Leaves, t \in Teachers : net'[l][t] = Owed(l, t)'
             PROVE  Book!Settle
  OBVIOUS
<1>1. ASSUME NEW l \in Leaves PROVE net'[l] = Book!Due(leave'[l], Coverage'[l])
  <2>1. Coverage'[l] = IF Covered(l)' THEN {asg'[l].sub} ELSE {}
    BY DEF Coverage
  <2>2. net'[l] = [t \in Teachers |-> Owed(l, t)']
    BY DEF TypeOK
  <2> QED BY <2>1, <2>2 DEF Book!Due, Owed
<1>2. net' = [l \in Leaves |-> net'[l]] BY DEF TypeOK
<1> QED BY <1>1, <1>2 DEF Book!Settle

\* And the converse, of the present state.
LEMMA LedgerRead ==
    ASSUME Book!BookInv, NEW l \in Leaves, NEW t \in Teachers
    PROVE  net[l][t] = Owed(l, t)
BY DEF Book!BookInv, Book!Due, Owed, Coverage

\* Only approved leaves are covered, and never by the absent teacher.
LEMMA CoveredRead ==
    ASSUME Book!BookInv, NEW l \in Leaves, Covered(l)
    PROVE  leave[l].status = "approved" /\ asg[l].sub # leave[l].teacher
<1>1. Coverage[l] = {asg[l].sub} BY DEF Coverage
<1> QED BY <1>1 DEF Book!BookInv, Book!CoveredIsApproved

\* A teacher who passes the conflict checks is free.
LEMMA CanCoverIsFree ==
    ASSUME NEW l \in Leaves, NEW s \in Teachers, CanCover(s, l)
    PROVE  Book!Free(s, l)
BY DEF CanCover, Teaching, OnApprovedLeave, CoversSlot, Slot, Coverage,
       Book!Free, Book!Slot
-----------------------------------------------------------------------------
(* Steps that leave the tables alone.                                      *)

\* A request that may rely on what it read keeps doing so while the tables
\* stay as they are.
LEMMA SameRead ==
    ASSUME NEW r, ReadHolds(r), UNCHANGED <<leave, asg>>
    PROVE  ReadHolds(r)'
BY DEF ReadHolds, SubmitHolds, AssignHolds, OverrideHolds, SeenHolds, CancelHolds,
       ClearHolds, QueueHolds, Assignable, CanCover, Teaching, OnApprovedLeave,
       CoversSlot, Slot, Covered, Exists, Open, NoOpenLeave

\* A step that only replaces a request is no entry of the book.
LEMMA Stutters ==
    ASSUME SInv, NEW w \in Workers, NEW r, ReadHolds(r),
           txn' = [txn EXCEPT ![w] = r], UNCHANGED <<leave, asg, net>>
    PROVE  UNCHANGED Book!vars /\ \A v \in Workers : ReadHolds(txn[v])'
<1>1. UNCHANGED Book!vars BY DEF Book!vars, Coverage, Covered
<1>2. ASSUME NEW v \in Workers PROVE ReadHolds(txn[v])'
  <2>1. txn'[v] = IF v = w THEN r ELSE txn[v] BY DEF SInv, IInv, TypeOK
  <2>2. ReadHolds(txn[v]) BY DEF SInv
  <2>3. ReadHolds(txn'[v]) BY <2>1, <2>2
  <2> QED BY <2>3, SameRead
<1> QED BY <1>1, <1>2

\* Whatever a request reads when it begins, it may rely on.
LEMMA BeginStutters ==
    ASSUME SInv, NEW w \in Workers, Begin(w)
    PROVE  UNCHANGED Book!vars /\ \A v \in Workers : ReadHolds(txn[v])'
<1> DEFINE Goal == UNCHANGED Book!vars /\ \A v \in Workers : ReadHolds(txn[v])'
<1> USE DEF ReadHolds, SubmitHolds, AssignHolds, OverrideHolds, SeenHolds, CancelHolds,
            ClearHolds, QueueHolds
<1>1. ASSUME NEW t \in Teachers, NEW d \in Days, NEW ps \in Batches,
             NEW st \in {"pending", "approved"}, Submit(w, t, d, ps, st)
      PROVE  Goal
  <2> DEFINE rows == [i \in 1..Len(ps) |->
                        [status |-> st, teacher |-> t, date |-> d,
                         order |-> calendar[d], period |-> ps[i]]]
             r == [op |-> "submit", first |-> seq, rows |-> rows]
  <2>1. Len(rows) = Len(ps) /\ Len(ps) \in Nat BY PeriodsAssumption
  <2>2. /\ \A i \in 1..Len(ps) : NoOpenLeave(rows[i].teacher, rows[i].date, rows[i].period)
        /\ \A i, j \in 1..Len(ps) : i # j => rows[i].period # rows[j].period
    BY <1>1, PeriodsAssumption DEF Submit
  <2>3. r.op = "submit" /\ r.rows = rows OBVIOUS
  <2>4. txn' = [txn EXCEPT ![w] = r] /\ UNCHANGED <<leave, asg, net>>
    BY <1>1 DEF Submit, Ready
  <2> HIDE DEF rows, r
  <2>5. ReadHolds(r) BY <2>1, <2>2, <2>3
  <2> QED BY <2>4, <2>5, Stutters
<1>2. ASSUME NEW l \in Leaves, NEW s \in Teachers, BeginAssign(w, l, s) PROVE Goal
  <2> DEFINE r == [op |-> "assign", leaf |-> l, sub |-> s]
  <2>1. ReadHolds(r) BY <1>2 DEF BeginAssign, Assignable
  <2>2. txn' = [txn EXCEPT ![w] = r] /\ UNCHANGED <<leave, asg, net>>
    BY <1>2 DEF BeginAssign, Ready
  <2> HIDE DEF r
  <2> QED BY <2>1, <2>2, Stutters
<1>3. ASSUME NEW l \in Leaves, NEW s \in Teachers, BeginOverride(w, l, s) PROVE Goal
  <2> DEFINE r == [op |-> "override", leaf |-> l, sub |-> s, seen |-> asg[l]]
  <2>1. ReadHolds(r) BY <1>3 DEF BeginOverride
  <2>2. txn' = [txn EXCEPT ![w] = r] /\ UNCHANGED <<leave, asg, net>>
    BY <1>3 DEF BeginOverride, Ready
  <2> HIDE DEF r
  <2> QED BY <2>1, <2>2, Stutters
<1>4. ASSUME NEW l \in Leaves, BeginApprove(w, l) \/ BeginReject(w, l) PROVE Goal
  <2>1. PICK op \in {"approve", "reject"} :
             txn' = [txn EXCEPT ![w] = [op |-> op, leaf |-> l]]
    BY <1>4 DEF BeginApprove, BeginReject, Ready
  <2>2. UNCHANGED <<leave, asg, net>> BY <1>4 DEF BeginApprove, BeginReject
  <2>3. ReadHolds([op |-> op, leaf |-> l]) OBVIOUS
  <2> QED BY <2>1, <2>2, <2>3, Stutters
<1>5. ASSUME NEW l \in Leaves, BeginLock(w, l) PROVE Goal
  <2> DEFINE r == [op |-> "lock", leaf |-> l, seen |-> asg[l], locked |-> ~asg[l].locked]
  <2>1. ReadHolds(r) OBVIOUS
  <2>2. txn' = [txn EXCEPT ![w] = r] /\ UNCHANGED <<leave, asg, net>>
    BY <1>5 DEF BeginLock, Ready
  <2> HIDE DEF r
  <2> QED BY <2>1, <2>2, Stutters
<1>6. ASSUME NEW l \in Leaves, BeginUndo(w, l) PROVE Goal
  <2> DEFINE r == [op |-> "undo", leaf |-> l, seen |-> asg[l]]
  <2>1. ReadHolds(r) OBVIOUS
  <2>2. txn' = [txn EXCEPT ![w] = r] /\ UNCHANGED <<leave, asg, net>>
    BY <1>6 DEF BeginUndo, Ready
  <2> HIDE DEF r
  <2> QED BY <2>1, <2>2, Stutters
<1>7. ASSUME NEW l \in Leaves, BeginCancel(w, l) PROVE Goal
  <2> DEFINE r == [op |-> "cancel", leaf |-> l, seen |-> asg[l]]
  <2>1. ReadHolds(r) BY <1>7 DEF BeginCancel
  <2>2. txn' = [txn EXCEPT ![w] = r] /\ UNCHANGED <<leave, asg, net>>
    BY <1>7 DEF BeginCancel, Ready
  <2> HIDE DEF r
  <2> QED BY <2>1, <2>2, Stutters
<1>8. ASSUME NEW t \in Teachers, BeginClear(w, t) PROVE Goal
  <2> DEFINE seen == [l \in Leaves |->
                        IF leave[l].status = "approved" /\ leave[l].teacher = t
                        THEN asg[l] ELSE NoAsg]
             r == [op |-> "clear", seen |-> seen]
  <2>1. ReadHolds(r) OBVIOUS
  <2>2. txn' = [txn EXCEPT ![w] = r] /\ UNCHANGED <<leave, asg, net>>
    BY <1>8 DEF BeginClear, Ready
  <2> HIDE DEF r
  <2> QED BY <2>1, <2>2, Stutters
<1> HIDE DEF Goal
<1>9. ASSUME NEW t \in Teachers, NEW d \in Days, NEW ps \in Batches,
             BeginSubmit(w, t, d, ps) \/ BeginSubmitByAdmin(w, t, d, ps)
      PROVE  Goal
  BY <1>1, <1>9 DEF BeginSubmit, BeginSubmitByAdmin
<1>10. Goal
  BY <1>2, <1>3, <1>4, <1>5, <1>6, <1>7, <1>8, <1>9
  DEF Begin, BeginCancelByTeacher, BeginCancelByAdmin
<1> QED BY <1>10 DEF Goal

\* The engine takes up, or skips, leaves that are still approved and
\* uncovered; an aborted request leaves nothing behind.
LEMMA QueueStutters ==
    ASSUME SInv, NEW w \in Workers,
           (\E s \in Teachers : BeginAuto(w, s)) \/ SkipAuto(w) \/ Abort(w)
    PROVE  UNCHANGED Book!vars /\ \A v \in Workers : ReadHolds(txn[v])'
<1> USE DEF ReadHolds, SubmitHolds, AssignHolds, OverrideHolds, SeenHolds, CancelHolds,
            ClearHolds, QueueHolds
<1> DEFINE todo == txn[w].todo
<1>1. ASSUME txn[w].op = "queued"
      PROVE  /\ Head(todo) = todo[1]
             /\ \A i \in 1..Len(todo) : Assignable(todo[i])
             /\ \A i, j \in 1..Len(todo) : i # j => todo[i] # todo[j]
             /\ Len(todo) \in Nat \ {0} /\ Len(Tail(todo)) = Len(todo) - 1
             /\ \A i \in 1..Len(Tail(todo)) : Tail(todo)[i] = todo[i + 1]
  <2>1. todo \in Seq(Leaves) /\ todo # <<>>
    BY <1>1, RequestKinds DEF SInv, IInv, TypeOK
  <2>2. QueueHolds(txn[w]) BY DEF SInv
  <2>3. /\ \A i \in 1..Len(todo) : Assignable(todo[i])
        /\ \A i, j \in 1..Len(todo) : i # j => todo[i] # todo[j]
    BY <1>1, <2>2
  <2> HIDE DEF todo
  <2> QED BY <2>1, <2>3
<1>2. ASSUME txn[w].op = "queued"
      PROVE  /\ \A i \in 1..Len(Tail(todo)) : Assignable(Tail(todo)[i])
             /\ \A i, j \in 1..Len(Tail(todo)) : i # j => Tail(todo)[i] # Tail(todo)[j]
             /\ \A i \in 1..Len(Tail(todo)) : Tail(todo)[i] # Head(todo)
             /\ Assignable(Head(todo))
  <2> HIDE DEF todo
  <2> QED BY <1>1, <1>2
<1>3. ASSUME NEW s \in Teachers, BeginAuto(w, s)
      PROVE  UNCHANGED Book!vars /\ \A v \in Workers : ReadHolds(txn[v])'
  <2> DEFINE r == [op |-> "auto", leaf |-> Head(todo), sub |-> s, todo |-> Tail(todo)]
  <2>1. /\ txn[w].op = "queued" /\ CanCover(s, Head(todo))
        /\ txn' = [txn EXCEPT ![w] = r] /\ UNCHANGED <<leave, asg, net>>
    BY <1>3 DEF BeginAuto
  <2> HIDE DEF todo
  <2>2. ReadHolds(r) BY <1>2, <2>1
  <2> QED BY <2>1, <2>2, Stutters
<1>4. CASE SkipAuto(w)
  <2>1. /\ txn[w].op = "queued"
        /\ txn' = [txn EXCEPT ![w] = Next1(Tail(todo))] /\ UNCHANGED <<leave, asg, net>>
    BY <1>4 DEF SkipAuto
  <2> HIDE DEF todo
  <2>2. ReadHolds(Next1(Tail(todo))) BY <1>2, <2>1 DEF Next1, Idle
  <2> QED BY <2>1, <2>2, Stutters
<1>5. CASE Abort(w)
  <2>1. ReadHolds(Idle) BY DEF Idle
  <2> QED BY <1>5, <2>1, Stutters DEF Abort, Finish
<1> QED BY <1>3, <1>4, <1>5

\* The calendar, the mode and the clock are not in the book.
LEMMA EnvironmentStutters ==
    ASSUME SInv, Environment \/ UNCHANGED vars
    PROVE  UNCHANGED Book!vars /\ \A v \in Workers : ReadHolds(txn[v])'
<1>1. UNCHANGED <<leave, asg, net, txn>>
  BY DEF Environment, MarkDay, SetMode, Tick, vars
<1>2. UNCHANGED Book!vars BY <1>1 DEF Book!vars, Coverage, Covered
<1>3. ASSUME NEW v \in Workers PROVE ReadHolds(txn[v])'
  <2>1. ReadHolds(txn'[v]) BY <1>1 DEF SInv
  <2> QED BY <1>1, <2>1, SameRead
<1> QED BY <1>2, <1>3
-----------------------------------------------------------------------------
(* Commits: each is one entry of the book.                                 *)

\* The only worker's next request decides what must hold after a commit.
LEMMA OneWorker ==
    ASSUME SInv, Serial, NEW w \in Workers, NEW r, ReadHolds(r)',
           txn' = [txn EXCEPT ![w] = r]
    PROVE  \A v \in Workers : ReadHolds(txn[v])'
<1>1. txn'[w] = r BY DEF SInv, IInv, TypeOK
<1>2. ReadHolds(txn[w])' BY <1>1
<1> QED BY <1>2 DEF Serial

\* A worker that is done relies on nothing.
LEMMA IdleReads == ReadHolds(Idle)'
BY DEF ReadHolds, SubmitHolds, AssignHolds, OverrideHolds, SeenHolds, CancelHolds,
       ClearHolds, QueueHolds, Idle

\* A transfer of one credit between two teachers.
LEMMA CreditValue ==
    ASSUME NEW n \in [Teachers -> Int], NEW plus \in Teachers, NEW minus \in Teachers,
           plus # minus, NEW t \in Teachers
    PROVE  Credit(n, plus, minus)[t] =
              IF t = plus THEN n[t] + 1 ELSE IF t = minus THEN n[t] - 1 ELSE n[t]
BY DEF Credit

\* A step that changes one leave's line, cover and credit settles the ledger
\* when it settles that leave's.
LEMMA OneLeaveSettles ==
    ASSUME SInv, TypeOK', NEW l \in Leaves,
           \A m \in Leaves : m # l =>
               asg'[m] = asg[m] /\ net'[m] = net[m] /\ leave'[m] = leave[m],
           \A t \in Teachers : net'[l][t] = Owed(l, t)'
    PROVE  Book!Settle
<1>1. ASSUME NEW m \in Leaves, m # l, NEW t \in Teachers
      PROVE  net'[m][t] = Owed(m, t)'
  <2>1. net[m][t] = Owed(m, t) BY LedgerRead DEF SInv
  <2> QED BY <1>1, <2>1 DEF Owed, Covered
<1> QED BY <1>1, LedgerForm

\* create_assignment covers an approved, uncovered leave.
LEMMA CreateIsCover ==
    ASSUME SInv, TypeOK', NEW w \in Workers, NEW l \in Leaves, NEW s \in Teachers,
           NEW after, Assignable(l), CanCover(s, l),
           CreateAssignment(w, l, s, after), UNCHANGED leave
    PROVE  /\ Book!Next
           /\ txn' = [txn EXCEPT ![w] = after]
           /\ \A m \in Leaves : m # l => asg'[m] = asg[m]
<1>1. /\ asg' = [asg EXCEPT ![l] = [id |-> made[l] + 1, sub |-> s, locked |-> FALSE]]
      /\ net' = [net EXCEPT ![l] = Credit(net[l], s, leave[l].teacher)]
      /\ txn' = [txn EXCEPT ![w] = after]
  BY DEF CreateAssignment, Assignable
<1>2. /\ asg \in [Leaves -> Asg] /\ net \in [Leaves -> [Teachers -> Int]]
      /\ made[l] \in Nat /\ leave[l].teacher \in Teachers
  BY SettledTeacher DEF SInv, IInv, TypeOK, Assignable, Settled
<1>3. /\ asg'[l] = [id |-> made[l] + 1, sub |-> s, locked |-> FALSE]
      /\ net'[l] = Credit(net[l], s, leave[l].teacher)
      /\ \A m \in Leaves : m # l => asg'[m] = asg[m] /\ net'[m] = net[m]
  BY <1>1, <1>2
<1>4. Covered(l)' /\ asg'[l].sub = s
  BY <1>2, <1>3 DEF Covered, NoAsg
<1>5. ASSUME NEW t \in Teachers PROVE net'[l][t] = Owed(l, t)'
  <2>1. net[l][t] = 0 BY LedgerRead DEF SInv, Owed, Assignable
  <2>2. s # leave[l].teacher BY DEF CanCover
  <2> QED BY <1>2, <1>3, <1>4, <2>1, <2>2, CreditValue DEF Owed
<1>6. Book!Settle BY <1>3, <1>5, OneLeaveSettles
<1>7. Coverage' = [Coverage EXCEPT ![l] = {s}]
  BY <1>3, <1>4 DEF Coverage, Covered
<1>8. s \notin Coverage[l] BY DEF Coverage, Assignable
<1>9. Book!Cover(l, s) BY <1>7, <1>8, CanCoverIsFree DEF Book!Cover, Assignable
<1> QED BY <1>1, <1>3, <1>6, <1>9 DEF Book!Next, Book!Entry

\* After a commit the rest of its batch is still approved and uncovered.
LEMMA QueueAfter ==
    ASSUME SInv, Serial, NEW w \in Workers, NEW l \in Leaves,
           NEW todo \in Seq(Leaves),
           \A i \in 1..Len(todo) : Assignable(todo[i]) /\ todo[i] # l,
           \A i, j \in 1..Len(todo) : i # j => todo[i] # todo[j],
           \A m \in Leaves : m # l => leave'[m] = leave[m] /\ asg'[m] = asg[m],
           txn' = [txn EXCEPT ![w] = Next1(todo)]
    PROVE  \A v \in Workers : ReadHolds(txn[v])'
<1>1. \A i \in 1..Len(todo) : Assignable(todo[i])'
  BY DEF Assignable, Covered
<1>2. ReadHolds(Next1(todo))'
  <2>1. CASE todo = <<>> BY <2>1, IdleReads DEF Next1
  <2>2. CASE todo # <<>>
    BY <1>1, <2>2 DEF Next1, ReadHolds, SubmitHolds, AssignHolds, OverrideHolds,
       SeenHolds, CancelHolds, ClearHolds, QueueHolds
  <2> QED BY <2>1, <2>2
<1> QED BY <1>2, OneWorker

\* assign_substitute and the engine's assignments are covers.
LEMMA AssignIsCover ==
    ASSUME SInv, Serial, TypeOK', NEW w \in Workers, CommitAssign(w) \/ CommitAuto(w)
    PROVE  Book!Next /\ \A v \in Workers : ReadHolds(txn[v])'
<1> DEFINE l == txn[w].leaf
           s == txn[w].sub
           todo == txn[w].todo
<1>1. /\ txn[w].op \in {"assign", "auto"} /\ txn[w] \in Request
      /\ l \in Leaves /\ s \in Teachers
  BY RequestKinds DEF CommitAssign, CommitAuto, SInv, IInv, TypeOK
<1>2. Assignable(l) /\ CanCover(s, l)
  BY <1>1 DEF SInv, ReadHolds, AssignHolds
<1>3. CASE CommitAssign(w)
  <2>1. CreateAssignment(w, l, s, Idle) /\ UNCHANGED leave BY <1>3 DEF CommitAssign
  <2>2. Book!Next /\ txn' = [txn EXCEPT ![w] = Idle]
    BY <1>1, <1>2, <2>1, CreateIsCover
  <2> QED BY <2>2, IdleReads, OneWorker
<1>4. CASE CommitAuto(w)
  <2>1. CreateAssignment(w, l, s, Next1(todo)) /\ UNCHANGED leave /\ txn[w].op = "auto"
    BY <1>4 DEF CommitAuto
  <2>2. /\ Book!Next /\ txn' = [txn EXCEPT ![w] = Next1(todo)]
        /\ \A m \in Leaves : m # l => asg'[m] = asg[m]
    BY <1>1, <1>2, <2>1, CreateIsCover
  <2>3. /\ todo \in Seq(Leaves)
        /\ \A i \in 1..Len(todo) : Assignable(todo[i]) /\ todo[i] # l
        /\ \A i, j \in 1..Len(todo) : i # j => todo[i] # todo[j]
    BY <1>1, <2>1, RequestKinds DEF SInv, ReadHolds, QueueHolds
  <2>4. \A m \in Leaves : m # l => leave'[m] = leave[m] /\ asg'[m] = asg[m]
    BY <2>1, <2>2
  <2> HIDE DEF l, s, todo
  <2>5. \A v \in Workers : ReadHolds(txn[v])'
    BY <1>1, <2>2, <2>3, <2>4, QueueAfter, Zenon
  <2> QED BY <2>2, <2>5
<1> QED BY <1>3, <1>4

\* An override is a cover by another free teacher.
LEMMA OverrideIsCover ==
    ASSUME SInv, Serial, TypeOK', NEW w \in Workers, CommitOverride(w)
    PROVE  Book!Next /\ \A v \in Workers : ReadHolds(txn[v])'
<1> DEFINE l == txn[w].leaf
           s == txn[w].sub
           old == asg[l].sub
<1>1. /\ txn[w] \in Request /\ txn[w].op = "override" /\ ReadHolds(txn[w])
      /\ l \in Leaves /\ s \in Teachers /\ txn[w].seen \in Assignment
  BY RequestKinds DEF CommitOverride, SInv, IInv, TypeOK
<1>2. /\ txn[w].seen = asg[l] /\ s # old /\ CanCover(s, l)
  BY <1>1 DEF ReadHolds, OverrideHolds, SeenHolds
<1>3. /\ asg[l] \in Assignment /\ Covered(l) /\ old \in Teachers
  BY <1>1, <1>2 DEF Covered, Assignment, NoAsg
<1>4. leave[l].status = "approved" /\ old # leave[l].teacher /\ s # leave[l].teacher
  BY <1>1, <1>2, <1>3, CoveredRead DEF SInv, CanCover
<1>5. /\ asg' = [asg EXCEPT ![l].sub = s]
      /\ net' = [net EXCEPT ![l] = Credit(net[l], s, old)]
      /\ UNCHANGED leave /\ txn' = [txn EXCEPT ![w] = Idle]
  BY <1>2 DEF CommitOverride, Finish
<1>6. asg \in [Leaves -> Asg] /\ net \in [Leaves -> [Teachers -> Int]]
  BY DEF SInv, IInv, TypeOK
<1> HIDE DEF l, s
<1>7. /\ asg'[l] = [asg[l] EXCEPT !.sub = s] /\ net'[l] = Credit(net[l], s, old)
      /\ \A m \in Leaves : m # l => asg'[m] = asg[m] /\ net'[m] = net[m]
  BY <1>1, <1>5, <1>6
<1>8. asg'[l] # NoAsg /\ asg'[l].sub = s
  BY <1>1, <1>3, <1>7 DEF Assignment, NoAsg
<1>9. ASSUME NEW t \in Teachers
      PROVE  net'[l][t] = IF t = s THEN 1 ELSE IF t = leave[l].teacher THEN -1 ELSE 0
  <2>1. net[l][t] = IF t = old THEN 1 ELSE IF t = leave[l].teacher THEN -1 ELSE 0
    BY <1>1, <1>3, LedgerRead DEF SInv, Owed
  <2> QED BY <1>1, <1>2, <1>3, <1>4, <1>6, <1>7, <2>1, CreditValue
<1>10. ASSUME NEW m \in Leaves, NEW t \in Teachers PROVE net'[m][t] = Owed(m, t)'
  <2>1. CASE m = l BY <1>5, <1>8, <1>9, <2>1 DEF Owed, Covered
  <2>2. CASE m # l
    <3>1. net[m][t] = Owed(m, t) BY LedgerRead DEF SInv
    <3> QED BY <1>5, <1>7, <2>2, <3>1 DEF Owed, Covered
  <2> QED BY <2>1, <2>2
<1>11. Book!Settle BY <1>10, LedgerForm
<1>12. Coverage' = [Coverage EXCEPT ![l] = {s}]
  BY <1>7, <1>8 DEF Coverage, Covered
<1>13. s \notin Coverage[l] BY <1>1, <1>2 DEF Coverage
<1>14. Book!Cover(l, s)
  BY <1>1, <1>2, <1>4, <1>5, <1>12, <1>13, CanCoverIsFree DEF Book!Cover
<1> QED BY <1>1, <1>5, <1>11, <1>14, IdleReads, OneWorker DEF Book!Next, Book!Entry

\* The lock is not in the book.
LEMMA LockStutters ==
    ASSUME SInv, Serial, NEW w \in Workers, CommitLock(w)
    PROVE  UNCHANGED Book!vars /\ \A v \in Workers : ReadHolds(txn[v])'
<1> DEFINE l == txn[w].leaf
<1>1. /\ txn[w] \in Request /\ txn[w].op = "lock" /\ l \in Leaves
      /\ txn[w].seen \in Assignment
  BY RequestKinds DEF CommitLock, SInv, IInv, TypeOK
<1>2. /\ asg' = asg \/ asg' = [asg EXCEPT ![l].locked = txn[w].locked]
      /\ UNCHANGED <<leave, net>> /\ txn' = [txn EXCEPT ![w] = Idle]
  BY DEF CommitLock, Finish
<1>3. txn[w].seen = asg[l] BY <1>1 DEF SInv, ReadHolds, SeenHolds
<1>4. asg[l] \in Assignment /\ asg \in [Leaves -> Asg]
  BY <1>1, <1>3 DEF SInv, IInv, TypeOK
<1> HIDE DEF l
<1>5. \A m \in Leaves : /\ asg'[m] = NoAsg <=> asg[m] = NoAsg
                        /\ asg[m] # NoAsg => asg'[m].sub = asg[m].sub
  BY <1>1, <1>2, <1>4 DEF Assignment, NoAsg
<1>6. Coverage' = Coverage BY <1>5 DEF Coverage, Covered
<1> QED BY <1>2, <1>6, IdleReads, OneWorker DEF Book!vars

\* Reversing the present assignment of a leave, or none, leaves the leave
\* uncovered and owed nothing, or as it was.
LEMMA ReversalValue ==
    ASSUME SInv, NEW l \in Leaves, NEW seen, seen \in {asg[l], NoAsg},
           NEW t \in Teachers
    PROVE  /\ Remaining(l, seen) = IF seen = NoAsg THEN asg[l] ELSE NoAsg
           /\ Reversed(net, l, seen)[t] = IF seen = NoAsg THEN net[l][t] ELSE 0
<1>1. asg[l] \in Asg /\ net[l] \in [Teachers -> Int] BY DEF SInv, IInv, TypeOK
<1>2. CASE seen = NoAsg
  BY <1>1, <1>2 DEF Remaining, Reversed, Asg, Assignment, NoAsg
<1>3. CASE seen # NoAsg
  <2>1. seen = asg[l] /\ seen \in Assignment /\ Covered(l)
    BY <1>1, <1>3 DEF Covered, Asg
  <2>2. seen.sub \in Teachers /\ seen.sub # leave[l].teacher
        /\ leave[l].status = "approved"
    BY <2>1, CoveredRead DEF SInv, Assignment
  <2>3. leave[l].teacher \in Teachers
    BY <2>2, SettledTeacher DEF SInv, Settled
  <2>4. net[l][t] = IF t = seen.sub THEN 1 ELSE IF t = leave[l].teacher THEN -1 ELSE 0
    BY <2>1, LedgerRead DEF SInv, Owed
  <2>5. Reversed(net, l, seen) = Credit(net[l], leave[l].teacher, seen.sub)
    BY <1>3 DEF Reversed
  <2>6. Reversed(net, l, seen)[t] = 0
    BY <1>1, <2>2, <2>3, <2>4, <2>5, CreditValue
  <2>7. Remaining(l, seen) = NoAsg
    BY <2>1 DEF Remaining
  <2> QED BY <1>3, <2>6, <2>7
<1> QED BY <1>2, <1>3

\* undo_assignment and teacher_clear_assignments release classes.
LEMMA ReversalIsRelease ==
    ASSUME SInv, Serial, TypeOK', NEW w \in Workers,
           CommitUndo(w) \/ CommitClear(w)
    PROVE  Book!Next /\ \A v \in Workers : ReadHolds(txn[v])'
<1>1. txn[w] \in Request /\ ReadHolds(txn[w]) BY DEF SInv, IInv, TypeOK
<1>2. PICK seen : /\ \A l \in Leaves : seen[l] \in {asg[l], NoAsg}
                  /\ asg' = [l \in Leaves |-> Remaining(l, seen[l])]
                  /\ net' = [l \in Leaves |-> Reversed(net, l, seen[l])]
  <2>1. CASE CommitUndo(w)
    <3> DEFINE k == txn[w].leaf
               seen == [l \in Leaves |-> IF l = k THEN asg[k] ELSE NoAsg]
    <3>1. k \in Leaves /\ txn[w].seen = asg[k]
      BY <1>1, <2>1, RequestKinds DEF CommitUndo, ReadHolds, SeenHolds
    <3>2. /\ asg' = [asg EXCEPT ![k] = Remaining(k, asg[k])]
          /\ net' = [net EXCEPT ![k] = Reversed(net, k, asg[k])]
      BY <2>1, <3>1 DEF CommitUndo
    <3> HIDE DEF k
    <3>3. asg \in [Leaves -> Asg] /\ net \in [Leaves -> [Teachers -> Int]]
      BY DEF SInv, IInv, TypeOK
    <3>4. \A l \in Leaves : Remaining(l, NoAsg) = asg[l] /\ Reversed(net, l, NoAsg) = net[l]
      BY <3>3 DEF Remaining, Reversed, Asg, Assignment, NoAsg
    <3>5. asg' = [l \in Leaves |-> Remaining(l, seen[l])]
          /\ net' = [l \in Leaves |-> Reversed(net, l, seen[l])]
      BY <3>2, <3>3, <3>4
    <3>6. \A l \in Leaves : seen[l] \in {asg[l], NoAsg} BY <3>1 DEF k
    <3> HIDE DEF seen
    <3> QED BY <3>5, <3>6
  <2>2. CASE CommitClear(w)
    BY <1>1, <2>2 DEF CommitClear, ReadHolds, ClearHolds
  <2> QED BY <2>1, <2>2
<1>3. UNCHANGED leave /\ txn' = [txn EXCEPT ![w] = Idle]
  BY DEF CommitUndo, CommitClear, Finish
<1> DEFINE gone == {l \in Leaves : seen[l] # NoAsg}
<1>4. \A l \in Leaves : asg'[l] = IF l \in gone THEN NoAsg ELSE asg[l]
  <2> SUFFICES ASSUME NEW l \in Leaves
               PROVE  asg'[l] = IF l \in gone THEN NoAsg ELSE asg[l]
    OBVIOUS
  <2>1. asg[l] \in Asg BY DEF SInv, IInv, TypeOK
  <2> QED BY <1>2, <2>1 DEF Remaining, Asg, Assignment, NoAsg
<1>5. ASSUME NEW l \in Leaves, NEW t \in Teachers PROVE net'[l][t] = Owed(l, t)'
  <2>1. net'[l][t] = IF l \in gone THEN 0 ELSE net[l][t]
    BY <1>2, ReversalValue
  <2>2. net[l][t] = Owed(l, t) BY LedgerRead DEF SInv
  <2> HIDE DEF gone
  <2> QED BY <1>3, <1>4, <2>1, <2>2 DEF Owed, Covered
<1>6. Book!Settle BY <1>5, LedgerForm
<1>7. Coverage' = [l \in Leaves |-> IF l \in gone THEN {} ELSE Coverage[l]]
  <2> HIDE DEF gone
  <2> QED BY <1>4 DEF Coverage, Covered
<1>8. Book!Release(gone) BY <1>3, <1>7 DEF Book!Release
<1>9. gone \in SUBSET Leaves OBVIOUS
<1> HIDE DEF gone
<1> QED BY <1>3, <1>6, <1>8, <1>9, IdleReads, OneWorker DEF Book!Next, Book!Entry

\* A cancellation reverses the assignment it finds and closes the line.
LEMMA CancelIsCancel ==
    ASSUME SInv, Serial, TypeOK', NEW w \in Workers, CommitCancel(w)
    PROVE  Book!Next /\ \A v \in Workers : ReadHolds(txn[v])'
<1>1. /\ txn[w] \in Request /\ ReadHolds(txn[w]) /\ txn[w].op = "cancel"
      /\ \E l \in Leaves : l = txn[w].leaf
  BY RequestKinds DEF CommitCancel, SInv, IInv, TypeOK
<1> PICK l \in Leaves : l = txn[w].leaf BY <1>1
<1>2. txn[w].seen = asg[l] /\ Open(l)
  BY <1>1 DEF ReadHolds, SeenHolds, CancelHolds
<1>3. /\ leave' = [leave EXCEPT ![l].status = "cancelled"]
      /\ asg' = [asg EXCEPT ![l] = Remaining(l, asg[l])]
      /\ net' = [net EXCEPT ![l] = Reversed(net, l, asg[l])]
      /\ txn' = [txn EXCEPT ![w] = Idle]
  BY <1>2 DEF CommitCancel, Finish
<1>4. /\ leave \in [Leaves -> Row \cup {NoLeave}]
      /\ asg \in [Leaves -> Asg] /\ net \in [Leaves -> [Teachers -> Int]]
  BY DEF SInv, IInv, TypeOK
<1>5. /\ asg'[l] = NoAsg /\ net'[l] = Reversed(net, l, asg[l])
      /\ \A m \in Leaves : m # l =>
            asg'[m] = asg[m] /\ net'[m] = net[m] /\ leave'[m] = leave[m]
  BY <1>1, <1>3, <1>4 DEF Remaining
<1>6. ASSUME NEW t \in Teachers PROVE net'[l][t] = Owed(l, t)'
  <2>1. net'[l][t] = IF asg[l] = NoAsg THEN net[l][t] ELSE 0
    BY <1>1, <1>5, ReversalValue
  <2>2. asg[l] = NoAsg => net[l][t] = 0
    BY <1>1, LedgerRead DEF SInv, Owed, Covered
  <2> QED BY <1>5, <2>1, <2>2 DEF Owed, Covered
<1>7. Book!Settle BY <1>1, <1>5, <1>6, OneLeaveSettles
<1>8. Coverage' = [Coverage EXCEPT ![l] = {}]
  BY <1>5 DEF Coverage, Covered
<1>9. Book!Cancel(l) BY <1>2, <1>3, <1>8 DEF Book!Cancel, Book!Open, Open
<1> QED BY <1>1, <1>3, <1>7, <1>9, IdleReads, OneWorker DEF Book!Next, Book!Entry

\* A decision is taken on a pending, hence uncovered leave.
LEMMA DecisionIsDecide ==
    ASSUME SInv, Serial, TypeOK', NEW w \in Workers,
           CommitApprove(w) \/ CommitReject(w)
    PROVE  Book!Next /\ \A v \in Workers : ReadHolds(txn[v])'
<1>1. PICK l \in Leaves : l = txn[w].leaf /\ leave[l].status = "pending"
  BY RequestKinds
  DEF CommitApprove, CommitReject, SInv, IInv, TypeOK, RequestOK, DecisionOK
<1>2. ~Covered(l) BY <1>1, CoveredRead DEF SInv
<1>3. UNCHANGED <<asg, net>> BY DEF CommitApprove, CommitReject
<1>4. PICK st \in {"approved", "rejected"} :
           /\ leave' = [leave EXCEPT ![l].status = st]
           /\ txn' = [txn EXCEPT ![w] = IF st = "approved" THEN Next1(<<l>>) ELSE Idle]
  BY <1>1 DEF CommitApprove, CommitReject, Finish
<1>5. leave \in [Leaves -> Row \cup {NoLeave}] BY DEF SInv, IInv, TypeOK
<1>6. leave[l] \in Row BY <1>1, <1>5 DEF NoLeave
<1>7. leave'[l].status = st /\ \A m \in Leaves : m # l => leave'[m] = leave[m]
  BY <1>1, <1>4, <1>5, <1>6 DEF Row
<1>8. ~Covered(l)' BY <1>2, <1>3 DEF Covered
<1>9. ASSUME NEW t \in Teachers PROVE net'[l][t] = Owed(l, t)'
  <2>1. net[l][t] = 0 BY <1>1, <1>2, LedgerRead DEF SInv, Owed
  <2> QED BY <1>3, <1>8, <2>1 DEF Owed
<1>10. Book!Settle BY <1>1, <1>3, <1>7, <1>9, OneLeaveSettles
<1>11. Book!Decide(l, st)
  BY <1>1, <1>3, <1>4 DEF Book!Decide, Coverage, Covered
<1>12. Book!Next BY <1>1, <1>10, <1>11 DEF Book!Next, Book!Entry
<1>13. CASE st = "rejected" BY <1>4, <1>12, <1>13, IdleReads, OneWorker
<1>14. CASE st = "approved"
  <2>1. Assignable(l)' BY <1>7, <1>8, <1>14 DEF Assignable, Covered
  <2>2. ReadHolds([op |-> "queued", todo |-> <<l>>])'
    BY <2>1 DEF ReadHolds, SubmitHolds, AssignHolds, OverrideHolds, SeenHolds,
       CancelHolds, ClearHolds, QueueHolds
  <2>3. txn' = [txn EXCEPT ![w] = [op |-> "queued", todo |-> <<l>>]]
    BY <1>4, <1>14 DEF Next1
  <2> QED BY <1>12, <2>2, <2>3, OneWorker
<1> QED BY <1>13, <1>14

\* The rows of a submission are new lines of the book.
LEMMA SubmitIsSubmit ==
    ASSUME SInv, Serial, TypeOK', NEW w \in Workers, CommitSubmit(w)
    PROVE  Book!Next /\ \A v \in Workers : ReadHolds(txn[v])'
<1>1. PICK first, rows :
         /\ first = txn[w].first /\ rows = txn[w].rows
         /\ first \in Nat /\ rows \in Seq(Row) /\ Len(rows) \in Nat \ {0}
         /\ first + 1 .. first + Len(rows) \subseteq Leaves
         /\ \A l \in first + 1 .. first + Len(rows) : leave[l] = NoLeave
         /\ rows[1].status \in {"pending", "approved"}
         /\ \A i \in 1..Len(rows) : rows[i].status = rows[1].status
  BY OpenSubmission DEF CommitSubmit, Keys, SInv
<1>2. /\ \A i \in 1..Len(rows) :
            NoOpenLeave(rows[i].teacher, rows[i].date, rows[i].period)
      /\ \A i, j \in 1..Len(rows) : i # j => rows[i].period # rows[j].period
  BY <1>1 DEF CommitSubmit, SInv, ReadHolds, SubmitHolds
<1> DEFINE new == first + 1 .. first + Len(rows)
           todo == IF rows[1].status = "approved"
                   THEN [i \in 1..Len(rows) |-> first + i] ELSE <<>>
<1>3. /\ leave' = [l \in Leaves |-> IF l \in new THEN rows[l - first] ELSE leave[l]]
      /\ txn' = [txn EXCEPT ![w] = Next1(todo)]
      /\ UNCHANGED <<asg, net>>
  BY <1>1 DEF CommitSubmit
<1>4. \A l \in new : /\ l - first \in 1..Len(rows) /\ leave'[l] = rows[l - first]
                     /\ rows[l - first].status = rows[1].status
                     /\ leave[l] = NoLeave /\ l \in Leaves
  <2>1. \A l \in new : l - first \in 1..Len(rows) /\ leave[l] = NoLeave /\ l \in Leaves
    <3>1. \A f, n \in Nat : \A l \in f + 1 .. f + n : l - f \in 1..n OBVIOUS
    <3>2. Len(rows) \in Nat BY <1>1
    <3>3. \A l \in new : l - first \in 1..Len(rows) BY <1>1, <3>1, <3>2
    <3>4. \A l \in new : leave[l] = NoLeave /\ l \in Leaves BY <1>1
    <3> QED BY <3>3, <3>4
  <2>2. \A l \in new : leave'[l] = rows[l - first] BY <1>3, <2>1
  <2> HIDE DEF new
  <2> QED BY <1>1, <2>1, <2>2
<1>5. \A l \in Leaves : l \notin new => leave'[l] = leave[l]
  BY <1>3
<1>6. \A l \in new : ~Covered(l)
  BY <1>4, CoveredRead DEF SInv, NoLeave
<1> HIDE DEF new
<1>7. ASSUME NEW l \in Leaves, NEW t \in Teachers PROVE net'[l][t] = Owed(l, t)'
  <2>1. net[l][t] = Owed(l, t) BY LedgerRead DEF SInv
  <2>2. CASE l \in new BY <1>3, <1>6, <2>1, <2>2 DEF Owed, Covered
  <2>3. CASE l \notin new BY <1>3, <1>5, <2>1, <2>3 DEF Owed, Covered
  <2> QED BY <2>2, <2>3
<1>8. Book!Settle BY <1>7, LedgerForm
<1>9. leave' \in [Leaves -> Book!Row \cup {Book!Empty}]
  BY DEF TypeOK, Row, NoLeave, Book!Row, Book!Empty
<1>10. ASSUME NEW l \in Leaves
       PROVE  IF l \in new THEN leave[l] = Book!Empty /\ Book!Open(l)'
                           ELSE leave'[l] = leave[l]
  BY <1>1, <1>4, <1>5 DEF NoLeave, Book!Empty, Book!Open
<1>11. ASSUME NEW l \in new, NEW m \in Leaves, l # m, Book!Open(m)',
              Book!Slot(m)' = Book!Slot(l)'
       PROVE  leave'[m].teacher # leave'[l].teacher
  <2> DEFINE i == l - first
  <2>1. /\ i \in 1..Len(rows) /\ leave'[l] = rows[i]
        /\ leave'[m].date = rows[i].date /\ leave'[m].period = rows[i].period
    BY <1>4, <1>11 DEF Book!Slot
  <2>2. CASE m \in new
    <3> DEFINE j == m - first
    <3>1. j \in 1..Len(rows) /\ leave'[m] = rows[j] BY <1>4, <2>2
    <3>2. l \in Leaves /\ l \in Int /\ m \in Int /\ i # j
      BY <1>1, <1>4, <1>11 DEF Leaves
    <3> HIDE DEF i, j
    <3> QED BY <1>2, <2>1, <3>1, <3>2
  <2>3. CASE m \notin new
    <3>1. leave'[m] = leave[m] /\ Open(m) /\ Exists(m)
      BY <1>5, <1>11, <2>3 DEF Book!Open, Open, Exists, NoLeave
    <3>2. NoOpenLeave(rows[i].teacher, rows[i].date, rows[i].period)
      BY <1>2, <2>1
    <3> HIDE DEF i
    <3> QED BY <2>1, <3>1, <3>2 DEF NoOpenLeave, Slot
  <2> QED BY <2>2, <2>3
<1>12. Coverage' = Coverage BY <1>3 DEF Coverage, Covered
<1>13. new \in SUBSET Leaves BY <1>4
<1>14. Book!Submit(new) BY <1>9, <1>10, <1>11, <1>12 DEF Book!Submit
<1>15. Book!Next BY <1>8, <1>13, <1>14 DEF Book!Next, Book!Entry
<1>16. ReadHolds(Next1(todo))'
  <2>1. CASE rows[1].status = "approved"
    <3>1. /\ Len(todo) = Len(rows) /\ todo # <<>>
          /\ \A i \in 1..Len(rows) : todo[i] = first + i
      <4>1. \A f \in Nat, n \in Nat \ {0} :
               /\ Len([i \in 1..n |-> f + i]) = n /\ [i \in 1..n |-> f + i] # <<>>
               /\ \A i \in 1..n : [k \in 1..n |-> f + k][i] = f + i
        OBVIOUS
      <4>2. todo = [i \in 1..Len(rows) |-> first + i] BY <2>1
      <4> HIDE DEF todo
      <4> QED BY <1>1, <4>1, <4>2
    <3>2. \A i \in 1..Len(rows) : first + i \in new
      BY <1>1 DEF new
    <3>3. \A l \in new : Assignable(l)'
      BY <1>3, <1>4, <1>6, <2>1 DEF Assignable, Covered
    <3>4. \A i, j \in 1..Len(rows) : i # j => first + i # first + j
      BY <1>1
    <3> HIDE DEF todo
    <3>5. \A i \in 1..Len(todo) : Assignable(todo[i])'
      BY <3>1, <3>2, <3>3
    <3>6. \A i, j \in 1..Len(todo) : i # j => todo[i] # todo[j]
      BY <3>1, <3>4
    <3> QED BY <3>1, <3>5, <3>6 DEF Next1, ReadHolds, SubmitHolds, AssignHolds,
            OverrideHolds, SeenHolds, CancelHolds, ClearHolds, QueueHolds
  <2>2. CASE rows[1].status # "approved"
    BY <2>2, IdleReads DEF Next1
  <2> QED BY <2>1, <2>2
<1> HIDE DEF todo
<1> QED BY <1>3, <1>15, <1>16, OneWorker
-----------------------------------------------------------------------------
(* The implementation.                                                     *)

\* Every step of a single worker and of the environment is an entry of the
\* book, or leaves it alone.
LEMMA SerialStep ==
    ASSUME SInv, Serial, [Next]_vars
    PROVE  [Book!Next]_(Book!vars) /\ SInv'
<1>1. IInv' BY StepKeeps DEF SInv
<1>2. TypeOK' BY <1>1 DEF IInv
<1>3. [Book!Next]_(Book!vars) /\ \A v \in Workers : ReadHolds(txn[v])'
  <2>1. ASSUME NEW w \in Workers, Proceed(w)
        PROVE  [Book!Next]_(Book!vars) /\ \A v \in Workers : ReadHolds(txn[v])'
    BY <1>2, <2>1, SubmitIsSubmit, DecisionIsDecide, AssignIsCover, QueueStutters,
       OverrideIsCover, LockStutters, ReversalIsRelease, CancelIsCancel
    DEF Proceed
  <2> QED BY <2>1, BeginStutters, QueueStutters, EnvironmentStutters DEF Next
<1>4. Book!BookInv' BY <1>3, BookKeeps DEF SInv
<1> QED BY <1>1, <1>3, <1>4 DEF SInv

\* Empty tables are an empty book.
LEMMA SerialInit == Init => SInv /\ Book!Init
<1> SUFFICES ASSUME Init PROVE SInv /\ Book!Init OBVIOUS
<1>1. Book!Init
  BY DEF Init, NoLeave, Coverage, Covered, Book!Init, Book!Empty, Book!Due
<1>2. Book!BookInv BY <1>1, EmptyBookHere
<1>3. \A w \in Workers : ReadHolds(txn[w])
  BY DEF Init, Idle, ReadHolds, SubmitHolds, AssignHolds, OverrideHolds, SeenHolds,
         CancelHolds, ClearHolds, QueueHolds
<1> QED BY <1>1, <1>2, <1>3, InitHolds DEF SInv

\* With requests that do not overlap, what a request read still holds when it
\* commits, and the tables are a book in order.
THEOREM SerialInvariance == ASSUME Serial PROVE Spec => []SInv
<1>1. Init => SInv BY SerialInit
<1>2. SInv /\ [Next]_vars => SInv' BY SerialStep
<1> QED BY <1>1, <1>2, PTL DEF Spec

\* Requests that do not overlap are the atomic book: the begin and commit of
\* every handler of services/leave_service.py together are one entry of it.
THEOREM SerialIsBook == ASSUME Serial PROVE Spec => ActsAsBook
<1>1. Init => Book!Init BY SerialInit
<1>2. SInv /\ [Next]_vars => [Book!Next]_(Book!vars) BY SerialStep
<1> QED BY <1>1, <1>2, SerialInvariance, PTL DEF Spec, ActsAsBook, Book!Spec

\* The ledger of a serial college shows who covers what: one credit pair per
\* covered leave, nothing after an undo, a clear or a cancellation.
THEOREM SerialLedger == ASSUME Serial PROVE Spec => []LedgerMatchesCoverage
<1>1. ASSUME SInv, NEW l \in Leaves, NEW t \in Teachers
      PROVE  net[l][t] = CASE Covered(l) /\ t = asg[l].sub -> 1
                           [] Covered(l) /\ t = leave[l].teacher -> -1
                           [] OTHER -> 0
  <2>1. net[l][t] = Owed(l, t) BY <1>1, LedgerRead DEF SInv
  <2>2. Covered(l) => asg[l].sub # leave[l].teacher BY <1>1, CoveredRead DEF SInv
  <2>3. CASE Covered(l) /\ t = asg[l].sub BY <2>1, <2>2, <2>3 DEF Owed
  <2>4. CASE Covered(l) /\ t = leave[l].teacher BY <2>1, <2>2, <2>4 DEF Owed
  <2>5. CASE ~(Covered(l) /\ t = asg[l].sub) /\ ~(Covered(l) /\ t = leave[l].teacher)
    BY <2>1, <2>5 DEF Owed
  <2> QED BY <2>3, <2>4, <2>5
<1>2. SInv => LedgerMatchesCoverage BY <1>1 DEF LedgerMatchesCoverage
<1> QED BY <1>2, SerialInvariance, PTL

\* No cancelled leave of a serial college keeps a substitute or a credit.
THEOREM SerialReversal == ASSUME Serial PROVE Spec => []CancelledReversed
<1>1. SInv => CancelledReversed
  BY LedgerRead, CoveredRead DEF SInv, CancelledReversed, Owed
<1> QED BY <1>1, SerialInvariance, PTL

\* In a serial college nobody covers two classes in one period.
THEOREM SerialNoDoubleBooking == ASSUME Serial PROVE Spec => []NoDoubleBooking
<1>1. ASSUME SInv, NEW l \in Leaves, NEW m \in Leaves, l # m, Covered(l), Covered(m),
             Slot(l) = Slot(m)
      PROVE  asg[l].sub # asg[m].sub
  <2>1. Coverage[l] = {asg[l].sub} /\ Coverage[m] = {asg[m].sub}
    BY <1>1 DEF Coverage
  <2> QED BY <1>1, <2>1 DEF SInv, Book!BookInv, Book!NobodyTwice, Book!Slot, Slot
<1>2. SInv => NoDoubleBooking BY <1>1 DEF NoDoubleBooking
<1> QED BY <1>2, SerialInvariance, PTL

\* In a serial college no teacher has two open leaves for one period.
THEOREM SerialNoDuplicate == ASSUME Serial PROVE Spec => []NoDuplicateLeave
<1>1. SInv => NoDuplicateLeave
  BY DEF SInv, NoDuplicateLeave, Open, Slot, Book!BookInv, Book!OneOpenLine,
         Book!Open, Book!Slot
<1> QED BY <1>1, SerialInvariance, PTL
=============================================================================
