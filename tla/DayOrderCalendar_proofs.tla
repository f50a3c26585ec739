------------------------ MODULE DayOrderCalendar_proofs --------------------
(***************************************************************************)
(* Proofs about DayOrderCalendar for every number of dates, day orders and *)
(* administrators.  The table's CHECK only forbids a day order on a day    *)
(* off; that a working day always has one follows from what requests read  *)
(* and want (every row is one or the other), and from an UPDATE writing    *)
(* the changed columns only: a request that changes the type changes the   *)
(* order with it.  The second part is about edits that do not overlap: a   *)
(* commit then leaves the calendar the edit aimed at, and what the walk of *)
(* Resequence carries along is proved by the least date that would refute  *)
(* it.                                                                     *)
(***************************************************************************)
EXTENDS DayOrderCalendar, WellFoundedInduction, TLAPS

RowOK(row) == row # NoRow => (row.type = "working" <=> row.order # Null)
RequestOK(t) == t.op = "edit" => \A e \in Dates : RowOK(t.read[e]) /\ RowOK(t.new[e])

IInv ==
    /\ TypeOK
    /\ \A e \in Dates : RowOK(day[e])
    /\ \A w \in Workers : RequestOK(txn[w])

Row == CalendarDay \cup {NoRow}
-----------------------------------------------------------------------------
\* Whatever order it continues, the rotation stays within 1..MaxOrder.
LEMMA NextDayOrderInRange == \A x : NextDayOrder(x) \in Orders
BY CalendarBounds DEF NextDayOrder, Orders

\* No row of the table is the absent row.
LEMMA RowsExist ==
    ASSUME NEW row \in Row
    PROVE  /\ row = NoRow <=> row.id = 0
           /\ row # NoRow => row \in CalendarDay
BY DEF Row, CalendarDay, NoRow

\* The walk keeps every row well formed.
LEMMA ResequenceKeeps ==
    ASSUME NEW c \in Table, NEW d \in Dates, \A e \in Dates : RowOK(c[e])
    PROVE  Resequence(c, d) \in Table /\ \A e \in Dates : RowOK(Resequence(c, d)[e])
<1> DEFINE running[e \in d..NDates] ==
             IF e = d THEN LastOrderBefore(c, d) ELSE Passing(c[e], running[e - 1])
<1>1. Resequence(c, d) =
        [e \in Dates |->
           IF Moves(c, d, e) THEN [c[e] EXCEPT !.order = NextDayOrder(running[e - 1])]
           ELSE c[e]]
  BY DEF Resequence
<1> HIDE DEF running
<1>2. ASSUME NEW e \in Dates
      PROVE  Resequence(c, d)[e] \in Row /\ RowOK(Resequence(c, d)[e])
  <2>1. c[e] \in Row BY DEF Table, Row
  <2>2. CASE Moves(c, d, e)
    <3>1. c[e] \in CalendarDay /\ c[e].type = "working"
      BY <2>1, <2>2 DEF Moves, Working, Row, NoRow
    <3> DEFINE new == [c[e] EXCEPT !.order = NextDayOrder(running[e - 1])]
    <3>2. NextDayOrder(running[e - 1]) \in Orders BY NextDayOrderInRange
    <3>3. new \in CalendarDay /\ new.type = "working" /\ new.order \in Orders
      BY <3>1, <3>2, CalendarBounds DEF CalendarDay, Orders
    <3>4. Resequence(c, d)[e] = new BY <1>1, <2>2
    <3> HIDE DEF new
    <3> QED BY <3>3, <3>4, CalendarBounds DEF Row, RowOK, Orders, Null
  <2>3. CASE ~Moves(c, d, e)
    BY <1>1, <2>1, <2>3
  <2> QED BY <2>2, <2>3
<1> QED BY <1>1, <1>2 DEF Table, Row

\* The row mark_day wants is well formed, whatever it is asked for.
LEMMA MarkedKeeps ==
    ASSUME IInv, NEW d \in Dates, NEW type \in DayTypes, NEW order \in 0..MaxOrder
    PROVE  Marked(day, d, type, order) \in Row /\ RowOK(Marked(day, d, type, order))
<1> DEFINE id == IF Exists(day, d) THEN day[d].id ELSE made[d] + 1
           ord == IF type # "working" THEN Null
                  ELSE IF order # Null THEN order ELSE NextDayOrder(LastOrderBefore(day, d))
           man == type = "working" /\ order # Null
<1>1. id \in Nat \ {0}
  <2>1. day[d] \in Row /\ made[d] \in Nat BY DEF IInv, TypeOK, Table, Row
  <2> QED BY <2>1, RowsExist DEF Exists, CalendarDay
<1>2. ord \in 0..MaxOrder /\ (type = "working" <=> ord # Null)
  <2>1. NextDayOrder(LastOrderBefore(day, d)) \in Orders BY NextDayOrderInRange
  <2> QED BY <2>1, CalendarBounds DEF Orders, Null
<1>3. Marked(day, d, type, order) = [id |-> id, type |-> type, order |-> ord, manual |-> man]
  BY DEF Marked
<1> HIDE DEF id, ord
<1> QED BY <1>1, <1>2, <1>3 DEF Row, CalendarDay, RowOK

\* A request that opens wants well-formed rows.
LEMMA OpenKeeps ==
    ASSUME IInv, NEW w \in Workers, NEW d \in Dates, NEW row \in Row, RowOK(row),
           NEW span \in Span, Open(w, d, row, span), UNCHANGED <<day, made>>
    PROVE  IInv'
<1> DEFINE c == [day EXCEPT ![d] = row]
           wanted == Resequence(c, d)
           read == [e \in Dates |-> IF wanted[e] = day[e] THEN NoRow ELSE day[e]]
           new == [e \in Dates |-> IF wanted[e] = day[e] THEN NoRow ELSE wanted[e]]
           r == [op |-> "edit", date |-> d, span |-> span, read |-> read, new |-> new]
<1>1. c \in Table /\ \A e \in Dates : RowOK(c[e])
  BY DEF IInv, TypeOK, Table, Row
<1>2. wanted \in Table /\ \A e \in Dates : RowOK(wanted[e])
  <2> HIDE DEF c
  <2> QED BY <1>1, ResequenceKeeps
<1>3. txn' = [txn EXCEPT ![w] = r]
  BY DEF Open
<1> HIDE DEF wanted
<1>4. read \in Table /\ new \in Table
  BY <1>2 DEF IInv, TypeOK, Table
<1>5. \A e \in Dates : RowOK(read[e]) /\ RowOK(new[e])
  BY <1>2 DEF IInv, RowOK
<1> HIDE DEF read, new
<1>6. r \in Request BY <1>4 DEF Request
<1>7. RequestOK(r) BY <1>5 DEF RequestOK
<1> HIDE DEF r
<1>8. TypeOK' BY <1>3, <1>6 DEF IInv, TypeOK
<1>9. \A v \in Workers : RequestOK(txn'[v])
  BY <1>3, <1>7 DEF IInv, TypeOK
<1> QED BY <1>8, <1>9 DEF IInv, RowOK, RequestOK

\* What a commit leaves of one row.
LEMMA AfterKeeps ==
    ASSUME IInv, NEW w \in Workers, txn[w].op = "edit", Accepted(txn[w]), NEW e \in Dates
    PROVE  After(txn[w], e) \in Row /\ RowOK(After(txn[w], e))
<1> DEFINE t == txn[w]
           old == t.read[e]
           new == t.new[e]
           now == day[e]
<1>1. t \in Request BY DEF IInv, TypeOK
<1>2. t.read \in Table /\ t.new \in Table
  BY <1>1 DEF Request, Idle
<1>3. old \in Row /\ new \in Row /\ now \in Row
  BY <1>2 DEF IInv, TypeOK, Table, Row
<1>4. RowOK(old) /\ RowOK(new) /\ RowOK(now) /\ made[e] \in Nat
  BY DEF IInv, TypeOK, RequestOK
<1>5. CASE Inserts(t, e)
  <2>1. After(t, e) = [new EXCEPT !.id = made[e] + 1] /\ new # NoRow
    BY <1>5 DEF After, Inserts, Deletes, Updates
  <2>2. new \in CalendarDay BY <1>3, <2>1, RowsExist
  <2> HIDE DEF new
  <2> QED BY <1>4, <2>1, <2>2 DEF Row, RowOK, CalendarDay
<1>6. CASE Deletes(t, e)
  <2>1. After(t, e) = IF now.id = old.id THEN NoRow ELSE now
    BY <1>6 DEF After, Inserts, Deletes, Updates
  <2> QED BY <1>3, <1>4, <2>1 DEF Row, RowOK
<1>7. CASE Updates(t, e)
  <2> DEFINE then == After(t, e)
  <2>1. then = Updated(old, new, now) /\ old # NoRow /\ new # NoRow
    BY <1>7 DEF After, Inserts, Deletes, Updates
  <2>2. now.id = old.id BY <1>7 DEF Accepted
  <2>3. old \in CalendarDay /\ new \in CalendarDay /\ now \in CalendarDay
    BY <1>3, <2>1, <2>2, RowsExist
  <2>4. then.type = "working" \/ then.order = Null
    BY DEF Accepted
  <2>5. now # NoRow BY <1>3, <2>1, <2>2, RowsExist
  <2> HIDE DEF old, new, now, t, then
  <2>6. /\ then \in CalendarDay
        /\ then.type = Changed(old.type, new.type, now.type)
        /\ then.order = Changed(old.order, new.order, now.order)
    BY <2>1, <2>3 DEF Updated, Changed, CalendarDay
  <2>7. Changed(old.type, new.type, now.type) = "working"
          => Changed(old.order, new.order, now.order) # Null
    BY <1>4, <2>1, <2>5 DEF RowOK, Changed
  <2>8. then \in Row /\ RowOK(then)
    BY <2>4, <2>6, <2>7 DEF Row, RowOK
  <2> QED BY <2>8 DEF then, t
<1>8. CASE ~Inserts(t, e) /\ ~Deletes(t, e) /\ ~Updates(t, e)
  BY <1>3, <1>4, <1>8 DEF After
<1> QED BY <1>5, <1>6, <1>7, <1>8

\* The statements of a transaction that the constraints accept keep IInv.
LEMMA CommitKeeps ==
    ASSUME IInv, NEW w \in Workers, Commit(w)
    PROVE  IInv'
<1>1. \A e \in Dates : After(txn[w], e) \in Row /\ RowOK(After(txn[w], e))
  BY AfterKeeps DEF Commit
<1>2. /\ day' = [e \in Dates |-> After(txn[w], e)]
      /\ made' = [e \in Dates |-> IF Inserts(txn[w], e) THEN made[e] + 1 ELSE made[e]]
  BY DEF Commit
<1> DEFINE more == IF txn[w].span.next > txn[w].span.last THEN Idle
                   ELSE [op |-> "range", span |-> txn[w].span]
<1>3. txn' = [txn EXCEPT ![w] = more] BY DEF Commit
<1>4. more \in Request /\ more.op # "edit"
  <2>1. txn[w].op = "edit" /\ txn[w] \in Request BY DEF Commit, IInv, TypeOK
  <2>2. txn[w].span \in Span BY <2>1 DEF Request, Idle
  <2> QED BY <2>2 DEF Request, Idle
<1> HIDE DEF more
<1>5. day' \in Table /\ \A e \in Dates : RowOK(day'[e])
  BY <1>1, <1>2 DEF Table, Row
<1>6. made' \in [Dates -> Nat] BY <1>2 DEF IInv, TypeOK
<1>7. txn' \in [Workers -> Request] BY <1>3, <1>4 DEF IInv, TypeOK
<1>8. \A v \in Workers : RequestOK(txn'[v])
  BY <1>3, <1>4 DEF IInv, TypeOK, RequestOK
<1> QED BY <1>5, <1>6, <1>7, <1>8 DEF IInv, TypeOK, RowOK, RequestOK
-----------------------------------------------------------------------------
\* The empty calendar satisfies the invariant.
LEMMA InitHolds == Init => IInv
<1> SUFFICES ASSUME Init PROVE IInv OBVIOUS
<1>1. Idle \in Request BY DEF Idle, Request
<1> QED BY <1>1 DEF Init, IInv, TypeOK, Table, RowOK, RequestOK, Idle

\* A worker that opens or closes a request without an edit.
LEMMA OnlyRequest ==
    ASSUME IInv, NEW w \in Workers, NEW r \in Request, r.op # "edit",
           txn' = [txn EXCEPT ![w] = r], UNCHANGED <<day, made>>
    PROVE  IInv'
<1>1. TypeOK' BY DEF IInv, TypeOK
<1>2. \A v \in Workers : RequestOK(txn'[v])
  BY DEF IInv, TypeOK, RequestOK
<1> QED BY <1>1, <1>2 DEF IInv, RowOK, RequestOK

\* The start of an edit, whichever handler it is, keeps IInv.
LEMMA EditKeeps ==
    ASSUME IInv, NEW w \in Workers, Edit(w) PROVE IInv'
<1>1. PICK d \in Dates :
        \/ \E type \in DayTypes, order \in 0..MaxOrder : BeginMark(w, d, type, order)
        \/ \E order \in Orders : BeginReassign(w, d, order)
        \/ BeginClearOverride(w, d)
        \/ BeginDelete(w, d)
        \/ \E last \in d..NDates, type \in NonWorkingTypes : BeginBulk(w, d, last, type)
  BY DEF Edit
<1>2. Single(d) \in Span
  BY CalendarBounds DEF Single, Span, Dates, DayTypes
<1>3. CASE \E type \in DayTypes, order \in 0..MaxOrder : BeginMark(w, d, type, order)
  BY <1>2, <1>3, MarkedKeeps, OpenKeeps DEF BeginMark
<1>4. ASSUME NEW order \in Orders, BeginReassign(w, d, order) PROVE IInv'
  <2>1. "working" \in DayTypes /\ order \in 0..MaxOrder
    BY CalendarBounds DEF DayTypes, Orders
  <2> QED BY <1>2, <1>4, <2>1, MarkedKeeps, OpenKeeps DEF BeginReassign
<1>5. CASE BeginClearOverride(w, d)
  <2>1. "working" \in DayTypes /\ Null \in 0..MaxOrder
    BY CalendarBounds DEF DayTypes, Null
  <2> QED BY <1>2, <1>5, <2>1, MarkedKeeps, OpenKeeps DEF BeginClearOverride
<1>6. CASE BeginDelete(w, d)
  <2>1. NoRow \in Row /\ RowOK(NoRow) BY DEF Row, RowOK
  <2> QED BY <1>2, <1>6, <2>1, OpenKeeps DEF BeginDelete
<1>7. ASSUME NEW last \in d..NDates, NEW type \in NonWorkingTypes, BeginBulk(w, d, last, type)
      PROVE  IInv'
  <2> DEFINE r == [op |-> "range",
                   span |-> [first |-> d, next |-> d, last |-> last, type |-> type]]
  <2>1. r \in Request /\ r.op # "edit"
    BY CalendarBounds DEF Request, Span, Dates, DayTypes
  <2>2. txn' = [txn EXCEPT ![w] = r] /\ UNCHANGED <<day, made>>
    BY <1>7 DEF BeginBulk
  <2> HIDE DEF r
  <2> QED BY <2>1, <2>2, OnlyRequest
<1> QED BY <1>1, <1>3, <1>4, <1>5, <1>6, <1>7

\* The next date of a bulk range keeps IInv.
LEMMA NextOfBulkKeeps ==
    ASSUME IInv, NEW w \in Workers, NextOfBulk(w) PROVE IInv'
<1> DEFINE span == txn[w].span
           d == span.next
           rest == [span EXCEPT !.next = d + 1]
<1>1. txn[w] \in Request /\ txn[w].op = "range" BY DEF NextOfBulk, IInv, TypeOK
<1>2. span \in Span BY <1>1 DEF Request, Idle
<1>3. d <= span.last /\ Open(w, d, Marked(day, d, span.type, Null), rest)
      /\ UNCHANGED <<day, made>>
  BY DEF NextOfBulk
<1> HIDE DEF span
<1>4. d \in Dates /\ span.type \in DayTypes
  BY <1>2, <1>3, CalendarBounds DEF Span, Dates
<1>5. rest \in Span BY <1>2, <1>4, CalendarBounds DEF Span, Dates
<1>6. Null \in 0..MaxOrder BY CalendarBounds DEF Null
<1> QED BY <1>3, <1>4, <1>5, <1>6, MarkedKeeps, OpenKeeps

\* IInv is inductive.
LEMMA StepKeeps == IInv /\ [Next]_vars => IInv'
<1> SUFFICES ASSUME IInv, [Next]_vars PROVE IInv' OBVIOUS
<1>1. ASSUME NEW w \in Workers, Rollback(w) PROVE IInv'
  <2>1. Idle \in Request /\ Idle.op # "edit" BY DEF Idle, Request
  <2> QED BY <1>1, <2>1, OnlyRequest DEF Rollback
<1>2. CASE UNCHANGED vars
  BY <1>2 DEF vars, IInv, TypeOK, RowOK, RequestOK
<1> QED BY <1>1, <1>2, EditKeeps, NextOfBulkKeeps, CommitKeeps DEF Next

\* Every reachable table and request satisfies the invariant.
THEOREM Invariance == Spec => []IInv
BY InitHolds, StepKeeps, PTL DEF Spec

\* The columns of calendar_days keep their domains; the day order never
\* leaves 1..MaxOrder, wherever the rotation wraps.
THEOREM TypeCorrect == Spec => []TypeOK
<1>1. IInv => TypeOK BY DEF IInv
<1> QED BY <1>1, Invariance, PTL

\* A day has a day order exactly when it is a working day, for any number of
\* overlapping edits: "structurally impossible given mark_day", as
\* assert_working_day_or_400 hopes.
THEOREM WorkingDaysHaveOrders == Spec => []OrderIffWorking
<1>1. IInv => OrderIffWorking
  BY DEF IInv, OrderIffWorking, RowOK, Exists, Working
<1> QED BY <1>1, Invariance, PTL
-----------------------------------------------------------------------------
(* The walk over the days after an edit.                                   *)

\* The order the walk of Resequence(c, d) carries when it has passed a date.
Running(c, d) ==
    LET running[e \in d..NDates] ==
          IF e = d THEN LastOrderBefore(c, d) ELSE Passing(c[e], running[e - 1])
    IN  running

\* A non-empty set of numbers has a least one, and a greatest if it is bounded.
LEMMA LeastDate ==
    ASSUME NEW T, T \subseteq Nat, T # {}
    PROVE  \E x \in T : \A y \in T : x <= y
<1> DEFINE R == OpToRel(<, Nat)
<1>1. IsWellFoundedOn(R, Nat) BY NatLessThanWellFounded
<1>2. R = {p \in Nat \X Nat : p[1] < p[2]} BY DEF OpToRel
<1> HIDE DEF R
<1>3. PICK x \in T : \A y \in T : ~ (<<y, x>> \in R) BY <1>1, WFMin
<1>4. ASSUME NEW y \in T PROVE x <= y
  <2>1. ~ (<<y, x>> \in {p \in Nat \X Nat : p[1] < p[2]}) BY <1>2, <1>3
  <2> QED BY <2>1
<1> QED BY <1>4

LEMMA LastDate ==
    ASSUME NEW n \in Nat, NEW T, T \subseteq 1..n, T # {}
    PROVE  Max(T) \in T /\ \A y \in T : y <= Max(T)
<1> DEFINE M == {k \in Nat : \E x \in T : k = n - x}
<1>1. PICK k \in M : \A j \in M : k <= j
  <2>1. PICK x \in T : x \in 1..n OBVIOUS
  <2>2. n - x \in Nat BY <2>1
  <2>3. n - x \in M BY <2>1, <2>2
  <2>4. M \subseteq Nat /\ M # {} BY <2>3
  <2> HIDE DEF M
  <2> QED BY <2>4, LeastDate
<1>2. PICK x \in T : k = n - x BY <1>1
<1>3. \A y \in T : x >= y
  <2> SUFFICES ASSUME NEW y \in T PROVE x >= y OBVIOUS
  <2>1. n - y \in M OBVIOUS
  <2> HIDE DEF M
  <2> QED BY <1>1, <1>2, <2>1
<1>4. Max(T) \in T /\ \A y \in T : Max(T) >= y BY <1>3 DEF Max
<1> QED BY <1>4

\* f carries the order a along, from date d to date n.
Carries(f, c, d, a, n) == f = [e \in d..n |-> IF e = d THEN a ELSE Passing(c[e], f[e - 1])]

\* As far as any date, there is such a function.
LEMMA WalkExists ==
    ASSUME NEW c, NEW d \in Dates, NEW a, NEW n \in d..NDates
    PROVE  \E f : Carries(f, c, d, a, n)
<1> DEFINE P(m) == \E f : Carries(f, c, d, a, m)
           T == {m \in d..NDates : ~P(m)}
<1>1. P(d)
  <2> DEFINE f == [e \in d..d |-> a]
  <2>1. f = [e \in d..d |-> IF e = d THEN a ELSE Passing(c[e], f[e - 1])]
    BY DEF Dates
  <2> QED BY <2>1 DEF Carries
<1>2. ASSUME NEW m \in d..NDates - 1, P(m) PROVE P(m + 1)
  <2>1. PICK f : f = [e \in d..m |-> IF e = d THEN a ELSE Passing(c[e], f[e - 1])] BY <1>2 DEF Carries
  <2> DEFINE g == [e \in d..m + 1 |-> IF e = m + 1 THEN Passing(c[e], f[m]) ELSE f[e]]
  <2>2. \A e \in d..m : g[e] = f[e] BY CalendarBounds DEF Dates
  <2>3. ASSUME NEW e \in d..m + 1
        PROVE  g[e] = IF e = d THEN a ELSE Passing(c[e], g[e - 1])
    <3>1. CASE e = m + 1
      <4>1. g[e] = Passing(c[e], f[m]) /\ e - 1 = m /\ m \in d..m /\ e # d
        BY <3>1, CalendarBounds DEF Dates
      <4> HIDE DEF g
      <4> QED BY <2>2, <4>1
    <3>2. CASE e # m + 1
      <4>1. e \in d..m /\ (e # d => e - 1 \in d..m) BY <3>2, CalendarBounds DEF Dates
      <4>2. f[e] = IF e = d THEN a ELSE Passing(c[e], f[e - 1])
        BY <2>1, <4>1
      <4> HIDE DEF g
      <4> QED BY <2>2, <4>1, <4>2
    <3> QED BY <3>1, <3>2
  <2>4. g = [e \in d..m + 1 |-> g[e]] OBVIOUS
  <2> HIDE DEF g
  <2>5. g = [e \in d..m + 1 |-> IF e = d THEN a ELSE Passing(c[e], g[e - 1])]
    BY <2>3, <2>4
  <2> QED BY <2>5 DEF Carries
<1> HIDE DEF P
<1>3. T = {}
  <2> SUFFICES ASSUME T # {} PROVE FALSE OBVIOUS
  <2>1. T \subseteq Nat BY CalendarBounds DEF Dates
  <2>2. PICK m \in T : \A k \in T : m <= k
    <3> HIDE DEF T
    <3> QED BY <2>1, LeastDate
  <2>3. m # d /\ m \in d..NDates BY <1>1
  <2>4. m - 1 \in d..NDates - 1 /\ (m - 1) + 1 = m /\ ~(m <= m - 1)
    BY <2>3, CalendarBounds DEF Dates
  <2>5. m - 1 \in d..NDates BY <2>4, CalendarBounds DEF Dates
  <2>6. m - 1 \notin T BY <2>2, <2>4
  <2>7. P(m - 1) BY <2>5, <2>6
  <2>8. P((m - 1) + 1) BY <1>2, <2>4, <2>7
  <2> QED BY <2>4, <2>8
<1> QED BY <1>3 DEF P

\* What the walk carries is what its recursion says.
LEMMA RunningIs ==
    ASSUME NEW c, NEW d \in Dates
    PROVE  \A e \in d..NDates :
              Running(c, d)[e] = IF e = d THEN LastOrderBefore(c, d)
                                 ELSE Passing(c[e], Running(c, d)[e - 1])
<1> DEFINE a == LastOrderBefore(c, d)
           r == Running(c, d)
<1>1. r = CHOOSE f : f = [e \in d..NDates |-> IF e = d THEN a ELSE Passing(c[e], f[e - 1])]
  BY DEF Running
<1> HIDE DEF a, r
<1>2. NDates \in d..NDates BY CalendarBounds DEF Dates
<1>3. \E f : Carries(f, c, d, a, NDates) BY <1>2, WalkExists
<1>4. Carries(CHOOSE f : Carries(f, c, d, a, NDates), c, d, a, NDates) BY <1>3
<1>5. r = CHOOSE f : Carries(f, c, d, a, NDates) BY <1>1 DEF Carries
<1>6. Carries(r, c, d, a, NDates) BY <1>4, <1>5
<1>7. \A e \in d..NDates : r[e] = IF e = d THEN a ELSE Passing(c[e], r[e - 1])
  BY <1>6 DEF Carries
<1> QED BY <1>7 DEF r, a

\* The order of the last working day is carried along by every date.
LEMMA LastOrderStep ==
    ASSUME NEW c, NEW e \in Dates
    PROVE  LastOrderBefore(c, e + 1) = IF Working(c, e) THEN c[e].order ELSE LastOrderBefore(c, e)
<1> DEFINE before == {k \in 1..e - 1 : Working(c, k)}
           upto == {k \in 1..e : Working(c, k)}
<1>1. LastOrderBefore(c, e + 1) = IF upto = {} THEN Null ELSE c[Max(upto)].order
  <2>1. (e + 1) - 1 = e BY CalendarBounds DEF Dates
  <2> QED BY <2>1 DEF LastOrderBefore
<1>2. LastOrderBefore(c, e) = IF before = {} THEN Null ELSE c[Max(before)].order
  BY DEF LastOrderBefore
<1>3. CASE Working(c, e)
  <2>1. e \in upto /\ upto \subseteq 1..e /\ e \in Nat BY <1>3, CalendarBounds DEF Dates
  <2>2. Max(upto) \in upto /\ e <= Max(upto)
    <3> HIDE DEF upto
    <3> QED BY <2>1, LastDate
  <2>3. Max(upto) = e BY <2>1, <2>2
  <2> HIDE DEF upto
  <2> QED BY <1>1, <1>3, <2>1, <2>3
<1>4. CASE ~Working(c, e)
  <2>1. upto = before BY <1>4, CalendarBounds DEF Dates
  <2> HIDE DEF upto, before
  <2> QED BY <1>1, <1>2, <1>4, <2>1
<1> QED BY <1>3, <1>4

\* It depends on the days before only.
LEMMA LastOrderSame ==
    ASSUME NEW b, NEW c, NEW d \in Dates, \A e \in 1..d - 1 : b[e] = c[e]
    PROVE  LastOrderBefore(b, d) = LastOrderBefore(c, d)
<1> DEFINE before == {e \in 1..d - 1 : Working(c, e)}
<1>1. {e \in 1..d - 1 : Working(b, e)} = before BY DEF Working
<1>2. before # {} => Max(before) \in before
  <2>1. before \subseteq 1..d - 1 /\ d - 1 \in Nat BY DEF Dates
  <2> HIDE DEF before
  <2> QED BY <2>1, LastDate
<1>3. before # {} => b[Max(before)] = c[Max(before)]
  <2>1. before \subseteq 1..d - 1 OBVIOUS
  <2> HIDE DEF before
  <2> QED BY <1>2, <2>1
<1> QED BY <1>1, <1>3 DEF LastOrderBefore

\* What the walk leaves: only orders change, and only of days it moves.
LEMMA WalkMoves ==
    ASSUME NEW c \in Table, NEW d \in Dates, NEW e \in Dates
    PROVE  LET r == Resequence(c, d)
           IN  /\ ~Moves(c, d, e) => r[e] = c[e]
               /\ r[e].id = c[e].id /\ r[e].type = c[e].type /\ r[e].manual = c[e].manual
               /\ (r[e] = NoRow) <=> (c[e] = NoRow)
               /\ Moves(c, d, e) => r[e].order = NextDayOrder(Running(c, d)[e - 1])
<1> DEFINE r == Resequence(c, d)
<1>1. r = [k \in Dates |->
             IF Moves(c, d, k) THEN [c[k] EXCEPT !.order = NextDayOrder(Running(c, d)[k - 1])] ELSE c[k]]
  BY DEF Resequence, Running
<1> HIDE DEF r
<1>2. c[e] \in Row BY DEF Table, Row
<1>3. CASE Moves(c, d, e)
  <2>1. c[e] \in CalendarDay BY <1>2, <1>3 DEF Moves, Working, Row, NoRow
  <2>2. PICK n : n = NextDayOrder(Running(c, d)[e - 1]) OBVIOUS
  <2>3. r[e] = [c[e] EXCEPT !.order = n] BY <1>1, <1>3, <2>2
  <2>4. /\ r[e].id = c[e].id /\ r[e].type = c[e].type /\ r[e].manual = c[e].manual
        /\ r[e].order = n /\ c[e].id # 0
    BY <2>1, <2>3 DEF CalendarDay
  <2>5. r[e] # NoRow /\ c[e] # NoRow BY <2>4 DEF NoRow
  <2> QED BY <1>3, <2>2, <2>3, <2>4, <2>5 DEF r
<1>4. CASE ~Moves(c, d, e)
  <2>1. r[e] = c[e] BY <1>1, <1>4
  <2> QED BY <1>4, <2>1 DEF r
<1> QED BY <1>3, <1>4

\* After an edit that leaves no working day at d, the walk carries the order
\* of the last working day, in the calendar it leaves.
LEMMA WalkCarries ==
    ASSUME NEW c \in Table, NEW d \in Dates, ~Working(Resequence(c, d), d)
    PROVE  \A e \in d..NDates : Running(c, d)[e] = LastOrderBefore(Resequence(c, d), e + 1)
<1> DEFINE r == Resequence(c, d)
           run == Running(c, d)
           P(e) == run[e] = LastOrderBefore(r, e + 1)
           T == {e \in d..NDates : ~P(e)}
<1>1. \A e \in d..NDates : run[e] = IF e = d THEN LastOrderBefore(c, d) ELSE Passing(c[e], run[e - 1])
  BY RunningIs
<1>2. \A e \in Dates :
         /\ Moves(c, d, e) => r[e].order = NextDayOrder(run[e - 1])
         /\ ~Moves(c, d, e) => r[e] = c[e]
         /\ r[e].type = c[e].type /\ r[e].manual = c[e].manual
  BY WalkMoves
<1>3. d \in 1..NDates /\ NDates \in Nat BY CalendarBounds DEF Dates
<1> HIDE DEF r, run
<1>4. P(d)
  <2>1. d \in d..NDates BY <1>3
  <2>2. \A e \in 1..d - 1 : r[e] = c[e] BY <1>2, <1>3 DEF Moves, Dates
  <2>3. LastOrderBefore(r, d) = LastOrderBefore(c, d) BY <2>2, LastOrderSame
  <2>4. LastOrderBefore(r, d + 1) = LastOrderBefore(r, d)
    BY LastOrderStep DEF r
  <2> QED BY <1>1, <2>1, <2>3, <2>4
<1>5. ASSUME NEW e \in d + 1..NDates, run[e - 1] = LastOrderBefore(r, e) PROVE P(e)
  <2>1. e \in Dates /\ e \in d..NDates /\ e # d /\ e > d BY <1>3 DEF Dates
  <2>2. run[e] = Passing(c[e], run[e - 1]) BY <1>1, <2>1
  <2>3. LastOrderBefore(r, e + 1) = IF Working(r, e) THEN r[e].order ELSE LastOrderBefore(r, e)
    BY <2>1, LastOrderStep
  <2>4. Working(r, e) <=> c[e].type = "working" BY <1>2, <2>1 DEF Working
  <2>5. Moves(c, d, e) <=> c[e].type = "working" /\ ~c[e].manual BY <2>1 DEF Moves, Working
  <2> QED BY <1>2, <1>5, <2>1, <2>2, <2>3, <2>4, <2>5 DEF Passing
<1> HIDE DEF P
<1>6. T = {}
  <2> SUFFICES ASSUME T # {} PROVE FALSE OBVIOUS
  <2>1. T \subseteq Nat BY <1>3
  <2>2. PICK m \in T : \A k \in T : m <= k
    <3> HIDE DEF T
    <3> QED BY <2>1, LeastDate
  <2>3. m # d /\ m \in d..NDates BY <1>4
  <2>4. m - 1 \in d..NDates /\ (m - 1) + 1 = m /\ ~(m <= m - 1) /\ m \in d + 1..NDates
    BY <1>3, <2>3
  <2>5. P(m - 1) BY <2>2, <2>4
  <2>6. run[m - 1] = LastOrderBefore(r, m) BY <2>4, <2>5 DEF P
  <2>7. P(m) BY <1>5, <2>4, <2>6
  <2> QED BY <2>7
<1> QED BY <1>6 DEF P, r, run

\* So every day the walk moves follows the working day before it.
LEMMA WalkContinues ==
    ASSUME NEW c \in Table, NEW d \in Dates, ~Working(Resequence(c, d), d),
           NEW e \in Dates, e > d, Working(Resequence(c, d), e), ~Resequence(c, d)[e].manual
    PROVE  Continues(Resequence(c, d), e)
<1>1. Moves(c, d, e) /\ Resequence(c, d)[e].order = NextDayOrder(Running(c, d)[e - 1])
  BY WalkMoves DEF Moves, Working
<1>2. e - 1 \in d..NDates /\ (e - 1) + 1 = e BY CalendarBounds DEF Dates
<1>3. Running(c, d)[e - 1] = LastOrderBefore(Resequence(c, d), (e - 1) + 1) BY <1>2, WalkCarries
<1> QED BY <1>1, <1>2, <1>3 DEF Continues
-----------------------------------------------------------------------------
(* Edits that do not overlap.                                              *)

\* All requests are served by one worker.
Serial == \A v, w \in Workers : v = w

\* The calendar an edit of date d that leaves row there aims at.
Aimed(d, row) == Resequence([day EXCEPT ![d] = row], d)

\* An open edit still finds the calendar it read: the rows it wants are those
\* of the calendar it aims at, wherever that differs from the table.
EditHolds(w) ==
    LET t == txn[w]
    IN  t.op = "edit" => \E row \in Row :
          /\ row = NoRow \/ row.id = IF Exists(day, t.date) THEN day[t.date].id ELSE made[t.date] + 1
          /\ t.span.type # "working" => row.type = t.span.type
          /\ \A e \in Dates :
                IF Aimed(t.date, row)[e] = day[e] THEN t.read[e] = NoRow /\ t.new[e] = NoRow
                ELSE t.read[e] = day[e] /\ t.new[e] = Aimed(t.date, row)[e]

\* The dates of a range that have had their turn are marked.
MarkedUpTo(s, n) == s.type # "working" => \A d \in s.first .. n - 1 : day[d].type = s.type
RangeHolds(w) ==
    LET t == txn[w]
    IN  /\ t.op = "range" => MarkedUpTo(t.span, t.span.next)
        /\ t.op = "edit" => MarkedUpTo(t.span, t.date) /\ t.span.next = t.date + 1

SInv == IInv /\ \A w \in Workers : EditHolds(w) /\ RangeHolds(w)

\* A commit leaves the calendar its edit aimed at.
LEMMA CommitReaches ==
    ASSUME IInv, NEW w \in Workers, EditHolds(w), Commit(w)
    PROVE  \E row \in Row :
             /\ day' = Aimed(txn[w].date, row)
             /\ txn[w].span.type # "working" => row.type = txn[w].span.type
<1> DEFINE t == txn[w]
           d == t.date
<1>1. t.op = "edit" /\ t \in Request BY DEF Commit, IInv, TypeOK
<1>2. d \in Dates /\ t.new \in Table BY <1>1 DEF Request, Idle
<1>3. PICK row \in Row :
          /\ row = NoRow \/ row.id = IF Exists(day, d) THEN day[d].id ELSE made[d] + 1
          /\ t.span.type # "working" => row.type = t.span.type
          /\ \A e \in Dates :
                IF Aimed(d, row)[e] = day[e] THEN t.read[e] = NoRow /\ t.new[e] = NoRow
                ELSE t.read[e] = day[e] /\ t.new[e] = Aimed(d, row)[e]
  BY <1>1 DEF EditHolds
<1> DEFINE c == [day EXCEPT ![d] = row]
           aim == Aimed(d, row)
<1>4. c \in Table /\ c[d] = row /\ \A e \in Dates : e # d => c[e] = day[e]
  BY <1>2 DEF IInv, TypeOK, Table, Row
<1>5. \A e \in Dates :
         /\ ~Moves(c, d, e) => aim[e] = c[e]
         /\ aim[e].id = c[e].id
         /\ (aim[e] = NoRow) <=> (c[e] = NoRow)
  <2>1. aim = Resequence(c, d) BY DEF Aimed
  <2> HIDE DEF c, aim, t, d
  <2> QED BY <1>2, <1>4, <2>1, WalkMoves
<1>6. aim = [e \in Dates |-> aim[e]] BY DEF Aimed, Resequence
<1>7. ASSUME NEW e \in Dates PROVE After(t, e) = aim[e]
  <2>1. day[e] \in Row /\ t.new[e] \in Row /\ row \in Row BY <1>2 DEF IInv, TypeOK, Table, Row
  <2> HIDE DEF t, d, c, aim
  <2>2. CASE aim[e] = day[e]
    <3>1. t.read[e] = NoRow /\ t.new[e] = NoRow BY <1>3, <2>2 DEF aim
    <3> QED BY <2>2, <3>1 DEF After, Inserts, Deletes, Updates
  <2>3. CASE aim[e] # day[e]
    <3>1. t.read[e] = day[e] /\ t.new[e] = aim[e] BY <1>3, <2>3 DEF aim
    <3>2. CASE day[e] = NoRow
      <4>1. e = d BY <1>4, <1>5, <2>3, <3>2
      <4>2. aim[e] = row BY <1>4, <1>5, <4>1, <1>2 DEF Moves, Dates
      <4>3. row # NoRow /\ row.id = made[e] + 1 BY <1>3, <2>3, <3>2, <4>1, <4>2 DEF Exists
      <4>4. After(t, e) = [row EXCEPT !.id = made[e] + 1]
        BY <3>1, <3>2, <4>2, <4>3 DEF After, Inserts, Deletes, Updates
      <4>5. row \in CalendarDay BY <2>1, <4>3, RowsExist
      <4>6. [row EXCEPT !.id = row.id] = row BY <4>5 DEF CalendarDay
      <4> QED BY <4>2, <4>3, <4>4, <4>6
    <3>3. CASE day[e] # NoRow /\ aim[e] = NoRow
      BY <3>1, <3>3 DEF After, Inserts, Deletes, Updates
    <3>4. CASE day[e] # NoRow /\ aim[e] # NoRow
      <4>1. aim[e].id = day[e].id
        <5>1. CASE e # d BY <1>4, <1>5, <5>1
        <5>2. CASE e = d BY <1>3, <1>4, <1>5, <3>4, <5>2 DEF Exists
        <5> QED BY <5>1, <5>2
      <4>2. day[e] \in CalendarDay /\ aim[e] \in CalendarDay BY <2>1, <3>1, <3>4, RowsExist
      <4>3. After(t, e) = Updated(day[e], aim[e], day[e])
        BY <2>3, <3>1, <3>4 DEF After, Inserts, Deletes, Updates
      <4> DEFINE a == aim[e]
                 b == day[e]
      <4>4. Updated(b, a, b) = [b EXCEPT !.type = a.type, !.order = a.order, !.manual = a.manual]
        BY DEF Updated, Changed
      <4>5. [b EXCEPT !.type = a.type, !.order = a.order, !.manual = a.manual] = a
        <5> HIDE DEF a, b
        <5>1. a \in CalendarDay /\ b \in CalendarDay /\ a.id = b.id BY <4>1, <4>2 DEF a, b
        <5> QED BY <5>1 DEF CalendarDay
      <4> QED BY <4>3, <4>4, <4>5
    <3> QED BY <3>2, <3>3, <3>4
  <2> QED BY <2>2, <2>3
<1>8. day' = [e \in Dates |-> After(t, e)] BY DEF Commit
<1>9. day' = aim
  <2> HIDE DEF t, aim
  <2> QED BY <1>6, <1>7, <1>8
<1> QED BY <1>3, <1>9

\* An edit of date e changes the type of no other date, and none but the days
\* it moves.
LEMMA AimedKeeps ==
    ASSUME IInv, NEW d \in Dates, NEW row \in Row
    PROVE  /\ Aimed(d, row)[d] = row
           /\ \A e \in Dates : e # d => Aimed(d, row)[e].type = day[e].type
           /\ \A e \in Dates : (e # d /\ ~Moves(day, d, e)) => Aimed(d, row)[e] = day[e]
<1> DEFINE c == [day EXCEPT ![d] = row]
<1>1. c \in Table /\ c[d] = row /\ \A e \in Dates : e # d => c[e] = day[e]
  BY DEF IInv, TypeOK, Table, Row
<1>2. Aimed(d, row) = Resequence(c, d) BY DEF Aimed
<1>3. ~Moves(c, d, d) /\ \A e \in Dates : e # d => (Moves(c, d, e) <=> Moves(day, d, e))
  BY <1>1 DEF Moves, Working, Dates
<1> HIDE DEF c
<1>4. \A e \in Dates : /\ ~Moves(c, d, e) => Resequence(c, d)[e] = c[e]
                       /\ Resequence(c, d)[e].type = c[e].type
  BY <1>1, WalkMoves
<1> QED BY <1>1, <1>2, <1>3, <1>4

\* The start of an edit.
LEMMA OpenHolds ==
    ASSUME IInv, NEW w \in Workers, NEW d \in Dates, NEW row \in Row, NEW span,
           row = NoRow \/ row.id = IF Exists(day, d) THEN day[d].id ELSE made[d] + 1,
           span.type # "working" => row.type = span.type,
           span.next = d + 1, MarkedUpTo(span, d),
           Open(w, d, row, span), UNCHANGED <<day, made>>
    PROVE  EditHolds(w)' /\ RangeHolds(w)'
<1> DEFINE aim == Aimed(d, row)
           read == [e \in Dates |-> IF aim[e] = day[e] THEN NoRow ELSE day[e]]
           new == [e \in Dates |-> IF aim[e] = day[e] THEN NoRow ELSE aim[e]]
           t == [op |-> "edit", date |-> d, span |-> span, read |-> read, new |-> new]
<1>1. txn' = [txn EXCEPT ![w] = t] BY DEF Open, Aimed
<1>2. txn'[w] = t BY <1>1 DEF IInv, TypeOK
<1>3. Aimed(d, row)' = aim BY DEF Aimed
<1>4. \A e \in Dates : IF aim[e] = day[e] THEN read[e] = NoRow /\ new[e] = NoRow
                       ELSE read[e] = day[e] /\ new[e] = aim[e]
  OBVIOUS
<1> HIDE DEF aim, read, new
<1>5. t.op = "edit" /\ t.date = d /\ t.span = span /\ t.read = read /\ t.new = new OBVIOUS
<1> HIDE DEF t
<1>6. EditHolds(w)' BY <1>2, <1>3, <1>4, <1>5 DEF EditHolds, Exists, aim
<1>7. RangeHolds(w)' BY <1>2, <1>5 DEF RangeHolds, MarkedUpTo
<1> QED BY <1>6, <1>7

\* The row mark_day wants has the key of the date's row, or a new one.
LEMMA MarkedIs ==
    \A d, type, order :
       /\ Marked(day, d, type, order).id = IF Exists(day, d) THEN day[d].id ELSE made[d] + 1
       /\ Marked(day, d, type, order).type = type
BY DEF Marked

LEMMA EditHoldsOn ==
    ASSUME IInv, NEW w \in Workers, Edit(w) PROVE EditHolds(w)' /\ RangeHolds(w)'
<1>1. PICK d \in Dates :
        \/ \E type \in DayTypes, order \in 0..MaxOrder : BeginMark(w, d, type, order)
        \/ \E order \in Orders : BeginReassign(w, d, order)
        \/ BeginClearOverride(w, d)
        \/ BeginDelete(w, d)
        \/ \E last \in d..NDates, type \in NonWorkingTypes : BeginBulk(w, d, last, type)
  BY DEF Edit
<1>2. Single(d).type = "working" /\ Single(d).next = d + 1 /\ MarkedUpTo(Single(d), d)
  BY DEF Single, MarkedUpTo
<1>3. ASSUME NEW type \in DayTypes, NEW order \in 0..MaxOrder,
             Open(w, d, Marked(day, d, type, order), Single(d)), UNCHANGED <<day, made>>
      PROVE  EditHolds(w)' /\ RangeHolds(w)'
  BY <1>2, <1>3, MarkedIs, MarkedKeeps, OpenHolds
<1>4. "working" \in DayTypes /\ Null \in 0..MaxOrder /\ Orders \subseteq 0..MaxOrder
  BY CalendarBounds DEF DayTypes, Null, Orders
<1>5. CASE \E type \in DayTypes, order \in 0..MaxOrder : BeginMark(w, d, type, order)
  BY <1>3, <1>5 DEF BeginMark
<1>6. CASE (\E order \in Orders : BeginReassign(w, d, order)) \/ BeginClearOverride(w, d)
  BY <1>3, <1>4, <1>6 DEF BeginReassign, BeginClearOverride
<1>7. CASE BeginDelete(w, d)
  <2>1. NoRow \in Row BY DEF Row
  <2> QED BY <1>2, <1>7, <2>1, OpenHolds DEF BeginDelete
<1>8. ASSUME NEW last \in d..NDates, NEW type \in NonWorkingTypes, BeginBulk(w, d, last, type)
      PROVE  EditHolds(w)' /\ RangeHolds(w)'
  <2>1. PICK s : s = [first |-> d, next |-> d, last |-> last, type |-> type] OBVIOUS
  <2>2. txn'[w] = [op |-> "range", span |-> s] BY <1>8, <2>1 DEF BeginBulk, IInv, TypeOK
  <2>3. s.first = d /\ s.next = d /\ d .. d - 1 = {} BY <2>1 DEF Dates
  <2>4. txn'[w].op = "range" /\ txn'[w].span = s BY <2>2
  <2>5. MarkedUpTo(s, s.next)' BY <2>3 DEF MarkedUpTo
  <2> QED BY <2>4, <2>5 DEF EditHolds, RangeHolds
<1> QED BY <1>1, <1>5, <1>6, <1>7, <1>8

LEMMA NextOfBulkHolds ==
    ASSUME IInv, NEW w \in Workers, RangeHolds(w), NextOfBulk(w) PROVE EditHolds(w)' /\ RangeHolds(w)'
<1> DEFINE s == txn[w].span
           d == s.next
           rest == [s EXCEPT !.next = d + 1]
<1>1. txn[w] \in Request /\ txn[w].op = "range" BY DEF NextOfBulk, IInv, TypeOK
<1>2. s \in Span BY <1>1 DEF Request, Idle
<1>3. MarkedUpTo(s, d) BY <1>1 DEF RangeHolds
<1>4. d <= s.last /\ Open(w, d, Marked(day, d, s.type, Null), rest) /\ UNCHANGED <<day, made>>
  BY DEF NextOfBulk
<1> HIDE DEF s
<1>5. d \in Dates /\ s.type \in DayTypes /\ Null \in 0..MaxOrder
  BY <1>2, <1>4, CalendarBounds DEF Span, Dates, Null
<1>6. rest.next = d + 1 /\ rest.type = s.type /\ rest.first = s.first BY <1>2 DEF Span
<1> HIDE DEF rest
<1>7. MarkedUpTo(rest, d) BY <1>3, <1>6 DEF MarkedUpTo
<1> QED BY <1>4, <1>5, <1>6, <1>7, MarkedIs, MarkedKeeps, OpenHolds

\* The dates of a range are marked up to the one that commits.
LEMMA CommitMarks ==
    ASSUME IInv, NEW w \in Workers, EditHolds(w), RangeHolds(w), Commit(w), NEW s, s = txn[w].span
    PROVE  MarkedUpTo(s, s.next)'
<1>1. PICK t : t = txn[w] OBVIOUS
<1>2. t.op = "edit" /\ t \in Request BY <1>1 DEF Commit, IInv, TypeOK
<1>3. t.date \in Dates /\ t.span \in Span BY <1>2 DEF Request, Idle
<1>4. PICK row \in Row : day' = Aimed(t.date, row) /\ (t.span.type # "working" => row.type = t.span.type)
  BY <1>1, CommitReaches
<1>5. MarkedUpTo(t.span, t.date) /\ t.span.next = t.date + 1 BY <1>1, <1>2 DEF RangeHolds
<1>6. /\ day'[t.date] = row
      /\ \A e \in Dates : e # t.date => day'[e].type = day[e].type
  BY <1>3, <1>4, AimedKeeps
<1>7. ASSUME t.span.type # "working", NEW e \in t.span.first .. t.span.next - 1
      PROVE  day'[e].type = t.span.type
  <2>1. t.span.first \in Dates /\ t.span.next - 1 = t.date
    <3>1. t.span.first \in Dates BY <1>3 DEF Span
    <3>2. \A n \in Dates : (n + 1) - 1 = n BY DEF Dates
    <3> QED BY <1>3, <1>5, <3>1, <3>2
  <2>2. e \in t.span.first .. t.date BY <2>1
  <2>3. e \in Dates /\ (e # t.date => e \in t.span.first .. t.date - 1)
    <3>1. \A f, n \in Dates : \A k \in f .. n : k \in Dates /\ (k # n => k \in f .. n - 1)
      BY CalendarBounds DEF Dates
    <3> QED BY <1>3, <2>1, <2>2, <3>1
  <2>4. CASE e = t.date BY <1>4, <1>6, <1>7, <2>4
  <2>5. CASE e # t.date
    <3>1. day[e].type = t.span.type BY <1>5, <1>7, <2>3, <2>5 DEF MarkedUpTo
    <3> QED BY <1>6, <2>3, <2>5, <3>1
  <2> QED BY <2>4, <2>5
<1> QED BY <1>1, <1>7 DEF MarkedUpTo

LEMMA SerialStep ==
    ASSUME SInv, Serial, [Next]_vars
    PROVE  SInv'
<1>1. IInv /\ IInv' BY StepKeeps DEF SInv
<1>2. ASSUME NEW w \in Workers, EditHolds(w)' /\ RangeHolds(w)' PROVE SInv'
  BY <1>1, <1>2 DEF Serial, SInv
<1>3. ASSUME NEW w \in Workers, Edit(w) PROVE SInv'
  BY <1>1, <1>2, <1>3, EditHoldsOn
<1>4. ASSUME NEW w \in Workers, NextOfBulk(w) PROVE SInv'
  BY <1>1, <1>2, <1>4, NextOfBulkHolds DEF SInv
<1>5. ASSUME NEW w \in Workers, Commit(w) PROVE SInv'
  <2>1. PICK s : s = txn[w].span OBVIOUS
  <2>2. MarkedUpTo(s, s.next)' BY <1>5, <2>1, CommitMarks DEF SInv
  <2>3. txn'[w] = Idle \/ txn'[w] = [op |-> "range", span |-> s]
    BY <1>1, <1>5, <2>1 DEF Commit, IInv, TypeOK
  <2> QED BY <1>2, <2>2, <2>3 DEF EditHolds, RangeHolds, Idle
<1>6. ASSUME NEW w \in Workers, Rollback(w) PROVE SInv'
  <2>1. txn'[w].op = "idle" BY <1>1, <1>6 DEF Rollback, Idle, IInv, TypeOK
  <2> QED BY <1>2, <2>1 DEF EditHolds, RangeHolds
<1>7. CASE UNCHANGED vars
  <2>1. UNCHANGED <<day, made, txn>> BY <1>7 DEF vars
  <2>2. \A d, row : Aimed(d, row)' = Aimed(d, row) /\ Exists(day, d)' = Exists(day, d) BY <2>1 DEF Aimed, Exists
  <2>3. ASSUME NEW w \in Workers PROVE EditHolds(w) => EditHolds(w)'
    BY <2>1, <2>2 DEF EditHolds
  <2>4. ASSUME NEW w \in Workers PROVE RangeHolds(w) => RangeHolds(w)'
    BY <2>1 DEF RangeHolds, MarkedUpTo
  <2> QED BY <1>1, <2>3, <2>4 DEF SInv
<1> QED BY <1>3, <1>4, <1>5, <1>6, <1>7 DEF Next

LEMMA SerialInit == Init => SInv
BY InitHolds DEF SInv, Init, EditHolds, RangeHolds, Idle

\* What a step commits is the calendar that the edit of its only worker
\* aimed at.
LEMMA StepReaches ==
    ASSUME SInv, Serial, [Next]_vars, NEW w \in Workers, Commits(w)
    PROVE  \E row \in Row :
             /\ txn[w].date \in Dates
             /\ day' = Aimed(txn[w].date, row)
             /\ Commit(w)
<1>1. Commit(w)
  <2>1. \E v \in Workers : Commit(v)
    BY DEF Commits, Next, vars, Edit, BeginMark, BeginReassign, BeginClearOverride, BeginDelete, BeginBulk,
           NextOfBulk, Rollback
  <2> QED BY <2>1 DEF Serial
<1>2. txn[w].date \in Dates
  <2>1. txn[w].op = "edit" /\ txn[w] \in Request BY DEF Commits, SInv, IInv, TypeOK
  <2> QED BY <2>1 DEF Request, Idle
<1> QED BY <1>1, <1>2, CommitReaches DEF SInv

\* While requests are served one after the other, every open edit still finds
\* the calendar it read, and a bulk range has marked the dates that have had
\* their turn.
THEOREM SerialInvariance == ASSUME Serial PROVE Spec => []SInv
<1>1. Init => SInv BY SerialInit
<1>2. SInv /\ [Next]_vars => SInv' BY SerialStep
<1> QED BY <1>1, <1>2, PTL DEF Spec

\* An edit that overlaps with no other leaves alone the days before it, the
\* days off and the pinned days, whatever the calendar looks like.
THEOREM SerialReach == ASSUME Serial PROVE Spec => EditReachesOnlyTheRotation
<1> DEFINE A == \A w \in Workers, e \in Dates :
                   /\ Commits(w) /\ e # txn[w].date
                   /\ e < txn[w].date \/ ~Working(day, e) \/ day[e].manual
                   => day'[e] = day[e]
<1>1. SInv /\ [Next]_vars => A
  <2> SUFFICES ASSUME SInv, [Next]_vars, NEW w \in Workers, NEW e \in Dates,
                      Commits(w), e # txn[w].date,
                      e < txn[w].date \/ ~Working(day, e) \/ day[e].manual
               PROVE  day'[e] = day[e]
    OBVIOUS
  <2>1. PICK row \in Row : txn[w].date \in Dates /\ day' = Aimed(txn[w].date, row)
    BY StepReaches
  <2>2. ~Moves(day, txn[w].date, e) BY <2>1 DEF Moves, Dates
  <2> QED BY <2>1, <2>2, AimedKeeps DEF SInv
<1>2. SInv /\ [Next]_vars => [A]_vars BY <1>1
<1> QED BY <1>2, SerialInvariance, PTL DEF Spec, EditReachesOnlyTheRotation

\* A holiday marked, or an entry deleted, while no other edit is under way
\* leaves the rotation gapless to the end of the calendar, however long it is:
\* the walk carries the order of the last working day from date to date.
THEOREM SerialRotation == ASSUME Serial PROVE Spec => HolidayKeepsRotation
<1> DEFINE A == \A w \in Workers, e \in Dates :
                   /\ Commits(w) /\ ~Working(day', txn[w].date)
                   /\ e > txn[w].date /\ Working(day', e) /\ ~day'[e].manual
                   => Continues(day', e)
<1>1. SInv /\ [Next]_vars => A
  <2> SUFFICES ASSUME SInv, [Next]_vars, NEW w \in Workers, NEW e \in Dates,
                      Commits(w), ~Working(day', txn[w].date),
                      e > txn[w].date, Working(day', e), ~day'[e].manual
               PROVE  Continues(day', e)
    OBVIOUS
  <2>1. PICK row \in Row : txn[w].date \in Dates /\ day' = Aimed(txn[w].date, row)
    BY StepReaches
  <2>2. PICK c, d : c = [day EXCEPT ![txn[w].date] = row] /\ d = txn[w].date OBVIOUS
  <2>3. c \in Table BY <2>1, <2>2 DEF SInv, IInv, TypeOK, Table, Row
  <2>4. day' = Resequence(c, d) BY <2>1, <2>2 DEF Aimed
  <2> QED BY <2>1, <2>2, <2>3, <2>4, WalkContinues
<1>2. SInv /\ [Next]_vars => [A]_vars BY <1>1
<1> QED BY <1>2, SerialInvariance, PTL DEF Spec, HolidayKeepsRotation

\* A bulk range that runs to its end has marked all its dates, for ranges of
\* any length: no later date of the range undoes an earlier one.
THEOREM SerialBulk == ASSUME Serial PROVE Spec => BulkMarksEveryDate
<1> DEFINE A == \A w \in Workers :
                   Commits(w) /\ txn[w].span.type # "working" /\ txn'[w] = Idle =>
                      \A d \in txn[w].span.first .. txn[w].span.last :
                          day'[d].type = txn[w].span.type
<1>1. SInv /\ [Next]_vars => A
  <2> SUFFICES ASSUME SInv, [Next]_vars, NEW w \in Workers,
                      Commits(w), txn[w].span.type # "working", txn'[w] = Idle,
                      NEW d \in txn[w].span.first .. txn[w].span.last
               PROVE  day'[d].type = txn[w].span.type
    OBVIOUS
  <2>1. PICK s : s = txn[w].span OBVIOUS
  <2>2. Commit(w) BY StepReaches
  <2>3. MarkedUpTo(s, s.next)' BY <2>1, <2>2, CommitMarks DEF SInv
  <2>4. s \in Span
    <3>1. txn[w].op = "edit" /\ txn[w] \in Request BY DEF Commits, SInv, IInv, TypeOK
    <3> QED BY <2>1, <3>1 DEF Request, Idle
  <2>5. s.next > s.last
    <3>1. txn'[w] = IF s.next > s.last THEN Idle ELSE [op |-> "range", span |-> s]
      BY <2>1, <2>2 DEF Commit, SInv, IInv, TypeOK
    <3> QED BY <3>1 DEF Idle
  <2>6. PICK f, l, n : f = s.first /\ l = s.last /\ n = s.next OBVIOUS
  <2>7. f \in Int /\ l \in Int /\ n \in Int BY <2>4, <2>6 DEF Span, Dates
  <2>8. d \in f .. n - 1 BY <2>1, <2>5, <2>6, <2>7
  <2> QED BY <2>1, <2>3, <2>6, <2>8 DEF MarkedUpTo
<1>2. SInv /\ [Next]_vars => [A]_vars BY <1>1
<1> QED BY <1>2, SerialInvariance, PTL DEF Spec, BulkMarksEveryDate
=============================================================================
