-------------------------- MODULE LeaveTxn_proofs ---------------------------
(***************************************************************************)
(* Proofs about LeaveTxn for every set of teachers and workers and every   *)
(* bound.  The inductive invariant says what an open request may still     *)
(* rely on at its commit although other requests committed in between: a   *)
(* request that read a leave as approved finds it approved or cancelled, a *)
(* request that holds the row lock finds the leave pending.                *)
(***************************************************************************)
EXTENDS LeaveTxn, TLAPS

Settled(l) == leave[l].status \in {"approved", "cancelled"}

\* The keys a submission drew are its own, and no row has them yet.
Keys(r) == r.first + 1 .. r.first + Len(r.rows)
SubmitOK(r) ==
    r.op = "submit" =>
        /\ r.rows # <<>> /\ r.first + Len(r.rows) <= seq
        /\ \A l \in Keys(r) : leave[l] = NoLeave
        /\ r.rows[1].status \in {"pending", "approved"}
        /\ \A i \in 1..Len(r.rows) : r.rows[i].status = r.rows[1].status

\* What the other requests rely on.
DecisionOK(r) == r.op \in {"approve", "reject"} => leave[r.leaf].status = "pending"
ChangeOK(r) ==
    r.op \in {"assign", "override", "undo", "lock", "auto"} => Settled(r.leaf)
CancelOK(r) ==
    r.op = "cancel" => Exists(r.leaf) /\ (r.seen # NoAsg => Settled(r.leaf))
ClearOK(r) ==
    r.op = "clear" => \A l \in Leaves : r.seen[l] # NoAsg => Settled(l)
QueueOK(r) ==
    r.op \in {"queued", "auto"} => \A i \in 1..Len(r.todo) : Settled(r.todo[i])
RequestOK(r) ==
    /\ SubmitOK(r) /\ DecisionOK(r) /\ ChangeOK(r)
    /\ CancelOK(r) /\ ClearOK(r) /\ QueueOK(r)

\* Two submissions never share a key, two decisions never a row lock.
Apart(r, q) ==
    /\ r.op = "submit" /\ q.op = "submit" => Keys(r) \cap Keys(q) = {}
    /\ r.op \in {"approve", "reject"} /\ q.op \in {"approve", "reject"} =>
          r.leaf # q.leaf

Untouched(l) == asg[l] = NoAsg /\ \A t \in Teachers : net[l][t] = 0

IInv ==
    /\ TypeOK
    /\ \A w \in Workers : RequestOK(txn[w])
    /\ \A v, w \in Workers : v # w => Apart(txn[v], txn[w])
    /\ \A l \in Leaves : l > seq => leave[l] = NoLeave
    /\ \A l \in Leaves : Settled(l) \/ Untouched(l)
-----------------------------------------------------------------------------
(* What the type of a request says about each kind of request.             *)

\* The open requests by kind: a request with a given op has the fields of it.
LEMMA RequestKinds ==
    ASSUME NEW r \in Request
    PROVE  /\ r.op \in {"idle", "submit", "approve", "reject", "assign", "override",
                        "undo", "lock", "cancel", "clear", "queued", "auto"}
           /\ r.op = "idle" <=> r = Idle
           /\ r.op = "submit" => r.first \in 0..MaxLeaves /\ r.rows \in Seq(Row)
           /\ r.op \in {"approve", "reject", "assign", "override", "undo", "lock",
                        "cancel", "auto"} => r.leaf \in Leaves
           /\ r.op \in {"assign", "override", "auto"} => r.sub \in Teachers
           /\ r.op \in {"override", "undo", "lock"} => r.seen \in Assignment
           /\ r.op = "lock" => r.locked \in BOOLEAN
           /\ r.op = "cancel" => r.seen \in Asg
           /\ r.op = "clear" => r.seen \in [Leaves -> Asg]
           /\ r.op \in {"queued", "auto"} => r.todo \in Seq(Leaves)
           /\ r.op = "queued" => r.todo # <<>>
<1>1. CASE r = Idle BY <1>1 DEF Idle
<1>2. CASE r \in [op: {"submit"}, first: 0..MaxLeaves, rows: Seq(Row)]
  BY <1>2 DEF Idle
<1>3. CASE r \in [op: {"approve", "reject"}, leaf: Leaves]
  BY <1>3 DEF Idle
<1>4. CASE r \in [op: {"assign"}, leaf: Leaves, sub: Teachers]
  BY <1>4 DEF Idle
<1>5. CASE r \in [op: {"override"}, leaf: Leaves, sub: Teachers, seen: Assignment]
  BY <1>5 DEF Idle
<1>6. CASE r \in [op: {"undo"}, leaf: Leaves, seen: Assignment]
  BY <1>6 DEF Idle
<1>7. CASE r \in [op: {"lock"}, leaf: Leaves, seen: Assignment, locked: BOOLEAN]
  BY <1>7 DEF Idle
<1>8. CASE r \in [op: {"cancel"}, leaf: Leaves, seen: Asg]
  BY <1>8 DEF Idle
<1>9. CASE r \in [op: {"clear"}, seen: [Leaves -> Asg]]
  BY <1>9 DEF Idle
<1>10. CASE r \in [op: {"queued"}, todo: Seq(Leaves) \ {<<>>}]
  BY <1>10 DEF Idle
<1>11. CASE r \in [op: {"auto"}, leaf: Leaves, sub: Teachers, todo: Seq(Leaves)]
  BY <1>11 DEF Idle
<1> QED
  BY <1>1, <1>2, <1>3, <1>4, <1>5, <1>6, <1>7, <1>8, <1>9, <1>10, <1>11 DEF Request

\* A step that only replaces the request of one worker keeps the invariant
\* when the new request may rely on what it will find.
LEMMA OnlyRequest ==
    ASSUME IInv, NEW w \in Workers, NEW r \in Request, RequestOK(r),
           r.op # "submit",
           r.op \in {"approve", "reject"} => LockFree(r.leaf),
           txn' = [txn EXCEPT ![w] = r],
           UNCHANGED <<leave, seq, asg, made, net, env>>
    PROVE  IInv'
<1> USE DEF IInv, env
<1>1. TypeOK' BY DEF TypeOK
<1>2. ASSUME NEW v \in Workers PROVE RequestOK(txn[v])'
  <2>1. txn[v]' = IF v = w THEN r ELSE txn[v] BY DEF TypeOK
  <2>2. RequestOK(txn[v]') BY <2>1
  <2> QED
    BY <2>2 DEF RequestOK, SubmitOK, DecisionOK, ChangeOK, CancelOK, ClearOK,
                QueueOK, Settled, Exists, Keys
<1>3. ASSUME NEW v \in Workers, NEW u \in Workers, v # u
      PROVE  Apart(txn[v], txn[u])'
  <2>1. \A x \in Workers : txn[x]' = IF x = w THEN r ELSE txn[x] BY DEF TypeOK
  <2>2. \A x \in Workers : x # w => Apart(txn[x], r) /\ Apart(r, txn[x])
    BY DEF Apart, LockFree, Holds
  <2> QED BY <1>3, <2>1, <2>2 DEF Apart, Keys
<1>4. \A l \in Leaves : l > seq' => leave'[l] = NoLeave
  OBVIOUS
<1>5. \A l \in Leaves : Settled(l)' \/ Untouched(l)'
  BY DEF Settled, Untouched
<1> QED BY <1>1, <1>2, <1>3, <1>4, <1>5

\* A step that changes assignments and ledger entries of settled leaves only,
\* and replaces the request of one worker, keeps the invariant.
LEMMA OnlyCoverage ==
    ASSUME IInv, NEW w \in Workers, NEW r \in Request, RequestOK(r),
           r.op \in {"idle", "queued"},
           txn' = [txn EXCEPT ![w] = r],
           UNCHANGED <<leave, seq, env>>,
           asg' \in [Leaves -> Asg], made' \in [Leaves -> Nat],
           net' \in [Leaves -> [Teachers -> Int]],
           \A l \in Leaves : Settled(l) \/ (asg'[l] = asg[l] /\ net'[l] = net[l])
    PROVE  IInv'
<1> USE DEF IInv, env
<1>1. TypeOK' BY DEF TypeOK
<1>2. ASSUME NEW v \in Workers PROVE RequestOK(txn[v])'
  <2>1. txn[v]' = IF v = w THEN r ELSE txn[v] BY DEF TypeOK
  <2>2. RequestOK(txn[v]') BY <2>1
  <2> QED
    BY <2>2 DEF RequestOK, SubmitOK, DecisionOK, ChangeOK, CancelOK, ClearOK,
                QueueOK, Settled, Exists, Keys
<1>3. ASSUME NEW v \in Workers, NEW u \in Workers, v # u
      PROVE  Apart(txn[v], txn[u])'
  <2>1. \A x \in Workers : txn[x]' = IF x = w THEN r ELSE txn[x] BY DEF TypeOK
  <2> QED BY <1>3, <2>1 DEF Apart, Keys
<1>4. \A l \in Leaves : l > seq' => leave'[l] = NoLeave
  OBVIOUS
<1>5. \A l \in Leaves : Settled(l)' \/ Untouched(l)'
  BY DEF Settled, Untouched
<1> QED BY <1>1, <1>2, <1>3, <1>4, <1>5

\* The status of one leave changes to st: what the other requests read stays
\* true when no decision is open on it and it does not leave the settled ones.
LEMMA StatusChange ==
    ASSUME IInv, NEW w \in Workers, NEW r \in Request, NEW k \in Leaves,
           NEW st \in {"approved", "rejected", "cancelled"},
           leave[k] \in Row, Settled(k) => st = "cancelled",
           \A v \in Workers : v # w => ~Holds(v, k),
           r.op = "idle" \/ (r = [op |-> "queued", todo |-> <<k>>] /\ st = "approved"),
           txn' = [txn EXCEPT ![w] = r],
           leave' = [leave EXCEPT ![k].status = st],
           asg' \in [Leaves -> Asg], net' \in [Leaves -> [Teachers -> Int]],
           \A l \in Leaves : Settled(l) \/ (asg'[l] = asg[l] /\ net'[l] = net[l]),
           UNCHANGED <<seq, made, env>>
    PROVE  IInv'
<1> USE DEF IInv, env
<1>1. \A l \in Leaves : l # k => leave'[l] = leave[l]
  BY DEF TypeOK
<1>2. leave'[k] \in Row /\ leave'[k].status = st
  BY DEF TypeOK, Row
<1>3. TypeOK' BY <1>1, <1>2 DEF TypeOK
<1>4. \A l \in Leaves : Settled(l) => Settled(l)'
  BY <1>1, <1>2 DEF Settled
<1>5. \A l \in Leaves : Exists(l) => Exists(l)'
  BY <1>1, <1>2 DEF Exists, Row, NoLeave
<1>6. ASSUME NEW v \in Workers PROVE RequestOK(txn[v])'
  <2>1. CASE v = w
    <3>1. txn'[v] = r BY <2>1 DEF TypeOK
    <3>2. CASE r.op = "idle"
      BY <3>1, <3>2 DEF RequestOK, SubmitOK, DecisionOK, ChangeOK, CancelOK, ClearOK, QueueOK
    <3>3. CASE r = [op |-> "queued", todo |-> <<k>>] /\ st = "approved"
      <4>1. Settled(k)' BY <1>2, <3>3 DEF Settled
      <4> QED BY <3>1, <3>3, <4>1 DEF RequestOK, SubmitOK, DecisionOK, ChangeOK,
                                      CancelOK, ClearOK, QueueOK, Settled
    <3> QED BY <3>2, <3>3
  <2>2. CASE v # w
    <3>1. txn'[v] = txn[v] BY <2>2 DEF TypeOK
    <3>2. txn[v] \in Request /\ RequestOK(txn[v]) BY DEF TypeOK
    <3>3. SubmitOK(txn[v])'
      BY <1>1, <1>2, <3>1, <3>2, RequestKinds DEF RequestOK, SubmitOK, Keys, Leaves, Row, NoLeave
    <3>4. DecisionOK(txn[v])'
      BY <1>1, <2>2, <3>1, <3>2, RequestKinds DEF RequestOK, DecisionOK, Holds
    <3>5. ChangeOK(txn[v])'
      BY <1>4, <3>1, <3>2, RequestKinds DEF RequestOK, ChangeOK, Settled
    <3>6. CancelOK(txn[v])'
      BY <1>4, <1>5, <3>1, <3>2, RequestKinds DEF RequestOK, CancelOK, Settled, Exists
    <3>7. ClearOK(txn[v])'
      BY <1>4, <3>1, <3>2, RequestKinds DEF RequestOK, ClearOK, Settled
    <3>8. QueueOK(txn[v])'
      <4>1. CASE txn[v].op \in {"queued", "auto"}
        <5>1. \A i \in 1..Len(txn[v].todo) : txn[v].todo[i] \in Leaves
          BY <3>2, <4>1, RequestKinds
        <5> QED BY <1>4, <3>1, <3>2, <5>1 DEF RequestOK, QueueOK, Settled
      <4>2. CASE txn[v].op \notin {"queued", "auto"}
        BY <3>1, <4>2 DEF QueueOK
      <4> QED BY <4>1, <4>2
    <3> QED BY <3>3, <3>4, <3>5, <3>6, <3>7, <3>8 DEF RequestOK
  <2> QED BY <2>1, <2>2
<1>7. ASSUME NEW v \in Workers, NEW u \in Workers, v # u
      PROVE  Apart(txn[v], txn[u])'
  <2>1. \A x \in Workers : txn[x]' = IF x = w THEN r ELSE txn[x] BY DEF TypeOK
  <2> QED BY <1>7, <2>1 DEF Apart, Keys
<1>8. ASSUME NEW l \in Leaves, l > seq' PROVE leave'[l] = NoLeave
  BY <1>1, <1>8 DEF Row, NoLeave
<1>9. \A l \in Leaves : Settled(l)' \/ Untouched(l)'
  <2>1. \A l \in Leaves : Untouched(l) /\ ~Settled(l) => Untouched(l)'
    BY DEF Untouched
  <2> QED BY <1>4, <2>1
<1> QED BY <1>3, <1>6, <1>7, <1>8, <1>9
-----------------------------------------------------------------------------
(* One lemma per group of actions.                                         *)

\* What the invariant says of an open submission: the keys it drew are keys
\* of the table, below the sequence, and still free.
LEMMA OpenSubmission ==
    ASSUME IInv, NEW v \in Workers, txn[v].op = "submit"
    PROVE  /\ txn[v].first \in Nat /\ txn[v].rows \in Seq(Row)
           /\ Len(txn[v].rows) \in Nat \ {0}
           /\ txn[v].first + Len(txn[v].rows) <= seq
           /\ Keys(txn[v]) \subseteq 1..seq /\ Keys(txn[v]) \subseteq Leaves
           /\ \A l \in Keys(txn[v]) : leave[l] = NoLeave
           /\ txn[v].rows[1].status \in {"pending", "approved"}
           /\ \A i \in 1..Len(txn[v].rows) :
                 txn[v].rows[i].status = txn[v].rows[1].status
<1>1. txn[v] \in Request /\ SubmitOK(txn[v]) BY DEF IInv, TypeOK, RequestOK
<1>2. seq \in Nat /\ seq <= MaxLeaves /\ MaxLeaves \in Nat
  BY BoundsAssumption DEF IInv, TypeOK
<1>3. txn[v].first \in 0..MaxLeaves /\ txn[v].rows \in Seq(Row)
  BY <1>1, RequestKinds
<1>4. /\ txn[v].rows # <<>> /\ txn[v].first + Len(txn[v].rows) <= seq
      /\ \A l \in Keys(txn[v]) : leave[l] = NoLeave
      /\ txn[v].rows[1].status \in {"pending", "approved"}
      /\ \A i \in 1..Len(txn[v].rows) :
            txn[v].rows[i].status = txn[v].rows[1].status
  BY <1>1 DEF SubmitOK
<1>5. txn[v].first \in Nat /\ Len(txn[v].rows) \in Nat \ {0}
  BY <1>2, <1>3, <1>4
<1>6. ASSUME NEW f \in Nat, NEW n \in Nat, f + n <= seq
      PROVE  f + 1 .. f + n \subseteq 1..seq /\ f + 1 .. f + n \subseteq Leaves
  BY <1>2, <1>6 DEF Leaves
<1>7. Keys(txn[v]) \subseteq 1..seq /\ Keys(txn[v]) \subseteq Leaves
  BY <1>4, <1>5, <1>6 DEF Keys
<1> QED BY <1>3, <1>4, <1>5, <1>7

\* A submission draws fresh keys and opens.
LEMMA SubmitKeeps ==
    ASSUME IInv, NEW w \in Workers, NEW t \in Teachers, NEW d \in Days,
           NEW ps \in Batches, NEW st \in {"pending", "approved"},
           Submit(w, t, d, ps, st)
    PROVE  IInv'
<1> DEFINE rows == [i \in 1..Len(ps) |->
                      [status |-> st, teacher |-> t, date |-> d,
                       order |-> calendar[d], period |-> ps[i]]]
           r == [op |-> "submit", first |-> seq, rows |-> rows]
<1>1. ps \in Seq(Periods) /\ ps # <<>> /\ Len(ps) \in Nat \ {0}
  BY PeriodsAssumption
<1>2. rows \in Seq(Row) /\ Len(rows) = Len(ps) /\ rows # <<>>
  <2>1. \A i \in 1..Len(ps) : rows[i] \in Row
    BY <1>1 DEF Submit, WorkingDay, NonWorking, IInv, TypeOK, Row
  <2> HIDE DEF rows
  <2>2. rows = [i \in 1..Len(ps) |-> rows[i]] BY DEF rows
  <2> QED BY <1>1, <2>1, <2>2
<1>3. \A i \in 1..Len(rows) : rows[i].status = st
  BY <1>2
<1>4. /\ txn[w] = Idle /\ txn' = [txn EXCEPT ![w] = r]
      /\ seq' = seq + Len(ps) /\ seq' \in seq + 1 .. MaxLeaves
      /\ UNCHANGED <<leave, asg, made, net, env>>
  BY <1>1, BoundsAssumption DEF Submit, Ready, IInv, TypeOK
<1> HIDE DEF rows
<1>5. r \in Request
  BY <1>2 DEF Request, IInv, TypeOK
<1>6. r.op = "submit" /\ r.first = seq /\ r.rows = rows
  OBVIOUS
<1>7. Keys(r) = seq + 1 .. seq'
  BY <1>2, <1>4, <1>6 DEF Keys
<1> HIDE DEF r
<1>8. \A x \in Workers : txn'[x] = IF x = w THEN r ELSE txn[x]
  BY <1>4 DEF IInv, TypeOK
<1>9. TypeOK'
  BY <1>4, <1>5 DEF IInv, TypeOK, env
<1>10. ASSUME NEW v \in Workers PROVE RequestOK(txn[v])'
  <2>1. CASE v = w
    <3>1. txn'[v] = r BY <1>8, <2>1
    <3>2. \A l \in seq + 1 .. seq' : leave'[l] = NoLeave
      BY <1>1, <1>4, BoundsAssumption DEF IInv, Leaves, TypeOK
    <3>3. /\ rows # <<>> /\ seq + Len(rows) <= seq'
          /\ rows[1].status \in {"pending", "approved"}
          /\ \A i \in 1..Len(rows) : rows[i].status = rows[1].status
      BY <1>1, <1>2, <1>3, <1>4 DEF IInv, TypeOK
    <3>4. SubmitOK(txn[v])'
      BY <1>6, <1>7, <3>1, <3>2, <3>3 DEF SubmitOK, Keys
    <3> QED BY <1>6, <3>1, <3>4 DEF RequestOK, DecisionOK, ChangeOK, CancelOK, ClearOK, QueueOK
  <2>2. CASE v # w
    <3>1. txn'[v] = txn[v] /\ txn[v] \in Request /\ RequestOK(txn[v])
      BY <1>8, <2>2 DEF IInv, TypeOK
    <3>2. SubmitOK(txn[v])'
      <4>1. SUFFICES ASSUME txn[v].op = "submit" PROVE SubmitOK(txn[v])'
        BY <3>1 DEF SubmitOK
      <4>2. seq \in Nat /\ seq <= seq' /\ Len(txn[v].rows) \in Nat \ {0}
            /\ txn[v].first \in Nat
        BY <1>1, <1>4, <4>1, OpenSubmission DEF IInv, TypeOK
      <4>3. txn[v].rows # <<>> /\ txn[v].first + Len(txn[v].rows) <= seq'
        BY <1>4, <4>1, <4>2, OpenSubmission
      <4> QED BY <1>4, <3>1, <4>1, <4>3, OpenSubmission DEF SubmitOK, Keys
    <3> QED BY <1>4, <3>1, <3>2 DEF RequestOK, DecisionOK, ChangeOK, CancelOK,
                                     ClearOK, QueueOK, Settled, Exists
  <2> QED BY <2>1, <2>2
<1>11. ASSUME NEW v \in Workers, NEW u \in Workers, v # u
      PROVE  Apart(txn[v], txn[u])'
  <2>1. ASSUME NEW x \in Workers, txn[x].op = "submit"
        PROVE  Keys(txn[x]) \cap Keys(r) = {}
    <3>1. Keys(txn[x]) \subseteq 1..seq /\ seq \in Nat
      BY <2>1, OpenSubmission DEF IInv, TypeOK
    <3> QED BY <1>7, <3>1
  <2>2. CASE v = w
    BY <1>6, <1>8, <1>11, <2>1, <2>2 DEF Apart, Keys
  <2>3. CASE u = w
    BY <1>6, <1>8, <1>11, <2>1, <2>3 DEF Apart, Keys
  <2>4. CASE v # w /\ u # w
    BY <1>8, <1>11, <2>4 DEF Apart, Keys, IInv
  <2> QED BY <2>2, <2>3, <2>4
<1>12. \A l \in Leaves : l > seq' => leave'[l] = NoLeave
  BY <1>4 DEF IInv, TypeOK, Leaves
<1>13. \A l \in Leaves : Settled(l)' \/ Untouched(l)'
  BY <1>4 DEF IInv, Settled, Untouched
<1> QED BY <1>9, <1>10, <1>11, <1>12, <1>13 DEF IInv

\* The commit of a submission puts its rows under keys nobody else holds.
LEMMA CommitSubmitKeeps ==
    ASSUME IInv, NEW w \in Workers, CommitSubmit(w)
    PROVE  IInv'
<1> DEFINE r == txn[w]
           rows == r.rows
           todo == IF rows[1].status = "approved"
                   THEN [i \in 1..Len(rows) |-> r.first + i] ELSE <<>>
           q == Next1(todo)
<1>1. /\ r \in Request /\ r.op = "submit"
      /\ r.first \in Nat /\ rows \in Seq(Row) /\ Len(rows) \in Nat \ {0}
      /\ Keys(r) \subseteq Leaves /\ Keys(r) \subseteq 1..seq
      /\ \A l \in Keys(r) : leave[l] = NoLeave
      /\ rows[1].status \in {"pending", "approved"}
      /\ \A i \in 1..Len(rows) : rows[i].status = rows[1].status
  BY OpenSubmission DEF CommitSubmit, IInv, TypeOK
<1>2. /\ txn' = [txn EXCEPT ![w] = q]
      /\ leave' = [l \in Leaves |-> IF l \in Keys(r) THEN rows[l - r.first] ELSE leave[l]]
      /\ UNCHANGED <<seq, asg, made, net, env>>
  BY DEF CommitSubmit, Keys
<1>3. Keys(r) \subseteq Leaves BY <1>1
<1>4. \A l \in Keys(r) : leave[l] = NoLeave /\ leave'[l] \in Row
                           /\ leave'[l].status = rows[1].status
  <2>1. \A l \in Keys(r) : l - r.first \in 1..Len(rows)
    BY <1>1 DEF Keys
  <2>2. \A i \in 1..Len(rows) : rows[i] \in Row /\ rows[i].status = rows[1].status
    BY <1>1
  <2>3. \A l \in Keys(r) : leave'[l] = rows[l - r.first]
    BY <1>2, <1>3
  <2> HIDE DEF rows
  <2> QED BY <1>1, <2>1, <2>2, <2>3
<1>5. \A l \in Leaves : l \notin Keys(r) => leave'[l] = leave[l]
  BY <1>2
<1>6. \A l \in Leaves : Settled(l) => Settled(l)'
  BY <1>4, <1>5 DEF Settled, NoLeave
<1>7. todo \in Seq(Leaves) /\ \A i \in 1..Len(todo) : leave'[todo[i]].status \in {"approved", "cancelled"}
  <2>1. CASE rows[1].status = "approved"
    <3>1. \A i \in 1..Len(rows) : r.first + i \in Keys(r)
      BY <1>1 DEF Keys
    <3>2. [i \in 1..Len(rows) |-> r.first + i] \in Seq(Leaves)
      BY <1>1, <1>3, <3>1
    <3> QED BY <1>1, <1>4, <2>1, <3>1, <3>2
  <2>2. CASE rows[1].status # "approved"
    BY <2>2
  <2> QED BY <2>1, <2>2
<1> HIDE DEF todo
<1>8. q \in Request /\ q.op \in {"idle", "queued"} /\ (q.op = "queued" => q.todo = todo)
  BY <1>7 DEF Next1, Request, Idle
<1> HIDE DEF q
<1>9. \A x \in Workers : txn'[x] = IF x = w THEN q ELSE txn[x]
  BY <1>2 DEF IInv, TypeOK
<1>10. TypeOK'
  <2>1. leave' \in [Leaves -> Row \cup {NoLeave}]
    BY <1>2, <1>4, <1>5 DEF IInv, TypeOK
  <2> QED BY <1>2, <1>8, <2>1 DEF IInv, TypeOK, env
<1>11. ASSUME NEW v \in Workers PROVE RequestOK(txn[v])'
  <2>1. CASE v = w
    BY <1>7, <1>8, <1>9, <2>1 DEF RequestOK, SubmitOK, DecisionOK, ChangeOK,
       CancelOK, ClearOK, QueueOK, Settled
  <2>2. CASE v # w
    <3>1. txn'[v] = txn[v] /\ txn[v] \in Request /\ RequestOK(txn[v])
      BY <1>9, <2>2 DEF IInv, TypeOK
    <3>2. SubmitOK(txn[v])'
      <4>1. SUFFICES ASSUME txn[v].op = "submit" PROVE SubmitOK(txn[v])'
        BY <3>1 DEF SubmitOK
      <4>2. Keys(txn[v]) \cap Keys(r) = {}
        BY <1>1, <2>2, <4>1 DEF IInv, Apart
      <4>3. Keys(txn[v]) \subseteq Leaves
        BY <4>1, OpenSubmission
      <4> QED BY <1>2, <1>5, <3>1, <4>1, <4>2, <4>3 DEF RequestOK, SubmitOK, Keys
    <3>3. DecisionOK(txn[v])'
      BY <1>4, <1>5, <3>1, RequestKinds DEF RequestOK, DecisionOK, NoLeave
    <3>4. ChangeOK(txn[v])'
      BY <1>6, <3>1, RequestKinds DEF RequestOK, ChangeOK, Settled
    <3>5. CancelOK(txn[v])'
      BY <1>4, <1>5, <1>6, <3>1, RequestKinds
      DEF RequestOK, CancelOK, Settled, Exists, Row, NoLeave
    <3>6. ClearOK(txn[v])'
      BY <1>6, <3>1, RequestKinds DEF RequestOK, ClearOK, Settled
    <3>7. QueueOK(txn[v])'
      <4>1. CASE txn[v].op \in {"queued", "auto"}
        <5>1. \A i \in 1..Len(txn[v].todo) : txn[v].todo[i] \in Leaves
          BY <3>1, <4>1, RequestKinds
        <5> QED BY <1>6, <3>1, <4>1, <5>1 DEF RequestOK, QueueOK, Settled
      <4>2. CASE txn[v].op \notin {"queued", "auto"}
        BY <3>1, <4>2 DEF QueueOK
      <4> QED BY <4>1, <4>2
    <3> QED BY <3>2, <3>3, <3>4, <3>5, <3>6, <3>7 DEF RequestOK
  <2> QED BY <2>1, <2>2
<1>12. ASSUME NEW v \in Workers, NEW u \in Workers, v # u
      PROVE  Apart(txn[v], txn[u])'
  BY <1>8, <1>9, <1>12 DEF Apart, Keys, IInv
<1>13. ASSUME NEW l \in Leaves, l > seq' PROVE leave'[l] = NoLeave
  <2>1. seq' = seq /\ seq \in Nat /\ l \in Nat
    BY <1>2, BoundsAssumption DEF IInv, TypeOK, Leaves
  <2>2. l \notin Keys(r)
    <3> HIDE DEF r
    <3> QED BY <1>1, <1>13, <2>1
  <2>3. leave[l] = NoLeave BY <1>13, <2>1 DEF IInv
  <2> QED BY <1>5, <2>2, <2>3
<1>14. \A l \in Leaves : Settled(l)' \/ Untouched(l)'
  BY <1>2, <1>6 DEF IInv, Untouched
<1> QED BY <1>10, <1>11, <1>12, <1>13, <1>14 DEF IInv
-----------------------------------------------------------------------------
(* Requests that open, or that end without a write.                        *)

\* A request may only rely on a leave whose status its handler has checked.
LEMMA BeginLeafKeeps ==
    ASSUME IInv, NEW w \in Workers, NEW l \in Leaves,
           \/ BeginApprove(w, l)
           \/ BeginReject(w, l)
           \/ BeginLock(w, l)
           \/ BeginUndo(w, l)
           \/ BeginCancelByTeacher(w, l)
           \/ BeginCancelByAdmin(w, l)
           \/ \E s \in Teachers : BeginAssign(w, l, s) \/ BeginOverride(w, l, s)
    PROVE  IInv'
<1>1. asg[l] \in Asg /\ (Covered(l) => asg[l] \in Assignment /\ Settled(l))
  BY DEF IInv, TypeOK, Untouched, Covered, Asg
<1>2. asg[l].locked \in BOOLEAN \/ ~Covered(l)
  BY <1>1 DEF Assignment
<1> USE DEF RequestOK, SubmitOK, DecisionOK, ChangeOK, CancelOK, ClearOK, QueueOK, Ready
<1>3. CASE BeginApprove(w, l)
  <2> DEFINE r == [op |-> "approve", leaf |-> l]
  <2>1. r \in Request /\ RequestOK(r) /\ r.op = "approve" /\ r.leaf = l
    BY <1>3 DEF BeginApprove, Request
  <2>2. LockFree(r.leaf) /\ txn' = [txn EXCEPT ![w] = r]
        /\ UNCHANGED <<leave, seq, asg, made, net, env>>
    BY <1>3 DEF BeginApprove
  <2> HIDE DEF r
  <2> QED BY <2>1, <2>2, OnlyRequest
<1>4. CASE BeginReject(w, l)
  <2> DEFINE r == [op |-> "reject", leaf |-> l]
  <2>1. r \in Request /\ RequestOK(r) /\ r.op = "reject" /\ r.leaf = l
    BY <1>4 DEF BeginReject, Request
  <2>2. LockFree(r.leaf) /\ txn' = [txn EXCEPT ![w] = r]
        /\ UNCHANGED <<leave, seq, asg, made, net, env>>
    BY <1>4 DEF BeginReject
  <2> HIDE DEF r
  <2> QED BY <2>1, <2>2, OnlyRequest
<1>5. ASSUME NEW s \in Teachers, BeginAssign(w, l, s) PROVE IInv'
  <2> DEFINE r == [op |-> "assign", leaf |-> l, sub |-> s]
  <2>1. r \in Request /\ RequestOK(r) /\ r.op = "assign"
    BY <1>5 DEF BeginAssign, Request, Settled
  <2>2. txn' = [txn EXCEPT ![w] = r] /\ UNCHANGED <<leave, seq, asg, made, net, env>>
    BY <1>5 DEF BeginAssign
  <2> HIDE DEF r
  <2> QED BY <2>1, <2>2, OnlyRequest
<1>6. ASSUME NEW s \in Teachers, BeginOverride(w, l, s) PROVE IInv'
  <2> DEFINE r == [op |-> "override", leaf |-> l, sub |-> s, seen |-> asg[l]]
  <2>1. r \in Request /\ RequestOK(r) /\ r.op = "override"
    BY <1>1, <1>6 DEF BeginOverride, Request
  <2>2. txn' = [txn EXCEPT ![w] = r] /\ UNCHANGED <<leave, seq, asg, made, net, env>>
    BY <1>6 DEF BeginOverride
  <2> HIDE DEF r
  <2> QED BY <2>1, <2>2, OnlyRequest
<1>7. CASE BeginLock(w, l)
  <2> DEFINE r == [op |-> "lock", leaf |-> l, seen |-> asg[l], locked |-> ~asg[l].locked]
  <2>1. r \in Request /\ RequestOK(r) /\ r.op = "lock"
    BY <1>1, <1>7 DEF BeginLock, Request
  <2>2. txn' = [txn EXCEPT ![w] = r] /\ UNCHANGED <<leave, seq, asg, made, net, env>>
    BY <1>7 DEF BeginLock
  <2> HIDE DEF r
  <2> QED BY <2>1, <2>2, OnlyRequest
<1>8. CASE BeginUndo(w, l)
  <2> DEFINE r == [op |-> "undo", leaf |-> l, seen |-> asg[l]]
  <2>1. r \in Request /\ RequestOK(r) /\ r.op = "undo"
    BY <1>1, <1>8 DEF BeginUndo, Request
  <2>2. txn' = [txn EXCEPT ![w] = r] /\ UNCHANGED <<leave, seq, asg, made, net, env>>
    BY <1>8 DEF BeginUndo
  <2> HIDE DEF r
  <2> QED BY <2>1, <2>2, OnlyRequest
<1>9. CASE BeginCancel(w, l)
  <2> DEFINE r == [op |-> "cancel", leaf |-> l, seen |-> asg[l]]
  <2>1. Exists(l) BY <1>9 DEF BeginCancel, Open, Exists, NoLeave
  <2>2. r \in Request /\ RequestOK(r) /\ r.op = "cancel"
    BY <1>1, <1>9, <2>1 DEF Request, Covered
  <2>3. txn' = [txn EXCEPT ![w] = r] /\ UNCHANGED <<leave, seq, asg, made, net, env>>
    BY <1>9 DEF BeginCancel
  <2> HIDE DEF r
  <2> QED BY <2>2, <2>3, OnlyRequest
<1> QED BY <1>3, <1>4, <1>5, <1>6, <1>7, <1>8, <1>9
        DEF BeginCancelByTeacher, BeginCancelByAdmin

\* Clearing reads every covered leave of a teacher.
LEMMA BeginClearKeeps ==
    ASSUME IInv, NEW w \in Workers, NEW t \in Teachers, BeginClear(w, t)
    PROVE  IInv'
<1> DEFINE seen == [l \in Leaves |->
                      IF leave[l].status = "approved" /\ leave[l].teacher = t
                      THEN asg[l] ELSE NoAsg]
           r == [op |-> "clear", seen |-> seen]
<1>1. seen \in [Leaves -> Asg]
  BY DEF IInv, TypeOK, Asg
<1>2. \A l \in Leaves : seen[l] # NoAsg => Settled(l)
  BY DEF Settled
<1>3. txn' = [txn EXCEPT ![w] = r] /\ UNCHANGED <<leave, seq, asg, made, net, env>>
  BY DEF BeginClear, Ready
<1> HIDE DEF seen
<1>4. r \in Request /\ r.op = "clear"
  BY <1>1 DEF Request
<1>5. RequestOK(r)
  BY <1>2 DEF RequestOK, SubmitOK, DecisionOK, ChangeOK, CancelOK, ClearOK, QueueOK
<1> HIDE DEF r
<1> QED BY <1>3, <1>4, <1>5, OnlyRequest

\* The rest of a queue is a request again, or no request at all.
LEMMA RestOfQueue ==
    ASSUME IInv, NEW todo \in Seq(Leaves),
           \A i \in 1..Len(todo) : Settled(todo[i])
    PROVE  /\ Next1(todo) \in Request /\ RequestOK(Next1(todo))
           /\ Next1(todo).op \in {"idle", "queued"}
<1> USE DEF RequestOK, SubmitOK, DecisionOK, ChangeOK, CancelOK, ClearOK, QueueOK
<1>1. CASE todo = <<>> BY <1>1 DEF Next1, Idle, Request
<1>2. CASE todo # <<>> BY <1>2 DEF Next1, Request
<1> QED BY <1>1, <1>2

\* What a queue holds: settled leaves, first and last alike.
LEMMA OpenQueue ==
    ASSUME IInv, NEW w \in Workers, txn[w].op = "queued"
    PROVE  /\ txn[w].todo \in Seq(Leaves)
           /\ Head(txn[w].todo) \in Leaves /\ Settled(Head(txn[w].todo))
           /\ Tail(txn[w].todo) \in Seq(Leaves)
           /\ \A i \in 1..Len(Tail(txn[w].todo)) : Settled(Tail(txn[w].todo)[i])
<1>1. txn[w] \in Request /\ QueueOK(txn[w]) BY DEF IInv, TypeOK, RequestOK
<1> DEFINE todo == txn[w].todo
<1>2. todo \in Seq(Leaves) /\ todo # <<>>
  BY <1>1, RequestKinds
<1>3. \A i \in 1..Len(todo) : Settled(todo[i])
  BY <1>1 DEF QueueOK
<1> HIDE DEF todo
<1>4. Head(todo) \in Leaves /\ Tail(todo) \in Seq(Leaves) /\ Head(todo) = todo[1]
      /\ Len(todo) \in Nat \ {0} /\ Len(Tail(todo)) = Len(todo) - 1
      /\ \A i \in 1..Len(Tail(todo)) : Tail(todo)[i] = todo[i + 1]
  BY <1>2
<1> QED BY <1>2, <1>3, <1>4 DEF todo

\* The engine's pass over a batch: one leaf is taken up, or skipped.
LEMMA QueueKeeps ==
    ASSUME IInv, NEW w \in Workers,
           (\E s \in Teachers : BeginAuto(w, s)) \/ SkipAuto(w) \/ Abort(w)
    PROVE  IInv'
<1>1. ASSUME NEW s \in Teachers, BeginAuto(w, s) PROVE IInv'
  <2> DEFINE r == [op |-> "auto", leaf |-> Head(txn[w].todo), sub |-> s,
                   todo |-> Tail(txn[w].todo)]
  <2>1. r \in Request
    BY <1>1, OpenQueue DEF BeginAuto, Request
  <2>2. RequestOK(r)
    BY <1>1, OpenQueue DEF BeginAuto, RequestOK, SubmitOK, DecisionOK, ChangeOK,
                          CancelOK, ClearOK, QueueOK
  <2>3. r.op = "auto" /\ txn' = [txn EXCEPT ![w] = r]
        /\ UNCHANGED <<leave, seq, asg, made, net, env>>
    BY <1>1 DEF BeginAuto
  <2> HIDE DEF r
  <2> QED BY <2>1, <2>2, <2>3, OnlyRequest
<1>2. CASE SkipAuto(w)
  <2> DEFINE r == Next1(Tail(txn[w].todo))
  <2>1. r \in Request /\ RequestOK(r) /\ r.op \in {"idle", "queued"}
    BY <1>2, OpenQueue, RestOfQueue DEF SkipAuto
  <2>2. txn' = [txn EXCEPT ![w] = r] /\ UNCHANGED <<leave, seq, asg, made, net, env>>
    BY <1>2 DEF SkipAuto
  <2> HIDE DEF r
  <2> QED BY <2>1, <2>2, OnlyRequest
<1>3. CASE Abort(w)
  <2>1. Idle \in Request /\ RequestOK(Idle) /\ Idle.op = "idle"
    BY DEF Idle, Request, RequestOK, SubmitOK, DecisionOK, ChangeOK, CancelOK,
           ClearOK, QueueOK
  <2>2. txn' = [txn EXCEPT ![w] = Idle] /\ UNCHANGED <<leave, seq, asg, made, net, env>>
    BY <1>3 DEF Abort, Finish
  <2> QED BY <2>1, <2>2, OnlyRequest
<1> QED BY <1>1, <1>2, <1>3
-----------------------------------------------------------------------------
(* Requests that commit.                                                   *)

\* A transfer of one credit keeps the ledger's type.
LEMMA CreditType ==
    ASSUME NEW n \in [Teachers -> Int], NEW plus \in Teachers, NEW minus \in Teachers
    PROVE  Credit(n, plus, minus) \in [Teachers -> Int]
BY DEF Credit

\* A settled leave is a row of the table, so it has a teacher.
LEMMA SettledTeacher ==
    ASSUME IInv, NEW l \in Leaves, Settled(l)
    PROVE  leave[l] \in Row /\ leave[l].teacher \in Teachers
BY DEF IInv, TypeOK, Settled, NoLeave, Row

\* What create_assignment writes is well typed and stays within its leave.
LEMMA CreateKeeps ==
    ASSUME IInv, NEW w \in Workers, NEW l \in Leaves, NEW s \in Teachers,
           NEW after \in Request, RequestOK(after), after.op \in {"idle", "queued"},
           Settled(l), CreateAssignment(w, l, s, after), UNCHANGED <<leave, seq, env>>
    PROVE  IInv'
<1>1. CASE Covered(l)
  <2>1. Idle \in Request /\ RequestOK(Idle) /\ Idle.op = "idle"
    BY DEF Idle, Request, RequestOK, SubmitOK, DecisionOK, ChangeOK, CancelOK,
           ClearOK, QueueOK
  <2>2. txn' = [txn EXCEPT ![w] = Idle] /\ UNCHANGED <<leave, seq, asg, made, net, env>>
    BY <1>1 DEF CreateAssignment, Finish, env
  <2> QED BY <2>1, <2>2, OnlyRequest
<1>2. CASE ~Covered(l)
  <2>1. /\ made' = [made EXCEPT ![l] = @ + 1]
        /\ asg' = [asg EXCEPT ![l] = [id |-> made[l] + 1, sub |-> s, locked |-> FALSE]]
        /\ net' = [net EXCEPT ![l] = Credit(net[l], s, leave[l].teacher)]
        /\ txn' = [txn EXCEPT ![w] = after]
    BY <1>2 DEF CreateAssignment
  <2>2. made[l] \in Nat /\ made' \in [Leaves -> Nat]
    BY <2>1 DEF IInv, TypeOK
  <2>3. [id |-> made[l] + 1, sub |-> s, locked |-> FALSE] \in Asg
    BY <2>2 DEF Asg, Assignment
  <2>4. asg' \in [Leaves -> Asg]
    BY <2>1, <2>3 DEF IInv, TypeOK
  <2>5. Credit(net[l], s, leave[l].teacher) \in [Teachers -> Int]
    BY CreditType, SettledTeacher DEF IInv, TypeOK
  <2>6. net' \in [Leaves -> [Teachers -> Int]]
    BY <2>1, <2>5 DEF IInv, TypeOK
  <2>7. \A m \in Leaves : Settled(m) \/ (asg'[m] = asg[m] /\ net'[m] = net[m])
    BY <2>1 DEF IInv, TypeOK
  <2> QED BY <2>1, <2>2, <2>4, <2>6, <2>7, OnlyCoverage
<1> QED BY <1>1, <1>2

\* Reversing an assignment that was read from a settled leave, or none, is
\* well typed, and touches no other leave.
LEMMA ReversalType ==
    ASSUME IInv, NEW l \in Leaves, NEW seen \in Asg, seen # NoAsg => Settled(l)
    PROVE  /\ Remaining(l, seen) \in Asg
           /\ Reversed(net, l, seen) \in [Teachers -> Int]
           /\ Settled(l) \/ (Remaining(l, seen) = asg[l] /\ Reversed(net, l, seen) = net[l])
<1>1. asg[l] \in Asg /\ net[l] \in [Teachers -> Int] BY DEF IInv, TypeOK
<1>2. Remaining(l, seen) \in Asg BY <1>1 DEF Remaining, Asg
<1>3. CASE seen = NoAsg
  <2>1. asg[l].id = 0 => asg[l] = NoAsg BY <1>1 DEF Asg, Assignment
  <2>2. Remaining(l, seen) = asg[l] BY <1>3, <2>1 DEF Remaining, NoAsg
  <2> QED BY <1>1, <1>2, <1>3, <2>2 DEF Reversed
<1>4. CASE seen # NoAsg
  <2>1. seen.sub \in Teachers BY <1>4 DEF Asg, Assignment
  <2> QED BY <1>1, <1>2, <1>4, <2>1, CreditType, SettledTeacher DEF Reversed
<1> QED BY <1>3, <1>4

\* The commits of assign_substitute, the engine, override, lock, undo and clear.
LEMMA CommitCoverageKeeps ==
    ASSUME IInv, NEW w \in Workers,
           \/ CommitAssign(w) \/ CommitAuto(w) \/ CommitOverride(w)
           \/ CommitLock(w) \/ CommitUndo(w) \/ CommitClear(w)
    PROVE  IInv'
<1>1. txn[w] \in Request /\ RequestOK(txn[w]) BY DEF IInv, TypeOK
<1>2. Idle \in Request /\ RequestOK(Idle) /\ Idle.op = "idle"
  BY DEF Idle, Request, RequestOK, SubmitOK, DecisionOK, ChangeOK, CancelOK,
         ClearOK, QueueOK
<1> DEFINE l == txn[w].leaf
<1>3. CASE CommitAssign(w)
  <2>1. l \in Leaves /\ txn[w].sub \in Teachers /\ Settled(l)
    BY <1>1, <1>3, RequestKinds DEF CommitAssign, RequestOK, ChangeOK
  <2> QED BY <1>2, <1>3, <2>1, CreateKeeps DEF CommitAssign
<1>4. CASE CommitAuto(w)
  <2>1. l \in Leaves /\ txn[w].sub \in Teachers /\ Settled(l) /\ txn[w].todo \in Seq(Leaves)
    BY <1>1, <1>4, RequestKinds DEF CommitAuto, RequestOK, ChangeOK
  <2>2. \A i \in 1..Len(txn[w].todo) : Settled(txn[w].todo[i])
    BY <1>1, <1>4 DEF CommitAuto, RequestOK, QueueOK
  <2> QED BY <1>4, <2>1, <2>2, RestOfQueue, CreateKeeps DEF CommitAuto
<1>5. CASE CommitOverride(w)
  <2>1. l \in Leaves /\ txn[w].sub \in Teachers /\ Settled(l) /\ txn[w].seen \in Assignment
    BY <1>1, <1>5, RequestKinds DEF CommitOverride, RequestOK, ChangeOK
  <2>2. UNCHANGED <<leave, seq, made, env>> /\ txn' = [txn EXCEPT ![w] = Idle]
    BY <1>5 DEF CommitOverride, Finish
  <2>3. CASE asg[l].id = txn[w].seen.id
    <3>1. /\ asg' = [asg EXCEPT ![l].sub = txn[w].sub]
          /\ net' = [net EXCEPT ![l] = Credit(net[l], txn[w].sub, txn[w].seen.sub)]
      BY <1>5, <2>3 DEF CommitOverride
    <3>2. asg[l] \in Assignment
      BY <2>1, <2>3 DEF IInv, TypeOK, Asg, Assignment, NoAsg
    <3>3. [asg[l] EXCEPT !.sub = txn[w].sub] \in Asg
      BY <2>1, <3>2 DEF Asg, Assignment
    <3>4. asg' \in [Leaves -> Asg]
      BY <3>1, <3>3 DEF IInv, TypeOK
    <3>5. Credit(net[l], txn[w].sub, txn[w].seen.sub) \in [Teachers -> Int]
      BY <2>1, CreditType DEF IInv, TypeOK, Assignment
    <3>6. net' \in [Leaves -> [Teachers -> Int]]
      BY <3>1, <3>5 DEF IInv, TypeOK
    <3>7. \A m \in Leaves : Settled(m) \/ (asg'[m] = asg[m] /\ net'[m] = net[m])
      BY <2>1, <3>1 DEF IInv, TypeOK
    <3>8. made' \in [Leaves -> Nat] BY <2>2 DEF IInv, TypeOK
    <3> QED BY <1>2, <2>2, <3>4, <3>6, <3>7, <3>8, OnlyCoverage
  <2>4. CASE asg[l].id # txn[w].seen.id
    <3>1. UNCHANGED <<leave, seq, asg, made, net, env>>
      BY <1>5, <2>2, <2>4 DEF CommitOverride
    <3> QED BY <1>2, <2>2, <3>1, OnlyRequest
  <2> QED BY <2>3, <2>4
<1>6. CASE CommitLock(w)
  <2>1. l \in Leaves /\ Settled(l) /\ txn[w].seen \in Assignment /\ txn[w].locked \in BOOLEAN
    BY <1>1, <1>6, RequestKinds DEF CommitLock, RequestOK, ChangeOK
  <2>2. /\ UNCHANGED <<leave, seq, made, net, env>> /\ txn' = [txn EXCEPT ![w] = Idle]
        /\ asg' = IF asg[l].id = txn[w].seen.id
                  THEN [asg EXCEPT ![l].locked = txn[w].locked] ELSE asg
    BY <1>6 DEF CommitLock, Finish
  <2>3. asg' \in [Leaves -> Asg]
    <3>1. CASE asg[l].id = txn[w].seen.id
      <4>1. asg[l] \in Assignment
        BY <2>1, <3>1 DEF IInv, TypeOK, Asg, Assignment, NoAsg
      <4>2. [asg[l] EXCEPT !.locked = txn[w].locked] \in Asg
        BY <2>1, <4>1 DEF Asg, Assignment
      <4> QED BY <2>2, <3>1, <4>2 DEF IInv, TypeOK
    <3>2. CASE asg[l].id # txn[w].seen.id
      BY <2>2, <3>2 DEF IInv, TypeOK
    <3> QED BY <3>1, <3>2
  <2>4. \A m \in Leaves : Settled(m) \/ (asg'[m] = asg[m] /\ net'[m] = net[m])
    BY <2>1, <2>2 DEF IInv, TypeOK
  <2>5. made' \in [Leaves -> Nat] /\ net' \in [Leaves -> [Teachers -> Int]]
    BY <2>2 DEF IInv, TypeOK
  <2> QED BY <1>2, <2>2, <2>3, <2>4, <2>5, OnlyCoverage
<1>7. CASE CommitUndo(w)
  <2>1. l \in Leaves /\ Settled(l) /\ txn[w].seen \in Asg
    BY <1>1, <1>7, RequestKinds DEF CommitUndo, RequestOK, ChangeOK, Asg
  <2>2. /\ asg' = [asg EXCEPT ![l] = Remaining(l, txn[w].seen)]
        /\ net' = [net EXCEPT ![l] = Reversed(net, l, txn[w].seen)]
        /\ UNCHANGED <<leave, seq, made, env>> /\ txn' = [txn EXCEPT ![w] = Idle]
    BY <1>7 DEF CommitUndo, Finish
  <2>3. /\ Remaining(l, txn[w].seen) \in Asg
        /\ Reversed(net, l, txn[w].seen) \in [Teachers -> Int]
    BY <2>1, ReversalType
  <2>4. asg' \in [Leaves -> Asg] /\ net' \in [Leaves -> [Teachers -> Int]]
        /\ made' \in [Leaves -> Nat]
    BY <2>2, <2>3 DEF IInv, TypeOK
  <2>5. \A m \in Leaves : Settled(m) \/ (asg'[m] = asg[m] /\ net'[m] = net[m])
    BY <2>1, <2>2 DEF IInv, TypeOK
  <2> QED BY <1>2, <2>2, <2>4, <2>5, OnlyCoverage
<1>8. CASE CommitClear(w)
  <2> DEFINE seen == txn[w].seen
  <2>1. /\ seen \in [Leaves -> Asg]
        /\ \A m \in Leaves : seen[m] # NoAsg => Settled(m)
    BY <1>1, <1>8, RequestKinds DEF CommitClear, RequestOK, ClearOK
  <2>2. /\ asg' = [m \in Leaves |-> Remaining(m, seen[m])]
        /\ net' = [m \in Leaves |-> Reversed(net, m, seen[m])]
        /\ UNCHANGED <<leave, seq, made, env>> /\ txn' = [txn EXCEPT ![w] = Idle]
    BY <1>8 DEF CommitClear, Finish
  <2> HIDE DEF seen
  <2>3. \A m \in Leaves :
           /\ Remaining(m, seen[m]) \in Asg
           /\ Reversed(net, m, seen[m]) \in [Teachers -> Int]
           /\ Settled(m) \/ (Remaining(m, seen[m]) = asg[m]
                               /\ Reversed(net, m, seen[m]) = net[m])
    BY <2>1, ReversalType
  <2>4. asg' \in [Leaves -> Asg] /\ net' \in [Leaves -> [Teachers -> Int]]
        /\ made' \in [Leaves -> Nat]
    BY <2>2, <2>3 DEF IInv, TypeOK
  <2>5. \A m \in Leaves : Settled(m) \/ (asg'[m] = asg[m] /\ net'[m] = net[m])
    BY <2>2, <2>3
  <2> QED BY <1>2, <2>2, <2>4, <2>5, OnlyCoverage
<1> QED BY <1>3, <1>4, <1>5, <1>6, <1>7, <1>8

\* A decision commits on a leave it holds the row lock of, so the leave is
\* pending; a cancellation has waited for the lock to be free.
LEMMA CommitStatusKeeps ==
    ASSUME IInv, NEW w \in Workers,
           CommitApprove(w) \/ CommitReject(w) \/ CommitCancel(w)
    PROVE  IInv'
<1>1. txn[w] \in Request /\ RequestOK(txn[w]) BY DEF IInv, TypeOK
<1> DEFINE k == txn[w].leaf
<1>2. asg \in [Leaves -> Asg] /\ net \in [Leaves -> [Teachers -> Int]]
  BY DEF IInv, TypeOK
<1>3. CASE CommitApprove(w) \/ CommitReject(w)
  <2>1. txn[w].op \in {"approve", "reject"} /\ k \in Leaves /\ leave[k].status = "pending"
    BY <1>1, <1>3, RequestKinds DEF CommitApprove, CommitReject, RequestOK, DecisionOK
  <2>2. leave[k] \in Row /\ ~Settled(k)
    BY <2>1 DEF IInv, TypeOK, NoLeave, Settled
  <2>3. \A v \in Workers : v # w => ~Holds(v, k)
    BY <2>1 DEF IInv, Apart, Holds
  <2>4. UNCHANGED <<seq, asg, made, net, env>>
    BY <1>3 DEF CommitApprove, CommitReject
  <2>5. CASE CommitApprove(w)
    <3> DEFINE r == [op |-> "queued", todo |-> <<k>>]
    <3>1. Next1(<<k>>) = r BY DEF Next1
    <3>2. r \in Request BY <2>1 DEF Request
    <3>3. txn' = [txn EXCEPT ![w] = r] /\ leave' = [leave EXCEPT ![k].status = "approved"]
      BY <2>5, <3>1 DEF CommitApprove
    <3> HIDE DEF k
    <3> QED BY <1>2, <2>1, <2>2, <2>3, <2>4, <3>2, <3>3, StatusChange
  <2>6. CASE CommitReject(w)
    <3>1. Idle \in Request /\ Idle.op = "idle" BY DEF Request, Idle
    <3>2. txn' = [txn EXCEPT ![w] = Idle] /\ leave' = [leave EXCEPT ![k].status = "rejected"]
      BY <2>6 DEF CommitReject, Finish
    <3> HIDE DEF k
    <3> QED BY <1>2, <2>1, <2>2, <2>3, <2>4, <3>1, <3>2, StatusChange
  <2> QED BY <1>3, <2>5, <2>6
<1>4. CASE CommitCancel(w)
  <2> DEFINE seen == txn[w].seen
  <2>1. k \in Leaves /\ seen \in Asg /\ Exists(k) /\ (seen # NoAsg => Settled(k))
    BY <1>1, <1>4, RequestKinds DEF CommitCancel, RequestOK, CancelOK
  <2>2. leave[k] \in Row
    BY <2>1 DEF IInv, TypeOK, Exists
  <2>3. \A v \in Workers : ~Holds(v, k)
    BY <1>4 DEF CommitCancel, LockFree
  <2>4. /\ leave' = [leave EXCEPT ![k].status = "cancelled"]
        /\ asg' = [asg EXCEPT ![k] = Remaining(k, seen)]
        /\ net' = [net EXCEPT ![k] = Reversed(net, k, seen)]
        /\ txn' = [txn EXCEPT ![w] = Idle] /\ UNCHANGED <<seq, made, env>>
    BY <1>4 DEF CommitCancel, Finish
  <2> HIDE DEF k, seen
  <2>5. /\ Remaining(k, seen) \in Asg /\ Reversed(net, k, seen) \in [Teachers -> Int]
        /\ Settled(k) \/ (Remaining(k, seen) = asg[k] /\ Reversed(net, k, seen) = net[k])
    BY <2>1, ReversalType
  <2>6. asg' \in [Leaves -> Asg] /\ net' \in [Leaves -> [Teachers -> Int]]
    BY <1>2, <2>4, <2>5
  <2>7. \A l \in Leaves : Settled(l) \/ (asg'[l] = asg[l] /\ net'[l] = net[l])
    BY <1>2, <2>1, <2>4, <2>5
  <2>8. Idle \in Request /\ Idle.op = "idle" BY DEF Request, Idle
  <2> QED BY <2>1, <2>2, <2>3, <2>4, <2>6, <2>7, <2>8, StatusChange
<1> QED BY <1>3, <1>4

\* The invariant reads the tables and the open requests, and nothing else
\* but their types.
LEMMA SameTables ==
    ASSUME IInv, TypeOK', UNCHANGED <<leave, seq, asg, made, net, txn>>
    PROVE  IInv'
<1>1. ASSUME NEW w \in Workers PROVE RequestOK(txn[w])'
  <2>1. RequestOK(txn[w]) BY DEF IInv
  <2> QED BY <2>1 DEF RequestOK, SubmitOK, DecisionOK, ChangeOK, CancelOK, ClearOK,
                      QueueOK, Settled, Exists, Keys
<1>2. ASSUME NEW v \in Workers, NEW w \in Workers, v # w
      PROVE  Apart(txn[v], txn[w])'
  BY <1>2 DEF IInv, Apart, Keys
<1>3. \A l \in Leaves : (l > seq => leave[l] = NoLeave)' /\ (Settled(l)' \/ Untouched(l)')
  BY DEF IInv, Settled, Untouched
<1> QED BY <1>1, <1>2, <1>3 DEF IInv

\* Nothing a request relies on is part of the environment.
LEMMA EnvironmentKeeps ==
    ASSUME IInv, Environment PROVE IInv'
<1>1. UNCHANGED <<leave, seq, asg, made, net, txn>>
  BY DEF Environment, MarkDay, SetMode, Tick
<1>2. /\ calendar' \in [Days -> 0..MaxOrder] /\ mode' \in {"autonomous", "manual"}
      /\ today' \in 0..LastDay /\ phase' \in {"morning", "day", "evening"}
  <2>1. CASE \E d \in Days, order \in 0..MaxOrder : MarkDay(d, order)
    BY <2>1 DEF MarkDay, IInv, TypeOK
  <2>2. CASE \E m \in {"autonomous", "manual"} : SetMode(m)
    BY <2>2 DEF SetMode, IInv, TypeOK
  <2>3. CASE Tick
    BY <2>3, BoundsAssumption DEF Tick, IInv, TypeOK
  <2> QED BY <2>1, <2>2, <2>3 DEF Environment
<1>3. TypeOK' BY <1>1, <1>2 DEF IInv, TypeOK
<1> QED BY <1>1, <1>3, SameTables

\* The empty tables satisfy the invariant.
LEMMA InitHolds == Init => IInv
<1> SUFFICES ASSUME Init PROVE IInv OBVIOUS
<1>1. TypeOK
  <2>1. Idle \in Request BY DEF Idle, Request
  <2> QED BY <2>1, BoundsAssumption DEF Init, TypeOK, Asg
<1>2. \A w \in Workers : txn[w] = Idle BY DEF Init
<1>3. \A w \in Workers : RequestOK(txn[w])
  BY <1>2 DEF Idle, RequestOK, SubmitOK, DecisionOK, ChangeOK, CancelOK, ClearOK, QueueOK
<1>4. \A v, w \in Workers : Apart(txn[v], txn[w])
  BY <1>2 DEF Idle, Apart
<1>5. \A l \in Leaves : leave[l] = NoLeave /\ Untouched(l)
  BY DEF Init, Untouched
<1> QED BY <1>1, <1>3, <1>4, <1>5 DEF IInv

\* One step of the program keeps the invariant.
LEMMA StepKeeps == IInv /\ [Next]_vars => IInv'
<1> SUFFICES ASSUME IInv, [Next]_vars PROVE IInv' OBVIOUS
<1>1. ASSUME NEW w \in Workers, Begin(w) PROVE IInv'
  <2>1. ASSUME NEW t \in Teachers, NEW d \in Days, NEW ps \in Batches,
               BeginSubmit(w, t, d, ps) \/ BeginSubmitByAdmin(w, t, d, ps)
        PROVE  IInv'
    BY <2>1, SubmitKeeps DEF BeginSubmit, BeginSubmitByAdmin
  <2> QED BY <1>1, <2>1, BeginLeafKeeps, BeginClearKeeps DEF Begin
<1>2. ASSUME NEW w \in Workers, Proceed(w) PROVE IInv'
  BY <1>2, CommitSubmitKeeps, CommitStatusKeeps, QueueKeeps, CommitCoverageKeeps
  DEF Proceed
<1>3. ASSUME NEW w \in Workers, Abort(w) PROVE IInv'
  BY <1>3, QueueKeeps
<1>4. CASE Environment
  BY <1>4, EnvironmentKeeps
<1>5. CASE UNCHANGED vars
  <2>1. TypeOK' BY <1>5 DEF vars, IInv, TypeOK
  <2> QED BY <1>5, <2>1, SameTables DEF vars
<1> QED BY <1>1, <1>2, <1>3, <1>4, <1>5 DEF Next

\* Every reachable state, with any number of workers, satisfies the invariant.
THEOREM Invariance == Spec => []IInv
BY InitHolds, StepKeeps, PTL DEF Spec

\* Every table keeps its columns' domains (services/leave_service.py writes
\* only well-formed rows), whatever the interleaving.
THEOREM TypeCorrect == Spec => []TypeOK
<1>1. IInv => TypeOK BY DEF IInv
<1> QED BY <1>1, Invariance, PTL

\* No rejected leave is covered or has moved a credit: approve_leave and
\* reject_leave exclude each other by the row lock, for any number of workers.
THEOREM RejectedNeverCovered == Spec => []RejectedUncovered
<1>1. IInv => RejectedUncovered
  BY DEF IInv, RejectedUncovered, Settled, Untouched, Covered
<1> QED BY <1>1, Invariance, PTL

\* Only pending leaves are approved or rejected, for any number of overlapping
\* requests: the lock approve_leave and reject_leave hold keeps what they read.
THEOREM OnlyPendingIsDecided == Spec => DecidesPendingOnly
<1> DEFINE Steps == {<<"none", "pending">>, <<"none", "approved">>,
                     <<"pending", "approved">>, <<"pending", "rejected">>}
           Decided(l) == leave'[l].status \notin {leave[l].status, "cancelled"}
           Allowed == \A l \in Leaves : Decided(l) =>
                         <<leave[l].status, leave'[l].status>> \in Steps
<1>1. ASSUME IInv, NEW w \in Workers, CommitSubmit(w) PROVE Allowed
  <2> SUFFICES ASSUME NEW l \in Leaves, leave'[l].status # leave[l].status
               PROVE  <<leave[l].status, leave'[l].status>> \in Steps
    OBVIOUS
  <2> DEFINE r == txn[w]
  <2>1. /\ r.first \in Nat /\ Len(r.rows) \in Nat \ {0}
        /\ \A m \in Keys(r) : leave[m] = NoLeave
        /\ r.rows[1].status \in {"pending", "approved"}
        /\ \A i \in 1..Len(r.rows) : r.rows[i].status = r.rows[1].status
    BY <1>1, OpenSubmission DEF CommitSubmit
  <2>2. l \in Keys(r) /\ leave'[l] = r.rows[l - r.first]
    BY <1>1 DEF CommitSubmit, Keys
  <2> HIDE DEF r
  <2>3. l - r.first \in 1..Len(r.rows)
    BY <2>1, <2>2 DEF Keys
  <2>4. leave'[l].status \in {"pending", "approved"}
    BY <2>1, <2>2, <2>3
  <2>5. leave[l].status = "none"
    BY <2>1, <2>2 DEF NoLeave
  <2> QED BY <2>4, <2>5
<1>2. ASSUME IInv, NEW w \in Workers, CommitApprove(w) \/ CommitReject(w) PROVE Allowed
  <2> DEFINE k == txn[w].leaf
  <2>1. k \in Leaves /\ leave[k].status = "pending"
    BY <1>2, RequestKinds
    DEF CommitApprove, CommitReject, IInv, TypeOK, RequestOK, DecisionOK
  <2>2. leave[k] \in Row BY <1>2, <2>1 DEF IInv, TypeOK, NoLeave
  <2>3. \/ leave' = [leave EXCEPT ![k].status = "approved"]
        \/ leave' = [leave EXCEPT ![k].status = "rejected"]
    BY <1>2 DEF CommitApprove, CommitReject
  <2> HIDE DEF k
  <2>4. /\ leave'[k].status \in {"approved", "rejected"}
        /\ \A l \in Leaves : l # k => leave'[l] = leave[l]
    BY <1>2, <2>1, <2>2, <2>3 DEF IInv, TypeOK, Row
  <2> QED BY <2>1, <2>4
<1>3. ASSUME IInv, NEW w \in Workers, CommitCancel(w) PROVE Allowed
  <2> DEFINE k == txn[w].leaf
  <2>1. k \in Leaves /\ leave[k] \in Row
    BY <1>3, RequestKinds DEF CommitCancel, IInv, TypeOK, RequestOK, CancelOK, Exists
  <2>2. leave' = [leave EXCEPT ![k].status = "cancelled"]
    BY <1>3 DEF CommitCancel
  <2> HIDE DEF k
  <2>3. /\ leave'[k].status = "cancelled"
        /\ \A l \in Leaves : l # k => leave'[l] = leave[l]
    BY <1>3, <2>1, <2>2 DEF IInv, TypeOK, Row
  <2> QED BY <2>1, <2>3
<1>4. ASSUME NEW w \in Workers, Begin(w) PROVE leave' = leave
  BY <1>4 DEF Begin, BeginSubmit, BeginSubmitByAdmin, Submit, BeginApprove, BeginReject,
              BeginLock, BeginUndo, BeginCancelByTeacher, BeginCancelByAdmin,
              BeginCancel, BeginAssign, BeginOverride, BeginClear
<1>5. ASSUME NEW w \in Workers, Proceed(w) PROVE \/ leave' = leave
                                                 \/ CommitSubmit(w)
                                                 \/ CommitApprove(w) \/ CommitReject(w)
                                                 \/ CommitCancel(w)
  BY <1>5 DEF Proceed, CommitAssign, CommitAuto, CommitOverride, CommitLock,
              CommitUndo, CommitClear, BeginAuto, SkipAuto
<1>6. (Environment \/ \E w \in Workers : Abort(w)) => leave' = leave
  BY DEF Environment, MarkDay, SetMode, Tick, Abort
<1>7. IInv /\ [Next]_vars => Allowed
  BY <1>1, <1>2, <1>3, <1>4, <1>5, <1>6 DEF Next, vars
<1> HIDE DEF Allowed
<1>8. IInv /\ [Next]_vars => [Allowed]_vars BY <1>7
<1> QED BY <1>8, Invariance, PTL DEF Spec, DecidesPendingOnly, Allowed, Decided, Steps
=============================================================================
