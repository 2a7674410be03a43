--------------------------- MODULE DeliveryProofs ---------------------------
(***************************************************************************)
(* Proofs about Delivery for every number of posts, channels, owners and   *)
(* tasks.                                                                  *)
(***************************************************************************)
EXTENDS Delivery, Functions, FiniteSetTheorems, TLAPS

-----------------------------------------------------------------------------
(* The ledger as a sequence.                                               *)

\* Overwriting a row keeps the ledger's type, length and other rows.
LEMMA RowUpdate ==
  ASSUME NEW s \in Seq(Row), NEW a \in 1..Len(s), NEW r \in Row
  PROVE  LET u == [s EXCEPT ![a] = r]
         IN /\ u \in Seq(Row)
            /\ Len(u) = Len(s) /\ DOMAIN u = DOMAIN s
            /\ u[a] = r
            /\ \A b \in 1..Len(s) : b # a => u[b] = s[b]
  OBVIOUS

\* A claim adds one row at the end.
LEMMA RowAppend ==
  ASSUME NEW s \in Seq(Row), NEW r \in Row
  PROVE  LET u == Append(s, r)
         IN /\ u \in Seq(Row)
            /\ Len(u) = Len(s) + 1 /\ DOMAIN u = 1..(Len(s) + 1)
            /\ u[Len(s) + 1] = r
            /\ \A b \in 1..Len(s) : u[b] = s[b]
  OBVIOUS


Working == {"preparing", "calling", "recording", "failing", "finishing"}

\* What a coroutine holds in memory is what its claim gave it.
Holds(k, rows) ==
  /\ k.pc # "idle" => k.post \in Posts
  /\ k.pc \in Working => /\ k.att \in 1..Len(rows)
                         /\ rows[k.att].post = k.post
                         /\ k.was \in Claimable
  /\ k.pc \in {"preparing", "calling"} => k.got < Parts[k.post]
  /\ k.pc = "recording" => k.got <= Parts[k.post]
  /\ k.pc = "failing" => k.verdict # "none"

TypeInv == TypeOK /\ \A t \in Tasks : Holds(tasks[t], attempts)

LEMMA IdleHolds == Idle \in Task /\ Holds(Idle, attempts)
  BY DeliveryAssumption DEF Idle, Task, PCs, Verdicts, Holds, Working

\* Changing the place of a coroutine changes nothing else of it.
LEMMA AtPc ==
  ASSUME NEW k \in Task, NEW pc \in PCs
  PROVE  LET j == [k EXCEPT !.pc = pc]
         IN /\ j \in Task
            /\ j.pc = pc /\ j.post = k.post /\ j.att = k.att /\ j.got = k.got
            /\ j.was = k.was /\ j.tries = k.tries /\ j.verdict = k.verdict
  BY DEF Task

LEMMA InitType == Init => TypeInv
<1> SUFFICES ASSUME Init PROVE TypeInv
  OBVIOUS
<1> USE DEF Init
<1>1. Idle \in Task
  BY IdleHolds
<1>2. Holds(Idle, attempts)
  BY IdleHolds
<1>3. tasks \in [Tasks -> Task] /\ \A t \in Tasks : Holds(tasks[t], attempts)
  BY <1>1, <1>2
<1>4. status \in [Posts -> Statuses] /\ attempts \in Seq(Row) /\ Len(attempts) <= MaxRows
  BY DeliveryAssumption DEF Statuses, Claimable
<1> QED
  BY <1>3, <1>4, DeliveryAssumption DEF TypeInv, TypeOK, Days

\* The rows keep their posts when the ledger grows or changes.
Extends(new, old) ==
  /\ new \in Seq(Row) /\ Len(new) >= Len(old)
  /\ \A a \in 1..Len(old) : new[a].post = old[a].post /\ new[a].day = old[a].day

\* A step of one coroutine leaves what the others hold.
LEMMA TaskMoves ==
  ASSUME TypeInv, NEW t \in Tasks, NEW k \in Task,
         tasks' = [tasks EXCEPT ![t] = k],
         Extends(attempts', attempts), Holds(k, attempts')
  PROVE  tasks' \in [Tasks -> Task] /\ \A u \in Tasks : Holds(tasks'[u], attempts')
<1>1. tasks' \in [Tasks -> Task]
  BY DEF TypeInv, TypeOK
<1>2. ASSUME NEW u \in Tasks PROVE Holds(tasks'[u], attempts')
  <2>1. CASE u = t
    BY <2>1 DEF TypeInv, TypeOK
  <2>2. CASE u # t
    <3>1. tasks'[u] = tasks[u] /\ Holds(tasks[u], attempts)
      BY <2>2 DEF TypeInv, TypeOK
    <3>2. tasks[u].pc \in Working => tasks[u].att \in 1..Len(attempts') /\ attempts'[tasks[u].att].post = tasks[u].post
      BY <3>1 DEF Holds, Extends, TypeInv, TypeOK
    <3> QED
      BY <3>1, <3>2 DEF Holds
  <2> QED
    BY <2>1, <2>2
<1> QED
  BY <1>1, <1>2

\* A step that leaves the coroutines alone.
LEMMA TasksStay ==
  ASSUME TypeInv, UNCHANGED tasks, Extends(attempts', attempts)
  PROVE  tasks' \in [Tasks -> Task] /\ \A u \in Tasks : Holds(tasks'[u], attempts')
<1>1. ASSUME NEW u \in Tasks PROVE Holds(tasks[u], attempts')
  <2>1. Holds(tasks[u], attempts)
    BY DEF TypeInv
  <2>2. tasks[u].pc \in Working =>
          tasks[u].att \in 1..Len(attempts') /\ attempts'[tasks[u].att].post = tasks[u].post
    BY <2>1 DEF Holds, Extends, TypeInv, TypeOK
  <2> QED
    BY <2>1, <2>2 DEF Holds
<1> QED
  BY <1>1 DEF TypeInv, TypeOK

\* A coroutine ends.
LEMMA TaskEnds ==
  ASSUME TypeInv, NEW t \in Tasks, Done(t), Extends(attempts', attempts)
  PROVE  tasks' \in [Tasks -> Task] /\ \A u \in Tasks : Holds(tasks'[u], attempts')
<1>1. Idle \in Task /\ Holds(Idle, attempts')
  BY DeliveryAssumption DEF Idle, Task, PCs, Verdicts, Holds, Working
<1> QED
  BY <1>1, TaskMoves DEF Done

\* A coroutine goes on to its next place.
LEMMA TaskGoes ==
  ASSUME TypeInv, NEW t \in Tasks, NEW pc \in PCs \ {"failing", "recording"}, Goto(t, pc),
         Extends(attempts', attempts), tasks[t].pc # "idle",
         pc \in Working => tasks[t].pc \in Working,
         pc \in {"preparing", "calling"} => tasks[t].got < Parts[tasks[t].post]
  PROVE  tasks' \in [Tasks -> Task] /\ \A u \in Tasks : Holds(tasks'[u], attempts')
<1> DEFINE k == [tasks[t] EXCEPT !.pc = pc]
<1>1. tasks[t] \in Task /\ Holds(tasks[t], attempts)
  BY DEF TypeInv, TypeOK
<1>2. /\ k \in Task /\ k.pc = pc /\ k.post = tasks[t].post /\ k.att = tasks[t].att
      /\ k.got = tasks[t].got /\ k.was = tasks[t].was
  BY <1>1, AtPc
<1>3. Holds(k, attempts')
  <2>1. tasks[t].pc \in Working =>
          tasks[t].att \in 1..Len(attempts') /\ attempts'[tasks[t].att].post = tasks[t].post
    BY <1>1 DEF Holds, Extends, TypeInv, TypeOK
  <2> HIDE DEF k
  <2> QED
    BY <1>1, <1>2, <2>1 DEF Holds
<1>4. tasks' = [tasks EXCEPT ![t] = k]
  BY DEF Goto
<1> HIDE DEF k
<1> QED
  BY <1>2, <1>3, <1>4, TaskMoves

\* A coroutine enters its exception handler.
LEMMA TaskFails ==
  ASSUME TypeInv, NEW t \in Tasks, NEW v \in Verdicts \ {"none"}, Fail(t, v),
         Extends(attempts', attempts), tasks[t].pc \in Working
  PROVE  tasks' \in [Tasks -> Task] /\ \A u \in Tasks : Holds(tasks'[u], attempts')
<1> DEFINE w == IF tasks[t].got > 0 THEN "partial" ELSE v
<1> DEFINE k == [tasks[t] EXCEPT !.pc = "failing", !.verdict = w]
<1>1. tasks[t] \in Task /\ Holds(tasks[t], attempts)
  BY DEF TypeInv, TypeOK
<1>2. w \in Verdicts \ {"none"}
  BY DEF Verdicts
<1>3. /\ k \in Task /\ k.pc = "failing" /\ k.post = tasks[t].post /\ k.att = tasks[t].att
      /\ k.was = tasks[t].was /\ k.verdict = w
  <2> HIDE DEF w
  <2> QED
    BY <1>1, <1>2 DEF Task, PCs
<1>4. tasks' = [tasks EXCEPT ![t] = k]
  BY DEF Fail
<1>5. Holds(k, attempts')
  <2>1. tasks[t].att \in 1..Len(attempts') /\ attempts'[tasks[t].att].post = tasks[t].post
    BY <1>1 DEF Holds, Extends, TypeInv, TypeOK
  <2> HIDE DEF k
  <2> QED
    BY <1>1, <1>2, <1>3, <2>1 DEF Holds, Working
<1> HIDE DEF k
<1> QED
  BY <1>3, <1>4, <1>5, TaskMoves

LEMMA Quiet == TypeInv => Extends(attempts, attempts)
  BY DEF TypeInv, TypeOK, Extends

\* Fields of a ledger row change.
LEMMA RowStatus ==
  ASSUME NEW r \in Row, NEW s \in AttemptStatuses
  PROVE  LET q == [r EXCEPT !.status = s]
         IN /\ q \in Row
            /\ q.post = r.post /\ q.day = r.day /\ q.status = s
            /\ q.receipts = r.receipts /\ q.old = r.old
  BY DEF Row

LEMMA RowReceipts ==
  ASSUME NEW r \in Row, NEW n \in 0..2
  PROVE  LET q == [r EXCEPT !.receipts = n]
         IN /\ q \in Row
            /\ q.post = r.post /\ q.day = r.day /\ q.status = r.status
            /\ q.receipts = n /\ q.old = r.old
  BY DEF Row

LEMMA RowOld ==
  ASSUME NEW r \in Row
  PROVE  LET q == [r EXCEPT !.old = TRUE]
         IN /\ q \in Row
            /\ q.post = r.post /\ q.day = r.day /\ q.status = r.status
            /\ q.receipts = r.receipts /\ q.old = TRUE
  BY DEF Row

LEMMA LedgerRow ==
  ASSUME TypeInv, NEW a \in 1..Len(attempts), NEW r \in Row,
         r.post = attempts[a].post, r.day = attempts[a].day,
         attempts' = [attempts EXCEPT ![a] = r]
  PROVE  /\ attempts' \in Seq(Row) /\ Len(attempts') = Len(attempts)
         /\ Extends(attempts', attempts)
         /\ attempts'[a] = r
         /\ \A b \in 1..Len(attempts) : b # a => attempts'[b] = attempts[b]
  BY RowUpdate DEF TypeInv, TypeOK, Extends

\* A step changes these fields of the given rows only.
SameStatus(S) ==
  \A b \in (1..Len(attempts)) \ S : attempts'[b].status = attempts[b].status
SameAge(S) ==
  \A b \in (1..Len(attempts)) \ S : attempts'[b].old = attempts[b].old

LEMMA StatusRow ==
  ASSUME TypeInv, NEW a \in 1..Len(attempts), NEW s \in AttemptStatuses,
         attempts' = [attempts EXCEPT ![a].status = s]
  PROVE  /\ attempts' \in Seq(Row) /\ Len(attempts') = Len(attempts)
         /\ Extends(attempts', attempts)
         /\ SameStatus({a})
         /\ SameAge({})
         /\ attempts'[a].status = s
<1> DEFINE r == [attempts[a] EXCEPT !.status = s]
<1>1. attempts[a] \in Row
  BY DEF TypeInv, TypeOK
<1>2. /\ r \in Row /\ r.post = attempts[a].post /\ r.day = attempts[a].day
      /\ r.status = s /\ r.old = attempts[a].old
  BY <1>1, RowStatus
<1>3. attempts' = [attempts EXCEPT ![a] = r]
  OBVIOUS
<1> HIDE DEF r
<1>4. /\ attempts' \in Seq(Row) /\ Len(attempts') = Len(attempts)
      /\ Extends(attempts', attempts) /\ attempts'[a] = r
      /\ \A b \in 1..Len(attempts) : b # a => attempts'[b] = attempts[b]
  BY <1>2, <1>3, LedgerRow, ZenonT(60)
<1> QED
  BY <1>2, <1>4 DEF SameStatus, SameAge

LEMMA ReceiptsRow ==
  ASSUME TypeInv, NEW a \in 1..Len(attempts), NEW n \in 0..2,
         attempts' = [attempts EXCEPT ![a].receipts = n]
  PROVE  /\ attempts' \in Seq(Row) /\ Len(attempts') = Len(attempts)
         /\ Extends(attempts', attempts)
         /\ SameStatus({})
         /\ SameAge({})
<1> DEFINE r == [attempts[a] EXCEPT !.receipts = n]
<1>1. attempts[a] \in Row
  BY DEF TypeInv, TypeOK
<1>2. /\ r \in Row /\ r.post = attempts[a].post /\ r.day = attempts[a].day
      /\ r.status = attempts[a].status /\ r.old = attempts[a].old
  BY <1>1, RowReceipts
<1>3. attempts' = [attempts EXCEPT ![a] = r]
  OBVIOUS
<1> HIDE DEF r
<1>4. /\ attempts' \in Seq(Row) /\ Len(attempts') = Len(attempts)
      /\ Extends(attempts', attempts) /\ attempts'[a] = r
      /\ \A b \in 1..Len(attempts) : b # a => attempts'[b] = attempts[b]
  BY <1>2, <1>3, LedgerRow
<1> QED
  BY <1>2, <1>4 DEF SameStatus, SameAge

LEMMA OldRow ==
  ASSUME TypeInv, NEW a \in 1..Len(attempts),
         attempts' = [attempts EXCEPT ![a].old = TRUE]
  PROVE  /\ attempts' \in Seq(Row) /\ Len(attempts') = Len(attempts)
         /\ Extends(attempts', attempts)
         /\ SameStatus({})
         /\ SameAge({a})
<1> DEFINE r == [attempts[a] EXCEPT !.old = TRUE]
<1>1. attempts[a] \in Row
  BY DEF TypeInv, TypeOK
<1>2. /\ r \in Row /\ r.post = attempts[a].post /\ r.day = attempts[a].day
      /\ r.status = attempts[a].status
  BY <1>1, RowOld
<1>3. attempts' = [attempts EXCEPT ![a] = r]
  OBVIOUS
<1> HIDE DEF r
<1>4. /\ attempts' \in Seq(Row) /\ Len(attempts') = Len(attempts)
      /\ Extends(attempts', attempts) /\ attempts'[a] = r
      /\ \A b \in 1..Len(attempts) : b # a => attempts'[b] = attempts[b]
  BY <1>2, <1>3, LedgerRow
<1> QED
  BY <1>2, <1>4 DEF SameStatus, SameAge

LEMMA OutcomeRow ==
  ASSUME TypeInv, NEW a \in 1..Len(attempts), NEW s \in AttemptStatuses, NEW n \in 0..2,
         attempts' = [attempts EXCEPT ![a] = [@ EXCEPT !.status = s, !.receipts = n]]
  PROVE  /\ attempts' \in Seq(Row) /\ Len(attempts') = Len(attempts)
         /\ Extends(attempts', attempts)
         /\ SameStatus({a})
         /\ SameAge({})
         /\ attempts'[a].status = s
<1> DEFINE r == [attempts[a] EXCEPT !.status = s, !.receipts = n]
<1>1. attempts[a] \in Row
  BY DEF TypeInv, TypeOK
<1>2. /\ r \in Row /\ r.post = attempts[a].post /\ r.day = attempts[a].day
      /\ r.status = s /\ r.old = attempts[a].old
  BY <1>1 DEF Row
<1>3. attempts' = [attempts EXCEPT ![a] = r]
  OBVIOUS
<1> HIDE DEF r
<1>4. /\ attempts' \in Seq(Row) /\ Len(attempts') = Len(attempts)
      /\ Extends(attempts', attempts) /\ attempts'[a] = r
      /\ \A b \in 1..Len(attempts) : b # a => attempts'[b] = attempts[b]
  BY <1>2, <1>3, LedgerRow, ZenonT(60)
<1> QED
  BY <1>2, <1>4 DEF SameStatus, SameAge

LEMMA RecoverRows ==
  ASSUME TypeInv, Recover
  PROVE  /\ attempts' \in Seq(Row) /\ Len(attempts') = Len(attempts)
         /\ Extends(attempts', attempts)
         /\ SameStatus(Interrupted)
         /\ SameAge({})
         /\ \A a \in Interrupted : attempts'[a].status = "uncertain"
<1> DEFINE e(a) == IF a \in Interrupted
                   THEN [attempts[a] EXCEPT !.status = "uncertain"] ELSE attempts[a]
<1>1. \A a \in 1..Len(attempts) :
        /\ e(a) \in Row /\ e(a).post = attempts[a].post /\ e(a).old = attempts[a].old
        /\ e(a).day = attempts[a].day
        /\ e(a).status = IF a \in Interrupted THEN "uncertain" ELSE attempts[a].status
  <2> SUFFICES ASSUME NEW a \in 1..Len(attempts)
               PROVE  /\ e(a) \in Row /\ e(a).post = attempts[a].post
                      /\ e(a).old = attempts[a].old /\ e(a).day = attempts[a].day
                      /\ e(a).status = IF a \in Interrupted THEN "uncertain"
                                                            ELSE attempts[a].status
    OBVIOUS
  <2>1. attempts[a] \in Row /\ "uncertain" \in AttemptStatuses
    BY DEF TypeInv, TypeOK, AttemptStatuses
  <2> QED
    BY <2>1, RowStatus
<1>2. attempts' = [a \in 1..Len(attempts) |-> e(a)] /\ Len(attempts) \in Nat
  BY DEF Recover, TypeInv, TypeOK
<1>3. Interrupted \subseteq 1..Len(attempts)
  BY DEF Interrupted, TypeInv, TypeOK
<1> HIDE DEF e
<1> QED
  BY <1>1, <1>2, <1>3 DEF Extends, SameStatus, SameAge

\* The rows after the statements of a coroutine.
LEMMA ReceiptsStep ==
  ASSUME TypeInv, NEW t \in Tasks, RecordReceipt(t) \/ RecordFails(t) \/ Abandon(t)
  PROVE  /\ attempts' \in Seq(Row) /\ Len(attempts') = Len(attempts)
         /\ Extends(attempts', attempts)
         /\ SameStatus({}) /\ SameAge({})
<1>1. CASE tasks[t].pc = "recording"
  <2>1. /\ tasks[t] \in Task /\ Holds(tasks[t], attempts)
        /\ tasks[t].att \in 1..Len(attempts)
    BY <1>1 DEF TypeInv, TypeOK, Holds, Working
  <2>2. tasks[t].got \in 0..2 /\ attempts[tasks[t].att].receipts \in 0..2
    <3>1. attempts[tasks[t].att] \in Row
      BY <2>1 DEF TypeInv, TypeOK
    <3> QED
      BY <2>1, <3>1 DEF Task, Row
  <2>3. PICK n \in 0..2 : attempts' = [attempts EXCEPT ![tasks[t].att].receipts = n]
    BY <1>1, <2>2 DEF RecordReceipt, RecordFails, Abandon
  <2> QED
    BY <2>1, <2>3, ReceiptsRow
<1>2. CASE tasks[t].pc # "recording"
  BY <1>2, Quiet DEF RecordReceipt, RecordFails, Abandon, SameStatus, SameAge, TypeInv, TypeOK
<1> QED
  BY <1>1, <1>2

LEMMA FailureRows ==
  ASSUME TypeInv, NEW t \in Tasks, BookFailure(t)
  PROVE  LET a == tasks[t].att
             s == IF tasks[t].verdict \in {"failed", "permanent"}
                  THEN "failed" ELSE tasks[t].verdict
         IN /\ a \in 1..Len(attempts) /\ attempts[a].post = tasks[t].post
            /\ s \in {"failed", "uncertain", "partial"}
            /\ attempts' \in Seq(Row) /\ Len(attempts') = Len(attempts)
            /\ Extends(attempts', attempts)
            /\ SameStatus({a}) /\ SameAge({})
            /\ attempts'[a].status = s
<1> DEFINE a == tasks[t].att
           s == IF tasks[t].verdict \in {"failed", "permanent"}
                THEN "failed" ELSE tasks[t].verdict
<1>1. /\ tasks[t] \in Task /\ Holds(tasks[t], attempts) /\ tasks[t].pc = "failing"
      /\ a \in 1..Len(attempts) /\ attempts[a].post = tasks[t].post
  BY DEF BookFailure, TypeInv, TypeOK, Holds, Working
<1>2. s \in AttemptStatuses /\ s \in {"failed", "uncertain", "partial"}
  BY <1>1 DEF Holds, Task, Verdicts, AttemptStatuses
<1>3. attempts' = [attempts EXCEPT ![a] = [@ EXCEPT !.status = s, !.receipts = tasks[t].got]]
  BY DEF BookFailure
<1>4. tasks[t].got \in 0..2
  BY <1>1 DEF Task
<1> HIDE DEF s
<1>5. /\ attempts' \in Seq(Row) /\ Len(attempts') = Len(attempts)
      /\ Extends(attempts', attempts)
      /\ SameStatus({a}) /\ SameAge({})
      /\ attempts'[a].status = s
  BY <1>1, <1>2, <1>3, <1>4, OutcomeRow
<1> QED
  BY <1>1, <1>2, <1>5 DEF s

-----------------------------------------------------------------------------
(* Type correctness, step by step.                                         *)

LEMMA ClaimRows ==
  ASSUME TypeInv, NEW t \in Tasks, NEW p \in Posts, Claim(t, p)
  PROVE  /\ attempts' \in Seq(Row) /\ Len(attempts') = Len(attempts) + 1
         /\ \A b \in 1..Len(attempts) : attempts'[b] = attempts[b]
         /\ attempts'[Len(attempts) + 1].post = p
         /\ attempts'[Len(attempts) + 1].status = "sending"
         /\ attempts'[Len(attempts) + 1].old = FALSE
         /\ attempts'[Len(attempts) + 1].day = day
<1> DEFINE r == [post |-> p, day |-> day, status |-> "sending",
                 receipts |-> 0, old |-> FALSE]
<1>1. r \in Row
  BY DEF Row, AttemptStatuses, TypeInv, TypeOK
<1>2. r.post = p /\ r.status = "sending" /\ r.old = FALSE /\ r.day = day
  OBVIOUS
<1>3. attempts \in Seq(Row) /\ attempts' = Append(attempts, r)
  BY DEF Claim, TypeInv, TypeOK
<1> HIDE DEF r
<1> QED
  BY <1>1, <1>2, <1>3, RowAppend

LEMMA ClaimType ==
  ASSUME TypeInv, NEW t \in Tasks, NEW p \in Posts, Claim(t, p)
  PROVE  TypeInv'
<1> DEFINE k == [pc |-> "preparing", post |-> p, att |-> Len(attempts) + 1,
                 got |-> 0, was |-> status[p], tries |-> tries[p],
                 verdict |-> "none"]
<1>2. /\ attempts' \in Seq(Row) /\ Len(attempts') = Len(attempts) + 1
      /\ attempts'[Len(attempts) + 1].post = p
      /\ \A b \in 1..Len(attempts) : attempts'[b] = attempts[b]
  BY ClaimRows
<1>3. Extends(attempts', attempts)
  BY <1>2 DEF Extends, TypeInv, TypeOK
<1>4. status[p] \in Claimable /\ tries[p] \in Nat /\ Len(attempts) + 1 \in 0..MaxRows
  BY DeliveryAssumption DEF Claim, Admissible, TypeInv, TypeOK
<1>5. k \in Task
  BY <1>4 DEF Task, PCs, Verdicts
<1>6. Holds(k, attempts')
  <2>1. Parts[p] > 0
    BY DeliveryAssumption
  <2>2. attempts'[Len(attempts) + 1].post = p /\ Len(attempts) + 1 \in 1..Len(attempts')
    BY <1>2 DEF TypeInv, TypeOK
  <2> QED
    BY <1>4, <2>1, <2>2 DEF Holds, Working
<1>7. tasks' = [tasks EXCEPT ![t] = k]
  BY DEF Claim
<1>8. tasks' \in [Tasks -> Task] /\ \A u \in Tasks : Holds(tasks'[u], attempts')
  <2> HIDE DEF k
  <2> QED
    BY <1>3, <1>5, <1>6, <1>7, TaskMoves
<1>9. status' \in [Posts -> Statuses]
  BY DEF Claim, TypeInv, TypeOK, Statuses, Unresolved
<1>10. Len(attempts') <= MaxRows /\ Len(attempts') >= Len(attempts)
  BY <1>2, <1>4 DEF TypeInv, TypeOK
<1>11. /\ wire' \subseteq (1..Len(attempts')) \X {1, 2}
       /\ landed' \subseteq (1..Len(attempts')) \X {1, 2}
  BY <1>10 DEF Claim, TypeInv, TypeOK
<1> QED
  BY <1>2, <1>8, <1>9, <1>10, <1>11 DEF Claim, TypeInv, TypeOK

\* A post whose outcome is open has an attempt, and one of them is the last.
Traced ==
  \A p \in Posts : status[p] \in Unresolved =>
    \E a \in AttemptsOf(p) : \A b \in AttemptsOf(p) : b <= a

LEMMA LastExists ==
  ASSUME TypeInv, Traced, NEW p \in Posts, status[p] \in Unresolved
  PROVE  /\ LastAttempt(p) \in 1..Len(attempts)
         /\ attempts[LastAttempt(p)].post = p
         /\ \A b \in AttemptsOf(p) : b <= LastAttempt(p)
<1>1. PICK a \in AttemptsOf(p) : \A b \in AttemptsOf(p) : b <= a
  BY DEF Traced
<1>2. LastAttempt(p) \in AttemptsOf(p) /\ \A b \in AttemptsOf(p) : b <= LastAttempt(p)
  BY <1>1 DEF LastAttempt
<1> QED
  BY <1>2 DEF AttemptsOf, TypeInv, TypeOK

LEMMA NextType == TypeInv /\ Traced /\ [Next]_vars => TypeInv'
<1> SUFFICES ASSUME TypeInv, Traced, [Next]_vars PROVE TypeInv'
  OBVIOUS
<1> USE DeliveryAssumption
<1>1. ASSUME NEW t \in Tasks, NEW p \in Posts, Pick(t, p) PROVE TypeInv'
  <2> DEFINE k == [tasks[t] EXCEPT !.pc = "picked", !.post = p]
  <2>2. tasks[t] \in Task
    BY DEF TypeInv, TypeOK
  <2>3. k \in Task /\ k.pc = "picked" /\ k.post = p
    BY <2>2 DEF Task, PCs
  <2>4. Holds(k, attempts)
    <3> HIDE DEF k
    <3> QED
      BY <2>3 DEF Holds, Working
  <2>5. tasks' = [tasks EXCEPT ![t] = k] /\ attempts' = attempts
    BY <1>1 DEF Pick, table
  <2>1. tasks' \in [Tasks -> Task] /\ \A u \in Tasks : Holds(tasks'[u], attempts')
    <3> HIDE DEF k
    <3> QED
      BY <2>3, <2>4, <2>5, Quiet, TaskMoves
  <2> QED
    BY <1>1, <2>1 DEF Pick, TypeInv, TypeOK, table, world
<1>2. ASSUME NEW t \in Tasks, ClaimPicked(t) PROVE TypeInv'
  <2>1. tasks[t].post \in Posts
    BY <1>2 DEF ClaimPicked, TypeInv, Holds
  <2> QED
    BY <1>2, <2>1, ClaimType DEF ClaimPicked
<1>3. ASSUME NEW t \in Tasks, NEW p \in Posts, ClaimForOwner(t, p) PROVE TypeInv'
  BY <1>3, ClaimType DEF ClaimForOwner
<1>4. ASSUME NEW t \in Tasks, Refuse(t) PROVE TypeInv'
  <2>1. tasks' \in [Tasks -> Task] /\ \A u \in Tasks : Holds(tasks'[u], attempts')
    BY <1>4, Quiet, TaskEnds DEF Refuse, table
  <2> QED
    BY <1>4, <2>1 DEF Refuse, TypeInv, TypeOK, table, world
<1>5. ASSUME NEW t \in Tasks, FindDuplicate(t) PROVE TypeInv'
  <2>1. tasks' \in [Tasks -> Task] /\ \A u \in Tasks : Holds(tasks'[u], attempts')
    BY <1>5, Quiet, TaskGoes DEF FindDuplicate, table, PCs, Working
  <2> QED
    BY <1>5, <2>1 DEF FindDuplicate, TypeInv, TypeOK, table, world
<1>6. ASSUME NEW t \in Tasks, MarkDuplicate(t) PROVE TypeInv'
  <2>1. tasks' \in [Tasks -> Task] /\ \A u \in Tasks : Holds(tasks'[u], attempts')
    BY <1>6, Quiet, TaskEnds DEF MarkDuplicate
  <2>2. status' \in [Posts -> Statuses]
    BY <1>6 DEF MarkDuplicate, TypeInv, TypeOK, Statuses
  <2> QED
    BY <1>6, <2>1, <2>2 DEF MarkDuplicate, TypeInv, TypeOK, world
<1>7. ASSUME NEW t \in Tasks, PrepareFails(t) PROVE TypeInv'
  <2>1. tasks' \in [Tasks -> Task] /\ \A u \in Tasks : Holds(tasks'[u], attempts')
    BY <1>7, Quiet, TaskFails DEF PrepareFails, table, Verdicts, Working
  <2> QED
    BY <1>7, <2>1 DEF PrepareFails, TypeInv, TypeOK, table, world
<1>8. ASSUME NEW t \in Tasks, Call(t) PROVE TypeInv'
  <2>1. tasks' \in [Tasks -> Task] /\ \A u \in Tasks : Holds(tasks'[u], attempts')
    BY <1>8, Quiet, TaskGoes DEF Call, table, PCs, Working, TypeInv, Holds
  <2>2. tasks[t] \in Task /\ Holds(tasks[t], attempts) /\ tasks[t].pc = "preparing"
    BY <1>8 DEF Call, TypeInv, TypeOK
  <2>5. /\ tasks[t].got \in 0..2 /\ tasks[t].got < Parts[tasks[t].post]
        /\ Parts[tasks[t].post] \in {1, 2} /\ tasks[t].att \in 1..Len(attempts)
    BY <2>2 DEF Task, Holds, Working
  <2>3. tasks[t].att \in 1..Len(attempts) /\ tasks[t].got + 1 \in {1, 2}
    BY <2>5
  <2>4. wire' \subseteq (1..Len(attempts)) \X {1, 2}
    BY <1>8, <2>3 DEF Call, TypeInv, TypeOK
  <2> QED
    BY <1>8, <2>1, <2>4 DEF Call, TypeInv, TypeOK, table
<1>9. ASSUME NEW t \in Tasks, Acknowledge(t) PROVE TypeInv'
  <2> DEFINE k == [tasks[t] EXCEPT !.pc = "recording", !.got = tasks[t].got + 1]
  <2>2. tasks[t] \in Task /\ Holds(tasks[t], attempts) /\ tasks[t].pc = "calling"
    BY <1>9 DEF Acknowledge, TypeInv, TypeOK
  <2>3. tasks[t].got \in 0..2 /\ tasks[t].got < Parts[tasks[t].post] /\ Parts[tasks[t].post] \in {1, 2}
    BY <2>2 DEF Task, Holds, Working
  <2>4. /\ k \in Task /\ k.pc = "recording" /\ k.post = tasks[t].post
        /\ k.att = tasks[t].att /\ k.was = tasks[t].was
        /\ k.got = tasks[t].got + 1
    <3>1. tasks[t].got + 1 \in 0..2
      BY <2>3
    <3> QED
      BY <2>2, <3>1 DEF Task, PCs
  <2>5. Holds(k, attempts)
    <3> HIDE DEF k
    <3> QED
      BY <2>2, <2>3, <2>4 DEF Holds, Working
  <2>6. tasks' = [tasks EXCEPT ![t] = k] /\ attempts' = attempts
    BY <1>9 DEF Acknowledge, table
  <2>1. tasks' \in [Tasks -> Task] /\ \A u \in Tasks : Holds(tasks'[u], attempts')
    <3> HIDE DEF k
    <3> QED
      BY <2>4, <2>5, <2>6, Quiet, TaskMoves
  <2> QED
    BY <1>9, <2>1 DEF Acknowledge, TypeInv, TypeOK, table, world
<1>10. ASSUME NEW t \in Tasks, TelegramRefuses(t) PROVE TypeInv'
  <2>1. tasks' \in [Tasks -> Task] /\ \A u \in Tasks : Holds(tasks'[u], attempts')
    BY <1>10, Quiet, TaskFails DEF TelegramRefuses, table, Verdicts, Working
  <2> QED
    BY <1>10, <2>1 DEF TelegramRefuses, TypeInv, TypeOK, table, world
<1>11. ASSUME NEW t \in Tasks, LoseAnswer(t) PROVE TypeInv'
  <2>1. tasks' \in [Tasks -> Task] /\ \A u \in Tasks : Holds(tasks'[u], attempts')
    BY <1>11, Quiet, TaskFails DEF LoseAnswer, table, Verdicts, Working
  <2> QED
    BY <1>11, <2>1 DEF LoseAnswer, TypeInv, TypeOK, table, world
<1>12. ASSUME NEW t \in Tasks, RecordReceipt(t) PROVE TypeInv'
  <2>2. /\ tasks[t] \in Task /\ tasks[t].pc = "recording"
        /\ tasks[t].att \in 1..Len(attempts) /\ tasks[t].post \in Posts
    BY <1>12 DEF RecordReceipt, TypeInv, TypeOK, Holds, Working
  <2>4. /\ attempts' \in Seq(Row) /\ Len(attempts') = Len(attempts)
        /\ Extends(attempts', attempts)
    BY <1>12, ReceiptsStep
  <2> DEFINE pc == IF tasks[t].got = Parts[tasks[t].post]
                   THEN "finishing" ELSE "preparing"
  <2>5. pc = "preparing" => tasks[t].got < Parts[tasks[t].post]
    <3>1. /\ tasks[t].got \in 0..2 /\ Parts[tasks[t].post] \in {1, 2}
          /\ tasks[t].got <= Parts[tasks[t].post]
      BY <2>2 DEF TypeInv, Holds, Task
    <3> QED
      BY <3>1
  <2>6. Goto(t, pc)
    BY <1>12 DEF RecordReceipt
  <2>7. pc \in PCs \ {"failing", "recording"} /\ pc # "calling"
    BY DEF PCs
  <2>1. tasks' \in [Tasks -> Task] /\ \A u \in Tasks : Holds(tasks'[u], attempts')
    <3> HIDE DEF pc
    <3> QED
      BY <2>2, <2>4, <2>5, <2>6, <2>7, TaskGoes DEF Working
  <2> QED
    BY <1>12, <2>1, <2>4 DEF RecordReceipt, TypeInv, TypeOK, world
<1>13. ASSUME NEW t \in Tasks, RecordFails(t) PROVE TypeInv'
  <2>2. /\ attempts' \in Seq(Row) /\ Len(attempts') = Len(attempts)
        /\ Extends(attempts', attempts)
    BY <1>13, ReceiptsStep
  <2>1. tasks' \in [Tasks -> Task] /\ \A u \in Tasks : Holds(tasks'[u], attempts')
    BY <1>13, <2>2, TaskFails DEF RecordFails, Verdicts, Working
  <2> QED
    BY <1>13, <2>1, <2>2 DEF RecordFails, TypeInv, TypeOK, world
<1>14. ASSUME NEW t \in Tasks, BookFailure(t) PROVE TypeInv'
  <2>2. /\ tasks[t] \in Task /\ Holds(tasks[t], attempts) /\ tasks[t].pc = "failing"
        /\ tasks[t].post \in Posts /\ tasks[t].was \in Claimable
    BY <1>14 DEF BookFailure, TypeInv, TypeOK, Holds, Working
  <2>4. /\ attempts' \in Seq(Row) /\ Len(attempts') = Len(attempts)
        /\ Extends(attempts', attempts)
    BY <1>14, FailureRows
  <2>5. status' \in [Posts -> Statuses] /\ tries' \in [Posts -> Nat]
    <3>1. CASE status[tasks[t].post] = "publishing"
      <4>1. \E x \in Statuses : status' = [status EXCEPT ![tasks[t].post] = x]
        BY <1>14, <2>2, <3>1 DEF BookFailure, Statuses, Claimable, Unresolved, Holds, Task, Verdicts
      <4>2. tries' = [tries EXCEPT ![tasks[t].post] = tries[tasks[t].post] + 1]
        BY <1>14, <3>1 DEF BookFailure
      <4> QED
        BY <2>2, <4>1, <4>2 DEF TypeInv, TypeOK
    <3>2. CASE status[tasks[t].post] # "publishing"
      BY <1>14, <3>2 DEF BookFailure, TypeInv, TypeOK
    <3> QED
      BY <3>1, <3>2
  <2>1. tasks' \in [Tasks -> Task] /\ \A u \in Tasks : Holds(tasks'[u], attempts')
    BY <1>14, <2>4, TaskEnds DEF BookFailure
  <2> QED
    BY <1>14, <2>1, <2>4, <2>5 DEF BookFailure, TypeInv, TypeOK, world
<1>15. ASSUME NEW t \in Tasks, BookSuccess(t) PROVE TypeInv'
  <2>2. /\ tasks[t].att \in 1..Len(attempts) /\ tasks[t].post \in Posts
    BY <1>15 DEF BookSuccess, TypeInv, TypeOK, Holds, Working
  <2>3. /\ attempts' \in Seq(Row) /\ Len(attempts') = Len(attempts)
        /\ Extends(attempts', attempts)
    BY <1>15, <2>2, StatusRow DEF BookSuccess, AttemptStatuses
  <2>1. tasks' \in [Tasks -> Task] /\ \A u \in Tasks : Holds(tasks'[u], attempts')
    BY <1>15, <2>3, TaskEnds DEF BookSuccess
  <2>4. /\ status' \in [Posts -> Statuses]
        /\ publishedOn' \in [Posts -> Days \cup {0}]
        /\ stats' \in [Channels -> [Days -> Nat]]
    BY <1>15, <2>2 DEF BookSuccess, TypeInv, TypeOK, Statuses
  <2> QED
    BY <1>15, <2>1, <2>3, <2>4 DEF BookSuccess, TypeInv, TypeOK, world
<1>16. ASSUME NEW t \in Tasks, BookTooLate(t) PROVE TypeInv'
  <2>1. tasks' \in [Tasks -> Task] /\ \A u \in Tasks : Holds(tasks'[u], attempts')
    BY <1>16, Quiet, TaskEnds DEF BookTooLate, table
  <2> QED
    BY <1>16, <2>1 DEF BookTooLate, TypeInv, TypeOK, table, world
<1>17. ASSUME NEW t \in Tasks, Abandon(t) PROVE TypeInv'
  <2>2. /\ attempts' \in Seq(Row) /\ Len(attempts') = Len(attempts)
        /\ Extends(attempts', attempts)
    BY <1>17, ReceiptsStep
  <2>1. tasks' \in [Tasks -> Task] /\ \A u \in Tasks : Holds(tasks'[u], attempts')
    BY <1>17, <2>2, TaskEnds DEF Abandon
  <2> QED
    BY <1>17, <2>1, <2>2 DEF Abandon, TypeInv, TypeOK, world
<1>18. ASSUME NEW call \in wire, Land(call) \/ Drop(call) PROVE TypeInv'
  <2>1. tasks' \in [Tasks -> Task] /\ \A u \in Tasks : Holds(tasks'[u], attempts')
    BY <1>18, Quiet, TasksStay DEF Land, Drop, table
  <2> QED
    BY <1>18, <2>1 DEF Land, Drop, TypeInv, TypeOK, table, world
<1>19. ASSUME NEW a \in 1..MaxRows, Age(a) PROVE TypeInv'
  <2>2. a \in 1..Len(attempts)
    BY <1>19 DEF Age, TypeInv, TypeOK
  <2>3. /\ attempts' \in Seq(Row) /\ Len(attempts') = Len(attempts)
        /\ Extends(attempts', attempts)
    BY <1>19, <2>2, OldRow DEF Age
  <2>1. tasks' \in [Tasks -> Task] /\ \A u \in Tasks : Holds(tasks'[u], attempts')
    BY <1>19, <2>3, TasksStay DEF Age
  <2> QED
    BY <1>19, <2>1, <2>3 DEF Age, TypeInv, TypeOK, world
<1>20. ASSUME NextDay PROVE TypeInv'
  <2>1. tasks' \in [Tasks -> Task] /\ \A u \in Tasks : Holds(tasks'[u], attempts')
    BY <1>20, Quiet, TasksStay DEF NextDay, table
  <2>2. day' \in Days
    BY <1>20 DEF NextDay, TypeInv, TypeOK, Days
  <2> QED
    BY <1>20, <2>1, <2>2 DEF NextDay, TypeInv, TypeOK, table, world
<1>21. ASSUME Recover PROVE TypeInv'
  <2>2. /\ attempts' \in Seq(Row) /\ Len(attempts') = Len(attempts)
        /\ Extends(attempts', attempts)
    BY <1>21, RecoverRows
  <2>1. tasks' \in [Tasks -> Task] /\ \A u \in Tasks : Holds(tasks'[u], attempts')
    BY <1>21, <2>2, TasksStay DEF Recover
  <2>3. status' \in [Posts -> Statuses]
    BY <1>21 DEF Recover, TypeInv, TypeOK, Statuses, Unresolved
  <2> QED
    BY <1>21, <2>1, <2>2, <2>3 DEF Recover, TypeInv, TypeOK, world
<1>22. ASSUME NEW p \in Posts, ConfirmSent(p) PROVE TypeInv'
  <2>0. LastAttempt(p) \in 1..Len(attempts)
    BY <1>22, LastExists DEF ConfirmSent, Unresolved
  <2>2. /\ attempts' \in Seq(Row) /\ Len(attempts') = Len(attempts)
        /\ Extends(attempts', attempts)
    BY <1>22, <2>0, StatusRow DEF ConfirmSent, AttemptStatuses
  <2>1. tasks' \in [Tasks -> Task] /\ \A u \in Tasks : Holds(tasks'[u], attempts')
    BY <1>22, <2>2, TasksStay DEF ConfirmSent
  <2>3. status' \in [Posts -> Statuses]
    BY <1>22 DEF ConfirmSent, TypeInv, TypeOK, Statuses, Claimable
  <2>4. attempts[LastAttempt(p)].day \in Days
    <3>1. attempts[LastAttempt(p)] \in Row
      BY <2>0 DEF TypeInv, TypeOK
    <3> QED
      BY <3>1 DEF Row
  <2>5. /\ publishedOn' \in [Posts -> Days \cup {0}]
        /\ stats' \in [Channels -> [Days -> Nat]]
    BY <1>22, <2>4 DEF ConfirmSent, TypeInv, TypeOK
  <2> QED
    BY <1>22, <2>1, <2>2, <2>3, <2>5 DEF ConfirmSent, TypeInv, TypeOK, world
<1>23. ASSUME NEW p \in Posts, ConfirmAbsent(p) PROVE TypeInv'
  <2>0. LastAttempt(p) \in 1..Len(attempts)
    BY <1>23, LastExists DEF ConfirmAbsent, Unresolved
  <2>2. /\ attempts' \in Seq(Row) /\ Len(attempts') = Len(attempts)
        /\ Extends(attempts', attempts)
    BY <1>23, <2>0, StatusRow DEF ConfirmAbsent, AttemptStatuses
  <2>1. tasks' \in [Tasks -> Task] /\ \A u \in Tasks : Holds(tasks'[u], attempts')
    BY <1>23, <2>2, TasksStay DEF ConfirmAbsent
  <2>3. status' \in [Posts -> Statuses]
    BY <1>23 DEF ConfirmAbsent, TypeInv, TypeOK, Statuses, Claimable
  <2> QED
    BY <1>23, <2>1, <2>2, <2>3 DEF ConfirmAbsent, TypeInv, TypeOK, world
<1>24. ASSUME NEW p \in Posts, Reject(p) PROVE TypeInv'
  <2>1. tasks' \in [Tasks -> Task] /\ \A u \in Tasks : Holds(tasks'[u], attempts')
    BY <1>24, Quiet, TasksStay DEF Reject
  <2>2. status' \in [Posts -> Statuses]
    BY <1>24 DEF Reject, TypeInv, TypeOK, Statuses, Claimable
  <2> QED
    BY <1>24, <2>1, <2>2 DEF Reject, TypeInv, TypeOK, world
<1>25. ASSUME NEW p \in Posts, DemandReview(p) PROVE TypeInv'
  <2>1. tasks' \in [Tasks -> Task] /\ \A u \in Tasks : Holds(tasks'[u], attempts')
    BY <1>25, Quiet, TasksStay DEF DemandReview
  <2>2. status' \in [Posts -> Statuses]
    BY <1>25 DEF DemandReview, TypeInv, TypeOK, Statuses, Claimable
  <2> QED
    BY <1>25, <2>1, <2>2 DEF DemandReview, TypeInv, TypeOK, world
<1>26. ASSUME NEW p \in Posts, Prepare(p) PROVE TypeInv'
  <2>1. tasks' \in [Tasks -> Task] /\ \A u \in Tasks : Holds(tasks'[u], attempts')
    BY <1>26, Quiet, TasksStay DEF Prepare
  <2>2. status' \in [Posts -> Statuses]
    BY <1>26 DEF Prepare, TypeInv, TypeOK, Statuses, Claimable
  <2> QED
    BY <1>26, <2>1, <2>2 DEF Prepare, TypeInv, TypeOK, world
<1>27. ASSUME NEW p \in Posts, Refresh(p) PROVE TypeInv'
  <2>1. tasks' \in [Tasks -> Task] /\ \A u \in Tasks : Holds(tasks'[u], attempts')
    BY <1>27, Quiet, TasksStay DEF Refresh
  <2>2. status' \in [Posts -> Statuses]
    BY <1>27 DEF Refresh, TypeInv, TypeOK, Statuses, Claimable
  <2> QED
    BY <1>27, <2>1, <2>2 DEF Refresh, TypeInv, TypeOK, world
<1>28. ASSUME ExpireNews PROVE TypeInv'
  <2>1. tasks' \in [Tasks -> Task] /\ \A u \in Tasks : Holds(tasks'[u], attempts')
    BY <1>28, Quiet, TasksStay DEF ExpireNews
  <2>2. status' \in [Posts -> Statuses]
    BY <1>28 DEF ExpireNews, TypeInv, TypeOK, Statuses, Claimable
  <2> QED
    BY <1>28, <2>1, <2>2 DEF ExpireNews, TypeInv, TypeOK, world
<1>29. ASSUME NEW c \in Channels, AutopostOff(c) PROVE TypeInv'
  <2>1. tasks' \in [Tasks -> Task] /\ \A u \in Tasks : Holds(tasks'[u], attempts')
    BY <1>29, Quiet, TasksStay DEF AutopostOff
  <2>2. status' \in [Posts -> Statuses]
    BY <1>29 DEF AutopostOff, TypeInv, TypeOK, Statuses, Claimable
  <2> QED
    BY <1>29, <2>1, <2>2 DEF AutopostOff, TypeInv, TypeOK, world
<1>30. ASSUME NEW c \in Channels, DigestOff(c) PROVE TypeInv'
  <2>1. tasks' \in [Tasks -> Task] /\ \A u \in Tasks : Holds(tasks'[u], attempts')
    BY <1>30, Quiet, TasksStay DEF DigestOff
  <2>2. status' \in [Posts -> Statuses]
    BY <1>30 DEF DigestOff, TypeInv, TypeOK, Statuses, Claimable
  <2> QED
    BY <1>30, <2>1, <2>2 DEF DigestOff, TypeInv, TypeOK, world
<1>31. ASSUME NEW c \in Channels, AutopostOn(c) PROVE TypeInv'
  <2>1. tasks' \in [Tasks -> Task] /\ \A u \in Tasks : Holds(tasks'[u], attempts')
    BY <1>31, Quiet, TasksStay DEF AutopostOn, table
  <2> QED
    BY <1>31, <2>1 DEF AutopostOn, TypeInv, TypeOK, table, world
<1>32. ASSUME UNCHANGED vars PROVE TypeInv'
  <2>1. tasks' \in [Tasks -> Task] /\ \A u \in Tasks : Holds(tasks'[u], attempts')
    BY <1>32, Quiet, TasksStay DEF vars
  <2> QED
    BY <1>32, <2>1 DEF vars, TypeInv, TypeOK
<1> QED
  BY <1>1, <1>2, <1>3, <1>4, <1>5, <1>6, <1>7, <1>8, <1>9, <1>10, <1>11, <1>12, <1>13, <1>14, <1>15, <1>16, <1>17, <1>18, <1>19, <1>20, <1>21, <1>22, <1>23, <1>24, <1>25, <1>26, <1>27, <1>28, <1>29, <1>30, <1>31, <1>32
     DEF Next, TaskStep, SendStep, Telegram, PostStep, ChannelStep

-----------------------------------------------------------------------------
(* The last attempt of an open post is always there.                       *)

LEMMA TracedKept ==
  ASSUME TypeInv, Traced, Extends(attempts', attempts),
         Len(attempts') = Len(attempts),
         \A p \in Posts : status'[p] \in Unresolved => status[p] \in Unresolved
  PROVE  Traced'
<1>1. \A p \in Posts : AttemptsOf(p)' = AttemptsOf(p)
  BY DEF AttemptsOf, Extends, TypeInv, TypeOK
<1> QED
  BY <1>1 DEF Traced

LEMMA TracedClaim ==
  ASSUME TypeInv, Traced, NEW t \in Tasks, NEW p \in Posts, Claim(t, p)
  PROVE  Traced'
<1>1. Len(attempts) \in Nat
  BY DEF TypeInv, TypeOK
<1>2. \A q \in Posts \ {p} : AttemptsOf(q)' = AttemptsOf(q) /\ status'[q] = status[q]
  BY <1>1, ClaimRows DEF AttemptsOf, Claim, TypeInv, TypeOK
<1>3. /\ attempts' \in Seq(Row) /\ Len(attempts') = Len(attempts) + 1
      /\ attempts'[Len(attempts) + 1].post = p
  BY ClaimRows
<1>4. DOMAIN attempts' = 1..(Len(attempts) + 1)
  BY <1>1, <1>3
<1>5. \A b \in AttemptsOf(p)' : b <= Len(attempts) + 1
  BY <1>1, <1>4 DEF AttemptsOf
<1>6. Len(attempts) + 1 \in AttemptsOf(p)'
  BY <1>1, <1>3, <1>4 DEF AttemptsOf
<1> QED
  BY <1>2, <1>5, <1>6 DEF Traced

LEMMA NextTraced == TypeInv /\ Traced /\ [Next]_vars => Traced'
<1> SUFFICES ASSUME TypeInv, Traced, [Next]_vars PROVE Traced'
  OBVIOUS
<1>1. ASSUME NEW t \in Tasks, ClaimPicked(t) PROVE Traced'
  BY <1>1, TracedClaim DEF ClaimPicked, TypeInv, Holds
<1>2. ASSUME NEW t \in Tasks, NEW p \in Posts, ClaimForOwner(t, p) PROVE Traced'
  BY <1>2, TracedClaim DEF ClaimForOwner
<1>3. ASSUME UNCHANGED <<status, attempts>> PROVE Traced'
  BY <1>3, Quiet, TracedKept
<1>4. ASSUME NEW t \in Tasks, MarkDuplicate(t) PROVE Traced'
  BY <1>4, Quiet, TracedKept DEF MarkDuplicate, TypeInv, TypeOK, Unresolved
<1>5. ASSUME NEW t \in Tasks, RecordReceipt(t) PROVE Traced'
  BY <1>5, ReceiptsStep, TracedKept DEF RecordReceipt
<1>6. ASSUME NEW t \in Tasks, RecordFails(t) PROVE Traced'
  BY <1>6, ReceiptsStep, TracedKept DEF RecordFails
<1>7. ASSUME NEW t \in Tasks, Abandon(t) PROVE Traced'
  BY <1>7, ReceiptsStep, TracedKept DEF Abandon
<1>8. ASSUME NEW t \in Tasks, BookFailure(t) PROVE Traced'
  <2>1. Extends(attempts', attempts) /\ Len(attempts') = Len(attempts)
    BY <1>8, FailureRows
  <2>2. \A p \in Posts : status'[p] \in Unresolved => status[p] \in Unresolved
    BY <1>8 DEF BookFailure, TypeInv, TypeOK, Unresolved
  <2> QED
    BY <2>1, <2>2, TracedKept
<1>9. ASSUME NEW t \in Tasks, BookSuccess(t) PROVE Traced'
  <2>1. tasks[t].att \in 1..Len(attempts)
    BY <1>9 DEF BookSuccess, TypeInv, TypeOK, Holds, Working
  <2>2. Extends(attempts', attempts) /\ Len(attempts') = Len(attempts)
    BY <1>9, <2>1, StatusRow DEF BookSuccess, AttemptStatuses
  <2>3. \A p \in Posts : status'[p] \in Unresolved => status[p] \in Unresolved
    BY <1>9 DEF BookSuccess, TypeInv, TypeOK, Unresolved
  <2> QED
    BY <2>2, <2>3, TracedKept
<1>10. ASSUME NEW a \in 1..MaxRows, Age(a) PROVE Traced'
  <2>1. a \in 1..Len(attempts)
    BY <1>10 DEF Age, TypeInv, TypeOK
  <2> QED
    BY <1>10, <2>1, OldRow, TracedKept DEF Age
<1>11. ASSUME Recover PROVE Traced'
  <2>1. \A p \in Posts : status'[p] \in Unresolved => status[p] \in Unresolved
    BY <1>11 DEF Recover, TypeInv, TypeOK, Unresolved
  <2> QED
    BY <1>11, <2>1, RecoverRows, TracedKept
<1>12. ASSUME NEW p \in Posts, ConfirmSent(p) PROVE Traced'
  <2>1. LastAttempt(p) \in 1..Len(attempts)
    BY <1>12, LastExists DEF ConfirmSent, Unresolved
  <2>2. Extends(attempts', attempts) /\ Len(attempts') = Len(attempts)
    BY <1>12, <2>1, StatusRow DEF ConfirmSent, AttemptStatuses
  <2>3. \A q \in Posts : status'[q] \in Unresolved => status[q] \in Unresolved
    BY <1>12 DEF ConfirmSent, TypeInv, TypeOK, Unresolved
  <2> QED
    BY <2>2, <2>3, TracedKept
<1>13. ASSUME NEW p \in Posts, ConfirmAbsent(p) PROVE Traced'
  <2>1. LastAttempt(p) \in 1..Len(attempts)
    BY <1>13, LastExists DEF ConfirmAbsent, Unresolved
  <2>2. Extends(attempts', attempts) /\ Len(attempts') = Len(attempts)
    BY <1>13, <2>1, StatusRow DEF ConfirmAbsent, AttemptStatuses
  <2>3. \A q \in Posts : status'[q] \in Unresolved => status[q] \in Unresolved
    BY <1>13 DEF ConfirmAbsent, TypeInv, TypeOK, Unresolved
  <2> QED
    BY <2>2, <2>3, TracedKept
<1>14. ASSUME NEW p \in Posts, Reject(p) PROVE Traced'
  BY <1>14, Quiet, TracedKept DEF Reject, TypeInv, TypeOK, Unresolved
<1>15. ASSUME NEW p \in Posts, DemandReview(p) PROVE Traced'
  BY <1>15, Quiet, TracedKept DEF DemandReview, TypeInv, TypeOK, Unresolved
<1>16. ASSUME NEW p \in Posts, Prepare(p) PROVE Traced'
  BY <1>16, Quiet, TracedKept DEF Prepare, TypeInv, TypeOK, Unresolved
<1>17. ASSUME NEW p \in Posts, Refresh(p) PROVE Traced'
  BY <1>17, Quiet, TracedKept DEF Refresh, TypeInv, TypeOK, Unresolved
<1>18. ASSUME ExpireNews PROVE Traced'
  BY <1>18, Quiet, TracedKept DEF ExpireNews, TypeInv, TypeOK, Unresolved
<1>19. ASSUME NEW c \in Channels, AutopostOff(c) PROVE Traced'
  BY <1>19, Quiet, TracedKept DEF AutopostOff, TypeInv, TypeOK, Unresolved
<1>20. ASSUME NEW c \in Channels, DigestOff(c) PROVE Traced'
  BY <1>20, Quiet, TracedKept DEF DigestOff, TypeInv, TypeOK, Unresolved
<1> QED
  BY <1>1, <1>2, <1>3, <1>4, <1>5, <1>6, <1>7, <1>8, <1>9, <1>10, <1>11, <1>12, <1>13, <1>14, <1>15, <1>16, <1>17, <1>18, <1>19, <1>20
     DEF Next, TaskStep, SendStep, Telegram, PostStep, ChannelStep, vars, table,
         Pick, Refuse, FindDuplicate, PrepareFails, Call, Acknowledge,
         TelegramRefuses, LoseAnswer, BookTooLate, Land, Drop, NextDay, AutopostOn

-----------------------------------------------------------------------------

\* Every reachable state is well typed: no coroutine outlives its ledger row,
\* makes a call its post does not have, or books an outcome that does not exist.
THEOREM TypeCorrect == Spec => []TypeOK
<1>1. Init => TypeInv /\ Traced
  BY InitType DEF Init, Traced, Unresolved
<1>2. TypeInv /\ Traced /\ [Next]_vars => (TypeInv /\ Traced)'
  BY NextType, NextTraced
<1>3. TypeInv => TypeOK
  BY DEF TypeInv
<1> QED
  BY <1>1, <1>2, <1>3, PTL DEF Spec

-----------------------------------------------------------------------------
(* Calls and their coroutines, and the daily quota.  Nothing here assumes   *)
(* that the transaction after a send is faster than the quarantine.        *)

Calls == wire \cup landed

InFlight == {"preparing", "calling", "recording"}

KeepsRows ==
  /\ Len(attempts') = Len(attempts)
  /\ Extends(attempts', attempts)

LEMMA CallsTyped ==
  ASSUME TypeInv, NEW m \in Calls
  PROVE  /\ m[1] \in 1..Len(attempts) /\ m[2] \in {1, 2}
         /\ m = <<m[1], m[2]>>
         /\ attempts[m[1]] \in Row /\ PostOf(m) \in Posts
<1>1. m \in (1..Len(attempts)) \X {1, 2}
  BY DEF Calls, TypeInv, TypeOK
<1>2. attempts[m[1]] \in Row
  BY <1>1 DEF TypeInv, TypeOK
<1> QED
  BY <1>1, <1>2 DEF PostOf, Row

LEMMA RowsTyped ==
  ASSUME TypeInv
  PROVE  /\ DOMAIN attempts = 1..Len(attempts) /\ Len(attempts) \in Nat
         /\ \A a \in 1..Len(attempts) : attempts[a] \in Row /\ attempts[a].post \in Posts
<1>1. attempts \in Seq(Row)
  BY DEF TypeInv, TypeOK
<1>2. DOMAIN attempts = 1..Len(attempts) /\ Len(attempts) \in Nat
  BY <1>1
<1>3. \A a \in 1..Len(attempts) : attempts[a] \in Row
  BY <1>1
<1>4. \A r \in Row : r.post \in Posts
  BY DEF Row
<1> QED
  BY <1>2, <1>3, <1>4

\* Steps that keep the rows' posts keep what belongs to a post.
LEMMA SameOwners ==
  ASSUME TypeInv, attempts' \in Seq(Row), Extends(attempts', attempts),
         Len(attempts') = Len(attempts)
  PROVE  /\ DOMAIN attempts' = 1..Len(attempts)
         /\ \A a \in 1..Len(attempts) : attempts'[a].post = attempts[a].post
         /\ \A p : AttemptsOf(p)' = AttemptsOf(p)
         /\ \A m \in Calls : PostOf(m)' = PostOf(m)
<1>1. DOMAIN attempts = 1..Len(attempts) /\ DOMAIN attempts' = 1..Len(attempts)
  BY RowsTyped
<1>2. \A a \in 1..Len(attempts) : attempts'[a].post = attempts[a].post
  BY DEF Extends
<1>3. \A m \in Calls : m[1] \in 1..Len(attempts)
  BY CallsTyped
<1> QED
  BY <1>1, <1>2, <1>3 DEF AttemptsOf, PostOf

\* The memory of a coroutine after Fail.
LEMMA FailMemory ==
  ASSUME TypeInv, NEW t \in Tasks, NEW v \in Verdicts, Fail(t, v)
  PROVE  /\ tasks'[t].pc = "failing" /\ tasks'[t].att = tasks[t].att
         /\ tasks'[t].verdict = IF tasks[t].got > 0 THEN "partial" ELSE v
         /\ \A u \in Tasks : u # t => tasks'[u] = tasks[u]
<1>1. tasks[t] \in Task /\ tasks \in [Tasks -> Task]
  BY DEF TypeInv, TypeOK
<1> QED
  BY <1>1 DEF Fail, Task

LEMMA GotoMemory ==
  ASSUME TypeInv, NEW t \in Tasks, NEW pc \in PCs, Goto(t, pc)
  PROVE  /\ tasks'[t].pc = pc /\ tasks'[t].att = tasks[t].att
         /\ tasks'[t].got = tasks[t].got
         /\ \A u \in Tasks : u # t => tasks'[u] = tasks[u]
<1>1. tasks[t] \in Task /\ tasks \in [Tasks -> Task]
  BY DEF TypeInv, TypeOK
<1> QED
  BY <1>1 DEF Goto, Task

LEMMA DoneMemory ==
  ASSUME TypeInv, NEW t \in Tasks, Done(t)
  PROVE  \A u \in Tasks : tasks'[u].pc \in Working => u # t /\ tasks'[u] = tasks[u]
  BY DEF Done, TypeInv, TypeOK, Idle, Working

\* A row has one coroutine.
OneWorker ==
  \A t, u \in Tasks :
    tasks[t].pc \in Working /\ tasks[u].pc \in Working
      /\ tasks[t].att = tasks[u].att => t = u

OnceEach == wire \cap landed = {}

\* A coroutine has made no call beyond the one it is waiting for.
InOrder ==
  \A t \in Tasks : tasks[t].pc \in {"preparing", "calling", "recording"} =>
    \A m \in Calls : m[1] = tasks[t].att =>
      \/ m[2] <= tasks[t].got
      \/ tasks[t].pc = "calling" /\ m[2] = tasks[t].got + 1

WireYoung == \A m \in wire : ~attempts[m[1]].old

\* A coroutine about to book a failure has sent nothing.
FailedIsClean ==
  \A t \in Tasks :
    tasks[t].pc = "failing" /\ tasks[t].verdict \in {"failed", "permanent"} =>
      \A m \in Calls : m[1] # tasks[t].att

InFlightYoung ==
  \A t \in Tasks : tasks[t].pc \in InFlight =>
    attempts[tasks[t].att].status # "failed" /\ ~attempts[tasks[t].att].old

CallsCount == \A m \in Calls : attempts[m[1]].status # "failed"

\* What the ledger and the coroutines tell of the calls, fast or slow.
Honest ==
  /\ InFlightYoung /\ OneWorker /\ OnceEach
  /\ CallsCount /\ InOrder /\ WireYoung /\ FailedIsClean

\* Attempt a has reached Telegram or may still call it.
Live(a) ==
  \/ \E m \in Calls : m[1] = a
  \/ \E t \in Tasks : tasks[t].pc \in InFlight /\ tasks[t].att = a

\* Coroutines end, rows change; no row with a call or a caller fails.
LEMMA HonestRows ==
  ASSUME TypeInv, Honest, KeepsRows, UNCHANGED <<wire, landed>>,
         \A u \in Tasks : tasks'[u].pc \in Working => tasks'[u] = tasks[u],
         \A b \in 1..Len(attempts) : attempts'[b].status = "failed" =>
           \/ attempts[b].status = "failed"
           \/ /\ \A m \in Calls : m[1] # b
              /\ \A u \in Tasks : tasks'[u].pc \in InFlight => tasks[u].att # b,
         \A b \in 1..Len(attempts) : attempts'[b].old =>
           \/ attempts[b].old
           \/ /\ \A m \in wire : m[1] # b
              /\ \A u \in Tasks : tasks[u].pc \in InFlight => tasks[u].att # b
  PROVE  Honest' /\ \A a : Live(a)' => Live(a)
<1>1. Calls' = Calls /\ \A m \in Calls : m[1] \in 1..Len(attempts)
  BY CallsTyped DEF Calls
<1>2. \A u \in Tasks : tasks[u].pc \in Working => tasks[u].att \in 1..Len(attempts)
  BY DEF TypeInv, Holds
<1>3. \A s : s \in InFlight => s \in Working
  BY DEF InFlight, Working
<1>4. InFlightYoung'
  BY <1>2, <1>3 DEF InFlightYoung, Honest
<1>5. OneWorker' /\ OnceEach' /\ InOrder' /\ FailedIsClean'
  BY <1>1, <1>3 DEF OneWorker, OnceEach, InOrder, FailedIsClean, Honest, Working
<1>6. CallsCount'
  BY <1>1 DEF CallsCount, Honest
<1>7. WireYoung'
  BY <1>1 DEF WireYoung, Honest, Calls
<1>8. \A a : Live(a)' => Live(a)
  BY <1>1, <1>3 DEF Live
<1> QED
  BY <1>4, <1>5, <1>6, <1>7, <1>8 DEF Honest

\* A coroutine goes on; no call is made.
LEMMA HonestMove ==
  ASSUME TypeInv, Honest, NEW t \in Tasks, KeepsRows, SameStatus({}), SameAge({}),
         tasks[t].pc \in InFlight, tasks'[t].pc \in Working,
         tasks'[t].att = tasks[t].att,
         \A u \in Tasks : u # t => tasks'[u] = tasks[u],
         Calls' \subseteq Calls, wire' \subseteq wire, wire' \cap landed' = {},
         tasks'[t].pc \in InFlight =>
           \A m \in Calls' : m[1] = tasks[t].att =>
             \/ m[2] <= tasks'[t].got
             \/ tasks'[t].pc = "calling" /\ m[2] = tasks'[t].got + 1,
         tasks'[t].pc = "failing" /\ tasks'[t].verdict \in {"failed", "permanent"} =>
           \A m \in Calls' : m[1] # tasks[t].att
  PROVE  Honest' /\ \A a : Live(a)' => Live(a)
<1>1. /\ \A b \in 1..Len(attempts) : /\ attempts'[b].status = attempts[b].status
                                     /\ attempts'[b].old = attempts[b].old
      /\ \A m \in Calls : m[1] \in 1..Len(attempts)
  BY CallsTyped DEF SameStatus, SameAge
<1>2. \A u \in Tasks : tasks[u].pc \in Working => tasks[u].att \in 1..Len(attempts)
  BY DEF TypeInv, Holds
<1>3. \A s : s \in InFlight => s \in Working
  BY DEF InFlight, Working
<1>4. InFlightYoung'
  <2> SUFFICES ASSUME NEW u \in Tasks, tasks'[u].pc \in InFlight
               PROVE  /\ attempts'[tasks'[u].att].status # "failed"
                      /\ ~attempts'[tasks'[u].att].old
    BY DEF InFlightYoung
  <2>1. tasks[u].pc \in InFlight /\ tasks'[u].att = tasks[u].att
    OBVIOUS
  <2> QED
    BY <1>1, <1>2, <1>3, <2>1 DEF InFlightYoung, Honest
<1>5. OneWorker'
  <2>1. \A u \in Tasks : tasks'[u].pc \in Working =>
          tasks[u].pc \in Working /\ tasks'[u].att = tasks[u].att
    BY <1>3
  <2> QED
    BY <2>1 DEF OneWorker, Honest
<1>6. CallsCount' /\ WireYoung' /\ OnceEach'
  BY <1>1 DEF CallsCount, WireYoung, OnceEach, Honest, Calls
<1>7. InOrder'
  <2> SUFFICES ASSUME NEW u \in Tasks, tasks'[u].pc \in InFlight,
                      NEW m \in Calls', m[1] = tasks'[u].att
               PROVE  \/ m[2] <= tasks'[u].got
                      \/ tasks'[u].pc = "calling" /\ m[2] = tasks'[u].got + 1
    BY DEF InOrder, InFlight
  <2>1. CASE u = t
    BY <2>1
  <2>2. CASE u # t
    BY <2>2 DEF InOrder, InFlight, Honest
  <2> QED
    BY <2>1, <2>2
<1>8. FailedIsClean'
  <2> SUFFICES ASSUME NEW u \in Tasks, tasks'[u].pc = "failing",
                      tasks'[u].verdict \in {"failed", "permanent"},
                      NEW m \in Calls'
               PROVE  m[1] # tasks'[u].att
    BY DEF FailedIsClean
  <2>1. CASE u = t
    BY <2>1
  <2>2. CASE u # t
    BY <2>2 DEF FailedIsClean, Honest
  <2> QED
    BY <2>1, <2>2
<1>9. \A a : Live(a)' => Live(a)
  <2>1. \A u \in Tasks : tasks'[u].pc \in InFlight =>
          tasks[u].pc \in InFlight /\ tasks'[u].att = tasks[u].att
    OBVIOUS
  <2> QED
    BY <2>1 DEF Live
<1> QED
  BY <1>4, <1>5, <1>6, <1>7, <1>8, <1>9 DEF Honest
\* The only step that adds a call: its caller has none left to wait for.
LEMMA HonestCall ==
  ASSUME TypeInv, Honest, NEW t \in Tasks, Call(t)
  PROVE  Honest' /\ \A a : Live(a)' => Live(a)
<1> DEFINE call == <<tasks[t].att, tasks[t].got + 1>>
           a == tasks[t].att
<1>1. tasks[t].pc = "preparing" /\ tasks[t] \in Task /\ Holds(tasks[t], attempts)
  BY DEF Call, TypeInv, TypeOK
<1>2. /\ tasks'[t].pc = "calling" /\ tasks'[t].att = a /\ tasks'[t].got = tasks[t].got
      /\ \A u \in Tasks : u # t => tasks'[u] = tasks[u]
  BY GotoMemory DEF Call, PCs
<1>3. /\ attempts' = attempts /\ wire' = wire \cup {call} /\ landed' = landed
      /\ Calls' = Calls \cup {call}
  BY DEF Call, Calls, table
<1>4. /\ a \in 1..Len(attempts) /\ tasks[t].got \in 0..2 /\ call[1] = a
      /\ call[2] = tasks[t].got + 1
  BY <1>1 DEF Holds, Working, Task
<1>5. \A m \in Calls : m[1] = a => m[2] <= tasks[t].got
  BY <1>1 DEF Honest, InOrder
<1>6. call \notin Calls
  BY <1>4, <1>5
<1>7. attempts[a].status # "failed" /\ ~attempts[a].old
  BY <1>1 DEF Honest, InFlightYoung, InFlight
<1>8. \A u \in Tasks : u # t /\ tasks[u].pc \in Working => tasks[u].att # a
  BY <1>1 DEF Honest, OneWorker, Working
<1> HIDE DEF call, a
<1>9. InFlightYoung'
  BY <1>2, <1>3, <1>7 DEF InFlightYoung, Honest
<1>10. OneWorker'
  BY <1>1, <1>2 DEF OneWorker, Honest, Working, a
<1>11. OnceEach' /\ CallsCount' /\ WireYoung'
  BY <1>3, <1>4, <1>6, <1>7 DEF OnceEach, CallsCount, WireYoung, Honest, Calls
<1>12. InOrder'
  <2> SUFFICES ASSUME NEW u \in Tasks, tasks'[u].pc \in InFlight,
                      NEW m \in Calls', m[1] = tasks'[u].att
               PROVE  \/ m[2] <= tasks'[u].got
                      \/ tasks'[u].pc = "calling" /\ m[2] = tasks'[u].got + 1
    BY DEF InOrder, InFlight
  <2>1. CASE u = t
    BY <1>2, <1>3, <1>4, <1>5, <2>1
  <2>2. CASE u # t
    BY <1>2, <1>3, <1>4, <1>8, <2>2 DEF InOrder, InFlight, Honest, Working
  <2> QED
    BY <2>1, <2>2
<1>13. FailedIsClean'
  BY <1>2, <1>3, <1>4, <1>8 DEF FailedIsClean, Honest, Working
<1>14. ASSUME NEW b, Live(b)' PROVE Live(b)
  BY <1>1, <1>2, <1>3, <1>4, <1>14 DEF Live, InFlight, a
<1> QED
  BY <1>9, <1>10, <1>11, <1>12, <1>13, <1>14 DEF Honest

LEMMA HonestClaim ==
  ASSUME TypeInv, Honest, NEW t \in Tasks, tasks[t].pc \notin Working,
         NEW p \in Posts, Claim(t, p)
  PROVE  Honest' /\ \A a : Live(a)' => Live(a) \/ a = Len(attempts) + 1
<1> DEFINE n == Len(attempts) + 1
<1>1. /\ n \notin 1..Len(attempts)
      /\ \A b \in 1..Len(attempts) : attempts'[b] = attempts[b]
      /\ attempts'[n].status = "sending" /\ attempts'[n].old = FALSE
  <2>1. /\ \A b \in 1..Len(attempts) : attempts'[b] = attempts[b]
        /\ attempts'[n].status = "sending" /\ attempts'[n].old = FALSE
    BY ClaimRows
  <2>2. Len(attempts) \in Nat
    BY RowsTyped
  <2> QED
    BY <2>1, <2>2
<1>2. /\ tasks'[t].pc = "preparing" /\ tasks'[t].att = n /\ tasks'[t].verdict = "none"
      /\ \A u \in Tasks : u # t => tasks'[u] = tasks[u]
      /\ wire' = wire /\ landed' = landed /\ Calls' = Calls
  BY DEF Claim, TypeInv, TypeOK, Calls
<1>3. \A u \in Tasks : tasks[u].pc \in Working => tasks[u].att \in 1..Len(attempts)
  BY DEF TypeInv, Holds
<1>4. \A m \in Calls : m[1] \in 1..Len(attempts)
  BY CallsTyped
<1>5. \A s : s \in InFlight => s \in Working
  BY DEF InFlight, Working
<1> HIDE DEF n
<1>6. InFlightYoung'
  <2> SUFFICES ASSUME NEW u \in Tasks, tasks'[u].pc \in InFlight
               PROVE  /\ attempts'[tasks'[u].att].status # "failed"
                      /\ ~attempts'[tasks'[u].att].old
    BY DEF InFlightYoung
  <2>1. CASE u = t
    BY <1>1, <1>2, <2>1
  <2>2. CASE u # t
    BY <1>1, <1>2, <1>3, <1>5, <2>2 DEF InFlightYoung, Honest
  <2> QED
    BY <2>1, <2>2
<1>7. OneWorker'
  BY <1>1, <1>2, <1>3 DEF OneWorker, Honest
<1>8. OnceEach' /\ CallsCount' /\ WireYoung'
  BY <1>1, <1>2, <1>4 DEF OnceEach, CallsCount, WireYoung, Honest, Calls
<1>9. InOrder'
  BY <1>1, <1>2, <1>4 DEF InOrder, Honest
<1>10. FailedIsClean'
  BY <1>2 DEF FailedIsClean, Honest
<1>11. ASSUME NEW a, Live(a)' PROVE Live(a) \/ a = n
  BY <1>2, <1>11 DEF Live
<1> QED
  BY <1>6, <1>7, <1>8, <1>9, <1>10, <1>11 DEF Honest, n

\* A step without a claim keeps the ledger honest and makes no attempt live.
LEMMA NextHonest ==
  ASSUME TypeInv, Traced, Honest, [Next]_vars
  PROVE  \/ \E t \in Tasks, p \in Posts : Claim(t, p) /\ tasks[t].pc \notin Working
         \/ KeepsRows /\ Honest' /\ \A a : Live(a)' => Live(a)
<1> DEFINE Fine == KeepsRows /\ Honest' /\ \A a : Live(a)' => Live(a)
           Goal == \/ \E t \in Tasks, p \in Posts : Claim(t, p) /\ tasks[t].pc \notin Working
                   \/ Fine
           Ends == \A u \in Tasks : tasks'[u].pc \in Working => tasks'[u] = tasks[u]
<1> HIDE DEF Fine, Goal
<1>1. KeepsRows /\ SameStatus({}) /\ SameAge({}) /\ UNCHANGED <<wire, landed>> /\ Ends => Fine
  BY HonestRows DEF SameStatus, SameAge, Fine
<1>2. UNCHANGED attempts => KeepsRows /\ SameStatus({}) /\ SameAge({})
  BY Quiet DEF KeepsRows, SameStatus, SameAge
<1>3. ASSUME NEW t \in Tasks, Done(t) PROVE Ends
  BY <1>3, DoneMemory
<1>4. UNCHANGED tasks => Ends
  OBVIOUS
<1>5. ASSUME NEW t \in Tasks, NEW p \in Posts, Pick(t, p) PROVE Fine
  <2>1. tasks[t] \in Task /\ tasks \in [Tasks -> Task]
    BY DEF TypeInv, TypeOK
  <2>2. Ends
    BY <1>5, <2>1 DEF Pick, Task, Working
  <2> QED
    BY <1>1, <1>2, <1>5, <2>2 DEF Pick, table, world
<1>6. ASSUME NEW t \in Tasks, Refuse(t) \/ MarkDuplicate(t) \/ BookTooLate(t) PROVE Fine
  <2>1. Ends /\ UNCHANGED <<attempts, wire, landed>>
    BY <1>3, <1>6 DEF Refuse, MarkDuplicate, BookTooLate, table, world
  <2> QED
    BY <1>1, <1>2, <2>1
<1>7. ASSUME NEW t \in Tasks, FindDuplicate(t) PROVE Fine
  <2>1. Ends
    BY <1>7, GotoMemory DEF FindDuplicate, PCs, Working
  <2> QED
    BY <1>1, <1>2, <1>7, <2>1 DEF FindDuplicate, table, world
<1>8. ASSUME NEW t \in Tasks, ClaimPicked(t) PROVE Goal
  BY <1>8 DEF Goal, ClaimPicked, TypeInv, Holds, Working
<1>9. ASSUME NEW t \in Tasks, NEW p \in Posts, ClaimForOwner(t, p) PROVE Goal
  BY <1>9 DEF Goal, ClaimForOwner, Working
<1>10. ASSUME NEW t \in Tasks, PrepareFails(t) \/ LoseAnswer(t) PROVE Fine
  <2>1. PICK v \in Verdicts :
          Fail(t, v) /\ (tasks[t].pc = "preparing" \/ v = "uncertain")
    BY <1>10 DEF PrepareFails, LoseAnswer, Verdicts
  <2>2. /\ tasks'[t].pc = "failing" /\ tasks'[t].att = tasks[t].att
        /\ tasks'[t].verdict = IF tasks[t].got > 0 THEN "partial" ELSE v
        /\ \A u \in Tasks : u # t => tasks'[u] = tasks[u]
    BY <2>1, FailMemory
  <2>3. /\ tasks[t].pc \in InFlight /\ UNCHANGED <<attempts, wire, landed>> /\ Calls' = Calls
    BY <1>10 DEF PrepareFails, LoseAnswer, table, world, InFlight, Calls
  <2>4. tasks'[t].verdict \in {"failed", "permanent"} => \A m \in Calls : m[1] # tasks[t].att
    <3>1. SUFFICES ASSUME ~(tasks[t].got > 0), tasks[t].pc = "preparing",
                          NEW m \in Calls, m[1] = tasks[t].att
                   PROVE  FALSE
      BY <2>1, <2>2
    <3>2. m[2] <= tasks[t].got
      BY <3>1 DEF Honest, InOrder
    <3>3. m[2] \in {1, 2} /\ tasks[t].got \in 0..2
      BY CallsTyped DEF TypeInv, TypeOK, Task
    <3> QED
      BY <3>1, <3>2, <3>3
  <2> QED
    BY <1>2, <2>2, <2>3, <2>4, HonestMove DEF Fine, Working, InFlight, Honest, OnceEach
<1>11. ASSUME NEW t \in Tasks, TelegramRefuses(t) PROVE Fine
  <2> DEFINE call == <<tasks[t].att, tasks[t].got + 1>>
  <2>1. /\ tasks'[t].pc = "failing" /\ tasks'[t].att = tasks[t].att
        /\ tasks'[t].verdict = IF tasks[t].got > 0 THEN "partial" ELSE "failed"
        /\ \A u \in Tasks : u # t => tasks'[u] = tasks[u]
    BY <1>11, FailMemory DEF TelegramRefuses, Verdicts
  <2>2. /\ tasks[t].pc = "calling" /\ UNCHANGED <<attempts, landed>>
        /\ call \in wire /\ wire' = wire \ {call} /\ wire \cap landed = {}
        /\ Calls' = Calls \ {call}
    BY <1>11 DEF TelegramRefuses, table, Calls, Honest, OnceEach
  <2>3. tasks'[t].verdict \in {"failed", "permanent"} => \A m \in Calls' : m[1] # tasks[t].att
    <3>1. SUFFICES ASSUME ~(tasks[t].got > 0), NEW m \in Calls', m[1] = tasks[t].att
                   PROVE  FALSE
      BY <2>1
    <3>2. m[2] <= tasks[t].got \/ m[2] = tasks[t].got + 1
      BY <2>2, <3>1 DEF Honest, InOrder
    <3>3. m[2] \in {1, 2} /\ tasks[t].got \in 0..2 /\ m = <<m[1], m[2]>>
      BY <2>2, CallsTyped DEF TypeInv, TypeOK, Task
    <3> QED
      BY <2>2, <3>1, <3>2, <3>3
  <2> HIDE DEF call
  <2> QED
    BY <1>2, <2>1, <2>2, <2>3, HonestMove DEF Fine, Working, InFlight
<1>12. ASSUME NEW t \in Tasks, Acknowledge(t) PROVE Fine
  <2>1. /\ tasks[t].pc = "calling" /\ tasks[t] \in Task /\ tasks \in [Tasks -> Task]
        /\ tasks[t].got \in 0..2
    BY <1>12 DEF Acknowledge, TypeInv, TypeOK, Task
  <2>2. /\ tasks'[t].pc = "recording" /\ tasks'[t].att = tasks[t].att
        /\ tasks'[t].got = tasks[t].got + 1
        /\ \A u \in Tasks : u # t => tasks'[u] = tasks[u]
    BY <1>12, <2>1 DEF Acknowledge, Task
  <2>3. UNCHANGED <<attempts, wire, landed>> /\ Calls' = Calls /\ wire \cap landed = {}
    BY <1>12 DEF Acknowledge, table, world, Calls, Honest, OnceEach
  <2>4. \A m \in Calls : m[1] = tasks[t].att => m[2] <= tasks[t].got + 1
    <3>1. SUFFICES ASSUME NEW m \in Calls, m[1] = tasks[t].att
                   PROVE  m[2] <= tasks[t].got + 1
      OBVIOUS
    <3>2. m[2] <= tasks[t].got \/ m[2] = tasks[t].got + 1
      BY <2>1, <3>1 DEF Honest, InOrder
    <3>3. m[2] \in {1, 2}
      BY CallsTyped
    <3> QED
      BY <2>1, <3>2, <3>3
  <2> QED
    BY <1>2, <2>1, <2>2, <2>3, <2>4, HonestMove DEF Fine, Working, InFlight
<1>13. ASSUME NEW t \in Tasks, RecordReceipt(t) \/ RecordFails(t) PROVE Fine
  <2>1. /\ KeepsRows /\ SameStatus({}) /\ SameAge({}) /\ UNCHANGED <<wire, landed>>
        /\ Calls' = Calls /\ wire \cap landed = {} /\ tasks[t].pc = "recording"
    BY <1>13, ReceiptsStep DEF KeepsRows, RecordReceipt, RecordFails, world, Calls,
       Honest, OnceEach
  <2>2. \A m \in Calls : m[1] = tasks[t].att => m[2] <= tasks[t].got
    BY <2>1 DEF Honest, InOrder
  <2>3. /\ tasks'[t].att = tasks[t].att
        /\ \A u \in Tasks : u # t => tasks'[u] = tasks[u]
        /\ \/ tasks'[t].pc \in {"finishing", "preparing"} /\ tasks'[t].got = tasks[t].got
           \/ tasks'[t].pc = "failing" /\ tasks'[t].verdict \notin {"failed", "permanent"}
    BY <1>13, GotoMemory, FailMemory DEF RecordReceipt, RecordFails, PCs, Verdicts
  <2> QED
    BY <2>1, <2>2, <2>3, HonestMove DEF Fine, Working, InFlight
<1>14. ASSUME NEW t \in Tasks, Abandon(t) PROVE Fine
  <2>1. Ends /\ UNCHANGED <<wire, landed>>
    BY <1>3, <1>14 DEF Abandon, world
  <2> QED
    BY <1>1, <1>14, <2>1, ReceiptsStep DEF KeepsRows
<1>15. ASSUME NEW t \in Tasks, BookFailure(t) PROVE Fine
  <2> DEFINE a == tasks[t].att
  <2>1. /\ a \in 1..Len(attempts) /\ KeepsRows /\ SameStatus({a}) /\ SameAge({})
        /\ attempts'[a].status = "failed" => tasks[t].verdict \in {"failed", "permanent"}
    BY <1>15, FailureRows DEF KeepsRows
  <2>2. Done(t) /\ tasks[t].pc = "failing" /\ UNCHANGED <<wire, landed>>
    BY <1>15 DEF BookFailure, world
  <2>3. attempts'[a].status = "failed" => \A m \in Calls : m[1] # a
    BY <2>1, <2>2 DEF Honest, FailedIsClean
  <2>4. \A u \in Tasks : tasks'[u].pc \in InFlight => tasks[u].att # a
    BY <2>2, DoneMemory DEF Honest, OneWorker, Working, InFlight
  <2>5. Ends
    BY <1>3, <2>2
  <2> HIDE DEF a
  <2>6. \A b \in 1..Len(attempts) : attempts'[b].status = "failed" =>
          \/ attempts[b].status = "failed"
          \/ /\ \A m \in Calls : m[1] # b
             /\ \A u \in Tasks : tasks'[u].pc \in InFlight => tasks[u].att # b
    BY <2>1, <2>3, <2>4 DEF SameStatus
  <2>7. \A b \in 1..Len(attempts) : attempts'[b].old => attempts[b].old
    BY <2>1 DEF SameAge
  <2> QED
    BY <2>1, <2>2, <2>5, <2>6, <2>7, HonestRows DEF Fine
<1>16. ASSUME NEW t \in Tasks, BookSuccess(t) PROVE Fine
  <2> DEFINE a == tasks[t].att
  <2>1. a \in 1..Len(attempts)
    BY <1>16 DEF BookSuccess, TypeInv, Holds, Working
  <2>2. /\ KeepsRows /\ SameStatus({a}) /\ SameAge({}) /\ attempts'[a].status = "sent"
    BY <1>16, <2>1, StatusRow DEF BookSuccess, AttemptStatuses, KeepsRows
  <2>3. Ends /\ UNCHANGED <<wire, landed>>
    BY <1>3, <1>16 DEF BookSuccess, world
  <2> HIDE DEF a
  <2> QED
    BY <2>2, <2>3, HonestRows DEF Fine, SameStatus, SameAge
<1>17. ASSUME NEW p \in Posts, ConfirmSent(p) PROVE Fine
  <2> DEFINE a == LastAttempt(p)
  <2>1. a \in 1..Len(attempts)
    BY <1>17, LastExists DEF ConfirmSent, Unresolved
  <2>2. /\ KeepsRows /\ SameStatus({a}) /\ SameAge({}) /\ attempts'[a].status = "sent"
    BY <1>17, <2>1, StatusRow DEF ConfirmSent, AttemptStatuses, KeepsRows
  <2>3. Ends /\ UNCHANGED <<wire, landed>>
    BY <1>4, <1>17 DEF ConfirmSent, world
  <2> HIDE DEF a
  <2> QED
    BY <2>2, <2>3, HonestRows DEF Fine, SameStatus, SameAge
<1>18. ASSUME NEW p \in Posts, ConfirmAbsent(p) PROVE Fine
  <2> DEFINE a == LastAttempt(p)
  <2>1. a \in 1..Len(attempts) /\ attempts[a].post = p /\ attempts[a].old
    BY <1>18, LastExists DEF ConfirmAbsent, Unresolved
  <2>2. /\ KeepsRows /\ SameStatus({a}) /\ SameAge({})
    BY <1>18, <2>1, StatusRow DEF ConfirmAbsent, AttemptStatuses, KeepsRows
  <2>3. Ends /\ UNCHANGED <<wire, landed, tasks>> /\ NothingLanded(p)
    BY <1>4, <1>18 DEF ConfirmAbsent, world
  <2>4. \A m \in Calls : m[1] # a
    BY <2>1, <2>3 DEF Calls, NothingLanded, Honest, WireYoung
  <2>5. \A u \in Tasks : tasks[u].pc \in InFlight => tasks[u].att # a
    BY <2>1 DEF Honest, InFlightYoung
  <2> HIDE DEF a
  <2>6. \A b \in 1..Len(attempts) : attempts'[b].status = "failed" =>
          \/ attempts[b].status = "failed"
          \/ /\ \A m \in Calls : m[1] # b
             /\ \A u \in Tasks : tasks'[u].pc \in InFlight => tasks[u].att # b
    BY <2>2, <2>3, <2>4, <2>5 DEF SameStatus
  <2> QED
    BY <2>2, <2>3, <2>6, HonestRows DEF Fine, SameAge
<1>19. ASSUME NEW call \in wire, Land(call) \/ Drop(call) PROVE Fine
  <2>1. /\ UNCHANGED <<attempts, tasks>> /\ Calls' \subseteq Calls /\ wire' \subseteq wire
        /\ wire' \cap landed' = {}
    BY <1>19 DEF Land, Drop, Calls, table, Honest, OnceEach
  <2>2. Honest'
    BY <2>1 DEF Honest, InFlightYoung, OneWorker, OnceEach, CallsCount, InOrder, WireYoung,
       FailedIsClean
  <2>3. \A a : Live(a)' => Live(a)
    BY <2>1 DEF Live
  <2> QED
    BY <1>2, <2>1, <2>2, <2>3 DEF Fine
<1>20. ASSUME NEW a \in 1..MaxRows, Age(a) PROVE Fine
  <2>1. a \in 1..Len(attempts)
    BY <1>20 DEF Age, TypeInv, TypeOK
  <2>2. /\ KeepsRows /\ SameStatus({}) /\ SameAge({a})
    BY <1>20, <2>1, OldRow DEF Age, KeepsRows
  <2>3. /\ Ends /\ UNCHANGED <<wire, landed>>
        /\ \A m \in wire : m[1] # a
        /\ \A u \in Tasks : tasks[u].pc \in InFlight => tasks[u].att # a
    BY <1>4, <1>20 DEF Age, world, InFlight
  <2> QED
    BY <2>2, <2>3, HonestRows DEF Fine, SameStatus, SameAge
<1>21. ASSUME Recover PROVE Fine
  <2>1. /\ KeepsRows /\ SameStatus(Interrupted) /\ SameAge({})
        /\ \A b \in Interrupted : attempts'[b].status = "uncertain"
    BY <1>21, RecoverRows DEF KeepsRows
  <2>2. Ends /\ UNCHANGED <<wire, landed>>
    BY <1>4, <1>21 DEF Recover, world
  <2> QED
    BY <2>1, <2>2, HonestRows DEF Fine, SameStatus, SameAge
<1>22. ASSUME UNCHANGED <<attempts, tasks, wire, landed>> PROVE Fine
  BY <1>1, <1>2, <1>4, <1>22
<1>23. ASSUME \/ NextDay \/ ExpireNews \/ UNCHANGED vars
              \/ \E c \in Channels : ChannelStep(c)
              \/ \E p \in Posts : Reject(p) \/ DemandReview(p) \/ Prepare(p) \/ Refresh(p)
       PROVE  Fine
  BY <1>22, <1>23 DEF NextDay, ExpireNews, vars, ChannelStep, AutopostOff, DigestOff,
     AutopostOn, Reject, DemandReview, Prepare, Refresh, table, world
<1>24. ASSUME NEW t \in Tasks, Call(t) PROVE Fine
  BY <1>2, <1>24, HonestCall DEF Fine, Call, table
<1> HIDE DEF Ends
<1>25. Fine => Goal
  BY DEF Goal
<1>26. Goal
  BY <1>5, <1>6, <1>7, <1>8, <1>9, <1>10, <1>11, <1>12, <1>13, <1>14, <1>15, <1>16, <1>17,
     <1>18, <1>19, <1>20, <1>21, <1>23, <1>24, <1>25
  DEF Next, TaskStep, SendStep, Telegram, PostStep
<1> QED
  BY <1>26 DEF Goal, Fine
LEMMA HonestAlways == Spec => [](TypeInv /\ Traced /\ Honest)
<1>1. Init => TypeInv /\ Traced /\ Honest
  <2> SUFFICES ASSUME Init PROVE TypeInv /\ Traced /\ Honest
    OBVIOUS
  <2>1. /\ wire = {} /\ landed = {} /\ Calls = {}
        /\ \A t \in Tasks : tasks[t].pc = "idle"
    BY DEF Init, Calls, Idle
  <2>2. Honest
    BY <2>1 DEF Honest, InFlightYoung, OneWorker, OnceEach, CallsCount, InOrder, WireYoung,
       FailedIsClean, Working, InFlight
  <2> QED
    BY <2>2, InitType DEF Init, Traced, Unresolved
<1>2. TypeInv /\ Traced /\ Honest /\ [Next]_vars => (TypeInv /\ Traced /\ Honest)'
  BY NextType, NextTraced, NextHonest, HonestClaim
<1> QED
  BY <1>1, <1>2, PTL DEF Spec

\* An attempt whose slot of the quota is given back has put nothing into the
\* channel and never will, however long its bookkeeping takes.
THEOREM FailedIsSilent == Spec => []FailedReachedNobody
<1>1. Honest => FailedReachedNobody
  BY DEF Honest, CallsCount, Calls, FailedReachedNobody
<1> QED
  BY <1>1, HonestAlways, PTL

\* A published post has an attempt: the quota counts finitely many posts.
PublishedTraced == \A p \in Posts : status[p] = "published" => AttemptsOf(p) # {}

LEMMA NextPublishedTraced ==
  ASSUME TypeInv, Traced, Honest, PublishedTraced, [Next]_vars
  PROVE  PublishedTraced'
<1>1. \A p \in Posts : AttemptsOf(p) \subseteq AttemptsOf(p)'
  <2>1. CASE KeepsRows
    BY <2>1, RowsTyped DEF AttemptsOf, KeepsRows, Extends
  <2>2. ASSUME NEW t \in Tasks, NEW p \in Posts, Claim(t, p)
        PROVE  \A q \in Posts : AttemptsOf(q) \subseteq AttemptsOf(q)'
    <3>1. /\ attempts' \in Seq(Row) /\ Len(attempts') = Len(attempts) + 1
          /\ \A b \in 1..Len(attempts) : attempts'[b] = attempts[b]
      BY <2>2, ClaimRows
    <3> QED
      BY <3>1, RowsTyped DEF AttemptsOf
  <2> QED
    BY <2>1, <2>2, NextHonest
<1>2. ASSUME NEW p \in Posts, status'[p] = "published"
      PROVE  status[p] = "published" \/ AttemptsOf(p) # {}
  <2>1. ASSUME NEW t \in Tasks, BookSuccess(t) PROVE status[p] = "published" \/ AttemptsOf(p) # {}
    <3>1. /\ tasks[t].att \in AttemptsOf(tasks[t].post)
          /\ \A q \in Posts : q # tasks[t].post => status'[q] = status[q]
      BY <2>1, RowsTyped DEF BookSuccess, TypeInv, TypeOK, Holds, Working, AttemptsOf
    <3> QED
      BY <1>2, <3>1
  <2>2. ASSUME NEW q \in Posts, ConfirmSent(q) PROVE status[p] = "published" \/ AttemptsOf(p) # {}
    <3>1. /\ LastAttempt(q) \in AttemptsOf(q)
          /\ \A r \in Posts : r # q => status'[r] = status[r]
      BY <2>2, LastExists, RowsTyped
         DEF ConfirmSent, AttemptsOf, Unresolved, TypeInv, TypeOK
    <3> QED
      BY <1>2, <3>1
  <2>3. ASSUME NEW t \in Tasks, NEW q \in Posts, Claim(t, q) PROVE status[p] = "published"
    BY <1>2, <2>3 DEF Claim, TypeInv, TypeOK
  <2>4. ASSUME NEW t \in Tasks, BookFailure(t) PROVE status[p] = "published"
    BY <1>2, <2>4 DEF BookFailure, TypeInv, TypeOK, Holds, Working, Claimable, Task, Verdicts
  <2>5. ASSUME NEW t \in Tasks, MarkDuplicate(t) PROVE status[p] = "published"
    BY <1>2, <2>5 DEF MarkDuplicate, TypeInv, TypeOK, Holds
  <2>6. ASSUME NEW q \in Posts, \/ ConfirmAbsent(q) \/ Reject(q) \/ DemandReview(q)
                                \/ Prepare(q) \/ Refresh(q)
        PROVE  status[p] = "published"
    BY <1>2, <2>6 DEF ConfirmAbsent, Reject, DemandReview, Prepare, Refresh, TypeInv, TypeOK
  <2>7. ASSUME \/ Recover \/ ExpireNews \/ \E c \in Channels : ChannelStep(c)
        PROVE  status[p] = "published"
    BY <1>2, <2>7 DEF Recover, ExpireNews, ChannelStep, AutopostOff, DigestOff, AutopostOn, table
  <2>8. ASSUME UNCHANGED status PROVE status[p] = "published"
    BY <1>2, <2>8
  <2>9. ASSUME NEW t \in Tasks,
               \/ \E q \in Posts : Pick(t, q)
               \/ Refuse(t) \/ FindDuplicate(t) \/ PrepareFails(t) \/ Call(t) \/ Acknowledge(t)
               \/ TelegramRefuses(t) \/ LoseAnswer(t) \/ RecordReceipt(t) \/ RecordFails(t)
               \/ BookTooLate(t) \/ Abandon(t)
        PROVE  UNCHANGED status
    BY <2>9 DEF Pick, Refuse, FindDuplicate, PrepareFails, Call, Acknowledge, TelegramRefuses,
       LoseAnswer, RecordReceipt, RecordFails, BookTooLate, Abandon, table
  <2>10. ASSUME \/ Telegram \/ NextDay \/ UNCHANGED vars \/ \E a \in 1..MaxRows : Age(a)
         PROVE  UNCHANGED status
    BY <2>10 DEF Telegram, Land, Drop, NextDay, Age, vars, table
  <2>11. ASSUME NEW t \in Tasks, ClaimPicked(t) PROVE status[p] = "published"
    BY <2>3, <2>11 DEF ClaimPicked, TypeInv, Holds
  <2> QED
    BY <2>1, <2>2, <2>3, <2>4, <2>5, <2>6, <2>7, <2>8, <2>9, <2>10, <2>11
    DEF Next, TaskStep, SendStep, ClaimForOwner, PostStep
<1> QED
  BY <1>1, <1>2 DEF PublishedTraced

\* The attempts of owner o on day d that count against Telegram.
LiveOn(o, d) ==
  {a \in 1..Len(attempts) : /\ OwnerOfPost(attempts[a].post) = o
                            /\ attempts[a].day = d /\ Live(a)}

WithinQuota ==
  \A o \in Owners, d \in Days : Cardinality(LiveOn(o, d)) <= DailyLimit[o]

LEMMA LedgerFinite ==
  ASSUME TypeInv
  PROVE  /\ \A S \in SUBSET (1..Len(attempts)) :
               /\ IsFiniteSet(S) /\ Cardinality(S) \in Nat
               /\ \A T \in SUBSET S : Cardinality(T) <= Cardinality(S)
         /\ IsFiniteSet({attempts[a].post : a \in 1..Len(attempts)})
<1>1. IsFiniteSet(1..Len(attempts))
  BY RowsTyped, FS_Interval
<1>2. \A S \in SUBSET (1..Len(attempts)) :
        /\ IsFiniteSet(S) /\ Cardinality(S) \in Nat
        /\ \A T \in SUBSET S : Cardinality(T) <= Cardinality(S)
  BY <1>1, FS_Subset, FS_CardinalityType
<1> DEFINE posts == {attempts[a].post : a \in 1..Len(attempts)}
           f == [a \in 1..Len(attempts) |-> attempts[a].post]
<1>3. f \in Surjection(1..Len(attempts), posts)
  BY DEF Surjection
<1>4. IsFiniteSet(posts)
  <2> HIDE DEF posts, f
  <2> QED
    BY <1>1, <1>3, FS_Surjection
<1> QED
  BY <1>2, <1>4

\* The slots a claim counts cover every attempt that is or may come out.
LEMMA ClaimWithinQuota ==
  ASSUME TypeInv, Honest, PublishedTraced, WithinQuota,
         NEW t \in Tasks, tasks[t].pc \notin Working, NEW p \in Posts, Claim(t, p)
  PROVE  WithinQuota'
<1> DEFINE n == Len(attempts) + 1
           o == OwnerOfPost(p)
<1>1. /\ Len(attempts) \in Nat
      /\ \A b \in 1..Len(attempts) : attempts'[b] = attempts[b]
      /\ attempts'[n].post = p /\ attempts'[n].day = day
      /\ Len(attempts') = n
  BY ClaimRows, RowsTyped
<1>2. o \in Owners /\ day \in Days /\ DailyLimit[o] \in Nat
  BY DeliveryAssumption DEF OwnerOfPost, TypeInv, TypeOK
<1>3. \A b \in 1..Len(attempts) : Live(b) => attempts[b].status # "failed"
  BY DEF Live, Honest, CallsCount, InFlightYoung
<1>4. LiveOn(o, day) \subseteq Reservations(o) /\ Reservations(o) \subseteq 1..Len(attempts)
  BY <1>3, RowsTyped DEF LiveOn, Reservations
<1>5. Cardinality(Unledgered(o)) \in Nat
  <2>1. Unledgered(o) \subseteq {attempts[a].post : a \in 1..Len(attempts)}
    BY RowsTyped DEF Unledgered, PublishedTraced, AttemptsOf
  <2> QED
    BY <2>1, LedgerFinite, FS_Subset, FS_CardinalityType
<1>6. /\ Cardinality(LiveOn(o, day)) <= Cardinality(Reservations(o))
      /\ Cardinality(Reservations(o)) \in Nat
      /\ Cardinality(LiveOn(o, day)) \in Nat /\ IsFiniteSet(LiveOn(o, day))
  BY <1>4, LedgerFinite
<1>7. Cardinality(Reservations(o)) + Cardinality(Unledgered(o)) < DailyLimit[o]
  BY DEF Claim, Admissible, UsedToday
<1>8. Cardinality(LiveOn(o, day)) + 1 <= DailyLimit[o]
  BY <1>2, <1>5, <1>6, <1>7
<1>9. \A a : Live(a)' => Live(a) \/ a = n
  BY HonestClaim
<1>10. ASSUME NEW r \in Owners, NEW d \in Days
       PROVE  LiveOn(r, d)' \subseteq IF r = o /\ d = day THEN LiveOn(r, d) \cup {n}
                                                        ELSE LiveOn(r, d)
  <2> SUFFICES ASSUME NEW a \in 1..n, OwnerOfPost(attempts'[a].post) = r,
                      attempts'[a].day = d, Live(a)'
               PROVE  \/ a \in LiveOn(r, d)
                      \/ a = n /\ r = o /\ d = day
    BY <1>1 DEF LiveOn, OwnerOfPost
  <2>1. CASE a = n
    BY <1>1, <2>1
  <2>2. CASE a # n
    BY <1>1, <1>9, <2>2 DEF LiveOn
  <2> QED
    BY <2>1, <2>2
<1> HIDE DEF n, o
<1>11. ASSUME NEW r \in Owners, NEW d \in Days
       PROVE  Cardinality(LiveOn(r, d)') <= DailyLimit[r]
  <2>1. /\ IsFiniteSet(LiveOn(r, d)) /\ Cardinality(LiveOn(r, d)) \in Nat
        /\ Cardinality(LiveOn(r, d)) <= DailyLimit[r] /\ DailyLimit[r] \in Nat
    BY LedgerFinite, DeliveryAssumption DEF LiveOn, WithinQuota
  <2>2. CASE r = o /\ d = day
    <3>1. /\ IsFiniteSet(LiveOn(r, d) \cup {n})
          /\ Cardinality(LiveOn(r, d) \cup {n}) <= Cardinality(LiveOn(r, d)) + 1
      <4>1. /\ IsFiniteSet(LiveOn(r, d) \cup {n})
            /\ \/ Cardinality(LiveOn(r, d) \cup {n}) = Cardinality(LiveOn(r, d))
               \/ Cardinality(LiveOn(r, d) \cup {n}) = Cardinality(LiveOn(r, d)) + 1
        BY <2>1, FS_AddElement, Zenon
      <4> QED
        BY <2>1, <4>1
    <3>2. /\ Cardinality(LiveOn(r, d)') <= Cardinality(LiveOn(r, d) \cup {n})
          /\ IsFiniteSet(LiveOn(r, d)')
      BY <1>10, <2>2, <3>1, FS_Subset
    <3>3. Cardinality(LiveOn(r, d)') \in Nat /\ Cardinality(LiveOn(r, d) \cup {n}) \in Nat
      BY <3>1, <3>2, FS_CardinalityType
    <3> QED
      BY <1>8, <2>1, <2>2, <3>1, <3>2, <3>3
  <2>3. CASE ~(r = o /\ d = day)
    <3>1. Cardinality(LiveOn(r, d)') <= Cardinality(LiveOn(r, d)) /\ IsFiniteSet(LiveOn(r, d)')
      BY <1>10, <2>1, <2>3, FS_Subset
    <3>2. Cardinality(LiveOn(r, d)') \in Nat
      BY <3>1, FS_CardinalityType
    <3> QED
      BY <2>1, <3>1, <3>2
  <2> QED
    BY <2>2, <2>3
<1> QED
  BY <1>11 DEF WithinQuota

LEMMA NextWithinQuota ==
  ASSUME TypeInv, Traced, Honest, PublishedTraced, WithinQuota, [Next]_vars
  PROVE  WithinQuota'
<1>1. CASE KeepsRows /\ \A a : Live(a)' => Live(a)
  <2> SUFFICES ASSUME NEW o \in Owners, NEW d \in Days
               PROVE  Cardinality(LiveOn(o, d)') <= DailyLimit[o]
    BY DEF WithinQuota
  <2>1. LiveOn(o, d)' \subseteq LiveOn(o, d)
    BY <1>1 DEF LiveOn, KeepsRows, Extends, OwnerOfPost
  <2>2. /\ IsFiniteSet(LiveOn(o, d)) /\ Cardinality(LiveOn(o, d)) \in Nat
        /\ Cardinality(LiveOn(o, d)) <= DailyLimit[o] /\ DailyLimit[o] \in Nat
        /\ Cardinality(LiveOn(o, d)') \in Nat
        /\ Cardinality(LiveOn(o, d)') <= Cardinality(LiveOn(o, d))
    <3>1. LiveOn(o, d) \in SUBSET (1..Len(attempts))
      BY DEF LiveOn
    <3>2. LiveOn(o, d)' \in SUBSET (1..Len(attempts))
      BY <2>1, <3>1
    <3> QED
      BY <2>1, <3>1, <3>2, LedgerFinite, DeliveryAssumption DEF WithinQuota
  <2> QED
    BY <2>2
<1> QED
  BY <1>1, NextHonest, ClaimWithinQuota

\* No more posts of an owner reach Telegram on the reservations of one day than
\* the daily limit allows, whatever tasks, crashes, midnights and slow
\* bookkeeping do.
THEOREM QuotaKept == Spec => []QuotaHolds
<1>1. Init => PublishedTraced /\ WithinQuota
  <2> SUFFICES ASSUME Init PROVE PublishedTraced /\ WithinQuota
    OBVIOUS
  <2>1. PublishedTraced
    BY DEF Init, PublishedTraced
  <2>2. ASSUME NEW o \in Owners, NEW d \in Days
        PROVE  Cardinality(LiveOn(o, d)) <= DailyLimit[o]
    <3>1. LiveOn(o, d) = {}
      BY DEF Init, LiveOn
    <3>2. Cardinality(LiveOn(o, d)) = 0 /\ DailyLimit[o] \in Nat
      BY <3>1, FS_EmptySet, DeliveryAssumption
    <3> QED
      BY <3>2
  <2> QED
    BY <2>1, <2>2 DEF WithinQuota
<1>2. TypeInv /\ Traced /\ Honest /\ PublishedTraced /\ WithinQuota /\ [Next]_vars
        => (PublishedTraced /\ WithinQuota)'
  BY NextPublishedTraced, NextWithinQuota
<1>3. TypeInv /\ WithinQuota => QuotaHolds
  <2> SUFFICES ASSUME TypeInv, WithinQuota, NEW o \in Owners, NEW d \in Days
               PROVE  Cardinality({a \in {m[1] : m \in landed} :
                        attempts[a].day = d /\ OwnerOfPost(attempts[a].post) = o})
                        <= DailyLimit[o]
    BY DEF QuotaHolds
  <2> DEFINE out == {a \in {m[1] : m \in landed} :
                       attempts[a].day = d /\ OwnerOfPost(attempts[a].post) = o}
  <2>1. out \subseteq LiveOn(o, d) /\ LiveOn(o, d) \subseteq 1..Len(attempts)
    BY CallsTyped DEF LiveOn, Live, Calls
  <2> HIDE DEF out
  <2>2. /\ Cardinality(out) <= Cardinality(LiveOn(o, d)) /\ Cardinality(out) \in Nat
        /\ Cardinality(LiveOn(o, d)) \in Nat /\ Cardinality(LiveOn(o, d)) <= DailyLimit[o]
    BY <2>1, LedgerFinite DEF WithinQuota
  <2> QED
    BY <2>2, DeliveryAssumption DEF out
<1> QED
  BY <1>1, <1>2, <1>3, HonestAlways, PTL DEF Spec
=============================================================================
