--------------------------- MODULE DeliverySafety ---------------------------
(***************************************************************************)
(* Proofs of the safety properties of Delivery, under the assumption that  *)
(* the transaction after a send does not outlast the ten-minute quarantine *)
(* (SlowBookkeeping = FALSE).  Honest of DeliveryProofs, which needs no    *)
(* such assumption, tells what is known of the calls.                      *)
(***************************************************************************)
EXTENDS DeliveryProofs

Kept == Unresolved \cup {"published"}

\* An attempt in sending is the last one of a post in publishing.
SendingIsLast ==
  \A a \in DOMAIN attempts : attempts[a].status = "sending" =>
    /\ status[attempts[a].post] = "publishing"
    /\ \A b \in DOMAIN attempts : attempts[b].post = attempts[a].post => b <= a

PublishingIsSent ==
  \A p \in Posts : status[p] = "publishing" =>
    \E a \in AttemptsOf(p) : attempts[a].status = "sending"

\* A coroutine at work owns a young attempt in sending.
WorkersSend ==
  \A t \in Tasks : tasks[t].pc \in Working =>
    attempts[tasks[t].att].status = "sending" /\ ~attempts[tasks[t].att].old

\* A message that is out or on its way belongs to the last attempt of a post
\* that is held or published.
CallsKept ==
  \A m \in Calls :
    /\ status[PostOf(m)] \in Kept
    /\ \A b \in AttemptsOf(PostOf(m)) : b <= m[1]

Safe ==
  /\ SendingIsLast /\ PublishingIsSent /\ OneOpenPerChannel
  /\ WorkersSend /\ CallsKept

-----------------------------------------------------------------------------

\* A step that books nothing and calls nobody: rows keep status and age, and no
\* post is taken, given back or published.
LEMMA SafeStays ==
  ASSUME TypeInv, Safe, KeepsRows, SameStatus({}), SameAge({}), Calls' \subseteq Calls,
         \A u \in Tasks : tasks'[u].pc \in Working =>
           tasks[u].pc \in Working /\ tasks'[u].att = tasks[u].att,
         \A p \in Posts : status[p] \in Kept \/ status'[p] \in Kept
                            => status'[p] = status[p]
  PROVE  Safe'
<1>1. /\ DOMAIN attempts' = 1..Len(attempts) /\ DOMAIN attempts = 1..Len(attempts)
      /\ \A a \in 1..Len(attempts) : /\ attempts'[a].post = attempts[a].post
                                     /\ attempts'[a].status = attempts[a].status
                                     /\ attempts'[a].old = attempts[a].old
                                     /\ attempts[a].post \in Posts
      /\ \A p : AttemptsOf(p)' = AttemptsOf(p)
      /\ \A p : AttemptsOf(p) \subseteq 1..Len(attempts)
      /\ \A m \in Calls : PostOf(m)' = PostOf(m) /\ PostOf(m) \in Posts
  BY SameOwners, RowsTyped, CallsTyped DEF SameStatus, SameAge, KeepsRows, Extends, AttemptsOf
<1>2. SendingIsLast'
  BY <1>1 DEF SendingIsLast, Safe, Kept, Unresolved
<1>3. PublishingIsSent'
  BY <1>1 DEF PublishingIsSent, Safe, Kept, Unresolved
<1>4. OneOpenPerChannel'
  BY DEF OneOpenPerChannel, Safe, Kept, Unresolved
<1>5. WorkersSend'
  <2>1. \A u \in Tasks : tasks[u].pc \in Working => tasks[u].att \in 1..Len(attempts)
    BY DEF TypeInv, Holds
  <2> QED
    BY <1>1, <2>1 DEF WorkersSend, Safe
<1>6. CallsKept'
  BY <1>1 DEF CallsKept, Safe
<1> QED
  BY <1>2, <1>3, <1>4, <1>5, <1>6 DEF Safe

\* The steps of a coroutine between its claim and its last transaction.
LEMMA MovesSafe ==
  ASSUME TypeInv, Safe, NEW t \in Tasks,
         \/ PrepareFails(t) \/ LoseAnswer(t) \/ TelegramRefuses(t)
         \/ Acknowledge(t) \/ RecordReceipt(t) \/ RecordFails(t)
  PROVE  Safe'
<1>1. /\ tasks[t].pc \in Working /\ tasks'[t].att = tasks[t].att
      /\ \A u \in Tasks : u # t => tasks'[u] = tasks[u]
  <2>1. ASSUME NEW v \in Verdicts, Fail(t, v)
        PROVE  /\ tasks'[t].att = tasks[t].att
               /\ \A u \in Tasks : u # t => tasks'[u] = tasks[u]
    BY <2>1, FailMemory
  <2>2. ASSUME NEW pc \in PCs, Goto(t, pc)
        PROVE  /\ tasks'[t].att = tasks[t].att
               /\ \A u \in Tasks : u # t => tasks'[u] = tasks[u]
    BY <2>2, GotoMemory
  <2>3. CASE Acknowledge(t)
    <3>1. tasks[t] \in Task /\ tasks \in [Tasks -> Task]
      BY DEF TypeInv, TypeOK
    <3> QED
      BY <2>3, <3>1 DEF Acknowledge, Task, Working
  <2> QED
    BY <2>1, <2>2, <2>3 DEF PrepareFails, LoseAnswer, TelegramRefuses, RecordReceipt, RecordFails,
       Verdicts, PCs, Working
<1>2. KeepsRows /\ SameStatus({}) /\ SameAge({})
  BY Quiet, ReceiptsStep DEF KeepsRows, SameStatus, SameAge, PrepareFails, LoseAnswer,
     TelegramRefuses, Acknowledge, table
<1>3. Calls' \subseteq Calls /\ status' = status
  BY DEF PrepareFails, LoseAnswer, TelegramRefuses, Acknowledge, RecordReceipt, RecordFails,
     Calls, table, world
<1> QED
  BY <1>1, <1>2, <1>3, SafeStays

\* The only step that adds a call: for the last attempt of a post in publishing.
LEMMA CallSafe ==
  ASSUME TypeInv, Safe, NEW t \in Tasks, Call(t)
  PROVE  Safe'
<1> DEFINE call == <<tasks[t].att, tasks[t].got + 1>>
           a == tasks[t].att
<1>1. /\ attempts' = attempts /\ status' = status /\ Calls' = Calls \cup {call}
      /\ tasks[t].pc \in Working /\ a \in 1..Len(attempts) /\ call[1] = a
  BY DEF Call, Calls, table, TypeInv, Holds, Working
<1>2. \A u \in Tasks : tasks'[u].pc \in Working =>
        tasks[u].pc \in Working /\ tasks'[u].att = tasks[u].att
  BY <1>1, GotoMemory DEF Call, PCs
<1>3. /\ status[attempts[a].post] \in Kept
      /\ \A b \in AttemptsOf(attempts[a].post) : b <= a
  BY <1>1, RowsTyped DEF Safe, WorkersSend, SendingIsLast, AttemptsOf, Kept, Unresolved
<1> HIDE DEF call, a
<1>4. CallsKept'
  BY <1>1, <1>3 DEF CallsKept, Safe, PostOf, AttemptsOf
<1>5. SendingIsLast' /\ PublishingIsSent' /\ OneOpenPerChannel' /\ WorkersSend'
  BY <1>1, <1>2 DEF SendingIsLast, PublishingIsSent, OneOpenPerChannel, WorkersSend,
     AttemptsOf, Safe
<1> QED
  BY <1>4, <1>5 DEF Safe

-----------------------------------------------------------------------------
(* A post and its last attempt change together.                            *)

LEMMA SafeOutcome ==
  ASSUME TypeInv, Honest, Safe, NEW a \in 1..Len(attempts), NEW p \in Posts,
         attempts[a].post = p, \A b \in AttemptsOf(p) : b <= a,
         attempts' \in Seq(Row), Extends(attempts', attempts),
         Len(attempts') = Len(attempts), SameStatus({a}), SameAge({}),
         attempts'[a].status # "sending",
         status[p] \in Unresolved, status'[p] # "publishing",
         \A q \in Posts : q # p => status'[q] = status[q],
         UNCHANGED <<wire, landed>>,
         \A u \in Tasks : tasks'[u].pc \in Working =>
           tasks'[u] = tasks[u] /\ tasks[u].att # a,
         \/ status'[p] \in Kept
         \/ \A m \in Calls : m[1] # a
  PROVE  Safe'
<1>1. /\ DOMAIN attempts' = 1..Len(attempts) /\ DOMAIN attempts = 1..Len(attempts)
      /\ \A b \in 1..Len(attempts) : /\ attempts'[b].post = attempts[b].post
                                     /\ attempts'[b].old = attempts[b].old
                                     /\ attempts[b].post \in Posts
                                     /\ b # a => attempts'[b].status = attempts[b].status
      /\ \A q : AttemptsOf(q)' = AttemptsOf(q)
      /\ \A q : AttemptsOf(q) \subseteq 1..Len(attempts)
  BY SameOwners, RowsTyped DEF SameStatus, SameAge, AttemptsOf
<1>2. /\ Calls' = Calls
      /\ \A m \in Calls : /\ PostOf(m)' = PostOf(m) /\ PostOf(m) \in Posts
                          /\ m[1] \in 1..Len(attempts) /\ PostOf(m) = attempts[m[1]].post
                          /\ m[1] \in AttemptsOf(PostOf(m))
  BY <1>1, SameOwners, CallsTyped DEF Calls, PostOf, AttemptsOf
<1>3. \A b \in 1..Len(attempts) : attempts[b].status = "sending" /\ attempts[b].post = p => b = a
  <2> SUFFICES ASSUME NEW b \in 1..Len(attempts), attempts[b].status = "sending",
                      attempts[b].post = p
               PROVE  b = a
    OBVIOUS
  <2>1. a <= b
    BY <1>1 DEF Safe, SendingIsLast
  <2>2. b <= a
    BY <1>1 DEF AttemptsOf
  <2> QED
    BY <2>1, <2>2
<1>4. SendingIsLast'
  BY <1>1, <1>3 DEF SendingIsLast, Safe
<1>5. PublishingIsSent'
  <2> SUFFICES ASSUME NEW q \in Posts, status'[q] = "publishing"
               PROVE  \E b \in AttemptsOf(q) : attempts'[b].status = "sending"
    BY <1>1 DEF PublishingIsSent
  <2>1. q # p /\ status[q] = "publishing"
    OBVIOUS
  <2>2. PICK b \in AttemptsOf(q) : attempts[b].status = "sending"
    BY <2>1 DEF Safe, PublishingIsSent
  <2>3. b # a
    BY <2>1, <2>2 DEF AttemptsOf
  <2> QED
    BY <1>1, <2>2, <2>3
<1>6. OneOpenPerChannel'
  <2>1. \A q \in Posts : status'[q] \in Unresolved => status[q] \in Unresolved
    OBVIOUS
  <2> QED
    BY <2>1 DEF OneOpenPerChannel, Safe
<1>7. \A u \in Tasks : tasks[u].pc \in Working => tasks[u].att \in 1..Len(attempts)
  BY DEF TypeInv, Holds
<1>8. WorkersSend'
  BY <1>1, <1>7 DEF WorkersSend, Safe
<1>9. CallsKept'
  <2> SUFFICES ASSUME NEW m \in Calls
               PROVE  /\ status'[PostOf(m)] \in Kept
                      /\ \A b \in AttemptsOf(PostOf(m)) : b <= m[1]
    BY <1>1, <1>2 DEF CallsKept
  <2>1. /\ status[PostOf(m)] \in Kept
        /\ \A b \in AttemptsOf(PostOf(m)) : b <= m[1]
    BY DEF Safe, CallsKept
  <2>2. CASE m[1] = a
    BY <1>2, <2>1, <2>2
  <2>3. CASE m[1] # a
    <3>1. PostOf(m) # p
      <4>1. a \in AttemptsOf(p)
        BY <1>1 DEF AttemptsOf
      <4> QED
        BY <1>2, <2>1, <2>3, <4>1
    <3> QED
      BY <1>1, <1>2, <2>1, <2>3, <3>1
  <2> QED
    BY <2>2, <2>3
<1> QED
  BY <1>4, <1>5, <1>6, <1>8, <1>9 DEF Safe

\* What a coroutine at work knows of its row, its post and its colleagues.
LEMMA AtWork ==
  ASSUME TypeInv, Honest, Safe, NEW t \in Tasks, tasks[t].pc \in Working
  PROVE  /\ tasks[t].att \in 1..Len(attempts) /\ tasks[t].post \in Posts
         /\ attempts[tasks[t].att].post = tasks[t].post
         /\ attempts[tasks[t].att].status = "sending"
         /\ status[tasks[t].post] = "publishing"
         /\ \A b \in AttemptsOf(tasks[t].post) : b <= tasks[t].att
         /\ \A u \in Tasks : u # t /\ tasks[u].pc \in Working => tasks[u].att # tasks[t].att
<1>1. /\ tasks[t].att \in 1..Len(attempts) /\ tasks[t].post \in Posts
      /\ attempts[tasks[t].att].post = tasks[t].post
  BY DEF TypeInv, Holds, Working
<1>2. attempts[tasks[t].att].status = "sending"
  BY DEF Safe, WorkersSend
<1>3. /\ status[tasks[t].post] = "publishing"
      /\ \A b \in AttemptsOf(tasks[t].post) : b <= tasks[t].att
  BY <1>1, <1>2, RowsTyped DEF Safe, SendingIsLast, AttemptsOf
<1>4. \A u \in Tasks : u # t /\ tasks[u].pc \in Working => tasks[u].att # tasks[t].att
  BY DEF Honest, OneWorker
<1> QED
  BY <1>1, <1>2, <1>3, <1>4

LEMMA BookFailureSafe ==
  ASSUME TypeInv, Honest, Safe, NEW t \in Tasks, BookFailure(t)
  PROVE  Safe'
<1> DEFINE a == tasks[t].att
           p == tasks[t].post
           s == IF tasks[t].verdict \in {"failed", "permanent"}
                THEN "failed" ELSE tasks[t].verdict
<1>1. tasks[t].pc = "failing" /\ tasks[t].pc \in Working /\ Done(t)
      /\ wire' = wire /\ landed' = landed
  BY DEF BookFailure, Working, world
<1>2. /\ a \in 1..Len(attempts) /\ p \in Posts /\ attempts[a].post = p
      /\ attempts[a].status = "sending" /\ status[p] = "publishing"
      /\ \A b \in AttemptsOf(p) : b <= a
      /\ \A u \in Tasks : u # t /\ tasks[u].pc \in Working => tasks[u].att # a
  BY <1>1, AtWork
<1>3. /\ s \in {"failed", "uncertain", "partial"}
      /\ attempts' \in Seq(Row) /\ Len(attempts') = Len(attempts)
      /\ Extends(attempts', attempts)
      /\ SameStatus({a}) /\ SameAge({})
      /\ attempts'[a].status = s
  BY FailureRows
<1>4. /\ status'[p] # "publishing"
      /\ s # "failed" => status'[p] = s
      /\ \A q \in Posts : q # p => status'[q] = status[q]
  BY <1>1, <1>2, <1>3 DEF BookFailure, Holds, TypeInv, TypeOK, Claimable, Working
<1>5. s = "failed" => \A m \in Calls : m[1] # a
  BY <1>1, <1>3 DEF Honest, FailedIsClean
<1>6. \A u \in Tasks : tasks'[u].pc \in Working =>
           tasks'[u] = tasks[u] /\ tasks[u].att # a
  BY <1>1, <1>2, DoneMemory
<1>7. \/ status'[p] \in Kept
      \/ \A m \in Calls : m[1] # a
  BY <1>3, <1>4, <1>5 DEF Kept, Unresolved
<1>8. status[p] \in Unresolved
  BY <1>2 DEF Unresolved
<1> HIDE DEF a, p, s
<1> QED
  BY <1>1, <1>2, <1>3, <1>4, <1>6, <1>7, <1>8, SafeOutcome

LEMMA BookSuccessSafe ==
  ASSUME TypeInv, Honest, Safe, NEW t \in Tasks, BookSuccess(t)
  PROVE  Safe'
<1> DEFINE a == tasks[t].att
           p == tasks[t].post
<1>1. tasks[t].pc \in Working /\ Done(t) /\ wire' = wire /\ landed' = landed
  BY DEF BookSuccess, Working, world
<1>2. /\ a \in 1..Len(attempts) /\ p \in Posts /\ attempts[a].post = p
      /\ status[p] = "publishing"
      /\ \A b \in AttemptsOf(p) : b <= a
      /\ \A u \in Tasks : u # t /\ tasks[u].pc \in Working => tasks[u].att # a
  BY <1>1, AtWork
<1>3. /\ attempts' \in Seq(Row) /\ Len(attempts') = Len(attempts)
      /\ Extends(attempts', attempts)
      /\ SameStatus({a}) /\ SameAge({})
      /\ attempts'[a].status = "sent"
  BY <1>2, StatusRow DEF BookSuccess, AttemptStatuses
<1>4. /\ status'[p] = "published"
      /\ \A q \in Posts : q # p => status'[q] = status[q]
  BY <1>2 DEF BookSuccess, TypeInv, TypeOK
<1>6. \A u \in Tasks : tasks'[u].pc \in Working =>
           tasks'[u] = tasks[u] /\ tasks[u].att # a
  BY <1>1, <1>2, DoneMemory
<1>7. status[p] \in Unresolved /\ status'[p] \in Kept
  BY <1>2, <1>4 DEF Unresolved, Kept
<1> HIDE DEF a, p
<1> QED
  BY <1>1, <1>2, <1>3, <1>4, <1>6, <1>7, SafeOutcome

\* No coroutine works on a post the owner may reconcile.
LEMMA NobodyAtWork ==
  ASSUME TypeInv, Honest, Safe, NEW p \in Posts, status[p] # "publishing"
  PROVE  \A u \in Tasks : tasks[u].pc \in Working => tasks[u].post # p
  BY AtWork

LEMMA ConfirmSentSafe ==
  ASSUME TypeInv, Honest, Safe, Traced, NEW p \in Posts, ConfirmSent(p)
  PROVE  Safe'
<1> DEFINE a == LastAttempt(p)
<1>1. status[p] \in {"partial", "uncertain"} /\ status[p] \in Unresolved
  BY DEF ConfirmSent, Unresolved
<1>2. /\ a \in 1..Len(attempts) /\ attempts[a].post = p
      /\ \A b \in AttemptsOf(p) : b <= a
  BY <1>1, LastExists
<1>3. /\ attempts' \in Seq(Row) /\ Len(attempts') = Len(attempts)
      /\ Extends(attempts', attempts)
      /\ SameStatus({a}) /\ SameAge({})
      /\ attempts'[a].status = "sent"
  BY <1>2, StatusRow DEF ConfirmSent, AttemptStatuses
<1>4. /\ status'[p] = "published" /\ status'[p] \in Kept
      /\ \A q \in Posts : q # p => status'[q] = status[q]
      /\ wire' = wire /\ landed' = landed /\ tasks' = tasks
  BY DEF ConfirmSent, TypeInv, TypeOK, Kept, world
<1>5. \A u \in Tasks : tasks[u].pc \in Working => tasks[u].att # a
  BY <1>1, <1>2, AtWork, NobodyAtWork
<1> HIDE DEF a
<1> QED
  BY <1>1, <1>2, <1>3, <1>4, <1>5, SafeOutcome

\* The quarantine is over, so nothing of the attempt is on its way; the owner
\* saw nothing in the channel, so nothing of it has arrived.
LEMMA ConfirmAbsentSafe ==
  ASSUME TypeInv, Honest, Safe, Traced, NEW p \in Posts, ConfirmAbsent(p)
  PROVE  Safe'
<1> DEFINE a == LastAttempt(p)
<1>1. status[p] \in {"partial", "uncertain"} /\ status[p] \in Unresolved
  BY DEF ConfirmAbsent, Unresolved
<1>2. /\ a \in 1..Len(attempts) /\ attempts[a].post = p
      /\ \A b \in AttemptsOf(p) : b <= a
  BY <1>1, LastExists
<1>3. /\ attempts' \in Seq(Row) /\ Len(attempts') = Len(attempts)
      /\ Extends(attempts', attempts)
      /\ SameStatus({a}) /\ SameAge({})
      /\ attempts'[a].status = "failed"
  BY <1>2, StatusRow DEF ConfirmAbsent, AttemptStatuses
<1>4. /\ status'[p] = "pending"
      /\ \A q \in Posts : q # p => status'[q] = status[q]
      /\ wire' = wire /\ landed' = landed /\ tasks' = tasks
      /\ attempts[a].old /\ NothingLanded(p)
  BY DEF ConfirmAbsent, TypeInv, TypeOK, world
<1>5. \A u \in Tasks : tasks[u].pc \in Working => tasks[u].att # a
  BY <1>1, <1>2, AtWork, NobodyAtWork
<1>6. \A m \in Calls : m[1] # a
  BY <1>2, <1>4 DEF Calls, NothingLanded, Honest, WireYoung
<1> HIDE DEF a
<1> QED
  BY <1>1, <1>2, <1>3, <1>4, <1>5, <1>6, SafeOutcome

-----------------------------------------------------------------------------
(* Telegram, time, recovery, and the claim.                                *)

LEMMA LandSafe ==
  ASSUME TypeInv, Safe, NEW call \in wire, Land(call) \/ Drop(call)
  PROVE  Safe'
<1>1. /\ KeepsRows /\ SameStatus({}) /\ SameAge({})
      /\ status' = status /\ tasks' = tasks /\ Calls' \subseteq Calls
  BY Quiet DEF Land, Drop, table, KeepsRows, SameStatus, SameAge, Calls
<1> QED
  BY <1>1, SafeStays

\* The ten minutes end after the coroutine and its calls.
LEMMA AgeSafe ==
  ASSUME TypeInv, Safe, ~SlowBookkeeping, NEW a \in 1..MaxRows, Age(a)
  PROVE  Safe'
<1>1. a \in 1..Len(attempts)
  BY DEF Age, TypeInv, TypeOK
<1>2. /\ attempts' \in Seq(Row) /\ Len(attempts') = Len(attempts)
      /\ Extends(attempts', attempts) /\ SameStatus({}) /\ SameAge({a})
  BY <1>1, OldRow DEF Age
<1>3. /\ status' = status /\ tasks' = tasks /\ Calls' = Calls
  BY DEF Age, world, Calls
<1>4. /\ DOMAIN attempts' = 1..Len(attempts) /\ DOMAIN attempts = 1..Len(attempts)
      /\ \A b \in 1..Len(attempts) : /\ attempts'[b].post = attempts[b].post
                                     /\ attempts'[b].status = attempts[b].status
                                     /\ b # a => attempts'[b].old = attempts[b].old
      /\ \A p : AttemptsOf(p)' = AttemptsOf(p)
      /\ \A p : AttemptsOf(p) \subseteq 1..Len(attempts)
      /\ \A m \in Calls : PostOf(m)' = PostOf(m)
  BY <1>2, SameOwners, RowsTyped DEF SameStatus, SameAge, AttemptsOf
<1>5. \A u \in Tasks : tasks[u].pc \in Working =>
        tasks[u].att \in 1..Len(attempts) /\ tasks[u].att # a
  BY DEF Age, Working, TypeInv, Holds
<1>6. SendingIsLast' /\ PublishingIsSent' /\ OneOpenPerChannel'
  BY <1>3, <1>4 DEF SendingIsLast, PublishingIsSent, OneOpenPerChannel, Safe
<1>7. WorkersSend'
  BY <1>3, <1>4, <1>5 DEF WorkersSend, Safe
<1>8. CallsKept'
  BY <1>3, <1>4 DEF CallsKept, Safe
<1> QED
  BY <1>6, <1>7, <1>8 DEF Safe

LEMMA RecoverSafe ==
  ASSUME TypeInv, Safe, Recover
  PROVE  Safe'
<1>1. /\ attempts' \in Seq(Row) /\ Len(attempts') = Len(attempts)
      /\ Extends(attempts', attempts)
      /\ SameStatus(Interrupted) /\ SameAge({})
      /\ \A a \in Interrupted : attempts'[a].status = "uncertain"
  BY RecoverRows
<1>2. /\ tasks' = tasks /\ wire' = wire /\ landed' = landed /\ Calls' = Calls
      /\ status' = [p \in Posts |->
           IF status[p] = "publishing" /\ AttemptsOf(p) \cap Interrupted # {}
           THEN "uncertain" ELSE status[p]]
  BY DEF Recover, world, Calls
<1>3. /\ DOMAIN attempts' = 1..Len(attempts) /\ DOMAIN attempts = 1..Len(attempts)
      /\ \A b \in 1..Len(attempts) : /\ attempts'[b].post = attempts[b].post
                                     /\ attempts'[b].old = attempts[b].old
                                     /\ attempts[b].post \in Posts
                                     /\ b \notin Interrupted
                                          => attempts'[b].status = attempts[b].status
      /\ \A q : AttemptsOf(q)' = AttemptsOf(q)
      /\ \A q : AttemptsOf(q) \subseteq 1..Len(attempts)
      /\ \A q, b : b \in AttemptsOf(q) => attempts[b].post = q
  BY <1>1, SameOwners, RowsTyped DEF SameStatus, SameAge, AttemptsOf
<1>4. \A q \in Posts : /\ status'[q] \in Unresolved <=> status[q] \in Unresolved
                       /\ status'[q] \in Kept <=> status[q] \in Kept
                       /\ status'[q] = "publishing" => status[q] = "publishing"
  BY <1>2 DEF Unresolved, Kept
<1>5. \A b \in Interrupted : /\ b \in 1..Len(attempts) /\ attempts[b].old
                             /\ attempts[b].status = "sending"
  BY <1>3 DEF Interrupted
<1>6. SendingIsLast'
  <2> SUFFICES ASSUME NEW b \in 1..Len(attempts), attempts'[b].status = "sending"
               PROVE  /\ status'[attempts[b].post] = "publishing"
                      /\ \A c \in 1..Len(attempts) :
                           attempts[c].post = attempts[b].post => c <= b
    BY <1>3 DEF SendingIsLast
  <2>1. b \notin Interrupted /\ attempts[b].status = "sending"
    BY <1>1, <1>3
  <2>2. /\ status[attempts[b].post] = "publishing"
        /\ \A c \in 1..Len(attempts) : attempts[c].post = attempts[b].post => c <= b
    BY <1>3, <2>1 DEF Safe, SendingIsLast
  <2>3. ASSUME NEW c \in AttemptsOf(attempts[b].post) \cap Interrupted PROVE FALSE
    <3>1. c \in 1..Len(attempts) /\ attempts[c].post = attempts[b].post
          /\ attempts[c].status = "sending"
      BY <1>3, <1>5
    <3>2. c <= b /\ b <= c
      BY <1>3, <2>2, <3>1 DEF Safe, SendingIsLast
    <3>3. b = c
      BY <3>1, <3>2
    <3> QED
      BY <2>1, <3>3
  <2> QED
    BY <1>2, <1>3, <2>2, <2>3
<1>7. PublishingIsSent'
  <2> SUFFICES ASSUME NEW q \in Posts, status'[q] = "publishing"
               PROVE  \E b \in AttemptsOf(q) : attempts'[b].status = "sending"
    BY <1>3 DEF PublishingIsSent
  <2>1. status[q] = "publishing" /\ AttemptsOf(q) \cap Interrupted = {}
    BY <1>2
  <2>2. PICK b \in AttemptsOf(q) : attempts[b].status = "sending"
    BY <2>1 DEF Safe, PublishingIsSent
  <2> QED
    BY <1>3, <2>1, <2>2
<1>8. OneOpenPerChannel'
  BY <1>4 DEF OneOpenPerChannel, Safe
<1>9. WorkersSend'
  <2>1. \A u \in Tasks : tasks[u].pc \in Working => tasks[u].att \in 1..Len(attempts)
    BY DEF TypeInv, Holds
  <2> QED
    BY <1>2, <1>3, <1>5, <2>1 DEF WorkersSend, Safe
<1>10. \A m \in Calls : /\ PostOf(m)' = PostOf(m) /\ PostOf(m) \in Posts
                        /\ m[1] \in 1..Len(attempts)
  BY <1>1, SameOwners, CallsTyped
<1>11. CallsKept'
  BY <1>1, <1>2, <1>3, <1>4, <1>10 DEF CallsKept, Safe
<1> QED
  BY <1>6, <1>7, <1>8, <1>9, <1>11 DEF Safe

LEMMA ClaimSafe ==
  ASSUME TypeInv, Honest, Safe, NEW t \in Tasks, tasks[t].pc \notin Working,
         NEW p \in Posts, Claim(t, p)
  PROVE  Safe'
<1> DEFINE n == Len(attempts) + 1
<1>1. /\ Len(attempts) \in Nat /\ n \notin 1..Len(attempts) /\ n \in Nat
      /\ DOMAIN attempts = 1..Len(attempts) /\ DOMAIN attempts' = 1..n
      /\ \A b \in 1..Len(attempts) : attempts'[b] = attempts[b] /\ b <= n
                                       /\ attempts[b].post \in Posts
      /\ \A b \in 1..n : b \in 1..Len(attempts) \/ b = n
      /\ attempts'[n].post = p /\ attempts'[n].status = "sending"
      /\ attempts'[n].old = FALSE
  <2>1. /\ attempts' \in Seq(Row) /\ Len(attempts') = n
        /\ \A b \in 1..Len(attempts) : attempts'[b] = attempts[b]
        /\ attempts'[n].post = p /\ attempts'[n].status = "sending"
        /\ attempts'[n].old = FALSE
    BY ClaimRows
  <2>2. DOMAIN attempts' = 1..n
    BY <2>1
  <2>3. /\ Len(attempts) \in Nat /\ DOMAIN attempts = 1..Len(attempts)
        /\ \A b \in 1..Len(attempts) : attempts[b].post \in Posts
    BY RowsTyped
  <2> QED
    BY <2>1, <2>2, <2>3
<1>2. /\ status[p] \notin Kept /\ status' = [status EXCEPT ![p] = "publishing"]
      /\ status'[p] = "publishing" /\ \A q \in Posts : q # p => status'[q] = status[q]
      /\ \A q \in Posts : ChannelOf[q] = ChannelOf[p] => status[q] \notin Unresolved
      /\ wire' = wire /\ landed' = landed /\ Calls' = Calls
  BY DEF Claim, Admissible, Kept, Claimable, Unresolved, ChannelBusy, PostsOf, TypeInv,
         TypeOK, Calls
<1>3. /\ tasks'[t].pc = "preparing" /\ tasks'[t].att = n
      /\ tasks'[t].verdict = "none"
      /\ \A u \in Tasks : u # t => tasks'[u] = tasks[u]
  BY DEF Claim, TypeInv, TypeOK
<1>4. \A u \in Tasks : tasks[u].pc \in Working => tasks[u].att \in 1..Len(attempts)
  BY DEF TypeInv, Holds
<1>5. \A m \in Calls : m[1] \in 1..Len(attempts) /\ PostOf(m) \in Posts
                         /\ PostOf(m) = attempts[m[1]].post /\ status[PostOf(m)] \in Kept
  BY CallsTyped DEF PostOf, Safe, CallsKept
<1> HIDE DEF n
<1>6. SendingIsLast'
  <2> SUFFICES ASSUME NEW b \in 1..n, attempts'[b].status = "sending"
               PROVE  /\ status'[attempts'[b].post] = "publishing"
                      /\ \A c \in 1..n : attempts'[c].post = attempts'[b].post => c <= b
    BY <1>1 DEF SendingIsLast
  <2>1. CASE b = n
    BY <1>1, <1>2, <2>1
  <2>2. CASE b # n
    <3>1. /\ b \in 1..Len(attempts) /\ attempts'[b] = attempts[b]
          /\ status[attempts[b].post] = "publishing"
          /\ \A c \in 1..Len(attempts) : attempts[c].post = attempts[b].post => c <= b
      BY <1>1, <2>2 DEF Safe, SendingIsLast
    <3>2. attempts[b].post # p /\ attempts[b].post \in Posts
      BY <1>1, <1>2, <3>1 DEF Kept, Unresolved
    <3> QED
      BY <1>1, <1>2, <3>1, <3>2
  <2> QED
    BY <2>1, <2>2
<1>7. PublishingIsSent'
  <2> SUFFICES ASSUME NEW q \in Posts, status'[q] = "publishing"
               PROVE  \E b \in 1..n : attempts'[b].post = q /\ attempts'[b].status = "sending"
    BY <1>1 DEF PublishingIsSent, AttemptsOf
  <2>1. CASE q = p
    BY <1>1, <2>1 DEF n
  <2>2. CASE q # p
    <3>1. PICK b \in AttemptsOf(q) : attempts[b].status = "sending"
      BY <1>2, <2>2 DEF Safe, PublishingIsSent
    <3>2. b \in 1..Len(attempts) /\ attempts[b].post = q
      BY <1>1, <3>1 DEF AttemptsOf
    <3>3. b \in 1..n
      BY <1>1, <3>2 DEF n
    <3> QED
      BY <1>1, <3>1, <3>2, <3>3
  <2> QED
    BY <2>1, <2>2
<1>8. OneOpenPerChannel'
  BY <1>2 DEF OneOpenPerChannel, Safe
<1>9. WorkersSend'
  <2> SUFFICES ASSUME NEW u \in Tasks, tasks'[u].pc \in Working
               PROVE  /\ attempts'[tasks'[u].att].status = "sending"
                      /\ ~attempts'[tasks'[u].att].old
    BY DEF WorkersSend
  <2>1. CASE u = t
    BY <1>1, <1>3, <2>1
  <2>2. CASE u # t
    BY <1>1, <1>3, <1>4, <2>2 DEF Safe, WorkersSend
  <2> QED
    BY <2>1, <2>2
<1>10. CallsKept'
  <2> SUFFICES ASSUME NEW m \in Calls
               PROVE  /\ status'[attempts'[m[1]].post] \in Kept
                      /\ \A b \in 1..n : attempts'[b].post = attempts'[m[1]].post => b <= m[1]
    BY <1>1, <1>2 DEF CallsKept, AttemptsOf, PostOf
  <2>1. /\ m[1] \in 1..Len(attempts) /\ attempts'[m[1]] = attempts[m[1]]
        /\ attempts[m[1]].post # p /\ attempts[m[1]].post \in Posts
        /\ status[attempts[m[1]].post] \in Kept
        /\ \A b \in 1..Len(attempts) : attempts[b].post = attempts[m[1]].post => b <= m[1]
    BY <1>1, <1>2, <1>5 DEF Safe, CallsKept, AttemptsOf, PostOf
  <2> QED
    BY <1>1, <1>2, <2>1
<1> QED
  BY <1>6, <1>7, <1>8, <1>9, <1>10 DEF Safe

-----------------------------------------------------------------------------

LEMMA InitSafe == Init => Safe
<1> SUFFICES ASSUME Init PROVE Safe
  OBVIOUS
<1>1. /\ attempts = <<>> /\ Calls = {}
      /\ \A t \in Tasks : tasks[t].pc = "idle"
      /\ \A p \in Posts : status[p] \notin Unresolved
  BY DEF Init, Calls, Idle, Unresolved
<1> QED
  BY <1>1 DEF Safe, SendingIsLast, PublishingIsSent, OneOpenPerChannel, WorkersSend,
     CallsKept, Working, Unresolved

\* A step that leaves the ledger and the calls alone.
LEMMA QuietSteps ==
  ASSUME TypeInv, Safe, UNCHANGED <<attempts, wire, landed>>,
         \A u \in Tasks : tasks'[u].pc \in Working => tasks'[u] = tasks[u],
         \A p \in Posts : status[p] \in Kept \/ status'[p] \in Kept
                            => status'[p] = status[p]
  PROVE  Safe'
  BY Quiet, SafeStays DEF KeepsRows, SameStatus, SameAge, Calls

LEMMA NextSafe ==
  ASSUME TypeInv, Traced, Honest, Safe, ~SlowBookkeeping, [Next]_vars
  PROVE  Safe'
<1> USE DEF Kept, Unresolved, Claimable
<1>1. ASSUME NEW t \in Tasks, NEW p \in Posts, Pick(t, p) PROVE Safe'
  <2>1. \A u \in Tasks : tasks'[u].pc \in Working => tasks'[u] = tasks[u]
    <3>1. tasks[t] \in Task /\ tasks \in [Tasks -> Task]
      BY DEF TypeInv, TypeOK
    <3> QED
      BY <1>1, <3>1 DEF Pick, Task, Working
  <2> QED
    BY <1>1, <2>1, QuietSteps DEF Pick, table, world
<1>2. ASSUME NEW t \in Tasks, ClaimPicked(t) PROVE Safe'
  BY <1>2, ClaimSafe DEF ClaimPicked, TypeInv, Holds, Working
<1>3. ASSUME NEW t \in Tasks, NEW p \in Posts, ClaimForOwner(t, p) PROVE Safe'
  BY <1>3, ClaimSafe DEF ClaimForOwner, Working
<1>4. ASSUME NEW t \in Tasks, Refuse(t) PROVE Safe'
  BY <1>4, DoneMemory, QuietSteps DEF Refuse, table, world
<1>5. ASSUME NEW t \in Tasks, FindDuplicate(t) PROVE Safe'
  <2>1. \A u \in Tasks : tasks'[u].pc \in Working => tasks'[u] = tasks[u]
    BY <1>5, GotoMemory DEF FindDuplicate, PCs, Working
  <2> QED
    BY <1>5, <2>1, QuietSteps DEF FindDuplicate, table, world
<1>6. ASSUME NEW t \in Tasks, MarkDuplicate(t) PROVE Safe'
  <2>1. \A q \in Posts : status[q] \in Kept \/ status'[q] \in Kept => status'[q] = status[q]
    BY <1>6 DEF MarkDuplicate, TypeInv, TypeOK
  <2> QED
    BY <1>6, <2>1, DoneMemory, QuietSteps DEF MarkDuplicate, world
<1>7. ASSUME NEW t \in Tasks, BookTooLate(t) PROVE Safe'
  BY <1>7, DoneMemory, QuietSteps DEF BookTooLate, table, world
<1>8. ASSUME NEW t \in Tasks, Abandon(t) PROVE Safe'
  <2>1. \A u \in Tasks : tasks'[u].pc \in Working => tasks'[u] = tasks[u]
    BY <1>8, DoneMemory DEF Abandon
  <2>2. UNCHANGED <<wire, landed, status>>
    BY <1>8 DEF Abandon, world
  <2> QED
    BY <1>8, <2>1, <2>2, ReceiptsStep, SafeStays DEF KeepsRows, Calls
<1>9. ASSUME NextDay PROVE Safe'
  BY <1>9, QuietSteps DEF NextDay, table, world
<1>10. ASSUME NEW p \in Posts, Reject(p) PROVE Safe'
  BY <1>10, QuietSteps DEF Reject, world, TypeInv, TypeOK
<1>11. ASSUME NEW p \in Posts, DemandReview(p) PROVE Safe'
  BY <1>11, QuietSteps DEF DemandReview, world, TypeInv, TypeOK
<1>12. ASSUME NEW p \in Posts, Prepare(p) PROVE Safe'
  BY <1>12, QuietSteps DEF Prepare, world, TypeInv, TypeOK
<1>13. ASSUME NEW p \in Posts, Refresh(p) PROVE Safe'
  BY <1>13, QuietSteps DEF Refresh, world, TypeInv, TypeOK
<1>14. ASSUME ExpireNews PROVE Safe'
  BY <1>14, QuietSteps DEF ExpireNews, Expirable, world, TypeInv, TypeOK
<1>15. ASSUME NEW c \in Channels, AutopostOff(c) PROVE Safe'
  BY <1>15, QuietSteps DEF AutopostOff, world, TypeInv, TypeOK
<1>16. ASSUME NEW c \in Channels, DigestOff(c) PROVE Safe'
  BY <1>16, QuietSteps DEF DigestOff, world, TypeInv, TypeOK
<1>17. ASSUME NEW c \in Channels, AutopostOn(c) PROVE Safe'
  BY <1>17, QuietSteps DEF AutopostOn, table, world
<1>18. ASSUME UNCHANGED vars PROVE Safe'
  BY <1>18, QuietSteps DEF vars
<1>19. ASSUME NEW a \in 1..MaxRows, Age(a) PROVE Safe'
  BY <1>19, AgeSafe
<1> QED
  BY <1>1, <1>2, <1>3, <1>4, <1>5, <1>6, <1>7, <1>8, <1>9, <1>10, <1>11, <1>12, <1>13,
     <1>14, <1>15, <1>16, <1>17, <1>18, <1>19, MovesSafe, CallSafe, BookFailureSafe,
     BookSuccessSafe, ConfirmSentSafe, ConfirmAbsentSafe, LandSafe, RecoverSafe
  DEF Next, TaskStep, SendStep, Telegram, PostStep, ChannelStep

LEMMA SafeAlways ==
  ASSUME ~SlowBookkeeping
  PROVE  Spec => [](TypeInv /\ Traced /\ Honest /\ Safe)
<1>1. Init => Safe
  BY InitSafe
<1>2. TypeInv /\ Traced /\ Honest /\ Safe /\ [Next]_vars => Safe'
  BY NextSafe
<1> QED
  BY <1>1, <1>2, HonestAlways, PTL DEF Spec

\* A channel never has two posts whose outcome is open.
THEOREM OneOpenHolds ==
  ASSUME ~SlowBookkeeping
  PROVE  Spec => []OneOpenPerChannel
<1>1. TypeInv /\ Traced /\ Safe => OneOpenPerChannel
  BY DEF Safe
<1> QED
  BY <1>1, SafeAlways, PTL

\* Posts in publishing and attempts in sending are one to one, so recovery
\* finds every interrupted send.
THEOREM LedgeredHolds ==
  ASSUME ~SlowBookkeeping
  PROVE  Spec => []Ledgered
<1>1. ASSUME TypeInv, Safe PROVE Ledgered
  <2> SUFFICES ASSUME NEW p \in Posts
               PROVE  LET open == {a \in AttemptsOf(p) : attempts[a].status = "sending"}
                      IN IF status[p] = "publishing" THEN \E a \in open : open = {a}
                                                     ELSE open = {}
    BY DEF Ledgered
  <2> DEFINE open == {a \in AttemptsOf(p) : attempts[a].status = "sending"}
  <2>1. \A a \in open : /\ a \in 1..Len(attempts) /\ status[p] = "publishing"
                        /\ \A b \in open : b <= a
    BY <1>1, RowsTyped DEF AttemptsOf, Safe, SendingIsLast
  <2>2. \A a, b \in open : a = b
    <3>1. \A a, b \in open : a \in Int /\ b \in Int /\ a <= b /\ b <= a
      BY <2>1
    <3> QED
      BY <3>1
  <2>3. status[p] = "publishing" => \E a \in open : TRUE
    BY <1>1 DEF Safe, PublishingIsSent
  <2> QED
    BY <2>1, <2>2, <2>3
<1> QED
  BY <1>1, SafeAlways, PTL

\* No replay: whatever is retried, recovered and reconciled, all messages of a
\* post that reach its channel belong to one attempt.
THEOREM NoReplay ==
  ASSUME ~SlowBookkeeping
  PROVE  Spec => []NoDoubleDelivery
<1>1. ASSUME TypeInv, Safe PROVE NoDoubleDelivery
  <2> SUFFICES ASSUME NEW m \in landed, NEW n \in landed, PostOf(m) = PostOf(n)
               PROVE  m[1] = n[1]
    BY DEF NoDoubleDelivery
  <2>1. m \in Calls /\ n \in Calls
    BY DEF Calls
  <2>2. /\ m[1] \in 1..Len(attempts) /\ n[1] \in 1..Len(attempts)
        /\ m[1] \in AttemptsOf(PostOf(m)) /\ n[1] \in AttemptsOf(PostOf(n))
    BY <1>1, <2>1, CallsTyped, RowsTyped DEF AttemptsOf, PostOf
  <2>3. n[1] <= m[1] /\ m[1] <= n[1]
    BY <1>1, <2>1, <2>2 DEF Safe, CallsKept
  <2> QED
    BY <2>2, <2>3
<1> QED
  BY <1>1, SafeAlways, PTL

-----------------------------------------------------------------------------
(* What a step does to the promise.                                        *)

\* The rest of a step's effect on the promise, seen from a post: nothing, ...
Unnoticed ==
  /\ \A p \in Posts : Phase(status'[p]) = Phase(status[p])
  /\ UNCHANGED <<publishedOn, stats, landed>>

\* ... a message that appears, ...
Lands ==
  \E call \in wire : /\ landed' = landed \cup {call}
                     /\ UNCHANGED <<status, publishedOn, stats, attempts>>

\* ... a post that goes back to the queue with nothing of it sent, ...
GivenBack(p) ==
  /\ Phase(status[p]) = "held" /\ Phase(status'[p]) = "free"
  /\ \A q \in Posts : q # p => status'[q] = status[q]
  /\ \A m \in Calls : PostOf(m) # p
  /\ UNCHANGED <<publishedOn, stats, landed>>

\* ... or a post that is published, on day d of the statistics.
Completed(p, d) ==
  /\ Phase(status[p]) = "held" /\ status'[p] = "published"
  /\ \A q \in Posts : q # p => status'[q] = status[q]
  /\ publishedOn' = [publishedOn EXCEPT ![p] = d]
  /\ stats' = [stats EXCEPT ![ChannelOf[p]][d] = @ + 1]
  /\ UNCHANGED landed

Outcome ==
  /\ KeepsRows
  /\ \/ Unnoticed
     \/ Lands
     \/ \E p \in Posts : GivenBack(p)
     \/ \E p \in Posts, d \in Days : Completed(p, d)

LEMMA SameIsUnnoticed ==
  ASSUME UNCHANGED <<status, publishedOn, stats, landed>>
  PROVE  Unnoticed
  BY DEF Unnoticed

LEMMA BookFailureOutcome ==
  ASSUME TypeInv, Honest, Safe, NEW t \in Tasks, BookFailure(t)
  PROVE  Outcome
<1> DEFINE a == tasks[t].att
           p == tasks[t].post
           s == IF tasks[t].verdict \in {"failed", "permanent"}
                THEN "failed" ELSE tasks[t].verdict
<1>1. tasks[t].pc = "failing" /\ tasks[t].pc \in Working
      /\ UNCHANGED <<publishedOn, stats, landed>>
  BY DEF BookFailure, Working, world
<1>2. /\ a \in 1..Len(attempts) /\ p \in Posts /\ attempts[a].post = p
      /\ attempts[a].status = "sending" /\ status[p] = "publishing"
      /\ \A b \in AttemptsOf(p) : b <= a
  BY <1>1, AtWork
<1>3. /\ s \in {"failed", "uncertain", "partial"}
      /\ Len(attempts') = Len(attempts) /\ Extends(attempts', attempts)
  BY FailureRows
<1>4. /\ s # "failed" => status'[p] = s
      /\ s = "failed" => status'[p] \in Claimable
      /\ \A q \in Posts : q # p => status'[q] = status[q]
  BY <1>1, <1>2, <1>3 DEF BookFailure, Holds, TypeInv, TypeOK, Claimable, Working
<1>5. CASE s = "failed"
  <2>1. \A m \in Calls : m[1] # a
    BY <1>1, <1>5 DEF Honest, FailedIsClean
  <2>2. ASSUME NEW m \in Calls PROVE PostOf(m) # p
    <3>1. /\ m[1] \in 1..Len(attempts) /\ m[1] \in AttemptsOf(PostOf(m))
          /\ \A b \in AttemptsOf(PostOf(m)) : b <= m[1]
      BY CallsTyped, RowsTyped DEF AttemptsOf, PostOf, Safe, CallsKept
    <3>2. a \in AttemptsOf(p)
      BY <1>2, RowsTyped DEF AttemptsOf
    <3> QED
      BY <1>2, <2>1, <3>1, <3>2
  <2>3. Phase(status[p]) = "held" /\ Phase(status'[p]) = "free"
    BY <1>2, <1>4, <1>5 DEF Phase, Unresolved, Claimable
  <2> QED
    BY <1>1, <1>2, <1>3, <1>4, <2>2, <2>3 DEF Outcome, GivenBack, KeepsRows
<1>6. CASE s # "failed"
  <2>1. \A q \in Posts : Phase(status'[q]) = Phase(status[q])
    BY <1>2, <1>3, <1>4, <1>6 DEF Phase, Unresolved
  <2> QED
    BY <1>1, <1>3, <2>1 DEF Outcome, Unnoticed, KeepsRows
<1> QED
  BY <1>5, <1>6

LEMMA BookSuccessOutcome ==
  ASSUME TypeInv, Honest, Safe, NEW t \in Tasks, BookSuccess(t)
  PROVE  Outcome
<1> DEFINE a == tasks[t].att
           p == tasks[t].post
<1>1. /\ a \in 1..Len(attempts) /\ p \in Posts /\ status[p] = "publishing"
  BY AtWork DEF BookSuccess, Working
<1>2. /\ Len(attempts') = Len(attempts) /\ Extends(attempts', attempts)
  BY <1>1, StatusRow DEF BookSuccess, AttemptStatuses
<1>3. /\ status'[p] = "published"
      /\ \A q \in Posts : q # p => status'[q] = status[q]
  BY <1>1 DEF BookSuccess, TypeInv, TypeOK
<1>4. Phase(status[p]) = "held"
  BY <1>1 DEF Phase, Unresolved
<1>5. day \in Days
  BY DEF TypeInv, TypeOK
<1>6. Completed(p, day)
  BY <1>3, <1>4 DEF BookSuccess, Completed, world
<1> QED
  BY <1>1, <1>2, <1>5, <1>6 DEF Outcome, KeepsRows

LEMMA ConfirmSentOutcome ==
  ASSUME TypeInv, Honest, Safe, Traced, NEW p \in Posts, ConfirmSent(p)
  PROVE  Outcome
<1> DEFINE a == LastAttempt(p)
<1>1. status[p] \in Unresolved
  BY DEF ConfirmSent, Unresolved
<1>2. a \in 1..Len(attempts)
  BY <1>1, LastExists
<1>3. /\ Len(attempts') = Len(attempts) /\ Extends(attempts', attempts)
  BY <1>2, StatusRow DEF ConfirmSent, AttemptStatuses
<1>4. attempts[a].day \in Days
  BY <1>2, RowsTyped DEF Row
<1>5. Completed(p, attempts[a].day)
  BY <1>1 DEF ConfirmSent, Completed, Phase, TypeInv, TypeOK, world
<1> QED
  BY <1>3, <1>4, <1>5 DEF Outcome, KeepsRows

LEMMA ConfirmAbsentOutcome ==
  ASSUME TypeInv, Honest, Safe, Traced, NEW p \in Posts, ConfirmAbsent(p)
  PROVE  Outcome
<1> DEFINE a == LastAttempt(p)
<1>1. status[p] \in Unresolved
  BY DEF ConfirmAbsent, Unresolved
<1>2. /\ a \in 1..Len(attempts) /\ attempts[a].post = p
      /\ \A b \in AttemptsOf(p) : b <= a
  BY <1>1, LastExists
<1>3. /\ Len(attempts') = Len(attempts) /\ Extends(attempts', attempts)
  BY <1>2, StatusRow DEF ConfirmAbsent, AttemptStatuses
<1>4. /\ status'[p] = "pending"
      /\ \A q \in Posts : q # p => status'[q] = status[q]
      /\ UNCHANGED <<publishedOn, stats, landed>>
      /\ attempts[a].old /\ NothingLanded(p)
  BY DEF ConfirmAbsent, TypeInv, TypeOK, world
<1>5. ASSUME NEW m \in Calls PROVE PostOf(m) # p
  <2>1. CASE m \in landed
    BY <1>4, <2>1 DEF NothingLanded, PostOf
  <2>2. CASE m \in wire
    <3>1. ~attempts[m[1]].old
      BY <2>2 DEF Honest, WireYoung
    <3>2. /\ m[1] \in 1..Len(attempts) /\ m[1] \in AttemptsOf(PostOf(m))
          /\ \A b \in AttemptsOf(PostOf(m)) : b <= m[1]
      BY CallsTyped, RowsTyped DEF AttemptsOf, PostOf, Safe, CallsKept
    <3>3. a \in AttemptsOf(p)
      BY <1>2, RowsTyped DEF AttemptsOf
    <3> QED
      BY <1>2, <1>4, <3>1, <3>2, <3>3
  <2> QED
    BY <2>1, <2>2 DEF Calls
<1>6. Phase(status[p]) = "held" /\ Phase(status'[p]) = "free"
  BY <1>1, <1>4 DEF Phase, Unresolved
<1> QED
  BY <1>3, <1>4, <1>5, <1>6 DEF Outcome, GivenBack, KeepsRows

\* Whatever else happens to a post that is not taken changes no promise.
LEMMA FreeStaysFree ==
  ASSUME TypeInv, UNCHANGED <<attempts, publishedOn, stats, landed>>,
         \A p \in Posts : Phase(status'[p]) = Phase(status[p])
  PROVE  Outcome
  BY Quiet DEF Outcome, KeepsRows, Unnoticed

LEMMA NextOutcome ==
  ASSUME TypeInv, Traced, Honest, Safe, [Next]_vars
  PROVE  \/ \E t \in Tasks, p \in Posts : Claim(t, p) /\ tasks[t].pc \notin Working
         \/ Outcome
<1> DEFINE Goal == \/ \E t \in Tasks, p \in Posts : Claim(t, p) /\ tasks[t].pc \notin Working
                   \/ Outcome
<1> HIDE DEF Goal
<1>1. ASSUME UNCHANGED <<status, publishedOn, stats, landed, attempts>> PROVE Outcome
  BY <1>1, FreeStaysFree
<1>2. ASSUME NEW t \in Tasks,
             \/ \E p \in Posts : Pick(t, p)
             \/ Refuse(t) \/ FindDuplicate(t) \/ PrepareFails(t) \/ Call(t) \/ Acknowledge(t)
             \/ TelegramRefuses(t) \/ LoseAnswer(t) \/ BookTooLate(t)
      PROVE  Outcome
  BY <1>1, <1>2 DEF Pick, Refuse, FindDuplicate, PrepareFails, Call, Acknowledge,
     TelegramRefuses, LoseAnswer, BookTooLate, table, world
<1>3. ASSUME NEW t \in Tasks, RecordReceipt(t) \/ RecordFails(t) \/ Abandon(t)
      PROVE  Outcome
  BY <1>3, ReceiptsStep, SameIsUnnoticed
     DEF Outcome, KeepsRows, RecordReceipt, RecordFails, Abandon, world
<1>4. ASSUME NEW t \in Tasks, MarkDuplicate(t) PROVE Outcome
  <2>1. tasks[t].post \in Posts
    BY <1>4 DEF TypeInv, Holds, MarkDuplicate
  <2>2. \A q \in Posts : Phase(status'[q]) = Phase(status[q])
    BY <1>4, <2>1 DEF MarkDuplicate, Phase, Unresolved, TypeInv, TypeOK
  <2> QED
    BY <1>4, <2>2, FreeStaysFree DEF MarkDuplicate, world
<1>5. ASSUME NEW t \in Tasks, ClaimPicked(t) PROVE Goal
  BY <1>5 DEF Goal, ClaimPicked, TypeInv, Holds, Working
<1>6. ASSUME NEW t \in Tasks, NEW p \in Posts, ClaimForOwner(t, p) PROVE Goal
  BY <1>6 DEF Goal, ClaimForOwner, Working
<1>7. ASSUME NEW call \in wire, Land(call) \/ Drop(call) PROVE Outcome
  BY <1>1, <1>7, Quiet DEF Land, Drop, table, Outcome, KeepsRows, Lands
<1>8. ASSUME NEW a \in 1..MaxRows, Age(a) PROVE Outcome
  <2>1. a \in 1..Len(attempts)
    BY <1>8 DEF Age, TypeInv, TypeOK
  <2> QED
    BY <1>8, <2>1, OldRow, SameIsUnnoticed DEF Age, Outcome, KeepsRows, world
<1>9. ASSUME NextDay \/ UNCHANGED vars PROVE Outcome
  BY <1>1, <1>9 DEF NextDay, table, world, vars
<1>10. ASSUME Recover PROVE Outcome
  <2>1. \A q \in Posts : Phase(status'[q]) = Phase(status[q])
    BY <1>10 DEF Recover, Phase, Unresolved
  <2> QED
    BY <1>10, <2>1, RecoverRows DEF Recover, Outcome, KeepsRows, Unnoticed, world
<1>11. ASSUME NEW p \in Posts, Reject(p) \/ DemandReview(p) \/ Prepare(p) \/ Refresh(p)
       PROVE  Outcome
  <2>1. \A q \in Posts : Phase(status'[q]) = Phase(status[q])
    BY <1>11 DEF Reject, DemandReview, Prepare, Refresh, Phase, Unresolved, Claimable,
                 TypeInv, TypeOK
  <2> QED
    BY <1>11, <2>1, FreeStaysFree DEF Reject, DemandReview, Prepare, Refresh, world
<1>12. ASSUME ExpireNews PROVE Outcome
  <2>1. \A q \in Posts : Phase(status'[q]) = Phase(status[q])
    BY <1>12 DEF ExpireNews, Expirable, Phase, Unresolved, Claimable
  <2> QED
    BY <1>12, <2>1, FreeStaysFree DEF ExpireNews, world
<1>13. ASSUME NEW c \in Channels, ChannelStep(c) PROVE Outcome
  <2>1. \A q \in Posts : Phase(status'[q]) = Phase(status[q])
    BY <1>13 DEF ChannelStep, AutopostOff, DigestOff, AutopostOn, table, Phase, Unresolved
  <2> QED
    BY <1>13, <2>1, FreeStaysFree DEF ChannelStep, AutopostOff, DigestOff, AutopostOn,
       table, world
<1>14. Outcome => Goal
  BY DEF Goal
<1>15. Goal
  BY <1>2, <1>3, <1>4, <1>5, <1>6, <1>7, <1>8, <1>9, <1>10, <1>11, <1>12, <1>13, <1>14,
     BookFailureOutcome, BookSuccessOutcome, ConfirmSentOutcome, ConfirmAbsentOutcome
  DEF Next, TaskStep, SendStep, Telegram, PostStep
<1> QED
  BY <1>15 DEF Goal
-----------------------------------------------------------------------------
(* One story.                                                              *)

\* Of two posts of one story in one channel at most one is held or published,
\* unless the owner wrote one of them.
ToldOnce ==
  \A p, q \in Posts :
    /\ status[p] \in Kept /\ status[q] \in Kept
    /\ <<p, q>> \in Similar /\ ChannelOf[p] = ChannelOf[q]
    => p \in Manual \/ q \in Manual

LEMMA OutcomeTakesNothing ==
  ASSUME TypeInv, Outcome
  PROVE  \A p \in Posts : status'[p] \in Kept => status[p] \in Kept
<1>1. \A s : s \in Kept <=> Phase(s) # "free"
  BY DEF Phase, Kept, Unresolved
<1>2. CASE Unnoticed
  BY <1>1, <1>2 DEF Unnoticed
<1>3. CASE Lands
  BY <1>3 DEF Lands
<1>4. CASE \E p \in Posts : GivenBack(p)
  BY <1>1, <1>4 DEF GivenBack
<1>5. CASE \E p \in Posts, d \in Days : Completed(p, d)
  BY <1>1, <1>5 DEF Completed
<1> QED
  BY <1>2, <1>3, <1>4, <1>5 DEF Outcome

LEMMA NextToldOnce ==
  ASSUME TypeInv, Traced, Honest, Safe, ToldOnce, [Next]_vars
  PROVE  ToldOnce'
<1>1. CASE Outcome
  BY <1>1, OutcomeTakesNothing DEF ToldOnce
<1>2. ASSUME NEW t \in Tasks, NEW p \in Posts, Claim(t, p) PROVE ToldOnce'
  <2>1. /\ \A q \in Posts : q # p => status'[q] = status[q]
        /\ ~AlreadyTold(p)
    BY <1>2 DEF Claim, Admissible, TypeInv, TypeOK
  <2>2. ASSUME NEW q \in Posts, q # p, status'[q] \in Kept, ChannelOf[p] = ChannelOf[q],
               <<p, q>> \in Similar
        PROVE  p \in Manual
    BY <2>1, <2>2 DEF AlreadyTold, PostsOf, Kept
  <2>3. \A r, q \in Posts : <<r, q>> \in Similar => r # q /\ <<q, r>> \in Similar
    BY DeliveryAssumption
  <2> QED
    BY <2>1, <2>2, <2>3 DEF ToldOnce
<1> QED
  BY <1>1, <1>2, NextOutcome

\* Two posts of one story never stand in one channel, whatever two tasks,
\* restarts and reconciliations do between the check and the send.
THEOREM OneStoryHolds ==
  ASSUME ~SlowBookkeeping
  PROVE  Spec => []OneStory
<1>1. Init => ToldOnce
  BY DEF Init, ToldOnce, Kept, Unresolved
<1>2. TypeInv /\ Traced /\ Honest /\ Safe /\ ToldOnce /\ [Next]_vars => ToldOnce'
  BY NextToldOnce
<1>3. TypeInv /\ Safe /\ ToldOnce => OneStory
  <2> SUFFICES ASSUME TypeInv, Safe, ToldOnce, NEW m \in landed, NEW n \in landed,
                      <<PostOf(m), PostOf(n)>> \in Similar,
                      ChannelOf[PostOf(m)] = ChannelOf[PostOf(n)]
               PROVE  PostOf(m) \in Manual \/ PostOf(n) \in Manual
    BY DEF OneStory
  <2>1. /\ PostOf(m) \in Posts /\ PostOf(n) \in Posts
        /\ status[PostOf(m)] \in Kept /\ status[PostOf(n)] \in Kept
    BY CallsTyped DEF Calls, Safe, CallsKept
  <2> QED
    BY <2>1 DEF ToldOnce
<1> QED
  BY <1>1, <1>2, <1>3, SafeAlways, PTL DEF Spec

-----------------------------------------------------------------------------
(* The statistics.                                                         *)

\* The posts of channel c that stats_daily counts on day d.
PublishedOn(c, d) ==
  {p \in PostsOf(c) : status[p] = "published" /\ publishedOn[p] = d}

Counted ==
  \A c \in Channels, d \in Days :
    IsFiniteSet(PublishedOn(c, d)) /\ stats[c][d] = Cardinality(PublishedOn(c, d))

LEMMA SamePublished ==
  ASSUME Counted, UNCHANGED <<publishedOn, stats>>,
         \A p \in Posts : status'[p] = "published" <=> status[p] = "published"
  PROVE  Counted'
<1>1. \A c \in Channels, d \in Days : PublishedOn(c, d)' = PublishedOn(c, d)
  BY DEF PublishedOn, PostsOf
<1> QED
  BY <1>1 DEF Counted

\* The one step that counts adds the one post that becomes published.
LEMMA CompletedCounted ==
  ASSUME TypeInv, Counted, NEW p \in Posts, NEW d \in Days, Completed(p, d)
  PROVE  Counted'
<1>1. /\ status[p] # "published" /\ status'[p] = "published" /\ publishedOn'[p] = d
      /\ \A q \in Posts : q # p => status'[q] = status[q] /\ publishedOn'[q] = publishedOn[q]
  BY DEF Completed, Phase, Unresolved, TypeInv, TypeOK
<1>2. ChannelOf[p] \in Channels
  BY DeliveryAssumption
<1>3. /\ PublishedOn(ChannelOf[p], d)' = PublishedOn(ChannelOf[p], d) \cup {p}
      /\ p \notin PublishedOn(ChannelOf[p], d)
      /\ stats'[ChannelOf[p]][d] = stats[ChannelOf[p]][d] + 1
  BY <1>1, <1>2 DEF PublishedOn, PostsOf, Completed, TypeInv, TypeOK
<1>4. ASSUME NEW c \in Channels, NEW e \in Days, <<c, e>> # <<ChannelOf[p], d>>
      PROVE  /\ PublishedOn(c, e)' = PublishedOn(c, e)
             /\ stats'[c][e] = stats[c][e]
  <2>1. PublishedOn(c, e)' = PublishedOn(c, e)
    BY <1>1, <1>4 DEF PublishedOn, PostsOf
  <2>2. stats'[c][e] = stats[c][e]
    BY <1>2, <1>4 DEF Completed, TypeInv, TypeOK
  <2> QED
    BY <2>1, <2>2
<1>5. /\ IsFiniteSet(PublishedOn(ChannelOf[p], d)')
      /\ Cardinality(PublishedOn(ChannelOf[p], d)')
           = Cardinality(PublishedOn(ChannelOf[p], d)) + 1
  BY <1>2, <1>3, FS_AddElement DEF Counted
<1> QED
  BY <1>2, <1>3, <1>4, <1>5, SMTT(40) DEF Counted

LEMMA NextCounted ==
  ASSUME TypeInv, Traced, Honest, Safe, Counted, [Next]_vars
  PROVE  Counted'
<1>1. \A s : s = "published" <=> Phase(s) = "closed"
  BY DEF Phase, Unresolved
<1>2. CASE Unnoticed
  BY <1>1, <1>2, SamePublished DEF Unnoticed
<1>3. CASE Lands
  BY <1>3, SamePublished DEF Lands
<1>4. ASSUME NEW p \in Posts, GivenBack(p) PROVE Counted'
  BY <1>1, <1>4, SamePublished DEF GivenBack
<1>5. ASSUME NEW t \in Tasks, NEW p \in Posts, Claim(t, p) PROVE Counted'
  BY <1>5, SamePublished DEF Claim, Admissible, Claimable, TypeInv, TypeOK
<1> QED
  BY <1>2, <1>3, <1>4, <1>5, CompletedCounted, NextOutcome DEF Outcome

\* stats_daily counts each published post once, on the day the post carries.
THEOREM StatsHold ==
  ASSUME ~SlowBookkeeping
  PROVE  Spec => []StatsExact
<1>1. Init => Counted
  <2> SUFFICES ASSUME Init, NEW c \in Channels, NEW d \in Days
               PROVE  /\ IsFiniteSet(PublishedOn(c, d))
                      /\ stats[c][d] = Cardinality(PublishedOn(c, d))
    BY DEF Counted
  <2>1. PublishedOn(c, d) = {} /\ stats[c][d] = 0
    BY DEF Init, PublishedOn, PostsOf
  <2> QED
    BY <2>1, FS_EmptySet
<1>2. TypeInv /\ Traced /\ Honest /\ Safe /\ Counted /\ [Next]_vars => Counted'
  BY NextCounted
<1>3. Counted => StatsExact
  BY DEF Counted, StatsExact, PublishedOn
<1> QED
  BY <1>1, <1>2, <1>3, SafeAlways, PTL DEF Spec

-----------------------------------------------------------------------------
(* The promise.                                                            *)

\* Part two of a post is called only after part one stands in the channel, and
\* no part is called that the post does not have.
PartsInTurn ==
  /\ \A m \in Calls : /\ m[2] <= Parts[PostOf(m)]
                      /\ m[2] = 2 => <<m[1], 1>> \in landed
  /\ \A t \in Tasks : tasks[t].pc \in InFlight /\ tasks[t].got >= 1
                        => <<tasks[t].att, 1>> \in landed

LEMMA TurnsKept ==
  ASSUME TypeInv, PartsInTurn, Extends(attempts', attempts),
         Calls' \subseteq Calls, landed \subseteq landed',
         \A t \in Tasks : tasks'[t].pc \in InFlight =>
           \/ tasks'[t].got = 0
           \/ /\ tasks[t].pc \in InFlight
              /\ tasks'[t].att = tasks[t].att /\ tasks'[t].got = tasks[t].got
  PROVE  PartsInTurn'
<1>1. \A m \in Calls : PostOf(m)' = PostOf(m)
  BY CallsTyped DEF PostOf, Extends
<1> QED
  BY <1>1 DEF PartsInTurn

\* Calls are made one part after the other.
LEMMA CallInTurn ==
  ASSUME TypeInv, PartsInTurn, NEW t \in Tasks, Call(t)
  PROVE  PartsInTurn'
<1> DEFINE call == <<tasks[t].att, tasks[t].got + 1>>
<1>1. /\ tasks[t].pc = "preparing" /\ tasks[t] \in Task /\ tasks[t].got \in 0..2
      /\ tasks[t].got < Parts[tasks[t].post] /\ tasks[t].post \in Posts
      /\ tasks[t].att \in 1..Len(attempts) /\ attempts[tasks[t].att].post = tasks[t].post
  BY DEF Call, TypeInv, TypeOK, Holds, Working, Task
<1>2. /\ tasks'[t].pc = "calling" /\ tasks'[t].att = tasks[t].att
      /\ tasks'[t].got = tasks[t].got
      /\ \A u \in Tasks : u # t => tasks'[u] = tasks[u]
  BY GotoMemory DEF Call, PCs
<1>3. Calls' = Calls \cup {call} /\ landed' = landed /\ attempts' = attempts
  BY DEF Call, Calls, table
<1>4. Parts[tasks[t].post] \in {1, 2}
  BY <1>1, DeliveryAssumption
<1>5. /\ call[2] <= Parts[attempts[call[1]].post]
      /\ call[2] = 2 => <<call[1], 1>> \in landed
  BY <1>1, <1>4 DEF PartsInTurn, InFlight
<1> HIDE DEF call
<1> QED
  BY <1>1, <1>2, <1>3, <1>5 DEF PartsInTurn, InFlight, PostOf

LEMMA AcknowledgeInTurn ==
  ASSUME TypeInv, PartsInTurn, NEW t \in Tasks, Acknowledge(t)
  PROVE  PartsInTurn'
<1>1. tasks[t].pc = "calling" /\ tasks[t] \in Task /\ tasks \in [Tasks -> Task]
      /\ tasks[t].got \in 0..2
  BY DEF Acknowledge, TypeInv, TypeOK, Task
<1>2. /\ tasks'[t].att = tasks[t].att /\ tasks'[t].got = tasks[t].got + 1
      /\ \A u \in Tasks : u # t => tasks'[u] = tasks[u]
  BY <1>1 DEF Acknowledge, Task
<1>3. UNCHANGED <<attempts, wire, landed>> /\ Calls' = Calls
  BY DEF Acknowledge, table, world, Calls
<1>4. <<tasks[t].att, 1>> \in landed
  <2>1. CASE tasks[t].got = 0
    BY <2>1 DEF Acknowledge
  <2>2. CASE tasks[t].got >= 1
    BY <1>1, <2>2 DEF PartsInTurn, InFlight
  <2> QED
    BY <1>1, <2>1, <2>2
<1> QED
  BY <1>2, <1>3, <1>4 DEF PartsInTurn, PostOf

LEMMA NextPartsInTurn ==
  ASSUME TypeInv, Traced, PartsInTurn, [Next]_vars
  PROVE  PartsInTurn'
<1> DEFINE Moves == \A u \in Tasks : tasks'[u].pc \in InFlight =>
             \/ tasks'[u].got = 0
             \/ /\ tasks[u].pc \in InFlight
                /\ tasks'[u].att = tasks[u].att /\ tasks'[u].got = tasks[u].got
<1>1. ASSUME Moves, Extends(attempts', attempts), UNCHANGED <<wire, landed>>
      PROVE  PartsInTurn'
  BY <1>1, TurnsKept DEF Calls
<1>2. ASSUME Moves, UNCHANGED <<attempts, wire, landed>>
      PROVE  PartsInTurn'
  BY <1>1, <1>2, Quiet
<1>3. ASSUME UNCHANGED <<tasks, wire, landed>>, Extends(attempts', attempts)
      PROVE  PartsInTurn'
  BY <1>1, <1>3
<1>4. ASSUME NEW t \in Tasks, Done(t) PROVE Moves
  BY <1>4, DoneMemory DEF Working, InFlight
<1>5. ASSUME NEW t \in Tasks, NEW v \in Verdicts, Fail(t, v) PROVE Moves
  BY <1>5, FailMemory DEF InFlight
<1>6. ASSUME NEW t \in Tasks, NEW pc \in PCs, Goto(t, pc),
             pc \in InFlight => tasks[t].pc \in InFlight
      PROVE  Moves
  BY <1>6, GotoMemory DEF InFlight
<1>7. ASSUME NEW t \in Tasks, NEW p \in Posts, Claim(t, p) PROVE PartsInTurn'
  <2>1. Extends(attempts', attempts)
    <3>1. /\ attempts' \in Seq(Row) /\ Len(attempts') = Len(attempts) + 1
          /\ \A b \in 1..Len(attempts) : attempts'[b] = attempts[b]
      BY <1>7, ClaimRows
    <3> QED
      BY <3>1, RowsTyped DEF Extends
  <2>2. tasks'[t].got = 0 /\ \A u \in Tasks : u # t => tasks'[u] = tasks[u]
    BY <1>7 DEF Claim, TypeInv, TypeOK
  <2>3. Moves
    BY <2>2
  <2> QED
    BY <1>1, <1>7, <2>1, <2>3 DEF Claim
<1>8. ASSUME NEW t \in Tasks, NEW p \in Posts, Pick(t, p) PROVE PartsInTurn'
  <2>1. tasks[t] \in Task /\ tasks \in [Tasks -> Task]
    BY DEF TypeInv, TypeOK
  <2>2. tasks'[t].pc = "picked" /\ \A u \in Tasks : u # t => tasks'[u] = tasks[u]
    BY <1>8, <2>1 DEF Pick, Task
  <2>3. Moves
    BY <2>2 DEF InFlight
  <2> QED
    BY <1>2, <1>8, <2>3 DEF Pick, table, world
<1>9. ASSUME NEW t \in Tasks, Refuse(t) \/ MarkDuplicate(t) \/ BookTooLate(t) PROVE PartsInTurn'
  <2>1. Moves
    BY <1>4, <1>9 DEF Refuse, MarkDuplicate, BookTooLate
  <2> QED
    BY <1>2, <1>9, <2>1 DEF Refuse, MarkDuplicate, BookTooLate, table, world
<1>10. ASSUME NEW t \in Tasks, FindDuplicate(t) PROVE PartsInTurn'
  <2>1. Moves
    BY <1>6, <1>10 DEF FindDuplicate, InFlight, PCs
  <2> QED
    BY <1>2, <1>10, <2>1 DEF FindDuplicate, table, world
<1>11. ASSUME NEW t \in Tasks, PrepareFails(t) \/ LoseAnswer(t) PROVE PartsInTurn'
  <2>1. Moves
    BY <1>5, <1>11 DEF PrepareFails, LoseAnswer, Verdicts
  <2> QED
    BY <1>2, <1>11, <2>1 DEF PrepareFails, LoseAnswer, table, world
<1>12. ASSUME NEW t \in Tasks, TelegramRefuses(t) PROVE PartsInTurn'
  <2>1. Moves
    BY <1>5, <1>12 DEF TelegramRefuses, Verdicts
  <2>2. Calls' \subseteq Calls /\ attempts' = attempts /\ landed' = landed
    BY <1>12 DEF TelegramRefuses, Calls, table
  <2> QED
    BY <2>1, <2>2, Quiet, TurnsKept
<1>13. ASSUME NEW t \in Tasks, RecordReceipt(t) \/ RecordFails(t) \/ Abandon(t)
       PROVE  PartsInTurn'
  <2>1. Moves
    BY <1>4, <1>5, <1>6, <1>13 DEF RecordReceipt, RecordFails, Abandon, Verdicts, PCs, InFlight
  <2>2. Extends(attempts', attempts)
    BY <1>13, ReceiptsStep
  <2> QED
    BY <1>1, <1>13, <2>1, <2>2 DEF RecordReceipt, RecordFails, Abandon, world
<1>14. ASSUME NEW t \in Tasks, BookFailure(t) PROVE PartsInTurn'
  <2>1. Moves
    BY <1>4, <1>14 DEF BookFailure
  <2> QED
    BY <1>1, <1>14, <2>1, FailureRows DEF BookFailure, world
<1>15. ASSUME NEW t \in Tasks, BookSuccess(t) PROVE PartsInTurn'
  <2>1. Moves
    BY <1>4, <1>15 DEF BookSuccess
  <2>2. Extends(attempts', attempts)
    BY <1>15, StatusRow DEF BookSuccess, AttemptStatuses, TypeInv, Holds, Working
  <2> QED
    BY <1>1, <1>15, <2>1, <2>2 DEF BookSuccess, world
<1>16. ASSUME NEW call \in wire, Land(call) \/ Drop(call) PROVE PartsInTurn'
  <2>1. Moves /\ Calls' \subseteq Calls /\ landed \subseteq landed' /\ attempts' = attempts
    BY <1>16 DEF Land, Drop, Calls, table
  <2> QED
    BY <2>1, Quiet, TurnsKept
<1>17. ASSUME NEW a \in 1..MaxRows, Age(a) PROVE PartsInTurn'
  <2>1. a \in 1..Len(attempts)
    BY <1>17 DEF Age, TypeInv, TypeOK
  <2> QED
    BY <1>3, <1>17, <2>1, OldRow DEF Age, world
<1>18. ASSUME Recover PROVE PartsInTurn'
  BY <1>3, <1>18, RecoverRows DEF Recover, world
<1>19. ASSUME NEW p \in Posts, ConfirmSent(p) \/ ConfirmAbsent(p) PROVE PartsInTurn'
  <2>1. LastAttempt(p) \in 1..Len(attempts)
    BY <1>19, LastExists DEF ConfirmSent, ConfirmAbsent, Unresolved
  <2>2. Extends(attempts', attempts)
    BY <1>19, <2>1, StatusRow DEF ConfirmSent, ConfirmAbsent, AttemptStatuses
  <2> QED
    BY <1>3, <1>19, <2>2 DEF ConfirmSent, ConfirmAbsent, world
<1>20. ASSUME UNCHANGED <<attempts, tasks, wire, landed>> PROVE PartsInTurn'
  BY <1>3, <1>20, Quiet
<1>21. ASSUME \/ NextDay \/ ExpireNews \/ UNCHANGED vars
              \/ \E c \in Channels : ChannelStep(c)
              \/ \E p \in Posts : Reject(p) \/ DemandReview(p) \/ Prepare(p) \/ Refresh(p)
       PROVE  PartsInTurn'
  BY <1>20, <1>21 DEF NextDay, ExpireNews, vars, ChannelStep, AutopostOff, DigestOff,
     AutopostOn, Reject, DemandReview, Prepare, Refresh, table, world
<1>22. ASSUME NEW t \in Tasks, ClaimPicked(t) PROVE PartsInTurn'
  BY <1>7, <1>22 DEF ClaimPicked, TypeInv, Holds
<1> HIDE DEF Moves
<1> QED
  BY <1>7, <1>8, <1>9, <1>10, <1>11, <1>12, <1>13, <1>14, <1>15, <1>16, <1>17, <1>18,
     <1>19, <1>21, <1>22, CallInTurn, AcknowledgeInTurn
  DEF Next, TaskStep, SendStep, ClaimForOwner, Telegram, PostStep

LEMMA PromiseStep ==
  ASSUME TypeInv, Traced, Honest, Safe, PartsInTurn, [Next]_vars
  PROVE  [Promise!Next]_(Promise!vars)
<1> DEFINE phase == [p \in Posts |-> Phase(status[p])]
           reached == {<<PostOf(m), m[2]>> : m \in landed}
<1>1. ASSUME KeepsRows, landed' = landed PROVE reached' = reached
  <2>1. \A m \in landed : PostOf(m)' = PostOf(m)
    BY <1>1, SameOwners DEF KeepsRows, Extends, Calls
  <2> QED
    BY <1>1, <2>1
<1>2. ASSUME NEW p \in Posts, \A q \in Posts : q # p => status'[q] = status[q]
      PROVE  phase' = [phase EXCEPT ![p] = Phase(status'[p])]
  BY <1>2
<1>3. ASSUME NEW t \in Tasks, NEW p \in Posts, Claim(t, p)
      PROVE  Promise!Hold(p)
  <2>1. /\ Phase(status[p]) = "free" /\ status[p] \notin Kept /\ status'[p] = "publishing"
        /\ \A q \in Posts : q # p => status'[q] = status[q]
        /\ \A q \in Posts : ChannelOf[q] = ChannelOf[p] => Phase(status[q]) # "held"
        /\ landed' = landed
    BY <1>3 DEF Claim, Admissible, ChannelBusy, PostsOf, Phase, Kept, Unresolved, Claimable,
       TypeInv, TypeOK
  <2>2. \A m \in landed : PostOf(m) # p
    BY <2>1 DEF Safe, CallsKept, Calls
  <2>3. Promise!Untouched(p)
    BY <2>2 DEF Promise!Untouched
  <2>4. reached' = reached
    <3>1. \A m \in landed : PostOf(m)' = PostOf(m)
      BY <1>3, ClaimRows, CallsTyped DEF PostOf, Calls
    <3> QED
      BY <2>1, <3>1
  <2>5. phase' = [phase EXCEPT ![p] = "held"]
    BY <1>2, <2>1 DEF Phase, Unresolved
  <2> QED
    BY <2>1, <2>3, <2>4, <2>5 DEF Promise!Hold
<1>4. ASSUME KeepsRows, Unnoticed PROVE UNCHANGED Promise!vars
  <2>1. phase' = phase /\ reached' = reached
    BY <1>1, <1>4 DEF Unnoticed
  <2> QED
    BY <2>1 DEF Promise!vars
<1>5. ASSUME NEW p \in Posts, KeepsRows, GivenBack(p) PROVE Promise!Release(p)
  <2>1. phase' = [phase EXCEPT ![p] = "free"] /\ reached' = reached /\ phase[p] = "held"
    BY <1>1, <1>2, <1>5 DEF GivenBack
  <2>2. Promise!Untouched(p)
    BY <1>5 DEF Promise!Untouched, GivenBack, Calls
  <2> QED
    BY <2>1, <2>2 DEF Promise!Release
<1>6. ASSUME NEW p \in Posts, NEW d \in Days, KeepsRows, Completed(p, d) PROVE Promise!Close(p)
  <2>1. phase' = [phase EXCEPT ![p] = "closed"] /\ reached' = reached /\ phase[p] = "held"
    BY <1>1, <1>2, <1>6 DEF Completed, Phase, Unresolved
  <2> QED
    BY <2>1 DEF Promise!Close
<1>7. ASSUME NEW call \in wire, landed' = landed \cup {call},
             UNCHANGED <<status, publishedOn, stats, attempts>>
      PROVE  \E p \in Posts : \E k \in 1..Parts[p] : Promise!Appear(p, k)
  <2> DEFINE p == PostOf(call)
             k == call[2]
  <2>1. /\ p \in Posts /\ k \in {1, 2} /\ call = <<call[1], k>>
        /\ call[1] \in 1..Len(attempts) /\ call[1] \in AttemptsOf(p)
        /\ status[p] \in Kept /\ \A b \in AttemptsOf(p) : b <= call[1]
    BY CallsTyped, RowsTyped DEF Calls, Safe, CallsKept, AttemptsOf, PostOf
  <2>2. Parts[p] \in {1, 2} /\ k <= Parts[p] /\ (k = 2 => <<call[1], 1>> \in landed)
    BY <2>1, DeliveryAssumption DEF PartsInTurn, Calls
  <2>3. ASSUME NEW m \in landed, PostOf(m) = p PROVE m[2] # k
    <3>1. /\ m[1] \in 1..Len(attempts) /\ m = <<m[1], m[2]>> /\ m[1] \in AttemptsOf(p)
          /\ \A b \in AttemptsOf(p) : b <= m[1]
      BY <2>3, CallsTyped, RowsTyped DEF Calls, Safe, CallsKept, AttemptsOf, PostOf
    <3>2. m[1] = call[1]
      BY <2>1, <3>1
    <3>3. m # call
      BY DEF Honest, OnceEach
    <3> QED
      BY <2>1, <3>1, <3>2, <3>3
  <2>4. <<p, k>> \notin reached
    BY <2>3
  <2>5. k > 1 => <<p, k - 1>> \in reached
    <3>1. SUFFICES ASSUME k > 1 PROVE <<p, 1>> \in reached
      BY <2>1
    <3>2. <<call[1], 1>> \in landed /\ PostOf(<<call[1], 1>>) = p
      BY <2>1, <2>2, <3>1 DEF PostOf
    <3> QED
      BY <3>2
  <2>6. reached' = reached \cup {<<p, k>>}
    <3>1. \A m : PostOf(m)' = PostOf(m)
      BY <1>7 DEF PostOf
    <3> QED
      BY <1>7, <3>1
  <2>7. phase' = phase /\ phase[p] # "free"
    BY <1>7, <2>1 DEF Phase, Kept, Unresolved
  <2>8. k \in 1..Parts[p]
    BY <2>1, <2>2
  <2> HIDE DEF p, k
  <2>9. Promise!Appear(p, k)
    BY <2>4, <2>5, <2>6, <2>7 DEF Promise!Appear
  <2> QED
    BY <2>1, <2>8, <2>9
<1>8. Outcome => [Promise!Next]_(Promise!vars)
  BY <1>4, <1>5, <1>6, <1>7 DEF Outcome, Lands, Promise!Next
<1> QED
  BY <1>3, <1>8, NextOutcome DEF Promise!Next

\* The detailed delivery implements AtMostOnce: every message of a post appears
\* at most once, in order, while its post is held or published, and a post goes
\* back to the queue only if nothing of it has appeared.
THEOREM PromiseKept ==
  ASSUME ~SlowBookkeeping
  PROVE  Spec => KeepsPromise
<1>1. Init => Promise!Init
  BY DEF Init, Promise!Init, Phase, Unresolved
<1>2. Init => PartsInTurn
  BY DEF Init, PartsInTurn, Calls, Idle, InFlight
<1>3. TypeInv /\ Traced /\ Honest /\ Safe /\ PartsInTurn /\ [Next]_vars => PartsInTurn'
  BY NextPartsInTurn
<1>4. TypeInv /\ Traced /\ Honest /\ Safe /\ PartsInTurn /\ [Next]_vars
        => [Promise!Next]_(Promise!vars)
  BY PromiseStep
<1> QED
  BY <1>1, <1>2, <1>3, <1>4, SafeAlways, PTL DEF Spec, KeepsPromise, Promise!Spec
=============================================================================
