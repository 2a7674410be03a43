-------------------------- MODULE BroadcastProofs --------------------------
(***************************************************************************)
(* Proofs of the safety properties of Broadcast, for any number of         *)
(* processes, also when the connection that holds the advisory lock breaks *)
(* and several of them work at the same time.                              *)
(***************************************************************************)
EXTENDS Broadcast, TLAPS

Holding == {"check", "call", "calling", "book"}
Messages == wire \cup landed
\* No message of the set went to u about b.
NoneTo(b, u, msgs) == \A m \in msgs : ~(m[1] = b /\ m[2] = u)
Untouched(b, u) == NoneTo(b, u, Messages)
Held(b, u) == \E w \in Workers : worker[w].pc \in Holding /\ worker[w].job = <<b, u>>

\* A worker that holds a recipient knows which, and what to book.
HoldersTyped ==
  \A w \in Workers :
    /\ worker[w].pc \in Holding => worker[w].job \in Jobs
    /\ worker[w].pc = "book" => worker[w].verdict # "none"

TypeInv == TypeOK /\ HoldersTyped

\* Before its preview a broadcast has left no trace.
NoTrace ==
  \A b \in Broadcasts, u \in Users : status[b] = "none" /\ fresh[b] =>
    recipient[b][u] = "absent" /\ Untouched(b, u) /\ ~Held(b, u)

\* A recipient that waits or has its final result is in no worker's hands.
AtRest ==
  \A b \in Broadcasts, u \in Users :
    recipient[b][u] \in {"pending", "sent", "failed"} => ~Held(b, u)

HeldAlone ==
  \A w, x \in Workers :
    /\ worker[w].pc \in Holding /\ worker[x].pc \in Holding
    /\ worker[w].job = worker[x].job
    => w = x

\* What a recipient's status says of its messages.
RecipientTrue ==
  \A b \in Broadcasts, u \in Users :
    /\ recipient[b][u] \in {"pending", "failed"} => Untouched(b, u)
    /\ recipient[b][u] = "sent" => \E m \in landed : m[1] = b /\ m[2] = u

\* What a worker's progress says of the messages of its recipient.
Progress(k, msgs, here) ==
  LET b == k.job[1]
      u == k.job[2]
  IN /\ \/ k.pc \in {"check", "call"}
        \/ k.pc = "book" /\ k.verdict \in {"pending", "failed"}
        => NoneTo(b, u, msgs)
     /\ k.pc = "calling" =>
          \A m \in msgs : m[1] = b /\ m[2] = u => m[3] = k.call
     /\ k.pc = "book" /\ k.verdict = "sent" =>
          \E m \in here : m[1] = b /\ m[2] = u

ProgressTrue == \A w \in Workers : Progress(worker[w], Messages, landed)

OneMessage ==
  \A m, n \in Messages : m[1] = n[1] /\ m[2] = n[2] => m[3] = n[3]

Apart == wire \cap landed = {}

Inv == /\ NoTrace /\ AtRest /\ HeldAlone /\ RecipientTrue /\ ProgressTrue
       /\ OneMessage /\ Apart

-----------------------------------------------------------------------------
(* Types.                                                                  *)

\* The initial state is typed.
LEMMA InitTyped == Init => TypeInv
<1> SUFFICES ASSUME Init PROVE TypeInv
  OBVIOUS
<1>1. \A w \in Workers : worker[w] = Down
  BY DEF Init
<1>2. worker \in [Workers -> Worker]
  BY DEF Init, Down, Worker, PCs
<1>3. HoldersTyped
  BY <1>1 DEF HoldersTyped, Down, Holding
<1>4. MaxCooldowns \in Nat
  BY BroadcastAssumption
<1> QED
  BY <1>2, <1>3, <1>4 DEF Init, TypeInv, TypeOK, Statuses, RecipientStatuses

\* What a step may do to the worker's record keeps its type.
LEMMA WorkerTyped ==
  ASSUME TypeInv, NEW w \in Workers, NEW k \in Worker,
         worker' = [worker EXCEPT ![w] = k],
         k.pc \in Holding => k.job \in Jobs,
         k.pc = "book" => k.verdict # "none"
  PROVE  worker' \in [Workers -> Worker] /\ HoldersTyped'
BY DEF TypeInv, TypeOK, HoldersTyped

\* Every action keeps the types.
LEMMA TypeStep == TypeInv /\ [Next]_vars => TypeInv'
<1> SUFFICES ASSUME TypeInv, [Next]_vars PROVE TypeInv'
  OBVIOUS
<1>1. ASSUME NEW b \in Broadcasts, Prepare(b) PROVE TypeInv'
  BY <1>1 DEF Prepare, rows, world, TypeInv, TypeOK, HoldersTyped, Statuses, RecipientStatuses
<1>2. ASSUME NEW b \in Broadcasts, Confirm(b) PROVE TypeInv'
  BY <1>2 DEF Confirm, rows, world, TypeInv, TypeOK, HoldersTyped, Statuses, RecipientStatuses
<1>3. ASSUME NEW b \in Broadcasts, Cancel(b) PROVE TypeInv'
  BY <1>3 DEF Cancel, rows, world, TypeInv, TypeOK, HoldersTyped, Statuses, RecipientStatuses
<1>4. ASSUME NEW b \in Broadcasts, Expire(b) PROVE TypeInv'
  BY <1>4 DEF Expire, rows, world, TypeInv, TypeOK, HoldersTyped, Statuses, RecipientStatuses
<1>5. ASSUME NEW u \in Users, Block(u) PROVE TypeInv'
  BY <1>5 DEF Block, rows, world, TypeInv, TypeOK, HoldersTyped, Statuses, RecipientStatuses
<1>6. ASSUME NEW w \in Workers, Start(w) PROVE TypeInv'
  <2> DEFINE k == [worker[w] EXCEPT !.pc = "recover"]
  <2>1. worker' = [worker EXCEPT ![w] = k]
    BY <1>6 DEF Start, Goto, Worker, PCs, Holding, Jobs, Down, TypeInv, TypeOK, HoldersTyped
  <2>2. /\ k \in Worker /\ (k.pc \in Holding => k.job \in Jobs)
        /\ k.pc = "book" => k.verdict # "none"
    BY <1>6, SMTT(40) DEF Start, Worker, PCs, Holding, Jobs, Down, TypeInv, TypeOK, HoldersTyped
  <2>3. worker' \in [Workers -> Worker] /\ HoldersTyped'
    BY <2>1, <2>2, WorkerTyped
  <2> QED
    BY <1>6, <2>3 DEF Start, rows, world, TypeInv, TypeOK
<1>7. ASSUME NEW w \in Workers, Stop(w) PROVE TypeInv'
  <2> DEFINE k == Down
  <2>1. worker' = [worker EXCEPT ![w] = k]
    BY <1>7 DEF Stop, Worker, PCs, Holding, Jobs, Down, TypeInv, TypeOK, HoldersTyped
  <2>2. /\ k \in Worker /\ (k.pc \in Holding => k.job \in Jobs)
        /\ k.pc = "book" => k.verdict # "none"
    BY <1>7 DEF Stop, Worker, PCs, Holding, Jobs, Down, TypeInv, TypeOK, HoldersTyped
  <2>3. worker' \in [Workers -> Worker] /\ HoldersTyped'
    BY <2>1, <2>2, WorkerTyped
  <2> QED
    BY <1>7, <2>3 DEF Stop, rows, world, TypeInv, TypeOK
<1>8. ASSUME NEW w \in Workers, LoseGuard(w) PROVE TypeInv'
  BY <1>8 DEF LoseGuard, rows, world, TypeInv, TypeOK, HoldersTyped, Statuses, RecipientStatuses
<1>9. ASSUME NEW w \in Workers, LoopFails(w) PROVE TypeInv'
  <2> DEFINE k == [Down EXCEPT !.pc = "recover"]
  <2>1. worker' = [worker EXCEPT ![w] = k]
    BY <1>9 DEF LoopFails, Worker, PCs, Holding, Jobs, Down, TypeInv, TypeOK, HoldersTyped
  <2>2. /\ k \in Worker /\ (k.pc \in Holding => k.job \in Jobs)
        /\ k.pc = "book" => k.verdict # "none"
    BY <1>9 DEF LoopFails, Worker, PCs, Holding, Jobs, Down, TypeInv, TypeOK, HoldersTyped
  <2>3. worker' \in [Workers -> Worker] /\ HoldersTyped'
    BY <2>1, <2>2, WorkerTyped
  <2> QED
    BY <1>9, <2>3 DEF LoopFails, rows, world, TypeInv, TypeOK
<1>10. ASSUME NEW w \in Workers, Recover(w) PROVE TypeInv'
  <2> DEFINE k == [worker[w] EXCEPT !.pc = "purge"]
  <2>1. worker' = [worker EXCEPT ![w] = k]
    BY <1>10 DEF Recover, Goto, Worker, PCs, Holding, Jobs, Down, TypeInv, TypeOK, HoldersTyped
  <2>2. /\ k \in Worker /\ (k.pc \in Holding => k.job \in Jobs)
        /\ k.pc = "book" => k.verdict # "none"
    BY <1>10, SMTT(40) DEF Recover, Worker, PCs, Holding, Jobs, Down, TypeInv, TypeOK, HoldersTyped
  <2>3. worker' \in [Workers -> Worker] /\ HoldersTyped'
    BY <2>1, <2>2, WorkerTyped
  <2> QED
    BY <1>10, <2>3 DEF Recover, rows, world, TypeInv, TypeOK, RecipientStatuses
<1>11. ASSUME NEW w \in Workers, Purge(w) PROVE TypeInv'
  <2> DEFINE k == [worker[w] EXCEPT !.pc = "claim"]
  <2>1. worker' = [worker EXCEPT ![w] = k]
    BY <1>11 DEF Purge, Goto, Worker, PCs, Holding, Jobs, Down, TypeInv, TypeOK, HoldersTyped
  <2>2. /\ k \in Worker /\ (k.pc \in Holding => k.job \in Jobs)
        /\ k.pc = "book" => k.verdict # "none"
    BY <1>11, SMTT(40) DEF Purge, Worker, PCs, Holding, Jobs, Down, TypeInv, TypeOK, HoldersTyped
  <2>3. worker' \in [Workers -> Worker] /\ HoldersTyped'
    BY <2>1, <2>2, WorkerTyped
  <2> QED
    BY <1>11, <2>3 DEF Purge, rows, world, TypeInv, TypeOK, RecipientStatuses, Statuses
<1>12. ASSUME NEW w \in Workers, Claim(w) PROVE TypeInv'
  <2>1. PICK j \in Waiting :
          /\ recipient' = [recipient EXCEPT ![j[1]][j[2]] = "sending"]
          /\ worker' = [worker EXCEPT ![w].pc = "check", ![w].job = j]
    BY <1>12 DEF Claim
  <2> DEFINE k == [worker[w] EXCEPT !.pc = "check", !.job = j]
  <2>2. worker' = [worker EXCEPT ![w] = k]
    BY <2>1
  <2>3. k \in Worker /\ k.job \in Jobs /\ k.pc # "book"
    BY ZenonT(60) DEF Waiting, Worker, PCs, Holding, Jobs, Down, TypeInv, TypeOK, HoldersTyped
  <2>4. worker' \in [Workers -> Worker] /\ HoldersTyped'
    BY <2>2, <2>3, WorkerTyped
  <2>5. recipient' \in [Broadcasts -> [Users -> RecipientStatuses]]
    BY <2>1 DEF Waiting, Jobs, TypeInv, TypeOK, RecipientStatuses
  <2> QED
    BY <1>12, <2>4, <2>5 DEF Claim, rows, world, TypeInv, TypeOK
<1>13. ASSUME NEW w \in Workers, Finish(w) PROVE TypeInv'
  <2> DEFINE k == [worker[w] EXCEPT !.pc = "recover"]
  <2>1. worker' = [worker EXCEPT ![w] = k]
    BY <1>13 DEF Finish, Goto, Worker, PCs, Holding, Jobs, Down, TypeInv, TypeOK, HoldersTyped
  <2>2. /\ k \in Worker /\ (k.pc \in Holding => k.job \in Jobs)
        /\ k.pc = "book" => k.verdict # "none"
    BY <1>13 DEF Finish, Worker, PCs, Holding, Jobs, Down, TypeInv, TypeOK, HoldersTyped
  <2>3. worker' \in [Workers -> Worker] /\ HoldersTyped'
    BY <2>1, <2>2, WorkerTyped
  <2> QED
    BY <1>13, <2>3 DEF Finish, rows, world, TypeInv, TypeOK, Statuses
<1>14. ASSUME NEW w \in Workers, Check(w) PROVE TypeInv'
  <2> DEFINE k == [worker[w] EXCEPT !.pc = IF blocked[worker[w].job[2]] THEN "book" ELSE "call",
                                !.verdict = IF blocked[worker[w].job[2]] THEN "failed" ELSE @]
  <2>1. worker' = [worker EXCEPT ![w] = k]
    BY <1>14 DEF Check, Goto, Book, Worker, PCs, Holding, Jobs, Down, TypeInv, TypeOK,
       HoldersTyped
  <2>2. /\ k \in Worker /\ (k.pc \in Holding => k.job \in Jobs)
        /\ k.pc = "book" => k.verdict # "none"
    BY <1>14, ZenonT(60) DEF Check, Worker, PCs, Holding, Jobs, Down, TypeInv, TypeOK, HoldersTyped
  <2>3. worker' \in [Workers -> Worker] /\ HoldersTyped'
    BY <2>1, <2>2, WorkerTyped
  <2> QED
    BY <1>14, <2>3 DEF Check, rows, world, TypeInv, TypeOK
<1>15. ASSUME NEW w \in Workers, CheckFails(w) PROVE TypeInv'
  <2> DEFINE k == [worker[w] EXCEPT !.pc = "book", !.verdict = "uncertain"]
  <2>1. worker' = [worker EXCEPT ![w] = k]
    BY <1>15 DEF CheckFails, Book, Worker, PCs, Holding, Jobs, Down, TypeInv, TypeOK,
       HoldersTyped
  <2>2. /\ k \in Worker /\ (k.pc \in Holding => k.job \in Jobs)
        /\ k.pc = "book" => k.verdict # "none"
    BY <1>15, ZenonT(60) DEF CheckFails, Worker, PCs, Holding, Jobs, Down, TypeInv, TypeOK, HoldersTyped
  <2>3. worker' \in [Workers -> Worker] /\ HoldersTyped'
    BY <2>1, <2>2, WorkerTyped
  <2> QED
    BY <1>15, <2>3 DEF CheckFails, rows, world, TypeInv, TypeOK
<1>16. ASSUME NEW w \in Workers, Call(w) PROVE TypeInv'
  <2> DEFINE k == [worker[w] EXCEPT !.pc = "calling", !.call = calls + 1]
  <2>1. worker' = [worker EXCEPT ![w] = k]
    BY <1>16 DEF Call, Worker, PCs, Holding, Jobs, Down, TypeInv, TypeOK, HoldersTyped
  <2>2. k \in Worker /\ k.job \in Jobs /\ k.pc # "book"
    <3>1. worker[w] \in Worker /\ calls + 1 \in Nat
      BY DEF TypeInv, TypeOK
    <3>2. worker[w].job \in Jobs
      BY <1>16 DEF Call, TypeInv, HoldersTyped, Holding
    <3> QED
      BY <3>1, <3>2 DEF Worker, PCs
  <2>3. worker' \in [Workers -> Worker] /\ HoldersTyped'
    BY <2>1, <2>2, WorkerTyped
  <2>4. worker[w].job \in Jobs
    BY <1>16 DEF Call, TypeInv, HoldersTyped, Holding
  <2>5. calls' \in Nat /\ wire' \subseteq Broadcasts \X Users \X (1..calls')
    BY <1>16, <2>4 DEF Call, Jobs, TypeInv, TypeOK
  <2>6. landed' \subseteq Broadcasts \X Users \X (1..calls')
    BY <1>16 DEF Call, TypeInv, TypeOK
  <2> QED
    BY <1>16, <2>3, <2>5, <2>6 DEF Call, rows, world, TypeInv, TypeOK
<1>17. ASSUME NEW w \in Workers, Acknowledge(w) PROVE TypeInv'
  <2> DEFINE k == [worker[w] EXCEPT !.pc = "book", !.verdict = "sent"]
  <2>1. worker' = [worker EXCEPT ![w] = k]
    BY <1>17 DEF Acknowledge, Book, Worker, PCs, Holding, Jobs, Down, TypeInv, TypeOK,
       HoldersTyped
  <2>2. /\ k \in Worker /\ (k.pc \in Holding => k.job \in Jobs)
        /\ k.pc = "book" => k.verdict # "none"
    BY <1>17, ZenonT(60) DEF Acknowledge, Worker, PCs, Holding, Jobs, Down, TypeInv, TypeOK, HoldersTyped
  <2>3. worker' \in [Workers -> Worker] /\ HoldersTyped'
    BY <2>1, <2>2, WorkerTyped
  <2> QED
    BY <1>17, <2>3 DEF Acknowledge, rows, world, TypeInv, TypeOK
<1>18. ASSUME NEW w \in Workers, Refuse(w) PROVE TypeInv'
  <2> DEFINE k == [worker[w] EXCEPT !.pc = "book", !.verdict = "failed"]
  <2>1. worker' = [worker EXCEPT ![w] = k]
    BY <1>18 DEF Refuse, Book, Worker, PCs, Holding, Jobs, Down, TypeInv, TypeOK, HoldersTyped
  <2>2. /\ k \in Worker /\ (k.pc \in Holding => k.job \in Jobs)
        /\ k.pc = "book" => k.verdict # "none"
    BY <1>18, ZenonT(60) DEF Refuse, Worker, PCs, Holding, Jobs, Down, TypeInv, TypeOK, HoldersTyped
  <2>3. worker' \in [Workers -> Worker] /\ HoldersTyped'
    BY <2>1, <2>2, WorkerTyped
  <2> QED
    BY <1>18, <2>3 DEF Refuse, rows, world, TypeInv, TypeOK, CallOf
<1>19. ASSUME NEW w \in Workers, Cooldown(w) PROVE TypeInv'
  <2> DEFINE k == [worker[w] EXCEPT !.pc = "book", !.verdict = "pending"]
  <2>1. worker' = [worker EXCEPT ![w] = k]
    BY <1>19 DEF Cooldown, Book, Worker, PCs, Holding, Jobs, Down, TypeInv, TypeOK, HoldersTyped
  <2>2. /\ k \in Worker /\ (k.pc \in Holding => k.job \in Jobs)
        /\ k.pc = "book" => k.verdict # "none"
    BY <1>19, ZenonT(60) DEF Cooldown, Worker, PCs, Holding, Jobs, Down, TypeInv, TypeOK, HoldersTyped
  <2>3. worker' \in [Workers -> Worker] /\ HoldersTyped'
    BY <2>1, <2>2, WorkerTyped
  <2> QED
    BY <1>19, <2>3, BroadcastAssumption DEF Cooldown, rows, world, TypeInv, TypeOK, CallOf
<1>20. ASSUME NEW w \in Workers, LoseAnswer(w) PROVE TypeInv'
  <2> DEFINE k == [worker[w] EXCEPT !.pc = "book", !.verdict = "uncertain"]
  <2>1. worker' = [worker EXCEPT ![w] = k]
    BY <1>20 DEF LoseAnswer, Book, Worker, PCs, Holding, Jobs, Down, TypeInv, TypeOK,
       HoldersTyped
  <2>2. /\ k \in Worker /\ (k.pc \in Holding => k.job \in Jobs)
        /\ k.pc = "book" => k.verdict # "none"
    BY <1>20, ZenonT(60) DEF LoseAnswer, Worker, PCs, Holding, Jobs, Down, TypeInv, TypeOK, HoldersTyped
  <2>3. worker' \in [Workers -> Worker] /\ HoldersTyped'
    BY <2>1, <2>2, WorkerTyped
  <2> QED
    BY <1>20, <2>3 DEF LoseAnswer, rows, world, TypeInv, TypeOK
<1>21. ASSUME NEW w \in Workers, Write(w) PROVE TypeInv'
  <2> DEFINE k == [Down EXCEPT !.pc = "recover"]
  <2>1. worker' = [worker EXCEPT ![w] = k]
    BY <1>21 DEF Write, Worker, PCs, Holding, Jobs, Down, TypeInv, TypeOK, HoldersTyped
  <2>2. /\ k \in Worker /\ (k.pc \in Holding => k.job \in Jobs)
        /\ k.pc = "book" => k.verdict # "none"
    BY <1>21 DEF Write, Worker, PCs, Holding, Jobs, Down, TypeInv, TypeOK, HoldersTyped
  <2>3. worker' \in [Workers -> Worker] /\ HoldersTyped'
    BY <2>1, <2>2, WorkerTyped
  <2>4. worker[w].job \in Jobs /\ worker[w].verdict \in RecipientStatuses
    BY <1>21 DEF Write, Worker, PCs, Holding, Jobs, Down, TypeInv, TypeOK, HoldersTyped,
       RecipientStatuses
  <2> DEFINE b == worker[w].job[1]
             u == worker[w].job[2]
  <2>5. b \in Broadcasts /\ u \in Users
    BY <2>4 DEF Jobs
  <2>6. \/ recipient' = recipient
        \/ recipient' = [recipient EXCEPT ![b][u] = worker[w].verdict]
    BY <1>21 DEF Write
  <2>7. [recipient[b] EXCEPT ![u] = worker[w].verdict] \in [Users -> RecipientStatuses]
    <3>1. recipient[b] \in [Users -> RecipientStatuses]
      BY <2>5 DEF TypeInv, TypeOK
    <3> HIDE DEF b, u
    <3> QED
      BY <2>4, <2>5, <3>1
  <2>8. recipient' \in [Broadcasts -> [Users -> RecipientStatuses]]
    <3> HIDE DEF b, u
    <3> QED
      BY <2>5, <2>6, <2>7 DEF TypeInv, TypeOK
  <2> QED
    BY <1>21, <2>3, <2>8 DEF Write, rows, world, TypeInv, TypeOK
<1>22. ASSUME NEW m \in wire, Land(m) PROVE TypeInv'
  BY <1>22 DEF Land, rows, world, TypeInv, TypeOK, HoldersTyped, Statuses, RecipientStatuses
<1>23. ASSUME NEW m \in wire, Drop(m) PROVE TypeInv'
  BY <1>23 DEF Drop, rows, world, TypeInv, TypeOK, HoldersTyped, Statuses, RecipientStatuses
<1>24. CASE UNCHANGED vars
  BY <1>24 DEF vars, rows, world, TypeInv, TypeOK, HoldersTyped
<1> QED
  BY <1>1, <1>2, <1>3, <1>4, <1>5, <1>6, <1>7, <1>8, <1>9, <1>10, <1>11, <1>12, <1>13,
     <1>14, <1>15, <1>16, <1>17, <1>18, <1>19, <1>20, <1>21, <1>22, <1>23, <1>24 DEF Next,
     WorkerStep, Admin, Loop, Send

\* No action disturbs the types of the tables, the workers and the messages
\* (app/bot/broadcasts.py), and a worker always knows what it holds.
THEOREM TypeCorrect == Spec => []TypeOK
<1>1. Init => TypeInv
  BY InitTyped
<1>2. TypeInv /\ [Next]_vars => TypeInv'
  BY TypeStep
<1> QED
  BY <1>1, <1>2, PTL DEF Spec, TypeInv

-----------------------------------------------------------------------------
(* What a step of one worker leaves alone.                                 *)

\* A message is the triple of its parts.
LEMMA MessagesTyped ==
  ASSUME TypeInv
  PROVE  \A m \in Messages : m = <<m[1], m[2], m[3]>> /\ m[3] \in Nat /\ m[3] <= calls
BY DEF TypeInv, TypeOK, Messages

\* A worker moves and takes no recipient: nobody's hands are fuller after it.
LEMMA HandsKept ==
  ASSUME TypeInv, Inv, NEW w \in Workers, NEW k,
         worker' = [worker EXCEPT ![w] = k],
         k.pc \in Holding => worker[w].pc \in Holding /\ k.job = worker[w].job
  PROVE  /\ worker'[w] = k
         /\ \A x \in Workers : x # w => worker'[x] = worker[x]
         /\ \A b \in Broadcasts, u \in Users : Held(b, u)' => Held(b, u)
         /\ HeldAlone'
<1>1. worker'[w] = k /\ \A x \in Workers : x # w => worker'[x] = worker[x]
  BY DEF TypeInv, TypeOK
<1>2. \A x \in Workers : worker'[x].pc \in Holding =>
        worker[x].pc \in Holding /\ worker'[x].job = worker[x].job
  BY <1>1
<1>3. \A b \in Broadcasts, u \in Users : Held(b, u)' => Held(b, u)
  BY <1>2 DEF Held
<1>4. HeldAlone'
  BY <1>2 DEF Inv, HeldAlone
<1> QED
  BY <1>1, <1>3, <1>4

\* If it sends nothing either, what was true of the messages still is.
LEMMA OneWorker ==
  ASSUME TypeInv, Inv, NEW w \in Workers, NEW k \in Worker,
         worker' = [worker EXCEPT ![w] = k],
         k.pc \in Holding => worker[w].pc \in Holding /\ k.job = worker[w].job,
         wire' \subseteq wire, landed' = landed,
         Progress(k, wire' \cup landed', landed')
  PROVE  /\ HeldAlone' /\ ProgressTrue' /\ OneMessage' /\ Apart'
         /\ worker'[w] = k /\ \A x \in Workers : x # w => worker'[x] = worker[x]
         /\ \A b \in Broadcasts, u \in Users : Held(b, u)' => Held(b, u)
         /\ \A b, u : Untouched(b, u) => Untouched(b, u)'
<1>1. /\ worker'[w] = k /\ \A x \in Workers : x # w => worker'[x] = worker[x]
      /\ \A b \in Broadcasts, u \in Users : Held(b, u)' => Held(b, u)
      /\ HeldAlone'
  BY HandsKept
<1>2. Messages' = wire' \cup landed' /\ Messages' \subseteq Messages
  BY DEF Messages
<1>3. \A b, u : Untouched(b, u) => Untouched(b, u)'
  BY <1>2 DEF Untouched, NoneTo
<1>4. ProgressTrue'
  <2>1. ASSUME NEW x \in Workers, x # w
        PROVE  Progress(worker'[x], Messages', landed')
    BY <1>1, <1>2, <2>1 DEF Inv, ProgressTrue, Progress, NoneTo
  <2> QED
    BY <1>1, <1>2, <2>1 DEF ProgressTrue
<1>5. OneMessage' /\ Apart'
  BY <1>2 DEF Inv, OneMessage, Apart
<1> QED
  BY <1>1, <1>3, <1>4, <1>5

\* And if it writes no row, the whole invariant is kept.
LEMMA OneWorkerKeeps ==
  ASSUME TypeInv, Inv, NEW w \in Workers, NEW k \in Worker,
         worker' = [worker EXCEPT ![w] = k],
         k.pc \in Holding => worker[w].pc \in Holding /\ k.job = worker[w].job,
         wire' \subseteq wire, landed' = landed,
         Progress(k, wire' \cup landed', landed'),
         UNCHANGED rows
  PROVE  Inv'
<1>1. /\ HeldAlone' /\ ProgressTrue' /\ OneMessage' /\ Apart'
      /\ \A b \in Broadcasts, u \in Users : Held(b, u)' => Held(b, u)
      /\ \A b, u : Untouched(b, u) => Untouched(b, u)'
  BY OneWorker
<1>2. NoTrace' /\ AtRest' /\ RecipientTrue'
  BY <1>1 DEF rows, Inv, NoTrace, AtRest, RecipientTrue
<1> QED
  BY <1>1, <1>2 DEF Inv

-----------------------------------------------------------------------------
(* Every action of a worker keeps the invariant.                           *)

\* A process takes the lock.
LEMMA StartKeeps ==
  ASSUME TypeInv, Inv, NEW w \in Workers, Start(w)
  PROVE  Inv'
<1> DEFINE k == [worker[w] EXCEPT !.pc = "recover"]
<1>1. worker' = [worker EXCEPT ![w] = k]
  BY DEF Start, Goto, TypeInv, TypeOK, Down
<1>2. /\ k \in Worker
      /\ k.pc \in Holding => worker[w].pc \in Holding /\ k.job = worker[w].job
  BY DEF Start, Down, Holding, Worker, PCs, TypeInv, TypeOK
<1>3. wire' \subseteq wire /\ landed' = landed
  BY DEF Start, world
<1>4. Progress(k, wire' \cup landed', landed')
  <2>1. \/ k.pc \notin Holding
        \/ k.pc = "book" /\ k.verdict = "uncertain"
    BY DEF Start, Down, Holding, TypeInv, TypeOK, Worker
  <2> QED
    BY <2>1 DEF Progress, Holding
<1>5. UNCHANGED rows
  BY DEF Start
<1> QED
  <2> HIDE DEF k
  <2> QED
    BY <1>1, <1>2, <1>3, <1>4, <1>5, OneWorkerKeeps

\* A process ends; what it held stays "sending".
LEMMA StopKeeps ==
  ASSUME TypeInv, Inv, NEW w \in Workers, Stop(w)
  PROVE  Inv'
<1> DEFINE k == Down
<1>1. worker' = [worker EXCEPT ![w] = k]
  BY DEF Stop, TypeInv, TypeOK, Down
<1>2. /\ k \in Worker
      /\ k.pc \in Holding => worker[w].pc \in Holding /\ k.job = worker[w].job
  BY DEF Stop, Down, Holding, Worker, PCs, TypeInv, TypeOK
<1>3. wire' \subseteq wire /\ landed' = landed
  BY DEF Stop, world
<1>4. Progress(k, wire' \cup landed', landed')
  <2>1. \/ k.pc \notin Holding
        \/ k.pc = "book" /\ k.verdict = "uncertain"
    BY DEF Stop, Down, Holding, TypeInv, TypeOK, Worker
  <2> QED
    BY <2>1 DEF Progress, Holding
<1>5. UNCHANGED rows
  BY DEF Stop
<1> QED
  <2> HIDE DEF k
  <2> QED
    BY <1>1, <1>2, <1>3, <1>4, <1>5, OneWorkerKeeps

\* The loop starts anew and forgets what it held.
LEMMA LoopFailsKeeps ==
  ASSUME TypeInv, Inv, NEW w \in Workers, LoopFails(w)
  PROVE  Inv'
<1> DEFINE k == [Down EXCEPT !.pc = "recover"]
<1>1. worker' = [worker EXCEPT ![w] = k]
  BY DEF LoopFails, TypeInv, TypeOK, Down
<1>2. /\ k \in Worker
      /\ k.pc \in Holding => worker[w].pc \in Holding /\ k.job = worker[w].job
  BY DEF LoopFails, Down, Holding, Worker, PCs, TypeInv, TypeOK
<1>3. wire' \subseteq wire /\ landed' = landed
  BY DEF LoopFails, world
<1>4. Progress(k, wire' \cup landed', landed')
  <2>1. \/ k.pc \notin Holding
        \/ k.pc = "book" /\ k.verdict = "uncertain"
    BY DEF LoopFails, Down, Holding, TypeInv, TypeOK, Worker
  <2> QED
    BY <2>1 DEF Progress, Holding
<1>5. UNCHANGED rows
  BY DEF LoopFails
<1> QED
  <2> HIDE DEF k
  <2> QED
    BY <1>1, <1>2, <1>3, <1>4, <1>5, OneWorkerKeeps

\* A failure before the call books an unknown result.
LEMMA CheckFailsKeeps ==
  ASSUME TypeInv, Inv, NEW w \in Workers, CheckFails(w)
  PROVE  Inv'
<1> DEFINE k == [worker[w] EXCEPT !.pc = "book", !.verdict = "uncertain"]
<1>1. worker' = [worker EXCEPT ![w] = k]
  BY DEF CheckFails, Book, TypeInv, TypeOK, Down
<1>2. /\ k \in Worker
      /\ k.pc \in Holding => worker[w].pc \in Holding /\ k.job = worker[w].job
  BY DEF CheckFails, Down, Holding, Worker, PCs, TypeInv, TypeOK
<1>3. wire' \subseteq wire /\ landed' = landed
  BY DEF CheckFails, world
<1>4. Progress(k, wire' \cup landed', landed')
  <2>1. \/ k.pc \notin Holding
        \/ k.pc = "book" /\ k.verdict = "uncertain"
    BY DEF CheckFails, Down, Holding, TypeInv, TypeOK, Worker
  <2> QED
    BY <2>1 DEF Progress, Holding
<1>5. UNCHANGED rows
  BY DEF CheckFails
<1> QED
  <2> HIDE DEF k
  <2> QED
    BY <1>1, <1>2, <1>3, <1>4, <1>5, OneWorkerKeeps

\* A lost answer books an unknown result, the message may still land.
LEMMA LoseAnswerKeeps ==
  ASSUME TypeInv, Inv, NEW w \in Workers, LoseAnswer(w)
  PROVE  Inv'
<1> DEFINE k == [worker[w] EXCEPT !.pc = "book", !.verdict = "uncertain"]
<1>1. worker' = [worker EXCEPT ![w] = k]
  BY DEF LoseAnswer, Book, TypeInv, TypeOK, Down
<1>2. /\ k \in Worker
      /\ k.pc \in Holding => worker[w].pc \in Holding /\ k.job = worker[w].job
  BY DEF LoseAnswer, Down, Holding, Worker, PCs, TypeInv, TypeOK
<1>3. wire' \subseteq wire /\ landed' = landed
  BY DEF LoseAnswer, world
<1>4. Progress(k, wire' \cup landed', landed')
  <2>1. \/ k.pc \notin Holding
        \/ k.pc = "book" /\ k.verdict = "uncertain"
    BY DEF LoseAnswer, Down, Holding, TypeInv, TypeOK, Worker
  <2> QED
    BY <2>1 DEF Progress, Holding
<1>5. UNCHANGED rows
  BY DEF LoseAnswer
<1> QED
  <2> HIDE DEF k
  <2> QED
    BY <1>1, <1>2, <1>3, <1>4, <1>5, OneWorkerKeeps

\* The recipient is still untouched when it is found blocked.
LEMMA CheckKeeps ==
  ASSUME TypeInv, Inv, NEW w \in Workers, Check(w)
  PROVE  Inv'
<1> DEFINE k == [worker[w] EXCEPT
                     !.pc = IF blocked[worker[w].job[2]] THEN "book" ELSE "call",
                     !.verdict = IF blocked[worker[w].job[2]] THEN "failed" ELSE @]
<1>1. worker' = [worker EXCEPT ![w] = k]
  BY DEF Check, Goto, Book, TypeInv, TypeOK, Down
<1>2. /\ k \in Worker
      /\ k.pc \in Holding => worker[w].pc \in Holding /\ k.job = worker[w].job
  BY DEF Check, Down, Holding, Worker, PCs, TypeInv, TypeOK
<1>3. wire' \subseteq wire /\ landed' = landed
  BY DEF Check, world
<1>4. Progress(k, wire' \cup landed', landed')
  <2>1. NoneTo(worker[w].job[1], worker[w].job[2], Messages)
    BY DEF Check, Inv, ProgressTrue, Progress
  <2>2. /\ k.job = worker[w].job /\ k.pc # "calling"
        /\ ~(k.pc = "book" /\ k.verdict = "sent")
    BY DEF TypeInv, TypeOK, Worker
  <2>3. NoneTo(k.job[1], k.job[2], wire' \cup landed')
    BY <1>3, <2>1, <2>2 DEF NoneTo, Messages
  <2> HIDE DEF k
  <2> QED
    BY <2>2, <2>3 DEF Progress
<1>5. UNCHANGED rows
  BY DEF Check
<1> QED
  <2> HIDE DEF k
  <2> QED
    BY <1>1, <1>2, <1>3, <1>4, <1>5, OneWorkerKeeps

\* The answer names a message that has landed.
LEMMA AcknowledgeKeeps ==
  ASSUME TypeInv, Inv, NEW w \in Workers, Acknowledge(w)
  PROVE  Inv'
<1> DEFINE k == [worker[w] EXCEPT !.pc = "book", !.verdict = "sent"]
<1>1. worker' = [worker EXCEPT ![w] = k]
  BY DEF Acknowledge, Book, TypeInv, TypeOK, Down
<1>2. /\ k \in Worker
      /\ k.pc \in Holding => worker[w].pc \in Holding /\ k.job = worker[w].job
  BY DEF Acknowledge, Down, Holding, Worker, PCs, TypeInv, TypeOK
<1>3. wire' \subseteq wire /\ landed' = landed
  BY DEF Acknowledge, world
<1>4. Progress(k, wire' \cup landed', landed')
  <2>1. CallOf(w) \in landed'
    BY DEF Acknowledge, world
  <2>2. CallOf(w)[1] = worker[w].job[1] /\ CallOf(w)[2] = worker[w].job[2]
    BY DEF CallOf
  <2>3. k.job = worker[w].job /\ k.pc = "book" /\ k.verdict = "sent"
    BY DEF TypeInv, TypeOK, Worker
  <2> HIDE DEF k
  <2> QED
    BY <2>1, <2>2, <2>3 DEF Progress
<1>5. UNCHANGED rows
  BY DEF Acknowledge
<1> QED
  <2> HIDE DEF k
  <2> QED
    BY <1>1, <1>2, <1>3, <1>4, <1>5, OneWorkerKeeps

\* The refused call was the only message of its recipient.
LEMMA RefuseKeeps ==
  ASSUME TypeInv, Inv, NEW w \in Workers, Refuse(w)
  PROVE  Inv'
<1> DEFINE k == [worker[w] EXCEPT !.pc = "book", !.verdict = "failed"]
<1>1. worker' = [worker EXCEPT ![w] = k]
  BY DEF Refuse, Book, TypeInv, TypeOK, Down
<1>2. /\ k \in Worker
      /\ k.pc \in Holding => worker[w].pc \in Holding /\ k.job = worker[w].job
  BY DEF Refuse, Down, Holding, Worker, PCs, TypeInv, TypeOK
<1>3. wire' \subseteq wire /\ landed' = landed
  BY DEF Refuse, world
<1>4. Progress(k, wire' \cup landed', landed')
  <2>1. worker[w].pc = "calling" /\ CallOf(w) \in wire /\ wire' = wire \ {CallOf(w)}
    BY DEF Refuse
  <2>2. \A m \in Messages : m[1] = worker[w].job[1] /\ m[2] = worker[w].job[2]
                              => m = CallOf(w)
    BY <2>1, MessagesTyped DEF Inv, ProgressTrue, Progress, CallOf
  <2>3. CallOf(w) \notin wire' \cup landed'
    BY <1>3, <2>1 DEF Inv, Apart
  <2>4. NoneTo(worker[w].job[1], worker[w].job[2], wire' \cup landed')
    BY <1>3, <2>2, <2>3 DEF NoneTo, Messages
  <2>5. k.job = worker[w].job /\ k.pc = "book" /\ k.verdict = "failed"
    BY DEF TypeInv, TypeOK, Worker
  <2> HIDE DEF k
  <2> QED
    BY <2>4, <2>5 DEF Progress
<1>5. UNCHANGED rows
  BY DEF Refuse
<1> QED
  <2> HIDE DEF k
  <2> QED
    BY <1>1, <1>2, <1>3, <1>4, <1>5, OneWorkerKeeps

\* So was the call put off, and the recipient may wait again.
LEMMA CooldownKeeps ==
  ASSUME TypeInv, Inv, NEW w \in Workers, Cooldown(w)
  PROVE  Inv'
<1> DEFINE k == [worker[w] EXCEPT !.pc = "book", !.verdict = "pending"]
<1>1. worker' = [worker EXCEPT ![w] = k]
  BY DEF Cooldown, Book, TypeInv, TypeOK, Down
<1>2. /\ k \in Worker
      /\ k.pc \in Holding => worker[w].pc \in Holding /\ k.job = worker[w].job
  BY DEF Cooldown, Down, Holding, Worker, PCs, TypeInv, TypeOK
<1>3. wire' \subseteq wire /\ landed' = landed
  BY DEF Cooldown, world
<1>4. Progress(k, wire' \cup landed', landed')
  <2>1. worker[w].pc = "calling" /\ CallOf(w) \in wire /\ wire' = wire \ {CallOf(w)}
    BY DEF Cooldown
  <2>2. \A m \in Messages : m[1] = worker[w].job[1] /\ m[2] = worker[w].job[2]
                              => m = CallOf(w)
    BY <2>1, MessagesTyped DEF Inv, ProgressTrue, Progress, CallOf
  <2>3. CallOf(w) \notin wire' \cup landed'
    BY <1>3, <2>1 DEF Inv, Apart
  <2>4. NoneTo(worker[w].job[1], worker[w].job[2], wire' \cup landed')
    BY <1>3, <2>2, <2>3 DEF NoneTo, Messages
  <2>5. k.job = worker[w].job /\ k.pc = "book" /\ k.verdict = "pending"
    BY DEF TypeInv, TypeOK, Worker
  <2> HIDE DEF k
  <2> QED
    BY <2>4, <2>5 DEF Progress
<1>5. UNCHANGED rows
  BY DEF Cooldown
<1> QED
  <2> HIDE DEF k
  <2> QED
    BY <1>1, <1>2, <1>3, <1>4, <1>5, OneWorkerKeeps

\* What was interrupted is booked as unknown, never as waiting.
LEMMA RecoverKeeps ==
  ASSUME TypeInv, Inv, NEW w \in Workers, Recover(w)
  PROVE  Inv'
<1> DEFINE k == [worker[w] EXCEPT !.pc = "purge"]
<1>1. worker' = [worker EXCEPT ![w] = k]
  BY DEF Recover, Goto, TypeInv, TypeOK, Down
<1>2. /\ k \in Worker
      /\ k.pc \in Holding => worker[w].pc \in Holding /\ k.job = worker[w].job
  BY DEF Recover, Down, Holding, Worker, PCs, TypeInv, TypeOK
<1>3. wire' \subseteq wire /\ landed' = landed
  BY DEF Recover, world
<1>4. Progress(k, wire' \cup landed', landed')
  <2>1. \/ k.pc \notin Holding
        \/ k.pc = "book" /\ k.verdict = "uncertain"
    BY DEF Recover, Down, Holding, TypeInv, TypeOK, Worker
  <2> QED
    BY <2>1 DEF Progress, Holding
<1>5. /\ HeldAlone' /\ ProgressTrue' /\ OneMessage' /\ Apart'
      /\ worker'[w] = k /\ \A x \in Workers : x # w => worker'[x] = worker[x]
      /\ \A b \in Broadcasts, u \in Users : Held(b, u)' => Held(b, u)
      /\ \A b, u : Untouched(b, u) => Untouched(b, u)'
  <2> HIDE DEF k
  <2> QED
    BY <1>1, <1>2, <1>3, <1>4, OneWorker
<1>6. /\ UNCHANGED <<status, fresh>>
      /\ \A b \in Broadcasts, u \in Users :
           \/ recipient'[b][u] = recipient[b][u]
           \/ recipient[b][u] = "sending" /\ recipient'[b][u] = "uncertain"
  BY DEF Recover
<1>7. NoTrace' /\ AtRest' /\ RecipientTrue'
  BY <1>3, <1>5, <1>6 DEF Inv, NoTrace, AtRest, RecipientTrue
<1> QED
  BY <1>5, <1>7 DEF Inv

\* A purged broadcast is not fresh and cannot be prepared again.
LEMMA PurgeKeeps ==
  ASSUME TypeInv, Inv, NEW w \in Workers, Purge(w)
  PROVE  Inv'
<1> DEFINE k == [worker[w] EXCEPT !.pc = "claim"]
<1>1. worker' = [worker EXCEPT ![w] = k]
  BY DEF Purge, Goto, TypeInv, TypeOK, Down
<1>2. /\ k \in Worker
      /\ k.pc \in Holding => worker[w].pc \in Holding /\ k.job = worker[w].job
  BY DEF Purge, Down, Holding, Worker, PCs, TypeInv, TypeOK
<1>3. wire' \subseteq wire /\ landed' = landed
  BY DEF Purge, world
<1>4. Progress(k, wire' \cup landed', landed')
  <2>1. \/ k.pc \notin Holding
        \/ k.pc = "book" /\ k.verdict = "uncertain"
    BY DEF Purge, Down, Holding, TypeInv, TypeOK, Worker
  <2> QED
    BY <2>1 DEF Progress, Holding
<1>5. /\ HeldAlone' /\ ProgressTrue' /\ OneMessage' /\ Apart'
      /\ worker'[w] = k /\ \A x \in Workers : x # w => worker'[x] = worker[x]
      /\ \A b \in Broadcasts, u \in Users : Held(b, u)' => Held(b, u)
      /\ \A b, u : Untouched(b, u) => Untouched(b, u)'
  <2> HIDE DEF k
  <2> QED
    BY <1>1, <1>2, <1>3, <1>4, OneWorker
<1>6. fresh' = fresh /\ \A b \in Broadcasts :
        \/ status'[b] = status[b] /\ recipient'[b] = recipient[b]
        \/ ~fresh[b] /\ \A u \in Users : recipient'[b][u] = "absent"
  BY DEF Purge
<1>7. NoTrace' /\ AtRest' /\ RecipientTrue'
  BY <1>3, <1>5, <1>6 DEF Inv, NoTrace, AtRest, RecipientTrue
<1> QED
  BY <1>5, <1>7 DEF Inv

\* A finished broadcast keeps its recipients.
LEMMA FinishKeeps ==
  ASSUME TypeInv, Inv, NEW w \in Workers, Finish(w)
  PROVE  Inv'
<1> DEFINE k == [worker[w] EXCEPT !.pc = "recover"]
<1>1. worker' = [worker EXCEPT ![w] = k]
  BY DEF Finish, Goto, TypeInv, TypeOK, Down
<1>2. /\ k \in Worker
      /\ k.pc \in Holding => worker[w].pc \in Holding /\ k.job = worker[w].job
  BY DEF Finish, Down, Holding, Worker, PCs, TypeInv, TypeOK
<1>3. wire' \subseteq wire /\ landed' = landed
  BY DEF Finish, world
<1>4. Progress(k, wire' \cup landed', landed')
  <2>1. \/ k.pc \notin Holding
        \/ k.pc = "book" /\ k.verdict = "uncertain"
    BY DEF Finish, Down, Holding, TypeInv, TypeOK, Worker
  <2> QED
    BY <2>1 DEF Progress, Holding
<1>5. /\ HeldAlone' /\ ProgressTrue' /\ OneMessage' /\ Apart'
      /\ worker'[w] = k /\ \A x \in Workers : x # w => worker'[x] = worker[x]
      /\ \A b \in Broadcasts, u \in Users : Held(b, u)' => Held(b, u)
      /\ \A b, u : Untouched(b, u) => Untouched(b, u)'
  <2> HIDE DEF k
  <2> QED
    BY <1>1, <1>2, <1>3, <1>4, OneWorker
<1>6. UNCHANGED <<fresh, recipient>> /\ \A b \in Broadcasts :
        status'[b] = status[b] \/ status'[b] = "done"
  BY DEF Finish
<1>7. NoTrace' /\ AtRest' /\ RecipientTrue'
  BY <1>3, <1>5, <1>6 DEF Inv, NoTrace, AtRest, RecipientTrue
<1> QED
  BY <1>5, <1>7 DEF Inv

\* The result that is written is the one the worker's progress stands for.
LEMMA WriteKeeps ==
  ASSUME TypeInv, Inv, NEW w \in Workers, Write(w)
  PROVE  Inv'
<1> DEFINE k == [Down EXCEPT !.pc = "recover"]
<1>1. worker' = [worker EXCEPT ![w] = k]
  BY DEF Write, TypeInv, TypeOK, Down
<1>2. /\ k \in Worker
      /\ k.pc \in Holding => worker[w].pc \in Holding /\ k.job = worker[w].job
  BY DEF Write, Down, Holding, Worker, PCs, TypeInv, TypeOK
<1>3. wire' \subseteq wire /\ landed' = landed
  BY DEF Write, world
<1>4. Progress(k, wire' \cup landed', landed')
  <2>1. \/ k.pc \notin Holding
        \/ k.pc = "book" /\ k.verdict = "uncertain"
    BY DEF Write, Down, Holding, TypeInv, TypeOK, Worker
  <2> QED
    BY <2>1 DEF Progress, Holding
<1>5. /\ HeldAlone' /\ ProgressTrue' /\ OneMessage' /\ Apart'
      /\ worker'[w] = k /\ \A x \in Workers : x # w => worker'[x] = worker[x]
      /\ \A b \in Broadcasts, u \in Users : Held(b, u)' => Held(b, u)
      /\ \A b, u : Untouched(b, u) => Untouched(b, u)'
  <2> HIDE DEF k
  <2> QED
    BY <1>1, <1>2, <1>3, <1>4, OneWorker
<1> DEFINE b0 == worker[w].job[1]
           u0 == worker[w].job[2]
           verdict == worker[w].verdict
<1>6. /\ b0 \in Broadcasts /\ u0 \in Users /\ worker[w].job = <<b0, u0>>
      /\ worker[w].pc = "book"
  BY DEF Write, TypeInv, HoldersTyped, Holding, Jobs
<1>7. /\ UNCHANGED <<status, fresh>>
      /\ \A b \in Broadcasts, u \in Users :
           \/ recipient'[b][u] = recipient[b][u]
           \/ /\ b = b0 /\ u = u0 /\ recipient[b][u] # "absent"
              /\ recipient'[b][u] = verdict
  <2>1. /\ UNCHANGED <<status, fresh>>
        /\ \/ recipient' = recipient
           \/ /\ recipient[b0][u0] # "absent"
              /\ recipient' = [recipient EXCEPT ![b0][u0] = verdict]
    BY DEF Write
  <2> HIDE DEF b0, u0, verdict
  <2> QED
    BY <2>1, <1>6 DEF TypeInv, TypeOK
<1>8. \A x \in Workers : worker'[x].pc \in Holding =>
        x # w /\ worker[x].pc \in Holding /\ worker'[x].job = worker[x].job
  <2>1. k.pc \notin Holding
    BY DEF Down, Holding
  <2> HIDE DEF k
  <2> QED
    BY <1>5, <2>1
<1>9. \A b \in Broadcasts, u \in Users : Held(b, u)' => ~(b = b0 /\ u = u0)
  <2>1. \A x \in Workers : x # w /\ worker[x].pc \in Holding
                             => worker[x].job # <<b0, u0>>
    BY <1>6 DEF Inv, HeldAlone, Holding
  <2> HIDE DEF b0, u0, k
  <2> QED
    BY <1>8, <2>1 DEF Held
<1>10. /\ verdict \in {"pending", "failed"} => Untouched(b0, u0)
       /\ verdict = "sent" => \E m \in landed : m[1] = b0 /\ m[2] = u0
  BY <1>6 DEF Inv, ProgressTrue, Progress, Untouched
<1> HIDE DEF b0, u0, verdict, k
<1>11. NoTrace'
  <2> SUFFICES ASSUME NEW b \in Broadcasts, NEW u \in Users, status'[b] = "none", fresh'[b]
               PROVE  recipient'[b][u] = "absent" /\ Untouched(b, u)' /\ ~Held(b, u)'
    BY DEF NoTrace
  <2>1. recipient[b][u] = "absent" /\ Untouched(b, u) /\ ~Held(b, u)
    BY <1>7 DEF Inv, NoTrace
  <2> QED
    BY <1>5, <1>7, <2>1
<1>12. AtRest'
  BY <1>5, <1>7, <1>9 DEF Inv, AtRest
<1>13. RecipientTrue'
  BY <1>3, <1>5, <1>7, <1>10 DEF Inv, RecipientTrue
<1> QED
  BY <1>5, <1>11, <1>12, <1>13 DEF Inv

\* A recipient that waits is untouched and in nobody's hands.
LEMMA ClaimKeeps ==
  ASSUME TypeInv, Inv, NEW w \in Workers, Claim(w)
  PROVE  Inv'
<1>1. PICK j \in Waiting :
        /\ recipient' = [recipient EXCEPT ![j[1]][j[2]] = "sending"]
        /\ worker' = [worker EXCEPT ![w].pc = "check", ![w].job = j]
  BY DEF Claim
<1> DEFINE b0 == j[1]
           u0 == j[2]
<1>2. /\ j = <<b0, u0>> /\ b0 \in Broadcasts /\ u0 \in Users
      /\ status[b0] = "running" /\ recipient[b0][u0] = "pending"
  BY DEF Waiting, Jobs
<1>3. /\ worker'[w].pc = "check" /\ worker'[w].job = <<b0, u0>>
      /\ \A x \in Workers : x # w => worker'[x] = worker[x]
  BY <1>1, <1>2 DEF TypeInv, TypeOK, Worker
<1>4. ~Held(b0, u0) /\ Untouched(b0, u0)
  BY <1>2 DEF Inv, AtRest, RecipientTrue
<1> HIDE DEF b0, u0
<1>5. \A b \in Broadcasts, u \in Users :
        IF b = b0 /\ u = u0 THEN recipient'[b][u] = "sending"
                            ELSE recipient'[b][u] = recipient[b][u]
  BY <1>1, <1>2 DEF b0, u0, TypeInv, TypeOK
<1>6. UNCHANGED <<status, fresh, wire, landed>>
  BY DEF Claim, world
<1>7. \A b \in Broadcasts, u \in Users : Held(b, u)' => Held(b, u) \/ (b = b0 /\ u = u0)
  BY <1>3 DEF Held
<1>8. NoTrace'
  BY <1>2, <1>5, <1>6, <1>7 DEF Inv, NoTrace, Untouched, NoneTo, Messages
<1>9. AtRest'
  BY <1>5, <1>7 DEF Inv, AtRest
<1>10. HeldAlone'
  <2>1. \A x \in Workers : x # w /\ worker[x].pc \in Holding => worker[x].job # <<b0, u0>>
    BY <1>4 DEF Held
  <2> QED
    BY <1>3, <2>1 DEF Inv, HeldAlone
<1>11. RecipientTrue'
  BY <1>5, <1>6 DEF Inv, RecipientTrue, Untouched, NoneTo, Messages
<1>12. ProgressTrue'
  <2> SUFFICES ASSUME NEW x \in Workers PROVE Progress(worker'[x], Messages', landed')
    BY DEF ProgressTrue
  <2>1. CASE x = w
    <3>1. NoneTo(b0, u0, Messages')
      BY <1>4, <1>6 DEF Untouched, NoneTo, Messages
    <3> QED
      BY <1>3, <2>1, <3>1 DEF Progress
  <2>2. CASE x # w
    BY <1>3, <1>6, <2>2 DEF Inv, ProgressTrue, Progress, Untouched, NoneTo, Messages
  <2> QED
    BY <2>1, <2>2
<1>13. OneMessage' /\ Apart'
  BY <1>6 DEF Inv, OneMessage, Apart, Messages
<1> QED
  BY <1>8, <1>9, <1>10, <1>11, <1>12, <1>13 DEF Inv

\* The one call of a recipient that was untouched until now.
LEMMA CallKeeps ==
  ASSUME TypeInv, Inv, NEW w \in Workers, Call(w)
  PROVE  Inv'
<1> DEFINE b0 == worker[w].job[1]
           u0 == worker[w].job[2]
           new == <<b0, u0, calls + 1>>
           k == [worker[w] EXCEPT !.pc = "calling", !.call = calls + 1]
<1>1. /\ worker' = [worker EXCEPT ![w] = k]
      /\ wire' = wire \cup {new} /\ landed' = landed
      /\ UNCHANGED <<status, fresh, recipient>>
  BY DEF Call, rows
<1>2. worker[w].pc = "call" /\ worker[w].pc \in Holding /\ worker[w].job = <<b0, u0>>
      /\ b0 \in Broadcasts /\ u0 \in Users
  BY DEF Call, Holding, TypeInv, HoldersTyped, Jobs
<1>3. k.pc = "calling" /\ k.job = worker[w].job /\ k.call = calls + 1
  BY DEF TypeInv, TypeOK, Worker
<1>4. Untouched(b0, u0)
  BY <1>2 DEF Inv, ProgressTrue, Progress, Untouched
<1>5. /\ worker'[w] = k
      /\ \A x \in Workers : x # w => worker'[x] = worker[x]
      /\ \A b \in Broadcasts, u \in Users : Held(b, u)' => Held(b, u)
      /\ HeldAlone'
  <2> HIDE DEF k
  <2> QED
    BY <1>1, <1>2, <1>3, HandsKept DEF Inv
<1>6. Held(b0, u0)
  BY <1>2 DEF Held
<1>7. Messages' = Messages \cup {new}
  BY <1>1 DEF Messages
<1>8. new[1] = b0 /\ new[2] = u0 /\ new[3] = calls + 1
  OBVIOUS
<1> HIDE DEF b0, u0, new, k
<1>9. \A b, u : Untouched(b, u) => Untouched(b, u)' \/ (b = b0 /\ u = u0)
  BY <1>7, <1>8 DEF Untouched, NoneTo
<1>10. NoTrace' /\ AtRest'
  BY <1>1, <1>5, <1>6, <1>9 DEF Inv, NoTrace, AtRest
<1>11. RecipientTrue'
  BY <1>1, <1>2, <1>6, <1>9 DEF Inv, AtRest, RecipientTrue
<1>12. ProgressTrue'
  <2> SUFFICES ASSUME NEW x \in Workers PROVE Progress(worker'[x], Messages', landed')
    BY DEF ProgressTrue
  <2>1. CASE x = w
    <3>1. \A m \in Messages' : m[1] = b0 /\ m[2] = u0 => m[3] = calls + 1
      BY <1>4, <1>7, <1>8 DEF Untouched, NoneTo
    <3>2. worker'[w].pc = "calling" /\ worker'[w].job = <<b0, u0>> /\ worker'[w].call = calls + 1
      BY <1>2, <1>3, <1>5
    <3> QED
      BY <2>1, <3>1, <3>2 DEF Progress
  <2>2. CASE x # w
    <3>1. worker'[x] = worker[x] /\ Progress(worker[x], Messages, landed)
      BY <1>5, <2>2 DEF Inv, ProgressTrue
    <3>2. CASE worker[x].pc \notin Holding
      BY <3>1, <3>2 DEF Progress, Holding
    <3>3. CASE worker[x].pc \in Holding
      <4>1. /\ worker[x].job = <<worker[x].job[1], worker[x].job[2]>>
            /\ worker[x].job # <<b0, u0>>
        BY <1>2, <2>2, <3>3 DEF Inv, HeldAlone, TypeInv, HoldersTyped, Jobs
      <4>2. ~(worker[x].job[1] = b0 /\ worker[x].job[2] = u0)
        BY <4>1
      <4>3. \A m \in Messages' : m[1] = worker[x].job[1] /\ m[2] = worker[x].job[2]
                                  => m \in Messages
        BY <1>7, <1>8, <4>2
      <4> QED
        BY <1>1, <3>1, <4>3 DEF Progress, NoneTo
    <3> QED
      BY <3>2, <3>3
  <2> QED
    BY <2>1, <2>2
<1>13. OneMessage'
  BY <1>4, <1>7, <1>8 DEF Inv, OneMessage, Untouched, NoneTo
<1>14. Apart'
  <2>1. new \notin landed
    BY <1>4, <1>8 DEF Untouched, NoneTo, Messages
  <2> QED
    BY <1>1, <2>1 DEF Inv, Apart
<1> QED
  BY <1>5, <1>10, <1>11, <1>12, <1>13, <1>14 DEF Inv

-----------------------------------------------------------------------------
(* So do the other actions.                                                *)

\* Workers and messages stay as they are.
LEMMA Elsewhere ==
  ASSUME Inv, UNCHANGED <<worker, wire, landed>>
  PROVE  /\ HeldAlone' /\ ProgressTrue' /\ OneMessage' /\ Apart'
         /\ \A b, u : Held(b, u)' <=> Held(b, u)
         /\ \A b, u : Untouched(b, u)' <=> Untouched(b, u)
<1>1. Messages' = Messages
  BY DEF Messages
<1>2. HeldAlone' /\ Apart'
  BY DEF Inv, HeldAlone, Apart
<1>3. ProgressTrue' /\ OneMessage'
  BY <1>1 DEF Inv, ProgressTrue, OneMessage
<1>4. \A b, u : Held(b, u)' <=> Held(b, u)
  BY DEF Held
<1>5. \A b, u : Untouched(b, u)' <=> Untouched(b, u)
  BY <1>1 DEF Untouched
<1> QED
  BY <1>2, <1>3, <1>4, <1>5

\* The preview creates the rows of a broadcast nothing is known of.
LEMMA PrepareKeeps ==
  ASSUME TypeInv, Inv, NEW b \in Broadcasts, Prepare(b)
  PROVE  Inv'
<1>1. UNCHANGED <<worker, wire, landed>> /\ fresh' = fresh
  BY DEF Prepare, world
<1>2. \A c \in Broadcasts, u \in Users :
        \/ c # b /\ status'[c] = status[c] /\ recipient'[c][u] = recipient[c][u]
        \/ /\ c = b /\ status'[c] = "draft"
           /\ recipient'[c][u] \in {"absent", "pending"}
           /\ Untouched(c, u) /\ ~Held(c, u)
  BY DEF Prepare, Inv, NoTrace, TypeInv, TypeOK
<1>3. NoTrace' /\ AtRest' /\ RecipientTrue'
  BY <1>1, <1>2, Elsewhere DEF Inv, NoTrace, AtRest, RecipientTrue
<1> QED
  BY <1>1, <1>3, Elsewhere DEF Inv

\* The other buttons, the clock and the users do not touch the recipients.
LEMMA OthersKeep ==
  ASSUME TypeInv, Inv, UNCHANGED <<recipient, worker, wire, landed>>,
         \A b \in Broadcasts : status'[b] = "none" /\ fresh'[b] =>
                               status[b] = "none" /\ fresh[b]
  PROVE  Inv'
<1>1. NoTrace' /\ AtRest' /\ RecipientTrue'
  BY Elsewhere DEF Inv, NoTrace, AtRest, RecipientTrue
<1> QED
  BY <1>1, Elsewhere DEF Inv

\* The administrator's four buttons, the half hour included.
LEMMA AdminKeeps ==
  ASSUME TypeInv, Inv, NEW b \in Broadcasts, Admin(b)
  PROVE  Inv'
<1>1. CASE Prepare(b)
  BY <1>1, PrepareKeeps
<1>2. CASE Confirm(b)
  BY <1>2, OthersKeep DEF Confirm, world, TypeInv, TypeOK
<1>3. CASE Cancel(b)
  BY <1>3, OthersKeep DEF Cancel, world, TypeInv, TypeOK
<1>4. CASE Expire(b)
  BY <1>4, OthersKeep DEF Expire, world, TypeInv, TypeOK
<1> QED
  BY <1>1, <1>2, <1>3, <1>4 DEF Admin

\* A message lands or is lost.
LEMMA TravelKeeps ==
  ASSUME TypeInv, Inv, UNCHANGED <<rows, worker>>,
         Messages' \subseteq Messages, landed \subseteq landed', Apart'
  PROVE  Inv'
<1>1. \A b, u : (Untouched(b, u) => Untouched(b, u)') /\ (Held(b, u)' => Held(b, u))
  BY DEF Untouched, NoneTo, Held
<1>2. NoTrace' /\ AtRest' /\ RecipientTrue' /\ HeldAlone' /\ OneMessage'
  BY <1>1 DEF rows, Inv, NoTrace, AtRest, RecipientTrue, HeldAlone, OneMessage
<1>3. ProgressTrue'
  BY DEF Inv, ProgressTrue, Progress, NoneTo
<1> QED
  BY <1>2, <1>3 DEF Inv

\* A message arrives.
LEMMA LandKeeps ==
  ASSUME TypeInv, Inv, NEW m \in wire, Land(m)
  PROVE  Inv'
<1>1. UNCHANGED <<rows, worker>> /\ wire' = wire \ {m} /\ landed' = landed \cup {m}
  BY DEF Land
<1>2. Messages' \subseteq Messages /\ Apart'
  BY <1>1 DEF Inv, Messages, Apart
<1> QED
  BY <1>1, <1>2, TravelKeeps

\* A call nobody waits for is lost.
LEMMA DropKeeps ==
  ASSUME TypeInv, Inv, NEW m \in wire, Drop(m)
  PROVE  Inv'
<1>1. UNCHANGED <<rows, worker>> /\ wire' = wire \ {m} /\ landed' = landed
  BY DEF Drop
<1>2. Messages' \subseteq Messages /\ Apart'
  BY <1>1 DEF Inv, Messages, Apart
<1> QED
  BY <1>1, <1>2, TravelKeeps

\* Before the first preview nothing has been sent.
LEMMA InitInv == Init => Inv
<1> SUFFICES ASSUME Init PROVE Inv
  OBVIOUS
<1>1. \A w \in Workers : worker[w] = Down
  BY DEF Init
<1>2. Messages = {} /\ \A b, u : ~Held(b, u)
  BY <1>1 DEF Init, Messages, Held, Down, Holding
<1>3. \A b \in Broadcasts, u \in Users : recipient[b][u] = "absent"
  BY DEF Init
<1>4. NoTrace /\ AtRest /\ RecipientTrue /\ OneMessage
  BY <1>2, <1>3 DEF NoTrace, AtRest, RecipientTrue, OneMessage, Untouched, NoneTo
<1>5. HeldAlone /\ ProgressTrue
  BY <1>1 DEF HeldAlone, ProgressTrue, Progress, Down, Holding
<1>6. Apart
  BY DEF Init, Apart
<1> QED
  BY <1>4, <1>5, <1>6 DEF Inv

\* One step of the system.
LEMMA Step == TypeInv /\ Inv /\ [Next]_vars => Inv'
<1> SUFFICES ASSUME TypeInv, Inv, [Next]_vars PROVE Inv'
  OBVIOUS
<1>1. ASSUME NEW w \in Workers, Loop(w) PROVE Inv'
  BY <1>1, RecoverKeeps, PurgeKeeps, ClaimKeeps, FinishKeeps DEF Loop
<1>2. ASSUME NEW w \in Workers, Send(w) PROVE Inv'
  BY <1>2, CheckKeeps, CheckFailsKeeps, CallKeeps, AcknowledgeKeeps, RefuseKeeps,
     CooldownKeeps, LoseAnswerKeeps, WriteKeeps DEF Send
<1>3. ASSUME NEW w \in Workers, LoseGuard(w) PROVE Inv'
  BY <1>3, OthersKeep DEF LoseGuard, rows, world
<1>4. ASSUME NEW w \in Workers, WorkerStep(w) PROVE Inv'
  BY <1>1, <1>2, <1>3, <1>4, StartKeeps, StopKeeps, LoopFailsKeeps DEF WorkerStep
<1>5. ASSUME NEW u \in Users, Block(u) PROVE Inv'
  BY <1>5, OthersKeep DEF Block, rows, world
<1>6. CASE UNCHANGED vars
  BY <1>6, OthersKeep DEF vars, rows, world
<1> QED
  BY <1>4, <1>5, <1>6, AdminKeeps, LandKeeps, DropKeeps DEF Next

\* What every reachable state satisfies.
LEMMA Reachable == Spec => [](TypeInv /\ Inv)
<1>1. Init => TypeInv /\ Inv
  BY InitTyped, InitInv
<1>2. TypeInv /\ Inv /\ [Next]_vars => TypeInv' /\ Inv'
  BY TypeStep, Step
<1> QED
  BY <1>1, <1>2, PTL DEF Spec

-----------------------------------------------------------------------------
(* What the announcements promise.                                         *)

\* A user gets an announcement at most once, whatever fails or restarts and
\* even when several processes run the worker: claim, book and recovery
\* (app/bot/broadcasts.py) never put a recipient that may have been sent to
\* back among those that wait.
THEOREM AtMostOneCopy == Spec => []NoSecondCopy
<1>1. TypeInv /\ Inv => NoSecondCopy
  <2> SUFFICES ASSUME TypeInv, Inv, NEW m \in landed, NEW n \in landed,
                      m[1] = n[1], m[2] = n[2]
               PROVE  m = n
    BY DEF NoSecondCopy
  <2>1. m \in Messages /\ n \in Messages
    BY DEF Messages
  <2>2. m[3] = n[3] /\ m = <<m[1], m[2], m[3]>> /\ n = <<n[1], n[2], n[3]>>
    BY <2>1, MessagesTyped DEF Inv, OneMessage
  <2> QED
    BY <2>2
<1> QED
  BY <1>1, Reachable, PTL

\* The report of a broadcast (deliver_one's last statement) tells the truth:
\* sent means landed, failed means that nothing landed and nothing will.
THEOREM ReportHolds == Spec => []ReportIsTrue
<1>1. Inv => ReportIsTrue
  BY DEF Inv, RecipientTrue, ReportIsTrue, Untouched, NoneTo, Messages
<1> QED
  BY <1>1, Reachable, PTL

\* At most one broadcast runs: Confirm's transaction excludes the others, and
\* no step of a worker makes a second one run.
THEOREM OneRunningHolds == Spec => []OneRunning
<1>1. Init => OneRunning
  BY DEF Init, OneRunning
<1>2. TypeInv /\ OneRunning /\ [Next]_vars => OneRunning'
  <2> SUFFICES ASSUME TypeInv, OneRunning, [Next]_vars PROVE OneRunning'
    OBVIOUS
  <2>1. ASSUME \A b \in Broadcasts : status'[b] = "running" => status[b] = "running"
        PROVE  OneRunning'
    BY <2>1 DEF OneRunning
  <2>2. ASSUME NEW b \in Broadcasts, Admin(b) PROVE OneRunning'
    <3>1. CASE Confirm(b)
      BY <3>1 DEF Confirm, OneRunning, TypeInv, TypeOK
    <3>2. CASE Prepare(b) \/ Cancel(b) \/ Expire(b)
      BY <2>1, <3>2 DEF Prepare, Cancel, Expire, TypeInv, TypeOK
    <3> QED
      BY <2>2, <3>1, <3>2 DEF Admin
  <2>3. ASSUME NEW w \in Workers, Purge(w) \/ Finish(w) PROVE OneRunning'
    BY <2>1, <2>3 DEF Purge, Finish
  <2>4. ASSUME NEW w \in Workers, WorkerStep(w) PROVE OneRunning'
    <3>1. CASE Purge(w) \/ Finish(w)
      BY <2>3, <3>1
    <3>2. CASE status' = status
      BY <2>1, <3>2
    <3> QED
      BY <2>4, <3>1, <3>2 DEF WorkerStep, Loop, Send, Start, Stop, LoseGuard, LoopFails,
         Recover, Claim, Check, CheckFails, Call, Acknowledge, Refuse, Cooldown,
         LoseAnswer, Write, rows
  <2>5. CASE status' = status
    BY <2>1, <2>5
  <2> QED
    BY <2>2, <2>4, <2>5 DEF Next, Block, Land, Drop, vars, rows
<1>3. Spec => []TypeInv
  BY Reachable, PTL
<1> QED
  BY <1>1, <1>2, <1>3, PTL DEF Spec

\* While the connection that holds the advisory lock (main.py) never breaks,
\* recover_interrupted runs with no send in progress, as its comment says; the
\* lock is what the claim rests on.
THEOREM RecoveryAlone ==
  ASSUME ~GuardBreaks
  PROVE  Spec => RecoverAlone
<1> DEFINE GuardHeld == \A w \in Workers : worker[w].pc # "down" => guard = w
<1>1. Init => GuardHeld
  BY DEF Init, Down
<1>2. TypeInv /\ GuardHeld /\ [Next]_vars => GuardHeld'
  <2> SUFFICES ASSUME TypeInv, GuardHeld, [Next]_vars PROVE GuardHeld'
    OBVIOUS
  <2>1. ASSUME UNCHANGED <<guard, worker>> PROVE GuardHeld'
    BY <2>1
  <2>2. ASSUME NEW w \in Workers, Start(w) PROVE GuardHeld'
    BY <2>2, BroadcastAssumption DEF Start, Goto, TypeInv, TypeOK
  <2>3. ASSUME NEW w \in Workers, Stop(w) PROVE GuardHeld'
    BY <2>3 DEF Stop, Down, TypeInv, TypeOK
  <2>4. ASSUME NEW w \in Workers, LoopFails(w) \/ Loop(w) \/ Send(w)
        PROVE  guard' = guard /\ worker[w].pc # "down"
               /\ \A x \in Workers : x # w => worker'[x] = worker[x]
    BY <2>4 DEF LoopFails, Loop, Send, Recover, Purge, Claim, Finish, Check, CheckFails,
       Call, Acknowledge, Refuse, Cooldown, LoseAnswer, Write, Goto, Book, TypeInv, TypeOK
  <2>5. ASSUME NEW w \in Workers, LoopFails(w) \/ Loop(w) \/ Send(w) PROVE GuardHeld'
    BY <2>4, <2>5
  <2>6. ASSUME NEW w \in Workers, WorkerStep(w) PROVE GuardHeld'
    BY <2>2, <2>3, <2>5, <2>6 DEF WorkerStep, LoseGuard
  <2>7. CASE \/ \E b \in Broadcasts : Admin(b)
             \/ \E u \in Users : Block(u)
             \/ \E m \in wire : Land(m) \/ Drop(m)
             \/ UNCHANGED vars
    BY <2>1, <2>7 DEF Admin, Prepare, Confirm, Cancel, Expire, Block, Land, Drop, vars
  <2> QED
    BY <2>6, <2>7 DEF Next
<1>3. GuardHeld => [\A w, x \in Workers :
                      worker[w].pc = "recover" /\ worker'[w].pc = "purge"
                        => worker[x].pc # "calling"]_vars
  OBVIOUS
<1>4. Spec => []TypeInv
  BY Reachable, PTL
<1> QED
  BY <1>1, <1>2, <1>3, <1>4, PTL DEF Spec, RecoverAlone
=============================================================================
