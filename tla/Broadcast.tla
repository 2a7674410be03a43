----------------------------- MODULE Broadcast -----------------------------
(***************************************************************************)
(* Administrative announcements (app/bot/broadcasts.py): an audience fixed *)
(* at the preview, a confirmation, and a worker that sends one message at  *)
(* a time and books what it learns of each.  The worker runs in the        *)
(* process that holds the advisory lock of app/main.py.                    *)
(*                                                                         *)
(* One action is one transaction, one statement or one Telegram call.      *)
(***************************************************************************)
EXTENDS Integers, FiniteSets

CONSTANTS
  Broadcasts, Users,
  Workers,      \* processes that may run the worker
  NoWorker,
  GuardBreaks,  \* may the connection that holds the lock break under a worker?
  MaxCooldowns  \* bound of the model: answers "retry after" from Telegram

ASSUME BroadcastAssumption ==
  /\ NoWorker \notin Workers
  /\ GuardBreaks \in BOOLEAN
  /\ MaxCooldowns \in Nat

VARIABLES
  status,     \* broadcasts.status; none: no such row (yet, or any more)
  fresh,      \* created less than thirty minutes ago
  recipient,  \* broadcast_recipients.status; absent: no such row
  blocked,    \* users.blocked
  guard,      \* the process that holds the advisory lock
  worker,     \* the local state of each process
  calls,      \* Telegram calls made so far
  cooldowns,  \* answers "retry after" so far
  wire,       \* calls made and not yet processed: <<broadcast, user, call>>
  landed      \* messages users have received

rows == <<status, fresh, recipient>>
world == <<wire, landed>>
vars == <<rows, blocked, guard, worker, calls, cooldowns, world>>

Statuses == {"none", "draft", "running", "cancelled", "done"}
RecipientStatuses == {"absent", "pending", "sending", "sent", "failed", "uncertain"}
Jobs == Broadcasts \X Users
PCs == {"down", "recover", "purge", "claim", "check", "call", "calling", "book"}
Down == [pc |-> "down", job |-> <<>>, call |-> 0, verdict |-> "none"]
Worker == [pc : PCs, job : Jobs \cup {<<>>}, call : Nat,
           verdict : {"none", "sent", "failed", "uncertain", "pending"}]

Init ==
  /\ status = [b \in Broadcasts |-> "none"]
  /\ fresh = [b \in Broadcasts |-> TRUE]
  /\ recipient = [b \in Broadcasts |-> [u \in Users |-> "absent"]]
  /\ blocked \in [Users -> BOOLEAN]
  /\ guard = NoWorker
  /\ worker = [w \in Workers |-> Down]
  /\ calls = 0 /\ cooldowns = 0
  /\ wire = {} /\ landed = {}

-----------------------------------------------------------------------------
(* The administrator.                                                      *)

Prepare(b) ==
  /\ status[b] = "none" /\ fresh[b]
  /\ status' = [status EXCEPT ![b] = "draft"]
  /\ recipient' = [recipient EXCEPT ![b] =
       [u \in Users |-> IF blocked[u] THEN "absent" ELSE "pending"]]
  /\ UNCHANGED <<fresh, blocked, guard, worker, calls, cooldowns, world>>

\* Slip: confirmations are not serialized against the broadcast at work.
ConfirmUnserialized(b) ==
  /\ status[b] = "draft" /\ fresh[b]
  /\ status' = [status EXCEPT ![b] = "running"]
  /\ UNCHANGED <<fresh, recipient, blocked, guard, worker, calls, cooldowns, world>>

Confirm(b) ==
  /\ \A c \in Broadcasts : status[c] # "running"
  /\ status[b] = "draft" /\ fresh[b]
  /\ status' = [status EXCEPT ![b] = "running"]
  /\ UNCHANGED <<fresh, recipient, blocked, guard, worker, calls, cooldowns, world>>

Cancel(b) ==
  /\ status[b] = "draft" /\ fresh[b]
  /\ status' = [status EXCEPT ![b] = "cancelled"]
  /\ UNCHANGED <<fresh, recipient, blocked, guard, worker, calls, cooldowns, world>>

\* Thirty minutes have passed.
Expire(b) ==
  /\ status[b] # "none" /\ fresh[b]
  /\ fresh' = [fresh EXCEPT ![b] = FALSE]
  /\ UNCHANGED <<status, recipient, blocked, guard, worker, calls, cooldowns, world>>

Block(u) ==
  /\ blocked' = [blocked EXCEPT ![u] = ~@]
  /\ UNCHANGED <<rows, guard, worker, calls, cooldowns, world>>

-----------------------------------------------------------------------------
(* The process.                                                            *)

Goto(w, pc) == worker' = [worker EXCEPT ![w].pc = pc]
Book(w, verdict) ==
  worker' = [worker EXCEPT ![w].pc = "book", ![w].verdict = verdict]

\* pg_try_advisory_lock; a second process exits at once.
Start(w) ==
  /\ worker[w].pc = "down" /\ guard = NoWorker
  /\ guard' = w
  /\ Goto(w, "recover")
  /\ UNCHANGED <<rows, blocked, calls, cooldowns, world>>

\* Shutdown, crash, or check_guard has noticed that the lock is lost.
Stop(w) ==
  /\ worker[w].pc # "down"
  /\ worker' = [worker EXCEPT ![w] = Down]
  /\ guard' = IF guard = w THEN NoWorker ELSE guard
  /\ UNCHANGED <<rows, blocked, calls, cooldowns, world>>

\* The server drops the connection, and with it the lock; check_guard looks
\* every ten seconds.
LoseGuard(w) ==
  /\ GuardBreaks
  /\ guard = w
  /\ guard' = NoWorker
  /\ UNCHANGED <<rows, blocked, worker, calls, cooldowns, world>>

\* Any statement outside the try of deliver_one fails, or the claim is
\* committed and its answer lost: the loop starts anew.
LoopFails(w) ==
  /\ worker[w].pc \in {"recover", "purge", "claim", "check", "book"}
  /\ worker' = [worker EXCEPT ![w] = [Down EXCEPT !.pc = "recover"]]
  /\ UNCHANGED <<rows, blocked, guard, calls, cooldowns, world>>

\* Slip: an interrupted recipient gets another chance.
RecoverToPending(w) ==
  /\ worker[w].pc = "recover"
  /\ recipient' = [b \in Broadcasts |-> [u \in Users |->
       IF recipient[b][u] = "sending" THEN "pending" ELSE recipient[b][u]]]
  /\ Goto(w, "purge")
  /\ UNCHANGED <<status, fresh, blocked, guard, calls, cooldowns, world>>

\* recover_interrupted
Recover(w) ==
  /\ worker[w].pc = "recover"
  /\ recipient' = [b \in Broadcasts |-> [u \in Users |->
       IF recipient[b][u] = "sending" THEN "uncertain" ELSE recipient[b][u]]]
  /\ Goto(w, "purge")
  /\ UNCHANGED <<status, fresh, blocked, guard, calls, cooldowns, world>>

\* Broadcasts of the last month that do not run are deleted with their
\* recipients.
Purge(w) ==
  /\ worker[w].pc = "purge"
  /\ \E old \in SUBSET {b \in Broadcasts : ~fresh[b] /\ status[b] # "running"} :
       /\ status' = [b \in Broadcasts |-> IF b \in old THEN "none" ELSE status[b]]
       /\ recipient' = [b \in Broadcasts |->
            IF b \in old THEN [u \in Users |-> "absent"] ELSE recipient[b]]
  /\ Goto(w, "claim")
  /\ UNCHANGED <<fresh, blocked, guard, calls, cooldowns, world>>

\* Slip: blocked users are passed over and keep waiting.
WaitingUnblocked ==
  {j \in Jobs : /\ status[j[1]] = "running" /\ recipient[j[1]][j[2]] = "pending"
                /\ ~blocked[j[2]]}

Waiting == {j \in Jobs : status[j[1]] = "running"
                           /\ recipient[j[1]][j[2]] = "pending"}

Claim(w) ==
  /\ worker[w].pc = "claim"
  /\ \E j \in Waiting :
       /\ recipient' = [recipient EXCEPT ![j[1]][j[2]] = "sending"]
       /\ worker' = [worker EXCEPT ![w].pc = "check", ![w].job = j]
  /\ UNCHANGED <<status, fresh, blocked, guard, calls, cooldowns, world>>

Finish(w) ==
  /\ worker[w].pc = "claim" /\ Waiting = {}
  /\ status' = [b \in Broadcasts |->
       IF /\ status[b] = "running"
          /\ \A u \in Users : recipient[b][u] \notin {"pending", "sending"}
       THEN "done" ELSE status[b]]
  /\ Goto(w, "recover")
  /\ UNCHANGED <<fresh, recipient, blocked, guard, calls, cooldowns, world>>

Check(w) ==
  LET u == worker[w].job[2] IN
  /\ worker[w].pc = "check"
  /\ IF blocked[u] THEN Book(w, "failed") ELSE Goto(w, "call")
  /\ UNCHANGED <<rows, blocked, guard, calls, cooldowns, world>>

\* Slip: the result of a failed preparation stays unset.
CheckFailsUnset(w) ==
  /\ worker[w].pc \in {"check", "call"}
  /\ Book(w, "none")
  /\ UNCHANGED <<rows, blocked, guard, calls, cooldowns, world>>

\* The lookup or the wait for the rate limit fails inside the try.
CheckFails(w) ==
  /\ worker[w].pc \in {"check", "call"}
  /\ Book(w, "uncertain")
  /\ UNCHANGED <<rows, blocked, guard, calls, cooldowns, world>>

Call(w) ==
  LET j == worker[w].job IN
  /\ worker[w].pc = "call"
  /\ calls' = calls + 1
  /\ wire' = wire \cup {<<j[1], j[2], calls + 1>>}
  /\ worker' = [worker EXCEPT ![w].pc = "calling", ![w].call = calls + 1]
  /\ UNCHANGED <<rows, blocked, guard, cooldowns, landed>>

CallOf(w) == <<worker[w].job[1], worker[w].job[2], worker[w].call>>

Acknowledge(w) ==
  /\ worker[w].pc = "calling"
  /\ CallOf(w) \in landed
  /\ Book(w, "sent")
  /\ UNCHANGED <<rows, blocked, guard, calls, cooldowns, world>>

\* TelegramForbiddenError, TelegramBadRequest
Refuse(w) ==
  /\ worker[w].pc = "calling"
  /\ CallOf(w) \in wire
  /\ wire' = wire \ {CallOf(w)}
  /\ Book(w, "failed")
  /\ UNCHANGED <<rows, blocked, guard, calls, cooldowns, landed>>

\* TelegramRetryAfter: the recipient waits for another turn.
Cooldown(w) ==
  /\ worker[w].pc = "calling"
  /\ CallOf(w) \in wire
  /\ cooldowns < MaxCooldowns
  /\ cooldowns' = cooldowns + 1
  /\ wire' = wire \ {CallOf(w)}
  /\ Book(w, "pending")
  /\ UNCHANGED <<rows, blocked, guard, calls, landed>>

\* Slip: a timeout is treated as a refusal.
LoseAnswerAsFailed(w) ==
  /\ worker[w].pc = "calling"
  /\ Book(w, "failed")
  /\ UNCHANGED <<rows, blocked, guard, calls, cooldowns, world>>

\* The timeout of thirty seconds or a broken connection.
LoseAnswer(w) ==
  /\ worker[w].pc = "calling"
  /\ Book(w, "uncertain")
  /\ UNCHANGED <<rows, blocked, guard, calls, cooldowns, world>>

\* The last statement of deliver_one; it does not look at the old status.
Write(w) ==
  LET k == worker[w] IN
  /\ k.pc = "book"
  /\ IF recipient[k.job[1]][k.job[2]] = "absent"
     THEN UNCHANGED recipient
     ELSE recipient' = [recipient EXCEPT ![k.job[1]][k.job[2]] = k.verdict]
  /\ worker' = [worker EXCEPT ![w] = [Down EXCEPT !.pc = "recover"]]
  /\ UNCHANGED <<status, fresh, blocked, guard, calls, cooldowns, world>>

-----------------------------------------------------------------------------
(* Telegram.                                                               *)

Land(m) ==
  /\ m \in wire
  /\ wire' = wire \ {m} /\ landed' = landed \cup {m}
  /\ UNCHANGED <<rows, blocked, guard, worker, calls, cooldowns>>

\* A call nobody waits for never reached Telegram.
Drop(m) ==
  /\ m \in wire
  /\ \A w \in Workers : worker[w].pc = "calling" => CallOf(w) # m
  /\ wire' = wire \ {m}
  /\ UNCHANGED <<rows, blocked, guard, worker, calls, cooldowns, landed>>

-----------------------------------------------------------------------------

Loop(w) == Recover(w) \/ Purge(w) \/ Claim(w) \/ Finish(w)
Send(w) ==
  \/ Check(w) \/ CheckFails(w) \/ Call(w) \/ Acknowledge(w) \/ Refuse(w)
  \/ Cooldown(w) \/ LoseAnswer(w) \/ Write(w)
WorkerStep(w) ==
  \/ Start(w) \/ Stop(w) \/ LoseGuard(w) \/ LoopFails(w) \/ Loop(w) \/ Send(w)
Admin(b) == Prepare(b) \/ Confirm(b) \/ Cancel(b) \/ Expire(b)

Next ==
  \/ \E w \in Workers : WorkerStep(w)
  \/ \E b \in Broadcasts : Admin(b)
  \/ \E u \in Users : Block(u)
  \/ \E m \in wire : Land(m) \/ Drop(m)

Spec == Init /\ [][Next]_vars

\* The container is restarted when it stops, a send ends by its timeout, and
\* no statement of the loop fails for ever.
Fairness ==
  \A w \in Workers :
    /\ WF_vars(Start(w)) /\ WF_vars(Send(w))
    /\ SF_vars(Recover(w)) /\ SF_vars(Purge(w))
    /\ SF_vars(Claim(w)) /\ SF_vars(Finish(w))

FairSpec == Spec /\ Fairness

-----------------------------------------------------------------------------
(* What an announcement promises.                                          *)

\* Every variable keeps its type.
TypeOK ==
  /\ status \in [Broadcasts -> Statuses]
  /\ fresh \in [Broadcasts -> BOOLEAN]
  /\ recipient \in [Broadcasts -> [Users -> RecipientStatuses]]
  /\ blocked \in [Users -> BOOLEAN]
  /\ guard \in Workers \cup {NoWorker}
  /\ worker \in [Workers -> Worker]
  /\ calls \in Nat /\ cooldowns \in 0..MaxCooldowns
  /\ wire \subseteq Broadcasts \X Users \X (1..calls)
  /\ landed \subseteq Broadcasts \X Users \X (1..calls)

\* "At most one broadcast runs" (docs/chat-menu.md), whichever buttons are
\* pressed together.
OneRunning ==
  \A b, c \in Broadcasts : status[b] = "running" /\ status[c] = "running" => b = c

\* A user gets an announcement at most once: an unknown result and a restart
\* in the middle of a send are never followed by a second message.
NoSecondCopy ==
  \A m, n \in landed : m[1] = n[1] /\ m[2] = n[2] => m = n

\* The report tells the truth: a recipient shown as sent has the message, one
\* shown as unavailable has not and never will.
ReportIsTrue ==
  \A b \in Broadcasts, u \in Users :
    /\ recipient[b][u] = "sent" => \E m \in landed : m[1] = b /\ m[2] = u
    /\ recipient[b][u] = "failed" =>
         \A m \in landed \cup wire : ~(m[1] = b /\ m[2] = u)

\* "Only the singleton broadcast worker calls this, with no active HTTP send"
\* (recover_interrupted): recovery never meets a send in progress.
RecoverAlone ==
  [][\A w, x \in Workers :
       worker[w].pc = "recover" /\ worker'[w].pc = "purge"
         => worker[x].pc # "calling"]_vars

\* A confirmed broadcast comes to its end, whatever fails on the way.
BroadcastEnds ==
  \A b \in Broadcasts : status[b] = "running" ~> status[b] # "running"
=============================================================================
