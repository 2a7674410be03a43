------------------------------ MODULE Delivery ------------------------------
(***************************************************************************)
(* Delivery of prepared posts to Telegram channels: publish_post and its   *)
(* bookkeeping, the attempts ledger, recovery of interrupted sends and the *)
(* owner's reconciliation (app/core/publisher.py), driven by publish_due   *)
(* and by owner requests (app/core/scheduler.py, app/api/routes.py).       *)
(*                                                                         *)
(* Every PostgreSQL transaction and every single UPDATE is one step; a     *)
(* delivery task is a coroutine whose steps are what happens between two   *)
(* awaits.  Conditions that only the clock or the owner's pause switch     *)
(* decide (working window, pace, publish_at, age of the news, access of    *)
(* the owner) can refuse a send at any time: they are the freedom not to   *)
(* take a claim.                                                           *)
(***************************************************************************)
EXTENDS Integers, Sequences, FiniteSets

CONSTANTS
  Posts, Channels, Owners,
  Tasks,            \* delivery coroutines that may run at the same time
  ChannelOf,        \* the channel of a post
  OwnerOf,          \* the owner of a channel
  Parts,            \* Telegram calls a post takes: 1, or 2 when its text does
                    \* not fit the caption of its media
  Manual,           \* posts with is_manual = 1: never a duplicate, never stale
  Similar,          \* pairs of posts find_duplicate takes for one story
  DailyLimit,       \* users.daily_limit
  MaxAttempts,      \* publisher.MAX_ATTEMPTS
  SlowBookkeeping,  \* may the transaction after a send outlast the quarantine?
  MaxRows, MaxDay   \* bounds of the model: ledger rows, calendar days

Days == 1..MaxDay
NoPost == "none"

ASSUME DeliveryAssumption ==
  /\ ChannelOf \in [Posts -> Channels]
  /\ OwnerOf \in [Channels -> Owners]
  /\ Parts \in [Posts -> {1, 2}]
  /\ Manual \subseteq Posts
  /\ Similar \subseteq Posts \X Posts
  /\ \A p, q \in Posts : <<p, q>> \in Similar => p # q /\ <<q, p>> \in Similar
  /\ DailyLimit \in [Owners -> Nat]
  /\ MaxAttempts \in Nat \ {0}
  /\ SlowBookkeeping \in BOOLEAN
  /\ MaxRows \in Nat
  /\ MaxDay \in Nat \ {0}
  /\ NoPost \notin Posts

VARIABLES
  status,       \* posts.status
  tries,        \* posts.attempts
  publishedOn,  \* UTC day of posts.published_at, 0 when it is NULL
  attempts,     \* delivery_attempts in the order of their ids
  autopost,     \* channels.autopost
  stats,        \* stats_daily.published
  tasks,        \* the local state of the delivery coroutines
  wire,         \* Telegram calls made and not yet processed: <<attempt, part>>
  landed,       \* messages that stand in a channel: <<attempt, part>>
  day           \* the UTC calendar day

table == <<status, tries, publishedOn, attempts>>
world == <<wire, landed>>
vars == <<status, tries, publishedOn, attempts, autopost, stats, tasks, wire,
          landed, day>>

Claimable == {"pending", "approved", "digest", "failed"}
Unresolved == {"publishing", "uncertain", "partial"}
Statuses == Claimable \cup Unresolved
              \cup {"new", "published", "rejected", "expired", "duplicate"}
AttemptStatuses == {"sending", "sent", "failed", "uncertain", "partial"}

Row == [post : Posts, day : Days, status : AttemptStatuses, receipts : 0..2,
        old : BOOLEAN]

\* pc of a coroutine, and what it holds in memory: the claimed row (post, was,
\* tries), its attempt, the acknowledged steps, the verdict of the handler.
PCs == {"idle", "picked", "duplicate", "preparing", "calling", "recording",
        "failing", "finishing"}
Verdicts == {"none", "failed", "permanent", "uncertain", "partial"}
Idle == [pc |-> "idle", post |-> NoPost, att |-> 0, got |-> 0,
         was |-> "none", tries |-> 0, verdict |-> "none"]
Task == [pc : PCs, post : Posts \cup {NoPost}, att : 0..MaxRows, got : 0..2,
         was : Claimable \cup {"none"}, tries : Nat, verdict : Verdicts]

Init ==
  /\ status \in [Posts -> {"new", "pending", "approved"}]
  /\ tries = [p \in Posts |-> 0]
  /\ publishedOn = [p \in Posts |-> 0]
  /\ attempts = <<>>
  /\ autopost = [c \in Channels |-> TRUE]
  /\ stats = [c \in Channels |-> [d \in Days |-> 0]]
  /\ tasks = [t \in Tasks |-> Idle]
  /\ wire = {} /\ landed = {}
  /\ day = 1

-----------------------------------------------------------------------------
(* What a claim checks under the locks of the owner and the channel.       *)

PostsOf(c) == {p \in Posts : ChannelOf[p] = c}
AttemptsOf(p) == {a \in DOMAIN attempts : attempts[a].post = p}
LastAttempt(p) ==
  CHOOSE a \in AttemptsOf(p) : \A b \in AttemptsOf(p) : b <= a

ChannelBusy(c) == \E p \in PostsOf(c) : status[p] \in Unresolved

OwnerOfPost(p) == OwnerOf[ChannelOf[p]]
\* Slip: only finished sends take a slot of the quota.
ReservationsSentOnly(o) ==
  {a \in DOMAIN attempts : /\ OwnerOfPost(attempts[a].post) = o
                           /\ attempts[a].status = "sent"
                           /\ attempts[a].day = day}
Reservations(o) ==
  {a \in DOMAIN attempts : /\ OwnerOfPost(attempts[a].post) = o
                           /\ attempts[a].status # "failed"
                           /\ attempts[a].day = day}
Unledgered(o) ==
  {p \in Posts : /\ OwnerOfPost(p) = o
                 /\ status[p] = "published" /\ publishedOn[p] = day
                 /\ \A a \in AttemptsOf(p) : attempts[a].status = "failed"}
UsedToday(o) == Cardinality(Reservations(o)) + Cardinality(Unledgered(o))

\* Slip: the published posts are not among the known ones.
AlreadyToldPending(p) ==
  /\ p \notin Manual
  /\ \E q \in PostsOf(ChannelOf[p]) :
       <<p, q>> \in Similar /\ status[q] \in Unresolved

\* find_duplicate against the posts of the channel that are or may be out.
AlreadyTold(p) ==
  /\ p \notin Manual
  /\ \E q \in PostsOf(ChannelOf[p]) :
       <<p, q>> \in Similar /\ status[q] \in Unresolved \cup {"published"}

\* Slip: the channel may have another send open.
AdmissibleBusy(p) ==
  /\ status[p] \in Claimable
  /\ ~AlreadyTold(p)
  /\ UsedToday(OwnerOfPost(p)) < DailyLimit[OwnerOfPost(p)]

Admissible(p) ==
  /\ status[p] \in Claimable
  /\ ~AlreadyTold(p)
  /\ UsedToday(OwnerOfPost(p)) < DailyLimit[OwnerOfPost(p)]
  /\ ~ChannelBusy(ChannelOf[p])

Claim(t, p) ==
  /\ Admissible(p)
  /\ Len(attempts) < MaxRows
  /\ attempts' = Append(attempts, [post |-> p, day |-> day,
                                   status |-> "sending", receipts |-> 0,
                                   old |-> FALSE])
  /\ status' = [status EXCEPT ![p] = "publishing"]
  /\ tasks' = [tasks EXCEPT ![t] =
       [pc |-> "preparing", post |-> p, att |-> Len(attempts) + 1, got |-> 0,
        was |-> status[p], tries |-> tries[p], verdict |-> "none"]]
  /\ UNCHANGED <<tries, publishedOn, autopost, stats, wire, landed, day>>

-----------------------------------------------------------------------------
(* A delivery task.                                                        *)

Goto(t, pc) == tasks' = [tasks EXCEPT ![t].pc = pc]
Done(t) == tasks' = [tasks EXCEPT ![t] = Idle]
\* Slip: the acknowledged steps do not count.
FailForgetful(t, verdict) ==
  tasks' = [tasks EXCEPT ![t].pc = "failing", ![t].verdict = verdict]
Fail(t, verdict) ==
  tasks' = [tasks EXCEPT ![t].pc = "failing",
              ![t].verdict = IF tasks[t].got > 0 THEN "partial" ELSE verdict]

\* publish_due reads the queue and starts one task for a channel.
Pick(t, p) ==
  /\ tasks[t].pc = "idle"
  /\ status[p] = "approved" /\ autopost[ChannelOf[p]]
  /\ ~ChannelBusy(ChannelOf[p])
  /\ \A u \in Tasks : tasks[u].pc \in {"picked", "duplicate"}
                        => ChannelOf[tasks[u].post] # ChannelOf[p]
  /\ tasks' = [tasks EXCEPT ![t].pc = "picked", ![t].post = p]
  /\ UNCHANGED <<table, autopost, stats, world, day>>

ClaimPicked(t) ==
  /\ tasks[t].pc = "picked"
  /\ autopost[ChannelOf[tasks[t].post]]
  /\ Claim(t, tasks[t].post)

\* approve, publish_now and the bot's button: the owner asks for this post.
ClaimForOwner(t, p) ==
  /\ tasks[t].pc = "idle"
  /\ Claim(t, p)

\* Any refusal of the claim; the post stays as it is.
Refuse(t) ==
  /\ tasks[t].pc = "picked"
  /\ Done(t)
  /\ UNCHANGED <<table, autopost, stats, world, day>>

FindDuplicate(t) ==
  /\ tasks[t].pc = "picked"
  /\ status[tasks[t].post] \in Claimable
  /\ autopost[ChannelOf[tasks[t].post]]
  /\ AlreadyTold(tasks[t].post)
  /\ Goto(t, "duplicate")
  /\ UNCHANGED <<table, autopost, stats, world, day>>

\* A statement of its own, after the refused transaction.
MarkDuplicate(t) ==
  LET p == tasks[t].post IN
  /\ tasks[t].pc = "duplicate"
  /\ status' = IF status[p] = "approved"
               THEN [status EXCEPT ![p] = "duplicate"] ELSE status
  /\ Done(t)
  /\ UNCHANGED <<tries, publishedOn, attempts, autopost, stats, world, day>>

\* Media download, throttling or rendering fails before a call is made.
PrepareFails(t) ==
  /\ tasks[t].pc = "preparing"
  /\ \E verdict \in {"failed", "permanent"} : Fail(t, verdict)
  /\ UNCHANGED <<table, autopost, stats, world, day>>

Call(t) ==
  /\ tasks[t].pc = "preparing"
  /\ wire' = wire \cup {<<tasks[t].att, tasks[t].got + 1>>}
  /\ Goto(t, "calling")
  /\ UNCHANGED <<table, autopost, stats, landed, day>>

\* Telegram acknowledges the message; the receipt is in memory only.
Acknowledge(t) ==
  /\ tasks[t].pc = "calling"
  /\ <<tasks[t].att, tasks[t].got + 1>> \in landed
  /\ tasks' = [tasks EXCEPT ![t].pc = "recording", ![t].got = @ + 1]
  /\ UNCHANGED <<table, autopost, stats, world, day>>

\* BadRequest, Forbidden or RetryAfter: Telegram did not take the message.
TelegramRefuses(t) ==
  LET call == <<tasks[t].att, tasks[t].got + 1>> IN
  /\ tasks[t].pc = "calling"
  /\ call \in wire
  /\ wire' = wire \ {call}
  /\ Fail(t, "failed")
  /\ UNCHANGED <<table, autopost, stats, landed, day>>

\* Slip: a call without an answer is taken for a refused one.
LoseAnswerAsRefusal(t) ==
  /\ tasks[t].pc = "calling"
  /\ Fail(t, "failed")
  /\ UNCHANGED <<table, autopost, stats, world, day>>

\* Timeout or a broken connection: the call may still be on its way.
LoseAnswer(t) ==
  /\ tasks[t].pc = "calling"
  /\ Fail(t, "uncertain")
  /\ UNCHANGED <<table, autopost, stats, world, day>>

\* Slip: one step more than the post has.
RecordReceiptOneMore(t) ==
  LET k == tasks[t] IN
  /\ k.pc = "recording"
  /\ attempts' = [attempts EXCEPT ![k.att].receipts = k.got]
  /\ Goto(t, IF k.got > Parts[k.post] THEN "finishing" ELSE "preparing")
  /\ UNCHANGED <<status, tries, publishedOn, autopost, stats, world, day>>

RecordReceipt(t) ==
  LET k == tasks[t] IN
  /\ k.pc = "recording"
  /\ attempts' = [attempts EXCEPT ![k.att].receipts = k.got]
  /\ Goto(t, IF k.got = Parts[k.post] THEN "finishing" ELSE "preparing")
  /\ UNCHANGED <<status, tries, publishedOn, autopost, stats, world, day>>

\* The statement fails or times out, committed or not.
RecordFails(t) ==
  LET k == tasks[t] IN
  /\ k.pc = "recording"
  /\ \E n \in {attempts[k.att].receipts, k.got} :
       attempts' = [attempts EXCEPT ![k.att].receipts = n]
  /\ Fail(t, "uncertain")
  /\ UNCHANGED <<status, tries, publishedOn, autopost, stats, world, day>>

\* The exception handler's transaction.  It looks at the status of the post,
\* not at the status of its own attempt.
BookFailure(t) ==
  LET k == tasks[t]
      failed == k.verdict \in {"failed", "permanent"}
      last == k.verdict = "permanent" \/ k.tries + 1 >= MaxAttempts
  IN
  /\ k.pc = "failing"
  /\ attempts' = [attempts EXCEPT ![k.att] =
       [@ EXCEPT !.status = IF failed THEN "failed" ELSE k.verdict,
                 !.receipts = k.got]]
  /\ IF status[k.post] = "publishing"
     THEN /\ tries' = [tries EXCEPT ![k.post] = @ + 1]
          /\ status' = [status EXCEPT ![k.post] =
               CASE ~failed -> k.verdict
                 [] failed /\ last -> "failed"
                 [] failed /\ ~last -> k.was]
     ELSE UNCHANGED <<status, tries>>
  /\ Done(t)
  /\ UNCHANGED <<publishedOn, autopost, stats, world, day>>

\* The transaction after a complete send.
BookSuccess(t) ==
  LET k == tasks[t] IN
  /\ k.pc = "finishing"
  /\ attempts[k.att].status = "sending"
  /\ attempts' = [attempts EXCEPT ![k.att].status = "sent"]
  /\ status' = [status EXCEPT ![k.post] = "published"]
  /\ publishedOn' = [publishedOn EXCEPT ![k.post] = day]
  /\ stats' = [stats EXCEPT ![ChannelOf[k.post]][day] = @ + 1]
  /\ Done(t)
  /\ UNCHANGED <<tries, autopost, world, day>>

\* The attempt was handed over to reconciliation meanwhile.
BookTooLate(t) ==
  /\ tasks[t].pc = "finishing"
  /\ attempts[tasks[t].att].status # "sending"
  /\ Done(t)
  /\ UNCHANGED <<table, autopost, stats, world, day>>

\* Cancellation (shutdown, the deadline of publish_now), a crash, or a failed
\* bookkeeping transaction: the coroutine is gone, the tables stay.
Abandon(t) ==
  LET k == tasks[t] IN
  /\ k.pc # "idle"
  /\ IF k.pc = "recording"
     THEN \E n \in {attempts[k.att].receipts, k.got} :
            attempts' = [attempts EXCEPT ![k.att].receipts = n]
     ELSE UNCHANGED attempts
  /\ Done(t)
  /\ UNCHANGED <<status, tries, publishedOn, autopost, stats, world, day>>

-----------------------------------------------------------------------------
(* Telegram and time.                                                      *)

Land(call) ==
  /\ call \in wire
  /\ wire' = wire \ {call} /\ landed' = landed \cup {call}
  /\ UNCHANGED <<table, autopost, stats, tasks, day>>

\* A call whose coroutine no longer waits for it never reached Telegram.
Drop(call) ==
  /\ call \in wire
  /\ \A t \in Tasks : ~(tasks[t].pc = "calling" /\ tasks[t].att = call[1])
  /\ wire' = wire \ {call}
  /\ UNCHANGED <<table, autopost, stats, tasks, landed, day>>

\* Ten minutes have passed since the attempt began.  The three-minute deadline
\* has ended its calls, and Telegram has processed what it was going to process.
Age(a) ==
  /\ a \in DOMAIN attempts
  /\ attempts[a].status \in {"sending", "uncertain"} /\ ~attempts[a].old
  /\ \A call \in wire : call[1] # a
  /\ \A t \in Tasks :
       /\ tasks[t].pc \in {"preparing", "calling", "recording"}
            => tasks[t].att # a
       /\ tasks[t].pc \in {"failing", "finishing"} /\ tasks[t].att = a
            => SlowBookkeeping
  /\ attempts' = [attempts EXCEPT ![a].old = TRUE]
  /\ UNCHANGED <<status, tries, publishedOn, autopost, stats, tasks, world, day>>

NextDay ==
  /\ day < MaxDay
  /\ day' = day + 1
  /\ UNCHANGED <<table, autopost, stats, tasks, world>>

-----------------------------------------------------------------------------
(* Recovery and the owner.                                                 *)

\* Slip: attempts with receipts are left to their coroutine.
InterruptedUnanswered ==
  {a \in DOMAIN attempts : /\ attempts[a].status = "sending"
                           /\ attempts[a].old /\ attempts[a].receipts = 0}

Interrupted ==
  {a \in DOMAIN attempts : attempts[a].status = "sending" /\ attempts[a].old}

\* Slip: the ledger is corrected, the posts are not.
RecoverLedgerOnly ==
  /\ Interrupted # {}
  /\ attempts' = [a \in DOMAIN attempts |->
       IF a \in Interrupted THEN [attempts[a] EXCEPT !.status = "uncertain"]
                            ELSE attempts[a]]
  /\ UNCHANGED <<status, tries, publishedOn, autopost, stats, tasks, world, day>>

\* recover_stale_deliveries.  Its second statement, for posts in publishing
\* without a ledger row, concerns rows written before the ledger existed:
\* Ledgered below says that none arises.
Recover ==
  /\ Interrupted # {}
  /\ attempts' = [a \in DOMAIN attempts |->
       IF a \in Interrupted THEN [attempts[a] EXCEPT !.status = "uncertain"]
                            ELSE attempts[a]]
  /\ status' = [p \in Posts |->
       IF status[p] = "publishing" /\ AttemptsOf(p) \cap Interrupted # {}
       THEN "uncertain" ELSE status[p]]
  /\ UNCHANGED <<tries, publishedOn, autopost, stats, tasks, world, day>>

\* Slip: statistics go to the day of the reconciliation.
ConfirmSentToday(p) ==
  /\ status[p] \in {"partial", "uncertain"}
  /\ LET a == LastAttempt(p)
     IN /\ attempts' = [attempts EXCEPT ![a].status = "sent"]
        /\ publishedOn' = [publishedOn EXCEPT ![p] = attempts[a].day]
        /\ stats' = [stats EXCEPT ![ChannelOf[p]][day] = @ + 1]
  /\ status' = [status EXCEPT ![p] = "published"]
  /\ UNCHANGED <<tries, autopost, tasks, world, day>>

ConfirmSent(p) ==
  /\ status[p] \in {"partial", "uncertain"}
  /\ LET a == LastAttempt(p)
         sentOn == attempts[a].day
     IN /\ attempts' = [attempts EXCEPT ![a].status = "sent"]
        /\ publishedOn' = [publishedOn EXCEPT ![p] = sentOn]
        /\ stats' = [stats EXCEPT ![ChannelOf[p]][sentOn] = @ + 1]
  /\ status' = [status EXCEPT ![p] = "published"]
  /\ UNCHANGED <<tries, autopost, tasks, world, day>>

\* The owner looks at the channel and sees nothing of the post.
NothingLanded(p) == \A m \in landed : attempts[m[1]].post # p

\* Slip: no quarantine before the owner may say that nothing arrived.
ConfirmAbsentAtOnce(p) ==
  /\ status[p] \in {"partial", "uncertain"}
  /\ NothingLanded(p)
  /\ LET a == LastAttempt(p)
     IN /\ attempts[a].receipts = 0
        /\ attempts' = [attempts EXCEPT ![a].status = "failed"]
  /\ status' = [status EXCEPT ![p] = "pending"]
  /\ UNCHANGED <<tries, publishedOn, autopost, stats, tasks, world, day>>

ConfirmAbsent(p) ==
  /\ status[p] \in {"partial", "uncertain"}
  /\ NothingLanded(p)
  /\ LET a == LastAttempt(p)
     IN /\ attempts[a].old
        /\ attempts[a].receipts = 0
        /\ attempts' = [attempts EXCEPT ![a].status = "failed"]
  /\ status' = [status EXCEPT ![p] = "pending"]
  /\ UNCHANGED <<tries, publishedOn, autopost, stats, tasks, world, day>>

Reject(p) ==
  /\ status[p] \in Claimable \cup {"new"}
  /\ status' = [status EXCEPT ![p] = "rejected"]
  /\ UNCHANGED <<tries, publishedOn, attempts, autopost, stats, tasks, world, day>>

\* replace_draft with needs_review: the rewrite may be an advertisement.
DemandReview(p) ==
  /\ status[p] \in Claimable \ {"pending"}
  /\ status' = [status EXCEPT ![p] = "pending"]
  /\ UNCHANGED <<tries, publishedOn, attempts, autopost, stats, tasks, world, day>>

\* expire_news: one statement for every post that is past its age.
Expirable ==
  {p \in Posts \ Manual :
     /\ status[p] \in Claimable \cup {"new"}
     /\ \A a \in AttemptsOf(p) : attempts[a].status = "failed"
                                   /\ attempts[a].receipts = 0}

ExpireNews ==
  /\ \E S \in SUBSET Expirable \ {{}} :
       status' = [p \in Posts |-> IF p \in S THEN "expired" ELSE status[p]]
  /\ UNCHANGED <<tries, publishedOn, attempts, autopost, stats, tasks, world, day>>

\* _process_post accepts a new post.
Prepare(p) ==
  /\ status[p] = "new"
  /\ \E s \in IF autopost[ChannelOf[p]] THEN {"approved", "digest", "pending"}
                                        ELSE {"pending"} :
       status' = [status EXCEPT ![p] = s]
  /\ UNCHANGED <<tries, publishedOn, attempts, autopost, stats, tasks, world, day>>

\* publish_now takes a draft back to regenerate it from its source.
Refresh(p) ==
  /\ status[p] \in {"approved", "pending"}
  /\ status' = [status EXCEPT ![p] = "new"]
  /\ UNCHANGED <<tries, publishedOn, attempts, autopost, stats, tasks, world, day>>

AutopostOff(c) ==
  /\ autopost[c]
  /\ autopost' = [autopost EXCEPT ![c] = FALSE]
  /\ status' = [p \in Posts |->
       IF ChannelOf[p] = c /\ status[p] \in {"approved", "digest"}
       THEN "pending" ELSE status[p]]
  /\ UNCHANGED <<tries, publishedOn, attempts, stats, tasks, world, day>>

DigestOff(c) ==
  /\ \E p \in PostsOf(c) : status[p] = "digest"
  /\ status' = [p \in Posts |->
       IF ChannelOf[p] = c /\ status[p] = "digest" THEN "pending" ELSE status[p]]
  /\ UNCHANGED <<tries, publishedOn, attempts, autopost, stats, tasks, world, day>>

AutopostOn(c) ==
  /\ ~autopost[c]
  /\ autopost' = [autopost EXCEPT ![c] = TRUE]
  /\ UNCHANGED <<table, stats, tasks, world, day>>

-----------------------------------------------------------------------------

SendStep(t) ==
  \/ ClaimPicked(t) \/ Refuse(t) \/ FindDuplicate(t) \/ MarkDuplicate(t)
  \/ PrepareFails(t) \/ Call(t) \/ Acknowledge(t) \/ TelegramRefuses(t)
  \/ LoseAnswer(t) \/ RecordReceipt(t) \/ RecordFails(t)
  \/ BookFailure(t) \/ BookSuccess(t) \/ BookTooLate(t) \/ Abandon(t)

TaskStep(t) ==
  \/ SendStep(t)
  \/ \E p \in Posts : Pick(t, p) \/ ClaimForOwner(t, p)

Telegram == \E call \in wire : Land(call) \/ Drop(call)

PostStep(p) ==
  \/ ConfirmSent(p) \/ ConfirmAbsent(p) \/ Reject(p) \/ DemandReview(p)
  \/ Prepare(p) \/ Refresh(p)

ChannelStep(c) == AutopostOff(c) \/ DigestOff(c) \/ AutopostOn(c)

Next ==
  \/ \E t \in Tasks : TaskStep(t)
  \/ Telegram
  \/ \E a \in 1..MaxRows : Age(a)
  \/ NextDay
  \/ Recover
  \/ ExpireNews
  \/ \E p \in Posts : PostStep(p)
  \/ \E c \in Channels : ChannelStep(c)

Spec == Init /\ [][Next]_vars

\* A coroutine always goes on: the deadline of a send is 180 seconds, of a
\* statement 30.  Telegram answers or forgets, time passes, and publish_loop
\* runs the recovery every 20 seconds.
Fairness ==
  /\ \A t \in Tasks : WF_vars(SendStep(t))
  /\ WF_vars(Telegram)
  /\ \A a \in 1..MaxRows : WF_vars(Age(a))
  /\ WF_vars(Recover)

FairSpec == Spec /\ Fairness

-----------------------------------------------------------------------------
(* What delivery promises.                                                 *)

\* Every variable keeps its type; the ledger never outgrows its bound.
TypeOK ==
  /\ status \in [Posts -> Statuses]
  /\ tries \in [Posts -> Nat]
  /\ publishedOn \in [Posts -> Days \cup {0}]
  /\ attempts \in Seq(Row) /\ Len(attempts) <= MaxRows
  /\ autopost \in [Channels -> BOOLEAN]
  /\ stats \in [Channels -> [Days -> Nat]]
  /\ tasks \in [Tasks -> Task]
  /\ wire \subseteq (1..Len(attempts)) \X {1, 2}
  /\ landed \subseteq (1..Len(attempts)) \X {1, 2}
  /\ day \in Days

\* A channel never has two posts whose outcome is open: the next send waits
\* until the previous one is finished or reconciled (publisher.py:327).
OneOpenPerChannel ==
  \A p, q \in Posts :
    status[p] \in Unresolved /\ status[q] \in Unresolved
      /\ ChannelOf[p] = ChannelOf[q] => p = q

\* Posts and ledger agree: a post is in publishing exactly while one attempt
\* of it is in sending.  No post is stuck in publishing without an attempt for
\* recovery to find, and no attempt is left open behind a post that moved on.
Ledgered ==
  \A p \in Posts :
    LET open == {a \in AttemptsOf(p) : attempts[a].status = "sending"}
    IN IF status[p] = "publishing" THEN \E a \in open : open = {a}
                                   ELSE open = {}

PostOf(m) == attempts[m[1]].post

\* "No replay" (publisher.py:399): whatever is retried, recovered, reconciled
\* and approved again, all messages of a post that reach its channel belong to
\* one attempt; the audience never sees a message twice.
NoDoubleDelivery ==
  \A m, n \in landed : PostOf(m) = PostOf(n) => m[1] = n[1]

\* An attempt the ledger calls failed, whose slot of the daily quota is given
\* back, put nothing into the channel and never will.
FailedReachedNobody ==
  \A m \in landed \cup wire : attempts[m[1]].status # "failed"

\* No more posts of an owner reach Telegram on the reservations of one day than
\* the daily limit allows, whatever two tasks, crashes and midnights do.
QuotaHolds ==
  \A o \in Owners, d \in Days :
    Cardinality({a \in {m[1] : m \in landed} :
                   attempts[a].day = d /\ OwnerOfPost(attempts[a].post) = o})
      <= DailyLimit[o]

\* A channel never shows two posts find_duplicate takes for one story, unless
\* the owner wrote one of them.
OneStory ==
  \A m, n \in landed :
    LET p == PostOf(m)
        q == PostOf(n)
    IN <<p, q>> \in Similar /\ ChannelOf[p] = ChannelOf[q]
         => p \in Manual \/ q \in Manual

\* stats_daily counts each published post once, on the day the post carries,
\* whether the task or the owner's reconciliation completed it.
StatsExact ==
  \A c \in Channels, d \in Days :
    stats[c][d] = Cardinality({p \in PostsOf(c) :
                                 status[p] = "published" /\ publishedOn[p] = d})

\* A send that was interrupted anywhere does not stay open for ever: recovery
\* hands it to the owner.
SendsEnd ==
  \A p \in Posts : status[p] = "publishing" ~> status[p] # "publishing"

\* replace_draft withdraws a post that needs review from the automatic queue
\* (test_regen_uncertainty_revokes_scheduled_send): a task of publish_due
\* publishes only a post that is approved.
QueueSendsApprovedOnly ==
  [][\A t \in Tasks :
       tasks[t].pc = "picked" /\ tasks'[t].pc = "preparing"
         => status[tasks[t].post] = "approved"]_vars

\* "Already prepared items must remain reachable in the review feed when the
\* user disables the mechanism" (routes.py:243): with autopost off no post
\* waits in the automatic queue, which the feed does not show.
PreparedReachable ==
  \A p \in Posts : status[p] = "approved" => autopost[ChannelOf[p]]

-----------------------------------------------------------------------------
(* Delivery implements the promise AtMostOnce.                             *)

Phase(s) == IF s \in Unresolved THEN "held"
            ELSE IF s = "published" THEN "closed" ELSE "free"

Promise == INSTANCE AtMostOnce WITH
  phase <- [p \in Posts |-> Phase(status[p])],
  reached <- {<<PostOf(m), m[2]>> : m \in landed}

\* The detailed delivery is an implementation of AtMostOnce.
KeepsPromise == Promise!Spec
=============================================================================
