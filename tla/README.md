# Formal specification of NeuroPost

NeuroPost is a Telegram service that collects news for a channel, lets a model
rewrite it, has the owner approve it, and publishes it into the channel. It sells
subscriptions through YooKassa. This directory holds TLA+ models of the parts in
which concurrency, failures and ordering decide whether the service is right,
the TLC configurations that check them, and TLAPS proofs.

Contents: 1 inventory, 2 plan, 3 the modules, 4 the runs, 5 the proofs, 6 what the
code says otherwise (findings), 7 what is left out. Paths are those of the
repository.

## 1. Inventory

One Python process (asyncio) and one PostgreSQL database. `main.run_service` takes
an advisory lock on a connection of its own (a second process exits at once), probes
that connection every ten seconds, and starts the loops: polling of sources,
editorial processing, publishing, broadcasts, billing, the error reporter, the
bot's polling and the HTTP server. When any of them ends, all are cancelled and the
container restarts. Everything that must survive is in PostgreSQL; locks, slots,
pauses and counters live in memory and vanish at a restart.

| component | state | operations | interacts with | what makes it correct |
|---|---|---|---|---|
| **Delivery** `core/publisher.py` | `posts.status/attempts/published_at`, `delivery_attempts`, `stats_daily`, per-channel asyncio locks | `publish_post` (reserve, send the parts, fail, finish), `recover_stale_deliveries`, `reconcile`, `replace_draft`, `used_today` | called by the publish loop, the API, the bot; calls Telegram | nothing goes out twice; what is open is resolved by a person; the daily quota holds; the books agree with the channel |
| **Publish queue and feed** `core/scheduler.py` 503-558, `api/routes.py` 488-625 | `posts.status`, the rows a round has picked | `publish_due`, review, reject, publish now | Delivery | only what stands approved is sent; a prepared post stays reachable |
| **Editorial** `core/scheduler.py` 135-200, 312-500, 561-850, 912-994, `ai/pipeline.py` | `posts` (status, text, reason), the channel's settings, `digest_sent_on`, the cursor of `process_loop`, the channel's lock | `process_post` (read, await the model, read the settings again, write), `publish_fresh_once`, regeneration, digest, expiry, pruning, reconsideration | AI routing, Delivery, the feed | a decision is taken on current settings; nothing uncleared is queued; a story is shown once; one digest a day; every channel gets its turn |
| **Ingestion** `core/scheduler.py` 47-310, `sources/` | cursor and id of a source, the cache of pages, the rows | `poll_channel`, `poll_source` | Editorial | no item lost between cursor and insert, none taken twice |
| **Runtime limits** `core/runtime.py`, `core/rate_limit.py` | next slot of Telegram's rate, last call per chat, semaphores, counters | `wait_telegram`, `channel_lock`, `bounded_map`, `admit` | all senders, all requests | spacing of calls; bounded memory |
| **Broadcasts** `bot/broadcasts.py` | `broadcasts`, `broadcast_recipients`, `users.blocked` | prepare, confirm, cancel, worker step, recovery, report | process guard, Telegram | one at a time; no second copy; a true report; an end |
| **Process guard** `main.py` | the advisory lock | acquire, probe, cancel everything | all loops | one worker |
| **Billing** `billing/` | `billing_accounts/quotes/orders/periods/refunds`, `users.access_until/daily_limit` | calculate, checkout, create payment, webhook, reconcile, audit, refund, receipt, schedule | YooKassa, codes, administrator | one order is charged once; periods do not overlap; access follows money; doubts go to review; receipts accompany money |
| **Access codes** `core/promo.py` | `promo_codes` | create, redeem | Billing (version, periods) | a code is used once and its right kept |
| **Bot and business mode** `bot/handlers.py`, `core/business.py`, `core/features.py` | `kv forward:<user>`, rows of `posts`, notices, the dossier, the switch | forwarded messages, manual drafts, edits, photos, approval, the company's editor | AI routing, Delivery, the API | one draft for a message; no edit undone; a company's text is sent as its owner saw it |
| **Sign-in** `api/account_auth.py` | `web_login_challenges`, `web_sessions`, cookies, the cache of Telegram's keys | session page, login, logout, fetch of the keys | Telegram's identity service | a challenge pays for one session; no old key is trusted |
| **API** `api/routes.py` | none of its own | handlers over everything above | all | a handler writes only what still holds |
| **AI routing** `ai/gemini.py`, `ai/key_pool.py` | `service_api_keys`, pauses and failure counts per key and model, locks of keys | `generate`, `claim`, `succeeded`, `failed` | Editorial, bot | a rested key is left alone; a busy key is passed over; a refusal of content burns no other key |
| **Operations journal** `core/operations.py` | counts of events by group, times of the last message | `emit`, `flush_alerts` | administrators' chat | no emergency is forgotten, none is told again and again |
| **Release** `scripts/deploy/` | uploads, status files, dispatch, release and export locks, source, tag, `current.json` | upload, submit, validate, back up, build, activate, roll back | Docker, GitHub, the exporter | what runs was approved; source, tag and containers are of one version; the status is true |
| **Host operations** `scripts/operations/control.py`, `monitor.py` | marks of maintenance and fence, `recovery.json`, the containers | maintenance, restart, fence, bounded recovery | Release (one lock) | a fenced host stays down; few restarts |
| **Alarms** `scripts/resilience/alerts.py` | `alert-state.json` | `notify` | the monitors | whoever can be reached is told, and of nothing else |
| **Fencing** `scripts/ha/provider_fencing.py` | none | status, stop, confirm | provider of the hosts | returns only on evidence that the machine is off |
| **Backups, standby** `scripts/ha`, `scripts/resilience` | files, markers | shell | docker, PostgreSQL | I/O |
| Mini app, WAF, playbooks, CI, load generator, advertisement book, watermark | | | | not the service's protocols |

The behaviours that are hard are listed, each at its line, in `PROJECT.json`
under `hazards`. In one sentence: between two transactions lies a request to Telegram,
YooKassa, a model or Docker, its answer may be late or lost, and meanwhile another
loop, the owner, the administrator, a notice or a restart may change the rows. Smaller
hazards that no property speaks of are named in section 7.

## 2. Plan

All of it is done except what section 7 names.

1. `Delivery`, its abstract promise `AtMostOnce`, proofs `DeliveryProofs` and
   `DeliverySafety`.
2. `Broadcast` with the process guard, proofs `BroadcastProofs`.
3. `Billing` with codes, administrator and provider, proofs `BillingProofs`.
4. The newsroom: `NewsPosts` (rows, settings, clock), `Pipeline` (the model's
   answers), `Editing`, `Digests`, composed in `Newsroom`; proofs `NewsroomProofs`.
5. `Intake`, which reads sources into the same rows and is shown to make only the
   rows that `Newsroom` lets arrive.
6. `Drafts`: bot, feed and business mode; proofs of both in `DeskProofs`.
7. `Host` and, on top of it, `Release`; proofs `ReleaseProofs`.
8. The services that share no state: `Routes`, `Rotation`, `Pacing`, `Journal`,
   `Alerts`, `SignIn`; proofs `ServicesProofs`.

Worth doing next: theorems for the invariants that only the unlisted configurations
check (`HeldForCause` of Billing, `RepeatsSpaced` of the journal, `KeysAreRecent` and
`FetchesSpaced` of the sign-in, `OffChangesNothing` of the drafts), and the statement of
`NoDoubleDelivery` that holds with slow bookkeeping: at most one copy for each handler
that outlasts the quarantine.

## 3. The modules

Conventions. One action is one PostgreSQL transaction, one single statement, or
one call to the outside. What lies between two `await`s of a coroutine without
shared state belongs to the neighbouring action. A coroutine is a record with a
`pc` and what it holds in local variables. Definitions whose comment begins with
`Slip:` are not part of the specification: each is a plausible mistake in the code,
kept beside the definition it distorts, and named in `PROJECT.json` under
`mutants`, so that every property is known to be able to fail.

### Delivery

`status`, `tries`, `publishedOn` are columns of `posts`; `attempts` is
`delivery_attempts` in the order of ids (a row keeps its post, UTC day, status, number
of receipts, and whether it is older than the ten minutes the code waits);
`stats` is `stats_daily.published`; `tasks` are coroutines inside `publish_post`;
`wire` holds calls Telegram has not processed, `landed` the messages that stand in a
channel.

| action | code |
|---|---|
| `Pick` | `publish_due` reads the queue and starts a task for a channel |
| `ClaimPicked`, `ClaimForOwner` | the reserving transaction of `publish_post`: channel and owner rows locked; status, duplicates, quota and open deliveries read again. Started by the queue, or by approve / publish now |
| `Refuse`, `FindDuplicate`, `MarkDuplicate` | the claim is refused; a duplicate is booked by a statement of its own |
| `PrepareFails`, `Call`, `Acknowledge`, `TelegramRefuses`, `LoseAnswer` | media and throttling, one Telegram request, and what the coroutine learns of it |
| `RecordReceipt`, `RecordFails` | the receipt written after each acknowledged part |
| `BookFailure` | the exception handler's transaction, with its guard on the post's status |
| `BookSuccess`, `BookTooLate` | the finishing transaction, with its guard on the attempt |
| `Abandon` | cancellation, shutdown, crash, or a bookkeeping transaction that fails: the coroutine is gone, the tables stay |
| `Recover` | `recover_stale_deliveries`, at the start and every 20 seconds |
| `ConfirmSent`, `ConfirmAbsent` | the owner's answer to an unclear delivery |
| `Prepare`, `Refresh`, `DemandReview`, `Reject`, `ExpireNews` | what editorial processing, the feed and expiry do to a post's status |
| `AutopostOn`, `AutopostOff`, `DigestOff` | the channel's settings, with the posts they take back to review |
| `Land`, `Drop`, `Age`, `NextDay` | Telegram and the clock |

`PROJECT.json` gives the lines of each. The conditions that can refuse a send at any time (window of
publication, pause, pace, `publish_at`, access of the owner) appear as the freedom
not to claim: every property here is about what happens when a claim is made.

*Assumptions.* (a) In `ConfirmAbsent` the owner tells the truth about the channel.
(b) Telegram does not process a request more than ten minutes after the
attempt began (guard of `Age`; the quarantine is the code's own, publisher.py:399).
(c) With `SlowBookkeeping = FALSE`, the transaction after a send does not take
longer than that quarantine. (c) is an assumption and not a fact: the failure
handler updates the post `WHERE status='publishing'` without looking at its own
attempt (publisher.py:364), so that with `SlowBookkeeping = TRUE` a handler ten
minutes late reopens a post that a second attempt is sending: `NoDoubleDelivery` fails, and so
does `StatsExact`, since both attempts are booked as successes of one post. The quota
and `FailedReachedNobody` do not depend on (c): `delivery_quota` runs with `TRUE`, and
their theorems do not assume it.

`AtMostOnce` is the abstract promise: the messages of a post appear in the channel at
most once, in order, and only while the post is held or closed; a channel holds
one post at a time; a held post is released only if nothing of it has appeared.
`KeepsPromise` in `Delivery` instantiates it: `phase` is read off the post's status,
`reached` off the messages in the channel.

### Broadcast

`status` and `fresh` (younger than thirty minutes) are `broadcasts`, `recipient` is
`broadcast_recipients`, `guard` the advisory lock of `main.py`, `worker` the local
state of each process, `wire` and `landed` as before.

| action | code |
|---|---|
| `Prepare`, `Confirm`, `Cancel`, `Expire` | the administrator's buttons, with the lock at broadcasts.py:75 |
| `Start`, `Stop`, `LoseGuard` | `run_service`: the lock is taken, the process ends, the connection breaks |
| `Recover`, `Purge`, `Claim`, `Finish`, `LoopFails` | the loop `run` and the first half of `deliver_one` |
| `Check`, `CheckFails`, `Call`, `Acknowledge`, `Refuse`, `Cooldown`, `LoseAnswer`, `Write` | the send of one message and its booking |
| `Land`, `Drop`, `Block` | Telegram and the users |

A dropped connection leaves two workers alive for up to ten seconds
(`GuardBreaks = TRUE`); the safety properties hold even then, because the claim
is a single UPDATE and nothing ever returns an unclear recipient to `pending`.

### Billing

One account: every transaction of the module begins with the user's row locked, so
accounts do not interact and a transaction is one action. An order carries the
number of its quote (`quote_id` is UNIQUE). The clock is in ticks; a `Month` is a
number of them. A task carries what it was told between the provider's answer
and the transaction, which is where stale answers come from. An order costs two parts, and a refund gives back one or both.

| action | code |
|---|---|
| `Calculate`, `Expire`, `Checkout`, `Schedule` | `quote`, its expiry, `checkout` and its branch for a downgrade |
| `Refresh`, `Get`, `Post`, `GiveUp` | `refresh_order`, from checkout, from the page of an order and from the reconciliation: the order is read under its lease, then its payment is asked for or created under the order's idempotency key; after 23 hours without an answer it goes to review |
| `Notice`, `NoticeRefund` | the webhook, which never trusts the body and asks the provider |
| `SettlePending`, `SettleCanceled`, `SettleOdd`, `SettleTest`, `SettleHeld`, `SettleGranted`, `Mismatch`, `Ignore` | `settle`, one action per outcome |
| `RefundAgain`, `RefundWhole`, `RefundHeld` | `record_refund` |
| `Audit`, `AuditEnds` | `audit_order` for settled orders |
| `AttachReceipt` | `receipts.attach_receipt` |
| `Redeem` | `promo.redeem` |
| `Extend`, `Block` | `admin_update_user` |
| `SyncUser` | `sync_user`, run at every authenticated request |
| `Decide`, `Return`, `Tick`, `Grow`, `Abandon` | the buyer at the provider, the shop's refunds, the clock, the age of an idempotency key, a task that dies |

*Abstractions.* The row of `billing_accounts` exists from the start (the code inserts
it on first use); the order in which reconciliation takes orders (`checked_at`) is
free; a fiscal receipt the provider could not register appears as the cause of
review in the audit; of the administrator's changes only `extend_days` and
`blocked` are modelled; the switch between test and live environment is fixed for a
run; a buyer can only pay through the link the application has stored; the amounts
of upgrades are left to `Pricing`; a scheduled plan is display only, as in the code.

### NewsPosts, Pipeline, Editing, Digests, Newsroom

The rows of one channel, from the moment an item appears at its source to the
moment readers see it. `posts` holds a row for each item with its status, the
revision it was taken from, its text and the reason it waits; a `text` remembers what
the properties ask about it: for which settings it was requested and which stood when
the model had answered, whether an advertisement was ruled out and facts were
confirmed. `desk` is the work under the channel's lock, `redraft` a request to write
a post anew (it takes no lock), `runner` the tasks that prepare a digest (two when the
process guard breaks), `sentOn` `channels.digest_sent_on`. Sending is one step here;
`Delivery` is what it is made of.

| action | code |
|---|---|
| `Appear`, `Withdraw`, `Revise`, `Tick` | the source and the hours |
| `Arrive` | a row made by `poll_source` (in detail in `Intake`) |
| `SetPaused`, `SetAutopost`, `SetMode`, `SetEdition` | `update_channel`, with the rows it takes back to review |
| `ReconsiderFiltered`, `ExpireNews`, `PrunePosts` | `reconsider_filtered`, `expire_news`, `prune_posts` |
| `PublishDue`, `Approve`, `Reject` | the queue and the feed over a single post |
| `PickUp`, `Judge`, `Answer`, `TimeOut`, `Reread`, `Write` | `process_post`: row and settings are read, checked before the model is asked, the model answers or does not, the settings are read again, the result is written if the row is still new |
| `PublishNow`, `NextCandidate`, `Verify`, `Exhausted` | `publish_fresh_once`: the newest items are renewed and prepared one by one until one can be sent; each is read again once it is prepared |
| `SendNow` | `publish_post`, called by it: the claim, in a later transaction, takes the row as it stands then, and the post is sent |
| `AskRedraft`, `ReplaceDraft` | regeneration from the feed, with `replace_draft` |
| `Prepare`, `GiveUp`, `Make`, `SendMade` | `digest_due` and `run_digest`: read, ask, then one transaction that makes the digest's post, takes its items and reserves the day; then the send |
| `PublishDigest`, `ApproveDigest`, `RejectDigest` | a digest as a row of the queue and the feed |
| `Crash` | the process dies; the rows stay |

`Pipeline` is a function: for every quality and every combination of answers of the
model (`Answers`) what `pipeline.process` returns. `Outcomes`, the set of its values,
is what `Answer` and `ReplaceDraft` choose from, so no outcome is assumed that the
stages cannot produce.

*Abstractions.* The clock counts hours of freshness. An `edition` stands for all settings
of the content (quality, media only, instructions, language). Whether a text is
short enough for a digest is left open. A deferred row waits less than a tick. A
channel stays in its time zone.

### Intake

Two readers of one source. `source` is its row (id, cursor), `cache` the page kept for
a minute, `reader` the local state between the page and the transaction.

| action | code |
|---|---|
| `Fetch`, `Abandon` | `fetch_source` and its failures |
| `Commit` | the transaction of `poll_source`: the source is still the one that was read, new items are chosen by `_pick_new`, known ones left out, the cursor moves |
| `ReplaceSource` | the source is deleted and added again |

`ReadsArrive` says that `Commit` makes only rows that `NewsPosts!Arrive` makes; that
is why `Newsroom` may use the one action for all readers.

### Drafts

The texts of one channel that wait for its owner. `hand` are the requests at work (a
record with what each has read), `slot` the forwarded message that waits in `kv`,
`drafts` rows of posts with the number of the version of text and photo, `mode` the
switch of the feature, the channel's business mode, autopost and dossier, `agreed` the
versions an owner has approved on his screen.

| action | code |
|---|---|
| `Forward`, `Tap`, `Consume`, `Write`, `Notice` | `on_forward`, `on_forward_action`, `on_manual`: the message is consumed before the model is asked; the notice makes the draft editable |
| `NewsText` | a row of the editorial desk |
| `Rewrite`, `Replace` | an edit by reply, a rewrite in the chat or the app: read, ask the model, `replace_draft` |
| `PickPhoto`, `SetPhoto` | the photo of a company's draft |
| `RejectDraft`, `Press`, `Queue`, `ClaimDraft`, `Sent`, `Recover`, `Reconcile` | refusal, approval, `publish_due`, and `publish_post` with the consent it asks for |
| `Compose`, `Composed` | `business.generate`, with limit and dossier looked at before and after the model |
| `Enter`, `Leave`, `Autopost`, `Profile`, `Restart` | `update_channel`, the dossier, a restart with the feature on or off |
| `Give` | a request or its model fails |

`features.BUSINESS_MODE_ENABLED` is off in this commit; both values are initial states.

### Host and Release

`Host`: the lock all tools share without waiting, the marks in `/etc/neyro-ops`, the two
containers, the administrator's tool (`MaintenanceOn`, `MaintenanceOff`, `RestartApp`,
`FenceBegins`, `FenceHolds`, `FenceFails`), the bounded recovery (`MonitorRound`,
`Recover`, `RecoverGivesWay`, `Recovered`, `RecoveryFails`), and `Sicken`, `Tick`.

`Release` extends it:

| action | code |
|---|---|
| `Push` | main moves, its checks pass or fail |
| `BeginUpload`, `EndUpload`, `AbandonUpload`, `Submit`, `Launch`, `LaunchFails` | the forced command: archives replaced by `os.replace`, submission under its own lock, `systemd-run` |
| `Begin`, `ReadBundle`, `Stage`, `Backup`, `Freeze`, `Refused` | the worker up to the activation: lock, bundle, approval by main and its checks, guards, what is saved for a rollback, backup, build |
| `Synchronize`, `Tag`, `RestartWorkers`, `Activated` | the activation, with a source that is half replaced on the way |
| `RollBack`, `Restore`, `RolledBack`, `RollbackFails` | the rollback (also `Tag`, `RestartWorkers`), begun at any point of the activation |
| `Record`, `Report`, `RecordFails` | `current.json`, then the status |
| `BeginExport`, `EndExport`, `Reboot` | snapshots, and a kill of everything at once |

A step is what a tool does between two points at which it can be killed or can see
what another one did. `wounded` marks an activation that a reboot or a failed rollback
has cut off: only then may parts be of two versions, and `OneVersion` says so.

### Routes, Rotation, Pacing, Journal, Alerts, SignIn

Six parts of which each has its own state and no other part's.

- `Routes` (`gemini.generate`, `key_pool`): `Ask`, `TakeKey`, `LockPoolKey`, `Claim`,
  `PassOver`, `NoRoute`, `Call`, `Text`, `Refuse`, `NoSlot`, `TooLate`, `Toggle`. A request
  walks from the owner's key over keys of the pool to the service's key, over the
  chain of models of each.
- `Rotation` (`process_loop`): `BeginScan`, `Look`, `ScanFails`, `Done`, with `Turn` and
  `Lock` for the channels that get ready or busy while the scan awaits the database. What
  a scan has still to look at is a set, and `Ahead` the order of the query.
- `Pacing` (`wait_telegram`): `Send`, `Wake`, with the bounded table of chats. The
  assumption `TableSize * Spacing >= ChatGap` is what makes the bound harmless; the
  code's 2048 entries of 0.04 seconds against a gap of 1.1 seconds satisfy it.
- `Journal` (`ErrorJournal`): `Emit`, and the one flush at a time: `Select`, `Verify`,
  `Deliver`.
- `Alerts` (`alerts.py`): `Notify`, one round of a monitor, any of whose messages may
  fail and whose state may not be saved.
- `SignIn` (`account_auth.py`): tabs that share cookies; `OpenPage`, `PageArrives`,
  `TokenGiven`, `SendLogin`, `FromCache`, `BeginFetch`, `EndFetch`, `FetchFails`,
  `CommitLogin`, `LoginArrives`, `Logout`, `Expire`, `Ban`, `KeysTurn`.

Times in these modules are what is left of them, so that the state space is finite
without a bound on the clock.

## 4. The runs

Each run finishes within three minutes on two cores.

| run | instance | states | checks |
|---|---|---|---|
| `delivery_channel` | 3 posts of one channel (one of two parts, one manual, two of one story), 2 coroutines, 2 attempts | 921,896 | `OneOpenPerChannel`, `Ledgered`, `NoDoubleDelivery`, `FailedReachedNobody`, `OneStory` |
| `delivery_quota` | 2 channels of one owner, a quota of one, 2 coroutines, 2 days, slow bookkeeping | 2,216,832 | `QuotaHolds` |
| `delivery_promise` | 2 posts of one channel, one coroutine, fair | 82,884 | `StatsExact`, `KeepsPromise` (refinement), `SendsEnd` |
| `broadcast_overlap` | 1 broadcast, 2 users, 2 processes, the guard may break | 181,406 | `NoSecondCopy`, `ReportIsTrue` |
| `broadcast_ends` | 2 broadcasts, 1 user, 1 process, fair | 44,560 | `OneRunning`, `BroadcastEnds` |
| `billing_payments` | 1 order, 2 tasks, receipts by hand, all refunds, foreign answers, blocking, fair | 45,948 | `OnePayment`, `ReceiptsFollowMoney`, `CaptureKept`, `SettledStays`, `DecisionArrives` |
| `billing_periods` | 2 orders, 2 plans, 2 codes or extensions, 2 instants, whole refunds, the test shop and fiscal receipts | 2,039,404 | `PeriodsDisjoint`, `AccessIsCovered` |
| `newsroom` | two scenes: one item under two changes of the settings, regeneration, "publish now" and expiry; and a digest of two similar items | 1,557,911 | `AiredOnce`, `ClearedForQueue`, `TextFits`, `OneDigestADay`, `NowIsClearedOrAsked` |
| `release` | 2 workers on one host, three horizons: two releases; one release with administrator, monitor and fence; these tools alone over an hour | 1,423,759 | `RestartBudget`, `FencedStaysDown`, `OneVersion`, `OnlyApprovedCode`, `StatusIsTrue` |
| `services` | six scenes: 2 administrators of alarms; 3 groups of events; 2 requests over an own key, a pool and the service's key; 3 channels and 2 places; 3 senders and 3 chats; 2 tabs and 2 signing keys | 1,166,916 | `ToldInTime`, `RoundRobin`, `EveryEventCounted`, `OneSessionPerChallenge`, `PausesKept`, `PaceKept` |
| `desk` | two scenes: 3 items and 2 readers of a source; 2 requests at the drafts of a channel | 1,765,876 | `NothingLost`, `OneDraftPerForward`, `NoEditLost`, `SentAsAgreed` |
| `delivery_queue` | as small as the counterexample | | `QueueSendsApprovedOnly`: section 6 |

A scene is a part of an instance that shares no action with the other parts: its
initial states are told apart by one variable of the MC module, and nothing of another
scene moves in it.

More can be run by hand. `MCDelivery_types`, `MCBroadcast_types`, `MCBilling_more`,
`MCNewsroom_more`, `MCRelease_more`, `MCServices_more` and `MCDesk_more` check, on the
instances above, the type invariants and properties that say less than the listed ones
or say it of smaller things: that a hold of the account has a cause and a code's right
outlives a subscription (`HeldForCause`, `RightKept`), that a digest consists of its
items, that snapshots agree with themselves and releases go forward, that a key serves
one call, a refusal of content ends its route, reminders and repeats keep their
distance, signing keys are recent, that rows arrive as `NewsPosts` says, and that a
feature switched off changes nothing. All hold, over the state counts above, and the slips written against them stay in
the modules beside the listed ones. The other
unlisted configurations refute what section 6 quotes.

What the passing runs say together: whatever crashes, lost answers, double presses and
late handlers do, the audience of a channel sees a post once and of one story only one
post; the quota and the statistics count what went out; an item the source showed is
read or its loss has a reason, is judged by the settings that hold when the judgement
is written, and goes out with a text that was made for it and cleared, or that its owner has seen
or, under "publish now", had just had written anew; a day has one digest; an owner sends the version he saw; an announcement reaches a user at most once
and its report is true; a buyer is charged once per order, for periods that do not
overlap, and the decision made at the provider reaches the order without any webhook;
what runs on the host was approved and is of one version, and a fenced host stays
down.

*Bounds* are constants or named operators of the module. Delivery: `MaxRows`, `MaxDay`
(`MaxAttempts` is the code's constant made small); Broadcast: `MaxCooldowns`;
Billing: `MaxTime`, `MaxPayments`; the newsroom: `MaxTime`, `MaxChanges` (changes of
settings), `Moves` (what the owner does here), `MaxMembers` (items of a digest); Drafts: `MaxForwards`,
`MaxDrafts`, `MaxVersions`, `MaxPhotos`, `MaxSwitches`; Release and Host: `Horizons`
(ticks, commits, uploads, submissions); the services: `MaxAlertTime`, `MaxEvents`,
`MaxAsks`, `MaxFailed`, `Answers`, `MaxBatch`, `MaxChallenges`. `MaxPending`,
`Capacity`, `PerMessage`, `TableSize`, `Reminder`, `Repeat`, `KeepNews`, `KeepRows`,
`KeysLife` and the like are the code's own constants made small.

*Why the bounds are enough.* An unsafe delivery needs two attempts of one post and
two coroutines: the handler of the old attempt and the new send (`MaxRows = 2`).
One story told twice needs two similar posts, and the manual one is there because it
is exempt. The quota needs two channels, one free place and one midnight. The races
of the worker need two processes; two confirmations need two broadcasts, but only
one process, since the administrator's handlers take no part in the worker's loop. A
second payment needs one order and two callers, and so does a stale answer, or a
refund that meets a settlement: one task holds the old answer while the other does
everything else. Overlapping periods need two orders of different plans and
something that changes the account between quote and settlement; one task is enough
because it may hold an answer while quotes, codes, ticks and refunds happen around
it.

A post of the desk is judged alone, under its channel's lock: a stale judgement needs
one item and one change of the settings while the model thinks, and a second change to
turn the first one back. What relates two items is the digest and similarity, and for
them the second scene has two. Two digests of a day need a night and a crash between
the transaction and the send; a second runner is left to the theorem of section 5, which
has any number. An item is lost, or taken twice, between a page, a cursor and a commit:
two readers, three items, one of them read by both, and one replacement of the source.
A draft needs two requests to be consumed, edited or sent twice. On the host two workers
of releases are the most that ever meet, because a third would wait for the same lock;
two commits give an old and a new version, and the recovery's budget is reached within
its hour. A route needs two requests to meet at a key, a slot or a pause, one that the
first one set; a turn of channels needs one more channel than places; the bounded table
of chats overflows with three chats; a group of events is pushed out by the third.

Larger instances add states and not kinds of interleaving; where a theorem of
section 5 exists, it removes the bound altogether.

*Deadlock* is checked where no bound of the instance can stop the system;
`newsroom`, `release`, `services` and `desk` end where their clock or their supply of
items, commits and challenges ends, and say `CHECK_DEADLOCK FALSE`.

*Symmetry* is used over tasks, users, orders, workers, tabs and requests only in runs
that check invariants or action properties, never with liveness.

*Fairness.* `delivery_promise`: a coroutine takes a step or is abandoned (a send has
a deadline of 180 seconds, a statement one of 30), Telegram processes or forgets a
request, an attempt grows old, and `publish_loop` runs the recovery every 20
seconds; nothing is assumed about the owner, nor that sends succeed.
`broadcast_ends`: the container is restarted (`restart: unless-stopped`), a send ends
by its timeout of thirty seconds, and a statement of the loop that is tried for ever
does not fail for ever (strong fairness, since `LoopFails` and `Stop` disable it again
and again). Telegram's "retry after" is bounded by `MaxCooldowns`: a chat that is
throttled for ever would indeed keep its broadcast running. `billing_payments`: the
reconciliation takes every open order in turn, once a minute, and of its requests not
all fail (strong fairness, since `Abandon` may end any of them); every request
ends. No fairness is given to `Notice`: webhooks may all be lost. The other runs check
no liveness: a model may fail for ever, and the code then leaves the post with the
owner. That every channel gets its turn is said as a safety property instead
(`RoundRobin`), and so is the alarm that comes in time (`ToldInTime`).

## 5. The proofs

Every safety property of the passing runs is a theorem, for all values of the constants
that satisfy the named assumption of its module. An assumption types the constants,
keeps the names of unlike things apart (`NoItem \notin Items`), makes finite what is
counted (`Items`, `Pool`, `Groups`), or states an inequality between the code's own
numbers (`TableSize * Spacing >= ChatGap`, `Gap <= Hour`, `KeepNews <= KeepRows`). A
theorem that needs more says so in its statement: `~SlowBookkeeping` in Delivery,
`~GuardBreaks` in `RecoveryAlone`, `shop = "npd"` in `CaptureIsKept`.

The bounds of the models (`MaxRows`, `MaxTime`, `MaxAsks` ...) are constants, too; the
theorems hold for each of their values.

**Delivery** (`DeliveryProofs`, `DeliverySafety`).

- Without an assumption on the bookkeeping: `TypeCorrect` (with `TypeInv`: every attempt
  that a task holds exists); `FailedIsSilent`: an attempt booked as failed has put nothing
  into the channel and has nothing under way; `QuotaKept`: the posts of an owner that
  reach readers on the reservations of one day are no more than his quota.
- With `~SlowBookkeeping`: `OneOpenHolds`, `LedgeredHolds`, `NoReplay` (no part of a post
  stands in the channel twice), `OneStoryHolds`, `StatsHold`, and `PromiseKept`, the
  refinement: every step of `Delivery` is a step of `AtMostOnce` or leaves it as it was.

The argument has two halves. `Honest` says what is known of the calls however slow the
tables are: an attempt makes each part's call once (`OnceEach`), in order and after the
receipts of the earlier ones (`InOrder`); one coroutine works on an attempt
(`OneWorker`); a call is on the wire only while its attempt is young (`WireYoung`, the
ten-minute quarantine); a failed attempt has neither calls nor messages
(`FailedIsClean`). The quota follows from it: `WithinQuota` counts the attempts of an
owner and a day that have called or still may, each of which the claim counts as a
delivery, since what is not failed is counted. `NoDoubleDelivery` needs the second half,
`Safe`: only the last attempt of a post can be `sending` (`SendingIsLast`), a post is
`publishing` exactly while that attempt is (`PublishingIsSent`), a task in the middle of a
send works on a young attempt of this kind (`WorkersSend`), and calls belong to the last
attempt of a post that is held or published (`CallsKept`). `~SlowBookkeeping` is used in
one place only, the step in which an attempt becomes old (`AgeSafe`). On top of these,
`ToldOnce` says of similar posts that are held or published what `OneStory` says of the
messages, `Counted` ties the statistics to the rows, and `PartsInTurn` has the
second part wait for the first, which the refinement needs.

**Broadcast** (`BroadcastProofs`): `AtMostOneCopy`, `ReportHolds`, `OneRunningHolds` and
the types for any number of processes, users and announcements, with `GuardBreaks`
free: the advisory lock is not needed for them. `Inv` relates four records
of the same send: the recipient's row, the worker that holds it, the call it waits
for and the messages on the way or landed. Its heart is that a row that waits is
untouched (no message exists and no worker holds it: `RecipientTrue`, `AtRest`), so a
claim is always the first (`ClaimKeeps`), and that two workers never hold the same
recipient (`HeldAlone`), so what one of them books is about its own call
(`WriteKeeps`). Recovery under a broken lock turns the row of a living send into
"uncertain", and the late booking then overwrites it with the truth. `NoTrace` is
needed because a purged announcement must not be prepared a second time.
`RecoveryAlone` proves, assuming `~GuardBreaks`, the comment that
`MCBroadcast_lock.cfg` refutes without that assumption: recovery never meets a send
in progress.

**Billing** (`BillingProofs`): `NoDayTwice`, `PaidOnce`, `ReceiptsHold`, `SettledForGood`,
`CaptureIsKept` (for `shop = "npd"`; section 6 has the counterexample elsewhere),
`AccessHasReason`, `RightIsKept`, `TypeCorrect`.

- `TypeInv` contains `PeriodsDisjoint`, because `active_period` is a function of the books
  only if one period is in force; and `Attached`: whatever a task, an order or a refund
  says of a payment is said of a payment of that order.
- `PaidOnce`: a request that may create a payment is about an order whose key the
  provider still knows (`KeyKnown`), so a repeated request finds the first payment. What
  the code does after 23 hours is what keeps `KeyKnown`.
- `SettledForGood`: refunds never exceed the price and what was booked whole was returned
  whole (`RefundInv`); `CaptureInv`: a capture that is known is settled or with a human,
  and receipts are queued for exactly these.
- `AccessHasReason`: what the account shows is what a period that has begun, or the right
  kept aside, gives (`AccessBooks`); `SyncCovers` is the lemma of every transaction that
  ends in `sync_user`.

**Newsroom** (`NewsroomProofs`): `OnlyClearedTexts`, `TextsFitTheirRows`, `ShownOnce`,
`DigestOncePerDay`, `NowSendsClearedOrAsked`, `TypeCorrect`, for any number of items,
editions, changes of the settings, runners and hours. `Rows` relates a row's status to its
text, its revision and its age (what is queued was cleared and of one edition); `DeskInv` and `RedraftInv` say
what a coroutine that awaits the model may still write, given that row and settings go
on changing; `DigestsInv` types digests and their runners. `ShownOnce` needs to know why a
story cannot come again (`OnceShown`): its row has been sent or taken into a digest,
or can be queued no more and is too old to come back (`Spent`). `DigestOncePerDay` needs that the channel's row has
reserved a day no earlier than that of every digest and no later than today
(`DayReserved`); `Make` compares its own day with the row's inside the transaction that
moves it. `NowSendsClearedOrAsked` needs `SendingFits`: while "publish now" waits for its
claim, its row holds a text it may send (`MayGoNow`) or none that can be claimed, whatever
the owner's redraft, pruning, the settings and the feed do to the row meanwhile.

**Intake and Drafts** (`DeskProofs`).

- `NoStoryIsLost`: every due item of a page whose cursor was committed has had its row, or
  came late, or was passed over by the policy. `ReadInv`: what stands at or before the cursor
  has been dealt with (`CursorInv`), a cached page lacks nothing that precedes what is due
  on it (`CacheInv`), and the same of the page a reader has in hand, however long ago he
  fetched it (`HeldOK`).
- `ReadersOnlyArrive`: the rows a reader makes are those `Arrive` makes; this is what
  `Newsroom` rests on when it takes one action for all readers.
- `ForwardUsedOnce`: the message that waits in the slot is in no draft and in nobody's work
  (`SlotFresh`), so the one request that empties the slot is the only one that ever
  asks a model about it.
- `OwnerAgreesFirst`: what an owner has pressed stays agreed until his request is done
  (`PressInv`), and the claim compares the row with what he saw.
- `LateAnswersUndoNothing`: a text is replaced only by a request that has read the
  version it replaces, in a status that may still be claimed.

**Host and Release** (`ReleaseProofs`): `FenceHoldsForGood`, `OnlyApprovedRuns`,
`PartsOfOneVersion`, `ReportsAreTrue`, `SnapshotsAreWhole`, `ForwardOnly`, `BudgetIsKept`,
`TypeCorrect`. `Base`: whoever works has the lock, whoever activates holds off the
exports (`Held`), and an admitted worker has the files of a commit that has passed
(`Approval`). On it rest `Fences` (nobody who looked at the marks before they were written
is still at work), `Clean` (every image, source and saved copy is of an approved version),
`Progress` (at each point of an activation or rollback, which parts are of which version),
`Ahead` (whoever may still be recorded is ahead of what is current) and `Budget` (the
record in `recovery.json` accounts for the last two restarts, which is what the
decision looks at). `Recent` takes the attempts of the last hour as the end of a sequence in
the order of the clock, because the provers know nothing of `SelectSeq`; that it is the
filter of the code is `RecentIsFilter`, an invariant of `MCRelease_more.cfg`.

**Services** (`ServicesProofs`).

- `ChallengePaysOnce`: the challenge a session was paid with is gone from its table
  (`Paid`), and every tab holds a number that has been given out (`Pages`); the login
  deletes the challenge in its transaction and goes on only if it was there, so no second
  session can name it (`Unrepeated`).
- `OutageIsTold`, `AlarmsHaveCause`, `RemindersWait`: as long as the state could be saved,
  an active alarm is the last word its recipient was given, at the time that is kept
  (`Informed`).
- `EveryoneHasATurn`: a channel that another has overtaken comes before it in the next
  scan, and in the present one unless the other has had its turn there (`Overtaken`, with
  `ScanInOrder`).
- `NoEventIsLost`: the sum of what waits, in the text under way or not, changes by what is
  logged, told and settled. The sum is a fold over a set; that it adds up member by
  member (`TotalIs` and the lemmas before it) is shown by a least counterexample.
- `PaceIsKept`: what a chat must still wait for is in the table (`Covers`), once
  (`Single`), and an entry that still matters is younger than the spacings of those
  behind it (`Young`), so it is never among those that are dropped.
- `PausesHold`, `KeysServeOne`, `RefusedTextsEnd`: a request that holds a key is alone with
  it, and the models it has still to try are distinct, unpaused, and of a key that does
  not rest (`Alone`, `Fresh`); a failure pauses the model that is left behind, and no other
  request can pause one of this key.

*Only model-checked*: the three liveness properties (`SendsEnd`, `BroadcastEnds`,
`DecisionArrives`), because liveness under fairness and ENABLED are outside what TLAPS
proves; the refutations of section 6; and the properties named under "Worth doing next".
The induction theorems of the library take an operator as a parameter, which the
installed provers cannot instantiate; the few inductions needed are done as the
descent to a least counterexample, from the library's well-foundedness of the natural
numbers. `SelectSeq`, recursive definitions and exponents say nothing to the provers
either: the modules use index sets, quantifiers and folds, and the doubling of a pause in
`Routes` is left untyped.

## 6. Findings

Each is a counterexample of TLC against a sentence of the repository. The first is a
listed run; the others are reproduced with the configuration named.

- `delivery_queue`: the claim of a background send accepts any claimable status
  (publisher.py:300), and a post that a regeneration has just put back to manual review
  is sent all the same (the promise is the name of a test, tests/test_ad_review.py:75
  `test_regen_uncertainty_revokes_scheduled_send`).
- `MCNewsroom_now.cfg`, `NowIsCleared`: "publish now" reads the row it has prepared again and requires that
  nothing is left to check (scheduler.py:986-987). The claim comes later, after a place for
  the delivery, the owner's access and the locks, and never looks at the reason
  (publisher.py:300, the line of the first finding). A regeneration asked for in between
  that ends as "needs review" is sent (docs/api.md:143: "материалы, требующие
  дополнительной проверки, автоматически не отправляет", materials that need an
  additional check are not sent automatically). What remains true is
  `NowIsClearedOrAsked`: it is the owner's own rewrite, and its facts are confirmed where
  the channel asks for it.
- `MCDelivery_feed.cfg`, `PreparedReachable`: the failure handler puts a post back to the
  status of its snapshot (publisher.py:366). After the owner has switched autopost off
  meanwhile, that is "approved" in a channel without autopost: the queue does not take
  it and no list of the feed shows it (routes.py:243: "Already prepared items must
  remain reachable in the review feed").
- `MCBroadcast_lock.cfg`, `RecoverAlone`: after the guard's connection breaks,
  `recover_interrupted` of the new process runs while the old one still sends
  (broadcasts.py:139: "Only the singleton broadcast worker calls this, with no active
  HTTP send."). No user gets a second copy (`broadcast_overlap`); a late booking can put a
  recipient of a finished broadcast back to waiting.
- `MCBilling_capture.cfg`, `CaptureKept` with fiscal receipts: outside the `npd` mode an
  old `pending` answer takes an order whose capture was verified out of review
  (service.py:273: "A delayed pending snapshot must not erase previously verified
  capture.").
- `MCBilling_prepaid.cfg`, `PrepaidIsReviewed`: the whole refund of a period with a paid
  later one is not handed to review (docs/billing.md:105).
- `NotToldAgain` of Journal, on the instance of `services`: when one administrator
  cannot be reached, the time of the last message is not written (operations.py:236-244),
  and the others are told of the same group every ten seconds (docs/operations.md:42-44:
  "интервал повторного уведомления — 30 минут", an interval of 30 minutes).
- `PendingLimited` of Drafts, on the instance of `desk` with `MaxDrafts = 2`: the drafts
  that wait are counted before the model is asked. A draft that is being sent meanwhile is not
  counted, fails, and waits again beside the new one: there is one more than the limit
  (docs/business.md:39-40: "До 5 ожидающих черновиков", up to 5 drafts that wait).

Read in the code without a run: docs/business.md:24-25 says that manual material of a
company's channel is processed by its dossier and without the news filter, while the
bot's `on_manual` passes it through the news pipeline (handlers.py:386).

## 7. Left out

`PROJECT.json` lists every component with its status and the reason. Of the modelled
modules: media download and text limits, deletion of a channel during a send, rows of
deliveries older than the ledger (Delivery); the hold of announcements on a standby
database (`recovery_hold`, set by a shell script) and the support bot (Broadcast);
prices of upgrades and the lengths of months (Billing); time zones, wording of prompts,
regular expressions of filters, popularity and weekly reports (newsroom); parsers of
sources (Intake); the checks of a dossier and its research (Drafts); a change of the
schema as anything but a refusal (Release). `admit` is one synchronous step, the mini
app's signatures are checked per request, fencing at a provider is one loop that asks
again until it has evidence. Neither keeps a state that others see.

Details in which an action says less than its lines; no property depends on them unless
the line names it:

- Delivery: similar posts are looked for in all rows, not in the newest 500 of the last 90
  days (publisher.py:325), so `OneStory` speaks of stories within that reach; `Recover`
  takes business rows also while the business mode is switched off (405-407); what
  `Prepare` writes belongs to the settings at that moment, while the code awaits between
  reading them and writing (scheduler.py:443, 491), which only `PreparedReachable` could
  tell (`Reread` and `Write` of Editing are two steps);
- Release: `RolledBack` joins the last look at the containers with the status it reports
  (neyro-release.py:151-190, 250), so the "they run" of `StatusIsTrue` is as of that look;
  a launch that is reported as failed is one step, though the dispatcher may write
  `could_not_start` over the status of a worker that has begun after all;
- Host: a restart, stop or recovery whose Docker client ran into its timeout is over when
  the tool is (`RecoveryFails`, `FenceFails`, `RestartApp`); Docker may still finish it after
  the lock is free (operations/monitor.py:153-156), so `FencedStaysDown` assumes that it
  does not. The two marks of a fence are written in one step (control.py:34-35). The clock
  of the host does not step back and `recovery.json` is not corrupt (monitor.py:125-127:
  the code then forgets its record), which `RestartBudget` assumes;
- Routes: a pause is neither evicted (256 entries) nor is its failure count forgotten after
  an hour (gemini.py:43-54).

Smaller hazards that were weighed and have no line in `PROJECT.json`:

- scheduler.py:549: the failure of `publish_due` is booked by a second statement (an
  action of Delivery, and covered there);
- scheduler.py:197, 235: items without a date or dated back behind the cursor are lost,
  and `NothingLost` leaves them out (`late`, `Undated`); an item dated up to a minute
  ahead may become the cursor;
- scheduler.py:174: a story that went out in a digest can be prepared again from another
  item, for its fingerprint is not looked up there;
- scheduler.py:617: moving a channel to another time zone and back makes a date come
  twice, and the index of uids is not unique (db.py:154), so a second digest of that date
  is possible; the model keeps the zone;
- scheduler.py:364, 959: a company's mark on a draft whose channel has left the business
  mode; two lock orders of which PostgreSQL ends one;
- broadcasts.py:117: a user who blocks the bot between check and send is booked as
  failed;
- service.py:406, 418, plans.py:24: an audit that meets a refund before its notice, an
  error that ends a round of reconciliation, rounding;
- routes.py:207, rate_limit.py:15: a channel deleted during a send; a full table of
  counters;
- handlers.py:249, 429: a forwarded message is gone when its model fails; an answer to a
  notice that is not yet written down is dropped;
- gemini.py:257: a key rests although only a slot was missing; account_auth.py:280: a
  late page deletes the cookie of a new session; operations.py:197: events logged during
  the check of a delivery are dropped with it (each is a step of its module);
- neyro-release.py:198, 256: a status that stays "running" after a kill, and a success
  that is reported as a failure when the worker is terminated while it writes;
- provider_fencing.py:97: a provider that accepts a stop without stopping.
