------------------------------ MODULE Billing ------------------------------
(***************************************************************************)
(* Paid subscriptions of one account (app/billing/service.py), with what   *)
(* shares its rows: access codes (app/core/promo.py), the administrator's  *)
(* extensions (app/api/routes.py), receipts (app/billing/receipts.py) and  *)
(* the notifications of the payment service (app/billing/routes.py).       *)
(*                                                                         *)
(* Every transaction locks the user's row, so accounts do not interact and *)
(* a transaction is one action; a request to the payment service lies      *)
(* between two of them.  An order has the number of its quote (quote_id is *)
(* UNIQUE) and keeps the quote's terms.  Amounts: an order costs two parts *)
(* and a refund returns one or both.                                       *)
(***************************************************************************)
EXTENDS Integers, Sequences, FiniteSets

CONSTANTS
  Orders,
  Plans,        \* ranked by price: a dearer plan is a greater number
  Grants,       \* access codes, and extensions by the administrator
  Tasks,        \* requests, notifications and reconciliations at work
  NoOrder,
  Shops,        \* "test", "npd" (live, receipts by hand), "54fz" (live)
  RefundParts,  \* refunds the shop makes: "whole", "half1", "half2"
  Month, GrantDays,
  MayBlock,     \* does the administrator block the user?
  Foreign,      \* may the provider's answer fail its verification?
  MaxTime,      \* bound of the model: the clock
  MaxPayments   \* bound of the model: payments at the provider

ASSUME BillingAssumption ==
  /\ Plans \subseteq Nat \ {0}
  /\ NoOrder \notin Orders
  /\ Shops \subseteq {"test", "npd", "54fz"}
  /\ RefundParts \subseteq {"whole", "half1", "half2"}
  /\ Month \in Nat \ {0} /\ GrantDays \in Nat \ {0}
  /\ MayBlock \in BOOLEAN /\ Foreign \in BOOLEAN
  /\ MaxTime \in Nat /\ MaxPayments \in Nat

VARIABLES
  now, shop,
  user,      \* users: access_until, daily_limit (0: that of a code), blocked
  account,   \* billing_accounts
  quote,     \* billing_quotes; fresh: not yet expired
  order,     \* billing_orders: what changes after the insertion
  age,       \* of an order: young (23 hours), old, forgotten by the provider
  period,    \* billing_periods, by the order that paid for it
  booked,    \* billing_refunds
  used,      \* promo_codes.used_by
  task,
  payments,  \* payments at the provider, in the order of their creation
  returned,  \* refunds the provider has made
  captured,  \* orders whose capture this program has verified
  right      \* until when codes and extensions give access

tables == <<user, account, quote, order, period, booked, used>>
provider == <<payments, returned>>
clock == <<now, shop, age>>
history == <<captured, right>>
vars == <<tables, task, provider, clock, history>>

Kinds == {"new", "renewal", "upgrade", "downgrade"}
OrderStatuses == {"none", "creating", "pending", "review", "canceled",
                  "succeeded", "test_succeeded", "refunded"}
Open == {"creating", "pending", "review"}
Final == {"succeeded", "test_succeeded", "refunded"}
Refunds == (1..MaxPayments) \X RefundParts
NoRefund == <<0, "none">>
Access == [until : Nat, limit : Plans \cup {0}]
NoAccess == [until |-> 0, limit |-> 0]

Quote == [state : {"none", "fresh", "stale"}, plan : Plans \cup {0},
          kind : Kinds, version : Nat, period : Orders \cup {NoOrder}, start : Nat]
NoQuote == [state |-> "none", plan |-> 0, kind |-> "new", version |-> 0,
            period |-> NoOrder, start |-> 0]
Order == [status : OrderStatuses, payment : 0..MaxPayments, applied : BOOLEAN,
          receipt : {"none", "npd_pending", "npd_attached"}]
NoOrderYet == [status |-> "none", payment |-> 0, applied |-> FALSE,
               receipt |-> "none"]
Period == [state : {"none", "valid", "revoked"}, plan : Plans \cup {0},
           start : Nat, end : Nat]
NoPeriod == [state |-> "none", plan |-> 0, start |-> 0, end |-> 0]
Schedules == (Plans \X Nat) \cup {<<>>}
Account == [version : Nat, entitled : BOOLEAN, legacy : Access, review : BOOLEAN,
            scheduled : Schedules]
User == [until : Nat, limit : Plans \cup {0}, blocked : BOOLEAN]
Payment == [order : Orders, status : {"pending", "succeeded", "canceled"}]
Task == [pc : {"idle", "asking", "told", "refund", "audit"}, lease : BOOLEAN,
         order : Orders \cup {NoOrder}, payment : 0..MaxPayments,
         status : {"none", "pending", "succeeded", "canceled", "foreign",
                   "odd"},
         refund : Refunds \cup {NoRefund}, seen : SUBSET Refunds]
Idle == [pc |-> "idle", lease |-> FALSE, order |-> NoOrder, payment |-> 0,
         status |-> "none", refund |-> NoRefund, seen |-> {}]

Init ==
  /\ now = 0 /\ shop \in Shops
  /\ user = [until |-> 0, limit |-> 0, blocked |-> FALSE]
  /\ account = [version |-> 0, entitled |-> FALSE, legacy |-> NoAccess,
                review |-> FALSE, scheduled |-> <<>>]
  /\ quote = [o \in Orders |-> NoQuote]
  /\ order = [o \in Orders |-> NoOrderYet]
  /\ age = [o \in Orders |-> "young"]
  /\ period = [o \in Orders |-> NoPeriod]
  /\ booked = {} /\ used = {}
  /\ task = [t \in Tasks |-> Idle]
  /\ payments = <<>> /\ returned = {}
  /\ captured = {} /\ right = 0

-----------------------------------------------------------------------------
(* Periods and entitlement.                                                *)

Later(a, b) == IF a > b THEN a ELSE b

InForce(per) == {o \in Orders : /\ per[o].state = "valid"
                                /\ per[o].start <= now /\ now < per[o].end}
ToCome(per) == {o \in Orders : per[o].state = "valid" /\ per[o].start > now}
Unexpired(per) == {o \in Orders : per[o].state = "valid" /\ per[o].end > now}
Latest(per) == CHOOSE o \in InForce(per) :
                 \A p \in InForce(per) : per[p].start <= per[o].start
\* The period in force, as quotes refer to it.
Active == IF InForce(period) = {} THEN NoOrder ELSE Latest(period)

\* sync_entitlement: users after it, for the periods and the account given
SyncedUser(per, acc) ==
  IF InForce(per) # {}
  THEN [user EXCEPT !.until = per[Latest(per)].end, !.limit = per[Latest(per)].plan]
  ELSE IF acc.entitled
  THEN [user EXCEPT !.until = acc.legacy.until, !.limit = acc.legacy.limit]
  ELSE user

\* Slip: what was there before is saved by every synchronization.
SyncedAccountAlways(per, acc) ==
  [acc EXCEPT !.entitled = InForce(per) # {},
              !.legacy = IF InForce(per) # {}
                         THEN [until |-> user.until, limit |-> user.limit] ELSE @]

\* sync_entitlement: billing_accounts after it
SyncedAccount(per, acc) ==
  [acc EXCEPT !.entitled = InForce(per) # {},
              !.legacy = IF InForce(per) # {} /\ ~acc.entitled
                         THEN [until |-> user.until, limit |-> user.limit] ELSE @]

Sync(per, acc) ==
  /\ user' = SyncedUser(per, acc)
  /\ account' = SyncedAccount(per, acc)

Unresolved == {o \in Orders : order[o].status \in Open}
\* the unique index billing_one_unresolved
MayOpen(o) == Unresolved \subseteq {o}

-----------------------------------------------------------------------------
(* The user: quotes, checkout, codes.                                      *)

KindOf(plan) ==
  IF Active = NoOrder THEN "new"
  ELSE IF plan > period[Active].plan THEN "upgrade"
  ELSE IF plan < period[Active].plan THEN "downgrade" ELSE "renewal"

Calculate(o, plan) ==
  /\ quote[o].state = "none"
  /\ ~user.blocked /\ ~account.review
  /\ ToCome(period) # {} => KindOf(plan) = "upgrade"
  /\ quote' = [quote EXCEPT ![o] =
       [state |-> "fresh", plan |-> plan, kind |-> KindOf(plan),
        version |-> account.version, period |-> Active,
        start |-> IF KindOf(plan) \in {"new", "upgrade"} THEN now
                  ELSE period[Active].end]]
  /\ UNCHANGED <<user, account, order, period, booked, used, task, provider,
                 clock, history>>

\* Ten minutes have passed, which matters only to a quote without an order.
Expire(o) ==
  /\ quote[o].state = "fresh" /\ order[o].status = "none"
  /\ quote' = [quote EXCEPT ![o].state = "stale"]
  /\ UNCHANGED <<user, account, order, period, booked, used, task, provider,
                 clock, history>>

\* What checkout demands of a quote before it becomes an order.
Acceptable(o) ==
  /\ ~user.blocked /\ ~account.review
  /\ order[o].status = "none"
  /\ quote[o].state = "fresh" /\ quote[o].version = account.version
  /\ quote[o].kind \in {"upgrade", "downgrade"} =>
       Active # NoOrder /\ Active = quote[o].period
  /\ Unresolved = {}

Checkout(o) ==
  /\ Acceptable(o) /\ quote[o].kind # "downgrade"
  /\ order' = [order EXCEPT ![o].status = "creating"]
  /\ UNCHANGED <<user, account, quote, period, booked, used, task, provider,
                 clock, history>>

\* A downgrade costs nothing: it only names the plan of the next period.
Schedule(o) ==
  /\ Acceptable(o) /\ quote[o].kind = "downgrade"
  /\ account.scheduled # <<quote[o].plan, quote[o].start>>
  /\ account' = [account EXCEPT !.scheduled = <<quote[o].plan, quote[o].start>>,
                                !.version = @ + 1]
  /\ UNCHANGED <<user, quote, order, period, booked, used, task, provider,
                 clock, history>>

\* sync_user, called by every check of access and once a minute
SyncUser ==
  /\ ~user.blocked
  /\ Sync(period, account)
  /\ UNCHANGED <<quote, order, period, booked, used, task, provider, clock, history>>

\* A code or an extension of access, on top of a synchronization.
Extended(limit) ==
  LET synced == SyncedUser(period, account)
      until == Later(synced.until, now) + GrantDays
  IN /\ user' = [synced EXCEPT !.until = until, !.limit = limit]
     /\ account' = [SyncedAccount(period, account) EXCEPT !.version = @ + 1]
     /\ right' = Later(right, now) + GrantDays

\* Slip: codes are accepted while a payment is open.
RedeemAnyTime(g) ==
  /\ g \notin used /\ ~user.blocked
  /\ Unexpired(period) = {}
  /\ used' = used \cup {g}
  /\ Extended(0)
  /\ UNCHANGED <<quote, order, period, booked, task, provider, clock, captured>>

Redeem(g) ==
  /\ g \notin used /\ ~user.blocked
  /\ Unresolved = {} /\ Unexpired(period) = {}
  /\ used' = used \cup {g}
  /\ Extended(0)
  /\ UNCHANGED <<quote, order, period, booked, task, provider, clock, captured>>

\* admin_update_user with extend_days
Extend(g) ==
  /\ g \notin used
  /\ Unresolved = {} /\ Unexpired(period) = {}
  /\ used' = used \cup {g}
  /\ Extended(SyncedUser(period, account).limit)
  /\ UNCHANGED <<quote, order, period, booked, task, provider, clock, captured>>

Block ==
  /\ MayBlock
  /\ user' = [user EXCEPT !.blocked = ~@]
  /\ UNCHANGED <<account, quote, order, period, booked, used, task, provider,
                 clock, history>>

-----------------------------------------------------------------------------
(* Orders and the payment service: refresh_order, audit_order, webhook.    *)

Finish(t) == task' = [task EXCEPT ![t] = Idle]
Leased(o) == \E t \in Tasks : task[t].lease /\ task[t].order = o

\* Slip: an order of unknown outcome is created anew however old it is.
RefreshAnyAge(t, o) ==
  /\ task[t].pc = "idle" /\ ~Leased(o)
  /\ order[o].status \in {"creating", "pending"}
  /\ task' = [task EXCEPT ![t] = [Idle EXCEPT !.pc = "asking", !.lease = TRUE,
                !.order = o, !.payment = order[o].payment]]
  /\ UNCHANGED <<tables, provider, clock, history>>

\* Slip: only new orders are looked after; the rest is left to notifications.
RefreshNew(t, o) ==
  /\ order[o].status = "creating"
  /\ RefreshAnyAge(t, o)

\* From checkout, from the page of an order, and once a minute: the order is
\* read under its lease, the request follows.
Refresh(t, o) ==
  /\ task[t].pc = "idle" /\ ~Leased(o)
  /\ order[o].status \in {"creating", "pending"}
  /\ order[o].payment # 0 \/ age[o] = "young"
  /\ task' = [task EXCEPT ![t] = [Idle EXCEPT !.pc = "asking", !.lease = TRUE,
                !.order = o, !.payment = order[o].payment]]
  /\ UNCHANGED <<tables, provider, clock, history>>

\* 23 hours have passed without an answer.
GiveUp(o) ==
  /\ ~Leased(o)
  /\ order[o].status = "creating" /\ order[o].payment = 0 /\ age[o] # "young"
  /\ order' = [order EXCEPT ![o].status = "review"]
  /\ UNCHANGED <<user, account, quote, period, booked, used, task, provider,
                 clock, history>>

\* What an answer about a payment may show: its status, an odd one (unknown, or
\* succeeded and not paid), or terms that are not those of the order (amount,
\* shop, account, environment).
Shown(status) == {status} \cup IF Foreign THEN {"foreign", "odd"} ELSE {}

Told(t, p, status) ==
  task' = [task EXCEPT ![t].pc = "told", ![t].payment = p, ![t].status = status]

\* GET payments/...: the answer shows the payment as it is at this moment.
Get(t) ==
  LET p == task[t].payment IN
  /\ task[t].pc = "asking" /\ p # 0
  /\ \E s \in Shown(payments[p].status) : Told(t, p, s)
  /\ UNCHANGED <<tables, provider, clock, history>>

\* POST payments with the order's number as idempotence key: for a known key
\* the provider repeats its answer and creates nothing.
Post(t) ==
  LET o == task[t].order
      known == {p \in DOMAIN payments : payments[p].order = o}
  IN /\ task[t].pc = "asking" /\ task[t].payment = 0
     /\ \/ /\ known # {} /\ age[o] # "forgotten"
           /\ \E p \in known : \E s \in {"pending"} \cup Shown(payments[p].status) :
                Told(t, p, s)
           /\ UNCHANGED payments
        \/ /\ known = {} \/ age[o] = "forgotten"
           /\ Len(payments) < MaxPayments
           /\ payments' = Append(payments, [order |-> o, status |-> "pending"])
           /\ Told(t, Len(payments) + 1, "pending")
     /\ UNCHANGED <<tables, returned, clock, history>>

\* webhook: the notification is only a hint, the payment is read from the
\* provider.  It may come at any time and any number of times, also of a payment
\* that is still pending (payment.waiting_for_capture, or a forged body).
Notice(t, p) ==
  /\ task[t].pc = "idle"
  /\ \E s \in Shown(payments[p].status) :
       task' = [task EXCEPT ![t] = [Idle EXCEPT !.pc = "told", !.payment = p,
                  !.order = payments[p].order, !.status = s]]
  /\ UNCHANGED <<tables, provider, clock, history>>

\* webhook, refund.succeeded: order and payment are read before the transaction.
NoticeRefund(t, r) ==
  LET o == payments[r[1]].order IN
  /\ task[t].pc = "idle"
  /\ order[o].payment \in {0, r[1]}
  /\ task' = [task EXCEPT ![t] = [Idle EXCEPT !.pc = "refund", !.refund = r, !.order = o]]
  /\ UNCHANGED <<tables, provider, clock, history>>

\* audit_order, once an hour for a settled order
Audit(t, o) ==
  /\ task[t].pc = "idle"
  /\ order[o].status \in {"succeeded", "test_succeeded"} /\ order[o].payment # 0
  /\ task' = [task EXCEPT ![t] = [Idle EXCEPT !.pc = "audit", !.order = o,
                !.seen = {r \in returned : r[1] = order[o].payment}]]
  /\ UNCHANGED <<tables, provider, clock, history>>

\* A request that fails or runs into its timeout, a transaction rolled back
\* by the index or by the loss of its connection, the end of the process.
Abandon(t) ==
  /\ task[t].pc # "idle"
  /\ Finish(t)
  /\ UNCHANGED <<tables, provider, clock, history>>

-----------------------------------------------------------------------------
(* Settlement: one transaction, for the answer a task was given.           *)

StartOf(o) == Later(quote[o].start, now)

\* The same answer, read again, finds nothing to do.
Settled(o) == order[o].applied \/ order[o].status \in Final

\* verify_payment
Verified(t) ==
  /\ task[t].status # "foreign"
  /\ order[task[t].order].payment \in {0, task[t].payment}

\* Slip: a settled order is settled again.
AnsweredAgain(t) ==
  /\ task[t].pc = "told"
  /\ Verified(t)

\* The order is open to this answer, and the answer is about its payment.
Answered(t) ==
  /\ task[t].pc = "told"
  /\ ~Settled(task[t].order) /\ Verified(t)

\* "A delayed pending snapshot must not erase previously verified capture."
Delayed(t) ==
  /\ order[task[t].order].receipt # "none"
  /\ task[t].status # "succeeded"

Ignore(t) ==
  /\ \/ task[t].pc = "told" /\ Settled(task[t].order)
     \/ Answered(t) /\ Delayed(t)
  /\ Finish(t)
  /\ UNCHANGED <<tables, provider, clock, history>>

\* The answer is not about the payment of this order.
Mismatch(t) ==
  LET o == task[t].order IN
  /\ task[t].pc = "told" /\ ~Settled(o) /\ ~Verified(t)
  /\ MayOpen(o)
  /\ order' = [order EXCEPT ![o].status = "review"]
  /\ Finish(t)
  /\ UNCHANGED <<user, account, quote, period, booked, used, provider, clock, history>>

\* Slip: the guard against delayed answers is missing.
SettlePendingAlways(t) ==
  LET o == task[t].order IN
  /\ Answered(t)
  /\ task[t].status = "pending" /\ MayOpen(o)
  /\ order' = [order EXCEPT ![o].status = "pending", ![o].payment = task[t].payment]
  /\ Finish(t)
  /\ UNCHANGED <<user, account, quote, period, booked, used, provider, clock, history>>

SettlePending(t) ==
  LET o == task[t].order IN
  /\ Answered(t) /\ ~Delayed(t)
  /\ task[t].status = "pending" /\ MayOpen(o)
  /\ order' = [order EXCEPT ![o].status = "pending", ![o].payment = task[t].payment]
  /\ Finish(t)
  /\ UNCHANGED <<user, account, quote, period, booked, used, provider, clock, history>>

\* Slip: the status is booked as the interface spells it.
SettleCancelled(t) ==
  LET o == task[t].order IN
  /\ Answered(t) /\ ~Delayed(t)
  /\ task[t].status = "canceled"
  /\ order' = [order EXCEPT ![o].status = "cancelled", ![o].payment = task[t].payment]
  /\ Finish(t)
  /\ UNCHANGED <<user, account, quote, period, booked, used, provider, clock, history>>

SettleCanceled(t) ==
  LET o == task[t].order IN
  /\ Answered(t) /\ ~Delayed(t)
  /\ task[t].status = "canceled"
  /\ order' = [order EXCEPT ![o].status = "canceled", ![o].payment = task[t].payment]
  /\ Finish(t)
  /\ UNCHANGED <<user, account, quote, period, booked, used, provider, clock, history>>

\* An odd answer, after a capture too: a status that nobody knows is then ignored,
\* but "succeeded" without the money is not.
SettleOdd(t) ==
  LET o == task[t].order IN
  /\ Answered(t) /\ task[t].status = "odd" /\ MayOpen(o)
  /\ order' = [order EXCEPT ![o].status = "review", ![o].payment = task[t].payment]
  /\ Finish(t)
  /\ UNCHANGED <<user, account, quote, period, booked, used, provider, clock, history>>

\* A payment in the test shop gives no service.
SettleTest(t) ==
  LET o == task[t].order IN
  /\ Answered(t) /\ task[t].status = "succeeded" /\ shop = "test"
  /\ order' = [order EXCEPT ![o].status = "test_succeeded",
                 ![o].payment = task[t].payment, ![o].applied = TRUE]
  /\ captured' = captured \cup {o}
  /\ Finish(t)
  /\ UNCHANGED <<user, account, quote, period, booked, used, provider, clock, right>>

\* Slip: the duty to issue a receipt comes with the service, not with the money.
DueWhenApplied(o) == IF shop = "npd" /\ order[o].receipt = "none" /\ order[o].applied
                     THEN "npd_pending" ELSE order[o].receipt

\* mark_npd_capture
Due(o) == IF shop = "npd" /\ order[o].receipt = "none" THEN "npd_pending"
          ELSE order[o].receipt

\* May the captured payment give what was ordered?
Grantable(o) ==
  /\ account.version = quote[o].version /\ ~account.review
  /\ IF quote[o].kind = "upgrade"
     THEN quote[o].period \in Unexpired(period)
     ELSE \A p \in Orders : period[p].state = "valid" =>
            period[p].end <= StartOf(o) \/ StartOf(o) + Month <= period[p].start

SettleHeld(t) ==
  LET o == task[t].order IN
  /\ Answered(t) /\ task[t].status = "succeeded" /\ shop # "test"
  /\ ~Grantable(o) /\ MayOpen(o)
  /\ order' = [order EXCEPT ![o].status = "review", ![o].payment = task[t].payment,
                 ![o].receipt = Due(o)]
  /\ captured' = captured \cup {o}
  /\ Finish(t)
  /\ UNCHANGED <<user, account, quote, period, booked, used, provider, clock, right>>

\* Slip: a period always starts with the settlement.
PaidPeriodsNow(o) ==
  IF quote[o].kind = "upgrade"
  THEN [period EXCEPT ![quote[o].period].plan = quote[o].plan]
  ELSE [period EXCEPT ![o] = [state |-> "valid", plan |-> quote[o].plan,
                              start |-> now, end |-> now + Month]]

PaidPeriods(o) ==
  IF quote[o].kind = "upgrade"
  THEN [period EXCEPT ![quote[o].period].plan = quote[o].plan]
  ELSE [period EXCEPT ![o] = [state |-> "valid", plan |-> quote[o].plan,
                              start |-> StartOf(o), end |-> StartOf(o) + Month]]

SettleGranted(t) ==
  LET o == task[t].order IN
  /\ Answered(t) /\ task[t].status = "succeeded" /\ shop # "test"
  /\ Grantable(o)
  /\ order' = [order EXCEPT ![o].status = "succeeded", ![o].payment = task[t].payment,
                 ![o].applied = TRUE, ![o].receipt = Due(o)]
  /\ period' = PaidPeriods(o)
  /\ Sync(PaidPeriods(o), [account EXCEPT !.version = @ + 1, !.scheduled = <<>>])
  /\ captured' = captured \cup {o}
  /\ Finish(t)
  /\ UNCHANGED <<quote, booked, used, provider, clock, right>>

-----------------------------------------------------------------------------
(* Refunds, the hourly audit, receipts.                                    *)

RefundsOf(o, rs) == {r \in rs : payments[r[1]].order = o}
Amount(rs) == Cardinality(rs) + Cardinality({r \in rs : r[2] = "whole"})
Price == 2

\* A paid upgrade of the period this order gave.
Upgraded(o) ==
  /\ period[o].state # "none"
  /\ \E u \in Orders : /\ quote[u].kind = "upgrade" /\ quote[u].period = o
                       /\ order[u].applied /\ order[u].status = "succeeded"

\* The periods after a refund: the whole price returned for an order of its own
\* takes the period back.
Reversible(o, rs) ==
  /\ Amount(RefundsOf(o, rs)) = Price
  /\ quote[o].kind # "upgrade" /\ ~Upgraded(o)

RevokedPeriods(o) ==
  [period EXCEPT ![o].state = IF @ = "valid" THEN "revoked" ELSE @]

\* The transaction of record_refund for a refund that is booked already: the
\* notification came twice.
RefundAgain(t) ==
  LET o == task[t].order IN
  /\ task[t].pc = "refund" /\ task[t].refund \in booked
  /\ order' = [order EXCEPT ![o].receipt = Due(o)]
  /\ captured' = captured \cup {o}
  /\ Finish(t)
  /\ UNCHANGED <<user, account, quote, period, booked, used, provider, clock, right>>

\* Slip: the rights of the user are left to the next synchronization.
RefundWholeUnsynced(t) ==
  LET o == task[t].order IN
  /\ task[t].pc = "refund" /\ task[t].refund \notin booked
  /\ Reversible(o, booked \cup {task[t].refund})
  /\ booked' = booked \cup {task[t].refund}
  /\ order' = [order EXCEPT ![o].receipt = Due(o), ![o].status = "refunded"]
  /\ period' = RevokedPeriods(o)
  /\ account' = [account EXCEPT !.version = @ + 1]
  /\ captured' = captured \cup {o}
  /\ Finish(t)
  /\ UNCHANGED <<user, quote, used, provider, clock, right>>

RefundWhole(t) ==
  LET o == task[t].order IN
  /\ task[t].pc = "refund" /\ task[t].refund \notin booked
  /\ Reversible(o, booked \cup {task[t].refund})
  /\ booked' = booked \cup {task[t].refund}
  /\ order' = [order EXCEPT ![o].receipt = Due(o), ![o].status = "refunded"]
  /\ period' = RevokedPeriods(o)
  /\ Sync(RevokedPeriods(o), [account EXCEPT !.version = @ + 1])
  /\ captured' = captured \cup {o}
  /\ Finish(t)
  /\ UNCHANGED <<quote, used, provider, clock, right>>

\* Everything else waits for a human.
RefundHeld(t) ==
  LET o == task[t].order IN
  /\ task[t].pc = "refund" /\ task[t].refund \notin booked
  /\ ~Reversible(o, booked \cup {task[t].refund})
  /\ order[o].applied \/ MayOpen(o)
  /\ booked' = booked \cup {task[t].refund}
  /\ order' = [order EXCEPT ![o].receipt = Due(o),
                 ![o].status = IF order[o].applied THEN @ ELSE "review"]
  /\ Sync(period, [account EXCEPT !.version = @ + 1, !.review = TRUE])
  /\ captured' = captured \cup {o}
  /\ Finish(t)
  /\ UNCHANGED <<quote, period, used, provider, clock, right>>

\* More was returned than is known, or (54fz) the receipt was not registered.
AuditEnds(t) ==
  LET o == task[t].order IN
  /\ task[t].pc = "audit"
  /\ \E unregistered \in IF shop = "54fz" THEN BOOLEAN ELSE {FALSE} :
       account' = [account EXCEPT !.review =
         @ \/ unregistered \/ Amount(task[t].seen) > Amount(RefundsOf(o, booked))]
  /\ Finish(t)
  /\ UNCHANGED <<user, quote, order, period, booked, used, provider, clock, history>>

\* attach_receipt
AttachReceipt(o) ==
  /\ order[o].receipt = "npd_pending"
  /\ order' = [order EXCEPT ![o].receipt = "npd_attached"]
  /\ UNCHANGED <<user, account, quote, period, booked, used, task, provider,
                 clock, history>>

-----------------------------------------------------------------------------
(* The provider, the payer and the shop; time.                             *)

\* The payer follows the link that the order has kept (confirmation_url); a
\* payment nobody makes is canceled by the provider.
Decide(p) ==
  /\ payments[p].status = "pending"
  /\ \E s \in {"succeeded", "canceled"} :
       /\ s = "succeeded" => order[payments[p].order].payment = p
       /\ payments' = [payments EXCEPT ![p].status = s]
  /\ UNCHANGED <<tables, task, returned, clock, history>>

Return(p, part) ==
  LET rs == {r \in returned : r[1] = p} IN
  /\ payments[p].status = "succeeded"
  /\ <<p, part>> \notin rs /\ Amount(rs \cup {<<p, part>>}) <= Price
  /\ returned' = returned \cup {<<p, part>>}
  /\ UNCHANGED <<tables, task, payments, clock, history>>

Tick ==
  /\ now < MaxTime
  /\ now' = now + 1
  /\ UNCHANGED <<tables, task, provider, shop, age, history>>

\* 23 hours after the order (which matters only while no payment is known), and
\* the 24 hours the provider keeps a key: no request is that slow.
Grow(o) ==
  /\ order[o].status = "creating" /\ order[o].payment = 0
  /\ \/ age[o] = "young" /\ age' = [age EXCEPT ![o] = "old"]
     \/ /\ age[o] = "old"
        /\ \A t \in Tasks : ~(task[t].pc = "asking" /\ task[t].order = o)
        /\ age' = [age EXCEPT ![o] = "forgotten"]
  /\ UNCHANGED <<tables, task, provider, now, shop, history>>

-----------------------------------------------------------------------------

Ask(t) == Get(t) \/ Post(t)
Settle(t) ==
  \/ Ignore(t) \/ Mismatch(t) \/ SettlePending(t) \/ SettleCanceled(t)
  \/ SettleOdd(t) \/ SettleTest(t) \/ SettleHeld(t) \/ SettleGranted(t)
RecordRefund(t) == RefundAgain(t) \/ RefundWhole(t) \/ RefundHeld(t)

TaskStep(t) ==
  \/ \E o \in Orders : Refresh(t, o) \/ Audit(t, o)
  \/ \E p \in DOMAIN payments : Notice(t, p)
  \/ \E r \in returned : NoticeRefund(t, r)
  \/ Ask(t) \/ Settle(t) \/ RecordRefund(t) \/ AuditEnds(t) \/ Abandon(t)

OrderStep(o) ==
  \/ \E plan \in Plans : Calculate(o, plan)
  \/ Expire(o) \/ Checkout(o) \/ Schedule(o)
  \/ GiveUp(o) \/ AttachReceipt(o) \/ Grow(o)

Provider == \E p \in DOMAIN payments :
  Decide(p) \/ \E part \in RefundParts : Return(p, part)

Next ==
  \/ \E t \in Tasks : TaskStep(t)
  \/ \E o \in Orders : OrderStep(o)
  \/ \E g \in Grants : Redeem(g) \/ Extend(g)
  \/ SyncUser \/ Block \/ Provider \/ Tick

Spec == Init /\ [][Next]_vars

\* run() takes every open order in turn, once a minute, and not every request
\* fails; every request ends.
Fairness ==
  /\ \A o \in Orders : SF_vars(GiveUp(o))
  /\ \A t \in Tasks :
       /\ \A o \in Orders : SF_vars(Refresh(t, o))
       /\ SF_vars(Ask(t)) /\ SF_vars(Settle(t))
       /\ WF_vars(RecordRefund(t) \/ AuditEnds(t) \/ Abandon(t))

FairSpec == Spec /\ Fairness

-----------------------------------------------------------------------------
(* What a subscription promises.                                           *)

\* Every variable keeps its type.
TypeOK ==
  /\ now \in 0..MaxTime /\ shop \in Shops
  /\ user \in User /\ account \in Account
  /\ quote \in [Orders -> Quote] /\ order \in [Orders -> Order]
  /\ age \in [Orders -> {"young", "old", "forgotten"}]
  /\ period \in [Orders -> Period]
  /\ booked \subseteq returned /\ returned \subseteq Refunds
  /\ used \subseteq Grants
  /\ task \in [Tasks -> Task]
  /\ payments \in Seq(Payment) /\ Len(payments) <= MaxPayments
  /\ captured \subseteq Orders /\ right \in Nat

\* However often its creation is tried again, whoever tries and whatever answer
\* was lost, an order is one payment at the provider (refresh_order: the order's
\* own idempotence key, and no new attempt after 23 hours).
OnePayment ==
  \A p, q \in DOMAIN payments : payments[p].order = payments[q].order => p = q

\* Nobody pays for the same day twice: periods in force do not overlap (settle).
PeriodsDisjoint ==
  \A o, p \in Orders :
    o # p /\ period[o].state = "valid" /\ period[p].state = "valid" =>
      period[o].end <= period[p].start \/ period[p].end <= period[o].start

\* Access that lasts has its reason: a period in force, with the limit of its
\* plan, or else a code (sync_entitlement after every change of a period).
AccessIsCovered ==
  user.until > now =>
    IF account.entitled
    THEN \E o \in InForce(period) :
           user.until = period[o].end /\ user.limit = period[o].plan
    ELSE user.until = right /\ user.limit = 0

\* "Access by an earlier code is kept as a right of its own with its original
\* date" (docs/billing.md): no purchase, refund or expiry loses or extends it.
RightKept ==
  right = IF account.entitled THEN account.legacy.until ELSE user.until

\* A verified payment is held for review only with a cause: refunds or an audit
\* to be resolved, or an upgrade that came after its period.  Codes, extensions
\* and other quotes never cost a payer what was paid for.
HeldForCause ==
  \A o \in captured : order[o].status = "review" =>
    \/ account.review \/ booked # {}
    \/ quote[o].kind = "upgrade" /\ period[quote[o].period].end <= now

\* Duties follow money: whatever capture was verified, granted or held, is in
\* the queue of receipts, and nothing else is (mark_npd_capture).
ReceiptsFollowMoney ==
  \A o \in Orders :
    order[o].receipt # "none" <=> shop = "npd" /\ o \in captured

\* "A delayed pending snapshot must not erase previously verified capture"
\* (settle): an order whose capture is known does not become open or canceled.
CaptureKept ==
  [][\A o \in captured : order'[o].status \in Final \cup {"review"}]_vars

\* A settled order gives its period once and never goes back; only a refund
\* ends it.
SettledStays ==
  [][\A o \in Orders : Settled(o) =>
       /\ order'[o].status \in {order[o].status, "refunded"}
       /\ period[o].state # "none" =>
            /\ period'[o].start = period[o].start
            /\ period'[o].end = period[o].end
            /\ period[o].state = "revoked" => period'[o].state = "revoked"]_vars

\* What the payer has decided reaches the order, with notifications lost or not
\* (reconcile_once).
DecisionArrives ==
  \A o \in Orders :
    (\E p \in DOMAIN payments : payments[p].order = o /\ payments[p].status # "pending")
      ~> order[o].status \notin {"creating", "pending"}

\* "Paid future periods require reconciliation" (docs/billing.md): a period that
\* is taken back under a paid later one marks the account for review.
PrepaidIsReviewed ==
  \A o, p \in Orders :
    /\ period[o].state = "revoked" /\ period[p].state = "valid"
    /\ quote[p].kind = "renewal" /\ quote[p].period = o
    => account.review
=============================================================================
