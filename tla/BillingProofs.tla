--------------------------- MODULE BillingProofs ---------------------------
(***************************************************************************)
(* Proofs about Billing for every number of orders, plans, codes and tasks.*)
(***************************************************************************)
EXTENDS Billing, FiniteSetTheorems, TLAPS

USE BillingAssumption

-----------------------------------------------------------------------------
(* Periods and what they give.                                             *)

\* PeriodsDisjoint, of any table of periods.
Disjoint(per) ==
  \A o, p \in Orders :
    o # p /\ per[o].state = "valid" /\ per[p].state = "valid" =>
      per[o].end <= per[p].start \/ per[p].end <= per[o].start

\* Of disjoint periods one at most is in force: it is the one that counts.
LEMMA OneInForce ==
  ASSUME NEW per \in [Orders -> Period], now \in Nat, Disjoint(per),
         InForce(per) # {}
  PROVE  Latest(per) \in InForce(per)
<1>1. \A o \in Orders : per[o] \in Period /\ per[o].start \in Nat /\ per[o].end \in Nat
  BY DEF Period
<1>2. PICK o \in InForce(per) : TRUE
  OBVIOUS
<1>3. \A p \in InForce(per) : p = o
  <2> SUFFICES ASSUME NEW p \in InForce(per), p # o PROVE FALSE
    OBVIOUS
  <2>1. /\ o \in Orders /\ p \in Orders
        /\ per[o].state = "valid" /\ per[o].start <= now /\ now < per[o].end
        /\ per[p].state = "valid" /\ per[p].start <= now /\ now < per[p].end
    BY <1>2 DEF InForce
  <2> QED BY <1>1, <2>1 DEF Disjoint
<1>4. o \in Orders
  BY DEF InForce
<1>5. \A p \in InForce(per) : per[p].start <= per[o].start
  BY <1>1, <1>3, <1>4
<1> QED BY <1>2, <1>5 DEF Latest

\* A synchronization keeps the types.
LEMMA SyncTypes ==
  ASSUME user \in User, now \in Nat, NEW per \in [Orders -> Period], Disjoint(per),
         NEW acc \in Account
  PROVE  /\ SyncedUser(per, acc) \in User
         /\ SyncedAccount(per, acc) \in Account
         /\ SyncedAccount(per, acc).version = acc.version
         /\ SyncedAccount(per, acc).review = acc.review
<1>1. InForce(per) # {} => /\ per[Latest(per)].end \in Nat
                           /\ per[Latest(per)].plan \in Plans \cup {0}
  <2>1. InForce(per) # {} => Latest(per) \in Orders
    BY OneInForce DEF InForce
  <2> QED BY <2>1 DEF Period
<1>2. SyncedUser(per, acc) \in User
  BY <1>1 DEF SyncedUser, User, Account, Access
<1>3. /\ SyncedAccount(per, acc) \in Account
      /\ SyncedAccount(per, acc).version = acc.version
      /\ SyncedAccount(per, acc).review = acc.review
  BY DEF SyncedAccount, User, Account, Access
<1> QED BY <1>2, <1>3

\* The period a new quote refers to.
LEMMA ActiveIsOrder ==
  ASSUME TypeOK, Disjoint(period)
  PROVE  /\ Active \in Orders \cup {NoOrder}
         /\ Active # NoOrder => Active \in InForce(period)
<1>1. period \in [Orders -> Period] /\ now \in Nat
  BY DEF TypeOK
<1> QED BY <1>1, OneInForce DEF Active, InForce

\* What is paid for fits between what was paid for before.
LEMMA PaidIsDisjoint ==
  ASSUME TypeOK, Disjoint(period), NEW o \in Orders, Grantable(o)
  PROVE  /\ PaidPeriods(o) \in [Orders -> Period]
         /\ Disjoint(PaidPeriods(o))
<1> DEFINE per == PaidPeriods(o)
<1>1. /\ period \in [Orders -> Period] /\ quote[o] \in Quote /\ now \in Nat
      /\ \A p \in Orders : period[p].start \in Nat /\ period[p].end \in Nat
  BY DEF TypeOK, Period
<1>2. StartOf(o) \in Nat
  BY <1>1 DEF StartOf, Later, Quote
<1>3. CASE quote[o].kind = "upgrade"
  <2>1. per = [period EXCEPT ![quote[o].period].plan = quote[o].plan]
    BY <1>3 DEF PaidPeriods
  <2>2. per \in [Orders -> Period]
    <3>1. quote[o].plan \in Plans \cup {0}
      BY <1>1 DEF Quote
    <3>2. \A p \in Orders : [period[p] EXCEPT !.plan = quote[o].plan] \in Period
      BY <1>1, <3>1 DEF Period
    <3>3. per = [p \in Orders |-> IF p = quote[o].period
              THEN [period[p] EXCEPT !.plan = quote[o].plan] ELSE period[p]]
      BY <1>1, <2>1
    <3> HIDE DEF per
    <3> QED BY <1>1, <3>2, <3>3
  <2>3. \A p \in Orders : /\ per[p].state = period[p].state
                          /\ per[p].start = period[p].start
                          /\ per[p].end = period[p].end
    BY <1>1, <2>1 DEF Period
  <2> QED BY <2>2, <2>3 DEF Disjoint
<1>4. CASE quote[o].kind # "upgrade"
  <2>1. per = [period EXCEPT ![o] = [state |-> "valid", plan |-> quote[o].plan,
                              start |-> StartOf(o), end |-> StartOf(o) + Month]]
    BY <1>4 DEF PaidPeriods
  <2>2. per \in [Orders -> Period]
    BY <1>1, <1>2, <2>1 DEF Period, Quote
  <2>3. \A p \in Orders : period[p].state = "valid" =>
          period[p].end <= StartOf(o) \/ StartOf(o) + Month <= period[p].start
    BY <1>4 DEF Grantable
  <2>4. per[o].start = StartOf(o) /\ per[o].end = StartOf(o) + Month
    BY <1>1, <2>1
  <2>5. \A p \in Orders : p # o => per[p] = period[p]
    BY <1>1, <2>1
  <2> HIDE DEF per
  <2>6. Disjoint(per)
    <3> SUFFICES ASSUME NEW a \in Orders, NEW b \in Orders, a # b,
                        per[a].state = "valid", per[b].state = "valid"
                 PROVE  per[a].end <= per[b].start \/ per[b].end <= per[a].start
      BY DEF Disjoint
    <3>1. CASE a = o
      BY <1>1, <1>2, <2>3, <2>4, <2>5, <3>1
    <3>2. CASE b = o
      BY <1>1, <1>2, <2>3, <2>4, <2>5, <3>2
    <3>3. CASE a # o /\ b # o
      BY <2>5, <3>3 DEF Disjoint
    <3> QED BY <3>1, <3>2, <3>3
  <2> QED BY <2>2, <2>6 DEF per
<1> QED BY <1>3, <1>4

LEMMA RevokedIsDisjoint ==
  ASSUME TypeOK, Disjoint(period), NEW o \in Orders
  PROVE  /\ RevokedPeriods(o) \in [Orders -> Period]
         /\ Disjoint(RevokedPeriods(o))
<1> DEFINE per == RevokedPeriods(o)
<1>1. period \in [Orders -> Period]
  BY DEF TypeOK
<1>2. /\ per \in [Orders -> Period]
      /\ \A p \in Orders : /\ per[p].start = period[p].start
                           /\ per[p].end = period[p].end
                           /\ per[p].state = "valid" => period[p].state = "valid"
  BY <1>1 DEF RevokedPeriods, Period
<1> QED BY <1>2 DEF Disjoint

-----------------------------------------------------------------------------
(* Types, and what tasks and orders know of payments.                      *)

\* A task, an order or a refund is about a payment that exists and is that of
\* its order.
Attached ==
  /\ \A t \in Tasks :
       /\ task[t].payment \in 0..Len(payments)
       /\ task[t].pc # "idle" => /\ task[t].order \in Orders
                                 /\ order[task[t].order].status # "none"
       /\ task[t].pc \in {"asking", "told"} /\ task[t].payment # 0 =>
            payments[task[t].payment].order = task[t].order
       /\ task[t].pc = "told" => task[t].payment # 0
       /\ task[t].pc = "refund" =>
            /\ task[t].refund \in returned
            /\ payments[task[t].refund[1]].order = task[t].order
  /\ \A o \in Orders :
       /\ order[o].payment \in 0..Len(payments)
       /\ order[o].payment # 0 => payments[order[o].payment].order = o
  /\ \A p \in DOMAIN payments : order[payments[p].order].status # "none"
  /\ \A r \in returned : r[1] \in DOMAIN payments

QuotesNamed == \A o \in Orders : quote[o].state # "none" => quote[o].plan \in Plans

TypeInv == TypeOK /\ PeriodsDisjoint /\ QuotesNamed /\ Attached

LEMMA InitTypes == Init => TypeInv
<1> SUFFICES ASSUME Init PROVE TypeInv
  OBVIOUS
<1>1. /\ NoQuote \in Quote /\ NoOrderYet \in Order /\ NoPeriod \in Period
      /\ Idle \in Task
  BY DEF NoQuote, Quote, Kinds, NoOrderYet, Order, OrderStatuses, NoPeriod, Period,
         Idle, Task
<1>2. TypeOK
  BY <1>1 DEF Init, TypeOK, User, Account, Access, NoAccess, Schedules
<1>3. PeriodsDisjoint /\ QuotesNamed /\ Attached
  BY <1>1 DEF Init, PeriodsDisjoint, QuotesNamed, Attached, NoPeriod, NoQuote, NoOrderYet,
         Idle
<1> QED BY <1>2, <1>3 DEF TypeInv

LEMMA TaskFields ==
  ASSUME NEW k \in Task
  PROVE  /\ k.pc \in {"idle", "asking", "told", "refund", "audit"}
         /\ k.order \in Orders \cup {NoOrder}
         /\ k.payment \in 0..MaxPayments
         /\ k.refund \in Refunds \cup {NoRefund}
         /\ k.seen \in SUBSET Refunds
  BY DEF Task

LEMMA IdleTask == Idle \in Task
  BY DEF Idle, Task

LEMMA OrderFields ==
  ASSUME NEW r \in Order
  PROVE  /\ r.status \in OrderStatuses /\ r.payment \in 0..MaxPayments
         /\ r.applied \in BOOLEAN
         /\ r.receipt \in {"none", "npd_pending", "npd_attached"}
  BY DEF Order

\* What an answer can say of a payment.
LEMMA ShownTypes ==
  ASSUME TypeOK, NEW p \in DOMAIN payments
  PROVE  /\ p \in 1..MaxPayments /\ p \in 1..Len(payments)
         /\ payments[p].order \in Orders
         /\ payments[p].status \in {"pending", "succeeded", "canceled"}
         /\ Shown(payments[p].status) \subseteq
              {"pending", "succeeded", "canceled", "foreign", "odd"}
<1>1. payments \in Seq(Payment) /\ Len(payments) <= MaxPayments
  BY DEF TypeOK
<1>2. payments[p] \in Payment /\ p \in 1..Len(payments) /\ Len(payments) \in Nat
  BY <1>1
<1>3. /\ payments[p].order \in Orders
      /\ payments[p].status \in {"pending", "succeeded", "canceled"}
  BY <1>2 DEF Payment
<1> QED BY <1>1, <1>2, <1>3 DEF Shown

\* A payment that changes its status leaves the others alone.
LEMMA PaymentUpdate ==
  ASSUME NEW s \in Seq(Payment), NEW p \in DOMAIN s, NEW r \in Payment
  PROVE  LET u == [s EXCEPT ![p] = r]
         IN /\ u \in Seq(Payment) /\ Len(u) = Len(s) /\ DOMAIN u = DOMAIN s
            /\ u[p] = r
            /\ \A q \in DOMAIN s : q # p => u[q] = s[q]
  OBVIOUS

LEMMA TaskTypes ==
  ASSUME TypeInv, NEW t \in Tasks, TaskStep(t)
  PROVE  task' \in [Tasks -> Task]
<1>1. /\ task \in [Tasks -> Task] /\ task[t] \in Task /\ returned \subseteq Refunds
      /\ order \in [Orders -> Order]
  BY DEF TypeInv, TypeOK
<1>2. \A k \in Task : [task EXCEPT ![t] = k] \in [Tasks -> Task]
  BY <1>1
<1>3. ASSUME NEW o \in Orders, Refresh(t, o) PROVE task' \in [Tasks -> Task]
  <2>1. order[o].payment \in 0..MaxPayments
    BY <1>1, OrderFields
  <2>2. [Idle EXCEPT !.pc = "asking", !.lease = TRUE, !.order = o,
                     !.payment = order[o].payment] \in Task
    BY <2>1, IdleTask DEF Idle, Task
  <2> QED BY <1>2, <1>3, <2>2 DEF Refresh
<1>4. ASSUME NEW o \in Orders, Audit(t, o) PROVE task' \in [Tasks -> Task]
  <2>1. {r \in returned : r[1] = order[o].payment} \in SUBSET Refunds
    BY <1>1
  <2>2. [Idle EXCEPT !.pc = "audit", !.order = o,
                     !.seen = {r \in returned : r[1] = order[o].payment}] \in Task
    BY <2>1, IdleTask DEF Idle, Task
  <2> QED BY <1>2, <1>4, <2>2 DEF Audit
<1>5. ASSUME NEW p \in DOMAIN payments, Notice(t, p) PROVE task' \in [Tasks -> Task]
  <2>1. \A s \in Shown(payments[p].status) :
          [Idle EXCEPT !.pc = "told", !.payment = p, !.order = payments[p].order,
                       !.status = s] \in Task
    <3>1. /\ p \in 0..MaxPayments /\ payments[p].order \in Orders
          /\ Shown(payments[p].status) \subseteq
               {"pending", "succeeded", "canceled", "foreign", "odd"}
      BY ShownTypes DEF TypeInv
    <3> QED BY <3>1, IdleTask DEF Idle, Task
  <2> QED BY <1>2, <1>5, <2>1 DEF Notice
<1>6. ASSUME NEW r \in returned, NoticeRefund(t, r) PROVE task' \in [Tasks -> Task]
  <2>1. payments[r[1]].order \in Orders
    BY ShownTypes DEF TypeInv, Attached
  <2>2. [Idle EXCEPT !.pc = "refund", !.refund = r,
                     !.order = payments[r[1]].order] \in Task
    BY <1>1, <2>1, IdleTask DEF Idle, Task
  <2> QED BY <1>2, <1>6, <2>2 DEF NoticeRefund
<1>7. \A p \in 0..MaxPayments : \A s \in {"pending", "succeeded", "canceled", "foreign", "odd"} :
        Told(t, p, s) => task' \in [Tasks -> Task]
  <2>1. \A p \in 0..MaxPayments, s \in {"pending", "succeeded", "canceled", "foreign", "odd"} :
          [task[t] EXCEPT !.pc = "told", !.payment = p, !.status = s] \in Task
    BY <1>1 DEF Task
  <2> SUFFICES ASSUME NEW p \in 0..MaxPayments,
                      NEW s \in {"pending", "succeeded", "canceled", "foreign", "odd"},
                      Told(t, p, s)
               PROVE  task' \in [Tasks -> Task]
    OBVIOUS
  <2>2. task' = [task EXCEPT ![t] = [task[t] EXCEPT !.pc = "told", !.payment = p,
                                                    !.status = s]]
    BY <1>1 DEF Told
  <2> QED BY <1>2, <2>1, <2>2
<1>8. CASE Get(t)
  <2>1. task[t].payment \in DOMAIN payments
    BY <1>8 DEF Get, TypeInv, Attached, TypeOK
  <2> QED BY <1>7, <1>8, <2>1, ShownTypes DEF Get, TypeInv
<1>9. CASE Post(t)
  <2>1. Len(payments) \in Nat
    BY DEF TypeInv, TypeOK
  <2>2. CASE \E p \in DOMAIN payments : \E s \in {"pending"} \cup Shown(payments[p].status) :
               Told(t, p, s)
    BY <1>7, <2>2, ShownTypes DEF TypeInv
  <2>3. CASE Len(payments) < MaxPayments /\ Told(t, Len(payments) + 1, "pending")
    BY <1>7, <2>1, <2>3
  <2> QED BY <1>9, <2>2, <2>3 DEF Post
<1>10. CASE Finish(t)
  BY <1>2, <1>10, IdleTask DEF Finish
<1> QED
  BY <1>3, <1>4, <1>5, <1>6, <1>8, <1>9, <1>10 DEF TaskStep, Ask, Settle, RecordRefund,
     Ignore, Mismatch, SettlePending, SettleCanceled, SettleOdd, SettleTest, SettleHeld,
     SettleGranted, RefundAgain, RefundWhole, RefundHeld, AuditEnds, Abandon


\* What a step can make of an order: what its task was told, ...
Answers(t, o) ==
  LET r == order[o]
      p == task[t].payment
  IN /\ Settle(t) /\ ~Ignore(t)
     /\ Mismatch(t) => order'[o] = [r EXCEPT !.status = "review"]
     /\ SettlePending(t) => order'[o] = [r EXCEPT !.status = "pending", !.payment = p]
     /\ SettleCanceled(t) => order'[o] = [r EXCEPT !.status = "canceled", !.payment = p]
     /\ SettleOdd(t) => order'[o] = [r EXCEPT !.status = "review", !.payment = p]
     /\ SettleTest(t) =>
          order'[o] = [r EXCEPT !.status = "test_succeeded", !.payment = p, !.applied = TRUE]
     /\ SettleHeld(t) =>
          order'[o] = [r EXCEPT !.status = "review", !.payment = p, !.receipt = Due(o)]
     /\ SettleGranted(t) =>
          order'[o] = [r EXCEPT !.status = "succeeded", !.payment = p, !.applied = TRUE,
                                !.receipt = Due(o)]

\* ... the refund it has booked, ...
Refunded(t, o) ==
  LET r == order[o]
  IN /\ RecordRefund(t)
     /\ RefundAgain(t) => order'[o] = [r EXCEPT !.receipt = Due(o)]
     /\ RefundWhole(t) => order'[o] = [r EXCEPT !.status = "refunded", !.receipt = Due(o)]
     /\ RefundHeld(t) =>
          order'[o] = [r EXCEPT !.status = IF r.applied THEN @ ELSE "review",
                                !.receipt = Due(o)]

\* ... or what its user, the reconciliation and the administrator do.
Handled(o) ==
  \/ Checkout(o) /\ order'[o] = [order[o] EXCEPT !.status = "creating"]
  \/ GiveUp(o) /\ order'[o] = [order[o] EXCEPT !.status = "review"]
  \/ AttachReceipt(o) /\ order'[o] = [order[o] EXCEPT !.receipt = "npd_attached"]

LEMMA AnswersOne ==
  ASSUME TypeInv, NEW t \in Tasks, Settle(t), ~Ignore(t)
  PROVE  /\ task[t].pc = "told" /\ task[t].order \in Orders
         /\ Answers(t, task[t].order) /\ ~Settled(task[t].order)
         /\ order' = [x \in Orders |-> order'[x]]
         /\ \A x \in Orders : x # task[t].order => order'[x] = order[x]
<1> DEFINE o == task[t].order
<1>1. task[t].pc = "told" /\ ~Settled(o)
  BY DEF Settle, Mismatch, Answered, SettlePending, SettleCanceled, SettleOdd, SettleTest,
     SettleHeld, SettleGranted
<1>2. order \in [Orders -> Order] /\ o \in Orders
  BY <1>1 DEF TypeInv, TypeOK, Attached
<1>3. order[o] \in Order
  BY <1>2
<1>4. /\ order' = [x \in Orders |-> order'[x]]
      /\ \A x \in Orders : x # o => order'[x] = order[x]
  BY <1>2 DEF Settle, Mismatch, SettlePending, SettleCanceled, SettleOdd, SettleTest,
     SettleHeld, SettleGranted
<1>5. Mismatch(t) =>
       order'[o] = [order[o] EXCEPT !.status = "review"]
  BY <1>2, <1>3 DEF Mismatch, Order
<1>6. SettlePending(t) =>
       order'[o] = [order[o] EXCEPT !.status = "pending", !.payment = task[t].payment]
  BY <1>2, <1>3 DEF SettlePending, Order
<1>7. SettleCanceled(t) =>
       order'[o] = [order[o] EXCEPT !.status = "canceled", !.payment = task[t].payment]
  BY <1>2, <1>3 DEF SettleCanceled, Order
<1>8. SettleOdd(t) =>
       order'[o] = [order[o] EXCEPT !.status = "review", !.payment = task[t].payment]
  BY <1>2, <1>3 DEF SettleOdd, Order
<1>9. ASSUME SettleTest(t)
      PROVE  order'[o] = [order[o] EXCEPT !.status = "test_succeeded",
                       !.payment = task[t].payment, !.applied = TRUE]
  BY <1>2, <1>3, <1>9 DEF SettleTest, Order
<1>10. ASSUME SettleHeld(t)
      PROVE  order'[o] = [order[o] EXCEPT !.status = "review", !.payment = task[t].payment,
                       !.receipt = Due(o)]
  BY <1>2, <1>3, <1>10 DEF SettleHeld, Order
<1>11. ASSUME SettleGranted(t)
      PROVE  order'[o] = [order[o] EXCEPT !.status = "succeeded", !.payment = task[t].payment,
                       !.applied = TRUE, !.receipt = Due(o)]
  BY <1>2, <1>3, <1>11 DEF SettleGranted, Order
<1> QED BY <1>1, <1>2, <1>4, <1>5, <1>6, <1>7, <1>8, <1>9, <1>10, <1>11 DEF Answers

LEMMA RefundsOne ==
  ASSUME TypeInv, NEW t \in Tasks, RecordRefund(t)
  PROVE  /\ task[t].pc = "refund" /\ task[t].order \in Orders
         /\ Refunded(t, task[t].order)
         /\ order' = [x \in Orders |-> order'[x]]
         /\ \A x \in Orders : x # task[t].order => order'[x] = order[x]
<1> DEFINE o == task[t].order
<1>1. task[t].pc = "refund"
  BY DEF RecordRefund, RefundAgain, RefundWhole, RefundHeld
<1>2. order \in [Orders -> Order] /\ o \in Orders
  BY <1>1 DEF TypeInv, TypeOK, Attached
<1>3. order[o] \in Order
  BY <1>2
<1>4. /\ order' = [x \in Orders |-> order'[x]]
      /\ \A x \in Orders : x # o => order'[x] = order[x]
  BY <1>2 DEF RecordRefund, RefundAgain, RefundWhole, RefundHeld
<1>5. RefundAgain(t) => order'[o] = [order[o] EXCEPT !.receipt = Due(o)]
  BY <1>2, <1>3 DEF RefundAgain, Order
<1>6. ASSUME RefundWhole(t)
      PROVE  order'[o] = [order[o] EXCEPT !.status = "refunded", !.receipt = Due(o)]
  BY <1>2, <1>3, <1>6 DEF RefundWhole, Order
<1>7. ASSUME RefundHeld(t)
      PROVE  order'[o] = [order[o] EXCEPT !.status = IF order[o].applied THEN @ ELSE "review",
                                          !.receipt = Due(o)]
  BY <1>2, <1>3, <1>7 DEF RefundHeld, Order
<1> QED BY <1>1, <1>2, <1>4, <1>5, <1>6, <1>7 DEF Refunded

LEMMA HandlesOne ==
  ASSUME TypeInv, NEW o \in Orders, Checkout(o) \/ GiveUp(o) \/ AttachReceipt(o)
  PROVE  /\ Handled(o)
         /\ order' = [x \in Orders |-> order'[x]]
         /\ \A x \in Orders : x # o => order'[x] = order[x]
<1>1. order \in [Orders -> Order] /\ order[o] \in Order
  BY DEF TypeInv, TypeOK
<1> QED BY <1>1 DEF Handled, Checkout, GiveUp, AttachReceipt, Order

LEMMA OrderMoves ==
  ASSUME TypeInv, [Next]_vars
  PROVE  /\ order' = [x \in Orders |-> order'[x]]
         /\ \A o \in Orders :
              \/ order'[o] = order[o]
              \/ Handled(o)
              \/ \E t \in Tasks : /\ task[t].order = o /\ task[t].pc = "told"
                                  /\ Answers(t, o) /\ ~Settled(o)
              \/ \E t \in Tasks : /\ task[t].order = o /\ task[t].pc = "refund"
                                  /\ Refunded(t, o)
<1> DEFINE Goal == /\ order' = [x \in Orders |-> order'[x]]
                   /\ \A o \in Orders :
                        \/ order'[o] = order[o]
                        \/ Handled(o)
                        \/ \E t \in Tasks : /\ task[t].order = o /\ task[t].pc = "told"
                                            /\ Answers(t, o) /\ ~Settled(o)
                        \/ \E t \in Tasks : /\ task[t].order = o /\ task[t].pc = "refund"
                                            /\ Refunded(t, o)
<1>1. CASE UNCHANGED order
  <2>1. order \in [Orders -> Order]
    BY DEF TypeInv, TypeOK
  <2> QED BY <1>1, <2>1
<1>2. ASSUME NEW t \in Tasks, TaskStep(t) PROVE Goal
  <2>1. CASE Settle(t) /\ ~Ignore(t)
    BY <2>1, AnswersOne
  <2>2. CASE RecordRefund(t)
    BY <2>2, RefundsOne
  <2>3. (Settle(t) /\ ~Ignore(t)) \/ RecordRefund(t) \/ UNCHANGED order
    BY <1>2 DEF TaskStep, Ask, Settle, Refresh, Audit, Notice, NoticeRefund, Get, Post, Ignore,
       AuditEnds, Abandon, tables
  <2> QED BY <1>1, <2>1, <2>2, <2>3
<1>3. ASSUME NEW x \in Orders, OrderStep(x) PROVE Goal
  <2>1. CASE Checkout(x) \/ GiveUp(x) \/ AttachReceipt(x)
    BY <2>1, HandlesOne
  <2>2. Checkout(x) \/ GiveUp(x) \/ AttachReceipt(x) \/ UNCHANGED order
    BY <1>3 DEF OrderStep, Calculate, Expire, Schedule, Grow, tables
  <2> QED BY <1>1, <2>1, <2>2
<1>4. CASE (\E g \in Grants : Redeem(g) \/ Extend(g)) \/ SyncUser \/ Block \/ Provider \/ Tick
  BY <1>1, <1>4 DEF Redeem, Extend, SyncUser, Block, Provider, Decide, Return, Tick, tables
<1> QED BY <1>1, <1>2, <1>3, <1>4 DEF Next, vars, tables

\* No step makes an order anything but an order.
LEMMA OrderTypes ==
  ASSUME TypeInv, [Next]_vars
  PROVE  order' \in [Orders -> Order]
<1> SUFFICES ASSUME NEW o \in Orders PROVE order'[o] \in Order
  BY OrderMoves
<1>1. order[o] \in Order
  BY DEF TypeInv, TypeOK
<1>2. /\ "review" \in OrderStatuses /\ "pending" \in OrderStatuses
      /\ "canceled" \in OrderStatuses /\ "test_succeeded" \in OrderStatuses
      /\ "succeeded" \in OrderStatuses /\ "refunded" \in OrderStatuses
      /\ "creating" \in OrderStatuses
  BY DEF OrderStatuses
<1>3. Due(o) \in {"none", "npd_pending", "npd_attached"}
  BY <1>1, OrderFields DEF Due
<1>4. CASE Handled(o)
  BY <1>1, <1>2, <1>4 DEF Handled, Order
<1>5. ASSUME NEW t \in Tasks, Answers(t, o) PROVE order'[o] \in Order
  <2>1. task[t].payment \in 0..MaxPayments
    BY TaskFields DEF TypeInv, TypeOK
  <2> QED BY <1>1, <1>2, <1>3, <1>5, <2>1, ZenonT(60) DEF Answers, Settle, Order
<1>6. ASSUME NEW t \in Tasks, Refunded(t, o) PROVE order'[o] \in Order
  BY <1>1, <1>2, <1>3, <1>6 DEF Refunded, RecordRefund, Order
<1> QED BY <1>1, <1>4, <1>5, <1>6, OrderMoves

\* The periods, and what they give, keep their types and stay disjoint.
LEMMA PeriodTypes ==
  ASSUME TypeInv, [Next]_vars
  PROVE  /\ period' \in [Orders -> Period] /\ PeriodsDisjoint'
         /\ user' \in User /\ account' \in Account
<1> DEFINE Goal == /\ period' \in [Orders -> Period] /\ PeriodsDisjoint'
                   /\ user' \in User /\ account' \in Account
<1>1. /\ period \in [Orders -> Period] /\ Disjoint(period)
      /\ user \in User /\ account \in Account /\ now \in Nat
      /\ quote \in [Orders -> Quote]
  BY DEF TypeInv, TypeOK, PeriodsDisjoint, Disjoint
<1>2. /\ account.version + 1 \in Nat
      /\ [account EXCEPT !.version = @ + 1] \in Account
  BY <1>1 DEF Account
<1>3. \A b \in BOOLEAN : [account EXCEPT !.review = b] \in Account
  BY <1>1 DEF Account
<1>4. CASE UNCHANGED <<user, account, period>>
  BY <1>1, <1>4 DEF TypeInv, PeriodsDisjoint
<1>5. ASSUME NEW per \in [Orders -> Period], Disjoint(per), period' = per,
             NEW acc \in Account, Sync(per, acc)
      PROVE  Goal
  <2>1. user' \in User /\ account' \in Account
    BY <1>1, <1>5, SyncTypes DEF Sync
  <2> QED BY <1>5, <2>1 DEF PeriodsDisjoint, Disjoint
<1>6. ASSUME NEW t \in Tasks, SettleGranted(t) PROVE Goal
  <2> DEFINE o == task[t].order
  <2>1. o \in Orders
    BY <1>6 DEF SettleGranted, Answered, TypeInv, Attached
  <2>2. PaidPeriods(o) \in [Orders -> Period] /\ Disjoint(PaidPeriods(o))
    BY <1>1, <1>6, <2>1, PaidIsDisjoint DEF SettleGranted, TypeInv
  <2>3. [account EXCEPT !.version = @ + 1, !.scheduled = <<>>] \in Account
    <3>1. <<>> \in Schedules
      BY DEF Schedules
    <3>2. \A v \in Nat : [account EXCEPT !.version = v, !.scheduled = <<>>] \in Account
      BY <1>1, <3>1 DEF Account
    <3> QED BY <1>2, <3>2
  <2> QED BY <1>5, <1>6, <2>2, <2>3 DEF SettleGranted
<1>7. ASSUME NEW t \in Tasks, RefundWhole(t) PROVE Goal
  <2> DEFINE o == task[t].order
  <2>1. o \in Orders
    BY <1>7 DEF RefundWhole, TypeInv, Attached
  <2>2. RevokedPeriods(o) \in [Orders -> Period] /\ Disjoint(RevokedPeriods(o))
    BY <1>1, <1>7, <2>1, RevokedIsDisjoint DEF TypeInv
  <2> QED BY <1>2, <1>5, <1>7, <2>2 DEF RefundWhole
<1>8. ASSUME NEW t \in Tasks, RefundHeld(t) PROVE Goal
  <2>1. [account EXCEPT !.version = @ + 1, !.review = TRUE] \in Account
    <3>1. \A v \in Nat : [account EXCEPT !.version = v, !.review = TRUE] \in Account
      BY <1>1 DEF Account
    <3> QED BY <1>2, <3>1
  <2> QED BY <1>1, <1>5, <1>8, <2>1 DEF RefundHeld
<1>9. CASE SyncUser
  BY <1>1, <1>5, <1>9 DEF SyncUser
<1>10. ASSUME NEW t \in Tasks, AuditEnds(t) PROVE Goal
  <2>1. account.review \in BOOLEAN
    BY <1>1 DEF Account
  <2>2. PICK u \in BOOLEAN : account' = [account EXCEPT !.review = @ \/ u
             \/ Amount(task[t].seen) > Amount(RefundsOf(task[t].order, booked))]
    BY <1>10 DEF AuditEnds
  <2>3. account' \in Account
    BY <1>1, <2>2 DEF Account
  <2> QED BY <1>1, <1>10, <2>3 DEF AuditEnds, TypeInv, PeriodsDisjoint
<1>11. ASSUME NEW o \in Orders, Schedule(o) PROVE Goal
  <2>1. quote[o] \in Quote /\ quote[o].plan \in Plans /\ quote[o].start \in Nat
    BY <1>1, <1>11 DEF Schedule, Acceptable, TypeInv, QuotesNamed, Quote
  <2>2. <<quote[o].plan, quote[o].start>> \in Schedules
    BY <2>1 DEF Schedules
  <2>3. [account EXCEPT !.scheduled = <<quote[o].plan, quote[o].start>>,
                        !.version = @ + 1] \in Account
    <3>1. \A s \in Schedules : \A v \in Nat :
            [account EXCEPT !.scheduled = s, !.version = v] \in Account
      BY <1>1 DEF Account
    <3> QED BY <1>2, <2>2, <3>1
  <2> QED BY <1>1, <1>11, <2>3 DEF Schedule, TypeInv, PeriodsDisjoint
<1>12. ASSUME NEW limit \in Plans \cup {0}, Extended(limit), UNCHANGED period PROVE Goal
  <2> DEFINE until == Later(SyncedUser(period, account).until, now) + GrantDays
  <2>1. SyncedUser(period, account) \in User /\ SyncedAccount(period, account) \in Account
    BY <1>1, SyncTypes
  <2>2. until \in Nat
    BY <1>1, <2>1 DEF User, Later
  <2>3. [SyncedUser(period, account) EXCEPT !.until = until, !.limit = limit] \in User
    BY <2>1, <2>2 DEF User
  <2>4. [SyncedAccount(period, account) EXCEPT !.version = @ + 1] \in Account
    BY <2>1 DEF Account
  <2> QED BY <1>1, <1>12, <2>3, <2>4 DEF Extended, TypeInv, PeriodsDisjoint
<1>13. ASSUME NEW g \in Grants, Redeem(g) \/ Extend(g) PROVE Goal
  <2>1. SyncedUser(period, account).limit \in Plans \cup {0}
    BY <1>1, SyncTypes DEF User
  <2> QED BY <1>12, <1>13, <2>1 DEF Redeem, Extend
<1>14. CASE Block
  <2>1. [user EXCEPT !.blocked = ~@] \in User
    BY <1>1 DEF User
  <2> QED BY <1>1, <1>14, <2>1 DEF Block, TypeInv, PeriodsDisjoint
<1>15. CASE Next
  <2>1. ASSUME NEW t \in Tasks, TaskStep(t) PROVE Goal
    <3>1. \/ SettleGranted(t) \/ RefundWhole(t) \/ RefundHeld(t) \/ AuditEnds(t)
          \/ UNCHANGED <<user, account, period>>
      BY <2>1 DEF TaskStep, Ask, Settle, RecordRefund, Refresh, Audit, Notice, NoticeRefund,
         Get, Post, Ignore, Mismatch, SettlePending, SettleCanceled, SettleOdd, SettleTest,
         SettleHeld, RefundAgain, Abandon, tables
    <3> QED BY <1>4, <1>6, <1>7, <1>8, <1>10, <3>1
  <2>2. ASSUME NEW o \in Orders, OrderStep(o) PROVE Goal
    <3>1. Schedule(o) \/ UNCHANGED <<user, account, period>>
      BY <2>2 DEF OrderStep, Calculate, Expire, Checkout, GiveUp, AttachReceipt, Grow, tables
    <3> QED BY <1>4, <1>11, <3>1
  <2>3. CASE Provider \/ Tick
    BY <1>4, <2>3 DEF Provider, Decide, Return, Tick, tables
  <2> QED BY <1>9, <1>13, <1>14, <1>15, <2>1, <2>2, <2>3 DEF Next
<1> QED BY <1>4, <1>15 DEF vars, tables

\* A quote names a plan, and a period that is in force or none.
LEMMA QuoteTypes ==
  ASSUME TypeInv, [Next]_vars
  PROVE  quote' \in [Orders -> Quote] /\ QuotesNamed'
<1>1. /\ quote \in [Orders -> Quote] /\ now \in Nat /\ account.version \in Nat
      /\ period \in [Orders -> Period] /\ Disjoint(period)
  BY DEF TypeInv, TypeOK, Account, PeriodsDisjoint, Disjoint
<1>2. CASE UNCHANGED quote
  BY <1>1, <1>2 DEF TypeInv, QuotesNamed
<1>3. ASSUME NEW o \in Orders, NEW plan \in Plans, Calculate(o, plan)
      PROVE  quote' \in [Orders -> Quote] /\ QuotesNamed'
  <2> DEFINE start == IF KindOf(plan) \in {"new", "upgrade"} THEN now
                      ELSE period[Active].end
             q == [state |-> "fresh", plan |-> plan, kind |-> KindOf(plan),
                   version |-> account.version, period |-> Active, start |-> start]
  <2>1. KindOf(plan) \in Kinds
    BY DEF KindOf, Kinds
  <2>2. /\ Active \in Orders \cup {NoOrder}
        /\ KindOf(plan) # "new" => Active \in Orders
    BY <1>1, ActiveIsOrder DEF KindOf, TypeInv
  <2>3. start \in Nat
    BY <1>1, <2>2 DEF Period
  <2> HIDE DEF start
  <2>4. q \in Quote
    BY <1>1, <2>1, <2>2, <2>3 DEF Quote
  <2>5. quote' = [quote EXCEPT ![o] = q]
    BY <1>3 DEF Calculate, start
  <2> QED BY <1>1, <2>4, <2>5 DEF TypeInv, QuotesNamed
<1>4. ASSUME NEW o \in Orders, Expire(o)
      PROVE  quote' \in [Orders -> Quote] /\ QuotesNamed'
  <2>1. /\ [quote[o] EXCEPT !.state = "stale"] \in Quote
        /\ [quote[o] EXCEPT !.state = "stale"].plan = quote[o].plan
    BY <1>1 DEF Quote
  <2>2. quote[o].plan \in Plans
    BY <1>4 DEF Expire, TypeInv, QuotesNamed
  <2> QED BY <1>1, <1>4, <2>1, <2>2 DEF Expire, TypeInv, QuotesNamed
<1>5. CASE Next
  <2>1. ASSUME NEW t \in Tasks, TaskStep(t) PROVE UNCHANGED quote
    BY <2>1 DEF TaskStep, Ask, Settle, RecordRefund, Refresh, Audit,
       Notice, NoticeRefund, Get, Post, Ignore, Mismatch, SettlePending, SettleCanceled,
       SettleOdd, SettleTest, SettleHeld, SettleGranted, RefundAgain, RefundWhole, RefundHeld,
       AuditEnds, Abandon, tables
  <2>2. ASSUME NEW o \in Orders, OrderStep(o)
        PROVE  quote' \in [Orders -> Quote] /\ QuotesNamed'
    BY <1>2, <1>3, <1>4, <2>2 DEF OrderStep, Checkout, Schedule, GiveUp, AttachReceipt, Grow,
       tables
  <2>3. CASE (\E g \in Grants : Redeem(g) \/ Extend(g)) \/ SyncUser \/ Block \/ Provider \/ Tick
    BY <2>3, <1>2 DEF Redeem, Extend, SyncUser, Block, Provider, Decide, Return, Tick, tables
  <2> QED BY <1>2, <1>5, <2>1, <2>2, <2>3 DEF Next
<1> QED BY <1>2, <1>5 DEF vars, tables

\* What is left: the clock, the codes, the provider and the marks of history.
LEMMA OtherTypes ==
  ASSUME TypeInv, [Next]_vars
  PROVE  /\ now' \in 0..MaxTime /\ shop' \in Shops
         /\ age' \in [Orders -> {"young", "old", "forgotten"}]
         /\ booked' \subseteq returned' /\ returned' \subseteq Refunds
         /\ used' \subseteq Grants
         /\ payments' \in Seq(Payment) /\ Len(payments') <= MaxPayments
         /\ captured' \subseteq Orders /\ right' \in Nat
<1> DEFINE Goal == /\ now' \in 0..MaxTime /\ shop' \in Shops
                   /\ age' \in [Orders -> {"young", "old", "forgotten"}]
                   /\ booked' \subseteq returned' /\ returned' \subseteq Refunds
                   /\ used' \subseteq Grants
                   /\ payments' \in Seq(Payment) /\ Len(payments') <= MaxPayments
                   /\ captured' \subseteq Orders /\ right' \in Nat
<1>1. /\ now \in 0..MaxTime /\ shop \in Shops
      /\ age \in [Orders -> {"young", "old", "forgotten"}]
      /\ booked \subseteq returned /\ returned \subseteq Refunds
      /\ used \subseteq Grants
      /\ payments \in Seq(Payment) /\ Len(payments) <= MaxPayments
      /\ captured \subseteq Orders /\ right \in Nat
  BY DEF TypeInv, TypeOK
<1>2. CASE UNCHANGED <<now, shop, age, booked, returned, used, payments, captured, right>>
  BY <1>1, <1>2
<1>3. ASSUME NEW t \in Tasks, TaskStep(t) PROVE Goal
  <2>1. task[t].pc # "idle" => task[t].order \in Orders
    BY DEF TypeInv, Attached
  <2>2. CASE Post(t)
    <3>1. task[t].order \in Orders
      BY <2>1, <2>2 DEF Post
    <3>2. [order |-> task[t].order, status |-> "pending"] \in Payment
      BY <3>1 DEF Payment
    <3>3. CASE UNCHANGED payments
      BY <1>2, <2>2, <3>3 DEF Post, tables, clock, history
    <3>4. CASE /\ Len(payments) < MaxPayments
               /\ payments' = Append(payments, [order |-> task[t].order, status |-> "pending"])
      <4>1. payments' \in Seq(Payment) /\ Len(payments') <= MaxPayments
        BY <1>1, <3>2, <3>4
      <4> QED BY <1>1, <2>2, <4>1 DEF Post, tables, clock, history
    <3> QED BY <2>2, <3>3, <3>4 DEF Post
  <2>3. CASE SettleTest(t) \/ SettleHeld(t) \/ SettleGranted(t)
    BY <1>1, <2>1, <2>3 DEF SettleTest, SettleHeld, SettleGranted, Answered, provider, clock
  <2>4. CASE RefundAgain(t)
    BY <1>1, <2>1, <2>4 DEF RefundAgain, provider, clock
  <2>5. CASE RefundWhole(t) \/ RefundHeld(t)
    <3>1. task[t].refund \in returned
      BY <2>5 DEF RefundWhole, RefundHeld, TypeInv, Attached
    <3> QED BY <1>1, <2>1, <2>5, <3>1 DEF RefundWhole, RefundHeld, provider, clock
  <2>6. \/ Post(t) \/ SettleTest(t) \/ SettleHeld(t) \/ SettleGranted(t) \/ RefundAgain(t)
        \/ RefundWhole(t) \/ RefundHeld(t)
        \/ UNCHANGED <<now, shop, age, booked, returned, used, payments, captured, right>>
    BY <1>3 DEF TaskStep, Ask, Settle, RecordRefund, Refresh, Audit, Notice, NoticeRefund, Get,
       Ignore, Mismatch, SettlePending, SettleCanceled, SettleOdd, AuditEnds, Abandon,
       tables, provider, clock, history
  <2> QED BY <1>2, <2>2, <2>3, <2>4, <2>5, <2>6
<1>4. ASSUME NEW o \in Orders, OrderStep(o) PROVE Goal
  <2>1. CASE Grow(o)
    BY <1>1, <2>1 DEF Grow, tables, provider, history
  <2>2. Grow(o) \/ UNCHANGED <<now, shop, age, booked, returned, used, payments, captured, right>>
    BY <1>4 DEF OrderStep, Calculate, Expire, Checkout, Schedule, GiveUp, AttachReceipt,
       tables, provider, clock, history
  <2> QED BY <1>2, <2>1, <2>2
<1>5. ASSUME NEW g \in Grants, Redeem(g) \/ Extend(g) PROVE Goal
  BY <1>1, <1>5 DEF Redeem, Extend, Extended, Later, provider, clock
<1>6. ASSUME NEW p \in DOMAIN payments, Decide(p) PROVE Goal
  <2>1. payments[p] \in Payment
    BY <1>1
  <2>2. \A s \in {"succeeded", "canceled"} : [payments[p] EXCEPT !.status = s] \in Payment
    BY <2>1 DEF Payment
  <2>3. payments' \in Seq(Payment) /\ Len(payments') = Len(payments)
    <3>1. PICK s \in {"succeeded", "canceled"} :
            payments' = [payments EXCEPT ![p] = [payments[p] EXCEPT !.status = s]]
      BY <1>6 DEF Decide
    <3>2. [payments[p] EXCEPT !.status = s] \in Payment
      BY <2>2
    <3> QED BY <1>1, <3>1, <3>2, PaymentUpdate
  <2> QED BY <1>1, <1>6, <2>3 DEF Decide, tables, clock, history
<1>7. ASSUME NEW p \in DOMAIN payments, NEW part \in RefundParts, Return(p, part) PROVE Goal
  <2>1. p \in 1..MaxPayments
    BY ShownTypes DEF TypeInv
  <2> QED BY <1>1, <1>7, <2>1 DEF Return, Refunds, tables, clock, history
<1>8. CASE SyncUser \/ Block
  BY <1>2, <1>8 DEF SyncUser, Block, tables, provider, clock, history
<1>9. CASE Tick
  BY <1>1, <1>9 DEF Tick, tables, provider, history
<1> QED BY <1>2, <1>3, <1>4, <1>5, <1>6, <1>7, <1>8, <1>9
           DEF Next, Provider, vars, tables, provider, clock, history

\* What the provider and the tasks do to payments: one is added, or one is decided.
LEMMA PaymentsGrow ==
  ASSUME TypeInv, [Next]_vars
  PROVE  /\ Len(payments) <= Len(payments')
         /\ DOMAIN payments' = 1..Len(payments') /\ DOMAIN payments = 1..Len(payments)
         /\ Len(payments) \in Nat /\ Len(payments') \in Nat
         /\ \A p \in DOMAIN payments :
              /\ payments'[p].order = payments[p].order
              /\ payments[p].status # "pending" =>
                   payments'[p].status = payments[p].status
<1> DEFINE Goal == /\ Len(payments) <= Len(payments')
                   /\ \A p \in DOMAIN payments :
                        /\ payments'[p].order = payments[p].order
                        /\ payments[p].status # "pending" =>
                             payments'[p].status = payments[p].status
<1>1. /\ payments \in Seq(Payment) /\ payments' \in Seq(Payment)
      /\ DOMAIN payments' = 1..Len(payments') /\ DOMAIN payments = 1..Len(payments)
      /\ Len(payments) \in Nat /\ Len(payments') \in Nat
  BY OtherTypes DEF TypeInv, TypeOK
<1>2. CASE UNCHANGED payments
  BY <1>1, <1>2
<1>3. ASSUME NEW t \in Tasks, Post(t) PROVE Goal
  <2>1. CASE UNCHANGED payments
    BY <1>2, <2>1
  <2>2. CASE payments' = Append(payments, [order |-> task[t].order, status |-> "pending"])
    BY <1>1, <2>2
  <2> QED BY <1>3, <2>1, <2>2 DEF Post
<1>4. ASSUME NEW p \in DOMAIN payments, Decide(p) PROVE Goal
  <2>1. PICK s \in {"succeeded", "canceled"} :
          payments' = [payments EXCEPT ![p] = [payments[p] EXCEPT !.status = s]]
    BY <1>4 DEF Decide
  <2>2. payments[p] \in Payment
    BY <1>1
  <2>3. /\ [payments[p] EXCEPT !.status = s] \in Payment
        /\ [payments[p] EXCEPT !.status = s].order = payments[p].order
    BY <2>2 DEF Payment
  <2>4. payments[p].status = "pending"
    BY <1>4 DEF Decide
  <2> QED BY <1>1, <2>1, <2>3, <2>4, PaymentUpdate
<1>5. CASE Next
  <2>1. ASSUME NEW t \in Tasks, TaskStep(t) PROVE Post(t) \/ UNCHANGED payments
    BY <2>1 DEF TaskStep, Ask, Settle, RecordRefund, Refresh, Audit,
       Notice, NoticeRefund, Get, Ignore, Mismatch, SettlePending, SettleCanceled,
       SettleOdd, SettleTest, SettleHeld, SettleGranted, RefundAgain, RefundWhole, RefundHeld,
       AuditEnds, Abandon, provider
  <2>2. ASSUME NEW o \in Orders, OrderStep(o) PROVE UNCHANGED payments
    BY <2>2 DEF OrderStep, Calculate, Expire, Checkout, Schedule, GiveUp, AttachReceipt, Grow,
       provider
  <2>3. CASE (\E g \in Grants : Redeem(g) \/ Extend(g)) \/ SyncUser \/ Block \/ Tick
    BY <1>2, <2>3 DEF Redeem, Extend, SyncUser, Block, Tick, provider
  <2>4. ASSUME NEW p \in DOMAIN payments, NEW part \in RefundParts, Return(p, part)
        PROVE  UNCHANGED payments
    BY <2>4 DEF Return
  <2> QED BY <1>2, <1>3, <1>4, <1>5, <2>1, <2>2, <2>3, <2>4 DEF Next, Provider
<1> QED BY <1>1, <1>2, <1>5 DEF vars, provider

\* What those rows say: an order keeps its payment or takes that of its task, and
\* it never becomes a quote again.
LEMMA OrderKeeps ==
  ASSUME TypeInv, [Next]_vars, NEW o \in Orders
  PROVE  /\ \/ order'[o].payment = order[o].payment
            \/ \E t \in Tasks : /\ task[t].order = o /\ task[t].pc = "told"
                                /\ order'[o].payment = task[t].payment
         /\ order[o].status # "none" => order'[o].status # "none"
<1>1. order[o] \in Order
  BY DEF TypeInv, TypeOK
<1>2. CASE Handled(o)
  BY <1>1, <1>2 DEF Handled, Order
<1>3. ASSUME NEW t \in Tasks, task[t].order = o, task[t].pc = "told", Answers(t, o)
      PROVE  /\ order'[o].payment \in {order[o].payment, task[t].payment}
             /\ order'[o].status # "none"
  BY <1>1, <1>3, ZenonT(60) DEF Answers, Settle, Order
<1>4. ASSUME NEW t \in Tasks, Refunded(t, o)
      PROVE  /\ order'[o].payment = order[o].payment
             /\ order[o].status # "none" => order'[o].status # "none"
  BY <1>1, <1>4, ZenonT(60) DEF Refunded, RecordRefund, Order
<1> QED BY <1>2, <1>3, <1>4, OrderMoves

\* What a step can make of a task: it is told of a payment of its order, ...
Learns(u) ==
  /\ task'[u].pc = "told" /\ task'[u].order \in Orders
  /\ task'[u].payment \in DOMAIN payments'
  /\ payments'[task'[u].payment].order = task'[u].order
  /\ task'[u].status \in {"succeeded", "canceled"} =>
       payments'[task'[u].payment].status = task'[u].status
  /\ order[task'[u].order].status # "none"

\* ... or it takes up an order or a refund.
Takes(u) ==
  \/ \E o \in Orders :
       /\ Refresh(u, o) /\ task'[u].pc = "asking" /\ task'[u].order = o
       /\ task'[u].payment = order[o].payment
  \/ \E o \in Orders :
       /\ Audit(u, o) /\ task'[u].pc = "audit" /\ task'[u].order = o
       /\ task'[u].payment = 0
  \/ \E r \in returned :
       /\ NoticeRefund(u, r) /\ task'[u].pc = "refund" /\ task'[u].refund = r
       /\ task'[u].order = payments[r[1]].order /\ task'[u].payment = 0

LEMMA TaskMoves ==
  ASSUME TypeInv, [Next]_vars, NEW u \in Tasks
  PROVE  task'[u] \in {task[u], Idle} \/ Learns(u) \/ Takes(u)
<1> DEFINE Goal == task'[u] \in {task[u], Idle} \/ Learns(u) \/ Takes(u)
<1>1. /\ task \in [Tasks -> Task] /\ payments \in Seq(Payment)
      /\ order \in [Orders -> Order]
  BY DEF TypeInv, TypeOK
<1>2. /\ Idle.pc = "idle" /\ Idle.payment = 0
      /\ \A o, p : LET k == [Idle EXCEPT !.pc = "asking", !.lease = TRUE, !.order = o,
                                         !.payment = p]
                   IN k.pc = "asking" /\ k.order = o /\ k.payment = p
      /\ \A o, x : LET k == [Idle EXCEPT !.pc = "audit", !.order = o, !.seen = x]
                   IN k.pc = "audit" /\ k.order = o /\ k.payment = 0
      /\ \A o, p, x : LET k == [Idle EXCEPT !.pc = "told", !.payment = p, !.order = o,
                                            !.status = x]
                      IN k.pc = "told" /\ k.order = o /\ k.payment = p /\ k.status = x
      /\ \A o, r : LET k == [Idle EXCEPT !.pc = "refund", !.refund = r, !.order = o]
                   IN k.pc = "refund" /\ k.order = o /\ k.refund = r /\ k.payment = 0
  BY DEF Idle
<1>3. CASE UNCHANGED task
  BY <1>3
<1>4. ASSUME NEW t \in Tasks, NEW o \in Orders, Refresh(t, o) PROVE Goal
  <2>1. task' = [task EXCEPT ![t] = [Idle EXCEPT !.pc = "asking", !.lease = TRUE, !.order = o,
                                        !.payment = order[o].payment]]
    BY <1>4 DEF Refresh
  <2>2. u # t => task'[u] = task[u]
    BY <1>1, <2>1
  <2>3. task'[t] = [Idle EXCEPT !.pc = "asking", !.lease = TRUE, !.order = o,
                                        !.payment = order[o].payment]
    BY <1>1, <2>1
  <2>4. /\ task'[t].pc = "asking" /\ task'[t].order = o
        /\ task'[t].payment = order[o].payment
    BY <2>3 DEF Idle
  <2>5. ASSUME u = t PROVE Takes(u)
    BY <1>4, <2>4, <2>5 DEF Takes
  <2> QED BY <2>2, <2>5
<1>5. ASSUME NEW t \in Tasks, NEW o \in Orders, Audit(t, o) PROVE Goal
  <2>1. task' = [task EXCEPT ![t] = [Idle EXCEPT !.pc = "audit", !.order = o,
                            !.seen = {r \in returned : r[1] = order[o].payment}]]
    BY <1>5 DEF Audit
  <2>2. u # t => task'[u] = task[u]
    BY <1>1, <2>1
  <2>3. task'[t] = [Idle EXCEPT !.pc = "audit", !.order = o,
                            !.seen = {r \in returned : r[1] = order[o].payment}]
    BY <1>1, <2>1
  <2>4. /\ task'[t].pc = "audit" /\ task'[t].order = o
        /\ task'[t].payment = 0
    BY <2>3 DEF Idle
  <2>5. ASSUME u = t PROVE Takes(u)
    BY <1>5, <2>4, <2>5 DEF Takes
  <2> QED BY <2>2, <2>5
<1>6. ASSUME NEW t \in Tasks, NEW r \in returned, NoticeRefund(t, r) PROVE Goal
  <2>1. task' = [task EXCEPT ![t] = [Idle EXCEPT !.pc = "refund", !.refund = r,
                                        !.order = payments[r[1]].order]]
    BY <1>6 DEF NoticeRefund
  <2>2. u # t => task'[u] = task[u]
    BY <1>1, <2>1
  <2>3. task'[t] = [Idle EXCEPT !.pc = "refund", !.refund = r,
                                        !.order = payments[r[1]].order]
    BY <1>1, <2>1
  <2>4. /\ task'[t].pc = "refund" /\ task'[t].refund = r
        /\ task'[t].order = payments[r[1]].order /\ task'[t].payment = 0
    BY <2>3 DEF Idle
  <2>5. ASSUME u = t PROVE Takes(u)
    BY <1>6, <2>4, <2>5 DEF Takes
  <2> QED BY <2>2, <2>5
<1>7. ASSUME NEW t \in Tasks, NEW p \in DOMAIN payments, Notice(t, p) PROVE Goal
  <2>1. /\ payments[p].order \in Orders /\ order[payments[p].order].status # "none"
        /\ UNCHANGED payments
    BY <1>7, ShownTypes DEF TypeInv, Attached, Notice, provider
  <2>2. PICK s \in Shown(payments[p].status) :
          task' = [task EXCEPT ![t] = [Idle EXCEPT !.pc = "told", !.payment = p,
                     !.order = payments[p].order, !.status = s]]
    BY <1>7 DEF Notice
  <2>3. s \in {"succeeded", "canceled"} => payments[p].status = s
    BY <2>2 DEF Shown
  <2>4. u = t => Learns(u)
    BY <1>1, <1>2, <2>1, <2>2, <2>3 DEF Learns
  <2>5. u # t => task'[u] = task[u]
    BY <1>1, <2>2
  <2> QED BY <2>4, <2>5
<1>8. ASSUME NEW t \in Tasks, task[t].pc = "asking", NEW p \in DOMAIN payments', NEW s,
             Told(t, p, s), payments'[p].order = task[t].order,
             s \in {"succeeded", "canceled"} => payments'[p].status = s
      PROVE  Goal
  <2>1. task[t] \in Task
    BY <1>1
  <2>2. task' = [task EXCEPT ![t] = [task[t] EXCEPT !.pc = "told", !.payment = p,
                                                    !.status = s]]
    BY <1>1, <1>8 DEF Told
  <2>3. LET k == [task[t] EXCEPT !.pc = "told", !.payment = p, !.status = s]
        IN k.pc = "told" /\ k.order = task[t].order /\ k.payment = p /\ k.status = s
    BY <2>1 DEF Task
  <2>4. task[t].order \in Orders /\ order[task[t].order].status # "none"
    BY <1>8 DEF TypeInv, Attached
  <2>5. u = t => Learns(u)
    BY <1>1, <1>8, <2>2, <2>3, <2>4 DEF Learns
  <2>6. u # t => task'[u] = task[u]
    BY <1>1, <2>2
  <2> QED BY <2>5, <2>6
<1>9. ASSUME NEW t \in Tasks, Get(t) PROVE Goal
  <2> DEFINE p == task[t].payment
  <2>1. /\ task[t].pc = "asking" /\ p # 0 /\ UNCHANGED payments
        /\ \E s \in Shown(payments[p].status) : Told(t, p, s)
    BY <1>9 DEF Get, provider
  <2>2. p \in DOMAIN payments /\ payments[p].order = task[t].order
    BY <1>1, <2>1 DEF TypeInv, Attached
  <2>3. \A s \in Shown(payments[p].status) :
          s \in {"succeeded", "canceled"} => payments[p].status = s
    BY DEF Shown
  <2> HIDE DEF Goal
  <2> QED BY <1>8, <2>1, <2>2, <2>3
<1>10. ASSUME NEW t \in Tasks, Post(t) PROVE Goal
  <2>1. task[t].pc = "asking" /\ task[t].order \in Orders
    BY <1>10 DEF Post, TypeInv, Attached
  <2>2. CASE /\ UNCHANGED payments
             /\ \E p \in DOMAIN payments : /\ payments[p].order = task[t].order
                  /\ \E s \in {"pending"} \cup Shown(payments[p].status) : Told(t, p, s)
    <3>1. PICK p \in DOMAIN payments :
            /\ payments[p].order = task[t].order
            /\ \E s \in {"pending"} \cup Shown(payments[p].status) : Told(t, p, s)
      BY <2>2
    <3>2. PICK s \in {"pending"} \cup Shown(payments[p].status) : Told(t, p, s)
      BY <3>1
    <3>3. s \in {"succeeded", "canceled"} => payments[p].status = s
      BY <3>2 DEF Shown
    <3> QED BY <1>8, <2>1, <2>2, <3>1, <3>2, <3>3
  <2>3. CASE /\ payments' = Append(payments, [order |-> task[t].order, status |-> "pending"])
             /\ Told(t, Len(payments) + 1, "pending")
    <3>1. [order |-> task[t].order, status |-> "pending"] \in Payment
      BY <2>1 DEF Payment
    <3>2. /\ Len(payments) + 1 \in DOMAIN payments'
          /\ payments'[Len(payments) + 1].order = task[t].order
      BY <1>1, <2>3, <3>1
    <3> QED BY <1>8, <2>1, <2>3, <3>2
  <2>4. \/ /\ UNCHANGED payments
           /\ \E p \in DOMAIN payments : /\ payments[p].order = task[t].order
                /\ \E s \in {"pending"} \cup Shown(payments[p].status) : Told(t, p, s)
        \/ /\ payments' = Append(payments, [order |-> task[t].order, status |-> "pending"])
           /\ Told(t, Len(payments) + 1, "pending")
    BY <1>10 DEF Post
  <2> QED BY <2>2, <2>3, <2>4
<1>11. ASSUME NEW t \in Tasks, Finish(t) PROVE Goal
  BY <1>1, <1>11 DEF Finish
<1>12. CASE Next
  <2>1. ASSUME NEW t \in Tasks, TaskStep(t) PROVE Goal
    <3>1. \/ \E o \in Orders : Refresh(t, o) \/ Audit(t, o)
          \/ \E p \in DOMAIN payments : Notice(t, p)
          \/ \E r \in returned : NoticeRefund(t, r)
          \/ Get(t) \/ Post(t) \/ Finish(t)
      BY <2>1 DEF TaskStep, Ask, Settle, RecordRefund, Ignore, Mismatch, SettlePending,
         SettleCanceled, SettleOdd, SettleTest, SettleHeld, SettleGranted, RefundAgain,
         RefundWhole, RefundHeld, AuditEnds, Abandon
    <3> HIDE DEF Goal
    <3> QED BY <1>4, <1>5, <1>6, <1>7, <1>9, <1>10, <1>11, <3>1
  <2>2. ASSUME NEW o \in Orders, OrderStep(o) PROVE UNCHANGED task
    BY <2>2 DEF OrderStep, Calculate, Expire, Checkout, Schedule, GiveUp, AttachReceipt, Grow
  <2>3. CASE (\E g \in Grants : Redeem(g) \/ Extend(g)) \/ SyncUser \/ Block \/ Provider \/ Tick
    BY <1>3, <2>3 DEF Redeem, Extend, SyncUser, Block, Provider, Decide, Return, Tick
  <2> QED BY <1>3, <1>12, <2>1, <2>2, <2>3 DEF Next
<1> QED BY <1>3, <1>12 DEF vars

\* Money is returned only of payments that have succeeded.
LEMMA ReturnsMove ==
  ASSUME [Next]_vars
  PROVE  \/ UNCHANGED returned
         \/ \E p \in DOMAIN payments, part \in RefundParts : Return(p, part)
<1>1. ASSUME NEW t \in Tasks, TaskStep(t) PROVE UNCHANGED returned
  BY <1>1 DEF TaskStep, Ask, Settle, RecordRefund, Refresh, Audit, Notice, NoticeRefund, Get,
     Post, Ignore, Mismatch, SettlePending, SettleCanceled, SettleOdd, SettleTest, SettleHeld,
     SettleGranted, RefundAgain, RefundWhole, RefundHeld, AuditEnds, Abandon, provider
<1>2. ASSUME NEW o \in Orders, OrderStep(o) PROVE UNCHANGED returned
  BY <1>2 DEF OrderStep, Calculate, Expire, Checkout, Schedule, GiveUp, AttachReceipt, Grow,
     provider
<1>3. CASE (\E g \in Grants : Redeem(g) \/ Extend(g)) \/ SyncUser \/ Block \/ Tick
  BY <1>3 DEF Redeem, Extend, SyncUser, Block, Tick, provider
<1>4. CASE Provider
  BY <1>4 DEF Provider, Decide
<1> QED BY <1>1, <1>2, <1>3, <1>4 DEF Next, vars, provider

\* Only a request adds a payment.
LEMMA PaymentsMove ==
  ASSUME TypeInv, [Next]_vars
  PROVE  \/ Len(payments') = Len(payments)
         \/ \E t \in Tasks : Post(t) /\ payments' # payments
<1>1. payments \in Seq(Payment)
  BY DEF TypeInv, TypeOK
<1>2. ASSUME NEW t \in Tasks, TaskStep(t) PROVE Post(t) \/ UNCHANGED payments
  BY <1>2 DEF TaskStep, Ask, Settle, RecordRefund, Refresh, Audit, Notice, NoticeRefund, Get,
     Ignore, Mismatch, SettlePending, SettleCanceled, SettleOdd, SettleTest, SettleHeld,
     SettleGranted, RefundAgain, RefundWhole, RefundHeld, AuditEnds, Abandon, provider
<1>3. ASSUME NEW o \in Orders, OrderStep(o) PROVE UNCHANGED payments
  BY <1>3 DEF OrderStep, Calculate, Expire, Checkout, Schedule, GiveUp, AttachReceipt,
     Grow, provider
<1>4. CASE (\E g \in Grants : Redeem(g) \/ Extend(g)) \/ SyncUser \/ Block \/ Tick
  BY <1>4 DEF Redeem, Extend, SyncUser, Block, Tick, provider
<1>5. ASSUME NEW p \in DOMAIN payments, Decide(p) PROVE Len(payments') = Len(payments)
  <2>1. PICK s \in {"succeeded", "canceled"} :
          payments' = [payments EXCEPT ![p] = [payments[p] EXCEPT !.status = s]]
    BY <1>5 DEF Decide
  <2> QED BY <1>1, <2>1
<1>6. ASSUME NEW p \in DOMAIN payments, NEW part \in RefundParts, Return(p, part)
      PROVE  UNCHANGED payments
  BY <1>6 DEF Return
<1> QED BY <1>2, <1>3, <1>4, <1>5, <1>6 DEF Next, Provider, vars, provider

\* Tasks, orders and refunds stay attached to the payments they are about.
LEMMA AttachedStays ==
  ASSUME TypeInv, [Next]_vars
  PROVE  Attached'
<1>1. /\ DOMAIN payments = 1..Len(payments) /\ DOMAIN payments' = 1..Len(payments')
      /\ Len(payments) \in Nat /\ Len(payments') \in Nat
      /\ Len(payments) <= Len(payments')
      /\ \A p \in DOMAIN payments : /\ p \in DOMAIN payments'
                                    /\ payments'[p].order = payments[p].order
                                    /\ payments[p].order \in Orders
  BY PaymentsGrow, ShownTypes DEF TypeInv
<1>2. \A o \in Orders : order[o].status # "none" => order'[o].status # "none"
  BY OrderKeeps
<1>3. \A r \in returned' : r[1] \in DOMAIN payments'
  <2>1. CASE UNCHANGED returned
    BY <1>1, <2>1 DEF TypeInv, Attached
  <2>2. ASSUME NEW p \in DOMAIN payments, NEW part \in RefundParts, Return(p, part)
        PROVE  \A r \in returned' : r[1] \in DOMAIN payments'
    BY <1>1, <2>2 DEF TypeInv, Attached, Return
  <2> QED BY <2>1, <2>2, ReturnsMove
<1>4. returned \subseteq returned'
  BY ReturnsMove DEF Return
<1>5. ASSUME NEW p \in DOMAIN payments' PROVE order'[payments'[p].order].status # "none"
  <2>1. CASE p \in DOMAIN payments
    BY <1>1, <1>2, <2>1 DEF TypeInv, Attached
  <2>2. CASE p \notin DOMAIN payments
    <3>1. PICK t \in Tasks : Post(t) /\ payments' # payments
      BY <1>1, <2>2, PaymentsMove
    <3>2. /\ payments' = Append(payments, [order |-> task[t].order, status |-> "pending"])
          /\ task[t].pc = "asking"
      BY <3>1 DEF Post
    <3>3. task[t].order \in Orders /\ order[task[t].order].status # "none"
      BY <3>2 DEF TypeInv, Attached
    <3>4. payments'[p].order = task[t].order
      BY <1>1, <2>2, <3>2, <3>3 DEF TypeInv, TypeOK, Payment
    <3> QED BY <1>2, <3>3, <3>4
  <2> QED BY <2>1, <2>2
<1>6. ASSUME NEW o \in Orders
      PROVE  /\ order'[o].payment \in 0..Len(payments')
             /\ order'[o].payment # 0 => payments'[order'[o].payment].order = o
  <2>1. /\ order[o].payment \in 0..Len(payments)
        /\ order[o].payment # 0 => payments[order[o].payment].order = o
    BY DEF TypeInv, Attached
  <2>2. CASE order'[o].payment = order[o].payment
    BY <1>1, <2>1, <2>2
  <2>3. ASSUME NEW t \in Tasks, task[t].order = o, task[t].pc = "told",
               order'[o].payment = task[t].payment
        PROVE  /\ order'[o].payment \in 0..Len(payments')
               /\ order'[o].payment # 0 => payments'[order'[o].payment].order = o
    <3>1. /\ task[t].payment \in 1..Len(payments)
          /\ payments[task[t].payment].order = o
      BY <1>1, <2>3 DEF TypeInv, Attached
    <3> QED BY <1>1, <2>3, <3>1
  <2> QED BY <2>2, <2>3, OrderKeeps
<1>7. ASSUME NEW t \in Tasks
      PROVE  /\ task'[t].payment \in 0..Len(payments')
             /\ task'[t].pc # "idle" => /\ task'[t].order \in Orders
                                        /\ order'[task'[t].order].status # "none"
             /\ task'[t].pc \in {"asking", "told"} /\ task'[t].payment # 0 =>
                  payments'[task'[t].payment].order = task'[t].order
             /\ task'[t].pc = "told" => task'[t].payment # 0
             /\ task'[t].pc = "refund" =>
                  /\ task'[t].refund \in returned'
                  /\ payments'[task'[t].refund[1]].order = task'[t].order
  <2>1. CASE task'[t] = task[t]
    <3>1. /\ task[t].payment \in 0..Len(payments)
          /\ task[t].pc # "idle" => /\ task[t].order \in Orders
                                    /\ order[task[t].order].status # "none"
          /\ task[t].pc \in {"asking", "told"} /\ task[t].payment # 0 =>
               payments[task[t].payment].order = task[t].order
          /\ task[t].pc = "told" => task[t].payment # 0
          /\ task[t].pc = "refund" =>
               /\ task[t].refund \in returned /\ task[t].refund[1] \in DOMAIN payments
               /\ payments[task[t].refund[1]].order = task[t].order
      BY DEF TypeInv, Attached
    <3> QED BY <1>1, <1>2, <1>4, <2>1, <3>1
  <2>2. CASE task'[t] = Idle
    BY <1>1, <2>2 DEF Idle
  <2>3. CASE Learns(t)
    BY <1>1, <1>2, <2>3 DEF Learns
  <2>4. CASE Takes(t)
    <3>1. ASSUME NEW o \in Orders, Refresh(t, o), task'[t].pc = "asking",
                 task'[t].order = o, task'[t].payment = order[o].payment
          PROVE  order[o].status # "none"
      BY <3>1 DEF Refresh
    <3>2. ASSUME NEW o \in Orders, Audit(t, o)
          PROVE  order[o].status # "none"
      BY <3>2 DEF Audit
    <3>3. ASSUME NEW r \in returned
          PROVE  /\ r[1] \in DOMAIN payments
                 /\ order[payments[r[1]].order].status # "none"
      BY DEF TypeInv, Attached
    <3>4. \A o \in Orders : /\ order[o].payment \in 0..Len(payments)
                            /\ order[o].payment # 0 => payments[order[o].payment].order = o
      BY DEF TypeInv, Attached
    <3> QED BY <1>1, <1>2, <1>4, <2>4, <3>1, <3>2, <3>3, <3>4 DEF Takes
  <2> QED BY <2>1, <2>2, <2>3, <2>4, TaskMoves
<1> QED BY <1>3, <1>5, <1>6, <1>7 DEF Attached

LEMMA TypesStay == TypeInv /\ [Next]_vars => TypeInv'
<1> SUFFICES ASSUME TypeInv, [Next]_vars PROVE TypeInv'
  OBVIOUS
<1>1. task' \in [Tasks -> Task]
  <2>1. CASE UNCHANGED task
    BY <2>1 DEF TypeInv, TypeOK
  <2>2. ASSUME NEW t \in Tasks, TaskStep(t) PROVE task' \in [Tasks -> Task]
    BY <2>2, TaskTypes
  <2>3. ASSUME NEW o \in Orders, OrderStep(o) PROVE UNCHANGED task
    BY <2>3 DEF OrderStep, Calculate, Expire, Checkout, Schedule, GiveUp, AttachReceipt, Grow
  <2>4. CASE (\E g \in Grants : Redeem(g) \/ Extend(g)) \/ SyncUser \/ Block \/ Provider \/ Tick
    BY <2>1, <2>4 DEF Redeem, Extend, SyncUser, Block, Provider, Decide, Return, Tick
  <2> QED BY <2>1, <2>2, <2>3, <2>4 DEF Next, vars
<1>2. TypeOK'
  BY <1>1, OrderTypes, PeriodTypes, QuoteTypes, OtherTypes DEF TypeOK
<1> QED BY <1>2, PeriodTypes, QuoteTypes, AttachedStays DEF TypeInv

LEMMA TypesAlways == Spec => []TypeInv
BY InitTypes, TypesStay, PTL DEF Spec

\* Every reachable state is well typed.  That the access of a user is a number of
\* days and a plan rests on PeriodsDisjoint: without it the period that counts
\* (active_period) would be none.
THEOREM TypeCorrect == Spec => []TypeOK
<1>1. TypeInv => TypeOK
  BY DEF TypeInv
<1> QED BY <1>1, TypesAlways, PTL

\* Nobody pays for the same day twice: whatever quotes, payments, refunds, codes
\* and ticks come between quote and settlement, periods in force never overlap.
THEOREM NoDayTwice == Spec => []PeriodsDisjoint
<1>1. TypeInv => PeriodsDisjoint
  BY DEF TypeInv
<1> QED BY <1>1, TypesAlways, PTL

-----------------------------------------------------------------------------
(* One payment for an order.                                               *)

\* A request that may create a payment is about an order whose key the provider
\* still knows.
KeyKnown ==
  \A t \in Tasks : task[t].pc = "asking" /\ task[t].payment = 0 =>
    age[task[t].order] # "forgotten"

PaymentInv == OnePayment /\ KeyKnown

LEMMA AgeMoves ==
  ASSUME [Next]_vars
  PROVE  UNCHANGED age \/ \E o \in Orders : Grow(o)
<1>1. ASSUME NEW t \in Tasks, TaskStep(t) PROVE UNCHANGED age
  BY <1>1 DEF TaskStep, Ask, Settle, RecordRefund, Refresh, Audit, Notice, NoticeRefund, Get,
     Post, Ignore, Mismatch, SettlePending, SettleCanceled, SettleOdd, SettleTest, SettleHeld,
     SettleGranted, RefundAgain, RefundWhole, RefundHeld, AuditEnds, Abandon, clock
<1>2. ASSUME NEW o \in Orders, OrderStep(o) PROVE UNCHANGED age \/ Grow(o)
  BY <1>2 DEF OrderStep, Calculate, Expire, Checkout, Schedule, GiveUp, AttachReceipt, clock
<1>3. CASE (\E g \in Grants : Redeem(g) \/ Extend(g)) \/ SyncUser \/ Block \/ Provider \/ Tick
  BY <1>3 DEF Redeem, Extend, SyncUser, Block, Provider, Decide, Return, Tick, clock
<1> QED BY <1>1, <1>2, <1>3 DEF Next, vars, clock

LEMMA PaymentStays ==
  ASSUME TypeInv, PaymentInv, [Next]_vars
  PROVE  PaymentInv'
<1>1. /\ age \in [Orders -> {"young", "old", "forgotten"}]
      /\ payments \in Seq(Payment) /\ task \in [Tasks -> Task]
  BY DEF TypeInv, TypeOK
<1>2. KeyKnown'
  <2> SUFFICES ASSUME NEW t \in Tasks, task'[t].pc = "asking", task'[t].payment = 0
               PROVE  age'[task'[t].order] # "forgotten"
    BY DEF KeyKnown
  <2>1. CASE UNCHANGED age
    <3>1. CASE task'[t] = task[t]
      BY <2>1, <3>1 DEF PaymentInv, KeyKnown
    <3>2. CASE Takes(t)
      <4>1. ASSUME NEW o \in Orders, Refresh(t, o), task'[t].order = o,
                   task'[t].payment = order[o].payment
            PROVE  age[o] # "forgotten"
        BY <4>1 DEF Refresh
      <4> QED BY <2>1, <3>2, <4>1 DEF Takes
    <3> QED BY <3>1, <3>2, TaskMoves DEF Learns, Idle
  <2>2. ASSUME NEW o \in Orders, Grow(o) PROVE age'[task'[t].order] # "forgotten"
    <3>1. UNCHANGED task
      BY <2>2 DEF Grow
    <3>2. task[t].pc = "asking" /\ age[task[t].order] # "forgotten"
      BY <3>1 DEF PaymentInv, KeyKnown
    <3>3. CASE age' = [age EXCEPT ![o] = "old"]
      BY <1>1, <3>1, <3>2, <3>3
    <3>4. CASE /\ age' = [age EXCEPT ![o] = "forgotten"]
               /\ ~(task[t].pc = "asking" /\ task[t].order = o)
      BY <1>1, <3>1, <3>2, <3>4
    <3> QED BY <2>2, <3>3, <3>4 DEF Grow
  <2> QED BY <2>1, <2>2, AgeMoves
<1>3. OnePayment'
  <2>1. /\ DOMAIN payments = 1..Len(payments) /\ DOMAIN payments' = 1..Len(payments')
        /\ Len(payments) \in Nat /\ Len(payments') \in Nat
        /\ \A p \in DOMAIN payments : payments'[p].order = payments[p].order
    BY PaymentsGrow
  <2>2. CASE Len(payments') = Len(payments)
    BY <2>1, <2>2 DEF PaymentInv, OnePayment
  <2>3. ASSUME NEW t \in Tasks, Post(t), payments' # payments PROVE OnePayment'
    <3> DEFINE o == task[t].order
               known == {p \in DOMAIN payments : payments[p].order = o}
    <3>1. /\ task[t].pc = "asking" /\ task[t].payment = 0
          /\ known = {} \/ age[o] = "forgotten"
          /\ payments' = Append(payments, [order |-> o, status |-> "pending"])
      BY <2>3 DEF Post
    <3>2. known = {}
      BY <3>1 DEF PaymentInv, KeyKnown
    <3>3. /\ Len(payments') = Len(payments) + 1
          /\ payments'[Len(payments) + 1].order = o
      BY <1>1, <3>1
    <3>4. \A p \in DOMAIN payments : payments'[p].order # o
      BY <2>1, <3>2
    <3> SUFFICES ASSUME NEW p \in DOMAIN payments', NEW q \in DOMAIN payments',
                        payments'[p].order = payments'[q].order
                 PROVE  p = q
      BY DEF OnePayment
    <3>5. CASE p \in DOMAIN payments /\ q \in DOMAIN payments
      BY <2>1, <3>5 DEF PaymentInv, OnePayment
    <3>6. CASE p \notin DOMAIN payments \/ q \notin DOMAIN payments
      BY <2>1, <3>3, <3>4, <3>6
    <3> QED BY <3>5, <3>6
  <2>4. \/ Len(payments') = Len(payments)
        \/ \E t \in Tasks : Post(t) /\ payments' # payments
    BY PaymentsMove
  <2> QED BY <2>2, <2>3, <2>4
<1> QED BY <1>2, <1>3 DEF PaymentInv

\* However often a payment is asked for and whatever answer was lost, an order is
\* one payment at the provider: a request that may create one is never about an
\* order whose key the provider has forgotten.
THEOREM PaidOnce == Spec => []OnePayment
<1>1. Init => PaymentInv
  BY DEF Init, PaymentInv, OnePayment, KeyKnown, Idle
<1>2. PaymentInv => OnePayment
  BY DEF PaymentInv
<1> QED BY <1>1, <1>2, PaymentStays, TypesAlways, PTL DEF Spec

-----------------------------------------------------------------------------
(* Captured money: receipts, and what becomes of the order.                *)

\* Four kinds of steps: an answer is booked, a refund is booked, an order is
\* handled by somebody, or orders and captures stay as they are.
LEMMA StepKinds ==
  ASSUME [Next]_vars
  PROVE  /\ UNCHANGED shop
         /\ \/ \E t \in Tasks : Settle(t) /\ ~Ignore(t)
            \/ \E t \in Tasks : RecordRefund(t)
            \/ \E o \in Orders : /\ Checkout(o) \/ GiveUp(o) \/ AttachReceipt(o)
                                 /\ UNCHANGED captured
            \/ UNCHANGED <<order, captured, booked, period>>
<1>1. ASSUME NEW t \in Tasks, TaskStep(t)
      PROVE  /\ UNCHANGED shop
             /\ (Settle(t) /\ ~Ignore(t)) \/ RecordRefund(t)
                \/ UNCHANGED <<order, captured, booked, period>>
  <2>1. CASE Settle(t)
    BY <2>1 DEF Settle, Ignore, Mismatch, SettlePending, SettleCanceled, SettleOdd, SettleTest,
       SettleHeld, SettleGranted, tables, clock, history
  <2>2. CASE RecordRefund(t)
    BY <2>2 DEF RecordRefund, RefundAgain, RefundWhole, RefundHeld, clock
  <2>3. CASE ~Settle(t) /\ ~RecordRefund(t)
    BY <1>1, <2>3 DEF TaskStep, Ask, Refresh, Audit, Notice, NoticeRefund, Get, Post,
       AuditEnds, Abandon, tables, clock, history
  <2> QED BY <2>1, <2>2, <2>3
<1>2. ASSUME NEW o \in Orders, OrderStep(o)
      PROVE  /\ UNCHANGED shop
             /\ \/ /\ Checkout(o) \/ GiveUp(o) \/ AttachReceipt(o)
                   /\ UNCHANGED captured
                \/ UNCHANGED <<order, captured, booked, period>>
  BY <1>2 DEF OrderStep, Calculate, Expire, Checkout, Schedule, GiveUp, AttachReceipt, Grow,
     tables, clock, history
<1>3. CASE (\E g \in Grants : Redeem(g) \/ Extend(g)) \/ SyncUser \/ Block \/ Provider \/ Tick
  BY <1>3 DEF Redeem, Extend, SyncUser, Block, Provider, Decide, Return, Tick, tables, clock,
     history
<1> QED BY <1>1, <1>2, <1>3 DEF Next, vars, tables, clock, history

\* A booked capture of a shop with receipts by hand is due.
LEMMA DueFollows ==
  ASSUME TypeInv, NEW o \in Orders
  PROVE  /\ shop = "npd" => Due(o) # "none"
         /\ shop # "npd" => Due(o) = order[o].receipt
BY DEF Due

LEMMA ReceiptsStay ==
  ASSUME TypeInv, ReceiptsFollowMoney, [Next]_vars
  PROVE  ReceiptsFollowMoney'
<1>1. /\ UNCHANGED shop
      /\ \A o \in Orders : /\ order[o] \in Order
                           /\ order[o].receipt # "none" <=> shop = "npd" /\ o \in captured
  BY StepKinds DEF TypeInv, TypeOK, ReceiptsFollowMoney
<1>2. ASSUME NEW t \in Tasks, Settle(t), ~Ignore(t) PROVE ReceiptsFollowMoney'
  <2> DEFINE o == task[t].order
  <2>1. /\ o \in Orders /\ Answers(t, o)
        /\ \A x \in Orders : x # o => order'[x] = order[x]
    BY <1>2, AnswersOne
  <2>2. CASE Mismatch(t) \/ SettlePending(t) \/ SettleCanceled(t) \/ SettleOdd(t)
    <3>1. UNCHANGED captured
      BY <2>2 DEF Mismatch, SettlePending, SettleCanceled, SettleOdd, history
    <3>2. order'[o].receipt = order[o].receipt
      BY <1>1, <2>1, <2>2 DEF Answers, Order
    <3> QED BY <1>1, <2>1, <3>1, <3>2 DEF ReceiptsFollowMoney
  <2>3. CASE SettleTest(t)
    <3>1. captured' = captured \cup {o} /\ shop # "npd"
      BY <2>3 DEF SettleTest
    <3>2. order'[o].receipt = order[o].receipt
      BY <1>1, <2>1, <2>3 DEF Answers, Order
    <3> QED BY <1>1, <2>1, <3>1, <3>2 DEF ReceiptsFollowMoney
  <2>4. CASE SettleHeld(t) \/ SettleGranted(t)
    <3>1. captured' = captured \cup {o}
      BY <2>4 DEF SettleHeld, SettleGranted
    <3>2. order'[o].receipt = Due(o)
      BY <1>1, <2>1, <2>4, ZenonT(60) DEF Answers, Order
    <3> QED BY <1>1, <2>1, <3>1, <3>2, DueFollows DEF ReceiptsFollowMoney
  <2> QED BY <1>2, <2>2, <2>3, <2>4 DEF Settle
<1>3. ASSUME NEW t \in Tasks, RecordRefund(t) PROVE ReceiptsFollowMoney'
  <2> DEFINE o == task[t].order
  <2>1. /\ o \in Orders /\ Refunded(t, o)
        /\ \A x \in Orders : x # o => order'[x] = order[x]
    BY <1>3, RefundsOne
  <2>2. captured' = captured \cup {o}
    BY <1>3 DEF RecordRefund, RefundAgain, RefundWhole, RefundHeld
  <2>3. order'[o].receipt = Due(o)
    BY <1>1, <1>3, <2>1 DEF Refunded, RecordRefund, Order
  <2> QED BY <1>1, <2>1, <2>2, <2>3, DueFollows DEF ReceiptsFollowMoney
<1>4. ASSUME NEW o \in Orders, Checkout(o) \/ GiveUp(o) \/ AttachReceipt(o), UNCHANGED captured
      PROVE  ReceiptsFollowMoney'
  <2>1. Handled(o) /\ \A x \in Orders : x # o => order'[x] = order[x]
    BY <1>4, HandlesOne
  <2>2. order'[o].receipt # "none" <=> order[o].receipt # "none"
    BY <1>1, <2>1 DEF Handled, AttachReceipt, Order
  <2> QED BY <1>1, <1>4, <2>1, <2>2 DEF ReceiptsFollowMoney
<1>5. CASE UNCHANGED <<order, captured>>
  BY <1>1, <1>5 DEF ReceiptsFollowMoney
<1> QED BY <1>2, <1>3, <1>4, <1>5, StepKinds

\* Whatever capture was verified, granted or held, refunded before it was known or
\* told twice, is in the queue of receipts, and nothing else is.
THEOREM ReceiptsHold == Spec => []ReceiptsFollowMoney
<1>1. Init => ReceiptsFollowMoney
  BY DEF Init, ReceiptsFollowMoney, NoOrderYet
<1> QED BY <1>1, ReceiptsStay, TypesAlways, PTL DEF Spec

-----------------------------------------------------------------------------
(* Refunds: never more than was paid.                                      *)

\* What was applied is final, and only a whole refund is final without it.
AppliedIsFinal ==
  \A o \in Orders :
    /\ order[o].applied => order[o].status \in Final
    /\ order[o].status \in {"succeeded", "test_succeeded"} => order[o].applied

ReturnsBounded == \A p \in DOMAIN payments : Amount({r \in returned : r[1] = p}) <= Price

RefundedWhole ==
  \A o \in Orders : order[o].status = "refunded" => Amount(RefundsOf(o, booked)) = Price

RefundInv == AppliedIsFinal /\ ReturnsBounded /\ RefundedWhole

\* The refunds of one payment are few.
LEMMA RefundsFinite ==
  ASSUME NEW p, NEW rs, rs \subseteq {r \in Refunds : r[1] = p}
  PROVE  IsFiniteSet(rs)
<1> DEFINE few == (({} \cup {<<p, "whole">>}) \cup {<<p, "half1">>}) \cup {<<p, "half2">>}
<1>1. IsFiniteSet(few)
  BY FS_EmptySet, FS_AddElement
<1>2. rs \in SUBSET few
  <2> SUFFICES ASSUME NEW r \in rs PROVE r \in few
    OBVIOUS
  <2>1. /\ r = <<p, r[2]>>
        /\ r[2] = "whole" \/ r[2] = "half1" \/ r[2] = "half2"
    <3>1. r \in (1..MaxPayments) \X RefundParts /\ r[1] = p
      BY DEF Refunds
    <3>2. r = <<r[1], r[2]>> /\ r[2] \in RefundParts
      BY <3>1
    <3> QED BY <3>1, <3>2
  <2>2. <<p, "whole">> \in few /\ <<p, "half1">> \in few /\ <<p, "half2">> \in few
    OBVIOUS
  <2> HIDE DEF few
  <2> QED BY <2>1, <2>2
<1> QED BY <1>1, <1>2, FS_Subset

\* Amounts add up: one more refund is more money.
LEMMA AmountGrows ==
  ASSUME NEW p, NEW xs, NEW ys \in SUBSET {r \in Refunds : r[1] = p},
         xs \subseteq ys, NEW r \in ys, r \notin xs
  PROVE  Amount(xs) \in Nat /\ Amount(ys) \in Nat /\ Amount(xs) < Amount(ys)
<1> DEFINE whole(s) == {q \in s : q[2] = "whole"}
<1>1. IsFiniteSet(ys) /\ IsFiniteSet(whole(ys))
  BY RefundsFinite
<1>2. xs \in SUBSET ys /\ whole(xs) \in SUBSET whole(ys) /\ xs # ys
  OBVIOUS
<1>3. /\ IsFiniteSet(xs) /\ Cardinality(xs) <= Cardinality(ys)
      /\ Cardinality(ys) # Cardinality(xs)
  BY <1>1, <1>2, FS_Subset
<1>4. IsFiniteSet(whole(xs)) /\ Cardinality(whole(xs)) <= Cardinality(whole(ys))
  BY <1>1, <1>2, FS_Subset
<1>5. /\ Cardinality(xs) \in Nat /\ Cardinality(ys) \in Nat
      /\ Cardinality(whole(xs)) \in Nat /\ Cardinality(whole(ys)) \in Nat
  BY <1>1, <1>3, <1>4, FS_CardinalityType
<1>6. /\ Amount(xs) = Cardinality(xs) + Cardinality(whole(xs))
      /\ Amount(ys) = Cardinality(ys) + Cardinality(whole(ys))
  BY DEF Amount
<1> HIDE DEF whole
<1> QED BY <1>3, <1>4, <1>5, <1>6

\* After a whole refund the provider has nothing left to return.
LEMMA NothingLeft ==
  ASSUME TypeInv, PaymentInv, RefundInv, NEW o \in Orders, order[o].status = "refunded",
         NEW r \in returned, payments[r[1]].order = o
  PROVE  r \in booked
<1> SUFFICES ASSUME r \notin booked PROVE FALSE
  OBVIOUS
<1> DEFINE ys == {q \in returned : q[1] = r[1]}
           xs == RefundsOf(o, booked)
<1>1. /\ booked \subseteq returned /\ returned \subseteq Refunds
      /\ \A q \in returned : q[1] \in DOMAIN payments
  BY DEF TypeInv, TypeOK, Attached
<1>2. \A q \in returned : payments[q[1]].order = o => q[1] = r[1]
  BY <1>1 DEF PaymentInv, OnePayment
<1>3. xs \subseteq ys /\ r \in ys /\ r \notin xs
  BY <1>1, <1>2 DEF RefundsOf
<1>4. ys \in SUBSET {q \in Refunds : q[1] = r[1]}
  BY <1>1
<1>5. Amount(xs) = Price /\ Amount(ys) <= Price
  BY <1>1 DEF RefundInv, RefundedWhole, ReturnsBounded
<1>6. Amount(xs) \in Nat /\ Amount(ys) \in Nat /\ Amount(xs) < Amount(ys)
  BY <1>3, <1>4, AmountGrows
<1> HIDE DEF xs, ys
<1> QED BY <1>5, <1>6 DEF Price

\* A refund is booked for its own order.
LEMMA BookedMoves ==
  ASSUME TypeInv, [Next]_vars
  PROVE  \/ UNCHANGED booked
         \/ \E t \in Tasks : /\ RefundWhole(t) \/ RefundHeld(t)
                             /\ booked' = booked \cup {task[t].refund}
<1>1. ASSUME NEW t \in Tasks, Settle(t) PROVE UNCHANGED booked
  BY <1>1 DEF Settle, Ignore, Mismatch, SettlePending, SettleCanceled, SettleOdd, SettleTest,
     SettleHeld, SettleGranted, tables
<1>2. ASSUME NEW t \in Tasks, RecordRefund(t)
      PROVE  UNCHANGED booked \/ /\ RefundWhole(t) \/ RefundHeld(t)
                                 /\ booked' = booked \cup {task[t].refund}
  BY <1>2 DEF RecordRefund, RefundAgain, RefundWhole, RefundHeld
<1>3. ASSUME NEW o \in Orders, Checkout(o) \/ GiveUp(o) \/ AttachReceipt(o)
      PROVE  UNCHANGED booked
  BY <1>3 DEF Checkout, GiveUp, AttachReceipt
<1> QED BY <1>1, <1>2, <1>3, StepKinds

LEMMA RefundStays ==
  ASSUME TypeInv, PaymentInv, RefundInv, [Next]_vars
  PROVE  RefundInv'
<1>1. /\ order \in [Orders -> Order] /\ returned \subseteq Refunds
      /\ booked \subseteq returned
  BY DEF TypeInv, TypeOK
<1>2. AppliedIsFinal'
  <2> SUFFICES ASSUME NEW o \in Orders
               PROVE  /\ order'[o].applied => order'[o].status \in Final
                      /\ order'[o].status \in {"succeeded", "test_succeeded"} =>
                           order'[o].applied
    BY DEF AppliedIsFinal
  <2>1. /\ order[o] \in Order
        /\ order[o].applied => order[o].status \in Final
        /\ order[o].status \in {"succeeded", "test_succeeded"} => order[o].applied
    BY <1>1 DEF RefundInv, AppliedIsFinal
  <2>2. CASE Handled(o)
    <3>1. CASE Checkout(o) /\ order'[o] = [order[o] EXCEPT !.status = "creating"]
      <4>1. order[o].status = "none"
        BY <3>1 DEF Checkout, Acceptable
      <4> QED BY <2>1, <3>1, <4>1 DEF Order, Final
    <3>2. CASE GiveUp(o) /\ order'[o] = [order[o] EXCEPT !.status = "review"]
      <4>1. order[o].status = "creating"
        BY <3>2 DEF GiveUp
      <4> QED BY <2>1, <3>2, <4>1 DEF Order, Final
    <3>3. CASE order'[o] = [order[o] EXCEPT !.receipt = "npd_attached"]
      BY <2>1, <3>3 DEF Order
    <3> QED BY <2>2, <3>1, <3>2, <3>3 DEF Handled
  <2>3. ASSUME NEW t \in Tasks, Answers(t, o), ~Settled(o)
        PROVE  /\ order'[o].applied => order'[o].status \in Final
               /\ order'[o].status \in {"succeeded", "test_succeeded"} => order'[o].applied
    <3>1. ~order[o].applied
      BY <2>3 DEF Settled
    <3> QED BY <2>1, <2>3, <3>1, ZenonT(60) DEF Answers, Settle, Order, Final
  <2>4. ASSUME NEW t \in Tasks, Refunded(t, o)
        PROVE  /\ order'[o].applied => order'[o].status \in Final
               /\ order'[o].status \in {"succeeded", "test_succeeded"} => order'[o].applied
    BY <2>1, <2>4, ZenonT(60) DEF Refunded, RecordRefund, Order, Final
  <2> QED BY <2>1, <2>2, <2>3, <2>4, OrderMoves
<1>3. ReturnsBounded'
  <2> SUFFICES ASSUME NEW p \in DOMAIN payments'
               PROVE  Amount({r \in returned' : r[1] = p}) <= Price
    BY DEF ReturnsBounded, Amount, Price
  <2>1. CASE p \notin DOMAIN payments
    <3>1. \A r \in returned : r[1] \in DOMAIN payments
      BY DEF TypeInv, Attached
    <3>2. \A r \in returned' : r[1] \in DOMAIN payments
      <4>1. ASSUME NEW q \in DOMAIN payments, NEW part \in RefundParts, Return(q, part),
                   NEW r \in returned'
            PROVE  r[1] \in DOMAIN payments
        <5>1. r \in returned \/ r = <<q, part>>
          BY <4>1 DEF Return
        <5> QED BY <3>1, <5>1
      <4> QED BY <3>1, <4>1, ReturnsMove
    <3>3. {r \in returned' : r[1] = p} = {}
      BY <2>1, <3>2
    <3>4. Cardinality({}) = 0
      BY FS_EmptySet
    <3>5. Amount({}) = 0
      BY <3>4 DEF Amount
    <3> QED BY <3>3, <3>5 DEF Price
  <2>2. CASE p \in DOMAIN payments /\ UNCHANGED returned
    BY <2>2 DEF RefundInv, ReturnsBounded
  <2>3. ASSUME p \in DOMAIN payments, NEW q \in DOMAIN payments, NEW part \in RefundParts,
               Return(q, part)
        PROVE  Amount({r \in returned' : r[1] = p}) <= Price
    <3>1. /\ returned' = returned \cup {<<q, part>>}
          /\ Amount({r \in returned : r[1] = q} \cup {<<q, part>>}) <= Price
      BY <2>3 DEF Return
    <3>2. CASE p = q
      <4>1. {r \in returned' : r[1] = p} = {r \in returned : r[1] = q} \cup {<<q, part>>}
        BY <3>1, <3>2
      <4> QED BY <3>1, <4>1
    <3>3. CASE p # q
      <4>1. {r \in returned' : r[1] = p} = {r \in returned : r[1] = p}
        BY <3>1, <3>3
      <4> QED BY <2>3, <4>1 DEF RefundInv, ReturnsBounded
    <3> QED BY <3>2, <3>3
  <2> QED BY <2>1, <2>2, <2>3, ReturnsMove
<1>4. RefundedWhole'
  <2> SUFFICES ASSUME NEW o \in Orders, order'[o].status = "refunded"
               PROVE  Amount(RefundsOf(o, booked)') = Price
    BY DEF RefundedWhole, Amount, Price
  <2>1. /\ order[o] \in Order
        /\ \A r \in booked : r[1] \in DOMAIN payments
        /\ \A p \in DOMAIN payments : payments'[p].order = payments[p].order
    BY <1>1, PaymentsGrow DEF TypeInv, Attached
  <2>2. ASSUME NEW t \in Tasks, task[t].pc = "refund", task[t].refund \notin booked
        PROVE  /\ task[t].refund \in returned
               /\ payments[task[t].refund[1]].order = task[t].order
               /\ order[task[t].order].status # "refunded"
    <3>1. /\ task[t].refund \in returned
          /\ payments[task[t].refund[1]].order = task[t].order /\ task[t].order \in Orders
      BY <2>2 DEF TypeInv, Attached
    <3> QED BY <2>2, <3>1, NothingLeft
  <2>3. CASE order[o].status = "refunded"
    <3>1. RefundsOf(o, booked)' = RefundsOf(o, booked)
      <4>1. CASE UNCHANGED booked
        BY <2>1, <4>1 DEF RefundsOf
      <4>2. ASSUME NEW t \in Tasks, RefundWhole(t) \/ RefundHeld(t),
                   booked' = booked \cup {task[t].refund}
            PROVE  RefundsOf(o, booked)' = RefundsOf(o, booked)
        <5>1. /\ task[t].pc = "refund" /\ task[t].refund \notin booked
              /\ UNCHANGED payments
          BY <4>2 DEF RefundWhole, RefundHeld, provider
        <5>2. payments[task[t].refund[1]].order # o
          BY <2>2, <2>3, <5>1
        <5> QED BY <4>2, <5>1, <5>2 DEF RefundsOf
      <4> QED BY <4>1, <4>2, BookedMoves
    <3> QED BY <2>3, <3>1 DEF RefundInv, RefundedWhole
  <2>4. CASE order[o].status # "refunded"
    <3>1. ~Handled(o)
      BY <2>1, <2>4 DEF Handled, Order
    <3>2. ASSUME NEW t \in Tasks, Answers(t, o) PROVE FALSE
      BY <2>1, <3>2, ZenonT(60) DEF Answers, Settle, Order
    <3>3. PICK t \in Tasks : task[t].order = o /\ Refunded(t, o)
      BY <2>4, <3>1, <3>2, OrderMoves
    <3>4. RefundWhole(t)
      <4>1. RefundAgain(t) => order'[o].status = order[o].status
        BY <2>1, <3>3 DEF Refunded, Order
      <4>2. RefundHeld(t) => order'[o].status \in {order[o].status, "review"}
        BY <2>1, <3>3, ZenonT(60) DEF Refunded, Order
      <4> QED BY <2>4, <3>3, <4>1, <4>2 DEF Refunded, RecordRefund
    <3>5. /\ Amount(RefundsOf(o, booked \cup {task[t].refund})) = Price
          /\ booked' = booked \cup {task[t].refund} /\ UNCHANGED payments
      BY <3>3, <3>4 DEF RefundWhole, Reversible, provider
    <3>6. RefundsOf(o, booked)' = RefundsOf(o, booked \cup {task[t].refund})
      BY <3>5 DEF RefundsOf
    <3> QED BY <3>5, <3>6
  <2> QED BY <2>3, <2>4
<1> QED BY <1>2, <1>3, <1>4 DEF RefundInv

LEMMA RefundAlways == Spec => [](TypeInv /\ PaymentInv /\ RefundInv)
<1>1. Init => PaymentInv
  BY DEF Init, PaymentInv, OnePayment, KeyKnown, Idle
<1>2. Init => RefundInv
  BY DEF Init, RefundInv, AppliedIsFinal, ReturnsBounded, RefundedWhole, NoOrderYet, Final
<1> QED BY <1>1, <1>2, PaymentStays, RefundStays, TypesAlways, PTL DEF Spec

\* A settled order is not touched but by a refund of it, and not by one that comes
\* after the whole price was returned.
LEMMA SettledOrderStays ==
  ASSUME TypeInv, PaymentInv, RefundInv, [Next]_vars, NEW o \in Orders, Settled(o)
  PROVE  order'[o].status \in {order[o].status, "refunded"}
<1>1. order[o] \in Order /\ order[o].status \in Final
  BY DEF TypeInv, TypeOK, RefundInv, AppliedIsFinal, Settled
<1>2. CASE Handled(o)
  <2>1. ~Checkout(o) /\ ~GiveUp(o)
    BY <1>1 DEF Checkout, Acceptable, GiveUp, Final
  <2>2. order'[o] = [order[o] EXCEPT !.receipt = "npd_attached"]
    BY <1>2, <2>1 DEF Handled
  <2> QED BY <1>1, <2>2 DEF Order
<1>3. ASSUME NEW t \in Tasks, task[t].order = o, task[t].pc = "refund", Refunded(t, o)
      PROVE  order'[o].status \in {order[o].status, "refunded"}
  <2>1. CASE RefundAgain(t)
    BY <1>1, <1>3, <2>1 DEF Refunded, Order
  <2>2. CASE RefundWhole(t)
    BY <1>1, <1>3, <2>2 DEF Refunded, Order
  <2>3. CASE RefundHeld(t)
    <3>1. /\ task[t].refund \in returned /\ task[t].refund \notin booked
          /\ payments[task[t].refund[1]].order = o
      BY <1>3, <2>3 DEF RefundHeld, TypeInv, Attached
    <3>2. order[o].status # "refunded"
      BY <3>1, NothingLeft
    <3>3. order[o].applied
      BY <1>1, <3>2 DEF RefundInv, AppliedIsFinal, Final
    <3>4. order'[o] = [order[o] EXCEPT !.status = order[o].status, !.receipt = Due(o)]
      BY <1>3, <2>3, <3>3 DEF Refunded
    <3> QED BY <1>1, <3>4 DEF Order
  <2> QED BY <1>3, <2>1, <2>2, <2>3 DEF Refunded, RecordRefund
<1> QED BY <1>2, <1>3, OrderMoves

\* Periods are written by a granted payment and by a whole refund only.
LEMMA PeriodMoves ==
  ASSUME TypeInv, [Next]_vars
  PROVE  \/ UNCHANGED period
         \/ \E t \in Tasks : /\ task[t].order \in Orders /\ ~Settled(task[t].order)
                             /\ Grantable(task[t].order)
                             /\ period' = PaidPeriods(task[t].order)
         \/ \E t \in Tasks : /\ task[t].order \in Orders
                             /\ period' = RevokedPeriods(task[t].order)
<1>1. ASSUME NEW t \in Tasks, Settle(t), ~Ignore(t)
      PROVE  UNCHANGED period \/ /\ ~Settled(task[t].order) /\ Grantable(task[t].order)
                                 /\ task[t].order \in Orders
                                 /\ period' = PaidPeriods(task[t].order)
  <2>1. CASE SettleGranted(t)
    BY <1>1, <2>1, AnswersOne DEF SettleGranted
  <2>2. CASE ~SettleGranted(t)
    BY <1>1, <2>2 DEF Settle, Mismatch, SettlePending, SettleCanceled, SettleOdd, SettleTest,
       SettleHeld
  <2> QED BY <2>1, <2>2
<1>2. ASSUME NEW t \in Tasks, RecordRefund(t)
      PROVE  UNCHANGED period \/ /\ task[t].order \in Orders
                                 /\ period' = RevokedPeriods(task[t].order)
  <2>1. task[t].order \in Orders
    BY <1>2, RefundsOne
  <2> QED BY <1>2, <2>1 DEF RecordRefund, RefundAgain, RefundWhole, RefundHeld
<1>3. ASSUME NEW o \in Orders, Checkout(o) \/ GiveUp(o) \/ AttachReceipt(o)
      PROVE  UNCHANGED period
  BY <1>3 DEF Checkout, GiveUp, AttachReceipt
<1> QED BY <1>1, <1>2, <1>3, StepKinds

LEMMA SettledPeriodStays ==
  ASSUME TypeInv, [Next]_vars, NEW o \in Orders, Settled(o)
  PROVE  /\ period'[o].start = period[o].start
         /\ period'[o].end = period[o].end
         /\ period[o].state = "revoked" => period'[o].state = "revoked"
<1>1. period \in [Orders -> Period] /\ period[o] \in Period
  BY DEF TypeInv, TypeOK
<1>2. CASE UNCHANGED period
  BY <1>2
<1>3. ASSUME NEW x \in Orders, ~Settled(x), period' = PaidPeriods(x)
      PROVE  /\ period'[o].start = period[o].start
             /\ period'[o].end = period[o].end
             /\ period'[o].state = period[o].state
  <2>1. x # o
    BY <1>3
  <2>2. CASE quote[x].kind = "upgrade"
    <3>1. \/ period'[o] = period[o]
          \/ period'[o] = [period[o] EXCEPT !.plan = quote[x].plan]
      BY <1>1, <1>3, <2>2 DEF PaidPeriods
    <3> QED BY <1>1, <3>1 DEF Period
  <2>3. CASE quote[x].kind # "upgrade"
    <3>1. period'[o] = period[o]
      BY <1>1, <1>3, <2>1, <2>3 DEF PaidPeriods
    <3> QED BY <3>1
  <2> QED BY <2>2, <2>3
<1>4. ASSUME NEW x \in Orders, period' = RevokedPeriods(x)
      PROVE  /\ period'[o].start = period[o].start
             /\ period'[o].end = period[o].end
             /\ period[o].state = "revoked" => period'[o].state = "revoked"
  <2>1. \/ period'[o] = period[o]
        \/ period'[o] = [period[o] EXCEPT
                           !.state = IF period[o].state = "valid" THEN "revoked"
                                     ELSE period[o].state]
    BY <1>1, <1>4 DEF RevokedPeriods
  <2> QED BY <1>1, <2>1 DEF Period
<1> QED BY <1>2, <1>3, <1>4, PeriodMoves

\* What was settled stays settled: no answer that comes late, no second refund and
\* no later purchase moves a settled order or the days of its period; only a
\* refund ends them.
THEOREM SettledForGood == Spec => SettledStays
<1>1. ASSUME TypeInv, PaymentInv, RefundInv, [Next]_vars
      PROVE  \A o \in Orders : Settled(o) =>
               /\ order'[o].status \in {order[o].status, "refunded"}
               /\ period[o].state # "none" =>
                    /\ period'[o].start = period[o].start
                    /\ period'[o].end = period[o].end
                    /\ period[o].state = "revoked" => period'[o].state = "revoked"
  BY <1>1, SettledOrderStays, SettledPeriodStays
<1> QED BY <1>1, RefundAlways, PTL DEF Spec, SettledStays

-----------------------------------------------------------------------------
(* Verified captures of a shop with receipts by hand.                      *)

\* A booked refund is of an order whose capture is known.
BookedCaptured == \A r \in booked : payments[r[1]].order \in captured

\* An order whose capture is known is settled or in the hands of a human.
CaptureBooked == shop = "npd" => \A o \in captured : order[o].status \in Final \cup {"review"}

CaptureInv == BookedCaptured /\ CaptureBooked /\ ReceiptsFollowMoney

\* The guard against delayed answers: a captured order has its receipt due.
LEMMA CaptureStands ==
  ASSUME TypeInv, PaymentInv, RefundInv, CaptureInv, [Next]_vars, shop = "npd",
         NEW o \in captured
  PROVE  order'[o].status \in Final \cup {"review"}
<1>1. /\ o \in Orders /\ order[o] \in Order /\ order[o].receipt # "none"
      /\ order[o].status \in Final \cup {"review"}
  BY DEF TypeInv, TypeOK, CaptureInv, CaptureBooked, ReceiptsFollowMoney
<1>2. CASE Handled(o)
  <2>1. ~Checkout(o) /\ ~GiveUp(o)
    BY <1>1 DEF Checkout, Acceptable, GiveUp, Final
  <2>2. order'[o] = [order[o] EXCEPT !.receipt = "npd_attached"]
    BY <1>2, <2>1 DEF Handled
  <2> QED BY <1>1, <2>2 DEF Order
<1>3. ASSUME NEW t \in Tasks, task[t].order = o, Answers(t, o)
      PROVE  order'[o].status \in Final \cup {"review"}
  <2>1. ~SettlePending(t) /\ ~SettleCanceled(t)
    BY <1>1, <1>3 DEF SettlePending, SettleCanceled, Delayed
  <2>2. CASE Mismatch(t) \/ SettleOdd(t) \/ SettleHeld(t)
    <3>1. order'[o].status = "review"
      BY <1>1, <1>3, <2>2, ZenonT(60) DEF Answers, Order
    <3> QED BY <3>1
  <2>3. CASE SettleTest(t) \/ SettleGranted(t)
    <3>1. order'[o].status \in {"test_succeeded", "succeeded"}
      BY <1>1, <1>3, <2>3, ZenonT(60) DEF Answers, Order
    <3> QED BY <3>1 DEF Final
  <2> QED BY <1>3, <2>1, <2>2, <2>3 DEF Answers, Settle
<1>4. ASSUME NEW t \in Tasks, task[t].order = o, Refunded(t, o)
      PROVE  order'[o].status \in Final \cup {"review"}
  <2>1. order'[o].status \in {order[o].status, "review", "refunded"}
    <3>1. CASE RefundAgain(t)
      BY <1>1, <1>4, <3>1 DEF Refunded, Order
    <3>2. CASE RefundWhole(t)
      BY <1>1, <1>4, <3>2 DEF Refunded, Order
    <3>3. CASE RefundHeld(t)
      BY <1>1, <1>4, <3>3 DEF Refunded, Order
    <3> QED BY <1>4, <3>1, <3>2, <3>3 DEF Refunded, RecordRefund
  <2> QED BY <1>1, <2>1 DEF Final
<1> QED BY <1>1, <1>2, <1>3, <1>4, OrderMoves


LEMMA CaptureStays ==
  ASSUME TypeInv, PaymentInv, RefundInv, CaptureInv, [Next]_vars
  PROVE  CaptureInv'
<1>1. /\ UNCHANGED shop /\ booked \subseteq returned
      /\ \A r \in booked : r[1] \in DOMAIN payments
      /\ \A p \in DOMAIN payments : payments'[p].order = payments[p].order
  BY StepKinds, PaymentsGrow DEF TypeInv, TypeOK, Attached
<1>2. BookedCaptured' /\ CaptureBooked'
  <2>1. ASSUME captured \subseteq captured', UNCHANGED booked PROVE BookedCaptured'
    BY <1>1, <2>1 DEF CaptureInv, BookedCaptured
  <2>2. ASSUME captured' = captured PROVE CaptureBooked'
    BY <1>1, <2>2, CaptureStands DEF CaptureBooked
  <2>3. ASSUME NEW t \in Tasks, Settle(t), ~Ignore(t) PROVE BookedCaptured' /\ CaptureBooked'
    <3> DEFINE o == task[t].order
    <3>1. order[o] \in Order /\ Answers(t, o)
      BY <2>3, AnswersOne DEF TypeInv, TypeOK
    <3>2. UNCHANGED booked
      BY <2>3 DEF Settle, Mismatch, SettlePending, SettleCanceled, SettleOdd, SettleTest,
         SettleHeld, SettleGranted
    <3>3. CASE Mismatch(t) \/ SettlePending(t) \/ SettleCanceled(t) \/ SettleOdd(t)
      <4>1. UNCHANGED captured
        BY <3>3 DEF Mismatch, SettlePending, SettleCanceled, SettleOdd, history
      <4> QED BY <2>1, <2>2, <3>2, <4>1
    <3>4. CASE SettleTest(t) \/ SettleHeld(t) \/ SettleGranted(t)
      <4>1. captured' = captured \cup {o}
        BY <3>4 DEF SettleTest, SettleHeld, SettleGranted
      <4>2. order'[o].status \in Final \cup {"review"}
        <5>1. order'[o].status \in {"test_succeeded", "succeeded", "review"}
          BY <3>1, <3>4 DEF Answers, Order
        <5> QED BY <5>1 DEF Final
      <4> QED BY <1>1, <2>1, <3>2, <4>1, <4>2, CaptureStands DEF CaptureBooked
    <3> QED BY <2>3, <3>3, <3>4 DEF Settle
  <2>4. ASSUME NEW t \in Tasks, RecordRefund(t) PROVE BookedCaptured' /\ CaptureBooked'
    <3> DEFINE o == task[t].order
    <3>1. /\ order[o] \in Order /\ Refunded(t, o) /\ o \in Orders
          /\ task[t].refund \in returned
          /\ payments[task[t].refund[1]].order = o
          /\ task[t].refund[1] \in DOMAIN payments
      BY <2>4, RefundsOne DEF TypeInv, TypeOK, Attached
    <3>2. /\ captured' = captured \cup {o}
          /\ booked' \subseteq booked \cup {task[t].refund}
      BY <2>4 DEF RecordRefund, RefundAgain, RefundWhole, RefundHeld
    <3>3. BookedCaptured'
      BY <1>1, <3>1, <3>2 DEF CaptureInv, BookedCaptured
    <3>4. ASSUME shop = "npd" PROVE order'[o].status \in Final \cup {"review"}
      <4>1. CASE RefundAgain(t)
        <5>1. o \in captured
          BY <3>1, <4>1 DEF RefundAgain, CaptureInv, BookedCaptured
        <5> QED BY <3>4, <5>1, CaptureStands
      <4>2. CASE RefundWhole(t)
        <5>1. order'[o].status = "refunded"
          BY <3>1, <4>2 DEF Refunded, Order
        <5> QED BY <5>1 DEF Final
      <4>3. CASE RefundHeld(t)
        <5>1. order'[o].status = IF order[o].applied THEN order[o].status ELSE "review"
          BY <3>1, <4>3 DEF Refunded, Order
        <5> QED BY <3>1, <5>1 DEF RefundInv, AppliedIsFinal
      <4> QED BY <2>4, <4>1, <4>2, <4>3 DEF RecordRefund
    <3> QED BY <1>1, <3>2, <3>3, <3>4, CaptureStands DEF CaptureBooked
  <2>5. ASSUME NEW o \in Orders, Checkout(o) \/ GiveUp(o) \/ AttachReceipt(o),
               UNCHANGED captured
        PROVE  BookedCaptured' /\ CaptureBooked'
    <3>1. UNCHANGED booked
      BY <2>5 DEF Checkout, GiveUp, AttachReceipt
    <3> QED BY <2>1, <2>2, <2>5, <3>1
  <2> QED BY <2>1, <2>2, <2>3, <2>4, <2>5, StepKinds
<1> QED BY <1>2, ReceiptsStay DEF CaptureInv

\* "A delayed pending snapshot must not erase previously verified capture": where
\* captures are followed by receipts by hand, no answer, however late, opens or
\* cancels an order whose capture is known.
THEOREM CaptureIsKept == Spec /\ shop = "npd" => CaptureKept
<1>1. Init => CaptureInv
  BY DEF Init, CaptureInv, BookedCaptured, CaptureBooked, ReceiptsFollowMoney, NoOrderYet
<1>2. ASSUME TypeInv, PaymentInv, RefundInv, CaptureInv, [Next]_vars, shop = "npd"
      PROVE  \A o \in captured : order'[o].status \in Final \cup {"review"}
  BY <1>2, CaptureStands
<1>3. [Next]_vars => UNCHANGED shop
  BY StepKinds
<1>4. shop = "npd" /\ UNCHANGED shop => (shop = "npd")'
  OBVIOUS
<1> QED BY <1>1, <1>2, <1>3, <1>4, CaptureStays, RefundAlways, PTL DEF Spec, CaptureKept


-----------------------------------------------------------------------------
(* Access and its reasons.                                                 *)

\* What a user and an account show of periods and of rights: a period that has
\* begun, with the right kept aside, or the right itself.
Covered(u, a, per, r, n) ==
  IF a.entitled
  THEN /\ \E o \in Orders : /\ per[o].state = "valid" /\ per[o].start <= n
                            /\ u.until = per[o].end /\ u.limit = per[o].plan
       /\ a.legacy.limit = 0 /\ a.legacy.until = r
  ELSE u.limit = 0 /\ u.until = r

AccessBooks == Covered(user, account, period, right, now)

\* A synchronization covers what it gives, whatever the periods have become.
LEMMA SyncCovers ==
  ASSUME TypeInv, AccessBooks, NEW per \in [Orders -> Period], Disjoint(per),
         NEW acc \in Account, acc.entitled = account.entitled, acc.legacy = account.legacy
  PROVE  /\ Covered(SyncedUser(per, acc), SyncedAccount(per, acc), per, right, now)
         /\ InForce(per) = {} => /\ SyncedUser(per, acc).limit = 0
                                 /\ SyncedUser(per, acc).until = right
                                 /\ ~SyncedAccount(per, acc).entitled
<1>1. /\ user \in User /\ account \in Account /\ now \in Nat
  BY DEF TypeInv, TypeOK
<1>2. CASE InForce(per) # {}
  <2> DEFINE l == Latest(per)
  <2>1. l \in Orders /\ per[l].state = "valid" /\ per[l].start <= now
    BY <1>1, <1>2, OneInForce DEF InForce
  <2>2. SyncedUser(per, acc) = [user EXCEPT !.until = per[l].end, !.limit = per[l].plan]
    BY <1>2 DEF SyncedUser
  <2>3. SyncedUser(per, acc).until = per[l].end /\ SyncedUser(per, acc).limit = per[l].plan
    BY <1>1, <2>2 DEF User
  <2>4. /\ SyncedAccount(per, acc).entitled
        /\ SyncedAccount(per, acc).legacy =
             IF acc.entitled THEN acc.legacy ELSE [until |-> user.until, limit |-> user.limit]
    BY <1>1, <1>2 DEF SyncedAccount, Account
  <2>5. /\ SyncedAccount(per, acc).legacy.limit = 0
        /\ SyncedAccount(per, acc).legacy.until = right
    <3>1. CASE acc.entitled
      BY <2>4, <3>1 DEF AccessBooks, Covered
    <3>2. CASE ~acc.entitled
      BY <2>4, <3>2 DEF AccessBooks, Covered
    <3> QED BY <3>1, <3>2
  <2> HIDE DEF l
  <2> QED BY <1>2, <2>1, <2>3, <2>4, <2>5 DEF Covered
<1>3. CASE InForce(per) = {}
  <2>1. ~SyncedAccount(per, acc).entitled
    BY <1>1, <1>3 DEF SyncedAccount, Account
  <2>2. SyncedUser(per, acc).limit = 0 /\ SyncedUser(per, acc).until = right
    <3>1. CASE acc.entitled
      <4>1. SyncedUser(per, acc) =
              [user EXCEPT !.until = acc.legacy.until, !.limit = acc.legacy.limit]
        BY <1>3, <3>1 DEF SyncedUser
      <4>2. acc.legacy.limit = 0 /\ acc.legacy.until = right
        BY <3>1 DEF AccessBooks, Covered
      <4> QED BY <1>1, <4>1, <4>2 DEF User
    <3>2. CASE ~acc.entitled
      <4>1. SyncedUser(per, acc) = user
        BY <1>3, <3>2 DEF SyncedUser
      <4> QED BY <3>2, <4>1 DEF AccessBooks, Covered
    <3> QED BY <3>1, <3>2
  <2> QED BY <1>3, <2>1, <2>2 DEF Covered
<1> QED BY <1>2, <1>3

LEMMA AccessStays ==
  ASSUME TypeInv, TypeInv', AccessBooks, [Next]_vars
  PROVE  AccessBooks'
<1>1. /\ period \in [Orders -> Period] /\ Disjoint(period)
      /\ user \in User /\ account \in Account /\ now \in Nat /\ right \in Nat
  BY DEF TypeInv, TypeOK, PeriodsDisjoint, Disjoint
<1>2. ASSUME UNCHANGED <<period, right, now>>, user'.until = user.until,
             user'.limit = user.limit, account'.entitled = account.entitled,
             account'.legacy = account.legacy
      PROVE  AccessBooks'
  BY <1>2 DEF AccessBooks, Covered
<1>3. ASSUME NEW per \in [Orders -> Period], Disjoint(per), period' = per,
             NEW acc \in Account, acc.entitled = account.entitled,
             acc.legacy = account.legacy, Sync(per, acc), UNCHANGED <<right, now>>
      PROVE  AccessBooks'
  BY <1>3, SyncCovers DEF Sync, AccessBooks, Covered
<1>4. ASSUME NEW t \in Tasks, SettleGranted(t) PROVE AccessBooks'
  <2> DEFINE o == task[t].order
             acc == [account EXCEPT !.version = @ + 1, !.scheduled = <<>>]
  <2>1. o \in Orders
    BY <1>4 DEF SettleGranted, Answered, TypeInv, Attached
  <2>2. PaidPeriods(o) \in [Orders -> Period] /\ Disjoint(PaidPeriods(o))
    BY <1>1, <1>4, <2>1, PaidIsDisjoint DEF SettleGranted, TypeInv
  <2>3. acc \in Account /\ acc.entitled = account.entitled /\ acc.legacy = account.legacy
    <3>1. account.version + 1 \in Nat /\ <<>> \in Schedules
      BY <1>1 DEF Account, Schedules
    <3>2. \A v \in Nat : [account EXCEPT !.version = v, !.scheduled = <<>>] \in Account
      BY <1>1, <3>1 DEF Account
    <3> QED BY <1>1, <3>1, <3>2 DEF Account
  <2>4. Sync(PaidPeriods(o), acc) /\ period' = PaidPeriods(o) /\ UNCHANGED <<right, now>>
    BY <1>4 DEF SettleGranted, clock
  <2> HIDE DEF acc
  <2> QED BY <1>3, <2>2, <2>3, <2>4
<1>5. ASSUME NEW v \in Nat, NEW b \in BOOLEAN
      PROVE  LET acc == [account EXCEPT !.version = v, !.review = b]
             IN  /\ acc \in Account /\ acc.entitled = account.entitled
                 /\ acc.legacy = account.legacy
  BY <1>1 DEF Account
<1>6. account.version + 1 \in Nat /\ account.review \in BOOLEAN
  BY <1>1 DEF Account
<1>7. ASSUME NEW t \in Tasks, RefundWhole(t) PROVE AccessBooks'
  <2> DEFINE o == task[t].order
             acc == [account EXCEPT !.version = @ + 1]
  <2>1. o \in Orders
    BY <1>7 DEF RefundWhole, TypeInv, Attached
  <2>2. RevokedPeriods(o) \in [Orders -> Period] /\ Disjoint(RevokedPeriods(o))
    BY <1>1, <1>7, <2>1, RevokedIsDisjoint DEF TypeInv
  <2>3. acc \in Account /\ acc.entitled = account.entitled /\ acc.legacy = account.legacy
    <3>1. \A v \in Nat : [account EXCEPT !.version = v] \in Account
      BY <1>1 DEF Account
    <3> QED BY <1>1, <1>6, <3>1 DEF Account
  <2>4. Sync(RevokedPeriods(o), acc) /\ period' = RevokedPeriods(o) /\ UNCHANGED <<right, now>>
    BY <1>7 DEF RefundWhole, clock
  <2> HIDE DEF acc
  <2> QED BY <1>3, <2>2, <2>3, <2>4
<1>8. ASSUME NEW t \in Tasks, RefundHeld(t) PROVE AccessBooks'
  <2> DEFINE acc == [account EXCEPT !.version = @ + 1, !.review = TRUE]
  <2>1. acc \in Account /\ acc.entitled = account.entitled /\ acc.legacy = account.legacy
    BY <1>5, <1>6
  <2>2. Sync(period, acc) /\ UNCHANGED <<period, right, now>>
    BY <1>8 DEF RefundHeld, clock
  <2> HIDE DEF acc
  <2> QED BY <1>1, <1>3, <2>1, <2>2
<1>9. CASE SyncUser
  BY <1>1, <1>3, <1>9 DEF SyncUser, clock, history
<1>10. CASE Tick
  <2>1. UNCHANGED <<period, right, user, account>> /\ now' = now + 1
    BY <1>10 DEF Tick, tables, history
  <2>2. \A o \in Orders : period[o].start \in Nat /\ (period[o].start <= now =>
                            period[o].start <= now')
    BY <1>1, <2>1 DEF Period
  <2> QED BY <2>1, <2>2 DEF AccessBooks, Covered
<1>11. ASSUME NEW limit, Unexpired(period) = {}, Extended(limit), UNCHANGED <<period, now>>,
              limit \in {0, SyncedUser(period, account).limit}
       PROVE  AccessBooks'
  <2>1. InForce(period) = {}
    <3> SUFFICES ASSUME NEW o \in InForce(period) PROVE FALSE
      OBVIOUS
    <3>1. o \in Unexpired(period)
      BY <1>1 DEF InForce, Unexpired, Period
    <3> QED BY <1>11, <3>1
  <2>2. /\ SyncedUser(period, account) \in User
        /\ SyncedAccount(period, account) \in Account
        /\ SyncedUser(period, account).limit = 0 /\ SyncedUser(period, account).until = right
        /\ ~SyncedAccount(period, account).entitled
    BY <1>1, <2>1, SyncTypes, SyncCovers
  <2>3. /\ user'.until = Later(right, now) + GrantDays /\ user'.limit = 0
        /\ right' = Later(right, now) + GrantDays
    BY <1>11, <2>2 DEF Extended, User
  <2>4. account'.entitled = SyncedAccount(period, account).entitled
    BY <1>11, <2>2 DEF Extended, Account
  <2> QED BY <2>2, <2>3, <2>4 DEF AccessBooks, Covered
<1>12. ASSUME NEW g \in Grants, Redeem(g) \/ Extend(g) PROVE AccessBooks'
  <2>1. /\ Unexpired(period) = {} /\ UNCHANGED <<period, now>>
        /\ Extended(0) \/ Extended(SyncedUser(period, account).limit)
    BY <1>12 DEF Redeem, Extend, clock
  <2> QED BY <1>11, <2>1
<1>13. ASSUME NEW t \in Tasks, AuditEnds(t) PROVE AccessBooks'
  <2>1. PICK u \in BOOLEAN : account' = [account EXCEPT !.review = @ \/ u
             \/ Amount(task[t].seen) > Amount(RefundsOf(task[t].order, booked))]
    BY <1>13 DEF AuditEnds
  <2>2. account'.entitled = account.entitled /\ account'.legacy = account.legacy
    BY <1>1, <2>1 DEF Account
  <2> QED BY <1>2, <1>13, <2>2 DEF AuditEnds, clock, history
<1>14. ASSUME NEW o \in Orders, Schedule(o) PROVE AccessBooks'
  <2>1. account'.entitled = account.entitled /\ account'.legacy = account.legacy
    BY <1>1, <1>14 DEF Schedule, Account
  <2> QED BY <1>2, <1>14, <2>1 DEF Schedule, clock, history
<1>15. CASE Block
  <2>1. user'.until = user.until /\ user'.limit = user.limit
    BY <1>1, <1>15 DEF Block, User
  <2> QED BY <1>2, <1>15, <2>1 DEF Block, clock, history
<1>16. CASE UNCHANGED <<user, account, period, right, now>>
  BY <1>2, <1>16
<1>17. ASSUME NEW t \in Tasks, TaskStep(t) PROVE AccessBooks'
  <2>1. \/ SettleGranted(t) \/ RefundWhole(t) \/ RefundHeld(t) \/ AuditEnds(t)
        \/ UNCHANGED <<user, account, period, right, now>>
    BY <1>17 DEF TaskStep, Ask, Settle, RecordRefund, Refresh, Audit, Notice, NoticeRefund,
       Get, Post, Ignore, Mismatch, SettlePending, SettleCanceled, SettleOdd, SettleTest,
       SettleHeld, RefundAgain, Abandon, tables, clock, history
  <2> QED BY <2>1, <1>4, <1>7, <1>8, <1>13, <1>16
<1>18. ASSUME NEW o \in Orders, OrderStep(o) PROVE AccessBooks'
  <2>1. Schedule(o) \/ UNCHANGED <<user, account, period, right, now>>
    BY <1>18 DEF OrderStep, Calculate, Expire, Checkout, GiveUp, AttachReceipt, Grow, tables,
       clock, history
  <2> QED BY <2>1, <1>14, <1>16
<1>19. CASE Provider
  BY <1>16, <1>19 DEF Provider, Decide, Return, tables, clock, history
<1> QED BY <1>9, <1>10, <1>12, <1>15, <1>16, <1>17, <1>18, <1>19
        DEF Next, vars, tables, clock, history

LEMMA AccessAlways == Spec => [](TypeInv /\ AccessBooks)
<1>1. Init => AccessBooks
  BY DEF Init, AccessBooks, Covered
<1> QED BY <1>1, AccessStays, TypesAlways, PTL DEF Spec

\* Access that lasts has its reason, whatever was bought, returned, redeemed or
\* extended in what order: a period in force and its plan, or the right that codes
\* and extensions gave.
THEOREM AccessHasReason == Spec => []AccessIsCovered
<1>1. ASSUME TypeInv, AccessBooks PROVE AccessIsCovered
  <2>1. now \in Nat /\ period \in [Orders -> Period] /\ user \in User
    BY <1>1 DEF TypeInv, TypeOK
  <2> QED BY <1>1, <2>1 DEF AccessBooks, Covered, AccessIsCovered, InForce, Period, User
<1> QED BY <1>1, AccessAlways, PTL

\* "Access by an earlier code is kept as a right of its own with its original
\* date": no purchase, refund or expiry loses or extends it.
THEOREM RightIsKept == Spec => []RightKept
<1>1. AccessBooks => RightKept
  BY DEF AccessBooks, Covered, RightKept
<1> QED BY <1>1, AccessAlways, PTL

=============================================================================
