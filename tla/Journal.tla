------------------------------ MODULE Journal ------------------------------
(***************************************************************************)
(* The journal of operations (app/core/operations.py, ErrorJournal): the   *)
(* emergencies any task logs are counted by group, and one task tells the  *)
(* administrators of them every ten seconds.  It checks the state of a     *)
(* delivery and then sends; what is logged meanwhile counts too.           *)
(***************************************************************************)
EXTENDS Integers, FiniteSets, FiniteSetsExt

CONSTANTS
  Groups,        \* keys: kinds of events
  Deliveries,    \* the groups that are about a delivery, which may be settled meanwhile
  Officers,      \* ADMIN_IDS
  Capacity,      \* groups that are kept
  PerMessage,    \* groups in one message
  Repeat,        \* the interval of a group, in ticks; a message takes less than a tick
  MaxEvents      \* bound of the model

ASSUME JournalAssumption ==
  /\ IsFiniteSet(Groups) /\ Deliveries \subseteq Groups /\ Officers # {}
  /\ {Capacity, PerMessage, Repeat} \subseteq Nat \ {0} /\ MaxEvents \in Nat

VARIABLES
  waiting,   \* pending: how many events of each group are to be told
  overflow,
  rest,      \* what is left of each group's interval since last_sent
  flush,     \* flush_alerts: the groups it has chosen, with the counts it has seen
  logged,    \* history: emergencies logged
  settled,   \* history: those told to everybody or found settled
  heard      \* history: what is left of the interval since each officer was told of each group, and
             \* whether his message reached everybody

journal == <<waiting, overflow, rest, flush, logged, settled, heard>>
NoFlush == [at |-> "idle", counts |-> [g \in Groups |-> 0], overflow |-> 0]

InitJournal ==
  /\ waiting = [g \in Groups |-> 0] /\ overflow = 0 /\ rest = [g \in Groups |-> 0]
  /\ flush = NoFlush /\ logged = 0 /\ settled = 0
  /\ heard = [left |-> [o \in Officers |-> [g \in Groups |-> 0]],
              all |-> [g \in Groups |-> TRUE]]

Total(f) == FoldSet(LAMBDA g, n : f[g] + n, 0, Groups)
Held == {g \in Groups : waiting[g] > 0}

Emit(g) ==
  /\ logged < MaxEvents /\ logged' = logged + 1
  /\ IF g \in Held \/ Cardinality(Held) < Capacity
     THEN waiting' = [waiting EXCEPT ![g] = @ + 1] /\ UNCHANGED overflow
     ELSE overflow' = overflow + 1 /\ UNCHANGED waiting
  /\ UNCHANGED <<rest, flush, settled, heard>>

\* Slip: a group is told of whenever something new is known of it.
RipeAtOnce(g) == g \in Held

Ripe(g) == g \in Held /\ rest[g] = 0

Select ==
  /\ flush.at = "idle" /\ (overflow > 0 \/ \E g \in Groups : Ripe(g))
  /\ \E chosen \in SUBSET {g \in Groups : Ripe(g)} :
       /\ Cardinality(chosen) = Min({PerMessage, Cardinality({g \in Groups : Ripe(g)})})
       /\ flush' = [NoFlush EXCEPT !.at = "chosen",
                      !.counts = [g \in Groups |-> IF g \in chosen THEN waiting[g] ELSE 0]]
  /\ UNCHANGED <<waiting, overflow, rest, logged, settled, heard>>

\* Deliveries that are settled are dropped, those that cannot be looked up wait.
Verify ==
  /\ flush.at = "chosen"
  /\ \E done, unread \in SUBSET {g \in Deliveries : flush.counts[g] > 0} :
       /\ done \cap unread = {}
       /\ LET left == [g \in Groups |-> IF g \in done \cup unread THEN 0 ELSE flush.counts[g]]
          IN flush' = IF Total(left) = 0 /\ overflow = 0 THEN NoFlush
                      ELSE [at |-> "sending", counts |-> left, overflow |-> overflow]
       /\ waiting' = [g \in Groups |-> IF g \in done THEN 0 ELSE waiting[g]]
       /\ settled' = settled + Total([g \in Groups |-> IF g \in done THEN waiting[g] ELSE 0])
  /\ UNCHANGED <<overflow, rest, logged, heard>>

\* Slip: a group that has been told of is done with.
RemainderNone(g) == IF flush.counts[g] > 0 THEN 0 ELSE waiting[g]

Remainder(g) == waiting[g] - flush.counts[g]

\* The message goes to each officer; only if all have it the counts go down.
Deliver ==
  /\ flush.at = "sending" /\ flush' = NoFlush
  /\ \E to \in SUBSET Officers :
       /\ heard' =
            [left |-> [o \in Officers |-> [g \in Groups |->
               IF o \in to /\ flush.counts[g] > 0 THEN Repeat ELSE heard.left[o][g]]],
             all |-> [g \in Groups |-> IF flush.counts[g] > 0 THEN to = Officers ELSE heard.all[g]]]
       /\ IF to = Officers
          THEN /\ waiting' = [g \in Groups |-> Remainder(g)]
               /\ rest' = [g \in Groups |-> IF flush.counts[g] > 0 THEN Repeat ELSE rest[g]]
               /\ overflow' = overflow - flush.overflow
               /\ settled' = settled + Total(flush.counts) + flush.overflow
          ELSE UNCHANGED <<waiting, rest, overflow, settled>>
  /\ UNCHANGED logged

Passing(time) == IF time = 0 THEN 0 ELSE time - 1

JournalTick ==
  /\ flush.at = "idle"
  /\ rest' = [g \in Groups |-> Passing(rest[g])]
  /\ heard' = [heard EXCEPT !.left =
       [o \in Officers |-> [g \in Groups |-> Passing(heard.left[o][g])]]]
  /\ UNCHANGED <<waiting, overflow, flush, logged, settled>>

JournalNext == Select \/ Verify \/ Deliver \/ JournalTick \/ \E g \in Groups : Emit(g)

JournalSpec == InitJournal /\ [][JournalNext]_journal

-----------------------------------------------------------------------------
\* Every emergency is told to all officers, found settled, or still counted:
\* those that are logged while a message is on its way, too many kinds of them
\* and messages that fail included (operations.py:132-169, 226-246).
EveryEventCounted == logged = settled + Total(waiting) + overflow

\* An officer is told again of a group within its interval only when the last
\* message about it has not reached everybody.
RepeatsSpaced ==
  [][\A o \in Officers, g \in Groups :
       flush.at = "sending" /\ flush.counts[g] > 0 /\ heard.left[o][g] > 0
         /\ heard'.left[o][g] = Repeat /\ flush' = NoFlush
       => ~heard.all[g]]_journal

\* An officer is never told again of a group within its interval
\* (docs/operations.md:42-44).
NotToldAgain ==
  [][\A o \in Officers, g \in Groups :
       flush.at = "sending" /\ flush.counts[g] > 0 /\ heard.left[o][g] > 0
         /\ flush' = NoFlush => heard'.left[o][g] = heard.left[o][g]]_journal
=============================================================================
