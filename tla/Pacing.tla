------------------------------ MODULE Pacing ------------------------------
(***************************************************************************)
(* The pace of messages to Telegram (app/core/runtime.py, wait_telegram):  *)
(* tasks that are too early sleep and ask again; the times of the chats    *)
(* are kept in a table of limited size.                                    *)
(***************************************************************************)
EXTENDS Integers, SequencesExt

CONSTANTS
  Senders, Chats,
  Spacing,    \* between two messages to anybody
  ChatGap,    \* between two to one chat
  TableSize,  \* of the table of chats
  MaxBatch    \* messages that one grant stands for

\* As many grants as the table has entries take longer than an entry matters.
ASSUME PacingAssumption ==
  /\ Spacing \in Nat \ {0} /\ ChatGap \in Nat /\ TableSize \in Nat \ {0}
  /\ MaxBatch \in Nat \ {0}
  /\ TableSize * Spacing >= ChatGap

\* Times are what is left of them: 0 is a time that has passed.
VARIABLES
  nextSend,
  table,   \* _chat_send: entries in the order of their last grants
  sender,  \* tasks: asleep for a time, to send a number of messages to a chat
  owed     \* what is left of the gap of each chat, and of the last spacing

pacing == <<nextSend, table, sender, owed>>
Awake == [asleep |-> FALSE, wake |-> 0, chat |-> "none", batch |-> 0]

InitPacing ==
  /\ nextSend = 0 /\ table = <<>>
  /\ sender = [s \in Senders |-> Awake]
  /\ owed = [chat |-> [c \in Chats |-> 0], all |-> 0]

LaterOf(a, b) == IF a > b THEN a ELSE b
Entries(c) == {i \in DOMAIN table : table[i].chat = c}
Entry(c) == CHOOSE i \in Entries(c) : TRUE
Delay(c) == LaterOf(nextSend, IF Entries(c) = {} THEN 0 ELSE table[Entry(c)].time)
Others(c) == IF Entries(c) = {} THEN table ELSE RemoveAt(table, Entry(c))

\* The table after a grant: the entries that were used longest ago leave first.
Kept(entries) ==
  IF Len(entries) > TableSize THEN SubSeq(entries, Len(entries) - TableSize + 1, Len(entries))
  ELSE entries

Grant(s, c, batch) ==
  /\ nextSend' = batch * Spacing
  /\ table' = Kept(Append(Others(c), [chat |-> c, time |-> ChatGap]))
  /\ sender' = [sender EXCEPT ![s] = Awake]
  /\ owed' = [chat |-> [owed.chat EXCEPT ![c] = ChatGap], all |-> batch * Spacing]

Sleep(s, c, batch) ==
  /\ sender' = [sender EXCEPT ![s] = [asleep |-> TRUE, wake |-> Delay(c), chat |-> c, batch |-> batch]]
  /\ UNCHANGED <<nextSend, table, owed>>

Try(s, c, batch) == IF Delay(c) = 0 THEN Grant(s, c, batch) ELSE Sleep(s, c, batch)

Send(s) ==
  /\ ~sender[s].asleep
  /\ \E c \in Chats, batch \in 1..MaxBatch : Try(s, c, batch)

\* Slip: a task that has slept does not ask again.
WakeAndGo(s) ==
  /\ sender[s].asleep /\ sender[s].wake = 0
  /\ Grant(s, sender[s].chat, sender[s].batch)

\* The loop: another task may have been faster.
Wake(s) ==
  /\ sender[s].asleep /\ sender[s].wake = 0
  /\ Try(s, sender[s].chat, sender[s].batch)

Shorter(time) == IF time = 0 THEN 0 ELSE time - 1

PaceTick ==
  /\ nextSend' = Shorter(nextSend)
  /\ table' = [i \in DOMAIN table |-> [table[i] EXCEPT !.time = Shorter(@)]]
  /\ sender' = [s \in Senders |-> [sender[s] EXCEPT !.wake = Shorter(@)]]
  /\ owed' = [chat |-> [c \in Chats |-> Shorter(owed.chat[c])], all |-> Shorter(owed.all)]

PacingNext == PaceTick \/ \E s \in Senders : Send(s) \/ Wake(s)

PacingSpec == InitPacing /\ [][PacingNext]_pacing

-----------------------------------------------------------------------------
\* Two messages to one chat are a chat's gap apart and any two the spacing of
\* those before, however many tasks wake together, and though entries are
\* dropped from the table (runtime.py:18-33).
PaceKept ==
  [][\A c \in Chats :
       \/ owed'.chat[c] > owed.chat[c]
       \/ \E s \in Senders : sender[s].chat = c /\ sender[s].asleep /\ ~sender'[s].asleep
       => owed.all = 0 /\ owed.chat[c] = 0]_pacing
=============================================================================
