----------------------------- MODULE Rotation -----------------------------
(***************************************************************************)
(* Whose turn it is (app/core/scheduler.py, process_loop): a cursor that   *)
(* goes round the channels hands out the free places of the editorial      *)
(* desk.  The scan awaits the database for every channel, so channels get  *)
(* ready, busy or quiet, and places fall free, in the midst of it.         *)
(***************************************************************************)
EXTENDS Integers, FiniteSets

CONSTANTS
  Channels,  \* ids of channels that are not paused
  Places

ASSUME RotationAssumption == Channels \subseteq Nat /\ Places \in Nat \ {0}

VARIABLES
  ready,   \* channels with a new post that may be processed now
  locked,  \* channels whose lock another task holds
  active,  \* channels whose post is being processed
  cursor,  \* the channel that got a place last
  scan,    \* channels the present scan has still to look at
  from,    \* the cursor this scan began with
  passed   \* how often others have got a place while a channel could have had one

rotating == <<ready, locked, active, cursor, scan, from, passed>>

InitRotation ==
  /\ ready = {} /\ locked = {} /\ active = {} /\ cursor = 0
  /\ scan = {} /\ from = 0
  /\ passed = [c \in Channels |-> [d \in Channels |-> 0]]

Free == Cardinality(active) < Places
Could(c) == c \in ready /\ c \notin locked /\ c \notin active

\* The count of a channel starts anew when it cannot have a place.
Counted(got) ==
  passed' = [c \in Channels |->
    IF ~(Could(c) /\ c \in ready' /\ c \notin locked' /\ c \notin active')
    THEN [d \in Channels |-> 0]
    ELSE [d \in Channels |-> IF d \in got /\ passed[c][d] < 2 THEN passed[c][d] + 1 ELSE passed[c][d]]]

\* Posts come, are deferred, expire; windows open and close; access is lost.
Turn(c) ==
  /\ ready' = IF c \in ready THEN ready \ {c} ELSE ready \cup {c}
  /\ UNCHANGED <<locked, active, cursor, scan, from>> /\ Counted({})

\* A delivery takes and leaves the lock of a channel.
Lock(c) ==
  /\ c \notin active
  /\ locked' = IF c \in locked THEN locked \ {c} ELSE locked \cup {c}
  /\ UNCHANGED <<ready, active, cursor, scan, from>> /\ Counted({})

\* Slip: every scan begins with the first channel.
AheadFromFirst(start, c, d) == c < d

\* ORDER BY (id<=cursor),id
Ahead(start, c, d) ==
  (c > start /\ d <= start) \/ ((c > start) = (d > start) /\ c < d)

First == CHOOSE c \in scan : \A d \in scan \ {c} : Ahead(from, c, d)

BeginScan ==
  /\ scan = {} /\ Free
  /\ scan' = Channels /\ from' = cursor
  /\ UNCHANGED <<ready, locked, active, cursor>> /\ Counted({})

Look ==
  /\ scan # {} /\ UNCHANGED <<locked, from>>
  /\ IF Could(First)
     THEN /\ active' = active \cup {First} /\ cursor' = First
          /\ scan' = IF Cardinality(active) + 1 = Places THEN {} ELSE scan \ {First}
          /\ ready' \in {ready, ready \ {First}}
          /\ Counted({First})
     ELSE scan' = scan \ {First} /\ UNCHANGED <<ready, active, cursor>> /\ Counted({})

\* The database cannot be asked: the loop tries again a while later.
ScanFails ==
  /\ scan # {} /\ scan' = {}
  /\ UNCHANGED <<ready, locked, active, cursor, from>> /\ Counted({})

\* Tasks that have ended are put away between two scans.
Done(c) ==
  /\ c \in active /\ scan = {} /\ active' = active \ {c}
  /\ UNCHANGED <<ready, locked, cursor, scan, from>> /\ Counted({})

RotationNext ==
  \/ \E c \in Channels : Turn(c) \/ Lock(c) \/ Done(c)
  \/ BeginScan \/ Look \/ ScanFails

RotationSpec == InitRotation /\ [][RotationNext]_rotating

-----------------------------------------------------------------------------
\* No channel gets a second place while another could have had its first: a
\* channel waits for at most one turn of each of the others, however slow they
\* are and whenever they get ready (scheduler.py:795-845).
RoundRobin == \A c, d \in Channels : passed[c][d] <= 1
=============================================================================
