------------------------------- MODULE Intake -------------------------------
(***************************************************************************)
(* Reading a source into posts (poll_source, poll_channel): the page is    *)
(* read over the network, then one transaction compares the source with    *)
(* what the reader saw of it, inserts the rows and moves the cursor.       *)
(*                                                                         *)
(* Readers are the tasks that may read the same source at once: one per    *)
(* process, and two processes overlap when the process guard breaks.       *)
(***************************************************************************)
EXTENDS NewsPosts

CONSTANTS Readers, NoItem

ASSUME IntakeAssumption == NoItem \notin Items

VARIABLES
  source,  \* [id, cursor]; the id changes when it is deleted and added
  cache,   \* the page kept for a minute, far less than a tick
  reader,  \* the local state of each reader
  shown,   \* history: items on pages whose cursor was committed
  taken,   \* history: items that have had a row
  passed   \* history: items a policy passed over: the first page, realtime

intake == <<source, cache, reader, shown, taken, passed>>

NoPage == [at |-> 0, items |-> {}, raw |-> [i \in Items |-> 1]]
Resting == [pc |-> "idle", items |-> {}, raw |-> NoPage.raw, id |-> 0, cursor |-> NoItem]

InitIntake ==
  /\ source = [id |-> 1, cursor |-> NoItem]
  /\ cache = NoPage
  /\ reader = [r \in Readers |-> Resting]
  /\ shown = {} /\ taken = {} /\ passed = {}

-----------------------------------------------------------------------------
(* poll_channel and fetch_source: a paused channel is not read, and the    *)
(* same page serves every reader for a minute, less than a tick.  Only     *)
(* what is due by then is looked at.                                       *)

\* Slip: an announced item counts before its hour has come.
AnnouncedDue(i) == TRUE

Due(i) == ~Dated(i) \/ date[i] <= clock

Fetch(r) ==
  /\ reader[r].pc = "idle" /\ ~channel.paused
  /\ \/ cache.at = clock /\ UNCHANGED cache
     \/ cache' = [at |-> clock, items |-> page, raw |-> raw]
  /\ reader' = [reader EXCEPT ![r] =
       [pc |-> "fetched", items |-> {i \in cache'.items : Due(i)}, raw |-> cache'.raw,
        id |-> source.id, cursor |-> source.cursor]]
  /\ UNCHANGED <<news, source, shown, taken, passed>>

\* The page cannot be read, forty-five seconds pass, or the process stops.
Abandon(r) ==
  /\ reader[r].pc = "fetched"
  /\ reader' = [reader EXCEPT ![r] = Resting]
  /\ UNCHANGED <<news, source, cache, shown, taken, passed>>

-----------------------------------------------------------------------------
(* The transaction of poll_source.                                         *)

Newest(items) == CHOOSE i \in items : \A j \in items \ {i} : Before(j, i)

\* Slip: when the cursor has left the page only its newest items are read.
PickNewestOnly(items, cursor) ==
  IF items = {} THEN {}
  ELSE IF cursor \in items THEN {i \in items : Before(cursor, i)}
  ELSE {Newest(items)}

\* _pick_new.
PickNew(items, cursor) ==
  IF items = {} THEN {}
  ELSE IF cursor = NoItem THEN {Newest(items)}
  ELSE IF cursor \in items THEN {i \in items : Before(cursor, i)}
  ELSE items

\* Slip: the row of an item is not looked up before it is inserted.
KnownForgotten(i) == FALSE

Known(i) == posts[i].status # "none"

\* The row of the source the reader saw is still the row there is.
SameSource(r) ==
  source.id = reader[r].id /\ source.cursor = reader[r].cursor

Commit(r) ==
  /\ reader[r].pc = "fetched"
  /\ reader' = [reader EXCEPT ![r] = Resting]
  /\ IF ~channel.paused /\ SameSource(r)
     THEN LET eligible == reader[r].items
              fresh == PickNew(eligible, reader[r].cursor)
              insert == {i \in fresh : Timely(i) /\ ~Known(i)}
          IN /\ posts' = [i \in Items |-> IF i \in insert THEN Taken(i, reader[r].raw[i])
                                                         ELSE posts[i]]
             /\ source' = IF eligible = {} THEN source
                          ELSE [source EXCEPT !.cursor = Newest(eligible)]
             /\ shown' = shown \cup eligible
             /\ taken' = taken \cup {i \in fresh : i \in insert \/ Known(i)}
             /\ passed' = passed
                  \cup (IF reader[r].cursor = NoItem THEN eligible \ fresh ELSE {})
                  \cup {i \in fresh : ~Timely(i)}
     ELSE UNCHANGED <<posts, source, shown, taken, passed>>
  /\ UNCHANGED <<clock, settings, feed, digests, aired, cache>>

-----------------------------------------------------------------------------
(* The owner's list of sources.                                            *)

\* delete_source and add_source: a new row, without a cursor.
ReplaceSource ==
  /\ "source" \in Moves /\ changes < MaxChanges
  /\ source' = [id |-> source.id + 1, cursor |-> NoItem]
  /\ changes' = changes + 1
  /\ UNCHANGED <<clock, channel, recheck, feed, posts, digests, aired, cache, reader,
                 shown, taken, passed>>

ReadNews ==
  \/ ReplaceSource
  \/ \E r \in Readers : Fetch(r) \/ Abandon(r) \/ Commit(r)

\* Reading by itself, beside the source, the clock and the owner.
IntakeSpec ==
  /\ Init /\ InitIntake
  /\ [][ReadNews \/ (World /\ UNCHANGED intake)]_<<news, intake>>

IntakeOK ==
  /\ source \in [id : Nat, cursor : Items \cup {NoItem}]
  /\ cache \in [at : 0..MaxTime, items : SUBSET Items, raw : [Items -> 1..2]]
  /\ reader \in [Readers -> [pc : {"idle", "fetched"}, items : SUBSET Items,
                             raw : [Items -> 1..2], id : Nat, cursor : Items \cup {NoItem}]]
  /\ shown \subseteq Items /\ taken \subseteq Items /\ passed \subseteq Items

IntakeTypeOK == NewsOK /\ IntakeOK

\* Every dated item that a committed reading found due has been taken, except
\* what appeared behind newer news and what a policy passed over: an outage, a
\* page that lost the cursor, an announcement with a future date, a second
\* reader or a page read from the cache loses no story.
NothingLost == shown \ (Undated \cup late \cup passed) \subseteq taken

\* Whatever a reader held and waited for, the rows it makes are rows Arrive
\* makes: Newsroom may take the readers for that action.
ReadsArrive ==
  [][\A i \in Items : reader # reader' /\ posts[i] # posts'[i] =>
       /\ posts[i].status = "none" /\ date[i] # NotYet /\ (Dated(i) => date[i] <= clock)
       /\ ~channel.paused /\ Timely(i)
       /\ \E revision \in 1..raw[i] : posts'[i] = Taken(i, revision)]_<<news, intake>>
=============================================================================
