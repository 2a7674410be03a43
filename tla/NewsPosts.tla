----------------------------- MODULE NewsPosts -----------------------------
(***************************************************************************)
(* The news of one channel: what its source shows, the rows of posts, the  *)
(* settings, the clock.  Intake, Editing and Digests work on this state;   *)
(* Newsroom composes them.                                                 *)
(*                                                                         *)
(* The sending of a post is one step here: Delivery models what it is made *)
(* of.  The clock counts in hours of freshness: a realtime channel takes   *)
(* what carries the current tick, others what is at most KeepNews older.   *)
(***************************************************************************)
EXTENDS Integers, Sequences, FiniteSets, FiniteSetsExt

CONSTANTS
  Items,      \* what the source publishes, numbered in the order it appears
  Undated,    \* the items whose date cannot be read
  Bare,       \* the items without media
  Similar,    \* pairs of items with one fingerprint
  Editions,   \* settings of the content: [quality, strict]; strict: media_only
  Starts,     \* the settings the channel may begin with
  Skews,      \* the date of an item, relative to the moment it appears
  Windows,    \* is the working window open?  the values the hours give
  KeepNews, KeepRows, DayLength,
  Moves,      \* bound of the model: what the owner does in this instance
  MaxTime, MaxChanges

ASSUME NewsAssumption ==
  /\ IsFiniteSet(Items) /\ Items = 1..Cardinality(Items) /\ 1 \in Items
  /\ Undated \cup Bare \subseteq Items
  /\ Skews \subseteq {-1, 0, 1} /\ Windows \subseteq BOOLEAN
  /\ KeepNews \in Nat /\ KeepRows \in Nat /\ KeepNews <= KeepRows
  /\ DayLength \in Nat \ {0} /\ MaxTime \in Nat \ {0} /\ MaxChanges \in Nat

VARIABLES
  clock,
  channel,   \* [paused, autopost, open, mode, edition]
  changes,   \* settings changed so far
  recheck,   \* a change of settings has yet to reconsider what was filtered
  date,      \* the date each item carries; NotYet: it has not appeared
  late,      \* items that appeared behind one that was already due
  page,      \* what the source shows now
  raw,       \* the revision of each item's text at the source
  posts,     \* the row of each item
  digests,   \* the digests, themselves rows of posts
  aired      \* how often readers were shown each item

feed == <<date, late, page, raw>>
settings == <<channel, changes, recheck>>
news == <<clock, settings, feed, posts, digests, aired>>

NotYet == -1
Start == CHOOSE ch \in Starts : TRUE  \* stands where no settings have been read
Modes == {"realtime", "paced", "digest"}
Statuses == {"none", "new", "filtered", "duplicate", "expired", "pending", "approved",
             "digest", "digest_item", "rejected", "published", "failed"}
NoText == [raw |-> 0, asked |-> Start.edition, answered |-> Start.edition, own |-> FALSE,
           sure |-> TRUE, checked |-> FALSE]
\* A prepared text: the revision it was made from, the settings when the model
\* was asked and when it had answered, whether the owner asked for it, whether
\* an advertisement was ruled out, whether its facts were checked.
Text == [raw : 0..2, asked : Editions, answered : Editions, own : BOOLEAN,
         sure : BOOLEAN, checked : BOOLEAN]
NoRow == [status |-> "none", made |-> 0, raw |-> 0, text |-> NoText, reason |-> "none"]
Row == [status : Statuses, made : 0..MaxTime, raw : 0..2, text : Text,
        reason : {"none", "no_media", "review", "mode_changed", "other"}]
Channel == [paused : BOOLEAN, autopost : BOOLEAN, open : BOOLEAN, mode : Modes,
            edition : Editions]

\* What the settings of a channel may be: a channel has some.
ASSUME StartsAssumption == Starts \subseteq Channel /\ Starts # {}

Digest == [day : Nat, members : SUBSET Items, texts : [Items -> Text],
           status : {"approved", "pending", "published", "failed", "rejected"}]

Init ==
  /\ clock = 1
  /\ channel \in Starts
  /\ changes = 0 /\ recheck = FALSE
  /\ date = [i \in Items |-> NotYet] /\ late = {} /\ page = {}
  /\ raw = [i \in Items |-> 1]
  /\ posts = [i \in Items |-> NoRow]
  /\ digests = <<>>
  /\ aired = [i \in Items |-> 0]

Day == clock \div DayLength
Dated(i) == i \notin Undated
\* _chronological: what has no date comes first; equal dates keep the feed's order.
Before(i, j) ==
  IF Dated(i) /\ Dated(j) THEN \/ date[i] < date[j]
                               \/ date[i] = date[j] /\ i < j
  ELSE i \in Undated /\ (Dated(j) \/ i < j)
Retention(mode) == IF mode = "realtime" THEN 0 ELSE KeepNews
Stale(row, mode) == row.made < clock - Retention(mode)
Shut(ch) == ch.paused \/ (ch.mode = "realtime" /\ ~ch.open)
Twins(i) == {j \in Items \ {i} : <<i, j>> \in Similar}

-----------------------------------------------------------------------------
(* The source and the clock.                                               *)

Appear(i) ==
  /\ date[i] = NotYet /\ \A j \in 1..(i - 1) : date[j] # NotYet
  /\ \E skew \in Skews :
       /\ clock + skew \in 0..MaxTime
       /\ date' = [date EXCEPT ![i] = clock + skew]
  /\ late' = IF \E j \in 1..(i - 1) : Dated(j) /\ date[j] <= clock /\ date[j] > date'[i]
             THEN late \cup {i} ELSE late
  /\ page' = page \cup {i}
  /\ UNCHANGED <<clock, settings, raw, posts, digests, aired>>

Withdraw(i) ==
  /\ "withdraw" \in Moves /\ i \in page
  /\ page' = page \ {i}
  /\ UNCHANGED <<clock, settings, date, late, raw, posts, digests, aired>>

\* The row a reader may make of item i: nothing of it is left, it is due, and a
\* realtime channel takes what is of this hour, inside its window.
Timely(i) ==
  \/ channel.mode # "realtime"
  \/ channel.open /\ (Dated(i) => date[i] >= clock)

Taken(i, revision) ==
  [NoRow EXCEPT !.status = "new", !.made = IF Dated(i) THEN date[i] ELSE clock,
                !.raw = revision]

Arrive(i) ==
  /\ date[i] # NotYet /\ (Dated(i) => date[i] <= clock)
  /\ posts[i].status = "none" /\ ~channel.paused /\ Timely(i)
  /\ \E revision \in 1..raw[i] : posts' = [posts EXCEPT ![i] = Taken(i, revision)]
  /\ UNCHANGED <<clock, settings, feed, digests, aired>>

Revise(i) ==
  /\ "revise" \in Moves /\ i \in page /\ raw[i] = 1
  /\ raw' = [raw EXCEPT ![i] = 2]
  /\ UNCHANGED <<clock, settings, date, late, page, posts, digests, aired>>

Tick ==
  /\ clock < MaxTime
  /\ clock' = clock + 1
  /\ \E open \in Windows : channel' = [channel EXCEPT !.open = open]
  /\ UNCHANGED <<changes, recheck, feed, posts, digests, aired>>

-----------------------------------------------------------------------------
(* The owner's settings (update_channel).                                  *)

Prepared(s) ==
  [i \in Items |-> IF posts[i].status \in s
                   THEN [posts[i] EXCEPT !.status = "pending", !.reason = "mode_changed"]
                   ELSE posts[i]]

Set(move, ch) ==
  /\ move \in Moves /\ changes < MaxChanges /\ ch # channel
  /\ channel' = ch /\ changes' = changes + 1
  /\ UNCHANGED <<clock, feed, aired>>

SetPaused ==
  /\ Set("pause", [channel EXCEPT !.paused = ~@])
  /\ UNCHANGED <<recheck, posts, digests>>

\* What was prepared stays in reach of its owner when the mechanism that would
\* have sent it is switched off; a digest is a row of posts like another.
SetAutopost ==
  /\ Set("autopost", [channel EXCEPT !.autopost = ~@])
  /\ IF channel.autopost
     THEN /\ posts' = Prepared({"approved", "digest"})
          /\ digests' = [k \in DOMAIN digests |->
               IF digests[k].status = "approved" THEN [digests[k] EXCEPT !.status = "pending"]
                                                 ELSE digests[k]]
     ELSE UNCHANGED <<posts, digests>>
  /\ UNCHANGED recheck

SetMode ==
  /\ \E mode \in Modes : Set("mode", [channel EXCEPT !.mode = mode])
  /\ posts' = IF channel.mode = "digest" THEN Prepared({"digest"}) ELSE posts
  /\ UNCHANGED <<recheck, digests>>

SetEdition ==
  /\ \E e \in Editions :
       /\ Set("edition", [channel EXCEPT !.edition = e])
       /\ recheck' = (recheck \/ (channel.edition.strict /\ ~e.strict))
  /\ UNCHANGED <<posts, digests>>

\* reconsider_filtered, called after the transaction of the settings.
ReconsiderFiltered ==
  /\ recheck /\ recheck' = FALSE
  /\ posts' = [i \in Items |->
       IF /\ posts[i].status = "filtered" /\ posts[i].reason = "no_media"
          /\ ~channel.edition.strict /\ ~Stale(posts[i], channel.mode)
       THEN [posts[i] EXCEPT !.status = "new", !.reason = "none"] ELSE posts[i]]
  /\ UNCHANGED <<clock, channel, changes, feed, digests, aired>>

-----------------------------------------------------------------------------
(* Ageing.                                                                 *)

Expired ==
  [i \in Items |->
     IF /\ posts[i].status \in {"new", "pending", "approved", "failed", "digest"}
        /\ Stale(posts[i], channel.mode)
     THEN [posts[i] EXCEPT !.status = "expired", !.reason = "other"] ELSE posts[i]]

ExpireNews ==
  /\ posts # Expired /\ posts' = Expired
  /\ UNCHANGED <<clock, settings, feed, digests, aired>>

Old(row) == row.made < clock - KeepRows

PrunePosts ==
  /\ posts' = [i \in Items |->
       IF /\ Expired[i].status \in {"filtered", "duplicate", "rejected", "failed", "expired",
                                    "digest_item", "published"}
          /\ Old(Expired[i])
       THEN NoRow ELSE Expired[i]]
  /\ posts' # posts
  /\ UNCHANGED <<clock, settings, feed, digests, aired>>

-----------------------------------------------------------------------------
(* Sending, and the owner's decisions on a single post.                    *)

CLAIMABLE == {"pending", "approved", "digest", "failed"}

\* What publish_post's claim asks of the row itself.
Sendable(i, mode) ==
  /\ posts[i].status \in CLAIMABLE
  /\ ~Stale(posts[i], mode)
  /\ posts[i].text # NoText
  /\ \A j \in Twins(i) : posts[j].status # "published"

Send(i) ==
  \/ /\ posts' = [posts EXCEPT ![i].status = "published"]
     /\ aired' = [aired EXCEPT ![i] = @ + 1]
  \/ /\ posts' = [posts EXCEPT ![i].status = "failed"]
     /\ UNCHANGED aired

Automatic == channel.autopost /\ ~channel.paused /\ channel.open

PublishDue(i) ==
  /\ posts[i].status = "approved" /\ Automatic
  /\ Sendable(i, channel.mode) /\ Send(i)
  /\ UNCHANGED <<clock, settings, feed, digests>>

Approve(i) ==
  /\ "approve" \in Moves
  /\ Sendable(i, channel.mode) /\ Send(i)
  /\ UNCHANGED <<clock, settings, feed, digests>>

Reject(i) ==
  /\ "reject" \in Moves /\ posts[i].status \in CLAIMABLE \cup {"new"}
  /\ posts' = [posts EXCEPT ![i].status = "rejected"]
  /\ UNCHANGED <<clock, settings, feed, digests, aired>>

World ==
  \/ Tick \/ SetPaused \/ SetAutopost \/ SetMode \/ SetEdition \/ ReconsiderFiltered
  \/ ExpireNews \/ PrunePosts
  \/ \E i \in Items : \/ Appear(i) \/ Withdraw(i) \/ Revise(i)
                      \/ PublishDue(i) \/ Approve(i) \/ Reject(i)

NewsOK ==
  /\ clock \in 0..MaxTime /\ channel \in Channel
  /\ changes \in 0..MaxChanges /\ recheck \in BOOLEAN
  /\ date \in [Items -> (0..MaxTime) \cup {NotYet}]
  /\ late \subseteq Items /\ page \subseteq Items /\ raw \in [Items -> 1..2]
  /\ posts \in [Items -> Row]
  /\ \A i \in Items : posts[i].made <= clock
  /\ \A i \in Items : posts[i].status \in {"approved", "digest", "digest_item", "published"}
                       => posts[i].text # NoText
  /\ \A k \in DOMAIN digests : digests[k] \in Digest
  /\ aired \in [Items -> Nat]
=============================================================================
