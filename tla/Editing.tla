------------------------------ MODULE Editing ------------------------------
(***************************************************************************)
(* From a new row to a prepared text (process_post, _process_post), the    *)
(* owner's "publish now" (publish_fresh_once) and "write anew" (regen).    *)
(*                                                                         *)
(* The lock of the channel lets one of the first two work at a time: that  *)
(* is the desk.  Between the rows and settings it reads and what it writes *)
(* the desk awaits the database, and the model for minutes; each step here *)
(* ends at such a point.  Deferred rows wait fifteen minutes or thirty     *)
(* seconds, less than a tick: the desk may take them up again at once.     *)
(***************************************************************************)
EXTENDS NewsPosts, Pipeline

\* The interface offers no other quality.
ASSUME EditionAssumption == Editions \subseteq [quality : Qualities, strict : BOOLEAN]

VARIABLES
  desk,    \* the work under the channel's lock
  redraft  \* the owner's request to write a post anew

editing == <<desk, redraft>>

NoResult == [verdict |-> "busy", sure |-> TRUE, checked |-> FALSE]
Results == UNION {Outcomes[q] : q \in Qualities}
Idle == [pc |-> "idle", item |-> 1, row |-> NoRow, ch |-> Start, again |-> Start,
         result |-> NoResult, once |-> FALSE, todo |-> {}, raw |-> [i \in Items |-> 1]]
NoRedraft == [pc |-> "idle", item |-> 1, raw |-> 0, text |-> NoText, edition |-> Start.edition]

InitEditing == desk = Idle /\ redraft = NoRedraft

\* "Publish now" overrides the pause, the window and the mode.
View(ch) ==
  IF desk.once THEN [ch EXCEPT !.paused = FALSE, !.open = TRUE, !.mode = "realtime"] ELSE ch

Leave ==
  desk' = IF desk.once THEN [desk EXCEPT !.pc = "verify", !.row = NoRow, !.again = Start,
                                         !.result = NoResult]
          ELSE Idle

Untouched == UNCHANGED <<clock, settings, feed, digests, aired, redraft>>

\* Every write of the desk asks that the row is still new.
Mark(status, reason) ==
  posts' = IF posts[desk.item].status = "new"
           THEN [posts EXCEPT ![desk.item].status = status, ![desk.item].reason = reason]
           ELSE posts

-----------------------------------------------------------------------------
(* One candidate of process_loop.                                          *)

PickUp(i) ==
  /\ desk.pc = "idle" /\ posts[i].status = "new" /\ ~Shut(channel)
  /\ desk' = [Idle EXCEPT !.pc = "read", !.item = i, !.row = posts[i], !.ch = channel]
  /\ UNCHANGED posts /\ Untouched

KnownStatuses == {"pending", "approved", "digest", "published"}

\* The checks before the model: age, pause and window, media, fingerprint.
Judge ==
  /\ desk.pc = "read"
  /\ LET ch == View(desk.ch) IN
     IF Stale(desk.row, ch.mode) THEN Mark("expired", "other") /\ Leave
     ELSE IF Shut(ch) THEN UNCHANGED posts /\ Leave
     ELSE IF ch.edition.strict /\ desk.item \in Bare THEN Mark("filtered", "no_media") /\ Leave
     ELSE IF \E j \in Twins(desk.item) : posts[j].status \in KnownStatuses
          THEN Mark("duplicate", "other") /\ Leave
     ELSE UNCHANGED posts /\ desk' = [desk EXCEPT !.pc = "asked"]
  /\ Untouched

Answer ==
  /\ desk.pc = "asked"
  /\ \E result \in Outcomes[desk.ch.edition.quality] :
       IF result.verdict \in {"busy", "error"} THEN Mark("new", "other") /\ Leave
       ELSE UNCHANGED posts /\ desk' = [desk EXCEPT !.pc = "answered", !.result = result]
  /\ Untouched

\* Four minutes pass, or a statement fails: the row is deferred; "publish now" ends.
TimeOut ==
  /\ desk.pc # "idle" /\ desk' = Idle
  /\ IF desk.once THEN UNCHANGED posts ELSE Mark("new", "other")
  /\ Untouched

\* Slip: the settings are not read again after the model has answered.
RereadNothing ==
  /\ desk.pc = "answered"
  /\ desk' = [desk EXCEPT !.pc = "checked", !.again = channel]
  /\ UNCHANGED posts /\ Untouched

Reread ==
  /\ desk.pc = "answered"
  /\ IF channel.edition # desk.ch.edition THEN Mark("new", "other") /\ Leave
     ELSE UNCHANGED posts /\ desk' = [desk EXCEPT !.pc = "checked", !.again = channel]
  /\ Untouched

Written ==
  [raw |-> desk.row.raw, asked |-> desk.ch.edition, answered |-> desk.again.edition,
   own |-> FALSE, sure |-> desk.result.sure, checked |-> desk.result.checked]

\* Where a text goes: texts short enough for a digest wait for it, a doubtful
\* one waits for the owner.  Whether it is short enough is left open.
Destinations(ch) ==
  IF desk.result.sure /\ ch.autopost
  THEN (IF ch.mode = "digest" THEN {"digest"} ELSE {})
       \cup (IF desk.once THEN {"pending"} ELSE {"approved"})
  ELSE {"pending"}

Write ==
  /\ desk.pc = "checked"
  /\ LET ch == View(desk.again)
         verdict == desk.result.verdict
     IN \/ verdict = "repeat" /\ Mark("duplicate", "other")
        \/ verdict = "retry" /\ Mark("new", "other")
        \/ verdict = "bad" /\ Mark("filtered", "other")
        \/ verdict = "ready" /\ Stale(desk.row, ch.mode) /\ Mark("expired", "other")
        \/ verdict = "ready" /\ ~Stale(desk.row, ch.mode) /\ ch.paused /\ UNCHANGED posts
        \/ /\ verdict = "ready" /\ ~Stale(desk.row, ch.mode) /\ ~ch.paused /\ Shut(ch)
           /\ Mark("expired", "other")
        \/ /\ verdict = "ready" /\ ~Stale(desk.row, ch.mode) /\ ~Shut(ch)
           /\ \E status \in Destinations(ch) :
                posts' = IF posts[desk.item].status = "new"
                         THEN [posts EXCEPT ![desk.item] =
                                 [@ EXCEPT !.status = status, !.text = Written,
                                           !.reason = IF desk.result.sure THEN "none" ELSE "review"]]
                         ELSE posts
  /\ Leave /\ Untouched

-----------------------------------------------------------------------------
(* "Publish now": the newest items of the hour are prepared anew, one      *)
(* after another, until one can be sent.  At most three are tried, which   *)
(* instances with as many items do not tell apart.                         *)

PublishNow ==
  /\ "now" \in Moves /\ desk.pc = "idle"
  /\ desk' = [Idle EXCEPT !.pc = "next", !.once = TRUE, !.ch = channel, !.raw = raw,
                          !.todo = {i \in page : Dated(i) /\ date[i] = clock}]
  /\ UNCHANGED posts /\ Untouched

\* Slip: a row that has left the queue is renewed too.
RenewableAnyhow(row) == TRUE

Renewable(row) ==
  \/ row.status \in {"none", "new"}
  \/ row.status \in {"approved", "pending"} /\ row.reason = "none"

\* Slip: an approved post stays in the queue while it is prepared anew.
RenewedInQueue(i) ==
  [NoRow EXCEPT !.status = IF posts[i].status = "approved" THEN "approved" ELSE "new",
                !.made = date[i], !.raw = desk.raw[i]]

Renewed(i) == [NoRow EXCEPT !.status = "new", !.made = date[i], !.raw = desk.raw[i]]

NextCandidate(i) ==
  /\ desk.pc = "next" /\ i \in desk.todo
  /\ LET renewed == Renewed(i)
     IN IF Renewable(posts[i])
        THEN /\ posts' = [posts EXCEPT ![i] = renewed]
             /\ desk' = [desk EXCEPT !.pc = "read", !.item = i, !.row = renewed,
                                     !.todo = @ \ {i}]
        ELSE /\ desk' = [desk EXCEPT !.todo = @ \ {i}]
             /\ UNCHANGED posts
  /\ Untouched

Exhausted ==
  /\ desk.pc = "next" /\ desk.todo = {}
  /\ desk' = Idle /\ UNCHANGED posts /\ Untouched

\* Slip: whatever came of the candidate is sent, a doubtful text too.
PreparedAnyhow == posts[desk.item].text # NoText

PreparedNow ==
  /\ posts[desk.item].status \in {"approved", "pending"}
  /\ posts[desk.item].reason = "none" /\ posts[desk.item].text # NoText

\* The row is read again.
Verify ==
  /\ desk.pc = "verify"
  /\ desk' = IF PreparedNow
             THEN [Idle EXCEPT !.pc = "sending", !.item = desk.item, !.once = TRUE]
             ELSE [desk EXCEPT !.pc = "next"]
  /\ UNCHANGED posts /\ Untouched

\* publish_post awaits a slot, the owner's access and the locks; its claim takes
\* the row as it stands then and never asks for the reason.
SendNow ==
  /\ desk.pc = "sending" /\ desk' = Idle
  /\ IF Sendable(desk.item, "realtime") THEN Send(desk.item) ELSE UNCHANGED <<posts, aired>>
  /\ UNCHANGED <<clock, settings, feed, digests, redraft>>

-----------------------------------------------------------------------------
(* "Write anew": no lock, but the row must still hold the text it replaces.*)

AskRedraft(i) ==
  /\ "regen" \in Moves /\ redraft.pc = "idle" /\ posts[i].status \in CLAIMABLE
  /\ redraft' = [pc |-> "asked", item |-> i, raw |-> posts[i].raw, text |-> posts[i].text,
                 edition |-> channel.edition]
  /\ UNCHANGED <<news, desk>>

\* Slip: the draft is replaced whatever it has become meanwhile.
SameDraftUnchecked(i) == posts[i].status \in CLAIMABLE

SameDraft(i) == posts[i].status \in CLAIMABLE /\ posts[i].text = redraft.text

ReplaceDraft ==
  /\ redraft.pc = "asked" /\ redraft' = NoRedraft
  /\ \E result \in Outcomes[redraft.edition.quality] :
       LET i == redraft.item
           row == posts[i]
           text == [raw |-> redraft.raw, asked |-> redraft.edition,
                    answered |-> channel.edition, own |-> TRUE,
                    sure |-> result.sure, checked |-> result.checked]
       IN posts' = IF result.verdict = "ready" /\ SameDraft(i)
                   THEN [posts EXCEPT ![i] =
                           [row EXCEPT !.text = text,
                                       !.status = IF result.sure THEN row.status ELSE "pending",
                                       !.reason = IF result.sure THEN row.reason ELSE "review"]]
                   ELSE posts
  /\ UNCHANGED <<clock, settings, feed, digests, aired, desk>>

Edit ==
  \/ Judge \/ Answer \/ TimeOut \/ Reread \/ Write \/ PublishNow \/ Exhausted \/ Verify
  \/ SendNow \/ ReplaceDraft
  \/ \E i \in Items : PickUp(i) \/ NextCandidate(i) \/ AskRedraft(i)

EditingOK ==
  /\ desk \in [pc : {"idle", "read", "asked", "answered", "checked", "next", "verify",
                     "sending"},
               item : Items, row : Row, ch : Channel, again : Channel, result : Results,
               once : BOOLEAN, todo : SUBSET Items, raw : [Items -> 1..2]]
  /\ redraft \in [pc : {"idle", "asked"}, item : Items, raw : 0..2, text : Text,
                 edition : Editions]

\* What the machine prepared by itself was asked for and checked against the
\* same settings of the content: a change made while the model was at work
\* sends the item back (_process_post, after the model has answered).
OneEdition ==
  \A i \in Items : posts[i].text.own \/ posts[i].text.asked = posts[i].text.answered

\* What may be sent without anybody's look has been cleared of advertising, and
\* of wrong facts when the channel asks for it: whatever way the row took, the
\* pipeline's refusals, doubts and silences keep it out of the queue.
ClearedForQueue ==
  \A i \in Items : posts[i].status \in {"approved", "digest"} =>
    /\ posts[i].text.sure
    /\ posts[i].text.asked.quality = "super" => posts[i].text.checked

\* A prepared text was made from the revision of the item its row holds, however
\* "publish now" renews the row beside a request to write it anew.
TextOfItsRow ==
  \A i \in Items : posts[i].text # NoText => posts[i].text.raw = posts[i].raw

\* Both at once: whatever was renewed, rewritten or switched while the model was
\* at work, a text belongs to the row and to the settings it stands under.
TextFits == OneEdition /\ TextOfItsRow

\* What "publish now" sends has had its facts confirmed where the channel asks for
\* it, and may be an advertisement only if its owner himself had it written anew:
\* whatever becomes of the row between the check and the claim, no other text
\* that waits for his look is sent in its place.
NowIsClearedOrAsked ==
  [][\A i \in Items : aired'[i] > aired[i] /\ desk' # desk =>
       /\ posts[i].text.sure \/ posts[i].text.own
       /\ posts[i].text.asked.quality = "super" => posts[i].text.checked]_<<news, editing>>

\* Refuted.  "Materials that need an additional check are not sent automatically"
\* (docs/api.md:143, of publish_now): a text that somebody has to look at is not
\* sent.  One that its owner had written anew between the check and the claim is.
NowIsCleared ==
  [][\A i \in Items : aired'[i] > aired[i] /\ desk' # desk => posts[i].text.sure]_<<news, editing>>
=============================================================================
