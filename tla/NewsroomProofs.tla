-------------------------- MODULE NewsroomProofs --------------------------
(***************************************************************************)
(* Proofs about the newsroom, for any number of items, rows, settings and  *)
(* processes: a local day has one digest; a row is queued only once it is  *)
(* settled and cleared; its text is its own item's in its own edition;     *)
(* readers see a story once; and what the button Publish now sends was     *)
(* cleared, or written anew for its owner.  The invariant relates three    *)
(* memories that grow old on their own: the rows, what the desk and the    *)
(* owner's redraft read before they asked the model, and the digests made  *)
(* of rows that are pruned.                                                *)
(***************************************************************************)

EXTENDS Newsroom, SequenceTheorems, TLAPS

\* The digests that were made, as a sequence, each with its day.
Recorded ==
  /\ \E n \in Nat : digests = [k \in 1..n |-> digests[k]]
  /\ \A k \in DOMAIN digests : "day" \in DOMAIN digests[k] /\ digests[k].day \in Int

\* The day kept in the channel's row is behind no digest and ahead of no clock.
DayReserved ==
  /\ clock \in Nat /\ sentOn \in Int /\ sentOn <= Day
  /\ \A k \in DOMAIN digests : digests[k].day <= sentOn

DayInv == Recorded /\ DayReserved /\ OneDigestADay

\* A step that makes no digest and moves no day.
DigestsKept ==
  /\ DOMAIN digests' = DOMAIN digests
  /\ digests' = [k \in DOMAIN digests |-> digests'[k]]
  /\ \A k \in DOMAIN digests : /\ DOMAIN digests'[k] = DOMAIN digests[k]
                               /\ "day" \in DOMAIN digests[k] => digests'[k].day = digests[k].day

-----------------------------------------------------------------------------
\* The day of a later hour is no earlier day.
LEMMA DayGrows ==
  ASSUME NEW c \in Nat
  PROVE  /\ c \div DayLength \in Int
         /\ 0 <= c \div DayLength
         /\ c \div DayLength <= (c + 1) \div DayLength
<1>1. DayLength \in Nat /\ DayLength > 0
  BY NewsAssumption
<1> QED
  BY <1>1

\* A step that keeps the digests, the day and the clock keeps the invariant.
LEMMA KeptInv ==
  ASSUME DayInv, DigestsKept, sentOn' = sentOn, clock' \in Nat, Day <= Day', Day' \in Int, Day \in Int
  PROVE  DayInv'
<1>1. PICK n \in Nat : digests = [k \in 1..n |-> digests[k]]
  BY DEF DayInv, Recorded
<1>2. DOMAIN digests = 1..n
  BY <1>1
<1>3. digests' = [k \in 1..n |-> digests'[k]]
  BY <1>2 DEF DigestsKept
<1>4. Recorded'
  BY <1>3 DEF DayInv, Recorded, DigestsKept
<1>5. DayReserved'
  BY DEF DayInv, Recorded, DayReserved, DigestsKept
<1>6. OneDigestADay'
  BY DEF DayInv, Recorded, OneDigestADay, DigestsKept
<1> QED
  BY <1>4, <1>5, <1>6 DEF DayInv

\* Where digests, day and clock are left alone there is nothing to show.
LEMMA AloneInv ==
  ASSUME DayInv, UNCHANGED <<digests, sentOn, clock>>
  PROVE  DayInv'
BY DEF DayInv, Recorded, DayReserved, OneDigestADay, Day

\* A digest changes its status, not its day.
LEMMA StatusKeeps ==
  ASSUME DayInv, NEW k, NEW s, digests' = [digests EXCEPT ![k].status = s]
  PROVE  DigestsKept
BY DEF DigestsKept

LEMMA SendKeeps ==
  ASSUME DayInv, NEW k, SendDigest(k)
  PROVE  DigestsKept
BY StatusKeeps DEF SendDigest

\* A new digest is of a later day than all others.
LEMMA MakeInv ==
  ASSUME DayInv, NEW d \in Runners, Make(d)
  PROVE  DayInv'
<1>1. /\ clock' = clock /\ clock \in Nat /\ Day' = Day
      /\ Day \in Int
  BY DayGrows DEF Make, DayInv, DayReserved, Day
<1>2. CASE UNCHANGED <<digests, sentOn>>
  BY <1>1, <1>2, AloneInv
<1>3. CASE ~UNCHANGED <<digests, sentOn>>
  <2> DEFINE r == [day |-> Day, members |-> runner[d].members, status |-> "approved",
                   texts |-> [i \in Items |-> runner[d].rows[i].text]]
  <2>1. sentOn # Day /\ sentOn' = Day /\ digests' = Append(digests, r)
    BY <1>3, Zenon DEF Make, DayFree, Reserve
  <2>2. "day" \in DOMAIN r /\ r.day = Day
    OBVIOUS
  <2> HIDE DEF r
  <2>3. PICK n \in Nat : digests = [k \in 1..n |-> digests[k]]
    BY DEF DayInv, Recorded
  <2> DEFINE E == {digests[k] : k \in 1..n} \cup {r}
  <2>4. digests \in Seq(E)
    <3>1. digests \in [1..n -> E]
      BY <2>3
    <3> QED
      BY <3>1, SeqDef
  <2>5. DOMAIN digests = 1..n /\ Len(digests) = n
    BY <2>3, <2>4, LenProperties
  <2>6. /\ digests' \in Seq(E)
        /\ Len(digests') = n + 1
        /\ \A k \in 1..n : digests'[k] = digests[k]
        /\ digests'[n + 1] = r
    BY <2>1, <2>4, <2>5, AppendProperties
  <2>7. digests' \in [1..(n + 1) -> E] /\ DOMAIN digests' = 1..(n + 1)
    BY <2>6, LenProperties
  <2>8. Recorded'
    <3>1. n + 1 \in Nat /\ digests' = [k \in 1..(n + 1) |-> digests'[k]]
      BY <2>7
    <3>2. ASSUME NEW k \in 1..(n + 1)
          PROVE  "day" \in DOMAIN digests'[k] /\ digests'[k].day \in Int
      <4>1. CASE k \in 1..n
        BY <4>1, <2>5, <2>6 DEF DayInv, Recorded
      <4>2. CASE k = n + 1
        BY <4>2, <2>2, <2>6, <1>1
      <4> QED
        BY <4>1, <4>2
    <3> QED
      BY <3>1, <3>2, <2>7 DEF Recorded
  <2>9. \A k \in 1..n : digests'[k].day < Day /\ digests'[k].day \in Int
    BY <2>1, <2>5, <2>6, <1>1 DEF DayInv, DayReserved, Recorded
  <2>10. DayReserved'
    BY <2>1, <2>2, <2>6, <2>7, <2>9, <1>1 DEF DayReserved
  <2>11. OneDigestADay'
    <3>1. SUFFICES ASSUME NEW k \in 1..(n + 1), NEW l \in 1..(n + 1),
                          digests'[k].day = digests'[l].day
                   PROVE  k = l
      BY <2>7 DEF OneDigestADay
    <3>2. CASE k \in 1..n /\ l \in 1..n
      BY <3>1, <3>2, <2>5, <2>6 DEF DayInv, OneDigestADay
    <3>3. CASE k = n + 1 \/ l = n + 1
      BY <3>1, <3>3, <2>2, <2>6, <2>9, <1>1
    <3> QED
      BY <3>2, <3>3
  <2> QED
    BY <2>8, <2>10, <2>11 DEF DayInv
<1> QED
  BY <1>2, <1>3

-----------------------------------------------------------------------------
\* The news, the settings and the clock: only the clock and the owner's switch
\* of automatic publication touch what the invariant speaks of.
LEMMA WorldInv ==
  ASSUME DayInv, World \/ (\E i \in Items : Arrive(i)), UNCHANGED digesting
  PROVE  DayInv'
<1> USE DEF digesting, settings, feed
<1>1. clock \in Nat /\ Day \in Int /\ Day <= (clock + 1) \div DayLength
      /\ (clock + 1) \div DayLength \in Int
  <2>1. clock \in Nat
    BY DEF DayInv, DayReserved
  <2> QED
    BY <2>1, DayGrows DEF Day
<1>2. CASE Tick
  <2>1. DigestsKept
    BY <1>2 DEF Tick, DayInv, Recorded, DigestsKept
  <2>2. clock' = clock + 1 /\ clock' \in Nat /\ Day' = (clock + 1) \div DayLength
    BY <1>1, <1>2 DEF Tick, Day
  <2> QED
    BY <2>1, <2>2, <1>1, KeptInv
<1>3. CASE SetAutopost
  <2>1. DigestsKept
    BY <1>3 DEF SetAutopost, DayInv, Recorded, DigestsKept
  <2>2. clock' = clock /\ Day' = Day
    BY <1>3 DEF SetAutopost, Set, Day
  <2> QED
    BY <2>1, <2>2, <1>1, KeptInv
<1>4. CASE SetPaused \/ SetMode \/ SetEdition
  BY <1>4, AloneInv DEF SetPaused, SetMode, SetEdition, Set
<1>5. CASE ReconsiderFiltered \/ ExpireNews \/ PrunePosts
  BY <1>5, AloneInv DEF ReconsiderFiltered, ExpireNews, PrunePosts
<1>6. CASE \E i \in Items : Arrive(i) \/ Appear(i) \/ Withdraw(i) \/ Revise(i)
  BY <1>6, AloneInv DEF Arrive, Appear, Withdraw, Revise
<1>7. CASE \E i \in Items : PublishDue(i) \/ Approve(i) \/ Reject(i)
  BY <1>7, AloneInv DEF PublishDue, Approve, Reject
<1> QED
  BY <1>2, <1>3, <1>4, <1>5, <1>6, <1>7 DEF World

\* The editorial desk works on single posts.
LEMMA EditInv ==
  ASSUME DayInv, Edit, UNCHANGED digesting
  PROVE  DayInv'
<1> USE DEF digesting, settings, feed, news
<1>1. CASE Judge \/ Answer \/ TimeOut \/ Reread \/ Write \/ PublishNow \/ Exhausted
  BY <1>1, AloneInv DEF Judge, Answer, TimeOut, Reread, Write, PublishNow, Exhausted, Untouched
<1>2. CASE Verify \/ SendNow \/ ReplaceDraft
  BY <1>2, AloneInv DEF Verify, SendNow, ReplaceDraft, Untouched
<1>3. CASE \E i \in Items : PickUp(i) \/ NextCandidate(i) \/ AskRedraft(i)
  BY <1>3, AloneInv DEF PickUp, NextCandidate, AskRedraft, Untouched
<1> QED
  BY <1>1, <1>2, <1>3 DEF Edit

LEMMA SummarizeInv ==
  ASSUME DayInv, Summarize
  PROVE  DayInv'
<1> USE DEF digesting, news
<1>0. clock \in Nat /\ Day \in Int
  BY DayGrows DEF DayInv, DayReserved, Day
<1>1. CASE \E d \in Runners : Prepare(d) \/ GiveUp(d)
  BY <1>1, AloneInv DEF Prepare, GiveUp
<1>2. CASE \E d \in Runners : Make(d)
  BY <1>2, MakeInv
<1>3. ASSUME NEW d \in Runners, SendMade(d)
      PROVE  DayInv'
  <2>1. UNCHANGED <<clock, sentOn>> /\ Day' = Day
    BY <1>3 DEF SendMade, Day
  <2>2. CASE SendDigest(runner[d].post)
    BY <2>1, <2>2, <1>0, SendKeeps, KeptInv
  <2>3. CASE UNCHANGED digests
    BY <2>1, <2>3, AloneInv
  <2> QED
    BY <1>3, <2>2, <2>3 DEF SendMade
<1>4. ASSUME NEW k \in DOMAIN digests, PublishDigest(k) \/ ApproveDigest(k) \/ RejectDigest(k)
      PROVE  DayInv'
  <2>1. UNCHANGED <<clock, sentOn>> /\ Day' = Day
    BY <1>4 DEF PublishDigest, ApproveDigest, RejectDigest, Day
  <2>2. DigestsKept
    BY <1>4, SendKeeps, StatusKeeps DEF PublishDigest, ApproveDigest, RejectDigest
  <2> QED
    BY <2>1, <2>2, <1>0, KeptInv
<1> QED
  BY <1>1, <1>2, <1>3, <1>4 DEF Summarize

-----------------------------------------------------------------------------
\* The newsroom makes at most one digest for a local day, whatever number of
\* processes prepare one, however long their answers take and whenever they die
\* (run_digest, digest_sent_on).
THEOREM DigestOncePerDay == Spec => []OneDigestADay
<1>1. InitNewsroom => DayInv
  <2> SUFFICES ASSUME InitNewsroom PROVE DayInv
    OBVIOUS
  <2>1. clock = 1 /\ sentOn = -1 /\ digests = <<>>
    BY DEF InitNewsroom, Init, InitDigests, Never
  <2>2. Recorded
    <3>1. digests = [k \in 1..0 |-> digests[k]]
      BY <2>1
    <3> QED
      BY <2>1, <3>1 DEF Recorded
  <2>3. 0 <= Day /\ Day \in Int
    BY <2>1, DayGrows DEF Day
  <2> QED
    BY <2>1, <2>2, <2>3 DEF DayInv, DayReserved, OneDigestADay
<1>2. DayInv /\ [Next]_vars => DayInv'
  <2> SUFFICES ASSUME DayInv, [Next]_vars PROVE DayInv'
    OBVIOUS
  <2>1. CASE UNCHANGED vars
    BY <2>1, AloneInv DEF vars, news, digesting
  <2>2. CASE Crash
    BY <2>2, AloneInv DEF Crash, news
  <2>3. CASE Edit /\ UNCHANGED digesting
    BY <2>3, EditInv
  <2>4. CASE Summarize
    BY <2>4, SummarizeInv
  <2>5. CASE (World \/ \E i \in Items : Arrive(i)) /\ UNCHANGED digesting
    BY <2>5, WorldInv
  <2> QED
    BY <2>1, <2>2, <2>3, <2>4, <2>5 DEF Next
<1>3. DayInv => OneDigestADay
  BY DEF DayInv
<1> QED
  BY <1>1, <1>2, <1>3, PTL DEF Spec
-----------------------------------------------------------------------------
(* The pipeline, the rows and who works on them.                           *)

\* A text that is ready was checked where the channel asks for it.
LEMMA ReadyIsChecked ==
  ASSUME NEW q \in Qualities, NEW result \in Outcomes[q]
  PROVE  /\ result.sure \in BOOLEAN /\ result.checked \in BOOLEAN
         /\ result.verdict = "ready" /\ q = "super" => result.checked
<1>1. PICK a \in Answers : result = Process(q, a)
  BY DEF Outcomes
<1>2. result.sure \in BOOLEAN /\ result.checked \in BOOLEAN
  BY <1>1 DEF Process
<1>3. ASSUME result.verdict = "ready", q = "super"
      PROVE  result.checked
  <2> DEFINE last == Checked(q, a)
             facts == IF a.check = "wrong" THEN a.recheck ELSE a.check
  <2>1. ByOpinion(Confirmed(a)) # "ready"
    BY DEF ByOpinion
  <2>2. Triage(q, a) # "ready"
    BY <1>3, Zenon DEF Triage, ByOpinion, Answers
  <2>3. ByDraft(a.draft) # "ready" /\ ByDraft(a.redraft) # "ready"
    BY DEF ByDraft, Answers, Drafts
  <2>4. result.verdict = "ready" => last = "ready"
    BY <1>1, <2>1, <2>2, <2>3 DEF Process, Then
  <2>5. last = Facts(a.check, IF ByDraft(a.redraft) = "go" THEN Facts(a.recheck, "bad")
                                                           ELSE ByDraft(a.redraft))
    BY <1>3 DEF Checked
  <2>6. a.check \in Checks /\ a.recheck \in Checks
    BY DEF Answers
  <2>7. facts = "ok"
    BY <1>3, <2>3, <2>4, <2>5, <2>6 DEF Facts, Checks
  <2> QED
    BY <1>1, <1>3, <2>7 DEF Process
<1> QED
  BY <1>2, <1>3

\* What stands where the model has not answered is an answer it may give.
LEMMA NoResultIsOne == NoResult \in Results
<1> DEFINE a == [screen |-> "safe", adWords |-> TRUE, confirm |-> "busy", triage |-> "news",
                 reconfirm |-> "none", draft |-> "good", check |-> "ok", redraft |-> "good",
                 recheck |-> "ok"]
<1>1. a \in Answers
  BY DEF Answers, Confirmations, Drafts, Checks
<1>2. Confirmed(a) = "busy" /\ a.screen = "safe"
  BY DEF Confirmed
<1>3. ByOpinion("busy") = "busy"
  BY DEF ByOpinion
<1>4. Process("fast", a) = NoResult
  BY <1>2, <1>3 DEF Process, Then, NoResult
<1>5. "fast" \in Qualities /\ NoResult \in Outcomes["fast"]
  BY <1>1, <1>4 DEF Outcomes, Qualities
<1> QED
  BY <1>5 DEF Results

LEMMA StartTyped ==
  /\ Start \in Channel /\ Start.edition \in Editions
  /\ NoText \in Text /\ NoText.own = FALSE /\ NoText.raw = 0
  /\ NoText.asked = NoText.answered
<1>1. Start \in Starts
  BY StartsAssumption DEF Start
<1>2. Start \in Channel
  BY <1>1, StartsAssumption
<1>3. Start.edition \in Editions
  BY <1>2 DEF Channel
<1> QED
  BY <1>2, <1>3 DEF NoText, Text

LEMMA NoRowTyped == NoRow \in Row /\ NoRow.status = "none"
<1>1. 0 \in 0..MaxTime
  BY NewsAssumption
<1> QED
  BY <1>1, StartTyped DEF NoRow, Row, Statuses
-----------------------------------------------------------------------------
(* What may happen to a row.                                               *)

\* A text that may be sent without anybody's look.
ClearText(text) == text.sure /\ (text.asked.quality = "super" => text.checked)
OneEditionText(text) == text.own \/ text.asked = text.answered

\* A text "publish now" may send: where facts are checked they were, and what may
\* be an advertisement was written anew for the owner.
MayGoNow(text) ==
  (text.sure \/ text.own) /\ (text.asked.quality = "super" => text.checked)

\* A row of item i is in order, at this hour and with this date of the item.
RowOK(i, row, hour, dated) ==
  /\ row \in Row /\ row.made <= hour
  /\ row.status # "none" => row.raw \in 1..2 /\ (Dated(i) => dated = row.made)
  /\ row.status \in CLAIMABLE \cup {"digest_item", "published"} => row.text # NoText
  /\ row.status \in {"approved", "digest"} \/ (row.status = "pending" /\ row.reason = "none")
       => ClearText(row.text)
  /\ OneEditionText(row.text)
  /\ row.text # NoText => row.text.raw = row.raw

\* A row can be pruned, or has been.
Gone(row, hour) == row.made < hour - KeepRows

\* Readers may not be shown an item of this date any more.
Past(hour, dated) == dated # NotYet /\ dated < hour - KeepNews

Same(old, new) ==
  new \in Row /\ new.made = old.made /\ new.raw = old.raw /\ new.text = old.text

Dropped(old, new, hour) == new = NoRow /\ old.status # "none" /\ Gone(old, hour)

Entered(i, old, new, hour, dated) ==
  /\ old.status = "none" /\ new \in Row /\ new.status = "new" /\ new.text = NoText
  /\ new.raw \in 1..2 /\ new.made <= hour /\ (Dated(i) => dated = new.made)

Settled(old, new) ==
  /\ Same(old, new) /\ old.status \in CLAIMABLE \cup {"new", "filtered"}
  /\ new.status \in {"new", "expired", "filtered", "duplicate", "rejected"}

HeldBack(old, new) ==
  /\ Same(old, new) /\ old.status \in CLAIMABLE
  /\ new.status = "failed" \/ (new.status = "pending" /\ new.reason # "none")

Collected(old, new) ==
  Same(old, new) /\ old.status \in CLAIMABLE /\ new.status \in {"digest_item", "published"}

\* A new row gets its text in time; a row that has one may get another.
Worded(i, old, new, hour, dated) ==
  /\ new \in Row /\ new.made = old.made /\ new.raw = old.raw
  /\ \/ /\ old.status = "new" /\ new.status \in {"pending", "approved", "digest"}
        /\ Dated(i) => ~Past(hour, dated)
     \/ /\ old.status \in CLAIMABLE /\ MayGoNow(new.text)
        /\ (new.status = old.status /\ new.reason = old.reason) \/ new.status = "pending"
  /\ new.text.raw = new.raw /\ OneEditionText(new.text)
  /\ ClearText(new.text) \/ (new.status = "pending" /\ new.reason # "none")

Moved(i, old, new, hour, dated) ==
  \/ new = old
  \/ Dropped(old, new, hour) \/ Entered(i, old, new, hour, dated)
  \/ Settled(old, new) \/ HeldBack(old, new) \/ Collected(old, new)
  \/ Worded(i, old, new, hour, dated)

\* "Publish now" begins anew with what is not decided yet.
BegunAnew(i, old, new, hour, dated) ==
  /\ old.status \in {"none", "new", "approved", "pending"}
  /\ new \in Row /\ new.status = "new" /\ new.text = NoText
  /\ new.raw \in 1..2 /\ new.made <= hour /\ (Dated(i) => dated = new.made)

LEMMA RowFields ==
  ASSUME NEW row \in Row
  PROVE  /\ row.status \in Statuses /\ row.made \in Nat /\ row.made <= MaxTime
         /\ row.raw \in 0..2 /\ row.text \in Text
         /\ row.reason \in {"none", "no_media", "review", "mode_changed", "other"}
<1>1. row.status \in Statuses /\ row.made \in 0..MaxTime /\ row.raw \in 0..2 /\ row.text \in Text
  BY DEF Row
<1>2. row.reason \in {"none", "no_media", "review", "mode_changed", "other"}
  BY DEF Row
<1> QED
  BY <1>1, <1>2, NewsAssumption

LEMMA TextFields ==
  ASSUME NEW text \in Text
  PROVE  /\ text.raw \in 0..2 /\ text.asked \in Editions /\ text.answered \in Editions
         /\ text.own \in BOOLEAN /\ text.sure \in BOOLEAN /\ text.checked \in BOOLEAN
BY DEF Text

LEMMA MovedOK ==
  ASSUME NEW i, NEW old, NEW new, NEW hour \in Nat, NEW dated,
         RowOK(i, old, hour, dated),
         Moved(i, old, new, hour, dated) \/ BegunAnew(i, old, new, hour, dated)
  PROVE  RowOK(i, new, hour, dated)
<1> USE DEF RowOK, OneEditionText, Dated
<1>0. old.made \in Int /\ old.status \in Statuses /\ old.raw \in Int
  <2>1. old \in Row
    OBVIOUS
  <2> QED
    BY <2>1, RowFields
<1>1. CASE Dropped(old, new, hour)
  BY <1>1, NoRowTyped, StartTyped DEF Dropped, NoRow, CLAIMABLE
<1>2. CASE Entered(i, old, new, hour, dated) \/ BegunAnew(i, old, new, hour, dated)
  BY <1>2, StartTyped DEF Entered, BegunAnew, CLAIMABLE
<1>3. CASE Settled(old, new)
  BY <1>3, <1>0 DEF Settled, Same, CLAIMABLE
<1>4. CASE HeldBack(old, new) \/ Collected(old, new)
  BY <1>4, <1>0 DEF HeldBack, Collected, Same, CLAIMABLE
<1>5. CASE Worded(i, old, new, hour, dated)
  <2>1. old.raw \in 1..2 /\ new.raw \in 1..2 /\ new.made <= hour /\ (Dated(i) => dated = new.made)
    BY <1>5 DEF Worded, CLAIMABLE
  <2>2. new.text # NoText
    BY <1>5, <2>1, StartTyped DEF Worded
  <2>3. new.status \in {"approved", "digest"} \/ (new.status = "pending" /\ new.reason = "none")
          => ClearText(new.text)
    BY <1>5 DEF Worded, CLAIMABLE, ClearText
  <2> QED
    BY <1>5, <2>1, <2>2, <2>3 DEF Worded
<1> QED
  BY <1>1, <1>2, <1>3, <1>4, <1>5 DEF Moved

\* Time goes on, and an item gets its date once.
LEMMA RowGoesOn ==
  ASSUME NEW i, NEW row, NEW hour \in Int, NEW later \in Int, hour <= later,
         NEW dated, NEW dated2, dated2 = dated \/ dated = NotYet, RowOK(i, row, hour, dated)
  PROVE  RowOK(i, row, later, dated2)
<1>1. row.made \in Nat
  BY RowFields DEF RowOK
<1> QED
  BY <1>1 DEF RowOK, NotYet, Dated, ClearText, OneEditionText

Reasons == {"none", "no_media", "review", "mode_changed", "other"}

\* A row with another status, or with another status and reason.
LEMMA RowWith ==
  ASSUME NEW row \in Row, NEW s \in Statuses, NEW x \in Reasons
  PROVE  /\ [row EXCEPT !.status = s] \in Row
         /\ [row EXCEPT !.status = s].status = s
         /\ [row EXCEPT !.status = s].reason = row.reason
         /\ Same(row, [row EXCEPT !.status = s])
         /\ [row EXCEPT !.status = s, !.reason = x] \in Row
         /\ [row EXCEPT !.status = s, !.reason = x].status = s
         /\ [row EXCEPT !.status = s, !.reason = x].reason = x
         /\ Same(row, [row EXCEPT !.status = s, !.reason = x])
BY DEF Row, Same, Reasons

Rows ==
  /\ posts \in [Items -> Row]
  /\ \A i \in Items : RowOK(i, posts[i], clock, date[i])

\* A step that does with each row what may be done with it.
RowsMove ==
  /\ posts' = [i \in Items |-> posts'[i]]
  /\ \A i \in Items : Moved(i, posts[i], posts'[i], clock, date[i])
  /\ UNCHANGED <<clock, date>>

LEMMA RowsMoveOK ==
  ASSUME Rows, clock \in Nat, RowsMove
  PROVE  Rows'
<1>1. \A i \in Items : RowOK(i, posts'[i], clock, date[i])
  BY MovedOK DEF Rows, RowsMove
<1>2. \A i \in Items : posts'[i] \in Row
  BY <1>1 DEF RowOK
<1>3. posts' \in [Items -> Row]
  BY <1>2 DEF RowsMove
<1>4. clock' = clock /\ date' = date
  BY DEF RowsMove
<1> QED
  BY <1>1, <1>3, <1>4 DEF Rows

LEMMA RowsGoOn ==
  ASSUME Rows, UNCHANGED posts, clock \in Nat, clock' \in Int, clock <= clock',
         \A i \in Items : date'[i] = date[i] \/ date[i] = NotYet
  PROVE  Rows'
BY RowGoesOn DEF Rows

\* Steps that touch one row, or none.
LEMMA OneRowMoves ==
  ASSUME Rows, NEW i \in Items, NEW new, posts' = [posts EXCEPT ![i] = new],
         Moved(i, posts[i], new, clock, date[i]), UNCHANGED <<clock, date>>
  PROVE  RowsMove
<1>1. ASSUME NEW j \in Items PROVE Moved(j, posts[j], posts'[j], clock, date[j])
  BY DEF Rows, Moved
<1> QED
  BY <1>1 DEF Rows, RowsMove

LEMMA NoRowMoves ==
  ASSUME Rows, UNCHANGED <<posts, clock, date>>
  PROVE  RowsMove
BY DEF Rows, RowsMove, Moved

-----------------------------------------------------------------------------
LEMMA MarkMoves ==
  ASSUME Rows, desk.item \in Items, NEW s, NEW x \in Reasons,
         s \in {"new", "expired", "filtered", "duplicate", "rejected"},
         Mark(s, x), UNCHANGED <<clock, date>>
  PROVE  RowsMove
<1>1. CASE posts[desk.item].status # "new"
  BY <1>1, NoRowMoves DEF Mark
<1>2. CASE posts[desk.item].status = "new"
  <2> DEFINE i == desk.item
             new == [posts[i] EXCEPT !.status = s, !.reason = x]
  <2>1. posts[i] \in Row /\ s \in Statuses
    BY DEF Rows, Statuses
  <2>2. posts' = [posts EXCEPT ![i] = new]
    BY <1>2, <2>1 DEF Mark, Rows, Row
  <2>3. Settled(posts[i], new)
    BY <1>2, <2>1, RowWith, ZenonT(60) DEF Settled
  <2> QED
    BY <2>2, <2>3, OneRowMoves DEF Moved
<1> QED
  BY <1>1, <1>2

LEMMA SendMoves ==
  ASSUME Rows, NEW i \in Items, posts[i].status \in CLAIMABLE, Send(i), UNCHANGED <<clock, date>>
  PROVE  RowsMove
<1>1. PICK s \in {"published", "failed"} : posts' = [posts EXCEPT ![i].status = s]
  BY DEF Send
<1> DEFINE new == [posts[i] EXCEPT !.status = s]
<1>2. posts[i] \in Row /\ s \in Statuses
  BY DEF Rows, Statuses
<1>3. posts' = [posts EXCEPT ![i] = new]
  BY <1>1, <1>2 DEF Rows, Row
<1>4. "other" \in Reasons
  BY DEF Reasons
<1>5. Same(posts[i], new) /\ new.status = s
  BY <1>2, <1>4, RowWith
<1>6. Collected(posts[i], new) \/ HeldBack(posts[i], new)
  BY <1>5 DEF Collected, HeldBack
<1> QED
  BY <1>3, <1>6, OneRowMoves DEF Moved

LEMMA ArriveMoves ==
  ASSUME Rows, clock \in 0..MaxTime, date \in [Items -> (0..MaxTime) \cup {NotYet}],
         raw \in [Items -> 1..2], NEW i \in Items, Arrive(i)
  PROVE  RowsMove
<1>1. PICK revision \in 1..raw[i] : posts' = [posts EXCEPT ![i] = Taken(i, revision)]
  BY DEF Arrive
<1> DEFINE new == Taken(i, revision)
           made == IF Dated(i) THEN date[i] ELSE clock
<1>2. made \in 0..MaxTime /\ made <= clock /\ (Dated(i) => date[i] = made)
  BY DEF Arrive, Dated
<1>3. revision \in 1..2 /\ revision \in 0..2
  BY <1>1
<1>4. /\ new.status = "new" /\ new.made = made /\ new.raw = revision /\ new.text = NoText
      /\ new \in Row
  BY <1>2, <1>3, StartTyped DEF Taken, NoRow, Row, Statuses
<1>5. Entered(i, posts[i], new, clock, date[i])
  BY <1>2, <1>3, <1>4 DEF Entered, Arrive
<1>6. UNCHANGED <<clock, date>>
  BY DEF Arrive, feed
<1> QED
  BY <1>1, <1>5, <1>6, OneRowMoves DEF Moved

LEMMA PreparedMoves ==
  ASSUME Rows, NEW S, posts' = Prepared(S), S \subseteq CLAIMABLE, UNCHANGED <<clock, date>>
  PROVE  RowsMove
<1>1. ASSUME NEW i \in Items PROVE Moved(i, posts[i], posts'[i], clock, date[i])
  <2>1. CASE posts[i].status \notin S
    BY <1>1, <2>1 DEF Prepared, Moved
  <2>2. CASE posts[i].status \in S
    <3> DEFINE new == [posts[i] EXCEPT !.status = "pending", !.reason = "mode_changed"]
    <3>1. posts[i] \in Row /\ "pending" \in Statuses /\ "mode_changed" \in Reasons
      BY DEF Rows, Statuses, Reasons
    <3>2. posts'[i] = new
      BY <2>2 DEF Prepared
    <3>3. Same(posts[i], new)
      BY <3>1, RowWith
    <3>4. new.status = "pending" /\ new.reason = "mode_changed"
      BY <3>1 DEF Row
    <3>5. HeldBack(posts[i], new)
      BY <2>2, <3>3, <3>4 DEF HeldBack
    <3> QED
      BY <3>2, <3>5 DEF Moved
  <2> QED
    BY <2>1, <2>2
<1> QED
  BY <1>1 DEF RowsMove, Prepared

-----------------------------------------------------------------------------
(* The world around the desk.                                              *)

NewsTyped ==
  /\ clock \in 0..MaxTime /\ channel \in Channel
  /\ changes \in 0..MaxChanges /\ recheck \in BOOLEAN
  /\ date \in [Items -> (0..MaxTime) \cup {NotYet}]
  /\ late \subseteq Items /\ page \subseteq Items /\ raw \in [Items -> 1..2]

\* Time passes, or an item appears, and no row changes.
GoesOn ==
  /\ UNCHANGED posts /\ clock <= clock' /\ clock' \in Int
  /\ \A i \in Items : date'[i] = date[i] \/ date[i] = NotYet

LEMMA ExpiredMoves ==
  ASSUME Rows, clock \in Nat, NEW i \in Items
  PROVE  /\ Expired[i] \in Row /\ Expired[i].made = posts[i].made
         /\ posts[i].status = "none" => Expired[i].status = "none"
         /\ Expired[i] = posts[i] \/ Settled(posts[i], Expired[i])
<1> DEFINE new == [posts[i] EXCEPT !.status = "expired", !.reason = "other"]
<1>1. posts[i] \in Row /\ "expired" \in Statuses /\ "other" \in Reasons
  BY DEF Rows, Statuses, Reasons
<1>2. CASE posts[i].status \in {"new", "pending", "approved", "failed", "digest"}
           /\ Expired[i] = new
  <2>1. Same(posts[i], new) /\ new \in Row
    BY <1>1, RowWith
  <2>2. new.status = "expired" /\ new.made = posts[i].made
    BY <1>1 DEF Row
  <2> QED
    BY <1>2, <2>1, <2>2 DEF Settled, CLAIMABLE
<1>3. CASE Expired[i] = posts[i]
  BY <1>1, <1>3
<1> QED
  BY <1>2, <1>3 DEF Expired

LEMMA AgeingMoves ==
  ASSUME Rows, clock \in Nat, ExpireNews \/ PrunePosts
  PROVE  RowsMove
<1>1. UNCHANGED <<clock, date>> /\ posts' = [i \in Items |-> posts'[i]]
  BY DEF ExpireNews, PrunePosts, Expired, feed
<1>2. CASE ExpireNews
  BY <1>1, <1>2, ExpiredMoves DEF ExpireNews, RowsMove, Moved
<1>3. CASE PrunePosts
  <2>1. SUFFICES ASSUME NEW i \in Items
                 PROVE  Moved(i, posts[i], posts'[i], clock, date[i])
    BY <1>1 DEF RowsMove
  <2>2. CASE posts'[i] = Expired[i]
    BY <2>2, ExpiredMoves DEF Moved
  <2>3. CASE posts'[i] = NoRow /\ Expired[i].status # "none" /\ Old(Expired[i])
    BY <2>3, ExpiredMoves DEF Moved, Dropped, Gone, Old
  <2> QED
    BY <1>3, <2>2, <2>3 DEF PrunePosts
<1> QED
  BY <1>2, <1>3

LEMMA ReconsiderMoves ==
  ASSUME Rows, ReconsiderFiltered
  PROVE  RowsMove
<1>1. UNCHANGED <<clock, date>> /\ posts' = [i \in Items |-> posts'[i]]
  BY DEF ReconsiderFiltered, feed
<1>2. SUFFICES ASSUME NEW i \in Items
               PROVE  Moved(i, posts[i], posts'[i], clock, date[i])
  BY <1>1 DEF RowsMove
<1> DEFINE new == [posts[i] EXCEPT !.status = "new", !.reason = "none"]
<1>3. posts[i] \in Row /\ "new" \in Statuses /\ "none" \in Reasons
  BY DEF Rows, Statuses, Reasons
<1>4. Same(posts[i], new)
  BY <1>3, RowWith
<1>5. new.status = "new"
  BY <1>3 DEF Row
<1>6. posts'[i] = posts[i] \/ (posts'[i] = new /\ posts[i].status = "filtered")
  BY DEF ReconsiderFiltered
<1> QED
  BY <1>4, <1>5, <1>6 DEF Moved, Settled

LEMMA RejectMoves ==
  ASSUME Rows, NEW i \in Items, Reject(i)
  PROVE  RowsMove
<1> DEFINE new == [posts[i] EXCEPT !.status = "rejected"]
<1>1. posts[i] \in Row /\ "rejected" \in Statuses /\ "other" \in Reasons
  BY DEF Rows, Statuses, Reasons
<1>2. posts' = [posts EXCEPT ![i] = new] /\ UNCHANGED <<clock, date>>
  BY <1>1 DEF Reject, Rows, Row, feed
<1>3. Same(posts[i], new)
  BY <1>1, RowWith
<1>4. new.status = "rejected"
  BY <1>1 DEF Row
<1>5. Settled(posts[i], new)
  BY <1>3, <1>4 DEF Reject, Settled
<1> QED
  BY <1>2, <1>5, OneRowMoves DEF Moved

LEMMA WorldMoves ==
  ASSUME NewsTyped, Rows, World \/ (\E i \in Items : Arrive(i))
  PROVE  RowsMove \/ GoesOn
<1> USE DEF settings, feed
<1>0. clock \in Nat /\ clock \in Nat
  BY NewsAssumption DEF NewsTyped
<1>1. CASE Tick
  BY <1>0, <1>1 DEF Tick, GoesOn
<1>2. CASE SetPaused \/ SetEdition
  BY <1>0, <1>2, NoRowMoves DEF SetPaused, SetEdition, Set
<1>3. CASE SetAutopost
  <2>1. UNCHANGED <<clock, date>>
    BY <1>3 DEF SetAutopost, Set
  <2>2. {"approved", "digest"} \subseteq CLAIMABLE
    BY DEF CLAIMABLE
  <2> QED
    BY <1>3, <2>1, <2>2, NoRowMoves, PreparedMoves DEF SetAutopost
<1>4. CASE SetMode
  <2>1. UNCHANGED <<clock, date>>
    BY <1>4 DEF SetMode, Set
  <2>2. {"digest"} \subseteq CLAIMABLE
    BY DEF CLAIMABLE
  <2> QED
    BY <1>4, <2>1, <2>2, NoRowMoves, PreparedMoves DEF SetMode
<1>5. CASE ReconsiderFiltered \/ ExpireNews \/ PrunePosts
  BY <1>0, <1>5, ReconsiderMoves, AgeingMoves
<1>6. ASSUME NEW i \in Items, Arrive(i) PROVE RowsMove
  BY <1>6, ArriveMoves DEF NewsTyped
<1>7. ASSUME NEW i \in Items, Appear(i) PROVE GoesOn
  <2>1. UNCHANGED <<posts, clock>> /\ \A j \in Items : date'[j] = date[j] \/ date[j] = NotYet
    BY <1>7 DEF Appear, NewsTyped
  <2> QED
    BY <1>0, <2>1 DEF GoesOn
<1>8. ASSUME NEW i \in Items, Withdraw(i) \/ Revise(i) PROVE RowsMove
  BY <1>8, NoRowMoves DEF Withdraw, Revise
<1>9. ASSUME NEW i \in Items, PublishDue(i) \/ Approve(i) PROVE RowsMove
  BY <1>9, SendMoves DEF PublishDue, Approve, Sendable
<1>10. ASSUME NEW i \in Items, Reject(i) PROVE RowsMove
  BY <1>10, RejectMoves
<1> QED
  BY <1>1, <1>2, <1>3, <1>4, <1>5, <1>6, <1>7, <1>8, <1>9, <1>10 DEF World

LEMMA WorldTyped ==
  ASSUME NewsTyped, World \/ (\E i \in Items : Arrive(i))
  PROVE  NewsTyped'
<1> USE DEF settings, feed
<1>1. CASE Tick
  <2>1. clock' \in 0..MaxTime
    BY <1>1, NewsAssumption DEF Tick, NewsTyped
  <2>2. channel' \in Channel
    BY <1>1, NewsAssumption DEF Tick, NewsTyped, Channel
  <2> QED
    BY <1>1, <2>1, <2>2 DEF Tick, NewsTyped
<1>2. CASE SetPaused \/ SetAutopost \/ SetMode \/ SetEdition
  <2>1. changes' \in 0..MaxChanges
    BY <1>2, NewsAssumption DEF SetPaused, SetAutopost, SetMode, SetEdition, Set, NewsTyped
  <2>2. channel' \in Channel
    BY <1>2 DEF SetPaused, SetAutopost, SetMode, SetEdition, Set, NewsTyped, Channel
  <2>3. recheck' \in BOOLEAN
    BY <1>2 DEF SetPaused, SetAutopost, SetMode, SetEdition, NewsTyped
  <2>4. UNCHANGED <<clock, feed>>
    BY <1>2 DEF SetPaused, SetAutopost, SetMode, SetEdition, Set
  <2> QED
    BY <2>1, <2>2, <2>3, <2>4 DEF NewsTyped
<1>3. CASE ReconsiderFiltered \/ ExpireNews \/ PrunePosts
  BY <1>3 DEF ReconsiderFiltered, ExpireNews, PrunePosts, NewsTyped
<1>4. ASSUME NEW i \in Items, Arrive(i) \/ PublishDue(i) \/ Approve(i) \/ Reject(i) PROVE NewsTyped'
  BY <1>4 DEF Arrive, PublishDue, Approve, Reject, NewsTyped
<1>5. ASSUME NEW i \in Items, Appear(i) PROVE NewsTyped'
  <2>1. date' \in [Items -> (0..MaxTime) \cup {NotYet}]
    BY <1>5 DEF Appear, NewsTyped
  <2>2. late' \subseteq Items /\ page' \subseteq Items
    BY <1>5 DEF Appear, NewsTyped
  <2> QED
    BY <1>5, <2>1, <2>2 DEF Appear, NewsTyped
<1>6. ASSUME NEW i \in Items, Withdraw(i) PROVE NewsTyped'
  BY <1>6 DEF Withdraw, NewsTyped
<1>7. ASSUME NEW i \in Items, Revise(i) PROVE NewsTyped'
  BY <1>7 DEF Revise, NewsTyped
<1> QED
  BY <1>1, <1>2, <1>3, <1>4, <1>5, <1>6, <1>7 DEF World

-----------------------------------------------------------------------------
(* The desk and the request to write anew.                                 *)

Desks == [pc : {"idle", "read", "asked", "answered", "checked", "next", "verify", "sending"},
          item : Items, row : Row, ch : Channel, again : Channel, result : Results,
          once : BOOLEAN, todo : SUBSET Items, raw : [Items -> 1..2]]

\* The row the desk has read is still that row, as long as it cannot be pruned.
DeskRow(i, row, held, hour, dated) ==
  /\ row.status = "new" /\ row.raw \in 1..2
  /\ Dated(i) => dated = row.made
  /\ ~Gone(row, hour) => held.status # "none" /\ held.raw = row.raw /\ held.made = row.made

Working == {"read", "asked", "answered", "checked"}

\* What the desk does is about the row and the settings it has read.
DeskFits ==
  /\ \A i \in desk.todo : date[i] \in 0..clock
  /\ desk.pc \in Working =>
       DeskRow(desk.item, desk.row, posts[desk.item], clock, date[desk.item])
  /\ desk.pc \in {"answered", "checked"} => desk.result \in Outcomes[desk.ch.edition.quality]
  /\ desk.pc = "checked" => desk.again.edition = desk.ch.edition

\* A request to write anew is about a text of the row's revision.
RedraftFits ==
  redraft.pc = "asked" => redraft.text # NoText /\ redraft.text.raw = redraft.raw

DeskInv == desk \in Desks /\ DeskFits
RedraftTyped ==
  redraft \in [pc : {"idle", "asked"}, item : Items, raw : 0..2, text : Text,
               edition : Editions]

LEMMA DeskFields ==
  ASSUME NEW d \in Desks
  PROVE  /\ d.item \in Items /\ d.row \in Row /\ d.ch \in Channel /\ d.again \in Channel
         /\ d.result \in Results /\ d.once \in BOOLEAN /\ d.todo \subseteq Items
         /\ d.raw \in [Items -> 1..2]
         /\ d.pc \in {"idle", "read", "asked", "answered", "checked", "next", "verify", "sending"}
BY DEF Desks

LEMMA IdleTyped == Idle \in Desks /\ Idle.pc = "idle" /\ Idle.todo = {}
BY NewsAssumption, StartTyped, NoRowTyped, NoResultIsOne DEF Idle, Desks

\* What others do meanwhile to the row the desk has read.
LEMMA DeskRowStays ==
  ASSUME NEW i, NEW row \in Row, NEW held \in Row, NEW new, NEW hour \in Int, NEW dated,
         DeskRow(i, row, held, hour, dated), Moved(i, held, new, hour, dated)
  PROVE  DeskRow(i, row, new, hour, dated)
<1>1. held.made \in Int /\ row.made \in Int
  BY RowFields
<1>2. CASE Gone(row, hour)
  BY <1>2 DEF DeskRow, Dated, Gone
<1>3. CASE ~Gone(row, hour)
  <2>1. held.status # "none" /\ held.raw = row.raw /\ held.made = row.made /\ ~Gone(held, hour)
    BY <1>3 DEF DeskRow, Gone
  <2>2. ~Dropped(held, new, hour) /\ ~Entered(i, held, new, hour, dated)
    BY <2>1 DEF Dropped, Entered
  <2>3. new.status # "none" /\ new.raw = held.raw /\ new.made = held.made
    BY <2>1, <2>2 DEF Moved, Settled, HeldBack, Collected, Worded, Same, CLAIMABLE
  <2> QED
    BY <2>1, <2>3 DEF DeskRow, Dated
<1> QED
  BY <1>2, <1>3

LEMMA DeskRowAges ==
  ASSUME NEW i, NEW row \in Row, NEW held, NEW hour \in Int, NEW later \in Int, hour <= later,
         NEW dated, NEW dated2, dated2 = dated \/ dated = NotYet,
         DeskRow(i, row, held, hour, dated)
  PROVE  DeskRow(i, row, held, later, dated2)
<1>1. row.made \in Nat
  BY RowFields
<1>2. KeepRows \in Int
  BY NewsAssumption
<1> QED
  BY <1>1, <1>2 DEF DeskRow, Dated, Gone, NotYet

\* The desk waits while others work.
LEMMA DeskWaits ==
  ASSUME NewsTyped, Rows, DeskInv, desk' = desk, RowsMove \/ GoesOn
  PROVE  DeskInv'
<1>1. clock \in Nat /\ clock \in Nat /\ desk.item \in Items /\ desk.row \in Row
      /\ posts[desk.item] \in Row /\ desk.todo \subseteq Items
  BY NewsAssumption, DeskFields DEF NewsTyped, DeskInv, Rows
<1>2. CASE RowsMove
  <2>1. clock' = clock /\ date' = date
    BY <1>2 DEF RowsMove
  <2>2. desk.pc \in Working =>
          DeskRow(desk.item, desk.row, posts'[desk.item], clock, date[desk.item])
    BY <1>1, <1>2, DeskRowStays DEF DeskInv, DeskFits, RowsMove
  <2> QED
    BY <2>1, <2>2 DEF DeskInv, DeskFits
<1>3. CASE GoesOn
  <2>1. clock <= clock' /\ clock' \in Int /\ posts' = posts
        /\ \A i \in Items : date'[i] = date[i] \/ date[i] = NotYet
    BY <1>3 DEF GoesOn
  <2>2. desk.pc \in Working =>
          DeskRow(desk.item, desk.row, posts[desk.item], clock', date'[desk.item])
    BY <1>1, <2>1, DeskRowAges DEF DeskInv, DeskFits
  <2>3. \A i \in desk.todo : date'[i] \in 0..clock'
    <3>1. ASSUME NEW i \in desk.todo PROVE date'[i] \in 0..clock'
      <4>1. date[i] \in 0..clock /\ date[i] # NotYet
        BY DEF DeskInv, DeskFits, NotYet
      <4>2. date'[i] = date[i]
        BY <1>1, <2>1, <4>1
      <4> QED
        BY <1>1, <2>1, <4>1, <4>2
    <3> QED
      BY <3>1
  <2> QED
    BY <2>1, <2>2, <2>3 DEF DeskInv, DeskFits
<1> QED
  BY <1>2, <1>3

LEMMA LeaveFits ==
  ASSUME DeskInv, Leave, UNCHANGED <<clock, date>>
  PROVE  DeskInv'
<1>1. CASE desk' = Idle
  BY <1>1, IdleTyped DEF DeskInv, DeskFits, Working
<1>2. CASE desk' = [desk EXCEPT !.pc = "verify", !.row = NoRow, !.again = Start,
                                !.result = NoResult]
  <2>1. desk' \in Desks
    BY <1>2, StartTyped, NoRowTyped, NoResultIsOne DEF DeskInv, Desks
  <2>2. desk'.pc = "verify" /\ desk'.todo = desk.todo
    BY <1>2 DEF DeskInv, Desks
  <2> QED
    BY <2>1, <2>2 DEF DeskInv, DeskFits, Working
<1> QED
  BY <1>1, <1>2 DEF Leave

\* The desk goes on: what it had read it still has.
LEMMA GoesOnFits ==
  ASSUME DeskInv, Rows, RowsMove, clock \in Nat, NEW d \in Desks, desk' = d,
         d.pc \in Working => desk.pc \in Working /\ d.row = desk.row /\ d.item = desk.item,
         d.todo = desk.todo,
         d.pc \in {"answered", "checked"} => d.result \in Outcomes[d.ch.edition.quality],
         d.pc = "checked" => d.again.edition = d.ch.edition
  PROVE  DeskInv'
<1>1. desk.item \in Items /\ desk.row \in Row /\ posts[desk.item] \in Row
  BY DeskFields DEF DeskInv, Rows
<1>2. clock' = clock /\ date' = date
  BY DEF RowsMove
<1>3. desk.pc \in Working =>
        DeskRow(desk.item, desk.row, posts'[desk.item], clock, date[desk.item])
  BY <1>1, DeskRowStays DEF DeskInv, DeskFits, RowsMove
<1> QED
  BY <1>2, <1>3 DEF DeskInv, DeskFits

LEMMA PickUpFits ==
  ASSUME NewsTyped, Rows, DeskInv, NEW i \in Items, PickUp(i)
  PROVE  RowsMove /\ DeskInv'
<1> DEFINE d == [Idle EXCEPT !.pc = "read", !.item = i, !.row = posts[i], !.ch = channel]
<1>1. UNCHANGED <<posts, clock, date>> /\ desk' = d /\ posts[i].status = "new"
  BY DEF PickUp, Untouched, feed
<1>2. posts[i] \in Row /\ channel \in Channel /\ RowOK(i, posts[i], clock, date[i])
  BY DEF NewsTyped, Rows
<1>3. d \in Desks
  BY <1>2, IdleTyped DEF Desks
<1>4. d.pc = "read" /\ d.item = i /\ d.row = posts[i] /\ d.todo = {}
  BY IdleTyped DEF Desks, Idle
<1>5. DeskRow(i, posts[i], posts[i], clock, date[i])
  BY <1>1, <1>2 DEF RowOK, DeskRow
<1> HIDE DEF d
<1>6. DeskInv'
  BY <1>1, <1>3, <1>4, <1>5 DEF DeskInv, DeskFits
<1> QED
  BY <1>1, <1>6, NoRowMoves

LEMMA JudgeFits ==
  ASSUME NewsTyped, Rows, DeskInv, Judge
  PROVE  RowsMove /\ DeskInv'
<1>0. /\ UNCHANGED <<clock, date>> /\ clock \in Nat /\ desk.pc = "read" /\ desk.item \in Items
      /\ "other" \in Reasons /\ "no_media" \in Reasons
  BY DeskFields DEF Judge, Untouched, feed, NewsTyped, Reasons, DeskInv
<1>1. \/ Leave /\ (UNCHANGED posts \/ Mark("expired", "other") \/ Mark("filtered", "no_media")
                   \/ Mark("duplicate", "other"))
      \/ desk' = [desk EXCEPT !.pc = "asked"] /\ UNCHANGED posts
  BY Zenon DEF Judge
<1>2. CASE Leave /\ UNCHANGED posts
  BY <1>0, <1>2, LeaveFits, NoRowMoves
<1>3. CASE Leave /\ (Mark("expired", "other") \/ Mark("filtered", "no_media")
                     \/ Mark("duplicate", "other"))
  BY <1>0, <1>3, LeaveFits, MarkMoves
<1>4. CASE desk' = [desk EXCEPT !.pc = "asked"] /\ UNCHANGED posts
  <2>1. RowsMove
    BY <1>0, <1>4, NoRowMoves
  <2> DEFINE d == [desk EXCEPT !.pc = "asked"]
  <2>2. d \in Desks /\ d.pc = "asked" /\ d.row = desk.row /\ d.item = desk.item /\ d.todo = desk.todo
    BY DEF DeskInv, Desks
  <2> QED
    BY <1>0, <1>4, <2>1, <2>2, GoesOnFits DEF Working
<1> QED
  BY <1>1, <1>2, <1>3, <1>4

LEMMA AnswerFits ==
  ASSUME NewsTyped, Rows, DeskInv, Answer
  PROVE  RowsMove /\ DeskInv'
<1>0. /\ UNCHANGED <<clock, date>> /\ clock \in Nat /\ desk.pc = "asked" /\ desk.item \in Items
      /\ "other" \in Reasons
  BY DeskFields DEF Answer, Untouched, feed, NewsTyped, Reasons, DeskInv
<1>1. PICK result \in Outcomes[desk.ch.edition.quality] :
         \/ Mark("new", "other") /\ Leave
         \/ UNCHANGED posts /\ desk' = [desk EXCEPT !.pc = "answered", !.result = result]
  BY DEF Answer
<1>2. CASE Mark("new", "other") /\ Leave
  BY <1>0, <1>2, LeaveFits, MarkMoves
<1>3. CASE UNCHANGED posts /\ desk' = [desk EXCEPT !.pc = "answered", !.result = result]
  <2>1. RowsMove
    BY <1>0, <1>3, NoRowMoves
  <2> DEFINE d == [desk EXCEPT !.pc = "answered", !.result = result]
  <2>2. desk.ch \in Channel /\ desk.ch.edition.quality \in Qualities
    BY EditionAssumption, DeskFields DEF DeskInv, Channel
  <2>3. result \in Results
    BY <1>1, <2>2 DEF Results
  <2>4. d \in Desks
    BY <2>3 DEF DeskInv, Desks
  <2>5. /\ d.pc = "answered" /\ d.row = desk.row /\ d.item = desk.item /\ d.todo = desk.todo
        /\ d.result = result /\ d.ch = desk.ch
    BY DEF DeskInv, Desks
  <2> HIDE DEF d
  <2>6. d.result \in Outcomes[d.ch.edition.quality] /\ desk' = d
    BY <1>3, <2>5 DEF d
  <2> QED
    BY <1>0, <2>1, <2>4, <2>5, <2>6, GoesOnFits DEF Working
<1> QED
  BY <1>1, <1>2, <1>3

LEMMA TimeOutFits ==
  ASSUME NewsTyped, Rows, DeskInv, TimeOut
  PROVE  RowsMove /\ DeskInv'
<1>0. UNCHANGED <<clock, date>> /\ desk.item \in Items /\ "other" \in Reasons
  BY DeskFields DEF TimeOut, Untouched, feed, Reasons, DeskInv
<1>1. RowsMove
  BY <1>0, NoRowMoves, MarkMoves DEF TimeOut
<1>2. DeskInv'
  BY IdleTyped DEF TimeOut, DeskInv, DeskFits, Working
<1> QED
  BY <1>1, <1>2

LEMMA RereadFits ==
  ASSUME NewsTyped, Rows, DeskInv, Reread
  PROVE  RowsMove /\ DeskInv'
<1>0. /\ UNCHANGED <<clock, date>> /\ clock \in Nat /\ desk.pc = "answered" /\ desk.item \in Items
      /\ "other" \in Reasons /\ channel \in Channel
  BY DeskFields DEF Reread, Untouched, feed, NewsTyped, Reasons, DeskInv
<1>1. CASE channel.edition # desk.ch.edition
  BY <1>0, <1>1, LeaveFits, MarkMoves DEF Reread
<1>2. CASE channel.edition = desk.ch.edition
  <2> DEFINE d == [desk EXCEPT !.pc = "checked", !.again = channel]
  <2>1. RowsMove /\ desk' = d
    BY <1>0, <1>2, NoRowMoves DEF Reread
  <2>2. d \in Desks
    BY <1>0 DEF DeskInv, Desks
  <2>3. /\ d.pc = "checked" /\ d.row = desk.row /\ d.item = desk.item /\ d.todo = desk.todo
        /\ d.result = desk.result /\ d.ch = desk.ch /\ d.again = channel
    BY DEF DeskInv, Desks
  <2> HIDE DEF d
  <2>4. d.result \in Outcomes[d.ch.edition.quality]
    BY <1>0, <2>3 DEF DeskInv, DeskFits
  <2> QED
    BY <1>0, <1>2, <2>1, <2>2, <2>3, <2>4, GoesOnFits DEF Working
<1> QED
  BY <1>1, <1>2

LEMMA KeptLongEnough ==
  ASSUME NEW row \in Row, NEW mode, clock \in Nat, ~Stale(row, mode)
  PROVE  ~Gone(row, clock) /\ (row.made # NotYet => ~Past(clock, row.made))
<1>1. row.made \in Int /\ KeepNews \in Int /\ KeepRows \in Int /\ 0 <= KeepNews /\ KeepNews <= KeepRows
  BY RowFields, NewsAssumption
<1>2. Retention(mode) \in {0, KeepNews}
  BY DEF Retention
<1> QED
  BY <1>1, <1>2 DEF Stale, Gone, Past

\* The prepared text goes into its row.
LEMMA WordMoves ==
  ASSUME NewsTyped, Rows, DeskInv, UNCHANGED <<clock, date>>,
         desk.pc = "checked", desk.result.verdict = "ready", NEW mode, ~Stale(desk.row, mode),
         NEW status \in {"pending", "approved", "digest"}, status # "pending" => desk.result.sure,
         posts[desk.item].status = "new",
         posts' = [posts EXCEPT ![desk.item] =
                     [@ EXCEPT !.status = status, !.text = Written,
                               !.reason = IF desk.result.sure THEN "none" ELSE "review"]]
  PROVE  RowsMove
<1> DEFINE i == desk.item
           held == posts[i]
           reason == IF desk.result.sure THEN "none" ELSE "review"
           new == [held EXCEPT !.status = status, !.text = Written, !.reason = reason]
<1>1. /\ clock \in Nat /\ i \in Items /\ desk.row \in Row /\ held \in Row
      /\ desk.ch \in Channel /\ desk.again \in Channel
  BY DeskFields DEF NewsTyped, DeskInv, Rows
<1>2. /\ desk.ch.edition \in Editions /\ desk.again.edition \in Editions
      /\ desk.ch.edition.quality \in Qualities
  BY <1>1, EditionAssumption DEF Channel
<1>3. desk.result \in Outcomes[desk.ch.edition.quality]
      /\ desk.again.edition = desk.ch.edition
      /\ DeskRow(i, desk.row, held, clock, date[i])
  BY DEF DeskInv, DeskFits, Working
<1>4. desk.result.sure \in BOOLEAN /\ desk.result.checked \in BOOLEAN
      /\ (desk.ch.edition.quality = "super" => desk.result.checked)
  BY <1>2, <1>3, ReadyIsChecked
<1>5. desk.row.raw \in 1..2 /\ desk.row.raw \in 0..2 /\ (Dated(i) => date[i] = desk.row.made)
  BY <1>3 DEF DeskRow
<1>6. /\ Written \in Text /\ Written.raw = desk.row.raw /\ Written.sure = desk.result.sure
      /\ Written.checked = desk.result.checked
      /\ Written.asked = desk.ch.edition /\ Written.answered = desk.ch.edition
  BY <1>2, <1>3, <1>4, <1>5 DEF Written, Text
<1>7. ~Gone(desk.row, clock) /\ (desk.row.made # NotYet => ~Past(clock, desk.row.made))
  BY <1>1, KeptLongEnough
<1>8. Dated(i) => ~Past(clock, date[i])
  <2>1. desk.row.made # NotYet
    BY <1>1, RowFields DEF NotYet
  <2> QED
    BY <1>5, <1>7, <2>1
<1>9. held.raw = desk.row.raw
  BY <1>3, <1>7 DEF DeskRow
<1>10. status \in Statuses /\ reason \in {"none", "review"} /\ (reason = "none" => desk.result.sure)
  BY DEF Statuses
<1> HIDE DEF reason
<1>11. /\ new \in Row /\ new.made = held.made /\ new.raw = held.raw /\ new.status = status
       /\ new.text = Written /\ new.reason = reason
  BY <1>1, <1>6, <1>10 DEF Row
<1> HIDE DEF new
<1>12. ClearText(new.text) \/ (new.status = "pending" /\ new.reason # "none")
  BY <1>4, <1>6, <1>10, <1>11 DEF ClearText
<1>13. Worded(i, held, new, clock, date[i])
  BY <1>6, <1>8, <1>9, <1>11, <1>12 DEF Worded, OneEditionText
<1>14. posts' = [posts EXCEPT ![i] = new]
  BY <1>1 DEF new, reason, Rows
<1> QED
  BY <1>1, <1>13, <1>14, OneRowMoves DEF Moved

LEMMA WriteFits ==
  ASSUME NewsTyped, Rows, DeskInv, Write
  PROVE  RowsMove /\ DeskInv'
<1>0. /\ UNCHANGED <<clock, date>> /\ clock \in Nat /\ desk.pc = "checked" /\ desk.item \in Items
      /\ "other" \in Reasons /\ Leave
  <2>1. Leave /\ Untouched /\ desk.pc = "checked"
    BY Zenon DEF Write
  <2> QED
    BY <2>1, DeskFields DEF Untouched, feed, NewsTyped, Reasons, DeskInv
<1>1. DeskInv'
  BY <1>0, LeaveFits
<1> DEFINE ch == View(desk.again)
<1>2. \/ Mark("duplicate", "other") \/ Mark("new", "other") \/ Mark("filtered", "other")
      \/ Mark("expired", "other") \/ UNCHANGED posts
      \/ /\ desk.result.verdict = "ready" /\ ~Stale(desk.row, ch.mode)
         /\ posts[desk.item].status = "new"
         /\ \E status \in Destinations(ch) :
              posts' = [posts EXCEPT ![desk.item] =
                         [@ EXCEPT !.status = status, !.text = Written,
                                   !.reason = IF desk.result.sure THEN "none" ELSE "review"]]
  BY Zenon DEF Write
<1>3. CASE \/ Mark("duplicate", "other") \/ Mark("new", "other") \/ Mark("filtered", "other")
           \/ Mark("expired", "other") \/ UNCHANGED posts
  BY <1>0, <1>1, <1>3, MarkMoves, NoRowMoves
<1>4. ASSUME desk.result.verdict = "ready", ~Stale(desk.row, ch.mode),
             posts[desk.item].status = "new", NEW status \in Destinations(ch),
             posts' = [posts EXCEPT ![desk.item] =
                        [@ EXCEPT !.status = status, !.text = Written,
                                  !.reason = IF desk.result.sure THEN "none" ELSE "review"]]
      PROVE  RowsMove
  <2>1. status \in {"pending", "approved", "digest"} /\ (status # "pending" => desk.result.sure)
    BY <1>4 DEF Destinations
  <2> HIDE DEF ch
  <2> QED
    BY <1>0, <1>4, <2>1, WordMoves
<1> QED
  BY <1>1, <1>2, <1>3, <1>4

LEMMA PublishNowFits ==
  ASSUME NewsTyped, Rows, DeskInv, PublishNow
  PROVE  RowsMove /\ DeskInv'
<1> DEFINE todo == {i \in page : Dated(i) /\ date[i] = clock}
           d == [Idle EXCEPT !.pc = "next", !.once = TRUE, !.ch = channel, !.raw = raw,
                             !.todo = todo]
<1>1. UNCHANGED <<posts, clock, date>> /\ desk' = d
  BY DEF PublishNow, Untouched, feed
<1>2. todo \subseteq Items /\ \A i \in todo : date[i] \in 0..clock
  BY NewsAssumption DEF NewsTyped
<1> HIDE DEF todo
<1>3. d \in Desks
  BY <1>2, IdleTyped DEF NewsTyped, Desks
<1>4. d.pc = "next" /\ d.todo = todo
  BY IdleTyped DEF Desks
<1> HIDE DEF d
<1>5. DeskInv'
  BY <1>1, <1>2, <1>3, <1>4 DEF DeskInv, DeskFits, Working
<1> QED
  BY <1>1, <1>5, NoRowMoves

\* A candidate is begun anew; the other rows stay.
CandidateBegins ==
  \E i \in Items : \E new : /\ BegunAnew(i, posts[i], new, clock, date[i])
                            /\ posts' = [posts EXCEPT ![i] = new]
                            /\ UNCHANGED <<clock, date>>

LEMMA CandidateOK ==
  ASSUME Rows, clock \in Nat, CandidateBegins
  PROVE  Rows'
<1>1. PICK i \in Items : \E new : /\ BegunAnew(i, posts[i], new, clock, date[i])
                            /\ posts' = [posts EXCEPT ![i] = new]
                            /\ UNCHANGED <<clock, date>>
  BY DEF CandidateBegins
<1>2. PICK new : /\ BegunAnew(i, posts[i], new, clock, date[i])
                 /\ posts' = [posts EXCEPT ![i] = new]
                 /\ UNCHANGED <<clock, date>>
  BY <1>1
<1>3. RowOK(i, new, clock, date[i]) /\ new \in Row
  BY <1>2, MovedOK DEF Rows, BegunAnew
<1>4. posts' \in [Items -> Row]
  BY <1>2, <1>3 DEF Rows
<1>5. \A j \in Items : RowOK(j, posts'[j], clock, date[j])
  BY <1>2, <1>3 DEF Rows
<1> QED
  BY <1>2, <1>4, <1>5 DEF Rows

LEMMA CandidateFits ==
  ASSUME NewsTyped, Rows, DeskInv, NEW i \in Items, NextCandidate(i)
  PROVE  (RowsMove \/ CandidateBegins) /\ DeskInv'
<1> DEFINE new == Renewed(i)
           todo == desk.todo \ {i}
<1>0. /\ UNCHANGED <<clock, date>> /\ clock \in Nat /\ desk \in Desks
      /\ \A j \in todo : date[j] \in 0..clock
      /\ date[i] \in 0..clock /\ desk.raw[i] \in 1..2 /\ desk.raw[i] \in 0..2
      /\ date[i] \in (0..MaxTime) \cup {NotYet}
  BY DeskFields DEF NextCandidate, Untouched, feed, NewsTyped, DeskInv, DeskFits
<1>1. CASE ~Renewable(posts[i])
  <2> DEFINE d == [desk EXCEPT !.todo = todo]
  <2>1. desk' = d /\ UNCHANGED posts
    BY <1>1 DEF NextCandidate
  <2>2. d \in Desks /\ d.pc = desk.pc /\ d.todo = todo
    BY <1>0 DEF Desks
  <2>3. desk.pc = "next"
    BY DEF NextCandidate
  <2> HIDE DEF d
  <2>4. DeskInv'
    BY <1>0, <2>1, <2>2, <2>3 DEF DeskInv, DeskFits, Working
  <2> QED
    BY <1>0, <2>1, <2>4, NoRowMoves
<1>2. CASE Renewable(posts[i])
  <2> DEFINE d == [desk EXCEPT !.pc = "read", !.item = i, !.row = new, !.todo = todo]
  <2>1. desk' = d /\ posts' = [posts EXCEPT ![i] = new]
    BY <1>2 DEF NextCandidate
  <2>2. date[i] \in 0..MaxTime /\ date[i] <= clock
    BY <1>0 DEF NotYet
  <2>3. /\ new.status = "new" /\ new.made = date[i] /\ new.raw = desk.raw[i]
        /\ new.text = NoText /\ new \in Row
    BY <1>0, <2>2, StartTyped DEF Renewed, NoRow, Row, Statuses
  <2> HIDE DEF new
  <2>4. d \in Desks
    BY <1>0, <2>3 DEF Desks
  <2>5. d.pc = "read" /\ d.item = i /\ d.row = new /\ d.todo = todo
    BY <1>0 DEF Desks
  <2>6. posts[i].status \in {"none", "new", "approved", "pending"}
    BY <1>2 DEF Renewable
  <2>7. BegunAnew(i, posts[i], new, clock, date[i])
    BY <1>0, <2>2, <2>3, <2>6 DEF BegunAnew
  <2>8. posts'[i] = new
    BY <2>1 DEF Rows
  <2>9. DeskRow(i, new, posts'[i], clock, date[i])
    BY <1>0, <2>3, <2>8 DEF DeskRow
  <2> HIDE DEF d
  <2>10. DeskInv'
    BY <1>0, <2>1, <2>4, <2>5, <2>9 DEF DeskInv, DeskFits
  <2> QED
    BY <1>0, <2>1, <2>7, <2>10 DEF CandidateBegins
<1> QED
  BY <1>1, <1>2

LEMMA VerifyFits ==
  ASSUME NewsTyped, Rows, DeskInv, Verify \/ SendNow \/ Exhausted
  PROVE  RowsMove /\ DeskInv'
<1>0. UNCHANGED <<clock, date>> /\ desk.item \in Items
  BY DeskFields DEF Verify, SendNow, Exhausted, Untouched, feed, DeskInv
<1>1. RowsMove
  BY <1>0, NoRowMoves, SendMoves DEF Verify, SendNow, Exhausted, Sendable
<1>2. CASE desk' = Idle
  BY <1>1, <1>2, IdleTyped DEF DeskInv, DeskFits, Working
<1>3. CASE desk' = [desk EXCEPT !.pc = "next"]
  <2>1. desk' \in Desks /\ desk'.pc = "next" /\ desk'.todo = desk.todo
    BY <1>3 DEF DeskInv, Desks
  <2> QED
    BY <1>0, <1>1, <2>1 DEF DeskInv, DeskFits, Working
<1>4. CASE desk' = [Idle EXCEPT !.pc = "sending", !.item = desk.item, !.once = TRUE]
  <2>1. desk' \in Desks /\ desk'.pc = "sending" /\ desk'.todo = {}
    <3>1. Idle \in Desks /\ Idle.todo = {} /\ desk.item \in Items
      BY <1>0, IdleTyped
    <3> QED
      BY <1>4, <3>1 DEF Desks
  <2> QED
    BY <1>1, <2>1 DEF DeskInv, DeskFits, Working
<1> QED
  BY <1>1, <1>2, <1>3, <1>4 DEF Verify, SendNow, Exhausted

-----------------------------------------------------------------------------
(* The owner asks for another text.                                        *)

RedraftInv == RedraftTyped /\ RedraftFits

LEMMA NoRedraftTyped == NoRedraft.pc = "idle" /\ redraft' = NoRedraft => RedraftInv'
BY NewsAssumption, StartTyped DEF NoRedraft, RedraftInv, RedraftTyped, RedraftFits

LEMMA AskRedraftFits ==
  ASSUME NewsTyped, Rows, NEW i \in Items, AskRedraft(i)
  PROVE  RedraftInv'
<1>1. posts[i] \in Row /\ channel.edition \in Editions /\ RowOK(i, posts[i], clock, date[i])
      /\ posts[i].status \in CLAIMABLE
  BY DEF NewsTyped, Rows, Channel, AskRedraft
<1>2. posts[i].raw \in 0..2 /\ posts[i].text \in Text
  BY <1>1, RowFields
<1>3. posts[i].text # NoText /\ posts[i].text.raw = posts[i].raw
  BY <1>1 DEF RowOK
<1>4. redraft' = [pc |-> "asked", item |-> i, raw |-> posts[i].raw, text |-> posts[i].text,
                  edition |-> channel.edition]
  BY DEF AskRedraft
<1> QED
  BY <1>1, <1>2, <1>3, <1>4 DEF RedraftInv, RedraftTyped, RedraftFits

LEMMA ReplaceMoves ==
  ASSUME NewsTyped, Rows, RedraftInv, ReplaceDraft
  PROVE  RowsMove /\ RedraftInv'
<1> DEFINE i == redraft.item
           text(result) == [raw |-> redraft.raw, asked |-> redraft.edition,
                            answered |-> channel.edition, own |-> TRUE,
                            sure |-> result.sure, checked |-> result.checked]
           new(result) == [posts[i] EXCEPT !.text = text(result),
                                           !.status = IF result.sure THEN posts[i].status ELSE "pending",
                                           !.reason = IF result.sure THEN posts[i].reason ELSE "review"]
<1>1. PICK result \in Outcomes[redraft.edition.quality] :
         posts' = IF result.verdict = "ready" /\ SameDraft(i)
                  THEN [posts EXCEPT ![i] = new(result)] ELSE posts
  BY DEF ReplaceDraft
<1>2. UNCHANGED <<clock, date>> /\ redraft.pc = "asked" /\ RedraftInv'
  BY NoRedraftTyped DEF ReplaceDraft, feed, NoRedraft
<1>3. /\ i \in Items /\ redraft.raw \in 0..2 /\ redraft.edition \in Editions
      /\ redraft.edition.quality \in Qualities /\ channel.edition \in Editions
      /\ posts[i] \in Row
  BY EditionAssumption DEF RedraftInv, RedraftTyped, NewsTyped, Channel, Rows
<1>4. CASE posts' = posts
  BY <1>2, <1>4, NoRowMoves
<1>5. CASE result.verdict = "ready" /\ SameDraft(i)
  <2>1. /\ result.sure \in BOOLEAN /\ result.checked \in BOOLEAN
        /\ redraft.edition.quality = "super" => result.checked
    BY <1>3, <1>5, ReadyIsChecked
  <2>2. /\ posts[i].status \in CLAIMABLE /\ posts[i].text # NoText
        /\ posts[i].raw = redraft.raw
    BY <1>2, <1>3, <1>5 DEF SameDraft, RedraftInv, RedraftFits, Rows, RowOK
  <2> DEFINE t == text(result)
             n == [posts[i] EXCEPT !.text = t,
                                   !.status = IF result.sure THEN posts[i].status ELSE "pending",
                                   !.reason = IF result.sure THEN posts[i].reason ELSE "review"]
  <2>3. /\ t \in Text /\ t.raw = redraft.raw /\ t.own = TRUE
        /\ t.sure = result.sure /\ t.checked = result.checked /\ t.asked = redraft.edition
    BY <1>3, <2>1 DEF Text
  <2>4. posts' = [posts EXCEPT ![i] = n]
    BY <1>1, <1>5
  <2>7. MayGoNow(t)
    BY <2>1, <2>3 DEF MayGoNow
  <2> HIDE DEF t, text
  <2>5. CASE result.sure
    <3>1. n = [posts[i] EXCEPT !.text = t]
      BY <1>3, <2>5 DEF Row
    <3>2. /\ n \in Row /\ n.made = posts[i].made /\ n.raw = posts[i].raw /\ n.text = t
          /\ n.status = posts[i].status /\ n.reason = posts[i].reason
      BY <1>3, <2>3, <3>1 DEF Row
    <3>3. ClearText(t)
      BY <2>1, <2>3, <2>5 DEF ClearText
    <3> HIDE DEF n
    <3>4. Worded(i, posts[i], n, clock, date[i])
      BY <2>2, <2>3, <2>7, <3>2, <3>3 DEF Worded, OneEditionText
    <3> QED
      BY <1>2, <1>3, <2>4, <3>4, OneRowMoves DEF Moved
  <2>6. CASE ~result.sure
    <3>1. n = [posts[i] EXCEPT !.text = t, !.status = "pending", !.reason = "review"]
      BY <1>3, <2>6 DEF Row
    <3>2. /\ n \in Row /\ n.made = posts[i].made /\ n.raw = posts[i].raw /\ n.text = t
          /\ n.status = "pending" /\ n.reason = "review"
      BY <1>3, <2>3, <3>1 DEF Row, Statuses
    <3> HIDE DEF n
    <3>4. Worded(i, posts[i], n, clock, date[i])
      BY <2>2, <2>3, <2>7, <3>2 DEF Worded, OneEditionText
    <3> QED
      BY <1>2, <1>3, <2>4, <3>4, OneRowMoves DEF Moved
  <2> QED
    BY <2>1, <2>5, <2>6
<1> QED
  BY <1>1, <1>2, <1>4, <1>5

-----------------------------------------------------------------------------
(* The digests and how often readers were shown an item.                   *)

DigestStatuses == {"approved", "pending", "published", "failed", "rejected"}
Runs == [pc : {"idle", "asked", "made"}, rows : [Items -> Row], members : SUBSET Items,
         edition : Editions, post : Nat]

DigestsInv ==
  /\ digests \in Seq(Digest) /\ aired \in [Items -> Nat]
  /\ sentOn \in Nat \cup {Never}
  /\ runner \in [Runners -> Runs]
  /\ \A d \in Runners : /\ runner[d].post <= Len(digests)
                        /\ runner[d].pc = "made" => runner[d].post > 0

\* A step that makes no digest and sends nothing.
Quiet ==
  /\ aired' = aired /\ digests' \in Seq(Digest) /\ Len(digests') = Len(digests)
  /\ \A k \in 1..Len(digests) :
       /\ digests'[k].members = digests[k].members
       /\ digests'[k].status # "published" => digests[k].status # "published"

LEMMA DigestSeq ==
  ASSUME DigestsInv
  PROVE  /\ Len(digests) \in Nat /\ DOMAIN digests = 1..Len(digests)
         /\ \A k \in 1..Len(digests) : /\ digests[k] \in Digest
                                       /\ digests[k].members \subseteq Items
                                       /\ digests[k].status \in DigestStatuses
<1>1. Len(digests) \in Nat /\ DOMAIN digests = 1..Len(digests)
      /\ digests \in [1..Len(digests) -> Digest]
  BY LenProperties DEF DigestsInv
<1> QED
  BY <1>1 DEF Digest, DigestStatuses

LEMMA AloneQuiet ==
  ASSUME DigestsInv, UNCHANGED <<digests, aired>>
  PROVE  Quiet
BY DEF DigestsInv, Quiet

\* A digest with another status.
LEMMA DigestWith ==
  ASSUME DigestsInv, NEW k \in 1..Len(digests), NEW s \in DigestStatuses,
         digests' = [digests EXCEPT ![k].status = s]
  PROVE  /\ digests' \in Seq(Digest) /\ Len(digests') = Len(digests)
         /\ digests'[k].status = s
         /\ \A l \in 1..Len(digests) : /\ digests'[l].members = digests[l].members
                                       /\ l # k => digests'[l] = digests[l]
<1> DEFINE n == Len(digests)
           new == [digests[k] EXCEPT !.status = s]
<1>1. /\ n \in Nat /\ DOMAIN digests = 1..n /\ digests[k] \in Digest
      /\ digests \in [1..n -> Digest]
  BY DigestSeq, LenProperties DEF DigestsInv
<1>2. new \in Digest /\ new.status = s /\ new.members = digests[k].members
  BY <1>1 DEF Digest, DigestStatuses
<1>3. digests' = [digests EXCEPT ![k] = new]
  BY <1>1
<1> HIDE DEF new, n
<1>4. digests' \in [1..n -> Digest]
  BY <1>1, <1>2, <1>3
<1>5. digests' \in Seq(Digest) /\ Len(digests') = n
  BY <1>1, <1>4, SeqDef, LenProperties
<1> QED
  BY <1>1, <1>2, <1>3, <1>5 DEF n

\* Switching automatic publication off holds back what was to be sent.
LEMMA AutopostQuiet ==
  ASSUME DigestsInv, SetAutopost
  PROVE  Quiet
<1>1. aired' = aired
  BY DEF SetAutopost, Set
<1>2. CASE digests' = digests
  BY <1>1, <1>2, AloneQuiet
<1>3. CASE digests' = [k \in DOMAIN digests |->
             IF digests[k].status = "approved" THEN [digests[k] EXCEPT !.status = "pending"]
                                               ELSE digests[k]]
  <2> DEFINE n == Len(digests)
  <2>1. n \in Nat /\ DOMAIN digests = 1..n /\ \A k \in 1..n : digests[k] \in Digest
    BY DigestSeq
  <2>2. ASSUME NEW k \in 1..n
        PROVE  /\ digests'[k] \in Digest /\ digests'[k].members = digests[k].members
               /\ digests'[k].status # "published" => digests[k].status # "published"
    <3>1. CASE digests[k].status = "approved"
      BY <1>3, <2>1, <3>1 DEF Digest
    <3>2. CASE digests[k].status # "approved"
      BY <1>3, <2>1, <3>2
    <3> QED
      BY <3>1, <3>2
  <2> HIDE DEF n
  <2>3. digests' \in [1..n -> Digest]
    BY <1>3, <2>1, <2>2
  <2>4. digests' \in Seq(Digest) /\ Len(digests') = n
    BY <2>1, <2>3, SeqDef, LenProperties
  <2> QED
    BY <1>1, <2>2, <2>4 DEF Quiet, n
<1> QED
  BY <1>2, <1>3 DEF SetAutopost

-----------------------------------------------------------------------------
\* A row readers are not shown again: it has been sent, or taken into a digest,
\* or it is of an item that is too old for its channel.
Spent(row, hour, dated) ==
  \/ row.status \in {"digest_item", "published"}
  \/ Past(hour, dated) /\ row.status \notin CLAIMABLE

Used(i) == aired[i] > 0 \/ \E k \in DOMAIN digests : i \in digests[k].members

OnceShown(i) ==
  /\ aired[i] <= 1
  /\ Used(i) => Spent(posts[i], clock, date[i])
  /\ \A k, l \in DOMAIN digests : i \in digests[k].members /\ i \in digests[l].members => k = l
  /\ \A k \in DOMAIN digests :
       i \in digests[k].members /\ digests[k].status # "published" => aired[i] = 0

AllOnce == \A i \in Items \ Undated : OnceShown(i)

LEMMA SpentStays ==
  ASSUME NEW i, Dated(i), NEW old, NEW new, NEW hour \in Int, NEW dated,
         RowOK(i, old, hour, dated), Spent(old, hour, dated),
         Moved(i, old, new, hour, dated) \/ BegunAnew(i, old, new, hour, dated)
  PROVE  Spent(new, hour, dated)
<1>0. old \in Row /\ old.made \in Nat
  <2>1. old \in Row
    BY DEF RowOK
  <2> QED
    BY <2>1, RowFields
<1>1. CASE Dropped(old, new, hour)
  <2>1. dated = old.made /\ old.made < hour - KeepRows
    BY <1>1 DEF Dropped, Gone, RowOK
  <2>2. Past(hour, dated)
    BY <1>0, <2>1, NewsAssumption DEF Past, NotYet
  <2> QED
    BY <1>1, <2>2, NoRowTyped DEF Dropped, Spent, CLAIMABLE
<1>2. CASE Entered(i, old, new, hour, dated) \/ Settled(old, new)
           \/ BegunAnew(i, old, new, hour, dated)
  BY <1>2 DEF Entered, Settled, BegunAnew, Spent, CLAIMABLE, Past
<1>3. CASE HeldBack(old, new) \/ Collected(old, new)
  BY <1>3 DEF HeldBack, Collected, Spent, CLAIMABLE
<1>4. CASE Worded(i, old, new, hour, dated)
  BY <1>4 DEF Worded, Spent, CLAIMABLE, Past
<1> QED
  BY <1>1, <1>2, <1>3, <1>4 DEF Moved

LEMMA SpentAges ==
  ASSUME NEW row, NEW hour \in Int, NEW later \in Int, hour <= later, NEW dated,
         dated \in (0..MaxTime) \cup {NotYet}, NEW dated2, dated2 = dated \/ dated = NotYet,
         Spent(row, hour, dated)
  PROVE  Spent(row, later, dated2)
<1>1. KeepNews \in Int /\ (dated # NotYet => dated \in Int)
  BY NewsAssumption
<1> QED
  BY <1>1 DEF Spent, Past

\* Where nothing is sent nothing is shown again.
LEMMA QuietOnce ==
  ASSUME NewsTyped, Rows, DigestsInv, AllOnce, Quiet, RowsMove \/ GoesOn \/ CandidateBegins
  PROVE  AllOnce'
<1> SUFFICES ASSUME NEW i \in Items \ Undated PROVE OnceShown(i)'
  BY DEF AllOnce
<1>1. /\ OnceShown(i) /\ RowOK(i, posts[i], clock, date[i]) /\ clock \in Nat /\ Dated(i)
      /\ date[i] \in (0..MaxTime) \cup {NotYet}
  BY DEF AllOnce, Rows, NewsTyped, Dated
<1>2. /\ Len(digests) \in Nat /\ DOMAIN digests = 1..Len(digests)
      /\ DOMAIN digests' = 1..Len(digests)
  BY DigestSeq, LenProperties DEF Quiet
<1>3. Used(i)' => Used(i)
  BY <1>2 DEF Used, Quiet
<1>4. Spent(posts[i], clock, date[i]) => Spent(posts'[i], clock', date'[i])
  <2>1. CASE RowsMove
    BY <1>1, <2>1, SpentStays DEF RowsMove
  <2>2. CASE GoesOn
    BY <1>1, <2>2, SpentAges DEF GoesOn
  <2>3. CASE CandidateBegins
    <3>1. PICK j \in Items : \E new : /\ BegunAnew(j, posts[j], new, clock, date[j])
                                      /\ posts' = [posts EXCEPT ![j] = new]
                                      /\ UNCHANGED <<clock, date>>
      BY <2>3 DEF CandidateBegins
    <3>2. PICK new : /\ BegunAnew(j, posts[j], new, clock, date[j])
                     /\ posts' = [posts EXCEPT ![j] = new]
                     /\ UNCHANGED <<clock, date>>
      BY <3>1
    <3>3. CASE i = j
      <4>1. posts'[i] = new /\ BegunAnew(i, posts[i], new, clock, date[i])
        BY <3>2, <3>3 DEF Rows
      <4> QED
        BY <1>1, <3>2, <4>1, SpentStays
    <3>4. CASE i # j
      BY <3>2, <3>4 DEF Rows
    <3> QED
      BY <3>3, <3>4
  <2> QED
    BY <2>1, <2>2, <2>3
<1>5. /\ \A k \in 1..Len(digests) :
           /\ digests'[k].members = digests[k].members
           /\ digests'[k].status # "published" => digests[k].status # "published"
      /\ aired' = aired
  BY DEF Quiet
<1>6. aired'[i] <= 1
  BY <1>1, <1>5 DEF OnceShown
<1>7. Used(i)' => Spent(posts[i], clock, date[i])'
  BY <1>1, <1>3, <1>4 DEF OnceShown
<1>8. \A k, l \in 1..Len(digests) :
         i \in digests'[k].members /\ i \in digests'[l].members => k = l
  BY <1>1, <1>2, <1>5 DEF OnceShown
<1>9. \A k \in 1..Len(digests) :
         i \in digests'[k].members /\ digests'[k].status # "published" => aired'[i] = 0
  BY <1>1, <1>2, <1>5 DEF OnceShown
<1> QED
  BY <1>2, <1>6, <1>7, <1>8, <1>9 DEF OnceShown

\* What can be sent has not been shown, neither by itself nor in a digest.
LEMMA SendOnce ==
  ASSUME NewsTyped, Rows, DigestsInv, AllOnce, NEW j \in Items, posts[j].status \in CLAIMABLE,
         Send(j), UNCHANGED <<clock, date, digests>>
  PROVE  AllOnce'
<1> SUFFICES ASSUME NEW i \in Items \ Undated PROVE OnceShown(i)'
  BY DEF AllOnce
<1>1. OnceShown(i) /\ aired[i] \in Nat /\ posts[i] \in Row
  BY DEF AllOnce, Rows, DigestsInv
<1>2. CASE i # j
  <2>1. posts'[i] = posts[i] /\ aired'[i] = aired[i]
    BY <1>2 DEF Send, Rows, DigestsInv
  <2> QED
    BY <1>1, <2>1 DEF OnceShown, Used
<1>3. CASE i = j
  <2>1. ~Spent(posts[i], clock, date[i])
    BY <1>3 DEF Spent, CLAIMABLE
  <2>2. ~Used(i)
    BY <1>1, <2>1 DEF OnceShown
  <2>3. aired[i] = 0 /\ \A k \in DOMAIN digests : i \notin digests[k].members
    BY <1>1, <2>2 DEF Used
  <2>4. \/ posts'[i].status = "published" /\ aired'[i] = 1
        \/ aired'[i] = 0
    BY <1>1, <1>3, <2>3 DEF Send, Rows, Row, DigestsInv
  <2>5. Spent(posts[i], clock, date[i])' \/ ~Used(i)'
    BY <2>3, <2>4 DEF Spent, Used
  <2> QED
    BY <2>3, <2>4, <2>5 DEF OnceShown
<1> QED
  BY <1>2, <1>3

\* A digest is sent: its items are shown for the first time.
LEMMA DigestSentOnce ==
  ASSUME NewsTyped, Rows, DigestsInv, AllOnce, NEW k \in 1..Len(digests),
         digests[k].status # "published", SendDigest(k), UNCHANGED <<clock, date, posts>>
  PROVE  AllOnce' /\ digests' \in Seq(Digest) /\ Len(digests') = Len(digests)
         /\ aired' \in [Items -> Nat]
<1>1. /\ Len(digests) \in Nat /\ DOMAIN digests = 1..Len(digests)
      /\ aired \in [Items -> Nat]
  BY DigestSeq DEF DigestsInv
<1>2. RowsMove
  BY NoRowMoves
<1>3. CASE digests' = [digests EXCEPT ![k].status = "failed"] /\ UNCHANGED aired
  <2>1. /\ digests' \in Seq(Digest) /\ Len(digests') = Len(digests)
        /\ \A l \in 1..Len(digests) : /\ digests'[l].members = digests[l].members
                                      /\ l # k => digests'[l] = digests[l]
    BY <1>3, DigestWith DEF DigestStatuses
  <2>2. Quiet
    BY <1>3, <2>1 DEF Quiet
  <2> QED
    BY <1>1, <1>2, <1>3, <2>1, <2>2, QuietOnce
<1>4. CASE /\ digests' = [digests EXCEPT ![k].status = "published"]
           /\ aired' = [i \in Items |-> IF i \in digests[k].members THEN aired[i] + 1 ELSE aired[i]]
  <2>1. /\ digests' \in Seq(Digest) /\ Len(digests') = Len(digests)
        /\ digests'[k].status = "published"
        /\ \A l \in 1..Len(digests) : /\ digests'[l].members = digests[l].members
                                      /\ l # k => digests'[l] = digests[l]
    BY <1>4, DigestWith DEF DigestStatuses
  <2>2. DOMAIN digests' = 1..Len(digests)
    BY <1>1, <2>1, LenProperties
  <2>3. aired' \in [Items -> Nat]
    BY <1>1, <1>4
  <2>4. ASSUME NEW i \in Items \ Undated PROVE OnceShown(i)'
    <3>1. OnceShown(i)
      BY DEF AllOnce
    <3>2. \A l, m \in 1..Len(digests) :
            i \in digests'[l].members /\ i \in digests'[m].members => l = m
      BY <1>1, <2>1, <3>1 DEF OnceShown
    <3>3. CASE i \in digests[k].members
      <4>1. Used(i) /\ aired[i] = 0
        BY <1>1, <3>1, <3>3 DEF OnceShown, Used
      <4>2. aired'[i] = 1
        BY <1>4, <3>3, <4>1
      <4>3. Spent(posts[i], clock, date[i])'
        BY <3>1, <4>1 DEF OnceShown, Spent, Past
      <4>4. \A l \in 1..Len(digests) :
              i \in digests'[l].members /\ digests'[l].status # "published" => aired'[i] = 0
        BY <1>1, <2>1, <3>2, <3>3
      <4> QED
        BY <2>2, <3>2, <4>2, <4>3, <4>4 DEF OnceShown
    <3>4. CASE i \notin digests[k].members
      <4>1. aired'[i] = aired[i]
        BY <1>4, <3>4
      <4>2. Used(i)' => Used(i)
        BY <1>1, <2>1, <2>2, <4>1 DEF Used
      <4>3. Used(i)' => Spent(posts[i], clock, date[i])'
        BY <3>1, <4>2 DEF OnceShown, Spent, Past
      <4>4. \A l \in 1..Len(digests) :
              i \in digests'[l].members /\ digests'[l].status # "published" => aired'[i] = 0
        BY <1>1, <2>1, <3>1, <3>4, <4>1 DEF OnceShown
      <4>5. aired'[i] <= 1
        BY <3>1, <4>1 DEF OnceShown
      <4> QED
        BY <2>2, <3>2, <4>3, <4>4, <4>5 DEF OnceShown
    <3> QED
      BY <3>3, <3>4
  <2> QED
    BY <2>1, <2>3, <2>4 DEF AllOnce
<1> QED
  BY <1>3, <1>4 DEF SendDigest

\* The members of a new digest are collected.
LEMMA MakeMoves ==
  ASSUME Rows, NEW M, \A i \in M : posts[i].status = "digest",
         posts' = [i \in Items |-> IF i \in M
                                   THEN [posts[i] EXCEPT !.status = "digest_item",
                                                         !.reason = "other"]
                                   ELSE posts[i]],
         UNCHANGED <<clock, date>>
  PROVE  /\ RowsMove
         /\ \A i \in Items : IF i \in M THEN posts'[i].status = "digest_item"
                                        ELSE posts'[i] = posts[i]
<1>1. ASSUME NEW i \in Items
      PROVE  /\ Moved(i, posts[i], posts'[i], clock, date[i])
             /\ IF i \in M THEN posts'[i].status = "digest_item" ELSE posts'[i] = posts[i]
  <2>1. CASE i \notin M
    BY <2>1 DEF Moved
  <2>2. CASE i \in M
    <3> DEFINE new == [posts[i] EXCEPT !.status = "digest_item", !.reason = "other"]
    <3>1. posts[i] \in Row /\ "digest_item" \in Statuses /\ "other" \in Reasons
      BY DEF Rows, Statuses, Reasons
    <3>2. posts'[i] = new /\ posts[i].status = "digest"
      BY <2>2
    <3>3. Same(posts[i], new)
      BY <3>1, RowWith
    <3>4. new.status = "digest_item"
      BY <3>1 DEF Row
    <3>5. Collected(posts[i], new)
      BY <3>2, <3>3, <3>4 DEF Collected, CLAIMABLE
    <3> QED
      BY <2>2, <3>2, <3>4, <3>5 DEF Moved
  <2> QED
    BY <2>1, <2>2
<1> QED
  BY <1>1 DEF RowsMove

\* A new digest takes items nobody has been shown.
LEMMA MakeOnce ==
  ASSUME NewsTyped, Rows, DigestsInv, AllOnce, UNCHANGED <<clock, date, aired>>,
         NEW M \in SUBSET Items, \A i \in M : posts[i].status = "digest",
         \A i \in Items : IF i \in M THEN posts'[i].status = "digest_item"
                                     ELSE posts'[i] = posts[i],
         NEW r \in Digest, r.members = M, digests' = Append(digests, r)
  PROVE  AllOnce' /\ digests' \in Seq(Digest) /\ Len(digests') = Len(digests) + 1
<1> DEFINE n == Len(digests)
<1>1. n \in Nat /\ DOMAIN digests = 1..n /\ digests \in Seq(Digest)
  BY DigestSeq DEF DigestsInv
<1>2. /\ digests' \in Seq(Digest) /\ Len(digests') = n + 1
      /\ \A k \in 1..n : digests'[k] = digests[k]
      /\ digests'[n + 1] = r
  BY <1>1, AppendProperties
<1>3. DOMAIN digests' = 1..(n + 1)
  BY <1>2, LenProperties
<1> HIDE DEF n
<1>4. ASSUME NEW i \in Items \ Undated PROVE OnceShown(i)'
  <2>1. OnceShown(i) /\ aired[i] \in Nat /\ aired'[i] = aired[i]
    BY DEF AllOnce, DigestsInv
  <2>2. CASE i \in M
    <3>1. ~Spent(posts[i], clock, date[i])
      BY <2>2 DEF Spent, CLAIMABLE
    <3>2. ~Used(i)
      BY <2>1, <3>1 DEF OnceShown
    <3>3. aired'[i] = 0 /\ \A k \in 1..n : i \notin digests'[k].members
      BY <1>1, <1>2, <2>1, <3>2 DEF Used
    <3>4. Spent(posts[i], clock, date[i])'
      BY <2>2 DEF Spent
    <3>5. \A k, l \in 1..(n + 1) :
            i \in digests'[k].members /\ i \in digests'[l].members => k = l
      BY <1>1, <3>3
    <3>6. aired'[i] <= 1 /\ (Used(i)' => Spent(posts[i], clock, date[i])')
      BY <3>3, <3>4
    <3> QED
      BY <1>3, <3>3, <3>5, <3>6 DEF OnceShown
  <2>3. CASE i \notin M
    <3>1. \A k \in 1..(n + 1) : i \in digests'[k].members => k \in 1..n /\ digests'[k] = digests[k]
      BY <1>1, <1>2, <2>3
    <3>2. Used(i)' => Used(i)
      BY <1>1, <1>3, <2>1, <3>1 DEF Used
    <3>3. Used(i)' => Spent(posts[i], clock, date[i])'
      BY <2>1, <2>3, <3>2 DEF OnceShown, Spent, Past
    <3>4. \A k, l \in 1..(n + 1) :
            i \in digests'[k].members /\ i \in digests'[l].members => k = l
      BY <1>1, <2>1, <3>1 DEF OnceShown
    <3>5. \A k \in 1..(n + 1) :
            i \in digests'[k].members /\ digests'[k].status # "published" => aired'[i] = 0
      BY <1>1, <2>1, <3>1 DEF OnceShown
    <3>6. aired'[i] <= 1
      BY <2>1 DEF OnceShown
    <3> QED
      BY <1>3, <3>3, <3>4, <3>5, <3>6 DEF OnceShown
  <2> QED
    BY <2>2, <2>3
<1> QED
  BY <1>2, <1>4 DEF AllOnce, n

-----------------------------------------------------------------------------
(* The steps of the newsroom keep all of it.                               *)

NewsroomInv == NewsTyped /\ Rows /\ DeskInv /\ RedraftInv /\ DigestsInv /\ AllOnce

LEMMA QuietDigests ==
  ASSUME DigestsInv, Quiet, UNCHANGED digesting
  PROVE  DigestsInv'
BY DEF DigestsInv, Quiet, digesting

LEMMA SentAired ==
  ASSUME DigestsInv, NEW i \in Items, Send(i), UNCHANGED <<digests, digesting>>
  PROVE  DigestsInv'
<1>1. aired' \in [Items -> Nat]
  BY DEF Send, DigestsInv
<1> QED
  BY <1>1 DEF DigestsInv, digesting

LEMMA WorldKeeps ==
  ASSUME NewsroomInv, World \/ (\E i \in Items : Arrive(i)), UNCHANGED <<editing, digesting>>
  PROVE  NewsroomInv'
<1> USE DEF NewsroomInv
<1>1. clock \in Nat /\ desk' = desk /\ redraft' = redraft
  BY DEF NewsTyped, editing
<1>2. RowsMove \/ GoesOn
  BY WorldMoves
<1>3. NewsTyped'
  BY WorldTyped
<1>4. Rows'
  <2>1. CASE RowsMove
    BY <1>1, <2>1, RowsMoveOK
  <2>2. CASE GoesOn
    BY <1>1, <2>2, RowsGoOn DEF GoesOn
  <2> QED
    BY <1>2, <2>1, <2>2
<1>5. DeskInv'
  BY <1>1, <1>2, DeskWaits
<1>6. RedraftInv'
  BY <1>1 DEF RedraftInv, RedraftTyped, RedraftFits
<1>7. CASE \E i \in Items : PublishDue(i) \/ Approve(i)
  <2>1. PICK i \in Items : PublishDue(i) \/ Approve(i)
    BY <1>7
  <2>2. posts[i].status \in CLAIMABLE /\ Send(i) /\ UNCHANGED <<clock, date, digests>>
    BY <2>1 DEF PublishDue, Approve, Sendable, feed
  <2> QED
    BY <1>3, <1>4, <1>5, <1>6, <2>2, SendOnce, SentAired
<1>8. CASE Quiet
  BY <1>2, <1>3, <1>4, <1>5, <1>6, <1>8, QuietOnce, QuietDigests
<1>9. Quiet \/ (\E i \in Items : PublishDue(i) \/ Approve(i))
  <2> USE DEF settings, feed
  <2>1. CASE Tick \/ SetPaused \/ SetMode \/ SetEdition
    BY <2>1, AloneQuiet DEF Tick, SetPaused, SetMode, SetEdition, Set
  <2>2. CASE SetAutopost
    BY <2>2, AutopostQuiet
  <2>3. CASE ReconsiderFiltered \/ ExpireNews \/ PrunePosts
    BY <2>3, AloneQuiet DEF ReconsiderFiltered, ExpireNews, PrunePosts
  <2>4. CASE \E i \in Items : Arrive(i) \/ Appear(i) \/ Withdraw(i) \/ Revise(i) \/ Reject(i)
    BY <2>4, AloneQuiet DEF Arrive, Appear, Withdraw, Revise, Reject
  <2> QED
    BY <2>1, <2>2, <2>3, <2>4 DEF World
<1> QED
  BY <1>7, <1>8, <1>9

LEMMA TypedAlone ==
  ASSUME NewsTyped, UNCHANGED <<clock, settings, feed>>
  PROVE  NewsTyped'
BY DEF NewsTyped, settings, feed

\* A step of the desk.
LEMMA DeskKeeps ==
  ASSUME NewsroomInv, UNCHANGED digesting,
         \/ Judge \/ Answer \/ TimeOut \/ Reread \/ Write \/ PublishNow \/ Exhausted \/ Verify
         \/ SendNow \/ \E i \in Items : PickUp(i) \/ NextCandidate(i)
  PROVE  NewsroomInv'
<1> USE DEF NewsroomInv
<1>0. clock \in Nat
  BY DEF NewsTyped
<1>1. UNCHANGED <<clock, settings, feed, digests, redraft>> /\ (SendNow \/ UNCHANGED aired)
  <2>1. SendNow \/ Untouched
    BY Zenon DEF Judge, Answer, TimeOut, Reread, Write, PublishNow, Exhausted, Verify, PickUp,
                 NextCandidate
  <2> QED
    BY <2>1 DEF SendNow, Untouched
<1>2. NewsTyped' /\ RedraftInv' /\ UNCHANGED <<clock, date>>
  BY <1>1, TypedAlone DEF RedraftInv, RedraftTyped, RedraftFits, feed
<1>3. (RowsMove \/ CandidateBegins) /\ DeskInv'
  BY JudgeFits, AnswerFits, TimeOutFits, RereadFits, WriteFits, PublishNowFits, VerifyFits,
     PickUpFits, CandidateFits
<1>4. Rows'
  BY <1>0, <1>3, RowsMoveOK, CandidateOK
<1>5. CASE UNCHANGED aired
  <2>1. Quiet
    BY <1>1, <1>5, AloneQuiet
  <2> QED
    BY <1>2, <1>3, <1>4, <2>1, QuietOnce, QuietDigests
<1>6. CASE ~UNCHANGED aired
  <2>1. SendNow /\ Sendable(desk.item, "realtime") /\ Send(desk.item)
    BY <1>1, <1>6 DEF SendNow
  <2>2. posts[desk.item].status \in CLAIMABLE /\ desk.item \in Items
    BY <2>1, DeskFields DEF Sendable, DeskInv
  <2> QED
    BY <1>1, <1>2, <1>3, <1>4, <2>1, <2>2, SendOnce, SentAired
<1> QED
  BY <1>5, <1>6

LEMMA RedraftKeeps ==
  ASSUME NewsroomInv, UNCHANGED digesting, ReplaceDraft \/ \E i \in Items : AskRedraft(i)
  PROVE  NewsroomInv'
<1> USE DEF NewsroomInv
<1>0. clock \in Nat
  BY DEF NewsTyped
<1>1. UNCHANGED <<clock, settings, feed, digests, aired, desk>>
  BY DEF ReplaceDraft, AskRedraft, news
<1>2. NewsTyped' /\ Quiet /\ UNCHANGED <<clock, date>>
  BY <1>1, TypedAlone, AloneQuiet DEF feed
<1>3. CASE ReplaceDraft
  <2>1. RowsMove /\ RedraftInv'
    BY <1>3, ReplaceMoves
  <2> QED
    BY <1>0, <1>1, <1>2, <2>1, RowsMoveOK, DeskWaits, QuietOnce, QuietDigests
<1>4. ASSUME NEW i \in Items, AskRedraft(i)
      PROVE  NewsroomInv'
  <2>1. posts' = posts /\ RedraftInv'
    BY <1>4, AskRedraftFits DEF AskRedraft, news
  <2>2. RowsMove
    BY <1>2, <2>1, NoRowMoves
  <2> QED
    BY <1>0, <1>1, <1>2, <2>1, <2>2, RowsMoveOK, DeskWaits, QuietOnce, QuietDigests
<1> QED
  BY <1>3, <1>4

\* The desk, the rows and the settings while a digest is prepared or sent.
LEMMA OthersKeep ==
  ASSUME NewsroomInv, UNCHANGED <<clock, settings, feed, editing>>, RowsMove
  PROVE  NewsTyped' /\ Rows' /\ DeskInv' /\ RedraftInv'
<1> USE DEF NewsroomInv
<1>1. NewsTyped' /\ clock \in Nat /\ desk' = desk /\ redraft' = redraft
  BY TypedAlone DEF editing, NewsTyped
<1>2. RedraftInv'
  BY <1>1 DEF RedraftInv, RedraftTyped, RedraftFits
<1> QED
  BY <1>1, <1>2, RowsMoveOK, DeskWaits

-----------------------------------------------------------------------------
(* The digests.                                                            *)

LEMMA NoRunTyped == NoRun \in Runs /\ NoRun.pc = "idle" /\ NoRun.post = 0
BY StartTyped, NoRowTyped DEF NoRun, Runs

\* A runner in its next state.
LEMMA RunnerWith ==
  ASSUME DigestsInv, NEW d \in Runners, NEW run \in Runs, runner' = [runner EXCEPT ![d] = run],
         run.post <= Len(digests'), run.pc = "made" => run.post > 0,
         Len(digests) <= Len(digests'), digests' \in Seq(Digest), aired' \in [Items -> Nat],
         sentOn' \in Nat \cup {Never}
  PROVE  DigestsInv'
<1>1. Len(digests) \in Nat /\ Len(digests') \in Nat
  BY LenProperties DEF DigestsInv
<1>2. runner' \in [Runners -> Runs]
  BY DEF DigestsInv
<1>3. ASSUME NEW e \in Runners
      PROVE  runner'[e].post <= Len(digests') /\ (runner'[e].pc = "made" => runner'[e].post > 0)
  <2>1. runner[e] \in Runs /\ runner[e].post \in Nat
    BY DEF DigestsInv, Runs
  <2> QED
    BY <1>1, <2>1 DEF DigestsInv
<1> QED
  BY <1>2, <1>3 DEF DigestsInv

LEMMA RunnerRests ==
  ASSUME DigestsInv, NEW d \in Runners, runner' = [runner EXCEPT ![d] = NoRun],
         Len(digests') = Len(digests), digests' \in Seq(Digest), aired' \in [Items -> Nat],
         sentOn' \in Nat \cup {Never}
  PROVE  DigestsInv'
<1>1. Len(digests) \in Nat /\ Len(digests) <= Len(digests')
  BY LenProperties DEF DigestsInv
<1>2. NoRun.post <= Len(digests') /\ (NoRun.pc = "made" => NoRun.post > 0)
  BY <1>1, NoRunTyped
<1>3. NoRun \in Runs
  BY NoRunTyped
<1> QED
  BY <1>1, <1>2, <1>3, RunnerWith

LEMMA PrepareKeeps ==
  ASSUME NewsroomInv, NEW d \in Runners, Prepare(d) \/ GiveUp(d), UNCHANGED editing
  PROVE  NewsroomInv'
<1>1. UNCHANGED <<clock, settings, feed, posts, digests, aired, sentOn>>
  BY DEF Prepare, GiveUp, news
<1>2. RowsMove /\ Quiet
  BY <1>1, NoRowMoves, AloneQuiet DEF NewsroomInv, feed
<1>3. PICK run \in Runs : runner' = [runner EXCEPT ![d] = run] /\ run.post = 0
                          /\ run.pc # "made"
  <2>1. CASE GiveUp(d)
    BY <2>1, NoRunTyped DEF GiveUp
  <2>2. CASE Prepare(d)
    <3>1. PICK members \in SUBSET Waiting :
            runner' = [runner EXCEPT ![d] =
              [pc |-> "asked", rows |-> posts, members |-> members,
               edition |-> channel.edition, post |-> 0]]
      BY <2>2 DEF Prepare
    <3>2. members \in SUBSET Items /\ posts \in [Items -> Row] /\ channel.edition \in Editions
      BY DEF Waiting, NewsroomInv, Rows, NewsTyped, Channel
    <3> DEFINE run == [pc |-> "asked", rows |-> posts, members |-> members,
                       edition |-> channel.edition, post |-> 0]
    <3>3. run \in Runs /\ run.post = 0 /\ run.pc # "made"
      BY <3>2 DEF Runs
    <3> HIDE DEF run
    <3> QED
      BY <3>1, <3>3 DEF run
  <2> QED
    BY <2>1, <2>2
<1>4. Len(digests) \in Nat /\ digests' = digests /\ digests \in Seq(Digest)
      /\ aired' \in [Items -> Nat] /\ sentOn' \in Nat \cup {Never}
  BY <1>1, LenProperties DEF NewsroomInv, DigestsInv
<1>5. DigestsInv'
  <2>1. /\ run.post <= Len(digests') /\ (run.pc = "made" => run.post > 0)
        /\ Len(digests) <= Len(digests') /\ digests' \in Seq(Digest)
    BY <1>3, <1>4
  <2>2. DigestsInv
    BY DEF NewsroomInv
  <2> QED
    BY <1>3, <1>4, <2>1, <2>2, RunnerWith
<1> QED
  BY <1>1, <1>2, <1>5, OthersKeep, QuietOnce DEF NewsroomInv

LEMMA MakeKeeps ==
  ASSUME NewsroomInv, NEW d \in Runners, Make(d), UNCHANGED editing
  PROVE  NewsroomInv'
<1>1. UNCHANGED <<clock, settings, feed, aired>> /\ UNCHANGED <<clock, date>>
  BY DEF Make, feed
<1>2. /\ Len(digests) \in Nat /\ digests \in Seq(Digest) /\ runner[d] \in Runs
      /\ sentOn \in Nat \cup {Never} /\ aired' \in [Items -> Nat]
  BY <1>1, LenProperties DEF NewsroomInv, DigestsInv
<1>3. CASE runner' = [runner EXCEPT ![d] = NoRun] /\ UNCHANGED <<posts, digests, sentOn>>
  <2>1. RowsMove /\ Quiet
    BY <1>1, <1>3, NoRowMoves, AloneQuiet DEF NewsroomInv
  <2>2. DigestsInv'
    <3>1. Len(digests') = Len(digests) /\ digests' \in Seq(Digest)
          /\ sentOn' \in Nat \cup {Never}
      BY <1>2, <1>3
    <3> QED
      BY <1>2, <1>3, <3>1, RunnerRests DEF NewsroomInv
  <2> QED
    BY <1>1, <2>1, <2>2, OthersKeep, QuietOnce DEF NewsroomInv
<1>4. CASE MembersAsRead(d) /\ ~(runner' = [runner EXCEPT ![d] = NoRun] /\ UNCHANGED <<posts, digests, sentOn>>)
  <2> DEFINE M == runner[d].members
             r == [day |-> Day, members |-> M, status |-> "approved",
                   texts |-> [i \in Items |-> runner[d].rows[i].text]]
             run == [NoRun EXCEPT !.pc = "made", !.post = Len(digests) + 1]
  <2>1. /\ posts' = [i \in Items |->
                       IF i \in M THEN [posts[i] EXCEPT !.status = "digest_item",
                                                        !.reason = "other"]
                       ELSE posts[i]]
        /\ digests' = Append(digests, r) /\ sentOn' = Day
        /\ runner' = [runner EXCEPT ![d] = run]
    BY <1>4, Zenon DEF Make, Reserve
  <2>2. M \in SUBSET Items /\ \A i \in M : posts[i].status = "digest"
    BY <1>2, <1>4 DEF MembersAsRead, Runs
  <2>3. Day \in Nat
    <3>1. clock \in Nat
      BY NewsAssumption DEF NewsroomInv, NewsTyped
    <3>2. Day \in Int /\ 0 <= Day
      BY <3>1, DayGrows DEF Day
    <3> QED
      BY <3>2
  <2>4. [i \in Items |-> runner[d].rows[i].text] \in [Items -> Text]
    <3>1. ASSUME NEW i \in Items PROVE runner[d].rows[i].text \in Text
      <4>1. runner[d].rows[i] \in Row
        BY <1>2 DEF Runs
      <4> QED
        BY <4>1, RowFields
    <3> QED
      BY <3>1
  <2>5. r \in Digest /\ r.members = M
    BY <2>2, <2>3, <2>4 DEF Digest
  <2>6. run \in Runs /\ run.pc = "made" /\ run.post = Len(digests) + 1
    <3>1. Len(digests) + 1 \in Nat
      BY <1>2
    <3> QED
      BY <3>1, NoRunTyped DEF Runs
  <2> HIDE DEF M, r, run
  <2>7. /\ RowsMove
        /\ \A i \in Items : IF i \in M THEN posts'[i].status = "digest_item"
                                       ELSE posts'[i] = posts[i]
    BY <1>1, <2>1, <2>2, MakeMoves DEF NewsroomInv
  <2>8. AllOnce' /\ digests' \in Seq(Digest) /\ Len(digests') = Len(digests) + 1
    BY <1>1, <2>1, <2>2, <2>5, <2>7, MakeOnce DEF NewsroomInv
  <2>9. DigestsInv'
    <3>1. /\ run.post <= Len(digests') /\ (run.pc = "made" => run.post > 0)
          /\ Len(digests) <= Len(digests')
      BY <1>2, <2>6, <2>8
    <3>2. DigestsInv /\ sentOn' \in Nat \cup {Never}
      BY <2>1, <2>3 DEF NewsroomInv
    <3> QED
      BY <1>2, <2>1, <2>6, <2>8, <3>1, <3>2, RunnerWith
  <2> QED
    BY <1>1, <2>7, <2>8, <2>9, OthersKeep DEF NewsroomInv
<1> QED
  BY <1>3, <1>4, Zenon DEF Make

\* Sending a digest, whoever does it.
LEMMA SendDigestKeeps ==
  ASSUME NewsroomInv, NEW k \in 1..Len(digests), digests[k].status # "published",
         SendDigest(k), UNCHANGED <<clock, settings, feed, posts, sentOn, editing>>,
         \/ runner' = runner
         \/ \E d \in Runners : runner' = [runner EXCEPT ![d] = NoRun]
  PROVE  NewsroomInv'
<1>1. RowsMove /\ UNCHANGED <<clock, date, posts>>
  BY NoRowMoves DEF NewsroomInv, feed
<1>2. AllOnce' /\ digests' \in Seq(Digest) /\ Len(digests') = Len(digests)
      /\ aired' \in [Items -> Nat]
  BY <1>1, DigestSentOnce DEF NewsroomInv
<1>3. Len(digests) \in Nat /\ sentOn' \in Nat \cup {Never}
  BY LenProperties DEF NewsroomInv, DigestsInv
<1>4. DigestsInv'
  <2>1. CASE runner' = runner
    BY <1>2, <1>3, <2>1 DEF NewsroomInv, DigestsInv
  <2>2. ASSUME NEW d \in Runners, runner' = [runner EXCEPT ![d] = NoRun] PROVE DigestsInv'
    BY <1>2, <1>3, <2>2, RunnerRests DEF NewsroomInv
  <2> QED
    BY <2>1, <2>2
<1> QED
  BY <1>1, <1>2, <1>4, OthersKeep DEF NewsroomInv

LEMMA SummarizeKeeps ==
  ASSUME NewsroomInv, Summarize, UNCHANGED editing
  PROVE  NewsroomInv'
<1>0. /\ DOMAIN digests = 1..Len(digests) /\ Len(digests) \in Nat
      /\ \A k \in 1..Len(digests) : digests[k].status \in DigestStatuses
  BY DigestSeq DEF NewsroomInv
<1>1. ASSUME NEW d \in Runners, Prepare(d) \/ GiveUp(d) \/ Make(d)
      PROVE  NewsroomInv'
  BY <1>1, PrepareKeeps, MakeKeeps
<1>2. ASSUME NEW d \in Runners, SendMade(d)
      PROVE  NewsroomInv'
  <2> DEFINE k == runner[d].post
  <2>1. /\ UNCHANGED <<clock, settings, feed, posts, sentOn>>
        /\ runner' = [runner EXCEPT ![d] = NoRun] /\ runner[d].pc = "made"
    BY <1>2 DEF SendMade
  <2>2. k \in 1..Len(digests)
    BY <1>0, <2>1 DEF NewsroomInv, DigestsInv, Runs
  <2>3. CASE digests[k].status \in {"approved", "pending", "failed"} /\ SendDigest(k)
    BY <2>1, <2>2, <2>3, SendDigestKeeps
  <2>4. CASE UNCHANGED <<digests, aired>>
    <3>1. RowsMove /\ Quiet
      BY <2>1, <2>4, NoRowMoves, AloneQuiet DEF NewsroomInv, feed
    <3>2. digests \in Seq(Digest) /\ aired' \in [Items -> Nat] /\ sentOn' \in Nat \cup {Never}
      BY <2>1, <2>4 DEF NewsroomInv, DigestsInv
    <3>3. DigestsInv'
      <4>1. Len(digests') = Len(digests) /\ digests' \in Seq(Digest)
        BY <2>4, <3>2
      <4> QED
        BY <2>1, <3>2, <4>1, RunnerRests DEF NewsroomInv
    <3> QED
      BY <2>1, <3>1, <3>3, OthersKeep, QuietOnce DEF NewsroomInv
  <2> QED
    BY <1>2, <2>3, <2>4 DEF SendMade
<1>3. ASSUME NEW k \in 1..Len(digests), PublishDigest(k) \/ ApproveDigest(k)
      PROVE  NewsroomInv'
  <2>1. /\ digests[k].status # "published" /\ SendDigest(k)
        /\ UNCHANGED <<clock, settings, feed, posts, sentOn, runner>>
    BY <1>3 DEF PublishDigest, ApproveDigest, digesting
  <2> QED
    BY <2>1, SendDigestKeeps
<1>4. ASSUME NEW k \in 1..Len(digests), RejectDigest(k)
      PROVE  NewsroomInv'
  <2>1. /\ digests' = [digests EXCEPT ![k].status = "rejected"]
        /\ digests[k].status # "published"
        /\ UNCHANGED <<clock, settings, feed, posts, aired, digesting>>
    BY <1>4 DEF RejectDigest
  <2>2. /\ digests' \in Seq(Digest) /\ Len(digests') = Len(digests)
        /\ \A l \in 1..Len(digests) : /\ digests'[l].members = digests[l].members
                                      /\ l # k => digests'[l] = digests[l]
    BY <2>1, DigestWith DEF NewsroomInv, DigestStatuses
  <2>3. Quiet
    BY <2>1, <2>2 DEF Quiet
  <2>4. RowsMove /\ DigestsInv'
    BY <2>1, <2>3, NoRowMoves, QuietDigests DEF NewsroomInv, feed
  <2> QED
    BY <2>1, <2>3, <2>4, OthersKeep, QuietOnce DEF NewsroomInv
<1> QED
  BY <1>0, <1>1, <1>2, <1>3, <1>4 DEF Summarize

LEMMA CrashKeeps ==
  ASSUME NewsroomInv, Crash
  PROVE  NewsroomInv'
<1>1. UNCHANGED <<clock, settings, feed, posts, digests, aired, sentOn>> /\ UNCHANGED <<clock, date>>
  BY DEF Crash, news, feed
<1>2. RowsMove /\ Quiet /\ clock \in Nat
  BY <1>1, NoRowMoves, AloneQuiet DEF NewsroomInv, NewsTyped
<1>3. NewsTyped' /\ Rows' /\ AllOnce'
  BY <1>1, <1>2, TypedAlone, RowsMoveOK, QuietOnce DEF NewsroomInv
<1>4. DeskInv'
  BY IdleTyped DEF Crash, DeskInv, DeskFits, Working
<1>5. RedraftInv'
  BY NoRedraftTyped DEF Crash, NoRedraft
<1>6. DigestsInv'
  <2>1. Len(digests) \in Nat
    BY LenProperties DEF NewsroomInv, DigestsInv
  <2>2. runner' = [d \in Runners |-> NoRun]
    BY DEF Crash
  <2> QED
    BY <1>1, <2>1, <2>2, NoRunTyped DEF NewsroomInv, DigestsInv
<1> QED
  BY <1>3, <1>4, <1>5, <1>6 DEF NewsroomInv

LEMMA NewsroomStarts ==
  ASSUME InitNewsroom
  PROVE  NewsroomInv
<1> USE DEF InitNewsroom, Init, InitEditing, InitDigests
<1>1. NewsTyped
  <2>1. clock \in 0..MaxTime /\ changes \in 0..MaxChanges /\ recheck \in BOOLEAN
    <3>1. clock = 1 /\ changes = 0 /\ recheck = FALSE
      OBVIOUS
    <3>2. 1 \in 0..MaxTime /\ 0 \in 0..MaxChanges
      BY NewsAssumption
    <3> QED
      BY <3>1, <3>2
  <2>2. channel \in Channel
    BY StartsAssumption
  <2>3. /\ date \in [Items -> (0..MaxTime) \cup {NotYet}] /\ raw \in [Items -> 1..2]
        /\ late \subseteq Items /\ page \subseteq Items
    OBVIOUS
  <2> QED
    BY <2>1, <2>2, <2>3 DEF NewsTyped
<1>2. posts = [i \in Items |-> NoRow] /\ aired = [i \in Items |-> 0] /\ digests = <<>>
  OBVIOUS
<1>3. ASSUME NEW i \in Items PROVE RowOK(i, posts[i], clock, date[i])
  <2>1. posts[i] = NoRow /\ NoRow.text = NoText /\ NoRow.made <= clock
    BY DEF NoRow
  <2> QED
    BY <2>1, NoRowTyped, StartTyped DEF RowOK, OneEditionText, CLAIMABLE
<1>4. Rows
  BY <1>2, <1>3, NoRowTyped DEF Rows
<1>5. DeskInv
  BY IdleTyped DEF DeskInv, DeskFits, Working
<1>6. RedraftInv
  BY NewsAssumption, StartTyped DEF NoRedraft, RedraftInv, RedraftTyped, RedraftFits
<1>7. digests \in Seq(Digest) /\ Len(digests) = 0 /\ DOMAIN digests = {}
  BY <1>2, EmptySeq, LenProperties
<1>8. DigestsInv
  BY <1>2, <1>7, NoRunTyped DEF DigestsInv
<1>9. AllOnce
  BY <1>2, <1>7 DEF AllOnce, OnceShown, Used
<1> QED
  BY <1>1, <1>4, <1>5, <1>6, <1>8, <1>9 DEF NewsroomInv

LEMMA NewsroomStep ==
  ASSUME NewsroomInv, [Next]_vars
  PROVE  NewsroomInv'
<1>1. CASE (World \/ \E i \in Items : Arrive(i)) /\ UNCHANGED <<editing, digesting>>
  BY <1>1, WorldKeeps
<1>2. CASE Edit /\ UNCHANGED digesting
  BY <1>2, DeskKeeps, RedraftKeeps DEF Edit
<1>3. CASE Summarize /\ UNCHANGED editing
  BY <1>3, SummarizeKeeps
<1>4. CASE Crash
  BY <1>4, CrashKeeps
<1>5. CASE UNCHANGED vars
  <2>1. UNCHANGED <<clock, settings, feed, posts, digests, aired, editing, digesting>>
        /\ UNCHANGED <<clock, date>>
    BY <1>5 DEF vars, news, feed
  <2>2. RowsMove /\ Quiet
    BY <2>1, NoRowMoves, AloneQuiet DEF NewsroomInv
  <2> QED
    BY <2>1, <2>2, OthersKeep, QuietOnce, QuietDigests DEF NewsroomInv
<1> QED
  BY <1>1, <1>2, <1>3, <1>4, <1>5 DEF Next

LEMMA NewsroomHolds == Spec => []NewsroomInv
BY NewsroomStarts, NewsroomStep, PTL DEF Spec

-----------------------------------------------------------------------------
\* The newsroom's variables keep their types: every status, text, setting and
\* date is one the program can hold (posts, channels).
THEOREM TypeCorrect == Spec => []TypeOK
<1>1. NewsroomInv => TypeOK
  <2> SUFFICES ASSUME NewsroomInv PROVE TypeOK
    OBVIOUS
  <2> USE DEF NewsroomInv
  <2>1. NewsOK
    <3>1. \A i \in Items : posts[i].made <= clock
      <4>1. ASSUME NEW i \in Items PROVE posts[i].made <= clock
        BY DEF Rows, RowOK
      <4> QED
        BY <4>1
    <3> QED
      BY <3>1, DigestSeq DEF NewsOK, NewsTyped, Rows, RowOK, CLAIMABLE, DigestsInv
  <2>2. EditingOK
    BY DEF EditingOK, DeskInv, Desks, RedraftInv, RedraftTyped
  <2>3. DigestsOK
    <3>1. Len(digests) \in Nat
      BY DigestSeq
    <3>2. ASSUME NEW d \in Runners
          PROVE  runner[d] \in [pc : {"idle", "asked", "made"}, rows : [Items -> Row],
                                members : SUBSET Items, edition : Editions,
                                post : 0..Len(digests)]
      <4>1. runner[d] \in Runs /\ runner[d].post <= Len(digests)
        BY DEF DigestsInv
      <4>2. runner[d].post \in 0..Len(digests)
        BY <3>1, <4>1 DEF Runs
      <4> QED
        BY <4>1, <4>2 DEF Runs
    <3> QED
      BY <3>2 DEF DigestsOK, DigestsInv
  <2> QED
    BY <2>1, <2>2, <2>3 DEF TypeOK
<1> QED
  BY <1>1, NewsroomHolds, PTL

\* What waits to be sent by the machine has been cleared of advertising, and of
\* wrong facts where the channel asks for it (process, _process_post, regen).
THEOREM OnlyClearedTexts == Spec => []ClearedForQueue
<1>1. NewsroomInv => ClearedForQueue
  BY DEF NewsroomInv, Rows, RowOK, ClearText, ClearedForQueue
<1> QED
  BY <1>1, NewsroomHolds, PTL

\* A prepared text is of the revision of its row and was asked for and checked
\* under one edition of the settings (_process_post, publish_fresh_once, regen).
THEOREM TextsFitTheirRows == Spec => []TextFits
<1>1. NewsroomInv => TextFits
  BY DEF NewsroomInv, Rows, RowOK, OneEditionText, TextFits, OneEdition, TextOfItsRow
<1> QED
  BY <1>1, NewsroomHolds, PTL

\* Readers see a dated story at most once, by itself or in one digest, whatever
\* is pruned, read again, renewed, rewritten or taken into a digest meanwhile.
THEOREM ShownOnce == Spec => []AiredOnce
<1>1. NewsroomInv => AiredOnce
  BY DEF NewsroomInv, AllOnce, OnceShown, AiredOnce
<1> QED
  BY <1>1, NewsroomHolds, PTL

-----------------------------------------------------------------------------
(* What "publish now" sends.                                               *)

\* What the desk is about to send may go, should the claim still take it.
SendingFits ==
  desk.pc = "sending" /\ posts[desk.item].status \in CLAIMABLE => MayGoNow(posts[desk.item].text)

\* Only the desk gives a new row its first text.
NothingPrepared ==
  \A i \in Items : posts[i].status = "new" => posts'[i].status \notin {"pending", "approved", "digest"}

\* Nobody but the desk and the owner's own request puts a text into a row.
LEMMA OthersPrepareNothing ==
  ASSUME Rows, \/ World \/ (\E i \in Items : Arrive(i)) \/ ReplaceDraft \/ Summarize
               \/ UNCHANGED posts
  PROVE  NothingPrepared
<1> USE DEF NothingPrepared
<1>1. CASE UNCHANGED posts
  BY <1>1
<1>2. CASE SetAutopost \/ SetMode
  BY <1>2 DEF SetAutopost, SetMode, Prepared
<1>3. CASE ReconsiderFiltered
  BY <1>3 DEF ReconsiderFiltered
<1>4. CASE ExpireNews \/ PrunePosts
  <2> SUFFICES ASSUME NEW i \in Items, posts[i].status = "new"
               PROVE  posts'[i].status \notin {"pending", "approved", "digest"}
    OBVIOUS
  <2>1. posts[i] \in Row
    BY DEF Rows
  <2>2. Expired[i].status \in {"new", "expired"}
    BY <2>1 DEF Expired, Row
  <2>3. posts'[i] \in {Expired[i], NoRow}
    BY <1>4 DEF ExpireNews, PrunePosts
  <2> QED
    BY <2>2, <2>3, NoRowTyped
<1>5. ASSUME NEW i \in Items, NEW new, posts' = [posts EXCEPT ![i] = new],
             posts[i].status # "new" \/ new.status \in {"new", "rejected"}
      PROVE  NothingPrepared
  BY <1>5 DEF Rows
<1>6. ASSUME NEW i \in Items, Arrive(i)
      PROVE  NothingPrepared
  BY <1>6, <1>5 DEF Arrive
<1>7. ASSUME NEW i \in Items, PublishDue(i) \/ Approve(i)
      PROVE  NothingPrepared
  <2>1. posts[i].status \in CLAIMABLE
    BY <1>7 DEF PublishDue, Approve, Sendable
  <2>2. PICK s : posts' = [posts EXCEPT ![i].status = s]
    BY <1>7 DEF PublishDue, Approve, Send
  <2> QED
    BY <2>1, <2>2 DEF Rows, CLAIMABLE
<1>8. ASSUME NEW i \in Items, Reject(i)
      PROVE  NothingPrepared
  BY <1>8 DEF Reject, Rows, Row
<1>9. CASE ReplaceDraft
  <2>1. posts' = posts \/ \E new : /\ posts' = [posts EXCEPT ![redraft.item] = new]
                                  /\ posts[redraft.item].status \in CLAIMABLE
    BY <1>9 DEF ReplaceDraft, SameDraft
  <2> QED
    BY <2>1 DEF Rows, CLAIMABLE
<1>10. ASSUME NEW d \in Runners, Make(d)
       PROVE  NothingPrepared
  <2> DEFINE M == runner[d].members
             new(i) == [posts[i] EXCEPT !.status = "digest_item", !.reason = "other"]
  <2>1. \/ posts' = posts
        \/ posts' = [i \in Items |-> IF i \in M THEN new(i) ELSE posts[i]]
    BY <1>10, Zenon DEF Make
  <2>2. ASSUME NEW i \in Items PROVE new(i).status = "digest_item"
    BY DEF Rows, Row
  <2> HIDE DEF M, new
  <2> QED
    BY <2>1, <2>2
<1>11. CASE Summarize
  BY <1>1, <1>10, <1>11 DEF Summarize, Prepare, GiveUp, SendMade, PublishDigest, ApproveDigest,
                          RejectDigest, news
<1>12. CASE World
  BY <1>1, <1>2, <1>3, <1>4, <1>7, <1>8, <1>12
     DEF World, Tick, SetPaused, SetEdition, Set, Appear, Withdraw, Revise
<1> QED
  BY <1>1, <1>6, <1>9, <1>11, <1>12

\* Of the steps of the digest one touches rows: it collects its members.
LEMMA SummarizeMoves ==
  ASSUME Rows, Summarize
  PROVE  RowsMove
<1>1. ASSUME NEW d \in Runners, Make(d)
      PROVE  RowsMove
  <2> DEFINE M == runner[d].members
  <2>1. UNCHANGED <<clock, date>>
    BY <1>1 DEF Make, feed
  <2>2. CASE UNCHANGED posts
    BY <2>1, <2>2, NoRowMoves
  <2>3. CASE ~UNCHANGED posts
    <3>1. /\ MembersAsRead(d)
          /\ posts' = [i \in Items |->
               IF i \in M THEN [posts[i] EXCEPT !.status = "digest_item", !.reason = "other"]
               ELSE posts[i]]
      BY <1>1, <2>3, Zenon DEF Make
    <3>2. \A i \in M : posts[i].status = "digest"
      BY <3>1 DEF MembersAsRead
    <3> HIDE DEF M
    <3> QED
      BY <2>1, <3>1, <3>2, MakeMoves
  <2> QED
    BY <2>2, <2>3
<1>2. CASE UNCHANGED <<posts, clock, date>>
  BY <1>2, NoRowMoves
<1> QED
  BY <1>1, <1>2 DEF Summarize, Prepare, GiveUp, SendMade, PublishDigest, ApproveDigest,
                    RejectDigest, news, feed

\* The row the desk is about to send, after a step of somebody else.
LEMMA SendingStays ==
  ASSUME NewsroomInv, SendingFits, desk' = desk, NothingPrepared, RowsMove \/ GoesOn
  PROVE  SendingFits'
<1> DEFINE i == desk.item
<1> SUFFICES ASSUME desk.pc = "sending", posts'[i].status \in CLAIMABLE
             PROVE  MayGoNow(posts'[i].text)
  BY DEF SendingFits
<1>1. i \in Items
  BY DeskFields DEF NewsroomInv, DeskInv
<1>2. CASE GoesOn
  BY <1>2 DEF GoesOn, SendingFits
<1>3. CASE RowsMove
  <2>1. Moved(i, posts[i], posts'[i], clock, date[i])
    BY <1>1, <1>3 DEF RowsMove
  <2>2. ~Dropped(posts[i], posts'[i], clock) /\ ~Settled(posts[i], posts'[i])
        /\ ~Entered(i, posts[i], posts'[i], clock, date[i]) /\ ~Collected(posts[i], posts'[i])
    BY NoRowTyped DEF Dropped, Settled, Entered, Collected, CLAIMABLE
  <2>3. CASE Worded(i, posts[i], posts'[i], clock, date[i])
    BY <1>1, <2>3 DEF Worded, NothingPrepared
  <2>4. CASE posts'[i] = posts[i] \/ HeldBack(posts[i], posts'[i])
    BY <2>4 DEF HeldBack, Same, SendingFits
  <2> QED
    BY <2>1, <2>2, <2>3, <2>4 DEF Moved
<1> QED
  BY <1>2, <1>3

\* The desk sends what it has found prepared, and then rests.
LEMMA DeskSends ==
  ASSUME NewsroomInv, SendingFits,
         \/ Judge \/ Answer \/ TimeOut \/ Reread \/ Write \/ PublishNow \/ Exhausted \/ Verify
         \/ SendNow \/ \E i \in Items : PickUp(i) \/ NextCandidate(i)
  PROVE  SendingFits'
<1>1. desk \in Desks /\ Idle.pc = "idle"
  BY IdleTyped DEF NewsroomInv, DeskInv
<1>2. CASE desk'.pc # "sending"
  BY <1>2 DEF SendingFits
<1>3. CASE Verify /\ PreparedNow
  <2>1. desk'.item = desk.item /\ posts' = posts /\ desk.item \in Items
    BY <1>1, <1>3, IdleTyped, DeskFields DEF Verify, Desks
  <2>2. ClearText(posts[desk.item].text)
    BY <1>3, <2>1 DEF NewsroomInv, Rows, RowOK, PreparedNow
  <2> QED
    BY <2>1, <2>2 DEF SendingFits, ClearText, MayGoNow
<1>4. desk'.pc # "sending" \/ (Verify /\ PreparedNow)
  <2>1. desk'.pc # "sending" \/ ~Leave
    BY <1>1 DEF Leave, Desks
  <2>2. CASE Judge \/ Answer \/ Reread \/ Write
    BY <1>1, <2>1, <2>2 DEF Judge, Answer, Reread, Write, Desks
  <2>3. CASE TimeOut \/ Exhausted \/ SendNow
    BY <1>1, <2>3 DEF TimeOut, Exhausted, SendNow
  <2>4. CASE PublishNow \/ Verify
    BY <1>1, <2>4, IdleTyped DEF PublishNow, Verify, Desks
  <2>5. CASE \E i \in Items : PickUp(i) \/ NextCandidate(i)
    BY <1>1, <2>5, IdleTyped DEF PickUp, NextCandidate, Desks
  <2> QED
    BY <2>2, <2>3, <2>4, <2>5
<1> QED
  BY <1>2, <1>3, <1>4

LEMMA SendingStep ==
  ASSUME NewsroomInv, SendingFits, [Next]_vars
  PROVE  SendingFits'
<1> USE DEF NewsroomInv
<1>1. CASE (World \/ \E i \in Items : Arrive(i)) /\ UNCHANGED <<editing, digesting>>
  BY <1>1, WorldMoves, OthersPrepareNothing, SendingStays DEF editing
<1>2. CASE Edit
  <2>1. CASE ReplaceDraft
    BY <2>1, ReplaceMoves, OthersPrepareNothing, SendingStays DEF ReplaceDraft
  <2>2. CASE \E i \in Items : AskRedraft(i)
    BY <2>2 DEF AskRedraft, SendingFits, news
  <2> QED
    BY <1>2, <2>1, <2>2, DeskSends DEF Edit
<1>3. CASE Summarize /\ UNCHANGED editing
  BY <1>3, SummarizeMoves, OthersPrepareNothing, SendingStays DEF editing
<1>4. CASE Crash
  BY <1>4, IdleTyped DEF Crash, SendingFits
<1>5. CASE UNCHANGED vars
  BY <1>5 DEF vars, news, editing, SendingFits
<1> QED
  BY <1>1, <1>2, <1>3, <1>4, <1>5 DEF Next

\* "Publish now" sends a text whose facts are confirmed where they have to be, and
\* one that may be an advertisement only when its owner had it written anew,
\* whatever is done to the row between the check of the desk and the claim
\* (publish_fresh_once, publish_post).
THEOREM NowSendsClearedOrAsked == Spec => NowIsClearedOrAsked
<1>1. ASSUME NewsroomInv, SendingFits, [Next]_vars,
             NEW i \in Items, aired'[i] > aired[i], desk' # desk
      PROVE  MayGoNow(posts[i].text)
  <2>1. aired[i] \in Nat /\ aired' # aired
    BY <1>1 DEF NewsroomInv, DigestsInv
  <2>2. SendNow
    <3>1. ~UNCHANGED editing /\ ~UNCHANGED vars /\ ~Crash
      BY <1>1, <2>1 DEF editing, vars, Crash, news
    <3>2. Edit
      BY <1>1, <3>1 DEF Next, Summarize
    <3>3. ~Untouched
      BY <2>1 DEF Untouched
    <3>4. ~ReplaceDraft /\ ~\E j \in Items : AskRedraft(j)
      BY <1>1 DEF ReplaceDraft, AskRedraft
    <3> QED
      BY <3>2, <3>3, <3>4, Zenon DEF Edit, Judge, Answer, TimeOut, Reread, Write, PublishNow,
                                     Exhausted, Verify, PickUp, NextCandidate
  <2>3. Sendable(desk.item, "realtime") /\ Send(desk.item) /\ desk.pc = "sending"
    BY <2>1, <2>2 DEF SendNow
  <2>4. i = desk.item
    BY <1>1, <2>1, <2>3 DEF Send, NewsroomInv, DigestsInv
  <2> QED
    BY <1>1, <2>3, <2>4 DEF SendingFits, Sendable
<1>2. NewsroomInv /\ SendingFits /\ [Next]_vars =>
       [\A i \in Items : aired'[i] > aired[i] /\ desk' # desk =>
         /\ posts[i].text.sure \/ posts[i].text.own
         /\ posts[i].text.asked.quality = "super" => posts[i].text.checked]_<<news, editing>>
  BY <1>1 DEF MayGoNow
<1>3. InitNewsroom => SendingFits
  BY IdleTyped DEF InitNewsroom, InitEditing, SendingFits
<1> QED
  BY <1>2, <1>3, SendingStep, NewsroomHolds, PTL DEF Spec, NowIsClearedOrAsked
=============================================================================
