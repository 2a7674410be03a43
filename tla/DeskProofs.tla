--------------------------- MODULE DeskProofs -----------------------------
(***************************************************************************)
(* Proofs about the drafts of a channel, for any number of requests at     *)
(* work, drafts, versions and switches: a forwarded message becomes at     *)
(* most one draft, a company's text is sent only as its owner saw it, and  *)
(* late answers undo nothing.  Then about the readers of a source: no due  *)
(* story is lost, and what they save is what the newsroom lets arrive.     *)
(***************************************************************************)
EXTENDS Intake, Drafts, SequenceTheorems, FiniteSetTheorems, WellFoundedInduction, TLAPS

Rows ==
  /\ \E n \in Nat : drafts = [d \in 1..n |-> drafts[d]]
  /\ \A d \in DOMAIN drafts : /\ "forward" \in DOMAIN drafts[d]
                              /\ drafts[d].forward \in 0..forwards

\* The message in the slot is in nobody's work and in no draft.
SlotFresh ==
  /\ forwards \in Nat /\ slot \in 0..forwards
  /\ DOMAIN hand = Hands
  /\ \A h \in Hands :
       /\ hand[h].at \in {"tapped", "writing"} => hand[h].forward \in 1..forwards
       /\ hand[h].at = "writing" => hand[h].forward # slot
  /\ slot # 0 => \A d \in DOMAIN drafts : drafts[d].forward # slot

ForwardInv == Rows /\ SlotFresh /\ OneDraftPerForward

\* A step that takes no message up.
HandsKept ==
  /\ UNCHANGED <<slot, forwards>>
  /\ DOMAIN hand' = Hands
  /\ \A h \in Hands : hand'[h] = hand[h] \/ hand'[h].at \notin {"tapped", "writing"}

\* A step that makes no draft.
RowsKept ==
  /\ DOMAIN drafts' = DOMAIN drafts
  /\ drafts' = [d \in DOMAIN drafts |-> drafts'[d]]
  /\ \A d \in DOMAIN drafts :
       /\ DOMAIN drafts'[d] = DOMAIN drafts[d]
       /\ "forward" \in DOMAIN drafts[d] => drafts'[d].forward = drafts[d].forward

-----------------------------------------------------------------------------
LEMMA KeptInv ==
  ASSUME ForwardInv, HandsKept, RowsKept
  PROVE  ForwardInv'
<1>1. PICK n \in Nat : drafts = [d \in 1..n |-> drafts[d]]
  BY DEF ForwardInv, Rows
<1>2. DOMAIN drafts = 1..n
  BY <1>1
<1>3. drafts' = [d \in 1..n |-> drafts'[d]]
  BY <1>2 DEF RowsKept
<1>4. Rows'
  BY <1>3 DEF ForwardInv, Rows, RowsKept, HandsKept
<1>5. SlotFresh'
  BY DEF ForwardInv, Rows, SlotFresh, RowsKept, HandsKept
<1>6. OneDraftPerForward'
  BY DEF ForwardInv, Rows, SlotFresh, OneDraftPerForward, RowsKept, HandsKept
<1> QED
  BY <1>4, <1>5, <1>6 DEF ForwardInv

\* A draft is made of a message that is out of the slot and in nobody's work
\* any more, or of none.
LEMMA AddedInv ==
  ASSUME ForwardInv, HandsKept, NEW row, Added(row), "forward" \in DOMAIN row,
         row.forward \in 0..forwards,
         row.forward # 0 => row.forward # slot,
         \A h \in Hands : hand'[h].at = "writing" => hand'[h].forward # row.forward
  PROVE  ForwardInv'
<1>1. PICK n \in Nat : drafts = [d \in 1..n |-> drafts[d]]
  BY DEF ForwardInv, Rows
<1> DEFINE E == {drafts[d] : d \in 1..n} \cup {row}
<1>2. drafts \in Seq(E)
  <2>1. drafts \in [1..n -> E]
    BY <1>1
  <2> QED
    BY <2>1, SeqDef
<1>3. DOMAIN drafts = 1..n /\ Len(drafts) = n
  BY <1>1, <1>2, LenProperties
<1>4. /\ drafts' \in Seq(E) /\ Len(drafts') = n + 1
      /\ \A d \in 1..n : drafts'[d] = drafts[d]
      /\ drafts'[n + 1] = row
  BY <1>2, <1>3, AppendProperties DEF Added
<1>5. drafts' \in [1..(n + 1) -> E] /\ DOMAIN drafts' = 1..(n + 1)
  BY <1>4, LenProperties
<1>6. \A d \in 1..(n + 1) : d \in 1..n \/ d = n + 1
  OBVIOUS
<1>7. Rows'
  <2>1. n + 1 \in Nat /\ drafts' = [d \in 1..(n + 1) |-> drafts'[d]]
    BY <1>5
  <2>2. \A d \in 1..(n + 1) : "forward" \in DOMAIN drafts'[d] /\ drafts'[d].forward \in 0..forwards
    BY <1>3, <1>4, <1>6 DEF ForwardInv, Rows
  <2> QED
    BY <2>1, <2>2, <1>5 DEF Rows, HandsKept
<1>8. SlotFresh'
  <2>1. slot # 0 => \A d \in 1..(n + 1) : drafts'[d].forward # slot
    BY <1>3, <1>4, <1>6 DEF ForwardInv, SlotFresh
  <2> QED
    BY <2>1, <1>5 DEF ForwardInv, SlotFresh, HandsKept
<1>9. OneDraftPerForward'
  <2>1. \A h \in Hands : hand'[h].at = "writing" =>
          \A d \in 1..(n + 1) : drafts'[d].forward # hand'[h].forward
    BY <1>3, <1>4, <1>6 DEF ForwardInv, OneDraftPerForward, HandsKept
  <2> QED
    BY <2>1, <1>5 DEF ForwardInv, OneDraftPerForward, HandsKept
<1> QED
  BY <1>7, <1>8, <1>9 DEF ForwardInv

\* A request goes on to something that is not the taking up of a message.
LEMMA PutKeeps ==
  ASSUME ForwardInv, NEW h \in Hands, NEW to, Put(h, to), UNCHANGED <<slot, forwards>>,
         to.at \notin {"tapped", "writing"}
  PROVE  HandsKept
BY DEF ForwardInv, SlotFresh, Put, HandsKept

\* A draft's text, photo, status or notice changes, not where it came from.
LEMMA FieldsKept ==
  ASSUME ForwardInv, NEW d,
         \/ UNCHANGED drafts
         \/ \E s : drafts' = [drafts EXCEPT ![d].status = s]
         \/ \E p : drafts' = [drafts EXCEPT ![d].photo = p]
         \/ \E k : drafts' = [drafts EXCEPT ![d].known = k]
         \/ \E x, s : drafts' = [drafts EXCEPT ![d].text = x, ![d].status = s]
  PROVE  RowsKept
<1>1. CASE UNCHANGED drafts
  BY <1>1 DEF ForwardInv, Rows, RowsKept
<1>2. CASE \E s : drafts' = [drafts EXCEPT ![d].status = s]
  BY <1>2 DEF RowsKept
<1>3. CASE \E p : drafts' = [drafts EXCEPT ![d].photo = p]
  BY <1>3 DEF RowsKept
<1>4. CASE \E k : drafts' = [drafts EXCEPT ![d].known = k]
  BY <1>4 DEF RowsKept
<1>5. CASE \E x, s : drafts' = [drafts EXCEPT ![d].text = x, ![d].status = s]
  <2>1. PICK x, s : drafts' = [drafts EXCEPT ![d].text = x, ![d].status = s]
    BY <1>5
  <2> DEFINE mid == [drafts EXCEPT ![d].text = x]
  <2>2. /\ mid = [e \in DOMAIN drafts |-> mid[e]] /\ DOMAIN mid = DOMAIN drafts
        /\ \A e \in DOMAIN drafts :
             /\ DOMAIN mid[e] = DOMAIN drafts[e]
             /\ "forward" \in DOMAIN drafts[e] => mid[e].forward = drafts[e].forward
    OBVIOUS
  <2>3. drafts' = [mid EXCEPT ![d].status = s]
    BY <2>1
  <2> HIDE DEF mid
  <2> QED
    BY <2>2, <2>3 DEF RowsKept
<1> QED
  BY <1>1, <1>2, <1>3, <1>4, <1>5

-----------------------------------------------------------------------------
\* The owner forwards a message: it has a number nobody has seen.
LEMMA ForwardStep ==
  ASSUME ForwardInv, Forward
  PROVE  ForwardInv'
BY DEF ForwardInv, Rows, SlotFresh, OneDraftPerForward, Forward

LEMMA TapStep ==
  ASSUME ForwardInv, NEW h \in Hands, Tap(h)
  PROVE  ForwardInv'
BY DEF ForwardInv, Rows, SlotFresh, OneDraftPerForward, Tap, Put, Undisturbed

\* The message leaves the slot for one hand; no other hand and no draft has it.
LEMMA ConsumeStep ==
  ASSUME ForwardInv, NEW h \in Hands, Consume(h)
  PROVE  ForwardInv'
<1>1. UNCHANGED <<drafts, forwards>> /\ hand[h].at = "tapped"
  BY DEF Consume
<1>2. CASE Put(h, AtRest) /\ slot' \in {slot, 0}
  BY <1>1, <1>2 DEF ForwardInv, Rows, SlotFresh, OneDraftPerForward, Put, AtRest
<1>3. CASE slot = hand[h].forward /\ slot' = 0 /\ Put(h, [at |-> "writing", forward |-> slot])
  <2>1. slot # 0 /\ slot \in 1..forwards
    BY <1>1, <1>3 DEF ForwardInv, SlotFresh
  <2>2. \A g \in Hands : hand'[g] = IF g = h THEN [at |-> "writing", forward |-> slot] ELSE hand[g]
    BY <1>3 DEF ForwardInv, SlotFresh, Put
  <2>3. DOMAIN hand' = Hands
    BY <1>3 DEF ForwardInv, SlotFresh, Put
  <2>4. Rows' /\ SlotFresh'
    BY <1>1, <1>3, <2>1, <2>2, <2>3 DEF ForwardInv, Rows, SlotFresh
  <2>5. OneDraftPerForward'
    BY <1>1, <2>1, <2>2 DEF ForwardInv, SlotFresh, OneDraftPerForward
  <2> QED
    BY <2>4, <2>5 DEF ForwardInv
<1> QED
  BY <1>1, <1>2, <1>3 DEF Consume

LEMMA WriteStep ==
  ASSUME ForwardInv, NEW h \in Hands, Write(h)
  PROVE  ForwardInv'
<1> DEFINE row == NewDraft(FALSE, FALSE, hand[h].forward, "pending")
           to == [at |-> "noticing", draft |-> Len(drafts) + 1]
<1>1. /\ Added(row) /\ Put(h, to) /\ UNCHANGED <<slot, forwards>> /\ hand[h].at = "writing"
      /\ to.at = "noticing"
  BY DEF Write, Undisturbed
<1>2. "forward" \in DOMAIN row /\ row.forward = hand[h].forward
  BY DEF NewDraft
<1>3. row.forward \in 1..forwards /\ row.forward # slot
  BY <1>1, <1>2 DEF ForwardInv, SlotFresh
<1> HIDE DEF row, to
<1>4. HandsKept
  BY <1>1, PutKeeps
<1>5. \A g \in Hands : hand'[g].at = "writing" => hand'[g].forward # row.forward
  BY <1>1, <1>2 DEF ForwardInv, SlotFresh, OneDraftPerForward, Put
<1> QED
  BY <1>1, <1>2, <1>3, <1>4, <1>5, AddedInv DEF ForwardInv, SlotFresh

\* Drafts that come from no message.
LEMMA OtherDraftStep ==
  ASSUME ForwardInv, HandsKept, NEW c, NEW m, NEW s, Added(NewDraft(c, m, 0, s))
  PROVE  ForwardInv'
<1>1. "forward" \in DOMAIN NewDraft(c, m, 0, s) /\ NewDraft(c, m, 0, s).forward = 0
  BY DEF NewDraft
<1>2. \A h \in Hands : hand'[h].at = "writing" => hand'[h].forward # 0
  BY DEF ForwardInv, SlotFresh, HandsKept
<1> QED
  BY <1>1, <1>2, AddedInv DEF ForwardInv, SlotFresh

LEMMA ComposedStep ==
  ASSUME ForwardInv, NEW h \in Hands, Composed(h)
  PROVE  ForwardInv'
<1>1. HandsKept
  BY PutKeeps DEF Composed, Undisturbed, AtRest
<1>2. CASE UNCHANGED drafts
  BY <1>1, <1>2, FieldsKept, KeptInv
<1>3. CASE Added(NewDraft(TRUE, TRUE, 0, "pending"))
  BY <1>1, <1>3, OtherDraftStep
<1> QED
  BY <1>2, <1>3 DEF Composed

LEMMA NewsTextStep ==
  ASSUME ForwardInv, NewsText
  PROVE  ForwardInv'
<1>1. HandsKept
  BY DEF ForwardInv, SlotFresh, HandsKept, NewsText, Undisturbed
<1> QED
  BY <1>1, OtherDraftStep DEF NewsText

-----------------------------------------------------------------------------
\* What a request does to an existing draft.
LEMMA HandStep ==
  ASSUME ForwardInv, NEW h \in Hands,
         \/ Notice(h) \/ Replace(h) \/ SetPhoto(h) \/ ClaimDraft(h) \/ Sent(h)
         \/ Compose(h) \/ Give(h)
  PROVE  ForwardInv'
<1>1. UNCHANGED <<slot, forwards>>
  BY DEF Notice, Replace, SetPhoto, ClaimDraft, Sent, Compose, Give, Undisturbed
<1>2. CASE Notice(h)
  BY <1>1, <1>2, PutKeeps, FieldsKept, KeptInv DEF Notice, AtRest
<1>3. CASE Replace(h)
  <2>1. \/ UNCHANGED drafts
        \/ \E x, s : drafts' = [drafts EXCEPT ![hand[h].draft].text = x, ![hand[h].draft].status = s]
    BY <1>3 DEF Replace
  <2> QED
    BY <1>1, <1>3, <2>1, PutKeeps, FieldsKept, KeptInv DEF Replace, AtRest
<1>4. CASE SetPhoto(h)
  <2>1. UNCHANGED drafts \/ \E p : drafts' = [drafts EXCEPT ![hand[h].draft].photo = p]
    BY <1>4 DEF SetPhoto
  <2> QED
    BY <1>1, <1>4, <2>1, PutKeeps, FieldsKept, KeptInv DEF SetPhoto, AtRest
<1>5. CASE ClaimDraft(h)
  <2>1. /\ \/ UNCHANGED drafts
           \/ \E s : drafts' = [drafts EXCEPT ![hand[h].seen.draft].status = s]
        /\ \E to : Put(h, to) /\ to.at \in {"sending", "rest"}
    <3>1. CASE UNCHANGED drafts /\ Put(h, AtRest)
      BY <3>1 DEF AtRest
    <3> DEFINE d == hand[h].seen.draft
               to == [at |-> "sending", version |-> Version(d), before |-> drafts[d].status]
    <3>2. CASE drafts' = [drafts EXCEPT ![d].status = "publishing"] /\ Put(h, to)
      <4>1. to.at = "sending"
        OBVIOUS
      <4> QED
        BY <3>2, <4>1
    <3> QED
      BY <1>5, <3>1, <3>2 DEF ClaimDraft
  <2> QED
    BY <1>1, <2>1, PutKeeps, FieldsKept, KeptInv
<1>6. CASE Sent(h)
  <2>1. \E s : drafts' = [drafts EXCEPT ![hand[h].version.draft].status = s]
    BY <1>6 DEF Sent
  <2> QED
    BY <1>1, <1>6, <2>1, PutKeeps, FieldsKept, KeptInv DEF Sent, AtRest
<1>7. CASE Compose(h) \/ Give(h)
  <2>1. UNCHANGED drafts /\ \E to : Put(h, to) /\ to.at \in {"composing", "rest"}
    BY <1>7 DEF Compose, Give, AtRest
  <2> QED
    BY <1>1, <2>1, PutKeeps, FieldsKept, KeptInv
<1> QED
  BY <1>2, <1>3, <1>4, <1>5, <1>6, <1>7

\* What begins with a draft of the feed, and what settles one.
LEMMA DraftStep ==
  ASSUME ForwardInv, NEW d \in DOMAIN drafts,
         \/ RejectDraft(d) \/ Recover(d) \/ Reconcile(d)
         \/ \E h \in Hands : Rewrite(h, d) \/ PickPhoto(h, d) \/ Press(h, d) \/ Queue(h, d)
  PROVE  ForwardInv'
<1>1. CASE RejectDraft(d) \/ Recover(d) \/ Reconcile(d)
  <2>1. HandsKept
    BY <1>1 DEF ForwardInv, SlotFresh, HandsKept, RejectDraft, Recover, Reconcile, Undisturbed
  <2>2. \E s : drafts' = [drafts EXCEPT ![d].status = s]
    BY <1>1 DEF RejectDraft, Recover, Reconcile
  <2> QED
    BY <2>1, <2>2, FieldsKept, KeptInv
<1>2. ASSUME NEW h \in Hands, Rewrite(h, d) \/ PickPhoto(h, d) \/ Press(h, d) \/ Queue(h, d)
      PROVE  ForwardInv'
  <2>1. /\ UNCHANGED <<slot, forwards, drafts>>
        /\ \E to : Put(h, to) /\ to.at \in {"rewriting", "uploading", "pressing"}
    BY <1>2 DEF Rewrite, PickPhoto, Press, Queue, Undisturbed
  <2> QED
    BY <2>1, PutKeeps, FieldsKept, KeptInv
<1> QED
  BY <1>1, <1>2

\* The owner's switches and a restart of the process.
LEMMA SwitchStep ==
  ASSUME ForwardInv, Enter \/ Leave \/ Autopost \/ Profile \/ Restart
  PROVE  ForwardInv'
<1>1. HandsKept
  <2>1. UNCHANGED <<slot, forwards>> /\ (hand' = hand \/ hand' = [h \in Hands |-> AtRest])
    BY DEF Enter, Leave, Autopost, Profile, Restart
  <2> QED
    BY <2>1 DEF ForwardInv, SlotFresh, HandsKept, AtRest
<1>2. RowsKept
  <2>1. CASE UNCHANGED drafts
    BY <2>1, FieldsKept
  <2>2. CASE Enter
    BY <2>2 DEF Enter, RowsKept, ForwardInv, Rows
  <2>3. CASE Autopost
    BY <2>3 DEF Autopost, RowsKept, ForwardInv, Rows
  <2> QED
    BY <2>1, <2>2, <2>3 DEF Leave, Profile, Restart
<1> QED
  BY <1>1, <1>2, KeptInv

\* A forwarded message is given to the model by one request and becomes at most
\* one draft, whatever number of taps, requests and restarts there are
\* (on_forward_action consumes the slot before the model is asked).
THEOREM ForwardUsedOnce == DraftsSpec => []OneDraftPerForward
<1>1. InitDrafts => ForwardInv
  <2> SUFFICES ASSUME InitDrafts PROVE ForwardInv
    OBVIOUS
  <2>1. /\ slot = 0 /\ forwards = 0 /\ drafts = <<>>
        /\ hand = [h \in Hands |-> AtRest]
    BY DEF InitDrafts
  <2>2. drafts = [d \in 1..0 |-> drafts[d]]
    BY <2>1
  <2>3. Rows
    BY <2>1, <2>2 DEF Rows
  <2> QED
    BY <2>1, <2>3 DEF ForwardInv, SlotFresh, OneDraftPerForward, AtRest
<1>2. ForwardInv /\ [DraftsNext]_drafting => ForwardInv'
  <2> SUFFICES ASSUME ForwardInv, [DraftsNext]_drafting PROVE ForwardInv'
    OBVIOUS
  <2>1. CASE UNCHANGED drafting
    BY <2>1 DEF drafting, ForwardInv, Rows, SlotFresh, OneDraftPerForward
  <2>2. CASE Forward \/ NewsText
    BY <2>2, ForwardStep, NewsTextStep
  <2>3. CASE Enter \/ Leave \/ Autopost \/ Profile \/ Restart
    BY <2>3, SwitchStep
  <2>4. ASSUME NEW h \in Hands, Tap(h) \/ Consume(h) \/ Write(h) \/ Composed(h)
        PROVE  ForwardInv'
    BY <2>4, TapStep, ConsumeStep, WriteStep, ComposedStep
  <2>5. ASSUME NEW h \in Hands,
               \/ Notice(h) \/ Replace(h) \/ SetPhoto(h) \/ ClaimDraft(h) \/ Sent(h)
               \/ Compose(h) \/ Give(h)
        PROVE  ForwardInv'
    BY <2>5, HandStep
  <2>6. ASSUME NEW d \in DOMAIN drafts,
               \/ RejectDraft(d) \/ Recover(d) \/ Reconcile(d)
               \/ \E h \in Hands : Rewrite(h, d) \/ PickPhoto(h, d) \/ Press(h, d) \/ Queue(h, d)
        PROVE  ForwardInv'
    BY <2>6, DraftStep
  <2> QED
    BY <2>1, <2>2, <2>3, <2>4, <2>5, <2>6 DEF DraftsNext
<1>3. ForwardInv => OneDraftPerForward
  BY DEF ForwardInv
<1> QED
  BY <1>1, <1>2, <1>3, PTL DEF DraftsSpec

-----------------------------------------------------------------------------
(* What is sent for a company is what its owner agreed to.                 *)

PressInv ==
  /\ DOMAIN hand = Hands
  /\ \A h \in Hands :
       hand[h].at = "pressing" /\ hand[h].by = "owner" => hand[h].seen \in agreed

\* A step that neither presses nor claims.
Idle ==
  /\ DOMAIN hand' = Hands /\ agreed' = agreed
  /\ \A h \in Hands : hand'[h] = hand[h]
                      \/ (hand'[h].at # "pressing" /\ hand[h].at # "pressing")
                      \/ hand'[h].at = "rest"

AgreedWhenSent(h) ==
  hand[h].at = "pressing" /\ hand'[h].at = "sending"
    => \/ ~mode.business /\ ~drafts[hand'[h].version.draft].company
       \/ hand'[h].version \in agreed

LEMMA IdleStep ==
  ASSUME PressInv, Idle
  PROVE  PressInv' /\ \A h \in Hands : AgreedWhenSent(h)
BY DEF PressInv, Idle, AgreedWhenSent

LEMMA PutIdle ==
  ASSUME PressInv, NEW h \in Hands, NEW to, Put(h, to), UNCHANGED agreed,
         to.at = "rest" \/ (to.at # "pressing" /\ hand[h].at # "pressing")
  PROVE  Idle
BY DEF PressInv, Put, Idle

\* The owner's press is recorded with the version it shows; a loop's is nobody's.
LEMMA PressedStep ==
  ASSUME PressInv, NEW h \in Hands, NEW d, Press(h, d) \/ Queue(h, d)
  PROVE  PressInv' /\ \A g \in Hands : AgreedWhenSent(g)
<1>1. CASE Press(h, d)
  <2> DEFINE to == [at |-> "pressing", by |-> "owner", seen |-> Version(d)]
  <2>1. /\ hand[h].at = "rest" /\ Put(h, to) /\ agreed' = agreed \cup {Version(d)}
        /\ to.at = "pressing" /\ to.seen = Version(d)
    BY <1>1 DEF Press
  <2> HIDE DEF to
  <2> QED
    BY <2>1 DEF PressInv, AgreedWhenSent, Put
<1>2. CASE Queue(h, d)
  <2> DEFINE to == [at |-> "pressing", by |-> "loop", seen |-> Version(d)]
  <2>1. /\ hand[h].at = "rest" /\ Put(h, to) /\ agreed' = agreed
        /\ to.at = "pressing" /\ to.by = "loop"
    BY <1>2 DEF Queue, Undisturbed
  <2> HIDE DEF to
  <2> QED
    BY <2>1 DEF PressInv, AgreedWhenSent, Put
<1> QED
  BY <1>1, <1>2

\* The claim compares what was shown with the row it takes.
LEMMA ClaimStep ==
  ASSUME PressInv, NEW h \in Hands, ClaimDraft(h)
  PROVE  PressInv' /\ \A g \in Hands : AgreedWhenSent(g)
<1> DEFINE d == hand[h].seen.draft
           to == [at |-> "sending", version |-> Version(d), before |-> drafts[d].status]
<1>1. hand[h].at = "pressing" /\ UNCHANGED agreed
  BY DEF ClaimDraft, Undisturbed
<1>2. CASE Put(h, AtRest)
  BY <1>1, <1>2, PutIdle, IdleStep DEF AtRest
<1>3. CASE Consent(h, d) /\ Put(h, to)
  <2>1. to.at = "sending" /\ to.version = Version(d) /\ Version(d).draft = d
    BY DEF Version
  <2>2. (mode.business \/ drafts[d].company) => hand[h].by = "owner" /\ hand[h].seen = Version(d)
    BY <1>3 DEF Consent
  <2> HIDE DEF to, d
  <2>3. hand'[h] = to /\ DOMAIN hand' = Hands /\ \A g \in Hands \ {h} : hand'[g] = hand[g]
    BY <1>3 DEF PressInv, Put
  <2>4. AgreedWhenSent(h)
    <3>1. CASE mode.business \/ drafts[d].company
      BY <1>1, <2>1, <2>2, <2>3, <3>1 DEF PressInv, AgreedWhenSent
    <3>2. CASE ~mode.business /\ ~drafts[d].company
      BY <2>1, <2>3, <3>2 DEF AgreedWhenSent
    <3> QED
      BY <3>1, <3>2
  <2>5. \A g \in Hands \ {h} : AgreedWhenSent(g)
    BY <2>3 DEF AgreedWhenSent
  <2>6. PressInv'
    BY <1>1, <2>1, <2>3 DEF PressInv
  <2> QED
    BY <2>4, <2>5, <2>6
<1> QED
  BY <1>2, <1>3 DEF ClaimDraft

\* What changes the hands of no press.
LEMMA OtherStep ==
  ASSUME PressInv,
         \/ Forward \/ NewsText \/ Enter \/ Leave \/ Autopost \/ Profile \/ Restart
         \/ \E h \in Hands : \/ Tap(h) \/ Consume(h) \/ Write(h) \/ Notice(h) \/ Replace(h)
                             \/ SetPhoto(h) \/ Sent(h) \/ Compose(h) \/ Composed(h) \/ Give(h)
         \/ \E d \in DOMAIN drafts :
              \/ RejectDraft(d) \/ Recover(d) \/ Reconcile(d)
              \/ \E h \in Hands : Rewrite(h, d) \/ PickPhoto(h, d)
  PROVE  Idle
<1>1. CASE Forward \/ NewsText \/ Enter \/ Leave \/ Autopost \/ Profile \/ Restart
  <2>1. agreed' = agreed /\ (hand' = hand \/ hand' = [h \in Hands |-> AtRest])
    BY <1>1 DEF Forward, NewsText, Enter, Leave, Autopost, Profile, Restart, Undisturbed
  <2> QED
    BY <2>1 DEF PressInv, Idle, AtRest
<1>2. ASSUME NEW h \in Hands,
             \/ Tap(h) \/ Consume(h) \/ Write(h) \/ Notice(h) \/ Replace(h)
             \/ SetPhoto(h) \/ Sent(h) \/ Compose(h) \/ Composed(h) \/ Give(h)
             \/ \E d \in DOMAIN drafts : Rewrite(h, d) \/ PickPhoto(h, d)
      PROVE  Idle
  <2>1. hand[h].at # "pressing" /\ agreed' = agreed
    BY <1>2 DEF Tap, Consume, Write, Notice, Replace, SetPhoto, Sent, Compose, Composed, Give,
                Rewrite, PickPhoto, Undisturbed
  <2>2. CASE Put(h, AtRest)
    BY <2>1, <2>2, PutIdle DEF AtRest
  <2>3. \/ Put(h, AtRest)
        \/ \E to : /\ Put(h, to)
                   /\ to.at \in {"tapped", "writing", "noticing", "rewriting", "uploading", "composing"}
    <3>1. CASE Tap(h)
      BY <3>1 DEF Tap
    <3>2. CASE Consume(h)
      BY <3>2 DEF Consume
    <3>3. CASE Write(h)
      BY <3>3 DEF Write
    <3>4. CASE Notice(h) \/ Replace(h) \/ SetPhoto(h) \/ Sent(h) \/ Composed(h) \/ Give(h)
      BY <3>4 DEF Notice, Replace, SetPhoto, Sent, Composed, Give
    <3>5. CASE Compose(h)
      BY <3>5 DEF Compose
    <3>6. CASE \E d \in DOMAIN drafts : Rewrite(h, d) \/ PickPhoto(h, d)
      BY <3>6 DEF Rewrite, PickPhoto
    <3> QED
      BY <1>2, <3>1, <3>2, <3>3, <3>4, <3>5, <3>6
  <2> QED
    BY <2>1, <2>2, <2>3, PutIdle
<1>3. CASE \E d \in DOMAIN drafts : RejectDraft(d) \/ Recover(d) \/ Reconcile(d)
  <2>1. UNCHANGED <<hand, agreed>>
    BY <1>3 DEF RejectDraft, Recover, Reconcile, Undisturbed
  <2> QED
    BY <2>1 DEF PressInv, Idle
<1> QED
  BY <1>1, <1>2, <1>3

\* Whoever changes a text, a photo or the mode in between, whatever is sent for a
\* company is the version its owner was shown when he agreed
\* (the claim of publish_post compares the version again).
THEOREM OwnerAgreesFirst == DraftsSpec => SentAsAgreed
<1>1. InitDrafts => PressInv
  BY DEF InitDrafts, PressInv, AtRest
<1>2. PressInv /\ [DraftsNext]_drafting => PressInv' /\ \A h \in Hands : AgreedWhenSent(h)
  <2> SUFFICES ASSUME PressInv, [DraftsNext]_drafting
               PROVE  PressInv' /\ \A h \in Hands : AgreedWhenSent(h)
    OBVIOUS
  <2>1. CASE UNCHANGED drafting
    BY <2>1, IdleStep DEF drafting, PressInv, Idle
  <2>2. ASSUME NEW h \in Hands, ClaimDraft(h)
        PROVE  PressInv' /\ \A g \in Hands : AgreedWhenSent(g)
    BY <2>2, ClaimStep
  <2>3. ASSUME NEW h \in Hands, NEW d \in DOMAIN drafts, Press(h, d) \/ Queue(h, d)
        PROVE  PressInv' /\ \A g \in Hands : AgreedWhenSent(g)
    BY <2>3, PressedStep
  <2> QED
    BY <2>1, <2>2, <2>3, OtherStep, IdleStep DEF DraftsNext
<1>3. PressInv /\ [DraftsNext]_drafting =>
        [\A h \in Hands : hand[h].at = "pressing" /\ hand'[h].at = "sending"
           => \/ ~mode.business /\ ~drafts[hand'[h].version.draft].company
              \/ hand'[h].version \in agreed]_drafting
  BY <1>2 DEF AgreedWhenSent
<1> QED
  BY <1>1, <1>2, <1>3, PTL DEF DraftsSpec, SentAsAgreed

-----------------------------------------------------------------------------
(* A text is replaced only by the answer to the request that read it.      *)

TextRows ==
  /\ \E n \in Nat : drafts = [d \in 1..n |-> drafts[d]]
  /\ \A d \in DOMAIN drafts : "text" \in DOMAIN drafts[d]
  /\ DOMAIN hand = Hands

\* A step that changes no text.
TextsKept ==
  /\ TextRows'
  /\ \A d \in DOMAIN drafts : drafts'[d].text = drafts[d].text

EditedInTurn(d) ==
  drafts'[d].text # drafts[d].text =>
    /\ drafts[d].status \in Claimable
    /\ \E h \in Hands : /\ hand[h].at = "rewriting" /\ hand'[h] = AtRest
                        /\ hand[h].draft = d /\ hand[h].base = drafts[d].text

LEMMA PutHands ==
  ASSUME TextRows, NEW h \in Hands, NEW to, Put(h, to)
  PROVE  DOMAIN hand' = Hands /\ hand'[h] = to
BY DEF TextRows, Put

\* What changes fields other than the text.
LEMMA OtherFields ==
  ASSUME TextRows, DOMAIN hand' = Hands, NEW d,
         \/ UNCHANGED drafts
         \/ \E s : drafts' = [drafts EXCEPT ![d].status = s]
         \/ \E p : drafts' = [drafts EXCEPT ![d].photo = p]
         \/ \E k : drafts' = [drafts EXCEPT ![d].known = k]
  PROVE  TextsKept
<1> DEFINE Kept == /\ DOMAIN drafts' = DOMAIN drafts
                   /\ drafts' = [e \in DOMAIN drafts |-> drafts'[e]]
                   /\ \A e \in DOMAIN drafts : /\ DOMAIN drafts'[e] = DOMAIN drafts[e]
                                               /\ drafts'[e].text = drafts[e].text
<1>0. \A e \in DOMAIN drafts : "text" \in DOMAIN drafts[e]
  BY DEF TextRows
<1>1. UNCHANGED drafts => Kept
  BY DEF TextRows
<1>2. (\E s : drafts' = [drafts EXCEPT ![d].status = s]) => Kept
  BY <1>0
<1>3. (\E p : drafts' = [drafts EXCEPT ![d].photo = p]) => Kept
  BY <1>0
<1>4. (\E k : drafts' = [drafts EXCEPT ![d].known = k]) => Kept
  BY <1>0
<1>5. Kept
  BY <1>1, <1>2, <1>3, <1>4
<1>6. PICK n \in Nat : drafts = [e \in 1..n |-> drafts[e]]
  BY DEF TextRows
<1>7. DOMAIN drafts = 1..n
  BY <1>6
<1> QED
  BY <1>5, <1>7 DEF TextRows, TextsKept

\* A new row leaves those before it as they were.
LEMMA AddedTexts ==
  ASSUME TextRows, DOMAIN hand' = Hands, NEW c, NEW m, NEW f, NEW s,
         Added(NewDraft(c, m, f, s))
  PROVE  TextsKept
<1> DEFINE row == NewDraft(c, m, f, s)
<1>1. PICK n \in Nat : drafts = [d \in 1..n |-> drafts[d]]
  BY DEF TextRows
<1> DEFINE E == {drafts[d] : d \in 1..n} \cup {row}
<1>2. "text" \in DOMAIN row
  BY DEF NewDraft
<1> HIDE DEF row
<1>3. drafts \in Seq(E)
  <2>1. drafts \in [1..n -> E]
    BY <1>1
  <2> QED
    BY <2>1, SeqDef
<1>4. DOMAIN drafts = 1..n /\ Len(drafts) = n
  BY <1>1, <1>3, LenProperties
<1>5. /\ drafts' \in Seq(E) /\ Len(drafts') = n + 1
      /\ \A d \in 1..n : drafts'[d] = drafts[d]
      /\ drafts'[n + 1] = row
  BY <1>3, <1>4, AppendProperties DEF Added, row
<1>6. drafts' \in [1..(n + 1) -> E] /\ DOMAIN drafts' = 1..(n + 1)
  BY <1>5, LenProperties
<1>7. n + 1 \in Nat /\ drafts' = [d \in 1..(n + 1) |-> drafts'[d]]
  BY <1>6
<1>8. \A d \in 1..(n + 1) : d \in 1..n \/ d = n + 1
  OBVIOUS
<1>9. \A d \in DOMAIN drafts' : "text" \in DOMAIN drafts'[d]
  BY <1>2, <1>4, <1>5, <1>6, <1>8 DEF TextRows
<1> QED
  BY <1>4, <1>5, <1>7, <1>9 DEF TextRows, TextsKept

\* The one step that replaces a text finds the text it was made from.
LEMMA ReplaceText ==
  ASSUME TextRows, NEW h \in Hands, Replace(h)
  PROVE  TextRows' /\ \A d \in DOMAIN drafts : EditedInTurn(d)
<1> DEFINE e == hand[h].draft
<1>1. hand[h].at = "rewriting" /\ DOMAIN hand' = Hands /\ hand'[h] = AtRest
  BY PutHands DEF Replace
<1>2. CASE UNCHANGED drafts
  BY <1>1, <1>2 DEF TextRows, EditedInTurn
<1>3. CASE /\ StillThat(e, hand[h].base)
           /\ \E x, s : drafts' = [drafts EXCEPT ![e].text = x, ![e].status = s]
  <2>1. PICK x, s : drafts' = [drafts EXCEPT ![e].text = x, ![e].status = s]
    BY <1>3
  <2>2. drafts[e].status \in Claimable /\ drafts[e].text = hand[h].base
    BY <1>3 DEF StillThat
  <2> DEFINE mid == [drafts EXCEPT ![e].text = x]
  <2>3. /\ mid = [d \in DOMAIN drafts |-> mid[d]] /\ DOMAIN mid = DOMAIN drafts
        /\ \A d \in DOMAIN drafts : DOMAIN mid[d] = DOMAIN drafts[d]
        /\ \A d \in DOMAIN drafts : d # e => mid[d] = drafts[d]
    OBVIOUS
  <2>4. drafts' = [mid EXCEPT ![e].status = s]
    BY <2>1
  <2> HIDE DEF mid
  <2>5. /\ DOMAIN drafts' = DOMAIN drafts /\ drafts' = [d \in DOMAIN drafts |-> drafts'[d]]
        /\ \A d \in DOMAIN drafts : DOMAIN drafts'[d] = DOMAIN drafts[d]
        /\ \A d \in DOMAIN drafts : d # e => drafts'[d] = drafts[d]
    BY <2>3, <2>4
  <2>6. TextRows'
    <3>1. PICK n \in Nat : drafts = [d \in 1..n |-> drafts[d]]
      BY DEF TextRows
    <3>2. DOMAIN drafts = 1..n
      BY <3>1
    <3> QED
      BY <1>1, <2>5, <3>2 DEF TextRows
  <2>7. \A d \in DOMAIN drafts : d # e => EditedInTurn(d)
    BY <2>5 DEF EditedInTurn
  <2>8. EditedInTurn(e)
    BY <1>1, <2>2 DEF EditedInTurn
  <2> QED
    BY <2>6, <2>7, <2>8
<1> QED
  BY <1>2, <1>3 DEF Replace

LEMMA HandTexts ==
  ASSUME TextRows, NEW h \in Hands,
         \/ Tap(h) \/ Consume(h) \/ Write(h) \/ Notice(h) \/ SetPhoto(h) \/ ClaimDraft(h)
         \/ Sent(h) \/ Compose(h) \/ Composed(h) \/ Give(h)
         \/ \E d \in DOMAIN drafts :
              Rewrite(h, d) \/ PickPhoto(h, d) \/ Press(h, d) \/ Queue(h, d)
  PROVE  TextsKept
<1>1. \E to : Put(h, to)
  BY DEF Tap, Consume, Write, Notice, SetPhoto, ClaimDraft, Sent, Compose, Composed, Give,
         Rewrite, PickPhoto, Press, Queue
<1>2. DOMAIN hand' = Hands
  BY <1>1, PutHands
<1>3. CASE \/ Tap(h) \/ Consume(h) \/ Compose(h) \/ Give(h)
           \/ \E d \in DOMAIN drafts :
                Rewrite(h, d) \/ PickPhoto(h, d) \/ Press(h, d) \/ Queue(h, d)
  <2>1. UNCHANGED drafts
    BY <1>3 DEF Tap, Consume, Compose, Give, Rewrite, PickPhoto, Press, Queue
  <2> QED
    BY <1>2, <2>1, OtherFields
<1>4. CASE Write(h)
  BY <1>2, <1>4, AddedTexts DEF Write
<1>5. CASE Composed(h)
  BY <1>2, <1>5, AddedTexts, OtherFields DEF Composed
<1>6. CASE Notice(h)
  BY <1>2, <1>6, OtherFields DEF Notice
<1>7. CASE SetPhoto(h)
  <2>1. UNCHANGED drafts \/ \E p : drafts' = [drafts EXCEPT ![hand[h].draft].photo = p]
    BY <1>7 DEF SetPhoto
  <2> QED
    BY <1>2, <2>1, OtherFields
<1>8. CASE ClaimDraft(h)
  <2>1. UNCHANGED drafts \/ \E s : drafts' = [drafts EXCEPT ![hand[h].seen.draft].status = s]
    BY <1>8 DEF ClaimDraft
  <2> QED
    BY <1>2, <2>1, OtherFields
<1>9. CASE Sent(h)
  <2>1. \E s : drafts' = [drafts EXCEPT ![hand[h].version.draft].status = s]
    BY <1>9 DEF Sent
  <2> QED
    BY <1>2, <2>1, OtherFields
<1> QED
  BY <1>3, <1>4, <1>5, <1>6, <1>7, <1>8, <1>9

LEMMA OwnerTexts ==
  ASSUME TextRows,
         \/ Forward \/ NewsText \/ Enter \/ Leave \/ Autopost \/ Profile \/ Restart
         \/ \E d \in DOMAIN drafts : RejectDraft(d) \/ Recover(d) \/ Reconcile(d)
  PROVE  TextsKept
<1>1. DOMAIN hand' = Hands
  <2>1. hand' = hand \/ hand' = [h \in Hands |-> AtRest]
    BY DEF Forward, NewsText, Enter, Leave, Autopost, Profile, Restart, RejectDraft, Recover,
           Reconcile, Undisturbed
  <2> QED
    BY <2>1 DEF TextRows
<1>2. CASE Forward \/ Leave \/ Profile \/ Restart
  BY <1>1, <1>2, OtherFields DEF Forward, Leave, Profile, Restart
<1>3. CASE NewsText
  BY <1>1, <1>3, AddedTexts DEF NewsText
<1>4. CASE \E d \in DOMAIN drafts : RejectDraft(d) \/ Recover(d) \/ Reconcile(d)
  <2>1. \E d, s : drafts' = [drafts EXCEPT ![d].status = s]
    BY <1>4 DEF RejectDraft, Recover, Reconcile
  <2> QED
    BY <1>1, <2>1, OtherFields
<1>5. CASE Enter
  BY <1>1, <1>5 DEF Enter, TextRows, TextsKept
<1>6. CASE Autopost
  BY <1>1, <1>6 DEF Autopost, TextRows, TextsKept
<1> QED
  BY <1>2, <1>3, <1>4, <1>5, <1>6

\* No answer of the model that comes late undoes what was written meanwhile, and
\* none changes a text that is being sent, whatever number of requests there are
\* (replace_draft compares the row with the text it was made from).
THEOREM LateAnswersUndoNothing == DraftsSpec => NoEditLost
<1>1. InitDrafts => TextRows
  <2> SUFFICES ASSUME InitDrafts PROVE TextRows
    OBVIOUS
  <2>1. drafts = <<>> /\ hand = [h \in Hands |-> AtRest]
    BY DEF InitDrafts
  <2>2. drafts = [d \in 1..0 |-> drafts[d]]
    BY <2>1
  <2> QED
    BY <2>1, <2>2 DEF TextRows
<1>2. TextRows /\ [DraftsNext]_drafting => TextRows' /\ \A d \in DOMAIN drafts : EditedInTurn(d)
  <2> SUFFICES ASSUME TextRows, [DraftsNext]_drafting
               PROVE  TextRows' /\ \A d \in DOMAIN drafts : EditedInTurn(d)
    OBVIOUS
  <2>1. TextsKept => TextRows' /\ \A d \in DOMAIN drafts : EditedInTurn(d)
    BY DEF TextsKept, EditedInTurn
  <2>2. UNCHANGED drafting => TextsKept
    BY DEF drafting, TextRows, TextsKept
  <2>3. ASSUME NEW h \in Hands, Replace(h)
        PROVE  TextRows' /\ \A d \in DOMAIN drafts : EditedInTurn(d)
    BY <2>3, ReplaceText
  <2> QED
    BY <2>1, <2>2, <2>3, HandTexts, OwnerTexts DEF DraftsNext
<1>3. TextRows /\ [DraftsNext]_drafting =>
        [\A d \in DOMAIN drafts : drafts'[d].text # drafts[d].text =>
           /\ drafts[d].status \in Claimable
           /\ \E h \in Hands : /\ hand[h].at = "rewriting" /\ hand'[h] = AtRest
                               /\ hand[h].draft = d /\ hand[h].base = drafts[d].text]_drafting
  BY <1>2 DEF EditedInTurn
<1> QED
  BY <1>1, <1>2, <1>3, PTL DEF DraftsSpec, NoEditLost

-----------------------------------------------------------------------------
(* A story that was due on a page whose cursor is kept has been looked at. *)

\* What has appeared, what a reading has dealt with or may leave out, and what
\* comes no later than an item.
Out == {i \in Items : date[i] # NotYet}
Covered == taken \cup passed \cup late \cup Undated
UpTo(i, c) == i = c \/ Before(i, c)
Seen == page \cup cache.items

Page == [at : Nat, items : SUBSET Items, raw : [Items -> Nat]]
Held == [pc : {"idle", "fetched"}, items : SUBSET Items, raw : [Items -> Nat], id : Nat,
         cursor : Items \cup {NoItem}]

ReadTyped ==
  /\ clock \in Nat /\ date \in [Items -> (0..MaxTime) \cup {NotYet}] /\ raw \in [Items -> Nat]
  /\ cache \in Page /\ cache.at <= clock
  /\ source \in [id : Nat, cursor : Items \cup {NoItem}]
  /\ reader \in [Readers -> Held]
  /\ page \subseteq Out /\ cache.items \subseteq Out
  /\ \A i \in Items : 1 <= raw[i] /\ 1 <= cache.raw[i] /\ cache.raw[i] <= raw[i]

\* The source numbers its items in the order they appear.
InOrder == \A i \in Out : \A k \in 1..(i - 1) : k \in Out

\* What stands at or before the cursor has been dealt with.
CursorInv ==
  source.cursor # NoItem =>
    /\ source.cursor \in Out /\ Due(source.cursor)
    /\ \A i \in Seen : UpTo(i, source.cursor) => i \in Covered

\* A page kept in this tick lacks nothing that comes before what is due on it.
CacheInv ==
  cache.at = clock => \A i \in page \ (late \cup Undated), j \in cache.items :
                        Due(j) /\ Before(i, j) => i \in cache.items

\* So does the page a reader holds; and what stands at or before the cursor he
\* knew has been dealt with, wherever the cursor is by now.
HeldOK(h) ==
  h.pc = "fetched" =>
    /\ \A j \in h.items : j \in Out /\ Due(j)
    /\ \A i \in Seen \ (late \cup Undated), j \in h.items : Before(i, j) => i \in h.items
    /\ h.cursor # NoItem => /\ h.cursor \in Out
                            /\ \A i \in h.items : UpTo(i, h.cursor) => i \in Covered
    /\ \A i \in Items : 1 <= h.raw[i] /\ h.raw[i] <= raw[i]

ReadInv ==
  /\ ReadTyped /\ InOrder /\ CursorInv /\ CacheInv
  /\ \A r \in Readers : HeldOK(reader[r])
  /\ shown \subseteq Covered

-----------------------------------------------------------------------------
LEMMA LeastOf ==
  ASSUME NEW T, T \subseteq Nat, T # {}
  PROVE  \E x \in T : \A y \in T : x <= y
<1>1. PICK x \in T : \A y \in T : <<y, x>> \notin OpToRel(<, Nat)
  BY WFMin, NatLessThanWellFounded
<1>2. \A y \in T : ~(y < x)
  BY <1>1 DEF OpToRel
<1> QED
  BY <1>2

LEMMA GreatestOf ==
  ASSUME NEW T, T \subseteq Int, T # {}, NEW b \in Int, \A x \in T : x <= b
  PROVE  \E m \in T : \A x \in T : x <= m
<1> DEFINE D == {b - x : x \in T}
<1>1. D \subseteq Nat /\ D # {}
  <2>1. \A x \in T : b - x \in Nat
    OBVIOUS
  <2>2. PICK x \in T : TRUE
    OBVIOUS
  <2>3. b - x \in D
    OBVIOUS
  <2> QED
    BY <2>1, <2>3
<1>2. PICK d \in D : \A y \in D : d <= y
  BY <1>1, LeastOf
<1>3. PICK m \in T : d = b - m
  BY <1>2
<1>4. ASSUME NEW x \in T PROVE x <= m
  <2>1. b - x \in D
    OBVIOUS
  <2> QED
    BY <1>2, <1>3, <2>1
<1> QED
  BY <1>4

LEMMA ItemNumbers == Items \subseteq Nat /\ \E n \in Nat : Items = 1..n
<1>1. Cardinality(Items) \in Nat
  BY NewsAssumption, FS_CardinalityType
<1> QED
  BY <1>1, NewsAssumption

\* The order of the news is total.
LEMMA BeforeTotal ==
  ASSUME date \in [Items -> Int], NEW i \in Items, NEW j \in Items, i # j
  PROVE  Before(i, j) \/ Before(j, i)
BY ItemNumbers DEF Before, Dated

\* A page that is not empty has a newest item.
LEMMA NewestOK ==
  ASSUME date \in [Items -> (0..MaxTime) \cup {NotYet}], NEW E, E \subseteq Items, E # {}
  PROVE  Newest(E) \in E /\ \A j \in E \ {Newest(E)} : Before(j, Newest(E))
<1>1. PICK b \in Nat : Items = 1..b
  BY ItemNumbers
<1>2. E \subseteq Int /\ \A x \in E : x <= b
  BY <1>1
<1>3. \E n \in E : \A j \in E \ {n} : Before(j, n)
  <2>1. CASE \E i \in E : Dated(i)
    <3> DEFINE D == {i \in E : Dated(i)}
               T == {date[i] : i \in D}
    <3>1. T # {} /\ T \subseteq Int /\ \A x \in T : x <= MaxTime
      BY <2>1, NewsAssumption DEF NotYet
    <3>2. PICK m \in T : \A x \in T : x <= m
      <4>1. MaxTime \in Int
        BY NewsAssumption
      <4> HIDE DEF T
      <4> QED
        BY <3>1, <4>1, GreatestOf, Zenon
    <3> DEFINE M == {i \in D : date[i] = m}
    <3>3. M # {} /\ M \subseteq Int /\ \A x \in M : x <= b
      BY <1>2, <3>2
    <3>4. PICK n \in M : \A x \in M : x <= n
      <4>1. b \in Int
        OBVIOUS
      <4> HIDE DEF M
      <4> QED
        BY <3>3, <4>1, GreatestOf, Zenon
    <3>5. ASSUME NEW j \in E \ {n} PROVE Before(j, n)
      <4>1. CASE ~Dated(j)
        BY <4>1, <3>4 DEF Before, Dated
      <4>2. CASE Dated(j) /\ date[j] # m
        <5>1. date[j] \in T /\ date[j] \in Int /\ m \in Int /\ date[n] = m /\ Dated(n)
          BY <3>1, <3>4, <4>2
        <5> QED
          BY <3>2, <4>2, <5>1 DEF Before
      <4>3. CASE Dated(j) /\ date[j] = m
        <5>1. j <= n /\ j \in Int /\ n \in Int /\ date[n] = m /\ Dated(n)
          BY <1>2, <3>4, <4>3
        <5> QED
          BY <4>3, <5>1 DEF Before
      <4> QED
        BY <4>1, <4>2, <4>3
    <3> QED
      BY <3>4, <3>5
  <2>2. CASE \A i \in E : i \in Undated
    <3>1. PICK n \in E : \A j \in E : j <= n
      <4>1. b \in Int
        OBVIOUS
      <4> QED
        BY <1>2, <4>1, GreatestOf, Zenon
    <3>2. \A j \in E \ {n} : j < n
      BY <1>2, <3>1
    <3> QED
      BY <2>2, <3>2 DEF Before, Dated
  <2> QED
    BY <2>1, <2>2 DEF Dated
<1> QED
  BY <1>3 DEF Newest

-----------------------------------------------------------------------------
(* What the source, the clock and the owner do beside the readers.         *)

\* The page shrinks, its texts are revised, the clock goes on.
Ageing ==
  /\ clock' \in {clock, clock + 1} /\ page' \subseteq page
  /\ UNCHANGED <<date, late, cache, source, reader, shown, taken, passed>>
  /\ raw' \in [Items -> Nat] /\ \A i \in Items : raw[i] <= raw'[i]

LEMMA AgeingStep ==
  ASSUME ReadInv, Ageing
  PROVE  ReadInv'
<1>1. /\ Out' = Out /\ Covered' = Covered /\ Seen' \subseteq Seen
      /\ \A i, j : Before(i, j)' <=> Before(i, j)
      /\ \A i, c : UpTo(i, c)' <=> UpTo(i, c)
      /\ cache' = cache /\ source' = source /\ reader' = reader /\ shown' = shown
  BY DEF Ageing, Out, Covered, Seen, Before, UpTo, Dated
<1>2. clock \in Nat /\ cache.at <= clock /\ cache.at \in Nat
  BY DEF ReadInv, ReadTyped, Page
<1>3. \A j : j \in Out /\ Due(j) => Due(j)'
  <2>1. \A j \in Items : date[j] \in Int
    BY NewsAssumption DEF ReadInv, ReadTyped, NotYet
  <2> QED
    BY <1>2, <2>1 DEF Ageing, Due, Out
<1>4. ReadTyped'
  <2>1. clock' \in Nat /\ cache.at <= clock'
    BY <1>2 DEF Ageing
  <2>2. \A i \in Items : /\ raw[i] \in Nat /\ raw'[i] \in Nat /\ cache.raw[i] \in Nat
                         /\ raw[i] <= raw'[i] /\ 1 <= raw[i] /\ 1 <= cache.raw[i]
                         /\ cache.raw[i] <= raw[i]
    BY DEF ReadInv, ReadTyped, Page, Ageing
  <2>3. \A i \in Items : 1 <= raw'[i] /\ cache.raw[i] <= raw'[i]
    BY <2>2
  <2> QED
    BY <1>1, <2>1, <2>3 DEF ReadInv, ReadTyped, Ageing
<1>5. InOrder'
  BY <1>1 DEF ReadInv, InOrder
<1>6. CursorInv'
  BY <1>1, <1>3 DEF ReadInv, CursorInv
<1>7. CacheInv'
  <2> SUFFICES ASSUME cache.at = clock', NEW i \in page \ (late \cup Undated),
                      NEW j \in cache.items, Due(j)', Before(i, j)
               PROVE  i \in cache.items
    BY <1>1 DEF CacheInv, Ageing
  <2>1. clock' = clock
    BY <1>2 DEF Ageing
  <2>2. Due(j)
    BY <2>1 DEF Due, Ageing
  <2> QED
    BY <2>1, <2>2 DEF ReadInv, CacheInv
<1>8. ASSUME NEW r \in Readers PROVE HeldOK(reader[r])'
  <2>1. HeldOK(reader[r]) /\ reader'[r] = reader[r] /\ late' = late
    BY <1>1 DEF ReadInv, Ageing
  <2>2. \A i \in Items : reader[r].raw[i] \in Nat /\ raw[i] \in Nat /\ raw'[i] \in Nat
                         /\ raw[i] <= raw'[i]
    BY DEF ReadInv, ReadTyped, Held, Ageing
  <2>3. reader[r].items \subseteq Items
    BY DEF ReadInv, ReadTyped, Held
  <2> QED
    BY <1>1, <1>3, <2>1, <2>2, <2>3 DEF HeldOK
<1> QED
  BY <1>1, <1>4, <1>5, <1>6, <1>7, <1>8 DEF ReadInv

\* What appears is behind no due item that readers have seen, or it is late.
LEMMA AppearStep ==
  ASSUME ReadInv, NEW i \in Items, Appear(i), UNCHANGED intake
  PROVE  ReadInv'
<1>1. /\ date[i] = NotYet /\ (\A k \in 1..(i - 1) : date[k] # NotYet)
      /\ page' = page \cup {i} /\ clock' = clock /\ raw' = raw
      /\ late' = IF \E j \in 1..(i - 1) : Dated(j) /\ date[j] <= clock /\ date[j] > date'[i]
                 THEN late \cup {i} ELSE late
  BY DEF Appear
<1>2. PICK t \in 0..MaxTime : date' = [date EXCEPT ![i] = t]
  BY DEF Appear
<1>3. UNCHANGED <<cache, source, reader, shown, taken, passed>>
  BY DEF intake
<1>4. /\ date \in [Items -> (0..MaxTime) \cup {NotYet}] /\ clock \in Nat
      /\ \A j \in Items : date[j] \in Int
      /\ t \in Int /\ t # NotYet
  BY NewsAssumption DEF ReadInv, ReadTyped, NotYet
<1>5. /\ date' \in [Items -> (0..MaxTime) \cup {NotYet}] /\ date'[i] = t
      /\ \A j \in Items \ {i} : date'[j] = date[j]
  BY <1>2, <1>4
<1>6. Out' = Out \cup {i} /\ i \notin Out
  BY <1>1, <1>4, <1>5 DEF Out
<1>7. Covered \subseteq Covered' /\ late \subseteq late'
  BY <1>1, <1>3 DEF Covered
<1>8. \A j, k \in Out : Before(j, k)' <=> Before(j, k)
  BY <1>5, <1>6 DEF Before, Dated, Out
<1>9. \A j \in Out : Due(j)' <=> Due(j)
  BY <1>1, <1>5, <1>6 DEF Due, Dated, Out
<1>10. \A j \in Out : j \in Int /\ j < i
  <2>1. i \in Nat /\ \A j \in Out : j \in Nat
    BY ItemNumbers DEF Out
  <2>2. \A j \in Out : i \in 1..(j - 1) => i \in Out
    BY DEF ReadInv, InOrder
  <2>3. \A j \in Out : j # i
    BY <1>6
  <2>4. i >= 1
    BY ItemNumbers
  <2> QED
    BY <1>6, <2>1, <2>2, <2>3, <2>4
<1>11. ASSUME NEW j \in Out, Due(j), Before(i, j)' PROVE i \in late' \cup Undated
  <2>1. CASE i \in Undated
    BY <2>1
  <2>2. CASE Dated(i)
    <3>1. Dated(j) /\ (t < date[j] \/ (t = date[j] /\ i < j))
      <4>1. j # i /\ j \in Items
        BY <1>6 DEF Out
      <4>2. date'[j] = date[j] /\ date'[i] = t
        BY <1>5, <4>1
      <4> QED
        <5>1. Before(i, j)' <=>
                IF Dated(i) /\ Dated(j) THEN t < date[j] \/ (t = date[j] /\ i < j)
                ELSE i \in Undated /\ (Dated(j) \/ i < j)
          BY <4>2 DEF Before, Dated
        <5>2. i \notin Undated
          BY <2>2 DEF Dated
        <5>3. Dated(j)
          BY <1>11, <5>1, <5>2 DEF Dated
        <5>4. t < date[j] \/ (t = date[j] /\ i < j)
          BY <1>11, <2>2, <5>1, <5>3
        <5> QED
          BY <5>3, <5>4
    <3>2. t < date[j] /\ date[j] <= clock
      <4>1. i \in Int
        BY ItemNumbers
      <4> QED
        BY <1>10, <1>11, <3>1, <4>1 DEF Due
    <3>3. j \in 1..(i - 1)
      <4>1. j >= 1 /\ i \in Int
        BY ItemNumbers DEF Out
      <4> QED
        BY <1>10, <4>1
    <3>4. \E k \in 1..(i - 1) : Dated(k) /\ date[k] <= clock /\ date[k] > date'[i]
      <4>1. date[j] \in Int /\ date[j] > date'[i]
        BY <1>4, <1>5, <3>2 DEF Out
      <4> QED
        BY <3>1, <3>2, <3>3, <4>1
    <3> QED
      BY <1>1, <3>4
  <2> QED
    BY <2>1, <2>2 DEF Dated
<1>12. Seen \subseteq Out /\ Seen' = Seen \cup {i} /\ cache.items \subseteq Out /\ page \subseteq Out
  BY <1>1, <1>3 DEF ReadInv, ReadTyped, Seen
<1>13. ReadTyped'
  <2>1. page' \subseteq Out' /\ cache'.items \subseteq Out'
    BY <1>1, <1>3, <1>6, <1>12
  <2> QED
    BY <1>1, <1>3, <1>5, <2>1 DEF ReadInv, ReadTyped
<1>14. InOrder'
  <2>1. \A k \in 1..(i - 1) : k \in Out
    <3>1. \A k \in 1..(i - 1) : k \in Items
      BY ItemNumbers
    <3> QED
      BY <1>1, <3>1 DEF Out
  <2> QED
    BY <1>6, <2>1 DEF ReadInv, InOrder
<1>15. CursorInv'
  <2> SUFFICES ASSUME source.cursor # NoItem
               PROVE  /\ source.cursor \in Out' /\ Due(source.cursor)'
                      /\ \A k \in Seen' : UpTo(k, source.cursor)' => k \in Covered'
    BY <1>3 DEF CursorInv
  <2> DEFINE c == source.cursor
  <2>1. c \in Out /\ Due(c) /\ \A k \in Seen : UpTo(k, c) => k \in Covered
    BY DEF ReadInv, CursorInv
  <2>2. \A k \in Seen : UpTo(k, c)' => k \in Covered'
    BY <1>7, <1>8, <1>12, <2>1, <1>3 DEF UpTo
  <2>3. UpTo(i, c)' => i \in Covered'
    BY <1>3, <1>6, <1>11, <2>1 DEF UpTo, Covered
  <2> QED
    BY <1>3, <1>6, <1>9, <1>12, <2>1, <2>2, <2>3
<1>16. CacheInv'
  <2> SUFFICES ASSUME cache.at = clock, NEW k \in page' \ (late' \cup Undated),
                      NEW j \in cache.items, Due(j)', Before(k, j)'
               PROVE  k \in cache.items
    BY <1>1, <1>3 DEF CacheInv
  <2>1. j \in Out /\ Due(j)
    BY <1>9, <1>12
  <2>2. CASE k = i
    BY <1>11, <1>3, <2>1, <2>2
  <2>3. CASE k \in page
    BY <1>7, <1>8, <1>12, <2>1, <2>3 DEF ReadInv, CacheInv
  <2> QED
    BY <1>1, <2>2, <2>3
<1>17. ASSUME NEW r \in Readers PROVE HeldOK(reader[r])'
  <2> DEFINE h == reader[r]
  <2> SUFFICES ASSUME h.pc = "fetched"
               PROVE  /\ \A j \in h.items : j \in Out' /\ Due(j)'
                      /\ \A k \in Seen' \ (late' \cup Undated), j \in h.items :
                           Before(k, j)' => k \in h.items
                      /\ h.cursor # NoItem =>
                           h.cursor \in Out' /\ \A k \in h.items : UpTo(k, h.cursor)' => k \in Covered'
                      /\ \A k \in Items : 1 <= h.raw[k] /\ h.raw[k] <= raw'[k]
    BY <1>3 DEF HeldOK
  <2>1. HeldOK(h)
    BY DEF ReadInv
  <2>2. \A j \in h.items : j \in Out /\ Due(j)
    BY <2>1 DEF HeldOK
  <2>3. \A k \in Seen \ (late' \cup Undated), j \in h.items : Before(k, j)' => k \in h.items
    BY <1>7, <1>8, <1>12, <2>1, <2>2 DEF HeldOK
  <2>4. \A k \in Seen' \ (late' \cup Undated), j \in h.items : Before(k, j)' => k \in h.items
    BY <1>11, <1>12, <2>2, <2>3
  <2>5. ASSUME h.cursor # NoItem
        PROVE  h.cursor \in Out' /\ \A k \in h.items : UpTo(k, h.cursor)' => k \in Covered'
    <3>1. h.cursor \in Out /\ \A k \in h.items : UpTo(k, h.cursor) => k \in Covered
      BY <2>1, <2>5 DEF HeldOK
    <3>2. \A k \in h.items : UpTo(k, h.cursor)' => UpTo(k, h.cursor)
      BY <1>3, <1>8, <2>2, <3>1 DEF UpTo
    <3> QED
      BY <1>6, <1>7, <3>1, <3>2
  <2> QED
    BY <1>1, <1>6, <1>9, <2>1, <2>2, <2>4, <2>5 DEF HeldOK
<1> QED
  BY <1>3, <1>7, <1>13, <1>14, <1>15, <1>16, <1>17 DEF ReadInv

-----------------------------------------------------------------------------
(* The readers.                                                            *)

LEMMA FetchStep ==
  ASSUME ReadInv, NEW r \in Readers, Fetch(r)
  PROVE  ReadInv'
<1> DEFINE h == [pc |-> "fetched", items |-> {i \in cache'.items : Due(i)}, raw |-> cache'.raw,
                 id |-> source.id, cursor |-> source.cursor]
<1>1. /\ UNCHANGED <<clock, date, late, page, raw, source, shown, taken, passed>>
      /\ cache' = [at |-> clock, items |-> page, raw |-> raw] \/ (cache' = cache /\ cache.at = clock)
      /\ reader' = [reader EXCEPT ![r] = h]
  BY DEF Fetch, news, feed
<1>2. /\ Out' = Out /\ Covered' = Covered /\ page' = page
      /\ \A i, j : Before(i, j)' <=> Before(i, j)
      /\ \A i, c : UpTo(i, c)' <=> UpTo(i, c)
      /\ \A i : Due(i)' <=> Due(i)
  BY <1>1 DEF Out, Covered, Before, UpTo, Dated, Due
<1>3. /\ clock \in Nat /\ raw \in [Items -> Nat] /\ cache \in Page /\ page \subseteq Out
      /\ cache.items \subseteq Out /\ Out \subseteq Items
      /\ reader \in [Readers -> Held] /\ source \in [id : Nat, cursor : Items \cup {NoItem}]
      /\ \A i \in Items : 1 <= raw[i] /\ 1 <= cache.raw[i] /\ cache.raw[i] <= raw[i]
  BY DEF ReadInv, ReadTyped, Out
<1>4. /\ cache' \in Page /\ cache'.at = clock /\ cache'.items \subseteq Out
      /\ cache'.items \in {page, cache.items}
      /\ \A i \in Items : 1 <= cache'.raw[i] /\ cache'.raw[i] <= raw[i]
  <2>1. CASE cache' = [at |-> clock, items |-> page, raw |-> raw]
    <3>1. [at |-> clock, items |-> page, raw |-> raw] \in Page
      BY <1>3 DEF Page
    <3>2. \A i \in Items : raw[i] \in Nat
      BY <1>3
    <3> QED
      BY <1>3, <2>1, <3>1, <3>2
  <2>2. CASE cache' = cache /\ cache.at = clock
    BY <1>3, <2>2
  <2> QED
    BY <1>1, <2>1, <2>2
<1>5. Seen' \subseteq Seen
  BY <1>2, <1>4 DEF Seen
<1>6. h \in Held
  <2>1. cache'.raw \in [Items -> Nat] /\ cache'.items \subseteq Items
    BY <1>3, <1>4 DEF Page
  <2> QED
    BY <1>3, <2>1 DEF Held
<1>7. /\ h.pc = "fetched" /\ h.raw = cache'.raw /\ h.cursor = source.cursor
      /\ h.items = {i \in cache'.items : Due(i)}
  OBVIOUS
<1> HIDE DEF h
<1>8. reader' \in [Readers -> Held] /\ reader'[r] = h /\ \A q \in Readers \ {r} : reader'[q] = reader[q]
  BY <1>1, <1>3, <1>6
<1>9. ReadTyped'
  <2>1. cache'.at <= clock
    BY <1>3, <1>4
  <2> QED
    BY <1>1, <1>2, <1>3, <1>4, <1>8, <2>1 DEF ReadInv, ReadTyped
<1>10. InOrder'
  BY <1>2 DEF ReadInv, InOrder
<1>11. CursorInv'
  BY <1>1, <1>2, <1>5 DEF ReadInv, CursorInv
<1>12. \A i \in page \ (late \cup Undated), j \in cache'.items :
         Due(j) /\ Before(i, j) => i \in cache'.items
  <2>1. CASE cache'.items = page
    BY <2>1
  <2>2. CASE cache' = cache /\ cache.at = clock
    BY <2>2 DEF ReadInv, CacheInv
  <2>3. cache' = [at |-> clock, items |-> page, raw |-> raw] => cache'.items = page
    OBVIOUS
  <2> QED
    BY <1>1, <2>1, <2>2, <2>3
<1>13. CacheInv'
  BY <1>1, <1>2, <1>12 DEF CacheInv
<1>14. HeldOK(reader[r])'
  <2>1. \A j \in h.items : j \in Out /\ Due(j) /\ j \in cache'.items
    BY <1>4, <1>7
  <2>2. \A i \in Seen' \ (late \cup Undated), j \in h.items : Before(i, j) => i \in h.items
    <3> SUFFICES ASSUME NEW i \in Seen' \ (late \cup Undated), NEW j \in h.items, Before(i, j)
                 PROVE  i \in cache'.items /\ Due(i)
      BY <1>7
    <3>1. i \in cache'.items
      BY <1>2, <1>12, <2>1 DEF Seen
    <3>2. date[i] \in Int /\ date[j] \in Int
      <4>1. i \in Items /\ j \in Items
        BY <1>3, <1>4, <2>1, <3>1
      <4> QED
        BY <4>1, NewsAssumption DEF ReadInv, ReadTyped, NotYet
    <3>3. Due(i)
      BY <1>3, <2>1, <3>2 DEF Due, Before, Dated
    <3> QED
      BY <3>1, <3>3
  <2>3. h.cursor # NoItem =>
          h.cursor \in Out /\ \A i \in h.items : UpTo(i, h.cursor) => i \in Covered
    <3>1. h.items \subseteq Seen
      BY <1>4, <1>7 DEF Seen
    <3> QED
      BY <1>7, <3>1 DEF ReadInv, CursorInv
  <2>4. \A i \in Items : 1 <= h.raw[i] /\ h.raw[i] <= raw[i]
    BY <1>4, <1>7
  <2> QED
    BY <1>1, <1>2, <1>8, <2>1, <2>2, <2>3, <2>4 DEF HeldOK
<1>15. ASSUME NEW q \in Readers \ {r} PROVE HeldOK(reader[q])'
  <2>1. HeldOK(reader[q]) /\ reader'[q] = reader[q]
    BY <1>8 DEF ReadInv
  <2> QED
    BY <1>1, <1>2, <1>5, <2>1 DEF HeldOK
<1> QED
  BY <1>1, <1>2, <1>9, <1>10, <1>11, <1>13, <1>14, <1>15 DEF ReadInv

LEMMA AbandonStep ==
  ASSUME ReadInv, NEW r \in Readers, Abandon(r)
  PROVE  ReadInv'
<1>1. /\ UNCHANGED <<clock, date, late, page, raw, source, cache, shown, taken, passed>>
      /\ reader' = [reader EXCEPT ![r] = Resting]
  BY DEF Abandon, news, feed
<1>2. Resting \in Held /\ Resting.pc = "idle"
  BY DEF Resting, NoPage, Held
<1>3. /\ Out' = Out /\ Covered' = Covered /\ Seen' = Seen
      /\ \A i, j : Before(i, j)' <=> Before(i, j)
      /\ \A i, c : UpTo(i, c)' <=> UpTo(i, c)
      /\ \A i : Due(i)' <=> Due(i)
  BY <1>1 DEF Out, Covered, Seen, Before, UpTo, Dated, Due
<1>4. /\ reader' \in [Readers -> Held] /\ reader'[r] = Resting
      /\ \A q \in Readers \ {r} : reader'[q] = reader[q]
  BY <1>1, <1>2 DEF ReadInv, ReadTyped
<1>5. ReadTyped'
  BY <1>1, <1>3, <1>4 DEF ReadInv, ReadTyped
<1>6. InOrder' /\ CursorInv' /\ CacheInv'
  BY <1>1, <1>3 DEF ReadInv, InOrder, CursorInv, CacheInv
<1>7. HeldOK(reader[r])'
  BY <1>2, <1>4 DEF HeldOK
<1>8. ASSUME NEW q \in Readers \ {r} PROVE HeldOK(reader[q])'
  <2>1. HeldOK(reader[q]) /\ reader'[q] = reader[q]
    BY <1>4 DEF ReadInv
  <2> QED
    BY <1>1, <1>3, <2>1 DEF HeldOK
<1> QED
  BY <1>1, <1>3, <1>5, <1>6, <1>7, <1>8 DEF ReadInv

\* The transaction deals with every item of the page it commits.
LEMMA CommitStep ==
  ASSUME ReadInv, NEW r \in Readers, Commit(r)
  PROVE  ReadInv'
<1> DEFINE h == reader[r]
           E == h.items
           fresh == PickNew(E, h.cursor)
           insert == {i \in fresh : Timely(i) /\ ~Known(i)}
<1>1. /\ h.pc = "fetched" /\ reader' = [reader EXCEPT ![r] = Resting]
      /\ UNCHANGED <<clock, date, late, page, raw, cache>>
  BY DEF Commit, feed
<1>2. \/ UNCHANGED <<source, shown, taken, passed>>
      \/ /\ source' = IF E = {} THEN source ELSE [source EXCEPT !.cursor = Newest(E)]
         /\ shown' = shown \cup E
         /\ taken' = taken \cup {i \in fresh : i \in insert \/ Known(i)}
         /\ passed' = passed \cup (IF h.cursor = NoItem THEN E \ fresh ELSE {})
                             \cup {i \in fresh : ~Timely(i)}
  BY DEF Commit
<1>3. Resting \in Held /\ Resting.pc = "idle"
  BY DEF Resting, NoPage, Held
<1>4. /\ Out' = Out /\ Seen' = Seen
      /\ \A i, j : Before(i, j)' <=> Before(i, j)
      /\ \A i, c : UpTo(i, c)' <=> UpTo(i, c)
      /\ \A i : Due(i)' <=> Due(i)
  BY <1>1 DEF Out, Seen, Before, UpTo, Dated, Due
<1>5. Covered \subseteq Covered'
  BY <1>1, <1>2 DEF Covered
<1>6. /\ reader \in [Readers -> Held] /\ h \in Held /\ E \subseteq Items
      /\ source \in [id : Nat, cursor : Items \cup {NoItem}]
      /\ date \in [Items -> (0..MaxTime) \cup {NotYet}]
      /\ \A i \in Items : date[i] \in Int
  BY NewsAssumption DEF ReadInv, ReadTyped, Held, NotYet
<1>7. /\ reader' \in [Readers -> Held] /\ reader'[r] = Resting
      /\ \A q \in Readers \ {r} : reader'[q] = reader[q]
  BY <1>1, <1>3, <1>6
<1>8. HeldOK(h)
  BY DEF ReadInv
<1>9. CASE UNCHANGED <<source, shown, taken, passed>>
  <2>1. ReadTyped'
    BY <1>1, <1>4, <1>7, <1>9 DEF ReadInv, ReadTyped
  <2>2. InOrder' /\ CursorInv' /\ CacheInv'
    BY <1>1, <1>4, <1>5, <1>9 DEF ReadInv, InOrder, CursorInv, CacheInv
  <2>3. HeldOK(reader[r])'
    BY <1>3, <1>7 DEF HeldOK
  <2>4. ASSUME NEW q \in Readers \ {r} PROVE HeldOK(reader[q])'
    <3>1. HeldOK(reader[q]) /\ reader'[q] = reader[q]
      BY <1>7 DEF ReadInv
    <3> QED
      BY <1>1, <1>4, <1>5, <3>1 DEF HeldOK
  <2> QED
    BY <1>5, <1>9, <2>1, <2>2, <2>3, <2>4 DEF ReadInv
<1>10. CASE /\ source' = IF E = {} THEN source ELSE [source EXCEPT !.cursor = Newest(E)]
            /\ shown' = shown \cup E
            /\ taken' = taken \cup {i \in fresh : i \in insert \/ Known(i)}
            /\ passed' = passed \cup (IF h.cursor = NoItem THEN E \ fresh ELSE {})
                                \cup {i \in fresh : ~Timely(i)}
  <2>1. \A i \in fresh : i \in Covered'
    BY <1>10 DEF Covered
  <2>2. E \subseteq Covered'
    <3> SUFFICES ASSUME NEW i \in E, i \notin fresh PROVE i \in Covered'
      BY <2>1
    <3>1. CASE h.cursor = NoItem
      BY <1>10, <3>1 DEF Covered
    <3>2. CASE h.cursor # NoItem /\ h.cursor \in E
      <4>1. ~Before(h.cursor, i)
        BY <3>2 DEF PickNew
      <4>2. UpTo(i, h.cursor)
        BY <1>6, <3>2, <4>1, BeforeTotal DEF UpTo
      <4> QED
        BY <1>5, <1>8, <1>1, <3>2, <4>2 DEF HeldOK
    <3>3. CASE h.cursor # NoItem /\ h.cursor \notin E
      BY <3>3 DEF PickNew
    <3> QED
      BY <3>1, <3>2, <3>3
  <2> HIDE DEF fresh, insert
  <2>3. /\ E = {} => source' = source
        /\ E # {} => source'.cursor = Newest(E) /\ Newest(E) \in E
                     /\ source' \in [id : Nat, cursor : Items \cup {NoItem}]
    <3>1. E # {} => Newest(E) \in E
      BY <1>6, NewestOK
    <3> HIDE DEF E
    <3> QED
      BY <1>6, <1>10, <3>1
  <2>4. ReadTyped'
    BY <1>1, <1>4, <1>7, <2>3 DEF ReadInv, ReadTyped
  <2>5. InOrder' /\ CacheInv'
    BY <1>1, <1>4 DEF ReadInv, InOrder, CacheInv
  <2>6. CursorInv'
    <3>1. CASE E = {}
      BY <1>4, <1>5, <2>3, <3>1 DEF ReadInv, CursorInv
    <3>2. CASE E # {}
      <4> DEFINE c == Newest(E)
      <4>1. c \in E /\ c \in Out /\ Due(c) /\ source'.cursor = c
        BY <1>1, <1>8, <2>3, <3>2 DEF HeldOK
      <4>2. \A i \in Seen : UpTo(i, c) => i \in Covered'
        <5> SUFFICES ASSUME NEW i \in Seen, UpTo(i, c), i \notin late \cup Undated
                     PROVE  i \in E
          BY <1>1, <2>2 DEF Covered
        <5> HIDE DEF c
        <5> QED
          BY <1>1, <1>8, <4>1 DEF HeldOK, UpTo
      <4> QED
        BY <1>4, <4>1, <4>2 DEF CursorInv
    <3> QED
      BY <3>1, <3>2
  <2>7. HeldOK(reader[r])'
    BY <1>3, <1>7 DEF HeldOK
  <2>8. ASSUME NEW q \in Readers \ {r} PROVE HeldOK(reader[q])'
    <3>1. HeldOK(reader[q]) /\ reader'[q] = reader[q]
      BY <1>7 DEF ReadInv
    <3> QED
      BY <1>1, <1>4, <1>5, <3>1 DEF HeldOK
  <2>9. shown' \subseteq Covered'
    BY <1>5, <1>10, <2>2 DEF ReadInv
  <2> QED
    BY <2>4, <2>5, <2>6, <2>7, <2>8, <2>9 DEF ReadInv
<1> QED
  BY <1>2, <1>9, <1>10

LEMMA ReplaceStep ==
  ASSUME ReadInv, ReplaceSource
  PROVE  ReadInv'
<1>1. /\ UNCHANGED <<clock, date, late, page, raw, cache, reader, shown, taken, passed>>
      /\ source' = [id |-> source.id + 1, cursor |-> NoItem]
  BY DEF ReplaceSource, feed
<1>2. source' \in [id : Nat, cursor : Items \cup {NoItem}] /\ source'.cursor = NoItem
  <2>1. source.id + 1 \in Nat
    BY DEF ReadInv, ReadTyped
  <2> QED
    BY <1>1, <2>1
<1>3. /\ Out' = Out /\ Covered' = Covered /\ Seen' = Seen
      /\ \A i, j : Before(i, j)' <=> Before(i, j)
      /\ \A i, c : UpTo(i, c)' <=> UpTo(i, c)
      /\ \A i : Due(i)' <=> Due(i)
  BY <1>1 DEF Out, Covered, Seen, Before, UpTo, Dated, Due
<1>4. ReadTyped'
  BY <1>1, <1>2, <1>3 DEF ReadInv, ReadTyped
<1>5. InOrder' /\ CursorInv' /\ CacheInv'
  BY <1>1, <1>2, <1>3 DEF ReadInv, InOrder, CursorInv, CacheInv
<1>6. ASSUME NEW q \in Readers PROVE HeldOK(reader[q])'
  <2>1. HeldOK(reader[q]) /\ reader'[q] = reader[q]
    BY <1>1 DEF ReadInv
  <2> QED
    BY <1>1, <1>3, <2>1 DEF HeldOK
<1> QED
  BY <1>1, <1>3, <1>4, <1>5, <1>6 DEF ReadInv

\* Whatever else happens in the newsroom ages the feed or lets an item appear.
LEMMA WorldAges ==
  ASSUME ReadTyped, World, UNCHANGED intake
  PROVE  Ageing \/ \E i \in Items : Appear(i)
<1>1. UNCHANGED <<cache, source, reader, shown, taken, passed>>
  BY DEF intake
<1>2. raw \in [Items -> Nat] /\ clock \in Nat
  BY DEF ReadTyped
<1>3. UNCHANGED raw => raw' \in [Items -> Nat] /\ \A i \in Items : raw[i] <= raw'[i]
  <2>1. \A i \in Items : raw[i] \in Nat
    BY <1>2
  <2>2. \A i \in Items : raw[i] <= raw[i]
    BY <2>1
  <2> QED
    BY <1>2, <2>2
<1>4. ASSUME UNCHANGED <<date, late, raw>>, page' \subseteq page, clock' \in {clock, clock + 1}
      PROVE  Ageing
  BY <1>1, <1>3, <1>4 DEF Ageing
<1>5. CASE Tick
  BY <1>4, <1>5 DEF Tick, feed
<1>6. CASE \/ SetPaused \/ SetAutopost \/ SetMode \/ SetEdition \/ ReconsiderFiltered
           \/ ExpireNews \/ PrunePosts
           \/ \E i \in Items : PublishDue(i) \/ Approve(i) \/ Reject(i)
  <2>1. UNCHANGED <<clock, feed>>
    BY <1>6 DEF SetPaused, SetAutopost, SetMode, SetEdition, Set, ReconsiderFiltered, ExpireNews,
                PrunePosts, PublishDue, Approve, Reject, settings
  <2> QED
    BY <1>4, <2>1 DEF feed
<1>7. ASSUME NEW i \in Items, Withdraw(i) PROVE Ageing
  BY <1>4, <1>7 DEF Withdraw
<1>8. ASSUME NEW i \in Items, Revise(i) PROVE Ageing
  <2>1. raw[i] = 1 /\ raw' = [raw EXCEPT ![i] = 2] /\ UNCHANGED <<clock, date, late, page>>
    BY <1>8 DEF Revise
  <2>2. raw' \in [Items -> Nat] /\ \A j \in Items : raw'[j] = IF j = i THEN 2 ELSE raw[j]
    BY <1>2, <2>1
  <2>3. \A j \in Items : raw[j] \in Nat
    BY <1>2
  <2>4. \A j \in Items : raw[j] <= raw'[j]
    BY <2>1, <2>2, <2>3
  <2> QED
    BY <1>1, <2>1, <2>2, <2>4 DEF Ageing
<1> QED
  BY <1>5, <1>6, <1>7, <1>8 DEF World

LEMMA ReadInit == Init /\ InitIntake => ReadInv
<1> SUFFICES ASSUME Init, InitIntake PROVE ReadInv
  OBVIOUS
<1>1. /\ clock = 1 /\ date = [i \in Items |-> NotYet] /\ page = {} /\ raw = [i \in Items |-> 1]
      /\ source = [id |-> 1, cursor |-> NoItem] /\ cache = NoPage
      /\ reader = [r \in Readers |-> Resting] /\ shown = {}
  BY DEF Init, InitIntake
<1>2. Resting \in Held /\ Resting.pc = "idle"
  BY DEF Resting, NoPage, Held
<1>3. /\ NoPage \in Page /\ NoPage.at = 0 /\ NoPage.items = {}
      /\ \A i \in Items : NoPage.raw[i] = 1
  BY DEF NoPage, Page
<1>4. ReadTyped
  BY <1>1, <1>2, <1>3 DEF ReadTyped, Out
<1>5. InOrder /\ CursorInv /\ CacheInv
  BY <1>1, <1>3 DEF InOrder, CursorInv, CacheInv, Out
<1>6. \A r \in Readers : HeldOK(reader[r])
  BY <1>1, <1>2 DEF HeldOK
<1> QED
  BY <1>1, <1>4, <1>5, <1>6 DEF ReadInv

LEMMA ReadInvariance ==
  ASSUME ReadInv, [ReadNews \/ (World /\ UNCHANGED intake)]_<<news, intake>>
  PROVE  ReadInv'
<1>1. CASE UNCHANGED <<news, intake>>
  <2>1. Ageing
    <3>1. \A i \in Items : raw[i] <= raw[i]
      BY DEF ReadInv, ReadTyped
    <3> QED
      BY <1>1, <3>1 DEF news, feed, intake, Ageing, ReadInv, ReadTyped
  <2> QED
    BY <2>1, AgeingStep
<1>2. CASE World /\ UNCHANGED intake
  <2>1. Ageing \/ \E i \in Items : Appear(i)
    BY <1>2, WorldAges DEF ReadInv
  <2> QED
    BY <1>2, <2>1, AgeingStep, AppearStep
<1>3. CASE ReadNews
  BY <1>3, ReplaceStep, FetchStep, AbandonStep, CommitStep DEF ReadNews
<1> QED
  BY <1>1, <1>2, <1>3

\* A story that was due on a page whose cursor was kept has had its row, however
\* many readers there are, whatever pages they hold and whatever the source shows
\* by then, unless it came late or the policy passed it over (poll_source reads
\* the source's row again and compares the cursor).
THEOREM NoStoryIsLost == IntakeSpec => []NothingLost
<1>1. ReadInv => NothingLost
  BY DEF ReadInv, NothingLost, Covered
<1> QED
  BY <1>1, ReadInit, ReadInvariance, PTL DEF IntakeSpec

\* The rows a reader makes are rows of Arrive, however long he has held his page
\* (poll_source looks at the channel's settings again in its transaction).
THEOREM ReadersOnlyArrive == IntakeSpec => ReadsArrive
<1> DEFINE Arrived(i) ==
             reader # reader' /\ posts[i] # posts'[i] =>
               /\ posts[i].status = "none" /\ date[i] # NotYet /\ (Dated(i) => date[i] <= clock)
               /\ ~channel.paused /\ Timely(i)
               /\ \E revision \in 1..raw[i] : posts'[i] = Taken(i, revision)
<1>1. ASSUME ReadInv, NEW r \in Readers, Commit(r), NEW i \in Items
      PROVE  Arrived(i)
  <2> DEFINE h == reader[r]
             insert == {j \in PickNew(h.items, h.cursor) : Timely(j) /\ ~Known(j)}
  <2>1. h.pc = "fetched" /\ HeldOK(h)
    BY <1>1 DEF Commit, ReadInv
  <2>2. CASE UNCHANGED posts
    BY <2>2
  <2>3. CASE /\ ~channel.paused
             /\ posts' = [j \in Items |-> IF j \in insert THEN Taken(j, h.raw[j]) ELSE posts[j]]
    <3>1. CASE i \in insert
      <4>1. i \in h.items /\ Timely(i) /\ ~Known(i)
        <5>1. h.items \subseteq Items /\ date \in [Items -> (0..MaxTime) \cup {NotYet}]
          BY <1>1 DEF ReadInv, ReadTyped, Held
        <5>2. h.items # {} => Newest(h.items) \in h.items
          BY <5>1, NewestOK, Zenon
        <5>3. PickNew(h.items, h.cursor) \subseteq h.items
          BY <5>2 DEF PickNew
        <5> QED
          BY <3>1, <5>3
      <4>2. posts'[i] = Taken(i, h.raw[i])
        BY <2>3, <3>1
      <4>3. h.raw[i] \in 1..raw[i]
        <5>1. h.raw[i] \in Nat /\ raw[i] \in Nat
          BY <1>1 DEF ReadInv, ReadTyped, Held
        <5> QED
          BY <2>1, <5>1 DEF HeldOK
      <4> QED
        BY <2>1, <2>3, <4>1, <4>2, <4>3 DEF HeldOK, Out, Due, Known
    <3>2. CASE i \notin insert
      BY <2>3, <3>2
    <3> QED
      BY <3>1, <3>2
  <2> QED
    BY <1>1, <2>2, <2>3 DEF Commit
<1>2. ASSUME ReadInv, [ReadNews \/ (World /\ UNCHANGED intake)]_<<news, intake>>,
             NEW i \in Items
      PROVE  Arrived(i)
  <2>1. CASE UNCHANGED <<news, intake>>
    BY <2>1 DEF intake
  <2>2. CASE World /\ UNCHANGED intake
    BY <2>2 DEF intake
  <2>3. ASSUME NEW r \in Readers, Commit(r)
        PROVE  Arrived(i)
    BY <1>1, <1>2, <2>3
  <2>4. CASE ReplaceSource \/ \E r \in Readers : Fetch(r) \/ Abandon(r)
    <3>1. posts' = posts
      BY <2>4 DEF ReplaceSource, Fetch, Abandon, news
    <3> QED
      BY <3>1
  <2> QED
    BY <1>2, <2>1, <2>2, <2>3, <2>4 DEF ReadNews
<1>3. ReadInv /\ [ReadNews \/ (World /\ UNCHANGED intake)]_<<news, intake>>
        => [\A i \in Items : Arrived(i)]_<<news, intake>>
  BY <1>2
<1> QED
  BY <1>3, ReadInit, ReadInvariance, PTL DEF IntakeSpec, ReadsArrive
=============================================================================
