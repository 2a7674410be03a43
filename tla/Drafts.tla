------------------------------- MODULE Drafts -------------------------------
(***************************************************************************)
(* The texts of a channel that wait for its owner, in the business mode    *)
(* and outside it: the bot's chat (app/bot/handlers.py) and the mini app   *)
(* (app/api/routes.py, post_action) make, change and approve them, the     *)
(* company's editor (app/core/business.py) adds its own, and the publish   *)
(* loop sends what is approved.  Each request reads a row, waits for the   *)
(* database or for the model, and then writes what still holds.            *)
(*                                                                         *)
(* A text or a photo is the number of its version.                         *)
(***************************************************************************)
EXTENDS Integers, Sequences, FiniteSets

CONSTANTS
  Hands,       \* requests and tasks at work at once
  MaxPending,  \* the limit of company drafts that wait
  MaxDrafts, MaxVersions, MaxPhotos, MaxForwards, MaxSwitches  \* bounds of the model

ASSUME DraftsAssumption ==
  {MaxPending, MaxDrafts, MaxVersions, MaxPhotos, MaxForwards, MaxSwitches} \subseteq Nat

VARIABLES
  mode,      \* [enabled: BUSINESS_MODE_ENABLED; business, auto: the channel's; profile]
  switches,  \* how often the owner has changed it
  slot,      \* kv forward:<user>: the message forwarded last, 0 when it has been used
  forwards,  \* messages forwarded so far
  drafts,    \* rows of posts
  hand,      \* the requests at work
  agreed     \* history: the versions the owner has approved as he saw them

drafting == <<mode, switches, slot, forwards, drafts, hand, agreed>>

AtRest == [at |-> "rest"]
Claimable == {"pending", "approved", "failed"}

InitDrafts ==
  /\ mode \in [enabled : BOOLEAN, business : BOOLEAN, auto : {FALSE}, profile : {1}]
  /\ switches = 0 /\ slot = 0 /\ forwards = 0 /\ drafts = <<>> /\ agreed = {}
  /\ hand = [h \in Hands |-> AtRest]

Put(h, to) == hand' = [hand EXCEPT ![h] = to]
Version(d) == [draft |-> d, text |-> drafts[d].text, photo |-> drafts[d].photo]

\* features.business_mode_unavailable.
ChannelOff == ~mode.enabled /\ mode.business
Unavailable(d) == ChannelOff \/ (~mode.enabled /\ drafts[d].company)
Undisturbed == UNCHANGED <<mode, switches, slot, forwards, agreed>>

-----------------------------------------------------------------------------
(* A forwarded message becomes a draft (on_forward, on_forward_action).    *)

Forward ==
  /\ forwards < MaxForwards
  /\ forwards' = forwards + 1 /\ slot' = forwards + 1
  /\ UNCHANGED <<mode, switches, drafts, hand, agreed>>

Tap(h) ==
  /\ hand[h].at = "rest" /\ slot # 0
  /\ Put(h, [at |-> "tapped", forward |-> slot])
  /\ Undisturbed /\ UNCHANGED drafts

\* Slip: the message is used as it was read.
ConsumeRead(h) ==
  /\ hand[h].at = "tapped"
  /\ slot' = 0 /\ Put(h, [at |-> "writing", forward |-> hand[h].forward])
  /\ UNCHANGED <<mode, switches, forwards, drafts, agreed>>

\* The deletion of the slot decides between two taps, before the model is asked.
Consume(h) ==
  /\ hand[h].at = "tapped"
  /\ IF slot = hand[h].forward
     THEN slot' = 0 /\ Put(h, IF ChannelOff THEN AtRest ELSE [at |-> "writing", forward |-> slot])
     ELSE UNCHANGED slot /\ Put(h, AtRest)
  /\ UNCHANGED <<mode, switches, forwards, drafts, agreed>>

NewDraft(company, made, forward, status) ==
  [company |-> company, made |-> made, forward |-> forward, status |-> status,
   text |-> 1, photo |-> 0, known |-> FALSE]
Added(row) == Len(drafts) < MaxDrafts /\ drafts' = Append(drafts, row)

\* on_manual after the model: the draft, then its notice, whose number makes it editable.
Write(h) ==
  /\ hand[h].at = "writing"
  /\ Added(NewDraft(FALSE, FALSE, hand[h].forward, "pending"))
  /\ Put(h, [at |-> "noticing", draft |-> Len(drafts) + 1])
  /\ Undisturbed

Notice(h) ==
  /\ hand[h].at = "noticing"
  /\ drafts' = [drafts EXCEPT ![hand[h].draft].known = TRUE]
  /\ Put(h, AtRest) /\ Undisturbed

\* The editorial desk puts a news post into the queue or before the owner, by
\* settings that may have changed a moment ago; Editing says when.
NewsText ==
  /\ \E status \in {"approved", "pending"} : Added(NewDraft(FALSE, FALSE, 0, status))
  /\ Undisturbed /\ UNCHANGED hand

-----------------------------------------------------------------------------
(* A text is changed (on_edit_reply, on_moderation and post_action).       *)

\* By a reply to the notice, by the button in the chat or the app, or written
\* by the owner himself: each of them as the request finds the row.
Rewrite(h, d) ==
  /\ hand[h].at = "rest" /\ ~Unavailable(d)
  /\ drafts[d].known \/ drafts[d].status \in Claimable
  /\ Put(h, [at |-> "rewriting", draft |-> d, base |-> drafts[d].text])
  /\ Undisturbed /\ UNCHANGED drafts

\* Slip: a text is replaced as long as the draft has not been sent.
StillThatAnyhow(d, base) == drafts[d].status \in Claimable

StillThat(d, base) == drafts[d].status \in Claimable /\ drafts[d].text = base

\* replace_draft: a doubtful text goes back to the owner.
Replace(h) ==
  /\ hand[h].at = "rewriting" /\ Put(h, AtRest)
  /\ LET d == hand[h].draft
     IN IF StillThat(d, hand[h].base) /\ ~Unavailable(d)
        THEN /\ drafts[d].text < MaxVersions
             /\ \E status \in {drafts[d].status, "pending"} :
                  drafts' = [drafts EXCEPT ![d].text = @ + 1, ![d].status = status]
        ELSE UNCHANGED drafts
  /\ Undisturbed

PickPhoto(h, d) ==
  /\ hand[h].at = "rest" /\ ~Unavailable(d)
  /\ drafts[d].company /\ drafts[d].status = "pending"
  /\ Put(h, [at |-> "uploading", draft |-> d, base |-> drafts[d].photo])
  /\ Undisturbed /\ UNCHANGED drafts

SetPhoto(h) ==
  /\ hand[h].at = "uploading" /\ Put(h, AtRest)
  /\ LET d == hand[h].draft
     IN IF drafts[d].status = "pending" /\ drafts[d].photo = hand[h].base
        THEN drafts[d].photo < MaxPhotos /\ drafts' = [drafts EXCEPT ![d].photo = @ + 1]
        ELSE UNCHANGED drafts
  /\ Undisturbed

\* Slip: the switch protects company drafts only while the channel is a company's.
RejectableNow(d) == drafts[d].status \in Claimable /\ ~ChannelOff

Rejectable(d) == drafts[d].status \in Claimable /\ ~Unavailable(d)

RejectDraft(d) ==
  /\ Rejectable(d)
  /\ drafts' = [drafts EXCEPT ![d].status = "rejected"]
  /\ Undisturbed /\ UNCHANGED hand

-----------------------------------------------------------------------------
(* Approval and sending (approve, publish_due, publish_post).              *)

\* The owner approves what his feed has shown; the rest happens when it arrives.
Press(h, d) ==
  /\ hand[h].at = "rest" /\ drafts[d].status \in Claimable /\ ~Unavailable(d)
  /\ Put(h, [at |-> "pressing", by |-> "owner", seen |-> Version(d)])
  /\ agreed' = agreed \cup {Version(d)}
  /\ UNCHANGED <<mode, switches, slot, forwards, drafts>>

Queue(h, d) ==
  /\ hand[h].at = "rest" /\ drafts[d].status = "approved" /\ ~mode.business /\ mode.auto
  /\ Put(h, [at |-> "pressing", by |-> "loop", seen |-> Version(d)])
  /\ Undisturbed /\ UNCHANGED drafts

\* Slip: an approval is for whatever text the row holds.
ConsentToRow(h, d) == (mode.business \/ drafts[d].company) => hand[h].by = "owner"

Consent(h, d) ==
  (mode.business \/ drafts[d].company) => hand[h].by = "owner" /\ hand[h].seen = Version(d)

\* The transaction of publish_post; quota, access, age and the rest may refuse too.
ClaimDraft(h) ==
  /\ hand[h].at = "pressing"
  /\ LET d == hand[h].seen.draft
     IN \/ /\ drafts[d].status \in Claimable /\ ~Unavailable(d) /\ Consent(h, d)
           /\ hand[h].by = "loop" => mode.auto
           /\ \A e \in DOMAIN drafts : drafts[e].status \notin {"publishing", "uncertain"}
           /\ drafts' = [drafts EXCEPT ![d].status = "publishing"]
           /\ Put(h, [at |-> "sending", version |-> Version(d), before |-> drafts[d].status])
        \/ UNCHANGED drafts /\ Put(h, AtRest)
  /\ Undisturbed

\* A failure leaves the row as it was before, or failed; no answer, uncertain.
Sent(h) ==
  /\ hand[h].at = "sending" /\ Put(h, AtRest)
  /\ \E status \in {"published", hand[h].before, "failed", "uncertain"} :
       drafts' = [drafts EXCEPT ![hand[h].version.draft].status = status]
  /\ Undisturbed

\* recover_stale_deliveries: nobody is sending it any more.
Recover(d) ==
  /\ drafts[d].status = "publishing" /\ ~Unavailable(d)
  /\ \A h \in Hands : hand[h].at = "sending" => hand[h].version.draft # d
  /\ drafts' = [drafts EXCEPT ![d].status = "uncertain"]
  /\ Undisturbed /\ UNCHANGED hand

\* reconcile_delivery: the owner has looked.
Reconcile(d) ==
  /\ drafts[d].status = "uncertain" /\ ~Unavailable(d)
  /\ \E status \in {"published", "pending"} : drafts' = [drafts EXCEPT ![d].status = status]
  /\ Undisturbed /\ UNCHANGED hand

-----------------------------------------------------------------------------
(* The company's editor and the owner's switches.                          *)

Waiting == Cardinality({d \in DOMAIN drafts : drafts[d].made /\ drafts[d].status = "pending"})

Compose(h) ==
  /\ hand[h].at = "rest" /\ mode.enabled /\ mode.business /\ Waiting < MaxPending
  /\ \A g \in Hands : hand[g].at # "composing"
  /\ Put(h, [at |-> "composing", profile |-> mode.profile])
  /\ Undisturbed /\ UNCHANGED drafts

\* The dossier and the mode are read again when the model has answered.
StillCompany(h) == mode.business /\ mode.profile = hand[h].profile

Composed(h) ==
  /\ hand[h].at = "composing" /\ Put(h, AtRest)
  /\ IF StillCompany(h) THEN Added(NewDraft(TRUE, TRUE, 0, "pending")) ELSE UNCHANGED drafts
  /\ Undisturbed

\* A request or its model fails; a draft that has been written stays.
Give(h) ==
  /\ hand[h].at \in {"writing", "noticing", "rewriting", "uploading", "composing"}
  /\ Put(h, AtRest) /\ Undisturbed /\ UNCHANGED drafts

Queued(d) == drafts[d].status = "approved"
Switch(to) ==
  /\ switches < MaxSwitches /\ switches' = switches + 1
  /\ ~ChannelOff /\ mode' = to

\* update_channel: what was prepared before the business mode becomes a company draft.
Enter ==
  /\ ~mode.business /\ mode.enabled /\ Switch([mode EXCEPT !.business = TRUE, !.auto = FALSE])
  /\ drafts' = [d \in DOMAIN drafts |->
       IF Queued(d) THEN [drafts[d] EXCEPT !.status = "pending", !.company = TRUE] ELSE drafts[d]]
  /\ UNCHANGED <<slot, forwards, hand, agreed>>

Leave ==
  /\ mode.business /\ Switch([mode EXCEPT !.business = FALSE])
  /\ UNCHANGED <<slot, forwards, drafts, hand, agreed>>

Autopost ==
  /\ ~mode.business /\ Switch([mode EXCEPT !.auto = ~@])
  /\ drafts' = IF mode.auto
               THEN [d \in DOMAIN drafts |->
                       IF Queued(d) THEN [drafts[d] EXCEPT !.status = "pending"] ELSE drafts[d]]
               ELSE drafts
  /\ UNCHANGED <<slot, forwards, hand, agreed>>

Profile ==
  /\ mode.profile < 2 /\ Switch([mode EXCEPT !.profile = 2])
  /\ UNCHANGED <<slot, forwards, drafts, hand, agreed>>

\* The process starts anew, with the feature on or off.
Restart ==
  /\ switches < MaxSwitches /\ switches' = switches + 1
  /\ \E enabled \in BOOLEAN : mode' = [mode EXCEPT !.enabled = enabled]
  /\ hand' = [h \in Hands |-> AtRest]
  /\ UNCHANGED <<slot, forwards, drafts, agreed>>

DraftsNext ==
  \/ Forward \/ NewsText \/ Enter \/ Leave \/ Autopost \/ Profile \/ Restart
  \/ \E h \in Hands : \/ Tap(h) \/ Consume(h) \/ Write(h) \/ Notice(h) \/ Replace(h)
                      \/ SetPhoto(h) \/ ClaimDraft(h) \/ Sent(h) \/ Compose(h) \/ Composed(h) \/ Give(h)
  \/ \E d \in DOMAIN drafts :
       \/ RejectDraft(d) \/ Recover(d) \/ Reconcile(d)
       \/ \E h \in Hands : Rewrite(h, d) \/ PickPhoto(h, d) \/ Press(h, d) \/ Queue(h, d)

DraftsSpec == InitDrafts /\ [][DraftsNext]_drafting

-----------------------------------------------------------------------------
\* A forwarded message is given to the model once and becomes at most one draft,
\* however often its button is tapped and however long the first tap takes
\* (handlers.py:246-252).
OneDraftPerForward ==
  \A h \in Hands : hand[h].at = "writing" =>
    /\ \A g \in Hands \ {h} : hand[g].at = "writing" => hand[g].forward # hand[h].forward
    /\ \A d \in DOMAIN drafts : drafts[d].forward # hand[h].forward

\* A new text replaces exactly the text it was made from: no answer of the model
\* that comes late undoes what was written meanwhile, in the chat or in the app,
\* and none changes a text that is being sent or has been.
NoEditLost ==
  [][\A d \in DOMAIN drafts : drafts'[d].text # drafts[d].text =>
       /\ drafts[d].status \in Claimable
       /\ \E h \in Hands : /\ hand[h].at = "rewriting" /\ hand'[h] = AtRest
                           /\ hand[h].draft = d /\ hand[h].base = drafts[d].text]_drafting

\* Whatever is sent while its channel is a company's, and every company draft
\* wherever it has got to, is the very text with the very photo its owner has
\* approved: after the mode was left and entered again, with automatic
\* publication on, after failed attempts, and when another session has changed
\* it (docs/business.md:34-35, 47-73).
SentAsAgreed ==
  [][\A h \in Hands : hand[h].at = "pressing" /\ hand'[h].at = "sending"
       => \/ ~mode.business /\ ~drafts[hand'[h].version.draft].company
          \/ hand'[h].version \in agreed]_drafting

\* While the feature is switched off a company's drafts stay as they are, and so
\* does everything in its channel, whatever is tapped then
\* (features.py:1: disabling a feature never rewrites saved data).
OffChangesNothing ==
  [][\A d \in DOMAIN drafts : Unavailable(d) => drafts'[d] = drafts[d]]_drafting

\* At most so many drafts of the editor wait for the owner (docs/business.md:39-40).
PendingLimited == Waiting <= MaxPending
=============================================================================
