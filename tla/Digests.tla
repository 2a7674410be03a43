------------------------------ MODULE Digests ------------------------------
(***************************************************************************)
(* The daily digest (digest_due, run_digest): the texts that wait for it   *)
(* are read, the model is asked twice, and one transaction makes a post of *)
(* them if nothing has changed meanwhile.                                  *)
(***************************************************************************)
EXTENDS NewsPosts

CONSTANTS MaxMembers, Runners

ASSUME DigestAssumption == MaxMembers \in Nat \ {0}

VARIABLES
  sentOn,  \* channels.digest_sent_on
  runner   \* the tasks that prepare a digest: one for each process

digesting == <<sentOn, runner>>

Never == -1
NoRun == [pc |-> "idle", rows |-> [i \in Items |-> NoRow], members |-> {},
          edition |-> Start.edition, post |-> 0]

InitDigests == sentOn = Never /\ runner = [d \in Runners |-> NoRun]

\* Rows that wait for the digest and are at most a day old.
Waiting == {i \in Items : posts[i].status = "digest" /\ ~Stale(posts[i], "digest")}

\* digest_due and the first half of run_digest; the hour of the digest may be
\* any hour of the day.
Prepare(d) ==
  /\ runner[d].pc = "idle" /\ sentOn # Day
  /\ channel.mode = "digest" /\ ~channel.paused /\ channel.autopost
  /\ \E members \in SUBSET Waiting :
       /\ Cardinality(members) = Min({MaxMembers, Cardinality(Waiting)}) /\ members # {}
       /\ \A i \in members, j \in Waiting \ members : posts[i].made >= posts[j].made
       /\ runner' = [runner EXCEPT ![d] =
            [pc |-> "asked", rows |-> posts, members |-> members,
             edition |-> channel.edition, post |-> 0]]
  /\ UNCHANGED <<news, sentOn>>

\* The model fails, the facts of the summary do not hold, time runs out.
GiveUp(d) ==
  /\ runner[d].pc = "asked"
  /\ runner' = [runner EXCEPT ![d] = NoRun]
  /\ UNCHANGED <<news, sentOn>>

\* Slip: the transaction compares the texts of the rows but not their state.
MembersByText(d) ==
  \A i \in runner[d].members : posts[i].text = runner[d].rows[i].text

\* Slip: it compares their state but not their texts.
MembersByStatus(d) == \A i \in runner[d].members : posts[i].status = "digest"

MembersAsRead(d) ==
  \A i \in runner[d].members :
    /\ posts[i].status = "digest"
    /\ posts[i].raw = runner[d].rows[i].raw /\ posts[i].text = runner[d].rows[i].text

DayFree == sentOn # Day

\* Slip: the day is not reserved.
ReserveNothing == sentOn

Reserve == Day

\* The settings are as they were read: of the content, instructions and language
\* only, which stand here for the whole edition.
StillWanted(d) ==
  /\ channel.mode = "digest" /\ ~channel.paused /\ channel.autopost
  /\ channel.edition = runner[d].edition

Make(d) ==
  /\ runner[d].pc = "asked"
  /\ IF StillWanted(d) /\ DayFree /\ MembersAsRead(d)
     THEN /\ posts' = [i \in Items |->
                         IF i \in runner[d].members
                         THEN [posts[i] EXCEPT !.status = "digest_item", !.reason = "other"]
                         ELSE posts[i]]
          /\ digests' = Append(digests,
               [day |-> Day, members |-> runner[d].members, status |-> "approved",
                texts |-> [i \in Items |-> runner[d].rows[i].text]])
          /\ sentOn' = Reserve
          /\ runner' = [runner EXCEPT ![d] = [NoRun EXCEPT !.pc = "made",
                                                           !.post = Len(digests) + 1]]
     ELSE /\ runner' = [runner EXCEPT ![d] = NoRun]
          /\ UNCHANGED <<posts, digests, sentOn>>
  /\ UNCHANGED <<clock, settings, feed, aired>>

SendDigest(k) ==
  \/ /\ digests' = [digests EXCEPT ![k].status = "published"]
     /\ aired' = [i \in Items |-> IF i \in digests[k].members THEN aired[i] + 1 ELSE aired[i]]
  \/ /\ digests' = [digests EXCEPT ![k].status = "failed"]
     /\ UNCHANGED aired

\* The runner sends what it made; when it cannot, the publish loop will.
SendMade(d) ==
  /\ runner[d].pc = "made"
  /\ runner' = [runner EXCEPT ![d] = NoRun]
  /\ \/ /\ digests[runner[d].post].status \in {"approved", "pending", "failed"} /\ Automatic
        /\ SendDigest(runner[d].post)
     \/ UNCHANGED <<digests, aired>>
  /\ UNCHANGED <<clock, settings, feed, posts, sentOn>>

PublishDigest(k) ==
  /\ digests[k].status = "approved" /\ Automatic /\ SendDigest(k)
  /\ UNCHANGED <<clock, settings, feed, posts, digesting>>

ApproveDigest(k) ==
  /\ "approve" \in Moves /\ digests[k].status \in {"approved", "pending", "failed"}
  /\ SendDigest(k)
  /\ UNCHANGED <<clock, settings, feed, posts, digesting>>

RejectDigest(k) ==
  /\ "reject" \in Moves /\ digests[k].status \in {"approved", "pending", "failed"}
  /\ digests' = [digests EXCEPT ![k].status = "rejected"]
  /\ UNCHANGED <<clock, settings, feed, posts, aired, digesting>>

Summarize ==
  \/ \E d \in Runners : Prepare(d) \/ GiveUp(d) \/ Make(d) \/ SendMade(d)
  \/ \E k \in DOMAIN digests : PublishDigest(k) \/ ApproveDigest(k) \/ RejectDigest(k)

DigestsOK ==
  /\ sentOn \in Nat \cup {Never}
  /\ runner \in [Runners -> [pc : {"idle", "asked", "made"}, rows : [Items -> Row],
                             members : SUBSET Items, edition : Editions,
                             post : 0..Len(digests)]]

\* One digest for one local day, however long the model takes and whatever
\* process prepares it (digest_sent_on), as long as the channel stays in its
\* time zone.
OneDigestADay ==
  \A k, l \in DOMAIN digests : digests[k].day = digests[l].day => k = l

\* A digest that has been made speaks for its items as long as they are kept:
\* with the texts they have, and they appear in no other digest.
DigestIsItsItems ==
  \A k \in DOMAIN digests : \A i \in digests[k].members :
    posts[i].status = "digest_item" =>
      /\ digests[k].texts[i] = posts[i].text
      /\ \A l \in DOMAIN digests : i \in digests[l].members => l = k
=============================================================================
