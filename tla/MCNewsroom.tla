---------------------------- MODULE MCNewsroom ----------------------------
(***************************************************************************)
(* Newsroom for TLC, in two scenes of one instance: the editing of one     *)
(* item under changing settings, and the digest of two similar items.      *)
(***************************************************************************)
EXTENDS Newsroom

VARIABLE scene

Super == [quality |-> "super", strict |-> FALSE]
Strict == [quality |-> "fast", strict |-> TRUE]
TwoEditions == {Super, Strict}

StrictRealtime == [paused |-> FALSE, autopost |-> TRUE, open |-> TRUE, mode |-> "realtime",
                   edition |-> Strict]
SuperDigests == [StrictRealtime EXCEPT !.mode = "digest", !.edition = Super]
BothStarts == {StrictRealtime, SuperDigests}

SameStory == {<<1, 2>>, <<2, 1>>}

\* What each scene leaves out of the instance.
OneItem == date[2] = NotYet
DigestWorld ==
  /\ clock <= 2 /\ changes <= 1 /\ ~desk.once /\ \A i \in Items : raw[i] = 1
  /\ channel.open /\ ~channel.paused /\ channel.autopost /\ channel.edition = Super
  /\ \A i \in Items : posts[i].status # "rejected"
  /\ \A k \in DOMAIN digests : digests[k].status # "rejected"

InitMC ==
  /\ InitNewsroom
  /\ scene = IF channel = SuperDigests THEN "digest" ELSE "editing"

NextMC ==
  /\ Next /\ UNCHANGED scene
  /\ IF scene = "editing" THEN OneItem' ELSE DigestWorld'

SpecMC == InitMC /\ [][NextMC]_<<vars, scene>>
=============================================================================
