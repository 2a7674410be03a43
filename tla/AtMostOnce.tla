----------------------------- MODULE AtMostOnce -----------------------------
(***************************************************************************)
(* What delivery promises to a channel, without the machinery: a message   *)
(* of a post appears in the channel at most once, in order, and only while *)
(* the post is held or closed; a channel holds one post at a time; a held  *)
(* post is given back to the queue only if nothing of it has appeared.     *)
(***************************************************************************)
EXTENDS Integers

CONSTANTS Posts, ChannelOf, Parts

VARIABLES
  phase,    \* free: may be taken; held: outcome open; closed: published
  reached   \* <<post, part>> that appeared in the channel

vars == <<phase, reached>>

Init ==
  /\ phase = [p \in Posts |-> "free"]
  /\ reached = {}

Untouched(p) == \A m \in reached : m[1] # p

Hold(p) ==
  /\ phase[p] = "free"
  /\ Untouched(p)
  /\ \A q \in Posts : ChannelOf[q] = ChannelOf[p] => phase[q] # "held"
  /\ phase' = [phase EXCEPT ![p] = "held"]
  /\ UNCHANGED reached

Appear(p, k) ==
  /\ phase[p] # "free"
  /\ <<p, k>> \notin reached
  /\ k > 1 => <<p, k - 1>> \in reached
  /\ reached' = reached \cup {<<p, k>>}
  /\ UNCHANGED phase

Release(p) ==
  /\ phase[p] = "held"
  /\ Untouched(p)
  /\ phase' = [phase EXCEPT ![p] = "free"]
  /\ UNCHANGED reached

Close(p) ==
  /\ phase[p] = "held"
  /\ phase' = [phase EXCEPT ![p] = "closed"]
  /\ UNCHANGED reached

Next ==
  \E p \in Posts :
    Hold(p) \/ Release(p) \/ Close(p) \/ \E k \in 1..Parts[p] : Appear(p, k)

Spec == Init /\ [][Next]_vars
=============================================================================
