----------------------------- MODULE MCDelivery -----------------------------
(* Instances of Delivery for TLC. *)
EXTENDS Delivery, TLC

CONSTANTS p1, p2, p3, c1, c2, o1, t1, t2

\* One channel: a post of two messages, another post of the same story, and a
\* post the owner wrote.
OneChannel == [p \in Posts |-> c1]
TwoChannels == (p1 :> c1) @@ (p2 :> c2)
OwnerOfAll == [c \in Channels |-> o1]
LongFirst == [p \in Posts |-> IF p = p1 THEN 2 ELSE 1]
AllShort == [p \in Posts |-> 1]
SameStory == {<<p1, p2>>, <<p2, p1>>}
Unrelated == {}
LimitOne == [o \in Owners |-> 1]
LimitThree == [o \in Owners |-> 3]

TaskSymmetry == Permutations(Tasks)
=============================================================================
