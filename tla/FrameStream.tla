---------------------------- MODULE FrameStream ----------------------------
(***************************************************************************)
(* What the streams of a LiDAR promise their callers: each stream delivers *)
(* every frame its device sent on it, once, in the order sent.             *)
(***************************************************************************)
EXTENDS Integers

CONSTANT Streams

VARIABLES sent, got

Init ==
  /\ sent = [c \in Streams |-> 0]
  /\ got = [c \in Streams |-> 0]

Send(c) == sent' = [sent EXCEPT ![c] = @ + 1] /\ UNCHANGED got

Deliver(c) ==
  /\ got[c] < sent[c]
  /\ got' = [got EXCEPT ![c] = @ + 1]
  /\ UNCHANGED sent

Next == \E c \in Streams : Send(c) \/ Deliver(c)

Spec == Init /\ [][Next]_<<sent, got>>

=============================================================================
