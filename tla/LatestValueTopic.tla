------------------------- MODULE LatestValueTopic --------------------------
(***************************************************************************)
(* What topics fed from last-value buffers promise their subscribers.      *)
(* For each channel a driver keeps the stamp of the newest value it has    *)
(* acquired; a node publishes stamps from time to time.  Values may be     *)
(* skipped, and, if MayRepeat, sent again, but the stamps of a topic never *)
(* run backwards and never run ahead of the driver.  Stamp 0 is the buffer *)
(* before its first value.                                                 *)
(***************************************************************************)
EXTENDS Integers, Sequences

CONSTANTS Channels, MayRepeat

VARIABLES newest, topic

LastSent(c) == IF topic[c] = <<>> THEN 0 ELSE topic[c][Len(topic[c])]

Init ==
  /\ newest = [c \in Channels |-> 0]
  /\ topic = [c \in Channels |-> <<>>]

Acquire(c) ==
  /\ \E s \in {newest'[c]} :
       s \in Nat /\ s > newest[c] /\ newest' = [newest EXCEPT ![c] = s]
  /\ UNCHANGED topic

Publish(c) ==
  /\ \E s \in LastSent(c)..newest[c] :
       /\ MayRepeat \/ s > LastSent(c)
       /\ topic' = [topic EXCEPT ![c] = Append(@, s)]
  /\ UNCHANGED newest

Next == \E c \in Channels : Acquire(c) \/ Publish(c)

Spec == Init /\ [][Next]_<<newest, topic>>

=============================================================================
