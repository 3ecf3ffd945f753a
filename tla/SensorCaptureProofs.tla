------------------------ MODULE SensorCaptureProofs ------------------------
(***************************************************************************)
(* Theorems about SensorCapture, for every number of channels, callbacks,  *)
(* reports and re-tests.                                                   *)
(***************************************************************************)
EXTENDS SensorCapture, FiniteSetTheorems, SequenceTheorems, TLAPS

\* The loops visit channels only.
LEMMA OrderFacts ==
  /\ Len(Order) \in Nat /\ 1 \in Index
  /\ \A i \in Index : Order[i] \in Channels
  /\ Channels \subseteq AllChannels
BY OrderAssumption DEF Index, Channels

\* Writing one field of a buffer leaves buffers of the right type.
LEMMA FieldType ==
  ASSUME TypeOK, NEW c \in Channels
  PROVE  /\ \A v \in Status : [box EXCEPT ![c].valid = v] \in [Channels -> Reading]
         /\ \A n \in Nat : [box EXCEPT ![c].stamp = n] \in [Channels -> Reading]
         /\ \A n \in Nat : [box EXCEPT ![c].data = n] \in [Channels -> Reading]
<1>1. box \in [Channels -> Reading] /\ box[c] \in Reading
  BY DEF TypeOK
<1>2. ASSUME NEW v \in Status
      PROVE  [box EXCEPT ![c].valid = v] \in [Channels -> Reading]
  <2>1. [box[c] EXCEPT !.valid = v] \in Reading
    BY <1>1 DEF Reading
  <2> QED BY <1>1, <2>1
<1>3. ASSUME NEW n \in Nat
      PROVE  [box EXCEPT ![c].stamp = n] \in [Channels -> Reading]
  <2>1. [box[c] EXCEPT !.stamp = n] \in Reading
    BY <1>1 DEF Reading
  <2> QED BY <1>1, <2>1
<1>4. ASSUME NEW n \in Nat
      PROVE  [box EXCEPT ![c].data = n] \in [Channels -> Reading]
  <2>1. [box[c] EXCEPT !.data = n] \in Reading
    BY <1>1 DEF Reading
  <2> QED BY <1>1, <2>1
<1> QED BY <1>2, <1>3, <1>4

\* Every step of a grab thread or a callback is about a channel that exists.
LEMMA CurrentChannel ==
  ASSUME TypeOK
  PROVE  Order[gi] \in Channels /\ \A r \in Callbacks : Order[ri[r]] \in Channels
BY OrderFacts DEF TypeOK

\* Copying one field of a buffer leaves copies of the right type.
LEMMA CopyType ==
  ASSUME TypeOK, NEW r \in Callbacks, NEW f \in {"valid", "stamp", "data"}
  PROVE  [got EXCEPT ![r] = [@ EXCEPT ![f] = box[Order[ri[r]]][f]]]
           \in [Callbacks -> Reading]
<1>1. box[Order[ri[r]]] \in Reading /\ got[r] \in Reading
  BY CurrentChannel DEF TypeOK
<1>2. [got[r] EXCEPT ![f] = box[Order[ri[r]]][f]] \in Reading
  BY <1>1 DEF Reading
<1> QED BY <1>2 DEF TypeOK

\* A decoded report has a branch and a status for every channel.
LEMMA DecodeType ==
  ASSUME NEW rep \in Reports
  PROVE  Decode(rep) \in [Channels -> [fresh : BOOLEAN, status : Status]]
<1>1. ASSUME NEW c \in Channels
      PROVE  Decode(rep)[c] \in [fresh : BOOLEAN, status : Status]
  <2>1. c \in AllChannels
    BY OrderFacts
  <2>2. CASE c = "imu"
    BY <2>2 DEF Decode, Reports, Status, NotPresent, OldVal, NewVal
  <2>3. CASE c = "mag"
    BY <2>3 DEF Decode, Reports, Status, StatusOf, NotPresent, OldVal, NewVal
  <2>4. CASE c = "env"
    BY <2>4 DEF Decode, Reports, Status, StatusOf, NotPresent, OldVal, NewVal
  <2>5. CASE c = "temp"
    BY <2>5 DEF Decode, Reports, Status, NotPresent, OldVal, NewVal
  <2> QED BY <2>1, <2>2, <2>3, <2>4, <2>5 DEF AllChannels
<1> QED BY <1>1 DEF Decode

\* The grab loop moves to a channel that exists, or back to its test.
LEMMA NextChannelType ==
  ASSUME gi \in Index, NextChannel
  PROVE  gi' \in Index /\ gpc' \in {"channel", "loop"}
BY OrderFacts DEF NextChannel, Index

\* A callback moves to a channel that exists, or ends.
LEMMA AdvanceType ==
  ASSUME NEW r \in Callbacks, ri \in [Callbacks -> Index],
         tries \in [Callbacks -> 0..PollLimit], Advance(r)
  PROVE  /\ rpc' = [rpc EXCEPT ![r] = "poll"] \/ rpc' = [rpc EXCEPT ![r] = "idle"]
         /\ ri' \in [Callbacks -> Index]
         /\ tries' \in [Callbacks -> 0..PollLimit]
<1>1. CASE ri[r] < Len(Order)
  <2>1. ri[r] + 1 \in Index
    BY <1>1, OrderFacts DEF Index
  <2>2. PollLimit \in 0..PollLimit
    BY BoundsAssumption
  <2> QED BY <1>1, <2>1, <2>2 DEF Advance, Goto
<1>2. CASE ~(ri[r] < Len(Order))
  BY <1>2 DEF Advance, Goto
<1> QED BY <1>1, <1>2

-----------------------------------------------------------------------------
\* Every variable stays in its range, whatever the threads do.
THEOREM TypeCorrect == Spec => []TypeOK
<1>1. Init => TypeOK
  <2> SUFFICES ASSUME Init PROVE TypeOK
    OBVIOUS
  <2>1. tries \in [Callbacks -> 0..PollLimit]
    BY BoundsAssumption DEF Init
  <2>2. topic \in [Channels -> Seq([stamp : Nat, data : Nat])]
    BY DEF Init
  <2>3. sample \in [Channels -> [fresh : BOOLEAN, status : Status]]
    BY DEF Init, NoReport, Status, NotPresent
  <2>4. box \in [Channels -> Reading] /\ got \in [Callbacks -> Reading]
    BY DEF Init, Reading, Status, NotPresent
  <2>5. received \in 0..MaxSamples /\ relTs \in 0..received
    BY BoundsAssumption DEF Init
  <2>6. msg \in [Channels -> [stamp : Nat, data : Nat]]
    BY DEF Init
  <2> QED
    BY <2>1, <2>2, <2>3, <2>4, <2>5, <2>6, OrderFacts DEF Init, TypeOK
<1>2. TypeOK /\ [Next]_vars => TypeOK'
  <2> SUFFICES ASSUME TypeOK, [Next]_vars PROVE TypeOK'
    OBVIOUS
  <2>1. CASE InitializeSensors
    BY <2>1 DEF InitializeSensors, TypeOK, nodeVars
  <2>2. CASE Interrupt
    BY <2>2 DEF Interrupt, TypeOK, grabVars, nodeVars
  <2>3. CASE CloseRequest
    BY <2>3 DEF CloseRequest, TypeOK, grabVars, nodeVars
  <2>4. CASE CloseFinish
    BY <2>4 DEF CloseFinish, TypeOK, grabVars, nodeVars
  <2>5. CASE GrabStart
    <3>1. relTs' \in 0..received'
      BY <2>5, BoundsAssumption DEF GrabStart, TypeOK
    <3> QED BY <2>5, <3>1 DEF GrabStart, TypeOK, nodeVars
  <2>6. CASE GrabTest
    BY <2>6 DEF GrabTest, TypeOK, nodeVars
  <2>7. CASE ReadNothing
    BY <2>7 DEF ReadNothing, TypeOK, nodeVars
  <2>8. CASE ReadReport
    <3>1. PICK rep \in Reports :
            \/ /\ startTs' = Epoch /\ firstImu' = FALSE /\ gpc' = "loop"
               /\ UNCHANGED <<gi, sample, relTs>>
            \/ /\ relTs' = relTs + 1
               /\ sample' = Decode(rep)
               /\ gpc' = "channel" /\ gi' = 1
               /\ UNCHANGED <<startTs, firstImu>>
      BY <2>8 DEF ReadReport
    <3>2. sample' \in [Channels -> [fresh : BOOLEAN, status : Status]]
      BY <3>1, DecodeType DEF TypeOK
    <3>4. /\ received' \in 0..MaxSamples /\ relTs' \in 0..received'
      BY <2>8, <3>1, BoundsAssumption DEF ReadReport, TypeOK
    <3>5. /\ gpc' \in {"none", "spawned", "loop", "read", "channel", "stamp", "data", "done"}
          /\ gi' \in Index /\ firstImu' \in BOOLEAN /\ startTs' \in {0, Epoch}
      BY <3>1, OrderFacts DEF TypeOK
    <3> QED BY <2>8, <3>2, <3>4, <3>5 DEF ReadReport, TypeOK, nodeVars
  <2>9. CASE PublishValid
    <3>1. sample[Order[gi]].status \in Status
      BY CurrentChannel DEF TypeOK
    <3>2. box' \in [Channels -> Reading]
      BY <2>9, <3>1, FieldType, CurrentChannel DEF PublishValid
    <3>3. mutex' \in [Channels -> {"free", "grab"} \cup Callbacks]
      BY <2>9 DEF PublishValid, TypeOK
    <3> QED BY <2>9, <3>2, <3>3 DEF PublishValid, TypeOK, nodeVars
  <2>10. CASE PublishStamp
    <3>1. CurrentTs \in Nat
      BY BoundsAssumption DEF CurrentTs, TypeOK
    <3>2. box' \in [Channels -> Reading]
      BY <2>10, <3>1, FieldType, CurrentChannel DEF PublishStamp
    <3> QED BY <2>10, <3>2 DEF PublishStamp, TypeOK, nodeVars
  <2>11. CASE PublishData
    <3>1. CurrentTs \in Nat
      BY BoundsAssumption DEF CurrentTs, TypeOK
    <3>2. box' \in [Channels -> Reading]
      BY <2>11, <3>1, FieldType, CurrentChannel DEF PublishData
    <3>3. gi' \in Index /\ gpc' \in {"channel", "loop"}
      BY <2>11, NextChannelType DEF PublishData, TypeOK
    <3>4. /\ new' \in [Channels -> BOOLEAN]
          /\ mutex' \in [Channels -> {"free", "grab"} \cup Callbacks]
      BY <2>11 DEF PublishData, TypeOK
    <3> QED BY <2>11, <3>2, <3>3, <3>4 DEF PublishData, TypeOK, nodeVars
  <2>12. CASE MarkStatus
    <3>1. box' \in [Channels -> Reading]
      <4>1. sample[Order[gi]].status \in Status
        BY CurrentChannel DEF TypeOK
      <4> QED BY <2>12, <4>1, FieldType, CurrentChannel DEF MarkStatus
    <3>2. gi' \in Index /\ gpc' \in {"channel", "loop"}
      BY <2>12, NextChannelType DEF MarkStatus, TypeOK
    <3> QED BY <2>12, <3>1, <3>2 DEF MarkStatus, TypeOK, nodeVars
  <2>13. ASSUME NEW r \in Callbacks, CallbackStart(r) PROVE TypeOK'
    <3>1. /\ tries' \in [Callbacks -> 0..PollLimit] /\ ri' \in [Callbacks -> Index]
      BY <2>13, BoundsAssumption, OrderFacts DEF CallbackStart, TypeOK
    <3> QED BY <2>13, <3>1 DEF CallbackStart, Goto, TypeOK, grabVars
  <2>14. ASSUME NEW r \in Callbacks, Poll(r) PROVE TypeOK'
    <3>1. tries' \in [Callbacks -> 0..PollLimit]
      BY <2>14, BoundsAssumption DEF Poll, TypeOK
    <3>2. rpc' = rpc \/ rpc' = [rpc EXCEPT ![r] = "take"]
            \/ rpc' = [rpc EXCEPT ![r] = "expired"]
      BY <2>14 DEF Poll, Goto
    <3>3. UNCHANGED <<main, handle, stop, grabVars, box, new, mutex, ri, got, msg, topic>>
      BY <2>14 DEF Poll
    <3>4. rpc' \in [Callbacks -> {"idle", "poll", "expired", "demote", "take",
                "clear", "copyValid", "copyStamp", "copyData", "check", "fill", "send"}]
      BY <3>2 DEF TypeOK
    <3> QED BY <3>1, <3>3, <3>4 DEF TypeOK, grabVars
  <2>15. ASSUME NEW r \in Callbacks, Expire(r) PROVE TypeOK'
    BY <2>15 DEF Expire, Goto, TypeOK, grabVars
  <2>16. ASSUME NEW r \in Callbacks, Demote(r) PROVE TypeOK'
    <3>1. box' \in [Channels -> Reading]
      BY <2>16, FieldType, CurrentChannel DEF Demote, Status
    <3> QED BY <2>16, <3>1 DEF Demote, Goto, TypeOK, grabVars
  <2>17. ASSUME NEW r \in Callbacks, Lock(r) PROVE TypeOK'
    BY <2>17 DEF Lock, Goto, TypeOK, grabVars
  <2>18. ASSUME NEW r \in Callbacks, Clear(r) PROVE TypeOK'
    BY <2>18 DEF Clear, Goto, TypeOK, grabVars
  <2>19. ASSUME NEW r \in Callbacks, CopyValid(r) PROVE TypeOK'
    <3>1. got' \in [Callbacks -> Reading]
      BY <2>19, CopyType DEF CopyValid, Copy
    <3>2. rpc' = [rpc EXCEPT ![r] = "copyStamp"]
      BY <2>19 DEF CopyValid, Copy, Goto
    <3>3. UNCHANGED <<main, handle, stop, grabVars, box, new, mutex, ri, tries, msg, topic>>
      BY <2>19 DEF CopyValid, Copy
    <3> QED BY <3>1, <3>2, <3>3 DEF TypeOK, grabVars
  <2>20. ASSUME NEW r \in Callbacks, CopyStamp(r) PROVE TypeOK'
    <3>1. got' \in [Callbacks -> Reading]
      BY <2>20, CopyType DEF CopyStamp, Copy
    <3>2. rpc' = [rpc EXCEPT ![r] = "copyData"]
      BY <2>20 DEF CopyStamp, Copy, Goto
    <3>3. UNCHANGED <<main, handle, stop, grabVars, box, new, mutex, ri, tries, msg, topic>>
      BY <2>20 DEF CopyStamp, Copy
    <3> QED BY <3>1, <3>2, <3>3 DEF TypeOK, grabVars
  <2>21. ASSUME NEW r \in Callbacks, CopyData(r) PROVE TypeOK'
    <3>1. got' \in [Callbacks -> Reading]
      BY <2>21, CopyType DEF CopyData, Copy
    <3>2. rpc' = [rpc EXCEPT ![r] = "check"]
      BY <2>21 DEF CopyData, Copy, Goto
    <3>3. UNCHANGED <<main, handle, stop, grabVars, box, new, mutex, ri, tries, msg, topic>>
      BY <2>21 DEF CopyData, Copy
    <3> QED BY <3>1, <3>2, <3>3 DEF TypeOK, grabVars
  <2>22. ASSUME NEW r \in Callbacks, Skip(r) PROVE TypeOK'
    <3>1. /\ rpc' = [rpc EXCEPT ![r] = "poll"] \/ rpc' = [rpc EXCEPT ![r] = "idle"]
          /\ ri' \in [Callbacks -> Index] /\ tries' \in [Callbacks -> 0..PollLimit]
      BY <2>22, AdvanceType DEF Skip, TypeOK
    <3>2. UNCHANGED <<main, handle, stop, grabVars, box, new, mutex, got, msg, topic>>
      BY <2>22 DEF Skip
    <3>3. rpc' \in [Callbacks -> {"idle", "poll", "expired", "demote", "take",
                "clear", "copyValid", "copyStamp", "copyData", "check", "fill", "send"}]
      BY <3>1 DEF TypeOK
    <3>4. ri' \in [Callbacks -> Index] /\ tries' \in [Callbacks -> 0..PollLimit]
      BY <3>1
    <3> QED BY <3>2, <3>3, <3>4 DEF TypeOK, grabVars
  <2>23. ASSUME NEW r \in Callbacks, FillStamp(r) PROVE TypeOK'
    <3>1. got[r].stamp \in Nat
      BY DEF TypeOK, Reading
    <3>2. msg' \in [Channels -> [stamp : Nat, data : Nat]]
      BY <2>23, <3>1, CurrentChannel DEF FillStamp, TypeOK
    <3> QED BY <2>23, <3>2 DEF FillStamp, Goto, TypeOK, grabVars
  <2>24. ASSUME NEW r \in Callbacks, FillData(r) PROVE TypeOK'
    <3>1. got[r].data \in Nat
      BY DEF TypeOK, Reading
    <3>2. msg' \in [Channels -> [stamp : Nat, data : Nat]]
      BY <2>24, <3>1, CurrentChannel DEF FillData, TypeOK
    <3> QED BY <2>24, <3>2 DEF FillData, Goto, TypeOK, grabVars
  <2>25. ASSUME NEW r \in Callbacks, Send(r) PROVE TypeOK'
    <3>1. topic' \in [Channels -> Seq([stamp : Nat, data : Nat])]
      BY <2>25, CurrentChannel DEF Send, TypeOK
    <3>2. /\ rpc' = [rpc EXCEPT ![r] = "poll"] \/ rpc' = [rpc EXCEPT ![r] = "idle"]
          /\ ri' \in [Callbacks -> Index] /\ tries' \in [Callbacks -> 0..PollLimit]
      BY <2>25, AdvanceType DEF Send, TypeOK
    <3>3. UNCHANGED <<main, handle, stop, grabVars, box, new, mutex, got, msg>>
      BY <2>25 DEF Send
    <3>4. rpc' \in [Callbacks -> {"idle", "poll", "expired", "demote", "take",
                "clear", "copyValid", "copyStamp", "copyData", "check", "fill", "send"}]
      BY <3>2 DEF TypeOK
    <3>5. ri' \in [Callbacks -> Index] /\ tries' \in [Callbacks -> 0..PollLimit]
      BY <3>2
    <3> QED BY <3>1, <3>3, <3>4, <3>5 DEF TypeOK, grabVars
  <2>26. CASE UNCHANGED vars
    BY <2>26 DEF vars, grabVars, nodeVars, TypeOK
  <2> QED
    BY <2>1, <2>2, <2>3, <2>4, <2>5, <2>6, <2>7, <2>8, <2>9, <2>10, <2>11, <2>12,
       <2>13, <2>14, <2>15, <2>16, <2>17, <2>18, <2>19, <2>20, <2>21, <2>22, <2>23,
       <2>24, <2>25, <2>26
    DEF Next, Main, Grab, Step, Terminated
<1> QED BY <1>1, <1>2, PTL DEF Spec

-----------------------------------------------------------------------------
\* The grab thread never reads or pings a device that is not open: close()
\* joins it before hid_close, and a thread is created on an open device only.
THEOREM HandleSafe == Spec => []HandleOpenWhileGrabbing
<1> USE DEF HandleOpenWhileGrabbing
<1>1. Init => HandleOpenWhileGrabbing
  BY DEF Init
<1>2. HandleOpenWhileGrabbing /\ [Next]_vars => HandleOpenWhileGrabbing'
  <2> SUFFICES ASSUME HandleOpenWhileGrabbing, [Next]_vars
               PROVE  HandleOpenWhileGrabbing'
    OBVIOUS
  <2>1. CASE Main
    BY <2>1 DEF Main, InitializeSensors, Interrupt, CloseRequest, CloseFinish, grabVars
  <2>2. CASE Grab
    BY <2>2 DEF Grab, GrabStart, GrabTest, ReadNothing, ReadReport, PublishValid,
                PublishStamp, PublishData, MarkStatus
  <2>3. ASSUME NEW r \in Callbacks, CallbackStart(r) \/ Step(r)
        PROVE  HandleOpenWhileGrabbing'
    BY <2>3 DEF CallbackStart, Step, Poll, Expire, Demote, Lock, Clear, CopyValid,
                CopyStamp, CopyData, Copy, Skip, FillStamp, FillData, Send, grabVars
  <2>4. CASE UNCHANGED vars
    BY <2>4 DEF vars, grabVars
  <2> QED BY <2>1, <2>2, <2>3, <2>4 DEF Next, Terminated
<1> QED BY <1>1, <1>2, PTL DEF Spec

-----------------------------------------------------------------------------
(* What the mutexes give.  The grab thread is inside a buffer's critical
   section exactly while it writes the stamp and the readings, a getter while
   it clears the flag; outside the grab thread's last write a buffer is whole. *)

Filling(c) == gpc \in {"stamp", "data"} /\ c = Order[gi]

MutexInv ==
  /\ \A c \in Channels : Filling(c) => mutex[c] = "grab"
  /\ \A r \in Callbacks : rpc[r] = "clear" => mutex[Order[ri[r]]] = r

WholeInv ==
  /\ \A c \in Channels : box[c].stamp # box[c].data => gpc = "data" /\ c = Order[gi]
  /\ gpc = "data" => box[Order[gi]].stamp = CurrentTs
  /\ main = "ctor" => gpc = "none"

\* A callback's step towards a getter's critical section, or away from it,
\* leaves the mutexes' accounts in order.
LEMMA MutexStep ==
  ASSUME TypeOK, MutexInv, [Next]_vars
  PROVE  MutexInv'
<1> USE OrderFacts DEF MutexInv, Filling
<1>1. CASE Main
  BY <1>1 DEF Main, InitializeSensors, Interrupt, CloseRequest, CloseFinish,
              grabVars, nodeVars
<1>2. CASE GrabStart \/ GrabTest \/ ReadNothing \/ ReadReport
  BY <1>2 DEF GrabStart, GrabTest, ReadNothing, ReadReport, nodeVars
<1>3. CASE PublishValid
  BY <1>3, CallbacksAssumption DEF PublishValid, TypeOK, nodeVars
<1>4. CASE PublishStamp
  BY <1>4 DEF PublishStamp, TypeOK, nodeVars
<1>5. CASE PublishData
  BY <1>5, CallbacksAssumption DEF PublishData, NextChannel, TypeOK, nodeVars
<1>6. CASE MarkStatus
  BY <1>6 DEF MarkStatus, NextChannel, TypeOK, nodeVars
<1>7. ASSUME NEW r \in Callbacks,
             \/ Poll(r) \/ Expire(r) \/ Demote(r) \/ CopyValid(r) \/ CopyStamp(r)
             \/ CopyData(r) \/ FillStamp(r) \/ FillData(r)
      PROVE  MutexInv'
  <2>1. UNCHANGED <<gpc, gi, mutex, ri>>
    BY <1>7 DEF Poll, Expire, Demote, CopyValid, CopyStamp, CopyData, Copy, FillStamp,
                FillData, grabVars
  <2>2. \A q \in Callbacks : rpc'[q] = "clear" => rpc[q] = "clear"
    BY <1>7 DEF Poll, Expire, Demote, CopyValid, CopyStamp, CopyData, Copy, FillStamp,
                FillData, Goto, TypeOK
  <2> QED BY <2>1, <2>2
<1>8. ASSUME NEW r \in Callbacks, CallbackStart(r) \/ Skip(r) \/ Send(r)
      PROVE  MutexInv'
  <2>1. UNCHANGED <<gpc, gi, mutex>>
    BY <1>8 DEF CallbackStart, Skip, Send, grabVars
  <2>2. \A q \in Callbacks : rpc'[q] = "clear" => rpc[q] = "clear" /\ ri'[q] = ri[q]
    BY <1>8 DEF CallbackStart, Skip, Send, Advance, Goto, TypeOK
  <2> QED BY <2>1, <2>2
<1>9. ASSUME NEW r \in Callbacks, Lock(r)
      PROVE  MutexInv'
  BY <1>9, CallbacksAssumption DEF Lock, Goto, TypeOK, grabVars
<1>10. ASSUME NEW r \in Callbacks, Clear(r)
       PROVE  MutexInv'
  BY <1>10, CallbacksAssumption DEF Clear, Goto, TypeOK, grabVars
<1>11. CASE UNCHANGED vars
  BY <1>11 DEF vars, grabVars, nodeVars
<1> QED
  BY <1>1, <1>2, <1>3, <1>4, <1>5, <1>6, <1>7, <1>8, <1>9, <1>10, <1>11
  DEF Next, Grab, Step, Terminated

\* Only the grab thread's two writes make a buffer partial and whole again.
LEMMA WholeStep ==
  ASSUME TypeOK, WholeInv, [Next]_vars
  PROVE  WholeInv'
<1> USE OrderFacts DEF WholeInv, CurrentTs
<1>1. CASE Main
  <2>1. UNCHANGED <<gi, box, startTs, relTs>> /\ main' # "ctor"
    BY <1>1 DEF Main, InitializeSensors, Interrupt, CloseRequest, CloseFinish, grabVars
  <2>2. gpc' = gpc \/ (gpc = "none" /\ gpc' = "spawned")
    BY <1>1 DEF Main, InitializeSensors, Interrupt, CloseRequest, CloseFinish, grabVars
  <2> QED BY <2>1, <2>2
<1>2. CASE GrabStart \/ GrabTest \/ ReadNothing \/ ReadReport
  BY <1>2 DEF GrabStart, GrabTest, ReadNothing, ReadReport
<1>3. CASE PublishValid
  BY <1>3 DEF PublishValid, TypeOK, Reading
<1>4. CASE PublishStamp
  <2>1. /\ gpc = "stamp" /\ gpc' = "data" /\ gi' = gi /\ main' = main
        /\ CurrentTs' = CurrentTs
        /\ Order[gi] \in Channels
        /\ box' = [box EXCEPT ![Order[gi]].stamp = CurrentTs]
    BY <1>4 DEF PublishStamp, TypeOK
  <2>2. \A c \in Channels : c # Order[gi] => box'[c] = box[c]
    BY <2>1 DEF TypeOK
  <2>3. box'[Order[gi]].stamp = CurrentTs
    BY <2>1 DEF TypeOK, Reading
  <2>4. \A c \in Channels : box[c].stamp = box[c].data
    BY <1>4 DEF PublishStamp
  <2> QED BY <2>1, <2>2, <2>3, <2>4
<1>5. CASE PublishData
  BY <1>5 DEF PublishData, NextChannel, TypeOK, Reading
<1>6. CASE MarkStatus
  BY <1>6 DEF MarkStatus, NextChannel, TypeOK, Reading
<1>7. ASSUME NEW r \in Callbacks, Demote(r)
      PROVE  WholeInv'
  <2>1. UNCHANGED <<gpc, gi, main, startTs, relTs>>
    BY <1>7 DEF Demote, grabVars
  <2>2. \A c \in Channels : box'[c].stamp = box[c].stamp /\ box'[c].data = box[c].data
    <3>1. box' = [box EXCEPT ![Order[ri[r]]] = [@ EXCEPT !.valid = OldVal]]
      BY <1>7 DEF Demote
    <3>2. \A c \in Channels : box[c] \in Reading
      BY DEF TypeOK
    <3>3. \A b \in Reading : /\ [b EXCEPT !.valid = OldVal].stamp = b.stamp
                            /\ [b EXCEPT !.valid = OldVal].data = b.data
      BY DEF Reading
    <3>4. \A c \in Channels : box'[c] = box[c] \/ box'[c] = [box[c] EXCEPT !.valid = OldVal]
      BY <3>1 DEF TypeOK
    <3> QED BY <3>2, <3>3, <3>4
  <2>3. Order[gi] \in Channels
    BY CurrentChannel
  <2> QED BY <2>1, <2>2, <2>3
<1>8. ASSUME NEW r \in Callbacks, CallbackStart(r) \/ Step(r), ~Demote(r)
      PROVE  WholeInv'
  BY <1>8 DEF CallbackStart, Step, Poll, Expire, Lock, Clear, CopyValid, CopyStamp,
              CopyData, Copy, Skip, FillStamp, FillData, Send, grabVars
<1>9. CASE UNCHANGED vars
  BY <1>9 DEF vars, grabVars
<1> QED
  BY <1>1, <1>2, <1>3, <1>4, <1>5, <1>6, <1>7, <1>8, <1>9
  DEF Next, Grab, Step, Terminated

\* A getter never takes a half-written buffer, also when callbacks overlap: a
\* new-data flag goes from set to clear on whole buffers only.
THEOREM GettersTakeWholeBuffers == Spec => TakenWhole
<1> DEFINE Inv == TypeOK /\ MutexInv /\ WholeInv
<1>1. Init => MutexInv /\ WholeInv
  BY OrderFacts DEF Init, MutexInv, WholeInv, Filling
<1>2. TypeOK /\ MutexInv /\ WholeInv /\ [Next]_vars => MutexInv' /\ WholeInv'
  BY MutexStep, WholeStep
<1>3. ASSUME TypeOK, MutexInv, WholeInv, [Next]_vars
      PROVE  [\A c \in Channels : new[c] /\ ~new'[c] => box[c].stamp = box[c].data]_vars
  <2> SUFFICES ASSUME NEW c \in Channels, new[c], ~new'[c], Next
               PROVE  box[c].stamp = box[c].data
    BY <1>3
  <2>1. CASE Main \/ Terminated
    BY <2>1 DEF Main, InitializeSensors, Interrupt, CloseRequest, CloseFinish,
                Terminated, vars
  <2>2. CASE GrabStart
    BY <2>2, <1>3 DEF GrabStart, WholeInv
  <2>3. CASE PublishData
    BY <2>3, <1>3 DEF PublishData, TypeOK
  <2>4. CASE \/ GrabTest \/ ReadNothing \/ ReadReport \/ PublishValid \/ PublishStamp
             \/ MarkStatus
    BY <2>4 DEF GrabTest, ReadNothing, ReadReport, PublishValid, PublishStamp, MarkStatus
  <2>5. ASSUME NEW r \in Callbacks, Clear(r)
        PROVE  box[c].stamp = box[c].data
    BY <2>5, <1>3, OrderFacts, CallbacksAssumption
    DEF Clear, TypeOK, MutexInv, WholeInv, Filling
  <2>6. ASSUME NEW r \in Callbacks, CallbackStart(r) \/ Step(r), ~Clear(r)
        PROVE  FALSE
    BY <2>6 DEF CallbackStart, Step, Poll, Expire, Demote, Lock, CopyValid, CopyStamp,
                CopyData, Copy, Skip, FillStamp, FillData, Send
  <2> QED BY <2>1, <2>2, <2>3, <2>4, <2>5, <2>6 DEF Next, Grab
<1> QED BY <1>1, <1>2, <1>3, TypeCorrect, PTL DEF Spec, TakenWhole

-----------------------------------------------------------------------------
(* The stamps a subscriber sees, when callbacks do not overlap.  Along the
   way of a stamp, from the clock through the buffer, the callback's copy and
   the shared message to the topic, it never grows; and the buffer of every
   channel still to be published is behind the clock.                       *)

SentStamp(c) == IF topic[c] = <<>> THEN 0 ELSE topic[c][Len(topic[c])].stamp

Pending(j) == j > gi \/ (j = gi /\ gpc # "data")

StampInv ==
  /\ gpc \in {"none", "spawned"} => relTs = 0
  /\ main = "ctor" => gpc = "none"
  /\ \A c \in Channels : box[c].stamp <= CurrentTs
  /\ gpc \in {"channel", "stamp", "data"} =>
       \A j \in Index : Pending(j) => box[Order[j]].stamp < CurrentTs

Carried(r) == rpc[r] \in {"copyData", "check", "fill", "send"}

SentInv ==
  /\ \A c \in Channels : SentStamp(c) <= box[c].stamp
  /\ \A r \in Callbacks : Carried(r) =>
       SentStamp(Order[ri[r]]) <= got[r].stamp /\ got[r].stamp <= box[Order[ri[r]]].stamp
  /\ \A r \in Callbacks : rpc[r] \in {"fill", "send"} =>
       msg[Order[ri[r]]].stamp = got[r].stamp

\* Writing the valid field, or the readings, of a buffer keeps every stamp.
LEMMA StampsKept ==
  ASSUME TypeOK, NEW d \in Channels, NEW v,
         \/ box' = [box EXCEPT ![d].valid = v]
         \/ box' = [box EXCEPT ![d].data = v]
  PROVE  \A c \in Channels : box'[c].stamp = box[c].stamp
<1>1. ASSUME NEW c \in Channels PROVE box'[c].stamp = box[c].stamp
  <2>1. CASE c = d
    BY <2>1 DEF TypeOK, Reading
  <2>2. CASE c # d
    BY <2>2 DEF TypeOK
  <2> QED BY <2>1, <2>2
<1> QED BY <1>1

\* The clock a report is stamped with runs ahead of every buffer.
LEMMA StampStep ==
  ASSUME TypeOK, StampInv, [Next]_vars
  PROVE  StampInv'
<1> USE OrderFacts, BoundsAssumption DEF StampInv, Pending
<1>1. CASE Main
  <2>1. UNCHANGED <<gi, box, startTs, relTs>> /\ main' # "ctor"
    BY <1>1 DEF Main, InitializeSensors, Interrupt, CloseRequest, CloseFinish, grabVars
  <2>2. gpc' = gpc \/ (gpc = "none" /\ gpc' = "spawned")
    BY <1>1 DEF Main, InitializeSensors, Interrupt, CloseRequest, CloseFinish, grabVars
  <2> QED BY <2>1, <2>2 DEF CurrentTs
<1>2. CASE GrabStart
  BY <1>2 DEF GrabStart, CurrentTs
<1>3. CASE GrabTest \/ ReadNothing
  BY <1>3 DEF GrabTest, ReadNothing, CurrentTs
<1>4. CASE ReadReport
  <2>1. /\ gpc = "read" /\ gpc' \in {"loop", "channel"} /\ box' = box /\ main' = main
        /\ startTs' = Epoch \/ startTs' = startTs
        /\ relTs' = relTs \/ relTs' = relTs + 1
        /\ gpc' = "channel" => relTs' = relTs + 1 /\ startTs' = startTs
    BY <1>4 DEF ReadReport
  <2>2. /\ startTs \in Nat /\ relTs \in Nat /\ startTs <= startTs' /\ startTs' \in Nat
        /\ relTs <= relTs' /\ relTs' \in Nat
    BY <2>1 DEF TypeOK
  <2>3. \A c \in Channels : box[c].stamp \in Nat
    BY DEF TypeOK, Reading
  <2>4. \A c \in Channels : box'[c].stamp <= CurrentTs'
    BY <2>1, <2>2, <2>3 DEF CurrentTs
  <2>5. gpc' = "channel" => \A c \in Channels : box'[c].stamp < CurrentTs'
    BY <2>1, <2>2, <2>3 DEF CurrentTs
  <2> QED BY <2>1, <2>4, <2>5
<1>5. CASE PublishStamp
  <2>1. /\ gpc = "stamp" /\ gpc' = "data" /\ gi' = gi /\ main' = main
        /\ CurrentTs' = CurrentTs /\ Order[gi] \in Channels /\ CurrentTs \in Nat
        /\ box' = [box EXCEPT ![Order[gi]].stamp = CurrentTs]
    BY <1>5 DEF PublishStamp, TypeOK, CurrentTs
  <2>2. \A c \in Channels : c # Order[gi] => box'[c] = box[c]
    BY <2>1 DEF TypeOK
  <2>3. box'[Order[gi]].stamp = CurrentTs
    BY <2>1 DEF TypeOK, Reading
  <2>4. \A j \in Index : j > gi => Order[j] # Order[gi]
    BY OrderAssumption DEF TypeOK, Index
  <2> QED BY <2>1, <2>2, <2>3, <2>4
<1>6. CASE PublishValid \/ PublishData \/ MarkStatus
  <2>1. \A c \in Channels : box'[c].stamp = box[c].stamp
    <3>1. Order[gi] \in Channels
      BY DEF TypeOK
    <3> QED BY <1>6, <3>1, StampsKept DEF PublishValid, PublishData, MarkStatus
  <2>2. /\ CurrentTs' = CurrentTs /\ main' = main
        /\ gpc \notin {"none", "spawned"} /\ gpc' \notin {"none", "spawned"}
        /\ gpc \in {"channel", "stamp", "data"}
    BY <1>6 DEF PublishValid, PublishData, MarkStatus, NextChannel, CurrentTs
  <2>3. \/ gi' = gi + 1
        \/ gi' = gi /\ gpc = "channel" /\ gpc' = "stamp"
        \/ gpc' = "loop"
    BY <1>6 DEF PublishValid, PublishData, MarkStatus, NextChannel
  <2>4. gi \in Nat /\ \A j \in Index : j \in Nat
    BY DEF TypeOK, Index
  <2>5. main' = "ctor" => gpc' = "none"
    BY <2>2
  <2>6. \A j \in Index : gpc' # "loop" /\ Pending(j)' => Pending(j)
    BY <2>3, <2>4
  <2> QED BY <2>1, <2>2, <2>5, <2>6
<1>7. ASSUME NEW r \in Callbacks, CallbackStart(r) \/ Step(r)
      PROVE  StampInv'
  <2>1. UNCHANGED <<main, grabVars>>
    BY <1>7 DEF CallbackStart, Step, Poll, Expire, Demote, Lock, Clear, CopyValid,
                CopyStamp, CopyData, Copy, Skip, FillStamp, FillData, Send
  <2>2. \A c \in Channels : box'[c].stamp = box[c].stamp
    <3>1. CASE Demote(r)
      <4>1. Order[ri[r]] \in Channels
        BY DEF TypeOK
      <4> QED BY <3>1, <4>1, StampsKept DEF Demote
    <3>2. CASE ~Demote(r)
      BY <1>7, <3>2 DEF CallbackStart, Step, Poll, Expire, Lock, Clear, CopyValid,
                  CopyStamp, CopyData, Copy, Skip, FillStamp, FillData, Send
    <3> QED BY <3>1, <3>2
  <2> QED BY <2>1, <2>2 DEF grabVars, CurrentTs
<1>8. CASE UNCHANGED vars
  BY <1>8 DEF vars, grabVars, CurrentTs
<1> QED
  BY <1>1, <1>2, <1>3, <1>4, <1>5, <1>6, <1>7, <1>8 DEF Next, Grab, Terminated

\* A step either leaves every stamp alone or is the grab thread stamping one
\* buffer with the clock, which is ahead of it.
LEMMA StampChange ==
  ASSUME TypeOK, StampInv, [Next]_vars
  PROVE  \/ \A c \in Channels : box'[c].stamp = box[c].stamp
         \/ /\ PublishStamp
            /\ box'[Order[gi]].stamp = CurrentTs /\ box[Order[gi]].stamp < CurrentTs
            /\ \A c \in Channels : c # Order[gi] => box'[c].stamp = box[c].stamp
<1> USE OrderFacts
<1>1. CASE Main \/ Terminated \/ UNCHANGED vars
  BY <1>1 DEF Main, InitializeSensors, Interrupt, CloseRequest, CloseFinish, Terminated,
              vars
<1>2. CASE GrabStart \/ GrabTest \/ ReadNothing \/ ReadReport
  BY <1>2 DEF GrabStart, GrabTest, ReadNothing, ReadReport
<1>3. CASE PublishValid \/ PublishData \/ MarkStatus
  <2>1. Order[gi] \in Channels
    BY DEF TypeOK
  <2> QED BY <1>3, <2>1, StampsKept DEF PublishValid, PublishData, MarkStatus
<1>4. CASE PublishStamp
  <2>1. /\ gpc = "stamp" /\ gi \in Index /\ Order[gi] \in Channels
        /\ box' = [box EXCEPT ![Order[gi]].stamp = CurrentTs]
    BY <1>4 DEF PublishStamp, TypeOK
  <2>2. box'[Order[gi]].stamp = CurrentTs
    BY <2>1 DEF TypeOK, Reading
  <2>3. \A c \in Channels : c # Order[gi] => box'[c].stamp = box[c].stamp
    BY <2>1 DEF TypeOK
  <2>4. box[Order[gi]].stamp < CurrentTs
    BY <2>1 DEF StampInv, Pending
  <2> QED BY <1>4, <2>2, <2>3, <2>4
<1>5. ASSUME NEW r \in Callbacks, Demote(r)
      PROVE  \A c \in Channels : box'[c].stamp = box[c].stamp
  <2>1. Order[ri[r]] \in Channels
    BY DEF TypeOK
  <2> QED BY <1>5, <2>1, StampsKept DEF Demote
<1>6. ASSUME NEW r \in Callbacks, CallbackStart(r) \/ Step(r), ~Demote(r)
      PROVE  \A c \in Channels : box'[c].stamp = box[c].stamp
  BY <1>6 DEF CallbackStart, Step, Poll, Expire, Lock, Clear, CopyValid, CopyStamp,
              CopyData, Copy, Skip, FillStamp, FillData, Send
<1> QED BY <1>1, <1>2, <1>3, <1>4, <1>5, <1>6 DEF Next, Grab

OneCallback == \A q, r \in Callbacks : q = r

\* The last element of a sequence, and of one that has just grown.
LEMMA LastElement ==
  ASSUME NEW S, NEW s \in Seq(S), s # <<>>
  PROVE  s[Len(s)] \in S
<1>1. Len(s) \in Nat /\ Len(s) # 0
  OBVIOUS
<1>2. Len(s) \in 1..Len(s)
  BY <1>1
<1> QED BY <1>2

\* What Append leaves and adds.
LEMMA AppendLast ==
  ASSUME NEW S, NEW s \in Seq(S), NEW e \in S
  PROVE  /\ Append(s, e) # <<>>
         /\ Append(s, e)[Len(Append(s, e))] = e
<1>1. Len(Append(s, e)) = Len(s) + 1 /\ Len(s) \in Nat
  OBVIOUS
<1>2. Append(s, e)[Len(s) + 1] = e
  OBVIOUS
<1>3. Append(s, e) # <<>>
  BY <1>1
<1> QED BY <1>1, <1>2, <1>3

\* With one callback, what it carries lies between the topic and the buffer.
LEMMA SentStep ==
  ASSUME OneCallback, TypeOK, StampInv, SentInv, [Next]_vars
  PROVE  SentInv'
<1> USE OrderFacts
<1>1. \A c \in Channels :
        /\ box[c].stamp \in Nat /\ box'[c].stamp \in Nat
        /\ box[c].stamp <= box'[c].stamp
  <2>1. \A c \in Channels : box[c].stamp \in Nat
    BY DEF TypeOK, Reading
  <2>2. CurrentTs \in Nat
    BY BoundsAssumption DEF TypeOK, CurrentTs
  <2> QED BY <2>1, <2>2, StampChange
<1>2. /\ \A r \in Callbacks : Order[ri[r]] \in Channels /\ got[r].stamp \in Nat
      /\ \A c \in Channels : SentStamp(c) \in Nat
  <2>1. \A c \in Channels : topic[c] # <<>> => topic[c][Len(topic[c])].stamp \in Nat
    <3>1. \A c \in Channels : topic[c] \in Seq([stamp : Nat, data : Nat])
      BY DEF TypeOK
    <3>2. \A c \in Channels : topic[c] # <<>> =>
            topic[c][Len(topic[c])] \in [stamp : Nat, data : Nat]
      BY <3>1, LastElement
    <3> QED BY <3>2
  <2> QED BY <2>1 DEF TypeOK, Reading, SentStamp
<1>3. CASE UNCHANGED <<rpc, ri, got, msg, topic>>
  BY <1>1, <1>2, <1>3 DEF SentInv, SentStamp, Carried
<1>4. CASE Main \/ Grab \/ Terminated \/ UNCHANGED vars
  <2>1. UNCHANGED nodeVars
    BY <1>4 DEF Main, InitializeSensors, Interrupt, CloseRequest, CloseFinish, Grab,
                GrabStart, GrabTest, ReadNothing, ReadReport, PublishValid,
                PublishStamp, PublishData, MarkStatus, Terminated, vars
  <2> QED BY <1>3, <2>1 DEF nodeVars
<1>5. ASSUME NEW r \in Callbacks,
             \/ CallbackStart(r) \/ Poll(r) \/ Expire(r) \/ Demote(r) \/ Lock(r)
             \/ Clear(r) \/ CopyValid(r) \/ Skip(r)
      PROVE  SentInv'
  <2>1. topic' = topic /\ msg' = msg
    BY <1>5 DEF CallbackStart, Poll, Expire, Demote, Lock, Clear, CopyValid, Copy, Skip
  <2>2. ~Carried(r)'
    BY <1>5 DEF CallbackStart, Poll, Expire, Demote, Lock, Clear, CopyValid, Copy, Skip,
                Advance, Goto, Carried, TypeOK
  <2>3. \A q \in Callbacks : ~Carried(q)' /\ rpc'[q] \notin {"fill", "send"}
    BY <2>2 DEF OneCallback, Carried
  <2> QED BY <1>1, <1>2, <2>1, <2>3 DEF SentInv, SentStamp
<1>6. ASSUME NEW r \in Callbacks, CopyStamp(r)
      PROVE  SentInv'
  <2>1. /\ UNCHANGED <<box, ri, topic>> /\ rpc'[r] = "copyData"
        /\ got'[r].stamp = box[Order[ri[r]]].stamp
    BY <1>6 DEF CopyStamp, Copy, Goto, TypeOK, Reading
  <2> QED BY <1>1, <1>2, <2>1 DEF SentInv, SentStamp, OneCallback, Carried
<1>7. ASSUME NEW r \in Callbacks, CopyData(r) \/ FillStamp(r) \/ FillData(r)
      PROVE  SentInv'
  <2>1. /\ UNCHANGED <<box, ri, topic>> /\ Carried(r)
        /\ got'[r].stamp = got[r].stamp
    BY <1>7 DEF CopyData, Copy, FillStamp, FillData, Goto, TypeOK, Reading, Carried
  <2>2. rpc'[r] \in {"fill", "send"} => msg'[Order[ri[r]]].stamp = got[r].stamp
    BY <1>2, <1>7 DEF CopyData, Copy, FillStamp, FillData, Goto, TypeOK, SentInv
  <2> QED BY <1>1, <1>2, <2>1, <2>2 DEF SentInv, SentStamp, OneCallback
<1>8. ASSUME NEW r \in Callbacks, Send(r), NEW c \in Channels, c = Order[ri[r]]
      PROVE  SentInv'
  <2>1. /\ rpc[r] = "send" /\ box' = box
        /\ topic' = [topic EXCEPT ![c] = Append(topic[c], msg[c])]
    BY <1>2, <1>8 DEF Send
  <2>2. SentStamp(c)' = msg[c].stamp
    <3>1. /\ topic[c] \in Seq([stamp : Nat, data : Nat])
          /\ msg[c] \in [stamp : Nat, data : Nat]
          /\ topic'[c] = Append(topic[c], msg[c])
      BY <2>1 DEF TypeOK
    <3> QED BY <3>1, AppendLast DEF SentStamp
  <2>3. \A d \in Channels : d # c => SentStamp(d)' = SentStamp(d)
    BY <2>1 DEF TypeOK, SentStamp
  <2>4. msg[c].stamp <= box[c].stamp
    BY <1>8, <2>1 DEF SentInv, Carried
  <2>5. \A d \in Channels : SentStamp(d)' <= box'[d].stamp
    BY <1>1, <1>2, <2>1, <2>2, <2>3, <2>4 DEF SentInv
  <2>6. ~Carried(r)'
    BY <1>8 DEF Send, Advance, Goto, Carried, TypeOK
  <2>7. \A q \in Callbacks : ~Carried(q)' /\ rpc'[q] \notin {"fill", "send"}
    BY <2>6 DEF OneCallback, Carried
  <2> QED BY <2>5, <2>7 DEF SentInv
<1> QED BY <1>2, <1>4, <1>5, <1>6, <1>7, <1>8 DEF Next, Step

\* The stamps of a sequence of messages: nothing of nothing, and one more at
\* the end when a message is appended.
Messages == [stamp : Nat, data : Nat]
StampsOf(s) == [i \in DOMAIN s |-> s[i].stamp]

\* The stamps of a sequence of messages.
LEMMA StampsOfSeq ==
  ASSUME NEW s \in Seq(Messages)
  PROVE  /\ StampsOf(s) \in Seq(Nat)
         /\ Len(StampsOf(s)) = Len(s)
         /\ \A i \in 1..Len(s) : StampsOf(s)[i] = s[i].stamp
<1>1. DOMAIN s = 1..Len(s) /\ Len(s) \in Nat
  OBVIOUS
<1>2. \A i \in 1..Len(s) : s[i].stamp \in Nat
  <2>1. \A i \in 1..Len(s) : s[i] \in Messages
    BY ElementOfSeq
  <2> QED BY <2>1 DEF Messages
<1>3. StampsOf(s) \in [1..Len(s) -> Nat]
  BY <1>1, <1>2 DEF StampsOf
<1>4. StampsOf(s) \in Seq(Nat)
  BY <1>1, <1>3, SeqDef
<1>5. DOMAIN StampsOf(s) = 1..Len(s)
  BY <1>1 DEF StampsOf
<1> QED BY <1>1, <1>4, <1>5 DEF StampsOf

\* The stamps of a topic grow as the topic does.
LEMMA StampsOfAppend ==
  ASSUME NEW s \in Seq(Messages), NEW m \in Messages
  PROVE  StampsOf(Append(s, m)) = Append(StampsOf(s), m.stamp)
<1>1. Append(s, m) \in Seq(Messages) /\ m.stamp \in Nat
  BY DEF Messages
<1>2. /\ Len(Append(s, m)) = Len(s) + 1
      /\ \A i \in 1..Len(s) : Append(s, m)[i] = s[i]
      /\ Append(s, m)[Len(s) + 1] = m
  OBVIOUS
<1> DEFINE a == StampsOf(Append(s, m))
           b == Append(StampsOf(s), m.stamp)
<1>3. /\ a \in Seq(Nat) /\ Len(a) = Len(s) + 1
      /\ \A i \in 1..Len(s) + 1 : a[i] = Append(s, m)[i].stamp
  BY <1>1, <1>2, StampsOfSeq
<1>4. /\ b \in Seq(Nat) /\ Len(b) = Len(s) + 1
      /\ \A i \in 1..Len(s) : b[i] = s[i].stamp
      /\ b[Len(s) + 1] = m.stamp
  <2>1. /\ StampsOf(s) \in Seq(Nat) /\ Len(StampsOf(s)) = Len(s)
        /\ \A i \in 1..Len(s) : StampsOf(s)[i] = s[i].stamp
    BY StampsOfSeq
  <2>2. /\ b \in Seq(Nat) /\ Len(b) = Len(s) + 1 /\ b[Len(s) + 1] = m.stamp
        /\ \A i \in 1..Len(s) : b[i] = StampsOf(s)[i]
    BY <1>1, <2>1
  <2> QED BY <2>1, <2>2
<1>5. Len(a) = Len(b) /\ \A i \in 1..Len(a) : a[i] = b[i]
  <2> HIDE DEF a, b
  <2>1. Len(s) \in Nat
    OBVIOUS
  <2>2. \A i \in 1..Len(s) + 1 : i \in 1..Len(s) \/ i = Len(s) + 1
    BY <2>1
  <2> QED BY <1>2, <1>3, <1>4, <2>2
<1> HIDE DEF a, b
<1>6. a = b
  BY <1>3, <1>4, <1>5, SeqEqual, Zenon
<1> QED BY <1>6 DEF a, b

\* The abstract variables of LatestValueTopic.
Newest == [c \in Channels |-> box[c].stamp]
Sent == [c \in Channels |-> Stamps(c)]

\* The buffers start before their first value, the topics empty.
LEMMA TopicsInit ==
  ASSUME Init
  PROVE  Topics!Init /\ StampInv /\ SentInv
<1>1. \A c \in Channels : /\ box[c].stamp = 0 /\ topic[c] = <<>> /\ Stamps(c) = <<>>
  BY DEF Init, Stamps
<1>2. Topics!Init
  BY <1>1 DEF Topics!Init
<1>3. StampInv
  BY <1>1, BoundsAssumption DEF Init, StampInv, CurrentTs
<1>4. SentInv
  BY <1>1 DEF Init, SentInv, SentStamp, Carried
<1> QED BY <1>2, <1>3, <1>4

\* Only Send publishes.
LEMMA TopicKept ==
  ASSUME [Next]_vars
  PROVE  UNCHANGED topic \/ \E r \in Callbacks : Send(r)
<1>1. CASE Main \/ Grab \/ Terminated \/ UNCHANGED vars
  BY <1>1 DEF Main, InitializeSensors, Interrupt, CloseRequest, CloseFinish, Grab,
              GrabStart, GrabTest, ReadNothing, ReadReport, PublishValid,
              PublishStamp, PublishData, MarkStatus, Terminated, vars, nodeVars
<1>2. ASSUME NEW r \in Callbacks, CallbackStart(r) \/ Step(r), ~Send(r)
      PROVE  UNCHANGED topic
  BY <1>2 DEF CallbackStart, Step, Poll, Expire, Demote, Lock, Clear, CopyValid,
              CopyStamp, CopyData, Copy, Skip, FillStamp, FillData
<1> QED BY <1>1, <1>2 DEF Next

\* Every step leaves the topics and the stamps alone, acquires one value, or
\* publishes one.
LEMMA TopicsStep ==
  ASSUME OneCallback, TypeOK, TypeOK', StampInv, SentInv, [Next]_vars
  PROVE  [Topics!Next]_<<Newest, Sent>>
<1> USE OrderFacts
<1>1. \A c \in Channels :
        /\ box[c].stamp \in Nat /\ box'[c].stamp \in Nat
        /\ topic[c] \in Seq(Messages) /\ Stamps(c) = StampsOf(topic[c])
        /\ msg[c] \in Messages
  BY DEF TypeOK, Reading, Messages, Stamps, StampsOf
<1>2. CASE UNCHANGED topic
  <2>1. Sent' = Sent
    BY <1>2 DEF Sent, Stamps
  <2>2. CASE \A c \in Channels : box'[c].stamp = box[c].stamp
    BY <2>1, <2>2 DEF Newest
  <2>3. ASSUME /\ box'[Order[gi]].stamp = CurrentTs /\ box[Order[gi]].stamp < CurrentTs
               /\ \A c \in Channels : c # Order[gi] => box'[c].stamp = box[c].stamp,
               NEW d \in Channels, d = Order[gi]
        PROVE  Topics!Next
    <3>1. Newest' = [Newest EXCEPT ![d] = box'[d].stamp]
      BY <2>3 DEF Newest
    <3>2. /\ Newest'[d] = box'[d].stamp /\ Newest[d] = box[d].stamp
          /\ box'[d].stamp \in Nat /\ box'[d].stamp > box[d].stamp
      BY <1>1, <2>3 DEF Newest
    <3>3. Topics!Acquire(d)
      BY <2>1, <3>1, <3>2 DEF Topics!Acquire, Newest, Sent
    <3> QED BY <3>3 DEF Topics!Next
  <2>4. Order[gi] \in Channels
    BY DEF TypeOK
  <2> QED BY <2>2, <2>3, <2>4, StampChange
<1>3. ASSUME NEW r \in Callbacks, Send(r), NEW c \in Channels, c = Order[ri[r]]
      PROVE  Topics!Next
  <2>1. /\ box' = box /\ topic' = [topic EXCEPT ![c] = Append(topic[c], msg[c])]
        /\ rpc[r] = "send"
    BY <1>3 DEF Send
  <2>2. Newest' = Newest
    BY <2>1 DEF Newest
  <2>3. topic'[c] = Append(topic[c], msg[c])
    BY <2>1 DEF TypeOK
  <2>4. StampsOf(topic'[c]) = Append(StampsOf(topic[c]), msg[c].stamp)
    BY <1>1, <2>3, StampsOfAppend
  <2>5. Sent' = [Sent EXCEPT ![c] = Append(Sent[c], msg[c].stamp)]
    <3>1. \A d \in Channels : d # c => topic'[d] = topic[d]
      BY <2>1 DEF TypeOK
    <3>2. \A d \in Channels :
            StampsOf(topic'[d]) =
              IF d = c THEN Append(Sent[c], msg[c].stamp) ELSE Sent[d]
      BY <1>1, <2>4, <3>1 DEF Sent
    <3>3. Sent' = [d \in Channels |-> StampsOf(topic'[d])]
      BY DEF Sent, Stamps, StampsOf
    <3>4. Sent = [d \in Channels |-> Sent[d]]
      BY DEF Sent
    <3> QED BY <3>2, <3>3, <3>4
  <2>6. SentStamp(c) <= msg[c].stamp /\ msg[c].stamp <= box[c].stamp
    BY <1>3, <2>1 DEF SentInv, Carried
  <2>7. SentStamp(c) = IF Sent[c] = <<>> THEN 0 ELSE Sent[c][Len(Sent[c])]
    <3>1. /\ Len(Sent[c]) = Len(topic[c]) /\ Sent[c] \in Seq(Nat)
          /\ \A i \in 1..Len(topic[c]) : Sent[c][i] = topic[c][i].stamp
      BY <1>1, StampsOfSeq DEF Sent
    <3>2. topic[c] # <<>> => Len(topic[c]) \in 1..Len(topic[c])
      BY <1>1, EmptySeq
    <3>3. topic[c] = <<>> <=> Sent[c] = <<>>
      BY <1>1, <3>1, EmptySeq
    <3> QED BY <3>1, <3>2, <3>3 DEF SentStamp
  <2>8. SentStamp(c) \in Nat /\ msg[c].stamp \in Nat /\ Newest[c] = box[c].stamp
    <3>1. topic[c] # <<>> => topic[c][Len(topic[c])] \in Messages
      BY <1>1, LastElement
    <3> QED BY <1>1, <3>1 DEF SentStamp, Messages, Newest
  <2>9. msg[c].stamp \in SentStamp(c)..Newest[c]
    BY <1>1, <2>6, <2>8
  <2>10. Topics!LastSent(c) = SentStamp(c)
    BY <2>7 DEF Topics!LastSent, Sent
  <2>11. Topics!Publish(c)
    BY <2>2, <2>5, <2>9, <2>10 DEF Topics!Publish, Newest, Sent
  <2> QED BY <2>11 DEF Topics!Next
<1>4. UNCHANGED topic \/ \E r \in Callbacks : Send(r)
  BY TopicKept
<1>5. \A r \in Callbacks : Order[ri[r]] \in Channels
  BY DEF TypeOK
<1> QED BY <1>2, <1>3, <1>4, <1>5

\* Where callbacks do not overlap, what subscribers see implements
\* LatestValueTopic: on every topic the stamps never run backwards and never
\* ahead of the driver's buffer, through torn copies, getters that run out
\* of time and reports in the middle of which a copy is made.
THEOREM TopicsRefined ==
  ASSUME OneCallback
  PROVE  Spec => TopicsInOrder
<1>1. Init => Topics!Init /\ StampInv /\ SentInv
  BY TopicsInit
<1>2. TypeOK /\ StampInv /\ SentInv /\ [Next]_vars => StampInv' /\ SentInv'
  BY StampStep, SentStep
<1>3. TypeOK /\ TypeOK' /\ StampInv /\ SentInv /\ [Next]_vars
        => [Topics!Next]_<<Newest, Sent>>
  BY TopicsStep
<1> QED BY <1>1, <1>2, <1>3, TypeCorrect, PTL
    DEF Spec, TopicsInOrder, Topics!Spec, Newest, Sent

-----------------------------------------------------------------------------
(* How often one report is published, when callbacks do not overlap.  What
   is still to come for the stamp in a buffer is at most: the message under
   way, one reading through the new-data flag, and one by a getter that ran
   out of time just before the next report makes the old stamp valid again. *)

\* The places of a topic that show stamp s.
Times(c, s) == {i \in DOMAIN topic[c] : topic[c][i].stamp = s}

\* Callback r has copied stamp s of channel c and will publish it.
Carrying(r, c, s) ==
  /\ Order[ri[r]] = c /\ got[r].stamp = s
  /\ \/ rpc[r] \in {"fill", "send"}
     \/ rpc[r] \in {"copyData", "check"} /\ got[r].valid = NewVal

\* Callback r has found channel c valid, or is about to, and will copy its stamp.
Copying(r, c) ==
  /\ Order[ri[r]] = c
  /\ \/ rpc[r] = "copyValid" /\ box[c].valid = NewVal
     \/ rpc[r] = "copyStamp" /\ got[r].valid = NewVal

Underway(c, s) ==
  \E r \in Callbacks : Carrying(r, c, s) \/ (s = box[c].stamp /\ Copying(r, c))

\* The stamp s is in the buffer, and the grab thread is not about to replace it:
\* the next report has yet to make the buffer valid.
Renewable(c, s) == s = box[c].stamp /\ ~(gpc = "stamp" /\ c = Order[gi])

\* The new-data flag of that report is set or about to be.
Takeable(c, s) == Renewable(c, s) /\ (new[c] \/ (gpc = "data" /\ c = Order[gi]))

Bit(b) == IF b THEN 1 ELSE 0
Due(c, s) == Bit(Underway(c, s)) + Bit(Renewable(c, s)) + Bit(Takeable(c, s))

RepeatInv ==
  \A c \in Channels : \A s \in Nat : Cardinality(Times(c, s)) + Due(c, s) <= 3

\* Flags are set once the grab thread runs, a getter in its critical section has
\* found its flag set, and no channel is made valid without its mutex.
FlagInv ==
  /\ main = "ctor" => gpc = "none"
  /\ gpc \in {"none", "spawned"} => \A c \in Channels : ~new[c]
  /\ \A r \in Callbacks : rpc[r] \in {"take", "clear"} => new[Order[ri[r]]]
  /\ \A c \in Channels : ~sample[c].fresh => sample[c].status # NewVal

\* Nothing on a topic is ahead of the buffer.
BehindInv ==
  \A c \in Channels : \A i \in DOMAIN topic[c] : topic[c][i].stamp <= box[c].stamp

\* What a report says of a channel it does not fill in is never that it is new.
LEMMA DecodeNotNew ==
  ASSUME NEW rep \in Reports, NEW c \in Channels, ~Decode(rep)[c].fresh
  PROVE  Decode(rep)[c].status # NewVal
<1>1. c \in AllChannels
  BY OrderFacts
<1>2. CASE c = "imu"
  BY <1>2 DEF Decode
<1>3. CASE c = "mag"
  <2>1. Decode(rep)[c].status = StatusOf(rep.magValid)
    BY <1>3 DEF Decode
  <2>2. rep.magValid \in 0..2
    BY DEF Reports
  <2>4. rep.magValid # 2
    <3>1. rep.magValid = 2 => Decode(rep)[c].fresh = TRUE
      BY <1>3 DEF Decode
    <3> QED BY <3>1
  <2>3. rep.magValid = 0 \/ rep.magValid = 1
    BY <2>2, <2>4
  <2> QED BY <2>1, <2>3 DEF StatusOf, NotPresent, OldVal, NewVal
<1>4. CASE c = "env"
  <2>1. Decode(rep)[c].status = StatusOf(rep.envValid)
    BY <1>4 DEF Decode
  <2>2. rep.envValid \in 0..2
    BY DEF Reports
  <2>4. rep.envValid # 2
    <3>1. rep.envValid = 2 => Decode(rep)[c].fresh = TRUE
      BY <1>4 DEF Decode
    <3> QED BY <3>1
  <2>3. rep.envValid = 0 \/ rep.envValid = 1
    BY <2>2, <2>4
  <2> QED BY <2>1, <2>3 DEF StatusOf, NotPresent, OldVal, NewVal
<1>5. CASE c = "temp"
  BY <1>5 DEF Decode, OldVal, NewVal
<1> QED BY <1>1, <1>2, <1>3, <1>4, <1>5 DEF AllChannels

\* With one callback, a flag that was found set stays set until that callback clears it.
LEMMA FlagStep ==
  ASSUME OneCallback, TypeOK, FlagInv, [Next]_vars
  PROVE  FlagInv'
<1> USE OrderFacts DEF FlagInv
<1>1. CASE Main
  <2>1. UNCHANGED <<new, rpc, ri, sample>> /\ main' # "ctor"
    BY <1>1 DEF Main, InitializeSensors, Interrupt, CloseRequest, CloseFinish, grabVars,
                nodeVars
  <2>2. gpc' = gpc \/ (gpc = "none" /\ gpc' = "spawned")
    BY <1>1 DEF Main, InitializeSensors, Interrupt, CloseRequest, CloseFinish, grabVars
  <2> QED BY <2>1, <2>2
<1>2. CASE GrabStart
  <2>1. /\ gpc = "spawned" /\ gpc' = "loop" /\ UNCHANGED <<main, rpc, ri, sample>>
    BY <1>2 DEF GrabStart, nodeVars
  <2>2. \A r \in Callbacks : rpc[r] \notin {"take", "clear"}
    BY <2>1 DEF TypeOK
  <2> QED BY <2>1, <2>2
<1>3. CASE GrabTest \/ ReadNothing
  BY <1>3 DEF GrabTest, ReadNothing, nodeVars
<1>4. CASE ReadReport
  <2>1. /\ gpc = "read" /\ gpc' \in {"loop", "channel"} /\ UNCHANGED <<main, new, rpc, ri>>
        /\ sample' = sample \/ \E rep \in Reports : sample' = Decode(rep)
    BY <1>4 DEF ReadReport, nodeVars
  <2>2. \A c \in Channels : ~sample'[c].fresh => sample'[c].status # NewVal
    BY <2>1, DecodeNotNew
  <2> QED BY <2>1, <2>2
<1>5. CASE PublishValid \/ PublishStamp \/ MarkStatus
  <2>1. /\ UNCHANGED <<main, new, rpc, ri, sample>>
        /\ gpc \notin {"none", "spawned"} /\ gpc' \notin {"none", "spawned"}
    BY <1>5 DEF PublishValid, PublishStamp, MarkStatus, NextChannel, nodeVars
  <2> QED BY <2>1
<1>6. CASE PublishData
  <2>1. /\ UNCHANGED <<main, rpc, ri, sample>>
        /\ gpc = "data" /\ gpc' \in {"channel", "loop"}
        /\ new' = [new EXCEPT ![Order[gi]] = TRUE]
    BY <1>6 DEF PublishData, NextChannel, nodeVars
  <2>2. \A c \in Channels : new[c] => new'[c]
    BY <2>1 DEF TypeOK
  <2>3. \A r \in Callbacks : Order[ri[r]] \in Channels
    BY DEF TypeOK
  <2> QED BY <2>1, <2>2, <2>3
<1>7. ASSUME NEW r \in Callbacks, Poll(r)
      PROVE  FlagInv'
  <2>1. /\ UNCHANGED <<main, gpc, new, ri, sample>>
        /\ rpc'[r] \in {"take", "clear"} => new[Order[ri[r]]]
    BY <1>7 DEF Poll, Goto, TypeOK, grabVars
  <2> QED BY <2>1 DEF OneCallback
<1>8. ASSUME NEW r \in Callbacks, Lock(r)
      PROVE  FlagInv'
  BY <1>8 DEF Lock, Goto, OneCallback, TypeOK, grabVars
<1>9. ASSUME NEW r \in Callbacks, Clear(r)
      PROVE  FlagInv'
  <2>1. /\ UNCHANGED <<main, gpc, sample>> /\ rpc'[r] = "copyValid"
        /\ new' = [new EXCEPT ![Order[ri[r]]] = FALSE]
    BY <1>9 DEF Clear, Goto, TypeOK, grabVars
  <2>2. \A c \in Channels : ~new[c] => ~new'[c]
    BY <2>1 DEF TypeOK
  <2>3. \A q \in Callbacks : rpc'[q] \notin {"take", "clear"}
    BY <2>1 DEF OneCallback
  <2> QED BY <2>1, <2>2, <2>3
<1>10. ASSUME NEW r \in Callbacks,
              \/ CallbackStart(r) \/ Expire(r) \/ Demote(r) \/ CopyValid(r)
              \/ CopyStamp(r) \/ CopyData(r) \/ Skip(r) \/ FillStamp(r) \/ FillData(r)
              \/ Send(r)
       PROVE  FlagInv'
  <2>1. UNCHANGED <<main, gpc, new, sample>>
    BY <1>10 DEF CallbackStart, Expire, Demote, CopyValid, CopyStamp, CopyData, Copy,
                 Skip, FillStamp, FillData, Send, grabVars
  <2>2. rpc'[r] \notin {"take", "clear"}
    BY <1>10 DEF CallbackStart, Expire, Demote, CopyValid, CopyStamp, CopyData, Copy,
                 Skip, FillStamp, FillData, Send, Advance, Goto, TypeOK
  <2> QED BY <2>1, <2>2 DEF OneCallback
<1>11. CASE UNCHANGED vars
  BY <1>11 DEF vars, grabVars, nodeVars
<1> QED
  BY <1>1, <1>2, <1>3, <1>4, <1>5, <1>6, <1>7, <1>8, <1>9, <1>10, <1>11
  DEF Next, Grab, Step, Terminated

\* A message appended to a topic is behind the buffer, as all before it.
LEMMA BehindStep ==
  ASSUME TypeOK, StampInv, SentInv, BehindInv, [Next]_vars
  PROVE  BehindInv'
<1>1. \A c \in Channels :
        /\ box[c].stamp \in Nat /\ box'[c].stamp \in Nat
        /\ box[c].stamp <= box'[c].stamp
  <2>1. \A c \in Channels : box[c].stamp \in Nat
    BY DEF TypeOK, Reading
  <2>2. CurrentTs \in Nat
    BY BoundsAssumption DEF TypeOK, CurrentTs
  <2> QED BY <2>1, <2>2, StampChange
<1>2. \A c \in Channels : topic[c] \in Seq(Messages) /\ msg[c] \in Messages
  BY DEF TypeOK, Messages
<1>3. \A c \in Channels : \A i \in DOMAIN topic[c] : topic[c][i].stamp \in Nat
  <2>1. \A c \in Channels : \A i \in DOMAIN topic[c] : topic[c][i] \in Messages
    BY <1>2, ElementOfSeq
  <2> QED BY <2>1 DEF Messages
<1>4. CASE UNCHANGED topic
  BY <1>1, <1>3, <1>4 DEF BehindInv
<1>5. ASSUME NEW r \in Callbacks, Send(r), NEW d \in Channels, d = Order[ri[r]]
      PROVE  BehindInv'
  <2>1. /\ rpc[r] = "send" /\ box' = box
        /\ topic' = [topic EXCEPT ![d] = Append(topic[d], msg[d])]
    BY <1>5 DEF Send
  <2>2. msg[d].stamp <= box[d].stamp
    BY <1>5, <2>1 DEF SentInv, Carried
  <2>3. \A c \in Channels : c # d => topic'[c] = topic[c]
    BY <2>1 DEF TypeOK
  <2>4. topic'[d] = Append(topic[d], msg[d])
    BY <2>1 DEF TypeOK
  <2>5. /\ DOMAIN topic[d] = 1..Len(topic[d]) /\ Len(topic[d]) \in Nat
        /\ DOMAIN topic'[d] = 1..Len(topic[d]) + 1
        /\ \A i \in 1..Len(topic[d]) : topic'[d][i] = topic[d][i]
        /\ topic'[d][Len(topic[d]) + 1] = msg[d]
    BY <1>2, <2>4
  <2>6. \A i \in DOMAIN topic'[d] : topic'[d][i].stamp <= box[d].stamp
    <3> TAKE i \in DOMAIN topic'[d]
    <3>1. i \in 1..Len(topic[d]) \/ i = Len(topic[d]) + 1
      BY <2>5
    <3>2. CASE i \in 1..Len(topic[d])
      BY <2>5, <3>2 DEF BehindInv
    <3>3. CASE i = Len(topic[d]) + 1
      BY <2>2, <2>5, <3>3
    <3> QED BY <3>1, <3>2, <3>3
  <2> QED BY <2>1, <2>3, <2>6 DEF BehindInv
<1>6. UNCHANGED topic \/ \E r \in Callbacks : Send(r)
  BY TopicKept
<1>7. \A r \in Callbacks : Order[ri[r]] \in Channels
  BY OrderFacts DEF TypeOK
<1> QED BY <1>4, <1>5, <1>6, <1>7

\* The places of a topic that show one stamp: what an appended message adds.
LEMMA TimesAppend ==
  ASSUME NEW c \in Channels, NEW s \in Nat, NEW m \in Messages,
         topic[c] \in Seq(Messages), topic'[c] = Append(topic[c], m)
  PROVE  /\ Cardinality(Times(c, s)) \in Nat
         /\ Cardinality(Times(c, s)') =
              IF m.stamp = s THEN Cardinality(Times(c, s)) + 1 ELSE Cardinality(Times(c, s))
<1> DEFINE n == Len(topic[c])
<1>1. /\ n \in Nat /\ DOMAIN topic[c] = 1..n /\ DOMAIN topic'[c] = 1..n + 1
      /\ \A i \in 1..n : topic'[c][i] = topic[c][i]
      /\ topic'[c][n + 1] = m
  OBVIOUS
<1> HIDE DEF n
<1>2. IsFiniteSet(Times(c, s)) /\ Cardinality(Times(c, s)) \in Nat
  <2>1. Times(c, s) \in SUBSET (1..n)
    BY <1>1 DEF Times
  <2>2. IsFiniteSet(1..n)
    BY <1>1, FS_Interval
  <2> QED BY <2>1, <2>2, FS_Subset, FS_CardinalityType
<1>3. n + 1 \notin Times(c, s)
  <2>1. n + 1 \notin 1..n
    BY <1>1
  <2> QED BY <1>1, <2>1 DEF Times
<1>4. \A i : i \in 1..n + 1 <=> i \in 1..n \/ i = n + 1
  BY <1>1
<1>5. Times(c, s)' = IF m.stamp = s THEN Times(c, s) \cup {n + 1} ELSE Times(c, s)
  BY <1>1, <1>4 DEF Times
<1>6. Cardinality(Times(c, s) \cup {n + 1}) = Cardinality(Times(c, s)) + 1
  BY <1>2, <1>3, FS_AddElement
<1> QED BY <1>2, <1>5, <1>6

\* How many places of a topic show one stamp is a number.
LEMMA TimesType ==
  ASSUME TypeOK, NEW c \in Channels, NEW s \in Nat
  PROVE  Cardinality(Times(c, s)) \in Nat
<1>1. topic[c] \in Seq(Messages)
  BY DEF TypeOK, Messages
<1>2. Len(topic[c]) \in Nat /\ Times(c, s) \in SUBSET (1..Len(topic[c]))
  BY <1>1 DEF Times
<1>3. IsFiniteSet(1..Len(topic[c]))
  BY <1>2, FS_Interval
<1> QED BY <1>2, <1>3, FS_Subset, FS_CardinalityType

\* At most three publications are due.
LEMMA DueType ==
  ASSUME NEW c, NEW s
  PROVE  Due(c, s) \in 0..3 /\ Due(c, s)' \in 0..3
BY DEF Due, Bit

\* What is due does not grow when none of its parts appears, ...
LEMMA DueKept ==
  ASSUME NEW c, NEW s,
         Underway(c, s)' => Underway(c, s),
         Renewable(c, s)' => Renewable(c, s),
         Takeable(c, s)' => Takeable(c, s)
  PROVE  Due(c, s)' <= Due(c, s)
BY DEF Due, Bit

\* ... nor when the message under way replaces a flag that is taken, ...
LEMMA DueTaken ==
  ASSUME NEW c, NEW s, ~Underway(c, s), ~Takeable(c, s)',
         Underway(c, s)' => Takeable(c, s),
         Renewable(c, s)' => Renewable(c, s)
  PROVE  Due(c, s)' <= Due(c, s)
BY DEF Due, Bit

\* ... nor when it is all that is left of a stamp about to be replaced.
LEMMA DueRenewed ==
  ASSUME NEW c, NEW s, Renewable(c, s), ~Renewable(c, s)'
  PROVE  Due(c, s)' <= Due(c, s)
BY DEF Due, Bit, Takeable

\* A step that keeps topics, and under which nothing more becomes due, is safe.
LEMMA RepeatKept ==
  ASSUME TypeOK, RepeatInv, UNCHANGED topic,
         \A c \in Channels : \A s \in Nat : Due(c, s)' <= Due(c, s)
  PROVE  RepeatInv'
<1> SUFFICES ASSUME NEW c \in Channels, NEW s \in Nat
             PROVE  Cardinality(Times(c, s))' + Due(c, s)' <= 3
  BY DEF RepeatInv
<1>1. Times(c, s)' = Times(c, s)
  BY DEF Times
<1>2. Cardinality(Times(c, s)) + Due(c, s) <= 3 /\ Due(c, s)' <= Due(c, s)
  BY DEF RepeatInv
<1>3. /\ Cardinality(Times(c, s)) \in Nat /\ Due(c, s) \in Int /\ Due(c, s)' \in Int
  BY TimesType, DueType
<1>4. Cardinality(Times(c, s))' = Cardinality(Times(c, s))
  BY <1>1
<1> QED BY <1>2, <1>3, <1>4

\* Steps of a callback towards a copy that finds nothing new leave nothing under way.
LEMMA RepeatIdle ==
  ASSUME OneCallback, TypeOK, RepeatInv, NEW r \in Callbacks,
         \/ CallbackStart(r) \/ Poll(r) \/ Expire(r) \/ Demote(r) \/ Lock(r) \/ Skip(r)
  PROVE  RepeatInv'
<1> USE OrderFacts
<1>1. UNCHANGED <<gpc, gi, new, topic>>
  BY DEF CallbackStart, Poll, Expire, Demote, Lock, Skip, grabVars
<1>2. \A c \in Channels : box'[c].stamp = box[c].stamp
  <2>1. CASE Demote(r)
    <3>1. Order[ri[r]] \in Channels
      BY DEF TypeOK
    <3> QED BY <2>1, <3>1, StampsKept DEF Demote
  <2>2. CASE ~Demote(r)
    BY <2>2 DEF CallbackStart, Poll, Expire, Lock, Skip
  <2> QED BY <2>1, <2>2
<1>3. \A c \in Channels, s \in Nat : ~Underway(c, s)'
  <2>1. ASSUME CallbackStart(r) \/ Poll(r) \/ Lock(r) \/ Skip(r)
        PROVE  rpc'[r] \in {"poll", "take", "expired", "clear", "idle"}
    BY <2>1 DEF CallbackStart, Poll, Lock, Skip, Advance, Goto, TypeOK
  <2>2. ASSUME Expire(r)
        PROVE  /\ rpc'[r] \in {"demote", "copyValid"}
               /\ rpc'[r] = "copyValid" => box'[Order[ri'[r]]].valid # NewVal
    BY <2>2 DEF Expire, Goto, TypeOK, NotPresent, NewVal
  <2>3. ASSUME Demote(r)
        PROVE  rpc'[r] = "copyValid" /\ box'[Order[ri'[r]]].valid # NewVal
    BY <2>3 DEF Demote, Goto, TypeOK, Reading, OldVal, NewVal
  <2>4. \/ rpc'[r] \in {"poll", "take", "expired", "clear", "idle", "demote"}
        \/ rpc'[r] = "copyValid" /\ box'[Order[ri'[r]]].valid # NewVal
    BY <2>1, <2>2, <2>3
  <2> QED BY <2>4 DEF Underway, Carrying, Copying, OneCallback
<1>4. ASSUME NEW c \in Channels, NEW s \in Nat
      PROVE  Due(c, s)' <= Due(c, s)
  <2>1. ~Underway(c, s)'
    BY <1>3
  <2>2. Renewable(c, s)' => Renewable(c, s)
    BY <1>1, <1>2 DEF Renewable
  <2>3. Takeable(c, s)' => Takeable(c, s)
    BY <1>1, <2>2 DEF Takeable
  <2> QED BY <2>1, <2>2, <2>3, DueKept
<1> QED BY <1>1, <1>4, RepeatKept

\* The steps of a copy keep what is under way.
LEMMA RepeatCopy ==
  ASSUME OneCallback, TypeOK, RepeatInv, NEW r \in Callbacks,
         CopyValid(r) \/ CopyStamp(r) \/ CopyData(r) \/ FillStamp(r) \/ FillData(r)
  PROVE  RepeatInv'
<1> USE OrderFacts
<1>1. UNCHANGED <<gpc, gi, box, new, ri, topic>>
  BY DEF CopyValid, CopyStamp, CopyData, Copy, FillStamp, FillData, grabVars
<1>2. got[r] \in Reading /\ box[Order[ri[r]]] \in Reading
  BY CurrentChannel DEF TypeOK
<1>3. ASSUME NEW c \in Channels, NEW s \in Nat
      PROVE  /\ Carrying(r, c, s)' => Carrying(r, c, s) \/ (s = box[c].stamp /\ Copying(r, c))
             /\ Copying(r, c)' => Copying(r, c)
  <2>1. CASE CopyValid(r)
    <3>1. /\ rpc[r] = "copyValid" /\ rpc'[r] = "copyStamp"
          /\ got'[r].valid = box[Order[ri[r]]].valid
      BY <1>2, <2>1 DEF CopyValid, Copy, Goto, TypeOK, Reading
    <3> QED BY <1>1, <3>1 DEF Carrying, Copying
  <2>2. CASE CopyStamp(r)
    <3>1. /\ rpc[r] = "copyStamp" /\ rpc'[r] = "copyData"
          /\ got'[r].valid = got[r].valid /\ got'[r].stamp = box[Order[ri[r]]].stamp
      BY <1>2, <2>2 DEF CopyStamp, Copy, Goto, TypeOK, Reading
    <3> QED BY <1>1, <3>1 DEF Carrying, Copying
  <2>3. CASE CopyData(r)
    <3>1. /\ rpc[r] = "copyData" /\ rpc'[r] = "check"
          /\ got'[r].valid = got[r].valid /\ got'[r].stamp = got[r].stamp
      BY <1>2, <2>3 DEF CopyData, Copy, Goto, TypeOK, Reading
    <3> QED BY <1>1, <3>1 DEF Carrying, Copying
  <2>4. CASE FillStamp(r)
    <3>1. /\ rpc[r] = "check" /\ rpc'[r] = "fill" /\ got[r].valid = NewVal /\ got' = got
      BY <2>4 DEF FillStamp, Goto, TypeOK
    <3> QED BY <1>1, <3>1 DEF Carrying, Copying
  <2>5. CASE FillData(r)
    <3>1. rpc[r] = "fill" /\ rpc'[r] = "send" /\ got' = got
      BY <2>5 DEF FillData, Goto, TypeOK
    <3> QED BY <1>1, <3>1 DEF Carrying, Copying
  <2> QED BY <2>1, <2>2, <2>3, <2>4, <2>5
<1>4. ASSUME NEW c \in Channels, NEW s \in Nat
      PROVE  Due(c, s)' <= Due(c, s)
  <2>1. \A q \in Callbacks : q = r
    BY DEF OneCallback
  <2>2. ASSUME Underway(c, s)' PROVE Underway(c, s)
    <3>1. Carrying(r, c, s)' \/ (s = box[c].stamp /\ Copying(r, c)')
      BY <1>1, <2>1, <2>2 DEF Underway
    <3>2. Carrying(r, c, s) \/ (s = box[c].stamp /\ Copying(r, c))
      BY <1>3, <3>1
    <3> QED BY <3>2 DEF Underway
  <2>3. Renewable(c, s)' => Renewable(c, s)
    BY <1>1 DEF Renewable
  <2>4. Takeable(c, s)' => Takeable(c, s)
    BY <1>1, <2>3 DEF Takeable
  <2> QED BY <2>2, <2>3, <2>4, DueKept
<1> QED BY <1>1, <1>4, RepeatKept

\* A getter that clears a flag turns it into a message under way; the grab thread
\* is not inside the buffer then.
LEMMA RepeatClear ==
  ASSUME OneCallback, TypeOK, MutexInv, FlagInv, RepeatInv, NEW r \in Callbacks, Clear(r)
  PROVE  RepeatInv'
<1> USE OrderFacts
<1>1. /\ UNCHANGED <<gpc, gi, box, ri, got, topic>>
      /\ rpc[r] = "clear" /\ rpc'[r] = "copyValid"
      /\ new' = [new EXCEPT ![Order[ri[r]]] = FALSE]
  BY DEF Clear, Goto, TypeOK, grabVars
<1>2. /\ Order[ri[r]] \in Channels /\ new[Order[ri[r]]] /\ ~Filling(Order[ri[r]])
  BY <1>1, CallbacksAssumption DEF TypeOK, MutexInv, FlagInv
<1>3. \A q \in Callbacks : q = r
  BY DEF OneCallback
<1>4. ASSUME NEW c \in Channels, NEW s \in Nat
      PROVE  Due(c, s)' <= Due(c, s)
  <2>1. Renewable(c, s)' <=> Renewable(c, s)
    BY <1>1 DEF Renewable
  <2>2. ~Underway(c, s)
    BY <1>1, <1>3 DEF Underway, Carrying, Copying
  <2>3. CASE c = Order[ri[r]]
    <3>1. ~Takeable(c, s)'
      BY <1>1, <1>2, <2>3 DEF Takeable, Filling, TypeOK
    <3>2. Underway(c, s)' => Takeable(c, s)
      <4>1. Underway(c, s)' => s = box[c].stamp
        BY <1>1, <1>3 DEF Underway, Carrying
      <4>2. s = box[c].stamp => Takeable(c, s)
        BY <1>2, <2>3 DEF Takeable, Renewable, Filling
      <4> QED BY <4>1, <4>2
    <3> QED BY <2>1, <2>2, <3>1, <3>2, DueTaken
  <2>4. CASE c # Order[ri[r]]
    <3>1. ~Underway(c, s)'
      BY <1>1, <1>3, <2>4 DEF Underway, Carrying, Copying
    <3>2. new'[c] = new[c]
      BY <1>1, <2>4 DEF TypeOK
    <3>3. Takeable(c, s)' => Takeable(c, s)
      BY <1>1, <2>1, <3>2 DEF Takeable
    <3> QED BY <2>1, <3>1, <3>3, DueKept
  <2> QED BY <2>3, <2>4
<1> QED BY <1>1, <1>4, RepeatKept

\* What was under way is published, and no longer due.
LEMMA RepeatSend ==
  ASSUME OneCallback, TypeOK, SentInv, RepeatInv, NEW r \in Callbacks, Send(r)
  PROVE  RepeatInv'
<1> USE OrderFacts
<1> DEFINE d == Order[ri[r]]
<1>1. /\ UNCHANGED <<gpc, gi, box, new, got>> /\ d \in Channels
      /\ rpc[r] = "send" /\ rpc'[r] \in {"poll", "idle"}
      /\ topic' = [topic EXCEPT ![d] = Append(topic[d], msg[d])]
  BY DEF Send, Advance, Goto, TypeOK, grabVars
<1>2. msg[d].stamp = got[r].stamp
  BY <1>1 DEF SentInv
<1>3. \A q \in Callbacks : q = r
  BY DEF OneCallback
<1> HIDE DEF d
<1> SUFFICES ASSUME NEW c \in Channels, NEW s \in Nat
             PROVE  Cardinality(Times(c, s))' + Due(c, s)' <= 3
  BY DEF RepeatInv
<1>4. /\ Renewable(c, s)' <=> Renewable(c, s)
      /\ Takeable(c, s)' <=> Takeable(c, s)
      /\ ~Underway(c, s)'
  <2>1. ~Underway(c, s)'
    BY <1>1, <1>3 DEF Underway, Carrying, Copying
  <2> QED BY <1>1, <2>1 DEF Renewable, Takeable
<1>5. Due(c, s)' = Bit(Renewable(c, s)) + Bit(Takeable(c, s))
  BY <1>4 DEF Due, Bit
<1>6. /\ Cardinality(Times(c, s)) + Due(c, s) <= 3
      /\ Cardinality(Times(c, s)) \in Nat
      /\ Due(c, s) \in Int /\ Due(c, s)' \in Int
  BY TimesType, DueType DEF RepeatInv
<1>7. CASE c = d /\ msg[d].stamp = s
  <2>1. Underway(c, s)
    BY <1>1, <1>2, <1>7 DEF Underway, Carrying, d
  <2>2. Due(c, s) = Due(c, s)' + 1
    BY <1>5, <2>1 DEF Due, Bit
  <2>3. Cardinality(Times(c, s))' = Cardinality(Times(c, s)) + 1
    <3>1. topic[c] \in Seq(Messages) /\ msg[c] \in Messages
      BY DEF TypeOK, Messages
    <3>2. topic'[c] = Append(topic[c], msg[c])
      BY <1>1, <1>7 DEF TypeOK
    <3> QED BY <1>7, <3>1, <3>2, TimesAppend
  <2> QED BY <1>6, <2>2, <2>3
<1>8. CASE c = d /\ msg[d].stamp # s
  <2>1. Due(c, s)' <= Due(c, s)
    BY <1>4, DueKept
  <2>2. Cardinality(Times(c, s))' = Cardinality(Times(c, s))
    <3>1. topic[c] \in Seq(Messages) /\ msg[c] \in Messages
      BY DEF TypeOK, Messages
    <3>2. topic'[c] = Append(topic[c], msg[c])
      BY <1>1, <1>8 DEF TypeOK
    <3> QED BY <1>8, <3>1, <3>2, TimesAppend
  <2> QED BY <1>6, <2>1, <2>2
<1>9. CASE c # d
  <2>1. Due(c, s)' <= Due(c, s)
    BY <1>4, DueKept
  <2>2. topic'[c] = topic[c]
    BY <1>1, <1>9 DEF TypeOK
  <2>3. Times(c, s)' = Times(c, s)
    BY <2>2 DEF Times
  <2>4. Cardinality(Times(c, s))' = Cardinality(Times(c, s))
    BY <2>3
  <2> QED BY <1>6, <2>1, <2>4
<1> QED BY <1>7, <1>8, <1>9

\* A stamp that is put into a buffer is on no topic yet, and only the messages
\* under way can still carry the one it replaces.
LEMMA RepeatStamp ==
  ASSUME TypeOK, StampInv, BehindInv, RepeatInv, PublishStamp
  PROVE  RepeatInv'
<1> USE OrderFacts
<1> DEFINE d == Order[gi]
<1>1. /\ UNCHANGED <<gi, new, rpc, ri, got, topic>> /\ d \in Channels
      /\ gpc = "stamp" /\ gpc' = "data"
      /\ box' = [box EXCEPT ![d].stamp = CurrentTs]
  BY DEF PublishStamp, TypeOK, nodeVars
<1>2. /\ \A c \in Channels : c # d => box'[c] = box[c]
      /\ box'[d].stamp = CurrentTs /\ box'[d].valid = box[d].valid
  BY <1>1 DEF TypeOK, Reading
<1>3. /\ box[d].stamp < CurrentTs /\ CurrentTs \in Nat /\ box[d].stamp \in Nat
  BY <1>1, BoundsAssumption DEF StampInv, Pending, TypeOK, Reading, CurrentTs
<1> HIDE DEF d
<1> SUFFICES ASSUME NEW c \in Channels, NEW s \in Nat
             PROVE  Cardinality(Times(c, s))' + Due(c, s)' <= 3
  BY DEF RepeatInv
<1>4. /\ Cardinality(Times(c, s)) + Due(c, s) <= 3
      /\ Cardinality(Times(c, s)) \in Nat
      /\ Due(c, s) \in 0..3 /\ Due(c, s)' \in 0..3
  BY TimesType, DueType DEF RepeatInv
<1>5. Times(c, s)' = Times(c, s)
  BY <1>1 DEF Times
<1>6. Cardinality(Times(c, s))' = Cardinality(Times(c, s))
  BY <1>5
<1>7. CASE c = d /\ s = CurrentTs
  <2>1. \A i \in DOMAIN topic[d] : topic[d][i].stamp <= box[d].stamp
    BY <1>1 DEF BehindInv
  <2>2. \A i \in DOMAIN topic[d] : topic[d][i].stamp \in Nat
    <3>1. topic[d] \in Seq(Messages)
      BY <1>1 DEF TypeOK, Messages
    <3>2. \A i \in DOMAIN topic[d] : topic[d][i] \in Messages
      BY <3>1, ElementOfSeq
    <3> QED BY <3>2 DEF Messages
  <2>3. Times(c, s) = {}
    BY <1>3, <1>7, <2>1, <2>2 DEF Times
  <2>4. Cardinality(Times(c, s)) = 0
    BY <2>3, FS_EmptySet
  <2> QED BY <1>4, <1>6, <2>4
<1>8. CASE ~(c = d /\ s = CurrentTs)
  <2>1. Renewable(c, s)' => Renewable(c, s)
    BY <1>1, <1>2, <1>8 DEF Renewable, d
  <2>2. Takeable(c, s)' => Takeable(c, s)
    BY <1>1, <1>2, <1>8 DEF Renewable, Takeable, d
  <2>3. Underway(c, s)' => Underway(c, s)
    <3>1. s = box'[c].stamp => c # d /\ box'[c] = box[c]
      BY <1>2, <1>8
    <3>2. \A r \in Callbacks : Carrying(r, c, s)' => Carrying(r, c, s)
      BY <1>1 DEF Carrying
    <3>3. \A r \in Callbacks : s = box'[c].stamp /\ Copying(r, c)' => Copying(r, c)
      BY <1>1, <3>1 DEF Copying
    <3> QED BY <3>1, <3>2, <3>3 DEF Underway
  <2>4. Due(c, s)' <= Due(c, s)
    BY <2>1, <2>2, <2>3, DueKept
  <2> QED BY <1>4, <1>6, <2>4
<1> QED BY <1>7, <1>8

\* The other steps of the grab thread, and those of the main thread.
LEMMA RepeatGrab ==
  ASSUME TypeOK, FlagInv, MutexInv, RepeatInv,
         Main \/ (Grab /\ ~PublishStamp) \/ Terminated \/ UNCHANGED vars
  PROVE  RepeatInv'
<1> USE OrderFacts
<1>1. UNCHANGED <<rpc, ri, got, topic>>
  BY DEF Main, InitializeSensors, Interrupt, CloseRequest, CloseFinish, Grab, GrabStart,
         GrabTest, ReadNothing, ReadReport, PublishValid, PublishData, MarkStatus,
         Terminated, vars, nodeVars
<1>2. Order[gi] \in Channels
  BY DEF TypeOK
<1>3. ASSUME NEW c \in Channels, NEW s \in Nat, box'[c] = box[c]
      PROVE  Underway(c, s)' => Underway(c, s)
  BY <1>1, <1>3 DEF Underway, Carrying, Copying
<1>4. ASSUME box' = box, gpc \notin {"stamp", "data"}, gpc' \notin {"stamp", "data"},
             \A c \in Channels : new'[c] => new[c]
      PROVE  \A c \in Channels : \A s \in Nat : Due(c, s)' <= Due(c, s)
  <2> TAKE c \in Channels
  <2> TAKE s \in Nat
  <2>1. Underway(c, s)' => Underway(c, s)
    BY <1>3, <1>4
  <2>2. (Renewable(c, s)' => Renewable(c, s)) /\ (Takeable(c, s)' => Takeable(c, s))
    BY <1>4 DEF Renewable, Takeable
  <2> QED BY <2>1, <2>2, DueKept
<1>5. CASE Main \/ Terminated \/ UNCHANGED vars
  <2>1. UNCHANGED <<box, new, gi>>
    BY <1>5 DEF Main, InitializeSensors, Interrupt, CloseRequest, CloseFinish,
                Terminated, vars, grabVars
  <2>2. gpc' = gpc \/ (gpc \notin {"stamp", "data"} /\ gpc' \notin {"stamp", "data"})
    <3>1. CASE InitializeSensors
      <4>1. main = "ctor" => gpc = "none"
        BY DEF FlagInv
      <4> QED BY <3>1, <4>1 DEF InitializeSensors
    <3>2. CASE ~InitializeSensors
      BY <1>5, <3>2 DEF Main, Interrupt, CloseRequest, CloseFinish, Terminated, vars,
                        grabVars
    <3> QED BY <3>1, <3>2
  <2>3. CASE gpc' = gpc
    <3>1. ASSUME NEW c \in Channels, NEW s \in Nat
          PROVE  Due(c, s)' <= Due(c, s)
      <4>1. Underway(c, s)' => Underway(c, s)
        BY <1>3, <2>1
      <4>2. (Renewable(c, s)' => Renewable(c, s)) /\ (Takeable(c, s)' => Takeable(c, s))
        BY <2>1, <2>3 DEF Renewable, Takeable
      <4> QED BY <4>1, <4>2, DueKept
    <3> QED BY <1>1, <3>1, RepeatKept
  <2>4. CASE gpc \notin {"stamp", "data"} /\ gpc' \notin {"stamp", "data"}
    BY <1>1, <1>4, <2>1, <2>4, RepeatKept
  <2> QED BY <2>2, <2>3, <2>4
<1>6. CASE GrabStart \/ GrabTest \/ ReadNothing \/ ReadReport
  <2>1. /\ box' = box /\ gpc \notin {"stamp", "data"} /\ gpc' \notin {"stamp", "data"}
        /\ \A c \in Channels : new'[c] => new[c]
    BY <1>6 DEF GrabStart, GrabTest, ReadNothing, ReadReport
  <2> QED BY <1>1, <1>4, <2>1, RepeatKept
<1>7. CASE PublishValid
  <2>1. /\ UNCHANGED <<gi, new>> /\ gpc = "channel" /\ gpc' = "stamp"
        /\ \A c \in Channels : c # Order[gi] => box'[c] = box[c]
    BY <1>7 DEF PublishValid, TypeOK
  <2>2. \A c \in Channels : box'[c].stamp = box[c].stamp
    BY <1>2, <1>7, StampsKept DEF PublishValid
  <2>3. ASSUME NEW c \in Channels, NEW s \in Nat
        PROVE  Due(c, s)' <= Due(c, s)
    <3>1. CASE c = Order[gi] /\ s = box[c].stamp
      <4>1. Renewable(c, s) /\ ~Renewable(c, s)'
        BY <2>1, <3>1 DEF Renewable
      <4> QED BY <4>1, DueRenewed
    <3>2. CASE c # Order[gi]
      <4>1. Underway(c, s)' => Underway(c, s)
        BY <1>3, <2>1, <3>2
      <4>2. (Renewable(c, s)' => Renewable(c, s)) /\ (Takeable(c, s)' => Takeable(c, s))
        BY <2>1, <2>2, <3>2 DEF Renewable, Takeable
      <4> QED BY <4>1, <4>2, DueKept
    <3>3. CASE s # box[c].stamp
      <4>1. Underway(c, s)' => Underway(c, s)
        BY <1>1, <2>2, <3>3 DEF Underway, Carrying
      <4>2. ~Renewable(c, s)' /\ ~Takeable(c, s)'
        BY <2>2, <3>3 DEF Renewable, Takeable
      <4> QED BY <4>1, <4>2, DueKept
    <3> QED BY <3>1, <3>2, <3>3
  <2> QED BY <1>1, <2>3, RepeatKept
<1>8. CASE PublishData
  <2>1. /\ gpc = "data" /\ gpc' \notin {"stamp", "data"}
        /\ box' = [box EXCEPT ![Order[gi]].data = CurrentTs]
        /\ new' = [new EXCEPT ![Order[gi]] = TRUE]
    BY <1>8 DEF PublishData, NextChannel
  <2>2. \A c \in Channels : box'[c].stamp = box[c].stamp
    BY <1>2, <2>1, StampsKept
  <2>3. \A c \in Channels : box'[c].valid = box[c].valid
    BY <2>1 DEF TypeOK, Reading
  <2>4. ASSUME NEW c \in Channels, NEW s \in Nat
        PROVE  Due(c, s)' <= Due(c, s)
    <3>1. Underway(c, s)' => Underway(c, s)
      BY <1>1, <2>2, <2>3 DEF Underway, Carrying, Copying
    <3>2. Renewable(c, s)' => Renewable(c, s)
      BY <2>1, <2>2 DEF Renewable
    <3>3. new'[c] => new[c] \/ (gpc = "data" /\ c = Order[gi])
      BY <2>1 DEF TypeOK
    <3>4. Takeable(c, s)' => Takeable(c, s)
      BY <2>1, <3>2, <3>3 DEF Takeable
    <3> QED BY <3>1, <3>2, <3>4, DueKept
  <2> QED BY <1>1, <2>4, RepeatKept
<1>9. CASE MarkStatus
  <2>1. /\ UNCHANGED new /\ gpc = "channel" /\ gpc' \notin {"stamp", "data"}
        /\ box' = [box EXCEPT ![Order[gi]].valid = sample[Order[gi]].status]
        /\ ~sample[Order[gi]].fresh
    BY <1>9 DEF MarkStatus, NextChannel
  <2>2. \A c \in Channels : box'[c].stamp = box[c].stamp
    BY <1>2, <2>1, StampsKept
  <2>3. \A c \in Channels : box'[c].valid = NewVal => box[c].valid = NewVal
    <3>1. sample[Order[gi]].status # NewVal
      BY <1>2, <2>1 DEF FlagInv
    <3>2. box'[Order[gi]].valid = sample[Order[gi]].status
      BY <1>2, <2>1 DEF TypeOK, Reading
    <3>3. \A c \in Channels : c # Order[gi] => box'[c] = box[c]
      BY <2>1 DEF TypeOK
    <3> QED BY <3>1, <3>2, <3>3
  <2>4. ASSUME NEW c \in Channels, NEW s \in Nat
        PROVE  Due(c, s)' <= Due(c, s)
    <3>1. Underway(c, s)' => Underway(c, s)
      BY <1>1, <2>2, <2>3 DEF Underway, Carrying, Copying
    <3>2. (Renewable(c, s)' => Renewable(c, s)) /\ (Takeable(c, s)' => Takeable(c, s))
      BY <2>1, <2>2 DEF Renewable, Takeable
    <3> QED BY <3>1, <3>2, DueKept
  <2> QED BY <1>1, <2>4, RepeatKept
<1> QED
  BY <1>5, <1>6, <1>7, <1>8, <1>9 DEF Grab

\* With one callback at a time no report is published more than three times,
\* whatever the moment at which getters run out of time and readings go missing:
\* through the copy begun before its stamp was written, through its flag, and
\* when the next report makes the old stamp valid again.
THEOREM RepeatsBounded ==
  ASSUME OneCallback
  PROVE  Spec => []AtMostThrice
<1> DEFINE Inv == MutexInv /\ StampInv /\ SentInv /\ FlagInv /\ BehindInv /\ RepeatInv
<1>1. Init => Inv
  <2> SUFFICES ASSUME Init PROVE Inv
    OBVIOUS
  <2>1. MutexInv /\ StampInv /\ SentInv
    BY TopicsInit, OrderFacts DEF Init, MutexInv, Filling
  <2>2. FlagInv
    BY OrderFacts DEF Init, FlagInv, NoReport, NotPresent, NewVal
  <2>3. BehindInv
    BY DEF Init, BehindInv
  <2>4. ASSUME NEW c \in Channels, NEW s \in Nat
        PROVE  Cardinality(Times(c, s)) + Due(c, s) <= 3
    <3>1. Times(c, s) = {}
      BY DEF Init, Times
    <3> QED BY <3>1, FS_EmptySet, DueType
  <2> QED BY <2>1, <2>2, <2>3, <2>4 DEF RepeatInv
<1>2. TypeOK /\ Inv /\ [Next]_vars => Inv'
  <2> SUFFICES ASSUME TypeOK, Inv, [Next]_vars PROVE Inv'
    OBVIOUS
  <2>1. MutexInv' /\ StampInv' /\ SentInv' /\ FlagInv' /\ BehindInv'
    BY MutexStep, StampStep, SentStep, FlagStep, BehindStep
  <2>2. PublishStamp => RepeatInv'
    BY RepeatStamp
  <2>3. Main \/ (Grab /\ ~PublishStamp) \/ Terminated \/ UNCHANGED vars => RepeatInv'
    BY RepeatGrab
  <2>4. ASSUME NEW r \in Callbacks, CallbackStart(r) \/ Step(r)
        PROVE  RepeatInv'
    BY <2>4, RepeatIdle, RepeatCopy, RepeatClear, RepeatSend DEF Step
  <2>5. RepeatInv'
    BY <2>2, <2>3, <2>4 DEF Next
  <2> QED BY <2>1, <2>5
<1>3. TypeOK /\ Inv => AtMostThrice
  <2> SUFFICES ASSUME TypeOK, RepeatInv, NEW c \in Channels, NEW i \in DOMAIN topic[c],
                      NEW s, s = Stamps(c)[i]
               PROVE  Cardinality({j \in DOMAIN topic[c] : Stamps(c)[j] = s}) <= 3
    BY Zenon DEF AtMostThrice
  <2>1. topic[c] \in Seq(Messages) /\ \A j \in DOMAIN topic[c] : Stamps(c)[j] = topic[c][j].stamp
    BY DEF TypeOK, Messages, Stamps
  <2>2. s \in Nat
    <3>1. topic[c][i] \in Messages
      BY <2>1, ElementOfSeq
    <3> QED BY <2>1, <3>1 DEF Messages
  <2>3. {j \in DOMAIN topic[c] : Stamps(c)[j] = s} = Times(c, s)
    BY <2>1 DEF Times
  <2>4. /\ Cardinality(Times(c, s)) + Due(c, s) <= 3
        /\ Cardinality(Times(c, s)) \in Nat /\ Due(c, s) \in 0..3
    BY <2>2, TimesType, DueType DEF RepeatInv
  <2> QED BY <2>3, <2>4
<1> QED BY <1>1, <1>2, <1>3, TypeCorrect, PTL DEF Spec

=============================================================================
