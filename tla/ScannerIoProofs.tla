-------------------------- MODULE ScannerIoProofs --------------------------
(***************************************************************************)
(* Theorems about ScannerIo, for every finite set of streams and every     *)
(* number of frames and faults.                                            *)
(***************************************************************************)
EXTENDS ScannerIo, FiniteSetTheorems, SequenceTheorems, TLAPS

\* All calls that have started their read.
PastArm == InRecv \ {"arm"}

\* The work of a context is a number.
LEMMA WorkType ==
  ASSUME TypeOK
  PROVE  Work \in Nat
<1>1. \A S \in SUBSET Streams : Cardinality(S) \in Nat
  BY StreamsAssumption, FS_Subset, FS_CardinalityType
<1>2. /\ Cardinality({c \in Streams : reads[c] # "none"}) \in Nat
      /\ Cardinality({c \in Streams : timer[c]}) \in Nat
      /\ Cardinality({t \in Streams : tpc[t] = "ran"}) \in Nat
  BY <1>1
<1> QED BY <1>2 DEF Work, TypeOK

\* A pending timer is work, and so is the handler that is being run.
LEMMA WorkOfCall ==
  ASSUME TypeOK, NEW t \in Streams, timer[t]
  PROVE  Work > 0 /\ (tpc[t] = "ran" => Work > 1)
<1> DEFINE T == {c \in Streams : timer[c]}
           R == {c \in Streams : tpc[c] = "ran"}
           D == {c \in Streams : reads[c] # "none"}
<1>1. \A S \in SUBSET Streams : IsFiniteSet(S) /\ Cardinality(S) \in Nat
  BY StreamsAssumption, FS_Subset, FS_CardinalityType
<1>2. Cardinality(T) \in Nat /\ Cardinality(R) \in Nat /\ Cardinality(D) \in Nat
  BY <1>1
<1>3. T # {} => Cardinality(T) # 0
  BY <1>1, FS_EmptySet
<1>4. R # {} => Cardinality(R) # 0
  BY <1>1, FS_EmptySet
<1>5. T # {} /\ (tpc[t] = "ran" => R # {})
  OBVIOUS
<1>6. Work = Cardinality(D) + Cardinality(T) + Cardinality(R) + cancelled
  BY DEF Work
<1>7. cancelled \in Nat
  BY DEF TypeOK
<1> HIDE DEF T, R, D
<1> QED BY <1>2, <1>3, <1>4, <1>5, <1>6, <1>7

-----------------------------------------------------------------------------
\* Every variable stays in its range, whatever the threads and the device do.
THEOREM TypeCorrect == Spec => []TypeOK
<1>1. Init => TypeOK
  <2> SUFFICES ASSUME Init PROVE TypeOK
    OBVIOUS
  <2>1. 0 \in 0..MaxFrames /\ 0 \in 0..MaxFaults
    BY BoundsAssumption
  <2>2. <<>> \in Seq(0..MaxFrames)
    OBVIOUS
  <2> QED BY <2>1, <2>2 DEF Init, TypeOK
<1>2. TypeOK /\ [Next]_vars => TypeOK'
  <2> SUFFICES ASSUME TypeOK, [Next]_vars PROVE TypeOK'
    OBVIOUS
  <2>0. CASE UNCHANGED vars
    BY <2>0 DEF TypeOK, vars, thread, device
  <2>1. CASE \E t \in Streams : Recv(t)
    BY <2>1 DEF Recv, Goto, TypeOK, InRecv, InRunOne, thread, device
  <2>2. CASE \E t \in Streams : Arm(t)
    BY <2>2 DEF Arm, Goto, TypeOK, InRecv, InRunOne, device
  <2>3. CASE \E t \in Streams : EnterRunOne(t)
    BY <2>3 DEF EnterRunOne, Goto, TypeOK, InRecv, InRunOne, thread, device
  <2>4. CASE \E t \in Streams : RunStopped(t)
    BY <2>4 DEF RunStopped, Goto, TypeOK, InRecv, InRunOne, thread, device
  <2>5. CASE \E t, c \in Streams : RunSize(t, c)
    BY <2>5 DEF RunSize, Ran, Goto, TypeOK, InRecv, InRunOne, thread, device
  <2>6. CASE \E t, c \in Streams : RunBody(t, c)
    <3> PICK t \in Streams, c \in Streams : RunBody(t, c)
      BY <2>6
    <3>0. wire[c] \in Seq(0..MaxFrames) /\ wire[c] # <<>>
      BY DEF RunBody, TypeOK
    <3>1. Head(wire[c]) \in 0..MaxFrames /\ Tail(wire[c]) \in Seq(0..MaxFrames)
      BY <3>0, HeadTailProperties
    <3>2. wire' \in [Streams -> Seq(0..MaxFrames)] /\ resp' \in [Streams -> 0..MaxFrames]
      BY <3>1 DEF RunBody, TypeOK
    <3> QED BY <3>2 DEF RunBody, Ran, Goto, TypeOK, InRecv, InRunOne
  <2>7. CASE \E t, c \in Streams : RunError(t, c)
    <3> PICK t \in Streams, c \in Streams : RunError(t, c)
      BY <2>7
    <3>0. wire[c] \in Seq(0..MaxFrames) /\ wire[c] # <<>>
      BY DEF RunError, TypeOK
    <3>1. Tail(wire[c]) \in Seq(0..MaxFrames)
      BY <3>0, HeadTailProperties
    <3>2. Error \in 0..MaxFrames
      BY BoundsAssumption DEF Error
    <3>3. wire' \in [Streams -> Seq(0..MaxFrames)] /\ resp' \in [Streams -> 0..MaxFrames]
      BY <3>1, <3>2 DEF RunError, TypeOK
    <3> QED BY <3>3 DEF RunError, Ran, Goto, TypeOK, InRecv, InRunOne
  <2>8. CASE \E t, c \in Streams : RunFailed(t, c)
    BY <2>8 DEF RunFailed, Ran, Goto, TypeOK, InRecv, InRunOne, thread, device
  <2>9. CASE \E t, c \in Streams : RunTimer(t, c)
    BY <2>9, BoundsAssumption DEF RunTimer, Fault, Ran, Goto, TypeOK, InRecv, InRunOne
  <2>10. CASE \E t \in Streams : RunCancelled(t)
    BY <2>10 DEF RunCancelled, Ran, Goto, TypeOK, InRecv, InRunOne, thread, device
  <2>11. CASE \E t \in Streams : WorkFinished(t)
    BY <2>11 DEF WorkFinished, Goto, TypeOK, InRecv, InRunOne, thread, device
  <2>12. CASE \E t \in Streams : Stop(t)
    BY <2>12 DEF Stop, Goto, TypeOK, InRecv, InRunOne, thread, device
  <2>13. CASE \E t \in Streams : TestReceived(t)
    BY <2>13 DEF TestReceived, Goto, TypeOK, InRecv, InRunOne, thread, device
  <2>14. CASE \E t \in Streams : TestExpired(t)
    BY <2>14 DEF TestExpired, Goto, TypeOK, InRecv, InRunOne, thread, device
  <2>15. CASE \E t \in Streams : Return(t)
    BY <2>15 DEF Return, CancelTimer, Goto, TypeOK, InRecv, InRunOne, device
  <2>16. CASE \E t \in Streams : Throw(t)
    BY <2>16 DEF Throw, CancelTimer, Goto, TypeOK, InRecv, InRunOne, thread, device
  <2>17. CASE \E t \in Streams : Drop(t)
    BY <2>17 DEF Drop, Goto, TypeOK, InRecv, InRunOne, thread
  <2>18. CASE \E c \in Streams : SendFrame(c)
    <3> PICK c \in Streams : SendFrame(c)
      BY <2>18
    <3>1. sent'[c] \in 0..MaxFrames /\ sent' \in [Streams -> 0..MaxFrames]
      BY BoundsAssumption DEF SendFrame, TypeOK
    <3>2. wire' \in [Streams -> Seq(0..MaxFrames)]
      BY <3>1 DEF SendFrame, TypeOK
    <3> QED BY <3>1, <3>2 DEF SendFrame, TypeOK, thread
  <2>19. CASE \E c \in Streams : SendError(c)
    <3>1. Error \in 0..MaxFrames
      BY BoundsAssumption DEF Error
    <3> QED BY <2>19, <3>1, BoundsAssumption DEF SendError, Fault, TypeOK, thread
  <2>20. CASE \E c \in Streams : LoseConnection(c)
    BY <2>20, BoundsAssumption DEF LoseConnection, Fault, TypeOK, thread
  <2> QED
    BY <2>0, <2>1, <2>2, <2>3, <2>4, <2>5, <2>6, <2>7, <2>8, <2>9, <2>10, <2>11, <2>12,
       <2>13, <2>14, <2>15, <2>16, <2>17, <2>18, <2>19, <2>20
       DEF Next, Inside, Handler, Environment
<1> QED BY <1>1, <1>2, PTL DEF Spec

-----------------------------------------------------------------------------
(* A call in progress has its answer, is past its deadline, or has its timer. *)

DeadlineInv == \A t \in Streams : tpc[t] \in PastArm => timer[t] \/ received[t] \/ expired[t]

\* A thread that calls run_one without an answer and within its deadline has
\* work to wait for, whatever fails and however many streams there are.
THEOREM AlwaysWork == Spec => []WorkToWaitFor
<1>1. Init => DeadlineInv
  BY DEF Init, DeadlineInv, PastArm, InRecv, InRunOne
<1>2. TypeOK /\ DeadlineInv /\ [Next]_vars => DeadlineInv'
  <2> SUFFICES ASSUME TypeOK, DeadlineInv, [Next]_vars PROVE DeadlineInv'
    OBVIOUS
  <2> USE DEF PastArm, InRecv, InRunOne
  <2>1. CASE UNCHANGED vars
    BY <2>1 DEF DeadlineInv, vars, thread
  <2>2. CASE \E t \in Streams : Recv(t)
    BY <2>2 DEF Recv, Goto, TypeOK, DeadlineInv, thread
  <2>3. CASE \E t \in Streams : Arm(t)
    BY <2>3 DEF Arm, Goto, TypeOK, DeadlineInv
  <2>4. CASE \E t \in Streams : EnterRunOne(t)
    BY <2>4 DEF EnterRunOne, Goto, TypeOK, DeadlineInv, thread
  <2>5. CASE \E t \in Streams : RunStopped(t)
    BY <2>5 DEF RunStopped, Goto, TypeOK, DeadlineInv, thread
  <2>6. CASE \E t, c \in Streams : RunSize(t, c)
    BY <2>6 DEF RunSize, Goto, TypeOK, DeadlineInv, Ran, thread
  <2>7. CASE \E t, c \in Streams : RunBody(t, c)
    BY <2>7 DEF RunBody, Goto, TypeOK, DeadlineInv, Ran
  <2>8. CASE \E t, c \in Streams : RunError(t, c)
    BY <2>8 DEF RunError, Goto, TypeOK, DeadlineInv, Ran, thread
  <2>9. CASE \E t, c \in Streams : RunFailed(t, c)
    BY <2>9 DEF RunFailed, Goto, TypeOK, DeadlineInv, Ran, thread
  <2>10. CASE \E t, c \in Streams : RunTimer(t, c)
    BY <2>10 DEF RunTimer, Goto, TypeOK, DeadlineInv, Ran
  <2>11. CASE \E t \in Streams : RunCancelled(t)
    BY <2>11 DEF RunCancelled, Goto, TypeOK, DeadlineInv, Ran, thread
  <2>12. CASE \E t \in Streams : WorkFinished(t)
    BY <2>12 DEF WorkFinished, Goto, TypeOK, DeadlineInv, thread
  <2>13. CASE \E t \in Streams : Stop(t)
    BY <2>13 DEF Stop, Goto, TypeOK, DeadlineInv, thread
  <2>14. CASE \E t \in Streams : TestReceived(t)
    BY <2>14 DEF TestReceived, Goto, TypeOK, DeadlineInv, thread
  <2>15. CASE \E t \in Streams : TestExpired(t)
    BY <2>15 DEF TestExpired, Goto, TypeOK, DeadlineInv, thread
  <2>16. CASE \E t \in Streams : Return(t)
    BY <2>16 DEF Return, Goto, TypeOK, DeadlineInv, CancelTimer
  <2>17. CASE \E t \in Streams : Throw(t)
    BY <2>17 DEF Throw, Goto, TypeOK, DeadlineInv, CancelTimer, thread
  <2>18. CASE \E t \in Streams : Drop(t)
    BY <2>18 DEF Drop, Goto, TypeOK, DeadlineInv, thread
  <2>19. CASE \E c \in Streams : Environment(c)
    BY <2>19 DEF Environment, SendFrame, SendError, LoseConnection, DeadlineInv, thread
  <2> QED
    BY <2>1, <2>2, <2>3, <2>4, <2>5, <2>6, <2>7, <2>8, <2>9, <2>10, <2>11,
       <2>12, <2>13, <2>14, <2>15, <2>16, <2>17, <2>18, <2>19 DEF Next, Inside, Handler
<1>3. TypeOK /\ DeadlineInv => WorkToWaitFor
  BY WorkOfCall DEF DeadlineInv, WorkToWaitFor, PastArm, InRecv, InRunOne
<1> QED BY <1>1, <1>2, <1>3, TypeCorrect, PTL DEF Spec

-----------------------------------------------------------------------------
(* Without deadlines that pass, the context never runs out of work. *)

NoDeadline == "late" \notin Faults

\* A call in progress keeps its timer, so the context is never stopped; it has
\* its answer or its read is outstanding, and it leaves the loop with an answer.
CallInv ==
  /\ ~stopped
  /\ \A t \in Streams :
       /\ tpc[t] # "stop" /\ next[t] # "leave"
       /\ tpc[t] \in PastArm => timer[t]
       /\ tpc[t] \in PastArm /\ received[t] => reads[t] = "none"
       /\ tpc[t] = "leave" => received[t]
       /\ tpc[t] = "idle" => reads[t] = "none"

\* A stream starts without a call.
LEMMA CallInvInit == Init => CallInv
BY DEF Init, CallInv, PastArm, InRecv, InRunOne

\* No step stops the context or leaves a read to a call that has its answer.
LEMMA CallInvStep ==
  ASSUME NoDeadline, TypeOK, CallInv, [Next]_vars
  PROVE  CallInv'
<1> USE DEF PastArm, InRecv, InRunOne
<1>0. CASE UNCHANGED vars
  BY <1>0 DEF CallInv, vars, thread, device
<1>1. CASE \E t \in Streams : Recv(t)
  BY <1>1 DEF Recv, Goto, TypeOK, CallInv, thread, device
<1>2. CASE \E t \in Streams : Arm(t)
  BY <1>2 DEF Arm, Goto, TypeOK, CallInv, device
<1>3. CASE \E t \in Streams : EnterRunOne(t)
  <2> PICK t \in Streams : EnterRunOne(t)
    BY <1>3
  <2>1. Work > 0
    BY WorkOfCall DEF EnterRunOne, CallInv
  <2>2. tpc' = [tpc EXCEPT ![t] = "in"] /\ next' = [next EXCEPT ![t] = @]
    BY <2>1 DEF EnterRunOne, Goto
  <2> QED BY <2>2 DEF EnterRunOne, TypeOK, CallInv, thread, device
<1>4. CASE \E t \in Streams : RunStopped(t)
  BY <1>4 DEF RunStopped, CallInv
<1>5. CASE \E t, c \in Streams : RunSize(t, c)
  BY <1>5 DEF RunSize, Ran, Goto, TypeOK, CallInv, thread, device
<1>6. CASE \E t, c \in Streams : RunBody(t, c)
  BY <1>6 DEF RunBody, Ran, Goto, TypeOK, CallInv
<1>7. CASE \E t, c \in Streams : RunError(t, c)
  BY <1>7 DEF RunError, Ran, Goto, TypeOK, CallInv, thread
<1>8. CASE \E t, c \in Streams : RunFailed(t, c)
  BY <1>8 DEF RunFailed, Ran, Goto, TypeOK, CallInv, thread, device
<1>9. CASE \E t, c \in Streams : RunTimer(t, c)
  BY <1>9 DEF RunTimer, Fault, NoDeadline
<1>10. CASE \E t \in Streams : RunCancelled(t)
  BY <1>10 DEF RunCancelled, Ran, Goto, TypeOK, CallInv, thread, device
<1>11. CASE \E t \in Streams : WorkFinished(t)
  <2> PICK t \in Streams : WorkFinished(t)
    BY <1>11
  <2>1. Work > 1
    BY WorkOfCall DEF WorkFinished, CallInv
  <2>2. Work \in Nat /\ Work # 1
    BY <2>1, WorkType
  <2>3. tpc' = [tpc EXCEPT ![t] = next[t]] /\ next[t] \in {"test", "throw"}
    BY <2>2 DEF WorkFinished, Goto, TypeOK, CallInv
  <2> QED BY <2>3 DEF WorkFinished, TypeOK, CallInv, thread, device
<1>12. CASE \E t \in Streams : Stop(t)
  BY <1>12 DEF Stop, CallInv
<1>13. CASE \E t \in Streams : TestReceived(t)
  BY <1>13 DEF TestReceived, Goto, TypeOK, CallInv, thread, device
<1>14. CASE \E t \in Streams : TestExpired(t)
  BY <1>14 DEF TestExpired, Goto, TypeOK, CallInv, thread, device
<1>15. CASE \E t \in Streams : Return(t)
  BY <1>15 DEF Return, CancelTimer, Goto, TypeOK, CallInv, device
<1>16. CASE \E t \in Streams : Throw(t)
  BY <1>16 DEF Throw, CancelTimer, Goto, TypeOK, CallInv, thread, device
<1>17. CASE \E t \in Streams : Drop(t)
  BY <1>17 DEF Drop, Goto, TypeOK, CallInv, thread
<1>18. CASE \E c \in Streams : Environment(c)
  BY <1>18 DEF Environment, SendFrame, SendError, LoseConnection, CallInv, thread
<1> QED
  BY <1>0, <1>1, <1>2, <1>3, <1>4, <1>5, <1>6, <1>7, <1>8, <1>9, <1>10, <1>11, <1>12,
     <1>13, <1>14, <1>15, <1>16, <1>17, <1>18 DEF Next, Inside, Handler

\* So it holds always.
LEMMA CallInvAlways ==
  ASSUME NoDeadline
  PROVE  Spec => [](TypeOK /\ CallInv)
<1>1. TypeOK /\ CallInv /\ [Next]_vars => CallInv'
  BY CallInvStep
<1> QED BY <1>1, CallInvInit, TypeCorrect, PTL DEF Spec

\* As long as no deadline passes, every recv that returns normally has its answer.
THEOREM Answered ==
  ASSUME NoDeadline
  PROVE  Spec => []AnswerOnReturn
<1>1. CallInv => AnswerOnReturn
  BY DEF CallInv, AnswerOnReturn, PastArm, InRecv, InRunOne
<1> QED BY <1>1, CallInvAlways, PTL

\* As long as no deadline passes, no handler writes to a response its caller is
\* working on.
THEOREM StableResponse ==
  ASSUME NoDeadline
  PROVE  Spec => ResponseStable
<1>1. ASSUME TypeOK, CallInv, [Next]_vars
      PROVE  \A t \in Streams : tpc[t] = "idle" => resp'[t] = resp[t]
  <2>1. CASE \E t, c \in Streams : RunBody(t, c) \/ RunError(t, c)
    BY <1>1, <2>1 DEF RunBody, RunError, TypeOK, CallInv
  <2>2. CASE ~ \E t, c \in Streams : RunBody(t, c) \/ RunError(t, c)
    <3>1. resp' = resp
      BY <1>1, <2>2 DEF Next, Inside, Handler, Environment, vars, thread, device, Recv, Arm,
         EnterRunOne, RunStopped, RunSize, RunFailed, RunTimer, RunCancelled,
         WorkFinished, Stop, TestReceived, TestExpired, Return, Throw, Drop,
         SendFrame, SendError, LoseConnection
    <3> QED BY <3>1
  <2> QED BY <2>1, <2>2
<1>2. TypeOK /\ CallInv /\ [Next]_vars =>
        [\A t \in Streams : tpc[t] = "idle" => resp'[t] = resp[t]]_vars
  BY <1>1
<1> QED BY <1>2, CallInvAlways, PTL DEF Spec, ResponseStable

-----------------------------------------------------------------------------
(* While no deadline passes, the streams are independent queues, whatever fails. *)

\* A caller does not try again where something may fail.
NoRetry == Retry => Faults = {}

\* A stream whose read has ended without an answer; it is never read again.
Dead(c) == reads[c] = "none" /\ ~received[c] /\ tpc[c] \notin {"idle", "arm"}

\* The answer of the call of c is there.
HasAnswer(c) == received[c] /\ tpc[c] \notin {"idle", "arm"}

\* The first i responses on wire w are frames.
FramesTo(w, i) == \A j \in 1..i : w[j] # Error

\* A read is of a call in progress or failed, without its answer.
ReadInv ==
  \A c \in Streams :
    /\ received[c] => reads[c] = "none"
    /\ tpc[c] = "arm" => reads[c] = "none"

\* Of a stream that is not dead, the response is the frame last returned, or the
\* one after it when the answer is there.
AnswerInv ==
  \A c \in Streams :
    ~Dead(c) => resp[c] = IF HasAnswer(c) THEN returned[c] + 1 ELSE returned[c]

\* The frames after the response are those of its wire up to the first error,
\* without a gap, up to the last sent if there is no error and it is connected.
WireInv ==
  \A c \in Streams :
    ~Dead(c) => /\ \A i \in 1..Len(wire[c]) : FramesTo(wire[c], i) => wire[c][i] = resp[c] + i
                /\ up[c] /\ FramesTo(wire[c], Len(wire[c])) => sent[c] = resp[c] + Len(wire[c])

\* What arrives was sent.
SentInv ==
  \A c \in Streams :
    resp[c] <= sent[c] /\ \A i \in 1..Len(wire[c]) : wire[c][i] <= sent[c]

\* Where nothing fails, nothing has failed.
CalmInv ==
  Faults = {} =>
    \A c \in Streams :
      /\ up[c] /\ ~expired[c] /\ next[c] # "throw"
      /\ tpc[c] \notin {"throw", "failed", "gone"}
      /\ FramesTo(wire[c], Len(wire[c]))

FlowInv == ReadInv /\ AnswerInv /\ WireInv /\ SentInv /\ CalmInv

\* Nothing is on the way at first.
LEMMA FlowInvInit == Init => FlowInv
BY DEF Init, FlowInv, ReadInv, AnswerInv, WireInv, SentInv, CalmInv, FramesTo, HasAnswer, Dead

\* Types of what the flow is counted in.
LEMMA FlowTypes ==
  ASSUME TypeOK, NEW c \in Streams
  PROVE  /\ wire[c] \in Seq(0..MaxFrames) /\ Len(wire[c]) \in Nat
         /\ resp[c] \in Nat /\ returned[c] \in Nat /\ sent[c] \in Nat
         /\ \A i \in 1..Len(wire[c]) : wire[c][i] \in Nat
<1>1. /\ wire[c] \in Seq(0..MaxFrames)
      /\ resp[c] \in Nat /\ returned[c] \in Nat /\ sent[c] \in Nat
  BY DEF TypeOK
<1>2. Len(wire[c]) \in Nat /\ \A i \in 1..Len(wire[c]) : wire[c][i] \in 0..MaxFrames
  BY <1>1, LenProperties
<1> QED BY <1>1, <1>2

\* The steps that touch neither the wire nor what has been read from it.
Local(t) ==
  \/ Recv(t) \/ Arm(t) \/ EnterRunOne(t) \/ RunStopped(t) \/ RunCancelled(t)
  \/ WorkFinished(t) \/ Stop(t) \/ TestReceived(t) \/ TestExpired(t) \/ Throw(t)
  \/ \E c \in Streams : RunSize(t, c) \/ RunFailed(t, c)

\* Every other step is of the device, of a frame or of a caller.
LEMMA FlowSteps ==
  ASSUME NoDeadline, [Next]_vars
  PROVE  \/ UNCHANGED vars
         \/ \E t \in Streams :
              \/ Local(t) \/ Return(t) \/ Drop(t)
              \/ SendFrame(t) \/ SendError(t) \/ LoseConnection(t)
              \/ \E c \in Streams : RunBody(t, c) \/ RunError(t, c)
<1>1. \A t, c \in Streams : ~RunTimer(t, c)
  BY DEF RunTimer, Fault, NoDeadline
<1> QED BY <1>1 DEF Next, Inside, Handler, Environment, Local

\* A step of a thread alone leaves the wires, the responses and the callers alone.
LEMMA LocalKeeps ==
  ASSUME NEW t \in Streams, Local(t)
  PROVE  UNCHANGED <<wire, sent, up, resp, returned>>
BY DEF Local, Recv, Arm, EnterRunOne, RunStopped, RunCancelled, WorkFinished, Stop,
   TestReceived, TestExpired, Throw, RunSize, RunFailed, thread, device

\* A call reads only before its answer is there.
LEMMA ReadStep ==
  ASSUME NoDeadline, NoRetry, TypeOK, CallInv, ReadInv, CalmInv, [Next]_vars
  PROVE  ReadInv'
<1>0. CASE UNCHANGED vars
  BY <1>0 DEF ReadInv, vars, thread, device
<1>1. CASE \E t \in Streams : Recv(t)
  <2> PICK t \in Streams : Recv(t)
    BY <1>1
  <2>1. reads[t] = "none"
    BY DEF Recv, NoRetry, CalmInv, CallInv
  <2> QED BY <2>1 DEF Recv, Goto, TypeOK, ReadInv, thread
<1>7. ASSUME NEW t \in Streams, Arm(t)
      PROVE  ReadInv'
  <2>1. /\ ~received'[t] /\ tpc'[t] = "call"
        /\ \A c \in Streams \ {t} : UNCHANGED <<received[c], tpc[c], reads[c]>>
    BY <1>7 DEF Arm, Goto, TypeOK
  <2> QED BY <2>1 DEF ReadInv
<1>9. CASE \E t \in Streams : EnterRunOne(t) \/ RunStopped(t)
  BY <1>9 DEF EnterRunOne, RunStopped, Goto, TypeOK, ReadInv, thread
<1>2. CASE \E t, c \in Streams : RunSize(t, c) \/ RunFailed(t, c)
  BY <1>2 DEF RunSize, RunFailed, Ran, Goto, TypeOK, CallInv, ReadInv, thread, device
<1>3. CASE \E t, c \in Streams : RunBody(t, c)
  BY <1>3 DEF RunBody, Ran, Goto, TypeOK, ReadInv
<1>8. CASE \E t, c \in Streams : RunError(t, c)
  BY <1>8 DEF RunError, Ran, Goto, TypeOK, ReadInv
<1>4. CASE \E t \in Streams : RunCancelled(t) \/ WorkFinished(t) \/ Stop(t)
  BY <1>4 DEF RunCancelled, WorkFinished, Stop, Ran, Goto, TypeOK, CallInv, ReadInv, thread, device
<1>5. CASE \E t \in Streams : TestReceived(t) \/ TestExpired(t) \/ Throw(t) \/ Return(t) \/ Drop(t)
  BY <1>5 DEF TestReceived, TestExpired, Throw, Return, Drop, Goto, TypeOK, CallInv, ReadInv,
     thread, device
<1>6. CASE \E c \in Streams : SendFrame(c) \/ SendError(c) \/ LoseConnection(c)
  BY <1>6 DEF SendFrame, SendError, LoseConnection, ReadInv, thread
<1> QED BY <1>0, <1>1, <1>2, <1>3, <1>4, <1>5, <1>6, <1>7, <1>8, <1>9,
            FlowSteps DEF Local

\* Where nothing fails, no error is read and no step fails.
LEMMA CalmSteps ==
  ASSUME TypeOK, CalmInv, Faults = {}, NEW s \in Streams, NEW t \in Streams
  PROVE  /\ ~SendError(s) /\ ~LoseConnection(s) /\ ~Drop(s) /\ ~Throw(s)
         /\ ~RunFailed(t, s) /\ ~RunError(t, s)
<1>1. ~SendError(s) /\ ~LoseConnection(s) /\ ~Drop(s) /\ ~Throw(s) /\ ~RunFailed(t, s)
  BY DEF SendError, LoseConnection, Drop, Throw, RunFailed, Fault, CalmInv
<1>2. ASSUME wire[s] # <<>> PROVE Head(wire[s]) # Error
  <2>1. Head(wire[s]) = wire[s][1] /\ 1 \in 1..Len(wire[s])
    BY <1>2, FlowTypes
  <2> QED BY <2>1 DEF CalmInv, FramesTo
<1> QED BY <1>1, <1>2 DEF RunError

\* Where nothing fails, every thread stays clear of failure.
LEMMA CalmThreads ==
  ASSUME NoDeadline, TypeOK, CalmInv, [Next]_vars, Faults = {}, NEW c \in Streams
  PROVE  /\ up'[c] /\ ~expired'[c] /\ next'[c] # "throw"
         /\ tpc'[c] \notin {"throw", "failed", "gone"}
<1>1. /\ up[c] /\ ~expired[c] /\ next[c] # "throw"
      /\ tpc[c] \notin {"throw", "failed", "gone"}
  BY DEF CalmInv
<1>2. CASE UNCHANGED vars
  BY <1>1, <1>2 DEF vars, thread, device
<1>3. CASE \E t \in Streams : Recv(t) \/ Arm(t) \/ EnterRunOne(t) \/ RunStopped(t)
  BY <1>1, <1>3 DEF Recv, Arm, EnterRunOne, RunStopped, Goto, TypeOK, thread, device
<1>4. CASE \E t \in Streams : RunCancelled(t) \/ \E d \in Streams : RunSize(t, d) \/ RunBody(t, d)
  BY <1>1, <1>4 DEF RunCancelled, RunSize, RunBody, Ran, Goto, TypeOK, thread, device
<1>5. CASE \E t \in Streams : WorkFinished(t) \/ Stop(t)
  BY <1>1, <1>5 DEF WorkFinished, Stop, CalmInv, Goto, TypeOK, thread, device
<1>6. CASE \E t \in Streams : TestReceived(t) \/ TestExpired(t) \/ Return(t)
  BY <1>1, <1>6 DEF TestReceived, TestExpired, Return, CalmInv, Goto, TypeOK, thread, device
<1>7. CASE \E d \in Streams : SendFrame(d)
  BY <1>1, <1>7 DEF SendFrame, thread
<1> QED BY <1>2, <1>3, <1>4, <1>5, <1>6, <1>7, CalmSteps, FlowSteps DEF Local

\* Reading takes the first response off the wire.
LEMMA WireRead ==
  ASSUME TypeOK, NEW t \in Streams, NEW c \in Streams, RunBody(t, c) \/ RunError(t, c)
  PROVE  /\ UNCHANGED <<returned, sent, up>>
         /\ resp'[c] = wire[c][1] /\ 1 \in 1..Len(wire[c])
         /\ Len(wire'[c]) = Len(wire[c]) - 1
         /\ \A i \in 1..Len(wire'[c]) : i + 1 \in 1..Len(wire[c]) /\ wire'[c][i] = wire[c][i + 1]
         /\ \A d \in Streams \ {c} : wire'[d] = wire[d] /\ resp'[d] = resp[d]
<1>1. /\ wire[c] # <<>> /\ UNCHANGED <<returned, sent, up>>
      /\ wire' = [wire EXCEPT ![c] = Tail(@)] /\ resp' = [resp EXCEPT ![c] = Head(wire[c])]
  BY DEF RunBody, RunError, TypeOK
<1>2. /\ wire'[c] = Tail(wire[c]) /\ resp'[c] = Head(wire[c])
      /\ \A d \in Streams \ {c} : wire'[d] = wire[d] /\ resp'[d] = resp[d]
  BY <1>1 DEF TypeOK
<1>3. /\ Len(Tail(wire[c])) = Len(wire[c]) - 1
      /\ \A i \in 1..Len(Tail(wire[c])) : Tail(wire[c])[i] = wire[c][i + 1]
  BY <1>1, FlowTypes, HeadTailProperties
<1>4. Head(wire[c]) = wire[c][1] /\ Len(wire[c]) \in Nat /\ Len(wire[c]) # 0
  BY <1>1, FlowTypes
<1>5. /\ Len(wire'[c]) = Len(wire[c]) - 1
      /\ \A i \in 1..Len(wire'[c]) : wire'[c][i] = wire[c][i + 1]
  BY <1>2, <1>3
<1>6. 1 \in 1..Len(wire[c]) /\ \A i \in 1..Len(wire'[c]) : i + 1 \in 1..Len(wire[c])
  BY <1>4, <1>5
<1>7. resp'[c] = wire[c][1]
  BY <1>2, <1>4
<1> QED BY <1>1, <1>2, <1>5, <1>6, <1>7

\* Sending, a frame or an error, puts it at the end of the wire.
LEMMA WireSend ==
  ASSUME TypeOK, NEW c \in Streams, SendFrame(c) \/ SendError(c)
  PROVE  /\ UNCHANGED <<returned, resp, up>> /\ up[c]
         /\ Len(wire'[c]) = Len(wire[c]) + 1
         /\ \A i \in 1..Len(wire[c]) : wire'[c][i] = wire[c][i]
         /\ \/ SendFrame(c) /\ sent'[c] = sent[c] + 1 /\ wire'[c][Len(wire[c]) + 1] = sent'[c]
            \/ SendError(c) /\ sent'[c] = sent[c] /\ wire'[c][Len(wire[c]) + 1] = Error
         /\ \A d \in Streams \ {c} : wire'[d] = wire[d] /\ sent'[d] = sent[d]
<1>1. CASE SendFrame(c)
  <2>1. /\ up[c] /\ UNCHANGED <<returned, resp, up>>
        /\ sent'[c] = sent[c] + 1 /\ wire'[c] = Append(wire[c], sent'[c])
        /\ \A d \in Streams \ {c} : wire'[d] = wire[d] /\ sent'[d] = sent[d]
    BY <1>1 DEF SendFrame, TypeOK, thread
  <2>2. sent'[c] \in 0..MaxFrames
    BY <1>1, <2>1, BoundsAssumption DEF SendFrame, TypeOK
  <2> QED BY <1>1, <2>1, <2>2, FlowTypes, AppendProperties
<1>2. CASE SendError(c)
  <2>1. /\ up[c] /\ UNCHANGED <<returned, resp, up, sent>>
        /\ wire'[c] = Append(wire[c], Error)
        /\ \A d \in Streams \ {c} : wire'[d] = wire[d]
    BY <1>2 DEF SendError, TypeOK, thread
  <2>2. Error \in 0..MaxFrames
    BY BoundsAssumption DEF Error
  <2> QED BY <1>2, <2>1, <2>2, FlowTypes, AppendProperties
<1> QED BY <1>1, <1>2

\* What is dropped, lost or left alone.
LEMMA WireKept ==
  ASSUME NoDeadline, TypeOK, [Next]_vars,
         ~ \E t, c \in Streams : RunBody(t, c) \/ RunError(t, c),
         ~ \E c \in Streams : SendFrame(c) \/ SendError(c)
  PROVE  /\ UNCHANGED <<resp, sent>>
         /\ \A c \in Streams : /\ wire'[c] = wire[c] \/ (wire'[c] = <<>> /\ ~up'[c])
                               /\ up'[c] => up[c]
<1>1. CASE UNCHANGED vars
  BY <1>1 DEF vars, thread, device
<1>2. CASE \E t \in Streams : Local(t)
  BY <1>2, LocalKeeps
<1>3. CASE \E t \in Streams : Return(t) \/ Drop(t) \/ LoseConnection(t)
  BY <1>3 DEF Return, Drop, LoseConnection, TypeOK, thread, device
<1> QED BY <1>1, <1>2, <1>3, FlowSteps

\* What arrives was sent, after every step.
LEMMA SentStep ==
  ASSUME NoDeadline, TypeOK, SentInv, [Next]_vars
  PROVE  SentInv'
<1>1. ASSUME NEW t \in Streams, NEW c \in Streams, RunBody(t, c) \/ RunError(t, c)
      PROVE  SentInv'
  BY <1>1, WireRead DEF SentInv
<1>2. ASSUME NEW c \in Streams, SendFrame(c) \/ SendError(c)
      PROVE  SentInv'
  <2>0. /\ Len(wire'[c]) = Len(wire[c]) + 1
        /\ \A i \in 1..Len(wire[c]) : wire'[c][i] = wire[c][i]
        /\ \/ sent'[c] = sent[c] + 1 /\ wire'[c][Len(wire[c]) + 1] = sent'[c]
           \/ sent'[c] = sent[c] /\ wire'[c][Len(wire[c]) + 1] = 0
    BY <1>2, WireSend DEF Error
  <2>3. /\ Len(wire[c]) \in Nat /\ sent[c] \in Nat /\ sent[c] <= sent'[c]
        /\ \A i \in 1..Len(wire[c]) : wire[c][i] \in Nat /\ wire[c][i] <= sent[c]
    BY <2>0, FlowTypes DEF SentInv
  <2>1. \A i \in 1..Len(wire'[c]) : wire'[c][i] <= sent'[c]
    <3> TAKE i \in 1..Len(wire'[c])
    <3>1. CASE i \in 1..Len(wire[c])
      BY <2>0, <2>3, <3>1
    <3>2. CASE i = Len(wire[c]) + 1
      BY <2>0, <2>3, <3>2
    <3> QED BY <2>0, <2>3, <3>1, <3>2
  <2>2. resp'[c] <= sent'[c]
    BY <1>2, WireSend, FlowTypes DEF SentInv
  <2> QED BY <1>2, <2>1, <2>2, WireSend DEF SentInv
<1>3. CASE /\ ~ \E t, c \in Streams : RunBody(t, c) \/ RunError(t, c)
           /\ ~ \E c \in Streams : SendFrame(c) \/ SendError(c)
  <2> SUFFICES ASSUME NEW c \in Streams
               PROVE  resp'[c] <= sent'[c] /\ \A i \in 1..Len(wire'[c]) : wire'[c][i] <= sent'[c]
    BY DEF SentInv
  <2>1. resp' = resp /\ sent' = sent /\ (wire'[c] = wire[c] \/ wire'[c] = <<>>)
    BY <1>3, WireKept
  <2>2. CASE wire'[c] = <<>>
    <3>1. Len(wire'[c]) = 0
      BY <2>2
    <3> QED BY <2>1, <3>1 DEF SentInv
  <2> QED BY <2>1, <2>2 DEF SentInv
<1> QED BY <1>1, <1>2, <1>3

\* Where nothing fails, nothing fails in the next step.
LEMMA CalmStep ==
  ASSUME NoDeadline, TypeOK, CalmInv, [Next]_vars
  PROVE  CalmInv'
<1> SUFFICES ASSUME Faults = {}, NEW c \in Streams
             PROVE  FramesTo(wire'[c], Len(wire'[c]))
  BY CalmThreads DEF CalmInv, FramesTo
<1>1. \A d \in Streams : FramesTo(wire[d], Len(wire[d]))
  BY DEF CalmInv
<1>2. ASSUME NEW t \in Streams, NEW d \in Streams, RunBody(t, d)
      PROVE  FramesTo(wire'[c], Len(wire'[c]))
  <2>1. CASE c = d
    <3>1. \A i \in 1..Len(wire'[d]) : i + 1 \in 1..Len(wire[d]) /\ wire'[d][i] = wire[d][i + 1]
      BY <1>2, WireRead
    <3> QED BY <1>1, <2>1, <3>1 DEF FramesTo
  <2>2. CASE c # d
    <3>1. wire'[c] = wire[c]
      BY <1>2, <2>2, WireRead
    <3> QED BY <1>1, <3>1
  <2> QED BY <2>1, <2>2
<1>3. ASSUME NEW d \in Streams, SendFrame(d)
      PROVE  FramesTo(wire'[c], Len(wire'[c]))
  <2>1. CASE c = d
    <3>1. /\ Len(wire'[d]) = Len(wire[d]) + 1
          /\ \A i \in 1..Len(wire[d]) : wire'[d][i] = wire[d][i]
      BY <1>3, WireSend
    <3>2. wire'[d][Len(wire[d]) + 1] = sent[d] + 1
      BY <1>3, WireSend, CalmSteps
    <3>3. sent[d] \in Nat /\ Len(wire[d]) \in Nat
      BY FlowTypes
    <3>4. wire'[d][Len(wire[d]) + 1] # Error
      BY <3>2, <3>3 DEF Error
    <3> QED BY <1>1, <2>1, <3>1, <3>3, <3>4 DEF FramesTo
  <2>2. CASE c # d
    <3>1. wire'[c] = wire[c]
      BY <1>3, <2>2, WireSend
    <3> QED BY <1>1, <3>1
  <2> QED BY <2>1, <2>2
<1>4. CASE /\ ~ \E t, d \in Streams : RunBody(t, d)
           /\ ~ \E d \in Streams : SendFrame(d)
  <2>1. wire'[c] = wire[c] \/ wire'[c] = <<>>
    BY <1>4, CalmSteps, WireKept
  <2>2. CASE wire'[c] = <<>>
    <3>1. Len(wire'[c]) = 0
      BY <2>2
    <3> QED BY <3>1 DEF FramesTo
  <2> QED BY <1>1, <2>1, <2>2
<1> QED BY <1>2, <1>3, <1>4

\* A dead stream stays so: its caller does not try again.
LEMMA DeadStays ==
  ASSUME NoDeadline, NoRetry, TypeOK, CallInv, ReadInv, CalmInv, [Next]_vars,
         NEW c \in Streams, Dead(c)
  PROVE  Dead(c)'
<1> USE DEF Dead
<1>1. CASE UNCHANGED vars
  BY <1>1 DEF vars, thread, device
<1>2. ASSUME NEW t \in Streams, Recv(t)
      PROVE  Dead(c)'
  <2>1. t # c
    BY <1>2 DEF Recv, NoRetry, CalmInv
  <2> QED BY <1>2, <2>1 DEF Recv, Goto, TypeOK, thread
<1>3. CASE \E t \in Streams : Arm(t) \/ EnterRunOne(t) \/ RunStopped(t) \/ RunCancelled(t)
  BY <1>3 DEF Arm, EnterRunOne, RunStopped, RunCancelled, Ran, Goto, TypeOK, thread
<1>4. ASSUME NEW t \in Streams, NEW d \in Streams,
             RunSize(t, d) \/ RunFailed(t, d) \/ RunBody(t, d) \/ RunError(t, d)
      PROVE  Dead(c)'
  <2>1. c # d
    BY <1>4 DEF RunSize, RunFailed, RunBody, RunError
  <2>2. reads'[c] = reads[c] /\ received'[c] = received[c]
    BY <1>4, <2>1 DEF RunSize, RunFailed, RunBody, RunError, TypeOK, thread
  <2>3. tpc'[c] \notin {"idle", "arm"}
    BY <1>4 DEF RunSize, RunFailed, RunBody, RunError, Ran, Goto, TypeOK
  <2> QED BY <2>2, <2>3
<1>5. CASE \E t \in Streams : WorkFinished(t) \/ Stop(t) \/ TestReceived(t) \/ TestExpired(t)
  BY <1>5 DEF WorkFinished, Stop, TestReceived, TestExpired, Goto, TypeOK, thread
<1>6. CASE \E t \in Streams : Throw(t) \/ Return(t) \/ Drop(t)
  BY <1>6 DEF Throw, Return, Drop, Goto, TypeOK, CallInv, thread
<1>7. CASE \E d \in Streams : SendFrame(d) \/ SendError(d) \/ LoseConnection(d)
  BY <1>7 DEF SendFrame, SendError, LoseConnection, thread
<1> QED BY <1>1, <1>2, <1>3, <1>4, <1>5, <1>6, <1>7, FlowSteps DEF Local

\* Of two parts of an answer, one comes with the frame and goes with the next call.
LEMMA AnswerStep ==
  ASSUME NoDeadline, NoRetry, TypeOK, CallInv, ReadInv, AnswerInv, WireInv, CalmInv, [Next]_vars
  PROVE  AnswerInv'
<1> SUFFICES ASSUME NEW c \in Streams, ~Dead(c)'
             PROVE  resp'[c] = IF HasAnswer(c)' THEN returned'[c] + 1 ELSE returned'[c]
  BY DEF AnswerInv
<1>1. ~Dead(c) /\ resp[c] = IF HasAnswer(c) THEN returned[c] + 1 ELSE returned[c]
  BY DeadStays DEF AnswerInv
<1>2. CASE UNCHANGED vars
  BY <1>1, <1>2 DEF HasAnswer, vars, thread, device
<1>3. ASSUME NEW t \in Streams, Recv(t)
      PROVE  resp'[c] = IF HasAnswer(c)' THEN returned'[c] + 1 ELSE returned'[c]
  <2>1. tpc[t] = "idle"
    BY <1>3 DEF Recv, NoRetry, CalmInv
  <2> QED BY <1>1, <1>3, <2>1 DEF HasAnswer, Recv, Goto, TypeOK, thread
<1>11. ASSUME NEW t \in Streams, Arm(t)
       PROVE  resp'[c] = IF HasAnswer(c)' THEN returned'[c] + 1 ELSE returned'[c]
  BY <1>1, <1>11 DEF HasAnswer, Arm, Goto, TypeOK
<1>12. CASE \E t \in Streams : EnterRunOne(t) \/ RunStopped(t)
  BY <1>1, <1>12 DEF HasAnswer, EnterRunOne, RunStopped, Goto, TypeOK, thread
<1>4. CASE \E t \in Streams : RunCancelled(t) \/ \E d \in Streams : RunSize(t, d) \/ RunFailed(t, d)
  <2>1. UNCHANGED thread /\ (tpc'[c] \in {"idle", "arm"} <=> tpc[c] \in {"idle", "arm"})
    BY <1>4 DEF RunCancelled, RunSize, RunFailed, Ran, Goto, TypeOK
  <2> QED BY <1>1, <2>1 DEF HasAnswer, thread
<1>5. CASE \E t \in Streams : WorkFinished(t) \/ Stop(t)
  <2>1. UNCHANGED thread /\ (tpc'[c] \in {"idle", "arm"} <=> tpc[c] \in {"idle", "arm"})
    BY <1>5 DEF WorkFinished, Stop, Goto, TypeOK
  <2> QED BY <1>1, <2>1 DEF HasAnswer, thread
<1>6. CASE \E t \in Streams : TestReceived(t) \/ TestExpired(t) \/ Throw(t) \/ Drop(t)
  <2>1. UNCHANGED thread /\ (tpc'[c] \in {"idle", "arm"} <=> tpc[c] \in {"idle", "arm"})
    BY <1>6 DEF TestReceived, TestExpired, Throw, Drop, Goto, TypeOK
  <2> QED BY <1>1, <2>1 DEF HasAnswer, thread
<1>7. ASSUME NEW t \in Streams, NEW d \in Streams, RunBody(t, d)
      PROVE  resp'[c] = IF HasAnswer(c)' THEN returned'[c] + 1 ELSE returned'[c]
  <2>1. CASE c = d
    <3>1. ~received[c] /\ tpc[c] \notin {"idle", "arm"}
      BY <1>7, <2>1 DEF RunBody, CallInv, ReadInv
    <3>2. resp[c] = returned[c] /\ received'[c] /\ tpc'[c] \notin {"idle", "arm"}
      BY <1>1, <1>7, <2>1, <3>1 DEF HasAnswer, RunBody, Ran, Goto, TypeOK
    <3>3. resp'[c] = wire[c][1] /\ 1 \in 1..Len(wire[c]) /\ UNCHANGED returned
      BY <1>7, <2>1, WireRead
    <3>4. wire[c][1] # Error
      BY <1>7, <2>1, FlowTypes DEF RunBody
    <3>5. wire[c][1] = resp[c] + 1
      BY <1>1, <3>3, <3>4 DEF WireInv, FramesTo
    <3> QED BY <3>2, <3>3, <3>5 DEF HasAnswer
  <2>2. CASE c # d
    BY <1>1, <1>7, <2>2 DEF HasAnswer, RunBody, Ran, Goto, TypeOK
  <2> QED BY <2>1, <2>2
<1>8. ASSUME NEW t \in Streams, NEW d \in Streams, RunError(t, d)
      PROVE  resp'[c] = IF HasAnswer(c)' THEN returned'[c] + 1 ELSE returned'[c]
  <2>1. c # d
    BY <1>8 DEF Dead, RunError, Ran, Goto, CallInv, ReadInv, TypeOK
  <2> QED BY <1>1, <1>8, <2>1 DEF HasAnswer, RunError, Ran, Goto, TypeOK
<1>9. ASSUME NEW t \in Streams, Return(t)
      PROVE  resp'[c] = IF HasAnswer(c)' THEN returned'[c] + 1 ELSE returned'[c]
  BY <1>1, <1>9 DEF HasAnswer, Return, Goto, TypeOK, device
<1>10. CASE \E d \in Streams : SendFrame(d) \/ SendError(d) \/ LoseConnection(d)
  BY <1>1, <1>10 DEF HasAnswer, SendFrame, SendError, LoseConnection, thread
<1> QED BY <1>2, <1>3, <1>4, <1>5, <1>6, <1>7, <1>8, <1>9, <1>10, <1>11, <1>12,
           FlowSteps DEF Local

\* The frames on a wire follow the response, whatever follows an error.
LEMMA WireStep ==
  ASSUME NoDeadline, NoRetry, TypeOK, CallInv, ReadInv, WireInv, CalmInv, [Next]_vars
  PROVE  WireInv'
<1> DEFINE Follow(w, r) == \A i \in 1..Len(w) : FramesTo(w, i) => w[i] = r + i
           All(w, r, s) == FramesTo(w, Len(w)) => s = r + Len(w)
<1> SUFFICES ASSUME NEW c \in Streams, ~Dead(c)'
             PROVE  Follow(wire'[c], resp'[c]) /\ (up'[c] => All(wire'[c], resp'[c], sent'[c]))
  BY DEF WireInv, FramesTo
<1>1. ~Dead(c)
  BY DeadStays
<1>2. Follow(wire[c], resp[c]) /\ (up[c] => All(wire[c], resp[c], sent[c]))
  BY <1>1 DEF WireInv
<1>3. ASSUME NEW t \in Streams, NEW d \in Streams, RunBody(t, d) \/ RunError(t, d)
      PROVE  Follow(wire'[c], resp'[c]) /\ (up'[c] => All(wire'[c], resp'[c], sent'[c]))
  <2>1. CASE c = d
    <3>1. RunBody(t, c)
      <4>1. ~RunError(t, c)
        BY DEF Dead, RunError, Ran, Goto, CallInv, ReadInv, TypeOK
      <4> QED BY <1>3, <2>1, <4>1
    <3>2. /\ UNCHANGED <<returned, sent, up>>
          /\ resp'[c] = wire[c][1] /\ 1 \in 1..Len(wire[c])
          /\ Len(wire'[c]) = Len(wire[c]) - 1
          /\ \A i \in 1..Len(wire'[c]) : i + 1 \in 1..Len(wire[c]) /\ wire'[c][i] = wire[c][i + 1]
      BY <3>1, WireRead
    <3>3. wire[c][1] # Error
      BY <3>1, FlowTypes DEF RunBody
    <3>4. resp'[c] = resp[c] + 1
      BY <1>2, <3>2, <3>3 DEF FramesTo
    <3>5. ASSUME NEW i \in 0..Len(wire'[c]), FramesTo(wire'[c], i)
          PROVE  FramesTo(wire[c], i + 1)
      <4> SUFFICES ASSUME NEW j \in 1..(i + 1), j # 1 PROVE wire[c][j] # Error
        BY <3>3 DEF FramesTo
      <4>1. j - 1 \in 1..i /\ j - 1 \in 1..Len(wire'[c]) /\ j - 1 + 1 = j
        BY <3>2, FlowTypes
      <4> QED BY <3>2, <3>5, <4>1 DEF FramesTo
    <3>6. Follow(wire'[c], resp'[c])
      <4> SUFFICES ASSUME NEW i \in 1..Len(wire'[c]), FramesTo(wire'[c], i)
                   PROVE  wire'[c][i] = resp'[c] + i
        OBVIOUS
      <4>1. i \in 0..Len(wire'[c]) /\ i + 1 \in 1..Len(wire[c]) /\ i \in Nat
        BY <3>2, FlowTypes
      <4>2. wire[c][i + 1] = resp[c] + (i + 1)
        BY <1>2, <3>5, <4>1
      <4>3. resp[c] \in Nat
        BY FlowTypes
      <4>4. wire'[c][i] = wire[c][i + 1]
        BY <3>2
      <4> QED BY <3>4, <4>1, <4>2, <4>3, <4>4
    <3>7. up'[c] => All(wire'[c], resp'[c], sent'[c])
      <4> SUFFICES ASSUME up'[c], FramesTo(wire'[c], Len(wire'[c]))
                   PROVE  sent'[c] = resp'[c] + Len(wire'[c])
        OBVIOUS
      <4>1. Len(wire'[c]) \in 0..Len(wire'[c]) /\ Len(wire'[c]) + 1 = Len(wire[c])
        BY <3>2, FlowTypes
      <4>2. FramesTo(wire[c], Len(wire[c]))
        BY <3>5, <4>1
      <4>3. sent[c] = resp[c] + Len(wire[c])
        BY <1>2, <3>2, <4>2
      <4> QED BY <3>2, <3>4, <4>1, <4>3, FlowTypes
    <3> QED BY <3>6, <3>7
  <2>2. CASE c # d
    BY <1>2, <1>3, <2>2, WireRead
  <2> QED BY <2>1, <2>2
<1>4. ASSUME NEW d \in Streams, SendFrame(d) \/ SendError(d)
      PROVE  Follow(wire'[c], resp'[c]) /\ (up'[c] => All(wire'[c], resp'[c], sent'[c]))
  <2>1. CASE c = d
    <3>1. /\ UNCHANGED <<returned, resp, up>> /\ up[c]
          /\ Len(wire'[c]) = Len(wire[c]) + 1
          /\ \A i \in 1..Len(wire[c]) : wire'[c][i] = wire[c][i]
          /\ \/ sent'[c] = sent[c] + 1 /\ wire'[c][Len(wire[c]) + 1] = sent'[c]
             \/ wire'[c][Len(wire[c]) + 1] = Error
      BY <1>4, <2>1, WireSend
    <3>2. \A i \in 0..Len(wire[c]) : FramesTo(wire'[c], i) => FramesTo(wire[c], i)
      BY <3>1, FlowTypes DEF FramesTo
    <3>3. ASSUME FramesTo(wire'[c], Len(wire[c]) + 1)
          PROVE  /\ sent'[c] = resp[c] + Len(wire[c]) + 1
                 /\ wire'[c][Len(wire[c]) + 1] = resp[c] + (Len(wire[c]) + 1)
      <4>1. Len(wire[c]) + 1 \in 1..(Len(wire[c]) + 1) /\ Len(wire[c]) \in 0..Len(wire[c])
        BY FlowTypes
      <4>2. wire'[c][Len(wire[c]) + 1] # Error
        BY <3>3, <4>1 DEF FramesTo
      <4>3. FramesTo(wire'[c], Len(wire[c]))
        BY <3>3, FlowTypes DEF FramesTo
      <4>4. sent[c] = resp[c] + Len(wire[c])
        BY <1>2, <3>1, <3>2, <4>1, <4>3
      <4>5. resp[c] \in Nat /\ Len(wire[c]) \in Nat
        BY FlowTypes
      <4>6. wire'[c][Len(wire[c]) + 1] = sent'[c] /\ sent'[c] = sent[c] + 1
        BY <3>1, <4>2
      <4> QED BY <4>4, <4>5, <4>6
    <3>4. Follow(wire'[c], resp'[c])
      <4> SUFFICES ASSUME NEW i \in 1..Len(wire'[c]), FramesTo(wire'[c], i)
                   PROVE  wire'[c][i] = resp'[c] + i
        OBVIOUS
      <4>1. CASE i = Len(wire[c]) + 1
        BY <3>1, <3>3, <4>1
      <4>2. CASE i \in 1..Len(wire[c])
        <5>1. FramesTo(wire[c], i)
          BY <3>2, <4>2, FlowTypes
        <5> QED BY <1>2, <3>1, <4>2, <5>1
      <4>3. i \in 1..(Len(wire[c]) + 1) /\ Len(wire[c]) \in Nat
        BY <3>1, FlowTypes
      <4> QED BY <4>1, <4>2, <4>3
    <3>5. All(wire'[c], resp'[c], sent'[c])
      <4> SUFFICES ASSUME FramesTo(wire'[c], Len(wire'[c]))
                   PROVE  sent'[c] = resp'[c] + Len(wire'[c])
        OBVIOUS
      <4>1. sent'[c] = resp[c] + Len(wire[c]) + 1
        BY <3>1, <3>3
      <4>2. resp[c] \in Nat /\ Len(wire[c]) \in Nat
        BY FlowTypes
      <4> QED BY <3>1, <4>1, <4>2
    <3> QED BY <3>4, <3>5
  <2>2. CASE c # d
    BY <1>2, <1>4, <2>2, WireSend
  <2> QED BY <2>1, <2>2
<1>5. CASE /\ ~ \E t, d \in Streams : RunBody(t, d) \/ RunError(t, d)
           /\ ~ \E d \in Streams : SendFrame(d) \/ SendError(d)
  <2>1. /\ resp' = resp /\ sent' = sent /\ (up'[c] => up[c])
        /\ wire'[c] = wire[c] \/ (wire'[c] = <<>> /\ ~up'[c])
    BY <1>5, WireKept
  <2>2. CASE wire'[c] = <<>> /\ ~up'[c]
    <3>1. Len(wire'[c]) = 0
      BY <2>2
    <3> QED BY <2>2, <3>1
  <2> QED BY <1>2, <2>1, <2>2
<1> QED BY <1>3, <1>4, <1>5

\* So frames flow in order always.
LEMMA FlowInvAlways ==
  ASSUME NoDeadline, NoRetry
  PROVE  Spec => [](TypeOK /\ CallInv /\ FlowInv)
<1>1. TypeOK /\ CallInv /\ FlowInv /\ [Next]_vars => FlowInv'
  BY ReadStep, AnswerStep, WireStep, SentStep, CalmStep DEF FlowInv
<1>2. Spec => [](TypeOK /\ CallInv)
  BY CallInvAlways
<1> QED BY <1>1, <1>2, FlowInvInit, PTL DEF Spec

\* As long as no deadline passes and no caller tries again what failed, every stream,
\* whichever threads run its handlers and whichever devices report errors or are
\* lost, returns each frame of its own device once and in order: ScannerIo
\* implements FrameStream.
THEOREM StreamsRefined ==
  ASSUME NoDeadline, NoRetry
  PROVE  Spec => InOrder
<1>1. Init => Promise!Init
  BY DEF Init, Promise!Init
<1>2. ASSUME TypeOK, CallInv, FlowInv, [Next]_vars
      PROVE  [Promise!Next]_<<sent, returned>>
  <2>1. CASE \E c \in Streams : SendFrame(c)
    BY <2>1 DEF SendFrame, thread, Promise!Next, Promise!Send
  <2>2. CASE \E c \in Streams : Return(c)
    <3> PICK c \in Streams : Return(c)
      BY <2>2
    <3>1. ~Dead(c) /\ HasAnswer(c)
      BY <1>2 DEF Return, CallInv, Dead, HasAnswer
    <3>2. resp[c] = returned[c] + 1 /\ resp[c] <= sent[c]
      BY <1>2, <3>1 DEF FlowInv, AnswerInv, SentInv
    <3>3. returned[c] < sent[c]
      BY <1>2, <3>2, FlowTypes
    <3>4. returned' = [returned EXCEPT ![c] = @ + 1] /\ sent' = sent
      BY <3>2 DEF Return, device
    <3> QED BY <3>3, <3>4 DEF Promise!Next, Promise!Deliver
  <2>3. CASE ~(\E c \in Streams : SendFrame(c)) /\ ~(\E c \in Streams : Return(c))
    <3>1. UNCHANGED <<sent, returned>>
      <4>1. CASE UNCHANGED vars
        BY <4>1 DEF vars, thread, device
      <4>2. CASE \E t \in Streams : Local(t)
        BY <4>2, LocalKeeps
      <4>3. CASE \E t \in Streams : \/ Drop(t) \/ SendError(t) \/ LoseConnection(t)
                                    \/ \E c \in Streams : RunBody(t, c) \/ RunError(t, c)
        BY <4>3 DEF Drop, SendError, LoseConnection, RunBody, RunError, thread
      <4> QED BY <1>2, <2>3, <4>1, <4>2, <4>3, FlowSteps
    <3> QED BY <3>1
  <2> QED BY <2>1, <2>2, <2>3
<1>3. TypeOK /\ CallInv /\ FlowInv /\ [Next]_vars => [Promise!Next]_<<sent, returned>>
  BY <1>2
<1> QED BY <1>1, <1>3, FlowInvAlways, PTL DEF Spec, InOrder, Promise!Spec

-----------------------------------------------------------------------------
(* Deadlines and lost connections: no stream runs backwards. *)

NoErrors == "error" \notin Faults

\* The wire carries the frames after the response without a gap, all that are
\* sent as long as the socket is connected; a caller is never ahead of it.
BackInv ==
  \A c \in Streams :
    /\ returned[c] <= resp[c]
    /\ resp[c] + Len(wire[c]) <= sent[c]
    /\ up[c] => resp[c] + Len(wire[c]) = sent[c]
    /\ \A i \in 1..Len(wire[c]) : wire[c][i] = resp[c] + i

\* The lengths and frames BackInv counts are numbers.
LEMMA BackTypes ==
  ASSUME TypeOK, NEW c \in Streams
  PROVE  /\ wire[c] \in Seq(0..MaxFrames) /\ Len(wire[c]) \in Nat
         /\ resp[c] \in Nat /\ returned[c] \in Nat /\ sent[c] \in Nat
BY LenProperties DEF TypeOK

\* Reading a body makes the response the next frame; it is no error.
LEMMA BackRead ==
  ASSUME TypeOK, BackInv, NEW t \in Streams, NEW c \in Streams, RunBody(t, c) \/ RunError(t, c)
  PROVE  BackInv'
<1>1. /\ wire[c] # <<>> /\ UNCHANGED <<returned, sent, up>>
      /\ wire' = [wire EXCEPT ![c] = Tail(@)]
      /\ resp' = [resp EXCEPT ![c] = Head(wire[c])]
  BY DEF RunBody, RunError, TypeOK
<1>2. Head(wire[c]) = wire[c][1] /\ Len(wire[c]) >= 1
  BY <1>1, BackTypes
<1>3. 1 \in 1..Len(wire[c])
  BY <1>2, BackTypes
<1>4. Head(wire[c]) = resp[c] + 1
  BY <1>2, <1>3 DEF BackInv
<1>5. /\ Len(Tail(wire[c])) = Len(wire[c]) - 1
      /\ \A i \in 1..Len(Tail(wire[c])) : Tail(wire[c])[i] = wire[c][i + 1]
  BY <1>1, BackTypes, HeadTailProperties
<1>6. wire'[c] = Tail(wire[c]) /\ resp'[c] = resp[c] + 1
  BY <1>1, <1>4 DEF TypeOK
<1>7. ASSUME NEW i \in 1..Len(wire'[c])
      PROVE  wire'[c][i] = resp'[c] + i
  <2>1. i \in Nat /\ i + 1 \in 1..Len(wire[c])
    BY <1>5, <1>6, BackTypes
  <2>2. wire[c][i + 1] = resp[c] + (i + 1)
    BY <2>1 DEF BackInv
  <2>3. wire'[c][i] = wire[c][i + 1]
    BY <1>5, <1>6
  <2>4. resp[c] \in Nat
    BY BackTypes
  <2> QED BY <1>6, <2>1, <2>2, <2>3, <2>4
<1>8. /\ returned'[c] <= resp'[c] /\ resp'[c] + Len(wire'[c]) <= sent'[c]
      /\ up'[c] => resp'[c] + Len(wire'[c]) = sent'[c]
  <2>1. /\ returned[c] <= resp[c] /\ resp[c] + Len(wire[c]) <= sent[c]
        /\ up[c] => resp[c] + Len(wire[c]) = sent[c]
    BY DEF BackInv
  <2>2. resp'[c] + Len(wire'[c]) = resp[c] + Len(wire[c])
    BY <1>5, <1>6, BackTypes
  <2>3. returned'[c] = returned[c] /\ sent'[c] = sent[c] /\ up'[c] = up[c]
    BY <1>1
  <2>4. returned[c] <= resp[c] + 1
    BY <2>1, BackTypes
  <2> QED BY <1>6, <2>1, <2>2, <2>3, <2>4
<1>9. \A d \in Streams \ {c} : wire'[d] = wire[d] /\ resp'[d] = resp[d]
  BY <1>1 DEF TypeOK
<1> QED BY <1>1, <1>7, <1>8, <1>9 DEF BackInv

\* Sending puts the next frame at the end of the wire.
LEMMA BackSend ==
  ASSUME TypeOK, BackInv, NEW c \in Streams, SendFrame(c)
  PROVE  BackInv'
<1>1. /\ up[c] /\ UNCHANGED <<returned, resp, up>>
      /\ sent' = [sent EXCEPT ![c] = sent[c] + 1]
      /\ wire' = [wire EXCEPT ![c] = Append(wire[c], sent'[c])]
  BY DEF SendFrame, thread
<1>2. sent'[c] = sent[c] + 1 /\ wire'[c] = Append(wire[c], sent'[c])
  BY <1>1 DEF TypeOK
<1>3. sent'[c] \in 0..MaxFrames
  BY <1>2, BoundsAssumption DEF SendFrame, TypeOK
<1>4. /\ Len(wire'[c]) = Len(wire[c]) + 1
      /\ \A i \in 1..Len(wire[c]) : wire'[c][i] = wire[c][i]
      /\ wire'[c][Len(wire[c]) + 1] = sent'[c]
  BY <1>2, <1>3, BackTypes, AppendProperties
<1>5. resp[c] + Len(wire[c]) = sent[c] /\ returned[c] <= resp[c]
  BY <1>1 DEF BackInv
<1>6. ASSUME NEW i \in 1..Len(wire'[c])
      PROVE  wire'[c][i] = resp'[c] + i
  <2>1. CASE i \in 1..Len(wire[c])
    BY <1>1, <1>4, <2>1 DEF BackInv
  <2>2. CASE i = Len(wire[c]) + 1
    BY <1>1, <1>2, <1>4, <1>5, <2>2, BackTypes
  <2> QED BY <1>4, <2>1, <2>2, BackTypes
<1>7. /\ returned'[c] <= resp'[c] /\ resp'[c] + Len(wire'[c]) = sent'[c]
      /\ resp'[c] + Len(wire'[c]) <= sent'[c]
  BY <1>1, <1>2, <1>4, <1>5, BackTypes
<1>8. \A d \in Streams \ {c} : wire'[d] = wire[d] /\ sent'[d] = sent[d]
  BY <1>1 DEF TypeOK
<1> QED BY <1>1, <1>6, <1>7, <1>8 DEF BackInv

\* A stream that is dropped has nothing on its wire any more.
LEMMA BackDrop ==
  ASSUME TypeOK, BackInv, NEW c \in Streams, Drop(c)
  PROVE  BackInv'
<1>1. /\ UNCHANGED <<returned, resp, sent>>
      /\ wire'[c] = <<>> /\ ~up'[c]
      /\ \A d \in Streams \ {c} : wire'[d] = wire[d] /\ up'[d] = up[d]
  BY DEF Drop, thread, TypeOK
<1>2. Len(wire'[c]) = 0 /\ resp[c] + Len(wire[c]) <= sent[c] /\ returned[c] <= resp[c]
  BY <1>1 DEF BackInv
<1>3. resp'[c] + Len(wire'[c]) <= sent'[c]
  BY <1>1, <1>2, BackTypes
<1>4. \A i \in 1..Len(wire'[c]) : wire'[c][i] = resp'[c] + i
  BY <1>2
<1> QED BY <1>1, <1>2, <1>3, <1>4 DEF BackInv

\* Every step keeps the account, those of a deadline or a lost connection included.
LEMMA BackStep ==
  ASSUME NoErrors, TypeOK, BackInv, [Next]_vars
  PROVE  BackInv'
<1>1. CASE \E t, c \in Streams : RunBody(t, c) \/ RunError(t, c)
  BY <1>1, BackRead
<1>2. CASE \E c \in Streams : SendFrame(c)
  BY <1>2, BackSend
<1>3. CASE \E c \in Streams : Drop(c)
  BY <1>3, BackDrop
<1>4. ASSUME NEW c \in Streams, LoseConnection(c)
      PROVE  BackInv'
  <2>1. /\ UNCHANGED <<returned, resp, sent, wire>>
        /\ \A d \in Streams : up'[d] => up[d]
    BY <1>4 DEF LoseConnection, thread, TypeOK
  <2> QED BY <2>1 DEF BackInv
<1>5. ASSUME NEW c \in Streams, Return(c)
      PROVE  BackInv'
  <2>1. /\ UNCHANGED <<resp, sent, wire, up>>
        /\ returned' = [returned EXCEPT ![c] = resp[c]]
    BY <1>5 DEF Return, device
  <2>2. \A d \in Streams : returned'[d] = returned[d] \/ returned'[d] = resp[d]
    BY <2>1 DEF TypeOK
  <2>3. \A d \in Streams : returned'[d] <= resp'[d]
    BY <2>1, <2>2, BackTypes DEF BackInv
  <2> QED BY <2>1, <2>3 DEF BackInv
<1>6. CASE /\ ~ \E t, c \in Streams : RunBody(t, c) \/ RunError(t, c)
           /\ ~ \E c \in Streams : SendFrame(c) \/ Drop(c) \/ LoseConnection(c) \/ Return(c)
  <2>1. \A c \in Streams : ~SendError(c)
    BY DEF SendError, Fault, NoErrors
  <2>2. UNCHANGED <<returned, resp, sent, wire, up>>
    BY <1>6, <2>1 DEF Next, Inside, Handler, Environment, vars, thread, device, Recv, Arm,
       EnterRunOne, RunStopped, RunSize, RunFailed, RunTimer, RunCancelled, WorkFinished,
       Stop, TestReceived, TestExpired, Throw
  <2> QED BY <2>2 DEF BackInv
<1> QED BY <1>1, <1>2, <1>3, <1>4, <1>5, <1>6

\* Whatever deadlines pass, however often a caller tries again and whichever
\* connections are lost or dropped, a stream whose device reports no error never
\* shows an earlier frame again and none its device has not sent: the response a
\* recv that returned too early hands out is at worst the one returned before.
THEOREM StreamsNeverBack ==
  ASSUME NoErrors
  PROVE  Spec => NeverBack
<1>1. Init => BackInv
  BY DEF Init, BackInv
<1>2. ASSUME TypeOK, BackInv, [Next]_vars
      PROVE  \A t \in Streams : returned'[t] \in returned[t]..sent[t]
  <2>1. \A t \in Streams : returned'[t] = returned[t] \/ returned'[t] = resp[t]
    <3>1. CASE \E c \in Streams : Return(c)
      BY <1>2, <3>1 DEF Return, TypeOK
    <3>2. CASE ~ \E c \in Streams : Return(c)
      BY <1>2, <3>2 DEF Next, Inside, Handler, Environment, vars, thread, device, Recv,
         Arm, EnterRunOne, RunStopped, RunSize, RunBody, RunError, RunFailed, RunTimer,
         RunCancelled, WorkFinished, Stop, TestReceived, TestExpired, Throw, Drop,
         SendFrame, SendError, LoseConnection
    <3> QED BY <3>1, <3>2
  <2>2. ASSUME NEW t \in Streams
        PROVE  returned[t] <= resp[t] /\ resp[t] + Len(wire[t]) <= sent[t]
    BY <1>2 DEF BackInv
  <2> QED BY <1>2, <2>1, <2>2, BackTypes
<1>3. TypeOK /\ BackInv /\ [Next]_vars =>
        [\A t \in Streams : returned'[t] \in returned[t]..sent[t]]_vars
  BY <1>2
<1>4. TypeOK /\ BackInv /\ [Next]_vars => BackInv'
  BY BackStep
<1> QED BY <1>1, <1>3, <1>4, TypeCorrect, PTL DEF Spec, NeverBack

=============================================================================
