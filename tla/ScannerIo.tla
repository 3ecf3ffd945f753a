----------------------------- MODULE ScannerIo -----------------------------
(***************************************************************************)
(* Synchronous receiving from the streams of one Blickfeld scanner.  Each  *)
(* stream has a scanner_connection of its own and a thread that calls its  *)
(* recv, but all connections share the io_context of the scanner.  recv    *)
(* starts a deadline timer and an asynchronous read and then runs handlers *)
(* of the context, one run_one at a time, until its own answer is there:   *)
(* handlers run on whichever thread is inside run_one, not on the thread   *)
(* whose recv they belong to.                                              *)
(*                                                                         *)
(* A stream and its thread have the same name.  A message is the number of *)
(* its frame, or Error for a response with has_error, on which             *)
(* parse_response throws.  Size and body of a message are two reads.  What *)
(* two reads at the same time do to one input_buffer is undefined: the     *)
(* connection is then in a "clash" and no further handler of it is run.    *)
(*                                                                         *)
(* External, modelled from its use here: asio.  run_one with no            *)
(* outstanding work stops the context and returns 0; otherwise it runs one *)
(* ready handler, or returns 0 when the context is stopped; the work of a  *)
(* handler is given back after it, and giving back the last stops the      *)
(* context, not atomically; a cancelled timer leaves its handler to run.   *)
(* Bounds: MaxFrames frames per stream, MaxFaults faults of the kinds in   *)
(* Faults: an error response, a deadline that passes, a lost connection.   *)
(* "drop" lets a caller drop its stream after an exception.                *)
(***************************************************************************)
EXTENDS Integers, Sequences, FiniteSets

CONSTANTS
  Streams,    \* connections of one scanner, each received from by one thread
  MaxFrames,  \* frames the device sends on each
  Faults,     \* kinds of fault that may happen
  MaxFaults,  \* how many of them
  Retry       \* does a caller call recv again after an exception?

Error == 0

ASSUME StreamsAssumption == IsFiniteSet(Streams)
ASSUME BoundsAssumption ==
  /\ MaxFrames \in Nat /\ MaxFaults \in Nat /\ Retry \in BOOLEAN
  /\ Faults \subseteq {"error", "late", "lost", "drop"}

VARIABLES
  tpc,        \* where each thread is in recv
  next,       \* where it goes from the handler it has run
  received,   \* *received of its call
  expired,    \* *expired of its call
  resp,       \* the response its call writes to
  returned,   \* the frame its last completed call returned
  timer,      \* its deadline timer is pending
  reads,      \* the outstanding read of each connection
  wire,       \* what its socket has still to read
  sent,       \* frames the device has sent on it
  up,         \* the socket is connected
  cancelled,  \* handlers of cancelled timers not yet run
  stopped,    \* the io_context is stopped
  faults      \* faults so far

thread == <<received, expired, resp, returned>>
device == <<wire, sent, up, faults>>
vars == <<tpc, next, thread, timer, reads, device, cancelled, stopped>>

InRunOne == {"call", "in", "ran", "stop"}
InRecv == InRunOne \cup {"arm", "test", "check", "leave", "throw"}

\* outstanding_work_ of the context; the handler being run still counts.
Work ==
  Cardinality({c \in Streams : reads[c] # "none"})
    + Cardinality({c \in Streams : timer[c]})
    + Cardinality({t \in Streams : tpc[t] = "ran"})
    + cancelled

Goto(t, pc) == tpc' = [tpc EXCEPT ![t] = pc]

Init ==
  /\ tpc = [t \in Streams |-> "idle"]
  /\ next = [t \in Streams |-> "test"]
  /\ received = [t \in Streams |-> FALSE]
  /\ expired = [t \in Streams |-> FALSE]
  /\ resp = [t \in Streams |-> 0]
  /\ returned = [t \in Streams |-> 0]
  /\ timer = [t \in Streams |-> FALSE]
  /\ reads = [c \in Streams |-> "none"]
  /\ wire = [c \in Streams |-> <<>>]
  /\ sent = [c \in Streams |-> 0]
  /\ up = [c \in Streams |-> TRUE]
  /\ cancelled = 0
  /\ stopped = FALSE
  /\ faults = 0

-----------------------------------------------------------------------------
(* The device and the network. *)

SendFrame(c) ==
  /\ up[c] /\ sent[c] < MaxFrames
  /\ sent' = [sent EXCEPT ![c] = @ + 1]
  /\ wire' = [wire EXCEPT ![c] = Append(@, sent'[c])]
  /\ UNCHANGED <<tpc, next, thread, timer, reads, up, faults, cancelled, stopped>>

Fault(kind) ==
  /\ kind \in Faults /\ faults < MaxFaults
  /\ faults' = faults + 1

SendError(c) ==
  /\ up[c] /\ Fault("error")
  /\ wire' = [wire EXCEPT ![c] = Append(@, Error)]
  /\ UNCHANGED <<tpc, next, thread, timer, reads, sent, up, cancelled, stopped>>

LoseConnection(c) ==
  /\ up[c] /\ Fault("lost")
  /\ up' = [up EXCEPT ![c] = FALSE]
  /\ UNCHANGED <<tpc, next, thread, timer, reads, wire, sent, cancelled, stopped>>

-----------------------------------------------------------------------------
(* scanner_connection::recv *)

\* io_context.reset()
Recv(t) ==
  /\ tpc[t] = "idle" \/ (Retry /\ tpc[t] = "failed")
  /\ Goto(t, "arm")
  /\ stopped' = FALSE
  /\ UNCHANGED <<next, thread, timer, reads, device, cancelled>>

\* A plausible mistake: a read without a deadline.
ArmNoTimer(t) ==
  /\ tpc[t] = "arm"
  /\ Goto(t, "call")
  /\ received' = [received EXCEPT ![t] = FALSE]
  /\ expired' = [expired EXCEPT ![t] = FALSE]
  /\ reads' = [reads EXCEPT ![t] = IF @ = "none" THEN "size" ELSE "clash"]
  /\ UNCHANGED <<next, resp, returned, timer, device, cancelled, stopped>>

\* The flags of this call, its deadline timer and the read of the size.
Arm(t) ==
  /\ tpc[t] = "arm"
  /\ Goto(t, "call")
  /\ received' = [received EXCEPT ![t] = FALSE]
  /\ expired' = [expired EXCEPT ![t] = FALSE]
  /\ timer' = [timer EXCEPT ![t] = TRUE]
  /\ reads' = [reads EXCEPT ![t] = IF @ = "none" THEN "size" ELSE "clash"]
  /\ UNCHANGED <<next, resp, returned, device, cancelled, stopped>>

EnterRunOne(t) ==
  /\ tpc[t] = "call"
  /\ Goto(t, IF Work > 0 THEN "in" ELSE "stop")
  /\ next' = [next EXCEPT ![t] = IF Work > 0 THEN @ ELSE "leave"]
  /\ UNCHANGED <<thread, timer, reads, device, cancelled, stopped>>

\* run_one returns 0, which ends the loop.
RunStopped(t) ==
  /\ tpc[t] = "in" /\ stopped
  /\ Goto(t, "leave")
  /\ UNCHANGED <<next, thread, timer, reads, device, cancelled, stopped>>

\* Thread t has run a handler, and will go to pc from it.
Ran(t, pc) ==
  /\ tpc[t] = "in" /\ ~stopped
  /\ Goto(t, "ran")
  /\ next' = [next EXCEPT ![t] = pc]

\* A plausible mistake: the flag is set by the outer handler.
RunSizeReceived(t, c) ==
  /\ Ran(t, "test")
  /\ reads[c] = "size" /\ wire[c] # <<>>
  /\ reads' = [reads EXCEPT ![c] = "body"]
  /\ received' = [received EXCEPT ![c] = TRUE]
  /\ UNCHANGED <<expired, resp, returned, timer, device, cancelled, stopped>>

\* A plausible mistake: the response is cleared before its body is read.
RunSizeClears(t, c) ==
  /\ Ran(t, "test")
  /\ reads[c] = "size" /\ wire[c] # <<>>
  /\ reads' = [reads EXCEPT ![c] = "body"]
  /\ resp' = [resp EXCEPT ![c] = 0]
  /\ UNCHANGED <<received, expired, returned, timer, device, cancelled, stopped>>

\* The handler of connection c that has read the size reads the body.
RunSize(t, c) ==
  /\ Ran(t, "test")
  /\ reads[c] = "size" /\ wire[c] # <<>>
  /\ reads' = [reads EXCEPT ![c] = "body"]
  /\ UNCHANGED <<thread, timer, device, cancelled, stopped>>

\* A plausible mistake: the response written is that of the running thread.
RunBodyIntoOwn(t, c) ==
  /\ Ran(t, "test")
  /\ reads[c] = "body" /\ wire[c] # <<>> /\ Head(wire[c]) # Error
  /\ reads' = [reads EXCEPT ![c] = "none"]
  /\ resp' = [resp EXCEPT ![t] = Head(wire[c])]
  /\ wire' = [wire EXCEPT ![c] = Tail(@)]
  /\ received' = [received EXCEPT ![c] = TRUE]
  /\ UNCHANGED <<expired, returned, timer, sent, up, faults, cancelled, stopped>>

\* The handler of connection c that has read a frame.
RunBody(t, c) ==
  /\ Ran(t, "test")
  /\ reads[c] = "body" /\ wire[c] # <<>> /\ Head(wire[c]) # Error
  /\ reads' = [reads EXCEPT ![c] = "none"]
  /\ resp' = [resp EXCEPT ![c] = Head(wire[c])]
  /\ wire' = [wire EXCEPT ![c] = Tail(@)]
  /\ received' = [received EXCEPT ![c] = TRUE]
  /\ UNCHANGED <<expired, returned, timer, sent, up, faults, cancelled, stopped>>

\* The one that has read an error: it throws, on thread t.
RunError(t, c) ==
  /\ Ran(t, "throw")
  /\ reads[c] = "body" /\ wire[c] # <<>> /\ Head(wire[c]) = Error
  /\ reads' = [reads EXCEPT ![c] = "none"]
  /\ resp' = [resp EXCEPT ![c] = Error]
  /\ wire' = [wire EXCEPT ![c] = Tail(@)]
  /\ UNCHANGED <<received, expired, returned, timer, sent, up, faults, cancelled, stopped>>

\* The one whose read failed, because the connection is gone: it throws too.
RunFailed(t, c) ==
  /\ Ran(t, "throw")
  /\ reads[c] \in {"size", "body"} /\ ~up[c] /\ wire[c] = <<>>
  /\ reads' = [reads EXCEPT ![c] = "none"]
  /\ UNCHANGED <<thread, timer, device, cancelled, stopped>>

\* A plausible mistake: the flag is not negated.
RunTimerInverted(t, c) ==
  /\ Ran(t, "test")
  /\ timer[c]
  /\ Fault("late")
  /\ timer' = [timer EXCEPT ![c] = FALSE]
  /\ expired' = [expired EXCEPT ![c] = received[c]]
  /\ UNCHANGED <<received, resp, returned, reads, wire, sent, up, cancelled, stopped>>

\* The deadline of connection c passes.
RunTimer(t, c) ==
  /\ Ran(t, "test")
  /\ timer[c]
  /\ Fault("late")
  /\ timer' = [timer EXCEPT ![c] = FALSE]
  /\ expired' = [expired EXCEPT ![c] = ~received[c]]
  /\ UNCHANGED <<received, resp, returned, reads, wire, sent, up, cancelled, stopped>>

\* A plausible mistake: the work of a cancelled wait is given back twice.
RunCancelledTwice(t) ==
  /\ Ran(t, "test")
  /\ cancelled > 0
  /\ cancelled' = cancelled - 2
  /\ UNCHANGED <<thread, timer, reads, device, stopped>>

\* The handler of a cancelled timer has no effect.
RunCancelled(t) ==
  /\ Ran(t, "test")
  /\ cancelled > 0
  /\ cancelled' = cancelled - 1
  /\ UNCHANGED <<thread, timer, reads, device, stopped>>

\* The work of the handler is given back.
WorkFinished(t) ==
  /\ tpc[t] = "ran"
  /\ Goto(t, IF Work = 1 THEN "stop" ELSE next[t])
  /\ UNCHANGED <<next, thread, timer, reads, device, cancelled, stopped>>

\* There was no more: stop().
Stop(t) ==
  /\ tpc[t] = "stop"
  /\ Goto(t, next[t])
  /\ stopped' = TRUE
  /\ UNCHANGED <<next, thread, timer, reads, device, cancelled>>

TestReceived(t) ==
  /\ tpc[t] = "test"
  /\ Goto(t, IF received[t] THEN "leave" ELSE "check")
  /\ UNCHANGED <<next, thread, timer, reads, device, cancelled, stopped>>

TestExpired(t) ==
  /\ tpc[t] = "check"
  /\ Goto(t, IF expired[t] THEN "throw" ELSE "call")
  /\ UNCHANGED <<next, thread, timer, reads, device, cancelled, stopped>>

\* timer.cancel(), or the destructor of the timer.
CancelTimer(t) ==
  /\ timer' = [timer EXCEPT ![t] = FALSE]
  /\ cancelled' = IF timer[t] THEN cancelled + 1 ELSE cancelled

\* recv is done, and its caller has the response.
Return(t) ==
  /\ tpc[t] = "leave"
  /\ Goto(t, "idle")
  /\ CancelTimer(t)
  /\ returned' = [returned EXCEPT ![t] = resp[t]]
  /\ UNCHANGED <<next, received, expired, resp, reads, device, stopped>>

\* A plausible mistake: recv catches what a handler throws and returns.
ThrowSwallowed(t) ==
  /\ tpc[t] = "throw"
  /\ Goto(t, "idle")
  /\ CancelTimer(t)
  /\ UNCHANGED <<next, thread, reads, device, stopped>>

\* The exception leaves recv.
Throw(t) ==
  /\ tpc[t] = "throw"
  /\ Goto(t, "failed")
  /\ CancelTimer(t)
  /\ UNCHANGED <<next, thread, reads, device, stopped>>

\* The caller drops the stream: the socket is closed.
Drop(t) ==
  /\ tpc[t] = "failed" /\ "drop" \in Faults
  /\ Goto(t, "gone")
  /\ up' = [up EXCEPT ![t] = FALSE]
  /\ wire' = [wire EXCEPT ![t] = <<>>]
  /\ UNCHANGED <<next, thread, timer, reads, sent, faults, cancelled, stopped>>

-----------------------------------------------------------------------------

Handler(t) ==
  \/ RunCancelled(t)
  \/ \E c \in Streams :
       RunSize(t, c) \/ RunBody(t, c) \/ RunError(t, c) \/ RunFailed(t, c) \/ RunTimer(t, c)

\* What thread t does inside recv.
Inside(t) ==
  \/ Arm(t) \/ EnterRunOne(t) \/ RunStopped(t) \/ Handler(t)
  \/ WorkFinished(t) \/ Stop(t)
  \/ TestReceived(t) \/ TestExpired(t) \/ Return(t) \/ Throw(t)

Environment(c) == SendFrame(c) \/ SendError(c) \/ LoseConnection(c)

Next == \E t \in Streams : Recv(t) \/ Inside(t) \/ Drop(t) \/ Environment(t)

Spec == Init /\ [][Next]_vars

\* Threads run, and deadlines pass.
FairSpec == Spec /\ \A t \in Streams : WF_vars(Inside(t))

-----------------------------------------------------------------------------

\* Types; and only reads of calls in progress or failed are outstanding.
TypeOK ==
  /\ tpc \in [Streams -> InRecv \cup {"idle", "failed", "gone"}]
  /\ next \in [Streams -> {"test", "throw", "leave"}]
  /\ received \in [Streams -> BOOLEAN] /\ expired \in [Streams -> BOOLEAN]
  /\ resp \in [Streams -> 0..MaxFrames] /\ returned \in [Streams -> 0..MaxFrames]
  /\ timer \in [Streams -> BOOLEAN]
  /\ reads \in [Streams -> {"none", "size", "body", "clash"}]
  /\ wire \in [Streams -> Seq(0..MaxFrames)]
  /\ sent \in [Streams -> 0..MaxFrames]
  /\ up \in [Streams -> BOOLEAN]
  /\ cancelled \in Nat /\ stopped \in BOOLEAN /\ faults \in 0..MaxFaults

\* "Blocks until frame next frame is available" (point_cloud_stream.h:139): recv
\* returns normally only with its answer; run_one, which returns 0 on a context
\* without work or stopped by another thread, never ends its loop early.
AnswerOnReturn == \A t \in Streams : tpc[t] = "leave" => received[t] /\ reads[t] = "none"

\* A thread that calls run_one without an answer and within its deadline finds
\* work in the context, whatever others have run of its handlers in the meantime:
\* run_one blocks, and does not end the loop.
WorkToWaitFor ==
  \A t \in Streams : tpc[t] = "call" /\ ~received[t] /\ ~expired[t] => Work > 0

\* Between two calls nothing writes to the response the caller is working on.
ResponseStable == [][\A t \in Streams : tpc[t] = "idle" => resp'[t] = resp[t]]_vars

\* Every stream returns each frame of its own device once and in order,
\* whichever threads run the handlers.
Promise == INSTANCE FrameStream WITH got <- returned
InOrder == Promise!Spec

\* Whatever deadlines pass and connections are lost, a stream whose device reports
\* no error shows its caller no frame before the one last returned and none that
\* its device has not sent: what a recv that returns too early hands out is at
\* worst the frame of the call before.
NeverBack == [][\A t \in Streams : returned'[t] \in returned[t]..sent[t]]_vars

\* The comment at point_cloud_stream.h:139 again: a call whose frame is there comes back.
AnsweredReturns == \A t \in Streams : (tpc[t] \in InRunOne /\ received[t]) ~> (tpc[t] \notin InRecv)

\* A call ends, with an answer, with an error, or at its deadline, as long as no
\* other thread is in recv, whatever earlier calls have left behind (and the bound
\* leaves it a deadline).
RecvEnds ==
  \A t \in Streams :
    tpc[t] = "arm" ~> \/ tpc[t] \notin InRecv \/ reads[t] = "clash"
                      \/ \E u \in Streams \ {t} : tpc[u] \in InRecv
                      \/ faults = MaxFaults

=============================================================================
