---------------------------- MODULE VideoCapture ----------------------------
(***************************************************************************)
(* The video half of the stereo camera: the grab thread of                 *)
(* sl_oc::video::VideoCapture, which circulates the mapped capture buffers *)
(* between the kernel driver and itself and copies each complete one into  *)
(* mLastFrame; the image callback of StereoCameraPublisher, which polls    *)
(* for a new frame, converts and publishes it; and the main thread, which  *)
(* opens the device, talks to the camera through vendor controls while the *)
(* grab thread runs, and in the end resets the object.                     *)
(*                                                                         *)
(* getLastFrame returns a reference: the caller copies the Frame struct,   *)
(* and later reads the pixels behind its data pointer, after mBufMutex is  *)
(* released.  The pixels are two halves, each the number of the camera     *)
(* frame it shows, written and read one per step.                          *)
(*                                                                         *)
(* External, modelled from its use here: the V4L2 driver (a buffer is      *)
(* queued, or filled and done, or dequeued; QBUF of a buffer that is not   *)
(* dequeued fails; a frame that finds no queued buffer is dropped).        *)
(* Abstracted: which device node is opened, what the vendor controls say,  *)
(* errors of DQBUF and QBUF other than those, the sensor synchronisation.  *)
(* Bounds: MaxFrames camera frames, MaxControls vendor transactions before *)
(* spin, PollLimit re-tests of mNewFrame (100 in the code), one wall clock *)
(* reading, Epoch.                                                         *)
(***************************************************************************)
EXTENDS Integers, Sequences, FiniteSets

CONSTANTS
  BufCount,     \* mBufCount
  Callbacks,    \* executions of imageCallback that may overlap (Reentrant group)
  MaxFrames,    \* frames the camera produces
  MaxControls,  \* vendor-control transactions between startCapture and spin
  PollLimit,    \* re-tests of mNewFrame before getLastFrame gives up
  Epoch         \* what getWallTimestamp returns

Buffers == 0..BufCount - 1
Halves == {"top", "bottom"}

ASSUME CallbacksAssumption == Callbacks \cap {"free", "grab"} = {}
ASSUME BoundsAssumption ==
  /\ BufCount \in Nat \ {0} /\ MaxFrames \in Nat /\ MaxControls \in Nat
  /\ PollLimit \in Nat /\ Epoch \in Nat \ {0}

VARIABLES
  main,       \* where the main thread is: constructor, spin, destructor
  txLeft,     \* vendor-control transactions it has still to make
  tx,         \* the one it is in: idle, len, set, get
  fd,         \* mFileDesc is open
  mapped,     \* mBuffers is mapped
  inited,     \* mInitialized
  stop,       \* mStopCapture
  com,        \* who holds mComMutex
  gpc,        \* the grab thread
  cur,        \* buf.index of its v4l2_buffer
  match,      \* buf.bytesused = buf.length
  first,      \* mFirstFrame
  startTs,    \* mStartTs
  initTs,     \* mInitTs
  relTs,      \* rel_ts
  frame,      \* mLastFrame: pixels, timestamp, data # nullptr
  new,        \* mNewFrame
  mutex,      \* who holds mBufMutex
  produced,   \* frames the camera has produced
  queued,     \* buffers the driver may fill, in order
  done,       \* buffers it has filled, in order, with "complete"
  content,    \* the frame in each buffer's memory
  rpc,        \* each running image callback
  tries,      \* its time_count
  got,        \* the timestamp in its copy of the Frame struct
  shot,       \* the pixels it has converted
  lastImg,    \* last_img_ts of the node, shared by callbacks
  topic       \* the images published

driverVars == <<produced, queued, done, content>>
grabVars == <<gpc, cur, match, first, startTs, initTs, relTs>>
mainVars == <<main, txLeft, tx, inited>>
deviceVars == <<fd, mapped>>
nodeVars == <<rpc, tries, got, shot, lastImg, topic>>
vars == <<mainVars, deviceVars, stop, com, grabVars, frame, new, mutex, driverVars, nodeVars>>

NoPixels == [h \in Halves |-> 0]

Init ==
  /\ main = "ctor" /\ txLeft \in 0..MaxControls /\ tx = "idle"
  /\ fd = FALSE /\ mapped = FALSE /\ inited = FALSE /\ stop = TRUE /\ com = "free"
  /\ gpc = "none" /\ cur = 0 /\ match = FALSE /\ first = TRUE
  /\ startTs = 0 /\ initTs = 0 /\ relTs = 0
  /\ frame = [px |-> NoPixels, stamp |-> 0, data |-> FALSE]
  /\ new = FALSE /\ mutex = "free"
  /\ produced = 0 /\ queued = <<>> /\ done = <<>> /\ content = [b \in Buffers |-> 0]
  /\ rpc = [r \in Callbacks |-> "idle"] /\ tries = [r \in Callbacks |-> 0]
  /\ got = [r \in Callbacks |-> 0] /\ shot = [r \in Callbacks |-> NoPixels]
  /\ lastImg = 0 /\ topic = <<>>

-----------------------------------------------------------------------------
(* The kernel driver. *)

InDriver(b) == \/ \E i \in DOMAIN queued : queued[i] = b
               \/ \E i \in DOMAIN done : done[i].buf = b

Streaming == main \notin {"ctor", "closed"} /\ inited

\* The camera has produced a frame: the first queued buffer is filled, wholly
\* or (a USB packet was lost) in part, or there is none and the frame is lost.
Deliver ==
  /\ Streaming /\ produced < MaxFrames
  /\ produced' = produced + 1
  /\ \/ queued = <<>> /\ UNCHANGED <<queued, done, content>>
     \/ /\ queued # <<>>
        /\ queued' = Tail(queued)
        /\ content' = [content EXCEPT ![Head(queued)] = produced + 1]
        /\ \E complete \in BOOLEAN :
             done' = Append(done, [buf |-> Head(queued), complete |-> complete])
  /\ UNCHANGED <<mainVars, deviceVars, stop, com, grabVars, frame, new, mutex, nodeVars>>

-----------------------------------------------------------------------------
(* The main thread. *)

\* initializeVideo: no device opens; one opens and something after that fails
\* (leaving the descriptor, the frame or the mapping behind); or every buffer
\* is queued, streaming is on and the grab thread is created.  The node goes
\* on in every case.
InitializeVideo ==
  /\ main = "ctor" /\ main' = "control"
  /\ \E started, isMapped, hasFrame, isOpen \in BOOLEAN :
       /\ started => isMapped /\ isOpen
       /\ isMapped => hasFrame
       /\ fd' = isOpen /\ mapped' = isMapped /\ inited' = started
       /\ frame' = [frame EXCEPT !.data = hasFrame]
       /\ gpc' = IF started THEN "spawned" ELSE "none"
       /\ queued' = IF started THEN [i \in 1..BufCount |-> i - 1] ELSE <<>>
  /\ UNCHANGED <<txLeft, tx, stop, com, cur, match, first, startTs, initTs, relTs,
                 new, mutex, produced, done, content, nodeVars>>

\* ll_VendorControl: take mComMutex ...
ControlLock ==
  /\ main \in {"control", "ledOff"} /\ tx = "idle" /\ txLeft > 0
  /\ com = "free" /\ com' = "main" /\ tx' = "len"
  /\ UNCHANGED <<main, txLeft, inited, deviceVars, stop, grabVars, frame, new, mutex,
                 driverVars, nodeVars>>

\* ... ask for the length of the control, write the command, read the answer ...
ControlStep ==
  /\ fd
  /\ \/ tx = "len" /\ tx' = "set"
     \/ tx = "set" /\ tx' = "get"
  /\ UNCHANGED <<main, txLeft, inited, deviceVars, stop, com, grabVars, frame, new, mutex,
                 driverVars, nodeVars>>

\* ... and give the mutex back: the answer is there, the command had none, or
\* an ioctl failed.
ControlEnd ==
  /\ tx # "idle" /\ tx' = "idle"
  /\ com' = "free" /\ txLeft' = txLeft - 1
  /\ UNCHANGED <<main, inited, deviceVars, stop, grabVars, frame, new, mutex, driverVars,
                 nodeVars>>

\* The constructor returns and the executor spins.
Spin ==
  /\ main = "control" /\ tx = "idle" /\ txLeft = 0
  /\ main' = "spin"
  /\ UNCHANGED <<txLeft, tx, inited, deviceVars, stop, com, grabVars, frame, new, mutex,
                 driverVars, nodeVars>>

\* The executor is told to stop: no callback starts any more.
Interrupt ==
  /\ main = "spin" /\ main' = "drain"
  /\ UNCHANGED <<txLeft, tx, inited, deviceVars, stop, com, grabVars, frame, new, mutex,
                 driverVars, nodeVars>>

\* ~VideoCapture, reset(): the LED goes off first, which takes two vendor
\* transactions of which one is modelled.
ResetStart ==
  /\ main = "drain" /\ main' = "ledOff"
  /\ \A r \in Callbacks : rpc[r] = "idle"
  /\ txLeft' = 1
  /\ UNCHANGED <<tx, inited, deviceVars, stop, com, grabVars, frame, new, mutex,
                 driverVars, nodeVars>>

StopRequest ==
  /\ main = "ledOff" /\ tx = "idle" /\ txLeft = 0
  /\ main' = "join" /\ stop' = TRUE
  /\ UNCHANGED <<txLeft, tx, inited, deviceVars, com, grabVars, frame, new, mutex,
                 driverVars, nodeVars>>

\* What is left when the thread is not joinable or has been joined: stream
\* off, unmap (only if mInitialized), close, free the frame.
ReleaseDevice ==
  /\ main' = "closed" /\ inited' = FALSE
  /\ fd' = FALSE /\ mapped' = (mapped /\ ~inited)
  /\ queued' = <<>> /\ done' = <<>>
  /\ frame' = [frame EXCEPT !.data = FALSE]
  /\ UNCHANGED <<txLeft, tx, stop, com, grabVars, new, mutex, produced, content, nodeVars>>

\* M: reset() without the join
ResetFinishNoJoin == main = "join" /\ ReleaseDevice

ResetFinish == main = "join" /\ gpc \in {"none", "done"} /\ ReleaseDevice

\* The process has ended.
Terminated == main = "closed" /\ gpc \in {"none", "done"} /\ UNCHANGED vars

-----------------------------------------------------------------------------
(* The grab thread. *)

\* Prologue of grabThreadFunc: it clears the stop request, too.  Its
\* v4l2_buffer says index 0 and lengths that do not match.
GrabStart ==
  /\ gpc = "spawned" /\ gpc' = "loop"
  /\ stop' = FALSE /\ new' = FALSE
  /\ cur' = 0 /\ match' = FALSE /\ relTs' = 0 /\ first' = TRUE
  /\ UNCHANGED <<mainVars, deviceVars, com, startTs, initTs, frame, mutex, driverVars,
                 nodeVars>>

\* M: the stop request is never looked at
GrabTestForever ==
  /\ gpc = "loop" /\ gpc' = "dequeue"
  /\ UNCHANGED <<mainVars, deviceVars, stop, com, cur, match, first, startTs, initTs,
                 relTs, frame, new, mutex, driverVars, nodeVars>>

\* The test of the while loop.
GrabTest ==
  /\ gpc = "loop"
  /\ gpc' = IF stop THEN "done" ELSE "dequeue"
  /\ UNCHANGED <<mainVars, deviceVars, stop, com, cur, match, first, startTs, initTs,
                 relTs, frame, new, mutex, driverVars, nodeVars>>

\* M: a frame that came in part is not given back
DequeueDropShort ==
  /\ gpc = "dequeue" /\ com = "free" /\ done # <<>>
  /\ done' = Tail(done) /\ cur' = Head(done).buf /\ match' = Head(done).complete
  /\ gpc' = IF Head(done).complete THEN "stampFirst" ELSE "loop"
  /\ UNCHANGED <<mainVars, deviceVars, stop, com, first, startTs, initTs, relTs, frame,
                 new, mutex, produced, queued, content, nodeVars>>

\* DQBUF under mComMutex, when there is a filled buffer.
Dequeue ==
  /\ gpc = "dequeue" /\ com = "free" /\ done # <<>>
  /\ done' = Tail(done) /\ cur' = Head(done).buf /\ match' = Head(done).complete
  /\ gpc' = IF Head(done).complete THEN "stampFirst" ELSE "requeue"
  /\ UNCHANGED <<mainVars, deviceVars, stop, com, first, startTs, initTs, relTs, frame,
                 new, mutex, produced, queued, content, nodeVars>>

\* DQBUF when there is none: the v4l2_buffer is still that of the last round,
\* and if its lengths do not match it is "given back" once more.
DequeueNothing ==
  /\ gpc = "dequeue" /\ com = "free" /\ done = <<>>
  /\ gpc' = IF match THEN "loop" ELSE "requeue"
  /\ match' = FALSE
  /\ UNCHANGED <<mainVars, deviceVars, stop, com, cur, first, startTs, initTs, relTs,
                 frame, new, mutex, driverVars, nodeVars>>

\* The first complete frame starts the clock; every one is dated from it.
StampFirst ==
  /\ gpc = "stampFirst" /\ gpc' = "lock"
  /\ first' = FALSE
  /\ startTs' = IF first THEN Epoch ELSE startTs
  /\ initTs' = IF first THEN content[cur] ELSE initTs
  /\ relTs' = content[cur] - initTs'
  /\ UNCHANGED <<mainVars, deviceVars, stop, com, cur, match, frame, new, mutex,
                 driverVars, nodeVars>>

LockFrame ==
  /\ gpc = "lock" /\ gpc' = "copyTop"
  /\ mutex = "free" /\ mutex' = "grab"
  /\ UNCHANGED <<mainVars, deviceVars, stop, com, cur, match, first, startTs, initTs,
                 relTs, frame, new, driverVars, nodeVars>>

\* M: the timestamp is written before the pixels are complete
CopyTopStamped ==
  /\ gpc = "copyTop" /\ gpc' = "copyBottom"
  /\ frame' = [frame EXCEPT !.px.top = content[cur], !.stamp = startTs + relTs]
  /\ UNCHANGED <<mainVars, deviceVars, stop, com, cur, match, first, startTs, initTs,
                 relTs, new, mutex, driverVars, nodeVars>>

\* The memcpy into mLastFrame.data, one half ...
CopyTop ==
  /\ gpc = "copyTop" /\ gpc' = "copyBottom"
  /\ frame' = [frame EXCEPT !.px.top = content[cur]]
  /\ UNCHANGED <<mainVars, deviceVars, stop, com, cur, match, first, startTs, initTs,
                 relTs, new, mutex, driverVars, nodeVars>>

\* ... and the other.
CopyBottom ==
  /\ gpc = "copyBottom" /\ gpc' = "stamp"
  /\ frame' = [frame EXCEPT !.px.bottom = content[cur]]
  /\ UNCHANGED <<mainVars, deviceVars, stop, com, cur, match, first, startTs, initTs,
                 relTs, new, mutex, driverVars, nodeVars>>

\* The timestamp comes after the pixels.
StampFrame ==
  /\ gpc = "stamp" /\ gpc' = "announce"
  /\ frame' = [frame EXCEPT !.stamp = startTs + relTs]
  /\ UNCHANGED <<mainVars, deviceVars, stop, com, cur, match, first, startTs, initTs,
                 relTs, new, mutex, driverVars, nodeVars>>

\* mNewFrame, and mBufMutex given back.
Announce ==
  /\ gpc = "announce" /\ gpc' = "requeue"
  /\ new' = TRUE /\ mutex' = "free"
  /\ UNCHANGED <<mainVars, deviceVars, stop, com, cur, match, first, startTs, initTs,
                 relTs, frame, driverVars, nodeVars>>

\* QBUF under mComMutex.  The driver refuses a buffer it has.
Requeue ==
  /\ gpc = "requeue" /\ com = "free" /\ gpc' = "loop"
  /\ queued' = IF InDriver(cur) THEN queued ELSE Append(queued, cur)
  /\ UNCHANGED <<mainVars, deviceVars, stop, com, cur, match, first, startTs, initTs,
                 relTs, frame, new, mutex, produced, done, content, nodeVars>>

-----------------------------------------------------------------------------
(* imageCallback of the node, execution r, and getLastFrame. *)

Goto(r, label) == rpc' = [rpc EXCEPT ![r] = label]

\* The 20 ms timer fires.
CallbackStart(r) ==
  /\ main = "spin" /\ rpc[r] = "idle"
  /\ Goto(r, "poll") /\ tries' = [tries EXCEPT ![r] = PollLimit]
  /\ UNCHANGED <<mainVars, deviceVars, stop, com, grabVars, frame, new, mutex, driverVars,
                 got, shot, lastImg, topic>>

\* M: the wait loop does not stop at zero
PollPastZero(r) ==
  /\ rpc[r] = "poll"
  /\ \/ new /\ Goto(r, "take") /\ UNCHANGED tries
     \/ ~new /\ UNCHANGED rpc /\ tries' = [tries EXCEPT ![r] = @ - 1]
  /\ UNCHANGED <<mainVars, deviceVars, stop, com, grabVars, frame, new, mutex, driverVars,
                 got, shot, lastImg, topic>>

\* One test of mNewFrame in the wait loop.
Poll(r) ==
  /\ rpc[r] = "poll"
  /\ \/ new /\ Goto(r, "take") /\ UNCHANGED tries
     \/ ~new /\ tries[r] = 0 /\ Goto(r, "copy") /\ UNCHANGED tries
     \/ ~new /\ tries[r] > 0 /\ UNCHANGED rpc /\ tries' = [tries EXCEPT ![r] = @ - 1]
  /\ UNCHANGED <<mainVars, deviceVars, stop, com, grabVars, frame, new, mutex, driverVars,
                 got, shot, lastImg, topic>>

\* Under mBufMutex only the flag is cleared.
Take(r) ==
  /\ rpc[r] = "take" /\ Goto(r, "copy")
  /\ mutex = "free" /\ new' = FALSE
  /\ UNCHANGED <<mainVars, deviceVars, stop, com, grabVars, frame, mutex, driverVars,
                 tries, got, shot, lastImg, topic>>

\* M: the stamp is remembered before it is compared
CopyFrameMarks(r) ==
  /\ rpc[r] = "copy" /\ Goto(r, "check")
  /\ got' = [got EXCEPT ![r] = frame.stamp] /\ lastImg' = frame.stamp
  /\ UNCHANGED <<mainVars, deviceVars, stop, com, grabVars, frame, new, mutex, driverVars,
                 tries, shot, topic>>

\* The copy of the Frame struct, through the returned reference.
CopyFrame(r) ==
  /\ rpc[r] = "copy" /\ Goto(r, "check")
  /\ got' = [got EXCEPT ![r] = frame.stamp]
  /\ UNCHANGED <<mainVars, deviceVars, stop, com, grabVars, frame, new, mutex, driverVars,
                 tries, shot, lastImg, topic>>

\* M: a frame is published whether or not it was published before
CheckAlways(r) ==
  /\ rpc[r] = "check"
  /\ Goto(r, IF frame.data THEN "mark" ELSE "idle")
  /\ UNCHANGED <<mainVars, deviceVars, stop, com, grabVars, frame, new, mutex, driverVars,
                 tries, got, shot, lastImg, topic>>

\* There is a frame, and it is not the one published last ...
Check(r) ==
  /\ rpc[r] = "check"
  /\ Goto(r, IF frame.data /\ got[r] # lastImg THEN "mark" ELSE "idle")
  /\ UNCHANGED <<mainVars, deviceVars, stop, com, grabVars, frame, new, mutex, driverVars,
                 tries, got, shot, lastImg, topic>>

\* ... now it is.
Mark(r) ==
  /\ rpc[r] = "mark" /\ Goto(r, "top")
  /\ lastImg' = got[r]
  /\ UNCHANGED <<mainVars, deviceVars, stop, com, grabVars, frame, new, mutex, driverVars,
                 tries, got, shot, topic>>

\* cvtColor over the pixels behind the data pointer.
Convert(r, half, from, to) ==
  /\ rpc[r] = from /\ Goto(r, to)
  /\ shot' = [shot EXCEPT ![r] = [@ EXCEPT ![half] = frame.px[half]]]
  /\ UNCHANGED <<mainVars, deviceVars, stop, com, grabVars, frame, new, mutex, driverVars,
                 tries, got, lastImg, topic>>

ConvertTop(r) == Convert(r, "top", "top", "bottom")
ConvertBottom(r) == Convert(r, "bottom", "bottom", "publish")

PublishImages(r) ==
  /\ rpc[r] = "publish" /\ Goto(r, "idle")
  /\ topic' = Append(topic, [stamp |-> got[r], px |-> shot[r]])
  /\ UNCHANGED <<mainVars, deviceVars, stop, com, grabVars, frame, new, mutex, driverVars,
                 tries, got, shot, lastImg>>

-----------------------------------------------------------------------------
Control == ControlLock \/ ControlStep \/ ControlEnd
Proceed == \/ InitializeVideo \/ Control \/ Spin
           \/ ResetStart \/ StopRequest \/ ResetFinish
Grab == \/ GrabStart \/ GrabTest \/ Dequeue \/ DequeueNothing \/ StampFirst \/ LockFrame
        \/ CopyTop \/ CopyBottom \/ StampFrame \/ Announce \/ Requeue
Step(r) == \/ Poll(r) \/ Take(r) \/ CopyFrame(r) \/ Check(r) \/ Mark(r)
           \/ ConvertTop(r) \/ ConvertBottom(r) \/ PublishImages(r)

Next == \/ Deliver \/ Proceed \/ Interrupt \/ Terminated \/ Grab
        \/ \E r \in Callbacks : CallbackStart(r) \/ Step(r)

Spec == Init /\ [][Next]_vars

\* Threads that can run do run, and the node's timers keep firing.  A callback
\* that waits for mBufMutex gets it in the end: the grab thread holds it for
\* one copy per frame.  Nothing is assumed of the camera or of the user.
Fairness ==
  /\ WF_vars(Proceed) /\ WF_vars(Grab)
  /\ \A r \in Callbacks :
       WF_vars(CallbackStart(r)) /\ WF_vars(Step(r)) /\ SF_vars(Take(r))

FairSpec == Spec /\ Fairness

-----------------------------------------------------------------------------
(* Properties. *)

Pixels == [Halves -> Nat]

\* Every variable stays in its range.
TypeOK ==
  /\ main \in {"ctor", "control", "spin", "drain", "ledOff", "join", "closed"}
  /\ txLeft \in Nat /\ tx \in {"idle", "len", "set", "get"}
  /\ fd \in BOOLEAN /\ mapped \in BOOLEAN /\ inited \in BOOLEAN /\ stop \in BOOLEAN
  /\ com \in {"free", "main"}
  /\ gpc \in {"none", "spawned", "loop", "dequeue", "stampFirst", "lock", "copyTop",
              "copyBottom", "stamp", "announce", "requeue", "done"}
  /\ cur \in Buffers /\ match \in BOOLEAN /\ first \in BOOLEAN
  /\ startTs \in {0, Epoch} /\ initTs \in Nat /\ relTs \in Nat
  /\ frame \in [px : Pixels, stamp : Nat, data : BOOLEAN]
  /\ new \in BOOLEAN /\ mutex \in {"free", "grab"}
  /\ produced \in 0..MaxFrames
  /\ queued \in Seq(Buffers) /\ done \in Seq([buf : Buffers, complete : BOOLEAN])
  /\ content \in [Buffers -> Nat]
  /\ rpc \in [Callbacks -> {"idle", "poll", "take", "copy", "check", "mark", "top",
                           "bottom", "publish"}]
  /\ tries \in [Callbacks -> 0..PollLimit]
  /\ got \in [Callbacks -> Nat] /\ shot \in [Callbacks -> Pixels]
  /\ lastImg \in Nat /\ topic \in Seq([stamp : Nat, px : Pixels])

\* While the grab thread is alive, what it uses exists: the descriptor, the
\* mapped buffers and the frame it copies into.
MemoryAliveWhileGrabbing ==
  gpc \notin {"none", "done"} => fd /\ mapped /\ frame.data

\* No capture buffer is ever lost or handed out twice, through frames that
\* came in part, the stale QBUF of a round without a frame and frames dropped
\* by the driver: each is with the driver exactly once, except the one the
\* grab thread has dequeued, which the driver does not touch while it is
\* being copied.
Times(b) == Cardinality({i \in DOMAIN queued : queued[i] = b})
            + Cardinality({i \in DOMAIN done : done[i].buf = b})
Copying == gpc \in {"stampFirst", "lock", "copyTop", "copyBottom", "stamp", "announce"}
OneOwner ==
  Streaming =>
    \A b \in Buffers :
      CASE b = cur /\ Copying -> Times(b) = 0
        [] b = cur /\ gpc = "requeue" -> Times(b) <= 1
        [] OTHER -> Times(b) = 1

\* An image shows nothing older than its stamp says, although the pixels are
\* read long after the stamp was copied: each half is of
\* the stamped frame or of a later one.
FrameOf(stamp) == stamp - Epoch + initTs
NeverStale ==
  \A i \in DOMAIN topic : \A h \in Halves : topic[i].px[h] >= FrameOf(topic[i].stamp)

\* videocapture.hpp: "To check if a new frame is available it is possible to
\* compare the timestamp of the returned frame with the timestamp of the
\* previous valid frame".  With one callback at a time it is: each image
\* published is newer than the one before, and none is ahead of the driver.
Images == INSTANCE LatestValueTopic WITH
            Channels <- {"image"},
            MayRepeat <- FALSE,
            newest <- [c \in {"image"} |-> frame.stamp],
            topic <- [c \in {"image"} |-> [i \in DOMAIN topic |-> topic[i].stamp]]
EachImageOnce == Images!Spec

\* A frame that was announced is published, or a newer one is, as long as the node
\* spins: a callback that is still converting the frame before clears no flag and
\* compares no stamp that is not its own.
FrameShown ==
  \A n \in 0..MaxFrames - 1 :
    new /\ frame.stamp = Epoch + n ~>
      main # "spin" \/ \E i \in DOMAIN topic : topic[i].stamp >= Epoch + n

\* Once the grab thread is past its prologue, reset() returns, also when the
\* camera has stopped sending.
ResetReturnsOnceGrabbing ==
  (main = "join" /\ stop /\ gpc # "spawned") ~> (main = "closed")

=============================================================================
