------------------------ MODULE VideoCaptureProofs -------------------------
(***************************************************************************)
(* Theorems about VideoCapture, for every number of capture buffers,       *)
(* callbacks, frames, vendor controls and re-tests.                        *)
(***************************************************************************)
EXTENDS VideoCapture, SequenceTheorems, FiniteSetTheorems, TLAPS

Alive == gpc \notin {"none", "done"}

\* The grab thread lives only while the video streams; otherwise the driver has no
\* buffer.  A vendor transaction under way is one of those still to make.
LifeInv ==
  /\ tx # "idle" => txLeft # 0
  /\ Alive => Streaming
  /\ main = "ctor" => gpc = "none"
  /\ ~Streaming => queued = <<>> /\ done = <<>>

\* A buffer is in one place of the driver at most, or with the grab thread.
OwnerInv ==
  /\ \A i, j \in DOMAIN queued : queued[i] = queued[j] => i = j
  /\ \A i, j \in DOMAIN done : done[i].buf = done[j].buf => i = j
  /\ \A i \in DOMAIN queued, j \in DOMAIN done : queued[i] # done[j].buf
  /\ Copying => ~InDriver(cur)
  /\ Streaming => \A b \in Buffers :
       InDriver(b) \/ (b = cur /\ (Copying \/ gpc = "requeue"))

\* The frame the clock was set by last: no filled buffer is older.
Newest == initTs + relTs

Stamped == {"lock", "copyTop", "copyBottom", "stamp", "announce"}

ClockInv ==
  /\ \A b \in Buffers : content[b] <= produced
  /\ \A i, j \in DOMAIN done : i < j => content[done[i].buf] < content[done[j].buf]
  /\ first => /\ startTs = 0 /\ initTs = 0 /\ relTs = 0 /\ frame.stamp = 0
              /\ gpc \notin Stamped
  /\ gpc \in {"none", "spawned"} => first
  /\ ~first => startTs = Epoch /\ \A i \in DOMAIN done : Newest < content[done[i].buf]
  /\ Copying => \A i \in DOMAIN done : content[cur] < content[done[i].buf]
  /\ gpc = "stampFirst" /\ ~first => Newest < content[cur]
  /\ gpc \in Stamped => Newest = content[cur]
  /\ Newest <= produced
  /\ frame.stamp <= startTs + relTs
  /\ gpc \in Stamped \ {"announce"} => frame.stamp < startTs + relTs

\* The frame's pixels are never older than its stamp says, also while it is
\* being copied.
PixelInv ==
  /\ frame.stamp # 0 => \A h \in Halves : frame.px[h] >= FrameOf(frame.stamp)
  /\ gpc \in {"copyBottom", "stamp", "announce"} => frame.px["top"] = content[cur]
  /\ gpc \in {"stamp", "announce"} => frame.px["bottom"] = content[cur]

\* What an image callback has converted is not older than the stamp it copied,
\* which is not newer than the frame's.
ShotInv(r) ==
  /\ got[r] <= frame.stamp
  /\ rpc[r] \in {"mark", "top", "bottom", "publish"} => frame.stamp # 0
  /\ rpc[r] \in {"bottom", "publish"} => shot[r]["top"] >= FrameOf(got[r])
  /\ rpc[r] = "publish" => shot[r]["bottom"] >= FrameOf(got[r])

ImageInv ==
  /\ lastImg <= frame.stamp
  /\ \A r \in Callbacks : ShotInv(r)
  /\ topic # <<>> => frame.stamp # 0
  /\ NeverStale

OneCallback == \A q, r \in Callbacks : q = r

SentStamp == IF topic = <<>> THEN 0 ELSE topic[Len(topic)].stamp

SentInv ==
  /\ SentStamp <= lastImg
  /\ \A r \in Callbacks :
       /\ rpc[r] = "check" => lastImg <= got[r]
       /\ rpc[r] = "mark" => lastImg < got[r]
       /\ rpc[r] \in {"top", "bottom", "publish"} => SentStamp < got[r] /\ lastImg = got[r]

-----------------------------------------------------------------------------
(* Steps that leave most of the state alone. *)

\* The vendor controls and the ways of the main thread that neither start nor end
\* the video.
Pass == Control \/ Spin \/ Interrupt \/ ResetStart \/ StopRequest

\* They change nothing the video is made of.
LEMMA PassStep ==
  ASSUME Pass
  PROVE  /\ UNCHANGED <<inited, deviceVars, grabVars, frame, new, mutex, driverVars, nodeVars>>
         /\ main' = "ctor" <=> main = "ctor"
         /\ main' = "closed" <=> main = "closed"
         /\ Streaming' = Streaming
BY DEF Pass, Control, ControlLock, ControlStep, ControlEnd, Spin, Interrupt, ResetStart,
       StopRequest, Streaming

\* An image callback touches only what is the node's, and the flag.
LEMMA CallbackFrame ==
  ASSUME NEW r \in Callbacks, CallbackStart(r) \/ Step(r)
  PROVE  UNCHANGED <<mainVars, deviceVars, stop, com, grabVars, frame, mutex, driverVars>>
BY DEF CallbackStart, Step, Poll, Take, CopyFrame, Check, Mark, ConvertTop, ConvertBottom,
       Convert, PublishImages

\* Every step is the driver's, the main thread's, the grab thread's, a callback's or
\* none.
LEMMA NextCases ==
  ASSUME [Next]_vars
  PROVE  \/ Deliver \/ InitializeVideo \/ Pass \/ ResetFinish \/ Grab
         \/ UNCHANGED vars
         \/ \E r \in Callbacks : CallbackStart(r) \/ Step(r)
BY DEF Next, Proceed, Pass, Terminated

\* The first element taken off a sequence.
LEMMA TailFacts ==
  ASSUME NEW S, NEW s \in Seq(S), s # <<>>
  PROVE  /\ Head(s) = s[1] /\ s[1] \in S /\ Tail(s) \in Seq(S)
         /\ 1 \in DOMAIN s
         /\ \A i \in DOMAIN Tail(s) : i \in Nat /\ i + 1 \in DOMAIN s /\ i + 1 # 1 /\ Tail(s)[i] = s[i + 1]
         /\ \A j \in DOMAIN s : j # 1 => j - 1 \in DOMAIN Tail(s) /\ Tail(s)[j - 1] = s[j]
<1>1. Len(s) \in Nat /\ Len(s) # 0 /\ DOMAIN s = 1..Len(s)
  OBVIOUS
<1>2. /\ Tail(s) \in Seq(S) /\ Len(Tail(s)) = Len(s) - 1 /\ Head(s) = s[1]
      /\ DOMAIN Tail(s) = 1..Len(s) - 1
  BY <1>1
<1>3. \A i \in 1..Len(s) - 1 : Tail(s)[i] = s[i + 1]
  BY <1>1
<1>4. s[1] \in S
  BY <1>1
<1> QED BY <1>1, <1>2, <1>3, <1>4

\* One more element at the end of a sequence.
LEMMA AppendFacts ==
  ASSUME NEW S, NEW s \in Seq(S), NEW e \in S
  PROVE  /\ Append(s, e) \in Seq(S) /\ Len(s) \in Nat
         /\ \A i \in DOMAIN s : i \in Nat /\ i < Len(s) + 1 /\ i \in DOMAIN Append(s, e) /\ Append(s, e)[i] = s[i]
         /\ Append(s, e)[Len(s) + 1] = e /\ Len(s) + 1 \in DOMAIN Append(s, e)
         /\ \A i \in DOMAIN Append(s, e) : i \in DOMAIN s \/ i = Len(s) + 1
<1>1. Len(s) \in Nat /\ DOMAIN s = 1..Len(s)
  OBVIOUS
<1>2. /\ Append(s, e) \in Seq(S) /\ Len(Append(s, e)) = Len(s) + 1
      /\ DOMAIN Append(s, e) = 1..Len(s) + 1
  BY <1>1
<1>3. /\ \A i \in 1..Len(s) : Append(s, e)[i] = s[i]
      /\ Append(s, e)[Len(s) + 1] = e
  BY <1>1
<1> QED BY <1>1, <1>2, <1>3

-----------------------------------------------------------------------------
(* Types.  The frame's date is a number because the clock never runs ahead of the
   buffer that is copied, which is ClockInv. *)

FrameType == [px : Pixels, stamp : Nat, data : BOOLEAN]

\* Writing a half, the stamp or the pointer of a frame leaves a frame, and the rest.
LEMMA FrameExcept ==
  ASSUME frame \in FrameType, NEW n \in Nat
  PROVE  /\ \A h \in Halves :
              LET f == [frame EXCEPT !.px[h] = n] IN
                /\ f \in FrameType /\ f.stamp = frame.stamp /\ f.data = frame.data
                /\ \A k \in Halves : f.px[k] = IF k = h THEN n ELSE frame.px[k]
         /\ LET f == [frame EXCEPT !.stamp = n] IN
              f \in FrameType /\ f.stamp = n /\ f.data = frame.data /\ f.px = frame.px
         /\ \A d \in BOOLEAN :
              LET f == [frame EXCEPT !.data = d] IN
                f \in FrameType /\ f.stamp = frame.stamp /\ f.data = d /\ f.px = frame.px
<1>1. frame.px \in Pixels /\ \A h \in Halves : [frame.px EXCEPT ![h] = n] \in Pixels
  BY DEF FrameType, Pixels
<1>2. ASSUME NEW h \in Halves
      PROVE  LET f == [frame EXCEPT !.px[h] = n] IN
                /\ f \in FrameType /\ f.stamp = frame.stamp /\ f.data = frame.data
                /\ \A k \in Halves : f.px[k] = IF k = h THEN n ELSE frame.px[k]
  BY <1>1 DEF FrameType, Pixels
<1>3. LET f == [frame EXCEPT !.stamp = n] IN
              f \in FrameType /\ f.stamp = n /\ f.data = frame.data /\ f.px = frame.px
  BY DEF FrameType
<1>4. ASSUME NEW d \in BOOLEAN
      PROVE  LET f == [frame EXCEPT !.data = d] IN
                f \in FrameType /\ f.stamp = frame.stamp /\ f.data = d /\ f.px = frame.px
  BY DEF FrameType
<1> QED BY <1>2, <1>3, <1>4

\* What the copy of a frame writes.
LEMMA CopySteps ==
  ASSUME TypeOK
  PROVE  /\ content[cur] \in Nat /\ startTs + relTs \in Nat
         /\ CopyTop => /\ frame' \in FrameType /\ frame'.stamp = frame.stamp
                       /\ frame'.px["top"] = content[cur]
                       /\ frame'.px["bottom"] = frame.px["bottom"]
                       /\ frame'.data = frame.data
         /\ CopyBottom => /\ frame' \in FrameType /\ frame'.stamp = frame.stamp
                          /\ frame'.px["bottom"] = content[cur]
                          /\ frame'.px["top"] = frame.px["top"]
                          /\ frame'.data = frame.data
         /\ StampFrame => /\ frame' \in FrameType /\ frame'.stamp = startTs + relTs
                          /\ frame'.px = frame.px /\ frame'.data = frame.data
<1>1. frame \in FrameType /\ "top" \in Halves /\ "bottom" \in Halves
  BY DEF TypeOK, FrameType, Halves
<1>2. content[cur] \in Nat /\ startTs + relTs \in Nat
  BY BoundsAssumption DEF TypeOK
<1>3. ASSUME CopyTop
      PROVE  /\ frame' \in FrameType /\ frame'.stamp = frame.stamp
             /\ frame'.px["top"] = content[cur]
             /\ frame'.px["bottom"] = frame.px["bottom"]
             /\ frame'.data = frame.data
  <2>1. frame' = [frame EXCEPT !.px["top"] = content[cur]]
    BY <1>3 DEF CopyTop
  <2> QED BY <1>1, <1>2, <2>1 DEF FrameType, Pixels
<1>4. ASSUME CopyBottom
      PROVE  /\ frame' \in FrameType /\ frame'.stamp = frame.stamp
             /\ frame'.px["bottom"] = content[cur]
             /\ frame'.px["top"] = frame.px["top"]
             /\ frame'.data = frame.data
  <2>1. frame' = [frame EXCEPT !.px["bottom"] = content[cur]]
    BY <1>4 DEF CopyBottom
  <2> QED BY <1>1, <1>2, <2>1 DEF FrameType, Pixels
<1>5. ASSUME StampFrame
      PROVE  /\ frame' \in FrameType /\ frame'.stamp = startTs + relTs
             /\ frame'.px = frame.px /\ frame'.data = frame.data
  <2>1. frame' = [frame EXCEPT !.stamp = startTs + relTs]
    BY <1>5 DEF StampFrame
  <2> QED BY <1>1, <1>2, <2>1 DEF FrameType
<1> QED BY <1>2, <1>3, <1>4, <1>5

MainType ==
  /\ main \in {"ctor", "control", "spin", "drain", "ledOff", "join", "closed"}
  /\ txLeft \in Nat /\ tx \in {"idle", "len", "set", "get"} /\ inited \in BOOLEAN
DeviceType ==
  /\ fd \in BOOLEAN /\ mapped \in BOOLEAN /\ stop \in BOOLEAN /\ com \in {"free", "main"}
GrabType ==
  /\ gpc \in {"none", "spawned", "loop", "dequeue", "stampFirst", "lock", "copyTop",
              "copyBottom", "stamp", "announce", "requeue", "done"}
  /\ cur \in Buffers /\ match \in BOOLEAN /\ first \in BOOLEAN
  /\ startTs \in {0, Epoch} /\ initTs \in Nat /\ relTs \in Nat
SharedType == frame \in FrameType /\ new \in BOOLEAN /\ mutex \in {"free", "grab"}
DriverType ==
  /\ produced \in 0..MaxFrames
  /\ queued \in Seq(Buffers) /\ done \in Seq([buf : Buffers, complete : BOOLEAN])
  /\ content \in [Buffers -> Nat]
NodeType ==
  /\ rpc \in [Callbacks -> {"idle", "poll", "take", "copy", "check", "mark", "top",
                           "bottom", "publish"}]
  /\ tries \in [Callbacks -> 0..PollLimit]
  /\ got \in [Callbacks -> Nat] /\ shot \in [Callbacks -> Pixels]
  /\ lastImg \in Nat /\ topic \in Seq([stamp : Nat, px : Pixels])

\* TypeOK by the parts of the system.
LEMMA TypeParts ==
  /\ TypeOK <=> MainType /\ DeviceType /\ GrabType /\ SharedType /\ DriverType /\ NodeType
  /\ TypeOK' <=> MainType' /\ DeviceType' /\ GrabType' /\ SharedType' /\ DriverType' /\ NodeType'
<1>1. TypeOK <=> MainType /\ DeviceType /\ GrabType /\ SharedType /\ DriverType /\ NodeType
  BY ZenonT(30) DEF TypeOK, MainType, DeviceType, GrabType, SharedType, DriverType, NodeType, FrameType
<1>2. TypeOK' <=> MainType' /\ DeviceType' /\ GrabType' /\ SharedType' /\ DriverType' /\ NodeType'
  BY ZenonT(30) DEF TypeOK, MainType, DeviceType, GrabType, SharedType, DriverType, NodeType, FrameType
<1> QED BY <1>1, <1>2

\* What is left alone keeps its type.
LEMMA TypeKept ==
  /\ MainType /\ UNCHANGED mainVars => MainType'
  /\ DeviceType /\ UNCHANGED <<deviceVars, stop, com>> => DeviceType'
  /\ GrabType /\ UNCHANGED grabVars => GrabType'
  /\ SharedType /\ UNCHANGED <<frame, new, mutex>> => SharedType'
  /\ DriverType /\ UNCHANGED driverVars => DriverType'
  /\ NodeType /\ UNCHANGED nodeVars => NodeType'
<1>1. MainType /\ UNCHANGED mainVars => MainType'
  BY DEF MainType, mainVars
<1>2. DeviceType /\ UNCHANGED <<deviceVars, stop, com>> => DeviceType'
  BY DEF DeviceType, deviceVars
<1>3. GrabType /\ UNCHANGED grabVars => GrabType'
  BY DEF GrabType, grabVars
<1>4. SharedType /\ UNCHANGED <<frame, new, mutex>> => SharedType'
  BY DEF SharedType
<1>5. DriverType /\ UNCHANGED driverVars => DriverType'
  BY DEF DriverType, driverVars
<1>6. NodeType /\ UNCHANGED nodeVars => NodeType'
  BY DEF NodeType, nodeVars
<1> QED BY <1>1, <1>2, <1>3, <1>4, <1>5, <1>6

\* The types hold in the constructor.
LEMMA TypeInit == Init => TypeOK
<1> SUFFICES ASSUME Init PROVE TypeOK
  OBVIOUS
<1>1. NoPixels \in Pixels /\ 0 \in Buffers /\ PollLimit \in 0..PollLimit /\ 0 \in 0..PollLimit
  BY BoundsAssumption DEF NoPixels, Pixels, Buffers
<1>2. MainType /\ DeviceType
  <2>1. txLeft \in Nat
    BY BoundsAssumption DEF Init
  <2> QED BY <2>1 DEF Init, MainType, DeviceType
<1>3. GrabType
  BY <1>1 DEF Init, GrabType
<1>4. SharedType
  BY <1>1 DEF Init, SharedType, FrameType
<1>5. DriverType
  BY BoundsAssumption DEF Init, DriverType
<1>6. NodeType
  <2>1. /\ rpc = [r \in Callbacks |-> "idle"] /\ tries = [r \in Callbacks |-> 0]
        /\ got = [r \in Callbacks |-> 0] /\ shot = [r \in Callbacks |-> NoPixels]
        /\ lastImg = 0 /\ topic = <<>>
    BY DEF Init
  <2> QED BY <1>1, <2>1 DEF NodeType
<1> QED BY <1>2, <1>3, <1>4, <1>5, <1>6, TypeParts

\* Every step keeps the types.
LEMMA TypeStep ==
  ASSUME TypeOK, LifeInv, ClockInv, [Next]_vars
  PROVE  TypeOK'
<1> USE TypeParts, TypeKept
<1>1. CASE Deliver
  <2>1. produced' \in 0..MaxFrames /\ produced + 1 \in Nat
    BY <1>1, BoundsAssumption DEF Deliver, DriverType
  <2>2. DriverType'
    <3>1. CASE queued = <<>>
      BY <1>1, <2>1, <3>1 DEF Deliver, DriverType
    <3>2. CASE queued # <<>>
      <4>1. Head(queued) \in Buffers /\ queued' \in Seq(Buffers)
        <5>1. queued' = Tail(queued) /\ queued \in Seq(Buffers)
          BY <1>1, <3>2 DEF Deliver, DriverType
        <5> QED BY <3>2, <5>1, TailFacts
      <4>2. done' \in Seq([buf : Buffers, complete : BOOLEAN])
        <5>1. PICK complete \in BOOLEAN :
                done' = Append(done, [buf |-> Head(queued), complete |-> complete])
          BY <1>1, <3>2 DEF Deliver
        <5>2. [buf |-> Head(queued), complete |-> complete] \in [buf : Buffers, complete : BOOLEAN]
          BY <4>1
        <5> QED BY <5>1, <5>2, AppendFacts DEF DriverType
      <4>3. content' \in [Buffers -> Nat]
        BY <1>1, <2>1, <3>2, <4>1 DEF Deliver, DriverType
      <4> QED BY <2>1, <4>1, <4>2, <4>3 DEF DriverType
    <3> QED BY <3>1, <3>2
  <2> QED BY <1>1, <2>2 DEF Deliver
<1>2. CASE InitializeVideo
  <2>1. PICK started, isMapped, hasFrame, isOpen \in BOOLEAN :
          /\ fd' = isOpen /\ mapped' = isMapped /\ inited' = started
          /\ frame' = [frame EXCEPT !.data = hasFrame]
          /\ gpc' = IF started THEN "spawned" ELSE "none"
          /\ queued' = IF started THEN [i \in 1..BufCount |-> i - 1] ELSE <<>>
    BY <1>2 DEF InitializeVideo
  <2>2. SharedType'
    BY <1>2, <2>1, FrameExcept DEF InitializeVideo, SharedType
  <2>3. DriverType'
    <3>1. [i \in 1..BufCount |-> i - 1] \in [1..BufCount -> Buffers]
      BY BoundsAssumption DEF Buffers
    <3>2. queued' \in Seq(Buffers)
      BY <2>1, <3>1, BoundsAssumption, SeqDef, EmptySeq
    <3> QED BY <1>2, <3>2 DEF InitializeVideo, DriverType
  <2>4. MainType' /\ DeviceType'
    BY <1>2, <2>1 DEF InitializeVideo, MainType, DeviceType
  <2>5. GrabType'
    BY <1>2, <2>1 DEF InitializeVideo, GrabType
  <2> QED BY <1>2, <2>2, <2>3, <2>4, <2>5 DEF InitializeVideo
<1>3. CASE Pass
  <2>1. UNCHANGED <<deviceVars, grabVars, frame, new, mutex, driverVars, nodeVars, inited>>
    BY <1>3, PassStep
  <2>2. MainType'
    <3>1. main' \in {"ctor", "control", "spin", "drain", "ledOff", "join", "closed"}
      BY <1>3 DEF Pass, Control, ControlLock, ControlStep, ControlEnd, Spin, Interrupt,
                  ResetStart, StopRequest, MainType
    <3>2. tx' \in {"idle", "len", "set", "get"}
      BY <1>3 DEF Pass, Control, ControlLock, ControlStep, ControlEnd, Spin, Interrupt,
                  ResetStart, StopRequest, MainType
    <3>3. txLeft' \in Nat
      <4>1. CASE ControlEnd
        <5>1. txLeft # 0
          BY <4>1 DEF ControlEnd, LifeInv
        <5> QED BY <4>1, <5>1 DEF ControlEnd, MainType
      <4>2. CASE Pass /\ ~ControlEnd
        BY <4>2 DEF Pass, Control, ControlLock, ControlStep, Spin, Interrupt,
                    ResetStart, StopRequest, MainType
      <4> QED BY <1>3, <4>1, <4>2
    <3> QED BY <2>1, <3>1, <3>2, <3>3 DEF MainType
  <2>3. stop' \in BOOLEAN /\ com' \in {"free", "main"}
    BY <1>3 DEF Pass, Control, ControlLock, ControlStep, ControlEnd, Spin, Interrupt,
                ResetStart, StopRequest, DeviceType
  <2> QED BY <2>1, <2>2, <2>3 DEF DeviceType, deviceVars
<1>4. CASE ResetFinish
  <2>1. SharedType'
    BY <1>4, FrameExcept DEF ResetFinish, ReleaseDevice, SharedType
  <2>2. DriverType'
    BY <1>4 DEF ResetFinish, ReleaseDevice, DriverType
  <2>3. MainType' /\ DeviceType'
    BY <1>4 DEF ResetFinish, ReleaseDevice, MainType, DeviceType
  <2> QED BY <1>4, <2>1, <2>2, <2>3 DEF ResetFinish, ReleaseDevice
<1>5. CASE GrabStart
  <2>1. GrabType'
    <3>1. 0 \in Buffers
      BY BoundsAssumption DEF Buffers
    <3> QED BY <1>5, <3>1 DEF GrabStart, GrabType
  <2>2. DeviceType' /\ SharedType'
    BY <1>5 DEF GrabStart, DeviceType, SharedType, deviceVars
  <2> QED BY <1>5, <2>1, <2>2 DEF GrabStart
<1>6. CASE GrabTest \/ DequeueNothing \/ LockFrame \/ Announce
  <2>1. GrabType'
    BY <1>6 DEF GrabTest, DequeueNothing, LockFrame, Announce, GrabType
  <2>2. SharedType'
    BY <1>6 DEF GrabTest, DequeueNothing, LockFrame, Announce, SharedType
  <2> QED BY <1>6, <2>1, <2>2 DEF GrabTest, DequeueNothing, LockFrame, Announce
<1>7. CASE Dequeue
  <2>1. /\ done' \in Seq([buf : Buffers, complete : BOOLEAN])
        /\ Head(done) \in [buf : Buffers, complete : BOOLEAN]
    <3>1. done \in Seq([buf : Buffers, complete : BOOLEAN])
      BY DEF DriverType
    <3>2. done # <<>> /\ done' = Tail(done)
      BY <1>7 DEF Dequeue
    <3> QED BY <3>1, <3>2, TailFacts
  <2>2. DriverType'
    BY <1>7, <2>1 DEF Dequeue, DriverType
  <2>3. Head(done).buf \in Buffers /\ Head(done).complete \in BOOLEAN
    BY <2>1
  <2>4. GrabType'
    BY <1>7, <2>3 DEF Dequeue, GrabType
  <2> QED BY <1>7, <2>2, <2>4 DEF Dequeue
<1>8. CASE StampFirst
  <2>1. content[cur] \in Nat /\ initTs \in Nat /\ relTs \in Nat
    BY DEF DriverType, GrabType
  <2>2. initTs' \in Nat /\ relTs' \in Nat /\ startTs' \in {0, Epoch}
    BY <1>8, <2>1 DEF StampFirst, ClockInv, Newest, GrabType
  <2>3. GrabType'
    BY <1>8, <2>2 DEF StampFirst, GrabType
  <2> QED BY <1>8, <2>3 DEF StampFirst
<1>9. CASE CopyTop \/ CopyBottom \/ StampFrame
  <2>1. SharedType'
    BY <1>9, CopySteps DEF CopyTop, CopyBottom, StampFrame, SharedType
  <2>2. GrabType'
    BY <1>9 DEF CopyTop, CopyBottom, StampFrame, GrabType
  <2> QED BY <1>9, <2>1, <2>2 DEF CopyTop, CopyBottom, StampFrame
<1>10. CASE Requeue
  <2>1. queued' \in Seq(Buffers)
    BY <1>10, AppendFacts DEF Requeue, DriverType, GrabType
  <2>2. DriverType'
    BY <1>10, <2>1 DEF Requeue, DriverType
  <2>3. GrabType'
    BY <1>10 DEF Requeue, GrabType
  <2> QED BY <1>10, <2>2, <2>3 DEF Requeue
<1>11. ASSUME NEW r \in Callbacks, CallbackStart(r) \/ Step(r)
       PROVE  TypeOK'
  <2>1. UNCHANGED <<mainVars, deviceVars, stop, com, grabVars, frame, mutex, driverVars>>
    BY <1>11, CallbackFrame
  <2>2. frame.stamp \in Nat /\ frame.px \in Pixels
    BY DEF SharedType, FrameType
  <2>3. /\ rpc' \in [Callbacks -> {"idle", "poll", "take", "copy", "check", "mark", "top",
                           "bottom", "publish"}]
        /\ new' \in BOOLEAN
    BY <1>11 DEF CallbackStart, Step, Poll, Take, CopyFrame, Check, Mark, ConvertTop,
        ConvertBottom, Convert, PublishImages, Goto, NodeType, SharedType
  <2>4. tries' \in [Callbacks -> 0..PollLimit]
    BY <1>11, BoundsAssumption DEF CallbackStart, Step, Poll, Take, CopyFrame, Check, Mark, ConvertTop,
        ConvertBottom, Convert, PublishImages, NodeType
  <2>5. got' \in [Callbacks -> Nat] /\ lastImg' \in Nat
    BY <1>11, <2>2 DEF CallbackStart, Step, Poll, Take, CopyFrame, Check, Mark, ConvertTop,
        ConvertBottom, Convert, PublishImages, NodeType
  <2>6. shot' \in [Callbacks -> Pixels]
    <3>1. \A h \in Halves : [shot[r] EXCEPT ![h] = frame.px[h]] \in Pixels
      BY <2>2 DEF NodeType, Pixels
    <3>2. CASE ConvertTop(r) \/ ConvertBottom(r)
      BY <3>1, <3>2 DEF ConvertTop, ConvertBottom, Convert, NodeType, Halves
    <3>3. CASE ~(ConvertTop(r) \/ ConvertBottom(r))
      BY <1>11, <3>3 DEF CallbackStart, Step, Poll, Take, CopyFrame, Check, Mark, PublishImages, NodeType
    <3> QED BY <3>2, <3>3
  <2>7. topic' \in Seq([stamp : Nat, px : Pixels])
    <3>1. [stamp |-> got[r], px |-> shot[r]] \in [stamp : Nat, px : Pixels]
      BY DEF NodeType
    <3>2. CASE PublishImages(r)
      BY <3>1, <3>2, AppendFacts DEF PublishImages, NodeType
    <3>3. CASE ~PublishImages(r)
      BY <1>11, <3>3 DEF CallbackStart, Step, Poll, Take, CopyFrame, Check, Mark, ConvertTop,
        ConvertBottom, Convert, NodeType
    <3> QED BY <3>2, <3>3
  <2>8. NodeType'
    BY <2>3, <2>4, <2>5, <2>6, <2>7 DEF NodeType
  <2>9. SharedType'
    BY <2>1, <2>3 DEF SharedType
  <2> QED BY <2>1, <2>8, <2>9
<1>12. CASE UNCHANGED vars
  BY <1>12 DEF vars
<1> QED BY <1>1, <1>2, <1>3, <1>4, <1>5, <1>6, <1>7, <1>8, <1>9, <1>10, <1>11, <1>12,
           NextCases DEF Grab

-----------------------------------------------------------------------------
(* The life of the thread and of the buffers. *)

\* The thread starts with the stream and the stream ends after the thread.
LEMMA LifeStep ==
  ASSUME TypeOK, LifeInv, [Next]_vars
  PROVE  LifeInv'
<1> USE DEF LifeInv, Alive
<1>1. CASE Deliver
  BY <1>1 DEF Deliver, mainVars, grabVars, Streaming
<1>2. CASE InitializeVideo
  <2>1. /\ gpc' \in {"none", "spawned"} /\ main' = "control" /\ done' = done
        /\ UNCHANGED <<tx, txLeft>>
    BY <1>2 DEF InitializeVideo
  <2>2. gpc' = "spawned" => inited'
    BY <1>2 DEF InitializeVideo
  <2>3. ~inited' => queued' = <<>>
    BY <1>2 DEF InitializeVideo
  <2>4. done = <<>>
    BY <1>2 DEF InitializeVideo, Streaming
  <2> QED BY <2>1, <2>2, <2>3, <2>4 DEF Streaming
<1>3. CASE Pass
  <2>1. tx' # "idle" => txLeft' # 0
    BY <1>3 DEF Pass, Control, ControlLock, ControlStep, ControlEnd, Spin, Interrupt,
                ResetStart, StopRequest
  <2> QED BY <1>3, <2>1, PassStep DEF grabVars, driverVars
<1>4. CASE ResetFinish
  BY <1>4 DEF ResetFinish, ReleaseDevice, grabVars, Streaming
<1>5. CASE Grab
  <2>1. UNCHANGED mainVars /\ gpc \in {"spawned", "loop", "dequeue", "stampFirst", "lock", "copyTop",
              "copyBottom", "stamp", "announce", "requeue"}
    BY <1>5 DEF Grab, GrabStart, GrabTest, Dequeue, DequeueNothing, StampFirst, LockFrame,
                CopyTop, CopyBottom, StampFrame, Announce, Requeue
  <2> QED BY <2>1 DEF Streaming, mainVars
<1>6. ASSUME NEW r \in Callbacks, CallbackStart(r) \/ Step(r)
      PROVE  LifeInv'
  BY <1>6, CallbackFrame DEF mainVars, grabVars, driverVars, Streaming
<1>7. CASE UNCHANGED vars
  BY <1>7 DEF vars, mainVars, grabVars, driverVars, Streaming
<1> QED BY <1>1, <1>2, <1>3, <1>4, <1>5, <1>6, <1>7, NextCases

\* No step takes from the grab thread what it uses.
LEMMA MemoryStep ==
  ASSUME TypeOK, MemoryAliveWhileGrabbing, [Next]_vars
  PROVE  MemoryAliveWhileGrabbing'
<1> USE DEF MemoryAliveWhileGrabbing
<1>1. CASE Deliver \/ ResetFinish \/ UNCHANGED vars
  BY <1>1 DEF Deliver, ResetFinish, ReleaseDevice, vars, grabVars, deviceVars
<1>2. CASE InitializeVideo
  BY <1>2, FrameExcept DEF InitializeVideo, TypeOK, FrameType
<1>3. CASE Pass
  BY <1>3, PassStep DEF grabVars, deviceVars
<1>4. CASE CopyTop \/ CopyBottom \/ StampFrame
  <2>1. frame'.data = frame.data
    BY <1>4, CopySteps
  <2> QED BY <1>4, <2>1 DEF CopyTop, CopyBottom, StampFrame, deviceVars
<1>5. CASE Grab /\ ~(CopyTop \/ CopyBottom \/ StampFrame)
  BY <1>5 DEF Grab, GrabStart, GrabTest, Dequeue, DequeueNothing, StampFirst, LockFrame,
              Announce, Requeue, deviceVars
<1>6. ASSUME NEW r \in Callbacks, CallbackStart(r) \/ Step(r)
      PROVE  MemoryAliveWhileGrabbing'
  BY <1>6, CallbackFrame DEF grabVars, deviceVars
<1> QED BY <1>1, <1>2, <1>3, <1>4, <1>5, <1>6, NextCases

-----------------------------------------------------------------------------
(* Who owns the buffers. *)

DoneType == [buf : Buffers, complete : BOOLEAN]

\* Steps that move no buffer keep the owners.
LEMMA OwnerKept ==
  ASSUME OwnerInv, UNCHANGED <<queued, done, cur>>, Streaming' = Streaming,
         Copying' => Copying,
         Copying \/ gpc = "requeue" => Copying' \/ gpc' = "requeue"
  PROVE  OwnerInv'
<1>1. \A b \in Buffers : InDriver(b)' <=> InDriver(b)
  BY DEF InDriver
<1>2. InDriver(cur)' <=> InDriver(cur)
  BY DEF InDriver
<1> QED BY <1>1, <1>2 DEF OwnerInv, Copying

\* Filling, dequeuing and giving back move one buffer, stale QBUF none.
LEMMA OwnerStep ==
  ASSUME TypeOK, LifeInv, OwnerInv, [Next]_vars
  PROVE  OwnerInv'
<1>1. queued \in Seq(Buffers) /\ done \in Seq(DoneType)
  BY DEF TypeOK, DoneType
<1>2. CASE Deliver /\ queued # <<>>
  <2>1. PICK complete \in BOOLEAN :
          done' = Append(done, [buf |-> Head(queued), complete |-> complete])
    BY <1>2 DEF Deliver
  <2>2. PICK e \in DoneType : e.buf = queued[1] /\ done' = Append(done, e)
    <3>1. [buf |-> Head(queued), complete |-> complete] \in DoneType
      BY <1>1, <1>2, TailFacts DEF DoneType
    <3> QED BY <1>1, <1>2, <2>1, <3>1, TailFacts
  <2>3. queued' = Tail(queued) /\ UNCHANGED <<cur, gpc>> /\ Streaming' = Streaming
    BY <1>2 DEF Deliver, grabVars, mainVars, Streaming
  <2>4. /\ 1 \in DOMAIN queued
        /\ \A i \in DOMAIN queued' : i + 1 \in DOMAIN queued /\ i + 1 # 1 /\ i \in Nat
                                       /\ queued'[i] = queued[i + 1]
        /\ \A j \in DOMAIN queued : j # 1 => j - 1 \in DOMAIN queued' /\ queued'[j - 1] = queued[j]
    BY <1>1, <1>2, <2>3, TailFacts
  <2>5. /\ \A i \in DOMAIN done : i \in DOMAIN done' /\ done'[i] = done[i]
        /\ Len(done) + 1 \in DOMAIN done' /\ done'[Len(done) + 1].buf = queued[1]
        /\ \A i \in DOMAIN done' : i \in DOMAIN done \/ i = Len(done) + 1
    BY <1>1, <2>2, AppendFacts
  <2>6. \A i, j \in DOMAIN queued' : queued'[i] = queued'[j] => i = j
    BY <2>4 DEF OwnerInv
  <2>7. \A i, j \in DOMAIN done' : done'[i].buf = done'[j].buf => i = j
    BY <2>4, <2>5 DEF OwnerInv
  <2>8. \A i \in DOMAIN queued', j \in DOMAIN done' : queued'[i] # done'[j].buf
    <3>1. \A i \in DOMAIN queued' : queued'[i] # queued[1]
      BY <2>4 DEF OwnerInv
    <3> QED BY <2>4, <2>5, <3>1 DEF OwnerInv
  <2>9. \A b : InDriver(b)' <=> InDriver(b)
    <3>1. ASSUME NEW b, InDriver(b)' PROVE InDriver(b)
      <4>1. CASE \E i \in DOMAIN queued' : queued'[i] = b
        BY <2>4, <4>1 DEF InDriver
      <4>2. CASE \E i \in DOMAIN done' : done'[i].buf = b
        BY <2>4, <2>5, <4>2 DEF InDriver
      <4> QED BY <3>1, <4>1, <4>2 DEF InDriver
    <3>2. ASSUME NEW b, InDriver(b) PROVE InDriver(b)'
      <4>1. CASE \E i \in DOMAIN queued : queued[i] = b
        BY <2>4, <2>5, <4>1 DEF InDriver
      <4>2. CASE \E i \in DOMAIN done : done[i].buf = b
        BY <2>5, <4>2 DEF InDriver
      <4> QED BY <3>2, <4>1, <4>2 DEF InDriver
    <3> QED BY <3>1, <3>2
  <2>10. Copying' = Copying /\ (InDriver(cur)' <=> InDriver(cur))
    BY <2>3, <2>9 DEF Copying, InDriver
  <2> QED BY <2>3, <2>6, <2>7, <2>8, <2>9, <2>10 DEF OwnerInv
<1>3. CASE Deliver /\ queued = <<>>
  BY <1>3, OwnerKept DEF Deliver, grabVars, mainVars, Streaming, Copying
<1>4. CASE InitializeVideo
  <2>1. done' = <<>> /\ ~Copying'
    BY <1>4 DEF InitializeVideo, LifeInv, Streaming, Copying
  <2>2. CASE inited'
    <3>1. queued' = [i \in 1..BufCount |-> i - 1]
      BY <1>4, <2>2 DEF InitializeVideo
    <3>2. /\ DOMAIN queued' = 1..BufCount
          /\ \A i \in 1..BufCount : queued'[i] = i - 1
          /\ \A b \in Buffers : b + 1 \in 1..BufCount /\ queued'[b + 1] = b
      BY <3>1, BoundsAssumption DEF Buffers
    <3>3. \A b \in Buffers : InDriver(b)'
      BY <3>2 DEF InDriver
    <3>4. DOMAIN done' = {}
      BY <2>1
    <3>5. \A i, j \in DOMAIN queued' : queued'[i] = queued'[j] => i = j
      BY <3>2, BoundsAssumption
    <3> QED BY <2>1, <3>3, <3>4, <3>5 DEF OwnerInv
  <2>3. CASE ~inited'
    <3>1. queued' = <<>> /\ ~Streaming'
      BY <1>4, <2>3 DEF InitializeVideo, Streaming
    <3>2. DOMAIN done' = {} /\ DOMAIN queued' = {}
      BY <2>1, <3>1
    <3> QED BY <2>1, <3>1, <3>2 DEF OwnerInv
  <2> QED BY <2>2, <2>3
<1>5. CASE Pass
  BY <1>5, PassStep, OwnerKept DEF grabVars, driverVars, Copying
<1>6. CASE ResetFinish
  <2>1. queued' = <<>> /\ done' = <<>> /\ ~Copying' /\ ~Streaming'
    BY <1>6 DEF ResetFinish, ReleaseDevice, Copying, Streaming, grabVars
  <2>2. DOMAIN done' = {} /\ DOMAIN queued' = {}
    BY <2>1
  <2> QED BY <2>1, <2>2 DEF OwnerInv
<1>7. CASE Dequeue
  <2>1. /\ done # <<>> /\ done' = Tail(done) /\ cur' = done[1].buf /\ queued' = queued
        /\ (Copying' \/ gpc' = "requeue") /\ ~Copying /\ gpc # "requeue"
        /\ Streaming' = Streaming
    BY <1>1, <1>7, TailFacts DEF Dequeue, mainVars, Streaming, Copying
  <2>2. /\ 1 \in DOMAIN done
        /\ \A i \in DOMAIN done' : i + 1 \in DOMAIN done /\ i + 1 # 1 /\ i \in Nat
                                     /\ done'[i] = done[i + 1]
        /\ \A j \in DOMAIN done : j # 1 => j - 1 \in DOMAIN done' /\ done'[j - 1] = done[j]
    BY <1>1, <2>1, TailFacts
  <2>3. \A i, j \in DOMAIN done' : done'[i].buf = done'[j].buf => i = j
    BY <2>2 DEF OwnerInv
  <2>4. \A i \in DOMAIN queued', j \in DOMAIN done' : queued'[i] # done'[j].buf
    BY <2>1, <2>2 DEF OwnerInv
  <2>5. ~InDriver(cur)'
    <3>1. \A i \in DOMAIN done' : done'[i].buf # done[1].buf
      BY <2>2 DEF OwnerInv
    <3>2. \A i \in DOMAIN queued' : queued'[i] # done[1].buf
      BY <2>1, <2>2 DEF OwnerInv
    <3> QED BY <2>1, <3>1, <3>2 DEF InDriver
  <2>6. ASSUME NEW b \in Buffers, Streaming, b # cur' PROVE InDriver(b)'
    <3>1. InDriver(b)
      BY <2>1, <2>6 DEF OwnerInv
    <3>2. CASE \E i \in DOMAIN queued : queued[i] = b
      BY <2>1, <3>2 DEF InDriver
    <3>3. CASE \E i \in DOMAIN done : done[i].buf = b
      <4>1. PICK i \in DOMAIN done : done[i].buf = b
        BY <3>3
      <4>2. i # 1
        BY <2>1, <2>6, <4>1
      <4>3. i - 1 \in DOMAIN done' /\ done'[i - 1].buf = b
        BY <2>2, <4>1, <4>2
      <4> QED BY <4>3 DEF InDriver
    <3> QED BY <3>1, <3>2, <3>3 DEF InDriver
  <2> QED BY <2>1, <2>3, <2>4, <2>5, <2>6 DEF OwnerInv
<1>8. CASE Requeue /\ InDriver(cur)
  <2>1. /\ UNCHANGED <<queued, done, cur>> /\ Streaming' = Streaming /\ gpc' = "loop"
        /\ ~Copying' /\ ~Copying
    BY <1>8 DEF Requeue, mainVars, Streaming, Copying
  <2>2. \A b \in Buffers : InDriver(b)' <=> InDriver(b)
    BY <2>1 DEF InDriver
  <2> QED BY <1>8, <2>1, <2>2 DEF OwnerInv
<1>9. CASE Requeue /\ ~InDriver(cur)
  <2>1. /\ queued' = Append(queued, cur) /\ done' = done /\ cur' = cur
        /\ Streaming' = Streaming /\ ~Copying' /\ ~Copying
    BY <1>9 DEF Requeue, mainVars, Streaming, Copying
  <2>2. /\ \A i \in DOMAIN queued : i \in DOMAIN queued' /\ queued'[i] = queued[i]
        /\ Len(queued) + 1 \in DOMAIN queued' /\ queued'[Len(queued) + 1] = cur
        /\ \A i \in DOMAIN queued' : i \in DOMAIN queued \/ i = Len(queued) + 1
    BY <1>1, <2>1, AppendFacts DEF TypeOK
  <2>3. /\ \A i \in DOMAIN queued : queued[i] # cur
        /\ \A i \in DOMAIN done : done[i].buf # cur
    BY <1>9 DEF InDriver
  <2>4. \A i, j \in DOMAIN queued' : queued'[i] = queued'[j] => i = j
    BY <2>2, <2>3 DEF OwnerInv
  <2>5. \A i \in DOMAIN queued', j \in DOMAIN done' : queued'[i] # done'[j].buf
    BY <2>1, <2>2, <2>3 DEF OwnerInv
  <2>6. ASSUME NEW b \in Buffers, Streaming PROVE InDriver(b)'
    <3>1. CASE b = cur
      BY <2>2, <3>1 DEF InDriver
    <3>2. CASE b # cur
      <4>1. InDriver(b)
        BY <2>6, <3>2 DEF OwnerInv
      <4> QED BY <2>1, <2>2, <4>1 DEF InDriver
    <3> QED BY <3>1, <3>2
  <2> QED BY <2>1, <2>4, <2>5, <2>6 DEF OwnerInv
<1>10. CASE GrabStart \/ GrabTest \/ DequeueNothing
  <2>1. /\ UNCHANGED <<queued, done>> /\ Streaming' = Streaming /\ ~Copying' /\ ~Copying
        /\ gpc # "requeue"
    BY <1>10 DEF GrabStart, GrabTest, DequeueNothing, mainVars, driverVars, Streaming, Copying
  <2>2. \A b \in Buffers : InDriver(b)' <=> InDriver(b)
    BY <2>1 DEF InDriver
  <2> QED BY <2>1, <2>2 DEF OwnerInv
<1>11. CASE StampFirst \/ LockFrame \/ CopyTop \/ CopyBottom \/ StampFrame \/ Announce
  <2>1. /\ UNCHANGED <<queued, done, cur>> /\ Streaming' = Streaming /\ Copying
        /\ (Copying' \/ gpc' = "requeue")
    BY <1>11 DEF StampFirst, LockFrame, CopyTop, CopyBottom, StampFrame, Announce, mainVars,
                 driverVars, Streaming, Copying
  <2> QED BY <2>1, OwnerKept
<1>12. ASSUME NEW r \in Callbacks, CallbackStart(r) \/ Step(r)
       PROVE  OwnerInv'
  <2>1. UNCHANGED <<mainVars, grabVars, driverVars>>
    BY <1>12, CallbackFrame
  <2> QED BY <2>1, OwnerKept DEF mainVars, grabVars, driverVars, Streaming, Copying
<1>13. CASE UNCHANGED vars
  BY <1>13, OwnerKept DEF vars, mainVars, grabVars, driverVars, Streaming, Copying
<1> QED BY <1>2, <1>3, <1>4, <1>5, <1>6, <1>7, <1>8, <1>9, <1>10, <1>11, <1>12, <1>13,
           NextCases DEF Grab

\* A buffer is with the driver once or not at all.
LEMMA TimesFacts ==
  ASSUME OwnerInv, NEW b
  PROVE  Times(b) = IF InDriver(b) THEN 1 ELSE 0
<1>1. /\ Cardinality({}) = 0 /\ \A x : Cardinality({x}) = 1
  BY FS_EmptySet, FS_Singleton
<1> DEFINE Q == {i \in DOMAIN queued : queued[i] = b}
           D == {i \in DOMAIN done : done[i].buf = b}
<1>2. Q = {} \/ \E i \in DOMAIN queued : Q = {i} /\ queued[i] = b
  BY DEF OwnerInv
<1>3. D = {} \/ \E i \in DOMAIN done : D = {i} /\ done[i].buf = b
  BY DEF OwnerInv
<1>4. Q = {} \/ D = {}
  BY DEF OwnerInv
<1>5. InDriver(b) <=> Q # {} \/ D # {}
  BY DEF InDriver
<1>6. (Cardinality(Q) = IF Q = {} THEN 0 ELSE 1) /\ (Cardinality(D) = IF D = {} THEN 0 ELSE 1)
  BY <1>1, <1>2, <1>3
<1>7. Times(b) = Cardinality(Q) + Cardinality(D)
  BY DEF Times
<1> QED BY <1>4, <1>5, <1>6, <1>7

\* Being once with the driver or with the grab thread, counted.
LEMMA OneOwnerLemma == OwnerInv => OneOwner
<1> SUFFICES ASSUME OwnerInv, Streaming, NEW b \in Buffers
             PROVE  CASE b = cur /\ Copying -> Times(b) = 0
                      [] b = cur /\ gpc = "requeue" -> Times(b) <= 1
                      [] OTHER -> Times(b) = 1
  BY DEF OneOwner
<1>1. Times(b) = IF InDriver(b) THEN 1 ELSE 0
  BY TimesFacts
<1>2. CASE b = cur /\ Copying
  BY <1>1, <1>2 DEF OwnerInv, Copying
<1>3. CASE b = cur /\ gpc = "requeue"
  BY <1>1, <1>3 DEF Copying
<1>4. CASE ~(b = cur /\ Copying) /\ ~(b = cur /\ gpc = "requeue")
  BY <1>1, <1>4 DEF OwnerInv
<1> QED BY <1>2, <1>3, <1>4

-----------------------------------------------------------------------------
(* The clock. *)

\* The steps after which the clock reads as before: no buffer is filled or
\* dequeued, no frame is dated.
ClockStill ==
  /\ UNCHANGED <<produced, done, content, cur, first, startTs, initTs, relTs>>
  /\ frame'.stamp = frame.stamp
  /\ gpc' \in {"none", "spawned"} => first
  /\ gpc' \in Stamped => gpc \in Stamped
  /\ gpc' \in Stamped \ {"announce"} => gpc \in Stamped \ {"announce"}
  /\ gpc' = "stampFirst" => gpc = "stampFirst"

\* They keep the order of the buffers and of the dates.
LEMMA ClockKept ==
  ASSUME ClockInv, ClockStill
  PROVE  ClockInv'
<1>1. Copying' => Copying
  BY DEF ClockStill, Copying, Stamped
<1>2. Newest' = Newest
  BY DEF ClockStill, Newest
<1>3. /\ \A b \in Buffers : content'[b] <= produced'
      /\ \A i, j \in DOMAIN done' : i < j => content'[done'[i].buf] < content'[done'[j].buf]
      /\ ~first' => startTs' = Epoch /\ \A i \in DOMAIN done' : Newest' < content'[done'[i].buf]
      /\ Copying' => \A i \in DOMAIN done' : content'[cur'] < content'[done'[i].buf]
      /\ Newest' <= produced'
  BY <1>1, <1>2 DEF ClockStill, ClockInv
<1>4. /\ first' => /\ startTs' = 0 /\ initTs' = 0 /\ relTs' = 0 /\ frame'.stamp = 0
                   /\ gpc' \notin Stamped
      /\ gpc' \in {"none", "spawned"} => first'
      /\ gpc' = "stampFirst" /\ ~first' => Newest' < content'[cur']
      /\ gpc' \in Stamped => Newest' = content'[cur']
      /\ frame'.stamp <= startTs' + relTs'
      /\ gpc' \in Stamped \ {"announce"} => frame'.stamp < startTs' + relTs'
  BY <1>2 DEF ClockStill, ClockInv
<1> QED BY <1>3, <1>4 DEF ClockInv, Stamped

\* A filled buffer is newer than all before it, and frames are dated in that order.
LEMMA ClockStep ==
  ASSUME TypeOK, LifeInv, OwnerInv, ClockInv, [Next]_vars
  PROVE  ClockInv'
<1>1. /\ queued \in Seq(Buffers) /\ done \in Seq(DoneType) /\ content \in [Buffers -> Nat]
      /\ produced \in Nat /\ cur \in Buffers /\ initTs \in Nat /\ relTs \in Nat /\ startTs \in Nat
      /\ frame.stamp \in Nat
  BY BoundsAssumption DEF TypeOK, DoneType
<1>2. CASE Deliver /\ queued # <<>>
  <2>1. PICK complete \in BOOLEAN :
          done' = Append(done, [buf |-> Head(queued), complete |-> complete])
    BY <1>2 DEF Deliver
  <2>2. PICK e \in DoneType : e.buf = queued[1] /\ done' = Append(done, e)
    <3>1. [buf |-> Head(queued), complete |-> complete] \in DoneType
      BY <1>1, <1>2, TailFacts DEF DoneType
    <3> QED BY <1>1, <1>2, <2>1, <3>1, TailFacts
  <2>3. /\ queued[1] \in Buffers /\ 1 \in DOMAIN queued
        /\ content' = [content EXCEPT ![queued[1]] = produced + 1]
        /\ produced' = produced + 1 /\ UNCHANGED <<grabVars, frame>>
    BY <1>1, <1>2, TailFacts DEF Deliver
  <2>4. /\ \A i \in DOMAIN done : i \in Nat /\ i < Len(done) + 1 /\ i \in DOMAIN done'
                                  /\ done'[i] = done[i]
        /\ Len(done) \in Nat
        /\ Len(done) + 1 \in DOMAIN done' /\ done'[Len(done) + 1].buf = queued[1]
        /\ \A i \in DOMAIN done' : i \in DOMAIN done \/ i = Len(done) + 1
    BY <1>1, <2>2, AppendFacts
  <2>5. /\ content'[queued[1]] = produced + 1
        /\ \A b \in Buffers : b # queued[1] => content'[b] = content[b]
    BY <1>1, <2>3
  <2>6. /\ \A i \in DOMAIN done : done[i].buf # queued[1] /\ done[i].buf \in Buffers
        /\ Copying => cur # queued[1]
    <3>1. \A i \in DOMAIN done : done[i] \in DoneType
      BY <1>1
    <3> QED BY <2>3, <3>1 DEF OwnerInv, InDriver, DoneType
  <2>7. \A i \in DOMAIN done : content'[done'[i].buf] = content[done[i].buf]
                                /\ content[done[i].buf] \in Nat
                                /\ content[done[i].buf] <= produced
    BY <1>1, <2>4, <2>5, <2>6 DEF ClockInv
  <2>8. \A b \in Buffers : content'[b] <= produced'
    BY <1>1, <2>3, <2>5 DEF ClockInv
  <2>9. \A i, j \in DOMAIN done' : i < j => content'[done'[i].buf] < content'[done'[j].buf]
    <3> SUFFICES ASSUME NEW i \in DOMAIN done', NEW j \in DOMAIN done', i < j
                 PROVE  content'[done'[i].buf] < content'[done'[j].buf]
      OBVIOUS
    <3>1. i \in DOMAIN done
      BY <2>4
    <3>2. CASE j \in DOMAIN done
      BY <2>7, <3>1, <3>2 DEF ClockInv
    <3>3. CASE j = Len(done) + 1
      BY <1>1, <2>4, <2>5, <2>7, <3>1, <3>3
    <3> QED BY <2>4, <3>2, <3>3
  <2>10. /\ Newest' = Newest /\ Newest \in Nat /\ Newest <= produced
         /\ Copying' = Copying
    BY <1>1, <2>3 DEF Newest, ClockInv, grabVars, Copying
  <2>11. ~first' => startTs' = Epoch /\ \A i \in DOMAIN done' : Newest' < content'[done'[i].buf]
    <3>1. first' = first /\ startTs' = startTs
      BY <2>3 DEF grabVars
    <3>2. ~first => startTs = Epoch /\ \A i \in DOMAIN done : Newest < content[done[i].buf]
      BY DEF ClockInv
    <3>3. ASSUME ~first, NEW i \in DOMAIN done' PROVE Newest' < content'[done'[i].buf]
      <4>1. CASE i \in DOMAIN done
        BY <2>7, <2>10, <3>2, <3>3, <4>1
      <4>2. CASE i = Len(done) + 1
        BY <1>1, <2>4, <2>5, <2>10, <4>2
      <4> QED BY <2>4, <4>1, <4>2
    <3> QED BY <3>1, <3>2, <3>3
  <2>12. Copying => content'[cur] = content[cur] /\ content[cur] <= produced
                    /\ content[cur] \in Nat
    BY <1>1, <2>5, <2>6 DEF ClockInv
  <2>13. Copying' => \A i \in DOMAIN done' : content'[cur'] < content'[done'[i].buf]
    BY <1>1, <2>3, <2>4, <2>5, <2>7, <2>10, <2>12 DEF ClockInv, grabVars
  <2>14. /\ gpc' = "stampFirst" /\ ~first' => Newest' < content'[cur']
         /\ gpc' \in Stamped => Newest' = content'[cur']
         /\ Newest' <= produced'
    BY <1>1, <2>3, <2>10, <2>12 DEF ClockInv, grabVars, Copying, Stamped
  <2> QED BY <2>3, <2>8, <2>9, <2>11, <2>13, <2>14 DEF ClockInv, grabVars, Stamped
<1>3. CASE Deliver /\ queued = <<>>
  <2>1. /\ UNCHANGED <<done, content, grabVars, frame>> /\ produced' = produced + 1
    BY <1>3 DEF Deliver
  <2>2. \A b \in Buffers : content'[b] <= produced'
    BY <1>1, <2>1 DEF ClockInv
  <2>3. Newest' = Newest /\ Newest' <= produced' /\ Copying' = Copying
    BY <1>1, <2>1 DEF ClockInv, Newest, grabVars, Copying
  <2> QED BY <2>1, <2>2, <2>3 DEF ClockInv, grabVars, Stamped
<1>4. CASE InitializeVideo
  <2>1. /\ gpc' \in {"none", "spawned"} /\ gpc = "none"
        /\ UNCHANGED <<produced, done, content, cur, first, startTs, initTs, relTs>>
    BY <1>4 DEF InitializeVideo, LifeInv
  <2>2. frame'.stamp = frame.stamp
    BY <1>1, <1>4, FrameExcept DEF InitializeVideo, TypeOK, FrameType
  <2> QED BY <2>1, <2>2, ClockKept DEF ClockStill, ClockInv, Stamped
<1>5. CASE Pass
  <2>1. UNCHANGED <<grabVars, frame, driverVars>>
    BY <1>5, PassStep
  <2> QED BY <2>1, ClockKept DEF grabVars, driverVars, ClockStill, ClockInv
<1>6. CASE ResetFinish
  <2>1. /\ UNCHANGED <<grabVars, produced, content>> /\ done' = <<>>
        /\ gpc \in {"none", "done"}
    BY <1>6 DEF ResetFinish, ReleaseDevice
  <2>2. frame'.stamp = frame.stamp
    BY <1>6, FrameExcept DEF ResetFinish, ReleaseDevice, TypeOK, FrameType
  <2>3. DOMAIN done' = {} /\ Newest' = Newest /\ gpc' = gpc
    BY <2>1 DEF grabVars, Newest
  <2>4. ~Copying' /\ gpc' \notin Stamped /\ gpc' # "stampFirst"
    BY <2>1, <2>3 DEF Copying, Stamped
  <2> QED BY <2>1, <2>2, <2>3, <2>4 DEF ClockInv, grabVars
<1>7. CASE GrabStart
  <2>1. /\ UNCHANGED <<produced, done, content, startTs, initTs, frame>>
        /\ first /\ first' /\ relTs' = relTs /\ gpc' = "loop"
    BY <1>7 DEF GrabStart, ClockInv, driverVars
  <2>2. Newest' = Newest
    BY <2>1 DEF Newest
  <2> QED BY <2>1, <2>2 DEF ClockInv, Copying, Stamped
<1>8. CASE Dequeue
  <2>1. /\ done # <<>> /\ done' = Tail(done) /\ cur' = done[1].buf
        /\ gpc' \in {"stampFirst", "requeue"}
        /\ UNCHANGED <<produced, content, first, startTs, initTs, relTs, frame>>
    BY <1>1, <1>8, TailFacts DEF Dequeue
  <2>2. /\ 1 \in DOMAIN done
        /\ \A i \in DOMAIN done' : i + 1 \in DOMAIN done /\ i \in Nat /\ done'[i] = done[i + 1]
                                   /\ 1 < i + 1
    BY <1>1, <2>1, TailFacts
  <2>3. \A i, j \in DOMAIN done' : i < j => content'[done'[i].buf] < content'[done'[j].buf]
    <3> SUFFICES ASSUME NEW i \in DOMAIN done', NEW j \in DOMAIN done', i < j
                 PROVE  content[done[i + 1].buf] < content[done[j + 1].buf]
      BY <2>1, <2>2
    <3> QED BY <2>2 DEF ClockInv
  <2>4. \A i \in DOMAIN done' : content'[cur'] < content'[done'[i].buf]
    BY <2>1, <2>2 DEF ClockInv
  <2>5. Newest' = Newest
    BY <2>1 DEF Newest
  <2>6. ~first' => /\ \A i \in DOMAIN done' : Newest' < content'[done'[i].buf]
                   /\ Newest' < content'[cur']
    BY <2>1, <2>2, <2>5 DEF ClockInv
  <2>7. gpc' \notin Stamped /\ gpc' \notin {"none", "spawned"}
    BY <2>1 DEF Stamped
  <2> QED BY <2>1, <2>3, <2>4, <2>5, <2>6, <2>7 DEF ClockInv
<1>9. CASE StampFirst
  <2>1. /\ gpc = "stampFirst" /\ gpc' = "lock" /\ ~first'
        /\ startTs' = (IF first THEN Epoch ELSE startTs)
        /\ initTs' = (IF first THEN content[cur] ELSE initTs)
        /\ relTs' = content[cur] - initTs'
        /\ UNCHANGED <<produced, done, content, cur, frame>>
    BY <1>9 DEF StampFirst, driverVars
  <2>2. content[cur] \in Nat /\ content[cur] <= produced /\ Epoch \in Nat /\ Epoch > 0
    BY <1>1, BoundsAssumption DEF ClockInv
  <2>3. Newest' = content[cur] /\ startTs' = Epoch
    BY <1>1, <2>1, <2>2 DEF Newest, ClockInv
  <2>4. frame.stamp < startTs' + relTs'
    <3>1. CASE first
      <4>1. frame.stamp = 0
        BY <3>1 DEF ClockInv
      <4>2. relTs' = 0
        BY <2>1, <2>2, <3>1
      <4> QED BY <2>2, <2>3, <4>1, <4>2
    <3>2. CASE ~first
      <4>1. Newest < content[cur] /\ frame.stamp <= startTs + relTs
        BY <2>1, <3>2 DEF ClockInv
      <4> QED BY <1>1, <2>1, <2>2, <3>2, <4>1 DEF Newest
    <3> QED BY <3>1, <3>2
  <2>5. \A i \in DOMAIN done' : Newest' < content'[done'[i].buf]
    BY <2>1, <2>3 DEF ClockInv, Copying
  <2>6. /\ \A i \in DOMAIN done' : content'[cur'] < content'[done'[i].buf]
        /\ Newest' = content'[cur'] /\ Newest' <= produced'
    BY <2>1, <2>2, <2>3, <2>5
  <2>7. /\ \A b \in Buffers : content'[b] <= produced'
        /\ \A i, j \in DOMAIN done' : i < j => content'[done'[i].buf] < content'[done'[j].buf]
    BY <2>1 DEF ClockInv
  <2>8. frame'.stamp < startTs' + relTs' /\ frame'.stamp <= startTs' + relTs'
    BY <1>1, <2>1, <2>2, <2>3, <2>4
  <2> QED BY <2>1, <2>3, <2>5, <2>6, <2>7, <2>8 DEF ClockInv
<1>10. CASE CopyTop \/ CopyBottom
  <2>1. frame'.stamp = frame.stamp
    BY <1>10, CopySteps
  <2> QED BY <1>10, <2>1, ClockKept DEF CopyTop, CopyBottom, ClockStill, driverVars, Stamped
<1>11. CASE StampFrame
  <2>1. /\ frame'.stamp = startTs + relTs /\ gpc = "stamp" /\ gpc' = "announce"
        /\ UNCHANGED <<produced, done, content, cur, first, startTs, initTs, relTs>>
    BY <1>11, CopySteps DEF StampFrame, driverVars
  <2>2. ~first /\ Newest' = Newest
    BY <2>1 DEF ClockInv, Stamped, Newest
  <2>3. frame'.stamp <= startTs' + relTs'
    BY <1>1, <2>1
  <2>4. Copying /\ gpc \in Stamped /\ gpc' \notin {"none", "spawned", "stampFirst"}
        /\ gpc' \notin Stamped \ {"announce"}
    BY <2>1 DEF Copying, Stamped
  <2> QED BY <2>1, <2>2, <2>3, <2>4 DEF ClockInv
<1>12. CASE GrabTest \/ DequeueNothing \/ LockFrame \/ Announce \/ Requeue
  <2>1. UNCHANGED <<produced, done, content, cur, first, startTs, initTs, relTs, frame>>
    BY <1>12 DEF GrabTest, DequeueNothing, LockFrame, Announce, Requeue, driverVars
  <2>2. /\ gpc' \in {"loop", "dequeue", "done", "requeue", "copyTop"}
        /\ gpc' = "copyTop" => gpc = "lock"
    BY <1>12 DEF GrabTest, DequeueNothing, LockFrame, Announce, Requeue
  <2> QED BY <2>1, <2>2, ClockKept DEF ClockStill, Stamped
<1>13. ASSUME NEW r \in Callbacks, CallbackStart(r) \/ Step(r)
       PROVE  ClockInv'
  <2>1. UNCHANGED <<grabVars, driverVars, frame>>
    BY <1>13, CallbackFrame
  <2> QED BY <2>1, ClockKept DEF grabVars, driverVars, ClockStill, ClockInv
<1>14. CASE UNCHANGED vars
  BY <1>14, ClockKept DEF vars, grabVars, driverVars, ClockStill, ClockInv
<1> QED BY <1>2, <1>3, <1>4, <1>5, <1>6, <1>7, <1>8, <1>9, <1>10, <1>11, <1>12, <1>13, <1>14,
           NextCases DEF Grab

-----------------------------------------------------------------------------
(* What an image shows. *)

\* The date of a frame changes only while there is none.
LEMMA FrameOfKept ==
  ASSUME TypeOK, ClockInv, [Next]_vars
  PROVE  initTs' = initTs \/ (frame.stamp = 0 /\ frame'.stamp = 0)
<1>1. CASE StampFirst
  BY <1>1 DEF StampFirst, ClockInv
<1>2. CASE Grab /\ ~StampFirst
  BY <1>2 DEF Grab, GrabStart, GrabTest, Dequeue, DequeueNothing, LockFrame, CopyTop,
              CopyBottom, StampFrame, Announce, Requeue
<1>3. CASE Pass
  BY <1>3, PassStep DEF grabVars
<1>4. ASSUME NEW r \in Callbacks, CallbackStart(r) \/ Step(r)
      PROVE  initTs' = initTs
  BY <1>4, CallbackFrame DEF grabVars
<1>5. CASE Deliver \/ InitializeVideo \/ ResetFinish \/ UNCHANGED vars
  BY <1>5 DEF Deliver, InitializeVideo, ResetFinish, ReleaseDevice, vars, grabVars
<1> QED BY <1>1, <1>2, <1>3, <1>4, <1>5, NextCases

\* Which steps change the frame's pixels and stamp.
LEMMA FrameChange ==
  ASSUME TypeOK, [Next]_vars
  PROVE  \/ frame'.stamp = frame.stamp /\ frame'.px = frame.px
         \/ CopyTop \/ CopyBottom \/ StampFrame
<1>1. CASE Grab
  BY <1>1 DEF Grab, GrabStart, GrabTest, Dequeue, DequeueNothing, StampFirst, LockFrame,
              Announce, Requeue
<1>2. CASE Pass
  BY <1>2, PassStep
<1>3. ASSUME NEW r \in Callbacks, CallbackStart(r) \/ Step(r)
      PROVE  frame' = frame
  BY <1>3, CallbackFrame
<1>4. CASE InitializeVideo \/ ResetFinish
  BY <1>4, FrameExcept DEF InitializeVideo, ResetFinish, ReleaseDevice, TypeOK, FrameType
<1>5. CASE Deliver \/ UNCHANGED vars
  BY <1>5 DEF Deliver, vars
<1> QED BY <1>1, <1>2, <1>3, <1>4, <1>5, NextCases

\* The stamp grows, from 0 when the first frame is there.
LEMMA StampGrows ==
  ASSUME TypeOK, ClockInv, [Next]_vars
  PROVE  /\ frame.stamp \in Nat /\ frame.stamp <= frame'.stamp
         /\ frame.stamp # 0 => frame'.stamp # 0
<1>1. /\ frame.stamp \in Nat /\ relTs \in Nat /\ startTs \in Nat
      /\ frame.stamp <= startTs + relTs
  BY BoundsAssumption DEF TypeOK, ClockInv
<1>2. CASE frame'.stamp = frame.stamp
  BY <1>1, <1>2
<1>3. CASE StampFrame
  <2>1. frame'.stamp = startTs + relTs
    BY <1>3, CopySteps
  <2> QED BY <1>1, <2>1
<1> QED BY <1>2, <1>3, FrameChange, CopySteps

\* The copy of a newer frame leaves no half older than the stamp before it.
LEMMA PixelStep ==
  ASSUME TypeOK, LifeInv, OwnerInv, ClockInv, PixelInv, [Next]_vars
  PROVE  PixelInv'
<1>1. /\ initTs \in Nat /\ relTs \in Nat /\ frame.stamp \in Nat
      /\ Epoch \in Nat /\ content[cur] \in Nat
      /\ \A h \in Halves : frame.px[h] \in Nat
  BY BoundsAssumption, CopySteps DEF TypeOK, Pixels
<1>2. Halves = {"top", "bottom"}
  BY DEF Halves
<1>3. CASE CopyTop \/ CopyBottom \/ StampFrame
  <2>1. /\ UNCHANGED <<initTs, relTs, startTs, cur, content, first>> /\ ~first
        /\ gpc \in {"copyTop", "copyBottom", "stamp"}
    BY <1>3 DEF CopyTop, CopyBottom, StampFrame, driverVars, ClockInv, Stamped
  <2>2. startTs = Epoch /\ initTs + relTs = content[cur] /\ frame.stamp < Epoch + relTs
    BY <2>1 DEF ClockInv, Stamped, Newest
  <2>3. FrameOf(frame.stamp) <= content[cur] /\ FrameOf(Epoch + relTs) = content[cur]
    BY <1>1, <2>2 DEF FrameOf
  <2>4. CASE CopyTop
    <3>1. /\ frame'.stamp = frame.stamp /\ frame'.px["top"] = content[cur]
          /\ frame'.px["bottom"] = frame.px["bottom"] /\ gpc' = "copyBottom"
      BY <2>4, CopySteps DEF CopyTop
    <3>2. FrameOf(frame.stamp)' = FrameOf(frame.stamp)
      BY <2>1, <3>1 DEF FrameOf
    <3>3. frame'.stamp # 0 => \A h \in Halves : frame'.px[h] >= FrameOf(frame.stamp)'
      BY <1>1, <1>2, <2>3, <3>1, <3>2 DEF PixelInv, FrameOf
    <3> QED BY <2>1, <3>1, <3>3 DEF PixelInv
  <2>5. CASE CopyBottom
    <3>1. /\ frame'.stamp = frame.stamp /\ frame'.px["bottom"] = content[cur]
          /\ frame'.px["top"] = frame.px["top"] /\ gpc' = "stamp" /\ gpc = "copyBottom"
      BY <2>5, CopySteps DEF CopyBottom
    <3>2. FrameOf(frame.stamp)' = FrameOf(frame.stamp)
      BY <2>1, <3>1 DEF FrameOf
    <3>3. frame'.stamp # 0 => \A h \in Halves : frame'.px[h] >= FrameOf(frame.stamp)'
      BY <1>1, <1>2, <2>3, <3>1, <3>2 DEF PixelInv, FrameOf
    <3> QED BY <2>1, <3>1, <3>3 DEF PixelInv
  <2>6. CASE StampFrame
    <3>1. /\ frame'.stamp = Epoch + relTs /\ frame'.px = frame.px
          /\ gpc' = "announce" /\ gpc = "stamp"
      BY <2>2, <2>6, CopySteps DEF StampFrame
    <3>2. FrameOf(frame.stamp)' = content[cur]
      BY <2>1, <2>3, <3>1 DEF FrameOf
    <3>3. frame.px["top"] = content[cur] /\ frame.px["bottom"] = content[cur]
      BY <3>1 DEF PixelInv
    <3>4. \A h \in Halves : frame'.px[h] >= FrameOf(frame.stamp)'
      BY <1>1, <1>2, <3>1, <3>2, <3>3
    <3> QED BY <2>1, <3>1, <3>3, <3>4 DEF PixelInv
  <2> QED BY <1>3, <2>4, <2>5, <2>6
<1>4. CASE frame'.stamp = frame.stamp /\ frame'.px = frame.px /\ ~(CopyTop \/ CopyBottom \/ StampFrame)
  <2>1. frame'.stamp # 0 => \A h \in Halves : frame'.px[h] >= FrameOf(frame.stamp)'
    BY <1>4, FrameOfKept DEF PixelInv, FrameOf
  <2>2. gpc' \in {"copyBottom", "stamp", "announce"} =>
          gpc' = gpc /\ cur' = cur /\ content'[cur] = content[cur]
    <3>1. CASE Deliver
      <4>1. gpc' = gpc /\ cur' = cur
        BY <3>1 DEF Deliver, grabVars
      <4>2. CASE queued # <<>>
        <5>1. /\ queued \in Seq(Buffers) /\ cur \in Buffers /\ content \in [Buffers -> Nat]
          BY DEF TypeOK
        <5>2. Head(queued) = queued[1] /\ queued[1] \in Buffers /\ 1 \in DOMAIN queued
          BY <4>2, <5>1, TailFacts
        <5>3. content' = [content EXCEPT ![queued[1]] = produced + 1]
          BY <3>1, <4>2, <5>2 DEF Deliver
        <5>4. Copying => cur # queued[1]
          BY <5>2 DEF OwnerInv, InDriver
        <5> QED BY <4>1, <5>1, <5>3, <5>4 DEF Copying
      <4>3. CASE queued = <<>>
        BY <3>1, <4>1, <4>3 DEF Deliver
      <4> QED BY <4>2, <4>3
    <3>2. CASE Grab
      BY <1>4, <3>2 DEF Grab, GrabStart, GrabTest, Dequeue, DequeueNothing, StampFirst,
                        LockFrame, Announce, Requeue
    <3>3. CASE InitializeVideo \/ ResetFinish
      BY <3>3 DEF InitializeVideo, ResetFinish, ReleaseDevice, grabVars
    <3>4. CASE Pass
      BY <3>4, PassStep DEF grabVars, driverVars
    <3>5. ASSUME NEW r \in Callbacks, CallbackStart(r) \/ Step(r)
          PROVE  UNCHANGED <<grabVars, driverVars>>
      BY <3>5, CallbackFrame
    <3>6. CASE UNCHANGED vars
      BY <3>6 DEF vars, grabVars, driverVars
    <3> QED BY <3>1, <3>2, <3>3, <3>4, <3>5, <3>6, NextCases DEF grabVars, driverVars
  <2> QED BY <1>4, <2>1, <2>2 DEF PixelInv
<1> QED BY <1>3, <1>4, FrameChange

\* A step is the node's or leaves the node alone.
LEMMA NodeCases ==
  ASSUME [Next]_vars
  PROVE  UNCHANGED nodeVars \/ \E r \in Callbacks : CallbackStart(r) \/ Step(r)
<1>1. CASE Grab
  BY <1>1 DEF Grab, GrabStart, GrabTest, Dequeue, DequeueNothing, StampFirst, LockFrame,
              CopyTop, CopyBottom, StampFrame, Announce, Requeue
<1>2. CASE Pass
  BY <1>2, PassStep
<1>3. CASE Deliver \/ InitializeVideo \/ ResetFinish \/ UNCHANGED vars
  BY <1>3 DEF Deliver, InitializeVideo, ResetFinish, ReleaseDevice, vars
<1> QED BY <1>1, <1>2, <1>3, NextCases

\* What one step of callback r does to the node's state.
LEMMA NodeStep ==
  ASSUME TypeOK, NEW r \in Callbacks, CallbackStart(r) \/ Step(r)
  PROVE  /\ \A q \in Callbacks : q # r => rpc'[q] = rpc[q] /\ got'[q] = got[q] /\ shot'[q] = shot[q]
         /\ \/ /\ UNCHANGED <<got, shot, lastImg, topic>>
               /\ rpc'[r] \notin {"check", "top", "bottom", "publish"}
               /\ rpc'[r] = "mark" => rpc[r] = "check" /\ got[r] # lastImg
            \/ /\ rpc[r] = "copy" /\ rpc'[r] = "check" /\ got'[r] = frame.stamp
               /\ UNCHANGED <<shot, lastImg, topic>>
            \/ /\ rpc[r] = "mark" /\ rpc'[r] = "top" /\ lastImg' = got[r]
               /\ UNCHANGED <<got, shot, topic>>
            \/ /\ rpc[r] = "top" /\ rpc'[r] = "bottom" /\ shot'[r]["top"] = frame.px["top"]
               /\ UNCHANGED <<got, lastImg, topic>>
            \/ /\ rpc[r] = "bottom" /\ rpc'[r] = "publish"
               /\ shot'[r]["top"] = shot[r]["top"] /\ shot'[r]["bottom"] = frame.px["bottom"]
               /\ UNCHANGED <<got, lastImg, topic>>
            \/ /\ rpc[r] = "publish" /\ rpc'[r] = "idle"
               /\ topic' = Append(topic, [stamp |-> got[r], px |-> shot[r]])
               /\ UNCHANGED <<got, shot, lastImg>>
<1>1. /\ DOMAIN rpc = Callbacks /\ DOMAIN got = Callbacks /\ DOMAIN shot = Callbacks
      /\ rpc = [q \in Callbacks |-> rpc[q]] /\ DOMAIN shot[r] = {"top", "bottom"}
  BY DEF TypeOK, Pixels, Halves
<1>2. CASE CallbackStart(r) \/ Poll(r) \/ Take(r) \/ Check(r)
  BY <1>1, <1>2 DEF CallbackStart, Poll, Take, Check, Goto
<1>3. CASE CopyFrame(r)
  BY <1>1, <1>3 DEF CopyFrame, Goto
<1>4. CASE Mark(r)
  BY <1>1, <1>4 DEF Mark, Goto
<1>5. CASE ConvertTop(r)
  BY <1>1, <1>5 DEF ConvertTop, Convert, Goto
<1>6. CASE ConvertBottom(r)
  BY <1>1, <1>6 DEF ConvertBottom, Convert, Goto
<1>7. CASE PublishImages(r)
  BY <1>1, <1>7 DEF PublishImages, Goto
<1> QED BY <1>2, <1>3, <1>4, <1>5, <1>6, <1>7 DEF Step

\* What a callback reads late is newer, never older.
LEMMA ImageStep ==
  ASSUME TypeOK, ClockInv, PixelInv, ImageInv, [Next]_vars
  PROVE  ImageInv'
<1>1. /\ lastImg \in Nat /\ frame.stamp \in Nat /\ initTs \in Nat /\ Epoch \in Nat
      /\ frame.stamp <= frame'.stamp /\ (frame.stamp # 0 => frame'.stamp # 0)
      /\ \A r \in Callbacks : got[r] \in Nat /\ shot[r]["top"] \in Nat /\ shot[r]["bottom"] \in Nat
  BY StampGrows, BoundsAssumption DEF TypeOK, Pixels, Halves
<1>2. frame'.stamp \in Nat
  <2>1. startTs + relTs \in Nat
    BY CopySteps
  <2> QED BY <1>1, <2>1, FrameChange, CopySteps
<1>3. CASE UNCHANGED nodeVars
  <2>1. frame.stamp # 0 => \A n : FrameOf(n)' = FrameOf(n)
    BY FrameOfKept DEF FrameOf
  <2>2. UNCHANGED <<rpc, got, shot, lastImg, topic>>
    BY <1>3 DEF nodeVars
  <2>3. lastImg' <= frame'.stamp /\ (topic' # <<>> => frame'.stamp # 0)
    BY <1>1, <1>2, <2>2 DEF ImageInv
  <2>4. ASSUME NEW r \in Callbacks PROVE ShotInv(r)'
    <3>1. got'[r] <= frame'.stamp
      BY <1>1, <1>2, <2>2 DEF ImageInv, ShotInv
    <3>2. CASE rpc[r] \in {"mark", "top", "bottom", "publish"}
      <4>1. frame.stamp # 0
        BY <3>2 DEF ImageInv, ShotInv
      <4>2. FrameOf(got[r])' = FrameOf(got[r])
        BY <2>2, <4>1, FrameOfKept DEF FrameOf
      <4> QED BY <1>1, <2>2, <3>1, <4>1, <4>2 DEF ImageInv, ShotInv
    <3>3. CASE rpc[r] \notin {"mark", "top", "bottom", "publish"}
      BY <2>2, <3>1, <3>3 DEF ShotInv
    <3> QED BY <3>2, <3>3
  <2>5. NeverStale'
    <3> SUFFICES ASSUME NEW i \in DOMAIN topic, NEW h \in Halves
                 PROVE  topic[i].px[h] >= topic[i].stamp - Epoch + initTs'
      BY <2>2 DEF NeverStale, FrameOf
    <3>1. topic # <<>>
      OBVIOUS
    <3>2. initTs' = initTs
      BY <3>1, FrameOfKept DEF ImageInv
    <3> QED BY <3>2 DEF ImageInv, NeverStale, FrameOf
  <2> QED BY <2>3, <2>4, <2>5 DEF ImageInv
<1>4. ASSUME NEW r \in Callbacks, CallbackStart(r) \/ Step(r)
      PROVE  ImageInv'
  <2>1. frame' = frame /\ initTs' = initTs
    BY <1>4, CallbackFrame DEF grabVars
  <2>2. \A q \in Callbacks \ {r} : ShotInv(q)'
    <3>1. \A q \in Callbacks \ {r} :
            rpc'[q] = rpc[q] /\ got'[q] = got[q] /\ shot'[q] = shot[q]
      BY <1>4, NodeStep
    <3> QED BY <2>1, <3>1 DEF ImageInv, ShotInv, FrameOf
  <2>3. frame.stamp # 0 => /\ frame.px["top"] >= FrameOf(frame.stamp)
                           /\ frame.px["bottom"] >= FrameOf(frame.stamp)
    BY DEF PixelInv, Halves
  <2>4. frame.stamp # 0 => /\ frame.px["top"] >= FrameOf(got[r])
                           /\ frame.px["bottom"] >= FrameOf(got[r])
    <3>1. frame.px["top"] \in Nat /\ frame.px["bottom"] \in Nat /\ got[r] <= frame.stamp
      BY DEF TypeOK, Pixels, Halves, ImageInv, ShotInv
    <3> QED BY <1>1, <2>3, <3>1 DEF FrameOf
  <2>5. CASE UNCHANGED topic
    <3>1. NeverStale' /\ (topic' # <<>> => frame'.stamp # 0)
      BY <2>1, <2>5 DEF ImageInv, NeverStale, FrameOf
    <3>2. CASE /\ UNCHANGED <<got, shot, lastImg>>
               /\ rpc'[r] \notin {"check", "top", "bottom", "publish"}
               /\ rpc'[r] = "mark" => rpc[r] = "check" /\ got[r] # lastImg
      <4>1. rpc'[r] = "mark" => frame.stamp # 0
        BY <1>1, <3>2 DEF ImageInv, ShotInv
      <4>2. ShotInv(r)'
        BY <2>1, <3>2, <4>1 DEF ImageInv, ShotInv
      <4> QED BY <2>1, <2>2, <3>1, <3>2, <4>2 DEF ImageInv
    <3>3. CASE /\ rpc[r] = "copy" /\ rpc'[r] = "check" /\ got'[r] = frame.stamp
               /\ UNCHANGED <<shot, lastImg>>
      <4>1. ShotInv(r)'
        BY <1>1, <2>1, <3>3 DEF ShotInv
      <4> QED BY <2>1, <2>2, <3>1, <3>3, <4>1 DEF ImageInv
    <3>4. CASE /\ rpc[r] = "mark" /\ rpc'[r] = "top" /\ lastImg' = got[r]
               /\ UNCHANGED <<got, shot>>
      <4>1. ShotInv(r)' /\ lastImg' <= frame'.stamp
        BY <2>1, <3>4 DEF ImageInv, ShotInv
      <4> QED BY <2>2, <3>1, <4>1 DEF ImageInv
    <3>5. CASE /\ rpc[r] = "top" /\ rpc'[r] = "bottom" /\ shot'[r]["top"] = frame.px["top"]
               /\ UNCHANGED <<got, lastImg>>
      <4>1. ShotInv(r)'
        BY <2>1, <2>4, <3>5 DEF ImageInv, ShotInv, FrameOf
      <4> QED BY <2>1, <2>2, <3>1, <3>5, <4>1 DEF ImageInv
    <3>6. CASE /\ rpc[r] = "bottom" /\ rpc'[r] = "publish"
               /\ shot'[r]["top"] = shot[r]["top"] /\ shot'[r]["bottom"] = frame.px["bottom"]
               /\ UNCHANGED <<got, lastImg>>
      <4>1. ShotInv(r)'
        BY <2>1, <2>4, <3>6 DEF ImageInv, ShotInv, FrameOf
      <4> QED BY <2>1, <2>2, <3>1, <3>6, <4>1 DEF ImageInv
    <3>7. CASE /\ rpc[r] = "publish" /\ rpc'[r] = "idle" /\ UNCHANGED <<got, shot, lastImg>>
      <4>1. ShotInv(r)'
        BY <2>1, <3>7 DEF ImageInv, ShotInv
      <4> QED BY <2>1, <2>2, <3>1, <3>7, <4>1 DEF ImageInv
    <3> QED BY <1>4, <3>2, <3>3, <3>4, <3>5, <3>6, <3>7, NodeStep
  <2>6. CASE /\ rpc[r] = "publish" /\ rpc'[r] = "idle"
             /\ topic' = Append(topic, [stamp |-> got[r], px |-> shot[r]])
             /\ UNCHANGED <<got, shot, lastImg>>
    <3>1. /\ frame.stamp # 0
          /\ \A h \in Halves : shot[r][h] >= FrameOf(got[r])
      BY <2>6 DEF ImageInv, ShotInv, Halves
    <3>2. /\ topic \in Seq([stamp : Nat, px : Pixels])
          /\ [stamp |-> got[r], px |-> shot[r]] \in [stamp : Nat, px : Pixels]
      BY DEF TypeOK
    <3>3. \A i \in DOMAIN topic' :
            \/ i \in DOMAIN topic /\ topic'[i] = topic[i]
            \/ topic'[i] = [stamp |-> got[r], px |-> shot[r]]
      BY <2>6, <3>2, AppendFacts
    <3>4. NeverStale'
      <4> SUFFICES ASSUME NEW i \in DOMAIN topic', NEW h \in Halves
                   PROVE  topic'[i].px[h] >= FrameOf(topic'[i].stamp)
        BY <2>1 DEF NeverStale, FrameOf
      <4>1. CASE i \in DOMAIN topic /\ topic'[i] = topic[i]
        BY <4>1 DEF ImageInv, NeverStale
      <4>2. CASE topic'[i] = [stamp |-> got[r], px |-> shot[r]]
        BY <3>1, <4>2
      <4> QED BY <3>3, <4>1, <4>2
    <3>5. ShotInv(r)'
      BY <2>1, <2>6 DEF ImageInv, ShotInv
    <3> QED BY <2>1, <2>2, <2>6, <3>1, <3>4, <3>5 DEF ImageInv
  <2> QED BY <1>4, <2>5, <2>6, NodeStep
<1> QED BY <1>3, <1>4, NodeCases

-----------------------------------------------------------------------------
(* With one callback at a time. *)

\* What a sequence over a set is.
LEMMA SeqElements ==
  ASSUME NEW S, NEW s \in Seq(S)
  PROVE  /\ DOMAIN s = 1..Len(s) /\ Len(s) \in Nat
         /\ \A i \in 1..Len(s) : s[i] \in S
OBVIOUS

\* The last element of a sequence.
LEMMA LastElement ==
  ASSUME NEW S, NEW s \in Seq(S), s # <<>>
  PROVE  Len(s) \in 1..Len(s) /\ s[Len(s)] \in S
<1>1. Len(s) \in Nat /\ Len(s) # 0
  OBVIOUS
<1> QED BY <1>1

\* The last stamp published, and how it changes.
LEMMA SentStampFacts ==
  ASSUME TypeOK
  PROVE  /\ SentStamp \in Nat
         /\ topic' = topic => SentStamp' = SentStamp
         /\ \A m \in [stamp : Nat, px : Pixels] :
              topic' = Append(topic, m) => SentStamp' = m.stamp
<1>1. topic \in Seq([stamp : Nat, px : Pixels])
  BY DEF TypeOK
<1>2. topic # <<>> => topic[Len(topic)] \in [stamp : Nat, px : Pixels]
  BY <1>1, LastElement
<1>3. SentStamp \in Nat
  BY <1>2 DEF SentStamp
<1>4. ASSUME NEW m \in [stamp : Nat, px : Pixels], topic' = Append(topic, m)
      PROVE  SentStamp' = m.stamp
  <2>1. topic' \in Seq([stamp : Nat, px : Pixels]) /\ Len(topic') = Len(topic) + 1
        /\ topic'[Len(topic) + 1] = m /\ Len(topic) \in Nat
    BY <1>1, <1>4, AppendFacts
  <2>2. topic' # <<>>
    BY <2>1
  <2> QED BY <2>1, <2>2 DEF SentStamp
<1> QED BY <1>3, <1>4 DEF SentStamp

\* A lone callback publishes a stamp it has found to be newer.
LEMMA SentStep ==
  ASSUME OneCallback, TypeOK, ImageInv, SentInv, [Next]_vars
  PROVE  SentInv'
<1>1. CASE UNCHANGED nodeVars
  <2>1. UNCHANGED <<rpc, got, lastImg, topic>>
    BY <1>1 DEF nodeVars
  <2> QED BY <2>1, SentStampFacts DEF SentInv
<1>2. ASSUME NEW r \in Callbacks, CallbackStart(r) \/ Step(r)
      PROVE  SentInv'
  <2>1. \A q \in Callbacks : q = r
    BY DEF OneCallback
  <2>2. /\ SentStamp \in Nat /\ lastImg \in Nat /\ got[r] \in Nat /\ frame.stamp \in Nat
        /\ SentStamp <= lastImg /\ lastImg <= frame.stamp
        /\ topic' = topic => SentStamp' = SentStamp
    BY SentStampFacts DEF TypeOK, SentInv, ImageInv
  <2>3. /\ rpc[r] = "check" => lastImg <= got[r]
        /\ rpc[r] = "mark" => lastImg < got[r]
        /\ rpc[r] \in {"top", "bottom", "publish"} => SentStamp < got[r] /\ lastImg = got[r]
    BY DEF SentInv
  <2>4. SUFFICES
          /\ SentStamp' <= lastImg'
          /\ rpc'[r] = "check" => lastImg' <= got'[r]
          /\ rpc'[r] = "mark" => lastImg' < got'[r]
          /\ rpc'[r] \in {"top", "bottom", "publish"} => SentStamp' < got'[r] /\ lastImg' = got'[r]
    BY <2>1 DEF SentInv
  <2>5. CASE UNCHANGED topic
    <3>1. SentStamp' = SentStamp
      BY <2>2, <2>5
    <3>2. CASE /\ UNCHANGED <<got, lastImg>>
               /\ rpc'[r] \notin {"check", "top", "bottom", "publish"}
               /\ rpc'[r] = "mark" => rpc[r] = "check" /\ got[r] # lastImg
      BY <2>2, <2>3, <3>1, <3>2
    <3>3. CASE rpc'[r] = "check" /\ got'[r] = frame.stamp /\ lastImg' = lastImg
      BY <2>2, <3>1, <3>3
    <3>4. CASE rpc[r] = "mark" /\ rpc'[r] = "top" /\ lastImg' = got[r] /\ got' = got
      BY <2>2, <2>3, <3>1, <3>4
    <3>5. CASE /\ rpc[r] \in {"top", "bottom", "publish"} /\ UNCHANGED <<got, lastImg>>
               /\ rpc'[r] \in {"bottom", "publish", "idle"}
      BY <2>2, <2>3, <3>1, <3>5
    <3> QED BY <1>2, <3>2, <3>3, <3>4, <3>5, NodeStep
  <2>6. CASE /\ rpc[r] = "publish" /\ rpc'[r] = "idle"
             /\ topic' = Append(topic, [stamp |-> got[r], px |-> shot[r]])
             /\ UNCHANGED <<got, shot, lastImg>>
    <3>1. [stamp |-> got[r], px |-> shot[r]] \in [stamp : Nat, px : Pixels]
      BY DEF TypeOK
    <3>2. SentStamp' = got[r]
      BY <2>6, <3>1, SentStampFacts
    <3> QED BY <2>2, <2>3, <2>6, <3>2
  <2> QED BY <1>2, <2>5, <2>6, NodeStep
<1> QED BY <1>1, <1>2, NodeCases

\* What subscribers see of the state.
Newer == [c \in {"image"} |-> frame.stamp]
Sent == [c \in {"image"} |-> [i \in DOMAIN topic |-> topic[i].stamp]]

\* A step acquires a frame, publishes a stamp or changes neither.
LEMMA ImagesStep ==
  ASSUME OneCallback, TypeOK, ClockInv, ImageInv, SentInv, [Next]_vars
  PROVE  [Images!Next]_<<Newer, Sent>>
<1>1. frame.stamp \in Nat /\ startTs + relTs \in Nat /\ frame.stamp <= frame'.stamp
  BY StampGrows, CopySteps
<1>2. frame'.stamp \in Nat
  BY <1>1, FrameChange, CopySteps
<1>3. CASE UNCHANGED topic
  <2>1. Sent' = Sent
    BY <1>3 DEF Sent
  <2>2. CASE frame'.stamp = frame.stamp
    BY <2>1, <2>2 DEF Newer
  <2>3. CASE frame'.stamp # frame.stamp
    <3>1. /\ Newer'["image"] = frame'.stamp /\ Newer["image"] = frame.stamp
          /\ frame'.stamp > frame.stamp
      BY <1>1, <1>2, <2>3 DEF Newer
    <3>2. Newer' = [Newer EXCEPT !["image"] = frame'.stamp]
      BY DEF Newer
    <3>3. Images!Acquire("image")
      BY <1>2, <2>1, <3>1, <3>2 DEF Images!Acquire, Newer, Sent
    <3> QED BY <3>3 DEF Images!Next
  <2> QED BY <2>2, <2>3
<1>4. ASSUME NEW r \in Callbacks, rpc[r] = "publish", UNCHANGED frame,
             topic' = Append(topic, [stamp |-> got[r], px |-> shot[r]])
      PROVE  Images!Next
  <2>1. Newer' = Newer /\ Newer["image"] = frame.stamp
    BY <1>4 DEF Newer
  <2>2. /\ topic \in Seq([stamp : Nat, px : Pixels])
        /\ [stamp |-> got[r], px |-> shot[r]] \in [stamp : Nat, px : Pixels]
        /\ got[r] \in Nat
    BY DEF TypeOK
  <2>3. /\ \A i \in 1..Len(topic) : topic[i].stamp \in Nat
        /\ DOMAIN topic = 1..Len(topic) /\ Len(topic) \in Nat
        /\ DOMAIN topic' = 1..Len(topic) + 1
        /\ \A i \in 1..Len(topic) : topic'[i] = topic[i]
        /\ topic'[Len(topic) + 1].stamp = got[r]
    <3>1. /\ DOMAIN topic = 1..Len(topic) /\ Len(topic) \in Nat
          /\ \A i \in 1..Len(topic) : topic[i] \in [stamp : Nat, px : Pixels]
      BY <2>2, SeqElements
    <3>2. /\ DOMAIN topic' = 1..Len(topic) + 1
          /\ \A i \in 1..Len(topic) : topic'[i] = topic[i]
          /\ topic'[Len(topic) + 1] = [stamp |-> got[r], px |-> shot[r]]
      <4>1. PICK m \in [stamp : Nat, px : Pixels] :
              m = [stamp |-> got[r], px |-> shot[r]] /\ topic' = Append(topic, m)
        BY <1>4, <2>2
      <4>2. topic' = Append(topic, m) /\ Len(topic') = Len(topic) + 1
            /\ DOMAIN topic' = 1..Len(topic) + 1
        BY <2>2, <3>1, <4>1
      <4> QED BY <2>2, <3>1, <4>1, <4>2, AppendFacts
    <3> QED BY <3>1, <3>2
  <2>4. Sent["image"] = [i \in 1..Len(topic) |-> topic[i].stamp]
    BY <2>3 DEF Sent
  <2>5. Sent["image"] \in Seq(Nat) /\ Len(Sent["image"]) = Len(topic)
        /\ \A i \in 1..Len(topic) : Sent["image"][i] = topic[i].stamp
    BY <2>3, <2>4, SeqDef
  <2>6. Sent'["image"] = Append(Sent["image"], got[r])
    <3>1. Sent'["image"] = [i \in 1..Len(topic) + 1 |-> topic'[i].stamp]
      BY <2>3 DEF Sent
    <3>2. \A i \in 1..Len(topic) + 1 :
            topic'[i].stamp = IF i \in 1..Len(topic) THEN Sent["image"][i] ELSE got[r]
      BY <2>3, <2>5
    <3>3. Append(Sent["image"], got[r]) =
            [i \in 1..Len(topic) + 1 |-> IF i \in 1..Len(topic) THEN Sent["image"][i] ELSE got[r]]
      BY <2>2, <2>3, <2>5
    <3> QED BY <3>1, <3>2, <3>3
  <2>7. Sent' = [Sent EXCEPT !["image"] = Append(Sent["image"], got[r])]
    <3>1. Sent' = [c \in {"image"} |-> Sent'["image"]]
      BY DEF Sent
    <3> QED BY <2>6, <3>1 DEF Sent
  <2>8. Images!LastSent("image") = SentStamp
    <3>1. topic = <<>> <=> Sent["image"] = <<>>
      BY <2>2, <2>5, EmptySeq
    <3>2. topic # <<>> => Len(topic) \in 1..Len(topic)
      BY <2>2, EmptySeq
    <3> QED BY <2>5, <3>1, <3>2 DEF Images!LastSent, SentStamp, Sent
  <2>9. SentStamp \in Nat /\ SentStamp < got[r] /\ got[r] <= frame.stamp
    BY <1>4, SentStampFacts DEF SentInv, ImageInv, ShotInv
  <2>10. Images!Publish("image")
    <3>1. got[r] \in SentStamp..frame.stamp /\ got[r] > SentStamp
      BY <1>1, <2>2, <2>9
    <3> QED BY <2>1, <2>7, <2>8, <3>1 DEF Images!Publish, Newer, Sent
  <2> QED BY <2>10 DEF Images!Next
<1>5. \/ UNCHANGED topic
      \/ \E r \in Callbacks : /\ rpc[r] = "publish" /\ UNCHANGED frame
                              /\ topic' = Append(topic, [stamp |-> got[r], px |-> shot[r]])
  <2>1. ASSUME NEW r \in Callbacks, CallbackStart(r) \/ Step(r)
        PROVE  \/ UNCHANGED topic
               \/ /\ rpc[r] = "publish" /\ UNCHANGED frame
                  /\ topic' = Append(topic, [stamp |-> got[r], px |-> shot[r]])
    BY <2>1, NodeStep, CallbackFrame
  <2> QED BY <2>1, NodeCases DEF nodeVars
<1> QED BY <1>3, <1>4, <1>5

-----------------------------------------------------------------------------
(* The theorems. *)

VideoInv == LifeInv /\ OwnerInv /\ ClockInv /\ PixelInv /\ ImageInv

\* The invariant holds in the constructor.
LEMMA VideoInit == Init => VideoInv /\ MemoryAliveWhileGrabbing
<1> SUFFICES ASSUME Init PROVE VideoInv /\ MemoryAliveWhileGrabbing
  OBVIOUS
<1>1. /\ DOMAIN queued = {} /\ DOMAIN done = {} /\ queued = <<>> /\ done = <<>>
      /\ topic = <<>> /\ DOMAIN topic = {} /\ frame.stamp = 0
      /\ gpc = "none" /\ main = "ctor" /\ tx = "idle" /\ first
      /\ startTs = 0 /\ initTs = 0 /\ relTs = 0 /\ lastImg = 0 /\ produced = 0
      /\ \A b \in Buffers : content[b] = 0
      /\ \A r \in Callbacks : got[r] = 0 /\ rpc[r] = "idle"
  BY DEF Init
<1>2. LifeInv /\ OwnerInv /\ MemoryAliveWhileGrabbing
  BY <1>1 DEF LifeInv, Alive, OwnerInv, Streaming, Copying, MemoryAliveWhileGrabbing
<1>3. ClockInv
  BY <1>1 DEF ClockInv, Copying, Stamped, Newest
<1>4. PixelInv /\ ImageInv
  BY <1>1 DEF PixelInv, ImageInv, ShotInv, NeverStale
<1> QED BY <1>2, <1>3, <1>4 DEF VideoInv

\* Every step keeps it.
LEMMA VideoStep ==
  TypeOK /\ VideoInv /\ [Next]_vars => TypeOK' /\ VideoInv'
BY TypeStep, LifeStep, OwnerStep, ClockStep, PixelStep, ImageStep DEF VideoInv

\* So it holds always.
LEMMA VideoInvariant == Spec => [](TypeOK /\ VideoInv)
BY TypeInit, VideoInit, VideoStep, PTL DEF Spec

\* Every variable stays in its range.  That the date of a frame is a number at all
\* rests on the order of the buffers: none is older than the frame the clock was
\* started by.
THEOREM TypeCorrect == Spec => []TypeOK
BY VideoInvariant, PTL

\* While the grab thread is alive, what it uses exists.
THEOREM MemorySafe == Spec => []MemoryAliveWhileGrabbing
<1>1. Init => MemoryAliveWhileGrabbing
  BY VideoInit
<1>2. TypeOK /\ MemoryAliveWhileGrabbing /\ [Next]_vars => MemoryAliveWhileGrabbing'
  BY MemoryStep
<1> QED BY <1>1, <1>2, TypeCorrect, PTL DEF Spec

\* No capture buffer is lost or handed out twice, for any number of buffers.
THEOREM BuffersOwned == Spec => []OneOwner
<1>1. VideoInv => OneOwner
  BY OneOwnerLemma DEF VideoInv
<1> QED BY <1>1, VideoInvariant, PTL

\* An image shows nothing older than its stamp says, however many callbacks
\* overlap and however late they read the pixels.
THEOREM ImagesFresh == Spec => []NeverStale
<1>1. VideoInv => NeverStale
  BY DEF VideoInv, ImageInv
<1> QED BY <1>1, VideoInvariant, PTL

\* Where callbacks do not overlap, each image published is newer than the one
\* before, and none is ahead of the driver.
THEOREM ImagesRefined ==
  ASSUME OneCallback
  PROVE  Spec => EachImageOnce
<1>1. Init => Images!Init /\ SentInv
  <2> SUFFICES ASSUME Init PROVE Images!Init /\ SentInv
    OBVIOUS
  <2>1. /\ topic = <<>> /\ frame.stamp = 0 /\ lastImg = 0
        /\ \A r \in Callbacks : rpc[r] = "idle"
    BY DEF Init
  <2>2. [i \in DOMAIN topic |-> topic[i].stamp] = <<>>
    BY <2>1
  <2> QED BY <2>1, <2>2 DEF Images!Init, SentInv, SentStamp
<1>2. TypeOK /\ VideoInv /\ SentInv /\ [Next]_vars
        => SentInv' /\ [Images!Next]_<<Newer, Sent>>
  BY SentStep, ImagesStep DEF VideoInv
<1> QED BY <1>1, <1>2, VideoInvariant, PTL
    DEF Spec, EachImageOnce, Images!Spec, Newer, Sent

=============================================================================
