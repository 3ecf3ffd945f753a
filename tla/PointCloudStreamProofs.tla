------------------------ MODULE PointCloudStreamProofs ------------------------
(***************************************************************************)
(* Proofs about PointCloudStream: what is published, what is recorded and  *)
(* what is read of a recording.                                            *)
(***************************************************************************)
EXTENDS PointCloudStream, PointCloudFrames, FoldLemmas, FiniteSetTheorems

EventType == [from : Nat, pattern : Patterns]
FooterType == [frames : Nat, returns : Nat, events : Seq(EventType)]
MessageType == [kind : {"none", "header", "frame", "footer"}, frame : FrameType,
                footer : FooterType]

\* The live stream: a frame that is to be published is the device's, and what has
\* been published of it is right.
LiveInv ==
  /\ pc \in {"recv", "publish", "killed"}
  /\ dev \in FrameType /\ dev.id <= MaxFrames /\ frame.id = dev.id
  /\ pc = "publish" => frame = Convert(dev)
  /\ pc = "recv" => IsFrame(msg, dev)

\* The log is a header, the frames that were taken, and the footer if it is finished.
LogInv ==
  /\ rec \in {"off", "on", "finished"} /\ log \in Seq(MessageType) /\ took \in Seq(FrameType)
  /\ log = <<>> => took = <<>> /\ rec = "off"
  /\ log # <<>> =>
       /\ Len(log) = Len(took) + (IF rec = "on" THEN 1 ELSE 2) /\ log[1] = Header
       /\ \A i \in 1..Len(took) : log[i + 1] = Data(took[i])
       /\ rec # "on" => log[Len(log)] = Footer(footer)
  /\ Len(took) <= dev.id /\ \A i \in 1..Len(took) : took[i].id <= dev.id

\* The record's scan pattern is the last it has told, and what it has told of the
\* frames so far is true.
TellInv ==
  /\ footer \in FooterType /\ footer.frames = Len(took) /\ footer.returns = ReturnsOfAll(took)
  /\ Len(footer.events) <= Len(took)
  /\ pattern = IF footer.events = <<>> THEN NoPattern
               ELSE footer.events[Len(footer.events)].pattern
  /\ \A k \in 1..Len(footer.events) : footer.events[k].from <= dev.id
  /\ \A i \in 1..Len(took) : PatternIn(footer.events, took[i]) = took[i].pattern

\* What is on the disk is the beginning of the log; all of it unless killed.
DiskInv ==
  /\ cut \in BOOLEAN /\ disk \in Seq(MessageType) /\ Len(disk) <= Len(log)
  /\ \A i \in 1..Len(disk) : disk[i] = log[i]
  /\ cut => pc = "killed" /\ Len(disk) < Len(log)
  /\ pc # "killed" => Len(disk) = IF rec = "off" THEN Len(log) ELSE 0
  /\ pc = "killed" => log # <<>>

\* Where the reader is in the file tells how many frames it has given.
PlaceInv ==
  /\ buffered => 3 <= pos /\ pos <= Len(disk) + 1 /\ data = disk[pos - 1] /\ Len(replayed) = pos - 3
  /\ ~buffered /\ (disk = <<>> \/ pos <= Len(disk) + 1) =>
       pos >= 2 /\ Len(replayed) = pos - 2 /\ Len(replayed) <= Len(took)
  /\ disk = <<>> => ~buffered /\ pos = 2
  /\ disk # <<>> /\ pos > Len(disk) + 1 =>
       ~buffered /\ cut /\ pos = Len(disk) + 2 /\ Len(replayed) = Len(disk) - 1

\* How many frames there are on the disk.
FramesOnDisk == IF disk = <<>> THEN 0
                ELSE IF Len(disk) = Len(took) + 2 THEN Len(took) ELSE Len(disk) - 1

ReaderInv ==
  /\ reader \in {"closed", "open", "bad"} /\ data \in MessageType /\ buffered \in BOOLEAN
  /\ pos \in Nat /\ end \in {"unknown", "more", "end", "threw"}
  /\ replayed \in Seq(Seq(EntryType)) /\ Len(replayed) <= Len(took)
  /\ \A i \in 1..Len(replayed) : replayed[i] = Flat(Convert(took[i]))
  /\ reader = "closed" => pos = 1 /\ ~buffered /\ meta = NoFooter /\ replayed = <<>> /\ end = "unknown"
  /\ reader # "closed" => log # <<>> /\ (rec = "off" \/ pc = "killed")
  /\ reader = "bad" => cut /\ pos = 2 /\ ~buffered /\ meta = NoFooter /\ replayed = <<>> /\ end = "unknown"
  /\ reader = "open" =>
       /\ PlaceInv
       /\ meta = IF disk = <<>> \/ cut \/ disk[Len(disk)].kind # "footer" THEN NoFooter
                 ELSE disk[Len(disk)].footer
       /\ end \in {"end", "threw"} => Len(replayed) = FramesOnDisk
       /\ end = "threw" => cut

StreamInv == LiveInv /\ LogInv /\ TellInv /\ DiskInv /\ ReaderInv

-----------------------------------------------------------------------------
(* Messages and frames. *)

\* The frame before the first and the empty footer have their types.
LEMMA NoDeviceType ==
  NoDevice \in FrameType /\ NoDevice.id = 0 /\ NoFooter \in FooterType
  /\ NoFooter.frames = 0 /\ NoFooter.returns = 0 /\ NoFooter.events = <<>>
<1>1. <<>> \in Seq(Nat) /\ <<>> \in Seq(EventType) BY EmptySeq
<1>2. NoDevice \in FrameType BY <1>1 DEF NoDevice, FrameType, Patterns
<1>3. NoFooter \in FooterType BY <1>1 DEF NoFooter, FooterType
<1> QED BY <1>2, <1>3 DEF NoDevice, NoFooter

\* What a message is made of.
LEMMA MessageParts ==
  /\ Header \in MessageType /\ Header.kind = "header"
  /\ NoMessage \in MessageType /\ NoMessage.kind = "none"
  /\ \A f \in FrameType : Data(f) \in MessageType /\ Data(f).kind = "frame" /\ Data(f).frame = f
  /\ \A x \in FooterType : Footer(x) \in MessageType /\ Footer(x).kind = "footer" /\ Footer(x).footer = x
<1>1. Header = [kind |-> "header", frame |-> NoDevice, footer |-> NoFooter] BY DEF Header
<1>2. Header \in MessageType BY <1>1, NoDeviceType DEF MessageType
<1>3. NoMessage = [kind |-> "none", frame |-> NoDevice, footer |-> NoFooter] BY <1>1 DEF NoMessage
<1>4. NoMessage \in MessageType BY <1>3, NoDeviceType DEF MessageType
<1>5. ASSUME NEW f \in FrameType
      PROVE  Data(f) \in MessageType /\ Data(f).kind = "frame" /\ Data(f).frame = f
  <2> DEFINE h == [Header EXCEPT !.kind = "frame"]
  <2>3. h = [kind |-> "frame", frame |-> NoDevice, footer |-> NoFooter] BY DEF Header
  <2>4. Data(f) = [h EXCEPT !.frame = f] BY Zenon DEF Data
  <2> HIDE DEF h
  <2>1. Data(f) = [kind |-> "frame", frame |-> f, footer |-> NoFooter] BY <2>3, <2>4
  <2>2. Data(f) \in MessageType BY <2>1, NoDeviceType DEF MessageType
  <2> QED BY <2>1, <2>2
<1>6. ASSUME NEW x \in FooterType
      PROVE  Footer(x) \in MessageType /\ Footer(x).kind = "footer" /\ Footer(x).footer = x
  <2> DEFINE h == [Header EXCEPT !.kind = "footer"]
  <2>3. h = [kind |-> "footer", frame |-> NoDevice, footer |-> NoFooter] BY DEF Header
  <2>4. Footer(x) = [h EXCEPT !.footer = x] BY Zenon DEF Footer
  <2> HIDE DEF h
  <2>1. Footer(x) = [kind |-> "footer", frame |-> NoDevice, footer |-> x] BY <2>3, <2>4
  <2>2. Footer(x) \in MessageType BY <2>1, NoDeviceType DEF MessageType
  <2> QED BY <2>1, <2>2
<1> QED BY <1>1, <1>2, <1>3, <1>4, <1>5, <1>6

\* The frame that comes of a shape.
Shaped(s) == [id |-> dev.id + 1, packed |-> s.packed, ids |-> s.ids,
              pulses |-> s.pulses, pattern |-> s.pattern]

\* ... is a frame, with the next number.
LEMMA ShapedType ==
  ASSUME LiveInv, dev.id < MaxFrames, NEW s \in Shapes
  PROVE  /\ Shaped(s) \in FrameType /\ Shaped(s).id = dev.id + 1
         /\ dev.id \in Nat /\ Shaped(s).id <= MaxFrames
<1>1. dev.id \in Nat BY DEF LiveInv, FrameType
<1>2. s.packed \in BOOLEAN /\ s.ids \in BOOLEAN /\ s.pulses \in Seq(Nat)
  BY ShapesAssumption
<1>3. Shaped(s) \in FrameType BY <1>1, <1>2 DEF Shaped, FrameType, Patterns
<1>4. dev.id + 1 <= MaxFrames BY <1>1, BoundsAssumption
<1> QED BY <1>1, <1>3, <1>4 DEF Shaped

-----------------------------------------------------------------------------
(* The live stream. *)

\* Nothing is published and nothing has been sent.
LEMMA LiveInit == Init => LiveInv
<1> SUFFICES ASSUME Init PROVE LiveInv
  OBVIOUS
<1>1. pc = "recv" /\ dev = NoDevice /\ msg = <<>> /\ frame.id = 0 BY DEF Init
<1>2. dev \in FrameType /\ dev.id = 0 BY <1>1, NoDeviceType
<1>3. IsFrame(msg, dev)
  <2>1. Len(Scan(dev)) = Returns(dev) BY <1>2, ScanType
  <2>2. Returns(dev) = 0
    <3>1. dev.pulses = <<>> BY <1>1 DEF NoDevice
    <3>2. Len(dev.pulses) = 0 /\ dev.pulses \in Seq(Nat) BY <3>1, EmptySeq
    <3> QED BY <3>2, BeforeStep DEF Returns
  <2>3. Len(msg) = 0 /\ DOMAIN msg = {} BY <1>1
  <2> QED BY <2>1, <2>2, <2>3 DEF IsFrame
<1> QED BY <1>1, <1>2, <1>3, BoundsAssumption DEF LiveInv

\* The room is for as many as there are, so that nothing of an earlier message is left.
LEMMA PublishIsFlat ==
  ASSUME NEW f \in FrameType, NEW old
  PROVE  LET flat == Flat(Convert(f)) room == Resized(old, Convert(f).total) IN
           [i \in DOMAIN room |-> IF i \in DOMAIN flat THEN flat[i] ELSE room[i]] = flat
<1> DEFINE flat == Flat(Convert(f))
           room == Resized(old, Convert(f).total)
<1>1. flat \in Seq(EntryType) /\ Len(flat) = Returns(f) /\ Convert(f).total = Returns(f)
  BY ConvertIsFrame
<1>2. DOMAIN room = 1..Returns(f) BY <1>1 DEF Resized
<1> HIDE DEF flat, room
<1>3. DOMAIN flat = DOMAIN room /\ flat = [i \in DOMAIN flat |-> flat[i]] BY <1>1, <1>2
<1>4. [i \in DOMAIN room |-> IF i \in DOMAIN flat THEN flat[i] ELSE room[i]] = flat BY <1>3
<1> QED BY <1>4 DEF flat, room

\* RecvFrame converts what it receives and Publish publishes all of it.
LEMMA LiveStep == LiveInv /\ [Next]_vars => LiveInv'
<1> SUFFICES ASSUME LiveInv, [Next]_vars PROVE LiveInv'
  OBVIOUS
<1>1. CASE RecvFrame
  <2>1. PICK s \in Shapes : dev' = Shaped(s) /\ frame' = Convert(Shaped(s))
    BY <1>1 DEF RecvFrame, Shaped
  <2>2. pc' = "publish" /\ dev.id < MaxFrames BY <1>1 DEF RecvFrame
  <2>3. Shaped(s) \in FrameType /\ Shaped(s).id <= MaxFrames BY <2>2, ShapedType
  <2>4. frame'.id = dev'.id BY <2>1, <2>3, ConvertIsFrame
  <2> QED BY <2>1, <2>2, <2>3, <2>4 DEF LiveInv
<1>2. CASE Publish
  <2>1. pc' = "recv" /\ dev' = dev /\ frame' = frame /\ frame = Convert(dev) /\ dev \in FrameType
    BY <1>2 DEF Publish, LiveInv
  <2>2. msg' = Flat(Convert(dev))
    <3>1. msg' = LET flat == Flat(Convert(dev)) room == Resized(msg, Convert(dev).total) IN
                   [i \in DOMAIN room |-> IF i \in DOMAIN flat THEN flat[i] ELSE room[i]]
      BY <1>2, <2>1 DEF Publish
    <3> QED BY <2>1, <3>1, PublishIsFlat
  <2>3. IsFrame(msg', dev') BY <2>1, <2>2, ConvertIsFrame
  <2> QED BY <2>1, <2>3 DEF LiveInv
<1>3. CASE Kill
  <2>1. pc' = "killed" /\ dev' = dev /\ frame' = frame BY <1>3 DEF Kill
  <2> QED BY <2>1 DEF LiveInv
<1>4. CASE UNCHANGED liveVars
  <2>1. pc' = pc /\ dev' = dev /\ frame' = frame /\ msg' = msg BY <1>4 DEF liveVars
  <2> QED BY <2>1 DEF LiveInv
<1>5. RecordToStream \/ Finish \/ Flush \/ Open \/ EndOfStream \/ RecvReplayed \/ Jump
        \/ UNCHANGED vars => UNCHANGED liveVars
  BY DEF RecordToStream, Finish, Flush, Open, EndOfStream, RecvReplayed, Jump, vars
<1> QED BY <1>1, <1>2, <1>3, <1>4, <1>5 DEF Next

-----------------------------------------------------------------------------
(* The recording. *)

\* Everything but the live stream and its recording leaves them alone.
LEMMA OthersLeave ==
  ASSUME [Next]_vars
  PROVE  \/ RecvFrame \/ RecordToStream \/ Finish
         \/ /\ rec' \in {rec, "off"} /\ (rec' # rec => rec = "finished") /\ log' = log
            /\ pattern' = pattern /\ footer' = footer /\ took' = took /\ dev' = dev
<1>1. Publish \/ Kill \/ Open \/ EndOfStream \/ RecvReplayed \/ Jump \/ UNCHANGED vars
        => UNCHANGED recordVars /\ dev' = dev
  BY DEF Publish, Kill, Open, EndOfStream, RecvReplayed, Jump, vars, liveVars
<1>2. Flush => /\ rec' = "off" /\ rec = "finished" /\ log' = log /\ pattern' = pattern
               /\ footer' = footer /\ took' = took /\ dev' = dev
  BY DEF Flush, liveVars
<1> QED BY <1>1, <1>2 DEF Next, recordVars

\* Nothing has been logged.
LEMMA LogInit == Init => LogInv
<1> SUFFICES ASSUME Init PROVE LogInv
  OBVIOUS
<1>1. log = <<>> /\ took = <<>> /\ rec = "off" /\ dev = NoDevice BY DEF Init
<1>2. log \in Seq(MessageType) /\ took \in Seq(FrameType) /\ Len(took) = 0 BY <1>1, EmptySeq
<1> QED BY <1>1, <1>2, NoDeviceType DEF LogInv

\* RecordData appends to the log what it takes, Finish the footer.
LEMMA LogStep == LiveInv /\ TellInv /\ LogInv /\ [Next]_vars => LogInv'
<1> SUFFICES ASSUME LiveInv, TellInv, LogInv, [Next]_vars PROVE LogInv'
  OBVIOUS
<1>t. /\ log \in Seq(MessageType) /\ took \in Seq(FrameType) /\ Len(took) \in Nat
      /\ Len(log) \in Nat /\ dev.id \in Nat /\ \A i \in 1..Len(took) : took[i].id \in Nat
  <2>1. log \in Seq(MessageType) /\ took \in Seq(FrameType) BY DEF LogInv
  <2>2. \A i \in 1..Len(took) : took[i] \in FrameType BY <2>1
  <2>3. dev \in FrameType BY DEF LiveInv
  <2> QED BY <2>1, <2>2, <2>3 DEF FrameType
<1>1. CASE RecvFrame
  <2>1. PICK s \in Shapes :
          /\ dev' = Shaped(s)
          /\ IF rec = "on" THEN RecordData(Shaped(s)) ELSE UNCHANGED <<log, pattern, footer, took>>
    BY <1>1 DEF RecvFrame, Shaped
  <2>2. dev.id < MaxFrames /\ rec' = rec /\ rec # "finished" BY <1>1 DEF RecvFrame
  <2> DEFINE f == Shaped(s)
  <2>3. f \in FrameType /\ f.id = dev.id + 1 BY <2>2, ShapedType
  <2> HIDE DEF f
  <2>4. CASE rec = "on"
    <3>1. log' = Append(log, Data(f)) /\ took' = Append(took, f) BY <2>1, <2>4 DEF RecordData, f
    <3>2. log # <<>> /\ Len(log) = Len(took) + 1 BY <2>4 DEF LogInv
    <3>3. Data(f) \in MessageType BY <2>3, MessageParts
    <3>4. /\ log' \in Seq(MessageType) /\ Len(log') = Len(log) + 1 /\ log'[Len(log) + 1] = Data(f)
          /\ \A i \in 1..Len(log) : log'[i] = log[i]
      BY <3>1, <3>3, <1>t, AppendProperties
    <3>5. /\ took' \in Seq(FrameType) /\ Len(took') = Len(took) + 1 /\ took'[Len(took) + 1] = f
          /\ \A i \in 1..Len(took) : took'[i] = took[i]
      BY <3>1, <2>3, <1>t, AppendProperties
    <3>6. log' # <<>>
      <4>1. Len(<<>>) = 0 OBVIOUS
      <4> QED BY <4>1, <3>4, <1>t
    <3>7. log'[1] = Header
      <4>1. 1 \in 1..Len(log) BY <3>2, <1>t
      <4> QED BY <4>1, <3>2, <3>4 DEF LogInv
    <3>8. ASSUME NEW i \in 1..Len(took')
          PROVE  log'[i + 1] = Data(took'[i]) /\ took'[i].id <= dev'.id
      <4>1. CASE i \in 1..Len(took)
        <5>1. i + 1 \in 1..Len(log) BY <4>1, <3>2, <1>t
        <5>2. log[i + 1] = Data(took[i]) /\ took[i].id <= dev.id BY <4>1, <3>2 DEF LogInv
        <5>3. took[i].id <= dev.id + 1 BY <5>2, <4>1, <1>t
        <5> QED BY <4>1, <5>1, <5>2, <5>3, <3>4, <3>5, <2>1, <2>3 DEF f
      <4>2. CASE i \notin 1..Len(took)
        <5>1. i = Len(took) + 1 /\ i + 1 = Len(log) + 1 BY <4>2, <3>2, <3>5, <1>t
        <5> QED BY <5>1, <3>4, <3>5, <2>1, <2>3, <1>t DEF f
      <4> QED BY <4>1, <4>2
    <3>9. Len(took') <= dev'.id
      <4>1. Len(took) <= dev.id BY DEF LogInv
      <4>2. dev'.id = dev.id + 1 BY <2>1, <2>3 DEF f
      <4> QED BY <4>1, <4>2, <3>5, <1>t
    <3>10. Len(log') = Len(took') + 1 BY <3>2, <3>4, <3>5, <1>t
    <3> QED BY <2>2, <2>4, <3>4, <3>5, <3>6, <3>7, <3>8, <3>9, <3>10 DEF LogInv
  <2>5. CASE rec # "on"
    <3>1. log' = log /\ took' = took /\ footer' = footer BY <2>1, <2>5
    <3>2. dev'.id = dev.id + 1 BY <2>1, <2>3 DEF f
    <3>3. Len(took) <= dev.id /\ \A i \in 1..Len(took) : took[i].id <= dev.id BY DEF LogInv
    <3>4. Len(took') <= dev'.id /\ \A i \in 1..Len(took') : took'[i].id <= dev'.id
      BY <3>1, <3>2, <3>3, <1>t
    <3> QED BY <3>1, <3>4, <2>2, <2>5 DEF LogInv
  <2> QED BY <2>4, <2>5
<1>2. CASE RecordToStream
  <2>1. rec' = "on" /\ log' = <<Header>> /\ took' = <<>> /\ dev' = dev
    BY <1>2 DEF RecordToStream, liveVars
  <2>2. <<Header>> \in Seq(MessageType) /\ Len(<<Header>>) = 1 /\ <<Header>>[1] = Header
        /\ <<Header>> # <<>>
    <3>1. Header \in MessageType BY MessageParts
    <3> QED BY <3>1
  <2>3. <<>> \in Seq(FrameType) /\ Len(<<>>) = 0 BY EmptySeq
  <2> QED BY <2>1, <2>2, <2>3, <1>t DEF LogInv
<1>3. CASE Finish
  <2>1. rec = "on" /\ rec' = "finished" /\ log' = Append(log, Footer(footer)) /\ took' = took
        /\ footer' = footer /\ dev' = dev
    BY <1>3 DEF Finish, liveVars
  <2>2. log # <<>> /\ Len(log) = Len(took) + 1 /\ log[1] = Header BY <2>1 DEF LogInv
  <2>3. Footer(footer) \in MessageType BY MessageParts DEF TellInv
  <2>4. /\ log' \in Seq(MessageType) /\ Len(log') = Len(log) + 1 /\ log'[Len(log) + 1] = Footer(footer)
        /\ \A i \in 1..Len(log) : log'[i] = log[i]
    BY <2>1, <2>3, <1>t, AppendProperties
  <2>5. log' # <<>>
    <3>1. Len(<<>>) = 0 OBVIOUS
    <3> QED BY <3>1, <2>4, <1>t
  <2>6. log'[1] = Header
    <3>1. 1 \in 1..Len(log) BY <2>2, <1>t
    <3> QED BY <3>1, <2>2, <2>4
  <2>7. ASSUME NEW i \in 1..Len(took) PROVE log'[i + 1] = Data(took[i])
    <3>1. i + 1 \in 1..Len(log) BY <2>2, <1>t
    <3> QED BY <3>1, <2>2, <2>4 DEF LogInv
  <2>8. Len(log') = Len(took') + 2 BY <2>1, <2>2, <2>4, <1>t
  <2>9. Len(took') <= dev'.id /\ \A i \in 1..Len(took') : took'[i].id <= dev'.id BY <2>1 DEF LogInv
  <2> QED BY <2>1, <2>4, <2>5, <2>6, <2>7, <2>8, <2>9 DEF LogInv
<1>4. CASE /\ rec' \in {rec, "off"} /\ (rec' # rec => rec = "finished") /\ log' = log
           /\ pattern' = pattern /\ footer' = footer /\ took' = took /\ dev' = dev
  BY <1>4 DEF LogInv
<1> QED BY <1>1, <1>2, <1>3, <1>4, OthersLeave

-----------------------------------------------------------------------------
(* What the record tells of its frames. *)

\* An event later than a frame says nothing of it.
LEMMA LaterEvent ==
  ASSUME NEW ev \in Seq(EventType), NEW e \in EventType, NEW f \in FrameType, f.id < e.from
  PROVE  PatternIn(Append(ev, e), f) = PatternIn(ev, f)
<1> DEFINE n == Len(ev)
           u == Append(ev, e)
           before == {k \in 1..n : ev[k].from <= f.id}
<1>1. n \in Nat /\ DOMAIN ev = 1..n BY LenProperties
<1>2. Len(u) = n + 1 /\ DOMAIN u = 1..n + 1 /\ u[n + 1] = e /\ \A k \in 1..n : u[k] = ev[k]
  BY <1>1, AppendProperties, LenProperties
<1> HIDE DEF u
<1>3. f.id \in Nat /\ e.from \in Nat BY DEF FrameType, EventType
<1>4. {k \in DOMAIN u : u[k].from <= f.id} = before
  <2>1. ASSUME NEW k \in 1..n + 1, u[k].from <= f.id PROVE k \in 1..n /\ ev[k].from <= f.id
    <3>1. k # n + 1 BY <1>2, <1>3, <2>1
    <3>2. k \in 1..n BY <1>1, <3>1
    <3> QED BY <3>2, <1>2, <2>1
  <2>2. ASSUME NEW k \in 1..n, ev[k].from <= f.id PROVE k \in 1..n + 1 /\ u[k].from <= f.id
    <3>1. k \in 1..n + 1 BY <1>1
    <3> QED BY <3>1, <1>2, <2>2
  <2> QED BY <2>1, <2>2, <1>2
<1>5. PatternIn(u, f) = IF before = {} THEN NoPattern ELSE u[Max(before)].pattern
  BY <1>4 DEF PatternIn
<1>6. PatternIn(ev, f) = IF before = {} THEN NoPattern ELSE ev[Max(before)].pattern
  BY <1>1 DEF PatternIn
<1>7. CASE before = {} BY <1>5, <1>6, <1>7 DEF u
<1>8. CASE before # {}
  <2>1. Max(before) \in before BY <1>1, <1>8, MaxInSet
  <2>2. Max(before) \in 1..n BY <2>1
  <2>3. u[Max(before)] = ev[Max(before)] BY <2>2, <1>2
  <2> QED BY <1>5, <1>6, <1>8, <2>3 DEF u
<1> QED BY <1>7, <1>8

\* Of a frame later than every event the last of them tells.
LEMMA LastEvent ==
  ASSUME NEW ev \in Seq(EventType), NEW f \in FrameType,
         \A k \in 1..Len(ev) : ev[k].from <= f.id
  PROVE  PatternIn(ev, f) = IF ev = <<>> THEN NoPattern ELSE ev[Len(ev)].pattern
<1> DEFINE n == Len(ev)
<1>1. n \in Nat /\ DOMAIN ev = 1..n BY LenProperties
<1>2. {k \in DOMAIN ev : ev[k].from <= f.id} = 1..n BY <1>1
<1>3. PatternIn(ev, f) = IF 1..n = {} THEN NoPattern ELSE ev[Max(1..n)].pattern
  BY <1>2 DEF PatternIn
<1>4. CASE ev = <<>>
  <2>1. 1..n = {} BY <1>4
  <2> QED BY <1>3, <1>4, <2>1
<1>5. CASE ev # <<>>
  <2>1. n # 0 BY <1>5, EmptySeq
  <2>2. Max(1..n) = n BY <1>1, <2>1, MaxOfFirst
  <2>3. 1 \in 1..n BY <1>1, <2>1
  <2> QED BY <1>3, <1>5, <2>2, <2>3
<1> QED BY <1>4, <1>5

\* Nothing has been told.
LEMMA TellInit == Init => TellInv
<1> SUFFICES ASSUME Init PROVE TellInv
  OBVIOUS
<1>1. took = <<>> /\ footer = NoFooter /\ pattern = NoPattern BY DEF Init
<1>2. Len(took) = 0 /\ Len(footer.events) = 0 /\ footer.events = <<>> BY <1>1, NoDeviceType
<1>3. ReturnsOfAll(took) = 0 BY <1>1, ReturnsOfAllSteps
<1> QED BY <1>1, <1>2, <1>3, NoDeviceType DEF TellInv

\* RecordData counts the frame and tells of a change of the scan pattern.
LEMMA TellStep == LiveInv /\ LogInv /\ TellInv /\ [Next]_vars => TellInv'
<1> SUFFICES ASSUME LiveInv, LogInv, TellInv, [Next]_vars PROVE TellInv'
  OBVIOUS
<1> DEFINE ev == footer.events
           n == Len(ev)
<1>t. /\ took \in Seq(FrameType) /\ Len(took) \in Nat /\ footer \in FooterType
      /\ ev \in Seq(EventType) /\ n \in Nat /\ dev \in FrameType /\ dev.id \in Nat
      /\ \A i \in 1..Len(took) : took[i] \in FrameType /\ took[i].id \in Nat /\ took[i].id <= dev.id
      /\ \A k \in 1..n : ev[k].from \in Nat /\ ev[k].from <= dev.id
  <2>1. took \in Seq(FrameType) /\ footer \in FooterType /\ dev \in FrameType
    BY DEF LogInv, TellInv, LiveInv
  <2>2. ev \in Seq(EventType) /\ dev.id \in Nat BY <2>1 DEF FooterType, FrameType
  <2>3. \A i \in 1..Len(took) : took[i] \in FrameType /\ took[i].id <= dev.id
    BY <2>1 DEF LogInv
  <2>4. \A k \in 1..n : ev[k] \in EventType /\ ev[k].from <= dev.id BY <2>2 DEF TellInv
  <2>5. Len(took) \in Nat /\ n \in Nat BY <2>1, <2>2, LenProperties
  <2>6. \A f \in FrameType : f.id \in Nat BY DEF FrameType
  <2>7. \A e \in EventType : e.from \in Nat BY DEF EventType
  <2> HIDE DEF ev
  <2> QED BY <2>1, <2>2, <2>3, <2>4, <2>5, <2>6, <2>7
<1>1. CASE RecvFrame
  <2>1. PICK s \in Shapes :
          /\ dev' = Shaped(s)
          /\ IF rec = "on" THEN RecordData(Shaped(s)) ELSE UNCHANGED <<log, pattern, footer, took>>
    BY <1>1 DEF RecvFrame, Shaped
  <2>2. dev.id < MaxFrames BY <1>1 DEF RecvFrame
  <2> DEFINE f == Shaped(s)
  <2>3. f \in FrameType /\ f.id = dev.id + 1 BY <2>2, ShapedType
  <2>4. dev' = f BY <2>1
  <2> HIDE DEF f
  <2>5. CASE rec = "on"
    <3> DEFINE e == [from |-> f.id, pattern |-> f.pattern]
               ev2 == IF f.pattern = pattern THEN ev ELSE Append(ev, e)
    <3>1. took' = Append(took, f) /\ pattern' = f.pattern
          /\ footer' = [frames |-> footer.frames + 1, returns |-> footer.returns + Returns(f),
                        events |-> ev2]
      BY <2>1, <2>5 DEF RecordData, f
    <3>2. e \in EventType /\ e.from = dev.id + 1 /\ e.pattern = f.pattern
      BY <2>3 DEF EventType, FrameType, Patterns
    <3> HIDE DEF e
    <3>3. /\ took' \in Seq(FrameType) /\ Len(took') = Len(took) + 1 /\ took'[Len(took) + 1] = f
          /\ \A i \in 1..Len(took) : took'[i] = took[i]
      BY <3>1, <2>3, <1>t, AppendProperties
    <3>4. /\ Append(ev, e) \in Seq(EventType) /\ Len(Append(ev, e)) = n + 1
          /\ Append(ev, e)[n + 1] = e /\ \A k \in 1..n : Append(ev, e)[k] = ev[k]
      BY <1>t, <3>2, AppendProperties
    <3>5. ev2 \in Seq(EventType) /\ Len(ev2) <= n + 1 BY <1>t, <3>4
    <3>6. Returns(f) \in Nat /\ ReturnsOfAll(took') = ReturnsOfAll(took) + Returns(f)
      BY <1>t, <2>3, <3>1, ScanType, ReturnsOfAllSteps
    <3>7. footer' \in FooterType /\ footer'.events = ev2 /\ footer'.frames = Len(took')
          /\ footer'.returns = ReturnsOfAll(took')
      <4>1. footer.frames = Len(took) /\ footer.returns = ReturnsOfAll(took) /\ footer.returns \in Nat
        BY <1>t DEF TellInv, FooterType
      <4> HIDE DEF ev2
      <4> QED BY <4>1, <1>t, <3>1, <3>3, <3>5, <3>6 DEF FooterType
    <3>8. \A k \in 1..Len(ev2) : ev2[k].from <= f.id
      <4>1. CASE f.pattern = pattern
        <5>1. \A k \in 1..n : ev[k].from <= f.id BY <1>t, <2>3
        <5> QED BY <4>1, <5>1
      <4>2. CASE f.pattern # pattern
        <5>1. ASSUME NEW k \in 1..n + 1 PROVE Append(ev, e)[k].from <= f.id
          <6>1. CASE k \in 1..n BY <6>1, <1>t, <2>3, <3>4
          <6>2. CASE k \notin 1..n
            <7>1. k = n + 1 BY <6>2, <1>t
            <7> QED BY <7>1, <3>2, <3>4, <2>3, <1>t
          <6> QED BY <6>1, <6>2
        <5> QED BY <4>2, <5>1, <3>4
      <4> QED BY <4>1, <4>2
    <3>9. f.pattern = IF ev2 = <<>> THEN NoPattern ELSE ev2[Len(ev2)].pattern
      <4>1. CASE f.pattern = pattern
        BY <4>1 DEF TellInv
      <4>2. CASE f.pattern # pattern
        <5>1. Append(ev, e) # <<>>
          <6>1. Len(<<>>) = 0 OBVIOUS
          <6> QED BY <6>1, <3>4, <1>t
        <5> QED BY <4>2, <5>1, <3>2, <3>4
      <4> QED BY <4>1, <4>2
    <3>10. \A i \in 1..Len(took) : PatternIn(ev2, took[i]) = took[i].pattern
      <4>1. \A i \in 1..Len(took) : PatternIn(ev, took[i]) = took[i].pattern BY DEF TellInv
      <4>2. CASE f.pattern = pattern BY <4>1, <4>2
      <4>3. CASE f.pattern # pattern
        <5> SUFFICES ASSUME NEW i \in 1..Len(took)
                     PROVE  PatternIn(Append(ev, e), took[i]) = took[i].pattern
          BY <4>3
        <5>1. took[i] \in FrameType /\ took[i].id < e.from BY <1>t, <3>2
        <5> DEFINE g == took[i]
        <5> HIDE DEF g, ev
        <5>2. g \in FrameType /\ g.id < e.from /\ e \in EventType /\ ev \in Seq(EventType)
          BY <5>1, <3>2, <1>t DEF g
        <5>3. PatternIn(Append(ev, e), g) = PatternIn(ev, g) BY <5>2, LaterEvent
        <5> QED BY <4>1, <5>3 DEF g
      <4> QED BY <4>2, <4>3
    <3> HIDE DEF ev2
    <3>11. PatternIn(ev2, f) = f.pattern BY <2>3, <3>5, <3>8, <3>9, LastEvent
    <3>12. \A i \in 1..Len(took') : PatternIn(ev2, took'[i]) = took'[i].pattern
      <4>1. \A i \in 1..Len(took') : i \in 1..Len(took) \/ i = Len(took) + 1 BY <1>t, <3>3
      <4> QED BY <4>1, <3>3, <3>10, <3>11
    <3>13. Len(ev2) <= Len(took')
      <4>1. n <= Len(took) /\ Len(ev2) \in Nat BY <3>5, LenProperties DEF TellInv
      <4> QED BY <4>1, <1>t, <3>3, <3>5
    <3> QED BY <2>4, <3>1, <3>7, <3>8, <3>9, <3>12, <3>13 DEF TellInv
  <2>6. CASE rec # "on"
    <3>1. took' = took /\ footer' = footer /\ pattern' = pattern /\ dev'.id = dev.id + 1
      BY <2>1, <2>3, <2>6 DEF f
    <3>2. \A k \in 1..Len(footer'.events) : footer'.events[k].from <= dev'.id
      BY <3>1, <1>t
    <3> QED BY <3>1, <3>2 DEF TellInv
  <2> QED BY <2>5, <2>6
<1>2. CASE RecordToStream
  <2>1. took' = <<>> /\ footer' = NoFooter /\ pattern' = NoPattern BY <1>2 DEF RecordToStream
  <2>2. Len(took') = 0 /\ Len(footer'.events) = 0 /\ footer'.events = <<>> BY <2>1, NoDeviceType
  <2>3. ReturnsOfAll(took') = 0 BY <2>1, ReturnsOfAllSteps
  <2> QED BY <2>1, <2>2, <2>3, NoDeviceType DEF TellInv
<1>3. CASE UNCHANGED <<took, footer, pattern, dev>>
  BY <1>3 DEF TellInv
<1>4. Finish => UNCHANGED <<took, footer, pattern, dev>> BY DEF Finish, liveVars
<1> QED BY <1>1, <1>2, <1>3, <1>4, OthersLeave

-----------------------------------------------------------------------------
(* The file. *)

\* There is no file.
LEMMA DiskInit == Init => DiskInv
<1> SUFFICES ASSUME Init PROVE DiskInv
  OBVIOUS
<1>1. disk = <<>> /\ log = <<>> /\ cut = FALSE /\ pc = "recv" /\ rec = "off" BY DEF Init
<1>2. disk \in Seq(MessageType) /\ Len(disk) = 0 /\ Len(log) = 0 BY <1>1, EmptySeq
<1>3. \A i \in 1..Len(disk) : FALSE BY <1>2
<1>4. cut \in BOOLEAN /\ ~cut BY <1>1
<1>5. Len(disk) <= Len(log) BY <1>2
<1> QED BY <1>1, <1>2, <1>3, <1>4, <1>5 DEF DiskInv

\* Flush writes the log, Kill a beginning of it.
LEMMA DiskStep == LogInv /\ DiskInv /\ LogInv' /\ [Next]_vars => DiskInv'
<1> SUFFICES ASSUME LogInv, DiskInv, LogInv', [Next]_vars PROVE DiskInv'
  OBVIOUS
<1>t. log \in Seq(MessageType) /\ Len(log) \in Nat /\ disk \in Seq(MessageType) /\ Len(disk) \in Nat
      /\ Len(log') \in Nat
  <2>1. log \in Seq(MessageType) /\ disk \in Seq(MessageType) /\ log' \in Seq(MessageType)
    BY DEF LogInv, DiskInv
  <2> QED BY <2>1, LenProperties
<1>1. ASSUME UNCHANGED <<disk, cut, pc>>, pc # "killed", rec # "off", rec' # "off"
      PROVE  DiskInv'
  <2>1. Len(disk) = 0 /\ disk' = disk /\ cut' = FALSE /\ pc' # "killed"
    BY <1>1, <1>t DEF DiskInv
  <2>2. \A i \in 1..Len(disk') : FALSE BY <2>1
  <2> QED BY <1>1, <1>t, <2>1, <2>2 DEF DiskInv
<1>2. CASE RecvFrame
  <2>1. disk' = disk /\ cut' = cut /\ rec' = rec /\ rec # "finished" /\ pc = "recv" /\ pc' = "publish"
    BY <1>2 DEF RecvFrame, fileVars
  <2>2. CASE rec = "on"
    <3>1. Len(disk') = 0 /\ disk' = disk /\ cut' = FALSE BY <2>1, <2>2, <1>t DEF DiskInv
    <3>2. \A i \in 1..Len(disk') : FALSE BY <3>1
    <3> QED BY <2>1, <2>2, <3>1, <3>2, <1>t DEF DiskInv
  <2>3. CASE rec # "on"
    <3>1. log' = log BY <1>2, <2>3 DEF RecvFrame
    <3> QED BY <2>1, <3>1 DEF DiskInv
  <2> QED BY <2>2, <2>3
<1>3. CASE Publish
  <2>1. disk' = disk /\ cut' = cut /\ rec' = rec /\ log' = log /\ pc # "killed" /\ pc' # "killed"
    BY <1>3 DEF Publish, fileVars, recordVars
  <2> QED BY <2>1 DEF DiskInv
<1>4. CASE RecordToStream
  <2>1. disk' = <<>> /\ cut' = cut /\ rec' = "on" /\ pc' = pc /\ pc = "recv"
    BY <1>4 DEF RecordToStream, liveVars
  <2>2. disk' \in Seq(MessageType) /\ Len(disk') = 0 BY <2>1, EmptySeq
  <2>3. cut' = FALSE BY <2>1 DEF DiskInv
  <2> QED BY <2>1, <2>2, <2>3, <1>t DEF DiskInv
<1>5. CASE Finish
  <2>1. UNCHANGED <<disk, cut, pc>> /\ pc # "killed" /\ rec # "off" /\ rec' # "off"
    BY <1>5 DEF Finish, fileVars, liveVars
  <2> QED BY <2>1, <1>1
<1>6. CASE Flush
  <2>1. disk' = log /\ log' = log /\ cut' = FALSE /\ rec' = "off" /\ pc' = pc /\ pc = "recv"
    BY <1>6 DEF Flush, liveVars
  <2>2. disk' \in Seq(MessageType) /\ Len(disk') = Len(log') /\ Len(disk') <= Len(log')
    BY <2>1, <1>t
  <2>3. \A i \in 1..Len(disk') : disk'[i] = log'[i] BY <2>1
  <2> QED BY <2>1, <2>2, <2>3 DEF DiskInv
<1>7. CASE Kill
  <2>1. PICK n \in 0..Len(log) : /\ disk' = SubSeq(log, 1, n)
                                /\ cut' \in (IF n < Len(log) THEN BOOLEAN ELSE {FALSE})
    BY <1>7 DEF Kill
  <2>2. pc' = "killed" /\ log' = log /\ rec' = rec /\ rec # "off"
    BY <1>7 DEF Kill, recordVars
  <2>3. /\ SubSeq(log, 1, n) \in Seq(MessageType) /\ Len(SubSeq(log, 1, n)) = n
        /\ \A i \in 1..n : SubSeq(log, 1, n)[i] = log[i]
    <3>1. 1 \in Int /\ n \in Int /\ \A i \in 1..n : log[i] \in MessageType
      <4>1. \A i \in 1..n : i \in 1..Len(log) BY <1>t
      <4> QED BY <4>1, <1>t, ElementOfSeq
    <3>2. /\ SubSeq(log, 1, n) \in Seq(MessageType)
          /\ Len(SubSeq(log, 1, n)) = IF 1 <= n THEN n - 1 + 1 ELSE 0
          /\ \A i \in 1 .. n - 1 + 1 : SubSeq(log, 1, n)[i] = log[1 + i - 1]
      BY <3>1, SubSeqProperties
    <3>3. n - 1 + 1 = n /\ (~(1 <= n) => n = 0) /\ \A i \in 1..n : 1 + i - 1 = i BY <1>t
    <3> QED BY <3>2, <3>3
  <2>4. log # <<>> BY <2>2 DEF LogInv
  <2>5. n \in Nat /\ n <= Len(log) BY <1>t
  <2>6. cut' \in BOOLEAN /\ (cut' => n < Len(log)) BY <2>1
  <2> QED BY <2>1, <2>2, <2>3, <2>4, <2>5, <2>6 DEF DiskInv
<1>8. CASE UNCHANGED <<disk, cut, pc, rec, log>>
  BY <1>8 DEF DiskInv
<1>9. Open \/ EndOfStream \/ RecvReplayed \/ Jump \/ UNCHANGED vars
        => UNCHANGED <<disk, cut, pc, rec, log>>
  BY DEF Open, EndOfStream, RecvReplayed, Jump, vars, fileVars, liveVars, recordVars
<1> QED BY <1>2, <1>3, <1>4, <1>5, <1>6, <1>7, <1>8, <1>9 DEF Next

\* What is where in the log.
LEMMA LogPlaces ==
  ASSUME LogInv, TellInv, NEW i \in 1..Len(log)
  PROVE  /\ i = 1 => log[i].kind = "header"
         /\ i # 1 /\ i - 1 <= Len(took) => log[i].kind = "frame" /\ log[i].frame = took[i - 1]
         /\ i - 1 > Len(took) => /\ i = Len(took) + 2 /\ i = Len(log)
                                 /\ log[i].kind = "footer" /\ log[i].footer = footer
<1>1. log \in Seq(MessageType) /\ took \in Seq(FrameType) /\ Len(log) \in Nat /\ Len(took) \in Nat
  <2>1. log \in Seq(MessageType) /\ took \in Seq(FrameType) BY DEF LogInv
  <2> QED BY <2>1, LenProperties
<1>2. log # <<>>
  <2>1. Len(<<>>) = 0 OBVIOUS
  <2> QED BY <2>1, <1>1
<1>3. Len(log) = Len(took) + (IF rec = "on" THEN 1 ELSE 2) BY <1>2 DEF LogInv
<1>4. CASE i = 1
  <2>1. log[1] = Header BY <1>2 DEF LogInv
  <2> QED BY <1>1, <1>4, <2>1, MessageParts
<1>5. CASE i # 1 /\ i - 1 <= Len(took)
  <2> DEFINE j == i - 1
  <2>1. j \in 1..Len(took) /\ j + 1 = i BY <1>1, <1>5
  <2> HIDE DEF j
  <2>2. log[j + 1] = Data(took[j]) BY <1>2, <2>1 DEF LogInv
  <2>3. took[j] \in FrameType BY <1>1, <2>1, ElementOfSeq
  <2>4. log[i].kind = "frame" /\ log[i].frame = took[j] BY <2>1, <2>2, <2>3, MessageParts
  <2> QED BY <1>1, <1>5, <2>4 DEF j
<1>6. CASE i - 1 > Len(took)
  <2>1. rec # "on" /\ i = Len(took) + 2 /\ i = Len(log) BY <1>1, <1>3, <1>6
  <2>2. log[i] = Footer(footer) BY <1>2, <2>1 DEF LogInv
  <2>3. footer \in FooterType BY DEF TellInv
  <2>4. log[i].kind = "footer" /\ log[i].footer = footer BY <2>2, <2>3, MessageParts
  <2> QED BY <1>1, <2>1, <2>4
<1> QED BY <1>1, <1>4, <1>5, <1>6

\* ... and on the disk.
LEMMA DiskPlaces ==
  ASSUME LogInv, TellInv, DiskInv
  PROVE  /\ Len(disk) \in Nat /\ Len(took) \in Nat /\ Len(disk) <= Len(took) + 2
         /\ (disk = <<>>) = (Len(disk) = 0)
         /\ cut => Len(disk) # Len(took) + 2
         /\ pc # "killed" /\ rec = "off" /\ log # <<>> => Len(disk) = Len(took) + 2
         /\ \A i \in 1..Len(disk) :
              /\ disk[i] \in MessageType
              /\ i = 1 => disk[i].kind = "header"
              /\ i # 1 /\ i - 1 <= Len(took) => disk[i].kind = "frame" /\ disk[i].frame = took[i - 1]
              /\ i - 1 > Len(took) => /\ i = Len(took) + 2 /\ i = Len(disk)
                                      /\ disk[i].kind = "footer" /\ disk[i].footer = footer
<1>1. log \in Seq(MessageType) /\ took \in Seq(FrameType) /\ disk \in Seq(MessageType)
      /\ Len(log) \in Nat /\ Len(took) \in Nat /\ Len(disk) \in Nat
  <2>1. log \in Seq(MessageType) /\ took \in Seq(FrameType) /\ disk \in Seq(MessageType)
    BY DEF LogInv, DiskInv
  <2> QED BY <2>1, LenProperties
<1>2. Len(log) <= Len(took) + 2
  <2>1. CASE log = <<>>
    <3>1. Len(log) = 0 BY <2>1
    <3> QED BY <3>1, <1>1
  <2>2. CASE log # <<>>
    <3>1. Len(log) = Len(took) + (IF rec = "on" THEN 1 ELSE 2) BY <2>2 DEF LogInv
    <3> QED BY <3>1, <1>1
  <2> QED BY <2>1, <2>2
<1>3. Len(disk) <= Len(log) BY DEF DiskInv
<1>4. cut => Len(disk) < Len(log) BY DEF DiskInv
<1>5. (disk = <<>>) = (Len(disk) = 0) BY <1>1, EmptySeq
<1>6. pc # "killed" /\ rec = "off" /\ log # <<>> => Len(disk) = Len(took) + 2
  <2> SUFFICES ASSUME pc # "killed", rec = "off", log # <<>> PROVE Len(disk) = Len(took) + 2
    OBVIOUS
  <2>1. Len(disk) = Len(log) BY DEF DiskInv
  <2>2. Len(log) = Len(took) + (IF rec = "on" THEN 1 ELSE 2) BY DEF LogInv
  <2> QED BY <2>1, <2>2
<1>7. ASSUME NEW i \in 1..Len(disk)
      PROVE  /\ disk[i] \in MessageType
             /\ i = 1 => disk[i].kind = "header"
             /\ i # 1 /\ i - 1 <= Len(took) => disk[i].kind = "frame" /\ disk[i].frame = took[i - 1]
             /\ i - 1 > Len(took) => /\ i = Len(took) + 2 /\ i = Len(disk)
                                     /\ disk[i].kind = "footer" /\ disk[i].footer = footer
  <2>1. i \in 1..Len(log) BY <1>1, <1>3
  <2>2. disk[i] = log[i] BY DEF DiskInv
  <2>3. disk[i] \in MessageType BY <1>1, ElementOfSeq
  <2>4. i = Len(log) => i = Len(disk) BY <1>1, <1>3
  <2> QED BY <2>1, <2>2, <2>3, <2>4, LogPlaces
<1>8. Len(disk) <= Len(took) + 2 /\ (cut => Len(disk) # Len(took) + 2) BY <1>1, <1>2, <1>3, <1>4
<1> QED BY <1>1, <1>5, <1>6, <1>7, <1>8

\* How many frames are on the disk.
LEMMA DiskCount ==
  ASSUME LogInv, TellInv, DiskInv
  PROVE  /\ Cardinality({i \in DOMAIN disk : disk[i].kind = "frame"}) = FramesOnDisk
         /\ FramesOnDisk \in Nat
<1> DEFINE D == Len(disk)
           T == Len(took)
           F == FramesOnDisk
           Here == {i \in DOMAIN disk : disk[i].kind = "frame"}
<1>1. /\ D \in Nat /\ T \in Nat /\ D <= T + 2 /\ (disk = <<>>) = (D = 0)
      /\ \A i \in 1..D : /\ i = 1 => disk[i].kind = "header"
                         /\ i # 1 /\ i - 1 <= T => disk[i].kind = "frame"
                         /\ i - 1 > T => i = T + 2 /\ i = D /\ disk[i].kind = "footer"
  BY DiskPlaces
<1>2. F = IF D = 0 THEN 0 ELSE IF D = T + 2 THEN T ELSE D - 1 BY <1>1 DEF FramesOnDisk
<1>3. DOMAIN disk = 1..D
  <2>1. disk \in Seq(MessageType) BY DEF DiskInv
  <2> QED BY <2>1, LenProperties
<1> HIDE DEF F, D, T
<1>4. F \in Nat BY <1>1, <1>2
<1>5. Here = 2..F + 1
  <2>1. ASSUME NEW i \in 1..D, disk[i].kind = "frame" PROVE i \in 2..F + 1
    <3>1. i # 1 /\ i - 1 <= T BY <1>1, <2>1
    <3> QED BY <3>1, <1>1, <1>2
  <2>2. ASSUME NEW i \in 2..F + 1 PROVE i \in 1..D /\ disk[i].kind = "frame"
    <3>1. i \in 1..D /\ i # 1 /\ i - 1 <= T BY <1>1, <1>2
    <3> QED BY <3>1, <1>1
  <2> QED BY <2>1, <2>2, <1>3
<1>7. Cardinality(2..F + 1) = F
  <2> DEFINE m == F + 1
  <2>1. 2 \in Int /\ m \in Int BY <1>4
  <2>2. m - 2 + 1 = F /\ (2 > m => F = 0) BY <1>4
  <2> HIDE DEF m
  <2>3. Cardinality(2..m) = IF 2 > m THEN 0 ELSE m - 2 + 1 BY ONLY <2>1, FS_Interval
  <2>4. Cardinality(2..m) = F BY <2>2, <2>3
  <2> QED BY <2>4 DEF m
<1> HIDE DEF Here
<1>8. Cardinality(Here) = F BY <1>5, <1>7
<1> QED BY <1>4, <1>8 DEF Here, F

-----------------------------------------------------------------------------
(* The reader. *)

\* What read_stream does at a message.
LEMMA ReadStreamCases ==
  ASSUME NEW p \in Nat
  PROVE  LET r == ReadStream(p) IN
           \/ /\ p <= Len(disk)
              /\ r.pos = p + 1 /\ r.data = disk[p] /\ r.buffered = TRUE /\ r.throws = FALSE
           \/ /\ p > Len(disk) /\ p = Len(disk) + 1 /\ cut
              /\ r.pos = p + 1 /\ r.data = NoMessage /\ r.buffered = buffered /\ r.throws = TRUE
           \/ /\ ~(p <= Len(disk)) /\ ~(p = Len(disk) + 1 /\ cut)
              /\ r.pos = p /\ r.data = data /\ r.buffered = FALSE /\ r.throws = FALSE
<1>1. CASE p <= Len(disk) BY <1>1 DEF ReadStream
<1>2. CASE ~(p <= Len(disk)) /\ p = Len(disk) + 1 /\ cut
  <2>1. p > Len(disk) BY <1>2
  <2> QED BY <1>2, <2>1 DEF ReadStream
<1>3. CASE ~(p <= Len(disk)) /\ ~(p = Len(disk) + 1 /\ cut) BY <1>3 DEF ReadStream
<1> QED BY <1>1, <1>2, <1>3

\* What a look at the next message finds: part of a message, nothing, or a message.
LookThrows ==
  /\ Look.throws = TRUE /\ Look.buffered = FALSE /\ Look.pos = Len(disk) + 2
  /\ Look.data = NoMessage
  /\ cut /\ ~buffered /\ disk # <<>> /\ Len(replayed) = Len(disk) - 1
  /\ Len(replayed) = FramesOnDisk
LookNothing ==
  /\ Look.throws = FALSE /\ Look.buffered = FALSE /\ Look.pos = pos /\ Look.data = data
  /\ ~buffered /\ Len(replayed) = FramesOnDisk
LookMessage ==
  /\ Look.throws = FALSE /\ Look.buffered = TRUE /\ disk # <<>>
  /\ 3 <= Look.pos /\ Look.pos <= Len(disk) + 1 /\ Look.pos \in Nat
  /\ Look.data = disk[Look.pos - 1] /\ Look.data \in MessageType
  /\ Len(replayed) = Look.pos - 3
  /\ Look.data.kind = "footer" => Len(replayed) = FramesOnDisk
  /\ Look.data.kind # "footer" =>
       /\ Look.pos - 2 \in 1..Len(took) /\ Look.data.frame = took[Look.pos - 2]

\* One of them is found, wherever the reader is.
LEMMA LookCases ==
  ASSUME LogInv, TellInv, DiskInv, ReaderInv, reader = "open"
  PROVE  LookThrows \/ LookNothing \/ LookMessage
<1> DEFINE D == Len(disk)
           T == Len(took)
           R == Len(replayed)
<1>1. /\ D \in Nat /\ T \in Nat /\ D <= T + 2 /\ (disk = <<>>) = (D = 0)
      /\ cut => D # T + 2
      /\ \A i \in 1..D :
           /\ disk[i] \in MessageType
           /\ i # 1 /\ i - 1 <= T => disk[i].kind = "frame" /\ disk[i].frame = took[i - 1]
           /\ i - 1 > T => i = T + 2 /\ i = D /\ disk[i].kind = "footer"
  BY DiskPlaces
<1>2. /\ PlaceInv /\ pos \in Nat /\ buffered \in BOOLEAN /\ data \in MessageType /\ R \in Nat /\ R <= T
  <2>1. replayed \in Seq(Seq(EntryType)) BY DEF ReaderInv
  <2> QED BY <2>1, LenProperties DEF ReaderInv
<1>3. /\ buffered => 3 <= pos /\ pos <= D + 1 /\ data = disk[pos - 1] /\ R = pos - 3 /\ D # 0
      /\ ~buffered /\ (D = 0 \/ pos <= D + 1) => pos >= 2 /\ R = pos - 2
      /\ D = 0 => ~buffered /\ pos = 2
      /\ D # 0 /\ pos > D + 1 => ~buffered /\ cut /\ pos = D + 2 /\ R = D - 1
  BY <1>1, <1>2 DEF PlaceInv
<1>4. FramesOnDisk = IF D = 0 THEN 0 ELSE IF D = T + 2 THEN T ELSE D - 1
  BY <1>1 DEF FramesOnDisk
<1>5. ASSUME NEW q \in Nat, 3 <= q, q <= D + 1, R = q - 3
      PROVE  /\ disk[q - 1] \in MessageType
             /\ disk[q - 1].kind = "footer" => R = FramesOnDisk
             /\ disk[q - 1].kind # "footer" => q - 2 \in 1..T /\ disk[q - 1].frame = took[q - 2]
  <2> DEFINE i == q - 1
  <2>1. i \in 1..D /\ i # 1 /\ i - 1 = q - 2 /\ q - 2 \in Nat /\ q - 2 >= 1 BY <1>1, <1>5
  <2> HIDE DEF i, D, T, R
  <2>2. CASE i - 1 <= T
    <3>1. disk[i].kind = "frame" /\ disk[i].frame = took[i - 1] /\ disk[i] \in MessageType
      BY <1>1, <2>1, <2>2
    <3>2. q - 2 \in 1..T BY <1>1, <2>1, <2>2
    <3> QED BY <3>1, <3>2, <2>1 DEF i
  <2>3. CASE ~(i - 1 <= T)
    <3>1. i - 1 > T BY <1>1, <2>1, <2>3
    <3>2. disk[i].kind = "footer" /\ i = T + 2 /\ i = D /\ disk[i] \in MessageType
      BY <1>1, <2>1, <3>1
    <3>3. R = FramesOnDisk
      <4>1. q = D + 1 /\ D = T + 2 /\ D # 0 BY <1>1, <3>2 DEF i
      <4> QED BY <4>1, <1>1, <1>4, <1>5
    <3> QED BY <3>2, <3>3 DEF i
  <2> QED BY <2>2, <2>3
<1> HIDE DEF D, T, R
<1>6. CASE buffered
  <2>1. Look.pos = pos /\ Look.data = data /\ Look.buffered = TRUE /\ Look.throws = FALSE
    BY <1>6 DEF Look
  <2>2. 3 <= pos /\ pos <= D + 1 /\ data = disk[pos - 1] /\ R = pos - 3 /\ D # 0 BY <1>3, <1>6
  <2>3. LookMessage BY <2>1, <2>2, <1>1, <1>2, <1>5 DEF LookMessage, D, T, R
  <2> QED BY <2>3
<1>7. CASE ~buffered
  <2> DEFINE r == ReadStream(pos)
  <2>1. Look = r BY <1>7 DEF Look
  <2>2. pos >= 2
    <3>1. CASE D = 0 \/ pos <= D + 1 BY <3>1, <1>3, <1>7
    <3>2. CASE ~(D = 0 \/ pos <= D + 1) BY <3>2, <1>1, <1>2
    <3> QED BY <3>1, <3>2
  <2> HIDE DEF r
  <2>3. CASE pos <= D /\ r.pos = pos + 1 /\ r.data = disk[pos] /\ r.buffered = TRUE /\ r.throws = FALSE
    <3>1. D # 0 /\ R = pos - 2 BY <1>1, <1>2, <1>3, <1>7, <2>2, <2>3
    <3> DEFINE q == pos + 1
    <3>2. q \in Nat /\ 3 <= q /\ q <= D + 1 /\ R = q - 3 /\ q - 1 = pos
      BY <1>1, <1>2, <2>2, <2>3, <3>1
    <3> HIDE DEF q
    <3>3. /\ disk[q - 1] \in MessageType
          /\ disk[q - 1].kind = "footer" => R = FramesOnDisk
          /\ disk[q - 1].kind # "footer" => q - 2 \in 1..T /\ disk[q - 1].frame = took[q - 2]
      BY <3>2, <1>5
    <3>4. Look.pos = q /\ Look.data = disk[q - 1] /\ Look.buffered = TRUE /\ Look.throws = FALSE
      BY <2>1, <2>3, <3>2 DEF q
    <3>5. LookMessage BY <3>1, <3>2, <3>3, <3>4, <1>1 DEF LookMessage, D, T, R
    <3> QED BY <3>5
  <2>4. CASE pos = D + 1 /\ cut /\ r.pos = pos + 1 /\ r.data = NoMessage
             /\ r.buffered = buffered /\ r.throws = TRUE
    <3>1. D # 0 /\ R = D - 1 BY <1>1, <1>2, <1>3, <1>7, <2>2, <2>4
    <3>2. R = FramesOnDisk BY <1>1, <1>4, <2>4, <3>1
    <3>3. r.buffered = FALSE BY <1>7, <1>2, <2>4
    <3>4. r.pos = D + 2 BY <1>1, <2>4
    <3>5. LookThrows BY <1>1, <1>7, <2>1, <2>4, <3>1, <3>2, <3>3, <3>4 DEF LookThrows, D, R
    <3> QED BY <3>5
  <2>5. CASE ~(pos <= D) /\ ~(pos = D + 1 /\ cut) /\ r.pos = pos /\ r.data = data
             /\ r.buffered = FALSE /\ r.throws = FALSE
    <3>1. R = FramesOnDisk
      <4>1. CASE D = 0 BY <4>1, <1>3, <1>4, <1>7, <1>1
      <4>2. CASE D # 0 /\ pos = D + 1
        <5>1. R = D - 1 BY <4>2, <1>1, <1>3, <1>7
        <5>2. D # T + 2 BY <5>1, <1>1, <1>2
        <5> QED BY <4>2, <5>1, <5>2, <1>4
      <4>3. CASE D # 0 /\ pos # D + 1
        <5>1. pos > D + 1 BY <4>3, <2>5, <1>1, <1>2
        <5>2. cut /\ R = D - 1 BY <4>3, <5>1, <1>3
        <5>3. D # T + 2 BY <5>2, <1>1
        <5> QED BY <4>3, <5>2, <5>3, <1>4
      <4> QED BY <4>1, <4>2, <4>3
    <3>2. LookNothing BY <1>7, <2>1, <2>5, <3>1 DEF LookNothing, R
    <3> QED BY <3>2
  <2> QED BY <2>3, <2>4, <2>5, <1>2, ReadStreamCases DEF r, D
<1> QED BY <1>6, <1>7, <1>2

\* What it says of them.
LEMMA SaysWhat ==
  /\ LookThrows => Says(Look) = "threw"
  /\ LookNothing => Says(Look) = "end"
  /\ LookMessage => Says(Look) = IF Look.data.kind = "footer" THEN "end" ELSE "more"
BY DEF LookThrows, LookNothing, LookMessage, Says

\* What a call of the reader has to keep.
LEMMA ReaderKeeps ==
  ASSUME ReaderInv, reader = "open",
         UNCHANGED <<reader, meta, liveVars, recordVars, fileVars>>,
         data' \in MessageType, buffered' \in BOOLEAN, pos' \in Nat,
         end' \in {"unknown", "more", "end", "threw"},
         replayed' \in Seq(Seq(EntryType)), Len(replayed') <= Len(took),
         \A i \in 1..Len(replayed') : replayed'[i] = Flat(Convert(took[i])),
         PlaceInv',
         end' \in {"end", "threw"} => Len(replayed') = FramesOnDisk,
         end' = "threw" => cut
  PROVE  ReaderInv'
<1>1. /\ reader' = reader /\ meta' = meta /\ pc' = pc /\ rec' = rec /\ log' = log
      /\ took' = took /\ disk' = disk /\ cut' = cut
  BY DEF liveVars, recordVars, fileVars
<1>2. FramesOnDisk' = FramesOnDisk BY <1>1 DEF FramesOnDisk
<1>3. log # <<>> /\ (rec = "off" \/ pc = "killed")
      /\ meta = IF disk = <<>> \/ cut \/ disk[Len(disk)].kind # "footer" THEN NoFooter
                ELSE disk[Len(disk)].footer
  BY DEF ReaderInv
<1> QED BY <1>1, <1>2, <1>3 DEF ReaderInv

\* After a look that gives no frame away, the reader is where it has looked.
LEMMA PlaceAfterLook ==
  ASSUME LogInv, TellInv, DiskInv, ReaderInv, reader = "open",
         UNCHANGED <<reader, meta, liveVars, recordVars, fileVars>>,
         pos' = Look.pos, data' = Look.data, buffered' = Look.buffered, replayed' = replayed
  PROVE  /\ data' \in MessageType /\ buffered' \in BOOLEAN /\ pos' \in Nat /\ PlaceInv'
<1>1. /\ Len(disk) \in Nat /\ (disk = <<>>) = (Len(disk) = 0) /\ PlaceInv
      /\ Len(replayed) \in Nat /\ pos \in Nat /\ data \in MessageType /\ Len(replayed) <= Len(took)
  <2>1. replayed \in Seq(Seq(EntryType)) BY DEF ReaderInv
  <2>2. Len(replayed) \in Nat BY <2>1, LenProperties
  <2> QED BY <2>2, DiskPlaces DEF ReaderInv
<1>2. disk' = disk /\ cut' = cut /\ took' = took BY DEF fileVars, recordVars
<1>3. CASE LookThrows
  <2>1. /\ buffered' = FALSE /\ pos' = Len(disk) + 2 /\ data' = NoMessage /\ cut /\ disk # <<>>
        /\ Len(replayed) = Len(disk) - 1
    BY <1>3 DEF LookThrows
  <2>2. pos' \in Nat /\ pos' > Len(disk) + 1 /\ ~(pos' <= Len(disk) + 1) BY <1>1, <2>1
  <2>3. PlaceInv' BY <1>2, <2>1, <2>2 DEF PlaceInv
  <2> QED BY <2>1, <2>2, <2>3, MessageParts
<1>4. CASE LookNothing
  <2>1. buffered' = FALSE /\ pos' = pos /\ ~buffered BY <1>4 DEF LookNothing
  <2>2. PlaceInv' BY <1>1, <1>2, <2>1 DEF PlaceInv
  <2>3. data' = data BY <1>4 DEF LookNothing
  <2> QED BY <1>1, <2>1, <2>2, <2>3
<1>5. CASE LookMessage
  <2>1. /\ buffered' = TRUE /\ disk # <<>> /\ 3 <= pos' /\ pos' <= Len(disk) + 1 /\ pos' \in Nat
        /\ data' = disk[pos' - 1] /\ data' \in MessageType /\ Len(replayed) = pos' - 3
    BY <1>5 DEF LookMessage
  <2>2. ~(pos' > Len(disk) + 1) BY <1>1, <2>1
  <2>3. PlaceInv' BY <1>2, <2>1, <2>2 DEF PlaceInv
  <2> QED BY <2>1, <2>3
<1> QED BY <1>3, <1>4, <1>5, LookCases

\* end_of_stream gives nothing away.
LEMMA EndOfStreamKeeps ==
  ASSUME LogInv, TellInv, DiskInv, ReaderInv, EndOfStream
  PROVE  ReaderInv'
<1>1. /\ reader = "open" /\ UNCHANGED <<reader, meta, liveVars, recordVars, fileVars>>
      /\ pos' = Look.pos /\ data' = Look.data /\ buffered' = Look.buffered /\ replayed' = replayed
      /\ end' = Says(Look)
  BY DEF EndOfStream
<1>2. data' \in MessageType /\ buffered' \in BOOLEAN /\ pos' \in Nat /\ PlaceInv'
  BY <1>1, PlaceAfterLook
<1>3. /\ replayed' \in Seq(Seq(EntryType)) /\ Len(replayed') <= Len(took)
      /\ \A i \in 1..Len(replayed') : replayed'[i] = Flat(Convert(took[i]))
  BY <1>1 DEF ReaderInv
<1>4. /\ end' \in {"unknown", "more", "end", "threw"}
      /\ end' \in {"end", "threw"} => Len(replayed') = FramesOnDisk
      /\ end' = "threw" => cut
  <2>1. CASE LookThrows BY <2>1, <1>1, SaysWhat DEF LookThrows
  <2>2. CASE LookNothing BY <2>2, <1>1, SaysWhat DEF LookNothing
  <2>3. CASE LookMessage BY <2>3, <1>1, SaysWhat DEF LookMessage
  <2> QED BY <2>1, <2>2, <2>3, <1>1, LookCases
<1> QED BY <1>1, <1>2, <1>3, <1>4, ReaderKeeps

\* recv_frame gives the frame it has found, which is the next one taken.
LEMMA RecvReplayedKeeps ==
  ASSUME LogInv, TellInv, DiskInv, ReaderInv, RecvReplayed
  PROVE  ReaderInv'
<1>1. /\ reader = "open" /\ UNCHANGED <<reader, meta, liveVars, recordVars, fileVars>>
      /\ pos' = Look.pos /\ data' = Look.data
  BY DEF RecvReplayed
<1>2. /\ replayed \in Seq(Seq(EntryType)) /\ Len(replayed) <= Len(took) /\ Len(replayed) \in Nat
      /\ \A i \in 1..Len(replayed) : replayed[i] = Flat(Convert(took[i]))
      /\ took \in Seq(FrameType) /\ Len(took) \in Nat
  <2>1. replayed \in Seq(Seq(EntryType)) /\ took \in Seq(FrameType) BY DEF ReaderInv, LogInv
  <2>2. Len(replayed) \in Nat /\ Len(took) \in Nat BY <2>1, LenProperties
  <2> QED BY <2>1, <2>2 DEF ReaderInv
<1>3. LookThrows \/ LookNothing \/ LookMessage BY <1>1, LookCases
<1>4. CASE Says(Look) # "more"
  <2>1. buffered' = Look.buffered /\ replayed' = replayed /\ end' = Says(Look)
    BY <1>4 DEF RecvReplayed
  <2>2. data' \in MessageType /\ buffered' \in BOOLEAN /\ pos' \in Nat /\ PlaceInv'
    BY <1>1, <2>1, PlaceAfterLook
  <2>3. /\ replayed' \in Seq(Seq(EntryType)) /\ Len(replayed') <= Len(took)
        /\ \A i \in 1..Len(replayed') : replayed'[i] = Flat(Convert(took[i]))
    BY <1>2, <2>1
  <2>4. /\ end' \in {"unknown", "more", "end", "threw"}
        /\ end' \in {"end", "threw"} => Len(replayed') = FramesOnDisk
        /\ end' = "threw" => cut
    <3>1. CASE LookThrows BY <3>1, <2>1, SaysWhat DEF LookThrows
    <3>2. CASE LookNothing BY <3>2, <2>1, SaysWhat DEF LookNothing
    <3>3. CASE LookMessage BY <3>3, <2>1, SaysWhat DEF LookMessage
    <3> QED BY <3>1, <3>2, <3>3, <1>3
  <2> QED BY <1>1, <2>2, <2>3, <2>4, ReaderKeeps
<1>5. CASE Says(Look) = "more"
  <2>1. LookMessage /\ Look.data.kind # "footer" BY <1>3, <1>5, SaysWhat
  <2> DEFINE e == Flat(Convert(Look.data.frame))
             q == Look.pos
             n == Len(replayed)
  <2>2. buffered' = FALSE /\ end' = "unknown" /\ replayed' = Append(replayed, e)
    BY <1>5 DEF RecvReplayed
  <2>3. /\ disk # <<>> /\ 3 <= q /\ q <= Len(disk) + 1 /\ q \in Nat /\ data' \in MessageType
        /\ n = q - 3 /\ q - 2 \in 1..Len(took) /\ Look.data.frame = took[q - 2]
    BY <1>1, <2>1 DEF LookMessage
  <2>4. n + 1 = q - 2 /\ n + 1 \in 1..Len(took) /\ n + 1 <= Len(took) BY <2>3, <1>2
  <2>5. e = Flat(Convert(took[n + 1])) /\ e \in Seq(EntryType)
    <3>1. took[q - 2] \in FrameType BY <1>2, <2>3, ElementOfSeq
    <3> QED BY <2>3, <2>4, <3>1, ConvertIsFrame
  <2>6. pos' = q BY <1>1
  <2> HIDE DEF e, q
  <2>7. /\ replayed' \in Seq(Seq(EntryType)) /\ Len(replayed') = n + 1 /\ replayed'[n + 1] = e
        /\ \A i \in 1..n : replayed'[i] = replayed[i]
    BY <1>2, <2>2, <2>5, AppendProperties
  <2>8. \A i \in 1..Len(replayed') : replayed'[i] = Flat(Convert(took[i]))
    <3>1. \A i \in 1..n + 1 : i \in 1..n \/ i = n + 1 BY <1>2
    <3> QED BY <3>1, <1>2, <2>5, <2>7
  <2>9. PlaceInv'
    <3>1. disk' = disk /\ cut' = cut /\ took' = took BY <1>1 DEF fileVars, recordVars
    <3>2. Len(disk) \in Nat BY DiskPlaces
    <3>3. ~(pos' > Len(disk) + 1) /\ pos' >= 2 BY <2>3, <2>6, <3>2
    <3>4. Len(replayed') = pos' - 2 /\ Len(replayed') <= Len(took) BY <2>4, <2>6, <2>7
    <3> QED BY <2>2, <2>3, <2>6, <3>1, <3>3, <3>4 DEF PlaceInv
  <2>10. Len(replayed') <= Len(took) BY <2>4, <2>7
  <2>11. pos' \in Nat /\ buffered' \in BOOLEAN BY <2>2, <2>3, <2>6
  <2> QED BY <1>1, <2>2, <2>3, <2>7, <2>8, <2>9, <2>10, <2>11, ReaderKeeps
<1> QED BY <1>4, <1>5

\* jump_to_first_frame reads the first frame, if there is one, and none is given.
LEMMA JumpKeeps ==
  ASSUME LogInv, TellInv, DiskInv, ReaderInv, Jump
  PROVE  ReaderInv'
<1> DEFINE r == ReadStream(2)
           D == Len(disk)
<1>1. /\ reader = "open" /\ UNCHANGED <<reader, meta, liveVars, recordVars, fileVars>>
      /\ pos' = r.pos /\ data' = r.data /\ buffered' = r.buffered /\ replayed' = <<>>
      /\ end' = IF r.throws THEN "threw" ELSE "unknown"
  BY DEF Jump
<1>2. /\ D \in Nat /\ (disk = <<>>) = (D = 0) /\ Len(took) \in Nat
      /\ (cut => D # Len(took) + 2) /\ \A i \in 1..D : disk[i] \in MessageType
  BY DiskPlaces
<1>3. PlaceInv /\ data \in MessageType /\ buffered \in BOOLEAN /\ pos \in Nat
  BY <1>1 DEF ReaderInv
<1>4. replayed' \in Seq(Seq(EntryType)) /\ Len(replayed') = 0 /\ Len(replayed') <= Len(took)
      /\ \A i \in 1..Len(replayed') : replayed'[i] = Flat(Convert(took[i]))
  <2>1. <<>> \in Seq(Seq(EntryType)) /\ Len(<<>>) = 0 BY EmptySeq
  <2>2. \A i \in 1..0 : FALSE OBVIOUS
  <2> QED BY <1>1, <1>2, <2>1, <2>2
<1>5. disk' = disk /\ cut' = cut /\ took' = took BY <1>1 DEF fileVars, recordVars
<1> HIDE DEF r
<1>6. CASE 2 <= D /\ r.pos = 3 /\ r.data = disk[2] /\ r.buffered = TRUE /\ r.throws = FALSE
  <2>1. data' \in MessageType /\ buffered' = TRUE /\ pos' = 3 /\ data' = disk[2] /\ end' = "unknown"
    <3>1. 2 \in 1..D BY <1>2, <1>6
    <3> QED BY <1>1, <1>2, <1>6, <3>1
  <2>2. ~(3 > D + 1) /\ 3 <= D + 1 /\ D # 0 /\ 3 - 1 = 2 /\ 3 - 3 = 0 BY <1>2, <1>6
  <2>3. PlaceInv' BY <1>2, <1>4, <1>5, <2>1, <2>2 DEF PlaceInv
  <2>4. /\ buffered' \in BOOLEAN /\ pos' \in Nat /\ end' \in {"unknown", "more", "end", "threw"}
        /\ end' \notin {"end", "threw"} /\ end' # "threw"
    BY <2>1
  <2>5. reader = "open" /\ UNCHANGED <<reader, meta, liveVars, recordVars, fileVars>> BY <1>1
  <2> QED BY <1>4, <2>1, <2>3, <2>4, <2>5, ReaderKeeps
<1>7. CASE 2 = D + 1 /\ cut /\ r.pos = 3 /\ r.data = NoMessage /\ r.buffered = buffered
           /\ r.throws = TRUE
  <2>0. 2 = D + 1 /\ cut BY <1>7
  <2>1. D = 1
    <3>1. D \in Nat /\ 2 = D + 1 BY <1>2, <2>0
    <3> HIDE DEF D
    <3> QED BY <3>1
  <2>2. buffered = FALSE
    <3>1. buffered => 3 <= pos /\ pos <= D + 1 BY <1>3 DEF PlaceInv
    <3>2. ~(3 <= pos /\ pos <= D + 1) BY <1>3, <2>1
    <3> QED BY <1>3, <3>1, <3>2
  <2>3. data' \in MessageType /\ buffered' = FALSE /\ pos' = 3 /\ end' = "threw"
    BY <1>1, <1>7, <2>2, MessageParts
  <2>4. 3 > D + 1 /\ 3 = D + 2 /\ D - 1 = 0 /\ disk # <<>> /\ ~(3 <= D + 1) BY <1>2, <2>1
  <2>5. PlaceInv' BY <1>4, <1>5, <2>0, <2>3, <2>4 DEF PlaceInv
  <2>6. FramesOnDisk = 0 BY <1>2, <2>0, <2>1, <2>4 DEF FramesOnDisk
  <2>7. /\ buffered' \in BOOLEAN /\ pos' \in Nat /\ end' \in {"unknown", "more", "end", "threw"}
        /\ Len(replayed') = FramesOnDisk
    BY <1>4, <2>3, <2>6
  <2>8. reader = "open" /\ UNCHANGED <<reader, meta, liveVars, recordVars, fileVars>> BY <1>1
  <2> QED BY <1>4, <2>0, <2>3, <2>5, <2>7, <2>8, ReaderKeeps
<1>8. CASE ~(2 <= D) /\ ~(2 = D + 1 /\ cut) /\ r.pos = 2 /\ r.data = data
           /\ r.buffered = FALSE /\ r.throws = FALSE
  <2>1. data' \in MessageType /\ buffered' = FALSE /\ pos' = 2 /\ end' = "unknown"
    BY <1>1, <1>3, <1>8
  <2>2. D # 0 => ~(2 > D + 1) BY <1>2
  <2>3. PlaceInv' BY <1>2, <1>4, <1>5, <2>1, <2>2 DEF PlaceInv
  <2>4. /\ buffered' \in BOOLEAN /\ pos' \in Nat /\ end' \in {"unknown", "more", "end", "threw"}
        /\ end' \notin {"end", "threw"} /\ end' # "threw"
    BY <2>1
  <2>5. reader = "open" /\ UNCHANGED <<reader, meta, liveVars, recordVars, fileVars>> BY <1>1
  <2> QED BY <1>4, <2>1, <2>3, <2>4, <2>5, ReaderKeeps
<1>9. 2 \in Nat /\ 2 + 1 = 3 OBVIOUS
<1> QED BY <1>6, <1>7, <1>8, <1>9, ReadStreamCases DEF r

\* The constructor leaves the reader at the first frame, with the footer.
LEMMA OpenKeeps ==
  ASSUME LogInv, TellInv, DiskInv, ReaderInv, Open
  PROVE  ReaderInv'
<1> DEFINE D == Len(disk)
           last == IF disk = <<>> \/ cut THEN NoMessage ELSE disk[D]
<1>1. /\ log # <<>> /\ (rec = "off" \/ pc = "killed")
      /\ reader' = IF disk = <<>> /\ cut THEN "bad" ELSE "open"
      /\ data' = last /\ meta' = IF last.kind = "footer" THEN last.footer ELSE NoFooter
      /\ pos' = 2 /\ buffered' = FALSE /\ replayed' = <<>> /\ end' = "unknown"
  BY DEF Open
<1>2. log' = log /\ rec' = rec /\ pc' = pc /\ took' = took /\ disk' = disk /\ cut' = cut
  BY DEF Open, liveVars, recordVars, fileVars
<1>3. /\ D \in Nat /\ (disk = <<>>) = (D = 0) /\ Len(took) \in Nat
      /\ \A i \in 1..D : disk[i] \in MessageType
  BY DiskPlaces
<1>4. replayed' \in Seq(Seq(EntryType)) /\ Len(replayed') = 0 /\ Len(replayed') <= Len(took)
      /\ \A i \in 1..Len(replayed') : replayed'[i] = Flat(Convert(took[i]))
  <2>1. <<>> \in Seq(Seq(EntryType)) /\ Len(<<>>) = 0 BY EmptySeq
  <2>2. \A i \in 1..0 : FALSE OBVIOUS
  <2> QED BY <1>1, <1>3, <2>1, <2>2
<1>5. last \in MessageType
  <2>1. CASE disk = <<>> \/ cut BY <2>1, MessageParts
  <2>2. CASE ~(disk = <<>> \/ cut)
    <3>1. D \in 1..D BY <1>3, <2>2
    <3> QED BY <1>3, <2>2, <3>1
  <2> QED BY <2>1, <2>2
<1>6. meta' = IF disk = <<>> \/ cut \/ disk[D].kind # "footer" THEN NoFooter ELSE disk[D].footer
  <2>1. CASE disk = <<>> \/ cut
    <3>1. last = NoMessage BY <2>1
    <3>2. meta' = NoFooter BY <1>1, <3>1, MessageParts
    <3> QED BY <2>1, <3>2
  <2>2. CASE ~(disk = <<>> \/ cut)
    <3>1. last = disk[D] BY <2>2
    <3> HIDE DEF last
    <3> QED BY <1>1, <2>2, <3>1
  <2> QED BY <2>1, <2>2
<1>7. data' = last /\ data' \in MessageType BY <1>1, <1>5
<1> HIDE DEF last
<1>8. PlaceInv'
  <2>1. D # 0 => ~(2 > D + 1) BY <1>3
  <2> QED BY <1>1, <1>2, <1>3, <1>4, <2>1 DEF PlaceInv
<1>9. CASE disk = <<>> /\ cut
  <2>1. reader' = "bad" /\ cut' /\ meta' = NoFooter BY <1>1, <1>2, <1>6, <1>9
  <2> QED BY <1>1, <1>2, <1>4, <1>7, <2>1 DEF ReaderInv
<1>10. CASE ~(disk = <<>> /\ cut)
  <2>1. reader' = "open" BY <1>1, <1>10
  <2> QED BY <1>1, <1>2, <1>4, <1>6, <1>7, <1>8, <2>1 DEF ReaderInv
<1> QED BY <1>9, <1>10

\* Before a recording is opened nothing is known of it.
LEMMA ClosedKeeps ==
  ASSUME ReaderInv, reader = "closed", UNCHANGED readerVars, took' \in Seq(FrameType)
  PROVE  ReaderInv'
<1>1. /\ reader' = "closed" /\ data' = data /\ buffered' = buffered /\ pos' = pos
      /\ end' = end /\ replayed' = replayed /\ meta' = meta
  BY DEF readerVars
<1>2. /\ data \in MessageType /\ pos = 1 /\ buffered \in BOOLEAN /\ ~buffered /\ meta = NoFooter
      /\ replayed = <<>> /\ end = "unknown"
  BY DEF ReaderInv
<1>3. replayed' \in Seq(Seq(EntryType)) /\ Len(replayed') = 0 BY <1>1, <1>2, EmptySeq
<1>4. Len(took') \in Nat BY LenProperties
<1>5. \A i \in 1..Len(replayed') : FALSE BY <1>3
<1>6. Len(replayed') <= Len(took') BY <1>3, <1>4
<1> QED BY <1>1, <1>2, <1>3, <1>5, <1>6 DEF ReaderInv

\* No recording is open.
LEMMA ReaderInit == Init => ReaderInv
<1> SUFFICES ASSUME Init PROVE ReaderInv
  OBVIOUS
<1>1. /\ reader = "closed" /\ data = NoMessage /\ pos = 1 /\ buffered = FALSE /\ meta = NoFooter
      /\ replayed = <<>> /\ end = "unknown" /\ took = <<>>
  BY DEF Init
<1>2. replayed \in Seq(Seq(EntryType)) /\ Len(replayed) = 0 /\ Len(took) = 0 BY <1>1, EmptySeq
<1>3. \A i \in 1..Len(replayed) : FALSE BY <1>2
<1>4. data \in MessageType BY <1>1, MessageParts
<1>5. buffered \in BOOLEAN /\ ~buffered /\ pos \in Nat BY <1>1
<1>6. Len(replayed) <= Len(took) BY <1>2
<1> QED BY <1>1, <1>2, <1>3, <1>4, <1>5, <1>6 DEF ReaderInv

\* Every step keeps the reader.
LEMMA ReaderStep ==
  LogInv /\ TellInv /\ DiskInv /\ ReaderInv /\ LogInv' /\ [Next]_vars => ReaderInv'
<1> SUFFICES ASSUME LogInv, TellInv, DiskInv, ReaderInv, LogInv', [Next]_vars PROVE ReaderInv'
  OBVIOUS
<1>1. CASE Open BY <1>1, OpenKeeps
<1>2. CASE EndOfStream BY <1>2, EndOfStreamKeeps
<1>3. CASE RecvReplayed BY <1>3, RecvReplayedKeeps
<1>4. CASE Jump BY <1>4, JumpKeeps
<1>5. CASE RecvFrame \/ Publish \/ RecordToStream \/ Finish \/ Flush \/ Kill
  <2>1. reader = "closed" /\ UNCHANGED readerVars
    BY <1>5 DEF RecvFrame, Publish, RecordToStream, Finish, Flush, Kill, Live
  <2>2. took' \in Seq(FrameType) BY DEF LogInv
  <2> QED BY <2>1, <2>2, ClosedKeeps
<1>6. CASE UNCHANGED vars
  <2>1. UNCHANGED <<pc, rec, log, took, disk, cut>>
    BY <1>6 DEF vars, liveVars, recordVars, fileVars
  <2>2. UNCHANGED <<reader, pos, buffered, data, meta, replayed, end>> BY <1>6 DEF vars, readerVars
  <2> QED BY <2>1, <2>2 DEF ReaderInv, PlaceInv, FramesOnDisk
<1> QED BY <1>1, <1>2, <1>3, <1>4, <1>5, <1>6 DEF Next

-----------------------------------------------------------------------------
(* The theorems. *)

\* StreamInv is an inductive invariant.
THEOREM StreamInductive == Spec => []StreamInv
<1>1. Init => StreamInv BY LiveInit, LogInit, TellInit, DiskInit, ReaderInit DEF StreamInv
<1>2. StreamInv /\ [Next]_vars => StreamInv'
  <2> SUFFICES ASSUME StreamInv, [Next]_vars PROVE StreamInv'
    OBVIOUS
  <2>1. LiveInv /\ LogInv /\ TellInv /\ DiskInv /\ ReaderInv BY DEF StreamInv
  <2>2. LiveInv' /\ LogInv' /\ TellInv' BY <2>1, LiveStep, LogStep, TellStep
  <2>3. DiskInv' BY <2>1, <2>2, DiskStep
  <2>4. ReaderInv' BY <2>1, <2>2, ReaderStep
  <2> QED BY <2>2, <2>3, <2>4 DEF StreamInv
<1> QED BY <1>1, <1>2, PTL DEF Spec

\* Every variable has its type; in particular the position in the file and the
\* footer's count stay within the frames the device has sent.
THEOREM TypeCorrect == Spec => []TypeOK
<1>1. StreamInv => TypeOK
  <2> SUFFICES ASSUME StreamInv PROVE TypeOK
    OBVIOUS
  <2>1. LiveInv /\ LogInv /\ TellInv /\ DiskInv /\ ReaderInv BY DEF StreamInv
  <2>2. pc \in {"recv", "publish", "killed"} /\ dev.id \in 0..MaxFrames /\ frame.id = dev.id
        /\ dev.id \in Nat
    BY <2>1, BoundsAssumption DEF LiveInv, FrameType
  <2>3. \A m \in Range(log) : m.kind \in {"header", "frame", "footer"}
    <3>1. log \in Seq(MessageType) BY <2>1 DEF LogInv
    <3>2. DOMAIN log = 1..Len(log) BY <3>1, LenProperties
    <3>3. ASSUME NEW i \in 1..Len(log) PROVE log[i].kind \in {"header", "frame", "footer"}
      <4>1. Len(took) \in Nat /\ Len(log) \in Nat
        <5>1. took \in Seq(FrameType) BY <2>1 DEF LogInv
        <5> QED BY <3>1, <5>1, LenProperties
      <4>2. i = 1 \/ (i # 1 /\ i - 1 <= Len(took)) \/ i - 1 > Len(took) BY <4>1
      <4> QED BY <2>1, <4>2, LogPlaces
    <3> QED BY <3>2, <3>3 DEF Range
  <2>4. footer.frames \in 0..MaxFrames /\ Len(footer.events) <= footer.frames
    <3>1. footer.frames = Len(took) /\ Len(footer.events) <= Len(took) BY <2>1 DEF TellInv
    <3>2. Len(took) <= dev.id /\ Len(took) \in Nat
      <4>1. took \in Seq(FrameType) BY <2>1 DEF LogInv
      <4> QED BY <2>1, <4>1, LenProperties DEF LogInv
    <3> QED BY <2>2, <3>1, <3>2, BoundsAssumption
  <2>5. pos \in 1..MaxFrames + 4
    <3>1. Len(disk) \in Nat /\ Len(took) \in Nat /\ Len(disk) <= Len(took) + 2
          /\ (disk = <<>>) = (Len(disk) = 0)
      BY <2>1, DiskPlaces
    <3>2. Len(took) <= MaxFrames
      <4>1. Len(took) <= dev.id BY <2>1 DEF LogInv
      <4> QED BY <2>2, <3>1, <4>1, BoundsAssumption
    <3>3. CASE reader # "open"
      <4>1. pos = 1 \/ pos = 2 BY <2>1, <3>3 DEF ReaderInv
      <4> QED BY <4>1, BoundsAssumption
    <3>4. CASE reader = "open"
      <4>1. PlaceInv /\ buffered \in BOOLEAN /\ pos \in Nat BY <2>1, <3>4 DEF ReaderInv
      <4>2. CASE buffered
        <5>1. 3 <= pos /\ pos <= Len(disk) + 1 BY <4>1, <4>2 DEF PlaceInv
        <5> QED BY <5>1, <4>1, <3>1, <3>2, BoundsAssumption
      <4>3. CASE ~buffered /\ disk = <<>>
        <5>1. pos = 2 BY <4>1, <4>3 DEF PlaceInv
        <5> QED BY <5>1, BoundsAssumption
      <4>4. CASE ~buffered /\ disk # <<>> /\ pos <= Len(disk) + 1
        <5>1. pos >= 2 BY <4>1, <4>4 DEF PlaceInv
        <5>2. pos <= Len(disk) + 1 BY <4>4
        <5> QED BY <5>1, <5>2, <4>1, <3>1, <3>2, BoundsAssumption
      <4>5. CASE ~buffered /\ disk # <<>> /\ ~(pos <= Len(disk) + 1)
        <5>1. pos > Len(disk) + 1 BY <4>1, <4>5, <3>1
        <5>2. pos = Len(disk) + 2 BY <5>1, <4>1, <4>5 DEF PlaceInv
        <5> QED BY <5>2, <3>1, <3>2, BoundsAssumption
      <4> QED BY <4>1, <4>2, <4>3, <4>4, <4>5
    <3> QED BY <3>3, <3>4
  <2>6. rec \in {"off", "on", "finished"} /\ cut \in BOOLEAN /\ reader \in {"closed", "open", "bad"}
        /\ buffered \in BOOLEAN /\ data.kind \in {"none", "header", "frame", "footer"}
        /\ end \in {"unknown", "more", "end", "threw"}
    BY <2>1 DEF LogInv, DiskInv, ReaderInv, MessageType
  <2> QED BY <2>2, <2>3, <2>4, <2>5, <2>6 DEF TypeOK
<1> QED BY <1>1, StreamInductive, PTL

\* Whatever the frames (format, number of pulses and of their returns), what the node
\* publishes is the device's frame, and the two conversions agree.
THEOREM MessageWhole == Spec => []MessageIsFrame
<1>1. StreamInv => MessageIsFrame
  BY SimpleIsFrame DEF StreamInv, LiveInv, MessageIsFrame
<1> QED BY <1>1, StreamInductive, PTL

\* What is read of a recording are the frames received while it was made.
THEOREM ReplaysRecord == Spec => []ReplayedAsRecorded
<1>1. StreamInv => ReplayedAsRecorded
  <2> SUFFICES ASSUME StreamInv PROVE ReplayedAsRecorded
    OBVIOUS
  <2>1. /\ replayed \in Seq(Seq(EntryType)) /\ Len(replayed) <= Len(took) /\ took \in Seq(FrameType)
        /\ \A i \in 1..Len(replayed) : replayed[i] = Flat(Convert(took[i]))
    BY DEF StreamInv, ReaderInv, LogInv
  <2>2. DOMAIN replayed = 1..Len(replayed) /\ Len(replayed) \in Nat /\ Len(took) \in Nat
    BY <2>1, LenProperties
  <2>3. ASSUME NEW i \in DOMAIN replayed PROVE i <= Len(took) /\ IsFrame(replayed[i], took[i])
    <3>1. i \in 1..Len(replayed) /\ i \in 1..Len(took) BY <2>1, <2>2
    <3>2. took[i] \in FrameType BY <2>1, <3>1, ElementOfSeq
    <3>3. IsFrame(Flat(Convert(took[i])), took[i]) BY <3>2, ConvertIsFrame
    <3> QED BY <2>1, <3>1, <3>3
  <2> QED BY <2>3 DEF ReplayedAsRecorded
<1> QED BY <1>1, StreamInductive, PTL

\* The end is not said before every frame on the disk has been given.
THEOREM EndTold == Spec => []EndMeansAll
<1>1. StreamInv => EndMeansAll
  <2> SUFFICES ASSUME StreamInv PROVE EndMeansAll
    OBVIOUS
  <2>1. LogInv /\ TellInv /\ DiskInv /\ ReaderInv BY DEF StreamInv
  <2>2. end \in {"end", "threw"} => reader = "open" /\ Len(replayed) = FramesOnDisk
    BY <2>1 DEF ReaderInv
  <2>3. Cardinality({i \in DOMAIN disk : disk[i].kind = "frame"}) = FramesOnDisk
    BY <2>1, DiskCount
  <2>4. ASSUME reader # "closed", pc # "killed"
        PROVE  /\ end = "end" => Len(replayed) = Len(took)
               /\ end # "threw" /\ reader = "open"
    <3>1. rec = "off" /\ log # <<>> BY <2>1, <2>4 DEF ReaderInv
    <3>2. Len(disk) = Len(took) + 2 /\ Len(took) \in Nat /\ disk # <<>>
      <4>1. Len(disk) = Len(took) + 2 /\ Len(took) \in Nat /\ (disk = <<>>) = (Len(disk) = 0)
        BY <2>1, <2>4, <3>1, DiskPlaces
      <4> QED BY <4>1
    <3>3. FramesOnDisk = Len(took) BY <3>2 DEF FramesOnDisk
    <3>4. ~cut BY <2>1, <2>4 DEF DiskInv
    <3>5. end # "threw"
      <4>1. end = "threw" => reader = "open" BY <2>2
      <4>2. reader = "open" => (end = "threw" => cut) BY <2>1 DEF ReaderInv
      <4> QED BY <4>1, <4>2, <3>4
    <3>6. reader # "bad" /\ reader \in {"closed", "open", "bad"} BY <2>1, <3>4 DEF ReaderInv
    <3> QED BY <2>2, <2>4, <3>3, <3>5, <3>6
  <2> QED BY <2>2, <2>3, <2>4 DEF EndMeansAll
<1> QED BY <1>1, StreamInductive, PTL

\* The footer of a file that has one is true.
THEOREM FooterTrue == Spec => []FooterTells
<1>1. StreamInv => FooterTells
  <2> SUFFICES ASSUME StreamInv PROVE FooterTells
    OBVIOUS
  <2>1. LogInv /\ TellInv /\ DiskInv /\ ReaderInv BY DEF StreamInv
  <2>2. /\ Len(disk) \in Nat /\ Len(took) \in Nat /\ (disk = <<>>) = (Len(disk) = 0)
        /\ pc # "killed" /\ rec = "off" /\ log # <<>> => Len(disk) = Len(took) + 2
        /\ \A i \in 1..Len(disk) :
             /\ i = 1 => disk[i].kind = "header"
             /\ i # 1 /\ i - 1 <= Len(took) => disk[i].kind = "frame"
             /\ i - 1 > Len(took) => disk[i].kind = "footer" /\ disk[i].footer = footer
    BY <2>1, DiskPlaces
  <2>3. reader # "open" => meta = NoFooter BY <2>1 DEF ReaderInv
  <2>4. reader = "open" => meta = IF disk = <<>> \/ cut \/ disk[Len(disk)].kind # "footer" THEN NoFooter
                                  ELSE disk[Len(disk)].footer
    BY <2>1 DEF ReaderInv
  <2>5. took \in Seq(FrameType) BY <2>1 DEF LogInv
  <2>6. DOMAIN took = 1..Len(took) /\ (took # <<>> => Len(took) # 0) BY <2>5, LenProperties, EmptySeq
  <2>7. ASSUME meta # NoFooter PROVE meta = footer
    <3>1. disk # <<>> /\ disk[Len(disk)].kind = "footer" /\ meta = disk[Len(disk)].footer
      BY <2>3, <2>4, <2>7
    <3> DEFINE i == Len(disk)
    <3>2. i \in 1..Len(disk) BY <2>2, <3>1
    <3>3. i = 1 \/ (i # 1 /\ i - 1 <= Len(took)) \/ i - 1 > Len(took) BY <2>2
    <3>4. i - 1 > Len(took) BY <2>2, <3>1, <3>2, <3>3
    <3> QED BY <2>2, <3>1, <3>2, <3>4
  <2>8. /\ footer.frames = Len(took) /\ footer.returns = ReturnsOfAll(took)
        /\ \A i \in 1..Len(took) : PatternIn(footer.events, took[i]) = took[i].pattern
    BY <2>1 DEF TellInv
  <2>9. ASSUME reader = "open", pc # "killed", took # <<>> PROVE meta # NoFooter
    <3>1. rec = "off" /\ log # <<>> BY <2>1, <2>9 DEF ReaderInv
    <3>2. Len(disk) = Len(took) + 2 BY <2>2, <2>9, <3>1
    <3>3. ~cut BY <2>1, <2>9 DEF DiskInv
    <3> DEFINE i == Len(disk)
    <3>4. i \in 1..Len(disk) /\ i - 1 > Len(took) /\ disk # <<>> BY <2>2, <3>2
    <3>5. disk[i].kind = "footer" /\ disk[i].footer = footer BY <2>2, <3>4
    <3>6. meta = footer BY <2>4, <2>9, <3>3, <3>4, <3>5
    <3>7. footer.frames # 0 BY <2>6, <2>8, <2>9
    <3> QED BY <3>6, <3>7, NoDeviceType
  <2> QED BY <2>6, <2>7, <2>8, <2>9 DEF FooterTells
<1> QED BY <1>1, StreamInductive, PTL
=============================================================================
