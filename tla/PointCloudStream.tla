--------------------------- MODULE PointCloudStream ---------------------------
(***************************************************************************)
(* A point cloud from the device to its subscribers and to a file and      *)
(* back: point_cloud_stream::recv_frame with its two conversions           *)
(* (convert_point_cloud), the message the LiDAR node makes of a frame      *)
(* (pointcloudCallback), point_cloud_record, which writes the frames       *)
(* received to a compressed stream, and the same class reading such a      *)
(* recording (end_of_stream, recv_frame, jump_to_first_frame).             *)
(*                                                                         *)
(* The process may be killed at any time: of what it has written a prefix  *)
(* is on the disk, which may end within a message.                         *)
(*                                                                         *)
(* External: the device (its packed arrays are in the order of the pulses, *)
(* and its totals are true), gzip and protobuf (a message that is cut      *)
(* inside cannot be parsed, one that is cut in its length is none).        *)
(* Abstracted: coordinates are the number of the return; of a pulse only   *)
(* id and ambient light; a recording is read when the live stream is done. *)
(* Bound: MaxFrames.                                                       *)
(***************************************************************************)
EXTENDS Integers, Sequences, SequencesExt, FiniteSetsExt

CONSTANTS
  Shapes,       \* frames but for their id: format, pulses, scan pattern
  Scanlines,    \* of the scan pattern
  MaxFrames     \* frames the device sends

\* number_of_points_per_scanline must not be zero: it is divided by.
ASSUME ShapesAssumption ==
  \A s \in Shapes : /\ s.packed \in BOOLEAN /\ s.ids \in BOOLEAN
                    /\ s.pulses \in Seq(Nat) /\ Len(s.pulses) >= Scanlines
ASSUME BoundsAssumption == MaxFrames \in Nat /\ Scanlines \in Nat \ {0}

VARIABLES
  \* the live stream and the node's callback
  pc,           \* "recv", "publish", or "killed"
  dev,          \* the frame as the device has sent it
  frame,        \* the member frame: converted
  msg,          \* point_cloud_msg->data
  \* the recording
  rec,          \* record: "off", "on", "finished"
  log,          \* messages written to the compressed stream
  pattern,      \* scan_pattern of the record
  footer,       \* footer of its metadata
  took,         \* frames received while it is on (history)
  disk,         \* messages of the file that are whole
  cut,          \* what follows them is part of a message
  \* the stream that reads the file
  reader,       \* "closed", "open" or "bad": its constructor has thrown
  pos,          \* the message pb_icstream is at
  buffered,     \* stream_buffered
  data,         \* stream_data
  meta,         \* the footer of its metadata
  replayed,     \* what recv_frame has given since the first frame
  end           \* what the last call has said: "more", "end", "threw", "unknown"

liveVars == <<pc, dev, frame, msg>>
recordVars == <<rec, log, pattern, footer, took>>
fileVars == <<disk, cut>>
readerVars == <<reader, pos, buffered, data, meta, replayed, end>>
vars == <<liveVars, recordVars, fileVars, readerVars>>

NoPattern == "none"
Unset == 0
NoDevice == [id |-> 0, packed |-> FALSE, ids |-> TRUE, pulses |-> <<>>, pattern |-> NoPattern]
NoFooter == [frames |-> 0, returns |-> 0, events |-> <<>>]
Header == [kind |-> "header", frame |-> NoDevice, footer |-> NoFooter]
Data(f) == [Header EXCEPT !.kind = "frame", !.frame = f]
Footer(f) == [Header EXCEPT !.kind = "footer", !.footer = f]
NoMessage == [Header EXCEPT !.kind = "none"]

-----------------------------------------------------------------------------
(* Frames.  f.pulses says how many returns each pulse of f has. *)

\* How many returns the first n pulses have.
Before(f, n) == FoldLeft(LAMBDA a, b : a + b, 0, SubSeq(f.pulses, 1, n))

\* total_number_of_returns
Returns(f) == Before(f, Len(f.pulses))

\* The returns in the order of the pulses: which pulse and which return.
PulsesOfReturns(f) ==
  FlattenSeq([p \in DOMAIN f.pulses |-> [n \in 1..f.pulses[p] |-> p - 1]])
Scan(f) ==
  [i \in DOMAIN PulsesOfReturns(f) |-> [pulse |-> PulsesOfReturns(f)[i], at |-> <<f.id, i>>]]

\* The ambient light of a pulse.
Light(pulse) == pulse + 1

\* get_scanline_id_by_point_id
ScanlineOf(f, pulse) == pulse \div (Len(f.pulses) \div Scanlines)

PushLine(lines, id) == Append(lines, [id |-> id, points |-> <<>>])
PushPoint(lines, point) ==
  [lines EXCEPT ![Len(lines)].points = Append(@, point)]
PushReturn(lines, r) ==
  LET n == Len(lines) m == Len(lines[n].points) IN
    [lines EXCEPT ![n].points[m].returns = Append(@, r)]

\* The scanlines, with one for this pulse at the end.
OnLine(f, lines, pulse) ==
  IF lines # <<>> /\ lines[Len(lines)].id = ScanlineOf(f, pulse) THEN lines
  ELSE PushLine(lines, ScanlineOf(f, pulse))

\* What a device sends that does not pack: scanlines of points of returns.
PushPulse(f, lines, pulse) ==
  PushPoint(OnLine(f, lines, pulse),
            [id |-> pulse, light |-> Light(pulse),
             returns |-> SubSeq(Scan(f), Before(f, pulse) + 1, Before(f, pulse + 1))])
DeviceLines(f) ==
  FoldLeft(LAMBDA lines, pulse : PushPulse(f, lines, pulse), <<>>,
           [p \in DOMAIN f.pulses |-> p - 1])

\* A plausible mistake: a new point only with a new scanline
UnpackReturnByLine(f, lines, r) ==
  PushReturn(
    IF lines # <<>> /\ lines[Len(lines)].id = ScanlineOf(f, r.pulse) THEN lines
    ELSE PushPoint(OnLine(f, lines, r.pulse),
                   [id |-> r.pulse, light |-> Light(r.pulse), returns |-> <<>>]), r)

\* One turn of the loop over packed returns with point ids: a new scanline, a new
\* point, or neither.
UnpackReturn(f, lines, r) ==
  LET l == OnLine(f, lines, r.pulse)
      points == l[Len(l)].points
      p == IF points # <<>> /\ points[Len(points)].id = r.pulse THEN l
           ELSE PushPoint(l, [id |-> r.pulse, light |-> Light(r.pulse), returns |-> <<>>])
  IN  PushReturn(p, r)

\* ... and all of it.
UnpackAll(f) == FoldLeft(LAMBDA lines, r : UnpackReturn(f, lines, r), <<>>, Scan(f))

\* convert_point_cloud to a Frame: packed arrays are made scanlines; without point
\* ids, one point of one scanline, of which nothing else is known.
Convert(f) ==
  [id |-> f.id, total |-> Returns(f),
   lines |->
     IF ~f.packed THEN DeviceLines(f)
     ELSE IF f.ids THEN UnpackAll(f)
     ELSE <<[id |-> Unset,
             points |-> <<[id |-> Unset, light |-> Unset, returns |-> Scan(f)]>>]>>]

\* convert_point_cloud to the simple frame_t.
Simple(f) ==
  [i \in 1..Returns(f) |->
     LET r == Scan(f)[i] IN
       [at |-> r.at, light |-> Light(r.pulse),
        id |-> IF f.packed /\ ~f.ids THEN Unset ELSE r.pulse]]

\* The three loops of pointcloudCallback.
OfPoint(p) == [i \in DOMAIN p.returns |->
                 [at |-> p.returns[i].at, light |-> p.light, id |-> p.id]]
OfLine(l) == FlattenSeq([k \in DOMAIN l.points |-> OfPoint(l.points[k])])
OfLines(lines) == FlattenSeq([k \in DOMAIN lines |-> OfLine(lines[k])])
Flat(fr) == OfLines(fr.lines)

\* data.resize(): what is there stays, and the rest is zero.
Resized(old, n) ==
  [i \in 1..n |-> IF i \in DOMAIN old THEN old[i]
                  ELSE [at |-> <<0, 0>>, light |-> Unset, id |-> Unset]]

Init ==
  /\ pc = "recv" /\ dev = NoDevice /\ frame = [id |-> 0, total |-> 0, lines |-> <<>>]
  /\ msg = <<>>
  /\ rec = "off" /\ log = <<>> /\ pattern = NoPattern /\ footer = NoFooter /\ took = <<>>
  /\ disk = <<>> /\ cut = FALSE
  /\ reader = "closed" /\ pos = 1 /\ buffered = FALSE /\ data = NoMessage
  /\ meta = NoFooter /\ replayed = <<>> /\ end = "unknown"

-----------------------------------------------------------------------------
(* The live stream, its recording, and the node. *)

Live == reader = "closed"

\* A plausible mistake: the footer tells the changes and not the frames
RecordDataUncounted(f) ==
  /\ log' = Append(log, Data(f))
  /\ pattern' = f.pattern
  /\ footer' = [footer EXCEPT !.events =
                  IF f.pattern = pattern THEN @
                  ELSE Append(@, [from |-> f.id, pattern |-> f.pattern])]
  /\ took' = Append(took, f)

\* point_cloud_record::record_data
RecordData(f) ==
  /\ log' = Append(log, Data(f))
  /\ pattern' = f.pattern
  /\ footer' = [frames |-> footer.frames + 1, returns |-> footer.returns + Returns(f),
                events |-> IF f.pattern = pattern THEN footer.events
                           ELSE Append(footer.events, [from |-> f.id, pattern |-> f.pattern])]
  /\ took' = Append(took, f)

\* recv_frame of a live stream: the frame is recorded as it came, then converted.
RecvFrame ==
  /\ Live /\ pc = "recv" /\ rec # "finished" /\ dev.id < MaxFrames
  /\ \E s \in Shapes :
       LET f == [id |-> dev.id + 1, packed |-> s.packed, ids |-> s.ids,
                 pulses |-> s.pulses, pattern |-> s.pattern]
       IN  /\ dev' = f /\ frame' = Convert(f)
           /\ IF rec = "on" THEN RecordData(f) ELSE UNCHANGED <<log, pattern, footer, took>>
  /\ pc' = "publish"
  /\ UNCHANGED <<msg, rec, fileVars, readerVars>>

\* pointcloudCallback: room for all returns in the message of the last callback,
\* and one entry after the other.
Publish ==
  /\ Live /\ pc = "publish" /\ pc' = "recv"
  /\ LET flat == Flat(frame) room == Resized(msg, frame.total) IN
       msg' = [i \in DOMAIN room |-> IF i \in DOMAIN flat THEN flat[i] ELSE room[i]]
  /\ UNCHANGED <<dev, frame, recordVars, fileVars, readerVars>>

\* A plausible mistake: the record of the last recording goes on with its scan pattern
RecordToStreamKeeps ==
  /\ Live /\ pc = "recv" /\ rec = "off"
  /\ rec' = "on" /\ log' = <<Header>> /\ took' = <<>>
  /\ UNCHANGED pattern /\ footer' = NoFooter
  /\ disk' = <<>> /\ UNCHANGED <<cut, liveVars, readerVars>>

\* record_to_stream, to a new file, once stop_recording is done.
RecordToStream ==
  /\ Live /\ pc = "recv" /\ rec = "off"
  /\ rec' = "on" /\ log' = <<Header>> /\ took' = <<>>
  /\ pattern' = NoPattern /\ footer' = NoFooter
  /\ disk' = <<>> /\ UNCHANGED <<cut, liveVars, readerVars>>

\* stop_recording deletes the record, which writes the footer ...
Finish ==
  /\ Live /\ pc = "recv" /\ rec = "on"
  /\ rec' = "finished" /\ log' = Append(log, Footer(footer))
  /\ UNCHANGED <<pattern, footer, took, liveVars, fileVars, readerVars>>

\* ... and ends and flushes the stream.
Flush ==
  /\ Live /\ pc = "recv" /\ rec = "finished"
  /\ rec' = "off" /\ disk' = log /\ cut' = FALSE
  /\ UNCHANGED <<log, pattern, footer, took, liveVars, readerVars>>

\* The process ends while it records: of the file there is what the streams have
\* passed on so far.
Kill ==
  /\ Live /\ pc # "killed" /\ rec # "off" /\ pc' = "killed"
  /\ \E n \in 0..Len(log) :
       /\ disk' = SubSeq(log, 1, n)
       /\ cut' \in (IF n < Len(log) THEN BOOLEAN ELSE {FALSE})
  /\ UNCHANGED <<dev, frame, msg, recordVars, readerVars>>

-----------------------------------------------------------------------------
(* Reading the recording: point_cloud_stream over an istream. *)

\* The constructor reads the header, goes through the file to find where its last
\* message begins, takes it for the footer if it is one, and goes back.
Open ==
  /\ reader = "closed" /\ log # <<>> /\ (rec = "off" \/ pc = "killed")
  /\ reader' = IF disk = <<>> /\ cut THEN "bad" ELSE "open"
  /\ LET last == IF disk = <<>> \/ cut THEN NoMessage ELSE disk[Len(disk)] IN
       /\ data' = last
       /\ meta' = IF last.kind = "footer" THEN last.footer ELSE NoFooter
  /\ pos' = 2 /\ buffered' = FALSE /\ replayed' = <<>> /\ end' = "unknown"
  /\ UNCHANGED <<liveVars, recordVars, fileVars>>

\* read_stream at message p: what it leaves behind, and whether it throws.
ReadStream(p) ==
  IF p <= Len(disk)
  THEN [pos |-> p + 1, data |-> disk[p], buffered |-> TRUE, throws |-> FALSE]
  ELSE IF p = Len(disk) + 1 /\ cut
       THEN [pos |-> p + 1, data |-> NoMessage, buffered |-> buffered, throws |-> TRUE]
       ELSE [pos |-> p, data |-> data, buffered |-> FALSE, throws |-> FALSE]

\* A plausible mistake: end_of_stream reads on although a frame waits in the buffer
LookReadsOn == ReadStream(pos)

\* end_of_stream reads the next message, unless one waits in the buffer.
Look == IF buffered THEN [pos |-> pos, data |-> data, buffered |-> TRUE, throws |-> FALSE]
        ELSE ReadStream(pos)

Says(r) == IF r.throws THEN "threw"
           ELSE IF ~r.buffered \/ r.data.kind = "footer" THEN "end" ELSE "more"

EndOfStream ==
  /\ reader = "open"
  /\ pos' = Look.pos /\ data' = Look.data /\ buffered' = Look.buffered /\ end' = Says(Look)
  /\ UNCHANGED <<reader, meta, replayed, liveVars, recordVars, fileVars>>

\* recv_frame of a recording, which throws at its end.
RecvReplayed ==
  /\ reader = "open"
  /\ pos' = Look.pos /\ data' = Look.data
  /\ IF Says(Look) = "more"
     THEN /\ buffered' = FALSE /\ end' = "unknown"
          /\ replayed' = Append(replayed, Flat(Convert(Look.data.frame)))
     ELSE buffered' = Look.buffered /\ end' = Says(Look) /\ UNCHANGED replayed
  /\ UNCHANGED <<reader, meta, liveVars, recordVars, fileVars>>

\* A plausible mistake: the frame in the buffer survives the jump
JumpKeepsBuffer ==
  /\ reader = "open"
  /\ pos' = 2 /\ UNCHANGED <<data, buffered>>
  /\ replayed' = <<>> /\ end' = "unknown"
  /\ UNCHANGED <<reader, meta, liveVars, recordVars, fileVars>>

\* jump_to_first_frame
Jump ==
  /\ reader = "open"
  /\ LET r == ReadStream(2) IN
       /\ pos' = r.pos /\ data' = r.data /\ buffered' = r.buffered
       /\ end' = IF r.throws THEN "threw" ELSE "unknown"
  /\ replayed' = <<>>
  /\ UNCHANGED <<reader, meta, liveVars, recordVars, fileVars>>

Next == \/ RecvFrame \/ Publish \/ RecordToStream \/ Finish \/ Flush \/ Kill
        \/ Open \/ EndOfStream \/ RecvReplayed \/ Jump

Spec == Init /\ [][Next]_vars

-----------------------------------------------------------------------------
(* Properties *)

TypeOK ==
  /\ pc \in {"recv", "publish", "killed"} /\ dev.id \in 0..MaxFrames
  /\ frame.id = dev.id /\ rec \in {"off", "on", "finished"}
  /\ \A m \in Range(log) : m.kind \in {"header", "frame", "footer"}
  /\ footer.frames \in 0..MaxFrames /\ Len(footer.events) <= footer.frames
  /\ cut \in BOOLEAN /\ reader \in {"closed", "open", "bad"}
  /\ pos \in 1..MaxFrames + 4 /\ buffered \in BOOLEAN
  /\ data.kind \in {"none", "header", "frame", "footer"}
  /\ end \in {"unknown", "more", "end", "threw"}

\* Whatever the format, the entries of a frame are the returns of the device, each
\* once and in order, with the id and the light of its pulse as far as they are given.
IsFrame(entries, f) ==
  /\ Len(entries) = Len(Scan(f))
  /\ \A i \in DOMAIN entries :
       /\ entries[i].at = Scan(f)[i].at
       /\ f.packed => f.ids \/ entries[i].id = Unset
       /\ ~f.packed \/ f.ids => /\ entries[i].id = Scan(f)[i].pulse
                                /\ entries[i].light = Light(Scan(f)[i].pulse)

\* What the node publishes is the device's frame (pointcloudCallback), nothing of the
\* one before; the two conversions agree.
MessageIsFrame ==
  pc = "recv" => IsFrame(msg, dev) /\ IsFrame(Simple(dev), dev)

\* What is read of a recording, from the first frame on, are the frames received while
\* it was made, in order, none left out and none cut short, however the process that
\* made it ended and however its reader asked and jumped (record_to_stream: "Records
\* the frames received with recv_frame").
ReplayedAsRecorded ==
  \A i \in DOMAIN replayed : i <= Len(took) /\ IsFrame(replayed[i], took[i])

\* "True if the end of stream has been reached": not before every frame that is on
\* the disk has been given.  Of a recording that was stopped, that is all of them,
\* and reading it never throws.
EndMeansAll ==
  /\ end \in {"end", "threw"} =>
       Len(replayed) = Cardinality({i \in DOMAIN disk : disk[i].kind = "frame"})
  /\ reader # "closed" /\ pc # "killed" =>
       /\ end = "end" => Len(replayed) = Len(took)
       /\ end # "threw" /\ reader = "open"

\* The footer of a file that has one tells the frames before it: how many, and from
\* which on which scan pattern was in force.  A recording that was stopped has one.
PatternIn(events, f) ==
  LET before == {k \in DOMAIN events : events[k].from <= f.id} IN
    IF before = {} THEN NoPattern ELSE events[Max(before)].pattern
ReturnsOfAll(frames) == FoldLeft(LAMBDA n, f : n + Returns(f), 0, frames)
FooterTells ==
  /\ meta # NoFooter =>
       /\ meta.frames = Len(took)
       /\ meta.returns = ReturnsOfAll(took)
       /\ \A i \in DOMAIN took : PatternIn(meta.events, took[i]) = took[i].pattern
  /\ reader = "open" /\ pc # "killed" /\ took # <<>> => meta # NoFooter
=============================================================================
