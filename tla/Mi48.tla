-------------------------------- MODULE Mi48 --------------------------------
(***************************************************************************)
(* The thermal camera node over the link of SenxorUsb: the constructor of  *)
(* MI48 (stop a capture left over, identify the camera, wait for its boot, *)
(* handle errors), the settings the node makes (frame rate, filters), the  *)
(* start of the stream, and the timer callback, which reads a frame and    *)
(* publishes it.  The node never stops the capture: when its process ends, *)
(* the camera goes on streaming, and the next process finds it so.         *)
(*                                                                         *)
(* A phase is a register access of that program or the reading of frames;  *)
(* Answered says what follows on its answer.  Abstracted: reads whose      *)
(* answer is only logged or stored (identity, versions, filter strengths,  *)
(* the second has_evk_bridge and the dump of all registers are one read    *)
(* each or none), writes of further settings, pauses.                      *)
(* Bounds: those of the link, MaxOpens processes one after the other.      *)
(***************************************************************************)
EXTENDS SenxorUsb

CONSTANT MaxOpens       \* processes that open the camera, one after the other

ASSUME OpensAssumption == MaxOpens \in Nat

VARIABLES
  phase,        \* where the program is
  opens,        \* processes so far
  header,       \* self.parse_header
  status,       \* the status bootup and error_handler work with
  memo,         \* the last answer, for a read-modify-write
  inError,      \* stop_capture was called by error_handler
  none,         \* callbacks of this process that read something else than a frame
  credit,       \* answers left over when it opened the camera, and frames its
                \* commands have met instead of an answer
  topic         \* frames published by this process

progVars == <<phase, opens, header, status, memo, inError, none, credit, topic>>
vars == <<usbVars, progVars>>

SenxorNames == 0..4
ReadoutTooSlow == 2
SxifError == 4
DataReady == 16
Divisor == 2            \* what set_fps writes

\* A plausible mistake: the masks are subtracted
FiltersOffBySubtraction(fctrl) == fctrl - 71

\* fctrl & 0xFC & 0xFB & 0xBF, and fctrl | 0x03.
FiltersOff(fctrl) == fctrl - (fctrl % 8) - (IF Flag(fctrl, 64) THEN 64 ELSE 0)
Filter1On(fctrl) == fctrl - (fctrl % 4) + 3

Asking == {"bridge", "powerup", "mode", "stopRead", "stopWrite", "stopPoll", "type",
           "version", "bridgeAgain", "status", "bootMode", "setRate", "offRead",
           "offWrite", "onRead", "onWrite", "start"}
Taking == {"dump", "reading"}
Phases == {"off", "failed"} \cup Asking \cup Taking

R(reg) == [op |-> "RREG", reg |-> reg, val |-> 0]
W(reg, v) == [op |-> "WREG", reg |-> reg, val |-> v]

\* The register access of a phase.
Access(p) ==
  CASE p \in {"bridge", "bridgeAgain"} -> R("EVK_TEST")
    [] p = "powerup" -> W("SENXOR_POWERUP", 19)
    [] p \in {"mode", "stopRead", "stopPoll", "bootMode"} -> R("FRAME_MODE")
    [] p = "stopWrite" -> W("FRAME_MODE", memo - (memo % 4))
    [] p = "type" -> R("SENXOR_TYPE")
    [] p = "version" -> R("FW_VERSION_1")
    [] p = "status" -> R("STATUS")
    [] p = "setRate" -> W("FRAME_RATE", Divisor)
    [] p \in {"offRead", "onRead"} -> R("FILTER_CTRL")
    [] p = "offWrite" -> W("FILTER_CTRL", FiltersOff(memo))
    [] p = "onWrite" -> W("FILTER_CTRL", Filter1On(memo))
    [] p = "start" -> W("FRAME_MODE", ContinuousStream)

Init ==
  /\ LinkInit
  /\ phase = "off" /\ opens = 0 /\ header = FALSE /\ status = 0
  /\ memo = 0 /\ inError = FALSE /\ none = 0 /\ credit = 0 /\ topic = <<>>

\* Acknowledges other than frames.
Acks(q) == Cardinality({i \in DOMAIN q : q[i].op # "GFRA"})

-----------------------------------------------------------------------------

\* connect_senxor opens the port; the constructor empties the buffers.
Open ==
  /\ phase \in {"off", "failed"} /\ opens < MaxOpens
  /\ phase' = "bridge" /\ opens' = opens + 1
  /\ header' = FALSE /\ status' = 0 /\ memo' = 0 /\ inError' = FALSE /\ none' = 0
  /\ credit' = Len(toDevice) + Acks(wire) /\ topic' = <<>>
  /\ inbuf' = <<>> /\ hpc' = "idle" /\ cmd' = NoCommand /\ got' = NoAck
  /\ UNCHANGED <<toDevice, wire, deviceVars>>

\* The process ends, wherever it is, and its variables with it.  (That of the last
\* one would show nothing more.)
Kill ==
  /\ phase \notin {"off", "failed"} /\ opens < MaxOpens
  /\ phase' = "off" /\ hpc' = "idle" /\ cmd' = NoCommand /\ got' = NoAck
  /\ header' = FALSE /\ status' = 0 /\ memo' = 0 /\ inError' = FALSE /\ none' = 0
  /\ credit' = 0 /\ topic' = <<>> /\ inbuf' = <<>>
  /\ UNCHANGED <<toDevice, wire, deviceVars, opens>>

Ask ==
  /\ phase \in Asking /\ Command(Access(phase))
  /\ UNCHANGED progVars

\* A plausible mistake: the input buffer is emptied before a frame is read
TakeFresh ==
  /\ phase \in Taking /\ hpc = "idle" /\ hpc' = "read" /\ inbuf' = <<>>
  /\ UNCHANGED <<toDevice, wire, deviceVars, cmd, got, progVars>>

\* The callback, and error_handler's dump of a residual frame.
Take ==
  /\ phase \in Taking /\ Read
  /\ UNCHANGED progVars

\* bootup: a non-zero status or a capture calls for error_handler.
BootupError(m, s) == Capturing(m) \/ (s \div ReadoutTooSlow) % 16 # 0

\* Where error_handler goes on once capture is stopped.
AfterStop(s) == IF Flag(s, DataReady) THEN "dump"
                ELSE IF Flag(s, SxifError) THEN "failed" ELSE "setRate"

\* stop_capture is over: back in the constructor or in error_handler.
StopDone == IF inError THEN AfterStop(status) ELSE "type"

\* The access has returned; its answer is used and forgotten.
Return == /\ phase \in Asking /\ hpc = "done" /\ hpc' = "idle" /\ got' = NoAck
          /\ UNCHANGED <<linkVars, deviceVars, cmd, opens, none, credit, topic>>

\* A plausible mistake: the bridge is expected to say 1
AnswerBridgeOne ==
  /\ Return /\ header' = (got.val = 1)
  /\ \/ phase = "bridge" /\ phase' = IF header' THEN "mode" ELSE "powerup"
     \/ phase = "bridgeAgain" /\ phase' = "status"
  /\ UNCHANGED <<status, memo, inError>>

\* has_evk_bridge decides whether frames have a header the program can use.
AnswerBridge ==
  /\ Return /\ header' = (got.val = 255)
  /\ \/ phase = "bridge" /\ phase' = IF header' THEN "mode" ELSE "powerup"
     \/ phase = "bridgeAgain" /\ phase' = "status"
  /\ UNCHANGED <<status, memo, inError>>

\* Single steps whose successor does not depend on the answer.
AnswerPlain ==
  /\ Return
  /\ \/ phase = "powerup" /\ phase' = "mode"
     \/ phase = "version" /\ phase' = "bridgeAgain"
     \/ phase = "setRate" /\ phase' = "offRead"
     \/ phase = "offWrite" /\ phase' = "onRead"
     \/ phase = "onWrite" /\ phase' = "start"
  /\ memo' = 0 /\ UNCHANGED <<header, status, inError>>

\* A plausible mistake: the register that was read is forgotten
AnswerFilterForgets ==
  /\ Return /\ memo' = 0
  /\ \/ phase = "offRead" /\ phase' = "offWrite"
     \/ phase = "onRead" /\ phase' = "onWrite"
  /\ UNCHANGED <<header, status, inError>>

\* disable_filter and enable_filter read the control register they write.
AnswerFilter ==
  /\ Return /\ memo' = got.val
  /\ \/ phase = "offRead" /\ phase' = "offWrite"
     \/ phase = "onRead" /\ phase' = "onWrite"
  /\ UNCHANGED <<header, status, inError>>

AnswerMode ==
  /\ Return /\ phase = "mode"
  /\ phase' = IF Capturing(got.val) THEN "stopRead" ELSE "type"
  /\ UNCHANGED <<header, status, memo, inError>>

\* stop_capture: the capture flags are cleared, and the mode is read until they are.
AnswerStopRead ==
  /\ Return /\ phase = "stopRead" /\ phase' = "stopWrite" /\ memo' = got.val
  /\ UNCHANGED <<header, status, inError>>

AnswerStopWrite ==
  /\ Return /\ phase = "stopWrite"
  /\ phase' = IF Capturing(memo) THEN "stopPoll" ELSE StopDone
  /\ memo' = 0 /\ UNCHANGED <<header, status, inError>>

AnswerStopPoll ==
  /\ Return /\ phase = "stopPoll"
  /\ \/ Capturing(got.val) /\ phase' = "stopPoll"
     \/ phase' = StopDone       \* it has stopped, or stop_timeout has passed
  /\ UNCHANGED <<header, status, memo, inError>>

\* get_camera_info: SENXOR_NAME[self.camera_type].
AnswerType ==
  /\ Return /\ phase = "type"
  /\ phase' = IF got.val \in SenxorNames THEN "version" ELSE "failed"
  /\ UNCHANGED <<header, status, memo, inError>>

AnswerStatus ==
  /\ Return /\ phase = "status" /\ phase' = "bootMode" /\ status' = got.val
  /\ UNCHANGED <<header, memo, inError>>

\* A plausible mistake: bootup reads the mode again, and not the status
AnswerBootModeOnly ==
  /\ Return /\ phase = "bootMode"
  /\ \/ Flag(status, BootingUp) /\ phase' = "bootMode" /\ UNCHANGED inError
     \/ /\ ~Flag(status, BootingUp) /\ ~BootupError(got.val, status)
        /\ phase' = "setRate" /\ UNCHANGED inError
     \/ /\ ~Flag(status, BootingUp) /\ BootupError(got.val, status)
        /\ phase' = IF Capturing(got.val) THEN "stopRead" ELSE AfterStop(status)
        /\ inError' = TRUE
  /\ UNCHANGED <<header, status, memo>>

\* bootup goes round until the flag is clear; then error_handler, if need be.
AnswerBootMode ==
  /\ Return /\ phase = "bootMode"
  /\ \/ Flag(status, BootingUp) /\ phase' = "status" /\ UNCHANGED inError
     \/ /\ ~Flag(status, BootingUp) /\ ~BootupError(got.val, status)
        /\ phase' = "setRate" /\ UNCHANGED inError
     \/ /\ ~Flag(status, BootingUp) /\ BootupError(got.val, status)
        /\ phase' = IF Capturing(got.val) THEN "stopRead" ELSE AfterStop(status)
        /\ inError' = TRUE
  /\ UNCHANGED <<header, status, memo>>

AnswerStart ==
  /\ Return /\ phase = "start" /\ phase' = "reading"
  /\ UNCHANGED <<header, status, memo, inError>>

\* error_handler's read: a frame is dumped; None has no [:20].
Dumped ==
  /\ phase = "dump" /\ hpc = "done" /\ hpc' = "idle"
  /\ phase' = IF got.op = "GFRA" /\ ~Flag(status, SxifError) THEN "setRate" ELSE "failed"
  /\ got' = NoAck
  /\ UNCHANGED <<linkVars, deviceVars, cmd, opens, header, status, memo, inError,
                 none, credit, topic>>

\* thermalcameraCallback: nothing for an acknowledge of another kind; a frame
\* is published, if there is a header to take the sensor's temperature from.
Callback ==
  /\ phase = "reading" /\ hpc = "done" /\ hpc' = "idle"
  /\ \/ /\ got.op # "GFRA" /\ none' = none + 1 /\ UNCHANGED <<phase, topic>>
     \/ /\ got.op = "GFRA" /\ header
        /\ topic' = Append(topic, got.val) /\ UNCHANGED <<phase, none>>
     \/ got.op = "GFRA" /\ ~header /\ phase' = "failed" /\ UNCHANGED <<none, topic>>
  /\ got' = NoAck
  /\ UNCHANGED <<linkVars, deviceVars, cmd, opens, header, status, memo, inError, credit>>

Answer == AnswerBridge \/ AnswerPlain \/ AnswerFilter \/ AnswerMode \/ AnswerStopRead \/ AnswerStopWrite
          \/ AnswerStopPoll \/ AnswerType \/ AnswerStatus \/ AnswerBootMode \/ AnswerStart
Program == Ask \/ Take \/ Answer \/ Dumped \/ Callback
\* A frame comes where a command waits for its answer.
Meets == hpc = "ack" /\ hpc' = "mismatch" /\ got'.op = "GFRA"

Link == /\ Device \/ Usb \/ (Arrive /\ phase \notin {"off", "failed"})
        /\ credit' = IF Meets THEN credit + 1 ELSE credit
        /\ UNCHANGED <<phase, opens, header, status, memo, inError, none, topic>>
Next == Open \/ Kill \/ Program \/ Link

Spec == Init /\ [][Next]_vars

\* The camera, the port and the process go on while any of them can; the boot ends;
\* a loop of stop_capture ends at the latest when the clock has passed stop_timeout.
GoOn == Program \/ ((Execute \/ SendTail \/ Settle \/ Arrive \/ Usb) /\ Link)
StopPollEnds == AnswerStopPoll /\ phase' # "stopPoll"
Fairness == WF_vars(GoOn) /\ WF_vars(Booted /\ Link) /\ SF_vars(StopPollEnds)
FairSpec == Spec /\ Fairness

-----------------------------------------------------------------------------
(* Properties *)

TypeOK ==
  /\ toDevice \in Seq(Commands) /\ wire \in Seq(Pieces) /\ inbuf \in Seq(Pieces)
  /\ regs \in [Registers -> Bytes] /\ stopping \in BOOLEAN
  /\ frames \in 0..MaxFrames /\ torn \in BOOLEAN /\ garbled \in 0..MaxGarbled
  /\ hpc \in {"idle", "ack", "ackAgain", "mismatch", "read", "readAgain", "done"}
  /\ cmd \in Commands /\ got \in Pieces
  /\ phase \in Phases /\ opens \in 0..MaxOpens /\ header \in BOOLEAN
  /\ status \in Nat /\ memo \in Nat /\ inError \in BOOLEAN
  /\ none \in Nat /\ credit \in Nat /\ topic \in Seq(Nat)

\* Answers that are on their way, or whose command is.
Outstanding == Len(toDevice) + Acks(wire) + Acks(inbuf)

\* Commands sent again never add up: the answers too many, those the callbacks
\* took for frames included, are no more than the frames that came where an answer
\* was expected and what the process before left over (usb_command's resends).
DesyncBounded ==
  phase \notin {"off", "failed"} =>
    none + Outstanding <= credit + (IF hpc \in {"ack", "ackAgain"} THEN 1 ELSE 0)

\* As long as no command has met a frame and nothing was left over, every answer is
\* of the register that was asked for (USB_Interface.regread and regwrite).
AnsweredAsAsked ==
  credit = 0 /\ phase \in Asking /\ hpc = "done" => got.op = cmd.op /\ got.reg = cmd.reg

\* Then the constructor and the callback raise no exception on a camera with the bridge.
NeverFails ==
  credit = 0 /\ regs["EVK_TEST"] = 255 => phase # "failed"

\* However often commands were sent again, and whatever their answers were taken
\* for, once the camera has executed what was written it streams at the rate set:
\* no repetition of an earlier write comes after a later one.  If no command has met
\* a frame, filter 1 is on and the others are off, and the first process leaves the
\* rest of the register as it was (an answer taken for another may have changed it).
SetUp ==
  phase = "reading" /\ toDevice = <<>> =>
    /\ regs["FRAME_MODE"] = ContinuousStream /\ ~stopping
    /\ regs["FRAME_RATE"] = Divisor
    /\ credit = 0 => /\ regs["FILTER_CTRL"] % 8 = 3 /\ ~Flag(regs["FILTER_CTRL"], 64)
                     /\ opens = 1 => regs["FILTER_CTRL"] = 35

\* The constructor and the settings come to an end, if no frame is garbled and no
\* command has met a frame (a late answer taken for the status can say that the
\* camera is booting, and the loop of bootup has no end of its own).
SetUpEnds == phase \in Asking ~> phase \notin Asking \/ garbled > 0 \/ credit > 0

\* A frame on its way while callbacks read, and with a header to take the sensor's
\* temperature from, is published, if no frame is garbled: neither answers too many
\* nor the rest of an earlier frame make the callback lose it.
OnItsWay(f) == \E i \in DOMAIN (inbuf \o wire) : (inbuf \o wire)[i] = Frame("head", f)
FramePublished ==
  \A f \in 1..MaxFrames :
    phase = "reading" /\ header /\ OnItsWay(f) ~>
      phase # "reading" \/ (\E i \in DOMAIN topic : topic[i] = f) \/ garbled > 0

\* What usb_command's comment says: it returns the acknowledge of its command.
AnswerIsItsOwn == phase \in Asking /\ hpc = "done" => got.reg = cmd.reg
=============================================================================
