------------------------------ MODULE SenxorUsb ------------------------------
(***************************************************************************)
(* The USB link of the thermal camera: usb_command, usb_acknowledge,       *)
(* usb_get_ack and USB_Interface.read of senxor/interfaces.py, over a      *)
(* serial port, with the camera's firmware on the other side.              *)
(*                                                                         *)
(* The host writes a command and reads acknowledges until one has the      *)
(* type of the command; after any other it empties its input buffer and    *)
(* writes the command again.  An acknowledge says only its type: not the   *)
(* register, and not which of several equal commands it answers.  A camera *)
(* that streams sends frames (GFRA acknowledges) between the answers.      *)
(*                                                                         *)
(* External, modelled from its use here: the serial port (bytes arrive     *)
(* whole and in order, in two parts for a frame, which is longer than a    *)
(* USB packet, and in one for the others; opened without a timeout by      *)
(* connect_senxor, so a read waits), and the firmware (commands in order,  *)
(* one answer each; frames while it captures; a stop may take until the    *)
(* frame under way is done).  Abstracted: bytes and lengths (what follows  *)
(* an incomplete frame is skipped up to the next header).  A frame may be  *)
(* garbled, so that its check sum fails.                                   *)
(* Bounds: MaxFrames frames, MaxGarbled garbled ones.                      *)
(***************************************************************************)
EXTENDS Integers, Sequences, FiniteSets

CONSTANTS
  MaxFrames,    \* frames the camera sends
  MaxGarbled    \* of which are garbled on the way

ASSUME LinkBoundsAssumption == MaxFrames \in Nat /\ MaxGarbled \in Nat

VARIABLES
  toDevice,     \* commands written and not yet executed
  wire,         \* what the camera has sent and has not arrived
  inbuf,        \* the port's input buffer
  regs,         \* the camera's registers
  stopping,     \* capture is to end with the frame under way
  frames,       \* frames sent
  torn,         \* the first part of a frame is sent and the second is not
  garbled,      \* frames garbled
  hpc,          \* where the host is in interfaces.py
  cmd,          \* the command it waits for
  got           \* the acknowledge it has read last

linkVars == <<toDevice, wire, inbuf>>
deviceVars == <<regs, stopping, frames, torn, garbled>>
hostVars == <<hpc, cmd, got>>
usbVars == <<linkVars, deviceVars, hostVars>>

Registers == {"EVK_TEST", "SENXOR_POWERUP", "FRAME_MODE", "STATUS", "SENXOR_TYPE",
              "FW_VERSION_1", "FRAME_RATE", "FILTER_CTRL"}
Bytes == 0..255
Commands == [op : {"RREG", "WREG"}, reg : Registers, val : Bytes]
\* What arrives: acknowledges; of a frame, its parts.  The register of an
\* acknowledge and the number of a frame are not in the message.
Pieces == [op : {"RREG", "WREG", "GFRA"}, reg : Registers, val : Nat,
           part : {"whole", "head", "tail", "badTail"}]

GetSingleFrame == 1
ContinuousStream == 2
BootingUp == 32

\* mode & (GET_SINGLE_FRAME | CONTINUOUS_STREAM) is not 0
Capturing(mode) == mode % 4 # 0

\* The flag of weight w is set in a register value.
Flag(value, w) == (value \div w) % 2 = 1

NoCommand == [op |-> "RREG", reg |-> "EVK_TEST", val |-> 0]
Ack(op, reg, val) == [op |-> op, reg |-> reg, val |-> val, part |-> "whole"]
NoAck == Ack("RREG", "EVK_TEST", 0)
Frame(part, id) == [op |-> "GFRA", reg |-> "FRAME_MODE", val |-> id, part |-> part]

\* The camera as other programs may have left it: booting or not, idle or capturing
\* one frame or a stream; with or without the bridge board.
LinkInit ==
  /\ toDevice = <<>> /\ wire = <<>> /\ inbuf = <<>>
  /\ \E bridge \in {0, 255}, mode \in 0..2 :
       regs = [r \in Registers |-> CASE r = "EVK_TEST" -> bridge
                                     [] r = "STATUS" -> BootingUp
                                     [] r = "FRAME_MODE" -> mode
                                     [] r = "SENXOR_TYPE" -> 1
                                     [] r = "FW_VERSION_1" -> 18
                                     [] r = "FILTER_CTRL" -> 36
                                     [] OTHER -> 0]
  /\ stopping = FALSE /\ frames = 0 /\ torn = FALSE /\ garbled = 0
  /\ hpc = "idle" /\ cmd = NoCommand /\ got = NoAck

-----------------------------------------------------------------------------
(* The camera's firmware and the serial port. *)

\* A command is executed and acknowledged: not between the parts of a frame.
Execute ==
  /\ toDevice # <<>> /\ ~torn
  /\ toDevice' = Tail(toDevice)
  /\ LET c == Head(toDevice) IN
       \/ /\ c.op = "RREG"
          /\ wire' = Append(wire, Ack("RREG", c.reg, regs[c.reg]))
          /\ UNCHANGED <<regs, stopping>>
       \/ /\ c.op = "WREG" /\ c.reg = "FRAME_MODE"
          /\ wire' = Append(wire, Ack("WREG", c.reg, c.val))
          /\ \/ regs' = [regs EXCEPT !["FRAME_MODE"] = c.val] /\ stopping' = FALSE
             \/ /\ Capturing(regs["FRAME_MODE"]) /\ ~Capturing(c.val)
                /\ stopping' = TRUE /\ UNCHANGED regs
       \/ /\ c.op = "WREG" /\ c.reg # "FRAME_MODE"
          /\ wire' = Append(wire, Ack("WREG", c.reg, c.val))
          /\ regs' = [regs EXCEPT ![c.reg] = c.val,
                        !["STATUS"] = IF c.reg = "SENXOR_POWERUP" THEN BootingUp ELSE @]
          /\ UNCHANGED stopping
  /\ UNCHANGED <<inbuf, frames, torn, garbled, hostVars>>

Booted ==
  /\ regs["STATUS"] = BootingUp
  /\ regs' = [regs EXCEPT !["STATUS"] = 0]
  /\ UNCHANGED <<linkVars, stopping, frames, torn, garbled, hostVars>>

SendHead ==
  /\ Capturing(regs["FRAME_MODE"]) /\ ~torn /\ frames < MaxFrames
  /\ frames' = frames + 1 /\ torn' = TRUE
  /\ wire' = Append(wire, Frame("head", frames + 1))
  /\ UNCHANGED <<toDevice, inbuf, regs, stopping, garbled, hostVars>>

\* The rest of the frame: a single capture is over with it.
SendTail ==
  /\ torn /\ torn' = FALSE
  /\ \/ wire' = Append(wire, Frame("tail", frames)) /\ UNCHANGED garbled
     \/ /\ garbled < MaxGarbled /\ garbled' = garbled + 1
        /\ wire' = Append(wire, Frame("badTail", frames))
  /\ regs' = [regs EXCEPT !["FRAME_MODE"] = IF Flag(@, GetSingleFrame) THEN @ - 1 ELSE @]
  /\ UNCHANGED <<toDevice, inbuf, stopping, frames, hostVars>>

Settle ==
  /\ stopping /\ ~torn /\ stopping' = FALSE
  /\ regs' = [regs EXCEPT !["FRAME_MODE"] = @ - (@ % 4)]
  /\ UNCHANGED <<linkVars, frames, torn, garbled, hostVars>>

Arrive ==
  /\ wire # <<>>
  /\ inbuf' = Append(inbuf, Head(wire)) /\ wire' = Tail(wire)
  /\ UNCHANGED <<toDevice, deviceVars, hostVars>>

Device == Execute \/ Booted \/ SendHead \/ SendTail \/ Settle

-----------------------------------------------------------------------------
(* interfaces.py *)

\* usb_command writes its command.
Command(c) ==
  /\ hpc = "idle" /\ hpc' = "ack"
  /\ cmd' = c /\ toDevice' = Append(toDevice, c)
  /\ UNCHANGED <<wire, inbuf, deviceVars, got>>

\* USB_Interface.read waits for whatever comes next.
Read ==
  /\ hpc = "idle" /\ hpc' = "read"
  /\ UNCHANGED <<linkVars, deviceVars, cmd, got>>

\* usb_get_ack before the next header: the rest of a frame whose beginning is lost.
Drain ==
  /\ hpc \in {"ack", "read"} /\ inbuf # <<>>
  /\ Head(inbuf).part \in {"tail", "badTail"}
  /\ inbuf' = Tail(inbuf)
  /\ UNCHANGED <<toDevice, wire, deviceVars, hostVars>>

\* It reads an acknowledge to its end.  The next part of a frame follows it.
Complete == /\ inbuf # <<>>
            /\ \/ Head(inbuf).part = "whole"
               \/ Head(inbuf).part = "head" /\ Len(inbuf) > 1
Length == IF Head(inbuf).part = "whole" THEN 1 ELSE 2
Intact == inbuf[Length] \in {Head(inbuf), Frame("tail", Head(inbuf).val)}

\* A plausible mistake: any acknowledge will do
GetAckAnyType ==
  /\ hpc \in {"ack", "read"} /\ Complete
  /\ inbuf' = SubSeq(inbuf, Length + 1, Len(inbuf))
  /\ \/ /\ ~Intact
        /\ hpc' = IF hpc = "ack" THEN "ackAgain" ELSE "readAgain"
        /\ UNCHANGED got
     \/ Intact /\ got' = Head(inbuf) /\ hpc' = "done"
  /\ UNCHANGED <<toDevice, wire, deviceVars, cmd>>

\* usb_get_ack and the test of usb_command.
GetAck ==
  /\ hpc \in {"ack", "read"} /\ Complete
  /\ inbuf' = SubSeq(inbuf, Length + 1, Len(inbuf))
  /\ \/ /\ ~Intact
        /\ hpc' = IF hpc = "ack" THEN "ackAgain" ELSE "readAgain"
        /\ UNCHANGED got
     \/ /\ Intact /\ got' = Head(inbuf)
        /\ hpc' = IF hpc = "read" \/ Head(inbuf).op = cmd.op THEN "done" ELSE "mismatch"
  /\ UNCHANGED <<toDevice, wire, deviceVars, cmd>>

\* A plausible mistake: the command is written again when its acknowledge cannot be read
AckAgainResent ==
  /\ hpc \in {"ackAgain", "readAgain"}
  /\ hpc' = IF hpc = "ackAgain" THEN "ack" ELSE "read"
  /\ inbuf' = <<>>
  /\ toDevice' = IF hpc = "ackAgain" THEN Append(toDevice, cmd) ELSE toDevice
  /\ UNCHANGED <<wire, deviceVars, cmd, got>>

\* usb_acknowledge: no acknowledge, so empty the input buffer and wait for another.
AckAgain ==
  /\ hpc \in {"ackAgain", "readAgain"}
  /\ hpc' = IF hpc = "ackAgain" THEN "ack" ELSE "read"
  /\ inbuf' = <<>>
  /\ UNCHANGED <<toDevice, wire, deviceVars, cmd, got>>

\* usb_command: not the type it waits for, so empty the input buffer and write
\* the command again.
Resend ==
  /\ hpc = "mismatch" /\ hpc' = "ack"
  /\ inbuf' = <<>> /\ toDevice' = Append(toDevice, cmd)
  /\ UNCHANGED <<wire, deviceVars, cmd, got>>

Usb == Drain \/ GetAck \/ AckAgain \/ Resend
=============================================================================
