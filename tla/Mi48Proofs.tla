----------------------------- MODULE Mi48Proofs -----------------------------
(***************************************************************************)
(* Theorems about Mi48 over SenxorUsb, for any number of frames, garbled   *)
(* frames and processes.                                                   *)
(***************************************************************************)
EXTENDS Mi48, SequenceTheorems, FunctionTheorems, FiniteSetTheorems, TLAPS

\* What the program writes: four registers, and one rate.
Settable == {"SENXOR_POWERUP", "FRAME_MODE", "FRAME_RATE", "FILTER_CTRL"}
Legal == {c \in Commands :
            c.op = "WREG" => c.reg \in Settable /\ (c.reg = "FRAME_RATE" => c.val = Divisor)}

\* What the camera sends: an acknowledge is whole and a frame is not; what is read of
\* a register that never changes is what it holds.
Sound == {p \in Pieces :
            /\ p.part = "whole" <=> p.op # "GFRA"
            /\ p.op # "GFRA" => p.val \in Bytes
            /\ p.op = "RREG" /\ p.reg \in {"EVK_TEST", "SENXOR_TYPE"} => p.val = regs[p.reg]
            /\ p.op = "RREG" /\ p.reg = "STATUS" => p.val \in {0, BootingUp}}

CameraType ==
  /\ regs \in [Registers -> Bytes] /\ stopping \in BOOLEAN
  /\ frames \in 0..MaxFrames /\ torn \in BOOLEAN /\ garbled \in 0..MaxGarbled
  /\ regs["SENXOR_TYPE"] = 1 /\ regs["STATUS"] \in {0, BootingUp}

LinkType == toDevice \in Seq(Legal) /\ wire \in Seq(Sound) /\ inbuf \in Seq(Sound)

\* Where the host is in interfaces.py, by what the program does.
HostType ==
  /\ cmd \in Legal /\ got \in Pieces
  /\ hpc \in IF phase \in Asking THEN {"idle", "ack", "ackAgain", "mismatch", "done"}
             ELSE IF phase \in Taking THEN {"idle", "read", "readAgain", "done"}
             ELSE {"idle"}
  /\ phase \in Asking /\ hpc # "idle" => cmd = Access(phase)
  /\ hpc = "done" => got \in Sound
  /\ phase \in Asking /\ hpc = "done" => got.op = cmd.op

ProgType ==
  /\ phase \in Phases /\ opens \in 0..MaxOpens /\ header \in BOOLEAN
  /\ status \in Nat /\ memo \in Bytes /\ inError \in BOOLEAN
  /\ none \in Nat /\ credit \in Nat /\ topic \in Seq(Nat)

TypeInv == CameraType /\ LinkType /\ HostType /\ ProgType

-----------------------------------------------------------------------------
(* Types. *)

\* The filter bits are cleared and set within a byte.
LEMMA FilterBytes ==
  ASSUME NEW v \in Bytes
  PROVE  /\ FiltersOff(v) \in Bytes /\ Filter1On(v) \in Bytes
         /\ v - (v % 4) \in Bytes
BY SMTT(30) DEF FiltersOff, Filter1On, Flag, Bytes

\* Every phase asks for something the program may write.
LEMMA AccessLegal ==
  ASSUME memo \in Bytes, NEW p \in Asking
  PROVE  Access(p) \in Legal
<1>1. /\ FiltersOff(memo) \in Bytes /\ Filter1On(memo) \in Bytes /\ memo - (memo % 4) \in Bytes
      /\ 0 \in Bytes /\ 19 \in Bytes /\ Divisor \in Bytes /\ ContinuousStream \in Bytes
  <2>1. 0 \in Bytes /\ 19 \in Bytes /\ Divisor \in Bytes /\ ContinuousStream \in Bytes
    BY DEF Bytes, Divisor, ContinuousStream
  <2>. QED BY <2>1, FilterBytes
<1>2. \A reg \in Registers : R(reg) \in Legal
  BY <1>1 DEF R, Legal, Commands
<1>3. \A reg \in Settable, v \in Bytes : reg # "FRAME_RATE" => W(reg, v) \in Legal
  BY DEF W, Legal, Commands, Settable, Registers
<1>4. W("FRAME_RATE", Divisor) \in Legal
  BY <1>1 DEF W, Legal, Commands, Settable, Registers
<1>5. \/ \E reg \in Registers : Access(p) = R(reg)
      \/ \E reg \in Settable, v \in Bytes : reg # "FRAME_RATE" /\ Access(p) = W(reg, v)
      \/ Access(p) = W("FRAME_RATE", Divisor)
  <2>1. CASE p \in {"bridge", "bridgeAgain", "mode", "stopRead", "stopPoll", "bootMode", "type",
                    "version", "status", "offRead", "onRead"}
    BY <2>1 DEF Access, Registers
  <2>2. CASE p = "powerup"
    <3>1. Access(p) = W("SENXOR_POWERUP", 19)
      BY <2>2 DEF Access
    <3>. QED BY <1>1, <3>1 DEF Settable
  <2>3. CASE p = "stopWrite"
    <3>1. Access(p) = W("FRAME_MODE", memo - (memo % 4))
      BY <2>3 DEF Access
    <3>. QED BY <1>1, <3>1 DEF Settable
  <2>4. CASE p = "setRate"
    BY <2>4 DEF Access
  <2>5. CASE p = "offWrite"
    <3>1. Access(p) = W("FILTER_CTRL", FiltersOff(memo))
      BY <2>5 DEF Access
    <3>. QED BY <1>1, <3>1 DEF Settable
  <2>6. CASE p = "onWrite"
    <3>1. Access(p) = W("FILTER_CTRL", Filter1On(memo))
      BY <2>6 DEF Access
    <3>. QED BY <1>1, <3>1 DEF Settable
  <2>7. CASE p = "start"
    <3>1. Access(p) = W("FRAME_MODE", ContinuousStream)
      BY <2>7 DEF Access
    <3>. QED BY <1>1, <3>1 DEF Settable
  <2>. QED BY <2>1, <2>2, <2>3, <2>4, <2>5, <2>6, <2>7 DEF Asking
<1>. QED BY <1>2, <1>3, <1>4, <1>5

\* The whole invariant holds what TypeOK says.
LEMMA TypeImplied == TypeInv => TypeOK
<1> SUFFICES ASSUME TypeInv PROVE TypeOK
  OBVIOUS
<1>1. toDevice \in Seq(Commands) /\ wire \in Seq(Pieces) /\ inbuf \in Seq(Pieces)
  <2>1. Legal \subseteq Commands /\ Sound \subseteq Pieces
    BY DEF Legal, Sound
  <2>. QED BY <2>1, SeqMonotonic DEF TypeInv, LinkType
<1>2. hpc \in {"idle", "ack", "ackAgain", "mismatch", "read", "readAgain", "done"}
  BY DEF TypeInv, HostType
<1>3. cmd \in Commands /\ memo \in Nat
  BY DEF TypeInv, HostType, ProgType, Legal, Bytes
<1>. QED BY <1>1, <1>2, <1>3 DEF TypeInv, CameraType, HostType, ProgType, TypeOK

\* The program starts with the types.
LEMMA TypeInit == Init => TypeInv
<1> SUFFICES ASSUME Init PROVE TypeInv
  OBVIOUS
<1>1. MaxFrames \in Nat /\ MaxGarbled \in Nat /\ MaxOpens \in Nat
  BY LinkBoundsAssumption, OpensAssumption
<1>2. PICK bridge \in {0, 255}, mode \in 0..2 :
        regs = [r \in Registers |-> CASE r = "EVK_TEST" -> bridge
                                      [] r = "STATUS" -> BootingUp
                                      [] r = "FRAME_MODE" -> mode
                                      [] r = "SENXOR_TYPE" -> 1
                                      [] r = "FW_VERSION_1" -> 18
                                      [] r = "FILTER_CTRL" -> 36
                                      [] OTHER -> 0]
  BY DEF Init, LinkInit
<1>3. regs \in [Registers -> Bytes]
  BY <1>2 DEF Registers, Bytes, BootingUp
<1>4. regs["SENXOR_TYPE"] = 1 /\ regs["STATUS"] = BootingUp
  BY <1>2 DEF Registers
<1>5. CameraType
  <2>1. stopping = FALSE /\ frames = 0 /\ torn = FALSE /\ garbled = 0
    BY DEF Init, LinkInit
  <2>2. frames \in 0..MaxFrames /\ garbled \in 0..MaxGarbled
    BY <1>1, <2>1
  <2>3. stopping \in BOOLEAN /\ torn \in BOOLEAN
    BY <2>1
  <2>. QED BY <1>3, <1>4, <2>2, <2>3 DEF CameraType
<1>6. LinkType
  BY DEF Init, LinkInit, LinkType
<1>7. HostType
  <2>1. NoCommand \in Legal /\ NoAck \in Pieces
    BY DEF NoCommand, Legal, Commands, NoAck, Ack, Pieces, Registers, Bytes
  <2>. QED BY <2>1 DEF Init, LinkInit, HostType, Asking, Taking
<1>8. ProgType
  <2>1. header \in BOOLEAN /\ inError \in BOOLEAN
    BY DEF Init
  <2>2. opens \in 0..MaxOpens /\ status \in Nat /\ memo \in Bytes /\ none \in Nat /\ credit \in Nat
    BY <1>1 DEF Init, Bytes
  <2>3. phase \in Phases /\ topic \in Seq(Nat)
    BY DEF Init, Phases
  <2>. QED BY <2>1, <2>2, <2>3 DEF ProgType
<1>. QED BY <1>5, <1>6, <1>7, <1>8 DEF TypeInv

\* As long as these two registers hold what they hold, a sound piece stays sound.
LEMMA SoundKept ==
  ASSUME regs'["EVK_TEST"] = regs["EVK_TEST"], regs'["SENXOR_TYPE"] = regs["SENXOR_TYPE"]
  PROVE  Sound' = Sound
BY DEF Sound

\* What the camera does keeps its registers' types, and what it sends is sound.
LEMMA DeviceType ==
  ASSUME TypeInv, Device
  PROVE  CameraType' /\ LinkType' /\ Sound' = Sound /\ UNCHANGED <<inbuf, hostVars>>
<1>1. CameraType /\ LinkType
  BY DEF TypeInv
<1>2. CASE Execute
  <2> DEFINE c == Head(toDevice)
  <2>1. c \in Legal /\ Tail(toDevice) \in Seq(Legal)
    BY <1>1, <1>2, HeadTailProperties DEF Execute, LinkType
  <2>2. c.op \in {"RREG", "WREG"} /\ c.reg \in Registers /\ c.val \in Bytes
    BY <2>1 DEF Legal, Commands
  <2>3. toDevice' = Tail(toDevice) /\ UNCHANGED <<inbuf, frames, torn, garbled, hostVars>>
    BY <1>2 DEF Execute
  <2>4. CASE c.op = "RREG"
    <3>1. UNCHANGED <<regs, stopping>> /\ wire' = Append(wire, Ack("RREG", c.reg, regs[c.reg]))
      BY <1>2, <2>4 DEF Execute
    <3>2. Ack("RREG", c.reg, regs[c.reg]) \in Sound
      <4>1. regs[c.reg] \in Bytes /\ regs["STATUS"] \in {0, BootingUp}
        BY <1>1, <2>2 DEF CameraType
      <4>. QED BY <2>2, <4>1 DEF Ack, Sound, Pieces, Bytes
    <3>3. Sound' = Sound
      BY <3>1, SoundKept
    <3>. QED BY <1>1, <2>1, <2>3, <3>1, <3>2, <3>3, AppendProperties DEF CameraType, LinkType, Legal
  <2>5. CASE c.op = "WREG"
    <3>1. c.reg \in Settable
      BY <2>1, <2>5 DEF Legal
    <3>2. wire' = Append(wire, Ack("WREG", c.reg, c.val))
      BY <1>2, <2>5 DEF Execute
    <3>3. Ack("WREG", c.reg, c.val) \in Sound
      BY <2>2 DEF Ack, Sound, Pieces, Bytes
    <3>4. /\ regs' \in [Registers -> Bytes] /\ stopping' \in BOOLEAN
          /\ regs'["STATUS"] \in {0, BootingUp}
          /\ regs'["EVK_TEST"] = regs["EVK_TEST"] /\ regs'["SENXOR_TYPE"] = regs["SENXOR_TYPE"]
      <4>1. CASE c.reg = "FRAME_MODE"
        <5>1. /\ regs' = regs \/ regs' = [regs EXCEPT !["FRAME_MODE"] = c.val]
              /\ stopping' \in BOOLEAN
          BY <1>2, <2>5, <4>1 DEF Execute
        <5>2. regs \in [Registers -> Bytes] /\ regs["STATUS"] \in {0, BootingUp}
          BY <1>1 DEF CameraType
        <5>. QED BY <2>2, <5>1, <5>2 DEF Registers
      <4>2. CASE c.reg # "FRAME_MODE"
        <5>1. /\ regs' = [regs EXCEPT ![c.reg] = c.val,
                            !["STATUS"] = IF c.reg = "SENXOR_POWERUP" THEN BootingUp ELSE @]
              /\ UNCHANGED stopping
          BY <1>2, <2>5, <4>2 DEF Execute
        <5>2. BootingUp \in Bytes
          BY DEF BootingUp, Bytes
        <5>. QED BY <1>1, <2>2, <3>1, <5>1, <5>2 DEF CameraType, Registers, Settable
      <4>. QED BY <4>1, <4>2
    <3>5. Sound' = Sound
      BY <3>4, SoundKept
    <3>. QED BY <1>1, <2>1, <2>3, <3>2, <3>3, <3>4, <3>5, AppendProperties
         DEF CameraType, LinkType, Legal
  <2>. QED BY <2>2, <2>4, <2>5
<1>3. CASE Booted
  <2>1. /\ regs' = [regs EXCEPT !["STATUS"] = 0]
        /\ UNCHANGED <<linkVars, stopping, frames, torn, garbled, hostVars>>
    BY <1>3 DEF Booted
  <2>2. CameraType'
    BY <1>1, <2>1 DEF CameraType, Registers, Bytes
  <2>3. Sound' = Sound
    BY <1>1, <2>1, SoundKept DEF CameraType, Registers
  <2>. QED BY <1>1, <2>1, <2>2, <2>3 DEF LinkType, linkVars, Legal
<1>4. CASE SendHead
  <2>1. /\ frames < MaxFrames /\ frames' = frames + 1 /\ torn' = TRUE
        /\ wire' = Append(wire, Frame("head", frames + 1))
        /\ UNCHANGED <<toDevice, inbuf, regs, stopping, garbled, hostVars>>
    BY <1>4 DEF SendHead
  <2>2. CameraType'
    BY <1>1, <2>1, LinkBoundsAssumption DEF CameraType
  <2>3. Sound' = Sound
    BY <2>1, SoundKept
  <2>4. Frame("head", frames + 1) \in Sound
    BY <1>1 DEF Frame, Sound, Pieces, CameraType, Registers
  <2>. QED BY <1>1, <2>1, <2>2, <2>3, <2>4, AppendProperties DEF LinkType, Legal
<1>5. CASE SendTail
  <2>1. /\ torn' = FALSE
        /\ regs' = [regs EXCEPT !["FRAME_MODE"] = IF Flag(@, GetSingleFrame) THEN @ - 1 ELSE @]
        /\ UNCHANGED <<toDevice, inbuf, stopping, frames, hostVars>>
    BY <1>5 DEF SendTail
  <2>2. PICK part \in {"tail", "badTail"} : wire' = Append(wire, Frame(part, frames))
    BY <1>5 DEF SendTail
  <2>3. garbled' \in 0..MaxGarbled
    BY <1>1, <1>5, LinkBoundsAssumption DEF SendTail, CameraType
  <2>4. \A v \in Bytes : Flag(v, GetSingleFrame) => v - 1 \in Bytes
    BY DEF Flag, GetSingleFrame, Bytes
  <2>5. CameraType'
    BY <1>1, <2>1, <2>3, <2>4 DEF CameraType, Registers
  <2>6. Sound' = Sound
    BY <1>1, <2>1, SoundKept DEF CameraType, Registers
  <2>7. Frame(part, frames) \in Sound
    BY <1>1 DEF Frame, Sound, Pieces, CameraType, Registers
  <2>. QED BY <1>1, <2>1, <2>2, <2>5, <2>6, <2>7, AppendProperties DEF LinkType, Legal
<1>6. CASE Settle
  <2>1. /\ stopping' = FALSE /\ regs' = [regs EXCEPT !["FRAME_MODE"] = @ - (@ % 4)]
        /\ UNCHANGED <<linkVars, frames, torn, garbled, hostVars>>
    BY <1>6 DEF Settle
  <2>2. CameraType'
    BY <1>1, <2>1, FilterBytes DEF CameraType, Registers
  <2>3. Sound' = Sound
    BY <1>1, <2>1, SoundKept DEF CameraType, Registers
  <2>. QED BY <1>1, <2>1, <2>2, <2>3 DEF LinkType, linkVars, Legal
<1>. QED BY <1>2, <1>3, <1>4, <1>5, <1>6 DEF Device

\* What is left of a buffer when one or two pieces are taken off its front.
LEMMA RestOfBuffer ==
  ASSUME NEW S, NEW q \in Seq(S), q # <<>>
  PROVE  /\ Head(q) \in S /\ Head(q) = q[1] /\ Tail(q) \in Seq(S)
         /\ SubSeq(q, 2, Len(q)) = Tail(q)
         /\ Len(q) > 1 => /\ Tail(q) # <<>> /\ Head(Tail(q)) = q[2] /\ q[2] \in S
                          /\ Tail(Tail(q)) \in Seq(S)
                          /\ SubSeq(q, 3, Len(q)) = Tail(Tail(q))
<1>1. /\ Head(q) \in S /\ Tail(q) \in Seq(S) /\ Len(Tail(q)) = Len(q) - 1 /\ Len(q) \in Nat
      /\ Len(q) > 0 /\ Head(q) = q[1] /\ \A i \in 1..Len(q) - 1 : Tail(q)[i] = q[i + 1]
  BY HeadTailProperties, EmptySeq, LenProperties
<1>2. SubSeq(q, 2, Len(q)) = Tail(q)
  BY TailIsSubSeq
<1>3. ASSUME Len(q) > 1
      PROVE  /\ Tail(q) # <<>> /\ Head(Tail(q)) = q[2] /\ q[2] \in S
             /\ Tail(Tail(q)) \in Seq(S) /\ SubSeq(q, 3, Len(q)) = Tail(Tail(q))
  <2>1. Tail(q) # <<>> /\ Len(Tail(q)) > 0
    BY <1>1, <1>3, EmptySeq
  <2>2. Head(Tail(q)) = Tail(q)[1] /\ Tail(q)[1] = q[2] /\ q[2] \in S
    BY <1>1, <1>3, <2>1, ElementOfSeq
  <2>3. Tail(SubSeq(q, 2, Len(q))) = SubSeq(q, 2 + 1, Len(q))
    <3>1. 2 \in 1..Len(q) /\ Len(q) \in 2..Len(q)
      BY <1>1, <1>3
    <3>. QED BY <3>1, HeadTailOfSubSeq
  <2>4. Tail(Tail(q)) \in Seq(S)
    BY <1>1, <2>1, HeadTailProperties
  <2>5. SubSeq(q, 3, Len(q)) = Tail(Tail(q))
    <3>1. 2 + 1 = 3
      OBVIOUS
    <3>2. Tail(SubSeq(q, 2, Len(q))) = SubSeq(q, 3, Len(q))
      BY ONLY <2>3, <3>1
    <3>. QED BY ONLY <1>2, <3>2
  <2>. QED BY <2>1, <2>2, <2>4, <2>5
<1>. QED BY <1>1, <1>2, <1>3

\* Registers, port and program that a step leaves alone keep their types.
LEMMA TypeKept ==
  /\ CameraType /\ UNCHANGED deviceVars => CameraType'
  /\ LinkType /\ UNCHANGED <<linkVars, regs>> => LinkType'
  /\ regs' = regs => Sound' = Sound /\ Legal' = Legal
  /\ ProgType /\ UNCHANGED progVars => ProgType'
<1>1. regs' = regs => Sound' = Sound /\ Legal' = Legal
  BY SoundKept DEF Legal
<1>2. CameraType /\ UNCHANGED deviceVars => CameraType'
  BY DEF CameraType, deviceVars
<1>3. LinkType /\ UNCHANGED <<linkVars, regs>> => LinkType'
  BY <1>1 DEF LinkType, linkVars
<1>4. ProgType /\ UNCHANGED progVars => ProgType'
  BY DEF ProgType, progVars
<1>. QED BY <1>1, <1>2, <1>3, <1>4

\* What the host's side of the link does keeps the types.
LEMMA UsbType ==
  ASSUME TypeInv, Usb, UNCHANGED <<phase, memo>>
  PROVE  CameraType' /\ LinkType' /\ HostType' /\ regs' = regs
<1>1. CameraType /\ LinkType /\ HostType
  BY DEF TypeInv
<1>2. UNCHANGED <<wire, deviceVars, cmd>>
  BY DEF Usb, Drain, GetAck, AckAgain, Resend, hostVars
<1>3. CameraType' /\ Sound' = Sound /\ Legal' = Legal /\ regs' = regs
  BY <1>1, <1>2, TypeKept DEF deviceVars
<1>4. Access(phase)' = Access(phase)
  BY DEF Access
<1>5. CASE Drain
  <2>1. UNCHANGED <<toDevice, hostVars>> /\ inbuf # <<>> /\ inbuf' = Tail(inbuf)
    BY <1>5 DEF Drain
  <2>2. Tail(inbuf) \in Seq(Sound)
    BY <1>1, <2>1, HeadTailProperties DEF LinkType
  <2>. QED BY <1>1, <1>2, <1>3, <1>4, <2>1, <2>2 DEF LinkType, HostType, hostVars
<1>6. CASE GetAck
  <2>1. /\ UNCHANGED toDevice /\ inbuf # <<>>
        /\ Head(inbuf).part = "whole" \/ Len(inbuf) > 1
        /\ inbuf' = SubSeq(inbuf, Length + 1, Len(inbuf))
    BY <1>6 DEF GetAck, Complete
  <2>2. Head(inbuf) \in Sound /\ inbuf' \in Seq(Sound)
    <3>1. CASE Head(inbuf).part = "whole"
      <4>1. Length = 1
        BY <3>1 DEF Length
      <4>. QED BY <1>1, <2>1, <4>1, RestOfBuffer DEF LinkType
    <3>2. CASE Head(inbuf).part # "whole"
      <4>1. Length = 2
        BY <3>2 DEF Length
      <4>. QED BY <1>1, <2>1, <3>2, <4>1, RestOfBuffer DEF LinkType
    <3>. QED BY <3>1, <3>2
  <2>3. LinkType'
    BY <1>1, <1>2, <1>3, <2>1, <2>2 DEF LinkType
  <2>4. /\ hpc \in {"ack", "read"}
        /\ \/ hpc' = (IF hpc = "ack" THEN "ackAgain" ELSE "readAgain") /\ got' = got
           \/ /\ got' = Head(inbuf)
              /\ hpc' = IF hpc = "read" \/ Head(inbuf).op = cmd.op THEN "done" ELSE "mismatch"
    BY <1>6 DEF GetAck
  <2>5. got' \in Pieces /\ (hpc' = "done" => got' \in Sound)
    BY <1>1, <2>2, <2>4 DEF HostType, Sound
  <2>6. hpc' \in IF phase \in Asking THEN {"idle", "ack", "ackAgain", "mismatch", "done"}
                 ELSE IF phase \in Taking THEN {"idle", "read", "readAgain", "done"}
                 ELSE {"idle"}
    BY <1>1, <2>4 DEF HostType, Asking, Taking
  <2>7. phase \in Asking => hpc = "ack" /\ (hpc' = "done" => got'.op = cmd.op)
    BY <1>1, <2>4 DEF HostType
  <2>8. phase \in Asking => cmd = Access(phase)
    BY <1>1, <2>4 DEF HostType
  <2>9. HostType'
    BY <1>1, <1>2, <1>3, <1>4, <2>5, <2>6, <2>7, <2>8 DEF HostType
  <2>. QED BY <1>3, <2>3, <2>9
<1>7. CASE AckAgain \/ Resend
  <2>1. inbuf' = <<>> /\ (toDevice' = toDevice \/ toDevice' = Append(toDevice, cmd))
    BY <1>7 DEF AckAgain, Resend
  <2>2. LinkType'
    <3>1. toDevice \in Seq(Legal) /\ wire \in Seq(Sound) /\ cmd \in Legal
      BY <1>1 DEF LinkType, HostType
    <3>2. toDevice' \in Seq(Legal)
      BY <2>1, <3>1, AppendProperties
    <3>3. inbuf' \in Seq(Sound)
      BY <2>1, EmptySeq
    <3>. QED BY <1>2, <1>3, <3>1, <3>2, <3>3 DEF LinkType
  <2>3. /\ got' = got /\ hpc # "idle"
        /\ \/ hpc = "readAgain" /\ hpc' = "read"
           \/ hpc \in {"ackAgain", "mismatch"} /\ hpc' = "ack"
    BY <1>7 DEF AckAgain, Resend
  <2>4. HostType'
    BY <1>1, <1>2, <1>3, <1>4, <2>3 DEF HostType
  <2>. QED BY <1>3, <2>2, <2>4
<1>. QED BY <1>5, <1>6, <1>7 DEF Usb

\* What happens on the link keeps the types.
LEMMA LinkStepType == TypeInv /\ Link => TypeInv'
<1> SUFFICES ASSUME TypeInv, Link PROVE TypeInv'
  OBVIOUS
<1>1. CameraType /\ LinkType /\ HostType /\ ProgType
  BY DEF TypeInv
<1>2. UNCHANGED <<phase, opens, header, status, memo, inError, none, topic>>
      /\ credit' \in {credit, credit + 1}
  BY DEF Link
<1>3. ProgType'
  BY <1>1, <1>2 DEF ProgType
<1>4. ASSUME UNCHANGED hostVars, Sound' = Sound PROVE HostType'
  <2>1. Access(phase)' = Access(phase) /\ Legal' = Legal
    BY <1>2 DEF Access, Legal
  <2>. QED BY <1>1, <1>2, <1>4, <2>1 DEF HostType, hostVars
<1>5. CASE Device
  BY <1>3, <1>4, <1>5, DeviceType DEF TypeInv
<1>6. CASE Usb
  BY <1>2, <1>3, <1>6, UsbType DEF TypeInv
<1>7. CASE Arrive
  <2>1. /\ wire # <<>> /\ inbuf' = Append(inbuf, Head(wire)) /\ wire' = Tail(wire)
        /\ UNCHANGED <<toDevice, deviceVars, hostVars>>
    BY <1>7 DEF Arrive
  <2>2. regs' = regs
    BY <2>1 DEF deviceVars
  <2>3. Head(wire) \in Sound /\ Tail(wire) \in Seq(Sound)
    BY <1>1, <2>1, HeadTailProperties DEF LinkType
  <2>4. LinkType'
    BY <1>1, <2>1, <2>2, <2>3, TypeKept, AppendProperties DEF LinkType
  <2>. QED BY <1>1, <1>3, <1>4, <2>1, <2>2, <2>4, TypeKept DEF TypeInv
<1>. QED BY <1>5, <1>6, <1>7 DEF Link

\* Opening and killing keep the types.
LEMMA ProcessType == TypeInv /\ (Open \/ Kill) => TypeInv'
<1> SUFFICES ASSUME TypeInv, Open \/ Kill PROVE TypeInv'
  OBVIOUS
<1>1. CameraType /\ LinkType /\ HostType /\ ProgType
  BY DEF TypeInv
<1>2. /\ UNCHANGED <<toDevice, wire, deviceVars>> /\ inbuf' = <<>>
      /\ hpc' = "idle" /\ cmd' = NoCommand /\ got' = NoAck
  BY DEF Open, Kill
<1>3. CameraType' /\ Sound' = Sound /\ Legal' = Legal
  BY <1>1, <1>2, TypeKept DEF deviceVars
<1>4. LinkType'
  BY <1>1, <1>2, <1>3, EmptySeq DEF LinkType
<1>5. phase' \in {"bridge", "off"} /\ phase' \in Phases
  BY DEF Open, Kill, Phases, Asking
<1>6. HostType'
  <2>1. NoCommand \in Legal /\ NoAck \in Pieces
    BY DEF NoCommand, Legal, Commands, NoAck, Ack, Pieces, Registers, Bytes
  <2>. QED BY <1>2, <1>3, <1>5, <2>1 DEF HostType
<1>7. ProgType'
  <2>1. opens' \in 0..MaxOpens
    BY <1>1, OpensAssumption DEF Open, Kill, ProgType
  <2>2. header' = FALSE /\ inError' = FALSE
    BY DEF Open, Kill
  <2>3. status' = 0 /\ memo' = 0 /\ none' = 0 /\ topic' = <<>>
    BY DEF Open, Kill
  <2>4. credit' \in Nat
    <3>1. Len(toDevice) \in Nat
      BY <1>1, LenProperties DEF LinkType
    <3>2. Acks(wire) \in Nat
      <4>1. DOMAIN wire = 1..Len(wire) /\ Len(wire) \in Nat
        BY <1>1, LenProperties DEF LinkType
      <4>2. {i \in DOMAIN wire : wire[i].op # "GFRA"} \in SUBSET (1..Len(wire))
        BY <4>1
      <4>3. IsFiniteSet(1..Len(wire))
        BY <4>1, FS_Interval
      <4>4. IsFiniteSet({i \in DOMAIN wire : wire[i].op # "GFRA"})
        BY <4>2, <4>3, FS_Subset
      <4>. QED BY <4>4, FS_CardinalityType DEF Acks
    <3>. QED BY <3>1, <3>2 DEF Open, Kill
  <2>5. memo' \in Bytes /\ topic' \in Seq(Nat)
    BY <2>3 DEF Bytes
  <2>6. header' \in BOOLEAN /\ inError' \in BOOLEAN
    BY <2>2
  <2>. QED BY <1>5, <2>1, <2>3, <2>4, <2>5, <2>6 DEF ProgType
<1>. QED BY <1>3, <1>4, <1>6, <1>7 DEF TypeInv

\* So do asking and taking.
LEMMA CallType == TypeInv /\ (Ask \/ Take) => TypeInv'
<1> SUFFICES ASSUME TypeInv, Ask \/ Take PROVE TypeInv'
  OBVIOUS
<1>1. CameraType /\ LinkType /\ HostType /\ ProgType
  BY DEF TypeInv
<1>2. UNCHANGED <<progVars, wire, inbuf, deviceVars, got>>
  BY DEF Ask, Take, Command, Read, linkVars
<1>3. CameraType' /\ ProgType' /\ Sound' = Sound /\ Legal' = Legal
  BY <1>1, <1>2, TypeKept DEF deviceVars
<1>4. Access(phase)' = Access(phase)
  BY <1>2 DEF Access, progVars
<1>5. CASE Ask
  <2>1. /\ phase \in Asking /\ hpc' = "ack" /\ cmd' = Access(phase)
        /\ toDevice' = Append(toDevice, Access(phase))
    BY <1>5 DEF Ask, Command
  <2>2. Access(phase) \in Legal
    BY <1>1, <2>1, AccessLegal DEF ProgType
  <2>3. LinkType'
    BY <1>1, <1>2, <1>3, <2>1, <2>2, AppendProperties DEF LinkType
  <2>4. HostType'
    BY <1>1, <1>2, <1>3, <1>4, <2>1, <2>2 DEF HostType, progVars
  <2>. QED BY <1>3, <2>3, <2>4 DEF TypeInv
<1>6. CASE Take
  <2>1. phase \in Taking /\ hpc' = "read" /\ UNCHANGED <<linkVars, cmd>>
    BY <1>6 DEF Take, Read
  <2>2. phase \notin Asking
    BY <2>1 DEF Asking, Taking
  <2>3. LinkType'
    BY <1>1, <1>2, <2>1, TypeKept DEF deviceVars
  <2>4. HostType'
    BY <1>1, <1>2, <1>3, <2>1, <2>2 DEF HostType, progVars
  <2>. QED BY <1>3, <2>3, <2>4 DEF TypeInv
<1>. QED BY <1>5, <1>6

\* What the program does with an answer or a frame: it leaves the link alone.
LEMMA ReturnCases ==
  ASSUME TypeInv, Answer \/ Dumped \/ Callback
  PROVE  /\ UNCHANGED <<linkVars, deviceVars, cmd, opens, credit>>
         /\ hpc = "done" /\ hpc' = "idle" /\ got' = NoAck
         /\ phase' \in Phases
         /\ header' \in BOOLEAN /\ status' \in Nat /\ memo' \in Bytes /\ inError' \in BOOLEAN
         /\ none' \in Nat /\ topic' \in Seq(Nat)
<1>1. HostType /\ ProgType
  BY DEF TypeInv
<1>2. /\ UNCHANGED <<linkVars, deviceVars, cmd, opens, credit>>
      /\ hpc = "done" /\ hpc' = "idle" /\ got' = NoAck
  BY DEF Answer, Return, AnswerBridge, AnswerPlain, AnswerFilter, AnswerMode, AnswerStopRead,
         AnswerStopWrite, AnswerStopPoll, AnswerType, AnswerStatus, AnswerBootMode, AnswerStart,
         Dumped, Callback
<1>3. got \in Sound /\ got.val \in Nat
  BY <1>1, <1>2 DEF HostType, Sound, Pieces
<1>4. ASSUME Answer, Return
      PROVE  got.val \in Bytes /\ UNCHANGED <<none, topic>>
  <2>1. got.op # "GFRA"
    BY <1>1, <1>2, <1>4 DEF Return, HostType, Legal, Commands
  <2>. QED BY <1>3, <1>4, <2>1 DEF Sound, Return
<1>5. Answer => Return
  BY DEF Answer, AnswerBridge, AnswerPlain, AnswerFilter, AnswerMode, AnswerStopRead,
         AnswerStopWrite, AnswerStopPoll, AnswerType, AnswerStatus, AnswerBootMode, AnswerStart
<1>6. phase' \in Phases
  <2>1. StopDone \in Phases /\ AfterStop(status) \in Phases
    BY DEF StopDone, AfterStop, Phases, Asking, Taking
  <2>2. \A p \in Asking \cup Taking \cup {"failed"} : p \in Phases
    BY DEF Phases
  <2>3. CASE AnswerBridge
    BY <2>3, <2>2 DEF AnswerBridge, Asking
  <2>4. CASE AnswerPlain
    BY <2>4, <2>2 DEF AnswerPlain, Asking
  <2>5. CASE AnswerFilter
    BY <2>5, <2>2 DEF AnswerFilter, Asking
  <2>6. CASE AnswerMode
    BY <2>6, <2>2 DEF AnswerMode, Asking
  <2>7. CASE AnswerStopRead \/ AnswerStopWrite \/ AnswerStopPoll
    BY <2>1, <2>7, <2>2 DEF AnswerStopRead, AnswerStopWrite, AnswerStopPoll, Asking
  <2>8. CASE AnswerType
    BY <2>8, <2>2 DEF AnswerType, Asking
  <2>9. CASE AnswerStatus
    BY <2>9, <2>2 DEF AnswerStatus, Asking
  <2>10. CASE AnswerBootMode
    BY <2>1, <2>10, <2>2 DEF AnswerBootMode, Asking
  <2>11. CASE AnswerStart
    BY <2>11, <2>2 DEF AnswerStart, Taking
  <2>12. CASE Dumped
    BY <2>12, <2>2 DEF Dumped, Asking
  <2>13. CASE Callback
    BY <1>1, <2>13, <2>2 DEF Callback, ProgType
  <2>. QED BY <2>3, <2>4, <2>5, <2>6, <2>7, <2>8, <2>9, <2>10, <2>11, <2>12, <2>13 DEF Answer
<1>7. header' \in BOOLEAN
  BY <1>1 DEF ProgType, Answer, AnswerBridge, AnswerPlain, AnswerFilter, AnswerMode,
         AnswerStopRead, AnswerStopWrite, AnswerStopPoll, AnswerType, AnswerStatus,
         AnswerBootMode, AnswerStart, Dumped, Callback
<1>8. inError' \in BOOLEAN
  BY <1>1 DEF ProgType, Answer, AnswerBridge, AnswerPlain, AnswerFilter, AnswerMode,
         AnswerStopRead, AnswerStopWrite, AnswerStopPoll, AnswerType, AnswerStatus,
         AnswerBootMode, AnswerStart, Dumped, Callback
<1>9. memo' \in Bytes /\ status' \in Nat
  <2>1. memo' \in {memo, 0, got.val} /\ (memo' = got.val => memo' = memo \/ memo' = 0 \/ Answer)
        /\ status' \in {status, got.val}
    BY DEF Answer, AnswerBridge, AnswerPlain, AnswerFilter, AnswerMode,
         AnswerStopRead, AnswerStopWrite, AnswerStopPoll, AnswerType, AnswerStatus,
         AnswerBootMode, AnswerStart, Dumped, Callback
  <2>2. 0 \in Bytes
    BY DEF Bytes
  <2>. QED BY <1>1, <1>3, <1>4, <1>5, <2>1, <2>2 DEF ProgType
<1>10. none' \in Nat /\ topic' \in Seq(Nat)
  <2>1. CASE Answer
    BY <1>1, <1>4, <1>5, <2>1 DEF ProgType
  <2>2. CASE Dumped
    BY <1>1, <2>2 DEF Dumped, ProgType
  <2>3. CASE Callback
    <3>1. none' \in {none, none + 1} /\ topic' \in {topic, Append(topic, got.val)}
      BY <2>3 DEF Callback
    <3>2. none \in Nat /\ topic \in Seq(Nat)
      BY <1>1 DEF ProgType
    <3>3. Append(topic, got.val) \in Seq(Nat)
      BY <1>3, <3>2, AppendProperties
    <3>. QED BY <3>1, <3>2, <3>3
  <2>. QED BY <2>1, <2>2, <2>3
<1>. QED BY <1>2, <1>6, <1>7, <1>8, <1>9, <1>10

\* So they keep the types.
LEMMA ReturnType == TypeInv /\ (Answer \/ Dumped \/ Callback) => TypeInv'
<1> SUFFICES ASSUME TypeInv, Answer \/ Dumped \/ Callback PROVE TypeInv'
  OBVIOUS
<1>1. CameraType /\ LinkType /\ HostType /\ ProgType
  BY DEF TypeInv
<1>2. CameraType' /\ LinkType' /\ Sound' = Sound /\ Legal' = Legal
  BY <1>1, ReturnCases, TypeKept DEF deviceVars
<1>3. ProgType'
  BY <1>1, ReturnCases DEF ProgType
<1>4. HostType'
  <2>1. NoAck \in Pieces
    BY DEF NoAck, Ack, Pieces, Registers
  <2>. QED BY <1>1, <1>2, <2>1, ReturnCases DEF HostType
<1>. QED BY <1>2, <1>3, <1>4 DEF TypeInv

\* Every step keeps the types.
LEMMA TypeStep == TypeInv /\ [Next]_vars => TypeInv'
<1> SUFFICES ASSUME TypeInv, [Next]_vars PROVE TypeInv'
  OBVIOUS
<1>1. CASE UNCHANGED vars
  <2>1. UNCHANGED <<deviceVars, linkVars, hostVars, progVars>>
    BY <1>1 DEF vars, usbVars
  <2>2. regs' = regs /\ Access(phase)' = Access(phase)
    BY <2>1 DEF deviceVars, progVars, Access
  <2>3. HostType'
    BY <2>1, <2>2, TypeKept DEF TypeInv, HostType, hostVars, progVars
  <2>. QED BY <2>1, <2>2, <2>3, TypeKept DEF TypeInv
<1>. QED BY <1>1, LinkStepType, ProcessType, CallType, ReturnType DEF Next, Program

\* Types: registers stay bytes, whatever the answers are taken for, and the host's
\* state fits what the program does.
THEOREM TypeCorrect == Spec => []TypeOK
<1>1. Spec => []TypeInv
  BY TypeInit, TypeStep, PTL DEF Spec
<1>. QED BY <1>1, TypeImplied, PTL
-----------------------------------------------------------------------------
(* The inductive invariant: what is owed, what a calm link carries, and how far *)
(* the settings have come.                                                      *)

\* A callback or error_handler holds an answer it has taken for a frame.
Taken == IF phase \in Taking /\ hpc = "done" /\ got.op # "GFRA" THEN 1 ELSE 0
Waiting == IF hpc \in {"ack", "ackAgain"} THEN 1 ELSE 0
Owed == none + Len(toDevice) + Acks(wire) + Acks(inbuf) + Taken
OwedInv == phase \notin {"off", "failed"} => Owed <= credit + Waiting

\* A process nothing was left over for, and none of whose commands has met a frame: the
\* link carries frames and the one command it waits for, or its answer.
Calm == credit = 0 /\ phase \notin {"off", "failed"}
Mine(p) == p.op # "GFRA" => p.op = cmd.op /\ p.reg = cmd.reg
CalmInv ==
  Calm =>
    /\ hpc # "mismatch" /\ phase # "dump" /\ status \in {0, BootingUp}
    /\ \A i \in DOMAIN toDevice : toDevice[i] = cmd
    /\ \A i \in DOMAIN wire : Mine(wire[i])
    /\ \A i \in DOMAIN inbuf : Mine(inbuf[i])
    /\ phase \in Asking /\ hpc = "done" => got.reg = cmd.reg
    /\ phase # "bridge" => header = (regs["EVK_TEST"] = 255)

\* The last write of the mode, executed or not, is the start of the stream.
ModeWrite(c) == c.op = "WREG" /\ c.reg = "FRAME_MODE"
NoMode(q) == \A j \in DOMAIN q : ~ModeWrite(q[j])
StartIsLast(q) ==
  \E i \in DOMAIN q : q[i] = Access("start") /\ \A j \in DOMAIN q : j > i => ~ModeWrite(q[j])
Starting == phase = "reading" \/ (phase = "start" /\ hpc # "idle")
ModeInv ==
  Starting =>
    \/ StartIsLast(toDevice)
    \/ NoMode(toDevice) /\ regs["FRAME_MODE"] = ContinuousStream /\ ~stopping

\* The rate is set, or to be.
RateWrite(q) == \E i \in DOMAIN q : q[i] = Access("setRate")
Rating == \/ phase = "setRate" /\ hpc # "idle"
          \/ phase \in {"offRead", "offWrite", "onRead", "onWrite", "start", "reading"}
RateInv == Rating => regs["FRAME_RATE"] = Divisor \/ RateWrite(toDevice)

\* The filters of a calm process.  The first one finds the register as it is at power-up.
Off(v) == v % 8 = 0 /\ ~Flag(v, 64) /\ (opens = 1 => v = 32)
On(v) == v % 8 = 3 /\ ~Flag(v, 64) /\ (opens = 1 => v = 35)
ReadAs(p, v) == p.op = "RREG" /\ p.reg = "FILTER_CTRL" => p.val = v
Executed == hpc # "idle" /\ toDevice = <<>>
AtPowerUp == opens = 0 => phase = "off" /\ regs["FILTER_CTRL"] = 36 /\ toDevice = <<>>
Filtering == {"offWrite", "onRead", "onWrite", "start", "reading"}
FiltersRead(f) ==
  phase \in {"offRead", "onRead"} =>
    /\ \A i \in DOMAIN wire : ReadAs(wire[i], f)
    /\ \A i \in DOMAIN inbuf : ReadAs(inbuf[i], f)
    /\ hpc = "done" => ReadAs(got, f)
FiltersSet(f) ==
  /\ opens = 1 /\ phase \notin Filtering => f = 36
  /\ phase = "offWrite" => (opens = 1 => memo = 36) /\ (Executed => Off(f))
  /\ phase = "onRead" => Off(f)
  /\ phase = "onWrite" => Off(memo) /\ (Executed => On(f))
  /\ phase \in {"start", "reading"} => On(f)
FilterInv ==
  /\ AtPowerUp
  /\ Calm => FiltersRead(regs["FILTER_CTRL"]) /\ FiltersSet(regs["FILTER_CTRL"])
-----------------------------------------------------------------------------
(* What is on the link stays there as pieces are put on and taken off. *)

\* What is left is what was there, one place further up.
LEMMA InTail ==
  ASSUME NEW S, NEW q \in Seq(S), q # <<>>, NEW i \in DOMAIN Tail(q)
  PROVE  i \in Nat /\ i + 1 \in DOMAIN q /\ Tail(q)[i] = q[i + 1]
         /\ \E j \in DOMAIN q : Tail(q)[i] = q[j]
<1>1. /\ Len(q) \in Nat /\ DOMAIN q = 1..Len(q) /\ Tail(q) \in Seq(S)
      /\ Len(Tail(q)) = Len(q) - 1 /\ \A k \in 1..Len(q) - 1 : Tail(q)[k] = q[k + 1]
  BY HeadTailProperties, LenProperties
<1>2. i \in 1..Len(q) - 1
  BY <1>1, LenProperties
<1>3. i + 1 \in DOMAIN q
  BY <1>1, <1>2
<1>. QED BY <1>1, <1>2, <1>3

\* What was there stays in its place, and the new piece is last.
LEMMA InAppend ==
  ASSUME NEW S, NEW q \in Seq(S), NEW p \in S
  PROVE  /\ \A i \in DOMAIN Append(q, p) : \/ Append(q, p)[i] = p /\ i = Len(q) + 1
                                           \/ i \in DOMAIN q /\ Append(q, p)[i] = q[i]
         /\ \A i \in DOMAIN q : i \in DOMAIN Append(q, p) /\ Append(q, p)[i] = q[i]
         /\ Len(q) + 1 \in DOMAIN Append(q, p) /\ Append(q, p)[Len(q) + 1] = p
<1>1. /\ Len(q) \in Nat /\ DOMAIN q = 1..Len(q)
      /\ DOMAIN Append(q, p) = 1..Len(q) + 1
      /\ \A i \in 1..Len(q) : Append(q, p)[i] = q[i]
      /\ Append(q, p)[Len(q) + 1] = p
  BY LenProperties, AppendProperties
<1>2. 1..Len(q) + 1 = (1..Len(q)) \cup {Len(q) + 1}
  BY <1>1
<1>. QED BY <1>1, <1>2

-----------------------------------------------------------------------------
(* Counting answers. *)

\* A number of answers; none where none is.
LEMMA AcksType ==
  ASSUME NEW S, NEW q \in Seq(S)
  PROVE  /\ IsFiniteSet({i \in DOMAIN q : q[i].op # "GFRA"}) /\ Acks(q) \in Nat
         /\ Acks(q) = 0 => \A i \in DOMAIN q : q[i].op = "GFRA"
<1>1. DOMAIN q = 1..Len(q) /\ Len(q) \in Nat
  BY LenProperties
<1>2. {i \in DOMAIN q : q[i].op # "GFRA"} \in SUBSET (1..Len(q))
  BY <1>1
<1>3. IsFiniteSet(1..Len(q))
  BY <1>1, FS_Interval
<1>4. IsFiniteSet({i \in DOMAIN q : q[i].op # "GFRA"})
  BY <1>2, <1>3, FS_Subset
<1>5. Acks(q) = 0 => {i \in DOMAIN q : q[i].op # "GFRA"} = {}
  BY <1>4, FS_EmptySet DEF Acks
<1>. QED BY <1>4, <1>5, FS_CardinalityType DEF Acks

\* Nothing holds no answer.
LEMMA AcksEmpty == Acks(<<>>) = 0
<1>1. {i \in DOMAIN <<>> : <<>>[i].op # "GFRA"} = {}
  OBVIOUS
<1>. QED BY <1>1, FS_EmptySet DEF Acks

\* One more piece, at the end
LEMMA AcksAppend ==
  ASSUME NEW S, NEW q \in Seq(S), NEW p \in S
  PROVE  Acks(Append(q, p)) = Acks(q) + (IF p.op = "GFRA" THEN 0 ELSE 1)
<1> DEFINE A(s) == {i \in DOMAIN s : s[i].op # "GFRA"}
<1>1. /\ Len(q) \in Nat /\ DOMAIN q = 1..Len(q) /\ Append(q, p) \in Seq(S)
      /\ DOMAIN Append(q, p) = 1..Len(q) + 1
      /\ \A i \in 1..Len(q) : Append(q, p)[i] = q[i]
      /\ Append(q, p)[Len(q) + 1] = p
  BY LenProperties, AppendProperties
<1>2. 1..Len(q) + 1 = (1..Len(q)) \cup {Len(q) + 1} /\ Len(q) + 1 \notin 1..Len(q)
  BY <1>1
<1>3. A(Append(q, p)) = IF p.op = "GFRA" THEN A(q) ELSE A(q) \cup {Len(q) + 1}
  BY <1>1, <1>2
<1>4. Len(q) + 1 \notin A(q)
  BY <1>1, <1>2
<1>5. IsFiniteSet(A(q)) /\ Cardinality(A(q)) \in Nat
  BY AcksType, FS_CardinalityType
<1>6. Cardinality(A(q) \cup {Len(q) + 1}) = Cardinality(A(q)) + 1
  BY <1>4, <1>5, FS_AddElement
<1>7. Acks(Append(q, p)) = Cardinality(A(Append(q, p))) /\ Acks(q) = Cardinality(A(q))
  BY DEF Acks
<1>. HIDE DEF A
<1>8. CASE p.op = "GFRA"
  BY <1>3, <1>5, <1>7, <1>8
<1>9. CASE p.op # "GFRA"
  BY <1>3, <1>6, <1>7, <1>9
<1>. QED BY <1>8, <1>9

\* One piece less, at the front: the others move up by one.
LEMMA AcksTail ==
  ASSUME NEW S, NEW q \in Seq(S), q # <<>>
  PROVE  Acks(q) = Acks(Tail(q)) + (IF Head(q).op = "GFRA" THEN 0 ELSE 1)
<1> DEFINE A(s) == {i \in DOMAIN s : s[i].op # "GFRA"}
           Later == {i \in 2..Len(q) : q[i].op # "GFRA"}
           Up == [i \in A(Tail(q)) |-> i + 1]
<1>1. /\ Len(q) \in Nat /\ Len(q) > 0 /\ DOMAIN q = 1..Len(q) /\ Head(q) = q[1]
      /\ Tail(q) \in Seq(S) /\ DOMAIN Tail(q) = 1..Len(q) - 1
      /\ \A i \in 1..Len(q) - 1 : Tail(q)[i] = q[i + 1]
  <2>1. Len(q) \in Nat /\ Len(q) > 0
    BY EmptySeq, LenProperties
  <2>2. Tail(q) \in Seq(S) /\ Len(Tail(q)) = Len(q) - 1
    BY HeadTailProperties
  <2>. QED BY <2>1, <2>2, HeadTailProperties, LenProperties
<1>2. Up \in Bijection(A(Tail(q)), Later)
  <2>1. \A i \in A(Tail(q)) : i \in 1..Len(q) - 1 /\ i + 1 \in Later
    BY <1>1
  <2>2. Up \in [A(Tail(q)) -> Later] /\ \A a, b \in A(Tail(q)) : Up[a] = Up[b] => a = b
    BY <2>1
  <2>3. \A t \in Later : \E s \in A(Tail(q)) : Up[s] = t
    <3> SUFFICES ASSUME NEW t \in Later PROVE \E s \in A(Tail(q)) : Up[s] = t
      OBVIOUS
    <3>1. t - 1 \in 1..Len(q) - 1 /\ (t - 1) + 1 = t
      BY <1>1
    <3>2. Tail(q)[t - 1] = q[t]
      BY <1>1, <3>1
    <3>3. t - 1 \in A(Tail(q))
      BY <1>1, <3>1, <3>2
    <3>. QED BY <3>1, <3>3
  <2>. HIDE DEF Up, A, Later
  <2>. QED BY <2>2, <2>3, Fun_IsBij
<1>3. IsFiniteSet(A(Tail(q))) /\ Cardinality(A(Tail(q))) \in Nat
  BY <1>1, AcksType, FS_CardinalityType
<1>4. IsFiniteSet(Later) /\ Cardinality(Later) = Cardinality(A(Tail(q)))
  <2>1. ExistsBijection(A(Tail(q)), Later)
    BY <1>2, Fun_ExistsBij
  <2>. HIDE DEF A, Later
  <2>. QED BY <1>3, <2>1, FS_Bijection
<1>5. A(q) = (IF Head(q).op = "GFRA" THEN Later ELSE Later \cup {1}) /\ 1 \notin Later
  BY <1>1
<1>6. Acks(q) = Cardinality(A(q)) /\ Acks(Tail(q)) = Cardinality(A(Tail(q)))
  BY DEF Acks
<1>. HIDE DEF A, Later
<1>7. CASE Head(q).op = "GFRA"
  BY <1>3, <1>4, <1>5, <1>6, <1>7
<1>8. CASE Head(q).op # "GFRA"
  <2>1. Cardinality(Later \cup {1}) = Cardinality(Later) + 1
    BY <1>4, <1>5, FS_AddElement
  <2>2. A(q) = Later \cup {1}
    BY <1>5, <1>8
  <2>3. Acks(q) = Acks(Tail(q)) + 1
    BY <1>4, <1>6, <2>1, <2>2
  <2>. QED BY <1>8, <2>3
<1>. QED BY <1>7, <1>8

-----------------------------------------------------------------------------
(* What a step of the link does to what is on it. *)

\* Only executing a command takes it from the link, and its answer is put there.
LEMMA DeviceLink ==
  ASSUME TypeInv, Device
  PROVE  \/ /\ Execute /\ toDevice # <<>> /\ toDevice' = Tail(toDevice)
            /\ \E a \in Sound : /\ a.op = Head(toDevice).op /\ a.reg = Head(toDevice).reg
                                /\ a.op # "GFRA" /\ (a.op = "RREG" => a.val = regs[a.reg])
                                /\ wire' = Append(wire, a)
         \/ /\ toDevice' = toDevice
            /\ wire' = wire \/ \E p \in Sound : p.op = "GFRA" /\ wire' = Append(wire, p)
            /\ regs'["FRAME_RATE"] = regs["FRAME_RATE"] /\ regs'["FILTER_CTRL"] = regs["FILTER_CTRL"]
<1>1. CameraType /\ LinkType
  BY DEF TypeInv
<1>2. CASE Execute
  <2> DEFINE c == Head(toDevice)
  <2>1. toDevice # <<>> /\ toDevice' = Tail(toDevice)
    BY <1>2 DEF Execute
  <2>2. c \in Legal
    BY <1>1, <2>1, HeadTailProperties DEF LinkType
  <2>3. c.op \in {"RREG", "WREG"} /\ c.reg \in Registers /\ c.val \in Bytes
        /\ (c.op = "WREG" => c.reg \in Settable)
    BY <2>2 DEF Legal, Commands
  <2>4. \/ c.op = "RREG" /\ wire' = Append(wire, Ack("RREG", c.reg, regs[c.reg]))
        \/ c.op = "WREG" /\ wire' = Append(wire, Ack("WREG", c.reg, c.val))
    BY <1>2, <2>3 DEF Execute
  <2>5. \/ \E a \in Sound : /\ a.op = c.op /\ a.reg = c.reg /\ a.op # "GFRA"
                            /\ a.op = "RREG" => a.val = regs[a.reg]
                            /\ wire' = Append(wire, a)
    <3>1. CASE c.op = "RREG" /\ wire' = Append(wire, Ack("RREG", c.reg, regs[c.reg]))
      <4>1. Ack("RREG", c.reg, regs[c.reg]) \in Sound
        BY <1>1, <2>3 DEF Ack, Sound, Pieces, CameraType, Bytes
      <4>. QED BY <3>1, <4>1 DEF Ack
    <3>2. CASE c.op = "WREG" /\ wire' = Append(wire, Ack("WREG", c.reg, c.val))
      <4>1. Ack("WREG", c.reg, c.val) \in Sound
        BY <1>1, <2>3 DEF Ack, Sound, Pieces, CameraType, Bytes
      <4>. QED BY <3>2, <4>1 DEF Ack
    <3>. QED BY <2>4, <3>1, <3>2
  <2>. QED BY <1>2, <2>1, <2>5
<1>3. CASE Booted \/ Settle
  BY <1>1, <1>3 DEF Booted, Settle, linkVars, CameraType, Registers
<1>4. CASE SendHead
  <2>1. Frame("head", frames + 1) \in Sound /\ Frame("head", frames + 1).op = "GFRA"
    BY <1>1 DEF Frame, Sound, Pieces, CameraType, Registers
  <2>. QED BY <1>4, <2>1 DEF SendHead
<1>5. CASE SendTail
  <2>1. \A part \in {"tail", "badTail"} :
          Frame(part, frames) \in Sound /\ Frame(part, frames).op = "GFRA"
    BY <1>1 DEF Frame, Sound, Pieces, CameraType, Registers
  <2>2. \E part \in {"tail", "badTail"} : wire' = Append(wire, Frame(part, frames))
    BY <1>5 DEF SendTail
  <2>3. regs'["FRAME_RATE"] = regs["FRAME_RATE"] /\ regs'["FILTER_CTRL"] = regs["FILTER_CTRL"]
    BY <1>1, <1>5 DEF SendTail, CameraType, Registers
  <2>4. toDevice' = toDevice
    BY <1>5 DEF SendTail
  <2>. QED BY <2>1, <2>2, <2>3, <2>4
<1>. QED BY <1>2, <1>3, <1>4, <1>5 DEF Device

\* An acknowledge that is read is the first of the buffer, or the host goes on waiting;
\* nothing but frames, and what has been read, leaves the buffer.
LEMMA GetAckLink ==
  ASSUME TypeInv, GetAck
  PROVE  /\ inbuf # <<>> /\ Head(inbuf) \in Sound /\ hpc \in {"ack", "read"}
         /\ inbuf' \in Seq(Sound) /\ UNCHANGED <<toDevice, wire, deviceVars, cmd>>
         /\ \/ /\ hpc' = (IF hpc = "ack" THEN "ackAgain" ELSE "readAgain") /\ got' = got
               /\ Acks(inbuf') <= Acks(inbuf)
            \/ /\ got' = Head(inbuf)
               /\ hpc' = IF hpc = "read" \/ Head(inbuf).op = cmd.op THEN "done" ELSE "mismatch"
               /\ Acks(inbuf') + (IF Head(inbuf).op = "GFRA" THEN 0 ELSE 1) <= Acks(inbuf)
         /\ \A i \in DOMAIN inbuf' : \E j \in DOMAIN inbuf : inbuf'[i] = inbuf[j]
<1>1. LinkType
  BY DEF TypeInv
<1>2. /\ hpc \in {"ack", "read"} /\ inbuf # <<>>
      /\ Head(inbuf).part = "whole" \/ (Head(inbuf).part # "whole" /\ Len(inbuf) > 1)
      /\ inbuf' = SubSeq(inbuf, Length + 1, Len(inbuf))
      /\ UNCHANGED <<toDevice, wire, deviceVars, cmd>>
  BY DEF GetAck, Complete
<1>3. \/ hpc' = (IF hpc = "ack" THEN "ackAgain" ELSE "readAgain") /\ got' = got
      \/ /\ got' = Head(inbuf)
         /\ hpc' = IF hpc = "read" \/ Head(inbuf).op = cmd.op THEN "done" ELSE "mismatch"
  BY DEF GetAck
<1>4. inbuf \in Seq(Sound) /\ Head(inbuf) \in Sound /\ Tail(inbuf) \in Seq(Sound)
  BY <1>1, <1>2, HeadTailProperties DEF LinkType
<1>5. /\ Acks(inbuf) = Acks(Tail(inbuf)) + (IF Head(inbuf).op = "GFRA" THEN 0 ELSE 1)
      /\ Acks(inbuf) \in Nat /\ Acks(Tail(inbuf)) \in Nat
  BY <1>2, <1>4, AcksTail, AcksType
<1>6. \A q \in Seq(Sound) : q # <<>> => \A i \in DOMAIN Tail(q) : \E j \in DOMAIN q : Tail(q)[i] = q[j]
  BY InTail
<1>7. CASE Head(inbuf).part = "whole"
  <2>1. inbuf' = Tail(inbuf)
    <3>1. Length = 1
      BY <1>7 DEF Length
    <3>2. inbuf' = SubSeq(inbuf, 2, Len(inbuf))
      BY <1>2, <3>1
    <3>. QED BY <1>2, <1>4, <3>2, RestOfBuffer
  <2>2. \A i \in DOMAIN inbuf' : \E j \in DOMAIN inbuf : inbuf'[i] = inbuf[j]
    <3>1. \A i \in DOMAIN Tail(inbuf) : \E j \in DOMAIN inbuf : Tail(inbuf)[i] = inbuf[j]
      BY <1>2, <1>4, <1>6
    <3>. QED BY ONLY <2>1, <3>1
  <2>3. Acks(inbuf') = Acks(Tail(inbuf))
    BY <2>1
  <2>4. inbuf' \in Seq(Sound)
    BY <1>4, <2>1
  <2>5. \/ /\ hpc' = (IF hpc = "ack" THEN "ackAgain" ELSE "readAgain") /\ got' = got
           /\ Acks(inbuf') <= Acks(inbuf)
        \/ /\ got' = Head(inbuf)
           /\ hpc' = IF hpc = "read" \/ Head(inbuf).op = cmd.op THEN "done" ELSE "mismatch"
           /\ Acks(inbuf') + (IF Head(inbuf).op = "GFRA" THEN 0 ELSE 1) <= Acks(inbuf)
    BY <1>3, <1>5, <2>3
  <2>. QED BY <1>2, <1>4, <2>2, <2>4, <2>5
<1>8. CASE Head(inbuf).part # "whole" /\ Len(inbuf) > 1
  <2>1. /\ inbuf' = Tail(Tail(inbuf)) /\ Tail(Tail(inbuf)) \in Seq(Sound) /\ Tail(inbuf) # <<>>
    <3>1. Length = 2
      BY <1>8 DEF Length
    <3>2. inbuf' = SubSeq(inbuf, 3, Len(inbuf))
      BY <1>2, <3>1
    <3>. QED BY <1>2, <1>4, <1>8, <3>2, RestOfBuffer
  <2>2. Acks(inbuf') \in Nat /\ Acks(inbuf') <= Acks(Tail(inbuf))
    <3>1. Acks(Tail(inbuf)) = Acks(Tail(Tail(inbuf))) + (IF Head(Tail(inbuf)).op = "GFRA" THEN 0 ELSE 1)
      BY <1>4, <2>1, AcksTail
    <3>2. Acks(Tail(Tail(inbuf))) \in Nat
      BY <2>1, AcksType
    <3>3. Acks(Tail(Tail(inbuf))) <= Acks(Tail(inbuf))
      BY <3>1, <3>2
    <3>. QED BY ONLY <2>1, <3>2, <3>3
  <2>3. \A i \in DOMAIN inbuf' : \E j \in DOMAIN inbuf : inbuf'[i] = inbuf[j]
    <3> SUFFICES ASSUME NEW i \in DOMAIN Tail(Tail(inbuf))
                 PROVE  \E j \in DOMAIN inbuf : Tail(Tail(inbuf))[i] = inbuf[j]
      BY <2>1
    <3>1. PICK k \in DOMAIN Tail(inbuf) : Tail(Tail(inbuf))[i] = Tail(inbuf)[k]
      BY <1>4, <1>6, <2>1
    <3>2. PICK j \in DOMAIN inbuf : Tail(inbuf)[k] = inbuf[j]
      BY <1>2, <1>4, <1>6
    <3>. QED BY <3>1, <3>2
  <2>4. \/ /\ hpc' = (IF hpc = "ack" THEN "ackAgain" ELSE "readAgain") /\ got' = got
           /\ Acks(inbuf') <= Acks(inbuf)
        \/ /\ got' = Head(inbuf)
           /\ hpc' = IF hpc = "read" \/ Head(inbuf).op = cmd.op THEN "done" ELSE "mismatch"
           /\ Acks(inbuf') + (IF Head(inbuf).op = "GFRA" THEN 0 ELSE 1) <= Acks(inbuf)
    BY <1>3, <1>5, <2>2
  <2>5. inbuf' \in Seq(Sound)
    BY <2>1
  <2>. QED BY <1>2, <1>4, <2>3, <2>4, <2>5
<1>. QED BY <1>2, <1>7, <1>8
-----------------------------------------------------------------------------
(* Answers too many never outnumber the frames that were met. *)

\* The quantities that are counted are numbers.
LEMMA OwedType ==
  ASSUME TypeInv
  PROVE  /\ Len(toDevice) \in Nat /\ Acks(wire) \in Nat /\ Acks(inbuf) \in Nat
         /\ none \in Nat /\ credit \in Nat /\ Taken \in {0, 1} /\ Waiting \in {0, 1}
BY LenProperties, AcksType DEF TypeInv, LinkType, ProgType, Taken, Waiting

\* The link adds nothing to what is owed, except where it meets a frame.
LEMMA OwedLink == TypeInv /\ OwedInv /\ Link => OwedInv'
<1> SUFFICES ASSUME TypeInv, OwedInv, Link, phase \notin {"off", "failed"} PROVE OwedInv'
  BY DEF OwedInv, Link
<1>1. TypeInv'
  BY LinkStepType
<1>2. LinkType /\ HostType
  BY DEF TypeInv
<1>3. Owed <= credit + Waiting /\ UNCHANGED <<phase, none>>
      /\ credit' = IF Meets THEN credit + 1 ELSE credit
  BY DEF OwedInv, Link
<1>4. /\ Len(toDevice) \in Nat /\ Acks(wire) \in Nat /\ Acks(inbuf) \in Nat
      /\ none \in Nat /\ credit \in Nat /\ Taken \in {0, 1} /\ Waiting \in {0, 1}
  BY OwedType
<1>5. /\ Len(toDevice)' \in Nat /\ Acks(wire)' \in Nat /\ Acks(inbuf)' \in Nat
      /\ none' \in Nat /\ credit' \in Nat /\ Taken' \in {0, 1} /\ Waiting' \in {0, 1}
  <2>1. LinkType' /\ ProgType'
    BY <1>1 DEF TypeInv
  <2>2. Len(toDevice') \in Nat /\ Acks(wire') \in Nat /\ Acks(inbuf') \in Nat
    BY <2>1, LenProperties, AcksType DEF LinkType
  <2>. QED BY <2>1, <2>2 DEF ProgType, Taken, Waiting
<1>. SUFFICES Owed' <= credit' + Waiting'
  BY DEF OwedInv
<1>6. CASE Device
  <2>1. UNCHANGED <<inbuf, hpc, got>>
    BY <1>6, DeviceType DEF hostVars
  <2>2. credit' = credit /\ Waiting' = Waiting /\ Taken' = Taken
    BY <1>3, <2>1 DEF Meets, Waiting, Taken
  <2>3. Len(toDevice') + Acks(wire') = Len(toDevice) + Acks(wire)
    <3>1. CASE /\ toDevice # <<>> /\ toDevice' = Tail(toDevice)
               /\ \E a \in Sound : a.op # "GFRA" /\ wire' = Append(wire, a)
      <4>1. Len(toDevice') = Len(toDevice) - 1
        BY <1>2, <3>1, HeadTailProperties DEF LinkType
      <4>2. Acks(wire') = Acks(wire) + 1
        BY <1>2, <3>1, AcksAppend DEF LinkType
      <4>. QED BY <1>4, <4>1, <4>2
    <3>2. CASE /\ toDevice' = toDevice
               /\ wire' = wire \/ \E p \in Sound : p.op = "GFRA" /\ wire' = Append(wire, p)
      <4>1. CASE \E p \in Sound : p.op = "GFRA" /\ wire' = Append(wire, p)
        <5>1. PICK p \in Sound : p.op = "GFRA" /\ wire' = Append(wire, p)
          BY <4>1
        <5>2. Acks(Append(wire, p)) = Acks(wire)
          BY <1>2, <1>4, <5>1, AcksAppend DEF LinkType
        <5>. QED BY <3>2, <5>1, <5>2
      <4>. QED BY <3>2, <4>1
    <3>3. \/ /\ toDevice # <<>> /\ toDevice' = Tail(toDevice)
             /\ \E a \in Sound : a.op # "GFRA" /\ wire' = Append(wire, a)
          \/ /\ toDevice' = toDevice
             /\ wire' = wire \/ \E p \in Sound : p.op = "GFRA" /\ wire' = Append(wire, p)
      BY <1>6, DeviceLink
    <3>. QED BY <3>1, <3>2, <3>3
  <2>4. Acks(inbuf') = Acks(inbuf) /\ none' = none /\ Owed <= credit + Waiting
    BY <1>3, <2>1
  <2>. QED BY <1>4, <1>5, <2>2, <2>3, <2>4 DEF Owed
<1>7. CASE Drain
  <2>1. /\ UNCHANGED <<toDevice, wire, hpc, got>>
        /\ inbuf # <<>> /\ inbuf' = Tail(inbuf)
    BY <1>7 DEF Drain, hostVars
  <2>2. Acks(inbuf') <= Acks(inbuf)
    <3>1. Tail(inbuf) \in Seq(Sound)
      BY <1>2, <2>1, HeadTailProperties DEF LinkType
    <3>2. Acks(inbuf) = Acks(Tail(inbuf)) + (IF Head(inbuf).op = "GFRA" THEN 0 ELSE 1)
      BY <1>2, <2>1, AcksTail DEF LinkType
    <3>3. Acks(Tail(inbuf)) \in Nat
      BY <3>1, AcksType
    <3>4. Acks(Tail(inbuf)) <= Acks(inbuf)
      BY <3>2, <3>3
    <3>. QED BY ONLY <2>1, <3>4
  <2>3. credit' = credit /\ Waiting' = Waiting /\ Taken' = Taken
    BY <1>3, <2>1 DEF Meets, Waiting, Taken
  <2>. QED BY <1>3, <1>4, <1>5, <2>1, <2>2, <2>3 DEF Owed
<1>8. CASE GetAck
  <2>1. /\ hpc \in {"ack", "read"} /\ UNCHANGED <<toDevice, wire>>
        /\ \/ /\ hpc' = (IF hpc = "ack" THEN "ackAgain" ELSE "readAgain")
              /\ Acks(inbuf') <= Acks(inbuf)
           \/ /\ got' = Head(inbuf)
              /\ hpc' = IF hpc = "read" \/ Head(inbuf).op = cmd.op THEN "done" ELSE "mismatch"
              /\ Acks(inbuf') + (IF Head(inbuf).op = "GFRA" THEN 0 ELSE 1) <= Acks(inbuf)
    BY <1>8, GetAckLink
  <2>2. cmd.op # "GFRA" /\ (phase \in Taking => hpc = "read") /\ (phase \notin Taking => hpc = "ack")
    BY <1>2, <2>1 DEF HostType, Legal, Commands, Asking, Taking
  <2>3. Taken = 0 /\ Waiting = (IF hpc = "ack" THEN 1 ELSE 0)
    BY <2>1 DEF Taken, Waiting
  <2>4. CASE hpc' = (IF hpc = "ack" THEN "ackAgain" ELSE "readAgain") /\ Acks(inbuf') <= Acks(inbuf)
    <3>1. Taken' = 0 /\ Waiting' = Waiting /\ credit' = credit
      BY <1>3, <2>1, <2>3, <2>4 DEF Taken, Waiting, Meets
    <3>. QED BY <1>3, <1>4, <1>5, <2>1, <2>3, <2>4, <3>1 DEF Owed
  <2>5. CASE /\ got' = Head(inbuf)
             /\ hpc' = IF hpc = "read" \/ Head(inbuf).op = cmd.op THEN "done" ELSE "mismatch"
             /\ Acks(inbuf') + (IF Head(inbuf).op = "GFRA" THEN 0 ELSE 1) <= Acks(inbuf)
    <3>1. CASE hpc = "read"
      <4>1. credit' = credit /\ Waiting = 0 /\ Waiting' = 0
        BY <1>3, <2>3, <2>5, <3>1 DEF Waiting, Meets
      <4>2. Taken' = IF Head(inbuf).op = "GFRA" THEN 0 ELSE 1
        BY <1>3, <2>2, <2>5, <3>1 DEF Taken
      <4>. QED BY <1>3, <1>4, <1>5, <2>1, <2>3, <2>5, <4>1, <4>2 DEF Owed
    <3>2. CASE hpc = "ack"
      <4>1. Waiting = 1 /\ Waiting' = 0 /\ Taken' = 0
        BY <1>3, <2>2, <2>3, <2>5, <3>2 DEF Waiting, Taken
      <4>2. Head(inbuf).op = "GFRA" => credit' = credit + 1
        BY <1>3, <2>2, <2>5, <3>2 DEF Meets
      <4>3. Head(inbuf).op # "GFRA" => credit' = credit
        BY <1>3, <2>5 DEF Meets
      <4>. QED BY <1>3, <1>4, <1>5, <2>1, <2>3, <2>5, <4>1, <4>2, <4>3 DEF Owed
    <3>. QED BY <2>1, <3>1, <3>2
  <2>. QED BY <2>1, <2>4, <2>5
<1>9. CASE AckAgain \/ Resend
  <2>1. /\ wire' = wire /\ got' = got /\ inbuf' = <<>>
        /\ \/ /\ hpc \in {"ackAgain", "readAgain"} /\ toDevice' = toDevice
              /\ hpc' = IF hpc = "ackAgain" THEN "ack" ELSE "read"
           \/ hpc = "mismatch" /\ hpc' = "ack" /\ toDevice' = Append(toDevice, cmd)
    BY <1>9 DEF AckAgain, Resend
  <2>2. Taken = 0 /\ Taken' = 0 /\ credit' = credit
    BY <1>3, <2>1 DEF Taken, Meets
  <2>3. Acks(inbuf') = 0
    BY <2>1, AcksEmpty
  <2>4. Len(toDevice') + Waiting = Len(toDevice) + Waiting'
    <3>1. Len(Append(toDevice, cmd)) = Len(toDevice) + 1
      BY <1>2, AppendProperties DEF LinkType, HostType
    <3>. QED BY <1>4, <2>1, <3>1 DEF Waiting
  <2>. QED BY <1>3, <1>4, <1>5, <2>1, <2>2, <2>3, <2>4 DEF Owed
<1>10. CASE Arrive
  <2>1. /\ wire # <<>> /\ wire' = Tail(wire) /\ inbuf' = Append(inbuf, Head(wire))
        /\ UNCHANGED <<toDevice, hpc, got>>
    BY <1>10 DEF Arrive, hostVars
  <2>2. Acks(inbuf') + Acks(wire') = Acks(inbuf) + Acks(wire)
    <3>1. Head(wire) \in Sound /\ Tail(wire) \in Seq(Sound)
      BY <1>2, <2>1, HeadTailProperties DEF LinkType
    <3>2. Acks(wire) = Acks(Tail(wire)) + (IF Head(wire).op = "GFRA" THEN 0 ELSE 1)
      BY <1>2, <2>1, AcksTail DEF LinkType
    <3>3. Acks(Append(inbuf, Head(wire))) = Acks(inbuf) + (IF Head(wire).op = "GFRA" THEN 0 ELSE 1)
      BY <1>2, <3>1, AcksAppend DEF LinkType
    <3>4. Acks(Tail(wire)) \in Nat
      BY <3>1, AcksType
    <3>5. Acks(Append(inbuf, Head(wire))) + Acks(Tail(wire)) = Acks(inbuf) + Acks(wire)
      BY <1>4, <3>2, <3>3, <3>4
    <3>. QED BY ONLY <2>1, <3>5
  <2>3. credit' = credit /\ Waiting' = Waiting /\ Taken' = Taken
    BY <1>3, <2>1 DEF Meets, Waiting, Taken
  <2>4. Len(toDevice') = Len(toDevice) /\ none' = none /\ Owed <= credit + Waiting
    BY <1>3, <2>1
  <2>5. Owed = none + Len(toDevice) + (Acks(inbuf) + Acks(wire)) + Taken
    BY <1>4 DEF Owed
  <2>6. Owed' = none' + Len(toDevice') + (Acks(inbuf') + Acks(wire')) + Taken'
    BY <1>5 DEF Owed
  <2>7. Owed' = Owed
    BY <2>2, <2>3, <2>4, <2>5, <2>6
  <2>. QED BY <2>3, <2>4, <2>7
<1>. QED BY <1>6, <1>7, <1>8, <1>9, <1>10 DEF Link, Usb

\* A process that opens the camera owes what it finds; an ended one owes nothing.
LEMMA OwedProcess == TypeInv /\ OwedInv /\ (Open \/ Kill) => OwedInv'
<1> SUFFICES ASSUME TypeInv, Open, OwedInv PROVE OwedInv'
  BY DEF Kill, OwedInv
<1>1. /\ UNCHANGED <<toDevice, wire>> /\ inbuf' = <<>> /\ hpc' = "idle" /\ none' = 0
      /\ credit' = Len(toDevice) + Acks(wire)
  BY DEF Open
<1>2. Taken' = 0 /\ Waiting' = 0
  BY <1>1 DEF Taken, Waiting
<1>3. Acks(inbuf') = 0
  BY <1>1, AcksEmpty
<1>4. Len(toDevice) \in Nat /\ Acks(wire) \in Nat
  BY OwedType
<1>. QED BY <1>1, <1>2, <1>3, <1>4 DEF OwedInv, Owed

\* A command is owed one answer and waits for it; a callback counts what it has taken.
LEMMA OwedProgram == TypeInv /\ OwedInv /\ Program => OwedInv'
<1> SUFFICES ASSUME TypeInv, OwedInv, Program PROVE OwedInv'
  OBVIOUS
<1>1. /\ Len(toDevice) \in Nat /\ Acks(wire) \in Nat /\ Acks(inbuf) \in Nat
      /\ none \in Nat /\ credit \in Nat /\ Taken \in {0, 1} /\ Waiting \in {0, 1}
  BY OwedType
<1>2. LinkType /\ HostType /\ ProgType
  BY DEF TypeInv
<1>3. CASE Ask \/ Take
  <2>1. /\ UNCHANGED <<progVars, wire, inbuf, got>> /\ hpc = "idle"
        /\ \/ phase \in Asking /\ hpc' = "ack" /\ toDevice' = Append(toDevice, Access(phase))
           \/ hpc' = "read" /\ toDevice' = toDevice
    BY <1>3 DEF Ask, Take, Command, Read, linkVars
  <2>2. Taken = 0 /\ Taken' = 0 /\ Waiting = 0
    BY <2>1 DEF Taken, Waiting
  <2>3. Len(toDevice') = Len(toDevice) + Waiting'
    <3>1. CASE phase \in Asking /\ hpc' = "ack" /\ toDevice' = Append(toDevice, Access(phase))
      <4>1. Access(phase) \in Legal
        BY <1>2, <3>1, AccessLegal DEF ProgType
      <4>. QED BY <1>1, <1>2, <3>1, <4>1, AppendProperties DEF LinkType, Waiting
    <3>2. CASE hpc' = "read" /\ toDevice' = toDevice
      BY <1>1, <3>2 DEF Waiting
    <3>. QED BY <2>1, <3>1, <3>2
  <2>4. Waiting' \in {0, 1}
    BY DEF Waiting
  <2>5. Acks(wire') = Acks(wire) /\ Acks(inbuf') = Acks(inbuf)
    BY <2>1
  <2>6. none' = none /\ credit' = credit /\ phase' = phase
    BY <2>1 DEF progVars
  <2>7. phase \notin {"off", "failed"} =>
          none + Len(toDevice) + Acks(wire) + Acks(inbuf) + Taken <= credit + Waiting
    BY DEF OwedInv, Owed
  <2>8. phase' \notin {"off", "failed"} =>
          none' + Len(toDevice') + Acks(wire') + Acks(inbuf') + Taken' <= credit' + Waiting'
    <3>1. ASSUME none + Len(toDevice) + Acks(wire) + Acks(inbuf) + 0 <= credit + 0
          PROVE  none + (Len(toDevice) + Waiting') + Acks(wire) + Acks(inbuf) + 0 <= credit + Waiting'
      BY <1>1, <2>4, <3>1
    <3>. QED BY <2>2, <2>3, <2>5, <2>6, <2>7, <3>1
  <2>. QED BY <2>8 DEF OwedInv, Owed
<1>4. CASE Answer \/ Dumped \/ Callback
  <2>1. /\ UNCHANGED <<toDevice, wire, inbuf, credit>> /\ hpc = "done" /\ hpc' = "idle"
    BY <1>4, ReturnCases DEF linkVars
  <2>2. Waiting = 0 /\ Waiting' = 0 /\ Taken' = 0
    BY <2>1 DEF Waiting, Taken
  <2>3. phase \notin {"off", "failed"}
    BY <1>2, <2>1 DEF HostType, Asking, Taking
  <2>4. none' \in {none, none + Taken}
    <3>1. CASE Answer
      BY <3>1 DEF Answer, Return, AnswerBridge, AnswerPlain, AnswerFilter, AnswerMode,
           AnswerStopRead, AnswerStopWrite, AnswerStopPoll, AnswerType, AnswerStatus,
           AnswerBootMode, AnswerStart
    <3>2. CASE Dumped
      BY <3>2 DEF Dumped
    <3>3. CASE Callback
      BY <3>3 DEF Callback, Taken, Taking
    <3>. QED BY <1>4, <3>1, <3>2, <3>3
  <2>. QED BY <1>1, <2>1, <2>2, <2>3, <2>4 DEF OwedInv, Owed
<1>. QED BY <1>3, <1>4 DEF Program

\* Nothing is owed at first, and every step keeps the balance.
LEMMA OwedStep == TypeInv /\ OwedInv /\ [Next]_vars => OwedInv'
<1>1. OwedInv /\ UNCHANGED vars => OwedInv'
  BY DEF OwedInv, Owed, Taken, Waiting, Acks, vars, usbVars, linkVars, hostVars, progVars
<1>. QED BY <1>1, OwedLink, OwedProcess, OwedProgram DEF Next

\* Commands sent again never add up (usb_command's resends): the answers too many, those
\* the callbacks took for frames included, are no more than the frames that came where
\* an answer was expected and what the process before left over.
THEOREM ResendsBounded == Spec => []DesyncBounded
<1>1. Init => TypeInv /\ OwedInv
  BY TypeInit DEF Init, OwedInv
<1>2. TypeInv /\ OwedInv => DesyncBounded
  BY OwedType DEF OwedInv, DesyncBounded, Owed, Waiting, Outstanding
<1>3. Spec => [](TypeInv /\ OwedInv)
  BY <1>1, TypeStep, OwedStep, PTL DEF Spec
<1>. QED BY <1>2, <1>3, PTL
-----------------------------------------------------------------------------
(* A calm process gets the answers it asks for. *)

\* While no command waits for its answer, a calm link carries nothing but frames.
LEMMA CalmIdle ==
  ASSUME TypeInv, OwedInv, Calm, Waiting = 0
  PROVE  /\ toDevice = <<>> /\ Taken = 0
         /\ \A i \in DOMAIN wire : wire[i].op = "GFRA"
         /\ \A i \in DOMAIN inbuf : inbuf[i].op = "GFRA"
<1>1. /\ Len(toDevice) \in Nat /\ Acks(wire) \in Nat /\ Acks(inbuf) \in Nat
      /\ none \in Nat /\ Taken \in {0, 1}
  BY OwedType
<1>2. none + Len(toDevice) + Acks(wire) + Acks(inbuf) + Taken <= 0
  BY DEF OwedInv, Owed, Calm
<1>3. Len(toDevice) = 0 /\ Acks(wire) = 0 /\ Acks(inbuf) = 0 /\ Taken = 0
  BY <1>1, <1>2
<1>. QED BY <1>3, EmptySeq, AcksType DEF TypeInv, LinkType

\* The link never touches the register that tells whether there is a bridge.
LEMMA LinkBridge == TypeInv /\ Link => regs'["EVK_TEST"] = regs["EVK_TEST"]
<1> SUFFICES ASSUME TypeInv, Link PROVE regs'["EVK_TEST"] = regs["EVK_TEST"]
  OBVIOUS
<1>1. CameraType /\ LinkType
  BY DEF TypeInv
<1>2. CASE Execute
  <2> DEFINE c == Head(toDevice)
  <2>1. c \in Legal
    BY <1>1, <1>2, HeadTailProperties DEF LinkType, Execute
  <2>2. CASE c.op = "WREG" /\ c.reg # "FRAME_MODE"
    <3>1. regs' = [regs EXCEPT ![c.reg] = c.val,
                     !["STATUS"] = IF c.reg = "SENXOR_POWERUP" THEN BootingUp ELSE @]
      BY <1>2, <2>2 DEF Execute
    <3>2. c.reg \in Settable
      BY <2>1, <2>2 DEF Legal
    <3>. QED BY <1>1, <3>1, <3>2 DEF CameraType, Registers, Settable
  <2>3. CASE ~(c.op = "WREG" /\ c.reg # "FRAME_MODE")
    <3>1. regs' = regs \/ regs' = [regs EXCEPT !["FRAME_MODE"] = c.val]
      BY <1>2, <2>3 DEF Execute
    <3>. QED BY <1>1, <3>1 DEF CameraType, Registers
  <2>. QED BY <2>2, <2>3
<1>3. CASE Booted \/ SendHead \/ SendTail \/ Settle
  BY <1>1, <1>3 DEF Booted, SendHead, SendTail, Settle, CameraType, Registers
<1>4. CASE Usb \/ Arrive
  BY <1>4 DEF Usb, Drain, GetAck, AckAgain, Resend, Arrive, deviceVars
<1>. QED BY <1>2, <1>3, <1>4 DEF Link, Device

\* What happens on the link keeps it calm, or a command meets a frame.
LEMMA CalmLink == TypeInv /\ CalmInv /\ Link => CalmInv'
<1> SUFFICES ASSUME TypeInv, CalmInv, Link, Calm' PROVE CalmInv'
  BY DEF CalmInv
<1>1. LinkType /\ HostType /\ ProgType
  BY DEF TypeInv
<1>2. UNCHANGED <<phase, header, status>> /\ credit' = IF Meets THEN credit + 1 ELSE credit
  BY DEF Link
<1>3. Calm /\ ~Meets
  BY <1>1, <1>2 DEF Calm, ProgType
<1>4. /\ hpc # "mismatch" /\ phase # "dump" /\ status \in {0, BootingUp}
      /\ \A i \in DOMAIN toDevice : toDevice[i] = cmd
      /\ \A i \in DOMAIN wire : Mine(wire[i])
      /\ \A i \in DOMAIN inbuf : Mine(inbuf[i])
      /\ phase \in Asking /\ hpc = "done" => got.reg = cmd.reg
      /\ phase # "bridge" => header = (regs["EVK_TEST"] = 255)
  BY <1>3 DEF CalmInv
<1>5. /\ phase' # "dump" /\ status' \in {0, BootingUp}
      /\ phase' # "bridge" => header' = (regs'["EVK_TEST"] = 255)
  BY <1>2, <1>4, LinkBridge
<1>6. cmd' = cmd
  BY DEF Link, Device, Execute, Booted, SendHead, SendTail, Settle, Usb, Drain, GetAck,
         AckAgain, Resend, Arrive, hostVars
<1>7. SUFFICES /\ hpc' # "mismatch"
               /\ \A i \in DOMAIN toDevice' : toDevice'[i] = cmd
               /\ \A i \in DOMAIN wire' : Mine(wire'[i])
               /\ \A i \in DOMAIN inbuf' : Mine(inbuf'[i])
               /\ phase \in Asking /\ hpc' = "done" => got'.reg = cmd.reg
  BY <1>2, <1>5, <1>6 DEF CalmInv, Mine
<1>8. CASE Device
  <2>1. UNCHANGED <<inbuf, hpc, got>>
    BY <1>8, DeviceType DEF hostVars
  <2>2. CASE /\ toDevice # <<>> /\ toDevice' = Tail(toDevice)
             /\ \E a \in Sound : /\ a.op = Head(toDevice).op /\ a.reg = Head(toDevice).reg
                                 /\ wire' = Append(wire, a)
    <3>1. \A i \in DOMAIN toDevice' : toDevice'[i] = cmd
      <4>1. \A i \in DOMAIN Tail(toDevice) : \E j \in DOMAIN toDevice : Tail(toDevice)[i] = toDevice[j]
        BY <1>1, <2>2, InTail DEF LinkType
      <4>2. \A i \in DOMAIN Tail(toDevice) : Tail(toDevice)[i] = cmd
        BY <1>4, <4>1
      <4>. QED BY ONLY <2>2, <4>2
    <3>2. Head(toDevice) = cmd
      <4>1. Head(toDevice) = toDevice[1] /\ 1 \in DOMAIN toDevice
        <5>1. Len(toDevice) \in Nat /\ Len(toDevice) # 0 /\ DOMAIN toDevice = 1..Len(toDevice)
          BY <1>1, <2>2, EmptySeq, LenProperties DEF LinkType
        <5>. QED BY <1>1, <2>2, <5>1, HeadTailProperties DEF LinkType
      <4>. QED BY <1>4, <4>1
    <3>3. PICK a \in Sound : Mine(a) /\ wire' = Append(wire, a)
      BY <2>2, <3>2 DEF Mine
    <3>4. \A i \in DOMAIN Append(wire, a) : Mine(Append(wire, a)[i])
      <4>1. \A i \in DOMAIN Append(wire, a) : \/ Append(wire, a)[i] = a
                                              \/ i \in DOMAIN wire /\ Append(wire, a)[i] = wire[i]
        BY <1>1, InAppend DEF LinkType
      <4>. QED BY <1>4, <3>3, <4>1
    <3>5. \A i \in DOMAIN wire' : Mine(wire'[i])
      BY ONLY <3>3, <3>4
    <3>. QED BY <1>4, <2>1, <3>1, <3>5
  <2>3. CASE /\ toDevice' = toDevice
             /\ wire' = wire \/ \E p \in Sound : p.op = "GFRA" /\ wire' = Append(wire, p)
    <3>1. CASE wire' = wire
      BY <1>4, <2>1, <2>3, <3>1
    <3>2. CASE \E p \in Sound : p.op = "GFRA" /\ wire' = Append(wire, p)
      <4>1. PICK p \in Sound : p.op = "GFRA" /\ wire' = Append(wire, p)
        BY <3>2
      <4>2. \A i \in DOMAIN Append(wire, p) : \/ Append(wire, p)[i] = p
                                              \/ i \in DOMAIN wire /\ Append(wire, p)[i] = wire[i]
        BY <1>1, InAppend DEF LinkType
      <4>3. \A i \in DOMAIN Append(wire, p) : Mine(Append(wire, p)[i])
        BY <1>4, <4>1, <4>2 DEF Mine
      <4>4. \A i \in DOMAIN wire' : Mine(wire'[i])
        BY ONLY <4>1, <4>3
      <4>. QED BY <1>4, <2>1, <2>3, <4>4
    <3>. QED BY <2>3, <3>1, <3>2
  <2>4. \/ /\ toDevice # <<>> /\ toDevice' = Tail(toDevice)
           /\ \E a \in Sound : /\ a.op = Head(toDevice).op /\ a.reg = Head(toDevice).reg
                               /\ wire' = Append(wire, a)
        \/ /\ toDevice' = toDevice
           /\ wire' = wire \/ \E p \in Sound : p.op = "GFRA" /\ wire' = Append(wire, p)
    BY <1>8, DeviceLink
  <2>. QED BY <2>2, <2>3, <2>4
<1>9. CASE Drain
  <2>1. UNCHANGED <<toDevice, wire, hpc, got>> /\ inbuf # <<>> /\ inbuf' = Tail(inbuf)
    BY <1>9 DEF Drain, hostVars
  <2>2. \A i \in DOMAIN Tail(inbuf) : \E j \in DOMAIN inbuf : Tail(inbuf)[i] = inbuf[j]
    BY <1>1, <2>1, InTail DEF LinkType
  <2>3. \A i \in DOMAIN Tail(inbuf) : Mine(Tail(inbuf)[i])
    BY <1>4, <2>2
  <2>4. \A i \in DOMAIN inbuf' : Mine(inbuf'[i])
    BY ONLY <2>1, <2>3
  <2>. QED BY <1>4, <2>1, <2>4
<1>10. CASE GetAck
  <2>1. /\ inbuf # <<>> /\ Head(inbuf) \in Sound /\ hpc \in {"ack", "read"}
        /\ UNCHANGED <<toDevice, wire>>
        /\ \/ hpc' = (IF hpc = "ack" THEN "ackAgain" ELSE "readAgain")
           \/ /\ got' = Head(inbuf)
              /\ hpc' = IF hpc = "read" \/ Head(inbuf).op = cmd.op THEN "done" ELSE "mismatch"
        /\ \A i \in DOMAIN inbuf' : \E j \in DOMAIN inbuf : inbuf'[i] = inbuf[j]
    BY <1>10, GetAckLink
  <2>2. \A i \in DOMAIN inbuf' : Mine(inbuf'[i])
    BY <1>4, <2>1
  <2>3. Mine(Head(inbuf))
    <3>1. Head(inbuf) = inbuf[1] /\ 1 \in DOMAIN inbuf
      <4>1. Len(inbuf) \in Nat /\ Len(inbuf) # 0 /\ DOMAIN inbuf = 1..Len(inbuf)
        BY <1>1, <2>1, EmptySeq, LenProperties DEF LinkType
      <4>. QED BY <1>1, <2>1, <4>1, HeadTailProperties DEF LinkType
    <3>. QED BY <1>4, <3>1
  <2>4. cmd.op # "GFRA" /\ (phase \in Asking => hpc = "ack")
    BY <1>1, <2>1 DEF HostType, Legal, Commands
  <2>5. hpc' # "mismatch"
    BY <1>3, <2>1, <2>3 DEF Meets, Mine
  <2>6. phase \in Asking /\ hpc' = "done" => got'.reg = cmd.reg
    BY <2>1, <2>3, <2>4 DEF Mine
  <2>. QED BY <1>4, <2>1, <2>2, <2>5, <2>6
<1>11. CASE AckAgain \/ Resend
  <2>1. AckAgain
    BY <1>4, <1>11 DEF Resend
  <2>. QED BY <1>4, <2>1 DEF AckAgain
<1>12. CASE Arrive
  <2>1. /\ wire # <<>> /\ wire' = Tail(wire) /\ inbuf' = Append(inbuf, Head(wire))
        /\ UNCHANGED <<toDevice, hpc, got>>
    BY <1>12 DEF Arrive, hostVars
  <2>2. \A i \in DOMAIN wire' : Mine(wire'[i])
    <3>1. \A i \in DOMAIN Tail(wire) : \E j \in DOMAIN wire : Tail(wire)[i] = wire[j]
      BY <1>1, <2>1, InTail DEF LinkType
    <3>2. \A i \in DOMAIN Tail(wire) : Mine(Tail(wire)[i])
      BY <1>4, <3>1
    <3>. QED BY ONLY <2>1, <3>2
  <2>3. Mine(Head(wire)) /\ Head(wire) \in Sound
    <3>1. Head(wire) = wire[1] /\ 1 \in DOMAIN wire /\ Head(wire) \in Sound
      <4>1. Len(wire) \in Nat /\ Len(wire) # 0 /\ DOMAIN wire = 1..Len(wire)
        BY <1>1, <2>1, EmptySeq, LenProperties DEF LinkType
      <4>. QED BY <1>1, <2>1, <4>1, HeadTailProperties DEF LinkType
    <3>. QED BY <1>4, <3>1
  <2>4. \A i \in DOMAIN inbuf' : Mine(inbuf'[i])
    <3>1. \A i \in DOMAIN Append(inbuf, Head(wire)) :
            \/ Append(inbuf, Head(wire))[i] = Head(wire)
            \/ i \in DOMAIN inbuf /\ Append(inbuf, Head(wire))[i] = inbuf[i]
      BY <1>1, <2>3, InAppend DEF LinkType
    <3>2. \A i \in DOMAIN Append(inbuf, Head(wire)) : Mine(Append(inbuf, Head(wire))[i])
      BY <1>4, <2>3, <3>1
    <3>. QED BY ONLY <2>1, <3>2
  <2>. QED BY <1>4, <2>1, <2>2, <2>4
<1>. QED BY <1>8, <1>9, <1>10, <1>11, <1>12 DEF Link, Usb
\* The answer the program works with, and what a calm one says.
LEMMA AnswerIs ==
  ASSUME TypeInv, Answer
  PROVE  /\ Return /\ phase \in Asking /\ hpc = "done" /\ cmd = Access(phase)
         /\ got \in Sound /\ got.op = cmd.op /\ got.op # "GFRA" /\ got.val \in Bytes
         /\ CalmInv /\ Calm => got.reg = cmd.reg
<1>1. Return
  BY DEF Answer, AnswerBridge, AnswerPlain, AnswerFilter, AnswerMode, AnswerStopRead,
         AnswerStopWrite, AnswerStopPoll, AnswerType, AnswerStatus, AnswerBootMode, AnswerStart
<1>2. phase \in Asking /\ hpc = "done"
  BY <1>1 DEF Return
<1>3. /\ cmd = Access(phase) /\ got \in Sound /\ got.op = cmd.op /\ cmd.op # "GFRA"
  BY <1>2 DEF TypeInv, HostType, Legal, Commands
<1>4. got.val \in Bytes
  BY <1>3 DEF Sound
<1>. QED BY <1>1, <1>2, <1>3, <1>4 DEF CalmInv

\* A camera that is not booting lets error_handler go on to the settings.
LEMMA AfterStopCalm == status \in {0, BootingUp} => AfterStop(status) = "setRate"
BY DEF AfterStop, Flag, DataReady, SxifError, BootingUp

\* A calm process takes its answers for what they are: it knows whether there is a bridge,
\* finds nothing in the status that calls for a dump, and recognises the camera.
LEMMA CalmAnswer ==
  ASSUME TypeInv, CalmInv, Calm, Answer
  PROVE  /\ phase' \notin {"off", "failed", "dump", "bridge"} /\ status' \in {0, BootingUp}
         /\ header' = (regs["EVK_TEST"] = 255)
<1>1. /\ phase \in Asking /\ cmd = Access(phase) /\ got \in Sound /\ got.op = cmd.op
      /\ got.reg = cmd.reg
  BY AnswerIs
<1>2. /\ status \in {0, BootingUp} /\ AfterStop(status) = "setRate"
      /\ phase # "bridge" => header = (regs["EVK_TEST"] = 255)
  BY AfterStopCalm DEF CalmInv
<1>3. StopDone \in {"setRate", "type"}
  BY <1>2 DEF StopDone
<1>4. CASE AnswerBridge
  <2>1. cmd = R("EVK_TEST")
    BY <1>1, <1>4 DEF AnswerBridge, Access
  <2>2. got.val = regs["EVK_TEST"]
    BY <1>1, <2>1 DEF R, Sound
  <2>. QED BY <1>2, <1>4, <2>2 DEF AnswerBridge
<1>5. CASE AnswerType
  <2>1. cmd = R("SENXOR_TYPE")
    BY <1>1, <1>5 DEF AnswerType, Access
  <2>2. got.val = 1
    BY <1>1, <2>1 DEF R, Sound, TypeInv, CameraType
  <2>3. phase' = "version"
    BY <1>5, <2>2 DEF AnswerType, SenxorNames
  <2>. QED BY <1>2, <1>5, <2>3 DEF AnswerType
<1>6. CASE AnswerStatus
  <2>1. cmd = R("STATUS")
    BY <1>1, <1>6 DEF AnswerStatus, Access
  <2>2. got.val \in {0, BootingUp}
    BY <1>1, <2>1 DEF R, Sound
  <2>. QED BY <1>2, <1>6, <2>2 DEF AnswerStatus
<1>7. CASE AnswerPlain
  BY <1>2, <1>7 DEF AnswerPlain
<1>8. CASE AnswerFilter
  BY <1>2, <1>8 DEF AnswerFilter
<1>9. CASE AnswerMode
  BY <1>2, <1>9 DEF AnswerMode
<1>10. CASE AnswerStopRead
  BY <1>2, <1>10 DEF AnswerStopRead
<1>11. CASE AnswerStopWrite
  BY <1>2, <1>3, <1>11 DEF AnswerStopWrite
<1>12. CASE AnswerStopPoll
  BY <1>2, <1>3, <1>12 DEF AnswerStopPoll
<1>13. CASE AnswerBootMode
  BY <1>2, <1>13 DEF AnswerBootMode
<1>14. CASE AnswerStart
  BY <1>2, <1>14 DEF AnswerStart
<1>. QED BY <1>4, <1>5, <1>6, <1>7, <1>8, <1>9, <1>10, <1>11, <1>12, <1>13, <1>14 DEF Answer

\* So does the program: on an idle link, what it asks is all there is.
LEMMA CalmProgram == TypeInv /\ OwedInv /\ CalmInv /\ Program => CalmInv'
<1> SUFFICES ASSUME TypeInv, OwedInv, CalmInv, Program, Calm' PROVE CalmInv'
  BY DEF CalmInv
<1>1. LinkType /\ HostType /\ ProgType
  BY DEF TypeInv
<1>2. CASE Ask
  <2>1. /\ UNCHANGED <<progVars, wire, inbuf, deviceVars, got>> /\ hpc = "idle"
        /\ phase \in Asking /\ hpc' = "ack" /\ cmd' = Access(phase)
        /\ toDevice' = Append(toDevice, Access(phase))
    BY <1>2 DEF Ask, Command
  <2>2. Calm
    BY <2>1 DEF Calm, progVars
  <2>3. /\ toDevice = <<>> /\ \A i \in DOMAIN wire : wire[i].op = "GFRA"
        /\ \A i \in DOMAIN inbuf : inbuf[i].op = "GFRA"
    BY <2>1, <2>2, CalmIdle DEF Waiting
  <2>4. \A i \in DOMAIN toDevice' : toDevice'[i] = cmd'
    <3>1. Append(toDevice, Access(phase)) = <<Access(phase)>>
      BY <2>3
    <3>. QED BY <2>1, <3>1
  <2>5. (\A i \in DOMAIN wire' : Mine(wire[i])') /\ (\A i \in DOMAIN inbuf' : Mine(inbuf[i])')
    BY <2>1, <2>3 DEF Mine
  <2>6. /\ phase # "dump" /\ status \in {0, BootingUp}
        /\ phase # "bridge" => header = (regs["EVK_TEST"] = 255)
    BY <2>2 DEF CalmInv
  <2>. QED BY <2>1, <2>4, <2>5, <2>6 DEF CalmInv, progVars, deviceVars
<1>3. CASE Take
  <2>1. UNCHANGED <<progVars, linkVars, deviceVars, cmd, got>> /\ hpc' = "read"
    BY <1>3 DEF Take, Read
  <2>2. Calm
    BY <2>1 DEF Calm, progVars
  <2>. QED BY <2>1, <2>2 DEF CalmInv, Mine, progVars, linkVars, deviceVars
<1>4. CASE Answer \/ Dumped \/ Callback
  <2>1. /\ UNCHANGED <<linkVars, deviceVars, cmd, credit>> /\ hpc = "done" /\ hpc' = "idle"
    BY <1>4, ReturnCases
  <2>2. Calm
    BY <1>1, <2>1 DEF Calm, HostType, Asking, Taking
  <2>3. /\ phase' # "dump" /\ status' \in {0, BootingUp}
        /\ phase' # "bridge" => header' = (regs["EVK_TEST"] = 255)
    <3>1. CASE Answer
      BY <2>2, <3>1, CalmAnswer
    <3>2. ~Dumped
      BY <2>2 DEF CalmInv, Dumped
    <3>3. CASE Callback
      <4>1. phase = "reading" /\ phase' = "reading" /\ UNCHANGED <<header, status>>
        BY <3>3 DEF Callback, Calm
      <4>. QED BY <2>2, <4>1 DEF CalmInv
    <3>. QED BY <1>4, <3>1, <3>2, <3>3
  <2>4. /\ \A i \in DOMAIN toDevice : toDevice[i] = cmd
        /\ \A i \in DOMAIN wire : Mine(wire[i])
        /\ \A i \in DOMAIN inbuf : Mine(inbuf[i])
    BY <2>2 DEF CalmInv
  <2>. QED BY <2>1, <2>3, <2>4 DEF CalmInv, Mine, linkVars, deviceVars
<1>. QED BY <1>2, <1>3, <1>4 DEF Program

\* A process that finds nothing left over is calm.
LEMMA CalmProcess == TypeInv /\ (Open \/ Kill) => CalmInv'
<1> SUFFICES ASSUME TypeInv, Open, Calm' PROVE CalmInv'
  BY DEF CalmInv, Calm, Kill
<1>1. /\ UNCHANGED <<toDevice, wire>> /\ inbuf' = <<>> /\ hpc' = "idle" /\ phase' = "bridge"
      /\ status' = 0 /\ credit' = Len(toDevice) + Acks(wire)
  BY DEF Open
<1>2. Len(toDevice) \in Nat /\ Acks(wire) \in Nat
  BY OwedType
<1>3. Len(toDevice) = 0 /\ Acks(wire) = 0
  BY <1>1, <1>2 DEF Calm
<1>4. toDevice = <<>> /\ \A i \in DOMAIN wire : wire[i].op = "GFRA"
  BY <1>3, EmptySeq, AcksType DEF TypeInv, LinkType
<1>5. /\ \A i \in DOMAIN toDevice' : toDevice'[i] = cmd'
      /\ \A i \in DOMAIN wire' : Mine(wire[i])'
      /\ \A i \in DOMAIN inbuf' : Mine(inbuf[i])'
  BY <1>1, <1>4 DEF Mine
<1>. QED BY <1>1, <1>5 DEF CalmInv

\* Every step keeps a calm link calm.
LEMMA CalmStep == TypeInv /\ OwedInv /\ CalmInv /\ [Next]_vars => CalmInv'
<1>1. CalmInv /\ UNCHANGED vars => CalmInv'
  BY DEF CalmInv, Calm, Mine, vars, usbVars, linkVars, deviceVars, hostVars, progVars
<1>. QED BY <1>1, CalmLink, CalmProgram, CalmProcess DEF Next

\* No calm process on a camera with the bridge fails.
LEMMA NeverFailsStep ==
  TypeInv /\ CalmInv /\ NeverFails /\ [Next]_vars => NeverFails'
<1> SUFFICES ASSUME TypeInv, CalmInv, NeverFails, [Next]_vars,
                    credit' = 0, regs'["EVK_TEST"] = 255
             PROVE  phase' # "failed"
  BY DEF NeverFails
<1>1. HostType /\ ProgType
  BY DEF TypeInv
<1>2. CASE Link
  <2>1. credit = 0 /\ regs["EVK_TEST"] = 255 /\ phase' = phase
    BY <1>1, <1>2, LinkBridge DEF Link, ProgType
  <2>. QED BY <2>1 DEF NeverFails
<1>3. CASE Open \/ Kill
  BY <1>3 DEF Open, Kill
<1>4. CASE Ask \/ Take \/ UNCHANGED vars
  BY <1>4 DEF NeverFails, Ask, Take, Command, Read, vars, usbVars, deviceVars, progVars
<1>5. CASE Answer \/ Dumped \/ Callback
  <2>1. UNCHANGED <<deviceVars, credit>> /\ hpc = "done"
    BY <1>5, ReturnCases
  <2>2. Calm /\ regs["EVK_TEST"] = 255
    BY <1>1, <2>1 DEF Calm, HostType, Asking, Taking, deviceVars
  <2>3. CASE Answer
    BY <2>2, <2>3, CalmAnswer
  <2>4. ~Dumped
    BY <2>2 DEF CalmInv, Dumped
  <2>5. CASE Callback
    <3>1. header
      BY <2>2, <2>5 DEF CalmInv, Callback
    <3>. QED BY <2>5, <3>1 DEF Callback
  <2>. QED BY <1>5, <2>3, <2>4, <2>5
<1>. QED BY <1>2, <1>3, <1>4, <1>5 DEF Next, Program

\* As long as no command has met a frame and nothing was left over, every answer is of
\* the register that was asked for (USB_Interface.regread and regwrite).
THEOREM CalmAnswersMatch == Spec => []AnsweredAsAsked
<1>1. Init => TypeInv /\ OwedInv /\ CalmInv
  BY TypeInit DEF Init, OwedInv, CalmInv, Calm
<1>2. TypeInv /\ CalmInv => AnsweredAsAsked
  BY DEF TypeInv, HostType, CalmInv, Calm, AnsweredAsAsked, Asking
<1>3. Spec => [](TypeInv /\ OwedInv /\ CalmInv)
  BY <1>1, TypeStep, OwedStep, CalmStep, PTL DEF Spec
<1>. QED BY <1>2, <1>3, PTL

\* Then the constructor and the callback raise no exception on a camera with the bridge:
\* the type is one of SENXOR_NAME's, error_handler finds no frame to dump, and a frame's
\* header tells the sensor's temperature.
THEOREM CalmNeverFails == Spec => []NeverFails
<1>1. Init => TypeInv /\ OwedInv /\ CalmInv /\ NeverFails
  BY TypeInit DEF Init, OwedInv, CalmInv, Calm, NeverFails
<1>2. Spec => [](TypeInv /\ OwedInv /\ CalmInv /\ NeverFails)
  BY <1>1, TypeStep, OwedStep, CalmStep, NeverFailsStep, PTL DEF Spec
<1>. QED BY <1>2, PTL
-----------------------------------------------------------------------------
(* Whatever the answers are taken for, the camera ends up set. *)

\* What a command does to the registers the node sets.
LEMMA ExecuteSets ==
  ASSUME TypeInv, Execute, NEW c, c = Head(toDevice)
  PROVE  /\ c \in Legal /\ toDevice # <<>> /\ toDevice' = Tail(toDevice) /\ hpc' = hpc
         /\ \A r \in {"FRAME_RATE", "FILTER_CTRL"} :
              regs'[r] = IF c.op = "WREG" /\ c.reg = r THEN c.val ELSE regs[r]
         /\ c = Access("start") => regs'["FRAME_MODE"] = ContinuousStream /\ ~stopping'
         /\ ~ModeWrite(c) => regs'["FRAME_MODE"] = regs["FRAME_MODE"] /\ stopping' = stopping
<1>1. CameraType /\ LinkType
  BY DEF TypeInv
<1>2. toDevice # <<>> /\ toDevice' = Tail(toDevice) /\ hpc' = hpc
  BY DEF Execute, hostVars
<1>3. c \in Legal /\ c.op \in {"RREG", "WREG"} /\ c.reg \in Registers
      /\ (c.op = "WREG" => c.reg \in Settable)
  BY <1>1, <1>2, HeadTailProperties DEF LinkType, Legal, Commands
<1>4. CASE c.op = "RREG"
  <2>1. UNCHANGED <<regs, stopping>>
    BY <1>4 DEF Execute
  <2>2. c # Access("start")
    BY <1>4 DEF Access, W
  <2>. QED BY <1>2, <1>3, <1>4, <2>1, <2>2
<1>5. CASE c.op = "WREG" /\ c.reg = "FRAME_MODE"
  <2>1. ModeWrite(c)
    BY <1>5 DEF ModeWrite
  <2>2. \/ regs' = [regs EXCEPT !["FRAME_MODE"] = c.val] /\ stopping' = FALSE
        \/ ~Capturing(c.val) /\ UNCHANGED regs
    BY <1>5 DEF Execute
  <2>3. c = Access("start") => c.val = ContinuousStream /\ Capturing(c.val)
    BY DEF Access, W, ContinuousStream, Capturing
  <2>4. c = Access("start") => regs'["FRAME_MODE"] = ContinuousStream /\ ~stopping'
    BY <1>1, <2>2, <2>3 DEF CameraType, Registers
  <2>5. \A r \in {"FRAME_RATE", "FILTER_CTRL"} : regs'[r] = regs[r]
    BY <1>1, <2>2 DEF CameraType, Registers
  <2>. QED BY <1>2, <1>3, <1>5, <2>1, <2>4, <2>5
<1>6. CASE c.op = "WREG" /\ c.reg # "FRAME_MODE"
  <2>1. regs' = [regs EXCEPT ![c.reg] = c.val,
                   !["STATUS"] = IF c.reg = "SENXOR_POWERUP" THEN BootingUp ELSE @]
        /\ UNCHANGED stopping
    BY <1>6 DEF Execute
  <2>2. \A r \in {"FRAME_RATE", "FILTER_CTRL", "FRAME_MODE"} :
          regs'[r] = IF c.reg = r THEN c.val ELSE regs[r]
    BY <1>1, <1>3, <2>1 DEF CameraType, Registers
  <2>3. c # Access("start")
    BY <1>6 DEF Access, W
  <2>. QED BY <1>2, <1>3, <1>6, <2>1, <2>2, <2>3
<1>. QED BY <1>3, <1>4, <1>5, <1>6

\* The start of the stream leaves the queue in its turn.
LEMMA StartTaken ==
  ASSUME NEW q \in Seq(Legal), q # <<>>
  PROVE  /\ NoMode(q) => NoMode(Tail(q)) /\ ~ModeWrite(Head(q))
         /\ StartIsLast(q) => StartIsLast(Tail(q)) \/ (Head(q) = Access("start") /\ NoMode(Tail(q)))
<1>1. \A i \in DOMAIN Tail(q) : i \in Nat /\ i + 1 \in DOMAIN q /\ Tail(q)[i] = q[i + 1]
  BY InTail
<1>2. /\ Len(q) \in Nat /\ Len(q) > 0 /\ DOMAIN q = 1..Len(q) /\ Head(q) = q[1]
      /\ DOMAIN Tail(q) = 1..Len(q) - 1
  <2>1. Len(q) \in Nat /\ Len(q) # 0 /\ DOMAIN q = 1..Len(q)
    BY EmptySeq, LenProperties
  <2>2. Head(q) = q[1] /\ Len(Tail(q)) = Len(q) - 1 /\ Tail(q) \in Seq(Legal)
    BY HeadTailProperties
  <2>. QED BY <2>1, <2>2, LenProperties
<1>3. NoMode(q) => NoMode(Tail(q)) /\ ~ModeWrite(Head(q))
  BY <1>1, <1>2 DEF NoMode
<1>4. ASSUME StartIsLast(q)
      PROVE  StartIsLast(Tail(q)) \/ (Head(q) = Access("start") /\ NoMode(Tail(q)))
  <2>1. PICK i \in DOMAIN q :
          q[i] = Access("start") /\ \A j \in DOMAIN q : j > i => ~ModeWrite(q[j])
    BY <1>4 DEF StartIsLast
  <2>2. CASE i = 1
    <3>1. \A j \in DOMAIN Tail(q) : j + 1 \in DOMAIN q /\ j + 1 > i /\ Tail(q)[j] = q[j + 1]
      BY <1>1, <1>2, <2>2
    <3>. QED BY <1>2, <2>1, <2>2, <3>1 DEF NoMode
  <2>3. CASE i # 1
    <3>1. i - 1 \in DOMAIN Tail(q) /\ (i - 1) + 1 = i
      BY <1>2, <2>3
    <3>2. Tail(q)[i - 1] = Access("start")
      BY <1>1, <2>1, <3>1
    <3>3. \A j \in DOMAIN Tail(q) : j > i - 1 => ~ModeWrite(Tail(q)[j])
      <4>1. \A j \in DOMAIN Tail(q) : j > i - 1 =>
              j + 1 \in DOMAIN q /\ j + 1 > i /\ Tail(q)[j] = q[j + 1]
        BY <1>1, <1>2
      <4>. QED BY <2>1, <4>1
    <3>. QED BY <3>1, <3>2, <3>3 DEF StartIsLast
  <2>. QED BY <2>2, <2>3
<1>. QED BY <1>3, <1>4

\* What comes after it in the program.
LEMMA PhaseBefore ==
  ASSUME Answer \/ Dumped \/ Callback
  PROVE  /\ phase' = "offRead" => phase = "setRate"
         /\ phase' = "offWrite" => phase = "offRead" /\ memo' = got.val
         /\ phase' = "onRead" => phase = "offWrite"
         /\ phase' = "onWrite" => phase = "onRead" /\ memo' = got.val
         /\ phase' = "start" => phase = "onWrite"
         /\ phase' = "reading" => phase \in {"start", "reading"}
         /\ phase \in Filtering => phase' \in Filtering \cup {"failed"}
<1>1. StopDone \in {"setRate", "type", "dump", "failed"} /\ AfterStop(status) \in {"setRate", "dump", "failed"}
  BY DEF StopDone, AfterStop
<1>2. CASE AnswerBridge \/ AnswerMode \/ AnswerType \/ AnswerStatus
  BY <1>2 DEF Filtering, AnswerBridge, AnswerMode, AnswerType, AnswerStatus
<1>3. CASE AnswerPlain
  BY <1>3 DEF Filtering, AnswerPlain
<1>4. CASE AnswerFilter
  BY <1>4 DEF Filtering, AnswerFilter
<1>5. CASE AnswerStopRead \/ AnswerStopWrite \/ AnswerStopPoll
  BY <1>1, <1>5 DEF Filtering, AnswerStopRead, AnswerStopWrite, AnswerStopPoll
<1>6. CASE AnswerBootMode
  BY <1>1, <1>6 DEF Filtering, AnswerBootMode
<1>7. CASE AnswerStart
  BY <1>7 DEF Filtering, AnswerStart
<1>8. CASE Dumped \/ Callback
  BY <1>8 DEF Filtering, Dumped, Callback
<1>. QED BY <1>2, <1>3, <1>4, <1>5, <1>6, <1>7, <1>8 DEF Filtering, Answer

\* The host writes what the phase asks for, and nothing while it is idle.
LEMMA UsbWrites ==
  ASSUME TypeInv, Usb \/ Arrive
  PROVE  /\ hpc' # "idle" => hpc # "idle"
         /\ UNCHANGED deviceVars /\ (Usb => hpc # "done") /\ cmd' = cmd
         /\ \/ toDevice' = toDevice
            \/ /\ phase \in Asking /\ hpc = "mismatch" /\ cmd = Access(phase) /\ cmd \in Legal
               /\ toDevice' = Append(toDevice, cmd)
<1>1. CASE Drain \/ Arrive
  BY <1>1 DEF Drain, Arrive, hostVars, Usb, GetAck, AckAgain, Resend
<1>2. CASE GetAck \/ AckAgain
  BY <1>2 DEF GetAck, AckAgain
<1>3. CASE Resend
  <2>1. phase \in Asking /\ cmd = Access(phase) /\ cmd \in Legal
    BY <1>3 DEF Resend, TypeInv, HostType, Taking
  <2>. QED BY <1>3, <2>1 DEF Resend
<1>. QED BY <1>1, <1>2, <1>3 DEF Usb
\* The start of the stream is the last write of the mode, from when it is asked for.
LEMMA ModeStep == TypeInv /\ ModeInv /\ [Next]_vars => ModeInv'
<1> SUFFICES ASSUME TypeInv, ModeInv, [Next]_vars, Starting' PROVE ModeInv'
  BY DEF ModeInv
<1>1. CameraType /\ LinkType /\ HostType /\ ProgType
  BY DEF TypeInv
<1>2. ASSUME NEW q \in Seq(Legal), Access("start") \in Legal
      PROVE  StartIsLast(Append(q, Access("start")))
  <2>1. Len(q) \in Nat /\ DOMAIN q = 1..Len(q)
    BY LenProperties
  <2>2. /\ Len(q) + 1 \in DOMAIN Append(q, Access("start"))
        /\ Append(q, Access("start"))[Len(q) + 1] = Access("start")
        /\ \A i \in DOMAIN Append(q, Access("start")) : i = Len(q) + 1 \/ i \in DOMAIN q
    BY <1>2, InAppend
  <2>3. \A i \in DOMAIN Append(q, Access("start")) : ~(i > Len(q) + 1)
    BY <2>1, <2>2
  <2>. QED BY <2>2, <2>3 DEF StartIsLast
<1>3. CASE UNCHANGED <<phase, hpc, toDevice>> /\ UNCHANGED <<regs, stopping>>
  <2>1. Starting
    BY <1>3 DEF Starting
  <2>2. \/ StartIsLast(toDevice)
        \/ NoMode(toDevice) /\ regs["FRAME_MODE"] = ContinuousStream /\ ~stopping
    BY <2>1 DEF ModeInv
  <2>3. StartIsLast(toDevice)' = StartIsLast(toDevice) /\ NoMode(toDevice)' = NoMode(toDevice)
    BY <1>3 DEF StartIsLast, NoMode, Access
  <2>. QED BY <1>3, <2>2, <2>3 DEF ModeInv
<1>4. CASE Link
  <2>1. phase' = phase
    BY <1>4 DEF Link
  <2>2. CASE Execute
    <3> DEFINE c == Head(toDevice)
    <3>1. /\ toDevice # <<>> /\ toDevice' = Tail(toDevice) /\ hpc' = hpc
          /\ c = Access("start") => regs'["FRAME_MODE"] = ContinuousStream /\ ~stopping'
          /\ ~ModeWrite(c) => regs'["FRAME_MODE"] = regs["FRAME_MODE"] /\ stopping' = stopping
      BY <2>2, ExecuteSets
    <3>2. Starting
      BY <2>1, <3>1 DEF Starting
    <3>3. /\ NoMode(toDevice) => NoMode(Tail(toDevice)) /\ ~ModeWrite(c)
          /\ StartIsLast(toDevice) => \/ StartIsLast(Tail(toDevice))
                                      \/ c = Access("start") /\ NoMode(Tail(toDevice))
      BY <1>1, <3>1, StartTaken DEF LinkType
    <3>4. StartIsLast(toDevice)' = StartIsLast(Tail(toDevice)) /\ NoMode(toDevice)' = NoMode(Tail(toDevice))
      BY <3>1 DEF StartIsLast, NoMode, Access
    <3>5. \/ StartIsLast(toDevice)
          \/ NoMode(toDevice) /\ regs["FRAME_MODE"] = ContinuousStream /\ ~stopping
      BY <3>2 DEF ModeInv
    <3>. HIDE DEF c
    <3>. QED BY <3>1, <3>3, <3>4, <3>5 DEF ModeInv
  <2>3. CASE Booted \/ SendHead \/ SendTail \/ Settle
    <3>1. UNCHANGED <<toDevice, hpc>>
      BY <2>3 DEF Booted, SendHead, SendTail, Settle, hostVars, linkVars
    <3>2. Starting
      BY <2>1, <3>1 DEF Starting
    <3>3. StartIsLast(toDevice)' = StartIsLast(toDevice) /\ NoMode(toDevice)' = NoMode(toDevice)
      BY <3>1 DEF StartIsLast, NoMode, Access
    <3>4. ASSUME regs["FRAME_MODE"] = ContinuousStream, ~stopping
          PROVE  regs'["FRAME_MODE"] = ContinuousStream /\ ~stopping'
      <4>1. ~Flag(ContinuousStream, GetSingleFrame)
        BY DEF Flag, ContinuousStream, GetSingleFrame
      <4>2. CASE SendTail
        BY <1>1, <3>4, <4>1, <4>2 DEF SendTail, CameraType, Registers
      <4>3. CASE Booted \/ SendHead \/ Settle
        BY <1>1, <3>4, <4>3 DEF Booted, SendHead, Settle, CameraType, Registers
      <4>. QED BY <2>3, <4>2, <4>3
    <3>. QED BY <3>2, <3>3, <3>4 DEF ModeInv
  <2>4. CASE Usb \/ Arrive
    <3>1. /\ UNCHANGED <<regs, stopping>> /\ (hpc' # "idle" => hpc # "idle")
          /\ \/ toDevice' = toDevice
             \/ /\ phase \in Asking /\ cmd = Access(phase) /\ cmd \in Legal
                /\ toDevice' = Append(toDevice, cmd)
      BY <2>4, UsbWrites DEF deviceVars
    <3>2. Starting
      BY <2>1, <3>1 DEF Starting
    <3>3. CASE toDevice' = toDevice
      <4>1. StartIsLast(toDevice)' = StartIsLast(toDevice) /\ NoMode(toDevice)' = NoMode(toDevice)
        BY <3>3 DEF StartIsLast, NoMode, Access
      <4>. QED BY <3>1, <3>2, <4>1 DEF ModeInv
    <3>4. CASE /\ phase \in Asking /\ cmd = Access(phase) /\ cmd \in Legal
               /\ toDevice' = Append(toDevice, cmd)
      <4>1. phase = "start"
        BY <3>2, <3>4 DEF Starting, Asking
      <4>2. StartIsLast(Append(toDevice, Access("start")))
        BY <1>1, <1>2, <3>4, <4>1 DEF LinkType
      <4>3. StartIsLast(toDevice)' = StartIsLast(Append(toDevice, Access("start")))
        BY <3>4, <4>1 DEF StartIsLast, Access
      <4>. QED BY <4>2, <4>3 DEF ModeInv
    <3>. QED BY <3>1, <3>3, <3>4
  <2>. QED BY <1>4, <2>2, <2>3, <2>4 DEF Link, Device
<1>5. CASE Ask
  <2>1. /\ phase \in Asking /\ phase' = phase /\ toDevice' = Append(toDevice, Access(phase))
    BY <1>5 DEF Ask, Command, progVars
  <2>2. phase = "start"
    BY <2>1 DEF Starting, Asking
  <2>3. Access("start") \in Legal
    BY <1>1, <2>1, <2>2, AccessLegal DEF ProgType
  <2>4. StartIsLast(Append(toDevice, Access("start")))
    BY <1>1, <1>2, <2>3 DEF LinkType
  <2>5. StartIsLast(toDevice)' = StartIsLast(Append(toDevice, Access("start")))
    BY <2>1, <2>2 DEF StartIsLast, Access
  <2>. QED BY <2>4, <2>5 DEF ModeInv
<1>6. CASE Take \/ Answer \/ Dumped \/ Callback
  <2>1. UNCHANGED <<toDevice, regs, stopping>>
    <3>1. CASE Take
      BY <3>1 DEF Take, Read, linkVars, deviceVars
    <3>2. CASE Answer \/ Dumped \/ Callback
      BY <3>2, ReturnCases DEF linkVars, deviceVars
    <3>. QED BY <1>6, <3>1, <3>2
  <2>2. Starting
    <3>1. CASE Take
      BY <3>1 DEF Take, Read, progVars, Starting, Taking
    <3>2. CASE Answer \/ Dumped \/ Callback
      <4>1. hpc = "done" /\ hpc' = "idle"
        BY <3>2, ReturnCases
      <4>2. phase \in {"start", "reading"}
        BY <3>2, <4>1, PhaseBefore DEF Starting
      <4>. QED BY <4>1, <4>2 DEF Starting
    <3>. QED BY <1>6, <3>1, <3>2
  <2>3. StartIsLast(toDevice)' = StartIsLast(toDevice) /\ NoMode(toDevice)' = NoMode(toDevice)
    BY <2>1 DEF StartIsLast, NoMode, Access
  <2>. QED BY <2>1, <2>2, <2>3 DEF ModeInv
<1>7. ~Open /\ ~Kill
  BY DEF Open, Kill, Starting
<1>. QED BY <1>3, <1>4, <1>5, <1>6, <1>7
     DEF Next, Program, vars, usbVars, linkVars, deviceVars, hostVars, progVars

\* The rate is only ever set to one value, and no later phase is reached before it is asked for.
LEMMA RateStep == TypeInv /\ RateInv /\ [Next]_vars => RateInv'
<1> SUFFICES ASSUME TypeInv, RateInv, [Next]_vars, Rating' PROVE RateInv'
  BY DEF RateInv
<1>1. CameraType /\ LinkType /\ HostType /\ ProgType
  BY DEF TypeInv
<1>2. CASE Execute /\ Link
  <2> DEFINE c == Head(toDevice)
  <2>1. /\ c \in Legal /\ toDevice # <<>> /\ toDevice' = Tail(toDevice) /\ hpc' = hpc
        /\ regs'["FRAME_RATE"] = IF c.op = "WREG" /\ c.reg = "FRAME_RATE" THEN c.val
                                 ELSE regs["FRAME_RATE"]
    BY <1>2, ExecuteSets
  <2>2. Rating
    BY <1>2, <2>1 DEF Link, Rating
  <2>3. c.op = "WREG" /\ c.reg = "FRAME_RATE" => c.val = Divisor
    BY <2>1 DEF Legal
  <2>4. ASSUME NEW i \in DOMAIN toDevice, toDevice[i] = Access("setRate")
        PROVE  regs'["FRAME_RATE"] = Divisor \/ RateWrite(Tail(toDevice))
    <3>1. /\ Len(toDevice) \in Nat /\ DOMAIN toDevice = 1..Len(toDevice) /\ Head(toDevice) = toDevice[1]
          /\ DOMAIN Tail(toDevice) = 1..Len(toDevice) - 1
          /\ \A k \in 1..Len(toDevice) - 1 : Tail(toDevice)[k] = toDevice[k + 1]
      <4>1. Tail(toDevice) \in Seq(Legal) /\ Len(Tail(toDevice)) = Len(toDevice) - 1
        BY <1>1, <2>1, HeadTailProperties DEF LinkType
      <4>. QED BY <1>1, <2>1, <4>1, HeadTailProperties, LenProperties DEF LinkType
    <3>2. CASE i = 1
      <4>1. c = W("FRAME_RATE", Divisor)
        BY <2>4, <3>1, <3>2 DEF Access
      <4>. QED BY <2>1, <4>1 DEF W
    <3>3. CASE i # 1
      <4>1. i - 1 \in DOMAIN Tail(toDevice) /\ Tail(toDevice)[i - 1] = toDevice[i]
        BY <3>1, <3>3
      <4>. QED BY <2>4, <4>1 DEF RateWrite
    <3>. QED BY <3>2, <3>3
  <2>5. regs'["FRAME_RATE"] = Divisor \/ RateWrite(Tail(toDevice))
    <3>1. CASE regs["FRAME_RATE"] = Divisor
      BY <2>1, <2>3, <3>1
    <3>2. CASE RateWrite(toDevice)
      BY <2>4, <3>2 DEF RateWrite
    <3>. QED BY <2>2, <3>1, <3>2 DEF RateInv
  <2>6. RateWrite(toDevice)' = RateWrite(Tail(toDevice))
    BY <2>1 DEF RateWrite, Access, W
  <2>. QED BY <2>5, <2>6 DEF RateInv
<1>3. ASSUME UNCHANGED <<toDevice>>, regs'["FRAME_RATE"] = regs["FRAME_RATE"], Rating
      PROVE  RateInv'
  <2>1. RateWrite(toDevice)' = RateWrite(toDevice)
    BY <1>3 DEF RateWrite, Access, W
  <2>. QED BY <1>3, <2>1 DEF RateInv
<1>4. ASSUME phase \in Asking, toDevice' = Append(toDevice, Access(phase)), Access(phase) \in Legal,
             UNCHANGED <<phase, regs>>, phase = "setRate" \/ Rating
      PROVE  RateInv'
  <2>1. /\ \A i \in DOMAIN toDevice : /\ i \in DOMAIN Append(toDevice, Access(phase))
                                      /\ Append(toDevice, Access(phase))[i] = toDevice[i]
        /\ Len(toDevice) + 1 \in DOMAIN Append(toDevice, Access(phase))
        /\ Append(toDevice, Access(phase))[Len(toDevice) + 1] = Access(phase)
    BY <1>1, <1>4, InAppend DEF LinkType
  <2>2. regs["FRAME_RATE"] = Divisor \/ RateWrite(Append(toDevice, Access(phase)))
    <3>1. CASE phase = "setRate"
      BY <2>1, <3>1 DEF RateWrite
    <3>2. CASE Rating
      BY <2>1, <3>2 DEF RateInv, RateWrite
    <3>. QED BY <1>4, <3>1, <3>2
  <2>3. RateWrite(toDevice)' = RateWrite(Append(toDevice, Access(phase)))
    BY <1>4 DEF RateWrite, Access, W
  <2>. QED BY <1>4, <2>2, <2>3 DEF RateInv
<1>5. CASE Link /\ (Booted \/ SendHead \/ SendTail \/ Settle)
  <2>1. UNCHANGED <<toDevice, hpc, phase>>
    BY <1>5 DEF Link, Booted, SendHead, SendTail, Settle, hostVars, linkVars
  <2>2. regs'["FRAME_RATE"] = regs["FRAME_RATE"]
    BY <1>1, <1>5 DEF Booted, SendHead, SendTail, Settle, CameraType, Registers
  <2>. QED BY <1>3, <2>1, <2>2 DEF Rating
<1>6. CASE Link /\ (Usb \/ Arrive)
  <2>1. /\ UNCHANGED <<regs, stopping>> /\ (hpc' # "idle" => hpc # "idle")
        /\ \/ toDevice' = toDevice
           \/ /\ phase \in Asking /\ cmd = Access(phase) /\ cmd \in Legal
              /\ toDevice' = Append(toDevice, cmd)
    BY <1>6, UsbWrites DEF deviceVars
  <2>2. phase' = phase /\ Rating
    BY <1>6, <2>1 DEF Link, Rating
  <2>. QED BY <1>3, <1>4, <2>1, <2>2
<1>7. CASE Ask
  <2>1. /\ phase \in Asking /\ phase' = phase /\ toDevice' = Append(toDevice, Access(phase))
        /\ regs' = regs
    BY <1>7 DEF Ask, Command, progVars, deviceVars
  <2>2. phase = "setRate" \/ Rating
    BY <2>1 DEF Rating
  <2>3. Access(phase) \in Legal
    BY <1>1, <2>1, AccessLegal DEF ProgType
  <2>. QED BY <1>4, <2>1, <2>2, <2>3
<1>8. CASE Take \/ UNCHANGED vars
  <2>1. UNCHANGED <<toDevice, regs, phase>> /\ (hpc' = hpc \/ phase \in Taking)
    BY <1>8 DEF Take, Read, linkVars, deviceVars, progVars, vars, usbVars, hostVars
  <2>2. Rating
    BY <2>1 DEF Rating, Taking
  <2>. QED BY <1>3, <2>1, <2>2
<1>9. CASE Answer \/ Dumped \/ Callback
  <2>1. UNCHANGED <<toDevice, regs>> /\ hpc = "done" /\ hpc' = "idle"
    BY <1>9, ReturnCases DEF linkVars, deviceVars
  <2>2. Rating
    BY <1>9, <2>1, PhaseBefore DEF Rating
  <2>. QED BY <1>3, <2>1, <2>2
<1>10. ~Open /\ ~Kill
  BY DEF Open, Kill, Rating
<1>. QED BY <1>2, <1>5, <1>6, <1>7, <1>8, <1>9, <1>10 DEF Next, Program, Link, Device
\* The masks leave filter 1 on and the others off, and the other bits as they were.
LEMMA FilterMasks ==
  /\ \A v \in Bytes : FiltersOff(v) % 8 = 0 /\ ~Flag(FiltersOff(v), 64)
  /\ FiltersOff(36) = 32 /\ Filter1On(32) = 35
  /\ \A v \in Bytes : v % 8 = 0 /\ ~Flag(v, 64) =>
       Filter1On(v) % 8 = 3 /\ ~Flag(Filter1On(v), 64)
<1>1. \A v \in Bytes : FiltersOff(v) % 8 = 0 /\ ~Flag(FiltersOff(v), 64)
  BY SMTT(30) DEF FiltersOff, Flag, Bytes
<1>2. FiltersOff(36) = 32 /\ Filter1On(32) = 35
  BY SMTT(30) DEF FiltersOff, Filter1On, Flag
<1>3. \A v \in Bytes : v % 8 = 0 /\ ~Flag(v, 64) =>
        Filter1On(v) % 8 = 3 /\ ~Flag(Filter1On(v), 64)
  BY SMTT(30) DEF Filter1On, Flag, Bytes
<1>. QED BY <1>1, <1>2, <1>3

\* Until a process opens it, the camera is as it was at power-up.
LEMMA PowerUpStep == TypeInv /\ AtPowerUp /\ [Next]_vars => AtPowerUp'
<1> SUFFICES ASSUME TypeInv, AtPowerUp, [Next]_vars, opens' = 0
             PROVE  phase' = "off" /\ regs'["FILTER_CTRL"] = 36 /\ toDevice' = <<>>
  BY DEF AtPowerUp
<1>1. HostType /\ opens \in Nat
  BY OpensAssumption DEF TypeInv, ProgType
<1>2. opens = 0 /\ ~Open
  BY <1>1 DEF Next, Open, Kill, Program, Ask, Take, Answer, Return, AnswerBridge, AnswerPlain,
         AnswerFilter, AnswerMode, AnswerStopRead, AnswerStopWrite, AnswerStopPoll, AnswerType,
         AnswerStatus, AnswerBootMode, AnswerStart, Dumped, Callback, Link, vars, progVars
<1>3. phase = "off" /\ regs["FILTER_CTRL"] = 36 /\ toDevice = <<>> /\ hpc = "idle"
  BY <1>1, <1>2 DEF AtPowerUp, HostType, Asking, Taking
<1>4. CASE Link
  <2>1. phase' = phase /\ Device
    BY <1>3, <1>4 DEF Link, Usb, Drain, GetAck, AckAgain, Resend
  <2>2. toDevice' = toDevice /\ regs'["FILTER_CTRL"] = regs["FILTER_CTRL"]
    BY <1>3, <2>1, DeviceLink
  <2>. QED BY <1>3, <2>1, <2>2
<1>5. ~Kill /\ ~Ask /\ ~Take
  BY <1>3 DEF Kill, Ask, Take, Asking, Taking
<1>6. ~(Answer \/ Dumped \/ Callback)
  BY <1>3, ReturnCases
<1>7. CASE UNCHANGED vars
  BY <1>3, <1>7 DEF vars, usbVars, linkVars, deviceVars, progVars
<1>. QED BY <1>2, <1>4, <1>5, <1>6, <1>7 DEF Next, Program

\* On a calm link a command that waits to be executed is the phase's.
LEMMA CalmQueue ==
  ASSUME TypeInv, OwedInv, CalmInv, Calm, toDevice # <<>>
  PROVE  phase \in Asking /\ Head(toDevice) = Access(phase)
<1>1. hpc \in {"ack", "ackAgain"}
  BY CalmIdle DEF Waiting
<1>2. phase \in Asking /\ cmd = Access(phase)
  BY <1>1 DEF TypeInv, HostType, Taking
<1>3. Head(toDevice) = toDevice[1] /\ 1 \in DOMAIN toDevice
  <2>1. Len(toDevice) \in Nat /\ Len(toDevice) # 0 /\ DOMAIN toDevice = 1..Len(toDevice)
    BY EmptySeq, LenProperties DEF TypeInv, LinkType
  <2>. QED BY <2>1, HeadTailProperties DEF TypeInv, LinkType
<1>. QED BY <1>2, <1>3 DEF CalmInv

\* The link reads the register as it is, and a write sets it as the phase means.
LEMMA FilterLink ==
  TypeInv /\ OwedInv /\ CalmInv /\ FilterInv /\ Link /\ Calm'
    => FiltersRead(regs["FILTER_CTRL"])' /\ FiltersSet(regs["FILTER_CTRL"])'
<1> DEFINE f == regs["FILTER_CTRL"]
<1> SUFFICES ASSUME TypeInv, OwedInv, CalmInv, FilterInv, Link, Calm'
             PROVE  FiltersRead(f)' /\ FiltersSet(f)'
  OBVIOUS
<1>1. LinkType /\ HostType /\ ProgType
  BY DEF TypeInv
<1>2. UNCHANGED <<phase, opens, memo>>
  BY DEF Link
<1>3. Calm
  BY <1>1, <1>2 DEF Calm, ProgType, Link
<1>4. FiltersRead(f) /\ FiltersSet(f) /\ hpc # "mismatch"
  BY <1>3 DEF FilterInv, CalmInv
<1>5. CASE Execute
  <2> DEFINE c == Head(toDevice)
  <2>1. /\ toDevice # <<>> /\ hpc' = hpc /\ UNCHANGED <<inbuf, got>>
        /\ f' = IF c.op = "WREG" /\ c.reg = "FILTER_CTRL" THEN c.val ELSE f
    BY <1>5, ExecuteSets DEF Execute, hostVars
  <2>2. phase \in Asking /\ c = Access(phase)
    BY <1>3, <2>1, CalmQueue
  <2>3. PICK a \in Sound : (a.op = "RREG" => a.val = regs[a.reg]) /\ wire' = Append(wire, a)
    <3>1. Len(Tail(toDevice)) = Len(toDevice) - 1 /\ Len(toDevice) \in Nat
      BY <1>1, <2>1, HeadTailProperties, LenProperties DEF LinkType
    <3>2. toDevice' # toDevice /\ Device
      <4>1. Tail(toDevice) # toDevice
        BY <3>1
      <4>. QED BY <1>5, <2>1, <4>1, ExecuteSets DEF Device
    <3>. QED BY <3>2, DeviceLink
  <2>4. FiltersRead(f)'
    <3>1. CASE phase \in {"offRead", "onRead"}
      <4>1. c = R("FILTER_CTRL")
        BY <2>2, <3>1 DEF Access
      <4>2. f' = f
        BY <2>1, <4>1 DEF R
      <4>3. ReadAs(a, f)
        BY <2>3 DEF ReadAs
      <4>4. \A i \in DOMAIN Append(wire, a) : \/ Append(wire, a)[i] = a
                                              \/ i \in DOMAIN wire /\ Append(wire, a)[i] = wire[i]
        BY <1>1, <2>3, InAppend DEF LinkType
      <4>5. \A i \in DOMAIN Append(wire, a) : ReadAs(Append(wire, a)[i], f)
        BY <1>4, <3>1, <4>3, <4>4 DEF FiltersRead
      <4>. HIDE DEF f
      <4>6. \A i \in DOMAIN wire' : ReadAs(wire[i], f)'
        BY <2>3, <4>2, <4>5 DEF ReadAs
      <4>. QED BY <1>4, <2>1, <3>1, <4>2, <4>6 DEF FiltersRead, ReadAs
    <3>2. CASE phase \notin {"offRead", "onRead"}
      BY <1>2, <3>2 DEF FiltersRead
    <3>. QED BY <3>1, <3>2
  <2>5. FiltersSet(f)'
    <3>1. CASE phase = "offWrite"
      <4>1. c = W("FILTER_CTRL", FiltersOff(memo))
        BY <2>2, <3>1 DEF Access
      <4>2. f' = FiltersOff(memo) /\ memo \in Bytes
        BY <1>1, <2>1, <4>1 DEF W, ProgType
      <4>3. Off(f)'
        BY <1>2, <1>4, <3>1, <4>2, FilterMasks DEF Off, FiltersSet
      <4>. QED BY <1>2, <1>4, <3>1, <4>3 DEF FiltersSet, Filtering
    <3>2. CASE phase = "onWrite"
      <4>1. c = W("FILTER_CTRL", Filter1On(memo))
        BY <2>2, <3>2 DEF Access
      <4>2. f' = Filter1On(memo) /\ memo \in Bytes
        BY <1>1, <2>1, <4>1 DEF W, ProgType
      <4>3. Off(memo)
        BY <1>4, <3>2 DEF FiltersSet
      <4>4. On(f)'
        BY <1>2, <4>2, <4>3, FilterMasks DEF Off, On
      <4>5. Off(memo)'
        BY <1>2, <4>3 DEF Off
      <4>. QED BY <1>2, <1>4, <3>2, <4>4, <4>5 DEF FiltersSet, Filtering
    <3>3. CASE phase \notin {"offWrite", "onWrite"}
      <4>1. ~(c.op = "WREG" /\ c.reg = "FILTER_CTRL")
        BY <2>2, <3>3 DEF Access, R, W, Asking
      <4>2. f' = f
        BY <2>1, <4>1
      <4>. HIDE DEF f
      <4>. QED BY <1>2, <1>4, <3>3, <4>2 DEF FiltersSet, Off, On
    <3>. QED BY <3>1, <3>2, <3>3
  <2>. QED BY <2>4, <2>5
<1>6. CASE Booted \/ SendHead \/ SendTail \/ Settle
  <2>1. UNCHANGED <<toDevice, inbuf, hpc, got>>
    BY <1>6 DEF Booted, SendHead, SendTail, Settle, hostVars, linkVars
  <2>2. /\ f' = f
        /\ wire' = wire \/ \E p \in Sound : p.op = "GFRA" /\ wire' = Append(wire, p)
    <3>1. CASE Booted \/ Settle
      BY <1>1, <3>1 DEF Booted, Settle, linkVars, TypeInv, CameraType, Registers
    <3>2. CASE SendHead
      <4>1. Frame("head", frames + 1) \in Sound /\ Frame("head", frames + 1).op = "GFRA"
        BY DEF Frame, Sound, Pieces, TypeInv, CameraType, Registers
      <4>. QED BY <3>2, <4>1 DEF SendHead
    <3>3. CASE SendTail
      <4>1. \A part \in {"tail", "badTail"} :
              Frame(part, frames) \in Sound /\ Frame(part, frames).op = "GFRA"
        BY DEF Frame, Sound, Pieces, TypeInv, CameraType, Registers
      <4>2. \E part \in {"tail", "badTail"} : wire' = Append(wire, Frame(part, frames))
        BY <3>3 DEF SendTail
      <4>3. f' = f
        BY <3>3 DEF SendTail, TypeInv, CameraType, Registers
      <4>. QED BY <4>1, <4>2, <4>3
    <3>. QED BY <1>6, <3>1, <3>2, <3>3
  <2>3. phase \in {"offRead", "onRead"} => \A i \in DOMAIN wire' : ReadAs(wire'[i], f)
    <3> SUFFICES ASSUME phase \in {"offRead", "onRead"}
                 PROVE  \A i \in DOMAIN wire' : ReadAs(wire'[i], f)
      OBVIOUS
    <3>1. \A i \in DOMAIN wire : ReadAs(wire[i], f)
      BY <1>4 DEF FiltersRead
    <3>2. CASE wire' = wire
      BY <3>1, <3>2
    <3>3. CASE \E p \in Sound : p.op = "GFRA" /\ wire' = Append(wire, p)
      <4>1. PICK p \in Sound : p.op = "GFRA" /\ wire' = Append(wire, p)
        BY <3>3
      <4>2. \A i \in DOMAIN Append(wire, p) : \/ Append(wire, p)[i] = p
                                              \/ i \in DOMAIN wire /\ Append(wire, p)[i] = wire[i]
        BY <1>1, InAppend DEF LinkType
      <4>3. \A i \in DOMAIN Append(wire, p) : ReadAs(Append(wire, p)[i], f)
        BY <3>1, <4>1, <4>2 DEF ReadAs
      <4>. QED BY ONLY <4>1, <4>3
    <3>. QED BY <2>2, <3>2, <3>3
  <2>. HIDE DEF f
  <2>4. FiltersRead(f)'
    BY <1>2, <1>4, <2>1, <2>2, <2>3 DEF FiltersRead, ReadAs
  <2>5. FiltersSet(f)'
    BY <1>2, <1>4, <2>1, <2>2 DEF FiltersSet, Executed, Off, On
  <2>. QED BY <2>4, <2>5
<1>7. CASE Usb \/ Arrive
  <2>1. /\ regs' = regs /\ (hpc' # "idle" => hpc # "idle") /\ (Usb => hpc # "done")
        /\ toDevice' = toDevice
    BY <1>4, <1>7, UsbWrites DEF deviceVars
  <2>2. f' = f
    BY <2>1
  <2>3. FiltersSet(f)'
    <3>. HIDE DEF f
    <3>. QED BY <1>2, <1>4, <2>1, <2>2 DEF FiltersSet, Executed, Off, On
  <2>4. ASSUME phase \in {"offRead", "onRead"}
        PROVE  /\ \A i \in DOMAIN wire' : ReadAs(wire'[i], f)
               /\ \A i \in DOMAIN inbuf' : ReadAs(inbuf'[i], f)
               /\ hpc' = "done" => ReadAs(got', f)
    <3>1. /\ \A i \in DOMAIN wire : ReadAs(wire[i], f)
          /\ \A i \in DOMAIN inbuf : ReadAs(inbuf[i], f)
          /\ hpc = "done" => ReadAs(got, f)
      BY <1>4, <2>4 DEF FiltersRead
    <3>. HIDE DEF f
    <3>2. CASE GetAck
      <4>1. /\ inbuf # <<>> /\ UNCHANGED wire /\ hpc \in {"ack", "read"}
            /\ \/ hpc' = (IF hpc = "ack" THEN "ackAgain" ELSE "readAgain")
               \/ got' = Head(inbuf)
            /\ \A i \in DOMAIN inbuf' : \E j \in DOMAIN inbuf : inbuf'[i] = inbuf[j]
        BY <3>2, GetAckLink
      <4>2. Head(inbuf) = inbuf[1] /\ 1 \in DOMAIN inbuf
        <5>1. Len(inbuf) \in Nat /\ Len(inbuf) # 0 /\ DOMAIN inbuf = 1..Len(inbuf)
          BY <1>1, <4>1, EmptySeq, LenProperties DEF LinkType
        <5>. QED BY <1>1, <4>1, <5>1, HeadTailProperties DEF LinkType
      <4>3. hpc' = "done" => ReadAs(got', f)
        BY <3>1, <4>1, <4>2
      <4>4. \A i \in DOMAIN inbuf' : ReadAs(inbuf'[i], f)
        BY <3>1, <4>1
      <4>. QED BY <3>1, <4>1, <4>3, <4>4
    <3>3. CASE Drain
      <4>1. UNCHANGED <<wire, hpc, got>> /\ inbuf # <<>> /\ inbuf' = Tail(inbuf)
        BY <3>3 DEF Drain, hostVars
      <4>2. \A i \in DOMAIN Tail(inbuf) : \E j \in DOMAIN inbuf : Tail(inbuf)[i] = inbuf[j]
        BY <1>1, <4>1, InTail DEF LinkType
      <4>3. \A i \in DOMAIN Tail(inbuf) : ReadAs(Tail(inbuf)[i], f)
        BY <3>1, <4>2
      <4>4. \A i \in DOMAIN inbuf' : ReadAs(inbuf'[i], f)
        BY ONLY <4>1, <4>3
      <4>. QED BY <3>1, <4>1, <4>4
    <3>4. CASE AckAgain \/ Resend
      BY <1>4, <3>1, <3>4 DEF AckAgain, Resend
    <3>5. CASE Arrive
      <4>1. /\ wire # <<>> /\ wire' = Tail(wire) /\ inbuf' = Append(inbuf, Head(wire))
            /\ UNCHANGED <<hpc, got>>
        BY <3>5 DEF Arrive, hostVars
      <4>2. Head(wire) = wire[1] /\ 1 \in DOMAIN wire /\ Head(wire) \in Sound
        <5>1. Len(wire) \in Nat /\ Len(wire) # 0 /\ DOMAIN wire = 1..Len(wire)
          BY <1>1, <4>1, EmptySeq, LenProperties DEF LinkType
        <5>. QED BY <1>1, <4>1, <5>1, HeadTailProperties DEF LinkType
      <4>3. \A i \in DOMAIN Tail(wire) : ReadAs(Tail(wire)[i], f)
        <5>1. \A i \in DOMAIN Tail(wire) : \E j \in DOMAIN wire : Tail(wire)[i] = wire[j]
          BY <1>1, <4>1, InTail DEF LinkType
        <5>. QED BY <3>1, <5>1
      <4>4. \A i \in DOMAIN Append(inbuf, Head(wire)) : ReadAs(Append(inbuf, Head(wire))[i], f)
        <5>1. \A i \in DOMAIN Append(inbuf, Head(wire)) :
                \/ Append(inbuf, Head(wire))[i] = Head(wire)
                \/ i \in DOMAIN inbuf /\ Append(inbuf, Head(wire))[i] = inbuf[i]
          BY <1>1, <4>2, InAppend DEF LinkType
        <5>. QED BY <3>1, <4>2, <5>1
      <4>5. \A i \in DOMAIN wire' : ReadAs(wire'[i], f)
        BY ONLY <4>1, <4>3
      <4>6. \A i \in DOMAIN inbuf' : ReadAs(inbuf'[i], f)
        BY ONLY <4>1, <4>4
      <4>. QED BY <3>1, <4>1, <4>5, <4>6
    <3>. QED BY <1>7, <3>2, <3>3, <3>4, <3>5 DEF Usb
  <2>. HIDE DEF f
  <2>5. FiltersRead(f)'
    BY <1>2, <2>2, <2>4 DEF FiltersRead, ReadAs
  <2>. QED BY <2>3, <2>5
<1>. QED BY <1>5, <1>6, <1>7 DEF Link, Device
\* The program uses what it has read; what it writes next follows from it.
LEMMA FilterProgram ==
  TypeInv /\ OwedInv /\ CalmInv /\ FilterInv /\ Program /\ Calm'
    => FiltersRead(regs["FILTER_CTRL"])' /\ FiltersSet(regs["FILTER_CTRL"])'
<1> DEFINE f == regs["FILTER_CTRL"]
<1> SUFFICES ASSUME TypeInv, OwedInv, CalmInv, FilterInv, Program, Calm'
             PROVE  FiltersRead(f)' /\ FiltersSet(f)'
  OBVIOUS
<1>1. LinkType /\ HostType /\ ProgType
  BY DEF TypeInv
<1>2. CASE Ask
  <2>1. /\ UNCHANGED <<progVars, wire, inbuf, regs>> /\ hpc = "idle" /\ hpc' = "ack"
        /\ toDevice' = Append(toDevice, Access(phase)) /\ phase \in Asking
    BY <1>2 DEF Ask, Command, deviceVars
  <2>2. Calm
    BY <2>1 DEF Calm, progVars
  <2>3. /\ \A i \in DOMAIN wire : wire[i].op = "GFRA"
        /\ \A i \in DOMAIN inbuf : inbuf[i].op = "GFRA"
    BY <2>1, <2>2, CalmIdle DEF Waiting
  <2>4. toDevice' # <<>>
    <3>1. Access(phase) \in Legal
      BY <1>1, <2>1, AccessLegal DEF ProgType
    <3>2. Append(toDevice, Access(phase)) # <<>>
      <4>1. Len(Append(toDevice, Access(phase))) = Len(toDevice) + 1 /\ Len(toDevice) \in Nat
        BY <1>1, <3>1, AppendProperties, LenProperties DEF LinkType
      <4>2. Len(Append(toDevice, Access(phase))) # 0
        BY <4>1
      <4>. QED BY <4>2, EmptySeq
    <3>. QED BY ONLY <2>1, <3>2
  <2>5. FiltersSet(f) /\ f' = f
    BY <2>1, <2>2 DEF FilterInv
  <2>. HIDE DEF f
  <2>6. FiltersRead(f)'
    BY <2>1, <2>3 DEF FiltersRead, ReadAs
  <2>7. FiltersSet(f)'
    BY <2>1, <2>4, <2>5 DEF FiltersSet, Executed, Off, On, progVars
  <2>. QED BY <2>6, <2>7
<1>3. CASE Take
  <2>1. UNCHANGED <<progVars, regs>> /\ phase \in Taking
    BY <1>3 DEF Take, Read, deviceVars
  <2>2. Calm
    BY <2>1 DEF Calm, progVars
  <2>3. FiltersSet(f) /\ f' = f
    BY <2>1, <2>2 DEF FilterInv
  <2>4. phase \notin {"offRead", "offWrite", "onRead", "onWrite"}
    BY <2>1 DEF Taking
  <2>. HIDE DEF f
  <2>. QED BY <2>1, <2>3, <2>4 DEF FiltersRead, FiltersSet, Off, On, progVars
<1>4. CASE Answer \/ Dumped \/ Callback
  <2>1. UNCHANGED <<linkVars, regs, opens, credit>> /\ hpc = "done" /\ hpc' = "idle"
    BY <1>4, ReturnCases DEF deviceVars
  <2>2. Calm
    BY <1>1, <2>1 DEF Calm, HostType, Asking, Taking
  <2>3. FiltersRead(f) /\ FiltersSet(f) /\ f' = f
    BY <2>1, <2>2 DEF FilterInv
  <2>4. /\ toDevice = <<>> /\ \A i \in DOMAIN wire : wire[i].op = "GFRA"
        /\ \A i \in DOMAIN inbuf : inbuf[i].op = "GFRA"
    BY <2>1, <2>2, CalmIdle DEF Waiting
  <2>5. Executed /\ ~Executed'
    BY <2>1, <2>4 DEF Executed
  <2>6. /\ phase' = "offWrite" => phase = "offRead" /\ memo' = got.val
        /\ phase' = "onRead" => phase = "offWrite"
        /\ phase' = "onWrite" => phase = "onRead" /\ memo' = got.val
        /\ phase' = "start" => phase = "onWrite"
        /\ phase' = "reading" => phase \in {"start", "reading"}
        /\ phase \in Filtering => phase' \in Filtering \cup {"failed"}
    BY <1>4, PhaseBefore
  <2>7. phase \in {"offRead", "onRead"} => got.val = f
    <3> SUFFICES ASSUME phase \in {"offRead", "onRead"} PROVE got.val = f
      OBVIOUS
    <3>1. phase \in Asking
      BY DEF Asking
    <3>2. cmd = R("FILTER_CTRL") /\ got.op = cmd.op
      BY <1>1, <2>1, <3>1 DEF HostType, Access
    <3>3. got.reg = cmd.reg
      BY <2>1, <2>2, <3>1 DEF CalmInv
    <3>4. ReadAs(got, f)
      BY <2>1, <2>3 DEF FiltersRead
    <3>. QED BY <3>2, <3>3, <3>4 DEF R, ReadAs
  <2>8. phase' # "failed"
    BY DEF Calm
  <2>. HIDE DEF f
  <2>9. FiltersRead(f)'
    BY <2>1, <2>4 DEF FiltersRead, ReadAs, linkVars
  <2>10. FiltersSet(f)'
    <3>1. opens' = 1 /\ phase' \notin Filtering => f' = 36
      BY <2>1, <2>3, <2>6, <2>8 DEF FiltersSet
    <3>2. phase' = "offWrite" => (opens' = 1 => memo' = 36)
      BY <2>1, <2>3, <2>6, <2>7 DEF FiltersSet, Filtering
    <3>3. phase' = "onRead" => Off(f)'
      BY <2>1, <2>3, <2>5, <2>6 DEF FiltersSet, Off
    <3>4. phase' = "onWrite" => Off(memo)'
      BY <2>1, <2>3, <2>6, <2>7 DEF FiltersSet, Off
    <3>5. phase' \in {"start", "reading"} => On(f)'
      BY <2>1, <2>3, <2>5, <2>6 DEF FiltersSet, On
    <3>. QED BY <2>5, <3>1, <3>2, <3>3, <3>4, <3>5 DEF FiltersSet
  <2>. QED BY <2>9, <2>10
<1>. QED BY <1>2, <1>3, <1>4 DEF Program

\* Every step keeps the filters on their way.
LEMMA FilterStep == TypeInv /\ OwedInv /\ CalmInv /\ FilterInv /\ [Next]_vars => FilterInv'
<1> SUFFICES ASSUME TypeInv, OwedInv, CalmInv, FilterInv, [Next]_vars PROVE FilterInv'
  OBVIOUS
<1>1. AtPowerUp'
  BY PowerUpStep DEF FilterInv
<1>2. SUFFICES ASSUME Calm'
               PROVE  FiltersRead(regs["FILTER_CTRL"])' /\ FiltersSet(regs["FILTER_CTRL"])'
  BY <1>1 DEF FilterInv
<1>3. CASE Link
  BY <1>2, <1>3, FilterLink
<1>4. CASE Program
  BY <1>2, <1>4, FilterProgram
<1>5. CASE Open
  <2>1. phase' = "bridge" /\ opens' = opens + 1 /\ UNCHANGED regs
    BY <1>5 DEF Open, deviceVars
  <2>2. opens' = 1 => opens = 0
    BY <2>1, OpensAssumption DEF TypeInv, ProgType
  <2>3. opens' = 1 => regs'["FILTER_CTRL"] = 36
    BY <2>1, <2>2 DEF FilterInv, AtPowerUp
  <2>. QED BY <2>1, <2>3 DEF FiltersRead, FiltersSet
<1>6. ~Kill
  BY <1>2 DEF Kill, Calm
<1>7. CASE UNCHANGED vars
  <2>1. UNCHANGED <<usbVars, progVars>>
    BY <1>7 DEF vars
  <2>2. Calm
    BY <1>2, <2>1 DEF Calm, progVars
  <2>3. FiltersRead(regs["FILTER_CTRL"]) /\ FiltersSet(regs["FILTER_CTRL"])
    BY <2>2 DEF FilterInv
  <2>. QED BY <2>1, <2>3 DEF FiltersRead, FiltersSet, ReadAs, Executed, Off, On,
           usbVars, linkVars, deviceVars, hostVars, progVars
<1>. QED BY <1>3, <1>4, <1>5, <1>6, <1>7 DEF Next

\* However often commands were sent again, and whatever their answers were taken for, once
\* the camera has executed what was written it streams at the rate set, and a calm
\* process has turned filter 1 on and the others off.
THEOREM SettingsArrive == Spec => []SetUp
<1> DEFINE IInv == TypeInv /\ OwedInv /\ CalmInv /\ ModeInv /\ RateInv /\ FilterInv
<1>1. Init => IInv
  <2> SUFFICES ASSUME Init PROVE IInv
    OBVIOUS
  <2>1. phase = "off" /\ opens = 0 /\ toDevice = <<>> /\ regs["FILTER_CTRL"] = 36
    BY DEF Init, LinkInit, Registers
  <2>. QED BY <2>1, TypeInit
       DEF OwedInv, CalmInv, Calm, ModeInv, Starting, RateInv, Rating, FilterInv, AtPowerUp
<1>2. IInv /\ [Next]_vars => IInv'
  BY TypeStep, OwedStep, CalmStep, ModeStep, RateStep, FilterStep
<1>3. IInv => SetUp
  <2> SUFFICES ASSUME IInv, phase = "reading", toDevice = <<>>
               PROVE  /\ regs["FRAME_MODE"] = ContinuousStream /\ ~stopping
                      /\ regs["FRAME_RATE"] = Divisor
                      /\ credit = 0 => /\ regs["FILTER_CTRL"] % 8 = 3
                                       /\ ~Flag(regs["FILTER_CTRL"], 64)
                                       /\ opens = 1 => regs["FILTER_CTRL"] = 35
    BY DEF SetUp
  <2>1. DOMAIN toDevice = {}
    OBVIOUS
  <2>2. regs["FRAME_MODE"] = ContinuousStream /\ ~stopping
    BY <2>1 DEF ModeInv, Starting, StartIsLast
  <2>3. regs["FRAME_RATE"] = Divisor
    BY <2>1 DEF RateInv, Rating, RateWrite
  <2>4. credit = 0 => On(regs["FILTER_CTRL"])
    BY DEF FilterInv, Calm, FiltersSet
  <2>. QED BY <2>2, <2>3, <2>4 DEF On
<1>4. Spec => []IInv
  BY <1>1, <1>2, PTL DEF Spec
<1>. QED BY <1>3, <1>4, PTL
=============================================================================
