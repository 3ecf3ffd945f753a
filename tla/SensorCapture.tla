--------------------------- MODULE SensorCapture ---------------------------
(***************************************************************************)
(* The sensor half of the stereo camera: the grab thread of                *)
(* sl_oc::sensors::SensorCapture, the four last-value buffers it fills     *)
(* (IMU, magnetometer, environment, camera temperature), the sensor        *)
(* callback of StereoCameraPublisher that polls them and publishes, and    *)
(* the life of the object from initializeSensors to close.                 *)
(*                                                                         *)
(* A buffer is one C++ struct (valid, timestamp, readings) behind one      *)
(* mutex and one "new data" flag.  The getters return a REFERENCE to it:   *)
(* the caller copies the struct after the mutex is released, so the grab   *)
(* thread writes, and the callback reads, one field per step.              *)
(*                                                                         *)
(* Abstracted: the readings themselves (a field "data" that holds the      *)
(* stamp of the sample it came from), the scaling of the device clock      *)
(* (every sample advances it by one), the frame synchronisation block,     *)
(* and the ping.  Bounds: MaxSamples HID reports, PollLimit re-tests of a  *)
(* flag (20 and 10 in the code), one wall clock reading, Epoch.            *)
(***************************************************************************)
EXTENDS Integers, Sequences, FiniteSets

CONSTANTS
  Order,       \* the channels, in the order the grab loop and the callback visit them
  Callbacks,   \* executions of sensorCallback that may overlap (Reentrant group)
  MaxSamples,  \* HID reports the device delivers
  PollLimit,   \* re-tests of a new-data flag before a getter gives up
  Epoch        \* what getWallTimestamp returns

NotPresent == "NOT_PRESENT"
OldVal == "OLD_VAL"
NewVal == "NEW_VAL"
Status == {NotPresent, OldVal, NewVal}

AllChannels == {"imu", "mag", "env", "temp"}
Index == 1..Len(Order)
Channels == {Order[i] : i \in Index}

ASSUME OrderAssumption ==
  /\ Order \in Seq(AllChannels)
  /\ Len(Order) > 0
  /\ \A i, j \in Index : Order[i] = Order[j] => i = j
ASSUME CallbacksAssumption == Callbacks \cap {"free", "grab"} = {}
ASSUME BoundsAssumption ==
  /\ MaxSamples \in Nat /\ PollLimit \in Nat
  /\ Epoch \in Nat /\ Epoch > MaxSamples

VARIABLES
  main,      \* where the main thread is: constructor, spin, destructor
  handle,    \* mDevHandle is open
  stop,      \* mStopCapture
  gpc, gi,   \* the grab thread and the channel it is publishing
  sample,    \* what the report being processed says of each channel
  received,  \* reports received so far
  firstImu,  \* mFirstImuData
  startTs,   \* mStartSysTs
  relTs,     \* rel_mcu_ts
  box,       \* mLastIMUData, mLastMagData, mLastEnvData, mLastCamTempData
  new,       \* mNewIMUData, mNewMagData, mNewEnvData, mNewCamTempData
  mutex,     \* who holds mIMUMutex, mMagMutex, mEnvMutex, mCamTempMutex
  rpc, ri,   \* each running callback and the channel it is at
  tries,     \* time_count of the getter it is in
  got,       \* the struct it copies out of the returned reference
  msg,       \* imu_msg, mag_msg, ... : members of the node, shared by callbacks
  topic      \* what has been published on each channel's topics

grabVars == <<gpc, gi, sample, received, firstImu, startTs, relTs>>
nodeVars == <<rpc, ri, tries, got, msg, topic>>
vars == <<main, handle, stop, grabVars, box, new, mutex, nodeVars>>

CurrentTs == startTs + relTs

-----------------------------------------------------------------------------
(* What one HID report says.  A channel is "fresh" when the grab loop takes
   the branch that fills the whole buffer under the mutex; otherwise only
   its valid field is written (without the mutex).                         *)

Reports == [imuNotValid : BOOLEAN, magValid : 0..2, envValid : 0..2,
            tempCamLeft : BOOLEAN]

StatusOf(n) == IF n = 0 THEN NotPresent ELSE IF n = 1 THEN OldVal ELSE NewVal

Decode(rep) ==
  [c \in Channels |->
     CASE c = "imu"  -> [fresh |-> TRUE,
                         status |-> IF rep.imuNotValid THEN OldVal ELSE NewVal]
       [] c = "mag"  -> [fresh |-> rep.magValid = 2, status |-> StatusOf(rep.magValid)]
       [] c = "env"  -> [fresh |-> rep.envValid = 2, status |-> StatusOf(rep.envValid)]
       [] c = "temp" -> IF rep.tempCamLeft /\ rep.envValid = 2
                        THEN [fresh |-> TRUE, status |-> NewVal]
                        ELSE [fresh |-> FALSE, status |-> OldVal]]

NoReport == [c \in Channels |-> [fresh |-> FALSE, status |-> NotPresent]]

-----------------------------------------------------------------------------
Init ==
  /\ main = "ctor" /\ handle = FALSE /\ stop = FALSE
  /\ gpc = "none" /\ gi = 1 /\ sample = NoReport /\ received = 0
  /\ firstImu = TRUE /\ startTs = 0 /\ relTs = 0
  /\ box = [c \in Channels |-> [valid |-> NotPresent, stamp |-> 0, data |-> 0]]
  /\ new = [c \in Channels |-> FALSE]
  /\ mutex = [c \in Channels |-> "free"]
  /\ rpc = [r \in Callbacks |-> "idle"] /\ ri = [r \in Callbacks |-> 1]
  /\ tries = [r \in Callbacks |-> 0]
  /\ got = [r \in Callbacks |-> [valid |-> NotPresent, stamp |-> 0, data |-> 0]]
  /\ msg = [c \in Channels |-> [stamp |-> 0, data |-> 0]]
  /\ topic = [c \in Channels |-> <<>>]

-----------------------------------------------------------------------------
(* The main thread: the node's constructor, executor.spin(), ~SensorCapture. *)

\* initializeSensors: the device does not open, or it opens and the data
\* stream cannot be enabled, or the grab thread is created.  The node goes on
\* to spin in every case.
InitializeSensors ==
  /\ main = "ctor" /\ main' = "spin"
  /\ \/ UNCHANGED <<handle, gpc>>
     \/ handle' = TRUE /\ UNCHANGED gpc
     \/ handle' = TRUE /\ gpc' = "spawned"
  /\ UNCHANGED <<stop, gi, sample, received, firstImu, startTs, relTs,
                 box, new, mutex, nodeVars>>

\* The executor is told to stop: no callback starts any more.
Interrupt ==
  /\ main = "spin" /\ main' = "drain"
  /\ UNCHANGED <<handle, stop, grabVars, box, new, mutex, nodeVars>>

\* close(), first line: ask the grab thread to stop.
CloseRequest ==
  /\ main = "drain"
  /\ \A r \in Callbacks : rpc[r] = "idle"
  /\ main' = "join" /\ stop' = TRUE
  /\ UNCHANGED <<handle, grabVars, box, new, mutex, nodeVars>>

\* M: close() without the join
CloseFinishNoJoin ==
  /\ main = "join"
  /\ main' = "closed" /\ handle' = FALSE
  /\ UNCHANGED <<stop, grabVars, box, new, mutex, nodeVars>>

\* close() once the thread is not joinable or has been joined.
CloseFinish ==
  /\ main = "join"
  /\ gpc \in {"none", "done"}
  /\ main' = "closed" /\ handle' = FALSE
  /\ UNCHANGED <<stop, grabVars, box, new, mutex, nodeVars>>

\* The process has ended.
Terminated == main = "closed" /\ gpc \in {"none", "done"} /\ UNCHANGED vars

-----------------------------------------------------------------------------
(* The grab thread. *)

\* Prologue of grabThreadFunc: it clears the stop request, too.
GrabStart ==
  /\ gpc = "spawned" /\ gpc' = "loop"
  /\ stop' = FALSE
  /\ new' = [c \in Channels |-> FALSE]
  /\ firstImu' = TRUE /\ relTs' = 0
  /\ UNCHANGED <<main, handle, gi, sample, received, startTs, box, mutex,
                 nodeVars>>

\* M: the stop request is never looked at
GrabTestForever ==
  /\ gpc = "loop" /\ gpc' = "read"
  /\ UNCHANGED <<main, handle, stop, gi, sample, received, firstImu, startTs, relTs,
                 box, new, mutex, nodeVars>>

\* The test of the while loop.
GrabTest ==
  /\ gpc = "loop"
  /\ gpc' = IF stop THEN "done" ELSE "read"
  /\ UNCHANGED <<main, handle, stop, gi, sample, received, firstImu, startTs, relTs,
                 box, new, mutex, nodeVars>>

\* hid_read_timeout ran into its two seconds, failed, returned a short report
\* or one of another kind.
ReadNothing ==
  /\ gpc = "read" /\ gpc' = "loop"
  /\ UNCHANGED <<main, handle, stop, gi, sample, received, firstImu, startTs, relTs,
                 box, new, mutex, nodeVars>>

\* A report: the first valid IMU reading only starts the clock; any other
\* report, a not-valid one before the clock was started included, is published.
ReadReport ==
  /\ gpc = "read" /\ received < MaxSamples
  /\ received' = received + 1
  /\ \E rep \in Reports :
       \/ /\ firstImu /\ ~rep.imuNotValid
          /\ startTs' = Epoch /\ firstImu' = FALSE
          /\ gpc' = "loop"
          /\ UNCHANGED <<gi, sample, relTs>>
       \/ /\ ~firstImu \/ rep.imuNotValid
          /\ relTs' = relTs + 1
          /\ sample' = Decode(rep)
          /\ gpc' = "channel" /\ gi' = 1
          /\ UNCHANGED <<startTs, firstImu>>
  /\ UNCHANGED <<main, handle, stop, box, new, mutex, nodeVars>>

NextChannel == IF gi < Len(Order)
               THEN gpc' = "channel" /\ gi' = gi + 1
               ELSE gpc' = "loop" /\ gi' = gi

\* M: the buffer is filled without taking its mutex
PublishValidUnlocked ==
  LET c == Order[gi] IN
  /\ gpc = "channel" /\ sample[c].fresh
  /\ mutex' = [mutex EXCEPT ![c] = "grab"]
  /\ box' = [box EXCEPT ![c].valid = sample[c].status]
  /\ gpc' = "stamp"
  /\ UNCHANGED <<main, handle, stop, gi, sample, received, firstImu, startTs, relTs,
                 new, nodeVars>>

\* Take the buffer's mutex and write its first field.
PublishValid ==
  LET c == Order[gi] IN
  /\ gpc = "channel" /\ sample[c].fresh
  /\ mutex[c] = "free" /\ mutex' = [mutex EXCEPT ![c] = "grab"]
  /\ box' = [box EXCEPT ![c].valid = sample[c].status]
  /\ gpc' = "stamp"
  /\ UNCHANGED <<main, handle, stop, gi, sample, received, firstImu, startTs, relTs,
                 new, nodeVars>>

PublishStamp ==
  LET c == Order[gi] IN
  /\ gpc = "stamp" /\ gpc' = "data"
  /\ box' = [box EXCEPT ![c].stamp = CurrentTs]
  /\ UNCHANGED <<main, handle, stop, gi, sample, received, firstImu, startTs, relTs,
                 new, mutex, nodeVars>>

\* The readings, the new-data flag, and the mutex given back.
PublishData ==
  LET c == Order[gi] IN
  /\ gpc = "data"
  /\ box' = [box EXCEPT ![c].data = CurrentTs]
  /\ new' = [new EXCEPT ![c] = TRUE]
  /\ mutex' = [mutex EXCEPT ![c] = "free"]
  /\ NextChannel
  /\ UNCHANGED <<main, handle, stop, sample, received, firstImu, startTs, relTs,
                 nodeVars>>

\* The else branches: only the valid field, without the mutex and with the
\* new-data flag left as it is.
MarkStatus ==
  LET c == Order[gi] IN
  /\ gpc = "channel" /\ ~sample[c].fresh
  /\ box' = [box EXCEPT ![c].valid = sample[c].status]
  /\ NextChannel
  /\ UNCHANGED <<main, handle, stop, sample, received, firstImu, startTs, relTs,
                 new, mutex, nodeVars>>

-----------------------------------------------------------------------------
(* sensorCallback of the node, execution r, and the getter it calls for each
   channel.                                                                 *)

Goto(r, label) == rpc' = [rpc EXCEPT ![r] = label]

\* M: one channel too many
AdvanceTooFar(r) ==
  IF ri[r] <= Len(Order)
  THEN /\ Goto(r, "poll")
       /\ ri' = [ri EXCEPT ![r] = @ + 1]
       /\ tries' = [tries EXCEPT ![r] = PollLimit]
  ELSE Goto(r, "idle") /\ UNCHANGED <<ri, tries>>

\* On to the next channel, or to the end of the callback.
Advance(r) ==
  IF ri[r] < Len(Order)
  THEN /\ Goto(r, "poll")
       /\ ri' = [ri EXCEPT ![r] = @ + 1]
       /\ tries' = [tries EXCEPT ![r] = PollLimit]
  ELSE Goto(r, "idle") /\ UNCHANGED <<ri, tries>>

\* The 2 ms timer fires.
CallbackStart(r) ==
  /\ main = "spin" /\ rpc[r] = "idle"
  /\ Goto(r, "poll")
  /\ ri' = [ri EXCEPT ![r] = 1]
  /\ tries' = [tries EXCEPT ![r] = PollLimit]
  /\ UNCHANGED <<main, handle, stop, grabVars, box, new, mutex, got, msg, topic>>

\* M: the wait loop does not count
PollForever(r) ==
  /\ rpc[r] = "poll"
  /\ IF new[Order[ri[r]]] THEN Goto(r, "take") ELSE UNCHANGED rpc
  /\ UNCHANGED <<main, handle, stop, grabVars, box, new, mutex, ri, tries, got, msg,
                 topic>>

\* One test of the flag in the getter's wait loop.
Poll(r) ==
  /\ rpc[r] = "poll"
  /\ LET c == Order[ri[r]] IN
       \/ new[c] /\ Goto(r, "take") /\ UNCHANGED tries
       \/ ~new[c] /\ tries[r] = 0 /\ Goto(r, "expired") /\ UNCHANGED tries
       \/ /\ ~new[c] /\ tries[r] > 0 /\ UNCHANGED rpc
          /\ tries' = [tries EXCEPT ![r] = @ - 1]
  /\ UNCHANGED <<main, handle, stop, grabVars, box, new, mutex, ri, got, msg, topic>>

\* Out of time: look at the valid field ...
Expire(r) ==
  LET c == Order[ri[r]] IN
  /\ rpc[r] = "expired"
  /\ Goto(r, IF box[c].valid # NotPresent THEN "demote" ELSE "copyValid")
  /\ UNCHANGED <<main, handle, stop, grabVars, box, new, mutex, ri, tries, got, msg,
                 topic>>

\* M: a getter that ran out of time leaves the valid field alone
DemoteForgotten(r) ==
  /\ rpc[r] = "demote" /\ Goto(r, "copyValid")
  /\ UNCHANGED <<main, handle, stop, grabVars, box, new, mutex, ri, tries, got, msg,
                 topic>>

\* ... and mark the buffer old, without its mutex.
Demote(r) ==
  LET c == Order[ri[r]] IN
  /\ rpc[r] = "demote" /\ Goto(r, "copyValid")
  /\ box' = [box EXCEPT ![c].valid = OldVal]
  /\ UNCHANGED <<main, handle, stop, grabVars, new, mutex, ri, tries, got, msg, topic>>

\* lock_guard on the buffer's mutex ...
Lock(r) ==
  LET c == Order[ri[r]] IN
  /\ rpc[r] = "take" /\ Goto(r, "clear")
  /\ mutex[c] = "free" /\ mutex' = [mutex EXCEPT ![c] = r]
  /\ UNCHANGED <<main, handle, stop, grabVars, box, new, ri, tries, got, msg, topic>>

\* ... under which only the flag is cleared: the reference is returned and
\* the mutex released.
Clear(r) ==
  LET c == Order[ri[r]] IN
  /\ rpc[r] = "clear" /\ Goto(r, "copyValid")
  /\ new' = [new EXCEPT ![c] = FALSE]
  /\ mutex' = [mutex EXCEPT ![c] = "free"]
  /\ UNCHANGED <<main, handle, stop, grabVars, box, ri, tries, got, msg, topic>>

\* The copy of the struct, one field per step.
Copy(r, field, from, to) ==
  /\ rpc[r] = from /\ Goto(r, to)
  /\ got' = [got EXCEPT ![r] = [@ EXCEPT ![field] = box[Order[ri[r]]][field]]]
  /\ UNCHANGED <<main, handle, stop, grabVars, box, new, mutex, ri, tries, msg, topic>>

CopyValid(r) == Copy(r, "valid", "copyValid", "copyStamp")
CopyStamp(r) == Copy(r, "stamp", "copyStamp", "copyData")
CopyData(r) == Copy(r, "data", "copyData", "check")

\* Only a NEW_VAL copy is published.
Skip(r) ==
  /\ rpc[r] = "check" /\ got[r].valid # NewVal
  /\ Advance(r)
  /\ UNCHANGED <<main, handle, stop, grabVars, box, new, mutex, got, msg, topic>>

\* M: the message is stamped with the time it is made
FillStampNow(r) ==
  LET c == Order[ri[r]] IN
  /\ rpc[r] = "check" /\ got[r].valid = NewVal /\ Goto(r, "fill")
  /\ msg' = [msg EXCEPT ![c].stamp = CurrentTs]
  /\ UNCHANGED <<main, handle, stop, grabVars, box, new, mutex, ri, tries, got, topic>>

FillStamp(r) ==
  LET c == Order[ri[r]] IN
  /\ rpc[r] = "check" /\ got[r].valid = NewVal /\ Goto(r, "fill")
  /\ msg' = [msg EXCEPT ![c].stamp = got[r].stamp]
  /\ UNCHANGED <<main, handle, stop, grabVars, box, new, mutex, ri, tries, got, topic>>

FillData(r) ==
  LET c == Order[ri[r]] IN
  /\ rpc[r] = "fill" /\ Goto(r, "send")
  /\ msg' = [msg EXCEPT ![c].data = got[r].data]
  /\ UNCHANGED <<main, handle, stop, grabVars, box, new, mutex, ri, tries, got, topic>>

Send(r) ==
  LET c == Order[ri[r]] IN
  /\ rpc[r] = "send"
  /\ topic' = [topic EXCEPT ![c] = Append(@, msg[c])]
  /\ Advance(r)
  /\ UNCHANGED <<main, handle, stop, grabVars, box, new, mutex, got, msg>>

-----------------------------------------------------------------------------
Main == InitializeSensors \/ Interrupt \/ CloseRequest \/ CloseFinish
Grab == \/ GrabStart \/ GrabTest \/ ReadNothing \/ ReadReport
        \/ PublishValid \/ PublishStamp \/ PublishData \/ MarkStatus
Step(r) == \/ Poll(r) \/ Expire(r) \/ Demote(r) \/ Lock(r) \/ Clear(r)
           \/ CopyValid(r) \/ CopyStamp(r) \/ CopyData(r)
           \/ Skip(r) \/ FillStamp(r) \/ FillData(r) \/ Send(r)

Next == \/ Main \/ Terminated \/ Grab
        \/ \E r \in Callbacks : CallbackStart(r) \/ Step(r)

Spec == Init /\ [][Next]_vars

\* Threads that can run do run: the scheduler serves the grab thread, every
\* callback already started and a destructor that can go on; a getter waiting
\* for a mutex gets it, since the grab thread sleeps in hid_read_timeout
\* between two reports.
Fairness ==
  /\ WF_vars(Grab)
  /\ WF_vars(CloseRequest) /\ WF_vars(CloseFinish)
  /\ \A r \in Callbacks : WF_vars(Step(r)) /\ SF_vars(Lock(r))

FairSpec == Spec /\ Fairness

-----------------------------------------------------------------------------
(* Properties. *)

Reading == [valid : Status, stamp : Nat, data : Nat]

\* Every variable stays in its range.
TypeOK ==
  /\ main \in {"ctor", "spin", "drain", "join", "closed"}
  /\ handle \in BOOLEAN /\ stop \in BOOLEAN
  /\ gpc \in {"none", "spawned", "loop", "read", "channel", "stamp", "data", "done"}
  /\ gi \in Index
  /\ sample \in [Channels -> [fresh : BOOLEAN, status : Status]]
  /\ received \in 0..MaxSamples /\ relTs \in 0..received
  /\ firstImu \in BOOLEAN /\ startTs \in {0, Epoch}
  /\ box \in [Channels -> Reading]
  /\ new \in [Channels -> BOOLEAN]
  /\ mutex \in [Channels -> {"free", "grab"} \cup Callbacks]
  /\ rpc \in [Callbacks -> {"idle", "poll", "expired", "demote", "take", "clear",
                           "copyValid", "copyStamp", "copyData", "check", "fill",
                           "send"}]
  /\ ri \in [Callbacks -> Index]
  /\ tries \in [Callbacks -> 0..PollLimit]
  /\ got \in [Callbacks -> Reading]
  /\ msg \in [Channels -> [stamp : Nat, data : Nat]]
  /\ topic \in [Channels -> Seq([stamp : Nat, data : Nat])]

\* While the grab thread is alive the HID device it reads and pings is open:
\* close() and a start that failed half way included.
HandleOpenWhileGrabbing == gpc \notin {"none", "done"} => handle

\* Whenever a getter consumes the new-data flag, the buffer it hands out is
\* whole at that moment: stamp and readings are of one report, even with
\* overlapping callbacks.  This is what the mutex is for, and all it gives.
TakenWhole ==
  [][\A c \in Channels : new[c] /\ ~new'[c] => box[c].stamp = box[c].data]_vars

\* With one callback at a time, the stamps on each topic never run backwards
\* and never ahead of the buffer, although the copies are torn and getters
\* that ran out of time hand out the buffer as well.
Stamps(c) == [i \in DOMAIN topic[c] |-> topic[c][i].stamp]
Topics == INSTANCE LatestValueTopic WITH
            MayRepeat <- TRUE,
            newest <- [c \in Channels |-> box[c].stamp],
            topic <- [c \in Channels |-> Stamps(c)]
TopicsInOrder == Topics!Spec

\* With one callback at a time, one report is published at most three times:
\* while the grab thread is still filling it in, when its flag is set, and
\* when the next report has already made the old stamp valid again.
AtMostThrice ==
  \A c \in Channels : \A s \in {Stamps(c)[i] : i \in DOMAIN topic[c]} :
    Cardinality({i \in DOMAIN topic[c] : Stamps(c)[i] = s}) <= 3

\* A started sensorCallback comes to its end, whatever the grab thread does:
\* the executor's thread is never lost in a getter.
CallbackReturns == \A r \in Callbacks : (rpc[r] # "idle") ~> (rpc[r] = "idle")

\* Once the grab thread is past its prologue, close() returns, also in the
\* middle of a report or of a read that times out.
CloseReturnsOnceGrabbing ==
  (main = "join" /\ stop /\ gpc # "spawned") ~> (main = "closed")

\* sensorcapture.hpp: mNewMagData "Indicates if new  MAG data are available".
\* Refuted: a report without a magnetometer reading marks the unread one old
\* and leaves the flag set, so the getter returns it as OLD_VAL.
NewFlagMeansNewVal ==
  \A c \in Channels : new[c] /\ mutex[c] = "free" => box[c].valid = NewVal

=============================================================================
