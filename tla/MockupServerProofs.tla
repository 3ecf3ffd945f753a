------------------------ MODULE MockupServerProofs -------------------------
(***************************************************************************)
(* Theorems about MockupServer, for any finite set of clients, any length  *)
(* of the recording, and any number of requests, subscriptions and frames. *)
(***************************************************************************)
EXTENDS MockupServer, SequenceTheorems, FiniteSetTheorems, TLAPS

\* The types, part by part.
ServerType ==
  /\ serve \in {"run", "next", "push", "returned", "threw"}
  /\ current \in Clients \cup {Nobody} /\ open \in BOOLEAN /\ accepting \in BOOLEAN
  /\ stopped \in BOOLEAN /\ listed \subseteq Clients

ShutType ==
  /\ shut \in {"no", "loop", "join", "done"} /\ todo \subseteq listed
  /\ target \in Clients \cup {Nobody}

SocketType ==
  /\ link \in [Clients -> {"none", "up", "left", "gone"}]
  /\ out \in [Clients -> Seq(Responses)]
  /\ sock \in [Clients -> {"none", "open", "closed"}]

LifeType ==
  /\ life \in [Clients -> {"none", "alive", "joining", "dead"}]
  /\ by \in [Clients -> {Nobody, "serve", "shut", "ctx", "snd"}]
  /\ active \in [Clients -> BOOLEAN]
  /\ down \in {"no", "no replay to join", "dead object", "list race", "empty queue",
               "end of recording"}

SessionType ==
  /\ ctx \in [Clients -> {"none", "read", "send", "ended"}]
  /\ req \in [Clients -> Requests]
  /\ snd \in [Clients -> {"none", "loop", "recv", "wait", "woken", "write", "ended"}]
  /\ resp \in [Clients -> Responses] /\ queue \in [Clients -> Seq(Responses)]
  /\ handled \in [Clients -> Seq(Requests)]

ReplayType ==
  /\ subs \in [Clients -> 0..MaxReplays] /\ pos \in [Clients -> 1..Recorded + 1]
  /\ rep \in [Clients -> [Replays -> {"none", "test", "lock", "play", "forever", "ended"}]]
  /\ frame \in [Clients -> [Replays -> 0..Recorded]]
  /\ last \in [Clients -> [Replays -> 0..Recorded]]
  /\ played \in [Clients -> 0..MaxPlayed]

\* A subscription that is being handled is one of those still allowed.
RoomInv == \A s \in Clients : ctx[s] = "send" /\ req[s] = "subscribe" => subs[s] < MaxReplays

TypeInv == TypeOK /\ RoomInv

\* A client that has not connected has no session.
NewInv == \A s \in Clients : link[s] = "none" => snd[s] = "none"

\* The send thread sleeps on an empty queue, and is woken to one that is not.
WakeInv ==
  /\ \A s \in Clients : snd[s] = "wait" => queue[s] = <<>>
  /\ \A s \in Clients : snd[s] = "woken" => queue[s] # <<>>
  /\ down # "empty queue"

\* Nobody holds a reference to a session that is being destroyed, or was.
HeldAlive == \A s \in Clients : Held(s) => life[s] = "alive"

-----------------------------------------------------------------------------
(* Types. *)

\* The type invariant is its parts.
LEMMA TypeParts ==
  TypeOK <=> /\ ServerType /\ ShutType /\ SocketType /\ LifeType /\ SessionType /\ ReplayType
BY DEF TypeOK, ServerType, ShutType, SocketType, LifeType, SessionType, ReplayType

\* So it is after a step.
LEMMA TypePartsNext ==
  TypeOK' <=> /\ ServerType' /\ ShutType' /\ SocketType' /\ LifeType' /\ SessionType'
              /\ ReplayType'
BY DEF TypeOK, ServerType, ShutType, SocketType, LifeType, SessionType, ReplayType

\* Parts whose variables a step leaves alone keep their types.
LEMMA TypeKept ==
  /\ ServerType /\ UNCHANGED serverVars => ServerType'
  /\ ShutType /\ UNCHANGED <<shutVars, listed>> => ShutType'
  /\ SocketType /\ UNCHANGED <<link, out, sock>> => SocketType'
  /\ LifeType /\ UNCHANGED <<lifeVars, active, down>> => LifeType'
  /\ SessionType /\ UNCHANGED sessionVars => SessionType'
  /\ ReplayType /\ UNCHANGED replayVars => ReplayType'
  /\ RoomInv /\ UNCHANGED <<ctx, req, subs>> => RoomInv'
BY DEF ServerType, ShutType, SocketType, LifeType, SessionType, ReplayType, RoomInv,
       serverVars, shutVars, lifeVars, sessionVars, replayVars

\* Responses are the answers and the frames of the recording.
LEMMA ResponseType ==
  /\ \A r : AnswerTo(r) \in Responses
  /\ \A f \in 0..Recorded : Frame(f) \in Responses
  /\ \A k \in {"plain", "header", "frame"} : Answer(k) \in Responses
<1>1. Recorded \in Nat
  BY BoundsAssumption
<1>2. 0 \in 0..Recorded
  BY <1>1
<1>. QED BY <1>1, <1>2 DEF AnswerTo, Answer, Frame, Responses

\* A table of which one entry is replaced.
LEMMA EntryReplaced ==
  ASSUME NEW A, NEW B, NEW T, NEW f \in [A -> [B -> T]], NEW a \in A, NEW b \in B, NEW v \in T
  PROVE  /\ [f EXCEPT ![a][b] = v] \in [A -> [B -> T]]
         /\ [f EXCEPT ![a][b] = v][a][b] = v
         /\ \A x \in A, y \in B : x # a \/ y # b => [f EXCEPT ![a][b] = v][x][y] = f[x][y]
OBVIOUS

\* Letting a reference go keeps the types.
LEMMA LetGoType ==
  ASSUME LifeType, NEW s \in Clients, NEW who \in {"serve", "shut", "ctx", "snd"}, LetGo(s, who)
  PROVE  LifeType'
BY DEF LetGo, LifeType, lifeVars

\* The program starts with the types.
LEMMA TypeInit == Init => TypeInv
<1> SUFFICES ASSUME Init PROVE TypeInv
  OBVIOUS
<1>1. Recorded \in Nat /\ MaxReplays \in Nat /\ MaxPlayed \in Nat /\ 1 \in 1..Recorded + 1
      /\ 0 \in 0..Recorded
  BY BoundsAssumption
<1>2. ServerType /\ ShutType /\ LifeType
  <2>1. ServerType /\ ShutType
    BY DEF Init, ServerType, ShutType
  <2>2. LifeType
    BY DEF Init, LifeType
  <2>. QED BY <2>1, <2>2
<1>6. SocketType
  BY DEF Init, SocketType
<1>3. SessionType
  BY ResponseType DEF Init, SessionType, Requests
<1>4. ReplayType
  BY <1>1 DEF Init, ReplayType
<1>5. RoomInv
  BY DEF Init, RoomInv
<1>. QED BY <1>2, <1>3, <1>4, <1>5, <1>6, TypeParts DEF TypeInv

\* What the server and the threads that end a session do keeps the types.
LEMMA ServerStepType ==
  ASSUME TypeInv, Serve \/ CloseAcceptor \/ Shutdown
  PROVE  TypeInv'
<1>1. ServerType /\ ShutType /\ SocketType /\ LifeType /\ SessionType /\ ReplayType /\ RoomInv
  BY TypeParts DEF TypeInv
<1>2. ASSUME AcceptFails \/ AcceptNext \/ ServeEnds PROVE TypeInv'
  <2>1. ServerType' /\ ShutType'
    BY <1>1, <1>2 DEF AcceptFails, AcceptNext, ServeEnds, ServerType, ShutType, shutVars
  <2>2. UNCHANGED <<link, out, sock, lifeVars, sessionVars, replayVars, active, down>>
    BY <1>2 DEF AcceptFails, AcceptNext, ServeEnds
  <2>3. SocketType' /\ LifeType' /\ SessionType' /\ ReplayType' /\ RoomInv'
    BY <1>1, <2>2, TypeKept DEF lifeVars, sessionVars, replayVars
  <2>. QED BY <2>1, <2>3, TypePartsNext DEF TypeInv
<1>3. ASSUME NEW s \in Clients, Accept(s) PROVE TypeInv'
  <2>1. ServerType' /\ ShutType'
    BY <1>1, <1>3 DEF Accept, ServerType, ShutType, shutVars
  <2>2. SocketType' /\ LifeType'
    BY <1>1, <1>3 DEF Accept, SocketType, LifeType
  <2>3. SessionType'
    BY <1>1, <1>3 DEF Accept, SessionType
  <2>4. ReplayType'
    BY <1>1, <1>3, TypeKept DEF Accept
  <2>5. RoomInv'
    BY <1>1, <1>3 DEF Accept, RoomInv, SessionType, replayVars
  <2>. QED BY <2>1, <2>2, <2>3, <2>4, <2>5, TypePartsNext DEF TypeInv
<1>4. ASSUME NEW s \in Clients, PushBack(s) PROVE TypeInv'
  <2>1. ServerType' /\ ShutType'
    BY <1>1, <1>4 DEF PushBack, ServerType, ShutType, shutVars
  <2>2. SocketType' /\ SessionType' /\ ReplayType' /\ RoomInv'
    BY <1>1, <1>4, TypeKept DEF PushBack, sessionVars, replayVars
  <2>3. LifeType'
    <3>1. CASE shut \in {"loop", "join"}
      BY <1>1, <1>4, <3>1 DEF PushBack, LifeType, lifeVars
    <3>2. CASE shut \notin {"loop", "join"}
      BY <1>1, <1>4, <3>2, LetGoType DEF PushBack
    <3>. QED BY <3>1, <3>2
  <2>. QED BY <2>1, <2>2, <2>3, TypePartsNext DEF TypeInv
<1>5. ASSUME CloseAcceptor \/ StopIo PROVE TypeInv'
  <2>1. ServerType' /\ ShutType'
    BY <1>1, <1>5 DEF CloseAcceptor, StopIo, Elsewhere, ServerType, ShutType
  <2>2. UNCHANGED <<link, out, sock, lifeVars, sessionVars, replayVars, active, down>>
    BY <1>5 DEF CloseAcceptor, StopIo, Elsewhere
  <2>3. SocketType' /\ LifeType' /\ SessionType' /\ ReplayType' /\ RoomInv'
    BY <1>1, <2>2, TypeKept DEF lifeVars, sessionVars, replayVars
  <2>. QED BY <2>1, <2>3, TypePartsNext DEF TypeInv
<1>6. ASSUME NEW s \in Clients, Visit(s) \/ JoinContext(s) PROVE TypeInv'
  <2>1. ServerType' /\ ShutType' /\ SocketType'
    BY <1>1, <1>6 DEF Visit, JoinContext, Elsewhere, ServerType, ShutType, SocketType
  <2>2. SessionType' /\ ReplayType' /\ RoomInv'
    BY <1>1, <1>6, TypeKept DEF Visit, JoinContext, Elsewhere, sessionVars, replayVars
  <2>3. LifeType'
    BY <1>1, <1>6, TypeKept, LetGoType DEF Visit, JoinContext
  <2>. QED BY <2>1, <2>2, <2>3, TypePartsNext DEF TypeInv
<1>. QED BY <1>2, <1>3, <1>4, <1>5, <1>6 DEF Serve, Shutdown

\* So does what clients and the two threads of a session do.
LEMMA SessionStepType ==
  ASSUME TypeInv, NEW s \in Clients, Client(s) \/ Context(s) \/ Sender(s) \/ Joined(s)
  PROVE  TypeInv'
<1>1. ServerType /\ ShutType /\ SocketType /\ LifeType /\ SessionType /\ ReplayType /\ RoomInv
  BY TypeParts DEF TypeInv
<1>2. ServerType' /\ ShutType'
  <2>1. UNCHANGED <<serverVars, shutVars>>
    BY DEF Client, Context, Sender, Joined, Leave, Reset, Read, ReadFails, Send, SendLoop,
           Recv, Write, WriteFails
  <2>. QED BY <1>1, <2>1, TypeKept DEF serverVars
<1>3. ASSUME Client(s) \/ Joined(s) PROVE TypeInv'
  <2>1. SocketType' /\ LifeType'
    BY <1>1, <1>3 DEF Client, Leave, Reset, Joined, SocketType, LifeType, lifeVars
  <2>2. SessionType' /\ ReplayType' /\ RoomInv'
    BY <1>1, <1>3, TypeKept DEF Client, Leave, Reset, Joined, sessionVars, replayVars
  <2>. QED BY <1>2, <2>1, <2>2, TypePartsNext DEF TypeInv
<1>4. ASSUME Read(s) \/ ReadFails(s) PROVE TypeInv'
  <2>1. SocketType'
    BY <1>1, <1>4 DEF Read, ReadFails, SocketType
  <2>2. LifeType'
    BY <1>1, <1>4, LetGoType DEF Read, ReadFails
  <2>3. SessionType'
    BY <1>1, <1>4 DEF Read, ReadFails, SessionType
  <2>4. ReplayType'
    BY <1>1, <1>4, TypeKept DEF Read, ReadFails
  <2>5. RoomInv'
    BY <1>1, <1>4 DEF Read, ReadFails, RoomInv, SessionType, replayVars
  <2>. QED BY <1>2, <2>1, <2>2, <2>3, <2>4, <2>5, TypePartsNext DEF TypeInv
<1>5. ASSUME Send(s) PROVE TypeInv'
  <2>1. SocketType' /\ LifeType'
    BY <1>1, <1>5, TypeKept DEF Send
  <2>2. SessionType'
    BY <1>1, <1>5, ResponseType DEF Send, Notify, SessionType
  <2>3. ReplayType'
    <3>1. CASE req[s] = "subscribe"
      <4>1. subs[s] < MaxReplays /\ MaxReplays \in Nat /\ subs[s] \in 0..MaxReplays
        BY <1>1, <1>5, <3>1, BoundsAssumption DEF Send, RoomInv, ReplayType
      <4>2. subs[s] + 1 \in Replays /\ subs[s] + 1 \in 0..MaxReplays
        BY <4>1 DEF Replays
      <4>3. subs' = [subs EXCEPT ![s] = @ + 1] /\ subs'[s] = subs[s] + 1
        BY <1>1, <1>5, <3>1 DEF Send, ReplayType
      <4>4. rep' = [rep EXCEPT ![s][subs[s] + 1] = "test"]
        BY <1>5, <3>1, <4>3 DEF Send
      <4>. QED BY <1>1, <1>5, <4>2, <4>3, <4>4 DEF Send, ReplayType
    <3>2. CASE req[s] # "subscribe"
      BY <1>1, <1>5, <3>2 DEF Send, ReplayType
    <3>. QED BY <3>1, <3>2
  <2>4. RoomInv'
    BY <1>1, <1>5 DEF Send, RoomInv, SessionType, ReplayType
  <2>. QED BY <1>2, <2>1, <2>2, <2>3, <2>4, TypePartsNext DEF TypeInv
<1>6. ASSUME SendLoop(s) \/ Recv(s) PROVE TypeInv'
  <2>1. SocketType'
    BY <1>1, <1>6, TypeKept DEF SendLoop, Recv
  <2>2. LifeType'
    BY <1>1, <1>6 DEF SendLoop, Recv, LifeType, lifeVars
  <2>3. SessionType'
    <3>1. ASSUME SendLoop(s) PROVE SessionType'
      BY <1>1, <3>1 DEF SendLoop, SessionType
    <3>2. ASSUME Recv(s), queue[s] = <<>> PROVE SessionType'
      BY <1>1, <3>2 DEF Recv, SessionType
    <3>3. ASSUME Recv(s), queue[s] # <<>> PROVE SessionType'
      <4>1. queue[s] \in Seq(Responses)
        BY <1>1 DEF SessionType
      <4>2. Head(queue[s]) \in Responses /\ Tail(queue[s]) \in Seq(Responses)
        BY <4>1, <3>3, HeadTailProperties
      <4>3. /\ resp' = [resp EXCEPT ![s] = Head(queue[s])]
            /\ queue' = [queue EXCEPT ![s] = Tail(queue[s])]
            /\ snd' = [snd EXCEPT ![s] = "write"] /\ UNCHANGED <<ctx, req, handled>>
        BY <3>3 DEF Recv
      <4>. QED BY <1>1, <4>2, <4>3 DEF SessionType
    <3>. QED BY <1>6, <3>1, <3>2, <3>3
  <2>4. ReplayType' /\ RoomInv'
    BY <1>1, <1>6, TypeKept DEF SendLoop, Recv, replayVars
  <2>. QED BY <1>2, <2>1, <2>2, <2>3, <2>4, TypePartsNext DEF TypeInv
<1>7. ASSUME Write(s) \/ WriteFails(s) PROVE TypeInv'
  <2>1. SocketType'
    <3>1. Append(out[s], resp[s]) \in Seq(Responses)
      BY <1>1, AppendProperties DEF SocketType, SessionType
    <3>2. ASSUME Write(s) PROVE SocketType'
      BY <1>1, <3>1, <3>2 DEF Write, SocketType
    <3>3. ASSUME WriteFails(s) PROVE SocketType'
      BY <1>1, <3>3 DEF WriteFails, SocketType
    <3>. QED BY <1>7, <3>2, <3>3
  <2>2. LifeType'
    BY <1>1, <1>7, LetGoType DEF Write, WriteFails
  <2>3. SessionType'
    BY <1>1, <1>7 DEF Write, WriteFails, SessionType
  <2>4. ReplayType' /\ RoomInv'
    BY <1>1, <1>7, TypeKept DEF Write, WriteFails, replayVars
  <2>. QED BY <1>2, <2>1, <2>2, <2>3, <2>4, TypePartsNext DEF TypeInv
<1>. QED BY <1>3, <1>4, <1>5, <1>6, <1>7 DEF Context, Sender

\* So does a replay thread.
LEMMA ReplayStepType ==
  ASSUME TypeInv, NEW s \in Clients, NEW k \in Replays, Replay(s, k)
  PROVE  TypeInv'
<1>1. ServerType /\ ShutType /\ SocketType /\ LifeType /\ SessionType /\ ReplayType /\ RoomInv
  BY TypeParts DEF TypeInv
<1>2. Recorded \in Nat /\ MaxPlayed \in Nat
  BY BoundsAssumption
<1>3. UNCHANGED <<serverVars, shutVars, link, out, sock, lifeVars, active, ctx, req, subs>>
  BY DEF Replay, ReplayTest, ReplayFrame, ReplayPush, sessionVars
<1>4. ServerType' /\ ShutType' /\ SocketType' /\ RoomInv'
  BY <1>1, <1>3, TypeKept DEF serverVars
<1>5. LifeType'
  BY <1>1 DEF Replay, ReplayTest, ReplayFrame, ReplayPush, LifeType, lifeVars
<1>6. SessionType'
  <2>1. ASSUME ReplayTest(s, k) \/ ReplayFrame(s, k) PROVE SessionType'
    BY <1>1, <2>1, TypeKept DEF ReplayTest, ReplayFrame
  <2>2. ASSUME ReplayPush(s, k) PROVE SessionType'
    <3>1. Frame(frame[s][k]) \in Responses
      BY <1>1, ResponseType DEF ReplayType
    <3>. QED BY <1>1, <2>2, <3>1 DEF ReplayPush, Notify, SessionType
  <2>. QED BY <2>1, <2>2 DEF Replay
<1>7. ReplayType'
  <2>1. ASSUME ReplayTest(s, k) PROVE ReplayType'
    <3>1. UNCHANGED <<subs, frame>>
      BY <2>1 DEF ReplayTest
    <3>2. /\ \/ rep' = [rep EXCEPT ![s][k] = "lock"]
             \/ rep' = [rep EXCEPT ![s][k] = "ended"]
          /\ \/ UNCHANGED pos
             \/ pos' = [pos EXCEPT ![s] = 1]
          /\ \/ UNCHANGED last
             \/ last' = [last EXCEPT ![s][k] = 0]
          /\ \/ UNCHANGED played
             \/ played[s] < MaxPlayed /\ played' = [played EXCEPT ![s] = played[s] + 1]
      BY <2>1 DEF ReplayTest
    <3>3. rep' \in [Clients -> [Replays -> {"none", "test", "lock", "play", "forever", "ended"}]]
      <4>1. rep \in [Clients -> [Replays -> {"none", "test", "lock", "play", "forever", "ended"}]]
        BY <1>1 DEF ReplayType
      <4>. QED BY <3>2, <4>1, EntryReplaced
    <3>4. pos' \in [Clients -> 1..Recorded + 1]
      <4>1. 1 \in 1..Recorded + 1
        BY <1>2
      <4>. QED BY <1>1, <3>2, <4>1 DEF ReplayType
    <3>5. last' \in [Clients -> [Replays -> 0..Recorded]]
      <4>1. 0 \in 0..Recorded
        BY <1>2
      <4>2. last \in [Clients -> [Replays -> 0..Recorded]]
        BY <1>1 DEF ReplayType
      <4>3. [last EXCEPT ![s][k] = 0] \in [Clients -> [Replays -> 0..Recorded]]
        BY <4>1, <4>2, EntryReplaced
      <4>. QED BY <3>2, <4>2, <4>3
    <3>6. played' \in [Clients -> 0..MaxPlayed]
      <4>1. CASE UNCHANGED played
        BY <1>1, <4>1 DEF ReplayType
      <4>2. CASE played[s] < MaxPlayed /\ played' = [played EXCEPT ![s] = played[s] + 1]
        <5>1. played[s] + 1 \in 0..MaxPlayed
          BY <1>1, <1>2, <4>2 DEF ReplayType
        <5>. QED BY <1>1, <4>2, <5>1 DEF ReplayType
      <4>. QED BY <3>2, <4>1, <4>2
    <3>. QED BY <1>1, <3>1, <3>3, <3>4, <3>5, <3>6 DEF ReplayType
  <2>2. ASSUME ReplayFrame(s, k) PROVE ReplayType'
    <3>1. CASE pos[s] > Recorded
      BY <1>1, <2>2, <3>1 DEF ReplayFrame, ReplayType
    <3>2. CASE ~(pos[s] > Recorded)
      <4>1. pos[s] \in 0..Recorded /\ pos[s] + 1 \in 1..Recorded + 1
        BY <1>1, <1>2, <3>2 DEF ReplayType
      <4>2. PICK w \in {"forever", "play"} :
              /\ frame' = [frame EXCEPT ![s][k] = pos[s]]
              /\ pos' = [pos EXCEPT ![s] = pos[s] + 1]
              /\ rep' = [rep EXCEPT ![s][k] = w]
              /\ UNCHANGED <<subs, last, played>>
        BY <2>2, <3>2 DEF ReplayFrame
      <4>3. frame' \in [Clients -> [Replays -> 0..Recorded]]
        BY <1>1, <4>1, <4>2, EntryReplaced DEF ReplayType
      <4>4. pos' \in [Clients -> 1..Recorded + 1]
        BY <1>1, <4>1, <4>2 DEF ReplayType
      <4>5. rep' \in [Clients -> [Replays -> {"none", "test", "lock", "play", "forever", "ended"}]]
        BY <1>1, <4>2, EntryReplaced DEF ReplayType
      <4>. QED BY <1>1, <4>2, <4>3, <4>4, <4>5 DEF ReplayType
    <3>. QED BY <3>1, <3>2
  <2>3. ASSUME ReplayPush(s, k) PROVE ReplayType'
    BY <1>1, <2>3 DEF ReplayPush, ReplayType
  <2>. QED BY <2>1, <2>2, <2>3 DEF Replay
<1>. QED BY <1>4, <1>5, <1>6, <1>7, TypePartsNext DEF TypeInv

\* Every step is the server's, a session's, a replay's or none.
LEMMA NextCases ==
  ASSUME [Next]_vars
  PROVE  \/ Serve \/ CloseAcceptor \/ Shutdown \/ UNCHANGED vars
         \/ \E s \in Clients : Client(s) \/ Context(s) \/ Sender(s) \/ Joined(s)
         \/ \E s \in Clients, k \in Replays : Replay(s, k)
BY DEF Next

\* Every step keeps the types.
LEMMA TypeStep == TypeInv /\ [Next]_vars => TypeInv'
<1> SUFFICES ASSUME TypeInv, [Next]_vars PROVE TypeInv'
  OBVIOUS
<1>1. ASSUME UNCHANGED vars PROVE TypeInv'
  <2>1. UNCHANGED <<serverVars, shutVars, link, out, sock, lifeVars, active, down,
                    sessionVars, replayVars>>
    BY <1>1 DEF vars
  <2>. QED BY <2>1, TypeParts, TypePartsNext, TypeKept
           DEF TypeInv, serverVars, shutVars, lifeVars, sessionVars, replayVars
<1>. QED BY <1>1, NextCases, ServerStepType, SessionStepType, ReplayStepType

\* Types: every variable keeps its type, in particular the position in the recording,
\* the number of subscriptions and the frame each replay thread holds.
THEOREM TypeCorrect == Spec => []TypeOK
<1>1. Spec => []TypeInv
  BY TypeInit, TypeStep, PTL DEF Spec
<1>. QED BY <1>1, PTL DEF TypeInv

-----------------------------------------------------------------------------
(* The send thread and its queue. *)

\* The queue of a session changes only when an answer or a frame is added, which
\* notifies, and when the send thread takes the front.
LEMMA QueueCases ==
  ASSUME TypeInv, [Next]_vars, NEW s \in Clients
  PROVE  \/ UNCHANGED <<queue[s], snd[s]>>
         \/ queue'[s] = queue[s] /\ snd'[s] \notin {"wait", "woken"}
         \/ Recv(s)
         \/ \E x \in Responses :
              /\ queue'[s] = Append(queue[s], x)
              /\ snd'[s] = IF snd[s] = "wait" THEN "woken" ELSE snd[s]
<1>1. SessionType /\ ReplayType
  BY TypeParts DEF TypeInv
<1>2. CASE Serve
  BY <1>1, <1>2 DEF Serve, AcceptFails, AcceptNext, ServeEnds, Accept, PushBack, sessionVars,
                    SessionType
<1>3. CASE CloseAcceptor \/ Shutdown \/ UNCHANGED vars
  BY <1>3 DEF CloseAcceptor, Shutdown, StopIo, Visit, JoinContext, Elsewhere, sessionVars, vars
<1>4. ASSUME NEW t \in Clients, Client(t) \/ Context(t) \/ Sender(t) \/ Joined(t)
      PROVE  \/ UNCHANGED <<queue[s], snd[s]>>
             \/ queue'[s] = queue[s] /\ snd'[s] \notin {"wait", "woken"}
             \/ Recv(s)
             \/ \E x \in Responses :
                  /\ queue'[s] = Append(queue[s], x)
                  /\ snd'[s] = IF snd[s] = "wait" THEN "woken" ELSE snd[s]
  <2>1. CASE Client(t) \/ Joined(t) \/ Read(t) \/ ReadFails(t)
    BY <2>1 DEF Client, Leave, Reset, Joined, Read, ReadFails, sessionVars
  <2>2. CASE Send(t)
    <3>1. AnswerTo(req[t]) \in Responses
      BY ResponseType
    <3>. QED BY <1>1, <2>2, <3>1 DEF Send, Notify, SessionType
  <2>3. CASE SendLoop(t) \/ Write(t) \/ WriteFails(t)
    BY <1>1, <2>3 DEF SendLoop, Write, WriteFails, SessionType
  <2>4. CASE Recv(t)
    BY <1>1, <2>4 DEF Recv, SessionType
  <2>. QED BY <1>4, <2>1, <2>2, <2>3, <2>4 DEF Context, Sender
<1>5. ASSUME NEW t \in Clients, NEW k \in Replays, Replay(t, k)
      PROVE  \/ UNCHANGED <<queue[s], snd[s]>>
             \/ \E x \in Responses :
                  /\ queue'[s] = Append(queue[s], x)
                  /\ snd'[s] = IF snd[s] = "wait" THEN "woken" ELSE snd[s]
  <2>1. CASE ReplayTest(t, k) \/ ReplayFrame(t, k)
    BY <2>1 DEF ReplayTest, ReplayFrame, sessionVars
  <2>2. CASE ReplayPush(t, k)
    <3>1. Frame(frame[t][k]) \in Responses
      BY <1>1, ResponseType DEF ReplayType
    <3>. QED BY <1>1, <2>2, <3>1 DEF ReplayPush, Notify, SessionType
  <2>. QED BY <1>5, <2>1, <2>2 DEF Replay
<1>. QED BY <1>2, <1>3, <1>4, <1>5, NextCases

\* Only a send thread that was woken to an empty queue undoes the process so.
LEMMA DownCases ==
  ASSUME [Next]_vars, down' = "empty queue", down # "empty queue"
  PROVE  \E s \in Clients : snd[s] = "woken" /\ queue[s] = <<>>
<1>1. ASSUME NEW s \in Clients, NEW who \in {"serve", "shut", "ctx", "snd"}, LetGo(s, who)
      PROVE  FALSE
  BY <1>1 DEF LetGo
<1>2. ~Serve
  BY <1>1 DEF Serve, AcceptFails, AcceptNext, ServeEnds, Accept, PushBack
<1>3. ~(CloseAcceptor \/ Shutdown \/ UNCHANGED vars)
  BY <1>1 DEF CloseAcceptor, Shutdown, StopIo, Visit, JoinContext, vars
<1>4. ASSUME NEW s \in Clients, Client(s) \/ Context(s) \/ Sender(s) \/ Joined(s)
      PROVE  snd[s] = "woken" /\ queue[s] = <<>>
  BY <1>1, <1>4 DEF Client, Leave, Reset, Joined, Context, Read, ReadFails, Send, Sender,
                    SendLoop, Recv, Write, WriteFails
<1>5. ASSUME NEW s \in Clients, NEW k \in Replays, Replay(s, k) PROVE FALSE
  BY <1>5 DEF Replay, ReplayTest, ReplayFrame, ReplayPush
<1>. QED BY <1>2, <1>3, <1>4, <1>5, NextCases

\* Every step keeps the send thread's wakes in order.
LEMMA WakeStep == TypeInv /\ WakeInv /\ [Next]_vars => WakeInv'
<1> SUFFICES ASSUME TypeInv, WakeInv, [Next]_vars PROVE WakeInv'
  OBVIOUS
<1>1. ASSUME NEW s \in Clients
      PROVE  (snd[s] = "wait" => queue[s] = <<>>)' /\ (snd[s] = "woken" => queue[s] # <<>>)'
  <2>1. SessionType /\ queue[s] \in Seq(Responses)
    BY TypeParts DEF TypeInv, SessionType
  <2>2. CASE UNCHANGED <<queue[s], snd[s]>>
    BY <2>2 DEF WakeInv
  <2>3. CASE queue'[s] = queue[s] /\ snd'[s] \notin {"wait", "woken"}
    BY <2>3
  <2>4. CASE Recv(s)
    BY <2>1, <2>4 DEF Recv, SessionType
  <2>5. ASSUME NEW x \in Responses, queue'[s] = Append(queue[s], x),
               snd'[s] = IF snd[s] = "wait" THEN "woken" ELSE snd[s]
        PROVE  snd'[s] # "wait" /\ queue'[s] # <<>>
    BY <2>1, <2>5, AppendProperties
  <2>. QED BY <2>2, <2>3, <2>4, <2>5, QueueCases
<1>2. down' # "empty queue"
  BY DownCases DEF WakeInv
<1>. QED BY <1>1, <1>2 DEF WakeInv

\* The send thread never sleeps while a response is queued, nor takes the front of an
\* empty queue, although simulated_connection::recv tests the queue only once.
THEOREM NoLostWakeup == Spec => []WakesToWork
<1>1. Init => WakeInv
  BY DEF Init, WakeInv
<1>2. WakeInv => WakesToWork
  BY DEF WakeInv, WakesToWork
<1>. QED BY <1>1, <1>2, TypeInit, TypeStep, WakeStep, PTL DEF Spec

-----------------------------------------------------------------------------
(* References. *)

\* Every step but Joined's keeps HeldAlive by its own guard or by LetGo; Joined is of
\* a session that is being destroyed.
LEMMA HeldStep == TypeInv /\ HeldAlive /\ [Next]_vars => HeldAlive'
<1> SUFFICES ASSUME TypeInv, HeldAlive, [Next]_vars PROVE HeldAlive'
  OBVIOUS
<1>1. ServerType /\ ShutType /\ LifeType /\ SessionType
  BY TypeParts DEF TypeInv
<1>2. CASE Serve
  <2>1. CASE AcceptFails \/ AcceptNext \/ ServeEnds
    BY <2>1 DEF AcceptFails, AcceptNext, ServeEnds, HeldAlive, Held, shutVars, lifeVars,
                sessionVars
  <2>2. ASSUME NEW s \in Clients, Accept(s) PROVE HeldAlive'
    BY <1>1, <2>2 DEF Accept, HeldAlive, Held, shutVars, LifeType, SessionType
  <2>3. ASSUME NEW s \in Clients, PushBack(s) PROVE HeldAlive'
    <3>1. ASSUME NEW t \in Clients, Held(t)' PROVE Held(t)
      BY <2>3, <3>1 DEF PushBack, Held, shutVars, sessionVars
    <3>2. ASSUME NEW t \in Clients, Held(t)' PROVE life'[t] = life[t]
      BY <1>1, <2>3, <3>2 DEF PushBack, LetGo, LifeType, lifeVars
    <3>. QED BY <3>1, <3>2 DEF HeldAlive
  <2>. QED BY <1>2, <2>1, <2>2, <2>3 DEF Serve
<1>3. CASE CloseAcceptor \/ StopIo
  BY <1>3 DEF CloseAcceptor, StopIo, Elsewhere, HeldAlive, Held, lifeVars, sessionVars
<1>4. ASSUME NEW s \in Clients, Visit(s) PROVE HeldAlive'
  BY <1>4 DEF Visit, Elsewhere, HeldAlive, Held, lifeVars, sessionVars
<1>5. ASSUME NEW s \in Clients, JoinContext(s) PROVE HeldAlive'
  <2>1. ASSUME NEW t \in Clients, Held(t)' PROVE Held(t)
    BY <1>5, <2>1 DEF JoinContext, Elsewhere, Held, sessionVars
  <2>2. ASSUME NEW t \in Clients, Held(t)' PROVE life'[t] = life[t]
    BY <1>1, <1>5, <2>2 DEF JoinContext, LetGo, LifeType, lifeVars
  <2>. QED BY <2>1, <2>2 DEF HeldAlive
<1>6. ASSUME NEW s \in Clients, Client(s) \/ Joined(s) \/ Send(s) \/ SendLoop(s) \/ Recv(s)
      PROVE  HeldAlive'
  <2>1. CASE Client(s)
    BY <2>1 DEF Client, Leave, Reset, HeldAlive, Held, serverVars, shutVars, lifeVars, sessionVars
  <2>2. CASE Joined(s)
    <3>1. ASSUME NEW t \in Clients, Held(t)' PROVE Held(t)
      BY <2>2, <3>1 DEF Joined, Held, serverVars, shutVars, sessionVars
    <3>2. ~Held(s)
      BY <2>2 DEF Joined, HeldAlive
    <3>. QED BY <1>1, <2>2, <3>1, <3>2 DEF Joined, HeldAlive, LifeType
  <2>3. CASE Send(s)
    BY <1>1, <2>3 DEF Send, Notify, HeldAlive, Held, serverVars, shutVars, lifeVars, SessionType
  <2>4. CASE SendLoop(s)
    BY <1>1, <2>4 DEF SendLoop, HeldAlive, Held, serverVars, shutVars, lifeVars, SessionType
  <2>5. CASE Recv(s)
    BY <1>1, <2>5 DEF Recv, HeldAlive, Held, serverVars, shutVars, lifeVars, SessionType
  <2>. QED BY <1>6, <2>1, <2>2, <2>3, <2>4, <2>5
<1>7. ASSUME NEW s \in Clients, Read(s) \/ ReadFails(s) \/ Write(s) \/ WriteFails(s)
      PROVE  HeldAlive'
  <2>1. ASSUME NEW t \in Clients, Held(t)' PROVE Held(t)
    BY <1>1, <1>7, <2>1 DEF Read, ReadFails, Write, WriteFails, Held, serverVars, shutVars,
                            SessionType
  <2>2. ASSUME NEW t \in Clients, Held(t)' PROVE life'[t] = life[t]
    BY <1>1, <1>7, <2>2 DEF Read, ReadFails, Write, WriteFails, LetGo, LifeType, lifeVars
  <2>. QED BY <2>1, <2>2 DEF HeldAlive
<1>8. ASSUME NEW s \in Clients, NEW k \in Replays, Replay(s, k) PROVE HeldAlive'
  BY <1>1, <1>8 DEF Replay, ReplayTest, ReplayFrame, ReplayPush, Notify, HeldAlive, Held,
                    serverVars, shutVars, lifeVars, sessionVars, SessionType
<1>9. CASE UNCHANGED vars
  BY <1>9 DEF vars, HeldAlive, Held, serverVars, shutVars, lifeVars, sessionVars
<1>. QED BY <1>2, <1>3, <1>4, <1>5, <1>6, <1>7, <1>8, <1>9, NextCases
         DEF Shutdown, Context, Sender

\* No thread works with a session whose destructor runs or has run (the shared and
\* weak pointers of mockup_session): a reference means that it is alive.
THEOREM SessionsOutliveUse == Spec => []HeldAlive
<1>1. Init => HeldAlive
  BY DEF Init, HeldAlive, Held
<1>. QED BY <1>1, TypeInit, TypeStep, HeldStep, PTL DEF Spec

-----------------------------------------------------------------------------
(* What a session sends. *)

\* A client that has not connected has no session.
LEMMA NewStep == TypeInv /\ NewInv /\ [Next]_vars => NewInv'
<1> SUFFICES ASSUME TypeInv, NewInv, [Next]_vars PROVE NewInv'
  OBVIOUS
<1>1. SocketType /\ SessionType
  BY TypeParts DEF TypeInv
<1>2. CASE Serve
  <2>1. CASE AcceptFails \/ AcceptNext \/ ServeEnds
    BY <2>1 DEF AcceptFails, AcceptNext, ServeEnds, sessionVars, NewInv
  <2>2. ASSUME NEW s \in Clients, Accept(s) PROVE NewInv'
    BY <1>1, <2>2 DEF Accept, SocketType, SessionType, NewInv
  <2>3. ASSUME NEW s \in Clients, PushBack(s) PROVE NewInv'
    BY <2>3 DEF PushBack, sessionVars, NewInv
  <2>. QED BY <1>2, <2>1, <2>2, <2>3 DEF Serve
<1>3. CASE CloseAcceptor \/ Shutdown \/ UNCHANGED vars
  BY <1>3 DEF CloseAcceptor, Shutdown, StopIo, Visit, JoinContext, Elsewhere, sessionVars,
              vars, NewInv
<1>4. ASSUME NEW s \in Clients, Client(s) \/ Joined(s) \/ Read(s) \/ ReadFails(s) PROVE NewInv'
  BY <1>1, <1>4 DEF Client, Leave, Reset, Joined, Read, ReadFails, sessionVars, SocketType, NewInv
<1>5. ASSUME NEW s \in Clients, Send(s) \/ Sender(s) PROVE NewInv'
  BY <1>1, <1>5 DEF Send, Notify, Sender, SendLoop, Recv, Write, WriteFails, SessionType, NewInv
<1>6. ASSUME NEW s \in Clients, NEW k \in Replays, Replay(s, k) PROVE NewInv'
  BY <1>1, <1>6 DEF Replay, ReplayTest, ReplayFrame, ReplayPush, Notify, sessionVars,
                    SessionType, NewInv
<1>. QED BY <1>2, <1>3, <1>4, <1>5, <1>6, NextCases DEF Context

\* A response added at the end of a concatenation.
LEMMA ConcatAppend ==
  ASSUME NEW S, NEW a \in Seq(S), NEW b \in Seq(S), NEW x \in S
  PROVE  a \o Append(b, x) = Append(a \o b, x)
<1>1. Append(b, x) = b \o <<x>> /\ Append(a \o b, x) = (a \o b) \o <<x>>
  BY AppendIsConcat, ConcatProperties
<1>2. <<x>> \in Seq(S)
  OBVIOUS
<1>. QED BY <1>1, <1>2, ConcatAssociative

\* The front of a queue, taken off and put before it.
LEMMA ConcatFront ==
  ASSUME NEW S, NEW a \in Seq(S), NEW q \in Seq(S), q # <<>>
  PROVE  (a \o <<>>) \o q = (a \o <<Head(q)>>) \o Tail(q)
<1>1. Head(q) \in S /\ Tail(q) \in Seq(S) /\ <<Head(q)>> \in Seq(S)
  BY HeadTailProperties
<1>2. q = <<Head(q)>> \o Tail(q)
  OBVIOUS
<1>3. a \o <<>> = a
  BY ConcatEmptySeq
<1>. QED BY <1>1, <1>2, <1>3, ConcatAssociative

\* A stream is a sequence of responses.
LEMMA StreamType ==
  ASSUME TypeInv, NEW s \in Clients
  PROVE  Stream(s) \in Seq(Responses)
<1>1. SocketType /\ SessionType
  BY TypeParts DEF TypeInv
<1>2. out[s] \in Seq(Responses) /\ queue[s] \in Seq(Responses) /\ resp[s] \in Responses
  BY <1>1 DEF SocketType, SessionType
<1>. QED BY <1>2, ConcatProperties DEF Stream

\* What a session sends stays what it is, and the replay where it is.
Quiet(s) == UNCHANGED <<out[s], resp[s], queue[s], handled[s], subs[s]>>
Still(s) == UNCHANGED <<rep[s], pos[s], frame[s]>>

\* While nothing is added or taken, the stream stays what it is.
LEMMA StreamKept ==
  ASSUME NEW s \in Clients, Quiet(s),
         snd'[s] = snd[s] \/ (snd[s] # "write" /\ snd'[s] # "write")
  PROVE  Stream(s)' = Stream(s)
BY DEF Stream, Quiet

\* A response that is queued comes at the end of the stream.
LEMMA StreamGrows ==
  ASSUME TypeInv, NEW s \in Clients, NEW x \in Responses,
         queue'[s] = Append(queue[s], x), UNCHANGED <<out[s], resp[s]>>, Notify(s)
  PROVE  /\ Stream(s)' = Append(Stream(s), x)
         /\ snd'[s] = "ended" <=> snd[s] = "ended"
<1>1. SocketType /\ SessionType
  BY TypeParts DEF TypeInv
<1>2. out[s] \in Seq(Responses) /\ queue[s] \in Seq(Responses) /\ resp[s] \in Responses
  BY <1>1 DEF SocketType, SessionType
<1>3. /\ snd'[s] = "write" <=> snd[s] = "write"
      /\ snd'[s] = "ended" <=> snd[s] = "ended"
  BY <1>1 DEF Notify, SessionType
<1>4. out[s] \o (IF snd[s] = "write" THEN <<resp[s]>> ELSE <<>>) \in Seq(Responses)
  BY <1>2, ConcatProperties
<1>5. PICK a \in Seq(Responses) :
        Stream(s) = a \o queue[s] /\ Stream(s)' = a \o Append(queue[s], x)
  BY <1>3, <1>4 DEF Stream
<1>6. Stream(s)' = Append(Stream(s), x)
  BY <1>2, <1>5, ConcatAppend
<1>. QED BY <1>3, <1>6

\* Taking the front of the queue, and writing it, leaves the stream what it is.
LEMMA StreamMoves ==
  ASSUME TypeInv, NEW s \in Clients, Recv(s) \/ Write(s)
  PROVE  Stream(s)' = Stream(s) /\ snd[s] # "ended"
<1>1. SocketType /\ SessionType
  BY TypeParts DEF TypeInv
<1>2. out[s] \in Seq(Responses) /\ queue[s] \in Seq(Responses) /\ resp[s] \in Responses
  BY <1>1 DEF SocketType, SessionType
<1>3. CASE Recv(s)
  <2>1. out'[s] = out[s] /\ snd[s] \in {"recv", "woken"}
    BY <1>3 DEF Recv
  <2>2. CASE queue[s] = <<>>
    <3>1. UNCHANGED <<queue[s], resp[s]>> /\ snd'[s] = "wait"
      BY <1>1, <1>3, <2>2 DEF Recv, SessionType
    <3>. QED BY <2>1, <3>1 DEF Stream
  <2>3. CASE queue[s] # <<>>
    <3>1. resp'[s] = Head(queue[s]) /\ queue'[s] = Tail(queue[s]) /\ snd'[s] = "write"
      BY <1>1, <1>3, <2>3 DEF Recv, SessionType
    <3>2. (out[s] \o <<>>) \o queue[s] = (out[s] \o <<Head(queue[s])>>) \o Tail(queue[s])
      BY <1>2, <2>3, ConcatFront
    <3>. QED BY <2>1, <3>1, <3>2 DEF Stream
  <2>. QED BY <2>1, <2>2, <2>3
<1>4. CASE Write(s)
  <2>1. /\ out'[s] = Append(out[s], resp[s]) /\ UNCHANGED <<queue[s], resp[s]>>
        /\ snd[s] = "write" /\ snd'[s] = "loop"
    BY <1>1, <1>4 DEF Write, SocketType, SessionType
  <2>2. Append(out[s], resp[s]) = out[s] \o <<resp[s]>>
    BY <1>2, AppendIsConcat
  <2>3. Append(out[s], resp[s]) \in Seq(Responses)
    BY <1>2, AppendProperties
  <2>4. Append(out[s], resp[s]) \o <<>> = Append(out[s], resp[s])
    BY <2>3, ConcatEmptySeq
  <2>. QED BY <2>1, <2>2, <2>4 DEF Stream
<1>. QED BY <1>3, <1>4

\* A session whose send thread goes on sends what it sent; or an answer or a frame
\* more.
StreamStep(s) ==
  /\ snd[s] # "ended"
  /\ \/ /\ Stream(s)' = Stream(s) /\ UNCHANGED <<handled[s], subs[s]>>
        /\ Still(s) \/ \E k \in Replays : ReplayTest(s, k) \/ ReplayFrame(s, k)
     \/ Send(s) /\ Stream(s)' = Append(Stream(s), AnswerTo(req[s]))
     \/ \E k \in Replays : ReplayPush(s, k) /\ Stream(s)' = Append(Stream(s), Frame(frame[s][k]))

\* Every step is one of these for every session.
LEMMA StreamCases ==
  ASSUME TypeInv, NewInv, [Next]_vars, NEW s \in Clients, snd'[s] # "ended"
  PROVE  StreamStep(s)
<1>1. SocketType /\ SessionType /\ ReplayType
  BY TypeParts DEF TypeInv
<1>2. ASSUME Quiet(s), Still(s), snd[s] # "ended",
             snd'[s] = snd[s] \/ (snd[s] # "write" /\ snd'[s] # "write")
      PROVE  StreamStep(s)
  BY <1>2, StreamKept DEF StreamStep, Quiet
<1>3. CASE Serve
  <2>1. Quiet(s) /\ Still(s)
    BY <1>3 DEF Serve, AcceptFails, AcceptNext, ServeEnds, Accept, PushBack, sessionVars,
                replayVars, Quiet, Still
  <2>2. snd[s] # "ended" /\ (snd'[s] = snd[s] \/ (snd[s] # "write" /\ snd'[s] # "write"))
    <3>1. CASE AcceptFails \/ AcceptNext \/ ServeEnds
      BY <3>1 DEF AcceptFails, AcceptNext, ServeEnds, sessionVars
    <3>2. ASSUME NEW t \in Clients, Accept(t)
          PROVE  snd[s] # "ended" /\ (snd'[s] = snd[s] \/ (snd[s] # "write" /\ snd'[s] # "write"))
      BY <1>1, <3>2 DEF Accept, NewInv, SessionType
    <3>3. ASSUME NEW t \in Clients, PushBack(t) PROVE snd[s] # "ended" /\ snd'[s] = snd[s]
      BY <3>3 DEF PushBack, sessionVars
    <3>. QED BY <1>3, <3>1, <3>2, <3>3 DEF Serve
  <2>. QED BY <1>2, <2>1, <2>2
<1>4. CASE CloseAcceptor \/ Shutdown \/ UNCHANGED vars
  <2>1. UNCHANGED <<out, sessionVars, replayVars>>
    BY <1>4 DEF CloseAcceptor, Shutdown, StopIo, Visit, JoinContext, Elsewhere, vars
  <2>. QED BY <1>2, <2>1 DEF sessionVars, replayVars, Quiet, Still
<1>5. ASSUME NEW t \in Clients, Client(t) \/ Joined(t) \/ Read(t) \/ ReadFails(t)
      PROVE  StreamStep(s)
  <2>1. UNCHANGED <<out, snd, resp, queue, handled, replayVars>>
    BY <1>5 DEF Client, Leave, Reset, Joined, Read, ReadFails, sessionVars
  <2>. QED BY <1>2, <2>1 DEF replayVars, Quiet, Still
<1>6. ASSUME NEW t \in Clients, t # s, Send(t) \/ Sender(t) PROVE StreamStep(s)
  <2>1. Quiet(s) /\ snd'[s] = snd[s]
    <3>1. CASE Send(t)
      BY <1>1, <1>6, <3>1 DEF Send, Notify, SessionType, ReplayType, Quiet
    <3>2. CASE SendLoop(t) \/ Recv(t)
      BY <1>1, <1>6, <3>2 DEF SendLoop, Recv, SessionType, replayVars, Quiet
    <3>3. CASE Write(t) \/ WriteFails(t)
      BY <1>1, <1>6, <3>3 DEF Write, WriteFails, SocketType, SessionType, replayVars, Quiet
    <3>. QED BY <1>6, <3>1, <3>2, <3>3 DEF Sender
  <2>2. Still(s)
    BY <1>1, <1>6 DEF Send, Sender, SendLoop, Recv, Write, WriteFails, ReplayType, replayVars,
                      Still
  <2>. QED BY <1>2, <2>1, <2>2
<1>7. ASSUME NEW t \in Clients, NEW k \in Replays, t # s, Replay(t, k) PROVE StreamStep(s)
  <2>1. Quiet(s) /\ snd'[s] = snd[s]
    BY <1>1, <1>7 DEF Replay, ReplayTest, ReplayFrame, ReplayPush, Notify, SessionType,
                      sessionVars, Quiet
  <2>2. Still(s)
    BY <1>1, <1>7 DEF Replay, ReplayTest, ReplayFrame, ReplayPush, ReplayType, Still
  <2>. QED BY <1>2, <2>1, <2>2
<1>8. CASE Send(s)
  <2>1. queue'[s] = Append(queue[s], AnswerTo(req[s])) /\ UNCHANGED <<out[s], resp[s]>>
        /\ Notify(s) /\ AnswerTo(req[s]) \in Responses
    BY <1>1, <1>8, ResponseType DEF Send, SessionType
  <2>. QED BY <1>8, <2>1, StreamGrows DEF StreamStep
<1>9. CASE SendLoop(s)
  <2>1. Quiet(s) /\ Still(s) /\ snd[s] = "loop" /\ snd'[s] # "write"
    BY <1>1, <1>9 DEF SendLoop, SessionType, replayVars, Quiet, Still
  <2>. QED BY <1>2, <2>1
<1>10. CASE Recv(s) \/ Write(s)
  <2>1. UNCHANGED <<handled, replayVars>>
    BY <1>10 DEF Recv, Write
  <2>. QED BY <1>10, <2>1, StreamMoves DEF StreamStep, Still, replayVars
<1>11. ~WriteFails(s)
  BY <1>1 DEF WriteFails, SessionType
<1>12. ASSUME NEW k \in Replays, Replay(s, k) PROVE StreamStep(s)
  <2>1. CASE ReplayTest(s, k) \/ ReplayFrame(s, k)
    <3>1. Quiet(s) /\ snd'[s] = snd[s]
      BY <2>1 DEF ReplayTest, ReplayFrame, sessionVars, Quiet
    <3>2. Stream(s)' = Stream(s)
      BY <3>1, StreamKept
    <3>. QED BY <2>1, <3>1, <3>2 DEF StreamStep, Quiet
  <2>2. CASE ReplayPush(s, k)
    <3>1. Frame(frame[s][k]) \in Responses
      BY <1>1, ResponseType DEF ReplayType
    <3>2. queue'[s] = Append(queue[s], Frame(frame[s][k])) /\ UNCHANGED <<out[s], resp[s]>>
          /\ Notify(s)
      BY <1>1, <2>2 DEF ReplayPush, SessionType
    <3>. QED BY <2>2, <3>1, <3>2, StreamGrows DEF StreamStep
  <2>. QED BY <1>12, <2>1, <2>2 DEF Replay
<1>. QED BY <1>3, <1>4, <1>5, <1>6, <1>7, <1>8, <1>9, <1>10, <1>11, <1>12, NextCases
         DEF Context, Sender

-----------------------------------------------------------------------------
(* Answers in order. *)

\* A response more at the end of a sequence.
LEMMA AppendFacts ==
  ASSUME NEW S, NEW t \in Seq(S), NEW x \in S
  PROVE  /\ Append(t, x) \in Seq(S) /\ Len(t) \in Nat /\ DOMAIN t = 1..Len(t)
         /\ Len(Append(t, x)) = Len(t) + 1 /\ DOMAIN Append(t, x) = 1..Len(t) + 1
         /\ \A i \in 1..Len(t) : Append(t, x)[i] = t[i]
         /\ Append(t, x)[Len(t) + 1] = x
<1>1. /\ Append(t, x) \in Seq(S) /\ Len(Append(t, x)) = Len(t) + 1
      /\ \A i \in 1..Len(t) : Append(t, x)[i] = t[i]
      /\ Append(t, x)[Len(t) + 1] = x
  BY AppendProperties
<1>2. Len(t) \in Nat /\ DOMAIN t = 1..Len(t) /\ DOMAIN Append(t, x) = 1..Len(Append(t, x))
  BY <1>1, LenProperties
<1>. QED BY <1>1, <1>2

\* Counting answers: the count is a number, it is positive at an answer, and it
\* does not fall.
LEMMA AnswersCount ==
  ASSUME NEW t, NEW n \in Nat
  PROVE  /\ Answers(t, n) \in Nat
         /\ \A i \in 1..n : IsAnswer(t[i]) => Answers(t, i) \in 1..Answers(t, n)
<1> DEFINE Upto(i) == {j \in 1..i : IsAnswer(t[j])}
<1>1. ASSUME NEW i \in Nat PROVE IsFiniteSet(Upto(i)) /\ Cardinality(Upto(i)) \in Nat
  <2>1. IsFiniteSet(1..i)
    BY FS_Interval
  <2>2. Upto(i) \in SUBSET (1..i)
    OBVIOUS
  <2>. QED BY <2>1, <2>2, FS_Subset, FS_CardinalityType
<1>2. ASSUME NEW i \in 1..n, IsAnswer(t[i])
      PROVE  Cardinality(Upto(i)) \in 1..Cardinality(Upto(n))
  <2>1. Upto(i) \in SUBSET Upto(n) /\ i \in Upto(i) /\ i \in Nat
    BY <1>2
  <2>2. Cardinality(Upto(i)) <= Cardinality(Upto(n))
    BY <1>1, <2>1, FS_Subset
  <2>3. Cardinality(Upto(i)) # 0
    BY <1>1, <2>1, FS_EmptySet
  <2>. QED BY <1>1, <2>1, <2>2, <2>3
<1>. QED BY <1>1, <1>2 DEF Answers

\* The count in a sequence that has grown.
LEMMA AnswersAppend ==
  ASSUME NEW t \in Seq(Responses), NEW x \in Responses
  PROVE  /\ \A i \in 0..Len(t) : Answers(Append(t, x), i) = Answers(t, i)
         /\ Answers(Append(t, x), Len(t) + 1)
              = IF IsAnswer(x) THEN Answers(t, Len(t)) + 1 ELSE Answers(t, Len(t))
<1> DEFINE u == Append(t, x)
           n == Len(t)
           Old == {j \in 1..n : IsAnswer(t[j])}
           New == {j \in 1..n + 1 : IsAnswer(u[j])}
<1>1. n \in Nat /\ (\A i \in 1..n : u[i] = t[i]) /\ u[n + 1] = x
  BY AppendFacts
<1>2. ASSUME NEW i \in 0..n PROVE Answers(u, i) = Answers(t, i)
  <2>1. {j \in 1..i : IsAnswer(u[j])} = {j \in 1..i : IsAnswer(t[j])}
    BY <1>1
  <2>. QED BY <2>1 DEF Answers
<1>3. IsFiniteSet(Old)
  <2>1. IsFiniteSet(1..n) /\ Old \in SUBSET (1..n)
    BY <1>1, FS_Interval
  <2>. QED BY <2>1, FS_Subset
<1>4. CASE IsAnswer(x)
  <2>1. New = Old \cup {n + 1} /\ n + 1 \notin Old
    BY <1>1, <1>4
  <2>2. Cardinality(New) = Cardinality(Old) + 1
    BY <1>3, <2>1, FS_AddElement
  <2>. QED BY <1>2, <1>4, <2>2 DEF Answers
<1>5. CASE ~IsAnswer(x)
  <2>1. New = Old
    BY <1>1, <1>5
  <2>. QED BY <1>2, <1>5, <2>1 DEF Answers
<1>. QED BY <1>2, <1>4, <1>5

\* One request more and its answer, or a frame.
LEMMA AnswersAllAppend ==
  ASSUME NEW t \in Seq(Responses), NEW q \in Seq(Requests), NEW x \in Responses, AnswersAll(t, q)
  PROVE  /\ ~IsAnswer(x) => AnswersAll(Append(t, x), q)
         /\ \A r \in Requests : IsAnswer(x) /\ x = AnswerTo(r) => AnswersAll(Append(t, x), Append(q, r))
<1> DEFINE u == Append(t, x)
           n == Len(t)
<1>1. /\ n \in Nat /\ (\A i \in 1..n : u[i] = t[i]) /\ u[n + 1] = x
      /\ DOMAIN t = 1..n /\ DOMAIN u = 1..n + 1 /\ Len(u) = n + 1
  BY AppendFacts
<1>2. /\ \A i \in 1..n : Answers(u, i) = Answers(t, i)
      /\ Answers(u, n + 1) = IF IsAnswer(x) THEN Answers(t, n) + 1 ELSE Answers(t, n)
  BY <1>1, AnswersAppend
<1>3. Answers(t, n) = Len(q) /\ Len(q) \in Nat
  BY LenProperties DEF AnswersAll
<1>4. \A i \in 1..n : IsAnswer(t[i]) => Answers(t, i) \in 1..Len(q) /\ t[i] = AnswerTo(q[Answers(t, i)])
  BY <1>1, <1>3, AnswersCount DEF AnswersAll
<1>5. ASSUME ~IsAnswer(x) PROVE AnswersAll(u, q)
  BY <1>1, <1>2, <1>3, <1>4, <1>5 DEF AnswersAll
<1>6. ASSUME NEW r \in Requests, IsAnswer(x), x = AnswerTo(r) PROVE AnswersAll(u, Append(q, r))
  <2>1. /\ Len(Append(q, r)) = Len(q) + 1 /\ Append(q, r)[Len(q) + 1] = r
        /\ \A k \in 1..Len(q) : Append(q, r)[k] = q[k]
    BY AppendFacts
  <2>2. Answers(u, Len(u)) = Len(Append(q, r))
    BY <1>1, <1>2, <1>3, <1>6, <2>1
  <2>3. ASSUME NEW i \in 1..n + 1, IsAnswer(u[i])
        PROVE  u[i] = AnswerTo(Append(q, r)[Answers(u, i)])
    <3>1. CASE i = n + 1
      BY <1>1, <1>2, <1>3, <1>6, <2>1, <3>1
    <3>2. CASE i \in 1..n
      BY <1>1, <1>2, <1>4, <2>1, <2>3, <3>2
    <3>3. i = n + 1 \/ i \in 1..n
      <4>1. n \in Nat
        BY <1>1
      <4>. QED BY <4>1
    <3>. QED BY <3>1, <3>2, <3>3
  <2>. QED BY <1>1, <2>2, <2>3 DEF AnswersAll
<1>. QED BY <1>5, <1>6

\* Every step keeps the answers in order.
LEMMA AnswersStep == TypeInv /\ NewInv /\ AnswersInOrder /\ [Next]_vars => AnswersInOrder'
<1> SUFFICES ASSUME TypeInv, NewInv, AnswersInOrder, [Next]_vars,
                    NEW s \in Clients, snd'[s] # "ended"
             PROVE  AnswersAll(Stream(s), handled[s])'
  BY DEF AnswersInOrder
<1>1. SessionType /\ ReplayType /\ Stream(s) \in Seq(Responses)
  BY TypeParts, StreamType DEF TypeInv
<1>2. handled[s] \in Seq(Requests) /\ req[s] \in Requests
  BY <1>1 DEF SessionType
<1>3. StreamStep(s)
  BY StreamCases
<1>4. AnswersAll(Stream(s), handled[s])
  BY <1>3 DEF StreamStep, AnswersInOrder
<1>5. CASE Stream(s)' = Stream(s) /\ handled'[s] = handled[s]
  <2>1. AnswersAll(Stream(s)', handled'[s])
    BY <1>4, <1>5
  <2>. QED BY <2>1 DEF AnswersAll, Answers
<1>6. CASE Send(s) /\ Stream(s)' = Append(Stream(s), AnswerTo(req[s]))
  <2>1. handled'[s] = Append(handled[s], req[s])
    BY <1>1, <1>6 DEF Send, SessionType
  <2>2. AnswerTo(req[s]) \in Responses /\ IsAnswer(AnswerTo(req[s]))
    BY ResponseType DEF AnswerTo, Answer, IsAnswer
  <2>3. AnswersAll(Stream(s)', handled'[s])
    BY <1>1, <1>2, <1>4, <1>6, <2>1, <2>2, AnswersAllAppend
  <2>. QED BY <2>3 DEF AnswersAll, Answers
<1>7. ASSUME NEW k \in Replays, ReplayPush(s, k),
             Stream(s)' = Append(Stream(s), Frame(frame[s][k]))
      PROVE  AnswersAll(Stream(s), handled[s])'
  <2>1. handled'[s] = handled[s]
    BY <1>7 DEF ReplayPush
  <2>2. Frame(frame[s][k]) \in Responses /\ ~IsAnswer(Frame(frame[s][k]))
    BY <1>1, ResponseType DEF ReplayType, Frame, IsAnswer
  <2>3. AnswersAll(Stream(s)', handled'[s])
    BY <1>1, <1>2, <1>4, <1>7, <2>1, <2>2, AnswersAllAppend
  <2>. QED BY <2>3 DEF AnswersAll, Answers
<1>. QED BY <1>3, <1>5, <1>6, <1>7 DEF StreamStep

\* Before anything happens there is nothing to answer.
LEMMA AnswersInit == Init => NewInv /\ AnswersInOrder
<1> SUFFICES ASSUME Init, NEW s \in Clients PROVE AnswersAll(Stream(s), handled[s])
  BY DEF Init, NewInv, AnswersInOrder
<1>1. Stream(s) = <<>> /\ handled[s] = <<>>
  BY DEF Init, Stream
<1>2. Answers(<<>>, 0) = 0
  <2>1. {i \in 1..0 : IsAnswer(<<>>[i])} = {}
    OBVIOUS
  <2>. QED BY <2>1, FS_EmptySet DEF Answers
<1>. QED BY <1>1, <1>2 DEF AnswersAll

\* The answers to the requests of a client are sent in the order of the requests,
\* one each, whatever frames the replay threads queue between them.
THEOREM AnswersOrdered == Spec => []AnswersInOrder
BY TypeInit, TypeStep, AnswersInit, NewStep, AnswersStep, PTL DEF Spec

-----------------------------------------------------------------------------
(* Replays in order. *)

\* Only subscriptions have replay threads, and without one the recording is at its
\* first frame.
ThreadInv ==
  \A s \in Clients :
    /\ subs[s] = 0 => pos[s] = 1
    /\ \A k \in Replays : k > subs[s] => rep[s][k] = "none"

NextFrame(f) == IF f = Recorded THEN 1 ELSE f + 1

\* The last of the replay in t is frame f; the header counts as frame 0.
LatestIs(t, f) ==
  \E i \in DOMAIN t : /\ OfReplay(t[i]) /\ t[i].frame = f
                      /\ \A h \in DOMAIN t : OfReplay(t[h]) => h <= i

\* The only replay thread of s goes on after frame f.
GoesOn(s, f) ==
  /\ rep[s][1] = "test" => pos[s] = f + 1
  /\ rep[s][1] = "lock" => pos[s] = NextFrame(f)
  /\ rep[s][1] = "play" => frame[s][1] = NextFrame(f) /\ pos[s] = NextFrame(f) + 1

TurnInv ==
  \A s \in Clients : snd[s] # "ended" =>
    /\ subs[s] = 0 => \A i \in DOMAIN Stream(s) : ~OfReplay(Stream(s)[i])
    /\ subs[s] = 1 => /\ InTurn(Stream(s))
                      /\ \E f \in 0..Recorded : LatestIs(Stream(s), f) /\ GoesOn(s, f)

\* Every step keeps ThreadInv.
LEMMA ThreadStep == TypeInv /\ ThreadInv /\ [Next]_vars => ThreadInv'
<1> SUFFICES ASSUME TypeInv, ThreadInv, [Next]_vars PROVE ThreadInv'
  OBVIOUS
<1>1. ReplayType
  BY TypeParts DEF TypeInv
<1>2. CASE UNCHANGED replayVars
  BY <1>2 DEF ThreadInv, replayVars
<1>3. CASE Serve \/ CloseAcceptor \/ Shutdown \/ UNCHANGED vars
  <2>1. UNCHANGED replayVars
    BY <1>3 DEF Serve, AcceptFails, AcceptNext, ServeEnds, Accept, PushBack, CloseAcceptor,
                Shutdown, StopIo, Visit, JoinContext, Elsewhere, vars
  <2>. QED BY <1>2, <2>1
<1>4. ASSUME NEW s \in Clients, Client(s) \/ Read(s) \/ ReadFails(s) \/ Sender(s) \/ Joined(s)
      PROVE  ThreadInv'
  <2>1. UNCHANGED replayVars
    BY <1>4 DEF Client, Leave, Reset, Read, ReadFails, Sender, SendLoop, Recv, Write, WriteFails,
                Joined
  <2>. QED BY <1>2, <2>1
<1>5. ASSUME NEW s \in Clients, Send(s) PROVE ThreadInv'
  <2>1. pos' = pos
    BY <1>5 DEF Send
  <2>2. CASE req[s] = "subscribe"
    <3>1. subs' = [subs EXCEPT ![s] = subs[s] + 1] /\ rep' = [rep EXCEPT ![s][subs'[s]] = "test"]
      BY <1>5, <2>2 DEF Send
    <3>2. subs'[s] = subs[s] + 1 /\ subs[s] \in Nat /\ \A t \in Clients : t # s => subs'[t] = subs[t]
      BY <1>1, <3>1 DEF ReplayType
    <3>3. ASSUME NEW t \in Clients, NEW k \in Replays, k > subs'[t] PROVE rep'[t][k] = "none"
      <4>1. k > subs[t] /\ (t # s \/ k # subs'[s])
        BY <1>1, <3>2, <3>3 DEF Replays, ReplayType
      <4>2. rep'[t][k] = rep[t][k]
        BY <1>1, <3>1, <4>1 DEF ReplayType
      <4>. QED BY <4>1, <4>2 DEF ThreadInv
    <3>4. ASSUME NEW t \in Clients, subs'[t] = 0 PROVE pos[t] = 1
      BY <3>2, <3>4 DEF ThreadInv
    <3>. QED BY <2>1, <3>3, <3>4 DEF ThreadInv
  <2>3. CASE req[s] # "subscribe"
    BY <1>5, <2>1, <2>3 DEF Send, ThreadInv
  <2>. QED BY <2>2, <2>3
<1>6. ASSUME NEW s \in Clients, NEW k \in Replays, Replay(s, k) PROVE ThreadInv'
  <2>1. rep[s][k] # "none" /\ subs' = subs
    BY <1>6 DEF Replay, ReplayTest, ReplayFrame, ReplayPush
  <2>2. subs[s] # 0
    BY <1>1, <2>1 DEF ThreadInv, Replays, ReplayType
  <2>3. \A t \in Clients : t # s => pos'[t] = pos[t]
    BY <1>1, <1>6 DEF Replay, ReplayTest, ReplayFrame, ReplayPush, ReplayType
  <2>4. \A t \in Clients, j \in Replays : t # s \/ j # k => rep'[t][j] = rep[t][j]
    <3>1. \E w : rep' = [rep EXCEPT ![s][k] = w]
      <4>1. CASE ReplayTest(s, k)
        BY <4>1 DEF ReplayTest
      <4>2. CASE ReplayFrame(s, k)
        <5>1. CASE pos[s] > Recorded
          <6>1. rep' = [rep EXCEPT ![s][k] = rep[s][k]]
            BY <1>1, <4>2, <5>1 DEF ReplayFrame, ReplayType
          <6>. QED BY <6>1
        <5>2. CASE ~(pos[s] > Recorded)
          BY <4>2, <5>2 DEF ReplayFrame
        <5>. QED BY <5>1, <5>2
      <4>3. CASE ReplayPush(s, k)
        BY <4>3 DEF ReplayPush
      <4>. QED BY <1>6, <4>1, <4>2, <4>3 DEF Replay
    <3>. QED BY <1>1, <3>1 DEF ReplayType
  <2>5. ~(k > subs[s])
    BY <2>1 DEF ThreadInv
  <2>. QED BY <2>1, <2>2, <2>3, <2>4, <2>5 DEF ThreadInv
<1>. QED BY <1>3, <1>4, <1>5, <1>6, NextCases DEF Context

\* A response that is not of the replay changes nothing of the replay's order.
LEMMA OtherAppended ==
  ASSUME NEW t \in Seq(Responses), NEW x \in Responses, ~OfReplay(x)
  PROVE  /\ (\A i \in DOMAIN t : ~OfReplay(t[i])) =>
              \A i \in DOMAIN Append(t, x) : ~OfReplay(Append(t, x)[i])
         /\ InTurn(t) => InTurn(Append(t, x))
         /\ \A f : LatestIs(t, f) => LatestIs(Append(t, x), f)
<1> DEFINE u == Append(t, x)
           n == Len(t)
<1>1. /\ n \in Nat /\ (\A i \in 1..n : u[i] = t[i]) /\ u[n + 1] = x
      /\ DOMAIN t = 1..n /\ DOMAIN u = 1..n + 1
  BY AppendFacts
<1>2. \A i \in 1..n + 1 : OfReplay(u[i]) => i \in 1..n /\ OfReplay(t[i])
  BY <1>1
<1>3. ASSUME InTurn(t) PROVE InTurn(u)
  <2>1. ASSUME NEW j \in 1..n + 1, OfReplay(u[j])
        PROVE  LET before == {i \in 1..j - 1 : OfReplay(u[i])} IN
                 \/ before = {} /\ u[j] = Answer("header")
                 \/ \E i \in before : (\A h \in before : h <= i) /\ u[j] = Following(u[i])
    <3>1. j \in 1..n /\ OfReplay(t[j]) /\ u[j] = t[j]
      BY <1>1, <1>2, <2>1
    <3>2. {i \in 1..j - 1 : OfReplay(u[i])} = {i \in 1..j - 1 : OfReplay(t[i])}
          /\ \A i \in 1..j - 1 : u[i] = t[i]
      BY <1>1, <3>1
    <3>3. LET before == {i \in 1..j - 1 : OfReplay(t[i])} IN
            \/ before = {} /\ t[j] = Answer("header")
            \/ \E i \in before : (\A h \in before : h <= i) /\ t[j] = Following(t[i])
      BY <1>1, <1>3, <3>1 DEF InTurn
    <3>. QED BY <3>1, <3>2, <3>3
  <2>. QED BY <1>1, <2>1 DEF InTurn
<1>4. ASSUME NEW f, LatestIs(t, f) PROVE LatestIs(u, f)
  BY <1>1, <1>2, <1>4 DEF LatestIs
<1>. QED BY <1>1, <1>2, <1>3, <1>4

\* The header comes first.
LEMMA HeaderAppended ==
  ASSUME NEW t \in Seq(Responses), \A i \in DOMAIN t : ~OfReplay(t[i])
  PROVE  InTurn(Append(t, Answer("header"))) /\ LatestIs(Append(t, Answer("header")), 0)
<1> DEFINE x == Answer("header")
           u == Append(t, x)
           n == Len(t)
<1>1. /\ n \in Nat /\ (\A i \in 1..n : u[i] = t[i]) /\ u[n + 1] = x
      /\ DOMAIN t = 1..n /\ DOMAIN u = 1..n + 1
  BY AppendFacts, ResponseType
<1>2. OfReplay(x) /\ x.frame = 0
  BY DEF OfReplay, Answer
<1>3. \A i \in 1..n + 1 : OfReplay(u[i]) => i = n + 1
  BY <1>1
<1>4. InTurn(u)
  <2>1. ASSUME NEW j \in 1..n + 1, OfReplay(u[j])
        PROVE  {i \in 1..j - 1 : OfReplay(u[i])} = {} /\ u[j] = Answer("header")
    BY <1>1, <1>3, <2>1
  <2>. QED BY <1>1, <2>1 DEF InTurn
<1>5. LatestIs(u, 0)
  BY <1>1, <1>2, <1>3 DEF LatestIs
<1>. QED BY <1>4, <1>5

\* Then the frame that follows the latest one.
LEMMA FrameAppended ==
  ASSUME NEW t \in Seq(Responses), NEW f \in 0..Recorded, InTurn(t), LatestIs(t, f)
  PROVE  /\ InTurn(Append(t, Frame(NextFrame(f))))
         /\ LatestIs(Append(t, Frame(NextFrame(f))), NextFrame(f))
<1> DEFINE x == Frame(NextFrame(f))
           u == Append(t, x)
           n == Len(t)
<1>1. Recorded \in Nat \ {0} /\ NextFrame(f) \in 0..Recorded
  BY BoundsAssumption DEF NextFrame
<1>2. x \in Responses
  BY <1>1, ResponseType
<1>3. /\ n \in Nat /\ (\A i \in 1..n : u[i] = t[i]) /\ u[n + 1] = x
      /\ DOMAIN t = 1..n /\ DOMAIN u = 1..n + 1
  BY <1>2, AppendFacts
<1>4. OfReplay(x) /\ x.frame = NextFrame(f)
  BY DEF OfReplay, Frame
<1>5. PICK i \in 1..n : /\ OfReplay(t[i]) /\ t[i].frame = f
                        /\ \A h \in 1..n : OfReplay(t[h]) => h <= i
  BY <1>3 DEF LatestIs
<1>6. x = Following(t[i])
  BY <1>5 DEF Following, NextFrame
<1>7. InTurn(u)
  <2>1. ASSUME NEW j \in 1..n + 1, OfReplay(u[j])
        PROVE  LET before == {h \in 1..j - 1 : OfReplay(u[h])} IN
                 \/ before = {} /\ u[j] = Answer("header")
                 \/ \E h \in before : (\A g \in before : g <= h) /\ u[j] = Following(u[h])
    <3>1. CASE j = n + 1
      <4>1. i \in {h \in 1..j - 1 : OfReplay(u[h])} /\ u[j] = Following(u[i])
        BY <1>3, <1>5, <1>6, <3>1
      <4>2. \A g \in {h \in 1..j - 1 : OfReplay(u[h])} : g <= i
        BY <1>3, <1>5, <3>1
      <4>. QED BY <4>1, <4>2
    <3>2. CASE j \in 1..n
      <4>1. u[j] = t[j]
        BY <1>3, <3>2
      <4>2. {h \in 1..j - 1 : OfReplay(u[h])} = {h \in 1..j - 1 : OfReplay(t[h])}
            /\ \A h \in 1..j - 1 : u[h] = t[h]
        BY <1>3, <3>2
      <4>3. LET before == {h \in 1..j - 1 : OfReplay(t[h])} IN
              \/ before = {} /\ t[j] = Answer("header")
              \/ \E h \in before : (\A g \in before : g <= h) /\ t[j] = Following(t[h])
        BY <1>3, <2>1, <3>2, <4>1 DEF InTurn
      <4>. QED BY <4>1, <4>2, <4>3
    <3>3. n \in Nat
      BY <1>3
    <3>4. j = n + 1 \/ j \in 1..n
      BY <3>3
    <3>. QED BY <3>1, <3>2, <3>4
  <2>. QED BY <1>3, <2>1 DEF InTurn
<1>8. LatestIs(u, NextFrame(f))
  <2>1. n + 1 \in DOMAIN u /\ \A h \in DOMAIN u : h <= n + 1
    BY <1>3
  <2>. QED BY <1>3, <1>4, <2>1 DEF LatestIs
<1>. QED BY <1>7, <1>8

\* Where the only replay thread is, after it has moved on or not.
LEMMA TurnStep ==
  TypeInv /\ NewInv /\ ThreadInv /\ TurnInv /\ [Next]_vars => TurnInv'
<1> SUFFICES ASSUME TypeInv, NewInv, ThreadInv, TurnInv, [Next]_vars,
                    NEW s \in Clients, snd'[s] # "ended"
             PROVE  /\ subs'[s] = 0 => (\A i \in DOMAIN Stream(s) : ~OfReplay(Stream(s)[i]))'
                    /\ subs'[s] = 1 =>
                         /\ InTurn(Stream(s)')
                         /\ \E f \in 0..Recorded : LatestIs(Stream(s)', f) /\ GoesOn(s, f)'
  BY DEF TurnInv, InTurn, LatestIs
<1>1. SessionType /\ ReplayType /\ Stream(s) \in Seq(Responses) /\ Recorded \in Nat \ {0}
  BY TypeParts, StreamType, BoundsAssumption DEF TypeInv
<1>2. subs[s] \in Nat /\ (subs[s] = 1 => 1 \in Replays)
  BY <1>1, BoundsAssumption DEF ReplayType, Replays
<1>3. StreamStep(s)
  BY StreamCases
<1>4. /\ subs[s] = 0 => \A i \in DOMAIN Stream(s) : ~OfReplay(Stream(s)[i])
      /\ subs[s] = 1 => /\ InTurn(Stream(s))
                        /\ \E f \in 0..Recorded : LatestIs(Stream(s), f) /\ GoesOn(s, f)
  BY <1>3 DEF StreamStep, TurnInv
<1>5. ASSUME NEW k \in Replays, subs[s] = 1, rep[s][k] # "none" PROVE k = 1
  BY <1>5 DEF ThreadInv, Replays
<1>6. CASE Stream(s)' = Stream(s) /\ subs'[s] = subs[s] /\ Still(s)
  <2>1. ASSUME NEW f, GoesOn(s, f) PROVE GoesOn(s, f)'
    BY <1>6, <2>1 DEF GoesOn, Still
  <2>2. subs'[s] = 0 => (\A i \in DOMAIN Stream(s) : ~OfReplay(Stream(s)[i]))'
    BY <1>4, <1>6 DEF OfReplay
  <2>3. ASSUME subs'[s] = 1
        PROVE  /\ InTurn(Stream(s)')
               /\ \E f \in 0..Recorded : LatestIs(Stream(s)', f) /\ GoesOn(s, f)'
    <3>1. PICK f \in 0..Recorded : LatestIs(Stream(s), f) /\ GoesOn(s, f)
      BY <1>4, <1>6, <2>3
    <3>2. LatestIs(Stream(s)', f) /\ GoesOn(s, f)'
      BY <1>6, <2>1, <3>1
    <3>3. InTurn(Stream(s)')
      BY <1>4, <1>6, <2>3
    <3>. QED BY <3>2, <3>3
  <2>. QED BY <2>2, <2>3
<1>7. ASSUME Stream(s)' = Stream(s), subs'[s] = subs[s],
             NEW k \in Replays, ReplayTest(s, k) \/ ReplayFrame(s, k), subs[s] = 1,
             NEW f \in 0..Recorded, GoesOn(s, f)
      PROVE  GoesOn(s, f)'
  <2>1. k = 1
    BY <1>5, <1>7 DEF ReplayTest, ReplayFrame
  <2>2. CASE ReplayTest(s, k)
    <3>1. rep[s][1] = "test" /\ pos[s] = f + 1
      BY <1>7, <2>1, <2>2 DEF ReplayTest, GoesOn
    <3>2. CASE active[s]
      <4>1. rep'[s][1] = "lock"
        BY <1>1, <2>1, <2>2, <3>2 DEF ReplayTest, ReplayType
      <4>2. pos'[s] = IF pos[s] > Recorded THEN 1 ELSE pos[s]
        BY <1>1, <2>1, <2>2, <3>2 DEF ReplayTest, ReplayType
      <4>3. pos'[s] = NextFrame(f)
        BY <1>1, <3>1, <4>2 DEF NextFrame
      <4>. QED BY <4>1, <4>3 DEF GoesOn
    <3>3. CASE ~active[s]
      <4>1. rep'[s][1] = "ended"
        BY <1>1, <2>1, <2>2, <3>3 DEF ReplayTest, ReplayType
      <4>. QED BY <4>1 DEF GoesOn
    <3>. QED BY <3>2, <3>3
  <2>3. CASE ReplayFrame(s, k)
    <3>1. rep[s][1] = "lock" /\ pos[s] = NextFrame(f) /\ NextFrame(f) \in 1..Recorded
      <4>1. rep[s][1] = "lock"
        BY <2>1, <2>3 DEF ReplayFrame
      <4>2. pos[s] = NextFrame(f)
        BY <1>7, <4>1 DEF GoesOn
      <4>3. NextFrame(f) \in 1..Recorded
        BY <1>1 DEF NextFrame
      <4>. QED BY <4>1, <4>2, <4>3
    <3>2. ~(pos[s] > Recorded)
      BY <1>1, <3>1
    <3>3. /\ rep'[s][1] \in {"forever", "play"} /\ frame'[s][1] = pos[s]
          /\ pos'[s] = pos[s] + 1
      BY <1>1, <2>1, <2>3, <3>2 DEF ReplayFrame, ReplayType
    <3>. QED BY <3>1, <3>3 DEF GoesOn
  <2>. QED BY <1>7, <2>2, <2>3
<1>8. CASE Send(s) /\ Stream(s)' = Append(Stream(s), AnswerTo(req[s]))
  <2>1. AnswerTo(req[s]) \in Responses
    BY ResponseType
  <2>2. CASE req[s] # "subscribe"
    <3>1. ~OfReplay(AnswerTo(req[s]))
      BY <2>2 DEF AnswerTo, Answer, OfReplay
    <3>2. UNCHANGED <<subs, rep, pos, frame>>
      BY <1>8, <2>2 DEF Send
    <3>3. \A f : GoesOn(s, f) => GoesOn(s, f)'
      BY <3>2 DEF GoesOn
    <3>. QED BY <1>1, <1>4, <1>8, <2>1, <3>1, <3>2, <3>3, OtherAppended
  <2>3. CASE req[s] = "subscribe"
    <3>1. /\ subs'[s] = subs[s] + 1 /\ rep' = [rep EXCEPT ![s][subs[s] + 1] = "test"]
          /\ pos' = pos
      BY <1>1, <1>8, <2>3 DEF Send, ReplayType
    <3>2. AnswerTo(req[s]) = Answer("header")
      BY <2>3 DEF AnswerTo
    <3>3. ASSUME subs'[s] = 1
          PROVE  InTurn(Stream(s)') /\ LatestIs(Stream(s)', 0) /\ GoesOn(s, 0)'
      <4>1. subs[s] = 0 /\ pos[s] = 1
        BY <1>2, <3>1, <3>3 DEF ThreadInv
      <4>2. InTurn(Stream(s)') /\ LatestIs(Stream(s)', 0)
        BY <1>1, <1>4, <1>8, <3>2, <4>1, HeaderAppended
      <4>3. subs'[s] \in 0..MaxReplays
        BY SessionStepType, <1>8, TypePartsNext DEF TypeInv, Context, ReplayType
      <4>4. 1 \in Replays
        BY <3>3, <4>3, BoundsAssumption DEF Replays
      <4>5. rep'[s][1] = "test" /\ pos'[s] = 0 + 1
        BY <1>1, <3>1, <4>1, <4>4 DEF ReplayType
      <4>. QED BY <4>2, <4>5 DEF GoesOn
    <3>4. subs'[s] # 0
      BY <1>2, <3>1
    <3>5. 0 \in 0..Recorded
      BY <1>1
    <3>. QED BY <3>3, <3>4, <3>5
  <2>. QED BY <2>2, <2>3
<1>9. ASSUME NEW k \in Replays, ReplayPush(s, k),
             Stream(s)' = Append(Stream(s), Frame(frame[s][k])), subs'[s] = 1
      PROVE  /\ InTurn(Stream(s)')
             /\ \E f \in 0..Recorded : LatestIs(Stream(s)', f) /\ GoesOn(s, f)'
  <2>1. subs[s] = 1 /\ k = 1 /\ rep[s][1] = "play"
    BY <1>5, <1>9 DEF ReplayPush
  <2>2. PICK f \in 0..Recorded : LatestIs(Stream(s), f) /\ GoesOn(s, f)
    BY <1>4, <2>1
  <2>3. frame[s][1] = NextFrame(f) /\ pos[s] = NextFrame(f) + 1
    BY <2>1, <2>2 DEF GoesOn
  <2>4. InTurn(Stream(s)') /\ LatestIs(Stream(s)', NextFrame(f))
    BY <1>1, <1>4, <1>9, <2>1, <2>2, <2>3, FrameAppended
  <2>5. rep'[s][1] = "test" /\ pos'[s] = pos[s]
    BY <1>1, <1>9, <2>1 DEF ReplayPush, ReplayType
  <2>6. GoesOn(s, NextFrame(f))'
    BY <2>3, <2>5 DEF GoesOn
  <2>7. NextFrame(f) \in 0..Recorded
    BY <1>1 DEF NextFrame
  <2>. QED BY <2>4, <2>6, <2>7
<1>10. ASSUME NEW k \in Replays, ReplayPush(s, k) PROVE subs'[s] # 0
  <2>1. subs' = subs /\ rep[s][k] = "play"
    BY <1>10 DEF ReplayPush
  <2>2. ~(k > subs[s]) /\ k \in Nat /\ k > 0
    BY <2>1 DEF ThreadInv, Replays
  <2>. QED BY <1>2, <2>1, <2>2
<1>11. CASE Stream(s)' = Stream(s) /\ subs'[s] = subs[s]
            /\ \E k \in Replays : ReplayTest(s, k) \/ ReplayFrame(s, k)
  BY <1>4, <1>7, <1>11
<1>. QED BY <1>3, <1>6, <1>8, <1>9, <1>10, <1>11 DEF StreamStep

\* There is nothing to replay at first.
LEMMA TurnInit == Init => ThreadInv /\ TurnInv
<1> SUFFICES ASSUME Init PROVE ThreadInv /\ TurnInv
  OBVIOUS
<1>1. ThreadInv
  BY DEF Init, ThreadInv
<1>2. ASSUME NEW s \in Clients PROVE Stream(s) = <<>> /\ subs[s] = 0
  BY DEF Init, Stream
<1>. QED BY <1>1, <1>2 DEF TurnInv

\* What a client that has subscribed once is sent of the recording is its header and
\* then its frames from the first on, round and round, however the queue is shared.
THEOREM ReplaysInOrder == Spec => []ReplayInOrder
<1>1. TurnInv => ReplayInOrder
  BY DEF TurnInv, ReplayInOrder
<1>2. Init => NewInv
  BY AnswersInit
<1>. QED BY <1>1, <1>2, TypeInit, TypeStep, NewStep, ThreadStep, TurnInit, TurnStep, PTL DEF Spec
=============================================================================
