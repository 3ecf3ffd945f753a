---------------------------- MODULE MockupServer ----------------------------
(***************************************************************************)
(* The LiDAR mock-up: mockup_server (accept loop, serve_forever and an     *)
(* asynchronous shutdown), a mockup_session per client (a context thread   *)
(* that reads requests and a send thread that writes responses) and its    *)
(* simulated_connection (a queue of responses with its mutex and           *)
(* condition, and a thread per subscription that replays a recording).     *)
(*                                                                         *)
(* A session lives as long as somebody holds a reference: the accept       *)
(* handler, the context thread while it reads, the send thread while it    *)
(* has locked its weak pointer, shutdown while it stops it.  Who lets the  *)
(* last one go runs the destructor, which joins the last replay thread.    *)
(*                                                                         *)
(* Once the process is undone (down), nothing more is concluded.           *)
(* External: sockets and clients.  Abstracted: messages; the two reads of  *)
(* one request are one; sleeping is a step; a condition wakes only when    *)
(* notified.  A client reads what it is sent.                              *)
(* Bounds: MaxRequests per client, MaxReplays of them subscriptions,       *)
(* MaxPlayed frames replayed per session.                                  *)
(***************************************************************************)
EXTENDS Integers, Sequences, FiniteSets

CONSTANTS
  Clients,      \* each connects at most once; also the name of its session
  Recorded,     \* frames in the recording
  MaxRequests,  \* requests per client
  MaxReplays,   \* subscriptions to the point cloud among them
  MaxPlayed     \* frames replayed per session

ASSUME BoundsAssumption ==
  /\ IsFiniteSet(Clients) /\ Recorded \in Nat \ {0}
  /\ MaxRequests \in Nat /\ MaxReplays \in Nat /\ MaxPlayed \in Nat

VARIABLES
  \* the server
  serve,        \* the thread in serve_forever
  current,      \* the client of the accept handler
  open,         \* the acceptor is open
  accepting,    \* an async_accept is outstanding
  stopped,      \* the io_context of the server is stopped
  listed,       \* sessions
  shut,         \* the thread in shutdown
  todo,         \* sessions its loop has yet to visit
  target,       \* the one it stops
  \* the connections
  link,         \* the client's end: "none", "up", "left", "gone" (and reset)
  out,          \* responses written to the socket
  sock,         \* the session's end: "none", "open", "closed"
  \* the sessions
  life,         \* "none", "alive", "joining" (in its destructor), "dead"
  by,           \* the thread that runs the destructor
  ctx,          \* the context thread
  req,          \* the request it handles
  snd,          \* the send thread
  resp,         \* the response it writes
  queue,        \* response_buffer
  handled,      \* requests handled (history)
  \* the recording and its replays
  subs,         \* subscriptions so far; dump_thread is the last one's
  active,       \* dump_active
  pos,          \* the frame dump_stream gives next; Recorded + 1 is the footer
  rep,          \* the replay threads
  frame,        \* the frame each holds
  last,         \* its last_ts
  played,       \* frames replayed
  down          \* the process is undone, and why

serverVars == <<serve, current, open, accepting, stopped, listed>>
shutVars == <<shut, todo, target>>
lifeVars == <<life, by>>
sessionVars == <<ctx, req, snd, resp, queue, handled>>
replayVars == <<subs, pos, rep, frame, last, played>>
vars == <<serverVars, shutVars, link, out, sock, lifeVars, sessionVars,
          replayVars, active, down>>

\* What is neither a subscription nor garbled has an answer and no other effect.
Requests == {"plain", "subscribe", "garbled"}
Replays == 1..MaxReplays
\* Responses: the answer to a request, or a frame.
Responses == [kind : {"plain", "header", "frame"}, frame : 0..Recorded]
Answer(kind) == [kind |-> kind, frame |-> 0]
Frame(f) == [kind |-> "frame", frame |-> f]
IsAnswer(r) == r.kind # "frame"
Nobody == "nobody"

\* simulated_connection::send, the answer: a subscription gets the recording's header.
AnswerTo(r) == Answer(IF r = "subscribe" THEN "header" ELSE "plain")

\* response_mutex: a replay thread keeps it from recv_frame to push_back.
Free(s) == \A k \in Replays : rep[s][k] \notin {"play", "forever"}

\* Somebody holds a reference to the session.
Held(s) ==
  \/ serve \in {"next", "push"} /\ current = s
  \/ ctx[s] \in {"read", "send"}
  \/ snd[s] \in {"recv", "wait", "woken", "write"}
  \/ shut = "join" /\ target = s

\* A thread in a destructor does nothing else.
Busy(who) == \E s \in Clients : life[s] = "joining" /\ by[s] = who

Up == down = "no"

Init ==
  /\ serve = "run" /\ current = Nobody /\ open = TRUE /\ accepting = TRUE
  /\ stopped = FALSE /\ listed = {} /\ shut = "no" /\ todo = {} /\ target = Nobody
  /\ link = [s \in Clients |-> "none"]
  /\ out = [s \in Clients |-> <<>>]
  /\ sock = [s \in Clients |-> "none"]
  /\ life = [s \in Clients |-> "none"] /\ by = [s \in Clients |-> Nobody]
  /\ ctx = [s \in Clients |-> "none"] /\ req = [s \in Clients |-> "plain"]
  /\ snd = [s \in Clients |-> "none"]
  /\ resp = [s \in Clients |-> Answer("plain")] /\ queue = [s \in Clients |-> <<>>]
  /\ handled = [s \in Clients |-> <<>>]
  /\ subs = [s \in Clients |-> 0] /\ active = [s \in Clients |-> TRUE]
  /\ pos = [s \in Clients |-> 1]
  /\ rep = [s \in Clients |-> [k \in Replays |-> "none"]]
  /\ frame = [s \in Clients |-> [k \in Replays |-> 0]]
  /\ last = [s \in Clients |-> [k \in Replays |-> 0]]
  /\ played = [s \in Clients |-> 0] /\ down = "no"

-----------------------------------------------------------------------------
(* Clients. *)

Leave(s) ==
  /\ Up /\ link[s] = "up"
  /\ link' = [link EXCEPT ![s] = "left"]
  /\ UNCHANGED <<serverVars, shutVars, out, sock, lifeVars, sessionVars, replayVars,
                 active, down>>

\* From now on a write finds the connection reset.
Reset(s) ==
  /\ Up /\ link[s] = "left"
  /\ link' = [link EXCEPT ![s] = "gone"]
  /\ UNCHANGED <<serverVars, shutVars, out, sock, lifeVars, sessionVars, replayVars,
                 active, down>>

-----------------------------------------------------------------------------
(* References and the destructor. *)

\* A plausible mistake: the destructor leaves dump_active set.
LetGoForgets(s, who) ==
  IF Held(s)'
  THEN UNCHANGED <<lifeVars, active, down>>
  ELSE /\ UNCHANGED active
       /\ by' = [by EXCEPT ![s] = who]
       /\ IF subs[s] = 0
          THEN down' = "no replay to join" /\ UNCHANGED life
          ELSE life' = [life EXCEPT ![s] = "joining"] /\ UNCHANGED down

\* Thread who has let a reference go: with the last one it runs the destructor of
\* the session and so of the simulated connection, which joins dump_thread.
LetGo(s, who) ==
  IF Held(s)'
  THEN UNCHANGED <<lifeVars, active, down>>
  ELSE /\ active' = [active EXCEPT ![s] = FALSE]
       /\ by' = [by EXCEPT ![s] = who]
       /\ IF subs[s] = 0
          THEN down' = "no replay to join" /\ UNCHANGED life
          ELSE life' = [life EXCEPT ![s] = "joining"] /\ UNCHANGED down

\* The join returns, and the last reference to the socket goes.  A replay thread of
\* an earlier subscription is detached, and goes on with an object that is gone.
Joined(s) ==
  /\ Up /\ life[s] = "joining" /\ rep[s][subs[s]] = "ended"
  /\ life' = [life EXCEPT ![s] = "dead"]
  /\ down' = IF \A k \in 1..subs[s] : rep[s][k] = "ended" THEN "no" ELSE "dead object"
  /\ sock' = [sock EXCEPT ![s] = "closed"]
  /\ UNCHANGED <<serverVars, shutVars, link, out, by, sessionVars, replayVars, active>>

-----------------------------------------------------------------------------
(* serve_forever: the accept handler, which makes the session and starts it. *)

\* A client has connected.
Accept(s) ==
  /\ Up /\ serve = "run" /\ ~Busy("serve") /\ ~stopped
  /\ accepting /\ open /\ link[s] = "none" /\ link' = [link EXCEPT ![s] = "up"]
  /\ serve' = "next" /\ current' = s /\ accepting' = FALSE
  /\ sock' = [sock EXCEPT ![s] = "open"] /\ life' = [life EXCEPT ![s] = "alive"]
  /\ ctx' = [ctx EXCEPT ![s] = "read"] /\ snd' = [snd EXCEPT ![s] = "loop"]
  /\ UNCHANGED <<open, stopped, listed, shutVars, out, by, req, resp, queue, handled,
                 replayVars, active, down>>

\* The handler of an accept that failed does not look at its error: the socket it
\* makes a session of has no remote_endpoint().
AcceptFails ==
  /\ Up /\ serve = "run" /\ ~Busy("serve") /\ ~stopped /\ accepting /\ ~open
  /\ serve' = "threw" /\ accepting' = FALSE
  /\ UNCHANGED <<current, open, stopped, listed, shutVars, link, out, sock, lifeVars,
                 sessionVars, replayVars, active, down>>

\* An acceptor that is closed after this test gives its handler an error, as one
\* that is closed before the next client has come.
AcceptNext ==
  /\ Up /\ serve = "next"
  /\ serve' = "push" /\ accepting' = open
  /\ UNCHANGED <<current, open, stopped, listed, shutVars, link, out, sock, lifeVars,
                 sessionVars, replayVars, active, down>>

\* The handler's reference ends with it.  No lock protects the list from shutdown.
PushBack(s) ==
  /\ Up /\ serve = "push" /\ current = s
  /\ serve' = "run" /\ listed' = listed \cup {s}
  /\ UNCHANGED <<current, open, accepting, stopped, shutVars, link, out, sock,
                 sessionVars, replayVars>>
  /\ IF shut \in {"loop", "join"}
     THEN down' = "list race" /\ UNCHANGED <<lifeVars, active>>
     ELSE LetGo(s, "serve")

\* run() is stopped or has nothing left to do.
ServeEnds ==
  /\ Up /\ serve = "run" /\ ~Busy("serve") /\ (stopped \/ ~accepting)
  /\ serve' = "returned"
  /\ UNCHANGED <<current, open, accepting, stopped, listed, shutVars, link, out, sock,
                 lifeVars, sessionVars, replayVars, active, down>>

-----------------------------------------------------------------------------
(* shutdown, on another thread. *)

\* What shutdown leaves alone in most of its steps.
Elsewhere == UNCHANGED <<serve, current, accepting, listed, link, out, sessionVars,
                         replayVars>>

CloseAcceptor ==
  /\ Up /\ shut = "no"
  /\ open' = FALSE /\ shut' = "loop" /\ todo' = listed
  /\ UNCHANGED <<stopped, target, sock, lifeVars, active, down>> /\ Elsewhere

\* A plausible mistake: stop() leaves the socket open.
VisitNoClose(s) ==
  /\ Up /\ shut = "loop" /\ ~Busy("shut") /\ s \in todo
  /\ todo' = todo \ {s}
  /\ IF life[s] = "alive"
     THEN shut' = "join" /\ target' = s /\ UNCHANGED sock
     ELSE UNCHANGED <<shut, target, sock>>
  /\ UNCHANGED <<open, stopped, lifeVars, active, down>> /\ Elsewhere

\* session.lock(), and stop() when it is still there.
Visit(s) ==
  /\ Up /\ shut = "loop" /\ ~Busy("shut") /\ s \in todo
  /\ todo' = todo \ {s}
  /\ IF life[s] = "alive"
     THEN shut' = "join" /\ target' = s /\ sock' = [sock EXCEPT ![s] = "closed"]
     ELSE UNCHANGED <<shut, target, sock>>
  /\ UNCHANGED <<open, stopped, lifeVars, active, down>> /\ Elsewhere

\* context_thread->join() returns, and the reference ends with the loop's body.
JoinContext(s) ==
  /\ Up /\ shut = "join" /\ target = s /\ ctx[s] = "ended"
  /\ shut' = "loop" /\ target' = Nobody
  /\ UNCHANGED <<open, stopped, todo, sock>> /\ Elsewhere
  /\ LetGo(s, "shut")

StopIo ==
  /\ Up /\ shut = "loop" /\ ~Busy("shut") /\ todo = {}
  /\ shut' = "done" /\ stopped' = TRUE
  /\ UNCHANGED <<open, todo, target, sock, lifeVars, active, down>> /\ Elsewhere

-----------------------------------------------------------------------------
(* The context thread: do_read and simulated_connection::send. *)

\* A request has come.  One that cannot be parsed ends the reading, and only that.
Read(s) ==
  /\ Up /\ ctx[s] = "read" /\ sock[s] = "open" /\ Len(handled[s]) < MaxRequests
  /\ \E r \in Requests :
       /\ r = "subscribe" => subs[s] < MaxReplays
       /\ req' = [req EXCEPT ![s] = r]
       /\ ctx' = [ctx EXCEPT ![s] = IF r = "garbled" THEN "ended" ELSE "send"]
  /\ UNCHANGED <<serverVars, shutVars, link, out, sock, snd, resp, queue, handled,
                 replayVars>>
  /\ LetGo(s, "ctx")

ReadFails(s) ==
  /\ Up /\ ctx[s] = "read" /\ (sock[s] = "closed" \/ link[s] \in {"left", "gone"})
  /\ ctx' = [ctx EXCEPT ![s] = "ended"] /\ sock' = [sock EXCEPT ![s] = "closed"]
  /\ UNCHANGED <<serverVars, shutVars, link, out, req, snd, resp, queue, handled, replayVars>>
  /\ LetGo(s, "ctx")

\* response_condition.notify_all()
Notify(s) == snd' = [snd EXCEPT ![s] = IF @ = "wait" THEN "woken" ELSE @]

\* A plausible mistake: the answer overtakes what is queued.
SendFirst(s) ==
  /\ Up /\ ctx[s] = "send" /\ Free(s)
  /\ ctx' = [ctx EXCEPT ![s] = "read"]
  /\ queue' = [queue EXCEPT ![s] = <<AnswerTo(req[s])>> \o @]
  /\ handled' = [handled EXCEPT ![s] = Append(@, req[s])]
  /\ IF req[s] = "subscribe"
     THEN /\ subs' = [subs EXCEPT ![s] = @ + 1]
          /\ rep' = [rep EXCEPT ![s][subs'[s]] = "test"]
     ELSE UNCHANGED <<subs, rep>>
  /\ Notify(s)
  /\ UNCHANGED <<serverVars, shutVars, link, out, sock, lifeVars, req, resp, pos, frame,
                 last, played, active, down>>

\* The answer is queued; a subscription starts a replay thread, which finds the
\* mutex taken until then.
Send(s) ==
  /\ Up /\ ctx[s] = "send" /\ Free(s)
  /\ ctx' = [ctx EXCEPT ![s] = "read"]
  /\ queue' = [queue EXCEPT ![s] = Append(@, AnswerTo(req[s]))]
  /\ handled' = [handled EXCEPT ![s] = Append(@, req[s])]
  /\ IF req[s] = "subscribe"
     THEN /\ subs' = [subs EXCEPT ![s] = @ + 1]
          /\ rep' = [rep EXCEPT ![s][subs'[s]] = "test"]
     ELSE UNCHANGED <<subs, rep>>
  /\ Notify(s)
  /\ UNCHANGED <<serverVars, shutVars, link, out, sock, lifeVars, req, resp, pos, frame,
                 last, played, active, down>>

-----------------------------------------------------------------------------
(* The send thread: do_send and simulated_connection::recv. *)

\* weak_self.lock()
SendLoop(s) ==
  /\ Up /\ snd[s] = "loop" /\ ~(life[s] = "joining" /\ by[s] = "snd")
  /\ snd' = [snd EXCEPT ![s] = IF life[s] = "alive" THEN "recv" ELSE "ended"]
  /\ UNCHANGED <<serverVars, shutVars, link, out, sock, lifeVars, ctx, req, resp, queue,
                 handled, replayVars, active, down>>

\* The queue is tested once: after a wait its front is taken without another look.
Recv(s) ==
  /\ Up /\ snd[s] \in {"recv", "woken"} /\ Free(s)
  /\ IF queue[s] # <<>>
     THEN /\ resp' = [resp EXCEPT ![s] = Head(queue[s])]
          /\ queue' = [queue EXCEPT ![s] = Tail(@)]
          /\ snd' = [snd EXCEPT ![s] = "write"]
     ELSE snd' = [snd EXCEPT ![s] = "wait"] /\ UNCHANGED <<resp, queue>>
  /\ down' = IF queue[s] = <<>> /\ snd[s] = "woken" THEN "empty queue" ELSE "no"
  /\ UNCHANGED <<serverVars, shutVars, link, out, sock, lifeVars, ctx, req, handled,
                 replayVars, active>>

\* A plausible mistake: one response and the loop is over.
WriteOnce(s) ==
  /\ Up /\ snd[s] = "write" /\ sock[s] = "open" /\ link[s] # "gone"
  /\ snd' = [snd EXCEPT ![s] = "ended"]
  /\ out' = [out EXCEPT ![s] = Append(@, resp[s])]
  /\ UNCHANGED <<serverVars, shutVars, link, sock, ctx, req, resp, queue, handled,
                 replayVars>>
  /\ LetGo(s, "snd")

\* A write to a client that has just left still succeeds.
Write(s) ==
  /\ Up /\ snd[s] = "write" /\ sock[s] = "open" /\ link[s] # "gone"
  /\ snd' = [snd EXCEPT ![s] = "loop"]
  /\ out' = [out EXCEPT ![s] = Append(@, resp[s])]
  /\ UNCHANGED <<serverVars, shutVars, link, sock, ctx, req, resp, queue, handled,
                 replayVars>>
  /\ LetGo(s, "snd")

WriteFails(s) ==
  /\ Up /\ snd[s] = "write" /\ (sock[s] = "closed" \/ link[s] = "gone")
  /\ snd' = [snd EXCEPT ![s] = "ended"] /\ sock' = [sock EXCEPT ![s] = "closed"]
  /\ UNCHANGED <<serverVars, shutVars, link, out, ctx, req, resp, queue, handled,
                 replayVars>>
  /\ LetGo(s, "snd")

-----------------------------------------------------------------------------
(* A replay thread. *)

\* A plausible mistake: the jump goes to the header of the recording.
ReplayTestHeader(s, k) ==
  /\ Up /\ rep[s][k] = "test"
  /\ IF active[s]
     THEN /\ played[s] < MaxPlayed /\ played' = [played EXCEPT ![s] = @ + 1]
          /\ rep' = [rep EXCEPT ![s][k] = "lock"]
          /\ IF pos[s] > Recorded
             THEN pos' = [pos EXCEPT ![s] = 0] /\ last' = [last EXCEPT ![s][k] = 0]
             ELSE UNCHANGED <<pos, last>>
     ELSE rep' = [rep EXCEPT ![s][k] = "ended"] /\ UNCHANGED <<pos, last, played>>
  /\ UNCHANGED <<serverVars, shutVars, link, out, sock, lifeVars, sessionVars, subs,
                 frame, active, down>>

\* dump_active, end_of_stream() and jump_to_first_frame(), without the mutex.
ReplayTest(s, k) ==
  /\ Up /\ rep[s][k] = "test"
  /\ IF active[s]
     THEN /\ played[s] < MaxPlayed /\ played' = [played EXCEPT ![s] = @ + 1]
          /\ rep' = [rep EXCEPT ![s][k] = "lock"]
          /\ IF pos[s] > Recorded
             THEN pos' = [pos EXCEPT ![s] = 1] /\ last' = [last EXCEPT ![s][k] = 0]
             ELSE UNCHANGED <<pos, last>>
     ELSE rep' = [rep EXCEPT ![s][k] = "ended"] /\ UNCHANGED <<pos, last, played>>
  /\ UNCHANGED <<serverVars, shutVars, link, out, sock, lifeVars, sessionVars, subs,
                 frame, active, down>>

\* recv_frame(), which throws at the end, and the pause since the last frame: an
\* unsigned difference, so that a frame from before the last is waited for for ever.
ReplayFrame(s, k) ==
  /\ Up /\ rep[s][k] = "lock" /\ Free(s)
  /\ IF pos[s] > Recorded
     THEN down' = "end of recording" /\ UNCHANGED <<pos, frame, rep>>
     ELSE /\ frame' = [frame EXCEPT ![s][k] = pos[s]]
          /\ pos' = [pos EXCEPT ![s] = @ + 1]
          /\ rep' = [rep EXCEPT ![s][k] = IF pos[s] < last[s][k] THEN "forever" ELSE "play"]
          /\ UNCHANGED down
  /\ UNCHANGED <<serverVars, shutVars, link, out, sock, lifeVars, sessionVars, subs,
                 last, played, active>>

\* A plausible mistake: a frame overtakes what is queued.
ReplayPushFirst(s, k) ==
  /\ Up /\ rep[s][k] = "play"
  /\ rep' = [rep EXCEPT ![s][k] = "test"]
  /\ last' = [last EXCEPT ![s][k] = frame[s][k]]
  /\ queue' = [queue EXCEPT ![s] = <<Frame(frame[s][k])>> \o @]
  /\ Notify(s)
  /\ UNCHANGED <<serverVars, shutVars, link, out, sock, lifeVars, ctx, req, resp, handled,
                 subs, pos, frame, played, active, down>>

\* A plausible mistake: nobody is notified.
ReplayPushSilent(s, k) ==
  /\ Up /\ rep[s][k] = "play"
  /\ rep' = [rep EXCEPT ![s][k] = "test"]
  /\ last' = [last EXCEPT ![s][k] = frame[s][k]]
  /\ queue' = [queue EXCEPT ![s] = Append(@, Frame(frame[s][k]))]
  /\ UNCHANGED <<snd, serverVars, shutVars, link, out, sock, lifeVars, ctx, req, resp, handled,
                 subs, pos, frame, played, active, down>>

ReplayPush(s, k) ==
  /\ Up /\ rep[s][k] = "play"
  /\ rep' = [rep EXCEPT ![s][k] = "test"]
  /\ last' = [last EXCEPT ![s][k] = frame[s][k]]
  /\ queue' = [queue EXCEPT ![s] = Append(@, Frame(frame[s][k]))]
  /\ Notify(s)
  /\ UNCHANGED <<serverVars, shutVars, link, out, sock, lifeVars, ctx, req, resp, handled,
                 subs, pos, frame, played, active, down>>

-----------------------------------------------------------------------------

Client(s) == Leave(s) \/ Reset(s)
Serve == AcceptFails \/ AcceptNext \/ ServeEnds
         \/ \E s \in Clients : Accept(s) \/ PushBack(s)
Shutdown == StopIo \/ \E s \in Clients : Visit(s) \/ JoinContext(s)
Context(s) == Read(s) \/ ReadFails(s) \/ Send(s)
Sender(s) == SendLoop(s) \/ Recv(s) \/ Write(s) \/ WriteFails(s)
Replay(s, k) == ReplayTest(s, k) \/ ReplayFrame(s, k) \/ ReplayPush(s, k)

Next == \/ Serve \/ CloseAcceptor \/ Shutdown
        \/ \E s \in Clients :
             \/ Client(s) \/ Context(s) \/ Sender(s) \/ Joined(s)
             \/ \E k \in Replays : Replay(s, k)

Spec == Init /\ [][Next]_vars

\* Threads run, and one that waits for the mutex of a queue gets it.  Nothing is
\* assumed of the clients.
Fairness ==
  /\ WF_vars(Serve) /\ WF_vars(Shutdown)
  /\ \A s \in Clients :
       /\ SF_vars(ReadFails(s) \/ Send(s)) /\ SF_vars(Sender(s)) /\ WF_vars(Joined(s))
       /\ \A k \in Replays : SF_vars(Replay(s, k))
FairSpec == Spec /\ Fairness

-----------------------------------------------------------------------------
(* Properties *)

TypeOK ==
  /\ serve \in {"run", "next", "push", "returned", "threw"}
  /\ current \in Clients \cup {Nobody} /\ open \in BOOLEAN /\ accepting \in BOOLEAN
  /\ stopped \in BOOLEAN /\ listed \subseteq Clients
  /\ shut \in {"no", "loop", "join", "done"} /\ todo \subseteq listed
  /\ target \in Clients \cup {Nobody}
  /\ link \in [Clients -> {"none", "up", "left", "gone"}]
  /\ req \in [Clients -> Requests] /\ out \in [Clients -> Seq(Responses)]
  /\ sock \in [Clients -> {"none", "open", "closed"}]
  /\ life \in [Clients -> {"none", "alive", "joining", "dead"}]
  /\ by \in [Clients -> {Nobody, "serve", "shut", "ctx", "snd"}]
  /\ ctx \in [Clients -> {"none", "read", "send", "ended"}]
  /\ snd \in [Clients -> {"none", "loop", "recv", "wait", "woken", "write", "ended"}]
  /\ resp \in [Clients -> Responses] /\ queue \in [Clients -> Seq(Responses)]
  /\ handled \in [Clients -> Seq(Requests)] /\ subs \in [Clients -> 0..MaxReplays]
  /\ active \in [Clients -> BOOLEAN] /\ pos \in [Clients -> 1..Recorded + 1]
  /\ rep \in [Clients -> [Replays -> {"none", "test", "lock", "play", "forever", "ended"}]]
  /\ frame \in [Clients -> [Replays -> 0..Recorded]]
  /\ last \in [Clients -> [Replays -> 0..Recorded]]
  /\ played \in [Clients -> 0..MaxPlayed]
  /\ down \in {"no", "no replay to join", "dead object", "list race", "empty queue",
               "end of recording"}

\* Everything the client has been or will be sent, until a write fails.
Stream(s) == out[s] \o (IF snd[s] = "write" THEN <<resp[s]>> ELSE <<>>) \o queue[s]

\* How many of the first n responses are answers.
Answers(t, n) == Cardinality({i \in 1..n : IsAnswer(t[i])})

\* Responses t have one answer to each of requests q, in their order.
AnswersAll(t, q) ==
  /\ Answers(t, Len(t)) = Len(q)
  /\ \A i \in DOMAIN t : IsAnswer(t[i]) => t[i] = AnswerTo(q[Answers(t, i)])

\* Each request that was handled has one answer, in the order of the requests,
\* whatever the replay threads put between them (simulated_connection::send).
AnswersInOrder ==
  \A s \in Clients : snd[s] # "ended" => AnswersAll(Stream(s), handled[s])

OfReplay(r) == r.kind \in {"header", "frame"}

\* The frame after r, round and round; the header comes before the first.
Following(r) == Frame(IF r.frame = Recorded THEN 1 ELSE r.frame + 1)

\* What belongs to the replay in t is the header and then the frames in their turn.
InTurn(t) ==
  \A j \in DOMAIN t : OfReplay(t[j]) =>
    LET before == {i \in 1..j - 1 : OfReplay(t[i])} IN
      \/ before = {} /\ t[j] = Answer("header")
      \/ \E i \in before : (\A h \in before : h <= i) /\ t[j] = Following(t[i])

\* The frames of one subscription come after its answer, from the first on, round
\* and round (the comment of mockup_server: it loops through the dump file).
ReplayInOrder ==
  \A s \in Clients : subs[s] = 1 /\ snd[s] # "ended" => InTurn(Stream(s))

\* The send thread never sleeps on a response, nor wakes to an empty queue although
\* it does not look again.
WakesToWork ==
  /\ \A s \in Clients : snd[s] = "wait" => queue[s] = <<>>
  /\ down # "empty queue"

Stuck(s) == \E k \in Replays : rep[s][k] = "forever"

\* A request that was handled is answered, as long as the connection lasts.
AnswerSent ==
  \A s \in Clients, n \in 1..MaxRequests :
    Len(handled[s]) >= n ~>
      \/ Answers(out[s], Len(out[s])) >= n
      \/ link[s] \in {"left", "gone"} \/ sock[s] = "closed" \/ ~Up \/ Stuck(s)

\* shutdown comes back, whatever its sessions are doing.
ShutdownReturns == shut = "loop" ~> shut = "done" \/ ~Up \/ \E s \in Clients : Stuck(s)

\* A session that replays does not outlive its client for good: the next response
\* finds the connection gone, and who lets the last reference go ends the replay.
SessionEnds ==
  \A s \in Clients :
    subs[s] > 0 /\ link[s] = "gone" /\ queue[s] # <<>> ~>
      life[s] = "dead" \/ ~Up \/ Stuck(s)

=============================================================================
