---------------------------- MODULE WsConnector -----------------------------
(***************************************************************************)
(* WsConnector (src/connector/WsConnector.h) with the parts of websocketpp *)
(* and boost::asio it drives: the control calls StartListening and         *)
(* StopListening, the server thread that runs the network loop, the pool   *)
(* of worker threads, the two task queues between them, and the book that  *)
(* relates connection handles to client contexts.                          *)
(*                                                                         *)
(* The server thread alone touches connections and their book; everything  *)
(* else reaches it as a task posted on m_server's io_service. Requests and *)
(* connection changes reach the workers as tasks on m_workerIoService.     *)
(* What a worker's handler does with a task is left to the module that     *)
(* composes this one (RpcServer): here it answers at some later time.      *)
(***************************************************************************)
EXTENDS Naturals, Sequences, Functions

CONSTANTS
  NumThreads,         \* m_numThreads
  Handles,            \* values of connection_hdl; a closed one may come back
  Bodies,             \* contents of requests
  Answers,            \* contents of responses
  Notes,              \* contents of notifications
  MaxSessions,        \* bound: connections accepted
  MaxRequests,        \* bound: requests of one connection
  MaxNotes            \* bound: notifications posted

\* "numThreads should be > 0": the constructor rejects zero.
ASSUME NumThreadsAssumption == NumThreads \in Nat \ {0}
ASSUME BoundsAssumption == MaxSessions \in Nat /\ MaxRequests \in Nat /\ MaxNotes \in Nat

Workers  == 1..NumThreads
Control  == 0                 \* the application's thread that starts and stops
Callers  == Workers \cup {Control}
Sessions == 1..MaxSessions
Ctxs     == 1..MaxSessions    \* a context is the number m_connIdCnt gave it

VARIABLES
  \* websocketpp's connections and their peers
  conn,               \* per handle: its state and the session it carries
  accepted,           \* number of connections accepted so far
  asked,              \* per session: number of requests its peer has sent
  wire,               \* per session: frames sent to its peer
  \* ClientCtxManager and the clients, owned by the server thread
  m_connIdCnt, m_connToCtx, m_ctxToConn,
  m_clientHandlers,   \* contexts that have a PeerClient
  owner,              \* history: context -> session it was made for
  \* the server thread
  server,             \* where serverLoop stands
  poolIdx,            \* the worker addWorkerThreads or joinWorkerThreads is at
  listening,          \* the acceptor is open
  serverTasks,        \* tasks posted on m_server's io_service
  noteCnt,            \* number of notifications posted so far
  \* the workers
  worker,             \* per worker thread: where it stands and its task
  workerTasks,        \* tasks posted on m_workerIoService
  workerStopped,      \* m_workerIoService.stop() was called
  m_serverHandlers,   \* worker threads that have a PeerProtocolHandler
  \* who is inside StopListening, and the process
  joining,            \* threads that wait for the server thread to end
  fault               \* why the process was terminated, or "none"

\* "uncaught" and "use after free" are for the modules that compose this one.

netVars    == <<conn, accepted, asked, wire>>
bookVars   == <<m_connIdCnt, m_connToCtx, m_ctxToConn, m_clientHandlers, owner>>
serverVars == <<server, poolIdx, listening>>
poolVars   == <<worker, workerTasks, workerStopped, m_serverHandlers>>
restVars   == <<noteCnt, joining, fault>>
vars == <<netVars, bookVars, serverVars, serverTasks, poolVars, restVars>>

Free   == [state |-> "free", session |-> 0]
NoTask == [kind |-> "none"]

Init ==
  /\ conn = [h \in Handles |-> Free]
  /\ accepted = 0
  /\ asked = [s \in Sessions |-> 0]
  /\ wire = [s \in Sessions |-> <<>>]
  /\ m_connIdCnt = 0
  /\ m_connToCtx = [h \in {} |-> 0]
  /\ m_ctxToConn = [c \in {} |-> 0]
  /\ m_clientHandlers = {}
  /\ owner = [c \in {} |-> 0]
  /\ server = "off"
  /\ poolIdx = 1
  /\ listening = FALSE
  /\ serverTasks = <<>>
  /\ noteCnt = 0
  /\ worker = [w \in Workers |-> [pc |-> "none", task |-> NoTask]]
  /\ workerTasks = <<>>
  /\ workerStopped = FALSE
  /\ m_serverHandlers = {}
  /\ joining = {}
  /\ fault = "none"

Alive == fault = "none"

\* The process is gone (std::terminate, or undefined behaviour that ends it).
Terminate(why) ==
  /\ fault' = why
  /\ UNCHANGED <<netVars, bookVars, serverVars, serverTasks, noteCnt, poolVars, joining>>

\* Mutants of PostToServer: a task overtakes those that wait; it is posted twice.
PostToServerFirst(task) == serverTasks' = <<task>> \o serverTasks
PostToServerTwice(task) == serverTasks' = serverTasks \o <<task, task>>

PostToServer(task) == serverTasks' = Append(serverTasks, task)

\* Mutant of PostToWorkers: a task overtakes those that wait.
PostToWorkersFirst(task) == workerTasks' = <<task>> \o workerTasks

PostToWorkers(task) == workerTasks' = Append(workerTasks, task)

-----------------------------------------------------------------------------
(* Control calls.                                                          *)

joinable == server \notin {"off", "joined"}

StartListening ==
  /\ Alive
  /\ Control \notin joining
  /\ server = "off"
  /\ server' = "spawned"
  /\ UNCHANGED <<netVars, bookVars, poolIdx, listening, serverTasks, poolVars, restVars>>

\* Assigning to a joinable std::thread terminates the process; a second run
\* of serverLoop does too: init_asio throws on an endpoint already set up.
StartAgain ==
  /\ Alive
  /\ Control \notin joining
  /\ \/ joinable /\ Terminate("double start")
     \/ server = "joined" /\ Terminate("restart")

\* Any thread may call. Before init_asio the endpoint has no io_service to
\* dispatch to; two threads must not join the same one.
StopListening(t) ==
  /\ Alive
  /\ t \notin joining
  /\ joinable
  /\ \/ server = "spawned" /\ Terminate("early stop")
     \/ server # "spawned" /\ joining # {} /\ Terminate("double join")
     \/ /\ server # "spawned" /\ joining = {}
        /\ PostToServer([kind |-> "stop"])
        /\ joining' = {t}
        /\ UNCHANGED <<netVars, bookVars, serverVars, noteCnt, poolVars, fault>>

StopReturns(t) ==
  /\ Alive
  /\ t \in joining
  /\ server = "exited"
  /\ joining' = joining \ {t}
  /\ server' = "joined"
  /\ UNCHANGED <<netVars, bookVars, poolIdx, listening, serverTasks, noteCnt, poolVars, fault>>

\* Called by any thread, for a context some registration holds.
sendNotification(c, note) ==
  /\ Alive
  /\ noteCnt < MaxNotes
  /\ noteCnt' = noteCnt + 1
  /\ PostToServer([kind |-> "notification", ctx |-> c, note |-> note])
  /\ UNCHANGED <<netVars, bookVars, serverVars, poolVars, joining, fault>>

-----------------------------------------------------------------------------
(* serverLoop: start and end.                                              *)

InitAsio ==
  /\ Alive
  /\ server = "spawned"
  /\ server' = "spawnWorker"
  /\ UNCHANGED <<netVars, bookVars, poolIdx, listening, serverTasks, poolVars, restVars>>

SpawnWorker ==
  /\ Alive
  /\ server = "spawnWorker"
  /\ worker' = [worker EXCEPT ![poolIdx].pc = "idle"]
  /\ server' = "prepare"
  /\ UNCHANGED <<netVars, bookVars, poolIdx, listening, serverTasks, restVars,
                 workerTasks, workerStopped, m_serverHandlers>>

\* Mutant of NextWorker: the loop's bound is off by one.
NextWorkerOneMore(again, done) ==
  IF poolIdx > NumThreads THEN server' = done /\ poolIdx' = 1
                          ELSE server' = again /\ poolIdx' = poolIdx + 1

\* The loop of addWorkerThreads and of joinWorkerThreads.
NextWorker(again, done) ==
  IF poolIdx = NumThreads THEN server' = done /\ poolIdx' = 1
                          ELSE server' = again /\ poolIdx' = poolIdx + 1

PrepareHandler ==
  /\ Alive
  /\ server = "prepare"
  /\ m_serverHandlers' = m_serverHandlers \cup {poolIdx}
  /\ NextWorker("spawnWorker", "listen")
  /\ UNCHANGED <<netVars, bookVars, listening, serverTasks, restVars,
                 worker, workerTasks, workerStopped>>

\* listen() throws when the address is taken; nothing catches it for good.
Listen ==
  /\ Alive
  /\ server = "listen"
  /\ \/ /\ listening' = TRUE
        /\ server' = "run"
        /\ UNCHANGED <<netVars, bookVars, poolIdx, serverTasks, poolVars, restVars>>
     \/ Terminate("listen failed")

\* The loop runs out of work: no acceptor, no connection, no posted task.
RunReturns ==
  /\ Alive
  /\ server = "run"
  /\ ~listening
  /\ \A h \in Handles : conn[h] = Free
  /\ serverTasks = <<>>
  /\ server' = "stopPool"
  /\ UNCHANGED <<netVars, bookVars, poolIdx, listening, serverTasks, poolVars, restVars>>

\* Mutant of StopPool: the workers' io_service is not stopped.
StopPoolNot ==
  /\ Alive
  /\ server = "stopPool"
  /\ server' = "join"
  /\ UNCHANGED <<netVars, bookVars, poolIdx, listening, serverTasks, poolVars, restVars>>

StopPool ==
  /\ Alive
  /\ server = "stopPool"
  /\ workerStopped' = TRUE
  /\ server' = "join"
  /\ UNCHANGED <<netVars, bookVars, poolIdx, listening, serverTasks, restVars,
                 worker, workerTasks, m_serverHandlers>>

\* Mutant of JoinWorker: the thread is detached, not joined.
DetachWorker ==
  /\ Alive
  /\ server = "join"
  /\ server' = "erase"
  /\ UNCHANGED <<netVars, bookVars, poolIdx, listening, serverTasks, poolVars, restVars>>

JoinWorker ==
  /\ Alive
  /\ server = "join"
  /\ worker[poolIdx].pc = "exited"
  /\ server' = "erase"
  /\ UNCHANGED <<netVars, bookVars, poolIdx, listening, serverTasks, poolVars, restVars>>

EraseHandler ==
  /\ Alive
  /\ server = "erase"
  /\ m_serverHandlers' = m_serverHandlers \ {poolIdx}
  /\ NextWorker("join", "exited")
  /\ UNCHANGED <<netVars, bookVars, listening, serverTasks, restVars,
                 worker, workerTasks, workerStopped>>

-----------------------------------------------------------------------------
(* serverLoop: network events.                                             *)

Accept(h) ==
  /\ Alive
  /\ server = "run"
  /\ listening
  /\ conn[h] = Free
  /\ accepted < MaxSessions
  /\ accepted' = accepted + 1
  /\ conn' = [conn EXCEPT ![h] = [state |-> "handshake", session |-> accepted']]
  /\ UNCHANGED <<asked, wire, bookVars, serverVars, serverTasks, poolVars, restVars>>

\* The opening handshake is refused, broken off or times out.
HandshakeFails(h) ==
  /\ Alive
  /\ server = "run"
  /\ conn[h].state = "handshake"
  /\ conn' = [conn EXCEPT ![h] = Free]
  /\ UNCHANGED <<accepted, asked, wire, bookVars, serverVars, serverTasks, poolVars, restVars>>

\* Mutant of newConnection: a context's number is used again.
newConnectionSameId(h) ==
  /\ m_connIdCnt' = 1
  /\ m_connToCtx' = [x \in DOMAIN m_connToCtx \cup {h} |-> 1]
  /\ m_ctxToConn' = [c \in {1} |-> h]

\* Mutant of newConnection: one of the two maps is forgotten.
newConnectionHalf(h) ==
  /\ m_connIdCnt' = m_connIdCnt + 1
  /\ m_ctxToConn' = [c \in DOMAIN m_ctxToConn \cup {m_connIdCnt'} |->
                       IF c = m_connIdCnt' THEN h ELSE m_ctxToConn[c]]
  /\ UNCHANGED m_connToCtx

newConnection(h) ==
  /\ m_connIdCnt' = m_connIdCnt + 1
  /\ m_connToCtx' = [x \in DOMAIN m_connToCtx \cup {h} |->
                       IF x = h THEN m_connIdCnt' ELSE m_connToCtx[x]]
  /\ m_ctxToConn' = [c \in DOMAIN m_ctxToConn \cup {m_connIdCnt'} |->
                       IF c = m_connIdCnt' THEN h ELSE m_ctxToConn[c]]

onConnOpen(h) ==
  /\ Alive
  /\ server = "run"
  /\ conn[h].state = "handshake"
  /\ conn' = [conn EXCEPT ![h].state = "open"]
  /\ newConnection(h)
  /\ m_clientHandlers' = m_clientHandlers \cup {m_connIdCnt'}
  /\ owner' = [c \in DOMAIN owner \cup {m_connIdCnt'} |->
                 IF c = m_connIdCnt' THEN conn[h].session ELSE owner[c]]
  /\ PostToWorkers([kind |-> "connect", ctx |-> m_connIdCnt'])
  /\ UNCHANGED <<accepted, asked, wire, serverVars, serverTasks, restVars,
                 worker, workerStopped, m_serverHandlers>>

\* "Message was received before the connection was opened" is thrown, past
\* the end of the server thread, when the handle has no context.
onConnMessage(h, body) ==
  /\ Alive
  /\ server = "run"
  /\ conn[h].state = "open"
  /\ LET s == conn[h].session IN
     /\ asked[s] < MaxRequests
     /\ IF h \in DOMAIN m_connToCtx
          THEN /\ asked' = [asked EXCEPT ![s] = @ + 1]
               /\ PostToWorkers([kind |-> "request", ctx |-> m_connToCtx[h],
                                 req |-> [session |-> s, num |-> asked'[s], body |-> body]])
               /\ UNCHANGED <<conn, accepted, wire, bookVars, serverVars, serverTasks, restVars,
                              worker, workerStopped, m_serverHandlers>>
          ELSE Terminate("message before open")

\* The peer closes or the network breaks; the close handshake begins.
PeerCloses(h) ==
  /\ Alive
  /\ server = "run"
  /\ conn[h].state = "open"
  /\ conn' = [conn EXCEPT ![h].state = "closing"]
  /\ UNCHANGED <<accepted, asked, wire, bookVars, serverVars, serverTasks, poolVars, restVars>>

removeConnection(h) ==
  /\ m_ctxToConn' = Restrict(m_ctxToConn, DOMAIN m_ctxToConn \ {m_connToCtx[h]})
  /\ m_connToCtx' = Restrict(m_connToCtx, DOMAIN m_connToCtx \ {h})
  /\ UNCHANGED m_connIdCnt

\* "Connection was closed before it was opened" is thrown likewise.
onConnClose(h) ==
  /\ Alive
  /\ server = "run"
  /\ conn[h].state = "closing"
  /\ IF h \in DOMAIN m_connToCtx
       THEN /\ conn' = [conn EXCEPT ![h] = Free]
            /\ removeConnection(h)
            /\ m_clientHandlers' = m_clientHandlers \ {m_connToCtx[h]}
            /\ PostToWorkers([kind |-> "disconnect", ctx |-> m_connToCtx[h]])
            /\ UNCHANGED <<accepted, asked, wire, owner, serverVars, serverTasks, restVars,
                           worker, workerStopped, m_serverHandlers>>
       ELSE Terminate("close before open")

-----------------------------------------------------------------------------
(* serverLoop: posted tasks, in the order they were posted.                *)

TakeServerTask(kind) ==
  /\ Alive
  /\ server = "run"
  /\ serverTasks # <<>>
  /\ Head(serverTasks).kind = kind
  /\ serverTasks' = Tail(serverTasks)
  /\ UNCHANGED <<accepted, asked, bookVars, server, poolIdx, poolVars, restVars>>

\* A frame for an unknown context, or one whose connection is no longer
\* open, is dropped without a word.
sendMessage(c, frame) ==
  IF c \in DOMAIN m_ctxToConn /\ conn[m_ctxToConn[c]].state = "open"
    THEN wire' = [wire EXCEPT ![conn[m_ctxToConn[c]].session] = Append(@, frame)]
    ELSE UNCHANGED wire

doSendResponse ==
  /\ TakeServerTask("response")
  /\ sendMessage(Head(serverTasks).ctx, Head(serverTasks))
  /\ UNCHANGED <<conn, listening>>

\* The JSON-RPC client of a peer hands its message to its WsClient.
CallNotification(c, frame) == sendMessage(c, frame)

\* Mutant of doSendNotification: the client's handler is looked up, not called.
doSendNothing == TakeServerTask("notification") /\ UNCHANGED <<wire, conn, listening>>

doSendNotification ==
  /\ TakeServerTask("notification")
  /\ IF Head(serverTasks).ctx \in m_clientHandlers
       THEN CallNotification(Head(serverTasks).ctx, Head(serverTasks))
       ELSE UNCHANGED wire
  /\ UNCHANGED <<conn, listening>>

getAllHdl == DOMAIN m_connToCtx

\* Begin to close every connection in the book; closing one that is not open
\* fails, and the error is ignored.
closeConnections ==
  conn' = [h \in Handles |-> IF h \in getAllHdl /\ conn[h].state = "open"
                               THEN [conn[h] EXCEPT !.state = "closing"] ELSE conn[h]]

\* Mutant of stopServerLoop: the acceptor stays open.
stopStillListening ==
  /\ TakeServerTask("stop")
  /\ closeConnections
  /\ UNCHANGED <<wire, listening>>

stopServerLoop ==
  /\ TakeServerTask("stop")
  /\ listening' = FALSE
  /\ closeConnections
  /\ UNCHANGED wire

RunServerTask == doSendResponse \/ doSendNotification \/ stopServerLoop

-----------------------------------------------------------------------------
(* Worker threads: io_service::run on m_workerIoService.                   *)

workerUnchanged == <<netVars, bookVars, serverVars, noteCnt, workerStopped, m_serverHandlers, joining>>

TakeWorkerTask(w) ==
  /\ Alive
  /\ worker[w].pc = "idle"
  /\ ~workerStopped
  /\ workerTasks # <<>>
  /\ worker' = [worker EXCEPT ![w] = [pc |-> "lookup", task |-> Head(workerTasks)]]
  /\ workerTasks' = Tail(workerTasks)
  /\ UNCHANGED <<workerUnchanged, serverTasks, fault>>

WorkerExits(w) ==
  /\ Alive
  /\ worker[w].pc = "idle"
  /\ workerStopped
  /\ worker' = [worker EXCEPT ![w].pc = "exited"]
  /\ UNCHANGED <<workerUnchanged, workerTasks, serverTasks, fault>>

\* The server thread is inside an insertion into m_serverHandlers or an
\* erasure from it; a concurrent search may miss an entry that is there.
MapBeingChanged == server \in {"prepare", "erase"}

FindHandler(w) ==
  /\ Alive
  /\ worker[w].pc = "lookup"
  /\ w \in m_serverHandlers
  /\ worker' = [worker EXCEPT ![w].pc = "call"]
  /\ UNCHANGED <<workerUnchanged, workerTasks, serverTasks, fault>>

\* at() throws "Server handler was not prepared for worker thread", past the
\* end of the thread; doHandleDisconnect's operator[] makes a null handler
\* and calls through it.
MissHandler(w) ==
  /\ Alive
  /\ worker[w].pc = "lookup"
  /\ w \notin m_serverHandlers \/ MapBeingChanged
  /\ Terminate("unprepared")

\* The handler returns; a request's response is posted for the server thread.
FinishTask(w, answer) ==
  /\ Alive
  /\ worker[w].pc = "call"
  /\ worker' = [worker EXCEPT ![w] = [pc |-> "idle", task |-> NoTask]]
  /\ LET task == worker[w].task IN
       IF task.kind = "request"
         THEN PostToServer([kind |-> "response", ctx |-> task.ctx, req |-> task.req, answer |-> answer])
         ELSE UNCHANGED serverTasks
  /\ UNCHANGED <<workerUnchanged, workerTasks, fault>>

-----------------------------------------------------------------------------

ControlStep == StartListening \/ StartAgain \/ StopListening(Control) \/ StopReturns(Control)

\* Making a worker's handler calls the code that composes this module.
OwnLoopStep == \/ InitAsio \/ SpawnWorker \/ Listen
               \/ RunReturns \/ StopPool \/ JoinWorker \/ EraseHandler

LoopStep == OwnLoopStep \/ PrepareHandler

NetworkStep(h) == \/ Accept(h) \/ HandshakeFails(h) \/ onConnOpen(h)
                  \/ \E body \in Bodies : onConnMessage(h, body)
                  \/ PeerCloses(h) \/ onConnClose(h)

WorkerStep(w) == \/ TakeWorkerTask(w) \/ WorkerExits(w)
                 \/ FindHandler(w) \/ MissHandler(w)
                 \/ \E answer \in Answers : FinishTask(w, answer)

Halted == ~Alive /\ UNCHANGED vars

Next == \/ ControlStep
        \/ LoopStep
        \/ \E h \in Handles : NetworkStep(h)
        \/ RunServerTask
        \/ \E c \in DOMAIN owner, note \in Notes : sendNotification(c, note)
        \/ \E w \in Workers : WorkerStep(w)
        \/ Halted

Spec == Init /\ [][Next]_vars

\* A function that a worker's handler calls may itself call StopListening, or
\* let an exception out of the thread; a module that composes this one decides.
FunctionStep(w) == /\ Alive
                   /\ worker[w].pc = "call"
                   /\ worker[w].task.kind = "request"
                   /\ StopListening(w) \/ Terminate("unprepared") \/ Terminate("uncaught")

OpenNext == Next \/ \E w \in Workers : FunctionStep(w)

OpenSpec == Init /\ [][OpenNext]_vars

\* Threads keep running; websocketpp's timers end every handshake, opening
\* or closing. Peers and the application do as they like.
Fairness ==
  /\ WF_vars(LoopStep)
  /\ WF_vars(RunServerTask)
  /\ WF_vars(StopReturns(Control))
  /\ \A w \in Workers : WF_vars(WorkerStep(w))
  /\ \A h \in Handles : /\ WF_vars(onConnOpen(h) \/ HandshakeFails(h))
                        /\ WF_vars(onConnClose(h))

FairSpec == Spec /\ Fairness

\* Moreover every peer hangs up at some time.
LeavingSpec == FairSpec /\ \A h \in Handles : WF_vars(PeerCloses(h))

-----------------------------------------------------------------------------
(* Properties.                                                             *)

Requests == [session : Sessions, num : 1..MaxRequests, body : Bodies]
WorkerTasks == [kind : {"connect", "disconnect"}, ctx : Ctxs]
               \cup [kind : {"request"}, ctx : Ctxs, req : Requests]
Frames == [kind : {"response"}, ctx : Ctxs, req : Requests, answer : Answers]
          \cup [kind : {"notification"}, ctx : Ctxs, note : Notes]

NetTypes ==
  /\ conn \in [Handles -> {Free} \cup [state : {"handshake", "open", "closing"}, session : Sessions]]
  /\ accepted \in 0..MaxSessions
  /\ asked \in [Sessions -> 0..MaxRequests]

BookTypes ==
  /\ m_connIdCnt \in 0..MaxSessions
  /\ DOMAIN m_connToCtx \subseteq Handles /\ \A h \in DOMAIN m_connToCtx : m_connToCtx[h] \in Ctxs
  /\ DOMAIN m_ctxToConn \subseteq Ctxs /\ \A c \in DOMAIN m_ctxToConn : m_ctxToConn[c] \in Handles
  /\ m_clientHandlers \subseteq Ctxs
  /\ DOMAIN owner \subseteq Ctxs /\ \A c \in DOMAIN owner : owner[c] \in Sessions

FrameTypes ==
  /\ wire \in [Sessions -> Seq(Frames)]
  /\ serverTasks \in Seq(Frames \cup [kind : {"stop"}])
  /\ noteCnt \in 0..MaxNotes

ServerTypes ==
  /\ server \in {"off", "spawned", "spawnWorker", "prepare", "listen", "run",
                 "stopPool", "join", "erase", "exited", "joined"}
  /\ poolIdx \in Workers
  /\ listening \in BOOLEAN
  /\ joining \subseteq Callers
  /\ fault \in {"none", "double start", "restart", "early stop", "double join", "listen failed",
                "message before open", "close before open", "unprepared", "uncaught", "use after free"}

PoolTypes ==
  /\ worker \in [Workers -> [pc : {"none", "idle", "lookup", "call", "exited"},
                             task : WorkerTasks \cup {NoTask}]]
  /\ workerTasks \in Seq(WorkerTasks)
  /\ workerStopped \in BOOLEAN
  /\ m_serverHandlers \subseteq Workers

\* Every variable holds a value of its type.
TypeOK == NetTypes /\ BookTypes /\ FrameTypes /\ ServerTypes /\ PoolTypes

\* A frame computed for a context only reaches the peer that context was made
\* for, and a response only the peer that asked, although handles come back
\* and frames wait in a queue while connections close and open.
FramesReachTheirPeer ==
  \A s \in Sessions : \A i \in DOMAIN wire[s] :
    /\ owner[wire[s][i].ctx] = s
    /\ wire[s][i].kind = "response" => wire[s][i].req.session = s

\* No request is answered twice.
AnsweredAtMostOnce ==
  \A s \in Sessions : \A i, j \in DOMAIN wire[s] :
    wire[s][i].kind = "response" /\ wire[s][j].kind = "response" /\ wire[s][i].req = wire[s][j].req
      => i = j

\* One worker thread answers a peer's requests in the order it sent them.
AnswersInOrder ==
  \A s \in Sessions : \A i, j \in DOMAIN wire[s] :
    i < j /\ wire[s][i].kind = "response" /\ wire[s][j].kind = "response"
      => wire[s][i].req.num < wire[s][j].req.num

\* Where the connection of a session stands.
Phase(s) == IF s > accepted THEN "awaited"
            ELSE IF \E h \in Handles : conn[h].session = s
                   THEN (CHOOSE c \in {conn[h] : h \in Handles} : c.session = s).state
                   ELSE "gone"

\* What tells one frame from another for its peer.
Seen(m) == IF m.kind = "response"
             THEN [kind |-> "response", session |-> m.req.session, num |-> m.req.num]
             ELSE [kind |-> "notification", note |-> m.note]

Service == INSTANCE PeerService
             WITH InOrder <- NumThreads = 1,
                  phase   <- [s \in Sessions |-> Phase(s)],
                  got     <- [s \in Sessions |-> [i \in DOMAIN wire[s] |-> Seen(wire[s][i])]]

\* Its peers cannot tell the connector from a server without threads, queues
\* and handles: each is sent frames from the end of its handshake to the
\* beginning of its close, answers to its own requests alone, each once, and
\* with one worker thread in order and with none left out.
ServesPeers == Service!Spec

\* One worker thread has done with every request of a client before it starts
\* on the client's disconnection: what a request leaves behind for a client
\* is there to be cleaned up when the client goes.
DisconnectIsLast ==
  \A w \in Workers : LET t == worker[w].task IN
    t.kind \in {"connect", "request"} =>
      \/ t.ctx \in DOMAIN m_ctxToConn
      \/ \E i \in DOMAIN workerTasks : workerTasks[i] = [kind |-> "disconnect", ctx |-> t.ctx]

\* The process is never brought down by its own bookkeeping: the exceptions
\* that report a worker without a handler, a message or a close without a
\* connection (WsConnector.h:254, 327, 342) are never thrown.
OnlyMisuseTerminates ==
  fault \in {"none", "double start", "restart", "early stop", "double join", "listen failed"}

\* "Server handler was not prepared for worker thread" (WsConnector.h:254).
HandlerAlwaysPrepared == fault # "unprepared"

\* Once StopListening has returned nothing is left running: no worker thread,
\* no handler of one, no connection and no entry for one in the book.
NothingRunsAfterStop ==
  server = "joined" =>
    /\ \A w \in Workers : worker[w].pc = "exited"
    /\ m_serverHandlers = {} /\ m_clientHandlers = {}
    /\ \A h \in Handles : conn[h] = Free
    /\ DOMAIN m_connToCtx = {} /\ DOMAIN m_ctxToConn = {}

\* A call of StopListening returns.
StopListeningReturns == joining # {} ~> joining = {} \/ fault # "none"

\* "When all connections will be closed the underlying io_service will stop
\* automatically (and server loop will exit)" (WsConnector.h:401): once
\* stopServerLoop has run, serverLoop comes to its end.
LoopExitsAfterStop == server = "run" /\ ~listening ~> server # "run" \/ fault # "none"

\* The same sentence taken literally: when all connections are closed the loop
\* exits, through the worker pool and every worker's last task.
LoopEndsWhenConnectionsClosed ==
  (server = "run" /\ ~listening /\ \A h \in Handles : conn[h] = Free)
    ~> server \in {"exited", "joined"} \/ fault # "none"

Carried(s) == \E h \in Handles : conn[h] = [state |-> "open", session |-> s]

\* Every request is answered, or its peer goes, or the process ends.
RequestAnswered ==
  \A s \in Sessions : \A n \in 1..MaxRequests :
    asked[s] >= n ~> \/ \E i \in DOMAIN wire[s] : /\ wire[s][i].kind = "response"
                                                 /\ wire[s][i].req.num = n
                     \/ ~Carried(s)
                     \/ fault # "none"

=============================================================================
