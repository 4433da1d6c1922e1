------------------------- MODULE WsConnectorAnswers --------------------------
(***************************************************************************)
(* Proofs about the way of a request through WsConnector and back: read    *)
(* from its peer by the server thread, queued for the workers, in a        *)
(* worker's hands, posted back as a response, sent. For every number of    *)
(* worker threads each frame reaches the peer it is meant for (Known) and  *)
(* each request is in one of these places at most, once (Once); with one   *)
(* worker thread the requests of a peer are in the order it sent them      *)
(* along the whole way (Ordered), and a client's disconnection comes after *)
(* all of its requests (LastWords).                                        *)
(***************************************************************************)
EXTENDS WsConnectorProofs

-----------------------------------------------------------------------------
(* The way of a request, step by step.                                     *)

\* Contexts are made, and stay whose they are.
OwnersStay == \A c \in DOMAIN owner : c \in DOMAIN owner' /\ owner'[c] = owner[c]

SameTasks == \A w \in Workers : worker'[w].task = worker[w].task

\* A connection that has opened or closed is announced to the workers.
Announces(t) == /\ t.kind # "request" /\ t.ctx \in DOMAIN owner'
                /\ workerTasks' = Append(workerTasks, t)
                /\ OwnersStay /\ UNCHANGED <<worker, serverTasks, wire, asked>>

\* The next request of a session is queued for the workers.
Asks(t) == LET s == t.req.session IN
           /\ t.kind = "request" /\ t.req.num = asked[s] + 1
           /\ t.ctx \in DOMAIN owner /\ owner[t.ctx] = s
           /\ asked' = [asked EXCEPT ![s] = asked[s] + 1]
           /\ workerTasks' = Append(workerTasks, t)
           /\ UNCHANGED <<worker, serverTasks, wire, owner>>

Takes(w) == /\ worker[w].task = NoTask
            /\ workerTasks # <<>> /\ Head(workerTasks) \in WorkerTasks
            /\ workerTasks' = Tail(workerTasks)
            /\ worker'[w].task = Head(workerTasks)
            /\ \A v \in Workers \ {w} : worker'[v].task = worker[v].task
            /\ UNCHANGED <<serverTasks, wire, asked, owner>>

\* A response is posted for a request, and nothing for another task.
Finishes(w) == LET t == worker[w].task IN
               /\ t \in WorkerTasks /\ worker[w].pc = "call"
               /\ worker'[w].task = NoTask
               /\ \A v \in Workers \ {w} : worker'[v].task = worker[v].task
               /\ \/ t.kind # "request" /\ serverTasks' = serverTasks
                  \/ /\ t.kind = "request"
                     /\ \E m \in Frames : /\ m.kind = "response" /\ m.ctx = t.ctx /\ m.req = t.req
                                          /\ serverTasks' = Append(serverTasks, m)
               /\ UNCHANGED <<workerTasks, wire, asked, owner>>

\* The server thread runs a posted task: it sends a frame to the peer of the
\* frame's context, or to none. A frame is dropped only when no connection is
\* open for it.
Sends(m) == /\ serverTasks # <<>> /\ m = Head(serverTasks) /\ serverTasks' = Tail(serverTasks)
            /\ \/ /\ UNCHANGED wire
                  /\ m.kind # "stop" /\ m.ctx \in DOMAIN owner => ~Carried(owner[m.ctx])
               \/ /\ m \in Frames /\ m.ctx \in DOMAIN owner /\ owner[m.ctx] \in Sessions
                  /\ Carried(owner[m.ctx])
                  /\ wire' = [wire EXCEPT ![owner[m.ctx]] = Append(@, m)]
            /\ UNCHANGED <<worker, workerTasks, asked, owner>>

\* A connection that opens is announced for its new context.
LEMMA Opening ==
  ASSUME Ground, Ground', NEW h \in Handles, onConnOpen(h)
  PROVE  \E t \in WorkerTasks : Announces(t)
<1> DEFINE c == m_connIdCnt'
           t == [kind |-> "connect", ctx |-> c]
<1>1. c \in Ctxs /\ c \in DOMAIN owner'
  BY DEF onConnOpen, newConnection, Ground, TypeOK, BookTypes, Ctxs
<1>2. c \notin DOMAIN owner
  BY DEF onConnOpen, newConnection, Ground, Book, TypeOK, BookTypes
<1>3. OwnersStay
  BY <1>2 DEF onConnOpen, OwnersStay
<1>4. t \in WorkerTasks
  BY <1>1 DEF WorkerTasks
<1>5. Announces(t)
  BY <1>1, <1>3 DEF onConnOpen, PostToWorkers, restVars, Announces
<1> QED
  BY <1>4, <1>5

\* A connection that closes is announced for its context.
LEMMA Closing ==
  ASSUME Ground, NEW h \in DOMAIN m_connToCtx, onConnClose(h)
  PROVE  \E t \in WorkerTasks : Announces(t)
<1> DEFINE t == [kind |-> "disconnect", ctx |-> m_connToCtx[h]]
<1>1. m_connToCtx[h] \in Ctxs /\ m_connToCtx[h] \in DOMAIN owner
  BY DEF Ground, TypeOK, BookTypes, Book
<1>2. t \in WorkerTasks
  BY <1>1 DEF WorkerTasks
<1>3. Announces(t)
  BY <1>1 DEF onConnClose, PostToWorkers, Announces, OwnersStay
<1> QED
  BY <1>2, <1>3

\* A message becomes the next request of its session, for the session's
\* context.
LEMMA Asking ==
  ASSUME Ground, NEW h \in DOMAIN m_connToCtx, NEW body \in Bodies, onConnMessage(h, body)
  PROVE  \E t \in WorkerTasks : Asks(t)
<1> DEFINE s == conn[h].session
           r == [session |-> s, num |-> asked[s] + 1, body |-> body]
           t == [kind |-> "request", ctx |-> m_connToCtx[h], req |-> r]
<1>1. /\ s \in Sessions /\ r \in Requests
      /\ asked' = [asked EXCEPT ![s] = asked[s] + 1]
      /\ workerTasks' = Append(workerTasks, t)
      /\ UNCHANGED <<owner, wire, serverTasks, worker>>
      /\ m_connToCtx[h] \in Ctxs
  BY NewRequest DEF Ground, bookVars
<1>2. m_connToCtx[h] \in DOMAIN owner /\ owner[m_connToCtx[h]] = s
  BY DEF Ground, Book, Owners
<1>3. t \in WorkerTasks
  <2> HIDE DEF r
  <2> QED
    BY <1>1 DEF WorkerTasks
<1>4. Asks(t)
  BY <1>1, <1>2 DEF Asks
<1> QED
  BY <1>3, <1>4

\* A worker takes the first task, having none.
LEMMA Taking ==
  ASSUME Ground, NEW w \in Workers, TakeWorkerTask(w)
  PROVE  Takes(w)
<1>1. worker[w].task = NoTask /\ worker \in WorkerType
  BY DEF Ground, Pool, Busy, TakeWorkerTask, TypeOK, PoolTypes, WorkerType
<1>2. Head(workerTasks) \in WorkerTasks
  BY DEF Ground, TypeOK, PoolTypes, TakeWorkerTask
<1> QED
  BY <1>1, <1>2 DEF TakeWorkerTask, WorkerType, workerUnchanged, netVars, bookVars, Takes

\* A worker that is done with a request posts the response to it.
LEMMA Finishing ==
  ASSUME Ground, NEW w \in Workers, NEW answer \in Answers, FinishTask(w, answer)
  PROVE  Finishes(w)
<1> DEFINE t == worker[w].task
           m == [kind |-> "response", ctx |-> t.ctx, req |-> t.req, answer |-> answer]
<1>1. t \in WorkerTasks /\ worker[w].pc = "call" /\ worker \in WorkerType
  BY DEF Ground, Pool, Busy, FinishTask, TypeOK, PoolTypes, WorkerType
<1>2. /\ worker'[w].task = NoTask
      /\ \A v \in Workers \ {w} : worker'[v].task = worker[v].task
      /\ UNCHANGED <<workerTasks, wire, asked, owner>>
  BY <1>1 DEF FinishTask, WorkerType, workerUnchanged, netVars, bookVars
<1>3. CASE t.kind = "request"
  <2>1. m \in Frames /\ m.kind = "response" /\ m.ctx = t.ctx /\ m.req = t.req
    BY <1>1, <1>3, TaskKinds DEF Frames
  <2>2. serverTasks' = Append(serverTasks, m)
    BY <1>3 DEF FinishTask, PostToServer
  <2> HIDE DEF t, m
  <2>3. \E n \in Frames : n.kind = "response" /\ n.ctx = t.ctx /\ n.req = t.req /\ serverTasks' = Append(serverTasks, n)
    BY <2>1, <2>2
  <2> QED
    BY <1>1, <1>2, <1>3, <2>3 DEF Finishes, t
<1>4. CASE t.kind # "request"
  BY <1>1, <1>2, <1>4 DEF FinishTask, Finishes
<1> QED
  BY <1>3, <1>4

\* The task at the head is run; its frame goes to the peer its context was
\* made for, if that is still connected.
LEMMA Sending ==
  ASSUME Ground, doSendResponse \/ doSendNotification \/ stopServerLoop
  PROVE  \E m \in ServerTasks : Sends(m)
<1> DEFINE m == Head(serverTasks)
<1>1. m \in ServerTasks /\ serverTasks # <<>> /\ serverTasks' = Tail(serverTasks)
      /\ UNCHANGED <<worker, workerTasks, asked, owner>>
  BY DEF doSendResponse, doSendNotification, stopServerLoop, TakeServerTask, bookVars, poolVars,
         Ground, TypeOK, FrameTypes, ServerTasks
<1>2. ASSUME UNCHANGED wire, ~(m.ctx \in DOMAIN m_ctxToConn /\ conn[m_ctxToConn[m.ctx]].state = "open")
      PROVE  Sends(m)
  <2>1. ASSUME m.ctx \in DOMAIN owner, NEW h \in Handles,
               conn[h] = [state |-> "open", session |-> owner[m.ctx]]
        PROVE  FALSE
    <3>1. /\ h \in DOMAIN m_connToCtx /\ m_connToCtx[h] \in DOMAIN owner
          /\ owner[m_connToCtx[h]] = owner[m.ctx]
      BY <2>1 DEF Ground, Book, Owners, Connected
    <3>2. m_connToCtx[h] = m.ctx
      BY <2>1, <3>1 DEF Ground, Owners
    <3> QED
      BY <1>2, <2>1, <3>1, <3>2 DEF Ground, Book
  <2> QED
    BY <1>1, <1>2, <2>1 DEF Sends, Carried
<1>3. ASSUME m \in Frames, sendMessage(m.ctx, m) PROVE Sends(m)
  <2>1. ASSUME NEW h \in Handles, conn[h].state = "open", conn[h].session \in Sessions,
               h \in DOMAIN m_connToCtx, m_connToCtx[h] = m.ctx,
               wire' = [wire EXCEPT ![conn[h].session] = Append(@, m)]
        PROVE  Sends(m)
    <3>1. m.ctx \in DOMAIN owner /\ owner[m.ctx] = conn[h].session
      BY <2>1 DEF Ground, Book, Owners
    <3>2. Carried(owner[m.ctx])
      BY <2>1, <3>1 DEF Carried, Ground, TypeOK, NetTypes, Free
    <3> QED
      BY <1>1, <1>3, <2>1, <3>1, <3>2 DEF Sends
  <2>2. \/ UNCHANGED wire /\ ~(m.ctx \in DOMAIN m_ctxToConn /\ conn[m_ctxToConn[m.ctx]].state = "open")
        \/ \E h \in Handles : /\ conn[h].state = "open" /\ conn[h].session \in Sessions
                              /\ h \in DOMAIN m_connToCtx /\ m_connToCtx[h] = m.ctx
                              /\ wire' = [wire EXCEPT ![conn[h].session] = Append(@, m)]
    BY <1>3, SendMessage DEF Ground
  <2> QED
    BY <1>2, <2>1, <2>2
<1>4. stopServerLoop => Sends(m)
  BY <1>1 DEF stopServerLoop, TakeServerTask, Sends
<1>5. doSendResponse => m \in Frames /\ sendMessage(m.ctx, m)
  BY <1>1, TaskKinds DEF doSendResponse, TakeServerTask
<1>6. doSendNotification =>
        \/ UNCHANGED wire /\ m.ctx \notin DOMAIN m_ctxToConn
        \/ m \in Frames /\ sendMessage(m.ctx, m)
  <2>1. DOMAIN m_ctxToConn = m_clientHandlers
    BY DEF Ground, Book
  <2>2. doSendNotification => m \in Frames
    BY <1>1, TaskKinds DEF doSendNotification, TakeServerTask
  <2>3. doSendNotification => IF m.ctx \in m_clientHandlers THEN sendMessage(m.ctx, m) ELSE UNCHANGED wire
    BY DEF doSendNotification, CallNotification
  <2> QED
    BY <2>1, <2>2, <2>3
<1>7. Sends(m)
  BY <1>2, <1>3, <1>4, <1>5, <1>6
<1> QED
  BY <1>1, <1>7

\* Every step of the connector is one of these, or leaves all requests where
\* they are.
LEMMA Moves ==
  ASSUME Ground, Ground', [OpenNext]_vars
  PROVE  \/ SameTasks /\ UNCHANGED <<workerTasks, serverTasks, wire, asked, owner>>
         \/ \E t \in WorkerTasks : Announces(t) \/ Asks(t)
         \/ \E m \in PostedOnly : Posts(m)
         \/ \E w \in Workers : Takes(w) \/ Finishes(w)
         \/ \E m \in ServerTasks : Sends(m)
  BY QueueSteps, Opening, Closing, Asking, Taking, Finishing, Sending DEF Ground, Still, SameTasks

-----------------------------------------------------------------------------
(* Whose a task and a frame is.                                            *)

\* A task, or a frame, is for a context that was made, and a request, or its
\* response, is one of those the context's peer has asked.
TaskKnown(t, whose, count) ==
  /\ t.ctx \in DOMAIN whose
  /\ t.kind = "request" => whose[t.ctx] = t.req.session /\ t.req.num <= count[t.req.session]

FrameKnown(m, whose, count) ==
  m.kind # "stop" => /\ m.ctx \in DOMAIN whose
                     /\ m.kind = "response" => /\ whose[m.ctx] = m.req.session
                                               /\ m.req.num <= count[m.req.session]

\* Tasks and frames are for contexts that were made, requests were asked by
\* the peer of their context, and frames are sent to the peer of theirs.
Known ==
  /\ \A i \in DOMAIN workerTasks : TaskKnown(workerTasks[i], owner, asked)
  /\ \A w \in Workers : worker[w].task # NoTask => TaskKnown(worker[w].task, owner, asked)
  /\ \A i \in DOMAIN serverTasks : FrameKnown(serverTasks[i], owner, asked)
  /\ \A s \in Sessions : \A i \in DOMAIN wire[s] :
       FrameKnown(wire[s][i], owner, asked) /\ owner[wire[s][i].ctx] = s

\* What is known stays known.
LEMMA KnownStays ==
  ASSUME Ground, Ground', OwnersStay, \A s \in Sessions : asked[s] <= asked'[s]
  PROVE  /\ \A t \in WorkerTasks : TaskKnown(t, owner, asked) => TaskKnown(t, owner', asked')
         /\ \A m \in ServerTasks : FrameKnown(m, owner, asked) => FrameKnown(m, owner', asked')
<1>0. ASSUME NEW r \in Requests, r.num <= asked[r.session]
      PROVE  r.num <= asked'[r.session]
  <2>1. r.session \in Sessions /\ r.num \in Nat
    BY BoundsAssumption DEF Requests
  <2>2. asked[r.session] \in Nat /\ asked'[r.session] \in Nat
    BY <2>1, BoundsAssumption DEF Ground, TypeOK, NetTypes
  <2> QED
    BY <1>0, <2>1, <2>2
<1>1. \A t \in WorkerTasks : TaskKnown(t, owner, asked) => TaskKnown(t, owner', asked')
  BY <1>0, TaskKinds DEF OwnersStay, TaskKnown
<1>2. \A m \in ServerTasks : FrameKnown(m, owner, asked) => FrameKnown(m, owner', asked')
  BY <1>0, TaskKinds DEF OwnersStay, FrameKnown
<1> QED
  BY <1>1, <1>2

\* The queues and frames are made of tasks and frames.
LEMMA Elements ==
  ASSUME Ground
  PROVE  /\ workerTasks \in Seq(WorkerTasks) /\ \A i \in DOMAIN workerTasks : workerTasks[i] \in WorkerTasks
         /\ serverTasks \in Seq(ServerTasks) /\ \A i \in DOMAIN serverTasks : serverTasks[i] \in ServerTasks
         /\ wire \in [Sessions -> Seq(Frames)]
         /\ \A s \in Sessions : \A i \in DOMAIN wire[s] : wire[s][i] \in Frames /\ wire[s][i] \in ServerTasks
         /\ \A w \in Workers : worker[w].task \in WorkerTasks \cup {NoTask}
  BY DEF Ground, TypeOK, PoolTypes, FrameTypes, ServerTasks

\* The elements of a queue that has grown at its end or lost its head.
LEMMA SameElements ==
  ASSUME NEW S, NEW q \in Seq(S)
  PROVE  /\ \A e \in S : \A i \in DOMAIN Append(q, e) : \/ i \in DOMAIN q /\ Append(q, e)[i] = q[i]
                                                        \/ i = Len(q) + 1 /\ Append(q, e)[i] = e
         /\ \A e \in S : \A i \in DOMAIN q : i \in DOMAIN Append(q, e) /\ Append(q, e)[i] = q[i]
         /\ q # <<>> => \A i \in DOMAIN Tail(q) : i + 1 \in DOMAIN q /\ Tail(q)[i] = q[i + 1]
         /\ q # <<>> => 1 \in DOMAIN q /\ Head(q) = q[1]
  OBVIOUS

\* The requests of a session are counted up.
LEMMA AskedGrows ==
  ASSUME Ground, [OpenNext]_vars, Ground'
  PROVE  OwnersStay /\ \A s \in Sessions : asked[s] <= asked'[s]
<1>1. \A s \in Sessions : asked[s] \in Nat
  BY BoundsAssumption DEF Ground, TypeOK, NetTypes
<1>2. asked \in [Sessions -> 0..MaxRequests]
  BY DEF Ground, TypeOK, NetTypes
<1>3. ASSUME NEW t \in WorkerTasks, Asks(t) PROVE \A s \in Sessions : asked[s] <= asked'[s]
  BY <1>1, <1>2, <1>3 DEF Asks
<1>4. UNCHANGED owner => OwnersStay
  BY DEF OwnersStay
<1>5. UNCHANGED asked => \A s \in Sessions : asked[s] <= asked'[s]
  BY <1>1
<1> QED
  BY <1>3, <1>4, <1>5, Moves DEF Announces, Asks, Posts, Takes, Finishes, Sends

\* Every step keeps what is known of tasks and frames.
LEMMA StepKnown ==
  ASSUME Ground, Ground', Known, [OpenNext]_vars
  PROVE  Known'
<1>0. /\ \A t \in WorkerTasks : TaskKnown(t, owner, asked) => TaskKnown(t, owner', asked')
      /\ \A m \in ServerTasks : FrameKnown(m, owner, asked) => FrameKnown(m, owner', asked')
      /\ OwnersStay
  BY AskedGrows, KnownStays
<1> USE Elements
<1>1. ASSUME NEW t \in WorkerTasks, Announces(t) PROVE Known'
  <2>1. TaskKnown(t, owner', asked')
    BY <1>1 DEF Announces, TaskKnown
  <2>2. \A i \in DOMAIN workerTasks' : TaskKnown(workerTasks'[i], owner', asked')
    BY <1>0, <1>1, <2>1, SameElements DEF Announces, Known
  <2>3. \A w \in Workers : worker'[w].task # NoTask => TaskKnown(worker'[w].task, owner', asked')
    BY <1>0, <1>1 DEF Announces, Known
  <2>4. \A i \in DOMAIN serverTasks' : FrameKnown(serverTasks'[i], owner', asked')
    BY <1>0, <1>1 DEF Announces, Known
  <2>5. \A s \in Sessions : \A i \in DOMAIN wire'[s] :
          FrameKnown(wire'[s][i], owner', asked') /\ owner'[wire'[s][i].ctx] = s
    <3>1. \A s \in Sessions : \A i \in DOMAIN wire[s] : wire[s][i].ctx \in DOMAIN owner
      BY TaskKinds DEF Known, FrameKnown, Frames
    <3> QED
      BY <1>0, <1>1, <3>1 DEF Announces, Known, OwnersStay
  <2> QED
    BY <2>2, <2>3, <2>4, <2>5 DEF Known
<1>2. ASSUME NEW t \in WorkerTasks, Asks(t) PROVE Known'
  <2>1. TaskKnown(t, owner', asked')
    <3>1. t.req.session \in Sessions /\ t.req.num \in Nat /\ asked \in [Sessions -> 0..MaxRequests]
      BY <1>2, TaskKinds, BoundsAssumption DEF Asks, Requests, Ground, TypeOK, NetTypes
    <3> QED
      BY <1>2, <3>1 DEF Asks, TaskKnown
  <2>2. \A i \in DOMAIN workerTasks' : TaskKnown(workerTasks'[i], owner', asked')
    <3>1. workerTasks' = Append(workerTasks, t)
      BY <1>2 DEF Asks
    <3> QED
      BY <1>0, <2>1, <3>1, SameElements DEF Known
  <2>3. \A w \in Workers : worker'[w].task # NoTask => TaskKnown(worker'[w].task, owner', asked')
    BY <1>0, <1>2 DEF Asks, Known
  <2>4. \A i \in DOMAIN serverTasks' : FrameKnown(serverTasks'[i], owner', asked')
    BY <1>0, <1>2 DEF Asks, Known
  <2>5. \A s \in Sessions : \A i \in DOMAIN wire'[s] :
          FrameKnown(wire'[s][i], owner', asked') /\ owner'[wire'[s][i].ctx] = s
    BY <1>0, <1>2 DEF Asks, Known
  <2> QED
    BY <2>2, <2>3, <2>4, <2>5 DEF Known
<1>3. CASE UNCHANGED <<asked, owner>>
  <2>1. CASE SameTasks /\ UNCHANGED <<workerTasks, serverTasks, wire>>
    BY <1>3, <2>1 DEF Known, SameTasks
  <2>2. ASSUME NEW m \in PostedOnly, Posts(m) PROVE Known'
    <3>1. FrameKnown(m, owner, asked)
      BY DEF PostedOnly, FrameKnown
    <3>2. m \in ServerTasks
      BY DEF PostedOnly, ServerTasks, Frames, Ground, TypeOK, BookTypes
    <3>3. \A i \in DOMAIN serverTasks' : FrameKnown(serverTasks'[i], owner, asked)
      BY <2>2, <3>1, <3>2, SameElements DEF Posts, Known
    <3> QED
      BY <1>3, <2>2, <3>3 DEF Posts, Known
  <2>3. ASSUME NEW w \in Workers, Takes(w) PROVE Known'
    <3>1. TaskKnown(Head(workerTasks), owner, asked)
      BY <2>3, SameElements DEF Takes, Known
    <3>2. \A i \in DOMAIN workerTasks' : TaskKnown(workerTasks'[i], owner, asked)
      BY <2>3, SameElements DEF Takes, Known
    <3>3. \A v \in Workers : worker'[v].task # NoTask => TaskKnown(worker'[v].task, owner, asked)
      BY <2>3, <3>1 DEF Takes, Known
    <3> QED
      BY <1>3, <2>3, <3>2, <3>3 DEF Takes, Known
  <2>4. ASSUME NEW w \in Workers, Finishes(w) PROVE Known'
    <3>1. \A v \in Workers : worker'[v].task # NoTask => TaskKnown(worker'[v].task, owner, asked)
      BY <2>4 DEF Finishes, Known
    <3>2. \A i \in DOMAIN serverTasks' : FrameKnown(serverTasks'[i], owner, asked)
      <4>1. CASE serverTasks' = serverTasks
        BY <4>1 DEF Known
      <4>2. ASSUME NEW m \in Frames, m.kind = "response", m.ctx = worker[w].task.ctx, m.req = worker[w].task.req,
                   worker[w].task.kind = "request", serverTasks' = Append(serverTasks, m)
            PROVE  \A i \in DOMAIN serverTasks' : FrameKnown(serverTasks'[i], owner, asked)
        <5>1. worker[w].task # NoTask
          BY <4>2, TaskKinds
        <5>2. FrameKnown(m, owner, asked)
          BY <4>2, <5>1 DEF Known, TaskKnown, FrameKnown
        <5> QED
          BY <4>2, <5>2, SameElements DEF Known, ServerTasks
      <4> QED
        BY <2>4, <4>1, <4>2 DEF Finishes
    <3> QED
      BY <1>3, <2>4, <3>1, <3>2 DEF Finishes, Known
  <2>5. ASSUME NEW m \in ServerTasks, Sends(m) PROVE Known'
    <3>1. FrameKnown(m, owner, asked)
      BY <2>5, SameElements DEF Sends, Known
    <3>2. \A i \in DOMAIN serverTasks' : FrameKnown(serverTasks'[i], owner, asked)
      BY <2>5, SameElements DEF Sends, Known
    <3>3. \A s \in Sessions : \A i \in DOMAIN wire'[s] :
            FrameKnown(wire'[s][i], owner, asked) /\ owner[wire'[s][i].ctx] = s
      <4>1. CASE UNCHANGED wire
        BY <4>1 DEF Known
      <4>2. CASE m \in Frames /\ owner[m.ctx] \in Sessions /\ wire' = [wire EXCEPT ![owner[m.ctx]] = Append(@, m)]
        <5>1. ASSUME NEW s \in Sessions, s # owner[m.ctx] PROVE wire'[s] = wire[s]
          BY <4>2, <5>1
        <5>2. wire'[owner[m.ctx]] = Append(wire[owner[m.ctx]], m)
          BY <4>2
        <5>3. \A i \in DOMAIN wire'[owner[m.ctx]] :
                FrameKnown(wire'[owner[m.ctx]][i], owner, asked) /\ owner[wire'[owner[m.ctx]][i].ctx] = owner[m.ctx]
          BY <3>1, <4>2, <5>2, SameElements DEF Known
        <5> QED
          BY <5>1, <5>3 DEF Known
      <4> QED
        BY <2>5, <4>1, <4>2 DEF Sends
    <3> QED
      BY <1>3, <2>5, <3>2, <3>3 DEF Sends, Known
  <2> QED
    BY <2>1, <2>2, <2>3, <2>4, <2>5, <1>1, <1>2, Moves
<1> QED
  BY <1>1, <1>2, <1>3, Moves DEF Posts, Takes, Finishes, Sends

\* None of this depends on why the process has ended.
LEMMA EndKeeps ==
  ASSUME Ground, Known, NEW why \in {"uncaught", "use after free"}, Terminate(why)
  PROVE  Ground' /\ Known'
<1>1. /\ fault' = why
      /\ UNCHANGED <<conn, accepted, asked, wire, m_connIdCnt, m_connToCtx, m_ctxToConn, m_clientHandlers, owner>>
      /\ UNCHANGED <<server, poolIdx, listening, serverTasks, noteCnt>>
      /\ UNCHANGED <<worker, workerTasks, workerStopped, m_serverHandlers, joining>>
  BY DEF Terminate, netVars, bookVars, serverVars, poolVars
<1>2. TypeOK'
  BY <1>1 DEF Ground, TypeOK, NetTypes, BookTypes, FrameTypes, ServerTypes, PoolTypes
<1>3. Book' /\ Owners'
  BY <1>1 DEF Ground, Book, Owners, Connected, Shaking
<1>4. Pool'
  BY <1>1 DEF Ground, Pool, Busy, Quiet, Starting, Ending
<1>5. Known'
  BY <1>1 DEF Known
<1> QED
  BY <1>2, <1>3, <1>4, <1>5 DEF Ground

\* What is known of tasks and frames, with what that rests on.
LEMMA KnownInvariant == OpenSpec => [](Ground /\ Known)
<1>1. Init => Known
  BY DEF Init, Known
<1> QED
  BY <1>1, StepGround, StepKnown, GroundInvariant, PTL DEF OpenSpec

\* A frame only reaches the peer whose connection its context was made for,
\* and a response only the peer that asked: contexts are never used twice, so
\* that a late response finds no connection rather than another one.
THEOREM ReachesItsPeer == OpenSpec => []FramesReachTheirPeer
<1>1. Ground /\ Known => FramesReachTheirPeer
  <2> SUFFICES ASSUME Ground, Known, NEW s \in Sessions, NEW i \in DOMAIN wire[s]
               PROVE  /\ owner[wire[s][i].ctx] = s
                      /\ wire[s][i].kind = "response" => wire[s][i].req.session = s
    BY DEF FramesReachTheirPeer
  <2>1. FrameKnown(wire[s][i], owner, asked) /\ owner[wire[s][i].ctx] = s
    BY DEF Known
  <2> QED
    BY <2>1 DEF FrameKnown
<1> QED
  BY <1>1, KnownInvariant, PTL

-----------------------------------------------------------------------------
(* Where a request is.                                                     *)

Key(t) == <<t.req.session, t.req.num>>

\* The requests that a queue's elements of a kind carry.
Carries(q, kind) == {Key(q[i]) : i \in {j \in DOMAIN q : q[j].kind = kind}}

\* None of them twice.
Distinct(q, kind) ==
  \A i, j \in DOMAIN q : q[i].kind = kind /\ q[j].kind = kind /\ Key(q[i]) = Key(q[j]) => i = j

\* A queue q becomes r by an element e at its end, or by the loss of its head.
Adds(q, e, r) == /\ DOMAIN r = DOMAIN q \cup {Len(q) + 1} /\ r[Len(q) + 1] = e
                 /\ \A i \in DOMAIN q : r[i] = q[i] /\ i # Len(q) + 1 /\ i < Len(q) + 1

\* The queues grow by their end.
LEMMA AppendAdds ==
  /\ \A t \in WorkerTasks : Ground /\ workerTasks' = Append(workerTasks, t) => Adds(workerTasks, t, workerTasks')
  /\ \A m \in ServerTasks : Ground /\ serverTasks' = Append(serverTasks, m) => Adds(serverTasks, m, serverTasks')
  /\ \A m \in Frames, s \in Sessions : Ground /\ wire'[s] = Append(wire[s], m) => Adds(wire[s], m, wire'[s])
<1>1. ASSUME NEW S, NEW q \in Seq(S), NEW e \in S, NEW r, r = Append(q, e) PROVE Adds(q, e, r)
  BY <1>1 DEF Adds
<1> QED
  BY <1>1, Elements

\* What a queue that has grown carries.
LEMMA AddsCarries ==
  ASSUME NEW q, NEW e, NEW kind, NEW r, Adds(q, e, r)
  PROVE  /\ e.kind = kind => Carries(r, kind) = Carries(q, kind) \cup {Key(e)}
         /\ e.kind # kind => Carries(r, kind) = Carries(q, kind)
         /\ Distinct(q, kind) /\ (e.kind = kind => Key(e) \notin Carries(q, kind))
              => Distinct(r, kind)
<1>1. /\ DOMAIN r = DOMAIN q \cup {Len(q) + 1} /\ r[Len(q) + 1] = e
      /\ \A i \in DOMAIN q : r[i] = q[i] /\ i # Len(q) + 1
  BY DEF Adds
<1>2. e.kind = kind => Carries(r, kind) = Carries(q, kind) \cup {Key(e)}
  BY <1>1 DEF Carries
<1>3. e.kind # kind => Carries(r, kind) = Carries(q, kind)
  BY <1>1 DEF Carries
<1>4. Distinct(q, kind) /\ (e.kind = kind => Key(e) \notin Carries(q, kind)) => Distinct(r, kind)
  BY <1>1 DEF Carries, Distinct
<1> QED
  BY <1>2, <1>3, <1>4

\* A queue that has grown by an element of another kind carries the same.
LEMMA AddsNothing ==
  ASSUME NEW q, NEW e, NEW kind, NEW r, Adds(q, e, r), e.kind # kind, Distinct(q, kind)
  PROVE  Carries(r, kind) = Carries(q, kind) /\ Distinct(r, kind)
<1>1. Carries(r, kind) = Carries(q, kind)
  BY DEF Adds, Carries
<1>2. Distinct(r, kind)
  BY DEF Adds, Distinct
<1> QED
  BY <1>1, <1>2

\* What a queue that has lost its head carries.
LEMMA TailCarries ==
  ASSUME NEW S, NEW q \in Seq(S), q # <<>>, NEW kind, Distinct(q, kind)
  PROVE  /\ Head(q).kind = kind => /\ Key(Head(q)) \in Carries(q, kind)
                                   /\ Carries(Tail(q), kind) = Carries(q, kind) \ {Key(Head(q))}
         /\ Head(q).kind # kind => Carries(Tail(q), kind) = Carries(q, kind)
         /\ Distinct(Tail(q), kind)
<1> DEFINE r == Tail(q)
           e == Head(q)
<1>1. /\ 1 \in DOMAIN q /\ e = q[1]
      /\ \A i \in DOMAIN r : i + 1 \in DOMAIN q /\ i + 1 # 1 /\ r[i] = q[i + 1]
      /\ \A i, j \in DOMAIN r : i + 1 = j + 1 => i = j
      /\ \A i \in DOMAIN q : i # 1 => \E j \in DOMAIN r : j + 1 = i
  <2>1. \A i \in DOMAIN q : i # 1 => i - 1 \in DOMAIN r /\ (i - 1) + 1 = i
    OBVIOUS
  <2> QED
    BY <2>1
<1> HIDE DEF r, e
<1>2. e.kind = kind => Key(e) \in Carries(q, kind)
  BY <1>1 DEF Carries
<1>3. \A k \in Carries(r, kind) : k \in Carries(q, kind) /\ (e.kind = kind => k # Key(e))
  BY <1>1 DEF Carries, Distinct
<1>4. ASSUME NEW k \in Carries(q, kind), ~(e.kind = kind /\ k = Key(e)) PROVE k \in Carries(r, kind)
  <2>1. PICK i \in DOMAIN q : q[i].kind = kind /\ k = Key(q[i])
    BY DEF Carries
  <2>2. i # 1
    BY <1>1, <1>4, <2>1
  <2> QED
    BY <1>1, <2>1, <2>2 DEF Carries
<1>5. Distinct(r, kind)
  BY <1>1 DEF Distinct
<1>6. e.kind = kind => Carries(r, kind) = Carries(q, kind) \ {Key(e)}
  BY <1>3, <1>4
<1>7. e.kind # kind => Carries(r, kind) = Carries(q, kind)
  BY <1>3, <1>4
<1> QED
  BY <1>2, <1>5, <1>6, <1>7 DEF r, e

HasRequest(w) == worker[w].task.kind = "request"

\* The requests that wait for a worker, that a worker has, whose responses are
\* posted, and whose responses are sent.
Queued == Carries(workerTasks, "request")
InHand == {Key(worker[w].task) : w \in {v \in Workers : HasRequest(v)}}
Posted == Carries(serverTasks, "response")
Sent   == UNION {Carries(wire[s], "response") : s \in Sessions}

\* A request is in one of these places at most, and there once.
Single == /\ Distinct(workerTasks, "request") /\ Distinct(serverTasks, "response")
          /\ \A s \in Sessions : Distinct(wire[s], "response")
          /\ \A v, w \in Workers :
               HasRequest(v) /\ HasRequest(w) /\ Key(worker[v].task) = Key(worker[w].task) => v = w

Apart == /\ Queued \cap InHand = {} /\ Queued \cap Posted = {} /\ Queued \cap Sent = {}
         /\ InHand \cap Posted = {} /\ InHand \cap Sent = {} /\ Posted \cap Sent = {}

Once == Single /\ Apart

\* All of them have been asked.
LEMMA KeysAsked ==
  ASSUME Ground, Known
  PROVE  \A k \in Queued \cup InHand \cup Posted \cup Sent :
           /\ k = <<k[1], k[2]>> /\ k[1] \in Sessions /\ k[2] \in Nat /\ k[2] <= asked[k[1]]
<1>1. \A r \in Requests : r.session \in Sessions /\ r.num \in Nat
  BY BoundsAssumption DEF Requests
<1> USE <1>1, Elements, TaskKinds
<1>2. ASSUME NEW t \in WorkerTasks, t.kind = "request", TaskKnown(t, owner, asked)
      PROVE  Key(t)[1] \in Sessions /\ Key(t)[2] \in Nat /\ Key(t)[2] <= asked[Key(t)[1]]
  BY <1>2 DEF TaskKnown, Key
<1>3. ASSUME NEW m \in ServerTasks, m.kind = "response", FrameKnown(m, owner, asked)
      PROVE  Key(m)[1] \in Sessions /\ Key(m)[2] \in Nat /\ Key(m)[2] <= asked[Key(m)[1]]
  BY <1>3 DEF FrameKnown, Key
<1>4. ASSUME NEW k \in Queued PROVE \E t \in WorkerTasks : k = Key(t) /\ t.kind = "request" /\ TaskKnown(t, owner, asked)
  BY DEF Queued, Carries, Known
<1>5. ASSUME NEW k \in InHand PROVE \E t \in WorkerTasks : k = Key(t) /\ t.kind = "request" /\ TaskKnown(t, owner, asked)
  BY DEF InHand, HasRequest, Known
<1>6. ASSUME NEW k \in Posted PROVE \E m \in ServerTasks : k = Key(m) /\ m.kind = "response" /\ FrameKnown(m, owner, asked)
  BY DEF Posted, Carries, Known
<1>7. ASSUME NEW k \in Sent PROVE \E m \in ServerTasks : k = Key(m) /\ m.kind = "response" /\ FrameKnown(m, owner, asked)
  BY DEF Sent, Carries, Known
<1>8. \A t : Key(t) = <<Key(t)[1], Key(t)[2]>>
  BY DEF Key
<1> QED
  BY <1>2, <1>3, <1>4, <1>5, <1>6, <1>7, <1>8

\* The places that a step changes neither by its tasks nor its frames.
LEMMA SamePlaces ==
  /\ UNCHANGED workerTasks => UNCHANGED Queued
  /\ SameTasks => UNCHANGED InHand /\ \A w \in Workers : HasRequest(w)' = HasRequest(w)
  /\ UNCHANGED serverTasks => UNCHANGED Posted
  /\ UNCHANGED wire => UNCHANGED Sent
<1>1. UNCHANGED workerTasks => UNCHANGED Queued
  BY DEF Queued
<1>2. SameTasks => UNCHANGED InHand /\ \A w \in Workers : HasRequest(w)' = HasRequest(w)
  BY DEF SameTasks, InHand, HasRequest
<1>3. UNCHANGED serverTasks => UNCHANGED Posted
  BY DEF Posted
<1>4. UNCHANGED wire => UNCHANGED Sent
  BY DEF Sent
<1> QED
  BY <1>1, <1>2, <1>3, <1>4

\* A request comes in: it is in none of the places yet.
LEMMA AskKeys ==
  ASSUME Ground, Known, Once, NEW t \in WorkerTasks, Asks(t)
  PROVE  /\ Queued' = Queued \cup {Key(t)} /\ UNCHANGED <<InHand, Posted, Sent>>
         /\ Key(t) \notin Queued \cup InHand \cup Posted \cup Sent
         /\ Single'
<1>1. /\ workerTasks' = Append(workerTasks, t) /\ t.kind = "request"
      /\ UNCHANGED <<worker, serverTasks, wire>>
  BY DEF Asks
<1>2. Key(t) \notin Queued \cup InHand \cup Posted \cup Sent
  <2>1. asked[t.req.session] \in Nat /\ t.req.num = asked[t.req.session] + 1
    BY TaskKinds, BoundsAssumption DEF Asks, Requests, Ground, TypeOK, NetTypes
  <2> QED
    BY <2>1, KeysAsked DEF Key
<1>3. Queued' = Queued \cup {Key(t)} /\ Distinct(workerTasks', "request")
  <2>1. /\ Carries(workerTasks', "request") = Carries(workerTasks, "request") \cup {Key(t)}
        /\ Distinct(workerTasks', "request")
    <3>1. Distinct(workerTasks, "request") /\ Key(t) \notin Carries(workerTasks, "request")
      BY <1>2 DEF Queued, Once, Single
    <3>2. Adds(workerTasks, t, workerTasks')
      BY <1>1, AppendAdds
    <3> QED
      BY <1>1, <3>1, <3>2, AddsCarries
  <2> QED
    BY <2>1 DEF Queued
<1>4. UNCHANGED <<InHand, Posted, Sent>> /\ SameTasks
  BY <1>1, SamePlaces DEF SameTasks
<1>5. Single'
  BY <1>1, <1>3, <1>4, SamePlaces DEF Once, Single, HasRequest
<1> QED
  BY <1>2, <1>3, <1>4, <1>5

\* A worker takes a task off the queue.
LEMMA TakeKeys ==
  ASSUME Ground, Known, Once, NEW w \in Workers, Takes(w)
  PROVE  LET t == Head(workerTasks) IN
         /\ UNCHANGED <<Posted, Sent>>
         /\ t.kind = "request" => /\ Key(t) \in Queued
                                  /\ Queued' = Queued \ {Key(t)} /\ InHand' = InHand \cup {Key(t)}
         /\ t.kind # "request" => UNCHANGED <<Queued, InHand>>
         /\ Single'
<1> DEFINE t == Head(workerTasks)
<1>1. /\ workerTasks # <<>> /\ t \in WorkerTasks
      /\ workerTasks' = Tail(workerTasks)
      /\ worker[w].task = NoTask /\ worker'[w].task = t
      /\ \A v \in Workers \ {w} : worker'[v].task = worker[v].task
      /\ UNCHANGED <<serverTasks, wire>>
  BY DEF Takes
<1>2. Distinct(workerTasks, "request")
  BY DEF Once, Single
<1>3. /\ t.kind = "request" => Key(t) \in Queued /\ Queued' = Queued \ {Key(t)}
      /\ t.kind # "request" => Queued' = Queued
      /\ Distinct(workerTasks', "request")
  BY <1>1, <1>2, Elements, TailCarries DEF Queued
<1> HIDE DEF t
<1>4. ~HasRequest(w) /\ \A v \in Workers \ {w} : HasRequest(v)' = HasRequest(v)
  BY <1>1, TaskKinds DEF HasRequest
<1>5. t.kind # "request" => ~HasRequest(w)' /\ InHand' = InHand
  BY <1>1, <1>4 DEF InHand, HasRequest
<1>6. t.kind = "request" => HasRequest(w)' /\ InHand' = InHand \cup {Key(t)}
  BY <1>1, <1>4 DEF InHand, HasRequest
<1>7. UNCHANGED <<Posted, Sent>>
  BY <1>1, SamePlaces
<1>8. \A v \in Workers \ {w} : HasRequest(v) /\ t.kind = "request" => Key(worker[v].task) # Key(t)
  BY <1>3 DEF Once, Apart, InHand
<1>9. Single'
  <2>1. \A u, v \in Workers :
          HasRequest(u)' /\ HasRequest(v)' /\ Key(worker'[u].task) = Key(worker'[v].task) => u = v
    BY <1>1, <1>4, <1>5, <1>8 DEF Once, Single
  <2> QED
    BY <1>1, <1>3, <2>1 DEF Once, Single
<1> QED
  BY <1>3, <1>5, <1>6, <1>7, <1>9 DEF t

\* A handler returns.
LEMMA FinishKeys ==
  ASSUME Ground, Known, Once, NEW w \in Workers, Finishes(w)
  PROVE  LET t == worker[w].task IN
         /\ UNCHANGED <<Queued, Sent>>
         /\ t.kind = "request" => /\ Key(t) \in InHand
                                  /\ InHand' = InHand \ {Key(t)} /\ Posted' = Posted \cup {Key(t)}
         /\ t.kind # "request" => UNCHANGED <<InHand, Posted>>
         /\ Single'
<1> DEFINE t == worker[w].task
<1>1. /\ t \in WorkerTasks /\ worker'[w].task = NoTask
      /\ \A v \in Workers \ {w} : worker'[v].task = worker[v].task
      /\ UNCHANGED <<workerTasks, wire>>
  BY DEF Finishes
<1>2. ~HasRequest(w)' /\ (\A v \in Workers \ {w} : HasRequest(v)' = HasRequest(v))
  BY <1>1, TaskKinds DEF HasRequest
<1>3. t.kind = "request" => Key(t) \in InHand /\ InHand' = InHand \ {Key(t)}
  <2> SUFFICES ASSUME t.kind = "request" PROVE Key(t) \in InHand /\ InHand' = InHand \ {Key(t)}
    OBVIOUS
  <2>1. HasRequest(w) /\ Key(t) \in InHand
    BY DEF HasRequest, InHand
  <2>2. \A v \in Workers \ {w} : HasRequest(v) => Key(worker[v].task) # Key(t)
    BY <2>1 DEF Once, Single
  <2> HIDE DEF t
  <2> QED
    BY <1>1, <1>2, <2>1, <2>2 DEF InHand, t
<1>4. t.kind # "request" => ~HasRequest(w) /\ InHand' = InHand
  BY <1>1, <1>2 DEF InHand, HasRequest
<1>5. /\ t.kind = "request" => Posted' = Posted \cup {Key(t)}
      /\ t.kind # "request" => Posted' = Posted
      /\ Distinct(serverTasks', "response")
  <2>1. Distinct(serverTasks, "response")
    BY DEF Once, Single
  <2>2. CASE t.kind # "request" /\ serverTasks' = serverTasks
    BY <2>1, <2>2, SamePlaces
  <2>3. ASSUME t.kind = "request", NEW m \in Frames, m.kind = "response", m.req = t.req,
               serverTasks' = Append(serverTasks, m)
        PROVE  Posted' = Posted \cup {Key(t)} /\ Distinct(serverTasks', "response")
    <3>1. Key(m) = Key(t) /\ m \in ServerTasks
      BY <2>3 DEF Key, ServerTasks
    <3>2. Key(m) \notin Carries(serverTasks, "response")
      BY <1>3, <2>3, <3>1 DEF Once, Apart, Posted
    <3>3. Adds(serverTasks, m, serverTasks')
      BY <2>3, <3>1, AppendAdds
    <3>4. /\ Carries(serverTasks', "response") = Carries(serverTasks, "response") \cup {Key(m)}
          /\ Distinct(serverTasks', "response")
      BY <2>1, <2>3, <3>2, <3>3, AddsCarries
    <3> QED
      BY <3>1, <3>4 DEF Posted
  <2> QED
    BY <2>2, <2>3 DEF Finishes
<1>6. UNCHANGED <<Queued, Sent>>
  BY <1>1, SamePlaces
<1>7. Single'
  <2>1. ASSUME NEW u \in Workers, NEW v \in Workers, HasRequest(u)', HasRequest(v)',
               Key(worker'[u].task) = Key(worker'[v].task)
        PROVE  u = v
    <3>1. u # w /\ v # w /\ HasRequest(u) /\ HasRequest(v)
      BY <1>2, <2>1
    <3> QED
      BY <1>1, <2>1, <3>1 DEF Once, Single
  <2> QED
    BY <1>1, <1>5, <2>1 DEF Once, Single, HasRequest
<1> QED
  BY <1>3, <1>4, <1>5, <1>6, <1>7

\* The server thread runs a posted task.
LEMMA SendKeys ==
  ASSUME Ground, Known, Once, NEW m \in ServerTasks, Sends(m)
  PROVE  /\ UNCHANGED <<Queued, InHand>>
         /\ m.kind = "response" => /\ Key(m) \in Posted /\ Posted' = Posted \ {Key(m)}
                                   /\ Sent' = Sent \/ Sent' = Sent \cup {Key(m)}
         /\ m.kind # "response" => UNCHANGED <<Posted, Sent>>
         /\ Single'
<1>1. /\ serverTasks # <<>> /\ m = Head(serverTasks) /\ serverTasks' = Tail(serverTasks)
      /\ UNCHANGED <<worker, workerTasks>>
  BY DEF Sends
<1>2. Distinct(serverTasks, "response") /\ \A s \in Sessions : Distinct(wire[s], "response")
  BY DEF Once, Single
<1>3. /\ m.kind = "response" => Key(m) \in Posted /\ Posted' = Posted \ {Key(m)}
      /\ m.kind # "response" => Posted' = Posted
      /\ Distinct(serverTasks', "response")
  BY <1>1, <1>2, Elements, TailCarries DEF Posted
<1>4. UNCHANGED <<Queued, InHand>> /\ SameTasks
  BY <1>1, SamePlaces DEF SameTasks
<1>5. /\ m.kind = "response" => Sent' = Sent \/ Sent' = Sent \cup {Key(m)}
      /\ m.kind # "response" => UNCHANGED Sent
      /\ \A s \in Sessions : Distinct(wire'[s], "response")
  <2>1. CASE UNCHANGED wire
    BY <1>2, <2>1, SamePlaces
  <2>2. CASE m \in Frames /\ owner[m.ctx] \in Sessions /\ wire' = [wire EXCEPT ![owner[m.ctx]] = Append(@, m)]
    <3> DEFINE s == owner[m.ctx]
    <3>1. s \in Sessions /\ m \in Frames /\ wire[s] \in Seq(Frames)
      BY <2>2, Elements
    <3>2. wire'[s] = Append(wire[s], m) /\ \A r \in Sessions \ {s} : wire'[r] = wire[r]
      BY <2>2, Elements
    <3> HIDE DEF s
    <3>3. m.kind = "response" => Key(m) \notin Carries(wire[s], "response")
      BY <1>3, <3>1 DEF Once, Apart, Sent
    <3>4. /\ m.kind = "response" => Carries(wire'[s], "response") = Carries(wire[s], "response") \cup {Key(m)}
          /\ m.kind # "response" => Carries(wire'[s], "response") = Carries(wire[s], "response")
          /\ Distinct(wire'[s], "response")
      <4>1. Adds(wire[s], m, wire'[s])
        BY <3>1, <3>2, AppendAdds
      <4> QED
        BY <1>2, <3>1, <3>3, <4>1, AddsCarries
    <3>5. m.kind = "response" => Sent' = Sent \cup {Key(m)}
      BY <3>1, <3>2, <3>4 DEF Sent
    <3>6. m.kind # "response" => Sent' = Sent
      BY <3>2, <3>4 DEF Sent
    <3> QED
      BY <1>2, <3>2, <3>4, <3>5, <3>6
  <2> QED
    BY <2>1, <2>2 DEF Sends
<1>6. Single'
  <2>1. \A u, v \in Workers :
          HasRequest(u)' /\ HasRequest(v)' /\ Key(worker'[u].task) = Key(worker'[v].task) => u = v
    BY <1>1 DEF Once, Single, HasRequest
  <2> QED
    BY <1>1, <1>3, <1>5, <2>1 DEF Once, Single
<1> QED
  BY <1>3, <1>4, <1>5, <1>6

\* A request moves from one place to the next, and leaves the one it was in.
LEMMA StepOnce ==
  ASSUME Ground, Ground', Known, Once, [OpenNext]_vars
  PROVE  Once'
<1>1. CASE SameTasks /\ UNCHANGED <<workerTasks, serverTasks, wire>>
  BY <1>1, SamePlaces DEF SameTasks, Once, Single, Apart
<1>2. ASSUME NEW t \in WorkerTasks, Announces(t) PROVE Once'
  <2>1. SameTasks /\ UNCHANGED <<InHand, Posted, Sent>> /\ \A w \in Workers : HasRequest(w)' = HasRequest(w)
    BY <1>2, SamePlaces DEF Announces, SameTasks
  <2>2. Carries(workerTasks', "request") = Carries(workerTasks, "request") /\ Distinct(workerTasks', "request")
    <3>1. Adds(workerTasks, t, workerTasks') /\ t.kind # "request"
      BY <1>2, AppendAdds DEF Announces
    <3>2. Distinct(workerTasks, "request")
      BY DEF Once, Single
    <3> QED
      BY <3>1, <3>2, AddsNothing
  <2>3. UNCHANGED Queued
    BY <2>2 DEF Queued
  <2>4. Apart'
    BY <2>1, <2>3 DEF Once, Apart
  <2>5. Single'
    BY <1>2, <2>1, <2>2 DEF Once, Single, Announces, SameTasks
  <2> QED
    BY <2>4, <2>5 DEF Once
<1>3. ASSUME NEW m \in PostedOnly, Posts(m) PROVE Once'
  <2>1. SameTasks /\ UNCHANGED <<InHand, Queued, Sent>> /\ \A w \in Workers : HasRequest(w)' = HasRequest(w)
    BY <1>3, SamePlaces DEF Posts, SameTasks
  <2>2. m \in ServerTasks /\ m.kind # "response"
    BY DEF PostedOnly, ServerTasks, Frames, Ground, TypeOK, BookTypes
  <2>3. /\ Carries(serverTasks', "response") = Carries(serverTasks, "response")
        /\ Distinct(serverTasks', "response")
    <3>1. Adds(serverTasks, m, serverTasks')
      BY <1>3, <2>2, AppendAdds DEF Posts
    <3>2. Distinct(serverTasks, "response")
      BY DEF Once, Single
    <3> QED
      BY <2>2, <3>1, <3>2, AddsNothing
  <2>4. UNCHANGED Posted
    BY <2>3 DEF Posted
  <2>5. Apart'
    BY <2>1, <2>4 DEF Once, Apart
  <2>6. Single'
    BY <1>3, <2>1, <2>3 DEF Once, Single, Posts, SameTasks
  <2> QED
    BY <2>5, <2>6 DEF Once
<1>4. ASSUME NEW t \in WorkerTasks, Asks(t) PROVE Once'
  BY <1>4, AskKeys DEF Once, Apart
<1>5. ASSUME NEW w \in Workers, Takes(w) PROVE Once'
  BY <1>5, TakeKeys DEF Once, Apart
<1>6. ASSUME NEW w \in Workers, Finishes(w) PROVE Once'
  BY <1>6, FinishKeys DEF Once, Apart
<1>7. ASSUME NEW m \in ServerTasks, Sends(m) PROVE Once'
  BY <1>7, SendKeys DEF Once, Apart
<1> QED
  BY <1>1, <1>2, <1>3, <1>4, <1>5, <1>6, <1>7, Moves

\* No request is in any place at first.
LEMMA OnceStart == Init => Once
<1> SUFFICES ASSUME Init PROVE Once
  OBVIOUS
<1>1. /\ workerTasks = <<>> /\ serverTasks = <<>> /\ \A s \in Sessions : wire[s] = <<>>
      /\ \A w \in Workers : worker[w].task = NoTask
  BY DEF Init
<1>2. \A kind : Carries(<<>>, kind) = {} /\ Distinct(<<>>, kind)
  BY DEF Carries, Distinct
<1>3. \A w \in Workers : ~HasRequest(w)
  BY <1>1, TaskKinds DEF HasRequest
<1>4. Queued = {} /\ InHand = {} /\ Posted = {} /\ Sent = {}
  BY <1>1, <1>2, <1>3 DEF Queued, InHand, Posted, Sent
<1>5. Single
  <2>1. Distinct(workerTasks, "request") /\ Distinct(serverTasks, "response")
    BY <1>1, <1>2
  <2>2. \A s \in Sessions : Distinct(wire[s], "response")
    BY <1>1, <1>2
  <2> QED
    BY <1>3, <2>1, <2>2 DEF Single
<1> QED
  BY <1>4, <1>5 DEF Once, Apart

\* Each request is in one place at most, in every state.
LEMMA OnceInvariant == OpenSpec => [](Ground /\ Known /\ Once)
  BY OnceStart, StepGround, StepOnce, KnownInvariant, PTL DEF OpenSpec

\* No request is answered twice: a request and its answer are in one place at
\* a time, although any number of workers takes tasks from the same queue and
\* posts responses to the same server thread.
THEOREM AnsweredOnce == OpenSpec => []AnsweredAtMostOnce
<1>1. Once => AnsweredAtMostOnce
  BY DEF Once, Single, Distinct, Key, AnsweredAtMostOnce
<1> QED
  BY <1>1, OnceInvariant, PTL

-----------------------------------------------------------------------------
(* One worker thread.                                                      *)

\* A queue carries the requests of a session in the order they were asked in.
Rising(q, kind) ==
  \A i, j \in DOMAIN q :
    i < j /\ q[i].kind = kind /\ q[j].kind = kind /\ q[i].req.session = q[j].req.session
      => q[i].req.num < q[j].req.num

\* The requests in K were asked before those of the same session in L.
Below(K, L) == \A k \in K, l \in L : k[1] = l[1] => k[2] < l[2]

\* A queue stays in order when what comes last was asked last.
LEMMA AddsRising ==
  ASSUME NEW q, NEW e, NEW kind, NEW r, Adds(q, e, r), DOMAIN q \subseteq Nat, Len(q) \in Nat, Rising(q, kind),
         e.kind = kind => Below(Carries(q, kind), {Key(e)})
  PROVE  Rising(r, kind)
<1> SUFFICES ASSUME NEW i \in DOMAIN r, NEW j \in DOMAIN r,
                    i < j, r[i].kind = kind, r[j].kind = kind, r[i].req.session = r[j].req.session
             PROVE  r[i].req.num < r[j].req.num
  BY DEF Rising
<1>1. i \in DOMAIN q /\ r[i] = q[i]
  BY DEF Adds
<1>2. CASE j \in DOMAIN q
  BY <1>1, <1>2 DEF Adds, Rising
<1>3. CASE j = Len(q) + 1
  <2>1. Key(q[i]) \in Carries(q, kind) /\ r[j] = e
    BY <1>1, <1>3 DEF Adds, Carries
  <2>2. Key(q[i])[1] = Key(e)[1] => Key(q[i])[2] < Key(e)[2]
    BY <2>1 DEF Below
  <2> QED
    BY <1>1, <2>1, <2>2 DEF Key
<1> QED
  BY <1>2, <1>3 DEF Adds

\* A queue stays in order when its head goes, and its head was first.
LEMMA TailRising ==
  ASSUME NEW S, NEW q \in Seq(S), q # <<>>, NEW kind, Rising(q, kind)
  PROVE  /\ Rising(Tail(q), kind)
         /\ Head(q).kind = kind => Below({Key(Head(q))}, Carries(Tail(q), kind))
<1> DEFINE r == Tail(q)
           e == Head(q)
<1>1. /\ 1 \in DOMAIN q /\ e = q[1]
      /\ \A i \in DOMAIN r : i + 1 \in DOMAIN q /\ 1 < i + 1 /\ r[i] = q[i + 1]
      /\ \A i, j \in DOMAIN r : i < j => i + 1 < j + 1
  OBVIOUS
<1> HIDE DEF r, e
<1>2. Rising(r, kind)
  BY <1>1 DEF Rising
<1>3. e.kind = kind => Below({Key(e)}, Carries(r, kind))
  BY <1>1 DEF Rising, Below, Carries, Key
<1> QED
  BY <1>2, <1>3 DEF r, e

\* The requests of a peer are in order in each queue and among its frames,
\* and whatever is nearer to being sent was asked before whatever is behind.
Ordered ==
  /\ Rising(workerTasks, "request") /\ Rising(serverTasks, "response")
  /\ \A s \in Sessions : Rising(wire[s], "response")
  /\ Below(Sent, Posted) /\ Below(Sent, InHand) /\ Below(Sent, Queued)
  /\ Below(Posted, InHand) /\ Below(Posted, Queued) /\ Below(InHand, Queued)

\* Places in the queues are numbers.
LEMMA Domains ==
  ASSUME Ground
  PROVE  /\ DOMAIN workerTasks \subseteq Nat /\ Len(workerTasks) \in Nat
         /\ DOMAIN serverTasks \subseteq Nat /\ Len(serverTasks) \in Nat
         /\ \A s \in Sessions : DOMAIN wire[s] \subseteq Nat /\ Len(wire[s]) \in Nat
  BY Elements

\* The request that comes in was asked after all others of its peer.
LEMMA AskOrdered ==
  ASSUME Ground, Known, Once, Ordered, NEW t \in WorkerTasks, Asks(t)
  PROVE  Ordered'
<1>1. /\ workerTasks' = Append(workerTasks, t) /\ t.kind = "request"
      /\ UNCHANGED <<worker, serverTasks, wire>>
  BY DEF Asks
<1>2. Queued' = Queued \cup {Key(t)} /\ UNCHANGED <<InHand, Posted, Sent>>
  BY AskKeys
<1>3. Below(Queued \cup InHand \cup Posted \cup Sent, {Key(t)})
  <2>1. asked[t.req.session] \in Nat /\ t.req.num = asked[t.req.session] + 1
    BY TaskKinds, BoundsAssumption DEF Asks, Requests, Ground, TypeOK, NetTypes
  <2>2. ASSUME NEW k \in Queued \cup InHand \cup Posted \cup Sent, k[1] = Key(t)[1] PROVE k[2] < Key(t)[2]
    <3>1. k[2] \in Nat /\ k[2] <= asked[t.req.session]
      BY <2>2, KeysAsked DEF Key
    <3> QED
      BY <2>1, <3>1 DEF Key
  <2> QED
    BY <2>2 DEF Below
<1>4. Rising(workerTasks', "request")
  <2>1. Adds(workerTasks, t, workerTasks') /\ Below(Carries(workerTasks, "request"), {Key(t)})
    BY <1>1, <1>3, AppendAdds DEF Queued, Below
  <2>2. Rising(workerTasks, "request")
    BY DEF Ordered
  <2> QED
    BY <2>1, <2>2, Domains, AddsRising
<1> QED
  BY <1>1, <1>2, <1>3, <1>4 DEF Ordered, Below

\* The one worker takes the request that was asked first of those waiting.
LEMMA TakeOrdered ==
  ASSUME NumThreads = 1, Ground, Known, Once, Ordered, NEW w \in Workers, Takes(w)
  PROVE  Ordered'
<1> DEFINE t == Head(workerTasks)
<1>1. UNCHANGED <<serverTasks, wire, Posted, Sent>> /\ workerTasks' = Tail(workerTasks) /\ workerTasks # <<>>
  BY TakeKeys DEF Takes
<1>2. /\ Rising(workerTasks', "request")
      /\ t.kind = "request" => Below({Key(t)}, Queued')
  BY <1>1, Elements, TailRising DEF Ordered, Queued
<1>3. InHand = {}
  <2>1. \A v \in Workers : ~HasRequest(v)
    BY TaskKinds DEF Workers, Takes, HasRequest
  <2> QED
    BY <2>1 DEF InHand
<1> HIDE DEF t
<1>4. CASE t.kind = "request"
  <2>1. Key(t) \in Queued /\ Queued' \subseteq Queued /\ InHand' = {Key(t)}
    BY <1>3, <1>4, TakeKeys DEF t
  <2> QED
    BY <1>1, <1>2, <1>4, <2>1 DEF Ordered, Below
<1>5. CASE t.kind # "request"
  <2>1. UNCHANGED <<Queued, InHand>>
    BY <1>5, TakeKeys DEF t
  <2> QED
    BY <1>1, <1>2, <2>1 DEF Ordered
<1> QED
  BY <1>4, <1>5

\* The one worker's response is posted before any other request is taken.
LEMMA FinishOrdered ==
  ASSUME NumThreads = 1, Ground, Known, Once, Ordered, NEW w \in Workers, Finishes(w)
  PROVE  Ordered'
<1> DEFINE t == worker[w].task
<1>1. UNCHANGED <<workerTasks, wire, Queued, Sent>> /\ t \in WorkerTasks
  BY FinishKeys DEF Finishes
<1>2. CASE t.kind # "request"
  <2>1. UNCHANGED <<serverTasks, InHand, Posted>>
    BY <1>2, FinishKeys DEF Finishes
  <2> QED
    BY <1>1, <2>1 DEF Ordered
<1>3. CASE t.kind = "request"
  <2>1. Key(t) \in InHand /\ InHand' = InHand \ {Key(t)} /\ Posted' = Posted \cup {Key(t)}
    BY <1>3, FinishKeys
  <2>2. InHand \subseteq {Key(t)}
    BY DEF InHand, Workers
  <2>3. PICK m \in Frames : m.kind = "response" /\ m.req = t.req /\ serverTasks' = Append(serverTasks, m)
    BY <1>3 DEF Finishes
  <2>4. Rising(serverTasks', "response")
    <3>1. Key(m) = Key(t) /\ m \in ServerTasks
      BY <2>3 DEF Key, ServerTasks
    <3>2. Adds(serverTasks, m, serverTasks')
      BY <2>3, <3>1, AppendAdds
    <3>3. Below(Carries(serverTasks, "response"), {Key(m)}) /\ Rising(serverTasks, "response")
      BY <2>1, <3>1 DEF Ordered, Below, Posted
    <3> QED
      BY <3>2, <3>3, Domains, AddsRising
  <2> HIDE DEF t
  <2>5. InHand' = {}
    BY <2>1, <2>2
  <2> QED
    BY <1>1, <2>1, <2>4, <2>5 DEF Ordered, Below
<1> QED
  BY <1>2, <1>3

\* The response sent is the first of those posted.
LEMMA SendOrdered ==
  ASSUME Ground, Known, Once, Ordered, NEW m \in ServerTasks, Sends(m)
  PROVE  Ordered'
<1>1. /\ serverTasks # <<>> /\ m = Head(serverTasks) /\ serverTasks' = Tail(serverTasks)
      /\ UNCHANGED <<workerTasks, Queued, InHand>>
  BY SendKeys DEF Sends
<1>2. /\ Rising(serverTasks', "response")
      /\ m.kind = "response" => Below({Key(m)}, Posted')
  BY <1>1, Elements, TailRising DEF Ordered, Posted
<1>3. \A s \in Sessions : Rising(wire'[s], "response")
  <2>1. CASE UNCHANGED wire
    BY <2>1 DEF Ordered
  <2>2. CASE m \in Frames /\ owner[m.ctx] \in Sessions /\ wire' = [wire EXCEPT ![owner[m.ctx]] = Append(@, m)]
    <3> DEFINE s == owner[m.ctx]
    <3>1. s \in Sessions /\ m \in Frames
      BY <2>2
    <3>2. wire'[s] = Append(wire[s], m) /\ \A r \in Sessions \ {s} : wire'[r] = wire[r]
      BY <2>2, Elements
    <3> HIDE DEF s
    <3>3. m.kind = "response" => Below(Carries(wire[s], "response"), {Key(m)})
      BY <3>1, SendKeys DEF Ordered, Below, Sent
    <3>4. Adds(wire[s], m, wire'[s]) /\ Rising(wire[s], "response")
      BY <3>1, <3>2, AppendAdds DEF Ordered
    <3>5. Rising(wire'[s], "response")
      BY <3>1, <3>3, <3>4, Domains, AddsRising
    <3> QED
      BY <3>2, <3>5 DEF Ordered
  <2> QED
    BY <2>1, <2>2 DEF Sends
<1>4. CASE m.kind = "response"
  <2>1. Key(m) \in Posted /\ Posted' \subseteq Posted /\ Sent' \subseteq Sent \cup {Key(m)}
    BY <1>4, SendKeys
  <2> QED
    BY <1>1, <1>2, <1>3, <1>4, <2>1 DEF Ordered, Below
<1>5. CASE m.kind # "response"
  <2>1. UNCHANGED <<Posted, Sent>>
    BY <1>5, SendKeys
  <2> QED
    BY <1>1, <1>2, <1>3, <2>1 DEF Ordered
<1> QED
  BY <1>4, <1>5

\* Every step of a connector with one worker keeps the order.
LEMMA StepOrdered ==
  ASSUME NumThreads = 1, Ground, Ground', Known, Once, Ordered, [OpenNext]_vars
  PROVE  Ordered'
<1>1. CASE SameTasks /\ UNCHANGED <<workerTasks, serverTasks, wire>>
  BY <1>1, SamePlaces DEF Ordered
<1>2. ASSUME NEW t \in WorkerTasks, Announces(t) PROVE Ordered'
  <2>1. /\ Adds(workerTasks, t, workerTasks') /\ t.kind # "request"
        /\ Rising(workerTasks, "request") /\ Distinct(workerTasks, "request")
    BY <1>2, AppendAdds DEF Announces, Ordered, Once, Single
  <2>2. Rising(workerTasks', "request")
    BY <2>1, Domains, AddsRising
  <2>3. Carries(workerTasks', "request") = Carries(workerTasks, "request")
    BY <2>1, AddsNothing
  <2>4. UNCHANGED <<serverTasks, wire, Queued, InHand, Posted, Sent>>
    BY <1>2, <2>3, SamePlaces DEF Announces, SameTasks, Queued
  <2> QED
    BY <2>2, <2>4 DEF Ordered
<1>3. ASSUME NEW m \in PostedOnly, Posts(m) PROVE Ordered'
  <2>1. m \in ServerTasks /\ m.kind # "response"
    BY DEF PostedOnly, ServerTasks, Frames, Ground, TypeOK, BookTypes
  <2>2. /\ Adds(serverTasks, m, serverTasks')
        /\ Rising(serverTasks, "response") /\ Distinct(serverTasks, "response")
    BY <1>3, <2>1, AppendAdds DEF Posts, Ordered, Once, Single
  <2>3. Rising(serverTasks', "response")
    BY <2>1, <2>2, Domains, AddsRising
  <2>4. Carries(serverTasks', "response") = Carries(serverTasks, "response")
    BY <2>1, <2>2, AddsNothing
  <2>5. UNCHANGED <<workerTasks, wire, Queued, InHand, Posted, Sent>>
    BY <1>3, <2>4, SamePlaces DEF Posts, SameTasks, Posted
  <2> QED
    BY <2>3, <2>5 DEF Ordered
<1> QED
  BY <1>1, <1>2, <1>3, AskOrdered, TakeOrdered, FinishOrdered, SendOrdered, Moves

\* The order of a peer's requests along their whole way, with one worker.
LEMMA OrderedInvariant ==
  ASSUME NumThreads = 1
  PROVE  OpenSpec => [](Ground /\ Known /\ Once /\ Ordered)
<1>1. Init => Ordered
  <2> SUFFICES ASSUME Init PROVE Ordered
    OBVIOUS
  <2>1. /\ workerTasks = <<>> /\ serverTasks = <<>> /\ \A s \in Sessions : wire[s] = <<>>
        /\ \A w \in Workers : worker[w].task = NoTask
    BY DEF Init
  <2>2. \A kind : Carries(<<>>, kind) = {} /\ Rising(<<>>, kind)
    BY DEF Carries, Rising
  <2>3. \A w \in Workers : ~HasRequest(w)
    BY <2>1, TaskKinds DEF HasRequest
  <2>4. Queued = {} /\ InHand = {} /\ Posted = {} /\ Sent = {}
    BY <2>1, <2>2, <2>3 DEF Queued, InHand, Posted, Sent
  <2>5. /\ Rising(workerTasks, "request") /\ Rising(serverTasks, "response")
        /\ \A s \in Sessions : Rising(wire[s], "response")
    BY <2>1, <2>2
  <2> QED
    BY <2>4, <2>5 DEF Ordered, Below
<1> QED
  BY <1>1, StepGround, StepOrdered, OnceInvariant, PTL DEF OpenSpec

\* One worker thread answers a peer's requests in the order it sent them: the
\* tasks wait in one queue, the only worker finishes one before it takes the
\* next, and the responses are posted to a thread that sends them in order.
THEOREM AnsweredInOrder == ASSUME NumThreads = 1 PROVE OpenSpec => []AnswersInOrder
<1>1. Known /\ Ordered => AnswersInOrder
  <2> SUFFICES ASSUME Known, Ordered, NEW s \in Sessions, NEW i \in DOMAIN wire[s], NEW j \in DOMAIN wire[s],
                      i < j, wire[s][i].kind = "response", wire[s][j].kind = "response"
               PROVE  wire[s][i].req.num < wire[s][j].req.num
    BY DEF AnswersInOrder
  <2>1. wire[s][i].req.session = s /\ wire[s][j].req.session = s
    BY DEF Known, FrameKnown
  <2> QED
    BY <2>1 DEF Ordered, Rising
<1> QED
  BY <1>1, OrderedInvariant, PTL

-----------------------------------------------------------------------------
(* A client's disconnection, with one worker thread.                       *)

Disconnect(c) == [kind |-> "disconnect", ctx |-> c]

\* The client of a task is there, or its disconnection waits in the queue.
Attended(t, q, present) ==
  t.kind \in {"connect", "request"} => t.ctx \in present \/ \E i \in DOMAIN q : q[i] = Disconnect(t.ctx)

\* The same of each task in the queue, whose client's disconnection is behind it.
Followed(q, present) ==
  \A i \in DOMAIN q : q[i].kind \in {"connect", "request"} =>
    \/ q[i].ctx \in present
    \/ \E j \in DOMAIN q : i < j /\ q[j] = Disconnect(q[i].ctx)

LastWords == /\ Followed(workerTasks, DOMAIN m_ctxToConn)
             /\ \A w \in Workers : Attended(worker[w].task, workerTasks, DOMAIN m_ctxToConn)

\* A queue that grows by a disconnection, or by a task of a client present,
\* has every task of a client gone still followed by its disconnection.
LEMMA AddsFollowed ==
  ASSUME NEW q, NEW e, NEW r, Adds(q, e, r), NEW before, NEW after, Followed(q, before),
         \A c \in before : c \in after \/ e = Disconnect(c),
         e.kind \in {"connect", "request"} => e.ctx \in after
  PROVE  /\ Followed(r, after)
         /\ \A t : Attended(t, q, before) => Attended(t, r, after)
<1>1. Len(q) + 1 \in DOMAIN r /\ r[Len(q) + 1] = e
  BY DEF Adds
<1>2. Followed(r, after)
  <2> SUFFICES ASSUME NEW i \in DOMAIN r, r[i].kind \in {"connect", "request"}, r[i].ctx \notin after
               PROVE  \E j \in DOMAIN r : i < j /\ r[j] = Disconnect(r[i].ctx)
    BY DEF Followed
  <2>1. i \in DOMAIN q /\ r[i] = q[i] /\ i < Len(q) + 1
    BY DEF Adds
  <2>2. CASE q[i].ctx \in before
    BY <1>1, <2>1, <2>2
  <2>3. CASE q[i].ctx \notin before
    <3>1. PICK j \in DOMAIN q : i < j /\ q[j] = Disconnect(q[i].ctx)
      BY <2>1, <2>3 DEF Followed
    <3> QED
      BY <2>1, <3>1 DEF Adds
  <2> QED
    BY <2>2, <2>3
<1>3. ASSUME NEW t, Attended(t, q, before) PROVE Attended(t, r, after)
  BY <1>1, <1>3 DEF Adds, Attended
<1> QED
  BY <1>2, <1>3

\* So has a queue that loses its head, and the head is followed likewise.
LEMMA TailFollowed ==
  ASSUME NEW S, NEW q \in Seq(S), q # <<>>, NEW present, Followed(q, present)
  PROVE  Followed(Tail(q), present) /\ Attended(Head(q), Tail(q), present)
<1> DEFINE r == Tail(q)
           e == Head(q)
<1>1. /\ 1 \in DOMAIN q /\ e = q[1]
      /\ \A i \in DOMAIN r : i + 1 \in DOMAIN q /\ r[i] = q[i + 1]
      /\ \A i \in DOMAIN r, j \in DOMAIN q : i + 1 < j => j - 1 \in DOMAIN r /\ i < j - 1 /\ r[j - 1] = q[j]
      /\ \A j \in DOMAIN q : 1 < j => j - 1 \in DOMAIN r /\ r[j - 1] = q[j]
  OBVIOUS
<1> HIDE DEF r, e
<1>2. Followed(r, present)
  <2> SUFFICES ASSUME NEW i \in DOMAIN r, r[i].kind \in {"connect", "request"}, r[i].ctx \notin present
               PROVE  \E j \in DOMAIN r : i < j /\ r[j] = Disconnect(r[i].ctx)
    BY DEF Followed
  <2>1. PICK j \in DOMAIN q : i + 1 < j /\ q[j] = Disconnect(r[i].ctx)
    BY <1>1 DEF Followed
  <2> QED
    BY <1>1, <2>1
<1>3. Attended(e, r, present)
  BY <1>1 DEF Followed, Attended
<1> QED
  BY <1>2, <1>3 DEF r, e

\* Every step of a connector with one worker keeps a client's disconnection
\* behind its other tasks.
LEMMA StepLastWords ==
  ASSUME NumThreads = 1, Ground, Ground', LastWords, [OpenNext]_vars
  PROVE  LastWords'
<1> DEFINE present == DOMAIN m_ctxToConn
<1>0. Followed(workerTasks, present) /\ \A w \in Workers : Attended(worker[w].task, workerTasks, present)
  BY DEF LastWords
<1>1. ASSUME NEW t \in WorkerTasks, workerTasks' = Append(workerTasks, t), UNCHANGED worker,
             \A c \in present : c \in present' \/ t = Disconnect(c),
             t.kind \in {"connect", "request"} => t.ctx \in present'
      PROVE  LastWords'
  <2>1. Adds(workerTasks, t, workerTasks')
    BY <1>1, AppendAdds
  <2>2. /\ Followed(workerTasks', present')
        /\ \A u : Attended(u, workerTasks, present) => Attended(u, workerTasks', present')
    BY <1>0, <1>1, <2>1, AddsFollowed
  <2> QED
    BY <1>0, <1>1, <2>2 DEF LastWords
<1>2. ASSUME NEW h \in Handles, onConnOpen(h) PROVE LastWords'
  <2> DEFINE t == [kind |-> "connect", ctx |-> m_connIdCnt']
  <2>1. t \in WorkerTasks
    BY <1>2 DEF onConnOpen, WorkerTasks, Ground, TypeOK, BookTypes
  <2>2. workerTasks' = Append(workerTasks, t) /\ UNCHANGED worker /\ present' = present \cup {m_connIdCnt'}
    BY <1>2 DEF onConnOpen, newConnection, PostToWorkers
  <2> QED
    BY <1>1, <2>1, <2>2
<1>3. ASSUME NEW h \in DOMAIN m_connToCtx, onConnClose(h) PROVE LastWords'
  <2> DEFINE c == m_connToCtx[h]
  <2>1. Disconnect(c) \in WorkerTasks
    BY DEF Disconnect, WorkerTasks, Ground, TypeOK, BookTypes
  <2>2. /\ workerTasks' = Append(workerTasks, Disconnect(c)) /\ UNCHANGED worker
        /\ present' = present \ {c}
    BY <1>3 DEF onConnClose, removeConnection, Restrict, PostToWorkers, Disconnect
  <2>3. Disconnect(c).kind = "disconnect"
    BY DEF Disconnect
  <2> QED
    BY <1>1, <2>1, <2>2, <2>3
<1>4. ASSUME NEW h \in DOMAIN m_connToCtx, NEW body \in Bodies, onConnMessage(h, body) PROVE LastWords'
  <2> DEFINE r == [session |-> conn[h].session, num |-> asked[conn[h].session] + 1, body |-> body]
             t == [kind |-> "request", ctx |-> m_connToCtx[h], req |-> r]
  <2>1. /\ r \in Requests /\ workerTasks' = Append(workerTasks, t) /\ UNCHANGED <<worker, m_ctxToConn>>
        /\ m_connToCtx[h] \in Ctxs /\ m_connToCtx[h] \in present
    BY <1>4, NewRequest DEF bookVars, Ground, Book
  <2> HIDE DEF r
  <2>2. t \in WorkerTasks
    BY <2>1 DEF WorkerTasks
  <2> QED
    BY <1>1, <2>1, <2>2
<1>5. ASSUME NEW w \in Workers, TakeWorkerTask(w) PROVE LastWords'
  <2>1. workerTasks # <<>> /\ workerTasks' = Tail(workerTasks) /\ UNCHANGED m_ctxToConn
    BY <1>5 DEF TakeWorkerTask, workerUnchanged, bookVars
  <2>2. \A v \in Workers : worker'[v].task = Head(workerTasks)
    BY <1>5, Taking DEF Takes, Workers
  <2>3. Followed(workerTasks', present) /\ Attended(Head(workerTasks), workerTasks', present)
    BY <1>0, <2>1, Elements, TailFollowed
  <2> QED
    BY <2>1, <2>2, <2>3 DEF LastWords
<1>6. ASSUME NEW w \in Workers, NEW answer \in Answers, FinishTask(w, answer) PROVE LastWords'
  <2>1. UNCHANGED <<workerTasks, m_ctxToConn>>
    BY <1>6 DEF FinishTask, workerUnchanged, bookVars
  <2>2. \A v \in Workers : worker'[v].task = NoTask
    BY <1>6, Finishing DEF Finishes, Workers
  <2>3. Attended(NoTask, workerTasks, present)
    BY TaskKinds DEF Attended
  <2> QED
    BY <1>0, <2>1, <2>2, <2>3 DEF LastWords
<1>7. CASE UNCHANGED <<workerTasks, m_ctxToConn>> /\ SameTasks
  BY <1>0, <1>7 DEF LastWords, SameTasks
<1>8. doSendResponse \/ doSendNotification \/ stopServerLoop => UNCHANGED <<workerTasks, m_ctxToConn>> /\ SameTasks
  BY DEF doSendResponse, doSendNotification, stopServerLoop, TakeServerTask, bookVars, poolVars, SameTasks
<1> QED
  BY <1>2, <1>3, <1>4, <1>5, <1>6, <1>7, <1>8, QueueSteps DEF Ground, Still, Posts, SameTasks

\* One worker thread is done with all requests of a client before it starts on
\* the client's disconnection: the tasks are queued in the order of the events
\* and the connection's last event is its close.
THEOREM LastIsDisconnect == ASSUME NumThreads = 1 PROVE OpenSpec => []DisconnectIsLast
<1>1. Init => LastWords
  BY TaskKinds DEF Init, LastWords, Followed, Attended
<1>2. LastWords => DisconnectIsLast
  BY DEF LastWords, Attended, Disconnect, DisconnectIsLast
<1> QED
  BY <1>1, <1>2, StepGround, StepLastWords, GroundInvariant, PTL DEF OpenSpec


-----------------------------------------------------------------------------
(* A client that is gone is not forgotten before its disconnection has been *)
(* handled, by however many workers.                                       *)

\* The client is there, or its disconnection is in the queue or in hand.
Remembered(c) == \/ c \in DOMAIN m_ctxToConn
                 \/ \E i \in DOMAIN workerTasks : workerTasks[i] = Disconnect(c)
                 \/ \E w \in Workers : worker[w].task = Disconnect(c)

\* Only the end of that task forgets it.
LEMMA RememberedUntilHandled ==
  ASSUME Ground, Ground', [OpenNext]_vars, NEW c, Remembered(c)
  PROVE  \/ Remembered(c)'
         \/ \E w \in Workers : worker[w].task = Disconnect(c) /\ \E answer \in Answers : FinishTask(w, answer)
<1> USE DEF Remembered
<1>1. ASSUME NEW t \in WorkerTasks, workerTasks' = Append(workerTasks, t), UNCHANGED worker,
             c \in DOMAIN m_ctxToConn => c \in DOMAIN m_ctxToConn' \/ t = Disconnect(c)
      PROVE  Remembered(c)'
  <2>1. Adds(workerTasks, t, workerTasks')
    BY <1>1, AppendAdds
  <2>2. Len(workerTasks) + 1 \in DOMAIN workerTasks' /\ workerTasks'[Len(workerTasks) + 1] = t
    BY <2>1 DEF Adds
  <2>3. \A i \in DOMAIN workerTasks : i \in DOMAIN workerTasks' /\ workerTasks'[i] = workerTasks[i]
    BY <2>1 DEF Adds
  <2> QED
    BY <1>1, <2>2, <2>3
<1>2. ASSUME NEW h \in Handles, onConnOpen(h) PROVE Remembered(c)'
  <2> DEFINE t == [kind |-> "connect", ctx |-> m_connIdCnt']
  <2>1. t \in WorkerTasks
    BY <1>2 DEF onConnOpen, WorkerTasks, Ground, TypeOK, BookTypes
  <2>2. /\ workerTasks' = Append(workerTasks, t) /\ UNCHANGED worker
        /\ DOMAIN m_ctxToConn' = DOMAIN m_ctxToConn \cup {m_connIdCnt'}
    BY <1>2 DEF onConnOpen, newConnection, PostToWorkers
  <2> QED
    BY <1>1, <2>1, <2>2
<1>3. ASSUME NEW h \in DOMAIN m_connToCtx, onConnClose(h) PROVE Remembered(c)'
  <2> DEFINE d == m_connToCtx[h]
  <2>1. Disconnect(d) \in WorkerTasks
    BY DEF Disconnect, WorkerTasks, Ground, TypeOK, BookTypes
  <2>2. /\ workerTasks' = Append(workerTasks, Disconnect(d)) /\ UNCHANGED worker
        /\ DOMAIN m_ctxToConn' = DOMAIN m_ctxToConn \ {d}
    BY <1>3 DEF onConnClose, removeConnection, Restrict, PostToWorkers, Disconnect
  <2> QED
    BY <1>1, <2>1, <2>2
<1>4. ASSUME NEW h \in DOMAIN m_connToCtx, NEW body \in Bodies, onConnMessage(h, body) PROVE Remembered(c)'
  <2> DEFINE r == [session |-> conn[h].session, num |-> asked[conn[h].session] + 1, body |-> body]
             t == [kind |-> "request", ctx |-> m_connToCtx[h], req |-> r]
  <2>1. /\ r \in Requests /\ workerTasks' = Append(workerTasks, t) /\ UNCHANGED <<worker, m_ctxToConn>>
        /\ m_connToCtx[h] \in Ctxs
    BY <1>4, NewRequest DEF bookVars, Ground, Book
  <2> HIDE DEF r
  <2>2. t \in WorkerTasks
    BY <2>1 DEF WorkerTasks
  <2> QED
    BY <1>1, <2>1, <2>2
<1>5. ASSUME NEW w \in Workers, TakeWorkerTask(w) PROVE Remembered(c)'
  <2>1. workerTasks # <<>> /\ workerTasks' = Tail(workerTasks) /\ UNCHANGED m_ctxToConn
    BY <1>5 DEF TakeWorkerTask, workerUnchanged, bookVars
  <2>2. /\ worker[w].task = NoTask /\ worker'[w].task = Head(workerTasks)
        /\ \A v \in Workers \ {w} : worker'[v].task = worker[v].task
    BY <1>5, Taking DEF Takes
  <2>3. \A i \in DOMAIN workerTasks : \/ workerTasks[i] = Head(workerTasks)
                                      \/ i - 1 \in DOMAIN Tail(workerTasks) /\ Tail(workerTasks)[i - 1] = workerTasks[i]
    BY <2>1, Elements
  <2>4. NoTask # Disconnect(c)
    BY DEF NoTask, Disconnect
  <2> QED
    BY <2>1, <2>2, <2>3, <2>4
<1>6. ASSUME NEW w \in Workers, NEW answer \in Answers, FinishTask(w, answer)
      PROVE  Remembered(c)' \/ worker[w].task = Disconnect(c)
  <2>1. UNCHANGED <<workerTasks, m_ctxToConn>>
    BY <1>6 DEF FinishTask, workerUnchanged, bookVars
  <2>2. \A v \in Workers \ {w} : worker'[v].task = worker[v].task
    BY <1>6, Finishing DEF Finishes
  <2> QED
    BY <2>1, <2>2
<1>7. CASE UNCHANGED <<workerTasks, m_ctxToConn>> /\ SameTasks
  BY <1>7 DEF SameTasks
<1>8. doSendResponse \/ doSendNotification \/ stopServerLoop => UNCHANGED <<workerTasks, m_ctxToConn>> /\ SameTasks
  BY DEF doSendResponse, doSendNotification, stopServerLoop, TakeServerTask, bookVars, poolVars, SameTasks
<1> QED
  BY <1>2, <1>3, <1>4, <1>5, <1>6, <1>7, <1>8, QueueSteps DEF Ground, Still, Posts, SameTasks


\* A worker pool that was stopped stays so.
LEMMA PoolStopped ==
  ASSUME [OpenNext]_vars, workerStopped
  PROVE  workerStopped'
<1>1. ASSUME NEW why, Terminate(why) PROVE workerStopped'
  BY <1>1 DEF Terminate, poolVars
<1>2. CASE ControlStep
  BY <1>2, <1>1 DEF ControlStep, StartListening, StartAgain, StopListening, StopReturns, poolVars
<1>3. CASE LoopStep
  BY <1>3, <1>1 DEF LoopStep, OwnLoopStep, InitAsio, SpawnWorker, PrepareHandler, Listen, RunReturns,
       StopPool, JoinWorker, EraseHandler, poolVars
<1>4. ASSUME NEW h, NetworkStep(h) PROVE workerStopped'
  BY <1>4, <1>1 DEF NetworkStep, Accept, HandshakeFails, onConnOpen, onConnMessage, PeerCloses, onConnClose,
       poolVars
<1>5. CASE RunServerTask
  BY <1>5 DEF RunServerTask, doSendResponse, doSendNotification, stopServerLoop, TakeServerTask, poolVars
<1>6. ASSUME NEW w, WorkerStep(w) PROVE workerStopped'
  BY <1>6, <1>1 DEF WorkerStep, TakeWorkerTask, WorkerExits, FindHandler, MissHandler, FinishTask,
       workerUnchanged
<1>7. ASSUME NEW w, FunctionStep(w) PROVE workerStopped'
  BY <1>7, <1>1 DEF FunctionStep, StopListening, poolVars
<1> QED
  BY <1>2, <1>3, <1>4, <1>5, <1>6, <1>7 DEF OpenNext, Next, sendNotification, Halted, vars, poolVars

-----------------------------------------------------------------------------
(* The frames under way: posted, or sent.                                  *)

Afoot(m) == \/ \E i \in DOMAIN serverTasks : serverTasks[i] = m
            \/ \E s \in Sessions : \E i \in DOMAIN wire[s] : wire[s][i] = m

\* Whose they are.
LEMMA FramesKnown ==
  ASSUME Ground, Known, NEW m, Afoot(m)
  PROVE  m \in ServerTasks /\ FrameKnown(m, owner, asked)
  BY Elements DEF Known, Afoot

\* A response is posted by the worker that finishes with its request.
LEMMA NewFrames ==
  ASSUME Ground, Ground', [OpenNext]_vars, NEW m, Afoot(m)', m.kind = "response"
  PROVE  \/ Afoot(m)
         \/ \E w \in Workers : /\ Finishes(w) /\ worker[w].task.kind = "request" /\ m \in Frames
                               /\ serverTasks' = Append(serverTasks, m)
<1> DEFINE Goal == \/ Afoot(m)
                   \/ \E w \in Workers : /\ Finishes(w) /\ worker[w].task.kind = "request" /\ m \in Frames
                                         /\ serverTasks' = Append(serverTasks, m)
<1> SUFFICES Goal
  OBVIOUS
<1> USE Elements
<1>1. CASE UNCHANGED <<serverTasks, wire>>
  BY <1>1 DEF Afoot
<1>2. ASSUME NEW n \in ServerTasks, serverTasks' = Append(serverTasks, n), UNCHANGED wire
      PROVE  Afoot(m) \/ m = n
  BY <1>2, SameElements DEF Afoot
<1>3. ASSUME NEW n \in PostedOnly, Posts(n) PROVE Goal
  <2>1. n \in ServerTasks /\ n.kind # "response"
    BY DEF PostedOnly, ServerTasks, Frames, Ground, TypeOK, BookTypes
  <2> QED BY <1>2, <1>3, <2>1 DEF Posts
<1>4. ASSUME NEW w \in Workers, Finishes(w) PROVE Goal
  <2>1. CASE serverTasks' = serverTasks
    BY <1>1, <1>4, <2>1 DEF Finishes
  <2>2. ASSUME NEW n \in Frames, serverTasks' = Append(serverTasks, n), worker[w].task.kind = "request"
        PROVE  Goal
    <3>1. n \in ServerTasks /\ UNCHANGED wire
      BY <1>4 DEF ServerTasks, Finishes
    <3> QED BY <1>2, <1>4, <2>2, <3>1
  <2> QED BY <1>4, <2>1, <2>2 DEF Finishes
<1>5. ASSUME NEW n \in ServerTasks, Sends(n) PROVE Goal
  <2>1. Afoot(n) /\ (\A i \in DOMAIN serverTasks' : Afoot(serverTasks'[i]))
    BY <1>5, SameElements DEF Sends, Afoot
  <2>2. \A s \in Sessions : \A i \in DOMAIN wire'[s] : Afoot(wire'[s][i])
    <3>1. CASE UNCHANGED wire
      BY <3>1 DEF Afoot
    <3>2. CASE n \in Frames /\ owner[n.ctx] \in Sessions /\ wire' = [wire EXCEPT ![owner[n.ctx]] = Append(@, n)]
      <4>1. \A s \in Sessions : s # owner[n.ctx] => wire'[s] = wire[s]
        BY <3>2
      <4>2. wire'[owner[n.ctx]] = Append(wire[owner[n.ctx]], n)
        BY <3>2
      <4>3. ASSUME NEW s \in Sessions, s = owner[n.ctx], NEW i \in DOMAIN wire'[s]
            PROVE  Afoot(wire'[s][i])
        <5>1. Adds(wire[s], n, wire'[s])
          BY <3>2, <4>2, <4>3, AppendAdds
        <5>2. wire'[s][i] = n \/ (i \in DOMAIN wire[s] /\ wire'[s][i] = wire[s][i])
          BY <4>3, <5>1 DEF Adds
        <5> QED BY <2>1, <5>2 DEF Afoot
      <4> QED BY <4>1, <4>3 DEF Afoot
    <3> QED BY <1>5, <3>1, <3>2 DEF Sends
  <2> QED BY <2>1, <2>2 DEF Afoot
<1> HIDE DEF Goal
<1> QED
  BY <1>1, <1>3, <1>4, <1>5, Moves DEF Announces, Asks, Takes

\* A response stays while its peer is connected.
LEMMA FramesStay ==
  ASSUME Ground, Ground', [OpenNext]_vars, NEW m, Afoot(m), m.kind = "response",
         m.ctx \in DOMAIN owner, Carried(owner[m.ctx])
  PROVE  Afoot(m)'
<1> USE Elements
<1>1. CASE UNCHANGED <<serverTasks, wire>>
  BY <1>1 DEF Afoot
<1>2. ASSUME NEW n \in ServerTasks, serverTasks' = Append(serverTasks, n), UNCHANGED wire
      PROVE  Afoot(m)'
  <2>1. Adds(serverTasks, n, serverTasks')
    BY <1>2, AppendAdds
  <2> QED BY <1>2, <2>1 DEF Adds, Afoot
<1>3. ASSUME NEW n \in PostedOnly, Posts(n) PROVE Afoot(m)'
  <2>1. n \in ServerTasks
    BY DEF PostedOnly, ServerTasks, Frames, Ground, TypeOK, BookTypes
  <2> QED BY <1>2, <1>3, <2>1 DEF Posts
<1>4. ASSUME NEW w \in Workers, Finishes(w) PROVE Afoot(m)'
  BY <1>1, <1>2, <1>4 DEF Finishes, ServerTasks
<1>5. ASSUME NEW n \in ServerTasks, Sends(n) PROVE Afoot(m)'
  <2>1. CASE m = n
    <3>1. /\ n \in Frames /\ owner[n.ctx] \in Sessions
          /\ wire' = [wire EXCEPT ![owner[n.ctx]] = Append(@, n)]
      BY <1>5, <2>1 DEF Sends
    <3>2. Adds(wire[owner[n.ctx]], n, wire'[owner[n.ctx]])
      BY <3>1, AppendAdds
    <3> QED BY <2>1, <3>1, <3>2 DEF Adds, Afoot
  <2>2. ASSUME NEW i \in DOMAIN serverTasks, serverTasks[i] = m, m # n
        PROVE  Afoot(m)'
    <3>1. i # 1 /\ i \in 1..Len(serverTasks) /\ serverTasks' = Tail(serverTasks)
      BY <1>5, <2>2 DEF Sends
    <3>2. i - 1 \in DOMAIN serverTasks' /\ serverTasks'[i - 1] = m
      BY <2>2, <3>1
    <3> QED BY <3>2 DEF Afoot
  <2>3. ASSUME NEW s \in Sessions, NEW i \in DOMAIN wire[s], wire[s][i] = m
        PROVE  Afoot(m)'
    <3>1. CASE wire'[s] = wire[s]
      BY <2>3, <3>1 DEF Afoot
    <3>2. CASE n \in Frames /\ s = owner[n.ctx] /\ wire' = [wire EXCEPT ![owner[n.ctx]] = Append(@, n)]
      <4>1. Adds(wire[s], n, wire'[s])
        BY <3>2, AppendAdds
      <4> QED BY <2>3, <4>1 DEF Adds, Afoot
    <3> QED BY <1>5, <3>1, <3>2 DEF Sends
  <2> QED BY <2>1, <2>2, <2>3 DEF Afoot
<1> QED
  BY <1>1, <1>3, <1>4, <1>5, Moves DEF Announces, Asks, Takes

\* A peer that has been connected and is no longer is not connected again.
LEMMA CarriedNoMore ==
  ASSUME Ground, [OpenNext]_vars, NEW c \in DOMAIN owner, Carried(owner[c])'
  PROVE  owner'[c] = owner[c] /\ Carried(owner[c])
<1> DEFINE s == owner[c]
<1>2. conn \in ConnType
  BY DEF Ground, TypeOK, NetTypes, ConnType
<1>3. PICK g \in Handles : conn'[g] = [state |-> "open", session |-> owner'[c]]
  BY DEF Carried
<1>4. conn'[g] = conn[g] /\ owner'[c] = owner[c] => Carried(s)
  BY <1>3 DEF Carried
<1>5. ASSUME NEW h \in Handles, Accept(h) \/ HandshakeFails(h) \/ PeerCloses(h)
      PROVE  conn'[g] = conn[g] /\ UNCHANGED owner
  BY <1>2, <1>3, <1>5 DEF Accept, HandshakeFails, PeerCloses, ConnType, Free, bookVars
<1>6. ASSUME NEW h \in Handles, onConnOpen(h)
      PROVE  conn'[g] = conn[g] /\ owner'[c] = owner[c]
  <2>1. m_connIdCnt + 1 \notin DOMAIN owner
    BY BoundsAssumption DEF Ground, Book, TypeOK, BookTypes
  <2>2. owner'[c] = owner[c]
    BY <1>6, <2>1 DEF onConnOpen, newConnection
  <2>3. owner[c] # conn[h].session
    BY <1>6 DEF onConnOpen, Ground, Owners, Shaking
  <2>4. g # h
    BY <1>2, <1>3, <1>6, <2>2, <2>3 DEF onConnOpen, ConnType, Free
  <2> QED BY <1>2, <1>6, <2>2, <2>4 DEF onConnOpen, ConnType
<1>7. ASSUME NEW h \in Handles, onConnClose(h) \/ \E body \in Bodies : onConnMessage(h, body)
      PROVE  conn'[g] = conn[g] /\ UNCHANGED owner
  <2>1. CASE UNCHANGED <<conn, owner>>
    BY <2>1
  <2>2. CASE conn' = [conn EXCEPT ![h] = Free] /\ UNCHANGED owner
    BY <1>2, <1>3, <2>2 DEF ConnType, Free
  <2> QED BY <1>7, <2>1, <2>2 DEF onConnClose, onConnMessage, Terminate, bookVars, netVars
<1>8. ASSUME stopServerLoop PROVE conn'[g] = conn[g] /\ UNCHANGED owner
  <2>1. conn'[g] \in {conn[g], [conn[g] EXCEPT !.state = "closing"]} /\ UNCHANGED owner
    BY <1>8 DEF stopServerLoop, closeConnections, TakeServerTask, bookVars
  <2>2. "state" \in DOMAIN conn[g]
    BY <1>2 DEF ConnType, Free
  <2> QED BY <1>3, <2>1, <2>2
<1>9. ASSUME UNCHANGED <<conn, accepted, asked, bookVars>> PROVE conn'[g] = conn[g] /\ UNCHANGED owner
  BY <1>9 DEF bookVars
<1> QED
  BY <1>4, <1>5, <1>6, <1>7, <1>8, <1>9, NetSteps


-----------------------------------------------------------------------------
(* The line of frames a peer has been sent, and behind them those posted.  *)

Line(s) == wire[s] \o serverTasks

\* Queue r is q without its p-th element.
Drops(q, p, r) == /\ p \in DOMAIN q /\ Len(q) = Len(r) + 1
                  /\ \A i \in DOMAIN r : r[i] = q[IF i < p THEN i ELSE i + 1]

\* Two queues, one behind the other.
LEMMA Joined ==
  ASSUME NEW S, NEW p \in Seq(S), NEW q \in Seq(S)
  PROVE  /\ p \o q \in Seq(S) /\ Len(p \o q) = Len(p) + Len(q)
         /\ \A i \in DOMAIN p : i \in DOMAIN (p \o q) /\ (p \o q)[i] = p[i]
         /\ \A i \in DOMAIN q : Len(p) + i \in DOMAIN (p \o q) /\ (p \o q)[Len(p) + i] = q[i]
<1>1. Len(p) \in Nat /\ Len(q) \in Nat /\ DOMAIN p = 1..Len(p) /\ DOMAIN q = 1..Len(q)
  OBVIOUS
<1>2. ASSUME NEW i \in DOMAIN q PROVE Len(p) + i \in DOMAIN (p \o q) /\ (p \o q)[Len(p) + i] = q[i]
  BY <1>1
<1> QED
  BY <1>1, <1>2

\* Place by place.
LEMMA Concatenation ==
  ASSUME NEW S, NEW p \in Seq(S), NEW q \in Seq(S)
  PROVE  /\ p \o q \in Seq(S) /\ Len(p) \in Nat /\ Len(q) \in Nat
         /\ Len(p \o q) = Len(p) + Len(q) /\ DOMAIN (p \o q) = 1..(Len(p) + Len(q))
         /\ \A i \in 1..Len(p) : (p \o q)[i] = p[i]
         /\ \A i \in 1..Len(q) : (p \o q)[Len(p) + i] = q[i]
         /\ \A i \in 1..(Len(p) + Len(q)) : i \in 1..Len(p) \/ (i - Len(p) \in 1..Len(q) /\ i = Len(p) + (i - Len(p)))
<1>1. p \o q \in Seq(S) /\ Len(p) \in Nat /\ Len(q) \in Nat /\ DOMAIN p = 1..Len(p) /\ DOMAIN q = 1..Len(q)
  OBVIOUS
<1>2. Len(p \o q) = Len(p) + Len(q) /\ DOMAIN (p \o q) = 1..(Len(p) + Len(q))
  BY <1>1
<1>3. \A i \in 1..(Len(p) + Len(q)) : i \in 1..Len(p) \/ (i - Len(p) \in 1..Len(q) /\ i = Len(p) + (i - Len(p)))
  BY <1>1
<1> QED
  BY <1>1, <1>2, <1>3, Joined

\* The second grows by its end.
LEMMA JoinedGrows ==
  ASSUME NEW S, NEW p \in Seq(S), NEW q \in Seq(S), NEW e \in S, NEW r, r = Append(q, e)
  PROVE  Adds(p \o q, e, p \o r)
<1> DEFINE m == Len(p)
           n == Len(q)
           u == p \o q
           v == p \o r
<1>1. r \in Seq(S) /\ Len(r) = n + 1 /\ r[n + 1] = e /\ \A i \in 1..n : r[i] = q[i]
  OBVIOUS
<1>2. /\ m \in Nat /\ n \in Nat
      /\ Len(u) = m + n /\ DOMAIN u = 1..(m + n)
      /\ \A i \in 1..m : u[i] = p[i]
      /\ \A i \in 1..n : u[m + i] = q[i]
      /\ \A i \in 1..(m + n) : i \in 1..m \/ (i - m \in 1..n /\ i = m + (i - m))
  BY Concatenation
<1>3. /\ DOMAIN v = 1..(m + (n + 1))
      /\ \A i \in 1..m : v[i] = p[i]
      /\ \A i \in 1..(n + 1) : v[m + i] = r[i]
  BY <1>1, Concatenation
<1> HIDE DEF m, n, u, v
<1>4. ASSUME NEW i \in 1..(m + n) PROVE v[i] = u[i]
  <2>1. CASE i \in 1..m
    BY <1>2, <1>3, <2>1
  <2>2. ASSUME NEW j \in 1..n, i = m + j PROVE v[i] = u[i]
    <3>1. j \in 1..(n + 1)
      BY <1>2
    <3>2. v[m + j] = r[j] /\ u[m + j] = q[j] /\ r[j] = q[j]
      BY <1>1, <1>2, <1>3, <3>1
    <3> QED BY <2>2, <3>2
  <2> QED BY <1>2, <2>1, <2>2
<1>5. v[m + n + 1] = e
  <2>1. v[m + (n + 1)] = e
    BY <1>1, <1>2, <1>3
  <2> QED BY <1>2, <2>1
<1>6. DOMAIN v = DOMAIN u \cup {m + n + 1}
  <2>1. 1..(m + (n + 1)) = 1..(m + n) \cup {m + n + 1}
    BY <1>2
  <2> QED BY <1>2, <1>3, <2>1
<1>7. \A i \in DOMAIN u : v[i] = u[i] /\ i # m + n + 1 /\ i < m + n + 1
  <2>1. \A i \in 1..(m + n) : i # m + n + 1 /\ i < m + n + 1
    BY <1>2
  <2> QED BY <1>2, <1>4, <2>1
<1>8. Adds(u, e, v)
  BY <1>2, <1>5, <1>6, <1>7 DEF Adds
<1> QED
  BY <1>8 DEF u, v

\* The second loses its head, to the first or not.
LEMMA JoinedShrinks ==
  ASSUME NEW S, NEW p \in Seq(S), NEW q \in Seq(S), q # <<>>
  PROVE  /\ Append(p, Head(q)) \o Tail(q) = p \o q
         /\ Drops(p \o q, Len(p) + 1, p \o Tail(q)) /\ (p \o q)[Len(p) + 1] = Head(q)
<1> DEFINE h == Head(q)
           t == Tail(q)
           a == Append(p, h)
           m == Len(p)
           n == Len(t)
           u == p \o q
           v == p \o t
           x == a \o t
<1>1. /\ h \in S /\ t \in Seq(S) /\ Len(q) = n + 1 /\ h = q[1] /\ n \in Nat /\ m \in Nat
      /\ \A i \in 1..n : t[i] = q[i + 1]
  OBVIOUS
<1>2. a \in Seq(S) /\ Len(a) = m + 1 /\ a[m + 1] = h /\ \A i \in 1..m : a[i] = p[i]
  BY <1>1
<1>3. /\ u \in Seq(S) /\ Len(u) = m + (n + 1) /\ DOMAIN u = 1..(m + (n + 1))
      /\ \A i \in 1..m : u[i] = p[i]
      /\ \A i \in 1..(n + 1) : u[m + i] = q[i]
  BY <1>1, Concatenation
<1>4. /\ v \in Seq(S) /\ Len(v) = m + n /\ DOMAIN v = 1..(m + n)
      /\ \A i \in 1..m : v[i] = p[i]
      /\ \A i \in 1..n : v[m + i] = t[i]
      /\ \A i \in 1..(m + n) : i \in 1..m \/ (i - m \in 1..n /\ i = m + (i - m))
  BY <1>1, Concatenation
<1> HIDE DEF h, t, a
<1>5. /\ x \in Seq(S) /\ Len(x) = (m + 1) + n
      /\ \A i \in 1..(m + 1) : x[i] = a[i]
      /\ \A i \in 1..n : x[(m + 1) + i] = t[i]
      /\ \A i \in 1..((m + 1) + n) : i \in 1..(m + 1) \/ (i - (m + 1) \in 1..n /\ i = (m + 1) + (i - (m + 1)))
  <2> DEFINE l == Len(a)
  <2>1. /\ x \in Seq(S) /\ Len(x) = l + n
        /\ \A i \in 1..l : x[i] = a[i]
        /\ \A i \in 1..n : x[l + i] = t[i]
        /\ \A i \in 1..(l + n) : i \in 1..l \/ (i - l \in 1..n /\ i = l + (i - l))
    <3>1. a \in Seq(S) /\ t \in Seq(S)
      BY <1>1, <1>2
    <3> QED BY <3>1, Concatenation
  <2>2. l = m + 1
    BY <1>2
  <2> HIDE DEF l, m, n, x
  <2> QED BY <2>1, <2>2
<1> HIDE DEF m, n, u, v, x
<1>6. ASSUME NEW i \in 1..((m + 1) + n) PROVE x[i] = u[i]
  <2>1. CASE i \in 1..m
    BY <1>1, <1>2, <1>3, <1>5, <2>1
  <2>2. CASE i = m + 1
    BY <1>1, <1>2, <1>3, <1>5, <2>2
  <2>3. ASSUME NEW j \in 1..n, i = (m + 1) + j PROVE x[i] = u[i]
    <3>1. u[m + (j + 1)] = q[j + 1]
      BY <1>1, <1>3
    <3>2. (m + 1) + j = m + (j + 1)
      BY <1>1
    <3> QED BY <1>1, <1>5, <2>3, <3>1, <3>2
  <2>4. i \in 1..(m + 1) => i \in 1..m \/ i = m + 1
    BY <1>1
  <2> QED BY <1>5, <2>1, <2>2, <2>3, <2>4
<1>7. x = u
  <2>1. Len(u) = Len(x)
    BY <1>1, <1>3, <1>5
  <2> QED BY <1>3, <1>5, <1>6, <2>1, SeqEqual
<1>8. u[m + 1] = h
  BY <1>1, <1>3
<1>9. ASSUME NEW i \in 1..(m + n) PROVE v[i] = u[IF i < m + 1 THEN i ELSE i + 1]
  <2>1. CASE i \in 1..m
    BY <1>1, <1>3, <1>4, <2>1
  <2>2. ASSUME NEW j \in 1..n, i = m + j PROVE v[i] = u[IF i < m + 1 THEN i ELSE i + 1]
    <3>1. u[m + (j + 1)] = q[j + 1]
      BY <1>1, <1>3
    <3>2. (m + j) + 1 = m + (j + 1) /\ ~(m + j < m + 1)
      BY <1>1
    <3> QED BY <1>1, <1>4, <2>2, <3>1, <3>2
  <2> QED BY <1>4, <2>1, <2>2
<1>10. Drops(u, m + 1, v)
  <2>1. m + 1 \in DOMAIN u /\ Len(u) = Len(v) + 1
    BY <1>1, <1>3, <1>4
  <2> QED BY <1>4, <1>9, <2>1 DEF Drops
<1> QED
  BY <1>7, <1>8, <1>10 DEF a, h, t, m, u, v, x

\* A step adds to the end of the line, or leaves it, or takes out a frame
\* that is not for the peer while it is connected.
LEMMA LineMoves ==
  ASSUME Ground, Ground', [OpenNext]_vars, NEW s \in Sessions
  PROVE  \/ \E m \in ServerTasks : Adds(serverTasks, m, serverTasks') /\ Adds(Line(s), m, Line(s)')
         \/ /\ \A m : ~Adds(serverTasks, m, serverTasks')
            /\ \/ Line(s)' = Line(s)
               \/ \E p : /\ Drops(Line(s), p, Line(s)')
                         /\ Line(s)[p].kind # "stop" /\ Line(s)[p].ctx \in DOMAIN owner =>
                              owner[Line(s)[p].ctx] # s \/ ~Carried(s)
<1> DEFINE Goal == \/ \E m \in ServerTasks : Adds(serverTasks, m, serverTasks') /\ Adds(Line(s), m, Line(s)')
                   \/ /\ \A m : ~Adds(serverTasks, m, serverTasks')
                      /\ \/ Line(s)' = Line(s)
                         \/ \E p : /\ Drops(Line(s), p, Line(s)')
                                   /\ Line(s)[p].kind # "stop" /\ Line(s)[p].ctx \in DOMAIN owner =>
                                        owner[Line(s)[p].ctx] # s \/ ~Carried(s)
<1> SUFFICES Goal
  OBVIOUS
<1>1. wire[s] \in Seq(ServerTasks) /\ serverTasks \in Seq(ServerTasks)
  BY Elements DEF ServerTasks
<1>2. \A m : Adds(serverTasks, m, serverTasks') => Len(serverTasks) + 1 \in DOMAIN serverTasks'
  BY DEF Adds
<1>3. CASE UNCHANGED <<serverTasks, wire>>
  <2>1. Len(serverTasks) + 1 \notin DOMAIN serverTasks'
    BY <1>1, <1>3
  <2> QED BY <1>2, <1>3, <2>1 DEF Line
<1>4. ASSUME NEW m \in ServerTasks, serverTasks' = Append(serverTasks, m), UNCHANGED wire PROVE Goal
  <2>1. Adds(serverTasks, m, serverTasks')
    BY <1>4, AppendAdds
  <2>2. Adds(Line(s), m, Line(s)')
    <3>1. \A r : r = Append(serverTasks, m) => Adds(wire[s] \o serverTasks, m, wire[s] \o r)
      BY <1>1, JoinedGrows
    <3> QED BY <1>4, <3>1 DEF Line
  <2> QED BY <2>1, <2>2
<1>5. ASSUME NEW m \in ServerTasks, Sends(m) PROVE Goal
  <2>1. serverTasks # <<>> /\ m = Head(serverTasks) /\ serverTasks' = Tail(serverTasks)
    BY <1>5 DEF Sends
  <2>2. Len(serverTasks) + 1 \notin DOMAIN serverTasks'
    BY <1>1, <2>1
  <2>3. CASE wire'[s] = Append(wire[s], m)
    <3>1. Line(s)' = Line(s)
      BY <1>1, <2>1, <2>3, JoinedShrinks DEF Line
    <3> QED BY <1>2, <2>2, <3>1
  <2>4. ASSUME wire'[s] = wire[s],
               m.kind # "stop" /\ m.ctx \in DOMAIN owner => owner[m.ctx] # s \/ ~Carried(s)
        PROVE  Goal
    <3>1. Drops(Line(s), Len(wire[s]) + 1, Line(s)') /\ Line(s)[Len(wire[s]) + 1] = m
      BY <1>1, <2>1, <2>4, JoinedShrinks DEF Line
    <3> QED BY <1>2, <2>2, <2>4, <3>1
  <2>5. CASE UNCHANGED wire /\ (m.kind # "stop" /\ m.ctx \in DOMAIN owner => ~Carried(owner[m.ctx]))
    BY <2>4, <2>5
  <2>6. ASSUME owner[m.ctx] \in Sessions, wire' = [wire EXCEPT ![owner[m.ctx]] = Append(@, m)]
        PROVE  IF owner[m.ctx] = s THEN wire'[s] = Append(wire[s], m) ELSE wire'[s] = wire[s]
    BY <2>6, Elements
  <2> HIDE DEF Goal
  <2>7. CASE owner[m.ctx] \in Sessions /\ wire' = [wire EXCEPT ![owner[m.ctx]] = Append(@, m)]
    BY <2>3, <2>4, <2>6, <2>7
  <2> QED BY <1>5, <2>5, <2>7 DEF Sends
<1>6. ASSUME NEW m \in PostedOnly, Posts(m) PROVE Goal
  <2>1. m \in ServerTasks
    BY DEF PostedOnly, ServerTasks, Frames, Ground, TypeOK, BookTypes
  <2> QED BY <1>4, <1>6, <2>1 DEF Posts
<1>7. ASSUME NEW w \in Workers, Finishes(w) PROVE Goal
  BY <1>3, <1>4, <1>7 DEF Finishes, ServerTasks
<1> HIDE DEF Goal
<1> QED
  BY <1>3, <1>5, <1>6, <1>7, Moves DEF Announces, Asks, Takes


\* All of it is under way.
LEMMA LineAfoot ==
  ASSUME Ground, NEW s \in Sessions
  PROVE  /\ Line(s) \in Seq(ServerTasks)
         /\ \A j \in DOMAIN Line(s) : Afoot(Line(s)[j])
<1>1. wire[s] \in Seq(ServerTasks) /\ serverTasks \in Seq(ServerTasks)
  BY Elements DEF ServerTasks
<1> DEFINE p == wire[s]
           q == serverTasks
<1>2. /\ Line(s) \in Seq(ServerTasks) /\ DOMAIN Line(s) = 1..(Len(p) + Len(q))
      /\ \A i \in 1..Len(p) : Line(s)[i] = p[i]
      /\ \A i \in 1..Len(q) : Line(s)[Len(p) + i] = q[i]
      /\ \A i \in 1..(Len(p) + Len(q)) : i \in 1..Len(p) \/ (i - Len(p) \in 1..Len(q) /\ i = Len(p) + (i - Len(p)))
  BY <1>1, Concatenation DEF Line
<1>3. DOMAIN p = 1..Len(p) /\ DOMAIN q = 1..Len(q)
  BY <1>1
<1>4. ASSUME NEW j \in DOMAIN Line(s) PROVE Afoot(Line(s)[j])
  <2>1. CASE j \in 1..Len(p)
    BY <1>2, <1>3, <2>1 DEF Afoot
  <2>2. ASSUME NEW i \in 1..Len(q), j = Len(p) + i PROVE Afoot(Line(s)[j])
    BY <1>2, <1>3, <2>2 DEF Afoot
  <2> QED BY <1>2, <2>1, <2>2
<1> QED
  BY <1>2, <1>4

=============================================================================
