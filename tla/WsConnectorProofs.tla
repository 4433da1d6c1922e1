------------------------- MODULE WsConnectorProofs --------------------------
(***************************************************************************)
(* Proofs about WsConnector, for every number of worker threads, every set *)
(* of handles and every bound. They are about OpenSpec, which lets a       *)
(* worker's handler stop the server or end the process, so that they hold  *)
(* of the connector wherever it is put to use.                             *)
(*                                                                         *)
(* The invariants come in layers: types, with the book that relates        *)
(* handles, contexts and sessions (Book, Owners); how far the server       *)
(* thread has come with its pool (Pool); and, on top of these, where each  *)
(* request is on its way from its peer and back (Known, Once and, with one *)
(* worker thread, Ordered and LastWords).                                  *)
(***************************************************************************)
EXTENDS WsConnector, FiniteSetTheorems, SequenceTheorems, TLAPS

-----------------------------------------------------------------------------
(* Handles, contexts and sessions.                                         *)

Shaking(h)   == conn[h].state = "handshake"
Connected(h) == conn[h].state \in {"open", "closing"}

\* ClientCtxManager's two maps are inverse to one another, and they list the
\* connections that have opened and not yet closed.
Book ==
  /\ DOMAIN m_connToCtx = {h \in Handles : Connected(h)}
  /\ DOMAIN m_ctxToConn = m_clientHandlers
  /\ \A h \in DOMAIN m_connToCtx : /\ m_connToCtx[h] \in DOMAIN m_ctxToConn
                                   /\ m_ctxToConn[m_connToCtx[h]] = h
  /\ \A c \in DOMAIN m_ctxToConn : /\ m_ctxToConn[c] \in DOMAIN m_connToCtx
                                   /\ m_connToCtx[m_ctxToConn[c]] = c
  /\ DOMAIN owner = 1..m_connIdCnt
  /\ DOMAIN m_ctxToConn \subseteq DOMAIN owner

\* Different connections carry different sessions, and each context is made
\* for a session of its own.
Owners ==
  /\ \A h \in Handles : conn[h].session <= accepted
  /\ \A g, h \in Handles : conn[g] # Free /\ conn[h] # Free /\ conn[g].session = conn[h].session => g = h
  /\ \A c \in DOMAIN owner : owner[c] <= accepted
  /\ \A c, d \in DOMAIN owner : owner[c] = owner[d] => c = d
  /\ \A h \in Handles : Shaking(h) => \A c \in DOMAIN owner : owner[c] # conn[h].session
  /\ \A h \in DOMAIN m_connToCtx : owner[m_connToCtx[h]] = conn[h].session

-----------------------------------------------------------------------------
(* What a step does to them.                                               *)

\* The steps that change connections or their book.
LEMMA NetSteps ==
  ASSUME [OpenNext]_vars
  PROVE  \/ UNCHANGED <<conn, accepted, asked, bookVars>>
         \/ \E h \in Handles : \/ Accept(h) \/ HandshakeFails(h) \/ onConnOpen(h) \/ PeerCloses(h)
                               \/ onConnClose(h)
                               \/ \E body \in Bodies : onConnMessage(h, body)
         \/ stopServerLoop
<1>1. ASSUME NEW why, Terminate(why) PROVE UNCHANGED <<conn, accepted, asked, bookVars>>
  BY <1>1 DEF Terminate, netVars
<1>2. CASE ControlStep
  BY <1>2, <1>1 DEF ControlStep, StartListening, StartAgain, StopListening, StopReturns, netVars
<1>3. CASE LoopStep
  BY <1>3, <1>1 DEF LoopStep, OwnLoopStep, InitAsio, SpawnWorker, Listen, RunReturns, StopPool,
                    JoinWorker, EraseHandler, PrepareHandler, netVars
<1>4. CASE RunServerTask
  BY <1>4 DEF RunServerTask, doSendResponse, doSendNotification, TakeServerTask
<1>5. ASSUME NEW c, NEW note, sendNotification(c, note) PROVE UNCHANGED <<conn, accepted, asked, bookVars>>
  BY <1>5 DEF sendNotification, netVars
<1>6. ASSUME NEW w \in Workers, WorkerStep(w) PROVE UNCHANGED <<conn, accepted, asked, bookVars>>
  BY <1>6, <1>1 DEF WorkerStep, TakeWorkerTask, WorkerExits, FindHandler, MissHandler, FinishTask,
                    workerUnchanged, netVars
<1>7. ASSUME NEW w \in Workers, FunctionStep(w) PROVE UNCHANGED <<conn, accepted, asked, bookVars>>
  BY <1>7, <1>1 DEF FunctionStep, StopListening, netVars
<1>8. CASE UNCHANGED vars
  BY <1>8 DEF vars, netVars
<1> QED
  BY <1>2, <1>3, <1>4, <1>5, <1>6, <1>7, <1>8 DEF OpenNext, Next, NetworkStep, Halted

\* A session is never Free's.
LEMMA ConnStates ==
  ASSUME TypeOK
  PROVE  /\ Free.state = "free" /\ Free.session = 0 /\ MaxSessions \in Nat
         /\ \A h \in Handles : /\ conn[h] # Free => conn[h].session \in Sessions
                               /\ conn[h] = Free <=> conn[h].state = "free"
                               /\ conn[h].state \in {"free", "handshake", "open", "closing"}
                               /\ conn[h].session \in 0..MaxSessions
  BY BoundsAssumption DEF TypeOK, NetTypes, Free, Sessions

\* Sessions have contexts of their own, so that the contexts are no more than
\* the sessions; while one is shaking hands, they are fewer.
LEMMA NewContext ==
  ASSUME TypeOK, Book, Owners, NEW h \in Handles, Shaking(h)
  PROVE  m_connIdCnt + 1 \in Ctxs
<1> DEFINE S == 1..m_connIdCnt
           s == conn[h].session
           T == (1..accepted) \ {s}
           f == [c \in S |-> owner[c]]
<1>1. m_connIdCnt \in Nat /\ accepted \in Nat /\ accepted <= MaxSessions /\ MaxSessions \in Nat
  BY BoundsAssumption DEF TypeOK, NetTypes, BookTypes
<1>2. s \in 1..accepted
  BY <1>1, ConnStates DEF Owners, Shaking, Sessions
<1>3. IsFiniteSet(S) /\ Cardinality(S) = m_connIdCnt
  BY <1>1, FS_Interval
<1>4. IsFiniteSet(T) /\ Cardinality(T) = accepted - 1
  <2>1. IsFiniteSet(1..accepted) /\ Cardinality(1..accepted) = accepted
    BY <1>1, FS_Interval
  <2> HIDE DEF s
  <2>2. IsFiniteSet(T)
    BY <2>1, FS_RemoveElement
  <2>3. Cardinality(T) = accepted - 1
    BY <2>1, <1>2, FS_RemoveElement
  <2> QED
    BY <2>2, <2>3
<1>5. f \in [S -> T]
  BY <1>1 DEF TypeOK, BookTypes, Book, Owners, Sessions
<1>6. ~(Cardinality(T) < Cardinality(S))
  <2>1. ~ \E x, y \in S : x # y /\ f[x] = f[y]
    BY DEF Book, Owners
  <2> HIDE DEF S, T, f
  <2> QED
    BY <2>1, <1>3, <1>4, <1>5, FS_PigeonHole
<1> QED
  BY <1>1, <1>2, <1>3, <1>4, <1>6 DEF Ctxs

Books == NetTypes /\ BookTypes /\ Book /\ Owners

ConnType == [Handles -> {Free} \cup [state : {"handshake", "open", "closing"}, session : Sessions]]

\* Nothing about a connection changes but whether it is open or closing.
SameConnection(g) == /\ conn'[g].session = conn[g].session
                     /\ conn'[g] = Free <=> conn[g] = Free
                     /\ Shaking(g)' = Shaking(g)
                     /\ Connected(g)' = Connected(g)

\* The books stay right when connections only change their state, or go
\* before they have been entered.
LEMMA StatesMove ==
  ASSUME Books, conn' \in ConnType, UNCHANGED <<accepted, asked, bookVars>>,
         \A g \in Handles : SameConnection(g) \/ conn'[g] = conn[g] \/ (conn'[g] = Free /\ ~Connected(g))
  PROVE  Books'
<1>1. UNCHANGED <<accepted, asked, m_connToCtx, m_ctxToConn, m_clientHandlers, owner, m_connIdCnt>>
  BY DEF bookVars
<1>2. \A g \in Handles : Connected(g)' = Connected(g)
  BY DEF SameConnection, Connected, Free
<1>3. \A g \in Handles : /\ Shaking(g)' => Shaking(g)
                         /\ conn'[g] # Free => conn[g] # Free /\ conn'[g].session = conn[g].session
                         /\ Connected(g) => conn'[g].session = conn[g].session
                         /\ Shaking(g)' => conn'[g].session = conn[g].session
  BY DEF SameConnection, Shaking, Connected, Free
<1>4. NetTypes' /\ BookTypes'
  BY <1>1 DEF Books, NetTypes, BookTypes, ConnType
<1>5. Book'
  BY <1>1, <1>2 DEF Books, Book
<1>6. Owners'
  <2>1. \A g \in Handles : conn'[g].session <= accepted
    BY DEF Books, NetTypes, Owners, SameConnection, Free
  <2> HIDE DEF Free
  <2>2. ASSUME NEW g \in Handles, NEW h \in Handles,
               conn'[g] # Free, conn'[h] # Free, conn'[g].session = conn'[h].session
        PROVE  g = h
    <3>1. conn[g] # Free /\ conn[h] # Free /\ conn[g].session = conn[h].session
      BY <1>3, <2>2
    <3> QED
      BY <3>1 DEF Books, Owners
  <2>3. ASSUME NEW h \in Handles, Shaking(h)', NEW c \in DOMAIN owner
        PROVE  owner[c] # conn'[h].session
    BY <1>3, <2>3 DEF Books, Owners
  <2>4. ASSUME NEW h \in DOMAIN m_connToCtx
        PROVE  owner[m_connToCtx[h]] = conn'[h].session
    BY <1>3, <2>4 DEF Books, Book, Owners
  <2> QED
    BY <1>1, <2>1, <2>2, <2>3, <2>4 DEF Books, Owners
<1> QED
  BY <1>4, <1>5, <1>6 DEF Books

\* A connection opens under a new context.
LEMMA OpenMoves ==
  ASSUME TypeOK, Book, Owners, NEW h \in Handles, onConnOpen(h)
  PROVE  Books'
<1> DEFINE c == m_connIdCnt + 1
           s == conn[h].session
<1>1. c \in Ctxs /\ c \notin DOMAIN owner /\ h \notin DOMAIN m_connToCtx /\ s \in Sessions /\ m_connIdCnt \in Nat
  <2>1. Shaking(h)
    BY DEF onConnOpen, Shaking
  <2>2. m_connIdCnt \in Nat
    BY BoundsAssumption DEF TypeOK, BookTypes
  <2> QED
    BY <2>1, <2>2, NewContext, ConnStates DEF Book, Shaking, Connected
<1>2. /\ conn'[h] = [state |-> "open", session |-> s]
      /\ \A g \in Handles \ {h} : conn'[g] = conn[g]
      /\ conn' \in ConnType
  BY <1>1, ConnStates DEF onConnOpen, TypeOK, NetTypes, ConnType
<1>3. /\ m_connIdCnt' = c
      /\ m_clientHandlers' = m_clientHandlers \cup {c}
      /\ m_connToCtx' = [x \in DOMAIN m_connToCtx \cup {h} |-> IF x = h THEN c ELSE m_connToCtx[x]]
      /\ m_ctxToConn' = [x \in DOMAIN m_ctxToConn \cup {c} |-> IF x = c THEN h ELSE m_ctxToConn[x]]
      /\ owner' = [x \in DOMAIN owner \cup {c} |-> IF x = c THEN s ELSE owner[x]]
      /\ accepted' = accepted /\ asked' = asked
  BY DEF onConnOpen, newConnection
<1>4. \A g \in Handles : Connected(g)' <=> Connected(g) \/ g = h
  BY <1>2 DEF Connected
<1> HIDE DEF c, s
<1>5. NetTypes'
  BY <1>2, <1>3 DEF TypeOK, NetTypes, ConnType
<1>6. BookTypes'
  BY <1>1, <1>3 DEF TypeOK, BookTypes, Ctxs
<1>7. Book'
  <2>1. DOMAIN owner' = 1..m_connIdCnt'
    BY <1>1, <1>3 DEF Book, c
  <2>2. c \notin DOMAIN m_ctxToConn
    BY <1>1 DEF Book
  <2> QED
    BY <1>1, <1>3, <1>4, <2>1, <2>2 DEF Book
<1>8. Owners'
  <2>1. \A g \in Handles : conn'[g].session = conn[g].session /\ (conn'[g] # Free => conn[g] # Free)
    BY <1>2, ConnStates DEF s, onConnOpen
  <2>2. \A g \in Handles : Shaking(g)' => Shaking(g) /\ g # h
    BY <1>2 DEF Shaking
  <2>3. Shaking(h) /\ conn[h] # Free
    BY ConnStates DEF Shaking, onConnOpen
  <2>4. s <= accepted /\ \A d \in DOMAIN owner : owner[d] # s
    BY <2>3 DEF Owners, s
  <2>5. \A d \in DOMAIN owner : owner'[d] = owner[d]
    BY <1>1, <1>3
  <2>6. owner'[c] = s /\ DOMAIN owner' = DOMAIN owner \cup {c}
    BY <1>3
  <2>7. \A g \in Handles : conn'[g].session <= accepted'
    BY <2>1, <1>3 DEF Owners
  <2>8. \A d \in DOMAIN owner' : owner'[d] <= accepted'
    BY <2>4, <2>5, <2>6, <1>3 DEF Owners
  <2>9. \A d, e \in DOMAIN owner' : owner'[d] = owner'[e] => d = e
    BY <2>4, <2>5, <2>6 DEF Owners
  <2>10. \A g \in Handles : Shaking(g)' => \A d \in DOMAIN owner' : owner'[d] # conn'[g].session
    <3> SUFFICES ASSUME NEW g \in Handles, Shaking(g)', NEW d \in DOMAIN owner' PROVE owner'[d] # conn'[g].session
      OBVIOUS
    <3>1. g # h /\ conn[g] # Free /\ Shaking(g) /\ conn'[g].session = conn[g].session
      BY <2>1, <2>2, ConnStates DEF Shaking
    <3>2. conn[g].session # s
      BY <3>1, <2>3 DEF Owners, s
    <3> QED
      BY <3>1, <3>2, <2>5, <2>6 DEF Owners
  <2>11. \A g \in DOMAIN m_connToCtx' : owner'[m_connToCtx'[g]] = conn'[g].session
    <3>1. \A g \in DOMAIN m_connToCtx : g \in Handles /\ m_connToCtx[g] \in DOMAIN owner
      BY DEF Book
    <3>2. conn'[h].session = s
      BY <1>2
    <3> QED
      BY <3>1, <3>2, <2>1, <2>5, <2>6, <1>1, <1>3 DEF Owners
  <2>12. \A f, g \in Handles : conn'[f] # Free /\ conn'[g] # Free /\ conn'[f].session = conn'[g].session => f = g
    BY <2>1 DEF Owners
  <2> QED
    BY <2>7, <2>8, <2>9, <2>10, <2>11, <2>12 DEF Owners
<1> QED
  BY <1>5, <1>6, <1>7, <1>8 DEF Books

\* A connection ends, and its context with it.
LEMMA CloseMoves ==
  ASSUME TypeOK, Book, Owners, NEW h \in Handles, onConnClose(h)
  PROVE  Books'
<1> DEFINE c == m_connToCtx[h]
<1>1. h \in DOMAIN m_connToCtx /\ Connected(h)
  BY DEF onConnClose, Book, Connected
<1>2. /\ conn' = [conn EXCEPT ![h] = Free]
      /\ m_clientHandlers' = m_clientHandlers \ {c}
      /\ m_connToCtx' = [x \in DOMAIN m_connToCtx \ {h} |-> m_connToCtx[x]]
      /\ m_ctxToConn' = [x \in DOMAIN m_ctxToConn \ {c} |-> m_ctxToConn[x]]
      /\ UNCHANGED <<accepted, asked, owner, m_connIdCnt>>
  BY <1>1 DEF onConnClose, removeConnection, Restrict
<1>3. /\ conn'[h] = Free /\ conn' \in ConnType
      /\ \A g \in Handles \ {h} : conn'[g] = conn[g]
  BY <1>2 DEF TypeOK, NetTypes, ConnType
<1>4. \A g \in Handles : Connected(g)' <=> Connected(g) /\ g # h
  BY <1>3 DEF Connected, Free
<1> HIDE DEF c
<1>5. NetTypes'
  BY <1>2, <1>3 DEF TypeOK, NetTypes, ConnType
<1>6. BookTypes'
  BY <1>2 DEF TypeOK, BookTypes
<1>7. Book'
  BY <1>1, <1>2, <1>4 DEF Book, c
<1>8. Owners'
  BY <1>2, <1>3 DEF Owners, Shaking, Free, TypeOK, NetTypes
<1> QED
  BY <1>5, <1>6, <1>7, <1>8 DEF Books

\* The steps of one connection, and the end of all.
LEMMA BookStep ==
  ASSUME TypeOK, Book, Owners, [OpenNext]_vars
  PROVE  Books'
<1>0. Books
  BY DEF Books, TypeOK
<1>1. CASE UNCHANGED <<conn, accepted, asked, bookVars>>
  BY <1>0, <1>1 DEF Books, NetTypes, BookTypes, Book, Owners, bookVars, Shaking, Connected
<1>2. ASSUME NEW h \in Handles, Accept(h) PROVE Books'
  <2> USE <1>2 DEF Accept
  <2> DEFINE s == accepted + 1
  <2>1. s \in Sessions /\ accepted' = s /\ asked' = asked /\ UNCHANGED bookVars
    BY BoundsAssumption, <1>0 DEF Books, NetTypes, Sessions
  <2>2. /\ conn'[h] = [state |-> "handshake", session |-> s]
        /\ \A g \in Handles \ {h} : conn'[g] = conn[g]
    BY <1>0 DEF Books, NetTypes
  <2>3. NetTypes'
    BY <1>0, <2>1 DEF Books, NetTypes, Sessions
  <2>4. BookTypes' /\ Book'
    BY <1>0, <2>1, <2>2, ConnStates DEF Books, BookTypes, Book, bookVars, Connected
  <2>5. Owners'
    BY <1>0, <2>1, <2>2, ConnStates DEF Books, NetTypes, Book, Owners, BookTypes, bookVars, Shaking, Connected, Sessions, Ctxs
  <2> QED
    BY <2>3, <2>4, <2>5 DEF Books
<1>3. ASSUME NEW h \in Handles, HandshakeFails(h) PROVE Books'
  <2>1. \A g \in Handles : conn'[g] = conn[g] \/ (conn'[g] = Free /\ ~Connected(g))
    BY <1>0, <1>3 DEF HandshakeFails, Books, NetTypes, Connected
  <2>2. conn' \in ConnType /\ UNCHANGED <<accepted, asked, bookVars>>
    BY <1>0, <1>3 DEF HandshakeFails, Books, NetTypes, ConnType
  <2> QED
    BY <1>0, <2>1, <2>2, StatesMove DEF SameConnection
<1>4. ASSUME NEW h \in Handles, PeerCloses(h) PROVE Books'
  <2>1. \A g \in Handles : SameConnection(g)
    BY <1>0, <1>4 DEF PeerCloses, Books, NetTypes, SameConnection, Shaking, Connected, Free
  <2>2. conn' \in ConnType /\ UNCHANGED <<accepted, asked, bookVars>>
    BY <1>0, <1>4, ConnStates DEF PeerCloses, Books, NetTypes, ConnType
  <2> QED
    BY <1>0, <2>1, <2>2, StatesMove
<1>5. CASE stopServerLoop
  <2>1. \A g \in Handles : SameConnection(g)
    BY <1>0, <1>5, ConnStates DEF stopServerLoop, closeConnections, Books, NetTypes, SameConnection, Shaking, Connected, Free
  <2>2. conn' \in ConnType /\ UNCHANGED <<accepted, asked, bookVars>>
    BY <1>0, <1>5, ConnStates DEF stopServerLoop, closeConnections, TakeServerTask, Books, NetTypes, ConnType
  <2> QED
    BY <1>0, <2>1, <2>2, StatesMove
<1>6. ASSUME NEW h \in Handles, NEW body \in Bodies, onConnMessage(h, body) PROVE Books'
  <2>1. CASE h \in DOMAIN m_connToCtx
    <3>1. conn[h].session \in Sessions
      BY <1>6, ConnStates DEF onConnMessage
    <3>2. asked' = [asked EXCEPT ![conn[h].session] = @ + 1] /\ asked[conn[h].session] < MaxRequests
      BY <1>6, <2>1 DEF onConnMessage
    <3>3. asked' \in [Sessions -> 0..MaxRequests]
      BY <1>0, <3>1, <3>2, BoundsAssumption DEF Books, NetTypes
    <3>4. UNCHANGED <<conn, accepted, bookVars>>
      BY <1>6, <2>1 DEF onConnMessage
    <3> QED
      BY <1>0, <3>3, <3>4 DEF Books, NetTypes, BookTypes, Book, Owners, bookVars, Shaking, Connected
  <2>2. CASE h \notin DOMAIN m_connToCtx
    <3>1. UNCHANGED <<conn, accepted, asked, bookVars>>
      BY <1>6, <2>2 DEF onConnMessage, Terminate, netVars
    <3> QED
      BY <3>1, <1>1
  <2> QED
    BY <2>1, <2>2
<1>7. ASSUME NEW h \in Handles, onConnOpen(h) PROVE Books'
  BY <1>7, OpenMoves
<1>8. ASSUME NEW h \in Handles, onConnClose(h) PROVE Books'
  BY <1>8, CloseMoves
<1> QED
  BY <1>1, <1>2, <1>3, <1>4, <1>5, <1>6, <1>7, <1>8, NetSteps

-----------------------------------------------------------------------------
(* What a step does to the queues.                                         *)

Still == /\ UNCHANGED <<workerTasks, serverTasks, wire, asked, owner, m_ctxToConn>>
         /\ \A w \in Workers : worker'[w].task = worker[w].task

\* A task that is no response is posted for the server thread.
Posts(m) == /\ serverTasks' = Append(serverTasks, m)
            /\ UNCHANGED <<workerTasks, worker, wire, asked, owner, m_ctxToConn>>

PostedOnly == [kind : {"stop"}] \cup [kind : {"notification"}, ctx : DOMAIN owner, note : Notes]

\* The steps that change a queue, a frame, a task in hand or a count, and
\* what the others leave alone.
LEMMA QueueSteps ==
  ASSUME TypeOK, [OpenNext]_vars
  PROVE  \/ Still
         \/ \E h \in Handles : onConnOpen(h)
         \/ \E h \in DOMAIN m_connToCtx : onConnClose(h) \/ \E body \in Bodies : onConnMessage(h, body)
         \/ \E m \in PostedOnly : Posts(m)
         \/ \E w \in Workers : TakeWorkerTask(w) \/ \E answer \in Answers : FinishTask(w, answer)
         \/ doSendResponse \/ doSendNotification \/ stopServerLoop
<1>1. ASSUME NEW why, Terminate(why) PROVE Still
  BY <1>1 DEF Terminate, netVars, bookVars, poolVars, Still
<1>2. ASSUME NEW t \in Callers, StopListening(t) PROVE Still \/ \E m \in PostedOnly : Posts(m)
  <2>1. CASE \E why : Terminate(why)
    BY <2>1, <1>1
  <2>2. CASE PostToServer([kind |-> "stop"]) /\ UNCHANGED <<netVars, bookVars, poolVars>>
    BY <2>2 DEF PostToServer, Posts, PostedOnly, netVars, bookVars, poolVars
  <2> QED
    BY <1>2, <2>1, <2>2 DEF StopListening
<1>3. CASE ControlStep
  <2>1. CASE StartListening \/ StopReturns(Control)
    BY <2>1 DEF StartListening, StopReturns, netVars, bookVars, poolVars, Still
  <2>2. CASE StartAgain
    BY <2>2, <1>1 DEF StartAgain
  <2> QED
    BY <1>3, <1>2, <2>1, <2>2 DEF ControlStep, Callers
<1>4. CASE LoopStep
  <2>1. worker \in [Workers -> [pc : {"none", "idle", "lookup", "call", "exited"},
                                task : WorkerTasks \cup {NoTask}]]
    BY DEF TypeOK, PoolTypes
  <2>2. CASE SpawnWorker
    BY <2>1, <2>2 DEF SpawnWorker, netVars, bookVars, Still
  <2>3. CASE Listen
    BY <2>3, <1>1 DEF Listen, netVars, bookVars, poolVars, Still
  <2>4. CASE InitAsio \/ RunReturns \/ StopPool \/ JoinWorker \/ EraseHandler \/ PrepareHandler
    BY <2>4 DEF InitAsio, RunReturns, StopPool, JoinWorker, EraseHandler, PrepareHandler,
                netVars, bookVars, poolVars, Still
  <2> QED
    BY <1>4, <2>2, <2>3, <2>4 DEF LoopStep, OwnLoopStep
<1>5. ASSUME NEW h \in Handles, NetworkStep(h)
      PROVE  \/ Still
             \/ onConnOpen(h)
             \/ h \in DOMAIN m_connToCtx /\ (onConnClose(h) \/ \E body \in Bodies : onConnMessage(h, body))
  <2>1. CASE Accept(h) \/ HandshakeFails(h) \/ PeerCloses(h)
    BY <2>1 DEF Accept, HandshakeFails, PeerCloses, bookVars, poolVars, Still
  <2>2. CASE h \notin DOMAIN m_connToCtx /\ (onConnClose(h) \/ \E body \in Bodies : onConnMessage(h, body))
    BY <2>2, <1>1 DEF onConnClose, onConnMessage
  <2> QED
    BY <1>5, <2>1, <2>2 DEF NetworkStep
<1>6. ASSUME NEW c \in DOMAIN owner, NEW note \in Notes, sendNotification(c, note)
      PROVE  \E m \in PostedOnly : Posts(m)
  <2>1. [kind |-> "notification", ctx |-> c, note |-> note] \in PostedOnly
    BY DEF PostedOnly
  <2> QED
    BY <1>6, <2>1 DEF sendNotification, PostToServer, Posts, netVars, bookVars, poolVars
<1>7. ASSUME NEW w \in Workers, WorkerExits(w) \/ FindHandler(w) \/ MissHandler(w)
      PROVE  Still
  <2>1. worker \in [Workers -> [pc : {"none", "idle", "lookup", "call", "exited"},
                                task : WorkerTasks \cup {NoTask}]]
    BY DEF TypeOK, PoolTypes
  <2> QED
    BY <1>7, <2>1, <1>1 DEF WorkerExits, FindHandler, MissHandler, workerUnchanged, netVars, bookVars, Still
<1>8. ASSUME NEW w \in Workers, FunctionStep(w)
      PROVE  Still \/ \E m \in PostedOnly : Posts(m)
  BY <1>8, <1>1, <1>2 DEF FunctionStep, Callers
<1>9. CASE UNCHANGED vars
  BY <1>9 DEF vars, netVars, bookVars, poolVars, Still
<1> QED
  BY <1>3, <1>4, <1>5, <1>6, <1>7, <1>8, <1>9 DEF OpenNext, Next, Halted, WorkerStep, RunServerTask

-----------------------------------------------------------------------------
(* Type correctness.                                                       *)

\* The loops over the workers stay within them.
LEMMA WorkerLoop ==
  ASSUME poolIdx \in Workers, NEW again, NEW done, NextWorker(again, done)
  PROVE  poolIdx' \in Workers /\ server' \in {again, done}
<1>1. poolIdx \in 1..NumThreads /\ NumThreads \in Nat
  BY NumThreadsAssumption DEF Workers
<1>2. CASE poolIdx = NumThreads
  BY <1>1, <1>2 DEF NextWorker, Workers
<1>3. CASE poolIdx # NumThreads
  BY <1>1, <1>3 DEF NextWorker, Workers
<1> QED
  BY <1>2, <1>3

\* The server thread, the joining threads and the reason of the end are of
\* their type.
LEMMA ServerTypesStep ==
  ASSUME TypeOK, [OpenNext]_vars
  PROVE  ServerTypes'
<1> USE DEF TypeOK, ServerTypes
<1>1. ASSUME NEW why, Terminate(why),
             why \in {"double start", "restart", "early stop", "double join", "listen failed",
                      "message before open", "close before open", "unprepared", "uncaught"}
      PROVE  ServerTypes'
  BY <1>1 DEF Terminate, serverVars
<1>2. ASSUME NEW t \in Callers, StopListening(t) PROVE ServerTypes'
  BY <1>1, <1>2 DEF StopListening, serverVars
<1>3. CASE ControlStep
  BY <1>1, <1>2, <1>3 DEF ControlStep, StartListening, StartAgain, StopReturns, restVars, Callers
<1>4. ASSUME NEW again \in {"spawnWorker", "join"}, NEW done \in {"listen", "exited"}, NextWorker(again, done),
             UNCHANGED <<listening, restVars>>
      PROVE  ServerTypes'
  <2>1. poolIdx' \in Workers /\ server' \in {again, done}
    BY <1>4, WorkerLoop
  <2> QED
    BY <1>4, <2>1 DEF restVars
<1>5. CASE LoopStep
  <2>1. CASE PrepareHandler
    BY <1>4, <2>1 DEF PrepareHandler
  <2>2. CASE EraseHandler
    BY <1>4, <2>2 DEF EraseHandler
  <2>3. CASE OwnLoopStep /\ ~EraseHandler
    BY <1>1, <2>3 DEF OwnLoopStep, InitAsio, SpawnWorker, Listen, RunReturns, StopPool, JoinWorker, restVars
  <2> QED
    BY <1>5, <2>1, <2>2, <2>3 DEF LoopStep
<1>6. ASSUME NEW h \in Handles, NetworkStep(h) PROVE ServerTypes'
  BY <1>1, <1>6 DEF NetworkStep, Accept, HandshakeFails, onConnOpen, onConnMessage, PeerCloses, onConnClose,
                    serverVars, restVars
<1>7. CASE RunServerTask
  BY <1>7 DEF RunServerTask, doSendResponse, doSendNotification, stopServerLoop, TakeServerTask, restVars
<1>8. ASSUME NEW c, NEW note, sendNotification(c, note) PROVE ServerTypes'
  BY <1>8 DEF sendNotification, serverVars
<1>9. ASSUME NEW w \in Workers, WorkerStep(w) PROVE ServerTypes'
  BY <1>1, <1>9 DEF WorkerStep, TakeWorkerTask, WorkerExits, FindHandler, MissHandler, FinishTask,
                    workerUnchanged, serverVars
<1>10. ASSUME NEW w \in Workers, FunctionStep(w) PROVE ServerTypes'
  BY <1>1, <1>2, <1>10 DEF FunctionStep, Callers
<1>11. CASE UNCHANGED vars
  BY <1>11 DEF vars, serverVars, restVars
<1> QED
  BY <1>3, <1>5, <1>6, <1>7, <1>8, <1>9, <1>10, <1>11 DEF OpenNext, Next, Halted

ServerTasks == Frames \cup [kind : {"stop"}]

\* What a posted task or frame is, by its kind.
LEMMA TaskKinds ==
  /\ \A t \in WorkerTasks : /\ t.ctx \in Ctxs
                            /\ t.kind \in {"connect", "disconnect", "request"}
                            /\ t.kind = "request" =>
                                 /\ t = [kind |-> "request", ctx |-> t.ctx, req |-> t.req]
                                 /\ t.req \in Requests
                            /\ t.kind # "request" => t = [kind |-> t.kind, ctx |-> t.ctx]
  /\ NoTask.kind = "none" /\ NoTask \notin WorkerTasks
  /\ \A m \in ServerTasks : /\ m.kind \in {"response", "notification", "stop"}
                            /\ m.kind # "stop" => m \in Frames /\ m.ctx \in Ctxs
                            /\ m.kind = "stop" => m = [kind |-> "stop"]
                            /\ m.kind = "response" => m.req \in Requests
                            /\ m.kind = "notification" =>
                                 /\ m = [kind |-> "notification", ctx |-> m.ctx, note |-> m.note]
                                 /\ m.note \in Notes
  BY DEF WorkerTasks, ServerTasks, Frames, NoTask

\* Who a frame is sent to, and that it is sent to nobody else.
LEMMA SendMessage ==
  ASSUME TypeOK, Book, NEW m \in Frames, NEW c, c = m.ctx, sendMessage(c, m)
  PROVE  \/ /\ UNCHANGED wire
            /\ ~(c \in DOMAIN m_ctxToConn /\ conn[m_ctxToConn[c]].state = "open")
         \/ \E h \in Handles : /\ conn[h].state = "open" /\ conn[h].session \in Sessions
                               /\ h \in DOMAIN m_connToCtx /\ m_connToCtx[h] = c
                               /\ wire' = [wire EXCEPT ![conn[h].session] = Append(@, m)]
  BY ConnStates DEF sendMessage, Book

\* Notifications are counted where they are posted and nowhere else.
LEMMA NoteSteps ==
  ASSUME [OpenNext]_vars
  PROVE  noteCnt' = noteCnt \/ \E c \in DOMAIN owner, note \in Notes : sendNotification(c, note)
<1>1. ASSUME NEW why, Terminate(why) PROVE noteCnt' = noteCnt
  BY <1>1 DEF Terminate
<1>2. ASSUME NEW t, StopListening(t) PROVE noteCnt' = noteCnt
  BY <1>1, <1>2 DEF StopListening
<1>3. CASE ControlStep
  BY <1>1, <1>2, <1>3 DEF ControlStep, StartListening, StartAgain, StopReturns, restVars
<1>4. CASE LoopStep
  BY <1>1, <1>4 DEF LoopStep, OwnLoopStep, InitAsio, SpawnWorker, Listen, RunReturns, StopPool,
                    JoinWorker, EraseHandler, PrepareHandler, restVars
<1>5. ASSUME NEW h \in Handles, NetworkStep(h) PROVE noteCnt' = noteCnt
  BY <1>1, <1>5 DEF NetworkStep, Accept, HandshakeFails, onConnOpen, onConnMessage, PeerCloses, onConnClose, restVars
<1>6. CASE RunServerTask
  BY <1>6 DEF RunServerTask, doSendResponse, doSendNotification, stopServerLoop, TakeServerTask, restVars
<1>7. ASSUME NEW w \in Workers, WorkerStep(w) \/ FunctionStep(w) PROVE noteCnt' = noteCnt
  BY <1>1, <1>2, <1>7 DEF WorkerStep, TakeWorkerTask, WorkerExits, FindHandler, MissHandler, FinishTask,
                          workerUnchanged, FunctionStep
<1>8. CASE UNCHANGED vars
  BY <1>8 DEF vars, restVars
<1> QED
  BY <1>3, <1>4, <1>5, <1>6, <1>7, <1>8 DEF OpenNext, Next, Halted

\* The tasks posted for the server thread and the frames sent are of their type.
LEMMA FrameTypesStep ==
  ASSUME TypeOK, Book, [OpenNext]_vars
  PROVE  FrameTypes'
<1>1. FrameTypes /\ serverTasks \in Seq(ServerTasks) /\ wire \in [Sessions -> Seq(Frames)]
  BY DEF TypeOK, FrameTypes, ServerTasks
<1>2. ASSUME NEW m \in ServerTasks, serverTasks' = Append(serverTasks, m)
      PROVE  serverTasks' \in Seq(ServerTasks)
  BY <1>1, <1>2
<1>3. ASSUME NEW kind, TakeServerTask(kind)
      PROVE  /\ serverTasks' \in Seq(ServerTasks)
             /\ Head(serverTasks) \in ServerTasks /\ Head(serverTasks).kind = kind
  BY <1>1, <1>3 DEF TakeServerTask
<1>4. ASSUME NEW c, NEW m \in Frames, c = m.ctx, sendMessage(c, m) \/ UNCHANGED wire
      PROVE  wire' \in [Sessions -> Seq(Frames)]
  <2>1. ASSUME NEW s \in Sessions, wire' = [wire EXCEPT ![s] = Append(@, m)]
        PROVE  wire' \in [Sessions -> Seq(Frames)]
    BY <1>1, <2>1
  <2> QED
    BY <1>1, <1>4, <2>1, SendMessage
<1>5. serverTasks' \in Seq(ServerTasks)
  <2>1. ASSUME NEW m \in PostedOnly, Posts(m) PROVE serverTasks' \in Seq(ServerTasks)
    <3>1. m \in ServerTasks
      BY DEF PostedOnly, ServerTasks, Frames, TypeOK, BookTypes
    <3> QED
      BY <1>2, <2>1, <3>1 DEF Posts
  <2>2. ASSUME NEW w \in Workers, NEW answer \in Answers, FinishTask(w, answer)
        PROVE  serverTasks' \in Seq(ServerTasks)
    <3> DEFINE t == worker[w].task
    <3>1. t \in WorkerTasks \cup {NoTask}
      BY DEF TypeOK, PoolTypes
    <3>2. CASE t.kind = "request"
      <4>1. [kind |-> "response", ctx |-> t.ctx, req |-> t.req, answer |-> answer] \in ServerTasks
        BY <3>1, <3>2, TaskKinds DEF ServerTasks, Frames
      <4> QED
        BY <1>2, <2>2, <3>2, <4>1 DEF FinishTask, PostToServer
    <3>3. CASE t.kind # "request"
      BY <1>1, <2>2, <3>3 DEF FinishTask
    <3> QED
      BY <3>2, <3>3
  <2>3. ASSUME NEW w \in Workers, TakeWorkerTask(w) PROVE serverTasks' = serverTasks
    BY <2>3 DEF TakeWorkerTask
  <2>4. ASSUME NEW h, \/ onConnOpen(h)
                      \/ h \in DOMAIN m_connToCtx /\ (onConnClose(h) \/ \E body \in Bodies : onConnMessage(h, body))
        PROVE  serverTasks' = serverTasks
    BY <2>4 DEF onConnOpen, onConnClose, onConnMessage
  <2>5. doSendResponse \/ doSendNotification \/ stopServerLoop => serverTasks' \in Seq(ServerTasks)
    BY <1>3 DEF doSendResponse, doSendNotification, stopServerLoop
  <2> QED
    BY <1>1, <2>1, <2>2, <2>3, <2>4, <2>5, QueueSteps DEF Still
<1>6. wire' \in [Sessions -> Seq(Frames)]
  <2>1. CASE doSendResponse \/ doSendNotification
    <3> DEFINE m == Head(serverTasks)
    <3>1. m \in Frames
      BY <2>1, <1>3, TaskKinds DEF doSendResponse, doSendNotification
    <3>2. sendMessage(m.ctx, m) \/ UNCHANGED wire
      BY <2>1 DEF doSendResponse, doSendNotification, CallNotification
    <3> QED
      BY <1>4, <3>1, <3>2
  <2>2. ASSUME NEW h, \/ onConnOpen(h)
                      \/ h \in DOMAIN m_connToCtx /\ (onConnClose(h) \/ \E body \in Bodies : onConnMessage(h, body))
        PROVE  wire' = wire
    BY <2>2 DEF onConnOpen, onConnClose, onConnMessage
  <2>3. ASSUME NEW w \in Workers, TakeWorkerTask(w) \/ \E answer \in Answers : FinishTask(w, answer)
        PROVE  wire' = wire
    BY <2>3 DEF TakeWorkerTask, FinishTask, workerUnchanged, netVars
  <2>4. stopServerLoop => wire' = wire
    BY DEF stopServerLoop
  <2> QED
    BY <1>1, <2>1, <2>2, <2>3, <2>4, QueueSteps DEF Still, Posts
<1>7. noteCnt' \in 0..MaxNotes
  <2>1. noteCnt' = noteCnt \/ (noteCnt' = noteCnt + 1 /\ noteCnt < MaxNotes)
    BY NoteSteps DEF sendNotification
  <2>2. noteCnt \in 0..MaxNotes /\ MaxNotes \in Nat
    BY <1>1, BoundsAssumption DEF FrameTypes
  <2> QED
    BY <2>1, <2>2
<1> QED
  BY <1>5, <1>6, <1>7 DEF FrameTypes, ServerTasks

WorkerType == [Workers -> [pc : {"none", "idle", "lookup", "call", "exited"}, task : WorkerTasks \cup {NoTask}]]

\* The worker threads and their handlers come and go one by one.
LEMMA WorkerSteps ==
  ASSUME TypeOK, [OpenNext]_vars
  PROVE  /\ worker' \in WorkerType
         /\ m_serverHandlers' \subseteq Workers
         /\ workerStopped' \in BOOLEAN
<1> DEFINE Typed == /\ worker' \in WorkerType
                    /\ m_serverHandlers' \subseteq Workers
                    /\ workerStopped' \in BOOLEAN
<1>1. PoolTypes /\ worker \in WorkerType /\ poolIdx \in Workers
  BY DEF TypeOK, PoolTypes, ServerTypes, WorkerType
<1>2. ASSUME UNCHANGED <<worker, workerStopped, m_serverHandlers>> PROVE Typed
  BY <1>1, <1>2 DEF PoolTypes
<1>3. ASSUME NEW why, Terminate(why) PROVE Typed
  BY <1>2, <1>3 DEF Terminate, poolVars
<1>4. ASSUME NEW t, StopListening(t) PROVE Typed
  BY <1>2, <1>3, <1>4 DEF StopListening, poolVars
<1>5. CASE ControlStep
  BY <1>2, <1>3, <1>4, <1>5 DEF ControlStep, StartListening, StartAgain, StopReturns, poolVars
<1>6. CASE LoopStep
  <2>1. CASE SpawnWorker
    BY <1>1, <2>1 DEF SpawnWorker, PoolTypes, WorkerType
  <2>2. CASE StopPool \/ PrepareHandler \/ EraseHandler
    BY <1>1, <2>2 DEF StopPool, PrepareHandler, EraseHandler, PoolTypes
  <2>3. CASE Listen
    BY <1>2, <1>3, <2>3 DEF Listen, poolVars
  <2>4. CASE InitAsio \/ RunReturns \/ JoinWorker
    BY <1>2, <2>4 DEF InitAsio, RunReturns, JoinWorker, poolVars
  <2> QED
    BY <1>6, <2>1, <2>2, <2>3, <2>4 DEF LoopStep, OwnLoopStep
<1>7. ASSUME NEW h \in Handles, NetworkStep(h) PROVE Typed
  BY <1>2, <1>3, <1>7 DEF NetworkStep, Accept, HandshakeFails, onConnOpen, onConnMessage, PeerCloses,
                          onConnClose, poolVars
<1>8. CASE RunServerTask
  BY <1>2, <1>8 DEF RunServerTask, doSendResponse, doSendNotification, stopServerLoop, TakeServerTask, poolVars
<1>9. ASSUME NEW c, NEW note, sendNotification(c, note) PROVE Typed
  BY <1>2, <1>9 DEF sendNotification, poolVars
<1>10. ASSUME NEW w \in Workers, WorkerStep(w) PROVE Typed
  <2>1. CASE TakeWorkerTask(w)
    <3>1. Head(workerTasks) \in WorkerTasks
      BY <1>1, <2>1 DEF TakeWorkerTask, PoolTypes
    <3> QED
      BY <1>1, <2>1, <3>1 DEF TakeWorkerTask, workerUnchanged, PoolTypes, WorkerType
  <2>2. CASE WorkerExits(w) \/ FindHandler(w)
    BY <1>1, <2>2 DEF WorkerExits, FindHandler, workerUnchanged, PoolTypes, WorkerType
  <2>3. CASE MissHandler(w)
    BY <1>3, <2>3 DEF MissHandler
  <2>4. ASSUME NEW answer \in Answers, FinishTask(w, answer) PROVE Typed
    BY <1>1, <2>4 DEF FinishTask, workerUnchanged, PoolTypes, WorkerType
  <2> QED
    BY <1>10, <2>1, <2>2, <2>3, <2>4 DEF WorkerStep
<1>11. ASSUME NEW w \in Workers, FunctionStep(w) PROVE Typed
  BY <1>3, <1>4, <1>11 DEF FunctionStep
<1>12. CASE UNCHANGED vars
  BY <1>2, <1>12 DEF vars, poolVars
<1> QED
  BY <1>5, <1>6, <1>7, <1>8, <1>9, <1>10, <1>11, <1>12 DEF OpenNext, Next, Halted

\* A request that comes in.
LEMMA NewRequest ==
  ASSUME TypeOK, NEW h \in DOMAIN m_connToCtx, NEW body \in Bodies, onConnMessage(h, body)
  PROVE  LET s == conn[h].session
             r == [session |-> s, num |-> asked[s] + 1, body |-> body]
         IN  /\ s \in Sessions /\ r \in Requests
             /\ asked' = [asked EXCEPT ![s] = asked[s] + 1]
             /\ workerTasks' = Append(workerTasks, [kind |-> "request", ctx |-> m_connToCtx[h], req |-> r])
             /\ UNCHANGED <<conn, accepted, wire, bookVars, serverVars, serverTasks, restVars,
                            worker, workerStopped, m_serverHandlers>>
             /\ conn[h].state = "open" /\ h \in Handles /\ m_connToCtx[h] \in Ctxs
<1> DEFINE s == conn[h].session
<1>1. h \in Handles /\ m_connToCtx[h] \in Ctxs /\ asked \in [Sessions -> 0..MaxRequests]
  BY DEF TypeOK, BookTypes, NetTypes
<1>2. s \in Sessions /\ conn[h].state = "open" /\ asked[s] < MaxRequests
  BY <1>1, ConnStates DEF onConnMessage
<1>3. asked' = [asked EXCEPT ![s] = asked[s] + 1]
  BY DEF onConnMessage
<1>4. asked'[s] = asked[s] + 1 /\ asked[s] + 1 \in 1..MaxRequests
  BY <1>1, <1>2, <1>3, BoundsAssumption
<1> HIDE DEF s
<1>5. [session |-> s, num |-> asked[s] + 1, body |-> body] \in Requests
  BY <1>2, <1>4 DEF Requests
<1> USE DEF s
<1> QED
  BY <1>1, <1>2, <1>3, <1>4, <1>5 DEF onConnMessage, PostToWorkers

\* The tasks of the workers are of their type.
LEMMA PoolTypesStep ==
  ASSUME TypeOK, Book, Books', [OpenNext]_vars
  PROVE  PoolTypes'
<1>1. workerTasks \in Seq(WorkerTasks)
  BY DEF TypeOK, PoolTypes
<1>2. ASSUME NEW t \in WorkerTasks, workerTasks' = Append(workerTasks, t) PROVE workerTasks' \in Seq(WorkerTasks)
  BY <1>1, <1>2
<1>3. workerTasks' \in Seq(WorkerTasks)
  <2>1. ASSUME NEW h \in Handles, onConnOpen(h) PROVE workerTasks' \in Seq(WorkerTasks)
    <3>1. m_connIdCnt' \in Ctxs
      BY <2>1 DEF onConnOpen, Books, BookTypes
    <3>2. [kind |-> "connect", ctx |-> m_connIdCnt'] \in WorkerTasks
      BY <3>1 DEF WorkerTasks
    <3> QED
      BY <1>2, <2>1, <3>2 DEF onConnOpen, PostToWorkers
  <2>2. ASSUME NEW h \in DOMAIN m_connToCtx, onConnClose(h) PROVE workerTasks' \in Seq(WorkerTasks)
    <3>1. [kind |-> "disconnect", ctx |-> m_connToCtx[h]] \in WorkerTasks
      BY DEF TypeOK, BookTypes, WorkerTasks
    <3> QED
      BY <1>2, <2>2, <3>1 DEF onConnClose, PostToWorkers
  <2>3. ASSUME NEW h \in DOMAIN m_connToCtx, NEW body \in Bodies, onConnMessage(h, body)
        PROVE  workerTasks' \in Seq(WorkerTasks)
    <3> DEFINE r == [session |-> conn[h].session, num |-> asked[conn[h].session] + 1, body |-> body]
               t == [kind |-> "request", ctx |-> m_connToCtx[h], req |-> r]
    <3>1. r \in Requests /\ m_connToCtx[h] \in Ctxs /\ workerTasks' = Append(workerTasks, t)
      BY <2>3, NewRequest
    <3> HIDE DEF r
    <3>2. t \in WorkerTasks
      BY <3>1 DEF WorkerTasks
    <3> QED
      BY <1>2, <3>1, <3>2
  <2>4. ASSUME NEW w \in Workers, TakeWorkerTask(w) PROVE workerTasks' \in Seq(WorkerTasks)
    BY <1>1, <2>4 DEF TakeWorkerTask
  <2>5. ASSUME NEW w, NEW answer, FinishTask(w, answer) PROVE workerTasks' = workerTasks
    BY <2>5 DEF FinishTask
  <2>6. doSendResponse \/ doSendNotification \/ stopServerLoop => workerTasks' = workerTasks
    BY DEF doSendResponse, doSendNotification, stopServerLoop, TakeServerTask, poolVars
  <2> QED
    BY <1>1, <2>1, <2>2, <2>3, <2>4, <2>5, <2>6, QueueSteps DEF Still, Posts
<1> QED
  BY <1>3, WorkerSteps DEF PoolTypes, WorkerType

\* At the start no connection is open and the books are empty.
LEMMA InitBooks == Init => TypeOK /\ Book /\ Owners
<1> SUFFICES ASSUME Init PROVE TypeOK /\ Book /\ Owners
  OBVIOUS
<1> USE DEF Init
<1>1. NetTypes
  BY BoundsAssumption DEF NetTypes
<1>2. BookTypes
  BY BoundsAssumption DEF BookTypes
<1>3. FrameTypes
  BY BoundsAssumption DEF FrameTypes
<1>4. ServerTypes
  <2>1. 1 \in Workers
    BY NumThreadsAssumption DEF Workers
  <2> QED
    BY <2>1 DEF ServerTypes
<1>5. PoolTypes
  <2>1. <<>> \in Seq(WorkerTasks)
    OBVIOUS
  <2>2. [pc |-> "none", task |-> NoTask] \in [pc : {"none", "idle", "lookup", "call", "exited"},
                                               task : WorkerTasks \cup {NoTask}]
    OBVIOUS
  <2> QED
    BY <2>1, <2>2 DEF PoolTypes
<1>6. Book
  BY DEF Book, Connected, Free
<1>7. Owners
  BY DEF Owners, Shaking, Free
<1> QED
  BY <1>1, <1>2, <1>3, <1>4, <1>5, <1>6, <1>7 DEF TypeOK

\* The books stay in order at every step, and so they always are.
LEMMA StepBooks == TypeOK /\ Book /\ Owners /\ [OpenNext]_vars => TypeOK' /\ Book' /\ Owners'
  BY BookStep, FrameTypesStep, ServerTypesStep, PoolTypesStep DEF TypeOK, Books

\* The types and the books, for any number of workers.
LEMMA BooksInvariant == OpenSpec => [](TypeOK /\ Book /\ Owners)
  BY InitBooks, StepBooks, PTL DEF OpenSpec

\* A worker's function that neither stops the server nor throws is one that
\* takes only steps of the connector.
LEMMA SpecIsOpen == Spec => OpenSpec
<1>1. [Next]_vars => [OpenNext]_vars
  BY DEF OpenNext
<1> QED
  BY <1>1, PTL DEF Spec, OpenSpec

\* Every variable of the connector holds a value of its type: above all, the
\* number m_connIdCnt gives to a connection and the tasks that carry it.
THEOREM TypeCorrect == OpenSpec => []TypeOK
  BY BooksInvariant, PTL

-----------------------------------------------------------------------------
(* The server thread and its pool.                                         *)

Before == {"off", "spawned", "spawnWorker", "prepare", "listen"}
After  == {"join", "erase", "exited", "joined"}

\* A worker thread has a task from its taking to the handler's return.
Busy == \A w \in Workers : worker[w].task # NoTask <=> worker[w].pc \in {"lookup", "call"}

\* There are connections only while the network loop runs.
Quiet == server # "run" => ~listening /\ \A h \in Handles : conn[h] = Free

\* The workers start one by one, each followed by its handler, and all of them
\* before the first task.
Starting ==
  /\ server \in Before => workerTasks = <<>> /\ \A w \in Workers : worker[w].pc \in {"none", "idle"}
  /\ \A w \in Workers : worker[w].pc = "none" <=> \/ server \in {"off", "spawned"}
                                                  \/ server = "spawnWorker" /\ w >= poolIdx
                                                  \/ server = "prepare" /\ w > poolIdx
  /\ server \in {"off", "spawned"} => m_serverHandlers = {} /\ poolIdx = 1
  /\ server \in {"spawnWorker", "prepare"} => m_serverHandlers = 1..(poolIdx - 1)
  /\ server \in {"listen", "run", "stopPool"} => m_serverHandlers = Workers /\ poolIdx = 1

\* They end one by one, each before its handler is erased.
Ending ==
  /\ workerStopped <=> server \in After
  /\ \A w \in Workers : worker[w].pc = "exited" => workerStopped
  /\ server \in {"join", "erase"} => /\ m_serverHandlers = poolIdx..NumThreads
                                     /\ \A w \in 1..(poolIdx - 1) : worker[w].pc = "exited"
  /\ server = "erase" => worker[poolIdx].pc = "exited"
  /\ server \in {"exited", "joined"} => /\ m_serverHandlers = {}
                                        /\ \A w \in Workers : worker[w].pc = "exited"

Pool == Busy /\ Quiet /\ Starting /\ Ending

poolSeen == <<conn, server, poolIdx, listening, worker, workerTasks, workerStopped, m_serverHandlers>>

\* No worker runs at first.
LEMMA PoolStart == Init => Pool
<1> SUFFICES ASSUME Init PROVE Pool
  OBVIOUS
<1> USE NumThreadsAssumption DEF Init, Workers, Before, After
<1>1. Busy
  BY DEF Busy
<1>2. Quiet
  BY DEF Quiet
<1>3. Starting
  BY DEF Starting
<1>4. Ending
  BY DEF Ending
<1> QED
  BY <1>1, <1>2, <1>3, <1>4 DEF Pool

\* The steps of the server thread up to the network loop.
LEMMA StartKeepsPool ==
  ASSUME TypeOK, Pool, StartListening \/ InitAsio \/ SpawnWorker \/ PrepareHandler \/ Listen
  PROVE  Pool'
<1>1. /\ poolIdx \in 1..NumThreads /\ NumThreads \in Nat \ {0}
      /\ worker \in WorkerType
  BY NumThreadsAssumption DEF TypeOK, ServerTypes, PoolTypes, Workers, WorkerType
<1> USE <1>1 DEF Pool, Workers, Before, After
<1>2. CASE \E why : Terminate(why)
  <2>1. UNCHANGED poolSeen
    BY <1>2 DEF Terminate, netVars, serverVars, poolVars, poolSeen
  <2> QED
    BY <2>1 DEF poolSeen, Busy, Quiet, Starting, Ending
<1>3. CASE StartListening \/ InitAsio
  <2> USE <1>3 DEF StartListening, InitAsio, netVars, poolVars
  <2>1. Busy'
    BY DEF Busy
  <2>2. Quiet'
    BY DEF Quiet
  <2>3. Starting'
    <3>1. CASE StartListening
      BY <3>1 DEF Starting
    <3>2. CASE InitAsio
      <4>1. 1..(1 - 1) = {}
        OBVIOUS
      <4> QED
        BY <3>2, <4>1 DEF Starting
    <3> QED
      BY <3>1, <3>2
  <2>4. Ending'
    BY DEF Ending
  <2> QED
    BY <2>1, <2>2, <2>3, <2>4
<1>4. CASE SpawnWorker
  <2> USE <1>4 DEF SpawnWorker, netVars
  <2>1. Busy'
    BY DEF Busy, Starting, WorkerType
  <2>2. Quiet'
    BY DEF Quiet
  <2>3. Starting'
    BY DEF Starting, WorkerType
  <2>4. Ending'
    BY DEF Ending, Starting, WorkerType
  <2> QED
    BY <2>1, <2>2, <2>3, <2>4
<1>5. CASE PrepareHandler
  <2> USE <1>5 DEF PrepareHandler, NextWorker, netVars
  <2>1. Busy'
    BY DEF Busy
  <2>2. Quiet'
    BY DEF Quiet
  <2>3. Starting'
    BY DEF Starting
  <2>4. Ending'
    BY DEF Ending, Starting
  <2> QED
    BY <2>1, <2>2, <2>3, <2>4
<1>6. CASE Listen /\ ~Terminate("listen failed")
  <2>0. /\ server = "listen" /\ server' = "run" /\ listening' = TRUE
        /\ UNCHANGED <<conn, poolIdx, worker, workerTasks, workerStopped, m_serverHandlers>>
    BY <1>6 DEF Listen, netVars, poolVars
  <2> USE <2>0
  <2>1. Busy'
    BY DEF Busy
  <2>2. Quiet'
    BY DEF Quiet
  <2>3. Starting'
    BY DEF Starting
  <2>4. Ending'
    BY DEF Ending, Starting
  <2> QED
    BY <2>1, <2>2, <2>3, <2>4
<1> QED
  BY <1>2, <1>3, <1>4, <1>5, <1>6

\* Its steps after the network loop.
LEMMA EndKeepsPool ==
  ASSUME TypeOK, Pool, \/ RunReturns \/ StopPool \/ JoinWorker \/ EraseHandler
                       \/ \E t \in Callers : StopReturns(t)
  PROVE  Pool'
<1>1. /\ poolIdx \in 1..NumThreads /\ NumThreads \in Nat \ {0}
      /\ worker \in WorkerType /\ listening \in BOOLEAN /\ workerStopped \in BOOLEAN
  BY NumThreadsAssumption DEF TypeOK, ServerTypes, PoolTypes, Workers, WorkerType
<1> USE <1>1 DEF Pool, Workers, Before, After
<1>2. CASE RunReturns \/ \E t \in Callers : StopReturns(t)
  <2> USE <1>2 DEF RunReturns, StopReturns, netVars, poolVars
  <2>1. Busy'
    BY DEF Busy
  <2>2. Quiet'
    BY DEF Quiet
  <2>3. Starting'
    BY DEF Starting
  <2>4. Ending'
    BY DEF Ending
  <2> QED
    BY <2>1, <2>2, <2>3, <2>4
<1>3. CASE StopPool
  <2> USE <1>3 DEF StopPool, netVars
  <2>1. Busy'
    BY DEF Busy
  <2>2. Quiet'
    BY DEF Quiet
  <2>3. Starting'
    BY DEF Starting
  <2>4. Ending'
    BY DEF Ending, Starting
  <2> QED
    BY <2>1, <2>2, <2>3, <2>4
<1>4. CASE JoinWorker
  <2> USE <1>4 DEF JoinWorker, netVars, poolVars
  <2>1. Busy'
    BY DEF Busy
  <2>2. Quiet'
    BY DEF Quiet
  <2>3. Starting'
    BY DEF Starting
  <2>4. Ending'
    BY DEF Ending
  <2> QED
    BY <2>1, <2>2, <2>3, <2>4
<1>5. CASE EraseHandler
  <2> USE <1>5 DEF EraseHandler, NextWorker, netVars
  <2>1. Busy'
    BY DEF Busy
  <2>2. Quiet'
    BY DEF Quiet
  <2>3. Starting'
    BY DEF Starting
  <2>4. Ending'
    BY DEF Ending
  <2> QED
    BY <2>1, <2>2, <2>3, <2>4
<1> QED
  BY <1>2, <1>3, <1>4, <1>5

\* The steps of the network loop and of the worker threads.
LEMMA RunKeepsPool ==
  ASSUME TypeOK, Book, Pool, \/ \E h \in Handles : NetworkStep(h)
                             \/ RunServerTask
                             \/ \E w \in Workers : WorkerStep(w)
  PROVE  Pool'
<1>1. worker \in WorkerType
  BY DEF TypeOK, PoolTypes, WorkerType
<1> USE <1>1 DEF Pool, Before, After
<1>2. CASE \E why : Terminate(why)
  <2>1. UNCHANGED poolSeen
    BY <1>2 DEF Terminate, netVars, serverVars, poolVars, poolSeen
  <2> QED
    BY <2>1 DEF poolSeen, Busy, Quiet, Starting, Ending
<1>3. CASE server = "run" /\ UNCHANGED <<server, poolIdx, worker, workerStopped, m_serverHandlers>>
  BY <1>3 DEF Busy, Quiet, Starting, Ending
<1>4. ASSUME NEW h \in Handles, NetworkStep(h) PROVE Pool'
  <2>1. CASE Accept(h) \/ HandshakeFails(h) \/ PeerCloses(h) \/ onConnOpen(h)
    BY <1>3, <2>1 DEF Accept, HandshakeFails, PeerCloses, onConnOpen, poolVars, serverVars
  <2>2. CASE onConnClose(h) \/ \E body \in Bodies : onConnMessage(h, body)
    BY <1>2, <1>3, <2>2 DEF onConnClose, onConnMessage, poolVars, serverVars
  <2> QED
    BY <1>4, <2>1, <2>2 DEF NetworkStep
<1>5. CASE RunServerTask
  BY <1>3, <1>5 DEF RunServerTask, doSendResponse, doSendNotification, stopServerLoop, TakeServerTask, poolVars
<1>6. ASSUME NEW w \in Workers, WorkerStep(w) PROVE Pool'
  <2> USE DEF workerUnchanged, netVars, serverVars
  <2>1. CASE TakeWorkerTask(w)
    <3> USE <2>1 DEF TakeWorkerTask
    <3>1. Head(workerTasks) \in WorkerTasks
      BY DEF TypeOK, PoolTypes
    <3>2. Busy'
      BY <3>1, TaskKinds DEF Busy, WorkerType
    <3>3. Quiet'
      BY DEF Quiet
    <3>4. Starting' /\ Ending'
      BY DEF Starting, Ending, WorkerType
    <3> QED
      BY <3>2, <3>3, <3>4
  <2>2. CASE WorkerExits(w)
    <3> USE <2>2 DEF WorkerExits
    <3>1. Busy'
      BY DEF Busy, WorkerType
    <3>2. Quiet'
      BY DEF Quiet
    <3>3. Starting' /\ Ending'
      BY DEF Starting, Ending, WorkerType
    <3> QED
      BY <3>1, <3>2, <3>3
  <2>3. CASE FindHandler(w)
    <3> USE <2>3 DEF FindHandler
    <3>1. Busy'
      BY DEF Busy, WorkerType
    <3>2. Quiet'
      BY DEF Quiet
    <3>3. Starting' /\ Ending'
      BY DEF Starting, Ending, WorkerType
    <3> QED
      BY <3>1, <3>2, <3>3
  <2>4. ASSUME NEW answer \in Answers, FinishTask(w, answer) PROVE Pool'
    <3> USE <2>4 DEF FinishTask
    <3>1. Busy'
      BY DEF Busy, WorkerType
    <3>2. Quiet'
      BY DEF Quiet
    <3>3. Starting' /\ Ending'
      BY DEF Starting, Ending, WorkerType
    <3> QED
      BY <3>1, <3>2, <3>3
  <2>5. CASE MissHandler(w)
    BY <1>2, <2>5 DEF MissHandler
  <2> QED
    BY <1>6, <2>1, <2>2, <2>3, <2>4, <2>5 DEF WorkerStep
<1> QED
  BY <1>4, <1>5, <1>6

\* The server thread and its pool go together at every step.
LEMMA StepPool ==
  ASSUME TypeOK, Book, Pool, [OpenNext]_vars
  PROVE  Pool'
<1>1. CASE UNCHANGED poolSeen
  BY <1>1 DEF Pool, poolSeen, Busy, Quiet, Starting, Ending
<1>2. ASSUME NEW why, Terminate(why) PROVE UNCHANGED poolSeen
  BY <1>2 DEF Terminate, netVars, serverVars, poolVars, poolSeen
<1>3. ASSUME NEW t, StopListening(t) PROVE UNCHANGED poolSeen
  BY <1>2, <1>3 DEF StopListening, netVars, serverVars, poolVars, poolSeen
<1>4. StartAgain \/ (\E w \in Workers : FunctionStep(w)) => UNCHANGED poolSeen
  BY <1>2, <1>3 DEF StartAgain, FunctionStep
<1>5. ASSUME NEW c, NEW note, sendNotification(c, note) PROVE UNCHANGED poolSeen
  BY <1>5 DEF sendNotification, netVars, serverVars, poolVars, poolSeen
<1>6. UNCHANGED vars => UNCHANGED poolSeen
  BY DEF vars, netVars, serverVars, poolVars, poolSeen
<1> QED
  BY <1>1, <1>3, <1>4, <1>5, <1>6, StartKeepsPool, EndKeepsPool, RunKeepsPool
     DEF OpenNext, Next, ControlStep, LoopStep, OwnLoopStep, Halted, Callers

\* What all the later arguments rest on.
Ground == TypeOK /\ Book /\ Owners /\ Pool

\* Every step keeps types, books and pool.
LEMMA StepGround == Ground /\ [OpenNext]_vars => Ground'
  BY StepBooks, StepPool DEF Ground

\* Types, books and pool: the ground of the proofs that follow.
LEMMA GroundInvariant == OpenSpec => []Ground
<1>1. Init => Ground
  BY InitBooks, PoolStart DEF Ground
<1> QED
  BY <1>1, StepGround, PTL DEF OpenSpec

\* When StopListening has returned, the worker threads and their handlers are
\* gone, as are all connections and clients: joinWorkerThreads waits for each
\* thread before it erases its handler, and the network loop returns only when
\* no connection is left.
THEOREM NothingRuns == OpenSpec => []NothingRunsAfterStop
<1>1. Ground => NothingRunsAfterStop
  <2> SUFFICES ASSUME Ground, server = "joined" PROVE NothingRunsAfterStop
    BY DEF NothingRunsAfterStop
  <2>1. m_serverHandlers = {} /\ \A w \in Workers : worker[w].pc = "exited"
    BY DEF Ground, Pool, Ending
  <2>2. \A h \in Handles : conn[h] = Free
    BY DEF Ground, Pool, Quiet
  <2>3. DOMAIN m_connToCtx = {} /\ DOMAIN m_ctxToConn = {} /\ m_clientHandlers = {}
    BY <2>2 DEF Ground, Book, Connected, Free
  <2> QED
    BY <2>1, <2>2, <2>3 DEF NothingRunsAfterStop
<1> QED
  BY <1>1, GroundInvariant, PTL

\* The exceptions of onConnMessage and onConnClose are never thrown: a handle
\* the network reports on has a context, whatever the workers do.
NoSurprise == fault \notin {"message before open", "close before open"}

\* With one worker thread the handler is there whenever it is looked up, and
\* stays while it is: no task comes before the first handler is prepared, and
\* the last one is erased after its thread has ended.
LEMMA OneWorkerFinds ==
  ASSUME NumThreads = 1, Ground, NEW w \in Workers
  PROVE  ~MissHandler(w)
<1> SUFFICES ASSUME MissHandler(w) PROVE FALSE
  OBVIOUS
<1>1. /\ w = 1 /\ poolIdx = 1
      /\ worker[w].pc = "lookup" /\ (w \notin m_serverHandlers \/ server \in {"prepare", "erase"})
  <2>1. Workers = {1}
    BY DEF Workers
  <2>2. poolIdx \in Workers
    BY DEF Ground, TypeOK, ServerTypes
  <2> QED
    BY <2>1, <2>2 DEF MissHandler, MapBeingChanged
<1>2. server \notin Before \cup {"erase", "exited", "joined"}
  BY <1>1 DEF Ground, Pool, Starting, Ending, Workers
<1>3. server \in {"run", "stopPool", "join"}
  BY <1>2 DEF Ground, TypeOK, ServerTypes, Before
<1>4. w \in m_serverHandlers
  BY <1>1, <1>3 DEF Ground, Pool, Starting, Ending, Workers
<1> QED
  BY <1>1, <1>2, <1>4 DEF Before

\* What brings the process down, step by step.
LEMMA FaultStep ==
  ASSUME Ground, [Next]_vars
  PROVE  \/ fault' = fault
         \/ fault' \in {"double start", "restart", "early stop", "double join", "listen failed"}
         \/ \E w \in Workers : MissHandler(w)
<1>1. ASSUME NEW why, Terminate(why) PROVE fault' = why
  BY <1>1 DEF Terminate
<1>2. CASE ControlStep
  BY <1>2, <1>1 DEF ControlStep, StartListening, StartAgain, StopListening, StopReturns, restVars
<1>3. CASE LoopStep
  BY <1>3, <1>1 DEF LoopStep, OwnLoopStep, InitAsio, SpawnWorker, Listen, RunReturns, StopPool,
                    JoinWorker, EraseHandler, PrepareHandler, restVars
<1>4. ASSUME NEW h \in Handles, NetworkStep(h) PROVE fault' = fault
  <2>1. CASE onConnClose(h) \/ \E body \in Bodies : onConnMessage(h, body)
    <3>1. h \in DOMAIN m_connToCtx
      BY <2>1 DEF onConnClose, onConnMessage, Ground, Book, Connected
    <3> QED
      BY <2>1, <3>1 DEF onConnClose, onConnMessage, restVars
  <2>2. CASE Accept(h) \/ HandshakeFails(h) \/ PeerCloses(h) \/ onConnOpen(h)
    BY <2>2 DEF Accept, HandshakeFails, PeerCloses, onConnOpen, restVars
  <2> QED
    BY <1>4, <2>1, <2>2 DEF NetworkStep
<1>5. CASE RunServerTask
  BY <1>5 DEF RunServerTask, doSendResponse, doSendNotification, stopServerLoop, TakeServerTask, restVars
<1>6. ASSUME NEW c, NEW note, sendNotification(c, note) PROVE fault' = fault
  BY <1>6 DEF sendNotification
<1>7. ASSUME NEW w \in Workers, WorkerStep(w) PROVE fault' = fault \/ MissHandler(w)
  BY <1>7 DEF WorkerStep, TakeWorkerTask, WorkerExits, FindHandler, FinishTask
<1>8. CASE UNCHANGED vars
  BY <1>8 DEF vars, restVars
<1> QED
  BY <1>2, <1>3, <1>4, <1>5, <1>6, <1>7, <1>8 DEF Next, Halted

\* "Message was received before the connection was opened" and "Connection was
\* closed before it was opened" are reported by nobody, for any number of
\* worker threads.
THEOREM NetworkNeverSurprises == OpenSpec => []NoSurprise
<1>1. Init => NoSurprise
  BY DEF Init, NoSurprise
<1>2. Ground /\ NoSurprise /\ [OpenNext]_vars => NoSurprise'
  <2> SUFFICES ASSUME Ground, NoSurprise, [OpenNext]_vars PROVE NoSurprise'
    OBVIOUS
  <2>1. ASSUME NEW w \in Workers, MissHandler(w) \/ FunctionStep(w) PROVE NoSurprise'
    BY <2>1 DEF MissHandler, FunctionStep, StopListening, Terminate, NoSurprise
  <2> QED
    BY <2>1, FaultStep DEF NoSurprise, OpenNext
<1> QED
  BY <1>1, <1>2, GroundInvariant, PTL DEF OpenSpec

\* With one worker thread, and handlers that neither throw nor stop the
\* server, only a misuse of StartListening and StopListening, or an address
\* that is taken, ends the process.
THEOREM MisuseAlone == ASSUME NumThreads = 1 PROVE Spec => []OnlyMisuseTerminates
<1> DEFINE Fine == OnlyMisuseTerminates
<1>1. Init => Fine
  BY DEF Init, OnlyMisuseTerminates
<1>2. Ground /\ Fine /\ [Next]_vars => Fine'
  <2> SUFFICES ASSUME Ground, Fine, [Next]_vars PROVE Fine'
    OBVIOUS
  <2> QED
    BY FaultStep, OneWorkerFinds DEF OnlyMisuseTerminates
<1> QED
  BY <1>1, <1>2, GroundInvariant, SpecIsOpen, PTL DEF Spec

=============================================================================
