-------------------------- MODULE RpcServerProofs ---------------------------
(***************************************************************************)
(* Proofs about the whole server. First, that each of its parts keeps to   *)
(* its own specification when they are put together (PartsKept): what a    *)
(* worker asks of the event manager and of the connector is what its task  *)
(* says (Serving, Calling), and events are reported for clients that were  *)
(* made (Registered). So what is proved of a part holds in the server, and *)
(* is used for what involves several of them.                              *)
(***************************************************************************)
EXTENDS RpcServer, TLAPS

\* The parts with the proofs about them.
CP == INSTANCE WsConnectorAnswers WITH Notes <- Manager!Note, MaxNotes <- MaxEvents * MaxSessions
MP == INSTANCE EventManagerProofs WITH Threads <- Workers \cup AppThreads
BP == INSTANCE MethodBindingProofs

Threads == Workers \cup AppThreads

-----------------------------------------------------------------------------
(* The parts, under either name.                                           *)

\* The connector's steps.
LEMMA SameConnector ==
  /\ [CP!OpenNext]_(CP!vars) <=> [Connector!OpenNext]_(Connector!vars)
  /\ [CP!Next]_(CP!vars) <=> [Connector!Next]_(Connector!vars)
  /\ CP!Init <=> Connector!Init
<1>1. CP!Next <=> Connector!Next
  BY Zenon
  DEF CP!Restrict, Connector!Restrict,
         CP!vars, CP!Next, CP!Workers, CP!netVars, CP!bookVars,
         CP!serverVars, CP!poolVars, CP!restVars, CP!ControlStep, CP!LoopStep, CP!NetworkStep,
         CP!RunServerTask, CP!sendNotification, CP!WorkerStep, CP!Halted, CP!Alive, CP!StopListening,
         CP!Terminate, CP!StartListening, CP!StartAgain, CP!Control, CP!StopReturns, CP!OwnLoopStep,
         CP!PrepareHandler, CP!Accept, CP!HandshakeFails, CP!onConnOpen, CP!onConnMessage,
         CP!PeerCloses, CP!onConnClose, CP!doSendResponse, CP!doSendNotification, CP!stopServerLoop,
         CP!PostToServer, CP!TakeWorkerTask, CP!WorkerExits, CP!FindHandler, CP!MissHandler,
         CP!FinishTask, CP!joinable, CP!InitAsio, CP!SpawnWorker, CP!Listen, CP!RunReturns, CP!StopPool,
         CP!JoinWorker, CP!EraseHandler, CP!NextWorker, CP!Free, CP!newConnection, CP!PostToWorkers,
         CP!removeConnection, CP!TakeServerTask, CP!sendMessage, CP!CallNotification,
         CP!closeConnections, CP!workerUnchanged, CP!MapBeingChanged, CP!NoTask, CP!getAllHdl,
         Connector!vars, Connector!Next, Connector!Workers,
         Connector!netVars, Connector!bookVars, Connector!serverVars, Connector!poolVars,
         Connector!restVars, Connector!ControlStep, Connector!LoopStep, Connector!NetworkStep,
         Connector!RunServerTask, Connector!sendNotification, Connector!WorkerStep, Connector!Halted,
         Connector!Alive, Connector!StopListening, Connector!Terminate, Connector!StartListening,
         Connector!StartAgain, Connector!Control, Connector!StopReturns, Connector!OwnLoopStep,
         Connector!PrepareHandler, Connector!Accept, Connector!HandshakeFails, Connector!onConnOpen,
         Connector!onConnMessage, Connector!PeerCloses, Connector!onConnClose, Connector!doSendResponse,
         Connector!doSendNotification, Connector!stopServerLoop, Connector!PostToServer,
         Connector!TakeWorkerTask, Connector!WorkerExits, Connector!FindHandler, Connector!MissHandler,
         Connector!FinishTask, Connector!joinable, Connector!InitAsio, Connector!SpawnWorker,
         Connector!Listen, Connector!RunReturns, Connector!StopPool, Connector!JoinWorker,
         Connector!EraseHandler, Connector!NextWorker, Connector!Free, Connector!newConnection,
         Connector!PostToWorkers, Connector!removeConnection, Connector!TakeServerTask,
         Connector!sendMessage, Connector!CallNotification, Connector!closeConnections,
         Connector!workerUnchanged, Connector!MapBeingChanged, Connector!NoTask, Connector!getAllHdl
<1>2. (UNCHANGED CP!vars <=> UNCHANGED Connector!vars) /\ \A w : CP!FunctionStep(w) <=> Connector!FunctionStep(w)
  BY Zenon DEF CP!vars, CP!netVars, CP!bookVars, CP!serverVars, CP!poolVars, CP!restVars, CP!FunctionStep, CP!Alive,
         CP!StopListening, CP!Terminate, CP!joinable, CP!PostToServer, Connector!vars, Connector!netVars,
         Connector!bookVars, Connector!serverVars, Connector!poolVars, Connector!restVars,
         Connector!FunctionStep, Connector!Alive, Connector!StopListening, Connector!Terminate,
         Connector!joinable, Connector!PostToServer
<1>3. CP!Init <=> Connector!Init
  BY DEF CP!Init, CP!Free, CP!Sessions, CP!Workers, CP!NoTask, Connector!Init, Connector!Free, Connector!Sessions, Connector!Workers, Connector!NoTask
<1> QED
  BY <1>1, <1>2, <1>3 DEF CP!OpenNext, Connector!OpenNext, CP!Workers, Connector!Workers

\* The event manager's.
LEMMA SameManager ==
  /\ [MP!Next]_(MP!vars) <=> [Manager!Next]_(Manager!vars)
  /\ MP!Init <=> Manager!Init
<1>1. [MP!Next]_(MP!vars) <=> [Manager!Next]_(Manager!vars)
  BY Zenon
  DEF MP!Restrict, Manager!Restrict,
         MP!Next, MP!vars, MP!Ops, MP!EmitOps, MP!Call, MP!onEvent, MP!Acquire, MP!Body, MP!Return,
         MP!callVars, MP!RegisterOps, MP!UnregisterConnOps, MP!ListenersOps, MP!Invoke,
         MP!registerToEvent, MP!SearchRegs, MP!PushSubInfo, MP!Taken, MP!unregisterFromEvent,
         MP!getListenersOfEvents, MP!unregisterConn,
         MP!RegistrationInfo, MP!onConnEvent, MP!emitDone, MP!NoOp, MP!NoResult, MP!InBody, MP!RegsOf,
         MP!areCtxEqual, MP!Leave, MP!Answer, MP!StoreEntry, MP!Registration, MP!ToServe, MP!NoteOf,
         Manager!Next, Manager!vars, Manager!Ops, Manager!EmitOps, Manager!Call, Manager!onEvent,
         Manager!Acquire, Manager!Body, Manager!Return, Manager!callVars, Manager!RegisterOps,
         Manager!UnregisterConnOps, Manager!ListenersOps, Manager!Invoke, Manager!registerToEvent,
         Manager!SearchRegs, Manager!PushSubInfo, Manager!unregisterFromEvent,
         Manager!getListenersOfEvents, Manager!unregisterConn, Manager!RegistrationInfo, Manager!onConnEvent, Manager!emitDone, Manager!NoOp,
         Manager!NoResult, Manager!InBody, Manager!RegsOf, Manager!areCtxEqual, Manager!Leave,
         Manager!Taken, Manager!Answer, Manager!StoreEntry, Manager!Registration, Manager!ToServe, Manager!NoteOf
<1>2. MP!Init <=> Manager!Init
  BY DEF MP!Init, MP!NoOp, MP!NoResult, MP!Answer, Manager!Init, Manager!NoOp, Manager!NoResult, Manager!Answer
<1> QED
  BY <1>1, <1>2

\* Those of the tables.
LEMMA SameBinding ==
  /\ [BP!Next]_(BP!vars) <=> [Binding!Next]_(Binding!vars)
  /\ BP!Init <=> Binding!Init
<1>1. [BP!Next]_(BP!vars) <=> [Binding!Next]_(Binding!vars)
  BY Zenon
  DEF
         BP!Next, BP!vars, BP!bindMethod, BP!bindNotification, BP!BindReturns, BP!ListMethods,
         BP!ListNotifications, BP!tableVars, BP!copyVars, BP!bind, BP!NoBind, BP!Put, BP!Walks,
         BP!AddProcedures, BP!Builtins, BP!EmptyName, BP!Watch, BP!symbolExists, BP!Changing, Binding!Next,
         Binding!vars, Binding!bindMethod, Binding!bindNotification, Binding!BindReturns,
         Binding!ListMethods, Binding!ListNotifications, Binding!tableVars, Binding!copyVars,
         Binding!bind, Binding!NoBind, Binding!Put, Binding!Walks, Binding!AddProcedures,
         Binding!Builtins, Binding!EmptyName, Binding!Watch, Binding!symbolExists, Binding!Changing
<1>2. BP!Init <=> Binding!Init
  BY DEF BP!Init, BP!NoBind, Binding!Init, Binding!NoBind
<1> QED
  BY <1>1, <1>2

\* The types.
LEMMA SameTypes ==
  /\ CP!TypeOK <=> Connector!TypeOK
  /\ MP!TypeOK <=> Manager!TypeOK
  /\ BP!TypeOK <=> Binding!TypeOK
<1>1. CP!TypeOK <=> Connector!TypeOK
  BY Zenon
  DEF
         CP!TypeOK, CP!NetTypes, CP!BookTypes, CP!FrameTypes, CP!ServerTypes, CP!PoolTypes, CP!Free,
         CP!Sessions, CP!Ctxs, CP!Frames, CP!Workers, CP!Callers, CP!WorkerTasks, CP!NoTask,
         CP!Requests, CP!Control, Connector!TypeOK, Connector!NetTypes, Connector!BookTypes,
         Connector!FrameTypes, Connector!ServerTypes, Connector!PoolTypes, Connector!Free,
         Connector!Sessions, Connector!Ctxs, Connector!Frames, Connector!Workers, Connector!Callers,
         Connector!WorkerTasks, Connector!NoTask, Connector!Requests, Connector!Control
<1>2. MP!TypeOK <=> Manager!TypeOK
  BY Zenon
  DEF
         MP!TypeOK, MP!RegistrationInfo, MP!Ops, MP!NoOp, MP!Result, MP!Note, MP!RegisterOps,
         MP!UnregisterConnOps, MP!ListenersOps, MP!EmitOps, MP!Registration, MP!unregisterConn,
         MP!InBody, MP!areCtxEqual, MP!Leave, MP!NoResult, MP!Answer, Manager!TypeOK,
         Manager!RegistrationInfo, Manager!Ops, Manager!NoOp, Manager!Result, Manager!Note,
         Manager!RegisterOps, Manager!UnregisterConnOps, Manager!ListenersOps, Manager!EmitOps,
         Manager!Registration, Manager!unregisterConn, Manager!InBody, Manager!areCtxEqual,
         Manager!Leave, Manager!NoResult, Manager!Answer
<1>3. BP!TypeOK <=> Binding!TypeOK
  BY Zenon
  DEF
         BP!TypeOK, BP!Bind, BP!NoBind, BP!Builtins, BP!Kinds, Binding!TypeOK, Binding!Bind,
         Binding!NoBind, Binding!Builtins, Binding!Kinds
<1> QED
  BY <1>1, <1>2, <1>3

-----------------------------------------------------------------------------
(* What the parts are asked to do.                                         *)

\* A worker is inside its handler for the request it has taken, and for no
\* other client's.
Serving ==
  /\ m_clientLock \in [Workers -> BOOLEAN]
  /\ m_clientCtx \in [Workers -> 0..MaxSessions]
  /\ \A w \in Workers : m_clientLock[w] =>
       worker[w].pc = "call" /\ worker[w].task.kind = "request" /\ m_clientCtx[w] = worker[w].task.ctx

\* The function that body calls was bound to its name, in its way.
BoundTo(body, func) == [kind |-> body.as, name |-> body.method, func |-> func] \in bound

\* The call o of the event manager is the one that task t asks for.
CallFor(t, o) ==
  \/ t.kind = "disconnect" /\ o = [name |-> "unregisterConn", ctx |-> t.ctx]
  \/ /\ t.kind = "request" /\ t.req.body.method \in {"register", "unregister"}
     /\ "event" \in DOMAIN t.req.body
     /\ o = [name |-> t.req.body.method, ctx |-> t.ctx, event |-> t.req.body.event, id |-> t.req.body.id]
  \/ /\ t.kind = "request" /\ t.req.body.method = "getListeners"
     /\ o = [name |-> "getListeners", ctx |-> t.ctx]
  \/ /\ t.kind = "request" /\ o.name = "emit"
     /\ "as" \in DOMAIN t.req.body /\ t.req.body.method \in Names /\ BoundTo(t.req.body, "emits")

\* The handler w is in has found the procedure it was asked for.
Answering(w) == m_clientLock[w] /\ Binding!ProcedureOf(w, Body(w).method) = As(w)

\* A worker inside the event manager is there for its task, any other thread
\* for an event.
Calling ==
  /\ \A w \in Workers : pc[w] # "idle" =>
       /\ worker[w].pc = "call" /\ CallFor(worker[w].task, op[w])
       /\ worker[w].task.kind = "request" => Answering(w)
  /\ \A a \in AppThreads : pc[a] # "idle" => op[a].name = "emit"

\* Registrations are for contexts that were made.
Registered == \A e \in DOMAIN m_registrations : \A r \in m_registrations[e] : r.m_clientCtx \in DOMAIN owner

ConnectorInv == CP!Ground /\ CP!Known
ManagerInv   == MP!TypeOK /\ MP!OwnerInside /\ MP!Table
Base == ConnectorInv /\ ManagerInv /\ BP!IInv /\ Serving /\ Calling /\ Registered

\* The bounds, for the lemmas about the parts.
LEMMA Bounds ==
  /\ NumThreads \in Nat \ {0} /\ MaxSessions \in Nat /\ MaxRequests \in Nat /\ MaxEvents \in Nat
  /\ MaxEvents * MaxSessions \in Nat
  /\ NoOwner \notin Workers \cup AppThreads
  BY SizesAssumption, NoOwnerAssumption

\* What a body asks for.
LEMMA BodyKinds ==
  ASSUME NEW b \in Bodies
  PROVE  /\ "event" \in DOMAIN b => /\ b.method \in {"register", "unregister"} /\ b.event \in Events /\ b.id \in Ids
                                    /\ "as" \notin DOMAIN b
         /\ "event" \notin DOMAIN b => /\ "as" \in DOMAIN b /\ b.as \in {"method", "notification"}
                                       /\ b.method \in Names \cup {"register", "unregister", "getListeners"}
<1>1. b \in AllBodies
  BY BodiesAssumption
<1>2. CASE b \in [method : {"register", "unregister"}, event : Events, id : Ids]
  BY <1>2
<1>3. CASE b \in [method : Names \cup Binding!Builtins, as : Binding!Kinds]
  BY <1>3 DEF Binding!Builtins, Binding!Kinds
<1> QED
  BY <1>1, <1>2, <1>3 DEF AllBodies

\* The task of a worker that is calling a handler.
LEMMA TaskInHand ==
  ASSUME ConnectorInv, NEW w \in Workers, worker[w].pc = "call"
  PROVE  /\ worker[w].task.kind \in {"connect", "disconnect", "request"}
         /\ worker[w].task.ctx \in Ctxs /\ worker[w].task.ctx \in DOMAIN owner
         /\ worker[w].task.kind = "request" =>
              /\ worker[w].task.req.body \in Bodies
              /\ worker[w].task.req.session \in 1..MaxSessions
              /\ owner[worker[w].task.ctx] = worker[w].task.req.session
<1>1. w \in CP!Workers
  BY DEF Workers, CP!Workers
<1>2. worker[w].task # CP!NoTask
  BY <1>1 DEF ConnectorInv, CP!Ground, CP!Pool, CP!Busy
<1>3. worker[w].task \in CP!WorkerTasks
  BY <1>1, <1>2 DEF ConnectorInv, CP!Ground, CP!TypeOK, CP!PoolTypes
<1>4. CP!TaskKnown(worker[w].task, owner, asked)
  BY <1>1, <1>2 DEF ConnectorInv, CP!Known
<1> QED
  BY <1>3, <1>4 DEF CP!WorkerTasks, CP!TaskKnown, CP!Requests, CP!Sessions, CP!Ctxs, Ctxs


-----------------------------------------------------------------------------
(* Every step of the server is one of each part, or leaves it alone.       *)

\* What a call's result is told as is an answer.
LEMMA AnswerFits ==
  ASSUME Base, NEW w \in Workers, pc[w] # "idle", worker[w].task.kind = "request"
  PROVE  AnswerOf(w) \in Answers
<1>1. result[w] \in Manager!Result
  BY SameTypes DEF Base, ManagerInv, Manager!TypeOK
<1>2. CallFor(worker[w].task, op[w])
  BY DEF Base, Calling
<1>3. op[w].name \in {"register", "unregister", "getListeners", "emit"}
  BY <1>2 DEF CallFor
<1> QED
  BY <1>1, <1>3 DEF AnswerOf, Say, Answers, Outcome, Manager!Result

\* So is what is said without a call.
LEMMA SayFits ==
  ASSUME NEW w
  PROVE  /\ Say(Outcome(w)) \in Answers
         /\ \A code \in {"wrongParams", "refused", "empty", "noMethod", "isMethod", "isNotification"} :
              Say(code) \in Answers
  BY DEF Say, Answers, Outcome

\* The answers to a request: there is no such procedure, or it is not of that
\* kind; what the function that was called says; what the event manager says.
Replies(w, answer) ==
  \/ answer = Say("noMethod") /\ InHandler(w) /\ Binding!ProcedureOf(w, Body(w).method) = "none"
  \/ answer.code \in {"isMethod", "isNotification", "wrongParams"}
  \/ answer = Say(Outcome(w)) /\ CallBound(w, "returns")
  \/ answer = Say("refused") /\ CallBound(w, "refuses")
  \/ answer = AnswerOf(w) /\ Reply(w)

\* What a worker does in its handler, to the connector.
LEMMA HandlerSteps ==
  ASSUME Base, NEW w \in Workers, HandlerStep(w)
  PROVE  \/ UNCHANGED connectorVars
         \/ \E answer \in Answers : /\ Connector!FinishTask(w, answer)
                                    /\ worker[w].task.kind = "request" => Replies(w, answer)
         \/ Connector!FunctionStep(w)
<1>1. CASE HandlePeerRequest(w) \/ HandleMethodCall(w) \/ BoundEmits(w) \/ onPeerDisconnected(w)
  BY <1>1 DEF HandlePeerRequest, HandleMethodCall, BoundEmits, onPeerDisconnected
<1>2. CASE Reject(w)
  <2>1. PICK kind : kind # As(w) /\ kind = Binding!ProcedureOf(w, Body(w).method)
                    /\ Answer(w, CASE kind = "none" -> "noMethod"
                                   [] kind = "method" -> "isMethod"
                                   [] kind = "notification" -> "isNotification")
    BY <1>2 DEF Reject
  <2>2. kind \in {"none", "method", "notification"}
    <3>1. Binding!TypeOK
      BY SameTypes DEF Base, BP!IInv
    <3> QED BY <2>1, <3>1 DEF Binding!ProcedureOf, Binding!TypeOK, Binding!Kinds
  <2>3. InHandler(w)
    BY <1>2 DEF Reject
  <2>4. PICK code \in {"noMethod", "isMethod", "isNotification"} :
               Connector!FinishTask(w, Say(code)) /\ (code = "noMethod" => kind = "none")
    BY <2>1, <2>2 DEF Answer
  <2>5. Say(code) \in Answers /\ Say(code).code = code
    BY <2>4, SayFits DEF Say
  <2> QED BY <2>1, <2>3, <2>4, <2>5 DEF Replies
<1>3. CASE WrongParameters(w)
  <2>1. Say("wrongParams") \in Answers /\ Say("wrongParams").code = "wrongParams"
    BY SayFits DEF Say
  <2> QED BY <1>3, <2>1 DEF WrongParameters, Answer, Replies
<1>4. CASE BoundReturns(w) \/ BoundRefuses(w)
  BY <1>4, SayFits DEF BoundReturns, BoundRefuses, Answer, Replies
<1>5. CASE MissBound(w) \/ BoundThrows(w) \/ BoundStops(w)
  BY <1>5 DEF MissBound, BoundThrows, BoundStops, CallBound, Calls, InHandler, Handling, Terminate,
              Connector!FunctionStep, Connector!Alive
<1>6. CASE Reply(w)
  <2>1. pc[w] = "return" /\ worker[w].task.kind = "request" /\ Connector!FinishTask(w, AnswerOf(w))
    BY <1>6 DEF Reply, Manager!Return, Handling
  <2> QED BY <1>6, <2>1, AnswerFits DEF Replies
<1>7. CASE onPeerConnected(w) \/ PeerForgotten(w)
  BY <1>7, SayFits DEF onPeerConnected, PeerForgotten, Handling
<1> QED
  BY <1>1, <1>2, <1>3, <1>4, <1>5, <1>6, <1>7 DEF HandlerStep, BoundStep

\* A notification is for a context that was made, and what the emission says.
LEMMA NotificationFits ==
  ASSUME Base, NEW t \in Threads, NEW r \in Manager!RegistrationInfo, onConnEvent(t, r)
  PROVE  /\ r.m_clientCtx \in DOMAIN owner
         /\ Manager!NoteOf(r, op[t]) \in Manager!Note
         /\ Connector!sendNotification(r.m_clientCtx, Manager!NoteOf(r, op[t]))
<1>1. Manager!onConnEvent(t, r) /\ Connector!sendNotification(r.m_clientCtx, Manager!NoteOf(r, op[t]))
  BY DEF onConnEvent
<1>2. op[t].name = "emit" /\ r \in Manager!RegsOf(op[t].event)
  BY <1>1 DEF Manager!onConnEvent, Manager!InBody, Manager!ToServe
<1>3. op[t] \in Manager!Ops \cup {Manager!NoOp}
  BY SameTypes DEF Base, ManagerInv, Manager!TypeOK, Threads
<1>4. op[t].event \in Events /\ op[t].num \in 1..MaxEvents
  BY <1>2, <1>3 DEF Manager!Ops, Manager!NoOp, Manager!RegisterOps, Manager!UnregisterConnOps,
                    Manager!ListenersOps, Manager!EmitOps
<1>5. r.m_clientCtx \in DOMAIN owner
  BY <1>2 DEF Base, Registered, Manager!RegsOf
<1>6. Manager!NoteOf(r, op[t]) \in Manager!Note
  BY <1>4 DEF Manager!NoteOf, Manager!Note, Manager!RegistrationInfo
<1> QED
  BY <1>1, <1>5, <1>6

\* Outside the handlers the connector's steps are its own.
LEMMA OutsideHandlers ==
  ASSUME Base, [Next]_vars
  PROVE  [Connector!Next]_(Connector!vars) \/ \E w \in Workers : HandlerStep(w)
<1> USE DEF Connector!Next
<1>1. CASE UNCHANGED connectorVars
  BY <1>1 DEF connectorVars, Connector!vars, Connector!netVars, Connector!bookVars, Connector!serverVars,
              Connector!poolVars, Connector!restVars
<1>2. CASE \/ Connector!ControlStep \/ Connector!OwnLoopStep \/ Connector!PrepareHandler
           \/ \E h \in Handles : Connector!NetworkStep(h)
           \/ Connector!RunServerTask
  BY <1>2 DEF Connector!LoopStep
<1>3. ASSUME NEW w \in Workers, PoolStep(w) PROVE Connector!Next
  BY <1>3 DEF PoolStep, Alone, Connector!WorkerStep, Connector!Workers, Workers
<1>5. ASSUME NEW t \in Threads, ManagerStep(t) PROVE Connector!Next \/ UNCHANGED connectorVars
  BY <1>5, NotificationFits DEF ManagerStep
<1>6. CASE AppStep
  BY <1>6, <1>1, <1>2 DEF AppStep, Alone, BindStep, onEventReturns, onEvent
<1>7. CASE ServerStep
  BY <1>7, <1>1, <1>2, <1>3 DEF ServerStep, LoopStep, Alone, ListMethods, PrepareHandler
<1>8. CASE Halted \/ UNCHANGED vars
  BY <1>8, <1>1 DEF Halted, vars
<1> QED
  BY <1>1, <1>5, <1>6, <1>7, <1>8 DEF Next, Threads

\* To the connector.
LEMMA ConnectorSteps ==
  ASSUME Base, [Next]_vars
  PROVE  [Connector!OpenNext]_(Connector!vars)
<1>1. ASSUME NEW w \in Workers, HandlerStep(w) PROVE [Connector!OpenNext]_(Connector!vars)
  <2>1. UNCHANGED connectorVars => UNCHANGED Connector!vars
    BY DEF connectorVars, Connector!vars, Connector!netVars, Connector!bookVars, Connector!serverVars,
           Connector!poolVars, Connector!restVars
  <2> QED BY <1>1, <2>1, HandlerSteps DEF Connector!OpenNext, Connector!Next, Connector!WorkerStep,
             Connector!Workers, Workers
<1> QED
  BY <1>1, OutsideHandlers DEF Connector!OpenNext

\* What a worker asks of the event manager for its client.
Asks(w, o) == /\ Manager!Call(w, o)
              /\ o \in Manager!Ops \ Manager!EmitOps
              /\ CallFor(worker[w].task, o)
              /\ worker[w].pc = "call"
              /\ worker[w].task.kind = "request" => Answering(w)

\* What a worker does in its handler, to the event manager.
LEMMA HandlerCalls ==
  ASSUME Base, NEW w \in Workers, HandlerStep(w)
  PROVE  \/ UNCHANGED managerVars
         \/ /\ UNCHANGED <<connectorVars, handlerVars>>
            /\ \/ \E o : Asks(w, o)
               \/ (\E e \in Events : Manager!onEvent(w, e)) /\ CallBound(w, "emits")
         \/ PeerForgotten(w) /\ Manager!Return(w) /\ UNCHANGED handlerVars /\ worker[w].task.kind = "disconnect"
         \/ Reply(w) /\ Manager!Return(w) /\ LeaveHandler(w)
<1>1. CASE HandlePeerRequest(w) \/ Reject(w) \/ WrongParameters(w) \/ MissBound(w) \/ BoundReturns(w)
           \/ BoundRefuses(w) \/ BoundThrows(w) \/ BoundStops(w) \/ onPeerConnected(w)
  BY <1>1 DEF HandlePeerRequest, Reject, WrongParameters, MissBound, BoundReturns, BoundRefuses, BoundThrows,
              BoundStops, onPeerConnected, Answer, Terminate
<1>2. CASE HandleMethodCall(w)
  <2>1. InHandler(w) /\ UNCHANGED <<connectorVars, handlerVars>>
    BY <1>2 DEF HandleMethodCall, Calls
  <2>2. worker[w].pc = "call" /\ worker[w].task.kind = "request" /\ m_clientLock[w]
    BY <2>1 DEF InHandler, Handling
  <2>3. Answering(w)
    BY <1>2, <2>2 DEF HandleMethodCall, Calls, Answering
  <2>4. /\ m_clientCtx[w] = worker[w].task.ctx /\ m_clientCtx[w] \in Ctxs
        /\ Body(w) \in Bodies /\ Body(w) = worker[w].task.req.body
    BY <2>2, TaskInHand DEF Base, Serving, Body
  <2>5. ASSUME NEW name \in {"register", "unregister"}, Body(w).method = name, "event" \in DOMAIN Body(w),
               Manager!Call(w, [name |-> name, ctx |-> m_clientCtx[w],
                                event |-> Body(w).event, id |-> Body(w).id])
        PROVE  \E o : Asks(w, o)
    <3> DEFINE o == [name |-> name, ctx |-> m_clientCtx[w], event |-> Body(w).event, id |-> Body(w).id]
    <3>1. o \in Manager!Ops \ Manager!EmitOps
      BY <2>4, <2>5, BodyKinds DEF Manager!Ops, Manager!RegisterOps, Manager!EmitOps
    <3>2. CallFor(worker[w].task, o)
      BY <2>2, <2>4, <2>5 DEF CallFor
    <3> QED BY <2>2, <2>3, <2>5, <3>1, <3>2 DEF Asks
  <2>6. ASSUME Body(w).method = "getListeners", Manager!Call(w, [name |-> "getListeners", ctx |-> m_clientCtx[w]])
        PROVE  \E o : Asks(w, o)
    <3> DEFINE o == [name |-> "getListeners", ctx |-> m_clientCtx[w]]
    <3>1. o \in Manager!Ops \ Manager!EmitOps
      BY <2>4 DEF Manager!Ops, Manager!ListenersOps, Manager!EmitOps
    <3>2. CallFor(worker[w].task, o)
      BY <2>2, <2>4, <2>6 DEF CallFor
    <3> QED BY <2>2, <2>3, <2>6, <3>1, <3>2 DEF Asks
  <2> QED BY <1>2, <2>1, <2>5, <2>6 DEF HandleMethodCall, Calls
<1>3. CASE BoundEmits(w)
  BY <1>3 DEF BoundEmits
<1>4. CASE Reply(w)
  BY <1>4 DEF Reply
<1>5. CASE onPeerDisconnected(w)
  <2> DEFINE o == [name |-> "unregisterConn", ctx |-> worker[w].task.ctx]
  <2>1. /\ worker[w].pc = "call" /\ worker[w].task.kind = "disconnect"
        /\ Manager!Call(w, o) /\ UNCHANGED <<connectorVars, handlerVars>>
    BY <1>5 DEF onPeerDisconnected, Handling
  <2>2. o \in Manager!Ops \ Manager!EmitOps
    BY <2>1, TaskInHand DEF Manager!Ops, Manager!UnregisterConnOps, Manager!EmitOps, Base
  <2>3. CallFor(worker[w].task, o)
    BY <2>1 DEF CallFor
  <2> QED BY <2>1, <2>2, <2>3 DEF Asks
<1>6. CASE PeerForgotten(w)
  BY <1>6 DEF PeerForgotten, Handling
<1> QED
  BY <1>1, <1>2, <1>3, <1>4, <1>5, <1>6 DEF HandlerStep, BoundStep

\* To the event manager.
LEMMA ManagerSteps ==
  ASSUME Base, [Next]_vars
  PROVE  [Manager!Next]_(Manager!vars)
<1>1. CASE UNCHANGED managerVars
  BY <1>1 DEF managerVars, Manager!vars, Manager!callVars
<1>2. ASSUME NEW w \in Workers, HandlerStep(w) PROVE Manager!Next \/ UNCHANGED managerVars
  BY <1>2, HandlerCalls DEF Asks, Manager!Next
<1>3. ASSUME NEW t \in Threads, ManagerStep(t) PROVE Manager!Next
  BY <1>3 DEF ManagerStep, onConnEvent, Manager!Next, Manager!Body, Threads
<1>4. CASE AppStep
  BY <1>4, <1>1 DEF AppStep, Alone, BindStep, onEventReturns, onEvent, Manager!Next
<1>5. ASSUME NEW w \in Workers, PoolStep(w) PROVE UNCHANGED managerVars
  BY <1>5 DEF PoolStep, Alone
<1>6. CASE ServerStep
  BY <1>6, <1>1, <1>2, <1>5 DEF ServerStep, LoopStep, Alone, ListMethods, PrepareHandler
<1>7. CASE Halted \/ UNCHANGED vars
  BY <1>7, <1>1 DEF Halted, vars
<1> QED
  BY <1>1, <1>3, <1>4, <1>6, <1>7 DEF Next, Threads

\* No handler binds a name.
LEMMA HandlerBinds ==
  ASSUME NEW w, HandlerStep(w)
  PROVE  UNCHANGED bindingVars
  BY DEF HandlerStep, BoundStep, HandlePeerRequest, HandleMethodCall, Reject, WrongParameters, MissBound,
         BoundReturns, BoundRefuses, BoundThrows, BoundEmits, BoundStops, Reply, onPeerConnected,
         onPeerDisconnected, PeerForgotten, Answer, Terminate

\* To the tables.
LEMMA BindingSteps ==
  ASSUME Base, [Next]_vars
  PROVE  [Binding!Next]_(Binding!vars)
<1>1. CASE UNCHANGED bindingVars
  BY <1>1 DEF bindingVars, Binding!vars, Binding!tableVars, Binding!copyVars
<1>2. poolIdx \in Workers
  BY Zenon DEF Base, ConnectorInv, CP!Ground, CP!TypeOK, CP!ServerTypes, CP!Workers, Workers
<1>3. CASE ListMethods \/ PrepareHandler
  BY <1>3, <1>2 DEF ListMethods, PrepareHandler, Binding!Next
<1>4. CASE BindStep
  <2>1. ASSUME NEW b \in Binds, Binding!bind(b) PROVE Binding!Next
    <3>1. /\ b.name \in Names /\ b.func \in Funcs /\ b.kind \in {"method", "notification"}
          /\ b = [kind |-> b.kind, name |-> b.name, func |-> b.func]
      BY BindsAssumption DEF Binding!Bind, Binding!Kinds
    <3> QED BY <2>1, <3>1 DEF Binding!Next, Binding!bindMethod, Binding!bindNotification
  <2> QED BY <1>4, <2>1 DEF BindStep, Binding!Next
<1>5. ASSUME NEW t \in Threads, ManagerStep(t) PROVE UNCHANGED bindingVars
  BY <1>5 DEF ManagerStep, onConnEvent
<1>6. CASE AppStep
  BY <1>6, <1>1, <1>4 DEF AppStep, Alone, onEventReturns, onEvent
<1>7. ASSUME NEW w \in Workers, PoolStep(w) PROVE UNCHANGED bindingVars
  BY <1>7 DEF PoolStep, Alone
<1>8. CASE ServerStep
  BY <1>8, <1>1, <1>3, <1>7, HandlerBinds DEF ServerStep, LoopStep, Alone
<1>9. CASE Halted \/ UNCHANGED vars
  BY <1>9, <1>1 DEF Halted, vars
<1> QED
  BY <1>1, <1>5, <1>6, <1>8, <1>9 DEF Next, Threads


-----------------------------------------------------------------------------
(* What a worker's own steps alone may change.                             *)

\* A worker's task ends only by a step of its own, and with it the hold of
\* the handler.
Ends(w) == /\ HandlerStep(w)
           /\ \E answer : Connector!FinishTask(w, answer)
           /\ worker[w].task.kind = "request" => LeaveHandler(w)

\* A handler that finishes with a request is left.
LEMMA HandlerEnds ==
  ASSUME NEW w, HandlerStep(w)
  PROVE  UNCHANGED worker \/ Ends(w)
<1>1. CASE Reject(w) \/ WrongParameters(w) \/ BoundReturns(w) \/ BoundRefuses(w) \/ Reply(w)
  BY <1>1 DEF Reject, WrongParameters, BoundReturns, BoundRefuses, Reply, Answer, Ends
<1>2. CASE onPeerConnected(w) \/ PeerForgotten(w)
  BY <1>2 DEF onPeerConnected, PeerForgotten, Handling, Ends
<1>3. CASE HandlePeerRequest(w) \/ HandleMethodCall(w) \/ BoundEmits(w) \/ onPeerDisconnected(w)
  BY <1>3 DEF HandlePeerRequest, HandleMethodCall, BoundEmits, onPeerDisconnected, connectorVars
<1>4. CASE MissBound(w) \/ BoundThrows(w) \/ BoundStops(w)
  BY <1>4 DEF MissBound, BoundThrows, BoundStops, Terminate, Connector!Terminate, Connector!StopListening,
              Connector!poolVars
<1> QED
  BY <1>1, <1>2, <1>3, <1>4 DEF HandlerStep, BoundStep

\* The steps that change where a worker stands.
LEMMA WorkerMoves ==
  ASSUME [Next]_vars
  PROVE  \/ UNCHANGED worker
         \/ Connector!SpawnWorker
         \/ \E w \in Workers : Ends(w)
         \/ \E w \in Workers : \/ Connector!TakeWorkerTask(w) \/ Connector!WorkerExits(w)
                               \/ Connector!FindHandler(w)
<1>1. ASSUME NEW why, Connector!Terminate(why) PROVE UNCHANGED worker
  BY <1>1 DEF Connector!Terminate, Connector!poolVars
<1>2. CASE AppStep
  BY <1>2, <1>1 DEF AppStep, Alone, BindStep, onEventReturns, onEvent, connectorVars, Connector!ControlStep,
       Connector!StartListening, Connector!StartAgain, Connector!StopListening, Connector!StopReturns,
       Connector!poolVars
<1>3. CASE LoopStep
  BY <1>3, <1>1 DEF LoopStep, ListMethods, PrepareHandler, connectorVars, Alone, Connector!PrepareHandler,
       Connector!OwnLoopStep, Connector!InitAsio, Connector!Listen, Connector!RunReturns,
       Connector!StopPool, Connector!JoinWorker, Connector!EraseHandler, Connector!poolVars
<1>4. ASSUME NEW h, Connector!NetworkStep(h) PROVE UNCHANGED worker
  BY <1>4, <1>1 DEF Connector!NetworkStep, Connector!Accept, Connector!HandshakeFails, Connector!onConnOpen,
       Connector!onConnMessage, Connector!PeerCloses, Connector!onConnClose, Connector!poolVars
<1>5. CASE Connector!RunServerTask
  BY <1>5 DEF Connector!RunServerTask, Connector!doSendResponse, Connector!doSendNotification,
       Connector!stopServerLoop, Connector!TakeServerTask, Connector!poolVars
<1>6. ASSUME NEW w, PoolStep(w)
      PROVE  \/ UNCHANGED worker \/ Connector!TakeWorkerTask(w) \/ Connector!WorkerExits(w)
             \/ Connector!FindHandler(w)
  BY <1>6, <1>1 DEF PoolStep, Alone, Connector!MissHandler
<1>7. CASE ServerStep
  BY <1>7, <1>3, <1>4, <1>5, <1>6, HandlerEnds DEF ServerStep, Alone
<1>8. ASSUME NEW t, ManagerStep(t) PROVE UNCHANGED worker
  BY <1>8 DEF ManagerStep, connectorVars, onConnEvent, Connector!sendNotification, Connector!poolVars
<1>9. CASE Halted \/ UNCHANGED vars
  BY <1>9 DEF Halted, vars, connectorVars
<1> QED
  BY <1>2, <1>7, <1>8, <1>9 DEF Next

\* A worker inside a handler stays there with its task until it ends it.
LEMMA CallStays ==
  ASSUME Base, [Next]_vars, NEW w \in Workers, worker[w].pc = "call"
  PROVE  worker'[w] = worker[w] \/ Ends(w)
<1>1. DOMAIN worker = Workers
  BY Zenon DEF Base, ConnectorInv, CP!Ground, CP!TypeOK, CP!PoolTypes, CP!Workers, Workers
<1>2. CASE Connector!SpawnWorker
  <2>1. server = "spawnWorker" /\ worker' = [worker EXCEPT ![poolIdx].pc = "idle"]
    BY <1>2 DEF Connector!SpawnWorker
  <2>2. worker[w].pc \in {"none", "idle"}
    BY <2>1 DEF Base, ConnectorInv, CP!Ground, CP!Pool, CP!Starting, CP!Before, CP!Workers, Workers
  <2> QED BY <2>2
<1>3. ASSUME NEW v \in Workers, Ends(v), v # w PROVE worker'[w] = worker[w]
  BY <1>1, <1>3 DEF Ends, Connector!FinishTask
<1>4. ASSUME NEW v \in Workers, \/ Connector!TakeWorkerTask(v) \/ Connector!WorkerExits(v)
                                \/ Connector!FindHandler(v)
      PROVE  worker'[w] = worker[w]
  BY <1>1, <1>4 DEF Connector!TakeWorkerTask, Connector!WorkerExits, Connector!FindHandler
<1> QED
  BY <1>2, <1>3, <1>4, WorkerMoves

\* The steps that change which handlers are held, and for whom.
LEMMA HandlerVarsMove ==
  ASSUME [Next]_vars
  PROVE  UNCHANGED handlerVars \/ \E w \in Workers : HandlePeerRequest(w) \/ (LeaveHandler(w) /\ Ends(w))
<1>1. ASSUME NEW w \in Workers, HandlerStep(w)
      PROVE  UNCHANGED handlerVars \/ HandlePeerRequest(w) \/ (LeaveHandler(w) /\ Ends(w))
  BY <1>1 DEF HandlerStep, BoundStep, HandleMethodCall, Reject, WrongParameters, MissBound,
         BoundReturns, BoundRefuses, BoundThrows, BoundEmits, BoundStops, Reply, onPeerConnected,
         onPeerDisconnected, PeerForgotten, Answer, Terminate, Ends
<1>2. CASE AppStep
  BY <1>2 DEF AppStep, Alone, BindStep, onEventReturns, onEvent
<1>3. ASSUME NEW w \in Workers, PoolStep(w) PROVE UNCHANGED handlerVars
  BY <1>3 DEF PoolStep, Alone
<1>4. CASE ServerStep
  BY <1>4, <1>1, <1>3 DEF ServerStep, LoopStep, Alone, ListMethods, PrepareHandler
<1>5. ASSUME NEW t, ManagerStep(t) PROVE UNCHANGED handlerVars
  BY <1>5 DEF ManagerStep, onConnEvent
<1>6. CASE Halted \/ UNCHANGED vars
  BY <1>6 DEF Halted, vars
<1> QED
  BY <1>2, <1>4, <1>5, <1>6 DEF Next

\* A worker's hold of its handler, and the client noted there, change only as
\* it enters or leaves.
LEMMA HandlerHeld ==
  ASSUME Base, [Next]_vars, NEW w \in Workers
  PROVE  \/ m_clientLock'[w] = m_clientLock[w] /\ m_clientCtx'[w] = m_clientCtx[w]
         \/ Ends(w) /\ m_clientLock'[w] = FALSE /\ m_clientCtx'[w] = m_clientCtx[w]
         \/ HandlePeerRequest(w)
<1> DEFINE Held == \/ m_clientLock'[w] = m_clientLock[w] /\ m_clientCtx'[w] = m_clientCtx[w]
                   \/ Ends(w) /\ m_clientLock'[w] = FALSE /\ m_clientCtx'[w] = m_clientCtx[w]
                   \/ HandlePeerRequest(w)
<1> SUFFICES Held
  OBVIOUS
<1>1. m_clientLock \in [Workers -> BOOLEAN] /\ m_clientCtx \in [Workers -> 0..MaxSessions]
  BY DEF Base, Serving
<1>2. CASE UNCHANGED handlerVars
  BY <1>2 DEF handlerVars
<1>3. ASSUME NEW v \in Workers, LeaveHandler(v), Ends(v) PROVE Held
  BY <1>1, <1>3 DEF LeaveHandler
<1>4. ASSUME NEW v \in Workers, HandlePeerRequest(v), v # w PROVE Held
  BY <1>1, <1>4 DEF HandlePeerRequest
<1> QED
  BY <1>2, <1>3, <1>4, HandlerVarsMove

\* While a worker is inside a handler no other is being made, and names that
\* were bound stay so.
LEMMA OffersStay ==
  ASSUME Base, [Next]_vars
  PROVE  /\ bound \subseteq bound'
         /\ UNCHANGED procedures \/ \A w \in Workers : worker[w].pc # "call"
<1>1. server = "prepare" => \A w \in Workers : worker[w].pc # "call"
  BY DEF Base, ConnectorInv, CP!Ground, CP!Pool, CP!Starting, CP!Before, CP!Workers, Workers
<1>2. CASE UNCHANGED bindingVars
  BY <1>2 DEF bindingVars
<1>3. CASE BindStep
  BY <1>3 DEF BindStep, Binding!bind, Binding!BindReturns, Binding!copyVars
<1>4. CASE ListMethods
  BY <1>4, <1>1 DEF ListMethods, Binding!ListMethods, Binding!tableVars
<1>5. CASE PrepareHandler
  BY <1>5, <1>1 DEF PrepareHandler, Connector!PrepareHandler, Binding!ListNotifications, Binding!tableVars
<1>6. CASE AppStep
  BY <1>6, <1>2, <1>3 DEF AppStep, Alone, onEventReturns, onEvent
<1>7. ASSUME NEW w \in Workers, PoolStep(w) PROVE UNCHANGED bindingVars
  BY <1>7 DEF PoolStep, Alone
<1>8. CASE ServerStep
  BY <1>8, <1>2, <1>4, <1>5, <1>7, HandlerBinds DEF ServerStep, LoopStep, Alone
<1>9. ASSUME NEW t, ManagerStep(t) PROVE UNCHANGED bindingVars
  BY <1>9 DEF ManagerStep, onConnEvent
<1>10. CASE Halted \/ UNCHANGED vars
  BY <1>10, <1>2 DEF Halted, vars
<1> QED
  BY <1>2, <1>6, <1>8, <1>9, <1>10 DEF Next

\* A call of the event manager is under way, unchanged, or a worker or an
\* application thread has just made it.
LEMMA CallsMade ==
  ASSUME Base, [Next]_vars, NEW t \in Threads, pc'[t] # "idle"
  PROVE  \/ pc[t] # "idle" /\ op'[t] = op[t] /\ ~Manager!Return(t)
         \/ /\ t \in Workers /\ HandlerStep(t) /\ UNCHANGED <<connectorVars, handlerVars>>
            /\ \/ \E o : Asks(t, o) /\ op'[t] = o
               \/ CallBound(t, "emits") /\ op'[t].name = "emit"
         \/ t \in AppThreads /\ op'[t].name = "emit"
<1> DEFINE Made == \/ pc[t] # "idle" /\ op'[t] = op[t] /\ ~Manager!Return(t)
                   \/ /\ t \in Workers /\ HandlerStep(t) /\ UNCHANGED <<connectorVars, handlerVars>>
                      /\ \/ \E o : Asks(t, o) /\ op'[t] = o
                         \/ CallBound(t, "emits") /\ op'[t].name = "emit"
                   \/ t \in AppThreads /\ op'[t].name = "emit"
<1> SUFFICES Made
  OBVIOUS
<1>1. DOMAIN pc = Threads /\ DOMAIN op = Threads
  BY SameTypes DEF Base, ManagerInv, Manager!TypeOK, Threads
<1>2. ~Manager!Return(t)
  BY <1>1 DEF Manager!Return
<1>3. UNCHANGED managerVars => Made
  BY <1>2 DEF managerVars
<1>4. ASSUME NEW u \in Threads, Manager!Return(u) PROVE Made
  BY <1>1, <1>2, <1>4 DEF Manager!Return
<1>5. ASSUME NEW u \in Threads, NEW o, Manager!Invoke(u, o)
      PROVE  \/ u = t /\ op'[t] = o
             \/ pc[t] # "idle" /\ op'[t] = op[t]
  BY <1>1, <1>5 DEF Manager!Invoke
<1>6. ASSUME NEW u \in Threads, ManagerStep(u) PROVE Made
  <2>1. UNCHANGED op /\ pc[u] # "idle" /\ \A v \in Threads \ {u} : pc'[v] = pc[v]
    BY <1>1, <1>6 DEF ManagerStep, onConnEvent, Manager!Acquire, Manager!registerToEvent, Manager!SearchRegs,
         Manager!PushSubInfo, Manager!Leave, Manager!unregisterFromEvent, Manager!getListenersOfEvents,
         Manager!unregisterConn, Manager!emitDone, Manager!onConnEvent, Manager!InBody
  <2> QED BY <2>1, <1>2
<1>7. ASSUME NEW w \in Workers, HandlerStep(w) PROVE Made
  <2>1. w \in Threads
    BY DEF Threads
  <2>2. ASSUME NEW o, Asks(w, o), UNCHANGED <<connectorVars, handlerVars>> PROVE Made
    BY <1>2, <1>5, <1>7, <2>1, <2>2 DEF Asks, Manager!Call
  <2>3. ASSUME NEW e \in Events, Manager!onEvent(w, e), CallBound(w, "emits"),
               UNCHANGED <<connectorVars, handlerVars>>
        PROVE  Made
    BY <1>2, <1>5, <1>7, <2>1, <2>3 DEF Manager!onEvent
  <2> QED BY <1>3, <1>4, <1>7, <2>1, <2>2, <2>3, HandlerCalls
<1>8. CASE AppStep
  <2>1. ASSUME NEW a \in AppThreads, NEW e \in Events, Manager!onEvent(a, e) PROVE Made
    BY <1>2, <1>5, <2>1 DEF Manager!onEvent, Threads
  <2> QED BY <1>8, <1>3, <1>4, <2>1 DEF AppStep, Alone, BindStep, onEventReturns, onEvent, Threads
<1>9. ASSUME NEW w \in Workers, PoolStep(w) PROVE UNCHANGED managerVars
  BY <1>9 DEF PoolStep, Alone
<1>10. CASE ServerStep
  BY <1>10, <1>3, <1>7, <1>9 DEF ServerStep, LoopStep, Alone, ListMethods, PrepareHandler
<1>11. CASE Halted \/ UNCHANGED vars
  BY <1>11, <1>3 DEF Halted, vars
<1> HIDE DEF Made
<1> QED
  BY <1>6, <1>8, <1>10, <1>11 DEF Next, Threads


-----------------------------------------------------------------------------
(* The invariant.                                                          *)

\* A handler still serves the request it was entered with.
LEMMA ServingStep ==
  ASSUME Base, [Next]_vars
  PROVE  Serving'
<1>1. m_clientLock \in [Workers -> BOOLEAN] /\ m_clientCtx \in [Workers -> 0..MaxSessions]
  BY DEF Base, Serving
<1>2. m_clientLock' \in [Workers -> BOOLEAN] /\ m_clientCtx' \in [Workers -> 0..MaxSessions]
  <2>1. CASE UNCHANGED handlerVars
    BY <1>1, <2>1 DEF handlerVars
  <2>2. ASSUME NEW w \in Workers, LeaveHandler(w)
        PROVE  m_clientLock' \in [Workers -> BOOLEAN] /\ m_clientCtx' \in [Workers -> 0..MaxSessions]
    BY <1>1, <2>2 DEF LeaveHandler
  <2>3. ASSUME NEW w \in Workers, HandlePeerRequest(w)
        PROVE  m_clientLock' \in [Workers -> BOOLEAN] /\ m_clientCtx' \in [Workers -> 0..MaxSessions]
    <3>1. worker[w].task.ctx \in 0..MaxSessions
      BY <2>3, TaskInHand DEF HandlePeerRequest, Handling, Base, Ctxs
    <3> QED BY <1>1, <2>3, <3>1 DEF HandlePeerRequest
  <2> QED BY <2>1, <2>2, <2>3, HandlerVarsMove
<1>3. ASSUME NEW w \in Workers, m_clientLock'[w]
      PROVE  /\ worker'[w].pc = "call" /\ worker'[w].task.kind = "request"
             /\ m_clientCtx'[w] = worker'[w].task.ctx
  <2>1. CASE HandlePeerRequest(w)
    BY <1>1, <2>1 DEF HandlePeerRequest, Handling, connectorVars
  <2>2. CASE ~HandlePeerRequest(w)
    <3>1. m_clientLock[w] /\ m_clientCtx'[w] = m_clientCtx[w]
      BY <1>1, <1>3, <2>2, HandlerHeld
    <3>2. worker[w].pc = "call" /\ worker[w].task.kind = "request" /\ m_clientCtx[w] = worker[w].task.ctx
      BY <3>1 DEF Base, Serving
    <3>3. ~Ends(w)
      BY <1>1, <1>3, <3>2 DEF Ends, LeaveHandler
    <3>4. worker'[w] = worker[w]
      BY <3>2, <3>3, CallStays
    <3> QED BY <3>1, <3>2, <3>4
  <2> QED BY <2>1, <2>2
<1> QED
  BY <1>2, <1>3 DEF Serving

\* A bound function that reports an event was bound to the name asked for.
LEMMA BoundCalled ==
  ASSUME Base, NEW w \in Workers, NEW func, CallBound(w, func)
  PROVE  /\ worker[w].pc = "call" /\ worker[w].task.kind = "request" /\ Answering(w)
         /\ Body(w) = worker[w].task.req.body /\ Body(w).method \in Names /\ "as" \in DOMAIN Body(w)
         /\ BoundTo(Body(w), func)
<1>1. PICK name \in Names : /\ Calls(w, name) /\ Binding!Found(As(w), name)
                            /\ Binding!Table(As(w))[name] = func
  BY DEF CallBound
<1>2. /\ worker[w].pc = "call" /\ worker[w].task.kind = "request" /\ m_clientLock[w]
      /\ Body(w).method = name /\ Binding!ProcedureOf(w, name) = As(w)
  BY <1>1 DEF Calls, InHandler, Handling
<1>3. Body(w) \in Bodies /\ Body(w) = worker[w].task.req.body
  BY <1>2, TaskInHand DEF Base, Body
<1>4. "event" \notin DOMAIN Body(w) /\ "as" \in DOMAIN Body(w) /\ Body(w).as \in {"method", "notification"}
  BY <1>2, <1>3, BodyKinds, NamesAssumption DEF Binding!Builtins
<1>5. [kind |-> As(w), name |-> name, func |-> func] \in bound
  <2>1. As(w) \in BP!Kinds
    BY <1>4 DEF As, BP!Kinds
  <2>2. name \in DOMAIN BP!Table(As(w)) /\ BP!Table(As(w))[name] = func
    BY <1>1 DEF Binding!Found, Binding!Table, BP!Table
  <2> QED BY <2>1, <2>2 DEF Base, BP!IInv, BP!Tables
<1> QED
  BY <1>2, <1>3, <1>4, <1>5 DEF Answering, As, BoundTo

\* A worker with a call of the event manager under way does not end its task
\* but through that call.
LEMMA CallKeepsTask ==
  ASSUME Base, NEW w \in Workers, pc[w] # "idle", Ends(w)
  PROVE  Manager!Return(w)
<1>1. CallFor(worker[w].task, op[w]) /\ (worker[w].task.kind = "request" => Answering(w))
  BY DEF Base, Calling
<1>2. CASE Reject(w)
  BY <1>1, <1>2 DEF Reject, InHandler, Handling, Answering
<1>3. CASE WrongParameters(w)
  <2>1. /\ worker[w].task.kind = "request" /\ worker[w].pc = "call"
        /\ Body(w).method \in {"register", "unregister"} /\ "event" \notin DOMAIN Body(w)
    BY <1>3 DEF WrongParameters, Calls, InHandler, Handling
  <2> QED BY <1>1, <2>1, NamesAssumption DEF CallFor, Body, Binding!Builtins
<1>4. ~BoundReturns(w) /\ ~BoundRefuses(w)
  BY DEF BoundReturns, BoundRefuses, CallBound
<1>5. ~onPeerConnected(w)
  BY <1>1 DEF onPeerConnected, Handling, CallFor
<1>6. CASE Reply(w) \/ PeerForgotten(w)
  BY <1>6 DEF Reply, PeerForgotten
<1>7. CASE UNCHANGED worker
  <2>1. worker[w].pc = "call" /\ worker'[w].pc = "idle"
    <3>1. w \in DOMAIN worker
      BY Zenon DEF Base, ConnectorInv, CP!Ground, CP!TypeOK, CP!PoolTypes, CP!Workers, Workers
    <3> QED BY <3>1 DEF Ends, Connector!FinishTask
  <2> QED BY <1>7, <2>1
<1>8. UNCHANGED worker \/ ~(HandlePeerRequest(w) \/ HandleMethodCall(w) \/ BoundEmits(w) \/ onPeerDisconnected(w)
                            \/ MissBound(w) \/ BoundThrows(w) \/ BoundStops(w))
  BY DEF HandlePeerRequest, HandleMethodCall, BoundEmits, onPeerDisconnected, connectorVars, MissBound,
         BoundThrows, BoundStops, Terminate, Connector!Terminate, Connector!StopListening, Connector!poolVars
<1> QED
  BY <1>2, <1>3, <1>4, <1>5, <1>6, <1>7, <1>8 DEF Ends, HandlerStep, BoundStep


\* The calls under way are still those the workers' tasks ask for.
LEMMA CallingStep ==
  ASSUME Base, [Next]_vars
  PROVE  Calling'
<1>1. ASSUME NEW w \in Workers, pc'[w] # "idle"
      PROVE  /\ worker'[w].pc = "call" /\ CallFor(worker[w].task, op[w])'
             /\ worker'[w].task.kind = "request" => Answering(w)'
  <2>1. w \in Threads /\ w \notin AppThreads
    BY AppThreadsAssumption DEF Threads
  <2>2. CASE pc[w] # "idle" /\ op'[w] = op[w] /\ ~Manager!Return(w)
    <3>1. /\ worker[w].pc = "call" /\ CallFor(worker[w].task, op[w])
          /\ worker[w].task.kind = "request" => Answering(w)
      BY <2>2 DEF Base, Calling
    <3>2. ~Ends(w)
      BY <2>2, CallKeepsTask
    <3>3. worker'[w] = worker[w]
      BY <3>1, <3>2, CallStays
    <3>4. bound \subseteq bound' /\ procedures' = procedures
      BY <3>1, OffersStay
    <3>5. CallFor(worker[w].task, op[w])'
      BY <2>2, <3>1, <3>3, <3>4 DEF CallFor, BoundTo
    <3>6. worker'[w].task.kind = "request" => Answering(w)'
      <4>1. m_clientLock[w] => m_clientLock'[w]
        BY <3>1, <3>2, HandlerHeld DEF HandlePeerRequest, Base, Serving
      <4> QED BY <3>1, <3>3, <3>4, <4>1 DEF Answering, Binding!ProcedureOf, Body, As
    <3> QED BY <3>1, <3>3, <3>5, <3>6
  <2>3. CASE HandlerStep(w) /\ UNCHANGED <<connectorVars, handlerVars>>
    <3>1. UNCHANGED <<worker, m_clientLock, bound, procedures>>
      BY <2>3, HandlerBinds DEF connectorVars, handlerVars, bindingVars
    <3>2. Answering(w) => Answering(w)'
      BY <3>1 DEF Answering, Binding!ProcedureOf, Body, As
    <3>3. ASSUME NEW o, Asks(w, o), op'[w] = o
          PROVE  /\ worker[w].pc = "call" /\ CallFor(worker[w].task, op'[w])
                 /\ worker[w].task.kind = "request" => Answering(w)
      BY <3>3 DEF Asks
    <3>4. ASSUME CallBound(w, "emits"), op'[w].name = "emit"
          PROVE  /\ worker[w].pc = "call" /\ CallFor(worker[w].task, op'[w])
                 /\ worker[w].task.kind = "request" => Answering(w)
      BY <3>4, BoundCalled DEF CallFor
    <3>5. \/ \E o : Asks(w, o) /\ op'[w] = o
          \/ CallBound(w, "emits") /\ op'[w].name = "emit"
          \/ pc[w] # "idle" /\ op'[w] = op[w]
      BY <1>1, <2>1, CallsMade
    <3>6. /\ worker[w].pc = "call" /\ CallFor(worker[w].task, op'[w])
          /\ worker[w].task.kind = "request" => Answering(w)
      BY <3>3, <3>4, <3>5 DEF Base, Calling
    <3> QED BY <3>1, <3>2, <3>6 DEF CallFor, BoundTo
  <2> QED BY <1>1, <2>1, <2>2, <2>3, CallsMade
<1>2. ASSUME NEW a \in AppThreads, pc'[a] # "idle" PROVE op'[a].name = "emit"
  <2>1. a \in Threads /\ a \notin Workers
    BY AppThreadsAssumption DEF Threads
  <2> QED BY <1>2, <2>1, CallsMade DEF Base, Calling
<1> QED
  BY <1>1, <1>2 DEF Calling

\* The calls that change the table.
LEMMA TableMoves ==
  ASSUME Base, [Next]_vars
  PROVE  \/ UNCHANGED m_registrations
         \/ \E t \in Threads : /\ \/ Manager!registerToEvent(t) \/ Manager!unregisterFromEvent(t)
                                  \/ Manager!unregisterConn(t)
                               /\ UNCHANGED <<connectorVars, bindingVars, handlerVars>>
<1>1. ASSUME NEW t \in Threads, ManagerStep(t)
      PROVE  \/ UNCHANGED m_registrations
             \/ /\ \/ Manager!registerToEvent(t) \/ Manager!unregisterFromEvent(t)
                   \/ Manager!unregisterConn(t)
                /\ UNCHANGED <<connectorVars, bindingVars, handlerVars>>
  BY <1>1 DEF ManagerStep, onConnEvent, Manager!Acquire, Manager!getListenersOfEvents, Manager!emitDone,
              Manager!onConnEvent
<1>2. ASSUME NEW w \in Workers, HandlerStep(w) PROVE UNCHANGED m_registrations
  BY <1>2, HandlerCalls DEF managerVars, Asks, Manager!Call, Manager!onEvent, Manager!Invoke, Manager!Return
<1>3. CASE AppStep
  BY <1>3 DEF AppStep, Alone, BindStep, onEventReturns, onEvent, managerVars, Manager!onEvent, Manager!Invoke,
              Manager!Return
<1>4. ASSUME NEW w \in Workers, PoolStep(w) PROVE UNCHANGED m_registrations
  BY <1>4 DEF PoolStep, Alone, managerVars
<1>5. CASE ServerStep
  BY <1>5, <1>2, <1>4 DEF ServerStep, LoopStep, Alone, ListMethods, PrepareHandler, managerVars
<1>6. CASE Halted \/ UNCHANGED vars
  BY <1>6 DEF Halted, vars, managerVars
<1> QED
  BY <1>1, <1>3, <1>5, <1>6 DEF Next, Threads

\* What a registration adds to the table, and what the other calls leave of it.
LEMMA TableEntries ==
  ASSUME Base, NEW t \in Threads, NEW e, NEW r,
         Manager!registerToEvent(t) \/ Manager!unregisterFromEvent(t) \/ Manager!unregisterConn(t),
         e \in DOMAIN m_registrations', r \in m_registrations'[e]
  PROVE  \/ /\ e \in DOMAIN m_registrations /\ r \in m_registrations[e]
            /\ Manager!unregisterConn(t) => r.m_clientCtx # op[t].ctx
         \/ /\ Manager!registerToEvent(t) /\ op[t].name = "register" /\ e = op[t].event
            /\ r = [m_id |-> op[t].id, m_clientCtx |-> op[t].ctx]
            /\ pc'[t] = "return" /\ op'[t] = op[t] /\ result'[t].ok
<1>1. CASE Manager!SearchRegs(t)
  <2>1. \/ UNCHANGED m_registrations
        \/ m_registrations' = [x \in DOMAIN m_registrations \cup {op[t].event} |-> Manager!RegsOf(x)]
    BY <1>1 DEF Manager!SearchRegs
  <2>2. ~Manager!unregisterConn(t)
    BY <1>1 DEF Manager!SearchRegs, Manager!InBody, Manager!unregisterConn
  <2> QED BY <2>1, <2>2 DEF Manager!RegsOf
<1>4. CASE Manager!PushSubInfo(t)
  <2> DEFINE regs == Manager!RegsOf(op[t].event)
             info == [m_id |-> op[t].id, m_clientCtx |-> op[t].ctx]
  <2>1. /\ Manager!registerToEvent(t) /\ op[t].name = "register" /\ ~Manager!unregisterConn(t)
        /\ m_registrations' = Manager!StoreEntry(op[t].event, regs \cup {info})
        /\ Manager!Leave(t, Manager!Answer(TRUE, {}))
    BY <1>4 DEF Manager!registerToEvent, Manager!PushSubInfo, Manager!InBody, Manager!unregisterConn
  <2>2. pc'[t] = "return" /\ op'[t] = op[t] /\ result'[t].ok
    <3>1. t \in DOMAIN pc /\ t \in DOMAIN result
      BY SameTypes DEF Base, ManagerInv, Manager!TypeOK, Threads
    <3> QED BY <2>1, <3>1 DEF Manager!Leave, Manager!Answer
  <2>3. m_registrations' = [x \in DOMAIN m_registrations \cup {op[t].event} |->
                              IF x = op[t].event THEN regs \cup {info} ELSE m_registrations[x]]
    BY <2>1 DEF Manager!StoreEntry
  <2> HIDE DEF info
  <2>4. (r = info /\ e = op[t].event) \/ (e \in DOMAIN m_registrations /\ r \in m_registrations[e])
    BY <2>3 DEF Manager!RegsOf
  <2> QED BY <2>1, <2>2, <2>4 DEF info
<1>2. CASE Manager!unregisterFromEvent(t)
  BY <1>2 DEF Manager!unregisterFromEvent, Manager!StoreEntry, Manager!RegsOf, Manager!Restrict,
              Manager!InBody, Manager!unregisterConn
<1>3. CASE Manager!unregisterConn(t)
  BY <1>3 DEF Manager!unregisterConn, Manager!areCtxEqual
<1> QED
  BY <1>1, <1>2, <1>3, <1>4 DEF Manager!registerToEvent

\* Registrations are made and ended for the client of the task.
LEMMA RegisteringFor ==
  ASSUME Base, NEW t \in Threads, pc[t] # "idle", op[t].name \in {"register", "unregister"}
  PROVE  /\ t \in Workers /\ worker[t].pc = "call" /\ worker[t].task.kind = "request" /\ Answering(t)
         /\ op[t].ctx = worker[t].task.ctx /\ op[t].ctx \in DOMAIN owner
         /\ "event" \in DOMAIN Body(t) /\ Body(t).method = op[t].name
         /\ Body(t).event = op[t].event /\ Body(t).id = op[t].id
         /\ op[t] = [name |-> op[t].name, ctx |-> op[t].ctx, event |-> op[t].event, id |-> op[t].id]
<1>1. t \in Workers
  BY DEF Base, Calling, Threads
<1>2. /\ worker[t].pc = "call" /\ CallFor(worker[t].task, op[t])
      /\ worker[t].task.kind = "request" => Answering(t)
  BY <1>1 DEF Base, Calling
<1> QED
  BY <1>1, <1>2, TaskInHand DEF CallFor, Base, Body

\* Registrations are for contexts that were made, still.
LEMMA RegisteredStep ==
  ASSUME Base, [Next]_vars, CP!OwnersStay
  PROVE  Registered'
<1>1. CASE UNCHANGED m_registrations
  BY <1>1 DEF Base, Registered, CP!OwnersStay
<1>2. ASSUME NEW t \in Threads,
             Manager!registerToEvent(t) \/ Manager!unregisterFromEvent(t) \/ Manager!unregisterConn(t),
             NEW e \in DOMAIN m_registrations', NEW r \in m_registrations'[e]
      PROVE  r.m_clientCtx \in DOMAIN owner'
  <2>1. CASE e \in DOMAIN m_registrations /\ r \in m_registrations[e]
    BY <2>1 DEF Base, Registered, CP!OwnersStay
  <2>2. CASE op[t].name = "register" /\ Manager!registerToEvent(t) /\ r.m_clientCtx = op[t].ctx
    <3>1. pc[t] # "idle"
      BY <2>2 DEF Manager!registerToEvent, Manager!SearchRegs, Manager!PushSubInfo, Manager!InBody
    <3> QED BY <2>2, <3>1, RegisteringFor DEF CP!OwnersStay
  <2> QED BY <1>2, <2>1, <2>2, TableEntries
<1> QED
  BY <1>1, <1>2, TableMoves DEF Registered


\* It holds at first.
LEMMA BaseStart == Init => Base
<1> SUFFICES ASSUME Init PROVE Base
  OBVIOUS
<1>1. Connector!Init /\ Manager!Init /\ Binding!Init
  BY DEF Init
<1>2. CP!Init /\ MP!Init /\ BP!Init
  BY <1>1, SameConnector, SameManager, SameBinding
<1>3. CP!Ground /\ CP!Known
  <2>1. CP!TypeOK /\ CP!Book /\ CP!Owners /\ CP!Pool
    BY <1>2, Bounds, CP!InitBooks, CP!PoolStart
  <2>2. CP!Known
    BY <1>2 DEF CP!Init, CP!Known, CP!NoTask
  <2> QED BY <2>1, <2>2 DEF CP!Ground
<1>4. ManagerInv
  <2>1. MP!TypeOK
    BY <1>2, Bounds, MP!InitTypeOK
  <2>2. MP!OwnerInside /\ MP!Table
    BY <1>2 DEF MP!Init, MP!OwnerInside, MP!Inside, MP!Table, MP!OneRegistrationPerEvent,
                MP!NoEmptyEntry, MP!SearchHolds
  <2> QED BY <2>1, <2>2 DEF ManagerInv
<1>5. BP!IInv
  BY <1>2, BP!InitIInv
<1>6. Serving
  BY SizesAssumption DEF Init, Serving
<1>7. Calling /\ Registered
  BY <1>1 DEF Manager!Init, Calling, Registered, Threads
<1> QED
  BY <1>3, <1>4, <1>5, <1>6, <1>7 DEF Base, ConnectorInv

\* Every step keeps it.
LEMMA BaseStep ==
  ASSUME Base, [Next]_vars
  PROVE  Base' /\ CP!OwnersStay
<1>1. [CP!OpenNext]_(CP!vars) /\ [MP!Next]_(MP!vars) /\ [BP!Next]_(BP!vars)
  BY ConnectorSteps, ManagerSteps, BindingSteps, SameConnector, SameManager, SameBinding
<1>2. CP!Ground'
  BY <1>1, Bounds, CP!StepGround DEF Base, ConnectorInv
<1>3. CP!Known' /\ CP!OwnersStay
  BY <1>1, <1>2, Bounds, CP!StepKnown, CP!AskedGrows DEF Base, ConnectorInv
<1>4. ManagerInv'
  BY <1>1, Bounds, MP!StepTypeOK, MP!OwnerStep, MP!TableStep DEF Base, ManagerInv
<1>5. BP!IInv'
  BY <1>1, BP!StepIInv DEF Base
<1> QED
  BY <1>2, <1>3, <1>4, <1>5, ServingStep, CallingStep, RegisteredStep DEF Base, ConnectorInv

\* So it holds of every behaviour.
LEMMA BaseInvariant == Spec => []Base
<1>1. Base /\ [Next]_vars => Base'
  BY BaseStep
<1> QED
  BY <1>1, BaseStart, PTL DEF Spec

\* Every variable of the server keeps its type, those of the handlers
\* included, whichever worker serves whichever client.
THEOREM TypeCorrect == Spec => []TypeOK
<1>1. Base => TypeOK
  BY SameTypes DEF Base, TypeOK, ConnectorInv, CP!Ground, ManagerInv, BP!IInv, Serving
<1> QED
  BY <1>1, BaseInvariant, PTL

\* No handler, bound function or event makes the connector, the event manager
\* or the tables do what they do not do by themselves.
THEOREM PartsAreKept == Spec => PartsKept
<1>1. Init => Connector!Init /\ Manager!Init /\ Binding!Init
  BY DEF Init
<1>2. Base /\ [Next]_vars => /\ [Connector!OpenNext]_(Connector!vars) /\ [Manager!Next]_(Manager!vars)
                             /\ [Binding!Next]_(Binding!vars)
  BY ConnectorSteps, ManagerSteps, BindingSteps
<1> QED
  BY <1>1, <1>2, BaseInvariant, PTL DEF Spec, PartsKept, Connector!OpenSpec, Manager!Spec, Binding!Spec


-----------------------------------------------------------------------------
(* One worker thread: no registration of a client outlives its             *)
(* disconnection.                                                          *)

\* Once the event manager has been told of a disconnection, until its answer
\* is taken, the client has no registration.
Forgotten ==
  \A w \in Workers : pc[w] = "return" /\ op[w].name = "unregisterConn" =>
    \A e \in DOMAIN m_registrations : \A r \in m_registrations[e] : r.m_clientCtx # op[w].ctx

\* A client with a registration is not forgotten by the connector, unless the
\* worker pool was stopped.
Kept == \A e \in DOMAIN m_registrations : \A r \in m_registrations[e] :
          workerStopped \/ CP!Remembered(r.m_clientCtx)

\* A disconnection is done with when the event manager has been told.
LEMMA DisconnectEnds ==
  ASSUME Base, NEW w \in Workers, Ends(w), worker[w].task.kind = "disconnect"
  PROVE  pc[w] = "return" /\ op[w] = [name |-> "unregisterConn", ctx |-> worker[w].task.ctx]
<1>1. worker[w].pc = "call" /\ worker'[w].pc = "idle"
  <2>1. w \in DOMAIN worker
    BY Zenon DEF Base, ConnectorInv, CP!Ground, CP!TypeOK, CP!PoolTypes, CP!Workers, Workers
  <2> QED BY <2>1 DEF Ends, Connector!FinishTask
<1>2. ~onPeerDisconnected(w)
  BY <1>1 DEF onPeerDisconnected, connectorVars
<1>3. ~Handling(w, "request") /\ ~Handling(w, "connect")
  BY DEF Handling
<1>4. PeerForgotten(w)
  BY <1>2, <1>3 DEF Ends, HandlerStep, BoundStep, HandlePeerRequest, HandleMethodCall, Reject, WrongParameters,
       MissBound, BoundReturns, BoundRefuses, BoundThrows, BoundEmits, BoundStops, CallBound, Calls, InHandler,
       Reply, onPeerConnected
<1>5. pc[w] = "return"
  BY <1>4 DEF PeerForgotten, Manager!Return
<1>6. CallFor(worker[w].task, op[w])
  BY <1>5 DEF Base, Calling
<1> QED
  BY <1>5, <1>6 DEF CallFor

\* A call returns only after it has worked on the table, and its result stays.
LEMMA CallReturns ==
  ASSUME Base, [Next]_vars, NEW t \in Threads, pc'[t] = "return"
  PROVE  /\ op'[t] = op[t]
         /\ (pc[t] = "return" /\ result'[t] = result[t]) \/ Manager!Body(t)
<1>1. [Manager!Next]_(Manager!vars)
  BY ManagerSteps
<1>2. /\ pc \in [Threads -> {"idle", "lock", "body", "insert", "return"}]
      /\ DOMAIN op = Threads /\ DOMAIN result = Threads
  BY SameTypes DEF Base, ManagerInv, Manager!TypeOK, Threads
<1>3. CASE UNCHANGED Manager!vars
  BY <1>3 DEF Manager!vars, Manager!callVars
<1>4. ASSUME NEW u \in Threads, NEW o, Manager!Invoke(u, o)
      PROVE  u # t /\ pc'[t] = pc[t] /\ op'[t] = op[t] /\ result'[t] = result[t]
  BY <1>2, <1>4 DEF Manager!Invoke
<1>5. ASSUME NEW u \in Threads, Manager!Acquire(u) \/ Manager!Return(u)
      PROVE  u # t /\ pc'[t] = pc[t] /\ op'[t] = op[t] /\ result'[t] = result[t]
  BY <1>2, <1>5 DEF Manager!Acquire, Manager!Return
<1>6. ASSUME NEW u \in Threads, Manager!Body(u)
      PROVE  op'[t] = op[t] /\ (u # t => pc'[t] = pc[t] /\ result'[t] = result[t])
  BY <1>2, <1>6 DEF Manager!Body, Manager!registerToEvent, Manager!SearchRegs, Manager!PushSubInfo,
       Manager!unregisterFromEvent, Manager!emitDone, Manager!getListenersOfEvents, Manager!unregisterConn,
       Manager!onConnEvent, Manager!Leave
<1> QED
  BY <1>1, <1>3, <1>4, <1>5, <1>6 DEF Manager!Next, Manager!Call, Manager!onEvent, Threads

\* With one worker nothing is registered between the two.
LEMMA ForgottenStep ==
  ASSUME NumThreads = 1, Base, Forgotten, [Next]_vars
  PROVE  Forgotten'
<1> SUFFICES ASSUME NEW w \in Workers, pc'[w] = "return", op'[w].name = "unregisterConn",
                    NEW e \in DOMAIN m_registrations', NEW r \in m_registrations'[e]
             PROVE  r.m_clientCtx # op'[w].ctx
  BY DEF Forgotten
<1>1. op'[w] = op[w] /\ (pc[w] = "return" \/ Manager!unregisterConn(w))
  <2>1. op'[w] = op[w] /\ (pc[w] = "return" \/ Manager!Body(w))
    BY CallReturns DEF Threads
  <2>2. ASSUME NEW r0, Manager!onConnEvent(w, r0) PROVE pc[w] = "return"
    BY <2>2 DEF Manager!onConnEvent
  <2> QED BY <2>1, <2>2 DEF Manager!Body, Manager!registerToEvent, Manager!SearchRegs, Manager!PushSubInfo,
                         Manager!unregisterFromEvent, Manager!emitDone, Manager!getListenersOfEvents,
                         Manager!InBody
<1>2. CASE UNCHANGED m_registrations
  <2>1. CASE pc[w] = "return"
    BY <1>1, <1>2, <2>1 DEF Forgotten
  <2>2. CASE Manager!unregisterConn(w)
    BY <1>1, <1>2, <2>2, TableEntries DEF Threads
  <2> QED BY <1>1, <2>1, <2>2
<1>3. ASSUME NEW t \in Threads,
             Manager!registerToEvent(t) \/ Manager!unregisterFromEvent(t) \/ Manager!unregisterConn(t)
      PROVE  r.m_clientCtx # op'[w].ctx
  <2>1. pc[t] \in {"body", "insert"} /\ (Manager!registerToEvent(t) => op[t].name = "register")
    BY <1>3 DEF Manager!registerToEvent, Manager!SearchRegs, Manager!PushSubInfo,
         Manager!unregisterFromEvent, Manager!unregisterConn, Manager!InBody
  <2>2. ~Manager!registerToEvent(t)
    <3>1. ASSUME Manager!registerToEvent(t) PROVE t = w
      <4>1. pc[t] # "idle" /\ op[t].name \in {"register", "unregister"}
        BY <2>1, <3>1
      <4>2. t \in Workers
        BY <4>1, RegisteringFor
      <4> QED BY <4>2 DEF Workers
    <3>2. Manager!unregisterConn(w) => op[w].name = "unregisterConn" /\ pc[w] = "body"
      BY DEF Manager!unregisterConn, Manager!InBody
    <3> QED BY <1>1, <2>1, <3>1, <3>2
  <2>3. e \in DOMAIN m_registrations /\ r \in m_registrations[e]
        /\ (Manager!unregisterConn(t) => r.m_clientCtx # op[t].ctx)
    BY <1>3, <2>2, TableEntries
  <2>4. CASE pc[w] = "return"
    BY <1>1, <2>3, <2>4 DEF Forgotten
  <2>5. CASE Manager!unregisterConn(w)
    <3>1. m_regsLock = w /\ m_regsLock = t
      <4>1. pc[w] = "body"
        BY <2>5 DEF Manager!unregisterConn, Manager!InBody
      <4> QED BY <2>1, <4>1 DEF Base, ManagerInv, MP!OwnerInside, MP!Inside, Threads
    <3> QED BY <1>1, <2>3, <2>5, <3>1
  <2> QED BY <1>1, <2>4, <2>5
<1> QED
  BY <1>2, <1>3, TableMoves

\* So a registration goes no later than its client is forgotten.
LEMMA KeptStep ==
  ASSUME Base, Base', CP!LastWords, Forgotten, Kept, [Next]_vars
  PROVE  Kept'
<1> SUFFICES ASSUME NEW e \in DOMAIN m_registrations', NEW r \in m_registrations'[e]
             PROVE  workerStopped' \/ CP!Remembered(r.m_clientCtx)'
  BY DEF Kept
<1> DEFINE c == r.m_clientCtx
<1>1. [CP!OpenNext]_(CP!vars)
  BY ConnectorSteps, SameConnector
<1>2. CASE e \in DOMAIN m_registrations /\ r \in m_registrations[e]
  <2>1. workerStopped => workerStopped'
    BY <1>1, Bounds, CP!PoolStopped
  <2>2. ASSUME CP!Remembered(c)
        PROVE  CP!Remembered(c)'
    <3>1. \/ CP!Remembered(c)'
          \/ \E w \in CP!Workers : worker[w].task = CP!Disconnect(c) /\ \E answer \in Answers : CP!FinishTask(w, answer)
      BY <1>1, <2>2, Bounds, CP!RememberedUntilHandled DEF Base, ConnectorInv
    <3>2. ASSUME NEW w \in Workers, NEW answer, worker[w].task = CP!Disconnect(c), CP!FinishTask(w, answer)
          PROVE  FALSE
      <4>1. worker[w].pc = "call" /\ worker'[w].pc = "idle"
        <5>1. w \in DOMAIN worker
          BY Zenon DEF Base, ConnectorInv, CP!Ground, CP!TypeOK, CP!PoolTypes, CP!Workers, Workers
        <5> QED BY <3>2, <5>1 DEF CP!FinishTask
      <4>2. Ends(w)
        BY <4>1, CallStays
      <4>3. pc[w] = "return" /\ op[w] = [name |-> "unregisterConn", ctx |-> c]
        BY <3>2, <4>2, DisconnectEnds DEF CP!Disconnect
      <4> QED BY <1>2, <4>3 DEF Forgotten
    <3> QED BY <3>1, <3>2 DEF CP!Workers, Workers
  <2> QED BY <1>2, <2>1, <2>2 DEF Kept
<1>3. ASSUME NEW t \in Threads, Manager!registerToEvent(t), op[t].name = "register", c = op[t].ctx,
             UNCHANGED connectorVars
      PROVE  CP!Remembered(c)'
  <2>1. pc[t] # "idle"
    BY <1>3 DEF Manager!registerToEvent, Manager!SearchRegs, Manager!PushSubInfo, Manager!InBody
  <2>2. t \in CP!Workers /\ worker[t].task.kind = "request" /\ c = worker[t].task.ctx
    BY <1>3, <2>1, RegisteringFor DEF CP!Workers, Workers
  <2>3. CP!Remembered(c)
    BY <2>2 DEF CP!LastWords, CP!Attended, CP!Remembered
  <2> QED BY <1>3, <2>3 DEF CP!Remembered, connectorVars
<1> QED
  BY <1>2, <1>3, TableMoves, TableEntries


\* What the removal of registrations rests on.
CleanUp == Base /\ CP!LastWords /\ Forgotten /\ Kept

\* There is nothing to remove at first.
LEMMA CleanUpStart == Init => CleanUp
<1> SUFFICES ASSUME Init PROVE CleanUp
  OBVIOUS
<1>1. CP!LastWords
  BY SameConnector DEF Init, CP!Init, CP!LastWords, CP!Followed, CP!Attended, CP!NoTask
<1>2. Forgotten /\ Kept
  BY DEF Init, Manager!Init, Forgotten, Kept
<1> QED
  BY <1>1, <1>2, BaseStart DEF CleanUp

\* With one worker it is kept.
LEMMA CleanUpStep ==
  ASSUME NumThreads = 1, CleanUp, [Next]_vars
  PROVE  CleanUp'
<1>1. Base'
  BY BaseStep DEF CleanUp
<1>2. CP!LastWords'
  <2>1. [CP!OpenNext]_(CP!vars)
    BY ConnectorSteps, SameConnector DEF CleanUp
  <2>2. CP!Ground /\ CP!Ground'
    BY <1>1 DEF CleanUp, Base, ConnectorInv
  <2> QED BY <2>1, <2>2, Bounds, CP!StepLastWords DEF CleanUp
<1> QED
  BY <1>1, <1>2, ForgottenStep, KeptStep DEF CleanUp

\* So it holds of every behaviour.
LEMMA KeptInvariant == ASSUME NumThreads = 1 PROVE Spec => []CleanUp
<1>1. CleanUp /\ [Next]_vars => CleanUp'
  BY CleanUpStep
<1> QED
  BY <1>1, CleanUpStart, PTL DEF Spec

\* Whoever has a registration is remembered until it is removed.
LEMMA NoneStale == CleanUp => NoStaleRegistration
  BY Zenon DEF CleanUp, Kept, NoStaleRegistration, CP!Remembered, CP!Disconnect, Workers, CP!Workers

\* With one worker thread, a registration outlives its client's connection
\* only until the disconnection queued for the workers has been handled
\* (RpcPeerServer.h:178, WsConnector.h:325).
THEOREM RegistrationsGo == ASSUME NumThreads = 1 PROVE Spec => []NoStaleRegistration
  BY NoneStale, KeptInvariant, PTL

\* The only step that notifies serves a registration that is in the table.
LEMMA NotifyingSteps ==
  ASSUME Base, [Next]_vars, NEW c \in Ctxs, notified'[c] # notified[c]
  PROVE  \E e \in DOMAIN m_registrations : \E r \in m_registrations[e] : r.m_clientCtx = c
<1>1. [Manager!Next]_(Manager!vars)
  BY ManagerSteps
<1>2. DOMAIN notified = Ctxs
  BY SameTypes DEF Base, ManagerInv, Manager!TypeOK
<1>3. \E t \in Threads, r \in Manager!RegistrationInfo : Manager!onConnEvent(t, r)
  BY <1>1 DEF Manager!Next, Manager!Call, Manager!onEvent, Manager!Invoke, Manager!Acquire, Manager!Return,
       Manager!Body, Manager!registerToEvent, Manager!SearchRegs, Manager!PushSubInfo,
       Manager!unregisterFromEvent, Manager!emitDone, Manager!getListenersOfEvents, Manager!unregisterConn,
       Manager!Leave, Manager!vars, Threads
<1>4. PICK t \in Threads, r \in Manager!RegistrationInfo : Manager!onConnEvent(t, r)
  BY <1>3
<1>5. r.m_clientCtx = c /\ r \in Manager!RegsOf(op[t].event)
  BY <1>2, <1>4 DEF Manager!onConnEvent, Manager!ToServe
<1> QED
  BY <1>5 DEF Manager!RegsOf

\* A notification for a client that is gone was posted before the client's
\* disconnection had been handled (WsConnector.h:241).
THEOREM NotifiedNoLonger == ASSUME NumThreads = 1 PROVE Spec => NotifiedUntilForgotten
<1> DEFINE Step == \A c \in Ctxs : notified'[c] # notified[c] =>
                     \/ c \in DOMAIN m_ctxToConn
                     \/ workerStopped
                     \/ \E i \in DOMAIN workerTasks : workerTasks[i] = [kind |-> "disconnect", ctx |-> c]
                     \/ \E w \in Workers : worker[w].task = [kind |-> "disconnect", ctx |-> c]
<1>1. CleanUp /\ [Next]_vars => [Step]_vars
  <2> SUFFICES ASSUME CleanUp, [Next]_vars, NEW c \in Ctxs, notified'[c] # notified[c]
               PROVE  workerStopped \/ CP!Remembered(c)
    BY Zenon DEF CP!Remembered, CP!Disconnect, Workers, CP!Workers
  <2> QED BY NotifyingSteps DEF CleanUp, Kept
<1> HIDE DEF Step
<1>2. Spec => [][Step]_vars
  BY <1>1, KeptInvariant, PTL DEF Spec
<1> QED
  BY <1>2 DEF Step, NotifiedUntilForgotten

-----------------------------------------------------------------------------
(* What the application's functions do to the process and to the peers.    *)

\* When the process has gone nothing changes any more.
LEMMA NothingAfterFault ==
  ASSUME [Next]_vars, fault # "none"
  PROVE  UNCHANGED <<fault, bindingVars>>
<1>1. ~Connector!Alive
  BY DEF Connector!Alive
<1>2. ASSUME NEW w, HandlerStep(w) PROVE FALSE
  BY <1>1, <1>2 DEF HandlerStep, BoundStep, HandlePeerRequest, HandleMethodCall, Reject, WrongParameters,
       MissBound, BoundReturns, BoundRefuses, BoundThrows, BoundEmits, BoundStops, CallBound, Calls, InHandler,
       Reply, onPeerConnected, onPeerDisconnected, PeerForgotten, Handling
<1>3. ASSUME NEW w, PoolStep(w) PROVE FALSE
  BY <1>1, <1>3 DEF PoolStep, Alone, Connector!TakeWorkerTask, Connector!WorkerExits, Connector!FindHandler,
       Connector!MissHandler
<1>4. ~LoopStep
  BY <1>1 DEF LoopStep, ListMethods, PrepareHandler, Connector!PrepareHandler, Alone, Connector!OwnLoopStep,
       Connector!InitAsio, Connector!SpawnWorker, Connector!Listen, Connector!RunReturns, Connector!StopPool,
       Connector!JoinWorker, Connector!EraseHandler
<1>5. ~Connector!RunServerTask /\ \A h : ~Connector!NetworkStep(h)
  BY <1>1 DEF Connector!RunServerTask, Connector!doSendResponse, Connector!doSendNotification,
       Connector!stopServerLoop, Connector!TakeServerTask, Connector!NetworkStep, Connector!Accept,
       Connector!HandshakeFails, Connector!onConnOpen, Connector!onConnMessage, Connector!PeerCloses,
       Connector!onConnClose
<1>6. ~ServerStep
  BY <1>2, <1>3, <1>4, <1>5 DEF ServerStep, Alone
<1>7. ~AppStep
  BY <1>1 DEF AppStep, Alone, BindStep, onEventReturns, onEvent, Connector!ControlStep,
       Connector!StartListening, Connector!StartAgain, Connector!StopListening, Connector!StopReturns
<1>8. ASSUME NEW t, ManagerStep(t) PROVE FALSE
  BY <1>1, <1>8 DEF ManagerStep, onConnEvent, Connector!sendNotification
<1> QED
  BY <1>6, <1>7, <1>8 DEF Next, Halted, vars, connectorVars

\* A table is searched for a procedure of the handler in vain only while the
\* application is changing it.
LEMMA MissedWhileBinding ==
  ASSUME Base, NEW w \in Workers, MissBound(w)
  PROVE  inserting # Binding!NoBind
<1>1. PICK name \in Names : Calls(w, name) /\ Binding!Missed(As(w), name)
  BY DEF MissBound
<1>2. /\ worker[w].pc = "call" /\ worker[w].task.kind = "request"
      /\ Body(w).method = name /\ Binding!ProcedureOf(w, name) = As(w)
  BY <1>1 DEF Calls, InHandler, Handling
<1>3. Body(w) \in Bodies /\ "event" \notin DOMAIN Body(w) /\ As(w) \in {"method", "notification"}
  <2>1. Body(w) \in Bodies
    BY <1>2, TaskInHand DEF Base, Body
  <2> QED BY <1>2, <2>1, BodyKinds, NamesAssumption DEF Binding!Builtins, As
<1>4. name \in DOMAIN procedures[w] \ BP!Builtins /\ procedures[w][name] = As(w)
  BY <1>2, <1>3, NamesAssumption DEF Binding!ProcedureOf, Binding!Builtins, BP!Builtins
<1>5. BP!Found(As(w), name) \/ BP!Changing(As(w))
  BY <1>4 DEF Base, BP!IInv, BP!ListedIsBound
<1>6. inserting.kind = As(w)
  BY <1>1, <1>5 DEF Binding!Missed, BP!Found, Binding!Table, BP!Table, BP!Changing, Binding!Changing
<1> QED
  BY <1>3, <1>6 DEF Binding!NoBind

\* With one worker thread only these steps end the process with an exception
\* out of a worker thread.
LEMMA WorkerFaults ==
  ASSUME NumThreads = 1, Base, [Next]_vars, fault' # fault, fault' \in {"unprepared", "uncaught"}
  PROVE  \E w \in Workers : MissBound(w) \/ BoundThrows(w)
<1>1. CASE [Connector!Next]_(Connector!vars)
  <2>1. \E w \in CP!Workers : CP!MissHandler(w)
    BY <1>1, Bounds, SameConnector, CP!FaultStep DEF Base, ConnectorInv
  <2> QED BY <2>1, Bounds, CP!OneWorkerFinds DEF Base, ConnectorInv
<1>2. ASSUME NEW w \in Workers, HandlerStep(w) PROVE MissBound(w) \/ BoundThrows(w)
  <2>1. ASSUME NEW answer, Connector!FinishTask(w, answer) PROVE UNCHANGED fault
    BY <2>1 DEF Connector!FinishTask
  <2>2. ~BoundStops(w)
    BY DEF BoundStops, Connector!StopListening, Connector!Terminate
  <2> QED BY <1>2, <2>1, <2>2 DEF HandlerStep, BoundStep, HandlePeerRequest, HandleMethodCall, Reject,
             WrongParameters, BoundReturns, BoundRefuses, BoundEmits, Reply, onPeerConnected,
             onPeerDisconnected, PeerForgotten, Answer, connectorVars
<1> QED
  BY <1>1, <1>2, OutsideHandlers

\* With one worker thread no request brings the process down, except one whose
\* function lets an exception out, or is looked up just while the application
\* is binding (RpcPeerServer.h:156, 167).
THEOREM RequestsAreSafe == ASSUME NumThreads = 1 PROVE Spec => []MissedOnlyWhileBinding
<1>1. Init => MissedOnlyWhileBinding
  BY DEF Init, Connector!Init, MissedOnlyWhileBinding
<1>2. Base /\ MissedOnlyWhileBinding /\ [Next]_vars => MissedOnlyWhileBinding'
  <2> SUFFICES ASSUME Base, MissedOnlyWhileBinding, [Next]_vars, fault' \in {"unprepared", "uncaught"}
               PROVE  \/ inserting' # Binding!NoBind
                      \/ \E b \in bound' : b.func \in {"outOfRange", "fails"}
    BY DEF MissedOnlyWhileBinding
  <2>1. CASE fault # "none"
    BY <2>1, NothingAfterFault DEF MissedOnlyWhileBinding, bindingVars
  <2>2. CASE fault = "none"
    <3>1. PICK w \in Workers : MissBound(w) \/ BoundThrows(w)
      BY <2>2, WorkerFaults
    <3>2. UNCHANGED <<inserting, bound>>
      BY <3>1 DEF MissBound, BoundThrows, Terminate, bindingVars
    <3>3. CASE MissBound(w)
      BY <3>2, <3>3, MissedWhileBinding
    <3>4. CASE BoundThrows(w)
      <4>1. PICK func \in {"outOfRange", "fails"} : CallBound(w, func)
        BY <3>4 DEF BoundThrows
      <4>2. [kind |-> Body(w).as, name |-> Body(w).method, func |-> func] \in bound
        BY <4>1, BoundCalled DEF BoundTo
      <4> QED BY <3>2, <4>2
    <3> QED BY <3>1, <3>3, <3>4
  <2> QED BY <2>1, <2>2
<1> QED
  BY <1>1, <1>2, BaseInvariant, PTL DEF Spec

-----------------------------------------------------------------------------
(* What peers are answered.                                                *)

Response(w, answer) == [kind |-> "response", ctx |-> worker[w].task.ctx, req |-> worker[w].task.req,
                        answer |-> answer]

\* A response to a request says what its handler has come to.
LEMMA NewAnswers ==
  ASSUME Base, Base', [Next]_vars, NEW m, CP!Afoot(m)', m.kind = "response"
  PROVE  \/ CP!Afoot(m)
         \/ \E w \in Workers, answer \in Answers :
              /\ worker[w].pc = "call" /\ worker[w].task.kind = "request" /\ Ends(w)
              /\ Replies(w, answer) /\ m = Response(w, answer)
<1> SUFFICES ASSUME ~CP!Afoot(m)
             PROVE  \E w \in Workers, answer \in Answers :
                      /\ worker[w].pc = "call" /\ worker[w].task.kind = "request" /\ Ends(w)
                      /\ Replies(w, answer) /\ m = Response(w, answer)
  OBVIOUS
<1>1. CP!Ground /\ CP!Ground' /\ CP!Known' /\ [CP!OpenNext]_(CP!vars)
  BY ConnectorSteps, SameConnector DEF Base, ConnectorInv
<1>2. PICK w \in Workers : /\ CP!Finishes(w) /\ worker[w].task.kind = "request" /\ m \in CP!Frames
                           /\ serverTasks' = Append(serverTasks, m)
  BY <1>1, Bounds, CP!NewFrames DEF CP!Workers, Workers
<1>3. worker[w].pc = "call" /\ worker[w].task \in CP!WorkerTasks /\ worker'[w].task = CP!NoTask
  BY <1>2 DEF CP!Finishes
<1>4. worker'[w] # worker[w]
  BY <1>2, <1>3 DEF CP!NoTask
<1>5. Ends(w) /\ HandlerStep(w)
  BY <1>3, <1>4, CallStays DEF Ends
<1>6. PICK answer \in Answers : Connector!FinishTask(w, answer) /\ Replies(w, answer)
  <2>1. UNCHANGED connectorVars => UNCHANGED worker
    BY DEF connectorVars
  <2>2. Connector!FunctionStep(w) => UNCHANGED worker
    BY DEF Connector!FunctionStep, Connector!StopListening, Connector!Terminate, Connector!poolVars
  <2> QED BY <1>2, <1>4, <1>5, <2>1, <2>2, HandlerSteps
<1>7. serverTasks' = Append(serverTasks, Response(w, answer))
  BY <1>2, <1>6 DEF Connector!FinishTask, Connector!PostToServer, Response
<1>8. Response(w, answer) \in CP!ServerTasks /\ m \in CP!ServerTasks
  <2>1. m \in CP!ServerTasks
    BY <1>2 DEF CP!ServerTasks
  <2>2. Response(w, answer) \in CP!Frames
    BY <1>2, <1>3, Bounds, CP!TaskKinds DEF Response, CP!Frames
  <2> QED BY <2>1, <2>2 DEF CP!ServerTasks
<1>9. CP!Adds(serverTasks, m, serverTasks') /\ CP!Adds(serverTasks, Response(w, answer), serverTasks')
  BY <1>1, <1>2, <1>7, <1>8, Bounds, CP!AppendAdds
<1>10. m = Response(w, answer)
  BY <1>9 DEF CP!Adds
<1> QED
  BY <1>2, <1>3, <1>5, <1>6, <1>10

\* A response that says what a bound function comes to, about a name that was
\* bound, in the way it was asked for.
Comes(body, code) == \E func \in Funcs : BoundTo(body, func) /\ (code = "refused" <=> func = "refuses")

\* Every response that names a procedure of the application comes of a
\* function bound to that name.
Said == \A m : CP!Afoot(m) /\ m.kind = "response" /\ "as" \in DOMAIN m.req.body /\ m.req.body.method \in Names
                 /\ m.answer.code \in {"result", "refused", "empty"}
               => Comes(m.req.body, m.answer.code)

LEMMA SaidStep ==
  ASSUME Base, Base', Said, [Next]_vars
  PROVE  Said'
<1> SUFFICES ASSUME NEW m, CP!Afoot(m)', m.kind = "response", "as" \in DOMAIN m.req.body,
                    m.req.body.method \in Names, m.answer.code \in {"result", "refused", "empty"}
             PROVE  Comes(m.req.body, m.answer.code)'
  BY DEF Said
<1>1. SUFFICES Comes(m.req.body, m.answer.code)
  BY OffersStay DEF Comes, BoundTo
<1>2. CASE CP!Afoot(m)
  BY <1>2 DEF Said
<1>3. ASSUME NEW w \in Workers, NEW answer \in Answers, worker[w].pc = "call", worker[w].task.kind = "request",
             Replies(w, answer), m = Response(w, answer)
      PROVE  Comes(m.req.body, m.answer.code)
  <2>1. m.req.body = Body(w) /\ m.answer = answer
    BY <1>3 DEF Response, Body
  <2>2. ASSUME NEW func \in {"returns", "refuses", "emits"},
               BoundTo(Body(w), func), answer.code = "refused" <=> func = "refuses"
        PROVE  Comes(m.req.body, m.answer.code)
    BY <2>1, <2>2 DEF Comes, Funcs
  <2>3. Outcome(w) \in {"result", "empty"}
    BY DEF Outcome
  <2>4. CASE answer = Say(Outcome(w)) /\ CallBound(w, "returns")
    BY <2>2, <2>3, <2>4, BoundCalled DEF Say
  <2>5. CASE answer = Say("refused") /\ CallBound(w, "refuses")
    BY <2>2, <2>5, BoundCalled DEF Say
  <2>6. CASE answer = AnswerOf(w) /\ Reply(w)
    <3>1. pc[w] = "return"
      BY <2>6 DEF Reply, Manager!Return
    <3>2. CallFor(worker[w].task, op[w])
      BY <3>1 DEF Base, Calling
    <3>3. op[w].name = "emit"
      BY <2>1, <2>6, <3>2, <1>3, NamesAssumption DEF CallFor, AnswerOf, Say, Body, Binding!Builtins
    <3>4. BoundTo(Body(w), "emits")
      BY <3>2, <3>3, <1>3 DEF CallFor, Body
    <3>5. answer.code # "refused"
      BY <2>3, <2>6, <3>3 DEF AnswerOf, Say
    <3> QED BY <2>2, <3>4, <3>5
  <2> QED BY <1>3, <2>1, <2>4, <2>5, <2>6 DEF Replies, Say
<1> QED
  BY <1>2, <1>3, NewAnswers

\* A name is bound once.
LEMMA BoundOnce ==
  ASSUME BP!IInv, NEW a \in bound, NEW b \in bound, a.name = b.name
  PROVE  a.kind = b.kind /\ a.func = b.func
<1>1. \A x \in bound : /\ x.kind \in BP!Kinds /\ BP!Found(x.kind, x.name)
                       /\ BP!Table(x.kind)[x.name] = x.func
                       /\ \A k \in BP!Kinds \ {x.kind} : ~BP!Found(k, x.name)
  BY DEF BP!IInv, BP!FirstBindingStays, BP!TypeOK, BP!Bind
<1>2. a.kind = b.kind
  BY <1>1
<1> QED
  BY <1>1, <1>2

\* A peer is answered by the function that was bound to the name first, in the
\* way it was bound, however often the application binds the name again, and
\* whichever worker answers.
THEOREM AnswersAreBound == Spec => []AnsweredAsBound
<1>1. Init => Said
  BY DEF Init, Connector!Init, Said, CP!Afoot, CP!Sessions, Connector!Sessions
<1>2. Base /\ Base' /\ Said /\ [Next]_vars => Said'
  BY SaidStep
<1>3. Base /\ Said => AnsweredAsBound
  <2> SUFFICES ASSUME Base, Said, NEW s \in 1..MaxSessions, NEW i \in DOMAIN wire[s], NEW n \in Names,
                      Naming(wire[s][i], n), wire[s][i].answer.code \in {"result", "refused", "empty"}
               PROVE  LET m == wire[s][i]
                          bs == {b \in bound : b.name = n}
                      IN  /\ bs # {}
                          /\ \A b \in bs : /\ b.kind = m.req.body.as
                                           /\ m.answer.code = "refused" <=> b.func = "refuses"
    BY DEF AnsweredAsBound
  <2> DEFINE m == wire[s][i]
  <2>1. CP!Afoot(m)
    BY DEF CP!Afoot, CP!Sessions
  <2> HIDE DEF m
  <2>2. m.kind = "response" /\ "as" \in DOMAIN m.req.body /\ m.req.body.method = n
    BY DEF Naming, m
  <2>3. PICK func \in Funcs : /\ [kind |-> m.req.body.as, name |-> n, func |-> func] \in bound
                              /\ m.answer.code = "refused" <=> func = "refuses"
    BY <2>1, <2>2 DEF Said, Comes, BoundTo, m
  <2> DEFINE a == [kind |-> m.req.body.as, name |-> n, func |-> func]
  <2>4. ASSUME NEW b \in bound, b.name = n
        PROVE  b.kind = m.req.body.as /\ b.func = func
    <3>1. a \in bound /\ a.name = b.name
      BY <2>3, <2>4
    <3>2. a.kind = b.kind /\ a.func = b.func
      BY <3>1, BoundOnce DEF Base
    <3> QED BY <3>2
  <2>5. a \in {b \in bound : b.name = n}
    BY <2>3
  <2> HIDE DEF a
  <2> QED BY <2>3, <2>4, <2>5 DEF m
<1>4. Spec => []Said
  BY <1>1, <1>2, BaseInvariant, PTL DEF Spec
<1> QED
  BY <1>3, <1>4, BaseInvariant, PTL

\* A worker's handler has been made before it is used.
Equipped == \A w \in m_serverHandlers : made[w] = "made"

\* Before handlers are used, they are all there.
LEMMA HandlerThere ==
  ASSUME ConnectorInv, NEW w \in Workers, worker[w].pc = "call"
  PROVE  w \in m_serverHandlers
<1>1. w \in CP!Workers /\ poolIdx \in CP!Workers
  BY DEF Workers, CP!Workers, ConnectorInv, CP!Ground, CP!TypeOK, CP!ServerTypes
<1>2. server \in CP!Before \cup CP!After \cup {"run", "stopPool"}
  BY DEF ConnectorInv, CP!Ground, CP!TypeOK, CP!ServerTypes, CP!Before, CP!After
<1>3. server \notin CP!Before \cup {"exited", "joined"}
  BY <1>1 DEF ConnectorInv, CP!Ground, CP!Pool, CP!Starting, CP!Ending
<1>4. CASE server \in {"run", "stopPool"}
  BY <1>1, <1>4 DEF ConnectorInv, CP!Ground, CP!Pool, CP!Starting
<1>5. CASE server \in {"join", "erase"}
  <2>1. w \notin 1..(poolIdx - 1) /\ m_serverHandlers = poolIdx..NumThreads
    BY <1>1, <1>5 DEF ConnectorInv, CP!Ground, CP!Pool, CP!Ending
  <2> QED BY <1>1, <2>1, Bounds DEF CP!Workers
<1> QED
  BY <1>2, <1>3, <1>4, <1>5 DEF CP!After

\* The handlers change as they are made and erased.
LEMMA HandlersMove ==
  ASSUME Base, [Next]_vars
  PROVE  \/ m_serverHandlers' \subseteq m_serverHandlers /\ UNCHANGED <<made, before>>
         \/ ListMethods /\ UNCHANGED m_serverHandlers
         \/ PrepareHandler
<1> DEFINE Fewer == m_serverHandlers' \subseteq m_serverHandlers /\ UNCHANGED <<made, before>>
<1> SUFFICES Fewer \/ (ListMethods /\ UNCHANGED m_serverHandlers) \/ PrepareHandler
  OBVIOUS
<1>1. ASSUME NEW why, Connector!Terminate(why) PROVE UNCHANGED m_serverHandlers
  BY <1>1 DEF Connector!Terminate, Connector!poolVars
<1>2. UNCHANGED <<connectorVars, made, before>> => Fewer
  BY DEF connectorVars
<1>3. CASE AppStep
  BY <1>3, <1>1 DEF AppStep, Alone, BindStep, onEventReturns, onEvent, connectorVars, Connector!ControlStep,
       Connector!StartListening, Connector!StartAgain, Connector!StopListening, Connector!StopReturns,
       Connector!poolVars, bindingVars, Binding!bind, Binding!BindReturns, Binding!copyVars
<1>4. CASE ListMethods
  BY <1>4 DEF ListMethods, connectorVars
<1>5. ASSUME Alone(Connector!OwnLoopStep) PROVE Fewer
  BY <1>5, <1>1 DEF Alone, Connector!OwnLoopStep, Connector!InitAsio, Connector!SpawnWorker, Connector!Listen,
       Connector!RunReturns, Connector!StopPool, Connector!JoinWorker, Connector!EraseHandler,
       Connector!poolVars, bindingVars
<1>6. ASSUME NEW h, Connector!NetworkStep(h) PROVE UNCHANGED m_serverHandlers
  BY <1>6, <1>1 DEF Connector!NetworkStep, Connector!Accept, Connector!HandshakeFails, Connector!onConnOpen,
       Connector!onConnMessage, Connector!PeerCloses, Connector!onConnClose, Connector!poolVars
<1>7. Connector!RunServerTask => UNCHANGED m_serverHandlers
  BY DEF Connector!RunServerTask, Connector!doSendResponse, Connector!doSendNotification,
       Connector!stopServerLoop, Connector!TakeServerTask, Connector!poolVars
<1>8. ASSUME NEW w, PoolStep(w) PROVE Fewer
  BY <1>8, <1>1 DEF PoolStep, Alone, Connector!TakeWorkerTask, Connector!WorkerExits, Connector!FindHandler,
       Connector!MissHandler, Connector!workerUnchanged, bindingVars
<1>9. ASSUME NEW w \in Workers, HandlerStep(w) PROVE Fewer
  <2>1. UNCHANGED <<made, before>>
    BY <1>9, HandlerBinds DEF bindingVars
  <2> QED BY <1>9, <2>1, <1>1, HandlerSteps DEF connectorVars, Connector!FinishTask, Connector!workerUnchanged,
             Connector!FunctionStep, Connector!StopListening, Connector!poolVars
<1>10. CASE ServerStep
  BY <1>4, <1>5, <1>6, <1>7, <1>8, <1>9, <1>10 DEF ServerStep, LoopStep, Alone, bindingVars
<1>11. ASSUME NEW t, ManagerStep(t) PROVE Fewer
  BY <1>11 DEF ManagerStep, connectorVars, onConnEvent, Connector!sendNotification, Connector!poolVars, bindingVars
<1>12. CASE Halted \/ UNCHANGED vars
  BY <1>12 DEF Halted, vars, connectorVars, bindingVars
<1> HIDE DEF Fewer
<1> QED
  BY <1>3, <1>10, <1>11, <1>12 DEF Next

\* So a worker in its handler has one that was made.
LEMMA EquippedStep ==
  ASSUME Base, Equipped, [Next]_vars
  PROVE  Equipped'
<1>1. made \in [Workers -> {"none", "methods", "made"}] /\ poolIdx \in Workers
  BY Zenon, SameTypes DEF Base, BP!IInv, Binding!TypeOK, ConnectorInv, CP!Ground, CP!TypeOK, CP!ServerTypes,
       CP!Workers, Workers
<1>2. m_serverHandlers \subseteq Workers
  BY Zenon DEF Base, ConnectorInv, CP!Ground, CP!TypeOK, CP!PoolTypes, CP!Workers, Workers
<1>3. CASE m_serverHandlers' \subseteq m_serverHandlers /\ UNCHANGED made
  BY <1>3 DEF Equipped
<1>4. CASE ListMethods /\ UNCHANGED m_serverHandlers
  BY <1>1, <1>2, <1>4 DEF ListMethods, Binding!ListMethods, Equipped
<1>5. CASE PrepareHandler
  BY <1>1, <1>2, <1>5 DEF PrepareHandler, Connector!PrepareHandler, Binding!ListNotifications, Equipped
<1> QED
  BY <1>3, <1>4, <1>5, HandlersMove

\* What was bound before a handler was made, and which were made in a race, is
\* settled.
LEMMA CopiesSettled ==
  ASSUME Base, [Next]_vars
  PROVE  /\ raced \subseteq raced'
         /\ \A w \in Workers : made[w] = "made" => made'[w] = "made" /\ before'[w] = before[w]
<1>1. made \in [Workers -> {"none", "methods", "made"}] /\ before \in [Workers -> SUBSET Names]
  BY SameTypes DEF Base, BP!IInv, Binding!TypeOK
<1>2. CASE UNCHANGED Binding!copyVars
  BY <1>2 DEF Binding!copyVars
<1>3. ASSUME NEW v \in Workers, Binding!ListMethods(v) \/ Binding!ListNotifications(v)
      PROVE  /\ raced \subseteq raced'
             /\ \A w \in Workers : made[w] = "made" => made'[w] = "made" /\ before'[w] = before[w]
  BY <1>1, <1>3 DEF Binding!ListMethods, Binding!ListNotifications, Binding!Watch
<1> QED
  BY <1>2, <1>3, BindingSteps DEF Binding!Next, Binding!bindMethod, Binding!bindNotification, Binding!bind,
     Binding!BindReturns, Binding!vars, Binding!copyVars

\* A peer that was told there is no such method was told so by a worker whose
\* handler had been made without it.
Unlisted == \A m : CP!Afoot(m) /\ m.kind = "response" /\ "as" \in DOMAIN m.req.body /\ m.req.body.method \in Names
                     /\ m.answer.code = "noMethod"
                   => raced # {} \/ \E w \in Workers : made[w] = "made" /\ m.req.body.method \notin before[w]

LEMMA UnlistedStep ==
  ASSUME Base, Base', Equipped, Unlisted, [Next]_vars
  PROVE  Unlisted'
<1> SUFFICES ASSUME NEW m, CP!Afoot(m)', m.kind = "response", "as" \in DOMAIN m.req.body,
                    m.req.body.method \in Names, m.answer.code = "noMethod"
             PROVE  raced' # {} \/ \E w \in Workers : made'[w] = "made" /\ m.req.body.method \notin before'[w]
  BY DEF Unlisted
<1>1. SUFFICES raced # {} \/ \E w \in Workers : made[w] = "made" /\ m.req.body.method \notin before[w]
  BY CopiesSettled
<1>2. CASE CP!Afoot(m)
  BY <1>2 DEF Unlisted
<1>3. ASSUME NEW w \in Workers, NEW answer \in Answers, worker[w].pc = "call", worker[w].task.kind = "request",
             Replies(w, answer), m = Response(w, answer)
      PROVE  raced # {} \/ m.req.body.method \notin before[w]
  <2>1. m.req.body = Body(w) /\ m.answer = answer
    BY <1>3 DEF Response, Body
  <2>2. made[w] = "made"
    BY <1>3, HandlerThere DEF Base, Equipped
  <2>3. Outcome(w) \in {"result", "empty"}
    BY DEF Outcome
  <2>4. ~(answer = AnswerOf(w) /\ Reply(w))
    <3> SUFFICES ASSUME answer = AnswerOf(w), Reply(w) PROVE FALSE
      OBVIOUS
    <3>1. pc[w] = "return"
      BY DEF Reply, Manager!Return
    <3>2. CallFor(worker[w].task, op[w])
      BY <3>1 DEF Base, Calling
    <3>3. op[w].name \in {"register", "unregister", "getListeners", "emit"}
      BY <1>3, <3>2 DEF CallFor
    <3>4. answer.code # "noMethod"
      BY <2>3, <3>3 DEF AnswerOf, Say
    <3> QED BY <2>1, <3>4
  <2>5. Binding!ProcedureOf(w, Body(w).method) = "none"
    BY <1>3, <2>1, <2>3, <2>4 DEF Replies, Say
  <2>6. Body(w).method \notin DOMAIN procedures[w]
    <3>1. \A n \in DOMAIN procedures[w] : procedures[w][n] \in {"method", "notification"}
      BY SameTypes DEF Base, BP!IInv, Binding!TypeOK, Binding!Kinds
    <3> QED BY <2>5, <3>1 DEF Binding!ProcedureOf
  <2>7. raced # {} \/ before[w] \subseteq DOMAIN procedures[w]
    BY <2>2 DEF Base, BP!IInv, BP!Copies
  <2> QED BY <2>1, <2>6, <2>7
<1>4. ASSUME NEW w \in Workers, worker[w].pc = "call" PROVE made[w] = "made"
  BY <1>4, HandlerThere DEF Base, Equipped
<1> QED
  BY <1>2, <1>3, <1>4, NewAnswers

\* A name bound before the worker threads were given their handlers is known
\* to each of them, so that no peer is told there is no such method, whichever
\* worker takes its request; unless the application was binding just while a
\* handler copied the tables (PeerProtocolHandler.h:59, RpcPeerServer.h:91).
THEOREM BoundNamesAreServed == Spec => []ServedIfBoundBefore
<1>1. Init => Equipped /\ Unlisted
  BY DEF Init, Connector!Init, Equipped, Unlisted, CP!Afoot, CP!Sessions, Connector!Sessions
<1>2. Base /\ Base' /\ Equipped /\ Unlisted /\ [Next]_vars => Equipped' /\ Unlisted'
  BY EquippedStep, UnlistedStep
<1>3. Unlisted => ServedIfBoundBefore
  <2> SUFFICES ASSUME Unlisted, NEW s \in 1..MaxSessions, NEW i \in DOMAIN wire[s], NEW n \in Names,
                      Naming(wire[s][i], n), raced = {}, \A w \in Workers : n \in before[w]
               PROVE  wire[s][i].answer.code # "noMethod"
    BY DEF ServedIfBoundBefore
  <2> DEFINE m == wire[s][i]
  <2>1. CP!Afoot(m)
    BY DEF CP!Afoot, CP!Sessions
  <2> QED BY <2>1 DEF Unlisted, Naming
<1>4. Spec => [](Equipped /\ Unlisted)
  BY <1>1, <1>2, BaseInvariant, PTL DEF Spec
<1> QED
  BY <1>3, <1>4, PTL


-----------------------------------------------------------------------------
(* Whose registrations are.                                                *)

\* What a worker has been told by the event manager stays until it leaves its
\* handler with it.
LEMMA ResultsStay ==
  ASSUME Base, [Next]_vars, NEW w \in Workers, pc[w] = "return"
  PROVE  \/ pc'[w] = "return" /\ op'[w] = op[w] /\ result'[w] = result[w]
         \/ Reply(w) \/ PeerForgotten(w)
<1> DEFINE Stays == pc'[w] = "return" /\ op'[w] = op[w] /\ result'[w] = result[w]
<1> SUFFICES Stays \/ Reply(w) \/ PeerForgotten(w)
  OBVIOUS
<1>0. w \in Threads /\ w \notin AppThreads
  BY AppThreadsAssumption DEF Threads
<1>1. DOMAIN pc = Threads /\ DOMAIN op = Threads /\ DOMAIN result = Threads
  BY SameTypes DEF Base, ManagerInv, Manager!TypeOK, Threads
<1>2. UNCHANGED managerVars => Stays
  BY DEF managerVars
<1>3. ASSUME NEW u \in Threads, u # w, Manager!Return(u) PROVE Stays
  BY <1>0, <1>1, <1>3 DEF Manager!Return
<1>4. ASSUME NEW u \in Threads, NEW o, Manager!Invoke(u, o) PROVE Stays
  BY <1>0, <1>1, <1>4 DEF Manager!Invoke
<1>5. ASSUME NEW u \in Threads, ManagerStep(u) PROVE Stays
  BY <1>0, <1>1, <1>5 DEF ManagerStep, onConnEvent, Manager!Acquire, Manager!registerToEvent,
       Manager!SearchRegs, Manager!PushSubInfo, Manager!Leave,
       Manager!unregisterFromEvent, Manager!getListenersOfEvents, Manager!unregisterConn, Manager!emitDone,
       Manager!onConnEvent, Manager!InBody
<1>6. ASSUME NEW v \in Workers, HandlerStep(v) PROVE Stays \/ Reply(w) \/ PeerForgotten(w)
  <2>1. v \in Threads
    BY DEF Threads
  <2>2. ASSUME NEW o, Asks(v, o) PROVE Stays
    BY <1>4, <2>1, <2>2 DEF Asks, Manager!Call
  <2>3. ASSUME NEW e, Manager!onEvent(v, e) PROVE Stays
    BY <1>4, <2>1, <2>3 DEF Manager!onEvent
  <2> HIDE DEF Stays
  <2> QED BY <1>2, <1>3, <1>6, <2>1, <2>2, <2>3, HandlerCalls
<1>7. CASE AppStep
  <2>1. ASSUME NEW a \in AppThreads, NEW e \in Events, Manager!onEvent(a, e) PROVE Stays
    BY <1>4, <2>1 DEF Manager!onEvent, Threads
  <2>2. ASSUME NEW a \in AppThreads, Manager!Return(a) PROVE Stays
    BY <1>0, <1>3, <2>2 DEF Threads
  <2> HIDE DEF Stays
  <2> QED BY <1>7, <1>2, <2>1, <2>2 DEF AppStep, Alone, BindStep, onEventReturns, onEvent
<1>8. ASSUME NEW v \in Workers, PoolStep(v) PROVE UNCHANGED managerVars
  BY <1>8 DEF PoolStep, Alone
<1> HIDE DEF Stays
<1>9. CASE ServerStep
  BY <1>9, <1>2, <1>6, <1>8 DEF ServerStep, LoopStep, Alone, ListMethods, PrepareHandler
<1>10. CASE Halted \/ UNCHANGED vars
  BY <1>10, <1>2 DEF Halted, vars
<1> QED
  BY <1>5, <1>7, <1>9, <1>10 DEF Next, Threads

\* The answer to a request is posted for the server thread.
LEMMA AnswerPosted ==
  ASSUME Base, NEW w \in Workers, NEW answer \in Answers, Connector!FinishTask(w, answer),
         worker[w].task.kind = "request"
  PROVE  /\ CP!Adds(serverTasks, Response(w, answer), serverTasks')
         /\ \E m : m = Response(w, answer) /\ CP!Afoot(m)'
<1>1. CP!Ground /\ w \in CP!Workers /\ worker[w].pc = "call"
  BY DEF Base, ConnectorInv, CP!Workers, Workers, Connector!FinishTask
<1>2. worker[w].task \in CP!WorkerTasks
  BY <1>1 DEF CP!Ground, CP!Pool, CP!Busy, CP!TypeOK, CP!PoolTypes
<1>3. Response(w, answer) \in CP!ServerTasks
  <2>1. Response(w, answer) \in CP!Frames
    BY <1>2, Bounds, CP!TaskKinds DEF Response, CP!Frames
  <2> QED BY <2>1 DEF CP!ServerTasks
<1>4. serverTasks' = Append(serverTasks, Response(w, answer))
  BY DEF Connector!FinishTask, Connector!PostToServer, Response
<1>5. CP!Adds(serverTasks, Response(w, answer), serverTasks')
  BY <1>1, <1>3, <1>4, Bounds, CP!AppendAdds
<1>6. PICK m : m = Response(w, answer)
  OBVIOUS
<1>7. Len(serverTasks) + 1 \in DOMAIN serverTasks' /\ serverTasks'[Len(serverTasks) + 1] = m
  BY <1>5, <1>6 DEF CP!Adds
<1>8. CP!Afoot(m)'
  BY <1>7 DEF CP!Afoot
<1> QED
  BY <1>5, <1>6, <1>8

\* A worker has made this registration for context c, and has still to answer.
Made(c, e, id) == \E w \in Workers : /\ pc[w] = "return" /\ result[w].ok
                                     /\ op[w] = [name |-> "register", ctx |-> c, event |-> e, id |-> id]

\* Frame m tells context c that its request of this event was granted.
Grants(m, c, method, e) == /\ m.kind = "response" /\ m.ctx = c /\ m.answer.code = "ok"
                           /\ m.req.body.method = method /\ m.req.body.event = e

\* A connected client's registrations are those it has been told of, or is to
\* be told of.
Attributed ==
  \A e \in DOMAIN m_registrations : \A r \in m_registrations[e] :
    LET c == r.m_clientCtx IN
    \/ ~CP!Carried(owner[c])
    \/ Made(c, e, r.m_id)
    \/ \E m : CP!Afoot(m) /\ Grants(m, c, "register", e) /\ m.req.body.id = r.m_id

\* Once made, a registration is answered, and only its answer ends it.
LEMMA MadeThenAnswered ==
  ASSUME Base, [Next]_vars, NEW c, NEW e, NEW id, Made(c, e, id)
  PROVE  \/ Made(c, e, id)'
         \/ \E m : /\ CP!Adds(serverTasks, m, serverTasks') /\ CP!Afoot(m)'
                   /\ Grants(m, c, "register", e) /\ m.req.body.id = id
<1>1. PICK w \in Workers : /\ pc[w] = "return" /\ result[w].ok
                           /\ op[w] = [name |-> "register", ctx |-> c, event |-> e, id |-> id]
  BY DEF Made
<1>2. /\ worker[w].task.kind = "request" /\ worker[w].task.ctx = c
      /\ Body(w).method = "register" /\ Body(w).event = e /\ Body(w).id = id
  BY <1>1, RegisteringFor DEF Threads
<1>3. CASE pc'[w] = "return" /\ op'[w] = op[w] /\ result'[w] = result[w]
  BY <1>1, <1>3 DEF Made
<1>4. CASE Reply(w)
  <2>1. AnswerOf(w) = Say("ok")
    <3>1. op[w].name = "register" /\ result[w].ok
      BY <1>1
    <3> QED BY <3>1 DEF AnswerOf
  <2>2. Connector!FinishTask(w, Say("ok")) /\ Say("ok") \in Answers
    BY <1>4, <2>1 DEF Reply, Say, Answers
  <2>3. PICK m : /\ m = Response(w, Say("ok")) /\ CP!Afoot(m)'
                 /\ CP!Adds(serverTasks, m, serverTasks')
    BY <1>2, <2>2, AnswerPosted
  <2>4. Grants(m, c, "register", e) /\ m.req.body.id = id
    BY <1>2, <2>3 DEF Grants, Response, Say, Body
  <2> QED BY <2>3, <2>4
<1>5. ~PeerForgotten(w)
  BY <1>2 DEF PeerForgotten, Handling
<1> QED
  BY <1>1, <1>3, <1>4, <1>5, ResultsStay

LEMMA AttributedStep ==
  ASSUME Base, Base', [Next]_vars, Attributed
  PROVE  Attributed'
<1>1. CP!Ground /\ CP!Ground' /\ CP!Known /\ [CP!OpenNext]_(CP!vars)
  BY ConnectorSteps, SameConnector DEF Base, ConnectorInv
<1> SUFFICES ASSUME NEW e \in DOMAIN m_registrations', NEW r \in m_registrations'[e],
                    CP!Carried(owner[r.m_clientCtx])', ~Made(r.m_clientCtx, e, r.m_id)'
             PROVE  \E m : CP!Afoot(m)' /\ Grants(m, r.m_clientCtx, "register", e) /\ m.req.body.id = r.m_id
  BY DEF Attributed, Grants
<1> DEFINE c == r.m_clientCtx
<1>2. CASE e \in DOMAIN m_registrations /\ r \in m_registrations[e]
  <2>1. c \in DOMAIN owner
    BY <1>2 DEF Base, Registered
  <2>2. owner'[c] = owner[c] /\ CP!Carried(owner[c])
    BY <1>1, <2>1, Bounds, CP!CarriedNoMore
  <2>3. CASE Made(c, e, r.m_id)
    BY <2>3, MadeThenAnswered
  <2>4. ASSUME NEW m, CP!Afoot(m), Grants(m, c, "register", e), m.req.body.id = r.m_id
        PROVE  CP!Afoot(m)'
    BY <1>1, <2>1, <2>2, <2>4, Bounds, CP!FramesStay DEF Grants
  <2> QED BY <1>2, <2>2, <2>3, <2>4 DEF Attributed
<1>3. ASSUME NEW t \in Threads, Manager!registerToEvent(t), op[t].name = "register", e = op[t].event,
             r = [m_id |-> op[t].id, m_clientCtx |-> op[t].ctx],
             pc'[t] = "return", op'[t] = op[t], result'[t].ok
      PROVE  FALSE
  <2>1. pc[t] # "idle"
    BY <1>3 DEF Manager!registerToEvent, Manager!SearchRegs, Manager!PushSubInfo, Manager!InBody
  <2>2. t \in Workers /\ op[t] = [name |-> "register", ctx |-> c, event |-> e, id |-> r.m_id]
    BY <1>3, <2>1, RegisteringFor
  <2> QED BY <1>3, <2>2 DEF Made
<1>4. CASE UNCHANGED m_registrations
  BY <1>2, <1>4
<1>5. ASSUME NEW t \in Threads,
             Manager!registerToEvent(t) \/ Manager!unregisterFromEvent(t) \/ Manager!unregisterConn(t)
      PROVE  \/ e \in DOMAIN m_registrations /\ r \in m_registrations[e]
  BY <1>3, <1>5, TableEntries
<1> QED
  BY <1>2, <1>4, <1>5, TableMoves

\* A response under way is in the line of its client's peer.
LEMMA FrameAfoot ==
  ASSUME CP!Ground, CP!Known, NEW m, CP!Afoot(m), m.kind = "response"
  PROVE  \E k \in DOMAIN Frames(owner[m.ctx]) : Frames(owner[m.ctx])[k] = m
<1> DEFINE s == owner[m.ctx]
<1>1. m.ctx \in DOMAIN owner /\ s \in CP!Sessions
  BY Bounds, CP!FramesKnown DEF CP!FrameKnown, CP!Ground, CP!TypeOK, CP!BookTypes
<1>2. wire[s] \in Seq(CP!ServerTasks) /\ serverTasks \in Seq(CP!ServerTasks)
  BY <1>1, Bounds, CP!Elements DEF CP!ServerTasks
<1>3. ASSUME NEW i \in DOMAIN wire[s], wire[s][i] = m
      PROVE  i \in DOMAIN Frames(s) /\ Frames(s)[i] = m
  BY <1>2, <1>3, Bounds, CP!Joined DEF Frames
<1>4. ASSUME NEW i \in DOMAIN serverTasks, serverTasks[i] = m
      PROVE  Len(wire[s]) + i \in DOMAIN Frames(s) /\ Frames(s)[Len(wire[s]) + i] = m
  BY <1>2, <1>4, Bounds, CP!Joined DEF Frames
<1>5. ASSUME NEW u \in CP!Sessions, NEW i \in DOMAIN wire[u], wire[u][i] = m PROVE u = s
  BY <1>5 DEF CP!Known
<1> QED
  BY <1>3, <1>4, <1>5 DEF CP!Afoot

\* A worker that has made a registration is carrying out its peer's request.
LEMMA MadeRegisters ==
  ASSUME Base, NEW c, NEW e, NEW id, Made(c, e, id)
  PROVE  Registering(owner[c], e, id)
<1>1. PICK w \in Workers : /\ pc[w] = "return"
                           /\ op[w] = [name |-> "register", ctx |-> c, event |-> e, id |-> id]
  BY DEF Made
<1>2. /\ worker[w].task.kind = "request" /\ worker[w].task.ctx = c /\ worker[w].pc = "call"
      /\ "event" \in DOMAIN Body(w) /\ Body(w).method = "register" /\ Body(w).event = e /\ Body(w).id = id
  BY <1>1, RegisteringFor DEF Threads
<1>3. worker[w].task.req.session = owner[c] /\ Body(w) \in Bodies
  BY <1>2, TaskInHand DEF Base, Body
<1>4. Body(w) = [method |-> "register", event |-> e, id |-> id]
  BY <1>2, <1>3, BodiesAssumption DEF AllBodies
<1> QED
  BY <1>2, <1>3, <1>4 DEF Registering

\* Whatever number of workers carries out requests, each registers the client
\* that asked, under the id it gave: a connected client's registrations are
\* its own requests, confirmed or about to be.
THEOREM RegistrationsAreTheirs == Spec => []RegistrationsAttributed
<1>1. Init => Attributed
  BY DEF Init, Manager!Init, Attributed
<1>2. Base /\ Base' /\ Attributed /\ [Next]_vars => Attributed'
  BY AttributedStep
<1>3. ASSUME Base, Attributed
      PROVE  RegistrationsAttributed
  <2> SUFFICES ASSUME NEW h \in Handles, conn[h].state = "open",
                      NEW e \in DOMAIN m_registrations, NEW r \in m_registrations[e],
                      r.m_clientCtx = m_connToCtx[h]
               PROVE  LET s == conn[h].session
                          f == Frames(s)
                      IN  \/ Registering(s, e, r.m_id)
                          \/ \E k \in DOMAIN f : Confirms(s, f[k], "register", e) /\ f[k].req.body.id = r.m_id
    BY DEF RegistrationsAttributed
  <2> DEFINE s == conn[h].session
             c == r.m_clientCtx
             f == Frames(s)
  <2>1. CP!Ground /\ CP!Known
    BY <1>3 DEF Base, ConnectorInv
  <2>2. c \in DOMAIN owner /\ owner[c] = s /\ CP!Carried(s) /\ s \in CP!Sessions
    <3>1. h \in DOMAIN m_connToCtx
      BY <2>1 DEF CP!Ground, CP!Book, CP!Connected
    <3>2. m_connToCtx[h] \in DOMAIN owner /\ owner[m_connToCtx[h]] = s
      BY <2>1, <3>1 DEF CP!Ground, CP!Book, CP!Owners
    <3>3. CP!Carried(s) /\ s \in CP!Sessions
      BY <2>1 DEF CP!Ground, CP!TypeOK, CP!NetTypes, CP!Carried, CP!Free
    <3> QED BY <3>2, <3>3
  <2>3. Made(c, e, r.m_id) => Registering(s, e, r.m_id)
    BY <1>3, <2>2, MadeRegisters
  <2>4. ASSUME NEW m, CP!Afoot(m), Grants(m, c, "register", e), m.req.body.id = r.m_id
        PROVE  \E k \in DOMAIN f : Confirms(s, f[k], "register", e) /\ f[k].req.body.id = r.m_id
    <3>1. \E k \in DOMAIN f : f[k] = m
      BY <2>1, <2>2, <2>4, Bounds, FrameAfoot DEF Grants
    <3> QED BY <2>2, <2>4, <3>1 DEF Confirms, Grants
  <2> QED BY <1>3, <2>2, <2>3, <2>4 DEF Attributed
<1> QED
  BY <1>1, <1>2, <1>3, BaseInvariant, PTL DEF Spec


-----------------------------------------------------------------------------
(* One worker thread: a connected peer is notified of what it asked for.   *)

\* Frames f tell context c that it is registered for event e under id: no
\* answer before place n confirms a later unregistration.
Confirmed(f, c, e, id, n) ==
  \E k \in DOMAIN f : /\ Grants(f[k], c, "register", e) /\ f[k].req.body.id = id
                      /\ \A i \in DOMAIN f : i < n /\ Grants(f[i], c, "unregister", e) => i < k

LEMMA ConfirmedGrows ==
  ASSUME NEW f, NEW m, NEW g, CP!Adds(f, m, g), Len(f) \in Nat, DOMAIN f = 1..Len(f),
         NEW c, NEW e, NEW id
  PROVE  /\ \A n \in Nat : n <= Len(f) + 1 /\ Confirmed(f, c, e, id, n) => Confirmed(g, c, e, id, n)
         /\ ~Grants(m, c, "unregister", e) /\ Confirmed(f, c, e, id, Len(f) + 1) =>
              Confirmed(g, c, e, id, Len(f) + 2)
         /\ Grants(m, c, "register", e) /\ m.req.body.id = id =>
              \A n \in Nat : n <= Len(f) + 2 => Confirmed(g, c, e, id, n)
<1> DEFINE l == Len(f)
<1>1. /\ DOMAIN f = 1..l /\ DOMAIN g = 1..(l + 1) /\ g[l + 1] = m
      /\ \A i \in 1..l : g[i] = f[i]
  <2>1. DOMAIN g = DOMAIN f \cup {l + 1}
    BY DEF CP!Adds
  <2>2. 1..(l + 1) = 1..l \cup {l + 1}
    OBVIOUS
  <2> QED BY <2>1, <2>2 DEF CP!Adds
<1>2. l \in Nat
  OBVIOUS
<1> HIDE DEF l
<1>3. ASSUME NEW n \in Nat, Confirmed(f, c, e, id, n), n <= l + 1 \/ (n = l + 2 /\ ~Grants(m, c, "unregister", e))
      PROVE  Confirmed(g, c, e, id, n)
  <2>1. PICK k \in DOMAIN f : /\ Grants(f[k], c, "register", e) /\ f[k].req.body.id = id
                              /\ \A i \in DOMAIN f : i < n /\ Grants(f[i], c, "unregister", e) => i < k
    BY <1>3 DEF Confirmed
  <2>2. k \in DOMAIN g /\ g[k] = f[k]
    BY <1>1, <1>2
  <2>3. ASSUME NEW i \in DOMAIN g, i < n, Grants(g[i], c, "unregister", e) PROVE i < k
    <3>1. i \in 1..l \/ i = l + 1
      BY <1>1, <1>2
    <3>2. CASE i \in 1..l
      BY <1>1, <2>1, <2>3, <3>2
    <3>3. i # l + 1
      BY <1>1, <1>2, <1>3, <2>3
    <3> QED BY <3>1, <3>2, <3>3
  <2> QED BY <2>1, <2>2, <2>3 DEF Confirmed
<1>4. ASSUME Grants(m, c, "register", e), m.req.body.id = id, NEW n \in Nat, n <= l + 2
      PROVE  Confirmed(g, c, e, id, n)
  <2>1. ~Grants(m, c, "unregister", e)
    BY <1>4 DEF Grants
  <2>2. l + 1 \in DOMAIN g
    BY <1>1, <1>2
  <2>3. ASSUME NEW i \in DOMAIN g, Grants(g[i], c, "unregister", e) PROVE i < l + 1
    BY <1>1, <1>2, <2>1, <2>3
  <2> QED BY <1>1, <1>4, <2>2, <2>3 DEF Confirmed
<1>5. l + 2 \in Nat
  BY <1>2
<1>6. Confirmed(f, c, e, id, l + 1) => Confirmed(f, c, e, id, l + 2)
  <2>1. \A i \in DOMAIN f : i < l + 1
    BY <1>1, <1>2
  <2> QED BY <2>1 DEF Confirmed
<1> QED
  BY <1>3, <1>4, <1>5, <1>6 DEF l

LEMMA ConfirmedShrinks ==
  ASSUME NEW f, NEW p, NEW g, CP!Drops(f, p, g), Len(g) \in Nat, DOMAIN g = 1..Len(g), DOMAIN f = 1..Len(f),
         NEW c, NEW e, NEW id, ~(f[p].kind # "stop" /\ f[p].ctx = c),
         NEW n \in Nat, Confirmed(f, c, e, id, IF n < p THEN n ELSE n + 1)
  PROVE  Confirmed(g, c, e, id, n)
<1> DEFINE l == Len(g)
           back(i) == IF i < p THEN i ELSE i + 1
<1>1. /\ l \in Nat /\ DOMAIN g = 1..l /\ DOMAIN f = 1..(l + 1) /\ p \in 1..(l + 1)
      /\ \A i \in 1..l : g[i] = f[back(i)]
  BY DEF CP!Drops
<1> HIDE DEF l
<1>2. PICK k \in DOMAIN f : /\ Grants(f[k], c, "register", e) /\ f[k].req.body.id = id
                            /\ \A i \in DOMAIN f : i < back(n) /\ Grants(f[i], c, "unregister", e) => i < k
  BY DEF Confirmed
<1>3. k # p
  BY <1>2 DEF Grants
<1>4. PICK q \in 1..l : back(q) = k
  <2>1. CASE k < p
    BY <1>1, <1>2, <2>1
  <2>2. CASE k > p
    <3>1. k - 1 \in 1..l /\ back(k - 1) = k
      BY <1>1, <1>2, <2>2
    <3> QED BY <3>1
  <2> QED BY <1>1, <1>2, <1>3, <2>1, <2>2
<1>5. g[q] = f[k]
  BY <1>1, <1>4
<1>6. ASSUME NEW i \in 1..l, i < n, Grants(g[i], c, "unregister", e) PROVE i < q
  <2>1. back(i) \in DOMAIN f /\ back(i) < back(n) /\ f[back(i)] = g[i]
    BY <1>1, <1>6
  <2>2. back(i) < back(q)
    BY <1>2, <1>4, <1>6, <2>1
  <2> QED BY <1>1, <2>2
<1> QED
  BY <1>1, <1>2, <1>5, <1>6 DEF Confirmed

\* A registration of c's for event e, under id: made, or confirmed.
Entitled(c, e, id, n) == Made(c, e, id) \/ Confirmed(Frames(owner[c]), c, e, id, n)

\* A sequence that grows is longer by one.
LEMMA Longer ==
  ASSUME NEW f, NEW m, NEW g, CP!Adds(f, m, g),
         NEW k \in Nat, NEW l \in Nat, Len(f) = k, DOMAIN f = 1..k, DOMAIN g = 1..l
  PROVE  l = k + 1
<1>1. 1..l = 1..k \cup {k + 1}
  BY DEF CP!Adds
<1>2. k + 1 \in 1..l /\ (l \in 1..k \/ l = k + 1 \/ l = 0)
  BY <1>1
<1> QED
  BY <1>2

\* The frames for a connected peer grow, stay or lose one that is not for it.
LEMMA LineCases ==
  ASSUME Base, Base', [Next]_vars, NEW c \in DOMAIN owner, CP!Carried(owner[c])',
         NEW s, NEW f, NEW g, s = owner[c], f = Frames(s), g = Frames(s)'
  PROVE  /\ owner'[c] = s /\ CP!Carried(s)
         /\ Len(f) \in Nat /\ DOMAIN f = 1..Len(f) /\ Len(g) \in Nat /\ DOMAIN g = 1..Len(g)
         /\ \/ \E m : /\ CP!Adds(serverTasks, m, serverTasks') /\ CP!Adds(f, m, g)
                      /\ Len(g) = Len(f) + 1
            \/ /\ \A m : ~CP!Adds(serverTasks, m, serverTasks')
               /\ \/ g = f
                  \/ \E p : CP!Drops(f, p, g) /\ ~(f[p].kind # "stop" /\ f[p].ctx = c)
<1>1. CP!Ground /\ CP!Ground' /\ CP!Known /\ [CP!OpenNext]_(CP!vars)
  BY ConnectorSteps, SameConnector DEF Base, ConnectorInv
<1>2. owner'[c] = s /\ CP!Carried(s) /\ s \in CP!Sessions
  BY <1>1, Bounds, CP!CarriedNoMore DEF CP!Ground, CP!TypeOK, CP!BookTypes
<1>5. f = CP!Line(s) /\ g = CP!Line(s)'
  BY DEF Frames, CP!Line
<1>6. f \in Seq(CP!ServerTasks)
  BY <1>1, <1>2, <1>5, Bounds, CP!LineAfoot
<1>7. g \in Seq(CP!ServerTasks)
  <2>1. wire'[s] \in Seq(CP!ServerTasks) /\ serverTasks' \in Seq(CP!ServerTasks)
    BY <1>1, <1>2 DEF CP!Ground, CP!TypeOK, CP!FrameTypes, CP!ServerTasks
  <2> QED BY <2>1, Bounds, CP!Joined DEF Frames
<1>8. Len(f) \in Nat /\ DOMAIN f = 1..Len(f) /\ Len(g) \in Nat /\ DOMAIN g = 1..Len(g)
  BY <1>6, <1>7
<1>9. \/ \E m \in CP!ServerTasks : CP!Adds(serverTasks, m, serverTasks') /\ CP!Adds(f, m, g)
      \/ /\ \A m : ~CP!Adds(serverTasks, m, serverTasks')
         /\ \/ g = f
            \/ \E p : /\ CP!Drops(f, p, g)
                      /\ f[p].kind # "stop" /\ f[p].ctx \in DOMAIN owner =>
                           owner[f[p].ctx] # s \/ ~CP!Carried(s)
  BY <1>1, <1>2, <1>5, Bounds, CP!LineMoves
<1>10. ASSUME NEW m, CP!Adds(f, m, g) PROVE Len(g) = Len(f) + 1
  <2> DEFINE k == Len(f)
             l == Len(g)
  <2>1. k \in Nat /\ l \in Nat /\ Len(f) = k /\ DOMAIN f = 1..k /\ DOMAIN g = 1..l
    BY <1>8
  <2> HIDE DEF k, l
  <2>2. l = k + 1
    BY <1>10, <2>1, Longer
  <2> QED BY <2>2 DEF k, l
<1> QED
  BY <1>2, <1>8, <1>9, <1>10, Zenon

LEMMA EntitledThen ==
  ASSUME NEW c, owner'[c] = owner[c], NEW g, g = Frames(owner[c])', NEW e, NEW id, NEW n
  PROVE  Entitled(c, e, id, n)' <=> Made(c, e, id)' \/ Confirmed(g, c, e, id, n)
  BY DEF Entitled, Frames, Confirmed, Grants

\* A confirmed registration stays confirmed as the frames grow, at the new end
\* too unless what is added says that it is gone.
LEMMA EntitledGrows ==
  ASSUME Base, [Next]_vars, NEW c, owner'[c] = owner[c],
         NEW f, NEW g, f = Frames(owner[c]), g = Frames(owner[c])',
         Len(f) \in Nat, DOMAIN f = 1..Len(f),
         NEW m, CP!Adds(serverTasks, m, serverTasks'), CP!Adds(f, m, g),
         NEW e, NEW id, NEW n \in Nat, n <= Len(f) + 1, Entitled(c, e, id, n)
  PROVE  /\ Entitled(c, e, id, n)'
         /\ n = Len(f) + 1 /\ ~Grants(m, c, "unregister", e) => Entitled(c, e, id, Len(f) + 2)'
<1>1. ASSUME NEW k
      PROVE  Entitled(c, e, id, k)' <=> Made(c, e, id)' \/ Confirmed(g, c, e, id, k)
  BY EntitledThen
<1>2. n <= Len(f) + 2 /\ Len(f) + 2 \in Nat /\ Len(f) + 2 <= Len(f) + 2
  OBVIOUS
<1>3. CASE Confirmed(f, c, e, id, n)
  BY <1>1, <1>3, ConfirmedGrows
<1>4. CASE Made(c, e, id)
  <2>1. Made(c, e, id)' \/ (Grants(m, c, "register", e) /\ m.req.body.id = id)
    <3>1. \A x : CP!Adds(serverTasks, x, serverTasks') => x = m
      BY DEF CP!Adds
    <3> QED BY <1>4, <3>1, MadeThenAnswered
  <2>2. CASE Made(c, e, id)'
    BY <1>1, <2>2
  <2>3. CASE Grants(m, c, "register", e) /\ m.req.body.id = id
    BY <1>1, <1>2, <2>3, ConfirmedGrows
  <2> QED BY <2>1, <2>2, <2>3
<1> QED
  BY <1>3, <1>4 DEF Entitled


\* It stays confirmed when one of the frames, not for the client, leaves.
LEMMA EntitledShrinks ==
  ASSUME Base, [Next]_vars, NEW c, owner'[c] = owner[c], \A m : ~CP!Adds(serverTasks, m, serverTasks'),
         NEW f, NEW g, f = Frames(owner[c]), g = Frames(owner[c])',
         Len(g) \in Nat, DOMAIN g = 1..Len(g), DOMAIN f = 1..Len(f),
         NEW p, CP!Drops(f, p, g), ~(f[p].kind # "stop" /\ f[p].ctx = c),
         NEW e, NEW id, NEW n \in Nat, Entitled(c, e, id, IF n < p THEN n ELSE n + 1)
  PROVE  Entitled(c, e, id, n)'
<1>1. Entitled(c, e, id, n)' <=> Made(c, e, id)' \/ Confirmed(g, c, e, id, n)
  BY EntitledThen
<1>2. Made(c, e, id) => Made(c, e, id)'
  BY MadeThenAnswered
<1>3. ASSUME Confirmed(f, c, e, id, IF n < p THEN n ELSE n + 1) PROVE Confirmed(g, c, e, id, n)
  BY <1>3, ConfirmedShrinks
<1> QED
  BY <1>1, <1>2, <1>3 DEF Entitled

\* And when none of them moves.
LEMMA EntitledKept ==
  ASSUME Base, [Next]_vars, NEW c, owner'[c] = owner[c], \A m : ~CP!Adds(serverTasks, m, serverTasks'),
         NEW f, NEW g, f = Frames(owner[c]), g = Frames(owner[c])', g = f,
         NEW e, NEW id, NEW n, Entitled(c, e, id, n)
  PROVE  Entitled(c, e, id, n)'
<1>1. Made(c, e, id) => Made(c, e, id)'
  BY MadeThenAnswered
<1> QED
  BY <1>1, EntitledThen DEF Entitled


\* What is posted for the server thread: that it is to stop, an emission's
\* notification, or the answer to a request.
LEMMA NewTasks ==
  ASSUME Base, [Next]_vars, NEW m, CP!Adds(serverTasks, m, serverTasks')
  PROVE  \/ m.kind = "stop"
         \/ \E t \in Threads, r \in Manager!RegistrationInfo :
              onConnEvent(t, r) /\ m = [kind |-> "notification", ctx |-> r.m_clientCtx, note |-> Manager!NoteOf(r, op[t])]
         \/ \E w \in Workers, answer \in Answers :
              worker[w].task.kind = "request" /\ Replies(w, answer) /\ m = Response(w, answer)
<1> DEFINE Goal == \/ m.kind = "stop"
                   \/ \E t \in Threads, r \in Manager!RegistrationInfo :
                        /\ onConnEvent(t, r)
                        /\ m = [kind |-> "notification", ctx |-> r.m_clientCtx, note |-> Manager!NoteOf(r, op[t])]
                   \/ \E w \in Workers, answer \in Answers :
                        worker[w].task.kind = "request" /\ Replies(w, answer) /\ m = Response(w, answer)
<1> SUFFICES Goal
  OBVIOUS
<1>1. CP!Ground /\ serverTasks \in Seq(CP!ServerTasks)
  BY Bounds, CP!Elements DEF Base, ConnectorInv
<1>2. serverTasks' # serverTasks
  BY DEF CP!Adds
<1>3. ASSUME NEW kind, Connector!TakeServerTask(kind) PROVE FALSE
  <2>1. serverTasks # <<>> => Len(serverTasks) + 1 \notin DOMAIN Tail(serverTasks)
    BY <1>1
  <2> QED BY <1>3, <2>1 DEF CP!Adds, Connector!TakeServerTask
<1>4. ASSUME NEW n \in CP!ServerTasks, serverTasks' = Append(serverTasks, n) PROVE m = n
  <2>1. CP!Adds(serverTasks, n, serverTasks')
    BY <1>1, <1>4, Bounds, CP!AppendAdds
  <2> QED BY <2>1 DEF CP!Adds
<1>5. ASSUME NEW t, Connector!StopListening(t) PROVE Goal
  <2>1. serverTasks' = Append(serverTasks, [kind |-> "stop"])
    BY <1>2, <1>5 DEF Connector!StopListening, Connector!Terminate, Connector!PostToServer
  <2>2. [kind |-> "stop"] \in CP!ServerTasks
    BY DEF CP!ServerTasks
  <2> QED BY <1>4, <2>1, <2>2
<1>6. ASSUME NEW t \in Threads, ManagerStep(t) PROVE Goal
  <2>1. PICK r \in Manager!RegistrationInfo : onConnEvent(t, r)
    BY <1>2, <1>6 DEF ManagerStep, connectorVars
  <2> DEFINE n == [kind |-> "notification", ctx |-> r.m_clientCtx, note |-> Manager!NoteOf(r, op[t])]
  <2>2. serverTasks' = Append(serverTasks, n)
    BY <2>1 DEF onConnEvent, Connector!sendNotification, Connector!PostToServer
  <2>3. n \in CP!ServerTasks
    <3>1. r.m_clientCtx \in CP!Ctxs
      BY <1>1, <2>1, NotificationFits DEF CP!Ground, CP!TypeOK, CP!BookTypes
    <3>2. n \in CP!Frames
      BY <2>1, <3>1, NotificationFits DEF CP!Frames
    <3> QED BY <3>2 DEF CP!ServerTasks
  <2> QED BY <1>4, <2>1, <2>2, <2>3
<1>7. ASSUME NEW w \in Workers, HandlerStep(w) PROVE Goal
  <2>1. ASSUME NEW answer \in Answers, Connector!FinishTask(w, answer),
               worker[w].task.kind = "request" => Replies(w, answer)
        PROVE  Goal
    <3>1. worker[w].task.kind = "request"
      BY <1>2, <2>1 DEF Connector!FinishTask
    <3>2. CP!Adds(serverTasks, Response(w, answer), serverTasks')
      BY <2>1, <3>1, AnswerPosted
    <3>3. m = Response(w, answer)
      BY <3>2 DEF CP!Adds
    <3> QED BY <2>1, <3>1, <3>3
  <2>2. ASSUME Connector!FunctionStep(w) PROVE Goal
    BY <1>2, <1>5, <2>2 DEF Connector!FunctionStep, Connector!Terminate
  <2>3. ~UNCHANGED connectorVars
    BY <1>2 DEF connectorVars
  <2> HIDE DEF Goal
  <2> QED BY <1>7, <2>1, <2>2, <2>3, HandlerSteps
<1> HIDE DEF Goal
<1>8. CASE AppStep
  BY <1>2, <1>5, <1>8 DEF AppStep, Alone, BindStep, onEventReturns, onEvent, connectorVars,
     Connector!ControlStep, Connector!StartListening, Connector!StartAgain, Connector!StopReturns, Connector!Terminate
<1>9. ~LoopStep
  BY <1>2 DEF LoopStep, ListMethods, PrepareHandler, connectorVars, Alone, Connector!PrepareHandler,
     Connector!OwnLoopStep, Connector!InitAsio, Connector!SpawnWorker, Connector!Listen, Connector!RunReturns,
     Connector!StopPool, Connector!JoinWorker, Connector!EraseHandler, Connector!Terminate
<1>10. ASSUME NEW h, Connector!NetworkStep(h) PROVE FALSE
  BY <1>2, <1>10 DEF Connector!NetworkStep, Connector!Accept, Connector!HandshakeFails, Connector!onConnOpen,
       Connector!onConnMessage, Connector!PeerCloses, Connector!onConnClose, Connector!Terminate
<1>11. ~Connector!RunServerTask
  BY <1>3 DEF Connector!RunServerTask, Connector!doSendResponse, Connector!doSendNotification,
       Connector!stopServerLoop
<1>12. ASSUME NEW w, PoolStep(w) PROVE FALSE
  BY <1>2, <1>12 DEF PoolStep, Alone, Connector!TakeWorkerTask, Connector!WorkerExits, Connector!FindHandler,
       Connector!MissHandler, Connector!Terminate
<1>13. CASE ServerStep
  BY <1>7, <1>9, <1>10, <1>11, <1>12, <1>13 DEF ServerStep, Alone
<1>14. ~Halted /\ ~UNCHANGED vars
  BY <1>2 DEF Halted, vars, connectorVars
<1> QED
  BY <1>6, <1>8, <1>13, <1>14 DEF Next, Threads


\* Once a client has been told by the event manager that its registration is
\* gone, until that is answered, the client has none for the event.
Unmade ==
  \A w \in Workers : pc[w] = "return" /\ op[w].name = "unregister" /\ result[w].ok =>
    \A r \in Manager!RegsOf(op[w].event) : r.m_clientCtx # op[w].ctx

\* With one worker nothing is registered between the two.
LEMMA UnmadeStep ==
  ASSUME NumThreads = 1, Base, Unmade, [Next]_vars
  PROVE  Unmade'
<1> SUFFICES ASSUME NEW w \in Workers, pc'[w] = "return", op'[w].name = "unregister", result'[w].ok,
                    NEW e, e = op'[w].event, NEW r,
                    e \in DOMAIN m_registrations', r \in m_registrations'[e]
             PROVE  r.m_clientCtx # op'[w].ctx
  BY DEF Unmade, Manager!RegsOf
<1>1. op'[w] = op[w] /\ ((pc[w] = "return" /\ result'[w] = result[w]) \/ Manager!unregisterFromEvent(w))
  <2>1. op'[w] = op[w] /\ ((pc[w] = "return" /\ result'[w] = result[w]) \/ Manager!Body(w))
    BY CallReturns DEF Threads
  <2>2. ASSUME NEW r0, Manager!onConnEvent(w, r0) PROVE FALSE
    BY <2>1, <2>2 DEF Manager!onConnEvent, Manager!InBody
  <2> QED BY <2>1, <2>2 DEF Manager!Body, Manager!registerToEvent, Manager!SearchRegs, Manager!PushSubInfo,
                         Manager!unregisterConn, Manager!emitDone, Manager!getListenersOfEvents,
                         Manager!InBody
<1>2. CASE Manager!unregisterFromEvent(w)
  <2> DEFINE regs == Manager!RegsOf(e)
             found == {x \in regs : x.m_id = op[w].id /\ x.m_clientCtx = op[w].ctx}
  <2>1. m_registrations' = Manager!StoreEntry(e, regs \ found) /\ result' = [result EXCEPT ![w] = Manager!Answer(found # {}, {})]
    BY <1>1, <1>2 DEF Manager!unregisterFromEvent, Manager!Leave, Manager!areCtxEqual
  <2>2. DOMAIN result = Threads
    BY SameTypes DEF Base, ManagerInv, Manager!TypeOK, Threads
  <2>3. PICK x \in regs : x \in found
    BY <2>1, <2>2 DEF Manager!Answer, Threads
  <2>4. r \in regs \ found
    BY <2>1 DEF Manager!StoreEntry, Manager!Restrict
  <2>5. r.m_clientCtx = x.m_clientCtx => r = x
    BY <2>3, <2>4 DEF Base, ManagerInv, MP!Table, MP!OneRegistrationPerEvent, Manager!RegsOf
  <2> QED BY <1>1, <2>3, <2>4, <2>5
<1>3. CASE pc[w] = "return" /\ result'[w] = result[w]
  <2>1. ASSUME e \in DOMAIN m_registrations, r \in m_registrations[e] PROVE r.m_clientCtx # op'[w].ctx
    BY <1>1, <1>3, <2>1 DEF Unmade, Manager!RegsOf
  <2>2. ASSUME NEW t \in Threads, Manager!registerToEvent(t), op[t].name = "register" PROVE FALSE
    <3>1. pc[t] \in {"body", "insert"}
      BY <2>2 DEF Manager!registerToEvent, Manager!SearchRegs, Manager!PushSubInfo, Manager!InBody
    <3>2. t \in Workers
      BY <2>2, <3>1, RegisteringFor
    <3>3. t = w
      BY <3>2 DEF Workers
    <3> QED BY <1>3, <3>1, <3>3
  <2> QED BY <2>1, <2>2, TableMoves, TableEntries
<1> QED
  BY <1>1, <1>2, <1>3

\* An answer that grants an unregistration is posted when nothing is
\* registered any more.
LEMMA UnregisterAnswered ==
  ASSUME Base, Unmade, [Next]_vars, NEW m, CP!Adds(serverTasks, m, serverTasks'),
         NEW c, NEW e, Grants(m, c, "unregister", e)
  PROVE  \A r \in Manager!RegsOf(e) : r.m_clientCtx # c
<1>1. PICK w \in Workers, answer \in Answers :
        worker[w].task.kind = "request" /\ Replies(w, answer) /\ m = Response(w, answer)
  BY NewTasks DEF Grants
<1>2. /\ answer.code = "ok" /\ worker[w].task.ctx = c
      /\ worker[w].task.req.body.method = "unregister" /\ worker[w].task.req.body.event = e
  BY <1>1 DEF Grants, Response
<1>3. answer = AnswerOf(w) /\ Reply(w)
  <2>1. ~(answer = Say("noMethod")) /\ ~(answer = Say(Outcome(w))) /\ ~(answer = Say("refused"))
    BY <1>2 DEF Say, Outcome
  <2> QED BY <1>1, <1>2, <2>1 DEF Replies
<1>4. pc[w] = "return" /\ CallFor(worker[w].task, op[w])
  BY <1>3 DEF Reply, Manager!Return, Base, Calling
<1>5. "unregister" \notin Names
  BY NamesAssumption DEF Binding!Builtins
<1>6. op[w].name = "unregister" /\ op[w].ctx = c /\ op[w].event = e
  BY <1>1, <1>2, <1>4, <1>5 DEF CallFor
<1>7. result[w].ok
  BY <1>2, <1>3, <1>6 DEF AnswerOf, Say
<1> QED
  BY <1>4, <1>6, <1>7 DEF Unmade


\* A connected client is entitled to what is emitted from now on for the
\* registrations that it has.
Entries ==
  \A e \in DOMAIN m_registrations : \A r \in m_registrations[e] : \A n \in Nat :
    /\ CP!Carried(owner[r.m_clientCtx])
    /\ n = Len(Frames(owner[r.m_clientCtx])) + 1
    => Entitled(r.m_clientCtx, e, r.m_id, n)

LEMMA EntriesStep ==
  ASSUME Base, Base', Unmade, Entries, [Next]_vars
  PROVE  Entries'
<1> SUFFICES ASSUME NEW e \in DOMAIN m_registrations', NEW r \in m_registrations'[e], NEW n \in Nat,
                    CP!Carried(owner[r.m_clientCtx])',
                    n = Len(Frames(owner[r.m_clientCtx])') + 1
             PROVE  Entitled(r.m_clientCtx, e, r.m_id, n)'
  BY DEF Entries
<1>1. PICK c, id : c = r.m_clientCtx /\ id = r.m_id
  OBVIOUS
<1>2. CASE e \in DOMAIN m_registrations /\ r \in m_registrations[e]
  <2>1. c \in DOMAIN owner /\ CP!Carried(owner[c])'
    BY <1>1, <1>2 DEF Base, Registered
  <2>2. PICK s, f, g : s = owner[c] /\ f = Frames(s) /\ g = Frames(s)'
    OBVIOUS
  <2>3. /\ owner'[c] = s /\ CP!Carried(s)
        /\ Len(f) \in Nat /\ DOMAIN f = 1..Len(f) /\ Len(g) \in Nat /\ DOMAIN g = 1..Len(g)
        /\ \/ \E m : /\ CP!Adds(serverTasks, m, serverTasks') /\ CP!Adds(f, m, g)
                     /\ Len(g) = Len(f) + 1
           \/ /\ \A m : ~CP!Adds(serverTasks, m, serverTasks')
              /\ \/ g = f
                 \/ \E p : CP!Drops(f, p, g) /\ ~(f[p].kind # "stop" /\ f[p].ctx = c)
    BY <2>1, <2>2, LineCases
  <2>4. n = Len(g) + 1 /\ Len(f) + 1 \in Nat
    <3>1. g = Frames(owner[r.m_clientCtx])'
      BY <1>1, <2>2, <2>3 DEF Frames
    <3>2. n = Len(g) + 1
      BY <3>1
    <3>3. PICK k \in Nat : k = Len(f)
      BY <2>3
    <3>4. Len(f) + 1 \in Nat
      BY <3>3
    <3> QED BY <3>2, <3>4
  <2>5. Entitled(c, e, id, Len(f) + 1)
    BY <1>1, <1>2, <2>2, <2>3, <2>4 DEF Entries
  <2>6. ASSUME NEW m, CP!Adds(serverTasks, m, serverTasks'), CP!Adds(f, m, g), Len(g) = Len(f) + 1
        PROVE  Entitled(c, e, id, n)'
    <3>1. ~Grants(m, c, "unregister", e)
      BY <1>1, <1>2, <2>6, UnregisterAnswered DEF Manager!RegsOf
    <3>2. n = Len(f) + 2
      BY <2>3, <2>4, <2>6
    <3>3. Entitled(c, e, id, Len(f) + 2)'
      BY <2>2, <2>3, <2>4, <2>5, <2>6, <3>1, EntitledGrows
    <3> QED BY <3>2, <3>3
  <2>7. ASSUME \A m : ~CP!Adds(serverTasks, m, serverTasks'), g = f
        PROVE  Entitled(c, e, id, n)'
    BY <2>2, <2>3, <2>4, <2>5, <2>7, EntitledKept
  <2>8. ASSUME \A m : ~CP!Adds(serverTasks, m, serverTasks'),
               NEW p, CP!Drops(f, p, g), ~(f[p].kind # "stop" /\ f[p].ctx = c)
        PROVE  Entitled(c, e, id, n)'
    <3>1. (IF n < p THEN n ELSE n + 1) = Len(f) + 1
      <4> DEFINE k == Len(f)
                 l == Len(g)
      <4>1. k \in Nat /\ l \in Nat /\ p \in 1..k /\ k = l + 1 /\ n = l + 1
        BY <2>3, <2>4, <2>8 DEF CP!Drops
      <4> HIDE DEF k, l
      <4>2. (IF n < p THEN n ELSE n + 1) = k + 1
        BY <4>1
      <4> QED BY <4>2 DEF k
    <3> QED BY <2>2, <2>3, <2>5, <2>8, <3>1, EntitledShrinks
  <2> QED BY <1>1, <2>3, <2>6, <2>7, <2>8
<1>3. ASSUME NEW t \in Threads, Manager!registerToEvent(t), op[t].name = "register", e = op[t].event,
             r = [m_id |-> op[t].id, m_clientCtx |-> op[t].ctx],
             pc'[t] = "return", op'[t] = op[t], result'[t].ok
      PROVE  Entitled(c, e, id, n)'
  <2>1. pc[t] # "idle"
    BY <1>3 DEF Manager!registerToEvent, Manager!SearchRegs, Manager!PushSubInfo, Manager!InBody
  <2>2. t \in Workers /\ op[t] = [name |-> "register", ctx |-> c, event |-> e, id |-> id]
    BY <1>1, <1>3, <2>1, RegisteringFor
  <2>3. Made(c, e, id)'
    BY <1>3, <2>2 DEF Made
  <2> QED BY <2>3 DEF Entitled
<1>4. CASE UNCHANGED m_registrations
  BY <1>2, <1>4
<1>5. ASSUME NEW t \in Threads,
             Manager!registerToEvent(t) \/ Manager!unregisterFromEvent(t) \/ Manager!unregisterConn(t)
      PROVE  Entitled(r.m_clientCtx, e, r.m_id, n)'
  BY <1>1, <1>2, <1>3, <1>5, TableEntries
<1> QED
  BY <1>4, <1>5, TableMoves


\* A new context has no frames yet.
LEMMA NoOldFrames ==
  ASSUME Base, Base', [Next]_vars, NEW c \in DOMAIN owner' \ DOMAIN owner,
         NEW g, g = Frames(owner[c])', NEW j \in DOMAIN g, g[j].kind = "notification"
  PROVE  g[j].ctx # c
<1>1. CP!Ground /\ CP!Ground' /\ CP!Known /\ [CP!OpenNext]_(CP!vars)
  BY ConnectorSteps, SameConnector DEF Base, ConnectorInv
<1>2. UNCHANGED <<serverTasks, wire>>
  BY <1>1, Bounds, CP!Moves DEF CP!Announces, CP!Asks, CP!Posts, CP!Takes, CP!Finishes, CP!Sends, CP!SameTasks
<1>3. PICK s : s = owner'[c]
  OBVIOUS
<1>4. s \in CP!Sessions /\ g = CP!Line(s)
  BY <1>1, <1>2, <1>3 DEF Frames, CP!Line, CP!Ground, CP!TypeOK, CP!BookTypes
<1>5. CP!Afoot(g[j])
  BY <1>1, <1>4, Bounds, CP!LineAfoot
<1>6. g[j].ctx \in DOMAIN owner
  BY <1>1, <1>5, Bounds, CP!FramesKnown DEF CP!FrameKnown
<1> QED
  BY <1>6

\* A connected client was entitled to every notification for it.
Notes ==
  \A c \in DOMAIN owner : \A j \in Nat :
    /\ CP!Carried(owner[c])
    /\ j \in DOMAIN Frames(owner[c])
    /\ Frames(owner[c])[j].kind = "notification"
    /\ Frames(owner[c])[j].ctx = c
    => \A e, id : e = Frames(owner[c])[j].note.event /\ id = Frames(owner[c])[j].note.id
                    => Entitled(c, e, id, j)

LEMMA NotesStep ==
  ASSUME Base, Base', Entries, Notes, [Next]_vars
  PROVE  Notes'
<1> SUFFICES ASSUME NEW c \in DOMAIN owner', NEW g, g = Frames(owner[c])', CP!Carried(owner[c])',
                    NEW j \in Nat, j \in DOMAIN g, g[j].kind = "notification", g[j].ctx = c,
                    NEW e, e = g[j].note.event, NEW id, id = g[j].note.id
             PROVE  Entitled(c, e, id, j)'
  BY DEF Notes
<1>1. c \in DOMAIN owner
  BY NoOldFrames
<1>2. PICK s, f : s = owner[c] /\ f = Frames(s)
  OBVIOUS
<1>3. owner'[c] = s
  BY <1>1, <1>2, ConnectorSteps, SameConnector, Bounds, CP!CarriedNoMore DEF Base, ConnectorInv
<1>4. g = Frames(s)'
  BY <1>3 DEF Frames
<1>5. /\ CP!Carried(s)
      /\ Len(f) \in Nat /\ DOMAIN f = 1..Len(f) /\ Len(g) \in Nat /\ DOMAIN g = 1..Len(g)
      /\ \/ \E m : /\ CP!Adds(serverTasks, m, serverTasks') /\ CP!Adds(f, m, g)
                   /\ Len(g) = Len(f) + 1
         \/ /\ \A m : ~CP!Adds(serverTasks, m, serverTasks')
            /\ \/ g = f
               \/ \E p : CP!Drops(f, p, g) /\ ~(f[p].kind # "stop" /\ f[p].ctx = c)
  BY <1>1, <1>2, <1>4, LineCases
<1>6. ASSUME NEW i \in DOMAIN f, f[i] = g[j]
      PROVE  Entitled(c, e, id, i)
  <2>1. i \in Nat
    <3>1. DOMAIN f = 1..Len(f)
      BY <1>5
    <3> QED BY <3>1
  <2> QED BY <1>1, <1>2, <1>5, <1>6, <2>1 DEF Notes
<1>7. ASSUME NEW m, CP!Adds(serverTasks, m, serverTasks'), CP!Adds(f, m, g), Len(g) = Len(f) + 1
      PROVE  Entitled(c, e, id, j)'
  <2>1. PICK k \in Nat : k = Len(f)
    BY <1>5
  <2>2. DOMAIN f = 1..k /\ DOMAIN g = 1..(k + 1) /\ g[k + 1] = m /\ \A i \in 1..k : g[i] = f[i]
    <3>1. g[Len(f) + 1] = m /\ \A i \in DOMAIN f : g[i] = f[i]
      BY <1>7, Zenon DEF CP!Adds
    <3>2. Len(f) + 1 = k + 1 /\ Len(g) = k + 1
      BY <1>7, <2>1, Zenon
    <3> QED BY <1>5, <2>1, <3>1, <3>2, Zenon
  <2>3. j <= Len(f) + 1
    BY <2>1, <2>2
  <2>4. ASSUME j = k + 1
        PROVE  Entitled(c, e, id, j)
    <3>1. PICK t \in Threads, r \in Manager!RegistrationInfo :
            /\ onConnEvent(t, r)
            /\ m = [kind |-> "notification", ctx |-> r.m_clientCtx, note |-> Manager!NoteOf(r, op[t])]
      <4>1. m.kind = "notification"
        BY <2>2, <2>4
      <4>2. \A w, answer : m # Response(w, answer)
        BY <4>1 DEF Response
      <4> QED BY <1>7, <4>1, <4>2, NewTasks
    <3>2. r.m_clientCtx = c /\ e = op[t].event /\ id = r.m_id
      BY <2>2, <2>4, <3>1 DEF Manager!NoteOf
    <3>3. e \in DOMAIN m_registrations /\ r \in m_registrations[e]
      BY <3>1, <3>2 DEF onConnEvent, Manager!onConnEvent, Manager!ToServe, Manager!RegsOf
    <3> QED BY <1>2, <1>5, <2>1, <2>4, <3>2, <3>3 DEF Entries
  <2>5. ASSUME j # k + 1
        PROVE  Entitled(c, e, id, j)
    <3>1. j \in DOMAIN f /\ f[j] = g[j]
      BY <2>1, <2>2, <2>5
    <3> QED BY <1>6, <3>1
  <2>6. Entitled(c, e, id, j)
    BY <2>4, <2>5
  <2> QED BY <1>2, <1>3, <1>4, <1>5, <1>7, <2>3, <2>6, EntitledGrows
<1>8. ASSUME \A m : ~CP!Adds(serverTasks, m, serverTasks'), g = f
      PROVE  Entitled(c, e, id, j)'
  BY <1>2, <1>3, <1>4, <1>6, <1>8, EntitledKept
<1>9. ASSUME \A m : ~CP!Adds(serverTasks, m, serverTasks'),
             NEW p, CP!Drops(f, p, g), ~(f[p].kind # "stop" /\ f[p].ctx = c)
      PROVE  Entitled(c, e, id, j)'
  <2>1. PICK i : i = IF j < p THEN j ELSE j + 1
    OBVIOUS
  <2>2. i \in DOMAIN f /\ f[i] = g[j]
    <3>1. PICK k \in Nat, l \in Nat : k = Len(f) /\ l = Len(g)
      BY <1>5
    <3>2. DOMAIN f = 1..k /\ DOMAIN g = 1..l /\ k = l + 1 /\ p \in 1..k
      BY <1>5, <1>9, <3>1 DEF CP!Drops
    <3>3. i \in 1..k
      BY <2>1, <3>2
    <3>4. f[i] = g[j]
      BY <1>9, <2>1 DEF CP!Drops
    <3> QED BY <3>2, <3>3, <3>4
  <2> QED BY <1>2, <1>3, <1>4, <1>5, <1>6, <1>9, <2>1, <2>2, EntitledShrinks
<1> QED
  BY <1>5, <1>7, <1>8, <1>9

\* With one worker thread a connected peer is notified of what it asked for,
\* and of nothing else: the last answer it was given about the event, before
\* the notification, confirms a registration under that id, or one is being
\* made (RpcPeerServer.h:144-199).
THEOREM NotificationsAreAsked == ASSUME NumThreads = 1 PROVE Spec => []NotifiedAsAsked
<1> DEFINE All == Base /\ Unmade /\ Entries /\ Notes
<1>1. Init => All
  <2>1. Init => Base
    BY BaseStart
  <2>2. Init => Unmade /\ Entries
    BY DEF Init, Manager!Init, Unmade, Entries
  <2>3. Init => Notes
    BY DEF Init, Connector!Init, Notes
  <2> QED BY <2>1, <2>2, <2>3
<1>2. All /\ [Next]_vars => All'
  BY BaseStep, UnmadeStep, EntriesStep, NotesStep
<1>3. ASSUME Base, Notes
      PROVE  NotifiedAsAsked
  <2> SUFFICES ASSUME NEW s \in 1..MaxSessions, Connector!Carried(s), NEW f, f = Frames(s),
                      NEW j \in DOMAIN f, Notifies(s, f[j]), NEW n, n = f[j].note
               PROVE  \/ Registering(s, n.event, n.id)
                      \/ \E k \in DOMAIN f :
                           /\ Confirms(s, f[k], "register", n.event)
                           /\ f[k].req.body.id = n.id
                           /\ \A i \in 1..(j - 1) : Confirms(s, f[i], "unregister", n.event) => i < k
    BY DEF NotifiedAsAsked
  <2>1. CP!Ground /\ CP!Known /\ s \in CP!Sessions /\ CP!Carried(s)
    BY <1>3 DEF Base, ConnectorInv, CP!Sessions, Connector!Carried, CP!Carried
  <2>2. f \in Seq(CP!ServerTasks) /\ \A i \in DOMAIN f : CP!Afoot(f[i])
    BY <2>1, Bounds, CP!LineAfoot DEF Frames, CP!Line
  <2>3. \A i \in DOMAIN f : f[i].kind # "stop" => f[i].ctx \in DOMAIN owner
    BY <2>1, <2>2, Bounds, CP!FramesKnown DEF CP!FrameKnown
  <2>4. PICK c, e, id : c = f[j].ctx /\ e = n.event /\ id = n.id
    OBVIOUS
  <2>5. c \in DOMAIN owner /\ owner[c] = s /\ f[j].kind = "notification"
    BY <2>3, <2>4 DEF Notifies
  <2>6. j \in Nat /\ DOMAIN f = 1..Len(f) /\ Len(f) \in Nat
    BY <2>2
  <2>7. Entitled(c, e, id, j)
    BY <1>3, <2>1, <2>4, <2>5, <2>6 DEF Notes
  <2>8. CASE Made(c, e, id)
    BY <1>3, <2>4, <2>5, <2>8, MadeRegisters
  <2>9. CASE Confirmed(f, c, e, id, j)
    <3>1. PICK k \in DOMAIN f : /\ Grants(f[k], c, "register", e) /\ f[k].req.body.id = id
                                /\ \A i \in DOMAIN f : i < j /\ Grants(f[i], c, "unregister", e) => i < k
      BY <2>9 DEF Confirmed
    <3>2. Confirms(s, f[k], "register", e)
      BY <2>5, <3>1 DEF Grants, Confirms
    <3>3. ASSUME NEW i \in 1..(j - 1), Confirms(s, f[i], "unregister", e)
          PROVE  i < k
      <4>1. i \in DOMAIN f /\ i < j
        BY <2>6
      <4>2. f[i].ctx \in DOMAIN owner /\ owner[f[i].ctx] = s
        BY <2>3, <3>3, <4>1 DEF Confirms
      <4>3. f[i].ctx = c
        BY <2>1, <2>5, <4>2 DEF CP!Ground, CP!Owners
      <4>4. Grants(f[i], c, "unregister", e)
        BY <3>3, <4>3 DEF Grants, Confirms
      <4> QED BY <3>1, <4>1, <4>4
    <3> QED BY <2>4, <3>1, <3>2, <3>3
  <2> QED BY <2>5, <2>7, <2>8, <2>9 DEF Entitled
<1> HIDE DEF All
<1>4. Spec => []All
  BY <1>1, <1>2, PTL DEF Spec
<1>5. All => NotifiedAsAsked
  BY <1>3 DEF All
<1> QED
  BY <1>4, <1>5, PTL

-----------------------------------------------------------------------------
(* What a connected peer is notified of is in its line, in order.          *)

\* A notification for context c.
NoteFor(m, c) == m.kind = "notification" /\ m.ctx = c

\* What was given out for context c is in line f at increasing places, and
\* no other notification for it.
Placed(f, c, given) ==
  \E place \in [DOMAIN given -> DOMAIN f] :
    /\ \A i \in DOMAIN given : NoteFor(f[place[i]], c) /\ f[place[i]].note = given[i]
    /\ \A i, k \in DOMAIN given : i < k => place[i] < place[k]
    /\ \A j \in DOMAIN f : NoteFor(f[j], c) => \E i \in DOMAIN given : place[i] = j

\* It stays there when the line grows by something else.
LEMMA PlacedStays ==
  ASSUME NEW f, NEW m, NEW g, CP!Adds(f, m, g), NEW c, NEW given, Placed(f, c, given), ~NoteFor(m, c)
  PROVE  Placed(g, c, given)
<1>1. PICK place \in [DOMAIN given -> DOMAIN f] :
        /\ \A i \in DOMAIN given : NoteFor(f[place[i]], c) /\ f[place[i]].note = given[i]
        /\ \A i, k \in DOMAIN given : i < k => place[i] < place[k]
        /\ \A j \in DOMAIN f : NoteFor(f[j], c) => \E i \in DOMAIN given : place[i] = j
  BY DEF Placed
<1>2. /\ DOMAIN f \subseteq DOMAIN g
      /\ \A j \in DOMAIN f : g[j] = f[j]
      /\ \A j \in DOMAIN g : j \in DOMAIN f \/ g[j] = m
  BY DEF CP!Adds
<1>3. place \in [DOMAIN given -> DOMAIN g]
  BY <1>1, <1>2
<1>4. \A i \in DOMAIN given : NoteFor(g[place[i]], c) /\ g[place[i]].note = given[i]
  BY <1>1, <1>2
<1>5. \A j \in DOMAIN g : NoteFor(g[j], c) => \E i \in DOMAIN given : place[i] = j
  BY <1>1, <1>2
<1> QED
  BY <1>1, <1>3, <1>4, <1>5 DEF Placed

\* One more is given out, and added at the end of the line.
LEMMA PlacedGrows ==
  ASSUME NEW f, NEW m, NEW g, CP!Adds(f, m, g), NEW c, NEW S, NEW given \in Seq(S), m.note \in S,
         Placed(f, c, given), NoteFor(m, c)
  PROVE  Placed(g, c, Append(given, m.note))
<1>1. PICK place \in [DOMAIN given -> DOMAIN f] :
        /\ \A i \in DOMAIN given : NoteFor(f[place[i]], c) /\ f[place[i]].note = given[i]
        /\ \A i, k \in DOMAIN given : i < k => place[i] < place[k]
        /\ \A j \in DOMAIN f : NoteFor(f[j], c) => \E i \in DOMAIN given : place[i] = j
  BY DEF Placed
<1> DEFINE more == Append(given, m.note)
           n == Len(given) + 1
           last == Len(f) + 1
<1>2. /\ DOMAIN more = DOMAIN given \cup {n} /\ more[n] = m.note
      /\ \A i \in DOMAIN given : more[i] = given[i] /\ i # n /\ ~(n < i)
  OBVIOUS
<1>3. /\ DOMAIN g = DOMAIN f \cup {last} /\ g[last] = m
      /\ \A j \in DOMAIN f : g[j] = f[j] /\ j # last /\ j < last
  BY DEF CP!Adds
<1>4. n \in Nat /\ ~(n < n)
  OBVIOUS
<1> HIDE DEF more, n, last
<1> DEFINE at == [i \in DOMAIN more |-> IF i = n THEN last ELSE place[i]]
<1>5. /\ at \in [DOMAIN more -> DOMAIN g] /\ at[n] = last
      /\ \A i \in DOMAIN given : at[i] = place[i] /\ place[i] \in DOMAIN f
  BY <1>1, <1>2, <1>3
<1> HIDE DEF at
<1>6. \A i \in DOMAIN more : NoteFor(g[at[i]], c) /\ g[at[i]].note = more[i]
  BY <1>1, <1>2, <1>3, <1>5
<1>7. \A i, k \in DOMAIN more : i < k => at[i] < at[k]
  BY <1>1, <1>2, <1>3, <1>4, <1>5
<1>8. \A j \in DOMAIN g : NoteFor(g[j], c) => \E i \in DOMAIN more : at[i] = j
  BY <1>1, <1>2, <1>3, <1>5
<1>9. Placed(g, c, more)
  BY <1>5, <1>6, <1>7, <1>8 DEF Placed
<1> QED
  BY <1>9 DEF more

\* Another element leaves the line.
LEMMA PlacedShrinks ==
  ASSUME NEW f, NEW p, NEW g, CP!Drops(f, p, g), Len(g) \in Nat, DOMAIN g = 1..Len(g), DOMAIN f = 1..Len(f),
         NEW c, NEW given, Placed(f, c, given), ~NoteFor(f[p], c)
  PROVE  Placed(g, c, given)
<1>1. PICK place \in [DOMAIN given -> DOMAIN f] :
        /\ \A i \in DOMAIN given : NoteFor(f[place[i]], c) /\ f[place[i]].note = given[i]
        /\ \A i, k \in DOMAIN given : i < k => place[i] < place[k]
        /\ \A j \in DOMAIN f : NoteFor(f[j], c) => \E i \in DOMAIN given : place[i] = j
  BY DEF Placed
<1> DEFINE l == Len(g)
           back(j) == IF j < p THEN j ELSE j + 1
<1>2. /\ l \in Nat /\ DOMAIN g = 1..l /\ DOMAIN f = 1..(l + 1) /\ p \in 1..(l + 1)
      /\ \A j \in 1..l : g[j] = f[back(j)]
  BY DEF CP!Drops
<1> HIDE DEF l
<1> DEFINE on(j) == IF j < p THEN j ELSE j - 1
<1>3. ASSUME NEW j \in 1..(l + 1), j # p
      PROVE  on(j) \in 1..l /\ back(on(j)) = j
  BY <1>2, <1>3
<1>4. ASSUME NEW j \in 1..l
      PROVE  back(j) \in 1..(l + 1) /\ back(j) # p /\ on(back(j)) = j
  BY <1>2
<1>5. ASSUME NEW j \in 1..(l + 1), NEW k \in 1..(l + 1), j # p, k # p, j < k
      PROVE  on(j) < on(k)
  BY <1>2, <1>5
<1> HIDE DEF on, back
<1>6. \A i \in DOMAIN given : place[i] \in 1..(l + 1) /\ place[i] # p
  BY <1>1, <1>2
<1> DEFINE at == [i \in DOMAIN given |-> on(place[i])]
<1>7. at \in [DOMAIN given -> DOMAIN g]
  BY <1>2, <1>3, <1>6
<1>8. \A i \in DOMAIN given : at[i] = on(place[i]) /\ g[at[i]] = f[place[i]]
  BY <1>2, <1>3, <1>6
<1> HIDE DEF at
<1>9. \A i \in DOMAIN given : NoteFor(g[at[i]], c) /\ g[at[i]].note = given[i]
  BY <1>1, <1>8
<1>10. \A i, k \in DOMAIN given : i < k => at[i] < at[k]
  BY <1>1, <1>5, <1>6, <1>8
<1>11. ASSUME NEW j \in DOMAIN g, NoteFor(g[j], c) PROVE \E i \in DOMAIN given : at[i] = j
  <2>1. back(j) \in DOMAIN f /\ NoteFor(f[back(j)], c) /\ on(back(j)) = j
    BY <1>2, <1>4, <1>11
  <2>2. PICK i \in DOMAIN given : place[i] = back(j)
    BY <1>1, <2>1
  <2> QED BY <1>8, <2>1, <2>2
<1> QED
  BY <1>7, <1>9, <1>10, <1>11 DEF Placed

\* What is given out for a client is posted for it in the same step, and
\* nothing else is.
LEMMA GivenPosted ==
  ASSUME Base, [Next]_vars, NEW c \in Ctxs
  PROVE  \/ /\ notified'[c] = notified[c]
            /\ \A m : CP!Adds(serverTasks, m, serverTasks') => ~NoteFor(m, c)
         \/ \E m : /\ CP!Adds(serverTasks, m, serverTasks') /\ NoteFor(m, c) /\ m.note \in Manager!Note
                   /\ notified'[c] = Append(notified[c], m.note)
<1>1. notified \in [Ctxs -> Seq(Manager!Note)]
  BY SameTypes DEF Base, ManagerInv, Manager!TypeOK
<1>2. CASE \E t \in Threads, r \in Manager!RegistrationInfo : onConnEvent(t, r)
  <2>1. PICK t \in Threads, r \in Manager!RegistrationInfo : onConnEvent(t, r)
    BY <1>2
  <2> DEFINE n == [kind |-> "notification", ctx |-> r.m_clientCtx, note |-> Manager!NoteOf(r, op[t])]
  <2>2. /\ n.note \in Manager!Note /\ NoteFor(n, r.m_clientCtx) /\ r.m_clientCtx \in Ctxs
        /\ notified' = [notified EXCEPT ![r.m_clientCtx] = Append(@, n.note)]
    BY <2>1, NotificationFits DEF onConnEvent, Manager!onConnEvent, NoteFor, Manager!RegistrationInfo
  <2>3. CP!Adds(serverTasks, n, serverTasks')
    <3>1. serverTasks' = Append(serverTasks, n)
      BY <2>1 DEF onConnEvent, Connector!sendNotification, Connector!PostToServer
    <3>2. CP!Ground
      BY DEF Base, ConnectorInv
    <3>3. n \in CP!ServerTasks
      BY <2>1, <2>2, <3>2, NotificationFits DEF CP!ServerTasks, CP!Frames, CP!Ground, CP!TypeOK, CP!BookTypes
    <3> QED BY <3>1, <3>2, <3>3, Bounds, CP!AppendAdds
  <2>4. \A m : CP!Adds(serverTasks, m, serverTasks') => m = n
    BY <2>3 DEF CP!Adds
  <2> HIDE DEF n
  <2>5. CASE r.m_clientCtx = c
    BY <1>1, <2>2, <2>3, <2>5
  <2>6. CASE r.m_clientCtx # c
    BY <1>1, <2>2, <2>4, <2>6 DEF NoteFor
  <2> QED BY <2>5, <2>6
<1>3. CASE ~\E t \in Threads, r \in Manager!RegistrationInfo : onConnEvent(t, r)
  <2>1. notified' = notified
    <3>1. CASE UNCHANGED managerVars
      BY <3>1 DEF managerVars
    <3>2. ASSUME NEW t, \/ \E o : Manager!Call(t, o)
                        \/ \E e \in Events : Manager!onEvent(t, e)
                        \/ Manager!Return(t)
          PROVE  notified' = notified
      BY <3>2 DEF Manager!Call, Manager!onEvent, Manager!Invoke, Manager!Return
    <3>3. ASSUME NEW w \in Workers, HandlerStep(w) PROVE notified' = notified
      BY <3>1, <3>2, <3>3, HandlerCalls DEF Asks
    <3>4. ASSUME NEW t \in Threads, ManagerStep(t) PROVE notified' = notified
      BY <1>3, <3>4 DEF ManagerStep, Manager!Acquire, Manager!registerToEvent, Manager!SearchRegs,
           Manager!PushSubInfo, Manager!unregisterFromEvent,
         Manager!getListenersOfEvents, Manager!unregisterConn, Manager!emitDone, Manager!Leave
    <3>5. CASE AppStep
      BY <3>1, <3>2, <3>5 DEF AppStep, Alone, BindStep, onEventReturns, onEvent
    <3>6. CASE ServerStep
      BY <3>1, <3>3, <3>6 DEF ServerStep, LoopStep, PoolStep, Alone, ListMethods, PrepareHandler
    <3>7. CASE Halted \/ UNCHANGED vars
      BY <3>1, <3>7 DEF Halted, vars
    <3> QED BY <3>4, <3>5, <3>6, <3>7 DEF Next, Threads
  <2>2. ASSUME NEW m, CP!Adds(serverTasks, m, serverTasks') PROVE ~NoteFor(m, c)
    BY <1>3, <2>2, NewTasks DEF NoteFor, Response
  <2> QED BY <2>1, <2>2
<1> QED
  BY <1>2, <1>3

\* Nothing has been given out for a context yet to be made.
Unsent == \A c \in Ctxs \ DOMAIN owner : notified[c] = <<>>

LEMMA UnsentStep ==
  ASSUME Base, CP!OwnersStay, Unsent, [Next]_vars
  PROVE  Unsent'
<1> SUFFICES ASSUME NEW c \in Ctxs, c \notin DOMAIN owner'
             PROVE  notified'[c] = <<>>
  BY DEF Unsent
<1>1. c \notin DOMAIN owner
  BY DEF CP!OwnersStay
<1>2. notified'[c] = notified[c]
  BY <1>1, NotifyingSteps DEF Base, Registered
<1> QED
  BY <1>1, <1>2 DEF Unsent

\* What has been given out for a connected client is in its peer's line.
InLine == \A c \in DOMAIN owner : CP!Carried(owner[c]) => Placed(Frames(owner[c]), c, notified[c])

LEMMA InLineStep ==
  ASSUME Base, Base', Unsent, InLine, [Next]_vars
  PROVE  InLine'
<1> SUFFICES ASSUME NEW c \in DOMAIN owner', NEW g, g = Frames(owner[c])', CP!Carried(owner[c])'
             PROVE  Placed(g, c, notified[c])'
  BY DEF InLine
<1>1. Placed(g, c, notified[c])' <=> Placed(g, c, notified'[c])
  BY DEF Placed, NoteFor
<1>2. c \in Ctxs
  BY DEF Base, ConnectorInv, CP!Ground, CP!TypeOK, CP!BookTypes, Ctxs, CP!Ctxs
<1>3. CASE c \in DOMAIN owner
  <2>1. PICK s, f : s = owner[c] /\ f = Frames(s)
    OBVIOUS
  <2>2. owner'[c] = s
    BY <1>3, <2>1, ConnectorSteps, SameConnector, Bounds, CP!CarriedNoMore DEF Base, ConnectorInv
  <2>3. g = Frames(s)'
    BY <2>2 DEF Frames
  <2>4. /\ CP!Carried(s)
        /\ Len(f) \in Nat /\ DOMAIN f = 1..Len(f) /\ Len(g) \in Nat /\ DOMAIN g = 1..Len(g)
        /\ \/ \E m : /\ CP!Adds(serverTasks, m, serverTasks') /\ CP!Adds(f, m, g)
                     /\ Len(g) = Len(f) + 1
           \/ /\ \A m : ~CP!Adds(serverTasks, m, serverTasks')
              /\ \/ g = f
                 \/ \E p : CP!Drops(f, p, g) /\ ~(f[p].kind # "stop" /\ f[p].ctx = c)
    BY <1>3, <2>1, <2>3, LineCases
  <2>5. Placed(f, c, notified[c])
    BY <1>3, <2>1, <2>4 DEF InLine
  <2>6. \/ /\ notified'[c] = notified[c]
           /\ \A m : CP!Adds(serverTasks, m, serverTasks') => ~NoteFor(m, c)
        \/ \E m : /\ CP!Adds(serverTasks, m, serverTasks') /\ NoteFor(m, c) /\ m.note \in Manager!Note
                  /\ notified'[c] = Append(notified[c], m.note)
    BY <1>2, GivenPosted
  <2>7. ASSUME NEW m, CP!Adds(serverTasks, m, serverTasks'), CP!Adds(f, m, g)
        PROVE  Placed(g, c, notified'[c])
    <3>1. \A n : CP!Adds(serverTasks, n, serverTasks') => n = m
      BY <2>7 DEF CP!Adds
    <3>2. CASE notified'[c] = notified[c] /\ ~NoteFor(m, c)
      BY <2>5, <2>7, <3>2, PlacedStays
    <3>3. CASE NoteFor(m, c) /\ m.note \in Manager!Note /\ notified'[c] = Append(notified[c], m.note)
      <4>1. notified[c] \in Seq(Manager!Note)
        BY <1>2, SameTypes DEF Base, ManagerInv, Manager!TypeOK
      <4> QED BY <2>5, <2>7, <3>3, <4>1, PlacedGrows
    <3> QED BY <2>6, <2>7, <3>1, <3>2, <3>3
  <2>8. ASSUME \A m : ~CP!Adds(serverTasks, m, serverTasks')
        PROVE  notified'[c] = notified[c]
    BY <2>6, <2>8
  <2>9. ASSUME NEW p, CP!Drops(f, p, g), ~(f[p].kind # "stop" /\ f[p].ctx = c)
        PROVE  Placed(g, c, notified[c])
    <3>1. ~NoteFor(f[p], c)
      BY <2>9 DEF NoteFor
    <3> QED BY <2>4, <2>5, <2>9, <3>1, PlacedShrinks
  <2> QED BY <1>1, <2>4, <2>5, <2>7, <2>8, <2>9
<1>4. CASE c \notin DOMAIN owner
  <2>1. notified'[c] = notified[c]
    BY <1>2, <1>4, NotifyingSteps DEF Base, Registered
  <2>2. notified'[c] = <<>>
    BY <1>2, <1>4, <2>1 DEF Unsent
  <2>3. \A j \in DOMAIN g : ~NoteFor(g[j], c)
    BY <1>4, NoOldFrames DEF NoteFor
  <2>4. [i \in {} |-> 0] \in [{} -> DOMAIN g]
    OBVIOUS
  <2>5. DOMAIN notified'[c] = {}
    BY <2>2
  <2>6. Placed(g, c, notified'[c])
    BY <2>3, <2>4, <2>5 DEF Placed
  <2> QED BY <1>1, <2>6
<1> QED
  BY <1>3, <1>4

\* Whatever number of workers there is, a connected peer is sent, or about to
\* be sent, all that the event manager gave out for it, in that order and
\* nothing else (WsConnector.h:226-262).
THEOREM NotificationsInOrder == Spec => []WireIsPrefix
<1> DEFINE All == Base /\ Unsent /\ InLine
<1>1. Init => All
  <2>1. Init => Base
    BY BaseStart
  <2>2. Init => Unsent
    BY DEF Init, Manager!Init, Unsent
  <2>3. Init => InLine
    BY DEF Init, Connector!Init, InLine
  <2> QED BY <2>1, <2>2, <2>3
<1>2. All /\ [Next]_vars => All'
  BY BaseStep, UnsentStep, InLineStep
<1>3. ASSUME Base, InLine
      PROVE  WireIsPrefix
  <2> SUFFICES ASSUME NEW h \in Handles, conn[h].state = "open"
               PROVE  LET s == conn[h].session
                          f == Frames(s)
                          given == notified[m_connToCtx[h]]
                          sent == {j \in DOMAIN f : Notifies(s, f[j])}
                      IN  \E place \in [DOMAIN given -> sent] :
                            /\ \A i \in DOMAIN given : f[place[i]].note = given[i]
                            /\ \A i, k \in DOMAIN given : i < k => place[i] < place[k]
                            /\ \A j \in sent : \E i \in DOMAIN given : place[i] = j
    BY DEF WireIsPrefix
  <2> DEFINE s == conn[h].session
             f == Frames(s)
             c == m_connToCtx[h]
             given == notified[c]
             sent == {j \in DOMAIN f : Notifies(s, f[j])}
  <2>1. CP!Ground /\ CP!Known
    BY <1>3 DEF Base, ConnectorInv
  <2>2. c \in DOMAIN owner /\ owner[c] = s /\ CP!Carried(s) /\ s \in CP!Sessions
    <3>1. h \in DOMAIN m_connToCtx
      BY <2>1 DEF CP!Ground, CP!Book, CP!Connected
    <3>2. c \in DOMAIN owner /\ owner[c] = s
      BY <2>1, <3>1 DEF CP!Ground, CP!Book, CP!Owners
    <3>3. CP!Carried(s) /\ s \in CP!Sessions
      BY <2>1 DEF CP!Ground, CP!TypeOK, CP!NetTypes, CP!Carried, CP!Free
    <3> QED BY <3>2, <3>3
  <2>3. \A j \in DOMAIN f : CP!Afoot(f[j])
    BY <2>1, <2>2, Bounds, CP!LineAfoot DEF Frames, CP!Line
  <2>4. ASSUME NEW j \in DOMAIN f
        PROVE  j \in sent <=> NoteFor(f[j], c)
    <3>1. f[j].kind = "notification" => f[j].ctx \in DOMAIN owner
      BY <2>1, <2>3, Bounds, CP!FramesKnown DEF CP!FrameKnown
    <3>2. Notifies(s, f[j]) => f[j].ctx = c
      BY <2>1, <2>2, <3>1 DEF Notifies, CP!Ground, CP!Owners
    <3> QED BY <2>2, <3>2 DEF Notifies, NoteFor
  <2>5. PICK place \in [DOMAIN given -> DOMAIN f] :
          /\ \A i \in DOMAIN given : NoteFor(f[place[i]], c) /\ f[place[i]].note = given[i]
          /\ \A i, k \in DOMAIN given : i < k => place[i] < place[k]
          /\ \A j \in DOMAIN f : NoteFor(f[j], c) => \E i \in DOMAIN given : place[i] = j
    BY <1>3, <2>2 DEF InLine, Placed
  <2> HIDE DEF f, given
  <2>6. place \in [DOMAIN given -> sent]
    BY <2>4, <2>5
  <2>7. \A j \in sent : \E i \in DOMAIN given : place[i] = j
    BY <2>4, <2>5
  <2> QED BY <2>5, <2>6, <2>7 DEF f, given
<1> HIDE DEF All
<1>4. Spec => []All
  BY <1>1, <1>2, PTL DEF Spec
<1>5. All => WireIsPrefix
  BY <1>3 DEF All
<1> QED
  BY <1>4, <1>5, PTL

=============================================================================
