------------------------- MODULE WsRpcServerProofs --------------------------
(***************************************************************************)
(* Proofs about the life of a server. Its parts keep their invariants from *)
(* the builder to the end of the destructor, since every step is one of    *)
(* RpcServer or the end of the process (LifeSteps). What the destructor    *)
(* adds is that nothing begins any more (Withdrawn): the threads of a      *)
(* server that does not listen stay where they are.                        *)
(***************************************************************************)
EXTENDS WsRpcServer, RpcServerProofs

-----------------------------------------------------------------------------
(* The steps.                                                              *)

\* The server's own threads, in their handlers and in the event manager.
OwnStep == ServerStep \/ \E t \in Threads : ManagerStep(t)

\* What a step of the server's life is to its parts.
LEMMA LifeSteps ==
  ASSUME [LifeNext]_allVars
  PROVE  \/ UNCHANGED vars
         \/ object = "alive" /\ AppStep /\ UNCHANGED lifeVars
         \/ OwnStep /\ UNCHANGED lifeVars
         \/ /\ object = "dying" /\ Connector!joinable /\ object' = "stopping" /\ UNCHANGED atRest
            /\ Alone(Connector!StopListening(Connector!Control))
         \/ /\ object = "stopping" /\ object' = "gone" /\ UNCHANGED atRest
            /\ Alone(Connector!StopReturns(Connector!Control))
         \/ UseAfterFree
<1>1. CASE BuilderStep \/ destroyRpcServer \/ Over \/ UNCHANGED allVars
  BY <1>1 DEF BuilderStep, enableServerEvents, numThreads, build, destroyRpcServer, Over, allVars
<1>2. CASE destroyWsConnector \/ destroyed
  BY <1>2 DEF destroyWsConnector, destroyed
<1> QED
  BY <1>1, <1>2 DEF LifeNext, DestructorStep, OwnStep, Threads

\* All but the use of what is gone are steps of the server.
LEMMA LifeStepsAreServers ==
  ASSUME [LifeNext]_allVars
  PROVE  [Next]_vars \/ UseAfterFree
<1>1. ASSUME Alone(Connector!StopListening(Connector!Control)) \/ Alone(Connector!StopReturns(Connector!Control))
      PROVE  AppStep
  BY <1>1 DEF AppStep, Alone, Connector!ControlStep
<1> QED
  BY <1>1, LifeSteps DEF Next, OwnStep, Threads

\* That changes nothing but the reason why the process has ended.
LEMMA OnlyTheFault ==
  ASSUME UseAfterFree
  PROVE  /\ fault' = "use after free"
         /\ UNCHANGED <<conn, accepted, asked, wire, m_connIdCnt, m_connToCtx, m_ctxToConn, m_clientHandlers, owner,
                        server, poolIdx, listening, serverTasks, noteCnt, worker, workerTasks, workerStopped,
                        m_serverHandlers, joining>>
         /\ UNCHANGED <<managerVars, bindingVars, handlerVars, lifeVars>>
  BY DEF UseAfterFree, Terminate, Connector!Terminate, Connector!netVars, Connector!bookVars,
         Connector!serverVars, Connector!poolVars

\* So the invariant of the parts is kept.
LEMMA BaseLasts ==
  ASSUME Base, MP!LockHeld, [LifeNext]_allVars
  PROVE  Base' /\ MP!LockHeld'
<1>1. CASE [Next]_vars
  <2>1. [MP!Next]_(MP!vars)
    BY <1>1, ManagerSteps, SameManager
  <2> QED BY <1>1, <2>1, BaseStep, Bounds, MP!LockStep DEF Base, ManagerInv
<1>2. CASE UseAfterFree
  <2>1. CP!Terminate("use after free")
    BY <1>2, OnlyTheFault DEF CP!Terminate, CP!netVars, CP!bookVars, CP!serverVars, CP!poolVars
  <2>2. CP!Ground' /\ CP!Known'
    BY <2>1, Bounds, CP!EndKeeps DEF Base, ConnectorInv
  <2>3. UNCHANGED MP!vars /\ UNCHANGED BP!vars
    BY <1>2, OnlyTheFault DEF managerVars, bindingVars, MP!vars, MP!callVars, BP!vars, BP!tableVars, BP!copyVars
  <2>4. ManagerInv' /\ MP!LockHeld' /\ BP!IInv'
    BY <2>3, Bounds, MP!StepTypeOK, MP!OwnerStep, MP!LockStep, MP!TableStep, BP!StepIInv DEF Base, ManagerInv
  <2>5. Serving'
    BY <1>2, OnlyTheFault DEF Base, handlerVars, Serving, Workers
  <2>6. Calling' /\ Registered'
    <3>1. UNCHANGED <<pc, op, m_registrations, owner, worker, bound, procedures, m_clientLock>>
      BY <1>2, OnlyTheFault DEF managerVars, bindingVars, handlerVars
    <3>2. Registered'
      BY <3>1 DEF Base, Registered
    <3>3. ASSUME NEW w \in Workers, Answering(w) PROVE Answering(w)'
      BY <3>1, <3>3, Zenon DEF Answering, Body, As, Binding!ProcedureOf
    <3>4. ASSUME NEW w \in Workers, CallFor(worker[w].task, op[w]) PROVE CallFor(worker[w].task, op[w])'
      BY <3>1, <3>4, Zenon DEF CallFor, BoundTo
    <3>5. Calling'
      BY <3>1, <3>3, <3>4 DEF Base, Calling
    <3> QED BY <3>2, <3>5
  <2> QED BY <2>2, <2>4, <2>5, <2>6 DEF Base, ConnectorInv
<1> QED
  BY <1>1, <1>2, LifeStepsAreServers

-----------------------------------------------------------------------------
(* What a server that does not listen does.                                *)

\* It has no worker, and no thread of its own is in a call.
LEMMA AtRest ==
  ASSUME Base, ~Connector!joinable
  PROVE  /\ server \in {"off", "joined"}
         /\ \A w \in Workers : worker[w].pc \in {"none", "exited"}
         /\ \A w \in Workers : pc[w] = "idle" /\ ~m_clientLock[w]
         /\ ~CallsServer
<1>1. server \in {"off", "joined"}
  BY DEF Connector!joinable
<1>2. \A w \in Workers : worker[w].pc \in {"none", "exited"}
  BY <1>1 DEF Base, ConnectorInv, CP!Ground, CP!Pool, CP!Starting, CP!Ending, CP!Workers, Workers
<1>3. \A w \in Workers : worker[w].pc # "call"
  BY <1>2
<1>4. \A w \in Workers : pc[w] = "idle" /\ ~m_clientLock[w]
  BY <1>3 DEF Base, Calling, Serving
<1>5. ~CallsServer
  BY <1>1, <1>3 DEF CallsServer, InHandler, Handling
<1> QED
  BY <1>1, <1>2, <1>4, <1>5

\* Only the application starts it.
LEMMA StaysAtRest ==
  ASSUME Base, ~Connector!joinable, OwnStep
  PROVE  ~Connector!joinable'
<1>1. server \in {"off", "joined"} /\ \A w \in Workers : worker[w].pc # "call"
  BY AtRest
<1>2. ~LoopStep
  BY <1>1 DEF LoopStep, ListMethods, PrepareHandler, Connector!PrepareHandler, Alone, Connector!OwnLoopStep,
       Connector!InitAsio, Connector!SpawnWorker, Connector!Listen, Connector!RunReturns, Connector!StopPool,
       Connector!JoinWorker, Connector!EraseHandler
<1>3. ~Connector!RunServerTask /\ \A h : ~Connector!NetworkStep(h)
  BY <1>1 DEF Connector!RunServerTask, Connector!doSendResponse, Connector!doSendNotification,
       Connector!stopServerLoop, Connector!TakeServerTask, Connector!NetworkStep, Connector!Accept,
       Connector!HandshakeFails, Connector!onConnOpen, Connector!onConnMessage, Connector!PeerCloses,
       Connector!onConnClose
<1>4. ASSUME NEW w \in Workers, PoolStep(w) PROVE server' = server
  BY <1>4 DEF PoolStep, Alone, Connector!TakeWorkerTask, Connector!WorkerExits, Connector!FindHandler,
       Connector!MissHandler, Connector!Terminate, Connector!workerUnchanged, Connector!serverVars
<1>5. ASSUME NEW w \in Workers, HandlerStep(w) PROVE FALSE
  BY <1>1, <1>5 DEF HandlerStep, BoundStep, HandlePeerRequest, HandleMethodCall, Reject, WrongParameters,
       MissBound, BoundReturns, BoundRefuses, BoundThrows, BoundEmits, BoundStops, CallBound, Calls, InHandler,
       Reply, onPeerConnected, onPeerDisconnected, PeerForgotten, Handling
<1>6. ASSUME NEW t \in Threads, ManagerStep(t) PROVE server' = server
  BY <1>6 DEF ManagerStep, onConnEvent, Connector!sendNotification, connectorVars, Connector!serverVars
<1>7. server' = server
  BY <1>2, <1>3, <1>4, <1>5, <1>6 DEF OwnStep, ServerStep, Alone
<1> QED
  BY <1>7 DEF Connector!joinable

\* An application thread that is not in a call does not begin one by itself.
LEMMA StaysIdle ==
  ASSUME Base, OwnStep, NEW a \in AppThreads, pc[a] = "idle"
  PROVE  pc'[a] = "idle"
<1>1. DOMAIN pc = Threads /\ a \in Threads /\ \A w \in Workers : w # a
  BY SameTypes, AppThreadsAssumption DEF Base, ManagerInv, Manager!TypeOK, Threads
<1>2. CASE UNCHANGED managerVars
  BY <1>2 DEF managerVars
<1>3. ASSUME NEW w \in Workers, HandlerStep(w) PROVE pc'[a] = "idle"
  <2>1. ASSUME NEW o, Manager!Invoke(w, o) PROVE pc'[a] = "idle"
    BY <1>1, <2>1 DEF Manager!Invoke
  <2>2. ASSUME Manager!Return(w) PROVE pc'[a] = "idle"
    BY <1>1, <2>2 DEF Manager!Return
  <2> QED BY <1>2, <1>3, <2>1, <2>2, HandlerCalls DEF Asks, Manager!Call, Manager!onEvent
<1>4. ASSUME NEW t \in Threads, ManagerStep(t) PROVE pc'[a] = "idle"
  BY <1>1, <1>4 DEF ManagerStep, onConnEvent, Manager!Acquire, Manager!registerToEvent,
     Manager!SearchRegs, Manager!PushSubInfo, Manager!Leave, Manager!unregisterFromEvent, Manager!getListenersOfEvents, Manager!unregisterConn, Manager!emitDone,
     Manager!onConnEvent, Manager!InBody
<1>5. ASSUME NEW w \in Workers, PoolStep(w) PROVE UNCHANGED managerVars
  BY <1>5 DEF PoolStep, Alone
<1>6. CASE ServerStep
  BY <1>6, <1>2, <1>3, <1>5 DEF ServerStep, LoopStep, Alone, ListMethods, PrepareHandler
<1> QED
  BY <1>4, <1>6 DEF OwnStep

\* The server does not use what is gone before the destructor has begun.
LEMMA OtherFaults ==
  ASSUME Base, [Next]_vars, fault' = "use after free"
  PROVE  fault = "use after free"
<1>1. CASE fault # "none"
  BY <1>1, NothingAfterFault
<1>2. CASE [Connector!Next]_(Connector!vars)
  <2>1. fault' = fault \/ \E w \in CP!Workers : CP!MissHandler(w)
    BY <1>2, Bounds, SameConnector, CP!FaultStep DEF Base, ConnectorInv
  <2> QED BY <2>1 DEF CP!MissHandler, CP!Terminate
<1>3. ASSUME NEW w \in Workers, HandlerStep(w), fault = "none" PROVE FALSE
  <2>1. ~UNCHANGED connectorVars
    BY <1>3 DEF connectorVars
  <2>2. ASSUME NEW answer, Connector!FinishTask(w, answer) PROVE FALSE
    BY <1>3, <2>2 DEF Connector!FinishTask
  <2>3. ~Connector!FunctionStep(w)
    BY <1>3 DEF Connector!FunctionStep, Connector!StopListening, Connector!Terminate
  <2> QED BY <1>3, <2>1, <2>2, <2>3, HandlerSteps
<1> QED
  BY <1>1, <1>2, <1>3, OutsideHandlers

-----------------------------------------------------------------------------
(* The invariant.                                                          *)

\* What the builder has been told, and what build has made of it.
Built ==
  /\ eventMethods \in BOOLEAN
  /\ m_numThreads \in {0, 1, NumThreads}
  /\ object \in {"none", "alive", "dying", "stopping", "gone"}
  /\ atRest \in BOOLEAN
  /\ object # "none" => eventMethods /\ m_numThreads > 0

\* In the destructor no application thread is in a call, nor begins one; and
\* a server that does not listen does not start to.
Withdrawn ==
  object \in {"dying", "stopping", "gone"} =>
    /\ \A a \in AppThreads : pc[a] = "idle"
    /\ atRest \/ object = "gone" => ~Connector!joinable

LifeInv == Base /\ MP!LockHeld /\ Built /\ Withdrawn /\ StoppedIsSafeToDestroy

\* Every step keeps what was built.
LEMMA BuiltStep ==
  ASSUME Built, [LifeNext]_allVars
  PROVE  Built'
<1>1. CASE UNCHANGED lifeVars
  BY <1>1 DEF lifeVars, Built
<1>2. CASE BuilderStep
  <2>1. CASE enableServerEvents \/ \E n \in {0, NumThreads} : numThreads(n)
    BY <1>2, <2>1 DEF enableServerEvents, numThreads, Built
  <2>2. CASE build
    <3>1. NumThreads > 0
      BY SizesAssumption
    <3> QED BY <2>2, <3>1 DEF build, newWsConnector, newRpcPeerServer, Built
  <2> QED BY <1>2, <2>1, <2>2 DEF BuilderStep
<1>3. CASE DestructorStep
  BY <1>3 DEF DestructorStep, destroyRpcServer, destroyWsConnector, destroyed, Built
<1> QED
  BY <1>1, <1>2, <1>3 DEF LifeNext, UseAfterFree, Over, allVars

\* The destructor begins when the application is done with the server.
LEMMA WithdrawnStep ==
  ASSUME Base, Withdrawn, [LifeNext]_allVars
  PROVE  Withdrawn'
<1>1. CASE UNCHANGED vars
  <2>1. UNCHANGED <<pc, server>>
    BY <1>1 DEF vars, managerVars, connectorVars
  <2>2. CASE UNCHANGED lifeVars \/ BuilderStep
    BY <2>1, <2>2 DEF Withdrawn, lifeVars, BuilderStep, enableServerEvents, numThreads, build, Connector!joinable
  <2>3. CASE destroyRpcServer
    BY <2>1, <2>3 DEF Withdrawn, destroyRpcServer, AppAtRest, Connector!joinable
  <2>4. CASE destroyWsConnector
    BY <2>1, <2>4 DEF Withdrawn, destroyWsConnector, Connector!joinable, Alone, Connector!StopListening
  <2>5. CASE destroyed
    BY <2>1, <2>5 DEF Withdrawn, destroyed, Alone, Connector!StopReturns, Connector!joinable
  <2> QED BY <2>2, <2>3, <2>4, <2>5 DEF LifeNext, DestructorStep, UseAfterFree, Over, allVars
<1>2. CASE object = "alive" /\ UNCHANGED lifeVars
  BY <1>2 DEF Withdrawn, lifeVars
<1>3. CASE OwnStep /\ UNCHANGED lifeVars
  BY <1>3, StaysAtRest, StaysIdle DEF Withdrawn, lifeVars
<1>4. CASE /\ object = "dying" /\ Connector!joinable /\ object' = "stopping" /\ UNCHANGED atRest
           /\ Alone(Connector!StopListening(Connector!Control))
  BY <1>4 DEF Withdrawn, Alone, managerVars
<1>5. CASE /\ object = "stopping" /\ object' = "gone" /\ UNCHANGED atRest
           /\ Alone(Connector!StopReturns(Connector!Control))
  BY <1>5 DEF Withdrawn, Alone, managerVars, Connector!StopReturns, Connector!joinable
<1>6. CASE UseAfterFree
  <2>1. UNCHANGED <<pc, server, object, atRest>>
    BY <1>6, OnlyTheFault DEF managerVars, lifeVars
  <2> QED BY <2>1 DEF Withdrawn, Connector!joinable
<1> QED
  BY <1>1, <1>2, <1>3, <1>4, <1>5, <1>6, LifeSteps

\* What is gone is used only by threads of a server that listens.
LEMMA SafeStep ==
  ASSUME Base, Withdrawn, StoppedIsSafeToDestroy, [LifeNext]_allVars
  PROVE  StoppedIsSafeToDestroy'
<1>1. CASE UseAfterFree
  <2>1. object \in {"dying", "stopping"} /\ CallsServer /\ UNCHANGED atRest
    BY <1>1 DEF UseAfterFree, lifeVars
  <2>2. Connector!joinable
    BY <2>1, AtRest
  <2> QED BY <2>1, <2>2 DEF Withdrawn, StoppedIsSafeToDestroy
<1>2. CASE [Next]_vars
  <2> SUFFICES ASSUME fault' = "use after free" PROVE ~atRest'
    BY DEF StoppedIsSafeToDestroy
  <2>1. fault = "use after free" /\ ~atRest
    BY <1>2, OtherFaults DEF StoppedIsSafeToDestroy
  <2>2. UNCHANGED atRest
    BY <2>1 DEF LifeNext, BuilderStep, enableServerEvents, numThreads, build, DestructorStep, destroyRpcServer,
       destroyWsConnector, destroyed, UseAfterFree, Over, allVars, lifeVars, Connector!Alive
  <2> QED BY <2>1, <2>2
<1> QED
  BY <1>1, <1>2, LifeStepsAreServers

\* So they hold from the builder to the end.
LEMMA LifeInvariant == LifeSpec => []LifeInv
<1>1. LifeInit => LifeInv
  <2> SUFFICES ASSUME LifeInit PROVE LifeInv
    OBVIOUS
  <2>1. Init /\ Manager!Init /\ Connector!Init
    BY DEF LifeInit, Init
  <2>2. Base /\ MP!LockHeld
    BY <2>1, BaseStart DEF Manager!Init, MP!LockHeld
  <2>3. Built /\ Withdrawn
    BY DEF LifeInit, Built, Withdrawn
  <2>4. StoppedIsSafeToDestroy
    BY <2>1 DEF Connector!Init, StoppedIsSafeToDestroy
  <2> QED BY <2>2, <2>3, <2>4 DEF LifeInv
<1>2. LifeInv /\ [LifeNext]_allVars => LifeInv'
  BY BaseLasts, BuiltStep, WithdrawnStep, SafeStep DEF LifeInv
<1> QED
  BY <1>1, <1>2, PTL DEF LifeSpec

-----------------------------------------------------------------------------

\* Every variable keeps its type, whatever becomes of the server, and a server
\* that was built has its names and its threads (WsConnector.h:56,
\* RpcPeerServer.h:67).
THEOREM LifeTypeCorrect == LifeSpec => []LifeTypeOK
<1>1. LifeInv => LifeTypeOK
  <2>1. Base => TypeOK
    BY SameTypes DEF Base, TypeOK, ConnectorInv, CP!Ground, ManagerInv, BP!IInv, Serving
  <2> QED BY <2>1 DEF LifeInv, Built, LifeTypeOK
<1> QED
  BY <1>1, LifeInvariant, PTL

\* A server that was stopped, or never started, can be destroyed, although
\* m_rpcServer goes before the threads that use it (WsRpcServer.h:86): there
\* are none.
THEOREM SafeToDestroy == LifeSpec => []StoppedIsSafeToDestroy
<1>1. LifeInv => StoppedIsSafeToDestroy
  BY DEF LifeInv
<1> QED
  BY <1>1, LifeInvariant, PTL

\* When the destructor has returned no thread of the server runs, no call of
\* the event manager is under way, no lock is held and no connection is open,
\* with any number of workers (WsConnector.h:65).
THEOREM NothingIsLeft == LifeSpec => []NothingLeftBehind
<1>1. LifeInv => NothingLeftBehind
  <2> SUFFICES ASSUME LifeInv, object = "gone"
               PROVE  /\ \A w \in Workers : worker[w].pc \in {"none", "exited"} /\ pc[w] = "idle" /\ ~m_clientLock[w]
                      /\ m_regsLock = NoOwner
                      /\ \A h \in Handles : conn[h] = Connector!Free
                      /\ server \in {"off", "joined"}
    BY DEF NothingLeftBehind
  <2>1. ~Connector!joinable /\ \A a \in AppThreads : pc[a] = "idle"
    BY DEF LifeInv, Withdrawn
  <2>2. /\ \A w \in Workers : worker[w].pc \in {"none", "exited"} /\ pc[w] = "idle" /\ ~m_clientLock[w]
        /\ server \in {"off", "joined"}
    BY <2>1, AtRest DEF LifeInv
  <2>3. m_regsLock = NoOwner
    <3>1. m_regsLock \in Threads \cup {NoOwner}
      BY SameTypes DEF LifeInv, Base, ManagerInv, Manager!TypeOK, Threads
    <3>2. \A t \in Threads : pc[t] = "idle"
      BY <2>1, <2>2 DEF Threads
    <3> QED BY <3>1, <3>2 DEF LifeInv, MP!LockHeld, MP!Inside
  <2>4. \A h \in Handles : conn[h] = Connector!Free
    BY <2>2 DEF LifeInv, Base, ConnectorInv, CP!Ground, CP!Pool, CP!Quiet, CP!Free, Connector!Free
  <2> QED BY <2>2, <2>3, <2>4
<1> QED
  BY <1>1, LifeInvariant, PTL

\* That a server is built and destroyed changes nothing for its clients: with
\* one worker their registrations go with them, in the destructor as before it
\* (WsRpcServer.h:87, RpcPeerServer.h:178).
THEOREM RegistrationsGoToTheEnd == ASSUME NumThreads = 1 PROVE LifeSpec => []NoStaleRegistration
<1>1. LifeInit => CleanUp /\ MP!LockHeld
  BY CleanUpStart DEF LifeInit, Init, Manager!Init, MP!LockHeld
<1>2. CleanUp /\ MP!LockHeld /\ [LifeNext]_allVars => CleanUp' /\ MP!LockHeld'
  <2> SUFFICES ASSUME CleanUp, MP!LockHeld, [LifeNext]_allVars PROVE CleanUp' /\ MP!LockHeld'
    OBVIOUS
  <2>1. Base' /\ MP!LockHeld'
    BY BaseLasts DEF CleanUp
  <2>2. CASE [Next]_vars
    BY <2>1, <2>2, CleanUpStep
  <2>3. CASE UseAfterFree
    <3>1. UNCHANGED <<m_registrations, pc, op, worker, workerTasks, workerStopped, m_ctxToConn>>
      BY <2>3, OnlyTheFault DEF managerVars
    <3>2. CP!LastWords'
      BY <3>1 DEF CleanUp, CP!LastWords, CP!Followed, CP!Attended, CP!Disconnect, CP!Workers
    <3>3. Forgotten'
      BY <3>1 DEF CleanUp, Forgotten
    <3>4. Kept'
      BY <3>1 DEF CleanUp, Kept, CP!Remembered, CP!Disconnect, CP!Workers
    <3> QED BY <2>1, <3>2, <3>3, <3>4 DEF CleanUp
  <2> QED BY <2>2, <2>3, LifeStepsAreServers
<1>3. LifeSpec => []CleanUp
  BY <1>1, <1>2, PTL DEF LifeSpec
<1> QED
  BY <1>3, NoneStale, PTL

=============================================================================
