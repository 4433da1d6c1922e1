------------------------------ MODULE RpcServer ------------------------------
(***************************************************************************)
(* The whole server: the connector (WsConnector), the event manager        *)
(* (EventManager) and the bound names (MethodBinding), joined by the code  *)
(* between them, PeerProtocolHandler (src/connector/PeerProtocolHandler.h) *)
(* and RpcPeerServer (src/server/RpcPeerServer.h). A worker thread's task  *)
(* is carried out in its own PeerProtocolHandler, which notes the client,  *)
(* and in the shared RpcPeerServer, which calls the event manager or a     *)
(* function the application has bound, and answers. Application threads    *)
(* and bound functions report events; the notifications an event gives     *)
(* rise to are posted for the server thread, one by one, under m_regsLock. *)
(***************************************************************************)
EXTENDS Naturals, Sequences

CONSTANTS
  NumThreads, Handles, MaxSessions, MaxRequests,  \* as in WsConnector
  Events, Ids, MaxEvents, NoOwner,                \* as in EventManager
  Names,          \* names the application may bind, as in MethodBinding
  Binds,          \* calls of bindMethod and bindNotification it may make
  AppThreads,     \* threads of the application that report events
  Bodies          \* the requests that peers send

Workers == 1..NumThreads

\* What the application's functions do: return, throw a JsonRpcException, an
\* out_of_range or something else, report an event, or stop the server.
Funcs == {"returns", "refuses", "outOfRange", "fails", "emits", "stops"}

ASSUME SizesAssumption == /\ NumThreads \in Nat \ {0}
                          /\ MaxSessions \in Nat /\ MaxRequests \in Nat /\ MaxEvents \in Nat
ASSUME AppThreadsAssumption == AppThreads \cap Workers = {}
ASSUME NoOwnerAssumption == NoOwner \notin Workers \cup AppThreads

VARIABLES
  conn, accepted, asked, wire,
  m_connIdCnt, m_connToCtx, m_ctxToConn, m_clientHandlers, owner,
  server, poolIdx, listening, serverTasks, noteCnt,
  worker, workerTasks, workerStopped, m_serverHandlers, joining, fault,
  m_registrations, m_regsLock, pc, op, visited, result, notified, eventCnt,
  m_methodTable, m_notificationsTable, inserting, procedures, made, bound, before, raced,
  \* PeerProtocolHandler, one per worker thread
  m_clientLock,   \* per worker: the handler is inside HandlePeerRequest
  m_clientCtx     \* per worker: the client of the request in progress, or 0

connectorVars == <<conn, accepted, asked, wire,
                   m_connIdCnt, m_connToCtx, m_ctxToConn, m_clientHandlers, owner,
                   server, poolIdx, listening, serverTasks, noteCnt,
                   worker, workerTasks, workerStopped, m_serverHandlers, joining, fault>>
managerVars == <<m_registrations, m_regsLock, pc, op, visited, result, notified, eventCnt>>
bindingVars == <<m_methodTable, m_notificationsTable, inserting, procedures, made, bound, before, raced>>
handlerVars == <<m_clientLock, m_clientCtx>>
vars == <<connectorVars, managerVars, bindingVars, handlerVars>>

Ctxs == 1..MaxSessions

Manager == INSTANCE EventManager WITH Threads <- Workers \cup AppThreads

Binding == INSTANCE MethodBinding

\* register and unregister with good parameters; or any name, with whatever
\* parameters, as a method or as a notification.
AllBodies == [method : {"register", "unregister"}, event : Events, id : Ids]
             \cup [method : Names \cup Binding!Builtins, as : Binding!Kinds]

ASSUME BodiesAssumption == Bodies \subseteq AllBodies
ASSUME NamesAssumption == Names \cap Binding!Builtins = {}
ASSUME BindsAssumption == Binds \subseteq Binding!Bind

\* What a response says.
Answers == [code : {"ok", "duplicate", "notFound", "wrongParams", "result", "refused", "empty",
                    "noMethod", "isMethod", "isNotification"},
            listeners : SUBSET Manager!Registration]
Say(code) == [code |-> code, listeners |-> {}]

Connector == INSTANCE WsConnector
               WITH Notes <- Manager!Note, MaxNotes <- MaxEvents * MaxSessions

Init == /\ Connector!Init
        /\ Manager!Init
        /\ Binding!Init
        /\ m_clientLock = [w \in Workers |-> FALSE]
        /\ m_clientCtx = [w \in Workers |-> 0]

-----------------------------------------------------------------------------
(* A worker inside its handler.                                            *)

Handling(w, kind) == /\ Connector!Alive
                     /\ worker[w].pc = "call"
                     /\ worker[w].task.kind = kind

\* Mutant of HandlePeerRequest: the workers share one handler without its lock.
HandlePeerRequestShared(w) ==
  /\ Handling(w, "request")
  /\ ~m_clientLock[w]
  /\ m_clientLock' = [m_clientLock EXCEPT ![w] = TRUE]
  /\ m_clientCtx' = [x \in Workers |-> worker[w].task.ctx]
  /\ UNCHANGED <<connectorVars, managerVars, bindingVars>>

\* The lock is the handler's own and no other thread uses the handler.
HandlePeerRequest(w) ==
  /\ Handling(w, "request")
  /\ ~m_clientLock[w]
  /\ m_clientLock' = [m_clientLock EXCEPT ![w] = TRUE]
  /\ m_clientCtx' = [m_clientCtx EXCEPT ![w] = worker[w].task.ctx]
  /\ UNCHANGED <<connectorVars, managerVars, bindingVars>>

Body(w) == worker[w].task.req.body
As(w)   == IF "as" \in DOMAIN Body(w) THEN Body(w).as ELSE "method"

InHandler(w) == Handling(w, "request") /\ m_clientLock[w]

\* The JSON-RPC library finds the procedure the request names.
Calls(w, name) == /\ InHandler(w)
                  /\ Body(w).method = name
                  /\ Binding!ProcedureOf(w, name) = As(w)

LeaveHandler(w) == /\ m_clientLock' = [m_clientLock EXCEPT ![w] = FALSE]
                   /\ UNCHANGED m_clientCtx

Answer(w, code) == /\ Connector!FinishTask(w, Say(code))
                   /\ LeaveHandler(w)
                   /\ UNCHANGED <<managerVars, bindingVars>>

\* There is none of that name, or it is of the other kind.
Reject(w) ==
  /\ InHandler(w)
  /\ LET kind == Binding!ProcedureOf(w, Body(w).method) IN
     /\ kind # As(w)
     /\ Answer(w, CASE kind = "none" -> "noMethod"
                     [] kind = "method" -> "isMethod"
                     [] kind = "notification" -> "isNotification")

\* Mutant of HandleMethodCall: event and id are taken for one another.
HandleMethodCallSwapped(w) ==
  /\ \E name \in {"register", "unregister"} :
       /\ Calls(w, name)
       /\ "event" \in DOMAIN Body(w)
       /\ Manager!Call(w, [name |-> name, ctx |-> m_clientCtx[w],
                           event |-> Body(w).id, id |-> Body(w).event])
  /\ UNCHANGED <<connectorVars, bindingVars, handlerVars>>

\* HandleRegister and HandleUnregister with good parameters, HandleGetListeners.
HandleMethodCall(w) ==
  /\ \/ \E name \in {"register", "unregister"} :
          /\ Calls(w, name)
          /\ "event" \in DOMAIN Body(w)
          /\ Manager!Call(w, [name |-> name, ctx |-> m_clientCtx[w],
                              event |-> Body(w).event, id |-> Body(w).id])
     \/ /\ Calls(w, "getListeners")
        /\ Manager!Call(w, [name |-> "getListeners", ctx |-> m_clientCtx[w]])
  /\ UNCHANGED <<connectorVars, bindingVars, handlerVars>>

WrongParameters(w) ==
  /\ \E name \in {"register", "unregister"} : Calls(w, name) /\ "event" \notin DOMAIN Body(w)
  /\ Answer(w, "wrongParams")

-----------------------------------------------------------------------------
(* A worker inside a function the application has bound.                   *)

Terminate(why) == Connector!Terminate(why) /\ UNCHANGED <<managerVars, bindingVars, handlerVars>>

\* at() on the table throws out_of_range, which doHandleRequest takes for a
\* worker without a handler.
MissBound(w) ==
  /\ \E name \in Names : Calls(w, name) /\ pc[w] = "idle" /\ Binding!Missed(As(w), name)
  /\ Terminate("unprepared")

\* at() finds the function, and it is called.
CallBound(w, func) ==
  \E name \in Names : /\ Calls(w, name)
                      /\ pc[w] = "idle"
                      /\ Binding!Found(As(w), name)
                      /\ Binding!Table(As(w))[name] = func

\* A notification has no answer, yet an empty one is sent.
Outcome(w) == IF As(w) = "method" THEN "result" ELSE "empty"

BoundReturns(w) == CallBound(w, "returns") /\ Answer(w, Outcome(w))

\* Mutant of BoundRefuses: the exception is swallowed.
BoundRefusesSilently(w) == CallBound(w, "refuses") /\ Answer(w, Outcome(w))

\* A JsonRpcException becomes the answer.
BoundRefuses(w) == CallBound(w, "refuses") /\ Answer(w, "refused")

\* An exception of any other type ends the thread, an out_of_range under
\* another name.
BoundThrows(w) == \/ CallBound(w, "outOfRange") /\ Terminate("unprepared")
                  \/ CallBound(w, "fails") /\ Terminate("uncaught")

\* The function calls the server's onEvent.
BoundEmits(w) ==
  /\ CallBound(w, "emits")
  /\ \E e \in Events : Manager!onEvent(w, e)
  /\ UNCHANGED <<connectorVars, bindingVars, handlerVars>>

\* The function calls StopListening, which cannot return before this worker
\* has been joined.
BoundStops(w) ==
  /\ CallBound(w, "stops")
  /\ Connector!StopListening(w)
  /\ UNCHANGED <<managerVars, bindingVars, handlerVars>>

BoundStep(w) == \/ MissBound(w) \/ BoundReturns(w) \/ BoundRefuses(w) \/ BoundThrows(w)
                \/ BoundEmits(w) \/ BoundStops(w)

-----------------------------------------------------------------------------
(* The event manager's call returns.                                       *)

\* "Only one registration per event type per each connection" and
\* "Registration info not found" are the answers when the manager refuses.
AnswerOf(w) ==
  CASE op[w].name = "getListeners" -> [code |-> "ok", listeners |-> result[w].listeners]
    [] op[w].name = "emit" -> Say(Outcome(w))
    [] op[w].name = "register" -> Say(IF result[w].ok THEN "ok" ELSE "duplicate")
    [] op[w].name = "unregister" -> Say(IF result[w].ok THEN "ok" ELSE "notFound")

\* HandlePeerRequest returns with it.
Reply(w) ==
  /\ Handling(w, "request")
  /\ Manager!Return(w)
  /\ Connector!FinishTask(w, AnswerOf(w))
  /\ LeaveHandler(w)
  /\ UNCHANGED bindingVars

\* RpcPeerServer's onPeerConnected does nothing.
onPeerConnected(w) ==
  /\ Handling(w, "connect")
  /\ Connector!FinishTask(w, Say("empty"))
  /\ UNCHANGED <<managerVars, bindingVars, handlerVars>>

\* Mutant of onPeerDisconnected: the event manager is not told.
onPeerDisconnectedIgnored(w) ==
  /\ Handling(w, "disconnect")
  /\ Connector!FinishTask(w, Say("empty"))
  /\ UNCHANGED <<managerVars, bindingVars, handlerVars>>

onPeerDisconnected(w) ==
  /\ Handling(w, "disconnect")
  /\ Manager!Call(w, [name |-> "unregisterConn", ctx |-> worker[w].task.ctx])
  /\ UNCHANGED <<connectorVars, bindingVars, handlerVars>>

PeerForgotten(w) ==
  /\ Handling(w, "disconnect")
  /\ Manager!Return(w)
  /\ Connector!FinishTask(w, Say("empty"))
  /\ UNCHANGED <<bindingVars, handlerVars>>

HandlerStep(w) == \/ HandlePeerRequest(w) \/ Reject(w)
                  \/ HandleMethodCall(w) \/ WrongParameters(w) \/ BoundStep(w) \/ Reply(w)
                  \/ onPeerConnected(w) \/ onPeerDisconnected(w) \/ PeerForgotten(w)

-----------------------------------------------------------------------------
(* Events, and any thread inside the event manager.                        *)

onEvent(a, e) ==
  /\ Connector!Alive
  /\ Manager!onEvent(a, e)
  /\ UNCHANGED <<connectorVars, bindingVars, handlerVars>>

onEventReturns(a) ==
  /\ Connector!Alive
  /\ Manager!Return(a)
  /\ UNCHANGED <<connectorVars, bindingVars, handlerVars>>

\* EventManagerListener hands the notification to the connector.
onConnEvent(t, r) ==
  /\ Manager!onConnEvent(t, r)
  /\ Connector!sendNotification(r.m_clientCtx, Manager!NoteOf(r, op[t]))
  /\ UNCHANGED <<bindingVars, handlerVars>>

ManagerStep(t) ==
  \/ /\ Connector!Alive
     /\ \/ Manager!Acquire(t)
        \/ Manager!registerToEvent(t) \/ Manager!unregisterFromEvent(t)
        \/ Manager!getListenersOfEvents(t) \/ Manager!unregisterConn(t)
        \/ Manager!emitDone(t)
     /\ UNCHANGED <<connectorVars, bindingVars, handlerVars>>
  \/ \E r \in Manager!RegistrationInfo : onConnEvent(t, r)

-----------------------------------------------------------------------------

(* The application binds, and a worker's handler is made.                  *)

BindStep == /\ Connector!Alive
            /\ (\E b \in Binds : Binding!bind(b)) \/ Binding!BindReturns
            /\ UNCHANGED <<connectorVars, managerVars, handlerVars>>

ListMethods == /\ Connector!Alive
               /\ server = "prepare"
               /\ Binding!ListMethods(poolIdx)
               /\ UNCHANGED <<connectorVars, managerVars, handlerVars>>

PrepareHandler == /\ Connector!PrepareHandler
                  /\ Binding!ListNotifications(poolIdx)
                  /\ UNCHANGED <<managerVars, handlerVars>>

-----------------------------------------------------------------------------

Alone(connectorStep) == connectorStep /\ UNCHANGED <<managerVars, bindingVars, handlerVars>>

PoolStep(w) == Alone(\/ Connector!TakeWorkerTask(w) \/ Connector!WorkerExits(w)
                     \/ Connector!FindHandler(w) \/ Connector!MissHandler(w))

LoopStep == ListMethods \/ PrepareHandler \/ Alone(Connector!OwnLoopStep)

\* What the application does.
AppStep == \/ Alone(Connector!ControlStep)
           \/ BindStep
           \/ \E a \in AppThreads : onEventReturns(a) \/ \E e \in Events : onEvent(a, e)

\* What the server's own threads do, and its peers.
ServerStep == \/ LoopStep
              \/ Alone(\/ \E h \in Handles : Connector!NetworkStep(h)
                       \/ Connector!RunServerTask)
              \/ \E w \in Workers : PoolStep(w) \/ HandlerStep(w)

Halted == ~Connector!Alive /\ UNCHANGED vars

Next == \/ AppStep
        \/ ServerStep
        \/ \E t \in Workers \cup AppThreads : ManagerStep(t)
        \/ Halted

Spec == Init /\ [][Next]_vars

\* Every thread keeps running, inside the handlers, the event manager and the
\* connector alike, and a mutex that is free is in the end taken by a thread
\* that waits for it. What a peer, the network or the control thread may do
\* is not forced, except that websocketpp ends handshakes.
Fairness ==
  /\ WF_vars(LoopStep)
  /\ WF_vars(Alone(Connector!RunServerTask))
  /\ WF_vars(Alone(Connector!StopReturns(Connector!Control)))
  /\ \A h \in Handles :
       /\ WF_vars(Alone(Connector!onConnOpen(h) \/ Connector!HandshakeFails(h)))
       /\ WF_vars(Alone(Connector!onConnClose(h)))
  /\ \A w \in Workers : WF_vars(PoolStep(w)) /\ WF_vars(HandlerStep(w))
  /\ \A a \in AppThreads : WF_vars(onEventReturns(a))
  /\ \A t \in Workers \cup AppThreads : WF_vars(ManagerStep(t))

-----------------------------------------------------------------------------
(* Properties.                                                             *)

\* The two components keep their types together, and a handler's client is
\* that of the request its worker has taken.
TypeOK ==
  /\ Connector!TypeOK
  /\ Manager!TypeOK
  /\ Binding!TypeOK
  /\ m_clientLock \in [Workers -> BOOLEAN]
  /\ m_clientCtx \in [Workers -> 0..MaxSessions]

\* The parts keep to their own specifications when they are put together: no
\* handler, bound function or event makes the connector, the event manager or
\* the tables do what they do not do by themselves. What holds of a part for
\* every caller therefore holds in the server (RpcPeerServer.h:144-199).
PartsKept == Connector!OpenSpec /\ Manager!Spec /\ Binding!Spec

\* With one worker thread, a registration outlives its connection only until
\* the disconnection queued for the workers has been handled, unless the
\* worker pool was stopped first (RpcPeerServer.h:178, WsConnector.h:325).
NoStaleRegistration ==
  \A e \in DOMAIN m_registrations : \A r \in m_registrations[e] :
    LET c == r.m_clientCtx IN
    \/ c \in DOMAIN m_ctxToConn
    \/ workerStopped
    \/ \E i \in DOMAIN workerTasks : workerTasks[i] = [kind |-> "disconnect", ctx |-> c]
    \/ \E w \in Workers : worker[w].task = [kind |-> "disconnect", ctx |-> c]

\* What a peer has been sent and, behind it, what the peers are to be sent.
Frames(s) == wire[s] \o serverTasks

Notifies(s, frame) == frame.kind = "notification" /\ owner[frame.ctx] = s

Confirms(s, frame, method, event) ==
  /\ frame.kind = "response" /\ owner[frame.ctx] = s
  /\ frame.answer.code = "ok"
  /\ frame.req.body.method = method
  /\ frame.req.body.event = event

\* A worker is carrying out this registration, its answer still to come.
Registering(s, event, id) ==
  \E w \in Workers : /\ worker[w].task.kind = "request"
                     /\ worker[w].task.req.session = s
                     /\ Body(w) = [method |-> "register", event |-> event, id |-> id]

\* A connected peer is notified only of what it asked for: the last answer
\* about the event confirms a registration under that id, or one is just
\* being made. After a confirmed unregistration no notification follows. One
\* worker thread; an emission posts under the lock unregister has to take.
NotifiedAsAsked ==
  \A s \in 1..MaxSessions : Connector!Carried(s) =>
    LET f == Frames(s) IN
    \A j \in DOMAIN f : Notifies(s, f[j]) =>
      LET n == f[j].note IN
      \/ Registering(s, n.event, n.id)
      \/ \E k \in DOMAIN f :
           /\ Confirms(s, f[k], "register", n.event)
           /\ f[k].req.body.id = n.id
           /\ \A i \in 1..(j - 1) : Confirms(s, f[i], "unregister", n.event) => i < k

\* A connected peer has been sent the notifications the event manager handed
\* out for it, in that order and without a gap, up to the ones still queued.
WireIsPrefix ==
  \A h \in Handles : conn[h].state = "open" =>
    LET s == conn[h].session
        f == Frames(s)
        given == notified[m_connToCtx[h]]
        sent == {j \in DOMAIN f : Notifies(s, f[j])}
    IN  \E place \in [DOMAIN given -> sent] :
          /\ \A i \in DOMAIN given : f[place[i]].note = given[i]
          /\ \A i, k \in DOMAIN given : i < k => place[i] < place[k]
          /\ \A j \in sent : \E i \in DOMAIN given : place[i] = j

\* Whatever worker carries out a request, it registers the client that asked:
\* a connected client's registrations are its own requests, confirmed or
\* about to be (PeerProtocolHandler's m_clientCtx).
RegistrationsAttributed ==
  \A h \in Handles : conn[h].state = "open" =>
    \A e \in DOMAIN m_registrations : \A r \in m_registrations[e] :
      r.m_clientCtx = m_connToCtx[h] =>
        LET s == conn[h].session
            f == Frames(s)
        IN  \/ Registering(s, e, r.m_id)
            \/ \E k \in DOMAIN f : Confirms(s, f[k], "register", e) /\ f[k].req.body.id = r.m_id

\* "This means client is already disconnected (and some notifications may
\* still be queued)" (WsConnector.h:241): a notification for a client that
\* is gone was posted before its disconnection had been handled.
NotifiedUntilForgotten ==
  [][\A c \in Ctxs : notified'[c] # notified[c] =>
       \/ c \in DOMAIN m_ctxToConn
       \/ workerStopped
       \/ \E i \in DOMAIN workerTasks : workerTasks[i] = [kind |-> "disconnect", ctx |-> c]
       \/ \E w \in Workers : worker[w].task = [kind |-> "disconnect", ctx |-> c]]_vars

Naming(frame, n) == frame.kind = "response" /\ "as" \in DOMAIN frame.req.body /\ frame.req.body.method = n

\* A name bound before the worker threads were given their handlers is known
\* to each of them, so that no peer is told there is no such method, whichever
\* worker takes its request; unless the application was binding just while a
\* handler copied the tables (PeerProtocolHandler.h:59, RpcPeerServer.h:91).
ServedIfBoundBefore ==
  \A s \in 1..MaxSessions : \A i \in DOMAIN wire[s] : \A n \in Names :
    Naming(wire[s][i], n) /\ raced = {} /\ (\A w \in Workers : n \in before[w])
      => wire[s][i].answer.code # "noMethod"

\* A peer is answered by the function that was bound to the name first, in the
\* way it was bound, however often the application binds the name again.
AnsweredAsBound ==
  \A s \in 1..MaxSessions : \A i \in DOMAIN wire[s] : \A n \in Names :
    LET m  == wire[s][i]
        bs == {b \in bound : b.name = n}
    IN  Naming(m, n) /\ m.answer.code \in {"result", "refused", "empty"} =>
          /\ bs # {}
          /\ \A b \in bs : b.kind = m.req.body.as /\ (m.answer.code = "refused" <=> b.func = "refuses")

\* With one worker thread no request brings the process down, except one whose
\* function lets an exception out, or is looked up just while the application
\* is binding (RpcPeerServer.h:156, 167).
MissedOnlyWhileBinding ==
  fault \in {"unprepared", "uncaught"} =>
    \/ inserting # Binding!NoBind
    \/ \E b \in bound : b.func \in {"outOfRange", "fails"}

\* With one worker thread, the registrations of a client that is gone are in
\* the end removed, unless the worker pool is stopped first.
ClientForgotten ==
  \A c \in Ctxs :
    (/\ c \in DOMAIN owner /\ c \notin DOMAIN m_ctxToConn
     /\ \E e \in DOMAIN m_registrations : \E r \in m_registrations[e] : r.m_clientCtx = c)
    ~> \/ \A e \in DOMAIN m_registrations : \A r \in m_registrations[e] : r.m_clientCtx # c
       \/ workerStopped \/ fault # "none"

\* A notification handed out for a client reaches its peer, or the connection
\* is no longer open, or the process ends.
NotificationDelivered ==
  \A h \in Handles, c \in Ctxs : \A n \in 1..MaxEvents :
    (/\ \E i \in DOMAIN notified[c] : notified[c][i].num = n
     /\ conn[h].state = "open" /\ m_connToCtx[h] = c)
    ~> \/ \E s \in 1..MaxSessions : \E i \in DOMAIN wire[s] :
            wire[s][i].kind = "notification" /\ wire[s][i].ctx = c /\ wire[s][i].note.num = n
       \/ conn[h].state # "open" \/ fault # "none"

\* Every request is answered, through the locks of the handler and of the
\* event manager, or its peer goes, or the process ends.
RequestAnswered == Connector!RequestAnswered

=============================================================================
