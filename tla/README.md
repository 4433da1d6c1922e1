# A TLA+ model of rpcserver

`rpcserver` is a small C++ library: a JSON-RPC server over websockets. An
application binds methods and notifications to it, starts it, and reports
events; clients connect, call methods, and register for events, which reach
them as JSON-RPC notifications. The library's own logic is concurrency: a
network thread, a pool of worker threads, the application's threads, and the
queues, locks and tables between them. That is what is modelled here.

Paths below are relative to the repository (`src/...` is its source directory;
in `PROJECT.json` they carry the repository's own prefix).

## 1. The system

    application threads --onEvent--> RpcPeerServer --> RpcEventManager (m_regsLock)
                                         ^                 | onConnEvent, per client
          HandlePeerRequest,             |                 v
          onPeer(Dis)Connected           |          WsConnector::sendNotification
                                         |                 | post
    worker threads (m_workerIoService) --+                 v
          ^        | post response ------------> m_server's io_service
          | post connect / request / disconnect            | run
          +------------------------------------ server thread --> websocketpp --> peers

### Components

**Event manager** (`src/server/RpcEventManager.h`). State: `m_registrations`,
a map from an event name to the registrations (client context, client-chosen
id) for it, and the mutex `m_regsLock`. Operations: `registerToEvent`,
`unregisterFromEvent`, `getListenersOfEvents`, `unregisterConn`, and
`onEvent`/`doEmitEvent`, which calls the listener once per registration while it
holds the lock. Called by worker threads and application threads. *Correct when*
each call behaves as if it were atomic; a client has one registration per event
at most; an entry goes with its last registration; an emission notifies
exactly the clients registered at that moment, once each, and all clients see
events in one order; the lock is always released.

**Websocket connector** (`src/connector/WsConnector.h`,
`AbstractPeerServerConnector.h`, `WsClientCtx.h`). State: the server thread; the
websocketpp endpoint and its connections; `ClientCtxManager` (`m_connIdCnt`, two maps
between connection handles and contexts); the clients of the server thread;
`m_workerIoService`, the worker threads and `m_serverHandlers` (thread id to
handler). Operations: `StartListening`, `StopListening`, `sendNotification`
(any thread); `serverLoop` with the pool's set-up and end, `onConnOpen`,
`onConnMessage`, `onConnClose`, `doSendResponse`, `doSendNotification`,
`stopServerLoop` (server thread); `doHandleConnect`, `doHandleRequest`,
`doHandleDisconnect` (workers). *Correct when* a frame reaches only the peer it
is meant for; a request is answered once and, with one worker, in order; a
client's disconnection is handled after its requests; `StopListening` returns
and leaves nothing running; the process never ends by its own bookkeeping.
Seen by its peers, it is a server without threads, queues and handles.

**Peer protocol handler** (`src/connector/PeerProtocolHandler.h`), one per worker
thread. State: `m_clientLock`, `m_clientCtx` and the procedures copied from
the server's method lists at construction. Operations: `HandlePeerRequest`,
`HandleMethodCall`, `HandleNotificationCall`, `onPeerConnected`,
`onPeerDisconnected`. *Correct when* a request is carried out for the client
that sent it, and a handler offers a peer what is bound, as what it is bound.

**RPC peer server** (`src/server/RpcPeerServer.h`), shared by all workers. State:
`m_methodTable`, `m_notificationsTable`, the event manager. Operations:
`bindMethod`, `bindNotification`, the dispatch to `register`, `unregister`,
`getListeners` or a bound function, `onEvent`, `onPeerDisconnected`. *Correct
when* an answer says what happened to the registration, notifications agree
with the answers a client has seen, and a name means what it was first bound to.

**Facade and builder** (`src/WsRpcServer.*`, `src/WsRpcServerBuilder.cpp`,
`include/`). State: the builder's settings and the two objects above, which the
facade owns, destroys in a fixed order, and forwards every call to. *Correct when*
only a server with names and threads is made, and destruction comes to its end
and leaves no thread with a dangling object.

**Documentation generator** (`docgen/`) and **build files**: no run-time
state of the server; not modelled.

### What is hard

* three kinds of threads meet in the event manager and in two task queues;
* frames carry a context and wait in a queue, while connections close and
  websocketpp's handles come back for other peers;
* a disconnection is a task like any other, and workers may overtake one another;
* an emission posts one task per client; only the lock ties them together;
* `m_serverHandlers` is a `std::map` without a lock, written by the server
  thread while workers search it;
* the server loop ends only when acceptor, connections and tasks are all gone,
  and `StopListening` waits for that;
* each worker has a copy of the method lists, made at its own time, while the
  application may be binding; names are checked against the copy and functions
  looked up in the shared table, without a lock;
* a bound function runs on a worker, inside its handler, and may throw, report
  events or stop the server;
* `m_rpcServer` is destroyed before the threads that call it are stopped.

Each hazard is listed at its line in `PROJECT.json`, with the properties about it.

## 2. The modules

| module | models | state and actions |
|---|---|---|
| `EventOps` | the vocabulary of the event manager: calls, results, notifications | no state |
| `EventService` | abstract: every call of the event manager takes effect at one instant | `regs`, `inbox`, `calls` |
| `EventManager` | `RpcEventManager.h` | one action per call, except that a registration is a search (`SearchRegs`) and an insertion (`PushSubInfo`), and an emission a step per client; `pc[t]` says whether thread `t` waits for the lock, is inside it, about to insert, or returns |
| `EventManagerProofs` | theorems about `EventManager`: its invariants | none of its own |
| `EventManagerRefinement` | the proof that `EventManager` implements `EventService` | none of its own |
| `WsConnector` | `WsConnector.h` with websocketpp and boost::asio as it uses them | `serverTasks` and `workerTasks` are the two io_services; `server` is where `serverLoop` stands; `conn` is what websocketpp keeps of a connection; `wire` records the frames sent |
| `WsConnectorProofs` | theorems about `WsConnector`: types, the book of connections, the life of the pool | none of its own |
| `WsConnectorAnswers` | theorems about `WsConnector`: whose tasks and frames are, and what becomes of a request | none of its own |
| `WsConnectorRefinement` | the proof that `WsConnector` implements `PeerService` | none of its own |
| `PeerService` | abstract: what peers see of the connector | per session: `phase`, `asked`, `got` |
| `MethodBinding` | the tables of `RpcPeerServer.h` and the copies `PeerProtocolHandler`'s constructor makes of them | `bind` is the check of `bindMethod` or `bindNotification`, `BindReturns` the insertion; `ListMethods` and `ListNotifications` make a handler's copy |
| `MethodBindingProofs` | theorems about `MethodBinding`: its invariants | none of its own |
| `RpcServer` | the whole: `PeerProtocolHandler.h` and `RpcPeerServer.h` between instances of `WsConnector`, `EventManager` and `MethodBinding` | an action of `RpcServer` is an action of one component, or of several where the code calls from one into the other (`onConnEvent`, `Reply`, `PrepareHandler`, `BoundStops`) |
| `RpcServerProofs` | theorems about `RpcServer`: its parts keep to their specifications; what holds across them | none of its own |
| `WsRpcServer` | builder, construction and destruction around `RpcServer` | `object` says where the life of the server stands |
| `WsRpcServerProofs` | theorems about `WsRpcServer`: what the destructor can rely on and what it leaves | none of its own |
| `MC...` | instances for TLC | symmetry and sets of requests |

Abstractions worth knowing:

* Names, ids, parameters and frames are model values or records. A
  notification's name `"<id>.<event>"` is kept as its two parts. Its parameters
  are reduced to the number of the event, which lets properties speak of order.
* A vector of registrations is a set: `doEmitEvent` serves them in any order,
  and no caller sees the order. That the code keeps them distinct is
  `OneRegistrationPerEvent`.
* The lock of the event manager is not built into the calls: `registerToEvent` looks
  for a duplicate in one step, which leaves an empty entry for a new event as `operator[]`
  does, and inserts in another; an emission reads the table anew for each client. What
  a thread could do in between is left to the lock alone, so that a model without it
  (the mutant `AcquireUnlocked`) breaks `OneRegistrationPerEvent`, `SteadyWhileInside` and
  `SameOrderForAll`.
* An item of the listeners array shows event and id; the model keeps the
  context as well, so that two clients with equal items stay two items.
* Code of the server thread between two awaited things is one action, since that
  thread alone touches connections and their book. What other threads can see in
  the middle of (the task queues, `m_serverHandlers`, an emission) is split.
* websocketpp and asio are external: the model assumes what the code relies
  on: open, messages and close of a connection come in that order on the server
  thread; tasks posted on an io_service run in order, one thread at a time
  each; `run` returns when nothing is left, or after `stop`; closing a connection
  that is not open fails and is ignored, as the code's catch expects.
* `fault` records why the process ended: an exception that leaves a thread, a
  `std::thread` assigned to while joinable, or undefined behaviour. The search of
  a map that is being changed may find its entry or miss it.
* A bound notification is handled without an answer, yet `doHandleRequest` posts
  what it has: an empty frame. The model does the same.
* What the application binds is one of six functions, told apart by what they do:
  return, throw a `JsonRpcException`, an `out_of_range` or something else,
  report an event, or call `StopListening`. Functions that do several of these
  in a row are not modelled.
* The application binds from one thread, one call at a time. The tables have no
  lock: a walk through one that is being changed may come across any of its
  names, and a search in it may fail.
* `StopListening` takes the calling thread (`joining`). Who calls it from a worker
  waits for a server thread that waits for that worker; two callers at once join
  one `std::thread` twice.
* Once `m_rpcServer` is gone, a call of it may end the process (`UseAfterFree`), or
  find the memory as it was: the model lets both happen, in `WsRpcServer` only.
* The destructor runs in the thread that starts and stops the server, while none of
  the application's calls is under way. A server is built once; the builder's
  other settings only reach `listen`, which may fail.
* `owner`, `wire`, `notified`, `asked`, `accepted`, `bound`, `before`, `raced` and
  `atRest` are history: the code keeps no such thing.

Definitions introduced by a comment "Mutant of ..." are not part of the model.
Each is a plausible mistake in the definition it names, and put in that
definition's place it makes TLC report the property it is paired with in
`PROJECT.json`. They show that the properties can fail.

## 3. The runs

States are distinct states, after symmetry of threads, clients and events
(`em_emissions`) or of handles (`ws_one_worker`, `rpc_two_workers`).

| run | question | bounds | result |
|---|---|---|---|
| `em_calls` | table shape, lock release, linearizability | 2 threads, 2 clients, 1 event, 2 ids, 1 emission | holds, 285,912 states |
| `em_emissions` | how often and in which order clients are notified; nobody changes the table a call is in the middle of | 2 threads, 2 clients, 2 events, 1 id, 2 emissions | holds, 761,339 states |
| `ws_one_worker` | right peer, once, in order and without gaps (`PeerService`); disconnection last; no self-inflicted end | 1 worker, 2 handles, 2 connections, 2 requests each, 1 notification | holds, 1,696,198 states |
| `ws_two_workers` | `StopListening` returns and leaves nothing behind; the loop ends; `PeerService` | 2 workers, 1 handle used twice, 1 request each, peers hang up | holds, 149,978 states |
| `mb_names` | what names mean, what handlers offer | 2 workers, 3 names, `register` and the empty name, 2 functions, both kinds | holds, 23,919 states |
| `rpc_one_client` | notifications agree with what the client was answered; none is posted for a client that is forgotten | 1 worker, 3 requests, 2 events | holds, 731,049 states |
| `rpc_two_workers` | requests are carried out for their senders | 2 workers, 2 clients | holds, 607,175 states |
| `rpc_bound` | a peer is answered as the name was bound first; what brings the process down; the composition keeps to its parts' specifications | 1 worker, every kind of request, every function under 1 name as either kind, 1 event | holds, 247,440 states |
| `life` | safe destruction, nothing left behind; registrations go with their connection; answers and notifications arrive; clients are forgotten; the destructor returns | 1 worker, 2 connections on 1 handle, 1 event, peers hang up when the server stops | holds, 72,836 states |
| `ws_handler_race` | every worker finds its handler | 2 workers | **violated** |
| `ws_handshake_at_stop` | the server loop ends after `stopServerLoop` | 1 connection | **violated** |
| `rpc_forgotten_client` | no event is posted for a forgotten client | 2 workers, 1 client | **violated** |

Why the bounds are enough for the cases that matter. Two threads and two
clients exhibit every conflict on the table, because a call names at most one
client and the lock serialises the rest; two events in flight are what a
disagreement on order takes, and a third client or event adds no new pair. One
handle with two connections gives a handle that comes back; two handles give two
peers at once. Two requests show an order; three requests are
register, unregister, register: the shortest sequence with a notification owed,
forbidden and owed again. `rpc_one_client` has one id, so that it never tells
two ids apart; the part of `NotifiedAsAsked` about the id rests on its proof (with two ids
and symmetry the run holds as well, over 2,492,217 states, but takes four minutes). Two workers are what overtaking takes, and what two
different copies of the method lists take. One name is enough for a conflict of
bindings, because a name only ever conflicts with itself; `mb_names` has three,
so that a walk can miss some of several, one of the server's own, and the empty one,
which is refused with an exception. Bounded
counters (`MaxSessions`, `MaxRequests`, `MaxNotes`, `MaxEvents`) only stop
peers and the application from going on: the code's `m_connIdCnt` is a `uint64_t`
that no run of these lengths overflows.

`Halted` and `Over` let a process that has ended, or destroyed its server, stutter,
so that TLC's deadlock check stays on wherever the server must not stop:
everyone waiting on everyone would be reported. Only `rpc_bound` turns it off:
a bound function that calls `StopListening` waits for the server thread, which
joins the worker the function runs in, and the server does stop for good. No
document of the repository says whether a bound function may do so.

Two properties are refinements.
`ServesPeers` says that each step of the connector is a step of `PeerService`, or
one its peers cannot see. `PartsKept` says that whatever the server does is
something the connector (with functions that may stop it, `OpenSpec`), the event
manager and the tables do by their own specifications; what is proved or
checked of `EventManager` and `MethodBinding` alone, and what is proved of the
connector under `OpenSpec`, is therefore true in the server. Both refinements are
proved as well (section 4).

### Fairness

`EventManager!FairSpec`: a thread inside the critical section keeps running;
nothing is assumed of callers or of the order in which the mutex serves them.
`WsConnector!FairSpec`: the server thread and the workers keep running, and
websocketpp's timers end every opening and closing handshake. Peers, the
network and the control thread do as they like; `LeavingSpec` adds that peers
hang up, because `StopListening` waits for close handshakes and for connections that
opened too late to be closed. `RpcServer!Fairness` says the same of every
thread, inside handlers and the event manager, with one `WF` for each thread;
of the application only that its calls of `onEvent` return. So
waiting for `m_regsLock` is served under weak fairness only because the number
of calls is bounded and each of them leaves the lock. `WsRpcServer!LifeFairSpec`
is that of `life`: the destructor, once begun, goes on, and once it has called
`StopListening` peers hang up; before that no peer has to, so that answers and
notifications are really owed to one that stays.

### Disagreements with comments and messages

* `ws_handler_race`. `joinWorkerThreads` erases a worker's entry of
  `m_serverHandlers` (`src/connector/WsConnector.h:372`) once that worker has
  been joined, while the next one may still be searching the same map for the
  last task it took; a search that misses its entry throws "Server handler was
  not prepared for worker thread" (line 254), which is not so. Only with more
  than one worker; the builder's default is one.
* `ws_handshake_at_stop`. The comment at line 401 says the loop exits when all
  connections are closed, and `closeConnections` closes those in the book. One
  whose opening handshake ends later enters the book afterwards and stays: the
  loop, and `StopListening`, wait for as long as that peer likes.
* `rpc_forgotten_client`. With two workers, a `register` request taken by one may
  be carried out after the other has handled its client's disconnection. The
  registration then stays for good, and every later event posts a notification
  that `doSendNotification` drops, for another reason than the one it
  gives at line 241.

Things no comment speaks of show as exceptions in properties that hold.
`MissedOnlyWhileBinding` lets a request bring the process down when its function
throws; the `catch` of `out_of_range` around the whole of `doHandleRequest`
(line 280) then reports an `out_of_range` of the application's function, or of the
search in `m_methodTable`, with the message of a worker without a handler.
`StoppedIsSafeToDestroy` is limited to a server that is not listening when it is
destroyed; `UseAfterFree`, which `life` fires, is what happens to one that is. No
property excludes that case, because no document says that it is legal. The counterexample without that limit is the order of
`m_wsConnector` and `m_rpcServer` in `src/WsRpcServer.h:86-87`: the threads are
stopped by the destructor of the first, when the second is already gone.

## 4. What is proved

### The event manager

What follows holds for every set of threads, clients, events and ids and
every number of emissions. Assumptions: `MaxEvents` is a natural number and
`NoOwner` is not a thread.

| theorem | statement |
|---|---|
| `TypeCorrect` | `Spec => []TypeOK` |
| `TableCorrect` | `Spec => []OneRegistrationPerEvent` |
| `NoEmptyEntries` | `Spec => []NoEmptyEntry` |
| `NeverNotifiedTwice` | `Spec => []NotifiedOnce` |
| `ClientsAgree` | `Spec => []SameOrderForAll` |
| `TableSteady` | `Spec => SteadyWhileInside` |
| `Linearized` (in `EventManagerRefinement`) | `Spec => Linearizable`, that is `Spec => Service!Spec` |

The inductive invariant `IInv` is built in layers, each proved with the ones below it:

1. `TypeOK`.
2. `OwnerInside`: a thread inside a call owns `m_regsLock`, so there is one
   such thread at most and the table is its own.
3. `Table`: the two facts about the table, and `SearchHolds`: what a registration has
   found, that its client has none for the event, is still so when it inserts. This
   is what makes the check and the insertion one step, and it rests on `OwnerInside`.
4. `Emissions`, what has been handed out: the numbers of events do not exceed
   `eventCnt`; an event waiting to be emitted, or being emitted by another
   thread, is not in any inbox; what a running emission has handed out is what
   it has `visited`; and the event being emitted is, where it has been handed
   out, the last in its inbox.

The last part is why order and uniqueness hold together. Numbers need not
increase in an inbox, since threads may take the lock in another order than they
reported their events. What is true is that the event of the emission holding
the lock is the newest everywhere it has arrived, and appending it to one more
inbox puts it after the same events that precede it elsewhere.

`TableSteady` is about two steps of one call with anything in between: a thread
between its search and its insertion, or between two clients of an emission, finds the
table as it left it. With a second thread inside (`OwnerInside` gone) this
is false; `m_registrations`'s references and iterators, which the code holds over that
time, would dangle.

`Linearized` needs two more facts, `CallShape` (what a thread's variables hold at each
place of a call) and `LockHeld` (the lock is held only by a thread in a body). The
mapping lets `unregisterConn` and an emission take effect when they take the
lock, and the other calls when they leave it: while an emission is under way, the
service's inboxes already hold what it has yet to hand over (`EmitInbox`), and
while a connection is being dropped, the service's registrations already lack its
own. `Viewed` says what the service holds for each state of the lock; then one lemma per
action names the service's step, or says that there is none. That a client has one
registration per event (`Table`) is what makes "the" notification it is
due well defined.

### The names

For every set of workers, names and functions, without assumptions: the names
may include the server's own, whose binding `symbolExists` refuses, and the empty name,
which `bindMethod` and `bindNotification` refuse with an exception.

| theorem (in `MethodBindingProofs`) | statement |
|---|---|
| `TypeCorrect` | `Spec => []TypeOK` |
| `BindingsStay` | `Spec => []FirstBindingStays` |
| `OffersAreKept` | `Spec => []ListedIsBound` |
| `HandlersAreComplete` | `Spec => []BoundBeforeIsListed` |

Their inductive invariant adds two facts to the properties: `Tables` (a table holds
nothing but what was confirmed, and the name being inserted is in neither) and
`Copies` (a handler starts with nothing, and between its two lists lacks
notifications only). `ListedIsBound` needs `Tables`: a name that is on its way into a
table cannot be in the other one already, so that a handler that has come across
it has the right kind. It says which table a search goes to and that the name is there,
or just being inserted; in that last case, and whenever the search comes across an insertion, the
code's `at` may still throw: that is `MissedOnlyWhileBinding`'s business.

### The connector

For every set of handles and of requests, every number of worker threads,
sessions, requests and notifications. Assumptions: `NumThreads` is positive and the
bounds are natural numbers. Where the table says "one worker", `NumThreads = 1` is a
hypothesis of the theorem: with more the statement is false, because tasks overtake
each other (layer 5), or because a worker may miss its handler (`ws_handler_race`).

All but the last are theorems of `OpenSpec`, in which a worker may also call `StopListening`,
or end the process, from inside its handler. `Spec` allows less, so they hold of it
too; but bound functions do both, and only what survives them can be used of the
server.

| theorem | statement | |
|---|---|---|
| `TypeCorrect` | `OpenSpec => []TypeOK` | `WsConnectorProofs` |
| `NothingRuns` | `OpenSpec => []NothingRunsAfterStop` | `WsConnectorProofs` |
| `NetworkNeverSurprises` | the two exceptions of an unknown connection are never thrown | `WsConnectorProofs` |
| `ReachesItsPeer` | `OpenSpec => []FramesReachTheirPeer` | `WsConnectorAnswers` |
| `AnsweredOnce` | `OpenSpec => []AnsweredAtMostOnce` | `WsConnectorAnswers` |
| `AnsweredInOrder` | `OpenSpec => []AnswersInOrder`, one worker | `WsConnectorAnswers` |
| `LastIsDisconnect` | `OpenSpec => []DisconnectIsLast`, one worker | `WsConnectorAnswers` |
| `PeersServed` | `OpenSpec => ServesPeers` | `WsConnectorRefinement` |
| `MisuseAlone` | `Spec => []OnlyMisuseTerminates`, one worker | `WsConnectorProofs` |

The inductive invariant, in layers:

1. `Book` and `Owners`, with `TypeOK`: `m_connToCtx` and `m_ctxToConn` are inverse to each other
   and name the connections that have been opened; each context is made for a
   session of its own. The three need one another. That `m_connIdCnt` stays in its
   type is a counting argument (`NewContext`): distinct contexts have distinct
   sessions, and the connection that is just being opened has one too, so the
   contexts are fewer than the sessions so far.
2. `Pool`: what is left of connections, workers and handlers at each place of
   `serverLoop`, on the way up (`Starting`) and down (`Ending`). A worker has a task just
   when it looks for its handler or is in it (`Busy`), and there is no connection
   unless the loop runs (`Quiet`). `NothingRunsAfterStop` is its last line.
   `Book`, `Owners`, `TypeOK` and `Pool` together are `Ground`, the invariant on which the rest stands.
3. `Known`: every task and frame is for a context that was made, and every request in
   one was asked by that context's peer. Hence `FramesReachTheirPeer`: a context finds the
   handle that has it now, never one that took the handle over later.
4. `Once`: each request is queued, in hand, posted or sent, in one of these places only
   (`Apart`) and there once (`Single`). `Moves` says what every step does to those places, and
   every later layer argues from it rather than from the actions.
5. For one worker, `Ordered` (whatever is nearer to being sent was asked before
   whatever is behind it) and `LastWords` (a task whose client is gone is followed by
   that client's disconnection). Neither holds with two workers, since tasks overtake each other
   as soon as they are in two hands.
6. `Complete` and `Fresh`, for the refinement only: no request of an open connection is lost.
   `PeerService` lets an answer through only to a request that waits for one,
   and in order and without a gap with one worker. `Complete` is what excludes the gap.

TLC had found these invariants to hold on `ws_one_worker` and `ws_two_workers` before they were
proved.

### The server

For every set of names, bindings, bodies, events and ids, any number of workers unless
the table says one, and any set of application threads. Assumptions: the sizes are natural
numbers, `NumThreads` positive (`SizesAssumption`); the application's threads are not
the workers (`AppThreadsAssumption`), and `NoOwner` is neither (`NoOwnerAssumption`); requests are those
of `AllBodies`, bindings those of `Binding!Bind`; the application does not bind the
server's own names (`NamesAssumption`). The theorems are in `RpcServerProofs`.

| theorem | statement |
|---|---|
| `TypeCorrect` | `Spec => []TypeOK` |
| `PartsAreKept` | `Spec => PartsKept` |
| `RegistrationsAreTheirs` | `Spec => []RegistrationsAttributed` |
| `AnswersAreBound` | `Spec => []AnsweredAsBound` |
| `BoundNamesAreServed` | `Spec => []ServedIfBoundBefore` |
| `RegistrationsGo` | `Spec => []NoStaleRegistration`, one worker |
| `NotifiedNoLonger` | `Spec => NotifiedUntilForgotten`, one worker |
| `RequestsAreSafe` | `Spec => []MissedOnlyWhileBinding`, one worker |
| `NotificationsAreAsked` | `Spec => []NotifiedAsAsked`, one worker |
| `NotificationsInOrder` | `Spec => []WireIsPrefix` |

The invariant `Base` joins the invariants of the parts (`Ground` and `Known`; types,
`OwnerInside` and `Table`; `IInv` of the tables) with three facts about the code between them:
a worker that holds its handler's lock is inside the handler for the request it has taken,
with that request's client (`Serving`); a worker inside the event manager is there for
what its task asks, on its own client's behalf (`Calling`); every registration is for a
context that was made (`Registered`). None can be left out: that the arguments the
event manager is called with are of its types needs `Serving`; that the emission's client is
one the connector knows needs `Registered`, which needs `Calling`. The
proof gives, for each part, one lemma that reads off what a step of the server does to it
(`ConnectorSteps`, `ManagerSteps`, `BindingSteps`). The parts' own lemmas
then preserve their invariants, and `PartsKept` follows. The modules of proofs are instantiated
beside the modules they are about, so the first lemmas of `RpcServerProofs` say that the two
instances of a definition are the same.

What is added for each theorem:

* `RegistrationsGo`, `NotifiedNoLonger`: `Forgotten` (between the event manager's
  `unregisterConn` and the return from it, the client has no registration) and `Kept` (a
  client with a registration is still in the book, or its disconnection is queued
  or in hand, or the pool was stopped), with the connector's `LastWords`. A registration
  made for a client that has just left is harmless since its disconnection is
  behind the request: that is where one worker is needed.
* `AnswersAreBound`, `BoundNamesAreServed`: `Said`, over all frames on their way or sent, from
  the worker that answers to the table that bound the name; `Equipped` and `Unlisted`, what a
  worker's copy of the table lacks and what has been answered for want of it.
* `RegistrationsAreTheirs`: `Attributed`. A registration of a connected client is one a worker has
  just made for it (`Made`), or one that a frame on its way or sent has confirmed (`Grants`).
  Frames for a connected peer are not lost between the two queues (`FramesStay`).
* `NotificationsAreAsked`: `Entries` and `Notes`, over the line of frames a peer has
  been sent and is to be sent. What a client has registered entitles it to a notification
  at the end of the line; a notification in the line was one it was entitled to there.
  `Unmade` (between the table's change and the answer that confirms an unregistration,
  nothing is registered) says that this answer ends an entitlement no table entry needs
  any more; with two workers another request of the same client could
  register it again before the answer is posted. The line grows at its end, moves from the
  queue to the wire, or loses a frame of someone who is gone (`LineMoves`).
* `NotificationsInOrder`: `InLine`, that the notifications given out for a connected client have
  places in that line (`Placed`), increasing and leaving out none. The property asks for a
  function from what was given out to the places, so that the proof can follow it: it gains a place
  at the end when the line grows by a notification for the client (`PlacedGrows`), which is
  exactly when one is given out (`GivenPosted`), and moves up when a frame of someone else leaves
  (`PlacedShrinks`). `Unsent` starts it: nothing is given out for a context before it is made, so a
  client finds nothing in the line meant for another. It needs no `Entries`, hence no
  bound on the workers: they post in the order in which they hold the event manager's lock.

### The life of a server

Under the assumptions of `RpcServer`, for any number of workers unless the table says
one. The theorems are in `WsRpcServerProofs`.

| theorem | statement |
|---|---|
| `LifeTypeCorrect` | `LifeSpec => []LifeTypeOK` |
| `SafeToDestroy` | `LifeSpec => []StoppedIsSafeToDestroy` |
| `NothingIsLeft` | `LifeSpec => []NothingLeftBehind` |
| `RegistrationsGoToTheEnd` | `LifeSpec => []NoStaleRegistration`, one worker |

Every step of `LifeSpec` is a step of `RpcServer` or the end of the process by a use of what
was destroyed (`LifeStepsAreServers`), so `Base` holds throughout. To it the
invariant adds:

* `Built`: what the builder had to be told before it made a server.
* `Withdrawn`: once the destructor has begun, no application thread is in a call, and a server
  that was at rest when it began, or whose destructor has returned, does not listen.
  `destroyRpcServer` establishes the first and notes in `atRest` whether the server
  listens, and `destroyed`, on which `StopReturns` of the connector has run, ends
  listening; both last because only the application begins calls and starts the
  server (`StaysIdle`, `StaysAtRest`).
* `LockHeld` of the event manager: its lock is held only by a thread inside a call.

`AtRest` then reads off the parts' invariants what a server that does not listen is
doing: its workers have not been started or have exited (`Pool`), so none is in a
call (`Calling`) or holds its handler (`Serving`), and no thread calls `m_rpcServer`. With
`Withdrawn` and `LockHeld` that is all that the two properties say.

The assumptions and the hypothesis `NumThreads = 1` hold in the instances of the runs, which
check the same properties; TLC evaluates the assumptions there.

### Model-checked only

Liveness (`LockReleased`, `StopListeningReturns`, `LoopExitsAfterStop`,
`LoopEndsWhenConnectionsClosed`, `NotificationDelivered`, `ClientForgotten`,
`RequestAnswered`, `DestructionEnds`) is out of the prover's reach. Every other property of
a passing run is stated by a theorem.

## 5. Not modelled

* several threads that bind at once: the tables have no lock, and nothing says that
  one may;
* bound functions that do several things in a row, or bind names themselves;
* several servers in one process: they share nothing;
* host, port, IPv4 and address reuse: they only decide whether `listen` succeeds,
  and the model lets it fail at any time;
* parsing of JSON-RPC: batch requests, malformed frames, versions. A frame that
  cannot be dispatched is one of the answers `wrongParams` and `noMethod`;
* logging, TLS, `docgen`, the build.

## 6. Plan

1. Done: `EventOps`, `EventService`, `EventManager`; `WsConnector` and `PeerService`;
   `MethodBinding`; their composition `RpcServer`; `WsRpcServer`; the proofs about
   `EventManager`, with the refinement, and about `MethodBinding`.
2. Done: the proofs about `WsConnector` with its refinement, about `RpcServer` and about
   `WsRpcServer`.

Runs of the plan stay within 2 workers, 2 clients and 3 requests, the bounds
above; a new module gets a run for each question and theorems where an
invariant does not depend on scheduling.
