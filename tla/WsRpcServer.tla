---------------------------- MODULE WsRpcServer -----------------------------
(***************************************************************************)
(* The life of a server: WsRpcServerBuilder (src/WsRpcServerBuilder.cpp)   *)
(* checks what it is given and makes a WsRpcServer (src/WsRpcServer.cpp),  *)
(* which forwards every call to the two objects it owns, m_rpcServer and   *)
(* m_wsConnector. Destroying it destroys m_rpcServer first; then the       *)
(* destructor of m_wsConnector stops the threads, which until then may     *)
(* still call what was m_rpcServer.                                        *)
(***************************************************************************)
EXTENDS RpcServer

VARIABLES
  eventMethods,   \* the builder was given the names of the three methods
  m_numThreads,   \* the builder's number of threads
  object,         \* "none", "alive"; "dying", "stopping" in the destructor; "gone"
  atRest          \* history: the server was not listening when it was destroyed

lifeVars == <<eventMethods, m_numThreads, object, atRest>>
allVars  == <<vars, lifeVars>>

LifeInit == /\ Init
            /\ eventMethods = FALSE
            /\ m_numThreads = 1
            /\ object = "none"
            /\ atRest = TRUE

-----------------------------------------------------------------------------
(* The builder. A call that throws changes nothing.                        *)

enableServerEvents ==
  /\ object = "none"
  /\ eventMethods' = TRUE
  /\ UNCHANGED <<vars, m_numThreads, object, atRest>>

numThreads(n) ==
  /\ object = "none"
  /\ m_numThreads' = n
  /\ UNCHANGED <<vars, eventMethods, object, atRest>>

\* The constructor of WsConnector refuses zero threads. (A server with another
\* number of threads is another instance of this module.)
newWsConnector == m_numThreads = NumThreads

\* That of RpcPeerServer refuses an empty name; then the new WsConnector is
\* destroyed again.
newRpcPeerServer == eventMethods

\* Mutant of build: the names are not looked at.
buildUnchecked ==
  /\ object = "none"
  /\ newWsConnector
  /\ object' = "alive"
  /\ UNCHANGED <<vars, eventMethods, m_numThreads, atRest>>

build ==
  /\ object = "none"
  /\ newWsConnector
  /\ newRpcPeerServer
  /\ object' = "alive"
  /\ UNCHANGED <<vars, eventMethods, m_numThreads, atRest>>

-----------------------------------------------------------------------------
(* The destructor, run by the control thread while none of the             *)
(* application's own calls is under way.                                   *)

AppAtRest == /\ \A a \in AppThreads : pc[a] = "idle"
             /\ inserting = Binding!NoBind
             /\ Connector!Control \notin joining

\* m_rpcServer, declared last, goes first.
destroyRpcServer ==
  /\ Connector!Alive
  /\ object = "alive"
  /\ AppAtRest
  /\ object' = "dying"
  /\ atRest' = ~Connector!joinable
  /\ UNCHANGED <<vars, eventMethods, m_numThreads>>

\* Mutant of destroyWsConnector: the destructor does not stop the server.
destroyWsConnectorAtOnce ==
  /\ Connector!Alive
  /\ object = "dying"
  /\ object' = "gone"
  /\ UNCHANGED <<vars, eventMethods, m_numThreads, atRest>>

\* ~WsConnector calls StopListening.
destroyWsConnector ==
  /\ Connector!Alive
  /\ object = "dying"
  /\ \/ Connector!joinable /\ Alone(Connector!StopListening(Connector!Control)) /\ object' = "stopping"
     \/ ~Connector!joinable /\ object' = "gone" /\ UNCHANGED vars
  /\ UNCHANGED <<eventMethods, m_numThreads, atRest>>

destroyed ==
  /\ object = "stopping"
  /\ Alone(Connector!StopReturns(Connector!Control))
  /\ object' = "gone"
  /\ UNCHANGED <<eventMethods, m_numThreads, atRest>>

\* A worker's handler calls the server for a client that has come or gone, or
\* for a procedure it knows; the server thread asks it for its methods.
CallsServer ==
  \/ \E w \in Workers : \/ Handling(w, "connect") \/ Handling(w, "disconnect")
                        \/ InHandler(w) /\ Calls(w, Body(w).method)
  \/ server = "prepare"

\* The call may end the process. It may also find the memory as it was.
UseAfterFree ==
  /\ Connector!Alive
  /\ object \in {"dying", "stopping"}
  /\ CallsServer
  /\ Terminate("use after free")
  /\ UNCHANGED lifeVars

-----------------------------------------------------------------------------

BuilderStep == enableServerEvents \/ (\E n \in {0, NumThreads} : numThreads(n)) \/ build

DestructorStep == destroyRpcServer \/ destroyWsConnector \/ destroyed

Over == (object = "gone" \/ ~Connector!Alive) /\ UNCHANGED allVars

LifeNext == \/ BuilderStep
            \/ object = "alive" /\ AppStep /\ UNCHANGED lifeVars
            \/ /\ ServerStep \/ \E t \in Workers \cup AppThreads : ManagerStep(t)
               /\ UNCHANGED lifeVars
            \/ DestructorStep
            \/ UseAfterFree
            \/ Over

LifeSpec == LifeInit /\ [][LifeNext]_allVars

\* Besides what RpcServer assumes: the destructor keeps running once it has
\* begun, and once it has called StopListening every peer hangs up at some time.
LifeFairSpec == /\ LifeSpec
                /\ Fairness
                /\ WF_allVars(destroyWsConnector)
                /\ \A h \in Handles : WF_vars(object = "stopping" /\ Alone(Connector!PeerCloses(h)))

-----------------------------------------------------------------------------
(* Properties.                                                             *)

\* Every variable holds a value of its type, and a server that was built has
\* its names and its threads.
LifeTypeOK ==
  /\ TypeOK
  /\ eventMethods \in BOOLEAN
  /\ m_numThreads \in {0, 1, NumThreads}
  /\ object \in {"none", "alive", "dying", "stopping", "gone"}
  /\ atRest \in BOOLEAN
  /\ object # "none" => eventMethods /\ m_numThreads > 0

\* A server that was stopped, or never started, can be destroyed: no thread
\* calls m_rpcServer when it is gone. (One that listens cannot: m_rpcServer
\* goes before the threads that use it, WsRpcServer.h:86.)
StoppedIsSafeToDestroy == fault = "use after free" => ~atRest

\* When the destructor has returned nothing of the server runs: no worker, no
\* call of the event manager, no lock held, no connection open.
NothingLeftBehind ==
  object = "gone" =>
    /\ \A w \in Workers : worker[w].pc \in {"none", "exited"} /\ pc[w] = "idle" /\ ~m_clientLock[w]
    /\ m_regsLock = NoOwner
    /\ \A h \in Handles : conn[h] = Connector!Free
    /\ server \in {"off", "joined"}

\* The destructor returns, or the process ends.
DestructionEnds == object = "dying" ~> object = "gone" \/ fault # "none"

=============================================================================
