---------------------------- MODULE EventManager ----------------------------
(***************************************************************************)
(* RpcEventManager (src/server/RpcEventManager.h): the table of event      *)
(* registrations, guarded by m_regsLock, and the emission of an event to   *)
(* its registered clients. Worker threads register, unregister and drop    *)
(* connections; application threads emit. A call waits for the lock, works *)
(* on the table and releases the lock on every way out (lock_guard). What  *)
(* a call does in several steps, others can see in between: a registration *)
(* looks for a duplicate first and is inserted then; an emission hands its *)
(* notifications to the listener one at a time.                            *)
(*                                                                         *)
(* A std::vector of registrations is kept as a set: no caller observes the *)
(* order of its elements, and the code keeps them distinct.                *)
(***************************************************************************)
EXTENDS EventOps, Functions

CONSTANT NoOwner      \* value of m_regsLock when no thread holds it

ASSUME NoOwnerAssumption == NoOwner \notin Threads

VARIABLES
  m_registrations,    \* map: event name -> its registrations
  m_regsLock,         \* the thread that holds the mutex, or NoOwner
  pc,                 \* per thread: "idle", "lock", "body", "insert" or "return"
  op,                 \* per thread: the call and its arguments
  visited,            \* per thread: registrations an emission has served
  result,             \* per thread: what the call returns
  notified,           \* per client: the listener's onConnEvent calls, in order
  eventCnt            \* number of events emitted so far

callVars == <<pc, op, visited, result>>
vars == <<m_registrations, m_regsLock, callVars, notified, eventCnt>>

RegistrationInfo == [m_id : Ids, m_clientCtx : Ctxs]

Init == /\ m_registrations = [e \in {} |-> {}]
        /\ m_regsLock = NoOwner
        /\ pc = [t \in Threads |-> "idle"]
        /\ op = [t \in Threads |-> NoOp]
        /\ visited = [t \in Threads |-> {}]
        /\ result = [t \in Threads |-> NoResult]
        /\ notified = [c \in Ctxs |-> <<>>]
        /\ eventCnt = 0

-----------------------------------------------------------------------------
(* Calling convention.                                                     *)

Invoke(t, o) ==
  /\ pc[t] = "idle"
  /\ pc' = [pc EXCEPT ![t] = "lock"]
  /\ op' = [op EXCEPT ![t] = o]
  /\ UNCHANGED <<m_registrations, m_regsLock, visited, result, notified>>

\* A worker thread calls, on behalf of client o.ctx.
Call(t, o) == Invoke(t, o) /\ UNCHANGED eventCnt

\* The application reports an event.
onEvent(t, e) ==
  /\ eventCnt < MaxEvents
  /\ eventCnt' = eventCnt + 1
  /\ Invoke(t, [name |-> "emit", event |-> e, num |-> eventCnt'])

\* Mutant of Acquire: the call does not take the lock.
AcquireUnlocked(t) ==
  /\ pc[t] = "lock"
  /\ m_regsLock' = t
  /\ pc' = [pc EXCEPT ![t] = "body"]
  /\ UNCHANGED <<m_registrations, op, visited, result, notified, eventCnt>>

\* std::lock_guard<std::mutex> lock(m_regsLock)
Acquire(t) ==
  /\ pc[t] = "lock"
  /\ m_regsLock = NoOwner
  /\ m_regsLock' = t
  /\ pc' = [pc EXCEPT ![t] = "body"]
  /\ UNCHANGED <<m_registrations, op, visited, result, notified, eventCnt>>

InBody(t, name) == pc[t] = "body" /\ op[t].name = name

\* Mutant of Leave: lock() and a forgotten unlock() instead of a lock_guard.
LeaveLocked(t, answer) ==
  /\ UNCHANGED m_regsLock
  /\ pc' = [pc EXCEPT ![t] = "return"]
  /\ result' = [result EXCEPT ![t] = answer]
  /\ visited' = [visited EXCEPT ![t] = {}]
  /\ UNCHANGED <<op, notified, eventCnt>>

\* The lock_guard goes out of scope and the call returns answer.
Leave(t, answer) ==
  /\ m_regsLock' = NoOwner
  /\ pc' = [pc EXCEPT ![t] = "return"]
  /\ result' = [result EXCEPT ![t] = answer]
  /\ visited' = [visited EXCEPT ![t] = {}]
  /\ UNCHANGED <<op, notified, eventCnt>>

Return(t) ==
  /\ pc[t] = "return"
  /\ pc' = [pc EXCEPT ![t] = "idle"]
  /\ op' = [op EXCEPT ![t] = NoOp]
  /\ result' = [result EXCEPT ![t] = NoResult]
  /\ UNCHANGED <<m_registrations, m_regsLock, visited, notified, eventCnt>>

-----------------------------------------------------------------------------
(* The table.                                                              *)

RegsOf(e) == IF e \in DOMAIN m_registrations THEN m_registrations[e] ELSE {}

\* Mutant of StoreEntry: an entry that becomes empty stays in the map.
StoreEntryKept(e, regs) ==
  [x \in DOMAIN m_registrations \cup {e} |-> IF x = e THEN regs ELSE m_registrations[x]]

\* The map with regs under key e; a key with no registration left is erased.
StoreEntry(e, regs) ==
  IF regs = {} THEN Restrict(m_registrations, DOMAIN m_registrations \ {e})
  ELSE [x \in DOMAIN m_registrations \cup {e} |->
          IF x = e THEN regs ELSE m_registrations[x]]

areCtxEqual(c, d) == c = d

\* Some registration for the event is of the client that registers.
Taken(t) == \E r \in RegsOf(op[t].event) : areCtxEqual(op[t].ctx, r.m_clientCtx)

\* m_registrations[event], which adds an empty entry for a new event, and the
\* search for a duplicate.
SearchRegs(t) ==
  /\ InBody(t, "register")
  /\ \/ /\ Taken(t)
        /\ Leave(t, Answer(FALSE, {}))
        /\ UNCHANGED m_registrations
     \/ /\ ~Taken(t)
        /\ m_registrations' = [e \in DOMAIN m_registrations \cup {op[t].event} |-> RegsOf(e)]
        /\ pc' = [pc EXCEPT ![t] = "insert"]
        /\ UNCHANGED <<m_regsLock, op, visited, result, notified, eventCnt>>

\* Mutant of PushSubInfo: the two fields of subInfo are swapped.
PushSwapped(t) ==
  /\ pc[t] = "insert" /\ op[t].name = "register"
  /\ m_registrations' = StoreEntry(op[t].event,
       RegsOf(op[t].event) \cup {[m_id |-> op[t].ctx, m_clientCtx |-> op[t].id]})
  /\ Leave(t, Answer(TRUE, {}))

\* regs.push_back(subInfo)
PushSubInfo(t) ==
  /\ pc[t] = "insert" /\ op[t].name = "register"
  /\ m_registrations' = StoreEntry(op[t].event,
       RegsOf(op[t].event) \cup {[m_id |-> op[t].id, m_clientCtx |-> op[t].ctx]})
  /\ Leave(t, Answer(TRUE, {}))

registerToEvent(t) == SearchRegs(t) \/ PushSubInfo(t)

\* Mutant of unregisterFromEvent: any client's registration under the id goes.
unregisterAnyClient(t) ==
  /\ InBody(t, "unregister")
  /\ LET o     == op[t]
         found == {r \in RegsOf(o.event) : r.m_id = o.id}
     IN  /\ m_registrations' = StoreEntry(o.event, RegsOf(o.event) \ found)
         /\ Leave(t, Answer(found # {}, {}))

\* Mutant of unregisterFromEvent: found, but not erased.
unregisterNothing(t) ==
  /\ InBody(t, "unregister")
  /\ Leave(t, Answer([m_id |-> op[t].id, m_clientCtx |-> op[t].ctx] \in RegsOf(op[t].event), {}))
  /\ UNCHANGED m_registrations

unregisterFromEvent(t) ==
  /\ InBody(t, "unregister")
  /\ LET o     == op[t]
         regs  == RegsOf(o.event)
         found == {r \in regs : r.m_id = o.id /\ areCtxEqual(o.ctx, r.m_clientCtx)}
     IN  /\ m_registrations' = StoreEntry(o.event, regs \ found)
         /\ Leave(t, Answer(found # {}, {}))

\* Every connection's registrations are listed, not the caller's alone.
getListenersOfEvents(t) ==
  /\ InBody(t, "getListeners")
  /\ Leave(t, Answer(TRUE,
       {l \in Registration :
          [m_id |-> l.id, m_clientCtx |-> l.ctx] \in RegsOf(l.event)}))
  /\ UNCHANGED m_registrations

unregisterConn(t) ==
  /\ InBody(t, "unregisterConn")
  /\ LET kept(e) == {r \in m_registrations[e] : ~areCtxEqual(op[t].ctx, r.m_clientCtx)}
     IN  m_registrations' =
           [e \in {x \in DOMAIN m_registrations : kept(x) # {}} |-> kept(e)]
  /\ Leave(t, NoResult)

-----------------------------------------------------------------------------
(* doEmitEvent, its loop one registration at a time.                       *)

ToServe(t) == RegsOf(op[t].event) \ visited[t]

\* What an emission o has for the holder of registration r.
NoteOf(r, o) == [id |-> r.m_id, event |-> o.event, num |-> o.num]

\* Mutant of onConnEvent: the loop does not advance.
onConnEventAgain(t, r) ==
  /\ InBody(t, "emit")
  /\ r \in ToServe(t)
  /\ notified' = [notified EXCEPT ![r.m_clientCtx] = Append(@, NoteOf(r, op[t]))]
  /\ UNCHANGED <<m_registrations, m_regsLock, pc, op, visited, result, eventCnt>>

\* m_eventListener->onConnEvent(clientCtx, id + "." + event, params)
onConnEvent(t, r) ==
  /\ InBody(t, "emit")
  /\ r \in ToServe(t)
  /\ notified' = [notified EXCEPT ![r.m_clientCtx] =
                    Append(@, NoteOf(r, op[t]))]
  /\ visited' = [visited EXCEPT ![t] = @ \cup {r}]
  /\ UNCHANGED <<m_registrations, m_regsLock, pc, op, result, eventCnt>>

emitDone(t) ==
  /\ InBody(t, "emit")
  /\ ToServe(t) = {}
  /\ Leave(t, NoResult)
  /\ UNCHANGED m_registrations

-----------------------------------------------------------------------------

Body(t) == \/ registerToEvent(t)
           \/ unregisterFromEvent(t)
           \/ getListenersOfEvents(t)
           \/ unregisterConn(t)
           \/ \E r \in RegistrationInfo : onConnEvent(t, r)
           \/ emitDone(t)

Next == \E t \in Threads :
          \/ \E o \in Ops \ EmitOps : Call(t, o)
          \/ \E e \in Events : onEvent(t, e)
          \/ Acquire(t)
          \/ Body(t)
          \/ Return(t)

Spec == Init /\ [][Next]_vars

\* A thread inside the critical section keeps running. Nothing is assumed of
\* the order in which the mutex serves its waiters, nor of the callers.
FairSpec == Spec /\ \A t \in Threads : WF_vars(Body(t))

-----------------------------------------------------------------------------
(* Properties.                                                             *)

\* Every variable holds a value of its type; the map's keys are event names.
TypeOK ==
  /\ DOMAIN m_registrations \subseteq Events
  /\ \A e \in DOMAIN m_registrations : m_registrations[e] \subseteq RegistrationInfo
  /\ m_regsLock \in Threads \cup {NoOwner}
  /\ pc \in [Threads -> {"idle", "lock", "body", "insert", "return"}]
  /\ op \in [Threads -> Ops \cup {NoOp}]
  /\ visited \in [Threads -> SUBSET RegistrationInfo]
  /\ result \in [Threads -> Result]
  /\ notified \in [Ctxs -> Seq(Note)]
  /\ eventCnt \in 0..MaxEvents

\* A connection holds at most one registration per event, however the searches
\* and the insertions of several threads come together ("Only one registration
\* per event type per each connection", src/server/RpcPeerServer.h:249).
OneRegistrationPerEvent ==
  \A e \in DOMAIN m_registrations : \A r, s \in m_registrations[e] :
    r.m_clientCtx = s.m_clientCtx => r = s

\* No key is left in the map once its last registration is gone, whichever
\* of unregisterFromEvent and unregisterConn removed it, so the table does
\* not grow with every event name ever asked for. Only the call that is about
\* to insert the first registration has its entry empty.
NoEmptyEntry ==
  \A e \in DOMAIN m_registrations :
    m_registrations[e] = {} => \E t \in Threads : pc[t] = "insert" /\ op[t].event = e

\* Between lock and unlock.
Inside(t) == pc[t] \in {"body", "insert"}

\* A call that is inside the table and goes on there finds at its next step
\* the table it left: from the search for a duplicate to the insertion, and
\* from one onConnEvent of an emission to the next, no thread adds or erases
\* a registration or an entry under the iterators and references it holds.
SteadyWhileInside ==
  [][\A t \in Threads : Inside(t) /\ pc'[t] = pc[t] => UNCHANGED m_registrations]_vars

\* No client hears twice of the same event, however many threads emit.
NotifiedOnce ==
  \A c \in Ctxs : \A i, j \in DOMAIN notified[c] :
    notified[c][i].num = notified[c][j].num => i = j

\* Two clients that hear of the same two events hear of them in the same
\* order, although a thread that emits hands its notifications over one by
\* one while others emit, and serves the clients in an order of its own.
SameOrderForAll ==
  \A c, d \in Ctxs : \A i, j \in DOMAIN notified[c] : \A k, l \in DOMAIN notified[d] :
    /\ i < j
    /\ notified[c][i].num = notified[d][k].num
    /\ notified[c][j].num = notified[d][l].num
    => k < l

\* The mutex is released on every way out of every call.
LockReleased == m_regsLock # NoOwner ~> m_regsLock = NoOwner

-----------------------------------------------------------------------------
(* Refinement: every call takes effect at once. unregisterConn and emit do *)
(* so when they take the lock, the other calls when they leave it.         *)

\* The call that holds the lock, if any, is of this name.
Holding(name) == m_regsLock # NoOwner /\ InBody(m_regsLock, name)

AbsRegs ==
  {r \in Registration :
     /\ [m_id |-> r.id, m_clientCtx |-> r.ctx] \in RegsOf(r.event)
     /\ ~ (Holding("unregisterConn") /\ op[m_regsLock].ctx = r.ctx)}

\* The notifications a running emission is about to hand to client c.
Due(t, c) == {r \in ToServe(t) : r.m_clientCtx = c}

AbsInbox ==
  [c \in Ctxs |->
     IF Holding("emit") /\ Due(m_regsLock, c) # {}
       THEN LET r == CHOOSE x \in Due(m_regsLock, c) : TRUE
            IN  Append(notified[c], NoteOf(r, op[m_regsLock]))
       ELSE notified[c]]

\* What the atomic service has done of a call o whose thread is at p.
Phase(p, o) ==
  CASE p = "idle" -> "idle"
    [] p = "return" \/ (p = "body" /\ o.name \in {"unregisterConn", "emit"}) -> "done"
    [] OTHER -> "pending"

AbsCalls ==
  [t \in Threads |-> [state |-> Phase(pc[t], op[t]), op |-> op[t], result |-> result[t]]]

Service == INSTANCE EventService WITH regs <- AbsRegs, inbox <- AbsInbox, calls <- AbsCalls

\* The locked, looping implementation is linearizable: its callers cannot
\* tell it from the atomic service.
Linearizable == Service!Spec

=============================================================================
