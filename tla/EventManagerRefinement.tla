----------------------- MODULE EventManagerRefinement -----------------------
(***************************************************************************)
(* EventManager implements EventService, for every set of threads, clients, *)
(* events and ids: whatever the interleaving of its calls, callers cannot  *)
(* tell it from a service whose calls are atomic. Every step of the        *)
(* implementation is shown to be one step of the service or none.          *)
(***************************************************************************)
EXTENDS EventManagerProofs

-----------------------------------------------------------------------------
(* The invariant, and what more of it the refinement needs.                *)

\* What a thread's variables hold at each place of a call.
CallShape ==
  \A t \in Threads :
    /\ pc[t] = "idle" => op[t] = NoOp
    /\ pc[t] # "return" => result[t] = NoResult
    /\ ~Inside(t) => visited[t] = {}

RInv == IInv /\ CallShape /\ LockHeld

\* Operation, result and place of a call go together.
LEMMA ShapeStep ==
  ASSUME TypeOK, OwnerInside, CallShape, [Next]_vars
  PROVE  CallShape'
<1> USE NoOwnerAssumption DEF TypeOK, OwnerInside, CallShape, Inside
<1>1. ASSUME NEW t \in Threads, NEW o \in Ops, Invoke(t, o) PROVE CallShape'
  BY <1>1 DEF Invoke
<1>2. ASSUME NEW t \in Threads, Acquire(t) PROVE CallShape'
  BY <1>2 DEF Acquire
<1>3. ASSUME NEW t \in Threads, Return(t) PROVE CallShape'
  BY <1>3 DEF Return
<1>4. ASSUME NEW t \in Threads, NEW answer, Inside(t), Leave(t, answer)
      PROVE  CallShape'
  BY <1>4 DEF Leave
<1>5. ASSUME NEW t \in Threads, NEW r, onConnEvent(t, r) PROVE CallShape'
  BY <1>5 DEF onConnEvent, InBody
<1>6. CASE UNCHANGED vars
  BY <1>6 DEF vars, callVars
<1>7. ASSUME NEW t \in Threads, NEW e \in Events, onEvent(t, e) PROVE CallShape'
  BY <1>7 DEF onEvent, Invoke
<1>8. ASSUME NEW t \in Threads, GoesOn(t) PROVE CallShape'
  BY <1>8 DEF GoesOn, InBody
<1>9. ASSUME NEW t \in Threads, Body(t) PROVE CallShape'
  BY <1>4, <1>5, <1>8, <1>9, BodySteps
<1> QED BY <1>1, <1>2, <1>3, <1>6, <1>7, <1>9 DEF Next, Call

\* What the refinement needs to know of the states it meets.
LEMMA RInvariant == Spec => []RInv
<1>1. Init => CallShape /\ LockHeld
  BY DEF Init, CallShape, LockHeld
<1>2. IInv /\ CallShape /\ LockHeld /\ [Next]_vars => CallShape' /\ LockHeld'
  BY ShapeStep, LockStep DEF IInv
<1> QED BY <1>1, <1>2, Inductive, PTL DEF Spec, RInv

-----------------------------------------------------------------------------
(* The refinement mapping, read off for a lock that is free or held.       *)

\* The table as a relation.
Flat == {r \in Registration : [m_id |-> r.id, m_clientCtx |-> r.ctx] \in RegsOf(r.event)}

\* While an emission holds the lock, a client that is still to be served has
\* its notification already in the service's inbox.
EmitInbox(t) ==
  /\ AbsInbox = [c \in Ctxs |-> AbsInbox[c]]
  /\ \A c \in Ctxs :
       /\ Due(t, c) = {} => AbsInbox[c] = notified[c]
       /\ \A r \in Due(t, c) : AbsInbox[c] = Append(notified[c], NoteOf(r, op[t]))

\* What the service holds while thread t has the lock. The calls that take
\* effect when they leave show nothing yet.
HeldView(t) ==
  /\ op[t].name \notin {"unregisterConn", "emit"} => AbsRegs = Flat /\ AbsInbox = notified
  /\ InBody(t, "unregisterConn") =>
       AbsRegs = {r \in Flat : r.ctx # op[t].ctx} /\ AbsInbox = notified
  /\ InBody(t, "emit") => AbsRegs = Flat /\ EmitInbox(t)

View ==
  TypeOK /\ Table =>
    /\ m_regsLock = NoOwner => AbsRegs = Flat /\ AbsInbox = notified
    /\ \A t \in Threads : m_regsLock = t => HeldView(t)

\* While a thread emits, the service's inboxes are ahead of the clients'.
LEMMA EmitView ==
  ASSUME TypeOK, Table, NEW t \in Threads, m_regsLock = t, InBody(t, "emit")
  PROVE  AbsRegs = Flat /\ EmitInbox(t)
<1>1. AbsRegs = Flat
  BY DEF AbsRegs, Flat, Holding, InBody
<1>2. Holding("emit")
  BY NoOwnerAssumption DEF Holding
<1>3. AbsInbox = [c \in Ctxs |-> AbsInbox[c]]
  BY DEF AbsInbox
<1>4. ASSUME NEW c \in Ctxs, Due(t, c) = {} PROVE AbsInbox[c] = notified[c]
  BY <1>4 DEF AbsInbox
<1>5. ASSUME NEW c \in Ctxs, NEW r \in Due(t, c)
      PROVE  AbsInbox[c] = Append(notified[c], NoteOf(r, op[t]))
  <2>1. \A x \in Due(t, c) : x = r
    BY DEF Due, ToServe, RegsOf, Table, OneRegistrationPerEvent
  <2>2. (CHOOSE x \in Due(t, c) : TRUE) = r
    BY <2>1
  <2> QED BY <1>2, <2>2 DEF AbsInbox
<1> QED BY <1>1, <1>3, <1>4, <1>5 DEF EmitInbox

\* What the service sees of the manager, by who holds the lock.
LEMMA Viewed == View
<1> SUFFICES ASSUME TypeOK, Table
             PROVE  /\ m_regsLock = NoOwner => AbsRegs = Flat /\ AbsInbox = notified
                    /\ \A t \in Threads : m_regsLock = t => HeldView(t)
  BY DEF View
<1>1. ASSUME ~Holding("emit") PROVE AbsInbox = notified
  BY <1>1 DEF AbsInbox, TypeOK
<1>2. ASSUME ~Holding("unregisterConn") PROVE AbsRegs = Flat
  BY <1>2 DEF AbsRegs, Flat
<1>3. m_regsLock = NoOwner => AbsRegs = Flat /\ AbsInbox = notified
  BY <1>1, <1>2 DEF Holding
<1>4. ASSUME NEW t \in Threads, m_regsLock = t PROVE HeldView(t)
  <2>1. op[t].name \notin {"unregisterConn", "emit"} => AbsRegs = Flat /\ AbsInbox = notified
    BY <1>1, <1>2, <1>4 DEF Holding, InBody
  <2>2. ASSUME InBody(t, "unregisterConn")
        PROVE  AbsRegs = {r \in Flat : r.ctx # op[t].ctx} /\ AbsInbox = notified
    <3>1. Holding("unregisterConn") /\ ~Holding("emit")
      BY <1>4, <2>2, NoOwnerAssumption DEF Holding, InBody
    <3>2. AbsRegs = {r \in Flat : r.ctx # op[t].ctx}
      BY <1>4, <3>1 DEF AbsRegs, Flat
    <3> QED BY <1>1, <3>1, <3>2
  <2> QED BY <1>4, <2>1, <2>2, EmitView DEF HeldView
<1> QED BY <1>3, <1>4

\* The same of the next state.
LEMMA ViewedNext == View'
  BY Viewed, PTL

\* A thread's call as the service sees it.
LEMMA CallsStep ==
  ASSUME TypeOK, NEW t \in Threads, NEW p, NEW o, NEW answer,
         pc' = [pc EXCEPT ![t] = p],
         op' = [op EXCEPT ![t] = o],
         result' = [result EXCEPT ![t] = answer]
  PROVE  AbsCalls' = [AbsCalls EXCEPT ![t] =
                        [state |-> Phase(p, o), op |-> o, result |-> answer]]
  BY DEF AbsCalls, TypeOK

\* What the table says of an event after an entry was stored.
LEMMA StoredRegs ==
  ASSUME NEW e, NEW regs, m_registrations' = StoreEntry(e, regs)
  PROVE  \A x : RegsOf(x)' = IF x = e THEN regs ELSE RegsOf(x)
  BY DEF RegsOf, StoreEntry, Restrict

\* A step of a thread that does not hold the lock, nor takes it, is nothing
\* to the table and the inboxes.
LEMMA ViewKept ==
  ASSUME TypeOK, NEW t \in Threads, m_regsLock # t,
         UNCHANGED <<m_registrations, m_regsLock, notified, visited>>,
         \A u \in Threads \ {t} : pc'[u] = pc[u] /\ op'[u] = op[u]
  PROVE  AbsRegs' = AbsRegs /\ AbsInbox' = AbsInbox
<1>1. ASSUME m_regsLock # NoOwner
      PROVE  pc'[m_regsLock] = pc[m_regsLock] /\ op'[m_regsLock] = op[m_regsLock]
  BY <1>1 DEF TypeOK
<1>2. AbsRegs' = AbsRegs
  BY <1>1 DEF AbsRegs, Holding, InBody, RegsOf
<1>3. AbsInbox' = AbsInbox
  <2>1. CASE m_regsLock = NoOwner
    BY <2>1 DEF AbsInbox, Holding
  <2>2. CASE m_regsLock # NoOwner
    <3>1. Holding("emit")' <=> Holding("emit")
      BY <1>1, <2>2 DEF Holding, InBody
    <3>2. \A c : Due(m_regsLock, c)' = Due(m_regsLock, c)
      BY <1>1, <2>2 DEF Due, ToServe, RegsOf
    <3>3. ASSUME NEW c \in Ctxs PROVE AbsInbox'[c] = AbsInbox[c]
      <4>1. (CHOOSE x \in Due(m_regsLock, c) : TRUE)' = CHOOSE x \in Due(m_regsLock, c) : TRUE
        BY <3>2
      <4>2. op'[m_regsLock'] = op[m_regsLock] /\ notified' = notified
        BY <1>1, <2>2
      <4> QED BY <3>1, <3>2, <4>1, <4>2 DEF AbsInbox, NoteOf
    <3> QED BY <3>3 DEF AbsInbox
  <2> QED BY <2>1, <2>2
<1> QED BY <1>2, <1>3

-----------------------------------------------------------------------------
(* One lemma per step.                                                     *)

\* The service speaks of the same calls and answers.
LEMMA SameVocabulary ==
  /\ Service!NoOp = NoOp
  /\ Service!NoResult = NoResult
  /\ \A ok, listeners : Service!Answer(ok, listeners) = Answer(ok, listeners)
  /\ Service!Idle = [state |-> "idle", op |-> NoOp, result |-> NoResult]
  BY DEF Service!NoOp, NoOp, Service!NoResult, NoResult, Service!Answer, Answer, Service!Idle

\* A call of the manager is a call of the service.
LEMMA InvokeRefined ==
  ASSUME RInv, NEW t \in Threads, NEW o \in Ops, Invoke(t, o)
  PROVE  Service!Invoke(t, o)
<1> USE DEF RInv, IInv
<1>1. op[t] = NoOp /\ result[t] = NoResult /\ m_regsLock # t
  BY NoOwnerAssumption DEF Invoke, CallShape, LockHeld, Inside
<1>2. AbsCalls[t] = Service!Idle
  BY <1>1, SameVocabulary DEF AbsCalls, Invoke, Phase
<1>3. AbsCalls' = [AbsCalls EXCEPT ![t] =
                     [state |-> "pending", op |-> o, result |-> NoResult]]
  <2>1. pc' = [pc EXCEPT ![t] = "lock"] /\ op' = [op EXCEPT ![t] = o]
        /\ result' = [result EXCEPT ![t] = NoResult]
    BY <1>1 DEF Invoke, TypeOK
  <2>2. Phase("lock", o) = "pending"
    BY DEF Phase
  <2> QED BY <2>1, <2>2, CallsStep
<1>4. AbsRegs' = AbsRegs /\ AbsInbox' = AbsInbox
  BY <1>1, ViewKept DEF Invoke, TypeOK
<1> QED BY <1>2, <1>3, <1>4, SameVocabulary DEF Service!Invoke

\* A return of the manager is a return of the service.
LEMMA ReturnRefined ==
  ASSUME RInv, NEW t \in Threads, Return(t)
  PROVE  Service!Return(t)
<1> USE DEF RInv, IInv
<1>1. m_regsLock # t
  BY NoOwnerAssumption DEF Return, LockHeld, Inside
<1>2. AbsCalls[t].state = "done"
  BY DEF AbsCalls, Return, Phase
<1>3. AbsCalls' = [AbsCalls EXCEPT ![t] = Service!Idle]
  <2>1. Phase("idle", NoOp) = "idle"
    BY DEF Phase
  <2>2. AbsCalls' = [AbsCalls EXCEPT ![t] =
                       [state |-> Phase("idle", NoOp), op |-> NoOp, result |-> NoResult]]
    BY CallsStep DEF Return
  <2> QED BY <2>1, <2>2, SameVocabulary
<1>4. AbsRegs' = AbsRegs /\ AbsInbox' = AbsInbox
  BY <1>1, ViewKept DEF Return, TypeOK
<1> QED BY <1>2, <1>3, <1>4 DEF Service!Return

\* What taking the lock is to the calls, as the service sees them.
LEMMA AcquireCalls ==
  ASSUME RInv, NEW t \in Threads, Acquire(t)
  PROVE  /\ AbsCalls[t] = [state |-> "pending", op |-> op[t], result |-> NoResult]
         /\ AbsCalls' = [AbsCalls EXCEPT ![t] =
                            [state |-> Phase("body", op[t]), op |-> op[t], result |-> NoResult]]
<1> USE DEF RInv, IInv
<1>1. AbsCalls[t] = [state |-> "pending", op |-> op[t], result |-> NoResult]
  BY DEF AbsCalls, Acquire, Phase, CallShape
<1>2. pc' = [pc EXCEPT ![t] = "body"] /\ op' = [op EXCEPT ![t] = op[t]]
      /\ result' = [result EXCEPT ![t] = NoResult]
  BY DEF Acquire, TypeOK, CallShape
<1>3. AbsCalls' = [AbsCalls EXCEPT ![t] =
                     [state |-> Phase("body", op[t]), op |-> op[t], result |-> NoResult]]
  BY <1>2, CallsStep
<1> QED BY <1>1, <1>3

\* The registrations of the service for an event and a client.
LEMMA RegistrationsInFlat ==
  ASSUME TypeOK, AbsRegs = Flat, NEW c \in Ctxs, NEW e \in Events
  PROVE  Service!RegistrationsOf(c, e) =
           {[event |-> e, id |-> r.m_id, ctx |-> c] :
              r \in {x \in RegsOf(e) : x.m_clientCtx = c}}
<1>1. RegsOf(e) \subseteq RegistrationInfo
  BY RegsOfTyped
<1> QED BY <1>1 DEF Service!RegistrationsOf, Flat, Registration, RegistrationInfo

\* An emission takes effect when it takes the lock.
LEMMA EmitRefined ==
  ASSUME RInv, RInv', NEW t \in Threads, Acquire(t), op[t].name = "emit"
  PROVE  Service!Emit(t)
<1> USE DEF RInv, IInv
<1> DEFINE o == op[t]
<1>1. AbsRegs = Flat /\ AbsInbox = notified
  BY Viewed DEF View, Acquire
<1>2. AbsRegs' = Flat' /\ EmitInbox(t)'
  BY ViewedNext DEF View, HeldView, Acquire, InBody, TypeOK
<1>3. Flat' = Flat
  BY DEF Acquire, Flat, RegsOf
<1>4. AbsCalls[t] = [state |-> "pending", op |-> o, result |-> NoResult]
  BY AcquireCalls
<1>5. AbsCalls' = [AbsCalls EXCEPT ![t] = [state |-> "done", op |-> o, result |-> NoResult]]
  <2>1. Phase("body", o) = "done"
    BY DEF Phase
  <2> QED BY <2>1, AcquireCalls
<1>6. ASSUME NEW c \in Ctxs
      PROVE  AbsInbox'[c] =
               IF Service!RegistrationsOf(c, o.event) = {} THEN AbsInbox[c]
               ELSE LET r == CHOOSE x \in Service!RegistrationsOf(c, o.event) : TRUE
                    IN  Append(AbsInbox[c], [id |-> r.id, event |-> o.event, num |-> o.num])
  <2> DEFINE mine == Service!RegistrationsOf(c, o.event)
             due  == {x \in RegsOf(o.event) : x.m_clientCtx = c}
  <2>1. o.event \in Events
    BY OpTypes
  <2>2. mine = {[event |-> o.event, id |-> r.m_id, ctx |-> c] : r \in due}
    BY <1>1, <2>1, RegistrationsInFlat
  <2>3. Due(t, c)' = due
    BY DEF Due, ToServe, RegsOf, Acquire, CallShape, Inside
  <2>4. op' = op /\ notified' = notified
    BY DEF Acquire
  <2>5. CASE due = {}
    BY <1>1, <1>2, <2>2, <2>3, <2>4, <2>5 DEF EmitInbox
  <2>6. ASSUME NEW r \in due
        PROVE  /\ mine # {}
               /\ (CHOOSE x \in mine : TRUE) = [event |-> o.event, id |-> r.m_id, ctx |-> c]
               /\ AbsInbox'[c] = Append(notified[c], [id |-> r.m_id, event |-> o.event, num |-> o.num])
    <3>1. \A x \in due : x = r
      BY DEF RegsOf, Table, OneRegistrationPerEvent
    <3>2. mine = {[event |-> o.event, id |-> r.m_id, ctx |-> c]}
      BY <2>2, <3>1
    <3>3. AbsInbox'[c] = Append(notified[c], NoteOf(r, o))
      BY <1>2, <2>3, <2>4 DEF EmitInbox, NoteOf
    <3> QED BY <3>2, <3>3 DEF NoteOf
  <2>7. CASE due # {}
    <3>1. PICK r \in due : TRUE
      BY <2>7
    <3>2. Service!RegistrationsOf(c, o.event) = mine
      OBVIOUS
    <3>3. mine # {}
          /\ (CHOOSE x \in mine : TRUE) = [event |-> o.event, id |-> r.m_id, ctx |-> c]
      BY <2>6
    <3>4. AbsInbox'[c] = Append(AbsInbox[c], [id |-> r.m_id, event |-> o.event, num |-> o.num])
      BY <1>1, <2>6
    <3> HIDE DEF mine, due, o
    <3>5. [event |-> o.event, id |-> r.m_id, ctx |-> c].id = r.m_id
      OBVIOUS
    <3>6. (CHOOSE x \in mine : TRUE).id = r.m_id
      BY ONLY <3>3, <3>5
    <3> QED BY <3>2, <3>3, <3>4, <3>6
  <2> QED BY <2>5, <2>7
<1>7. AbsInbox' = [c \in Ctxs |-> AbsInbox'[c]]
  BY <1>2 DEF EmitInbox
<1> HIDE DEF o
<1>8. Service!Pending(t, "emit") /\ Service!Complete(t, Service!NoResult)
  BY <1>4, <1>5, SameVocabulary DEF Service!Pending, Service!Complete, o
<1>9. AbsCalls[t].op = o
  BY <1>4
<1> QED BY <1>1, <1>2, <1>3, <1>6, <1>7, <1>8, <1>9 DEF Service!Emit

\* A call whose thread is inside the table, and returns from it with answer.
LEMMA LeaveCalls ==
  ASSUME RInv, NEW t \in Threads, Inside(t), NEW answer, Leave(t, answer)
  PROVE  /\ AbsCalls[t] = [state |-> Phase(pc[t], op[t]), op |-> op[t], result |-> NoResult]
         /\ AbsCalls' = [AbsCalls EXCEPT ![t] =
                            [state |-> "done", op |-> op[t], result |-> answer]]
<1> USE DEF RInv, IInv
<1>1. AbsCalls[t] = [state |-> Phase(pc[t], op[t]), op |-> op[t], result |-> NoResult]
  BY DEF AbsCalls, CallShape, Inside
<1>2. pc' = [pc EXCEPT ![t] = "return"] /\ op' = [op EXCEPT ![t] = op[t]]
      /\ result' = [result EXCEPT ![t] = answer]
  BY DEF Leave, TypeOK
<1>3. Phase("return", op[t]) = "done"
  BY DEF Phase
<1>4. AbsCalls' = [AbsCalls EXCEPT ![t] =
                     [state |-> Phase("return", op[t]), op |-> op[t], result |-> answer]]
  BY <1>2, CallsStep
<1> QED BY <1>1, <1>3, <1>4

\* The table and the inboxes around a call that takes effect when it leaves.
LEMMA LeaveView ==
  ASSUME RInv, RInv', NEW t \in Threads, Inside(t),
         op[t].name \notin {"unregisterConn", "emit"}, NEW answer, Leave(t, answer)
  PROVE  AbsRegs = Flat /\ AbsRegs' = Flat' /\ AbsInbox' = AbsInbox
<1> USE DEF RInv, IInv
<1>1. AbsRegs = Flat /\ AbsInbox = notified
  BY Viewed DEF View, HeldView, OwnerInside
<1>2. AbsRegs' = Flat' /\ AbsInbox' = notified'
  BY ViewedNext DEF View, Leave
<1> QED BY <1>1, <1>2 DEF Leave

\* To the service such a call is pending until then, and then complete.
LEMMA LeaveCompletes ==
  ASSUME RInv, NEW t \in Threads, Inside(t),
         op[t].name \notin {"unregisterConn", "emit"}, NEW answer, Leave(t, answer)
  PROVE  /\ AbsCalls[t].op = op[t]
         /\ Service!Pending(t, op[t].name)
         /\ Service!Complete(t, answer)
<1>1. Phase(pc[t], op[t]) = "pending"
  BY DEF Phase, Inside
<1>2. AbsCalls[t] = [state |-> "pending", op |-> op[t], result |-> NoResult]
  BY <1>1, LeaveCalls
<1>3. AbsCalls' = [AbsCalls EXCEPT ![t] =
                     [state |-> "done", op |-> op[t], result |-> answer]]
  BY LeaveCalls
<1> QED BY <1>2, <1>3 DEF Service!Pending, Service!Complete

\* A registration that finds no duplicate shows callers nothing yet.
LEMMA GoesOnRefined ==
  ASSUME RInv, RInv', NEW t \in Threads, SearchRegs(t), ~Taken(t)
  PROVE  UNCHANGED Service!vars
<1> USE DEF RInv, IInv
<1>1. /\ pc[t] = "body" /\ op[t].name = "register" /\ pc' = [pc EXCEPT ![t] = "insert"]
      /\ m_registrations' = [e \in DOMAIN m_registrations \cup {op[t].event} |-> RegsOf(e)]
      /\ UNCHANGED <<m_regsLock, op, visited, result, notified>>
  BY DEF SearchRegs, InBody
<1>2. m_regsLock = t
  BY <1>1 DEF OwnerInside, Inside
<1>3. AbsRegs = Flat /\ AbsInbox = notified
  BY <1>1, <1>2, Viewed DEF View, HeldView
<1>4. AbsRegs' = Flat' /\ AbsInbox' = notified'
  BY <1>1, <1>2, ViewedNext DEF View, HeldView
<1>5. Flat' = Flat
  <2>1. \A e : RegsOf(e)' = RegsOf(e)
    BY <1>1 DEF RegsOf
  <2> QED BY <2>1 DEF Flat
<1>6. AbsCalls' = AbsCalls
  BY <1>1 DEF AbsCalls, Phase, TypeOK
<1> QED BY <1>1, <1>3, <1>4, <1>5, <1>6 DEF Service!vars

\* The client is known to the service for the event, or it is not.
LEMMA TakenInFlat ==
  ASSUME TypeOK, NEW t \in Threads, op[t].event \in Events, op[t].ctx \in Ctxs
  PROVE  (\E r \in Flat : r.event = op[t].event /\ r.ctx = op[t].ctx) <=> Taken(t)
<1> DEFINE o == op[t]
<1>1. ASSUME NEW r \in Flat, r.event = o.event, r.ctx = o.ctx PROVE Taken(t)
  <2>1. [m_id |-> r.id, m_clientCtx |-> r.ctx] \in RegsOf(o.event)
    BY <1>1 DEF Flat
  <2> QED BY <1>1, <2>1 DEF Taken, areCtxEqual
<1>2. ASSUME NEW x \in RegsOf(o.event), x.m_clientCtx = o.ctx
      PROVE  \E r \in Flat : r.event = o.event /\ r.ctx = o.ctx
  <2>1. x \in RegistrationInfo
    BY RegsOfTyped
  <2>2. [event |-> o.event, id |-> x.m_id, ctx |-> o.ctx] \in Flat
    BY <1>2, <2>1 DEF Flat, Registration, RegistrationInfo
  <2> QED BY <2>2
<1> QED BY <1>1, <1>2 DEF Taken, areCtxEqual

\* A registration takes effect when it leaves: it has found a duplicate, or
\* inserts after a search that holds still.
LEMMA RegisterRefined ==
  ASSUME RInv, RInv', NEW t \in Threads, (SearchRegs(t) /\ Taken(t)) \/ PushSubInfo(t)
  PROVE  Service!Register(t)
<1> USE DEF RInv, IInv
<1> DEFINE o == op[t]
           info == [m_id |-> o.id, m_clientCtx |-> o.ctx]
           taken == Taken(t)
<1>1. Inside(t) /\ o.name = "register"
  BY DEF SearchRegs, PushSubInfo, InBody, Inside
<1>2. o.event \in Events /\ o.id \in Ids /\ o.ctx \in Ctxs
  BY <1>1, OpTypes
<1>3. /\ Leave(t, Answer(~taken, {}))
      /\ taken => UNCHANGED m_registrations
      /\ ~taken => m_registrations' = StoreEntry(o.event, RegsOf(o.event) \cup {info})
  <2>1. CASE SearchRegs(t) /\ taken
    BY <2>1 DEF SearchRegs
  <2>2. CASE PushSubInfo(t)
    <3>1. ~taken
      BY <2>2 DEF PushSubInfo, Table, SearchHolds
    <3> QED BY <2>2, <3>1 DEF PushSubInfo
  <2> QED BY <2>1, <2>2
<1>4. AbsRegs = Flat /\ AbsRegs' = Flat' /\ AbsInbox' = AbsInbox
  BY <1>1, <1>3, LeaveView
<1>5. /\ AbsCalls[t].op = o
      /\ Service!Pending(t, "register")
      /\ Service!Complete(t, Answer(~taken, {}))
  BY <1>1, <1>3, LeaveCompletes
<1>6. Service!Answer(~taken, {}) = Answer(~taken, {})
  BY SameVocabulary
<1>7. (\E r \in Flat : r.event = o.event /\ r.ctx = o.ctx) <=> taken
  BY <1>2, TakenInFlat
<1>8. Flat' = IF taken THEN Flat
              ELSE Flat \cup {[event |-> o.event, id |-> o.id, ctx |-> o.ctx]}
  <2>1. CASE taken
    BY <1>3, <2>1 DEF Flat, RegsOf
  <2>2. CASE ~taken
    <3>1. \A x : RegsOf(x)' = IF x = o.event THEN RegsOf(o.event) \cup {info} ELSE RegsOf(x)
      BY <1>3, <2>2, StoredRegs
    <3> QED BY <1>2, <2>2, <3>1 DEF Flat, Registration
  <2> QED BY <2>1, <2>2
<1> HIDE DEF o, taken
<1> QED BY <1>4, <1>5, <1>6, <1>7, <1>8 DEF Service!Register

\* Inside the lock, a registration is taken back.
LEMMA UnregisterRefined ==
  ASSUME RInv, RInv', NEW t \in Threads, unregisterFromEvent(t)
  PROVE  Service!Unregister(t)
<1> USE DEF RInv, IInv
<1> DEFINE o == op[t]
           r == [event |-> o.event, id |-> o.id, ctx |-> o.ctx]
           found == {x \in RegsOf(o.event) : x.m_id = o.id /\ x.m_clientCtx = o.ctx}
<1>1. o.event \in Events /\ o.id \in Ids /\ o.ctx \in Ctxs
  BY OpTypes DEF unregisterFromEvent, InBody
<1>2. /\ Leave(t, Answer(found # {}, {}))
      /\ m_registrations' = StoreEntry(o.event, RegsOf(o.event) \ found)
  BY DEF unregisterFromEvent, areCtxEqual
<1>3. pc[t] = "body" /\ op[t].name = "unregister"
  BY DEF unregisterFromEvent, InBody
<1>4. AbsRegs = Flat /\ AbsRegs' = Flat' /\ AbsInbox' = AbsInbox
  BY <1>2, <1>3, LeaveView DEF Inside
<1>5. /\ AbsCalls[t].op = o
      /\ Service!Pending(t, "unregister")
      /\ Service!Complete(t, Answer(found # {}, {}))
  BY <1>2, <1>3, LeaveCompletes DEF Inside
<1>6. Service!Answer(found # {}, {}) = Answer(found # {}, {})
  BY SameVocabulary
<1>7. found = RegsOf(o.event) \cap {[m_id |-> o.id, m_clientCtx |-> o.ctx]}
  <2>1. \A x \in RegsOf(o.event) : x \in RegistrationInfo
    BY <1>1, RegsOfTyped
  <2> QED BY <2>1 DEF RegistrationInfo
<1>8. r \in Flat <=> found # {}
  BY <1>1, <1>7 DEF Flat, Registration
<1>9. Flat' = Flat \ {r}
  <2>1. \A x : RegsOf(x)' = IF x = o.event THEN RegsOf(o.event) \ found ELSE RegsOf(x)
    BY <1>2, StoredRegs
  <2>2. ASSUME NEW x \in Registration PROVE x \in Flat' <=> x \in Flat \ {r}
    <3>1. x = r <=> x.event = o.event /\ x.id = o.id /\ x.ctx = o.ctx
      BY DEF Registration
    <3>2. x \in Flat <=> [m_id |-> x.id, m_clientCtx |-> x.ctx] \in RegsOf(x.event)
      BY DEF Flat
    <3>3. x \in Flat' <=> [m_id |-> x.id, m_clientCtx |-> x.ctx] \in RegsOf(x.event)'
      BY DEF Flat
    <3> QED BY <1>7, <2>1, <3>1, <3>2, <3>3
  <2> QED BY <2>2 DEF Flat
<1> HIDE DEF o, found
<1> QED BY <1>4, <1>5, <1>6, <1>8, <1>9 DEF Service!Unregister

\* Inside the lock, the listeners are listed.
LEMMA GetListenersRefined ==
  ASSUME RInv, RInv', NEW t \in Threads, getListenersOfEvents(t)
  PROVE  Service!GetListeners(t)
<1>1. Leave(t, Answer(TRUE, Flat))
  BY DEF getListenersOfEvents, Flat
<1>2. pc[t] = "body" /\ op[t].name = "getListeners"
  BY DEF getListenersOfEvents, InBody
<1>3. AbsRegs = Flat /\ AbsRegs' = Flat' /\ AbsInbox' = AbsInbox
  BY <1>1, <1>2, LeaveView DEF Inside
<1>4. Flat' = Flat
  BY DEF getListenersOfEvents, Flat, RegsOf
<1>5. Service!Pending(t, "getListeners") /\ Service!Complete(t, Answer(TRUE, Flat))
  BY <1>1, <1>2, LeaveCompletes DEF Inside
<1>6. Service!Answer(TRUE, Flat) = Answer(TRUE, Flat)
  BY SameVocabulary
<1> QED BY <1>3, <1>4, <1>5, <1>6 DEF Service!GetListeners

\* A call that drops a connection takes effect when it takes the lock.
LEMMA UnregisterConnRefined ==
  ASSUME RInv, RInv', NEW t \in Threads, Acquire(t), op[t].name = "unregisterConn"
  PROVE  Service!UnregisterConn(t)
<1> USE DEF RInv, IInv
<1>1. AbsRegs = Flat /\ AbsInbox = notified
  BY Viewed DEF View, Acquire
<1>2. AbsRegs' = {r \in Flat' : r.ctx # op[t].ctx} /\ AbsInbox' = notified'
  BY ViewedNext DEF View, HeldView, Acquire, InBody, TypeOK
<1>3. Flat' = Flat /\ notified' = notified
  BY DEF Acquire, Flat, RegsOf
<1>4. Phase("body", op[t]) = "done"
  BY DEF Phase
<1>5. AbsCalls[t] = [state |-> "pending", op |-> op[t], result |-> NoResult]
  BY AcquireCalls
<1>6. AbsCalls' = [AbsCalls EXCEPT ![t] =
                     [state |-> "done", op |-> op[t], result |-> NoResult]]
  BY <1>4, AcquireCalls
<1>7. Service!Pending(t, "unregisterConn") /\ Service!Complete(t, Service!NoResult)
  BY <1>5, <1>6, SameVocabulary DEF Service!Pending, Service!Complete
<1> QED BY <1>1, <1>2, <1>3, <1>5, <1>7 DEF Service!UnregisterConn

\* For the other calls the lock is not to be seen.
LEMMA AcquireRefined ==
  ASSUME RInv, RInv', NEW t \in Threads, Acquire(t),
         op[t].name \notin {"unregisterConn", "emit"}
  PROVE  UNCHANGED Service!vars
<1> USE DEF RInv, IInv
<1>1. AbsRegs = Flat /\ AbsInbox = notified
  BY Viewed DEF View, Acquire
<1>2. AbsRegs' = Flat' /\ AbsInbox' = notified'
  BY ViewedNext DEF View, HeldView, Acquire, InBody, TypeOK
<1>3. Flat' = Flat /\ notified' = notified
  BY DEF Acquire, Flat, RegsOf
<1>4. Phase("body", op[t]) = "pending"
  BY DEF Phase
<1>5. AbsCalls' = [AbsCalls EXCEPT ![t] = AbsCalls[t]]
  BY <1>4, AcquireCalls
<1>6. AbsCalls' = AbsCalls
  BY <1>5 DEF AbsCalls
<1> QED BY <1>1, <1>2, <1>3, <1>6 DEF Service!vars

\* When a call that has taken effect leaves, callers see nothing of it.
LEMMA LeaveSilent ==
  ASSUME RInv, NEW t \in Threads, pc[t] = "body",
         op[t].name \in {"unregisterConn", "emit"}, Leave(t, NoResult)
  PROVE  AbsCalls' = AbsCalls
<1>1. Phase(pc[t], op[t]) = "done" /\ Inside(t)
  BY DEF Phase, Inside
<1>2. AbsCalls[t] = [state |-> "done", op |-> op[t], result |-> NoResult]
  BY <1>1, LeaveCalls
<1>3. AbsCalls' = [AbsCalls EXCEPT ![t] =
                     [state |-> "done", op |-> op[t], result |-> NoResult]]
  BY <1>1, LeaveCalls
<1> QED BY <1>2, <1>3 DEF AbsCalls

\* A disconnection took effect with its lock; its leaving is a stutter.
LEMMA UnregisterConnLeaves ==
  ASSUME RInv, RInv', NEW t \in Threads, unregisterConn(t)
  PROVE  UNCHANGED Service!vars
<1> USE DEF RInv, IInv
<1>1. Leave(t, NoResult) /\ pc[t] = "body" /\ op[t].name = "unregisterConn"
  BY DEF unregisterConn, InBody
<1>2. AbsRegs = {r \in Flat : r.ctx # op[t].ctx} /\ AbsInbox = notified
  BY <1>1, Viewed DEF View, HeldView, OwnerInside, Inside, InBody
<1>3. AbsRegs' = Flat' /\ AbsInbox' = notified'
  BY <1>1, ViewedNext DEF View, Leave
<1>4. \A x : RegsOf(x)' = {r \in RegsOf(x) : r.m_clientCtx # op[t].ctx}
  BY DEF unregisterConn, RegsOf, areCtxEqual
<1>5. Flat' = {r \in Flat : r.ctx # op[t].ctx}
  BY <1>4 DEF Flat
<1>6. notified' = notified
  BY <1>1 DEF Leave
<1> QED BY <1>1, <1>2, <1>3, <1>5, <1>6, LeaveSilent DEF Service!vars

\* An emission took effect with its lock; its end is a stutter.
LEMMA EmitDoneRefined ==
  ASSUME RInv, RInv', NEW t \in Threads, emitDone(t)
  PROVE  UNCHANGED Service!vars
<1> USE DEF RInv, IInv
<1>1. Leave(t, NoResult) /\ pc[t] = "body" /\ op[t].name = "emit"
  BY DEF emitDone, InBody
<1>2. AbsRegs = Flat /\ EmitInbox(t)
  BY <1>1, Viewed DEF View, HeldView, OwnerInside, Inside, InBody
<1>3. AbsInbox = notified
  BY <1>2 DEF EmitInbox, Due, emitDone, TypeOK
<1>4. AbsRegs' = Flat' /\ AbsInbox' = notified'
  BY <1>1, ViewedNext DEF View, Leave
<1>5. Flat' = Flat /\ notified' = notified
  BY <1>1 DEF Leave, emitDone, Flat, RegsOf
<1> QED BY <1>1, <1>2, <1>3, <1>4, <1>5, LeaveSilent DEF Service!vars

\* A notification handed over was in the service's inbox already.
LEMMA OnConnEventRefined ==
  ASSUME RInv, RInv', NEW t \in Threads, NEW r \in RegistrationInfo, onConnEvent(t, r)
  PROVE  UNCHANGED Service!vars
<1> USE DEF RInv, IInv
<1>1. InBody(t, "emit") /\ InBody(t, "emit")' /\ m_regsLock = t /\ m_regsLock' = t
  BY DEF onConnEvent, InBody, OwnerInside, Inside
<1>2. AbsRegs = Flat /\ EmitInbox(t)
  BY <1>1, Viewed DEF View, HeldView
<1>3. AbsRegs' = Flat' /\ EmitInbox(t)'
  BY <1>1, ViewedNext DEF View, HeldView
<1>4. Flat' = Flat
  BY DEF onConnEvent, Flat, RegsOf
<1>5. AbsCalls' = AbsCalls
  BY DEF onConnEvent, AbsCalls, Phase
<1>6. ASSUME NEW c \in Ctxs PROVE AbsInbox'[c] = AbsInbox[c]
  <2>1. Due(t, c)' = Due(t, c) \ {r}
    BY DEF Due, ToServe, RegsOf, onConnEvent, TypeOK
  <2>2. op' = op
    BY DEF onConnEvent
  <2>3. CASE c = r.m_clientCtx
    <3>1. r \in Due(t, c)
      BY <2>3 DEF Due, onConnEvent
    <3>2. Due(t, c) = {r}
      BY <3>1 DEF Due, ToServe, RegsOf, Table, OneRegistrationPerEvent
    <3>3. AbsInbox[c] = Append(notified[c], NoteOf(r, op[t]))
      BY <1>2, <3>1 DEF EmitInbox
    <3>4. AbsInbox'[c] = notified'[c]
      BY <1>3, <2>1, <3>2 DEF EmitInbox
    <3>5. notified'[c] = Append(notified[c], NoteOf(r, op[t]))
      BY <2>3 DEF onConnEvent, TypeOK
    <3> QED BY <3>3, <3>4, <3>5
  <2>4. CASE c # r.m_clientCtx
    <3>1. Due(t, c)' = Due(t, c)
      BY <2>1, <2>4 DEF Due
    <3>2. notified'[c] = notified[c]
      BY <2>4 DEF onConnEvent, TypeOK
    <3>3. CASE Due(t, c) = {}
      BY <1>2, <1>3, <3>1, <3>2, <3>3 DEF EmitInbox
    <3>4. ASSUME NEW x \in Due(t, c) PROVE AbsInbox'[c] = AbsInbox[c]
      <4>1. AbsInbox[c] = Append(notified[c], NoteOf(x, op[t]))
        BY <1>2 DEF EmitInbox
      <4>2. AbsInbox'[c] = Append(notified'[c], NoteOf(x, op[t]))
        BY <1>3, <2>2, <3>1 DEF EmitInbox, NoteOf
      <4> QED BY <3>2, <4>1, <4>2
    <3> QED BY <3>3, <3>4
  <2> QED BY <2>3, <2>4
<1>7. AbsInbox' = AbsInbox
  BY <1>2, <1>3, <1>6 DEF EmitInbox
<1> QED BY <1>2, <1>3, <1>4, <1>5, <1>7 DEF Service!vars

-----------------------------------------------------------------------------
(* The refinement.                                                         *)

\* The manager starts as the service does.
LEMMA InitRefined == Init => Service!Init
<1> SUFFICES ASSUME Init PROVE Service!Init
  OBVIOUS
<1>1. AbsRegs = {}
  BY DEF Init, AbsRegs, RegsOf
<1>2. AbsInbox = [c \in Ctxs |-> <<>>]
  BY DEF Init, AbsInbox, Holding
<1>3. AbsCalls = [t \in Threads |-> Service!Idle]
  BY SameVocabulary DEF Init, AbsCalls, Phase
<1> QED BY <1>1, <1>2, <1>3 DEF Service!Init

\* Every step of the manager is a step of the service or none.
LEMMA StepRefined ==
  ASSUME RInv, RInv', [Next]_vars
  PROVE  [Service!Next]_(Service!vars)
<1> SUFFICES Service!Next \/ UNCHANGED Service!vars
  OBVIOUS
<1> USE DEF Service!Next
<1>1. ASSUME NEW t \in Threads, NEW o \in Ops, Invoke(t, o) PROVE Service!Next
  <2>1. o \in Service!Ops
    BY DEF Ops, RegisterOps, UnregisterConnOps, ListenersOps, EmitOps,
           Service!Ops, Service!RegisterOps, Service!UnregisterConnOps,
           Service!ListenersOps, Service!EmitOps
  <2> QED BY <1>1, <2>1, InvokeRefined
<1>2. ASSUME NEW t \in Threads, NEW e \in Events, onEvent(t, e) PROVE Service!Next
  <2> DEFINE o == [name |-> "emit", event |-> e, num |-> eventCnt']
  <2>1. eventCnt' \in 1..MaxEvents
    BY <1>2, MaxEventsAssumption DEF onEvent, RInv, IInv, TypeOK
  <2>2. o \in Ops
    BY <2>1 DEF Ops, EmitOps
  <2>3. Invoke(t, o)
    BY <1>2 DEF onEvent
  <2> QED BY <1>1, <2>2, <2>3
<1>3. ASSUME NEW t \in Threads, Acquire(t) PROVE Service!Next \/ UNCHANGED Service!vars
  BY <1>3, EmitRefined, UnregisterConnRefined, AcquireRefined
<1>4. ASSUME NEW t \in Threads, Body(t) PROVE Service!Next \/ UNCHANGED Service!vars
  BY <1>4, GoesOnRefined, RegisterRefined, UnregisterRefined, GetListenersRefined,
     UnregisterConnLeaves, OnConnEventRefined, EmitDoneRefined DEF Body, registerToEvent
<1>5. ASSUME NEW t \in Threads, Return(t) PROVE Service!Next
  BY <1>5, ReturnRefined
<1>6. CASE UNCHANGED vars
  BY <1>6 DEF vars, callVars, Service!vars, AbsRegs, AbsInbox, AbsCalls, Phase,
              Holding, InBody, Due, ToServe, RegsOf, NoteOf
<1> QED BY <1>1, <1>2, <1>3, <1>4, <1>5, <1>6 DEF Next, Call

\* Linearizability: whatever threads call the event manager and however their
\* calls interleave, each call takes effect at one instant between its
\* invocation and its return.
THEOREM Linearized == Spec => Linearizable
<1>1. Init => Service!Init
  BY InitRefined
<1>2. RInv /\ RInv' /\ [Next]_vars => [Service!Next]_(Service!vars)
  BY StepRefined
<1> QED BY <1>1, <1>2, RInvariant, PTL DEF Spec, Linearizable, Service!Spec

=============================================================================
