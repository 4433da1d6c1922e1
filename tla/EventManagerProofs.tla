------------------------ MODULE EventManagerProofs -------------------------
(***************************************************************************)
(* Proofs about EventManager, for every set of threads, clients, events    *)
(* and ids, and every number of emissions.                                 *)
(*                                                                         *)
(* The invariants are proved in layers: type correctness first, then mutual *)
(* exclusion on m_regsLock, then the shape of the table, and on top of     *)
(* these what emissions have handed out so far.                            *)
(***************************************************************************)
EXTENDS EventManager, TLAPS

-----------------------------------------------------------------------------
(* Type correctness.                                                       *)

\* A call's name tells which arguments it has.
LEMMA OpTypes ==
  ASSUME TypeOK, NEW t \in Threads
  PROVE  /\ op[t].name \in {"register", "unregister"} =>
              op[t].event \in Events /\ op[t].id \in Ids /\ op[t].ctx \in Ctxs
         /\ op[t].name = "unregisterConn" => op[t].ctx \in Ctxs
         /\ op[t].name = "emit" => op[t].event \in Events /\ op[t].num \in 1..MaxEvents
  BY DEF TypeOK, Ops, RegisterOps, UnregisterConnOps, ListenersOps, EmitOps, NoOp

TableTyped ==
  /\ DOMAIN m_registrations \subseteq Events
  /\ \A e \in DOMAIN m_registrations : m_registrations[e] \subseteq RegistrationInfo

\* The table a call stores under a key is again a table.
LEMMA StoreEntryTyped ==
  ASSUME TypeOK, NEW e \in Events, NEW regs \in SUBSET RegistrationInfo,
         m_registrations' = StoreEntry(e, regs)
  PROVE  TableTyped'
  BY DEF StoreEntry, Restrict, TypeOK, TableTyped

\* A key's registrations are registrations, stored or not.
LEMMA RegsOfTyped ==
  ASSUME TypeOK, NEW e \in Events
  PROVE  RegsOf(e) \subseteq RegistrationInfo
  BY DEF RegsOf, TypeOK

\* A call that leaves with a result, and the table it leaves, keep the types.
LEMMA LeaveTyped ==
  ASSUME TypeOK, NEW t \in Threads, NEW answer \in Result, Leave(t, answer), TableTyped'
  PROVE  TypeOK'
  BY DEF Leave, TypeOK, TableTyped

\* The answers the calls give.
LEMMA AnswerTyped ==
  /\ Answer(FALSE, {}) \in Result
  /\ \A ls \in SUBSET Registration : Answer(TRUE, ls) \in Result
  /\ NoResult \in Result
  BY DEF Answer, Result, NoResult

\* The types hold at first.
LEMMA InitTypeOK == Init => TypeOK
<1> SUFFICES ASSUME Init PROVE TypeOK
  OBVIOUS
<1>1. NoResult \in Result /\ eventCnt \in 0..MaxEvents /\ <<>> \in Seq(Note)
  BY AnswerTyped, MaxEventsAssumption DEF Init
<1> QED
  BY <1>1 DEF Init, TypeOK

\* A call that begins keeps the types.
LEMMA InvokeTyped ==
  ASSUME TypeOK, NEW t \in Threads, NEW o \in Ops, Invoke(t, o), eventCnt' \in 0..MaxEvents
  PROVE  TypeOK'
  BY DEF Invoke, TypeOK

\* Every step keeps the types.
LEMMA StepTypeOK ==
  ASSUME TypeOK, [Next]_vars
  PROVE  TypeOK'
<1>1. ASSUME NEW t \in Threads, NEW o \in Ops, Call(t, o) PROVE TypeOK'
  <2> eventCnt' \in 0..MaxEvents
    BY <1>1 DEF Call, TypeOK
  <2> QED BY <1>1, InvokeTyped DEF Call
<1>2. ASSUME NEW t \in Threads, NEW e \in Events, onEvent(t, e) PROVE TypeOK'
  <2> DEFINE o == [name |-> "emit", event |-> e, num |-> eventCnt']
  <2>1. eventCnt' \in 1..MaxEvents
    BY <1>2, MaxEventsAssumption DEF onEvent, TypeOK
  <2>2. o \in Ops
    BY <2>1 DEF Ops, EmitOps
  <2>3. Invoke(t, o) /\ eventCnt' \in 0..MaxEvents
    BY <1>2, <2>1 DEF onEvent
  <2> HIDE DEF o
  <2> QED BY <2>2, <2>3, InvokeTyped
<1>3. ASSUME NEW t \in Threads, Acquire(t) PROVE TypeOK'
  BY <1>3 DEF Acquire, TypeOK
<1>4. ASSUME NEW t \in Threads, Return(t) PROVE TypeOK'
  BY <1>4, AnswerTyped DEF Return, TypeOK
<1>5. ASSUME NEW t \in Threads, SearchRegs(t) PROVE TypeOK'
  <2>1. op[t].event \in Events
    BY <1>5, OpTypes DEF SearchRegs, InBody
  <2>2. CASE Taken(t)
    <3>1. Leave(t, Answer(FALSE, {})) /\ m_registrations' = m_registrations
      BY <1>5, <2>2 DEF SearchRegs
    <3>2. TableTyped'
      BY <3>1 DEF TableTyped, TypeOK
    <3> QED BY <3>1, <3>2, LeaveTyped, AnswerTyped
  <2>3. CASE ~Taken(t)
    <3>1. /\ m_registrations' = [e \in DOMAIN m_registrations \cup {op[t].event} |-> RegsOf(e)]
          /\ pc' = [pc EXCEPT ![t] = "insert"]
          /\ UNCHANGED <<m_regsLock, op, visited, result, notified, eventCnt>>
      BY <1>5, <2>3 DEF SearchRegs
    <3>2. \A e \in Events : RegsOf(e) \subseteq RegistrationInfo
      BY RegsOfTyped
    <3>3. TableTyped'
      BY <2>1, <3>1, <3>2 DEF TableTyped, TypeOK
    <3> QED BY <3>1, <3>3 DEF TypeOK, TableTyped
  <2> QED BY <2>2, <2>3
<1>12. ASSUME NEW t \in Threads, PushSubInfo(t) PROVE TypeOK'
  <2> DEFINE r == [m_id |-> op[t].id, m_clientCtx |-> op[t].ctx]
  <2>1. op[t].event \in Events /\ r \in RegistrationInfo
    BY <1>12, OpTypes DEF PushSubInfo, RegistrationInfo
  <2>2. /\ m_registrations' = StoreEntry(op[t].event, RegsOf(op[t].event) \cup {r})
        /\ Leave(t, Answer(TRUE, {}))
    BY <1>12 DEF PushSubInfo
  <2>3. RegsOf(op[t].event) \cup {r} \in SUBSET RegistrationInfo
    BY <2>1, RegsOfTyped
  <2> HIDE DEF r
  <2>4. TableTyped'
    BY <2>1, <2>2, <2>3, StoreEntryTyped
  <2> QED BY <2>2, <2>4, LeaveTyped, AnswerTyped
<1>6. ASSUME NEW t \in Threads, unregisterFromEvent(t) PROVE TypeOK'
  <2> DEFINE found == {r \in RegsOf(op[t].event) :
                         r.m_id = op[t].id /\ areCtxEqual(op[t].ctx, r.m_clientCtx)}
  <2>1. op[t].event \in Events
    BY <1>6, OpTypes DEF unregisterFromEvent, InBody
  <2>2. RegsOf(op[t].event) \ found \in SUBSET RegistrationInfo
    BY <2>1, RegsOfTyped
  <2>3. /\ m_registrations' = StoreEntry(op[t].event, RegsOf(op[t].event) \ found)
        /\ Leave(t, Answer(found # {}, {}))
    BY <1>6 DEF unregisterFromEvent
  <2> DEFINE answer == Answer(found # {}, {})
  <2> HIDE DEF found
  <2>4. TableTyped'
    BY <2>1, <2>2, <2>3, StoreEntryTyped
  <2>5. answer \in Result /\ Leave(t, answer)
    BY <2>3 DEF Answer, Result
  <2> HIDE DEF answer
  <2> QED BY <2>4, <2>5, LeaveTyped
<1>7. ASSUME NEW t \in Threads, getListenersOfEvents(t) PROVE TypeOK'
  <2> DEFINE ls == {l \in Registration :
                      [m_id |-> l.id, m_clientCtx |-> l.ctx] \in RegsOf(l.event)}
  <2>1. Leave(t, Answer(TRUE, ls)) /\ m_registrations' = m_registrations
    BY <1>7 DEF getListenersOfEvents
  <2>2. TableTyped'
    BY <2>1 DEF TableTyped, TypeOK
  <2>3. ls \in SUBSET Registration
    OBVIOUS
  <2> HIDE DEF ls
  <2> QED BY <2>1, <2>2, <2>3, LeaveTyped, AnswerTyped
<1>8. ASSUME NEW t \in Threads, unregisterConn(t) PROVE TypeOK'
  <2>1. TableTyped'
    BY <1>8 DEF unregisterConn, TypeOK, TableTyped
  <2> QED BY <1>8, <2>1, LeaveTyped, AnswerTyped DEF unregisterConn
<1>9. ASSUME NEW t \in Threads, NEW r \in RegistrationInfo, onConnEvent(t, r) PROVE TypeOK'
  <2>1. NoteOf(r, op[t]) \in Note /\ r.m_clientCtx \in Ctxs
    BY <1>9, OpTypes DEF onConnEvent, InBody, NoteOf, Note, RegistrationInfo
  <2> QED BY <1>9, <2>1 DEF onConnEvent, TypeOK
<1>10. ASSUME NEW t \in Threads, emitDone(t) PROVE TypeOK'
  <2>1. TableTyped'
    BY <1>10 DEF emitDone, TableTyped, TypeOK
  <2> QED BY <1>10, <2>1, LeaveTyped, AnswerTyped DEF emitDone
<1>11. CASE UNCHANGED vars
  BY <1>11 DEF vars, callVars, TypeOK
<1> QED
  BY <1>1, <1>2, <1>3, <1>4, <1>5, <1>6, <1>7, <1>8, <1>9, <1>10, <1>11, <1>12
  DEF Next, Body, registerToEvent

\* Whatever the calls and their interleaving, the table maps event names to
\* registrations and every thread's call is one the manager offers.
THEOREM TypeCorrect == Spec => []TypeOK
  BY InitTypeOK, StepTypeOK, PTL DEF Spec

-----------------------------------------------------------------------------
(* Mutual exclusion, and what the table looks like between two calls.      *)

\* A registration has found no duplicate and goes on to insert.
GoesOn(t) ==
  /\ InBody(t, "register")
  /\ pc' = [pc EXCEPT ![t] = "insert"]
  /\ UNCHANGED <<m_regsLock, op, visited, result, notified, eventCnt>>

\* The ways a step inside the table ends: a notification is handed out, a
\* registration goes on to insert, or the call leaves.
LEMMA BodySteps ==
  ASSUME NEW t \in Threads, Body(t)
  PROVE  \/ \E r \in RegistrationInfo : onConnEvent(t, r)
         \/ GoesOn(t)
         \/ Inside(t) /\ \E answer : Leave(t, answer)
<1>1. CASE SearchRegs(t)
  <2>1. CASE Taken(t)
    BY <1>1, <2>1 DEF SearchRegs, InBody, Inside
  <2>2. CASE ~Taken(t)
    BY <1>1, <2>2 DEF SearchRegs, GoesOn
  <2> QED BY <2>1, <2>2
<1>2. CASE PushSubInfo(t)
  BY <1>2 DEF PushSubInfo, Inside
<1>3. CASE unregisterFromEvent(t)
  BY <1>3 DEF unregisterFromEvent, InBody, Inside
<1>4. CASE getListenersOfEvents(t)
  BY <1>4 DEF getListenersOfEvents, InBody, Inside
<1>5. CASE unregisterConn(t)
  BY <1>5 DEF unregisterConn, InBody, Inside
<1>6. CASE emitDone(t)
  BY <1>6 DEF emitDone, InBody, Inside
<1> QED BY <1>1, <1>2, <1>3, <1>4, <1>5, <1>6 DEF Body, registerToEvent

\* Only the owner of m_regsLock is between lock and unlock.
OwnerInside == \A t \in Threads : Inside(t) => m_regsLock = t

\* The mutex is held by a thread inside a critical section, and by none else.
LEMMA OwnerStep ==
  ASSUME TypeOK, OwnerInside, [Next]_vars
  PROVE  OwnerInside'
<1> USE NoOwnerAssumption DEF TypeOK, OwnerInside, Inside
<1>1. ASSUME NEW t \in Threads, NEW o, Invoke(t, o) PROVE OwnerInside'
  BY <1>1 DEF Invoke
<1>2. ASSUME NEW t \in Threads, Acquire(t) PROVE OwnerInside'
  BY <1>2 DEF Acquire
<1>3. ASSUME NEW t \in Threads, Return(t) PROVE OwnerInside'
  BY <1>3 DEF Return
<1>4. ASSUME NEW t \in Threads, NEW answer, Inside(t), Leave(t, answer) PROVE OwnerInside'
  BY <1>4 DEF Leave
<1>5. ASSUME NEW t \in Threads, NEW r, onConnEvent(t, r) PROVE OwnerInside'
  BY <1>5 DEF onConnEvent
<1>7. ASSUME NEW t \in Threads, GoesOn(t) PROVE OwnerInside'
  BY <1>7 DEF GoesOn, InBody
<1>8. ASSUME NEW t \in Threads, Body(t) PROVE OwnerInside'
  BY <1>4, <1>5, <1>7, <1>8, BodySteps
<1>6. CASE UNCHANGED vars
  BY <1>6 DEF vars, callVars
<1> QED
  BY <1>1, <1>2, <1>3, <1>6, <1>8 DEF Next, Call, onEvent

\* The lock is only ever held by a thread between lock and unlock.
LockHeld == m_regsLock # NoOwner => Inside(m_regsLock)

\* A call that ends gives the lock back.
LEMMA LockStep ==
  ASSUME TypeOK, OwnerInside, LockHeld, [Next]_vars
  PROVE  LockHeld'
<1> USE NoOwnerAssumption DEF TypeOK, OwnerInside, LockHeld, Inside
<1>1. ASSUME NEW t \in Threads, NEW o, Invoke(t, o) PROVE LockHeld'
  BY <1>1 DEF Invoke
<1>2. ASSUME NEW t \in Threads, Acquire(t) PROVE LockHeld'
  BY <1>2 DEF Acquire
<1>3. ASSUME NEW t \in Threads, Return(t) PROVE LockHeld'
  BY <1>3 DEF Return
<1>4. ASSUME NEW t \in Threads, NEW answer, Inside(t), Leave(t, answer) PROVE LockHeld'
  BY <1>4 DEF Leave
<1>5. ASSUME NEW t \in Threads, NEW r, onConnEvent(t, r) PROVE LockHeld'
  BY <1>5 DEF onConnEvent
<1>7. ASSUME NEW t \in Threads, GoesOn(t) PROVE LockHeld'
  BY <1>7 DEF GoesOn, InBody
<1>8. ASSUME NEW t \in Threads, Body(t) PROVE LockHeld'
  BY <1>4, <1>5, <1>7, <1>8, BodySteps
<1>6. CASE UNCHANGED vars
  BY <1>6 DEF vars, callVars
<1> QED
  BY <1>1, <1>2, <1>3, <1>6, <1>8 DEF Next, Call, onEvent

\* What a call searched for and did not find is still not there.
SearchHolds == \A t \in Threads : pc[t] = "insert" => ~Taken(t)

Table == OneRegistrationPerEvent /\ NoEmptyEntry /\ SearchHolds

\* A call that leaves changes no other call, and is not about to insert.
LEMMA LeavePlaces ==
  ASSUME TypeOK, NEW t \in Threads, NEW answer, Leave(t, answer)
  PROVE  /\ pc'[t] = "return"
         /\ \A u \in Threads \ {t} : pc'[u] = pc[u]
         /\ op' = op
  BY DEF Leave, TypeOK

\* Storing registrations of distinct clients keeps the table in shape.
LEMMA StoreEntryTable ==
  ASSUME TypeOK, OwnerInside, Table, NEW t \in Threads, Inside(t), NEW answer, Leave(t, answer),
         NEW regs, m_registrations' = StoreEntry(op[t].event, regs),
         \A r, s \in regs : r.m_clientCtx = s.m_clientCtx => r = s
  PROVE  Table'
<1> USE DEF Table
<1>1. OneRegistrationPerEvent'
  <2>1. CASE regs = {}
    BY <2>1 DEF OneRegistrationPerEvent, StoreEntry, Restrict
  <2>2. CASE regs # {}
    BY <2>2 DEF OneRegistrationPerEvent, StoreEntry, Restrict
  <2> QED BY <2>1, <2>2
<1>2. \A u \in Threads : pc'[u] # "insert"
  BY LeavePlaces DEF OwnerInside, Inside
<1>3. SearchHolds'
  BY <1>2 DEF SearchHolds
<1>4. \A u \in Threads : pc[u] = "insert" => u = t
  BY DEF OwnerInside, Inside
<1>5. NoEmptyEntry'
  <2>1. CASE regs = {}
    BY <1>4, <2>1 DEF NoEmptyEntry, StoreEntry, Restrict
  <2>2. CASE regs # {}
    BY <1>4, <2>2 DEF NoEmptyEntry, StoreEntry, Restrict
  <2> QED BY <2>1, <2>2
<1> QED BY <1>1, <1>3, <1>5

\* A step that leaves the table and the calls about to insert alone.
LEMMA TableKept ==
  ASSUME Table, UNCHANGED m_registrations,
         \A u \in Threads : pc[u] = "insert" <=> pc'[u] = "insert",
         \A u \in Threads : pc[u] = "insert" => op'[u] = op[u]
  PROVE  Table'
<1> USE DEF Table
<1>1. OneRegistrationPerEvent'
  BY DEF OneRegistrationPerEvent
<1>2. NoEmptyEntry'
  BY DEF NoEmptyEntry
<1>3. SearchHolds'
  BY DEF SearchHolds, Taken, RegsOf
<1> QED BY <1>1, <1>2, <1>3

\* No step puts a client twice under one event.
LEMMA TableStep ==
  ASSUME TypeOK, OwnerInside, Table, [Next]_vars
  PROVE  Table'
<1>1. ASSUME NEW t \in Threads, SearchRegs(t) PROVE Table'
  <2>1. CASE Taken(t)
    <3>1. /\ Leave(t, Answer(FALSE, {})) /\ UNCHANGED m_registrations
          /\ pc[t] = "body"
      BY <1>1, <2>1 DEF SearchRegs, InBody
    <3> QED BY <3>1, LeavePlaces, TableKept
  <2>2. CASE ~Taken(t)
    <3>1. /\ m_registrations' = [e \in DOMAIN m_registrations \cup {op[t].event} |-> RegsOf(e)]
          /\ pc' = [pc EXCEPT ![t] = "insert"] /\ op' = op
          /\ pc[t] = "body"
      BY <1>1, <2>2 DEF SearchRegs, InBody
    <3>2. \A e : RegsOf(e)' = RegsOf(e)
      BY <3>1 DEF RegsOf
    <3>3. OneRegistrationPerEvent'
      BY <3>1 DEF Table, OneRegistrationPerEvent, RegsOf
    <3>4. NoEmptyEntry'
      BY <3>1 DEF Table, NoEmptyEntry, RegsOf, TypeOK
    <3>5. SearchHolds'
      BY <2>2, <3>1, <3>2 DEF Table, SearchHolds, Taken, TypeOK
    <3> QED BY <3>3, <3>4, <3>5 DEF Table
  <2> QED BY <2>1, <2>2
<1>2. ASSUME NEW t \in Threads, PushSubInfo(t) PROVE Table'
  <2> DEFINE regs == RegsOf(op[t].event)
             r    == [m_id |-> op[t].id, m_clientCtx |-> op[t].ctx]
  <2>1. \A s, u \in regs : s.m_clientCtx = u.m_clientCtx => s = u
    BY DEF RegsOf, Table, OneRegistrationPerEvent
  <2>2. \A s \in regs : s.m_clientCtx # op[t].ctx
    BY <1>2 DEF PushSubInfo, Table, SearchHolds, Taken, areCtxEqual
  <2>3. \A s, u \in regs \cup {r} : s.m_clientCtx = u.m_clientCtx => s = u
    BY <2>1, <2>2
  <2>4. /\ m_registrations' = StoreEntry(op[t].event, regs \cup {r})
        /\ Leave(t, Answer(TRUE, {})) /\ Inside(t)
    BY <1>2 DEF PushSubInfo, Inside
  <2> HIDE DEF regs, r
  <2> QED BY <2>3, <2>4, StoreEntryTable
<1>3. ASSUME NEW t \in Threads, unregisterFromEvent(t) PROVE Table'
  <2> DEFINE regs == RegsOf(op[t].event)
             found == {r \in regs : r.m_id = op[t].id /\ areCtxEqual(op[t].ctx, r.m_clientCtx)}
  <2>1. \A s, u \in regs \ found : s.m_clientCtx = u.m_clientCtx => s = u
    BY DEF RegsOf, Table, OneRegistrationPerEvent
  <2>2. /\ m_registrations' = StoreEntry(op[t].event, regs \ found)
        /\ Leave(t, Answer(found # {}, {})) /\ Inside(t)
    BY <1>3 DEF unregisterFromEvent, InBody, Inside
  <2> DEFINE answer == Answer(found # {}, {})
             left   == regs \ found
  <2>3. m_registrations' = StoreEntry(op[t].event, left) /\ Leave(t, answer) /\ Inside(t)
    BY <2>2
  <2>4. \A s, u \in left : s.m_clientCtx = u.m_clientCtx => s = u
    BY <2>1
  <2> HIDE DEF answer, left
  <2> QED BY <2>3, <2>4, StoreEntryTable
<1>4. ASSUME NEW t \in Threads, unregisterConn(t) PROVE Table'
  <2>1. Leave(t, NoResult) /\ Inside(t)
    BY <1>4 DEF unregisterConn, InBody, Inside
  <2>2. \A u \in Threads : pc'[u] # "insert"
    BY <2>1, LeavePlaces DEF OwnerInside, Inside
  <2> QED BY <1>4, <2>2 DEF unregisterConn, Table, OneRegistrationPerEvent, NoEmptyEntry, SearchHolds
<1>5. ASSUME NEW t \in Threads, getListenersOfEvents(t) \/ emitDone(t) PROVE Table'
  <2>1. PICK answer : Leave(t, answer)
    BY <1>5 DEF getListenersOfEvents, emitDone
  <2> QED BY <1>5, <2>1, LeavePlaces, TableKept DEF getListenersOfEvents, emitDone, InBody
<1>6. ASSUME NEW t \in Threads, NEW o, Invoke(t, o) PROVE Table'
  BY <1>6, TableKept DEF Invoke, TypeOK
<1>7. ASSUME NEW t \in Threads, Acquire(t) \/ Return(t) PROVE Table'
  BY <1>7, TableKept DEF Acquire, Return, TypeOK
<1>8. ASSUME NEW t \in Threads, NEW r, onConnEvent(t, r) PROVE Table'
  BY <1>8, TableKept DEF onConnEvent
<1>9. CASE UNCHANGED vars
  BY <1>9, TableKept DEF vars, callVars
<1> QED
  BY <1>1, <1>2, <1>3, <1>4, <1>5, <1>6, <1>7, <1>8, <1>9
  DEF Next, Body, Call, onEvent, registerToEvent

\* Who is inside, and the table's shape, for every interleaving of the calls.
LEMMA TableInvariant == Spec => [](TypeOK /\ OwnerInside /\ Table)
<1>1. Init => OwnerInside /\ Table
  BY DEF Init, OwnerInside, Inside, Table, OneRegistrationPerEvent, NoEmptyEntry, SearchHolds
<1> QED
  BY <1>1, InitTypeOK, StepTypeOK, OwnerStep, TableStep, PTL DEF Spec

\* A client holds at most one registration per event, however the register
\* calls of any number of threads interleave.
THEOREM TableCorrect == Spec => []OneRegistrationPerEvent
  BY TableInvariant, PTL DEF Table

\* No entry of the map outlives its last registration, whichever call
\* removed that.
THEOREM NoEmptyEntries == Spec => []NoEmptyEntry
  BY TableInvariant, PTL DEF Table

\* While one call is inside the table, no step of another changes it.
LEMMA OthersKeepTable ==
  ASSUME TypeOK, OwnerInside, Next, NEW t \in Threads, Inside(t), pc'[t] = pc[t]
  PROVE  UNCHANGED m_registrations
<1>1. ASSUME NEW u \in Threads, Body(u), u # t PROVE FALSE
  <2>1. Inside(u)
    BY <1>1, BodySteps DEF onConnEvent, GoesOn, InBody, Inside
  <2> QED BY <1>1, <2>1 DEF OwnerInside
<1>2. ASSUME Body(t) PROVE UNCHANGED m_registrations
  <2>1. ASSUME NEW answer, Leave(t, answer) PROVE FALSE
    BY <2>1, LeavePlaces DEF Inside
  <2>2. ~PushSubInfo(t) /\ ~unregisterFromEvent(t) /\ ~unregisterConn(t)
    BY <2>1 DEF PushSubInfo, unregisterFromEvent, unregisterConn
  <2>3. ~SearchRegs(t)
    BY <2>1 DEF SearchRegs, InBody, TypeOK
  <2> QED BY <1>2, <2>2, <2>3
          DEF Body, registerToEvent, getListenersOfEvents, onConnEvent, emitDone
<1> QED BY <1>1, <1>2 DEF Next, Call, onEvent, Invoke, Acquire, Return

\* From a search to its insertion and all through an emission, the table is
\* the caller's alone, for any number of threads.
THEOREM TableSteady == Spec => SteadyWhileInside
<1> DEFINE Steady == \A t \in Threads : Inside(t) /\ pc'[t] = pc[t] => UNCHANGED m_registrations
<1>1. TypeOK /\ OwnerInside /\ Table /\ [Next]_vars => [Steady]_vars
  BY OthersKeepTable
<1> QED BY <1>1, TableInvariant, PTL DEF Spec, SteadyWhileInside

-----------------------------------------------------------------------------
(* Emissions.                                                              *)

Emitting(t) == pc[t] # "idle" /\ op[t].name = "emit"

\* Running emissions have numbers of their own, and none is in the future.
NumbersOK ==
  /\ \A t \in Threads : Emitting(t) => op[t].num <= eventCnt
  /\ \A t, u \in Threads : Emitting(t) /\ Emitting(u) /\ op[t].num = op[u].num => t = u
  /\ \A c \in Ctxs : \A i \in DOMAIN notified[c] : notified[c][i].num <= eventCnt

\* An emission that waits for the lock has handed nothing out.
WaitingOK ==
  \A t \in Threads : pc[t] = "lock" /\ op[t].name = "emit" =>
    \A c \in Ctxs : \A i \in DOMAIN notified[c] : notified[c][i].num # op[t].num

\* What an emission has served is still in the table.
VisitedOK ==
  \A t \in Threads :
    /\ visited[t] # {} => InBody(t, "emit")
    /\ InBody(t, "emit") => visited[t] \subseteq RegsOf(op[t].event)

\* What a running emission has handed to a client is the last thing the
\* client got, and a registration of that client has been served.
LatestOK ==
  \A t \in Threads : InBody(t, "emit") =>
    \A c \in Ctxs : \A i \in DOMAIN notified[c] :
      notified[c][i].num = op[t].num =>
        i = Len(notified[c]) /\ \E r \in visited[t] : r.m_clientCtx = c

Emissions == NumbersOK /\ WaitingOK /\ VisitedOK /\ LatestOK /\ NotifiedOnce /\ SameOrderForAll

\* Nothing has been emitted at first.
LEMMA EmissionsInit == Init => Emissions
  BY DEF Init, Emissions, NumbersOK, WaitingOK, VisitedOK, LatestOK, NotifiedOnce,
         SameOrderForAll, Emitting, InBody, NoOp

\* Steps that hand nothing out.
Quiet(t) ==
  \/ \E o \in Ops \ EmitOps : Call(t, o)
  \/ \E e \in Events : onEvent(t, e)
  \/ Acquire(t)
  \/ Return(t)
  \/ GoesOn(t)
  \/ /\ Inside(t)
     /\ op[t].name = "emit" => UNCHANGED m_registrations
     /\ \E answer \in Result : Leave(t, answer)

\* Which emissions are running after a quiet step: those that ran before it,
\* and the one the step starts.
LEMMA QuietEmitting ==
  ASSUME TypeOK, NEW t \in Threads, Quiet(t)
  PROVE  /\ UNCHANGED notified
         /\ eventCnt' \in Nat
         /\ \/ /\ eventCnt' = eventCnt
               /\ \A u \in Threads : Emitting(u)' => Emitting(u) /\ op'[u] = op[u]
            \/ /\ eventCnt' = eventCnt + 1
               /\ op'[t].num = eventCnt + 1
               /\ \A u \in Threads \ {t} : Emitting(u)' => Emitting(u) /\ op'[u] = op[u]
<1> USE DEF TypeOK, Emitting
<1>1. \A o \in Ops \ EmitOps : o.name # "emit"
  BY DEF Ops, RegisterOps, UnregisterConnOps, ListenersOps, EmitOps
<1>2. CASE \E o \in Ops \ EmitOps : Call(t, o)
  <2> PICK o \in Ops \ EmitOps : Call(t, o)
    BY <1>2
  <2> QED BY <1>1, MaxEventsAssumption DEF Call, Invoke
<1>3. CASE \E e \in Events : onEvent(t, e)
  BY <1>3, MaxEventsAssumption DEF onEvent, Invoke
<1>4. CASE Acquire(t)
  BY <1>4, MaxEventsAssumption DEF Acquire
<1>5. CASE Return(t)
  BY <1>5, MaxEventsAssumption DEF Return
<1>6. CASE Inside(t) /\ \E answer \in Result : Leave(t, answer)
  BY <1>6, MaxEventsAssumption DEF Leave, Inside
<1>7. CASE GoesOn(t)
  BY <1>7, MaxEventsAssumption DEF GoesOn, InBody
<1> QED BY <1>2, <1>3, <1>4, <1>5, <1>6, <1>7 DEF Quiet

\* Likewise for the emissions that wait and those that are in their body.
LEMMA QuietPlaces ==
  ASSUME TypeOK, OwnerInside, NEW t \in Threads, Quiet(t)
  PROVE  \A u \in Threads :
           /\ (pc[u] = "lock")' => \/ pc[u] = "lock" /\ op'[u] = op[u]
                                   \/ u = t /\ pc[u] = "idle"
           /\ InBody(u, "emit")' => /\ op'[u] = op[u]
                                    /\ visited'[u] = visited[u]
                                    /\ UNCHANGED m_registrations
                                    /\ \/ InBody(u, "emit")
                                       \/ pc[u] = "lock" /\ op[u].name = "emit"
           /\ visited'[u] # {} => visited'[u] = visited[u] /\ (InBody(u, "emit") => InBody(u, "emit")')
<1> USE NoOwnerAssumption DEF TypeOK, OwnerInside, InBody, Inside
<1>1. CASE \E o \in Ops \ EmitOps : Call(t, o)
  BY <1>1 DEF Call, Invoke
<1>2. CASE \E e \in Events : onEvent(t, e)
  BY <1>2 DEF onEvent, Invoke
<1>3. CASE Acquire(t)
  BY <1>3 DEF Acquire
<1>4. CASE Return(t)
  BY <1>4 DEF Return
<1>5. CASE /\ Inside(t)
           /\ op[t].name = "emit" => UNCHANGED m_registrations
           /\ \E answer \in Result : Leave(t, answer)
  BY <1>5 DEF Leave
<1>6. CASE GoesOn(t)
  BY <1>6 DEF GoesOn
<1> QED BY <1>1, <1>2, <1>3, <1>4, <1>5, <1>6 DEF Quiet

\* Emission numbers are natural numbers.
LEMMA NumbersNat ==
  ASSUME TypeOK
  PROVE  /\ eventCnt \in Nat
         /\ \A u \in Threads : Emitting(u) => op[u].num \in Nat
         /\ \A c \in Ctxs : \A i \in DOMAIN notified[c] : notified[c][i].num \in Nat
<1>1. eventCnt \in Nat
  BY MaxEventsAssumption DEF TypeOK
<1>2. \A u \in Threads : Emitting(u) => op[u].num \in Nat
  BY OpTypes, MaxEventsAssumption DEF Emitting
<1>3. ASSUME NEW c \in Ctxs, NEW i \in DOMAIN notified[c] PROVE notified[c][i].num \in Nat
  <2>1. notified[c] \in Seq(Note)
    BY DEF TypeOK
  <2>2. notified[c][i] \in Note
    BY <2>1
  <2> QED BY <2>2, MaxEventsAssumption DEF Note
<1> QED BY <1>1, <1>2, <1>3

\* A step that hands out no notification keeps what is known of emissions.
LEMMA QuietStep ==
  ASSUME TypeOK, OwnerInside, Emissions, NEW t \in Threads, Quiet(t)
  PROVE  Emissions'
<1> USE DEF Emissions
<1>1. UNCHANGED notified
  BY QuietEmitting
<1> /\ eventCnt \in Nat
    /\ \A u \in Threads : Emitting(u) => op[u].num \in Nat
    /\ \A c \in Ctxs : \A i \in DOMAIN notified[c] : notified[c][i].num \in Nat
  BY NumbersNat
<1>2. NumbersOK'
  <2>1. CASE /\ eventCnt' = eventCnt
             /\ \A u \in Threads : Emitting(u)' => Emitting(u) /\ op'[u] = op[u]
    BY <1>1, <2>1 DEF NumbersOK
  <2>2. CASE /\ eventCnt' = eventCnt + 1
             /\ op'[t].num = eventCnt + 1
             /\ \A u \in Threads \ {t} : Emitting(u)' => Emitting(u) /\ op'[u] = op[u]
    <3>1. \A u \in Threads : Emitting(u)' =>
            op'[u].num = IF u = t THEN eventCnt + 1 ELSE op[u].num
      BY <2>2
    <3> QED BY <1>1, <2>2, <3>1 DEF NumbersOK
  <2> QED BY <2>1, <2>2, QuietEmitting
<1>3. WaitingOK'
  <2> SUFFICES ASSUME NEW u \in Threads, (pc[u] = "lock")', op'[u].name = "emit",
                      NEW c \in Ctxs, NEW i \in DOMAIN notified[c]
               PROVE  notified[c][i].num # op'[u].num
    BY <1>1 DEF WaitingOK
  <2>1. CASE pc[u] = "lock" /\ op'[u] = op[u]
    BY <2>1 DEF WaitingOK
  <2>2. CASE u = t /\ pc[u] = "idle"
    <3>1. ~Emitting(u) /\ Emitting(u)'
      BY <2>2 DEF Emitting
    <3>2. op'[u].num = eventCnt + 1
      BY <2>2, <3>1, QuietEmitting
    <3> QED BY <3>2 DEF NumbersOK
  <2> QED BY <2>1, <2>2, QuietPlaces
<1>4. VisitedOK'
  BY QuietPlaces DEF VisitedOK, RegsOf
<1>5. LatestOK'
  BY <1>1, QuietPlaces DEF LatestOK, WaitingOK
<1>6. NotifiedOnce' /\ SameOrderForAll'
  BY <1>1 DEF NotifiedOnce, SameOrderForAll
<1> QED BY <1>2, <1>3, <1>4, <1>5, <1>6

\* The elements of a sequence that has grown by one.
LEMMA AppendAt ==
  ASSUME NEW S, NEW s \in Seq(S), NEW x \in S
  PROVE  /\ Len(s) \in Nat /\ DOMAIN s = 1..Len(s)
         /\ Len(Append(s, x)) = Len(s) + 1
         /\ \A i \in DOMAIN Append(s, x) :
              \/ i \in DOMAIN s /\ Append(s, x)[i] = s[i]
              \/ i = Len(s) + 1 /\ Append(s, x)[i] = x
  OBVIOUS

\* How a notification handed out changes the clients' inboxes: its number is
\* new to the client and comes last there.
LEMMA HandOver ==
  ASSUME TypeOK, OwnerInside, Table, Emissions,
         NEW t \in Threads, NEW r \in RegistrationInfo, onConnEvent(t, r)
  PROVE  /\ \A i \in DOMAIN notified[r.m_clientCtx] :
              notified[r.m_clientCtx][i].num # op[t].num
         /\ \A d \in Ctxs : \A i \in DOMAIN notified'[d] :
              \/ /\ i \in DOMAIN notified[d]
                 /\ notified'[d][i].num = notified[d][i].num
              \/ /\ d = r.m_clientCtx
                 /\ i = Len(notified[d]) + 1
                 /\ notified'[d][i].num = op[t].num
         /\ \A d \in Ctxs : /\ Len(notified[d]) \in Nat
                            /\ DOMAIN notified[d] = 1..Len(notified[d])
                            /\ d # r.m_clientCtx => notified'[d] = notified[d]
         /\ Len(notified'[r.m_clientCtx]) = Len(notified[r.m_clientCtx]) + 1
<1> DEFINE c == r.m_clientCtx
           n == NoteOf(r, op[t])
<1>1. InBody(t, "emit") /\ r \in RegsOf(op[t].event) /\ r \notin visited[t] /\ c \in Ctxs
  BY DEF onConnEvent, ToServe, RegistrationInfo
<1>2. ASSUME NEW i \in DOMAIN notified[c], notified[c][i].num = op[t].num PROVE FALSE
  <2>1. PICK s \in visited[t] : s.m_clientCtx = c
    BY <1>1, <1>2 DEF Emissions, LatestOK
  <2>2. s \in RegsOf(op[t].event)
    BY <1>1, <2>1 DEF Emissions, VisitedOK
  <2>3. s = r
    BY <1>1, <2>1, <2>2 DEF Table, OneRegistrationPerEvent, RegsOf
  <2> QED BY <1>1, <2>1, <2>3
<1>3. \A d \in Ctxs : /\ notified[d] \in Seq(Note)
                      /\ notified'[d] = IF d = c THEN Append(notified[d], n) ELSE notified[d]
  BY DEF onConnEvent, TypeOK
<1>4. n \in Note /\ n.num = op[t].num
  BY <1>1, OpTypes DEF NoteOf, Note, RegistrationInfo, InBody
<1> HIDE DEF c, n
<1>5. ASSUME NEW d \in Ctxs, NEW i \in DOMAIN notified'[d]
      PROVE  \/ i \in DOMAIN notified[d] /\ notified'[d][i].num = notified[d][i].num
             \/ d = c /\ i = Len(notified[d]) + 1 /\ notified'[d][i].num = op[t].num
  <2>1. CASE d = c
    <3>1. notified'[d] = Append(notified[d], n)
      BY <1>3, <2>1
    <3> QED BY <1>3, <1>4, <2>1, <3>1, AppendAt
  <2>2. CASE d # c
    BY <1>3, <2>2
  <2> QED BY <2>1, <2>2
<1>6. \A d \in Ctxs : /\ Len(notified[d]) \in Nat /\ DOMAIN notified[d] = 1..Len(notified[d])
                      /\ d # c => notified'[d] = notified[d]
  BY <1>3, <1>4, AppendAt
<1>7. Len(notified'[c]) = Len(notified[c]) + 1
  <2>1. notified'[c] = Append(notified[c], n)
    BY <1>1, <1>3
  <2> QED BY <1>1, <1>3, <1>4, <2>1, AppendAt
<1> QED BY <1>2, <1>5, <1>6, <1>7 DEF c

\* Handing one notification out keeps what is known of emissions.
LEMMA ServeStep ==
  ASSUME TypeOK, OwnerInside, Table, Emissions,
         NEW t \in Threads, NEW r \in RegistrationInfo, onConnEvent(t, r)
  PROVE  Emissions'
<1> DEFINE c == r.m_clientCtx
<1>1. /\ InBody(t, "emit") /\ Emitting(t) /\ c \in Ctxs
      /\ r \in RegsOf(op[t].event)
      /\ visited' = [visited EXCEPT ![t] = @ \cup {r}]
      /\ UNCHANGED <<m_registrations, m_regsLock, pc, op, eventCnt>>
  BY DEF onConnEvent, Emitting, InBody, RegistrationInfo, ToServe
<1>2. /\ NumbersOK /\ WaitingOK /\ VisitedOK /\ LatestOK /\ NotifiedOnce /\ SameOrderForAll
  BY DEF Emissions
<1> DEFINE Old(d, m) == m \in DOMAIN notified[d] /\ notified'[d][m].num = notified[d][m].num
           New(d, m) == d = c /\ m = Len(notified[d]) + 1 /\ notified'[d][m].num = op[t].num
<1>3. \A d \in Ctxs : \A m \in DOMAIN notified'[d] : Old(d, m) \/ New(d, m)
  BY HandOver
<1>4. \A m \in DOMAIN notified[c] : notified[c][m].num # op[t].num
  BY HandOver
<1>5. \A d \in Ctxs : /\ Len(notified[d]) \in Nat
                       /\ DOMAIN notified[d] = 1..Len(notified[d])
                       /\ d # c => notified'[d] = notified[d]
  BY HandOver
<1>6. Len(notified'[c]) = Len(notified[c]) + 1
  BY HandOver
<1> HIDE DEF c
<1>7. NumbersOK'
  BY <1>1, <1>2, <1>3 DEF NumbersOK, Emitting
<1>8. WaitingOK'
  <2>1. \A u \in Threads : pc[u] = "lock" /\ op[u].name = "emit" => op[u].num # op[t].num
    BY <1>1, <1>2 DEF NumbersOK, Emitting, InBody
  <2> QED BY <1>1, <1>2, <2>1, <1>3 DEF WaitingOK
<1>9. VisitedOK'
  BY <1>1, <1>2 DEF VisitedOK, InBody, RegsOf, TypeOK
<1>10. LatestOK'
  <2> SUFFICES ASSUME NEW u \in Threads, InBody(u, "emit")', NEW d \in Ctxs,
                      NEW i \in DOMAIN notified'[d], notified'[d][i].num = op'[u].num
               PROVE  i = Len(notified'[d]) /\ \E s \in visited'[u] : s.m_clientCtx = d
    BY DEF LatestOK
  <2>1. u = t
    BY <1>1, NoOwnerAssumption DEF OwnerInside, InBody, Inside
  <2>2. r \in visited'[t] /\ visited[t] \subseteq visited'[t]
    BY <1>1 DEF TypeOK
  <2>3. CASE d = c
    <3>1. notified'[d][i].num = op[t].num
      BY <1>1, <2>1
    <3>2. i = Len(notified[d]) + 1
      BY <1>3, <1>4, <2>3, <3>1
    <3> QED BY <1>6, <2>1, <2>2, <2>3, <3>2 DEF c
  <2>4. CASE d # c
    <3>1. notified'[d] = notified[d] /\ op'[u] = op[t]
      BY <1>1, <1>5, <2>1, <2>4
    <3>2. i = Len(notified[d]) /\ \E s \in visited[t] : s.m_clientCtx = d
      BY <1>1, <1>2, <3>1 DEF LatestOK
    <3> QED BY <2>1, <2>2, <3>1, <3>2
  <2> QED BY <2>3, <2>4
<1>11. NotifiedOnce'
  <2> SUFFICES ASSUME NEW d \in Ctxs, NEW i \in DOMAIN notified'[d], NEW j \in DOMAIN notified'[d],
                      notified'[d][i].num = notified'[d][j].num
               PROVE  i = j
    BY DEF NotifiedOnce
  <2>1. CASE d = c
    BY <1>2, <1>3, <1>4, <1>5, <2>1 DEF NotifiedOnce
  <2>2. CASE d # c
    <3>1. notified'[d] = notified[d]
      BY <1>5, <2>2
    <3> QED BY <1>2, <3>1 DEF NotifiedOnce
  <2> QED BY <2>1, <2>2
<1>12. SameOrderForAll'
  <2> SUFFICES ASSUME NEW x \in Ctxs, NEW y \in Ctxs,
                      NEW i \in DOMAIN notified'[x], NEW j \in DOMAIN notified'[x],
                      NEW k \in DOMAIN notified'[y], NEW l \in DOMAIN notified'[y],
                      i < j,
                      notified'[x][i].num = notified'[y][k].num,
                      notified'[x][j].num = notified'[y][l].num
               PROVE  k < l
    BY DEF SameOrderForAll
  <2>1. \A d \in Ctxs : \A m \in DOMAIN notified[d] :
          notified[d][m].num = op[t].num => m = Len(notified[d])
    BY <1>1, <1>2 DEF LatestOK
  <2>2. Old(x, i)
    BY <1>3, <1>5, <1>6
  <2>3. CASE Old(x, j) /\ Old(y, k) /\ Old(y, l)
    BY <1>2, <2>2, <2>3 DEF SameOrderForAll
  <2>4. CASE Old(y, k) /\ New(y, l)
    \* Whatever y already has comes before what it gets now.
    <3>1. k \in DOMAIN notified[y] /\ l = Len(notified[y]) + 1
      BY <2>4
    <3>2. Len(notified[y]) \in Nat /\ DOMAIN notified[y] = 1..Len(notified[y])
      BY <1>5
    <3>3. k \in 1..Len(notified[y])
      BY <3>1, <3>2
    <3> QED BY <3>1, <3>2, <3>3
  <2>5. CASE New(x, j) /\ Old(y, k) /\ Old(y, l)
    \* y has the event already, as the last thing it got.
    <3>1. l = Len(notified[y])
      BY <2>1, <2>5
    <3>2. notified[x][i].num # op[t].num
      BY <1>4, <2>2, <2>5
    <3>3. k # l
      BY <2>2, <2>5, <3>2
    <3> QED BY <1>5, <2>5, <3>1, <3>3
  <2>6. ~New(y, k)
    <3> SUFFICES ASSUME New(y, k) PROVE FALSE
      OBVIOUS
    <3>1. notified[x][i].num = op[t].num
      BY <2>2
    <3>2. i = Len(notified[x])
      BY <2>1, <2>2, <3>1
    <3>3. x # c
      BY <1>4, <2>2, <3>1
    <3>4. Old(x, j)
      BY <1>3, <3>3
    <3> QED BY <1>5, <3>2, <3>4
  <2> QED BY <1>3, <2>3, <2>4, <2>5, <2>6
<1> QED BY <1>7, <1>8, <1>9, <1>10, <1>11, <1>12 DEF Emissions

\* Every step keeps what is known of emissions.
LEMMA EmissionsStep ==
  ASSUME TypeOK, OwnerInside, Table, Emissions, [Next]_vars
  PROVE  Emissions'
<1>1. CASE \E t \in Threads : \E r \in RegistrationInfo : onConnEvent(t, r)
  BY <1>1, ServeStep
<1>2. CASE \E t \in Threads : Quiet(t)
  BY <1>2, QuietStep
<1>3. ASSUME NEW t \in Threads, Body(t), ~ \E r \in RegistrationInfo : onConnEvent(t, r)
      PROVE  Quiet(t)
  <2> USE DEF Inside
  <2>1. CASE registerToEvent(t)
    <3>1. CASE SearchRegs(t) /\ ~Taken(t)
      BY <3>1 DEF SearchRegs, GoesOn, Quiet
    <3>2. CASE SearchRegs(t) /\ Taken(t)
      BY <3>2, AnswerTyped DEF SearchRegs, InBody, Quiet
    <3>3. CASE PushSubInfo(t)
      BY <3>3, AnswerTyped DEF PushSubInfo, Quiet
    <3> QED BY <2>1, <3>1, <3>2, <3>3 DEF registerToEvent
  <2>2. CASE unregisterFromEvent(t)
    BY <2>2 DEF unregisterFromEvent, InBody, Quiet, Answer, Result
  <2>3. CASE getListenersOfEvents(t)
    <3>1. PICK ls \in SUBSET Registration : Leave(t, Answer(TRUE, ls))
      BY <2>3 DEF getListenersOfEvents
    <3> QED BY <2>3, <3>1, AnswerTyped DEF getListenersOfEvents, InBody, Quiet
  <2>4. CASE unregisterConn(t)
    BY <2>4, AnswerTyped DEF unregisterConn, InBody, Quiet
  <2>5. CASE emitDone(t)
    BY <2>5, AnswerTyped DEF emitDone, InBody, Quiet
  <2> QED BY <1>3, <2>1, <2>2, <2>3, <2>4, <2>5 DEF Body
<1>4. CASE UNCHANGED vars
  BY <1>4 DEF vars, callVars, Emissions, NumbersOK, WaitingOK, VisitedOK, LatestOK,
              NotifiedOnce, SameOrderForAll, Emitting, InBody, RegsOf
<1> QED BY <1>1, <1>2, <1>3, <1>4 DEF Next, Quiet

IInv == TypeOK /\ OwnerInside /\ Table /\ Emissions

\* The inductive invariant of the event manager.
LEMMA Inductive == Spec => []IInv
<1>1. Init => IInv
  BY InitTypeOK, EmissionsInit
  DEF Init, IInv, OwnerInside, Inside, Table, OneRegistrationPerEvent, NoEmptyEntry, SearchHolds
<1>2. IInv /\ [Next]_vars => IInv'
  BY StepTypeOK, OwnerStep, TableStep, EmissionsStep DEF IInv
<1> QED BY <1>1, <1>2, PTL DEF Spec

\* However many threads emit at once, no client hears twice of an event.
THEOREM NeverNotifiedTwice == Spec => []NotifiedOnce
  BY Inductive, PTL DEF IInv, Emissions

\* However many threads emit at once, the clients agree on the order of the
\* events they hear of.
THEOREM ClientsAgree == Spec => []SameOrderForAll
  BY Inductive, PTL DEF IInv, Emissions

=============================================================================
