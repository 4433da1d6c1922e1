---------------------------- MODULE EventService ----------------------------
(***************************************************************************)
(* What the event manager promises its callers, without its lock and its   *)
(* loops: a set of registrations and an inbox per client, on which every   *)
(* call takes effect at one instant between its invocation and its return. *)
(* EventManager is shown to implement this module.                         *)
(***************************************************************************)
EXTENDS EventOps

VARIABLES regs,    \* the registrations in force
          inbox,   \* per client, the notifications handed to the connector
          calls    \* per thread, the call in progress

vars == <<regs, inbox, calls>>

Idle == [state |-> "idle", op |-> NoOp, result |-> NoResult]

Init == /\ regs = {}
        /\ inbox = [c \in Ctxs |-> <<>>]
        /\ calls = [t \in Threads |-> Idle]

-----------------------------------------------------------------------------

Invoke(t, o) ==
  /\ calls[t] = Idle
  /\ calls' = [calls EXCEPT ![t] = [state |-> "pending", op |-> o, result |-> NoResult]]
  /\ UNCHANGED <<regs, inbox>>

Pending(t, name) == calls[t].state = "pending" /\ calls[t].op.name = name

Complete(t, answer) ==
  calls' = [calls EXCEPT ![t] = [state |-> "done", op |-> calls[t].op, result |-> answer]]

\* A client holds at most one registration for an event, whatever its id.
Register(t) ==
  /\ Pending(t, "register")
  /\ LET o     == calls[t].op
         taken == \E r \in regs : r.event = o.event /\ r.ctx = o.ctx
     IN  /\ regs' = IF taken THEN regs
                    ELSE regs \cup {[event |-> o.event, id |-> o.id, ctx |-> o.ctx]}
         /\ Complete(t, Answer(~taken, {}))
  /\ UNCHANGED inbox

Unregister(t) ==
  /\ Pending(t, "unregister")
  /\ LET o == calls[t].op
         r == [event |-> o.event, id |-> o.id, ctx |-> o.ctx]
     IN  /\ regs' = regs \ {r}
         /\ Complete(t, Answer(r \in regs, {}))
  /\ UNCHANGED inbox

UnregisterConn(t) ==
  /\ Pending(t, "unregisterConn")
  /\ regs' = {r \in regs : r.ctx # calls[t].op.ctx}
  /\ Complete(t, NoResult)
  /\ UNCHANGED inbox

GetListeners(t) ==
  /\ Pending(t, "getListeners")
  /\ Complete(t, Answer(TRUE, regs))
  /\ UNCHANGED <<regs, inbox>>

RegistrationsOf(c, e) == {r \in regs : r.event = e /\ r.ctx = c}

\* Every client registered for the event gets one notification, under the id
\* it registered with; no other client gets anything.
Emit(t) ==
  /\ Pending(t, "emit")
  /\ LET o == calls[t].op
     IN  inbox' = [c \in Ctxs |->
           IF RegistrationsOf(c, o.event) = {} THEN inbox[c]
           ELSE LET r == CHOOSE x \in RegistrationsOf(c, o.event) : TRUE
                IN  Append(inbox[c], [id |-> r.id, event |-> o.event, num |-> o.num])]
  /\ Complete(t, NoResult)
  /\ UNCHANGED regs

Return(t) ==
  /\ calls[t].state = "done"
  /\ calls' = [calls EXCEPT ![t] = Idle]
  /\ UNCHANGED <<regs, inbox>>

Next == \E t \in Threads :
          \/ \E o \in Ops : Invoke(t, o)
          \/ Register(t) \/ Unregister(t) \/ UnregisterConn(t)
          \/ GetListeners(t) \/ Emit(t)
          \/ Return(t)

Spec == Init /\ [][Next]_vars

=============================================================================
