------------------------------ MODULE EventOps ------------------------------
(***************************************************************************)
(* The vocabulary of the event manager (src/server/RpcEventManager.h): the *)
(* calls its interface offers, their results and what a listener receives. *)
(* It is shared by the abstract specification EventService and by the      *)
(* detailed one, EventManager.                                             *)
(***************************************************************************)
EXTENDS Naturals, Sequences

CONSTANTS Threads,    \* threads that call the event manager
          Ctxs,       \* client contexts (WsClientCtx), compared by their id
          Events,     \* event names
          Ids,        \* client-chosen ids, the prefix of a notification's name
          MaxEvents   \* bound: how many events the application emits

ASSUME MaxEventsAssumption == MaxEvents \in Nat

\* One entry of the table seen as a flat relation.
Registration == [event : Events, id : Ids, ctx : Ctxs]

\* What a client receives for the num-th emitted event: the method name
\* "<id>.<event>", kept as its two parts, with the event's parameters, of
\* which only the position in the order of emission is kept.
Note == [id : Ids, event : Events, num : 1..MaxEvents]

RegisterOps       == [name : {"register", "unregister"}, ctx : Ctxs, event : Events, id : Ids]
UnregisterConnOps == [name : {"unregisterConn"}, ctx : Ctxs]
ListenersOps      == [name : {"getListeners"}, ctx : Ctxs]
EmitOps           == [name : {"emit"}, event : Events, num : 1..MaxEvents]

Ops == RegisterOps \cup UnregisterConnOps \cup ListenersOps \cup EmitOps

NoOp == [name |-> "none"]

\* The bool, void or Json::Value a call returns. An item of the listeners
\* array shows event and id only; its ctx keeps equal items apart here.
Result == [ok : BOOLEAN, listeners : SUBSET Registration]

Answer(ok, listeners) == [ok |-> ok, listeners |-> listeners]
NoResult == Answer(TRUE, {})

=============================================================================
