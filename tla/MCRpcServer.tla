---------------------------- MODULE MCRpcServer -----------------------------
(* Instances of RpcServer for TLC. A .cfg chooses the requests peers send    *)
(* with one of the definitions below.                                        *)
EXTENDS RpcServer, TLC

\* A peer registers and unregisters.
RegisterBodies == [method : {"register", "unregister"}, event : Events, id : Ids]

\* A peer registers.
OnlyRegister == [method : {"register"}, event : Events, id : Ids]

EveryBody == AllBodies

\* The application binds nothing.
NoBinds == {}

\* Any function, as a method or as a notification of that name.
AnyBind == [kind : {"method", "notification"}, name : {"n1"}, func : Funcs]

\* Handles are interchangeable.
Symmetry == Permutations(Handles)

=============================================================================
