--------------------------- MODULE MethodBinding ----------------------------
(***************************************************************************)
(* What a name means to a peer. RpcPeerServer (src/server/RpcPeerServer.h) *)
(* keeps the application's methods and notifications in two tables, next   *)
(* to its three own methods. PeerProtocolHandler                           *)
(* (src/connector/PeerProtocolHandler.h), one per worker thread, copies    *)
(* the names when it is made, and answers from its copy whether there is   *)
(* such a procedure; only then the tables are searched for the function.   *)
(* No lock guards the tables: a thread that reads one while a name is      *)
(* being inserted may miss any name, or see the new one early.             *)
(***************************************************************************)

CONSTANTS
  Workers,    \* worker threads, each with a handler of its own
  Names,      \* names the application tries to bind, "" and the server's own too
  Funcs       \* the functions it binds to them

Builtins == {"register", "unregister", "getListeners"}
EmptyName == ""
Kinds    == {"method", "notification"}

VARIABLES
  m_methodTable,         \* map: name -> function
  m_notificationsTable,  \* map: name -> function
  inserting,   \* the call of bindMethod or bindNotification past its check
  procedures,  \* per handler: map name -> kind; kept when the handler goes
  made,        \* per handler: lists copied so far
  bound,       \* history: calls that returned true
  before,      \* history: per handler, the names bound before it was made
  raced        \* history: handlers that read a table during an insertion

tableVars == <<m_methodTable, m_notificationsTable, inserting, bound>>
copyVars  == <<procedures, made, before, raced>>
vars == <<tableVars, copyVars>>

Bind   == [kind : Kinds, name : Names, func : Funcs]
NoBind == [kind |-> "none"]

Init == /\ m_methodTable = [n \in {} |-> ""]
        /\ m_notificationsTable = [n \in {} |-> ""]
        /\ inserting = NoBind
        /\ bound = {}
        /\ procedures = [w \in Workers |-> [n \in {} |-> ""]]
        /\ made = [w \in Workers |-> "none"]
        /\ before = [w \in Workers |-> {}]
        /\ raced = {}

\* Mutant of Put: the name is stored under the function.
PutSwapped(table, n, f) == [x \in DOMAIN table \cup {f} |-> IF x = f THEN n ELSE table[x]]

Put(table, n, f) == [x \in DOMAIN table \cup {n} |-> IF x = n THEN f ELSE table[x]]

-----------------------------------------------------------------------------
(* The application binds, one call at a time.                              *)

\* Mutant of symbolExists: one of the tables is not searched.
symbolExistsMethod(n) == n \in Builtins \cup DOMAIN m_methodTable

symbolExists(n) == n \in Builtins \cup DOMAIN m_methodTable \cup DOMAIN m_notificationsTable

\* An empty name is refused with an exception, and a name that exists with
\* false: the call has changed nothing.
bind(b) ==
  /\ inserting = NoBind
  /\ inserting' = IF b.name = EmptyName \/ symbolExists(b.name) THEN NoBind ELSE b
  /\ UNCHANGED <<m_methodTable, m_notificationsTable, bound, copyVars>>

bindMethod(n, f) == bind([kind |-> "method", name |-> n, func |-> f])

bindNotification(n, f) == bind([kind |-> "notification", name |-> n, func |-> f])

\* The new entry is in its table and the call returns true.
BindReturns ==
  /\ inserting # NoBind
  /\ \/ /\ inserting.kind = "method"
        /\ m_methodTable' = Put(m_methodTable, inserting.name, inserting.func)
        /\ UNCHANGED m_notificationsTable
     \/ /\ inserting.kind = "notification"
        /\ m_notificationsTable' = Put(m_notificationsTable, inserting.name, inserting.func)
        /\ UNCHANGED m_methodTable
  /\ bound' = bound \cup {inserting}
  /\ inserting' = NoBind
  /\ UNCHANGED copyVars

-----------------------------------------------------------------------------
(* A worker's handler is made.                                             *)

Changing(kind) == inserting.kind = kind

\* What a walk through a table may come across.
Walks(table, kind) ==
  IF Changing(kind) THEN SUBSET (DOMAIN table \cup {inserting.name}) ELSE {DOMAIN table}

AddProcedures(w, names, kind) ==
  procedures' = [procedures EXCEPT ![w] = [n \in DOMAIN @ \cup names |->
                                             IF n \in names THEN kind ELSE @[n]]]

Watch(w, kind) == raced' = IF Changing(kind) THEN raced \cup {w} ELSE raced

\* getMethodList: the server's own methods, then those in the table.
ListMethods(w) ==
  /\ made[w] = "none"
  /\ made' = [made EXCEPT ![w] = "methods"]
  /\ \E seen \in Walks(m_methodTable, "method") : AddProcedures(w, Builtins \cup seen, "method")
  /\ before' = [before EXCEPT ![w] = {b.name : b \in bound}]
  /\ Watch(w, "method")
  /\ UNCHANGED tableVars

\* Mutant of ListNotifications: notifications are added as methods.
ListNotificationsAsMethods(w) ==
  /\ made[w] = "methods"
  /\ made' = [made EXCEPT ![w] = "made"]
  /\ \E seen \in Walks(m_notificationsTable, "notification") : AddProcedures(w, seen, "method")
  /\ Watch(w, "notification")
  /\ UNCHANGED <<before, tableVars>>

\* Mutant of ListNotifications: the second list is forgotten.
ListNoNotifications(w) ==
  /\ made[w] = "methods"
  /\ made' = [made EXCEPT ![w] = "made"]
  /\ UNCHANGED <<procedures, before, raced, tableVars>>

\* getNotificationsList.
ListNotifications(w) ==
  /\ made[w] = "methods"
  /\ made' = [made EXCEPT ![w] = "made"]
  /\ \E seen \in Walks(m_notificationsTable, "notification") :
       AddProcedures(w, seen, "notification")
  /\ Watch(w, "notification")
  /\ UNCHANGED <<before, tableVars>>

-----------------------------------------------------------------------------
(* A request, with an id ("method") or without one ("notification"), names *)
(* a procedure of the handler; its function is then looked up by name.     *)

ProcedureOf(w, n) == IF n \in DOMAIN procedures[w] THEN procedures[w][n] ELSE "none"

Table(kind) == IF kind = "method" THEN m_methodTable ELSE m_notificationsTable

Found(kind, n) == n \in DOMAIN Table(kind)

Missed(kind, n) == n \notin DOMAIN Table(kind) \/ Changing(kind)

-----------------------------------------------------------------------------

Next == \/ \E n \in Names, f \in Funcs : bindMethod(n, f) \/ bindNotification(n, f)
        \/ BindReturns
        \/ \E w \in Workers : ListMethods(w) \/ ListNotifications(w)

Spec == Init /\ [][Next]_vars

-----------------------------------------------------------------------------
(* Properties.                                                             *)

\* Every variable holds a value of its type.
TypeOK ==
  /\ DOMAIN m_methodTable \subseteq Names /\ \A n \in DOMAIN m_methodTable : m_methodTable[n] \in Funcs
  /\ DOMAIN m_notificationsTable \subseteq Names
  /\ \A n \in DOMAIN m_notificationsTable : m_notificationsTable[n] \in Funcs
  /\ inserting \in Bind \cup {NoBind}
  /\ bound \subseteq Bind
  /\ DOMAIN procedures = Workers
  /\ \A w \in Workers : /\ DOMAIN procedures[w] \subseteq Names \cup Builtins
                        /\ \A n \in DOMAIN procedures[w] : procedures[w][n] \in Kinds
  /\ made \in [Workers -> {"none", "methods", "made"}]
  /\ before \in [Workers -> SUBSET Names]
  /\ raced \subseteq Workers

\* What bindMethod or bindNotification has confirmed stays so: no later call
\* gives the name another function or another kind. Neither the server's own
\* names nor the empty one are ever among those confirmed.
FirstBindingStays ==
  \A b \in bound : /\ b.name \notin Builtins \cup {EmptyName}
                   /\ Found(b.kind, b.name)
                   /\ Table(b.kind)[b.name] = b.func
                   /\ \A k \in Kinds \ {b.kind} : ~Found(k, b.name)

\* What a handler offers is of the kind it says, and is in the table of that
\* kind or on its way into it: at() of HandleMethodCall and HandleNotificationCall
\* searches the right table, and may throw only while a name is inserted there.
ListedIsBound ==
  \A w \in Workers : \A n \in DOMAIN procedures[w] \ Builtins :
    \/ Found(procedures[w][n], n)
    \/ Changing(procedures[w][n]) /\ inserting.name = n

\* A name bound before a handler is made is known to it, unless the handler
\* was made while a call of bindMethod or bindNotification was under way.
BoundBeforeIsListed ==
  \A w \in Workers \ raced : made[w] = "made" => before[w] \cup Builtins \subseteq DOMAIN procedures[w]

=============================================================================
