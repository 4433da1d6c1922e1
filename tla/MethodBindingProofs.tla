------------------------ MODULE MethodBindingProofs -------------------------
(***************************************************************************)
(* Proofs about MethodBinding, for every set of workers, names and         *)
(* functions. The inductive invariant adds to the properties what a table  *)
(* holds (Tables) and how far a handler's copy has come (Copies).          *)
(***************************************************************************)
EXTENDS MethodBinding, TLAPS

\* The tables hold what was confirmed and nothing else, a name in one of them
\* is not in the other, and a name being inserted is in neither.
Tables ==
  /\ \A k \in Kinds : \A n \in DOMAIN Table(k) :
       [kind |-> k, name |-> n, func |-> Table(k)[n]] \in bound
  /\ inserting # NoBind => inserting.name # EmptyName /\ ~symbolExists(inserting.name)

\* A handler's copy starts empty; after the first list it has every name bound
\* before, apart from notifications, which are in their table.
Copies ==
  \A w \in Workers :
    /\ made[w] = "none" => DOMAIN procedures[w] = {}
    /\ made[w] # "none" /\ w \notin raced =>
         /\ Builtins \subseteq DOMAIN procedures[w]
         /\ \A n \in before[w] : \/ n \in DOMAIN procedures[w]
                                 \/ made[w] = "methods" /\ n \in DOMAIN m_notificationsTable

IInv == TypeOK /\ FirstBindingStays /\ Tables /\ ListedIsBound /\ Copies

-----------------------------------------------------------------------------

\* A call under way is one of the application's, and it is of one kind.
LEMMA InsertingKinds ==
  ASSUME TypeOK
  PROVE  /\ inserting # NoBind => inserting \in Bind
         /\ \A k \in Kinds : Changing(k) => inserting \in Bind /\ inserting # NoBind
         /\ Kinds = {"method", "notification"}
  BY DEF TypeOK, Bind, NoBind, Kinds, Changing

\* What a walk comes across is in the table or on its way into it.
LEMMA WalkSeen ==
  ASSUME TypeOK, NEW k \in Kinds, NEW seen \in Walks(Table(k), k)
  PROVE  /\ seen \subseteq Names
         /\ \A n \in seen : Found(k, n) \/ (Changing(k) /\ inserting.name = n)
         /\ ~Changing(k) => seen = DOMAIN Table(k)
<1>1. DOMAIN Table(k) \subseteq Names
  BY DEF TypeOK, Table
<1>2. Changing(k) => inserting.name \in Names
  BY InsertingKinds DEF Bind
<1> QED
  BY <1>1, <1>2 DEF Walks, Found

\* A handler's copy with some names added.
LEMMA AddedProcedures ==
  ASSUME TypeOK, NEW w \in Workers, NEW names, NEW k, AddProcedures(w, names, k)
  PROVE  /\ DOMAIN procedures' = Workers
         /\ DOMAIN procedures'[w] = DOMAIN procedures[w] \cup names
         /\ \A n \in DOMAIN procedures'[w] :
              procedures'[w][n] = IF n \in names THEN k ELSE procedures[w][n]
         /\ \A x \in Workers \ {w} : procedures'[x] = procedures[x]
  BY DEF AddProcedures, TypeOK

-----------------------------------------------------------------------------
(* The invariant holds at the start and is kept by every step.             *)

\* The inductive invariant holds of the empty tables.
LEMMA InitIInv == Init => IInv
  BY DEF Init, IInv, TypeOK, FirstBindingStays, Tables, ListedIsBound, Copies, Table, Kinds,
         symbolExists

\* bindMethod and bindNotification, up to the insertion.
LEMMA BindIInv ==
  ASSUME IInv, NEW b \in Bind, bind(b)
  PROVE  IInv'
<1> USE DEF bind, tableVars, copyVars
<1>1. TypeOK'
  BY DEF IInv, TypeOK
<1>2. FirstBindingStays'
  BY DEF IInv, FirstBindingStays, Found, Table
<1>3. Tables'
  BY DEF IInv, Tables, Table, symbolExists, NoBind
<1>4. ListedIsBound'
  <2>1. \A k \in Kinds : ~Changing(k)
    BY DEF Changing, Kinds, NoBind
  <2>2. \A w \in Workers : \A n \in DOMAIN procedures[w] : procedures[w][n] \in Kinds
    BY DEF IInv, TypeOK
  <2> QED
    BY <2>1, <2>2 DEF IInv, ListedIsBound, Found, Table
<1>5. Copies'
  BY DEF IInv, Copies
<1> QED
  BY <1>1, <1>2, <1>3, <1>4, <1>5 DEF IInv

\* The insertion, in one table or in the other.
LEMMA BindReturnsIInv ==
  ASSUME IInv, BindReturns
  PROVE  IInv'
<1> PICK k \in Kinds, n \in Names, f \in Funcs : inserting = [kind |-> k, name |-> n, func |-> f]
  BY InsertingKinds DEF IInv, BindReturns, Bind
<1>1. /\ inserting \in Bind /\ inserting.kind = k /\ inserting.name = n /\ inserting.func = f
      /\ Kinds = {"method", "notification"}
  BY DEF Bind, Kinds
<1>2. ~Found("method", n) /\ ~Found("notification", n) /\ n \notin Builtins \cup {EmptyName}
  BY <1>1 DEF IInv, Tables, BindReturns, symbolExists, Found, Table
<1>3. /\ DOMAIN Table(k)' = DOMAIN Table(k) \cup {n}
      /\ Table(k)'[n] = f
      /\ \A x \in DOMAIN Table(k) : Table(k)'[x] = Table(k)[x]
  <2>1. Table(k)' = Put(Table(k), n, f)
    BY <1>1 DEF BindReturns, Table
  <2>2. n \notin DOMAIN Table(k)
    BY <1>1, <1>2 DEF Found
  <2>3. /\ DOMAIN Put(Table(k), n, f) = DOMAIN Table(k) \cup {n}
        /\ Put(Table(k), n, f)[n] = f
        /\ \A x \in DOMAIN Table(k) \ {n} : Put(Table(k), n, f)[x] = Table(k)[x]
    BY DEF Put
  <2> QED
    BY <2>1, <2>2, <2>3
<1>4. \A j \in Kinds \ {k} : Table(j)' = Table(j)
  BY <1>1 DEF BindReturns, Table, Kinds
<1>5. bound' = bound \cup {inserting} /\ inserting' = NoBind /\ UNCHANGED copyVars
  BY DEF BindReturns
<1>6. \A j \in Kinds : DOMAIN Table(j) \subseteq DOMAIN Table(j)'
  BY <1>3, <1>4
<1>7. TypeOK'
  <2>1. \A j \in Kinds : /\ DOMAIN Table(j)' \subseteq Names
                         /\ \A x \in DOMAIN Table(j)' : Table(j)'[x] \in Funcs
    <3>1. \A j \in Kinds : /\ DOMAIN Table(j) \subseteq Names
                           /\ \A x \in DOMAIN Table(j) : Table(j)[x] \in Funcs
      BY DEF IInv, TypeOK, Table
    <3> QED
      BY <3>1, <1>1, <1>3, <1>4
  <2>2. /\ DOMAIN m_methodTable' \subseteq Names
        /\ \A x \in DOMAIN m_methodTable' : m_methodTable'[x] \in Funcs
        /\ DOMAIN m_notificationsTable' \subseteq Names
        /\ \A x \in DOMAIN m_notificationsTable' : m_notificationsTable'[x] \in Funcs
    BY <2>1 DEF Table, Kinds
  <2> QED
    BY <2>2, <1>1, <1>5 DEF IInv, TypeOK, copyVars
<1>8. FirstBindingStays'
  <2> SUFFICES ASSUME NEW b \in bound'
               PROVE  /\ b.name \notin Builtins \cup {EmptyName}
                      /\ b.name \in DOMAIN Table(b.kind)'
                      /\ Table(b.kind)'[b.name] = b.func
                      /\ \A j \in Kinds \ {b.kind} : b.name \notin DOMAIN Table(j)'
    BY DEF FirstBindingStays, Found, Table
  <2>1. CASE b = inserting
    BY <2>1, <1>1, <1>2, <1>3, <1>4 DEF Found, Kinds
  <2>2. CASE b \in bound
    <3>1. /\ b.name \notin Builtins \cup {EmptyName}
          /\ b.name \in DOMAIN Table(b.kind)
          /\ Table(b.kind)[b.name] = b.func
          /\ \A j \in Kinds \ {b.kind} : b.name \notin DOMAIN Table(j)
      BY <2>2 DEF IInv, FirstBindingStays, Found
    <3>2. b.kind \in Kinds
      BY <2>2 DEF IInv, TypeOK, Bind
    <3>3. b.name # n
      BY <3>1, <3>2, <1>2 DEF Found, Kinds
    <3> QED
      BY <3>1, <3>2, <3>3, <1>3, <1>4
  <2> QED
    BY <2>1, <2>2, <1>5
<1>9. Tables'
  <2>1. ASSUME NEW j \in Kinds, NEW x \in DOMAIN Table(j)'
        PROVE  [kind |-> j, name |-> x, func |-> Table(j)'[x]] \in bound'
    <3>1. CASE j = k /\ x = n
      BY <3>1, <1>3, <1>5
    <3>2. CASE ~(j = k /\ x = n)
      <4>1. x \in DOMAIN Table(j) /\ Table(j)'[x] = Table(j)[x]
        BY <3>2, <2>1, <1>3, <1>4
      <4> QED
        BY <4>1, <2>1, <1>5 DEF IInv, Tables
    <3> QED
      BY <3>1, <3>2
  <2> QED
    BY <2>1, <1>5 DEF Tables, Table
<1>10. ListedIsBound'
  <2> SUFFICES ASSUME NEW w \in Workers, NEW x \in DOMAIN procedures[w] \ Builtins
               PROVE  \A j \in Kinds : procedures[w][x] = j => x \in DOMAIN Table(j)'
    <3>1. \A v \in Workers : \A y \in DOMAIN procedures[v] : procedures[v][y] \in Kinds
      BY DEF IInv, TypeOK
    <3> QED
      BY <3>1, <1>5 DEF ListedIsBound, Found, copyVars, Table
  <2>1. ASSUME NEW j \in Kinds, procedures[w][x] = j
        PROVE  x \in DOMAIN Table(j) \/ (j = k /\ x = n)
    BY <2>1, <1>1 DEF IInv, ListedIsBound, Found, Changing
  <2> QED
    BY <2>1, <1>3, <1>6
<1>11. Copies'
  <2>1. DOMAIN m_notificationsTable \subseteq DOMAIN m_notificationsTable'
    BY <1>6 DEF Kinds, Table
  <2> QED
    BY <2>1, <1>5 DEF IInv, Copies, copyVars
<1> QED
  BY <1>7, <1>8, <1>9, <1>10, <1>11 DEF IInv

\* A handler copies the methods.
LEMMA ListMethodsIInv ==
  ASSUME IInv, NEW w \in Workers, ListMethods(w)
  PROVE  IInv'
<1> PICK seen \in Walks(m_methodTable, "method") : AddProcedures(w, Builtins \cup seen, "method")
  BY DEF ListMethods
<1>1. TypeOK /\ "method" \in Kinds /\ seen \in Walks(Table("method"), "method")
  BY DEF IInv, Kinds, Table
<1>2. /\ seen \subseteq Names
      /\ \A n \in seen : Found("method", n) \/ (Changing("method") /\ inserting.name = n)
      /\ ~Changing("method") => seen = DOMAIN m_methodTable
  BY <1>1, WalkSeen DEF Table
<1>3. /\ DOMAIN procedures' = Workers
      /\ DOMAIN procedures'[w] = Builtins \cup seen
      /\ \A n \in DOMAIN procedures'[w] : procedures'[w][n] = "method"
      /\ \A x \in Workers \ {w} : procedures'[x] = procedures[x]
  BY <1>1, AddedProcedures DEF IInv, Copies, ListMethods
<1>4. UNCHANGED tableVars
  BY DEF ListMethods
<1>5. /\ made' = [made EXCEPT ![w] = "methods"]
      /\ before' = [before EXCEPT ![w] = {b.name : b \in bound}]
      /\ raced' = IF Changing("method") THEN raced \cup {w} ELSE raced
  BY DEF ListMethods, Watch
<1>6. \A b \in bound : b.name \in Names
  BY <1>1 DEF TypeOK, Bind
<1>7. TypeOK'
  <2>1. made' \in [Workers -> {"none", "methods", "made"}] /\ raced' \subseteq Workers
    BY <1>1, <1>5 DEF TypeOK
  <2>2. before' \in [Workers -> SUBSET Names]
    BY <1>1, <1>5, <1>6 DEF TypeOK
  <2>3. \A x \in Workers : /\ DOMAIN procedures'[x] \subseteq Names \cup Builtins
                           /\ \A n \in DOMAIN procedures'[x] : procedures'[x][n] \in Kinds
    BY <1>1, <1>2, <1>3 DEF TypeOK
  <2> QED
    BY <2>1, <2>2, <2>3, <1>1, <1>3, <1>4 DEF TypeOK, tableVars
<1>8. FirstBindingStays' /\ Tables'
  BY <1>4 DEF IInv, FirstBindingStays, Tables, Found, Table, tableVars, symbolExists
<1>9. ListedIsBound'
  <2> SUFFICES ASSUME NEW x \in Workers, NEW n \in DOMAIN procedures'[x] \ Builtins
               PROVE  \/ Found(procedures'[x][n], n)
                      \/ Changing(procedures'[x][n]) /\ inserting.name = n
    BY <1>4 DEF ListedIsBound, Found, Changing, Table, tableVars
  <2>1. CASE x = w
    BY <2>1, <1>2, <1>3
  <2>2. CASE x # w
    BY <2>2, <1>3 DEF IInv, ListedIsBound
  <2> QED
    BY <2>1, <2>2
<1>10. Copies'
  <2> SUFFICES ASSUME NEW x \in Workers
               PROVE  /\ made'[x] = "none" => DOMAIN procedures'[x] = {}
                      /\ made'[x] # "none" /\ x \notin raced' =>
                           /\ Builtins \subseteq DOMAIN procedures'[x]
                           /\ \A n \in before'[x] :
                                \/ n \in DOMAIN procedures'[x]
                                \/ made'[x] = "methods" /\ n \in DOMAIN m_notificationsTable
    BY <1>4 DEF Copies, tableVars
  <2>1. CASE x # w
    BY <2>1, <1>1, <1>3, <1>5 DEF IInv, Copies, TypeOK
  <2>2. CASE x = w
    <3>1. made'[w] = "methods" /\ before'[w] = {b.name : b \in bound}
      BY <1>1, <1>5 DEF TypeOK
    <3>2. \A b \in bound : b.name \in DOMAIN m_methodTable \/ b.name \in DOMAIN m_notificationsTable
      BY <1>1 DEF IInv, FirstBindingStays, Found, Table
    <3>3. w \notin raced' => seen = DOMAIN m_methodTable
      BY <1>2, <1>5
    <3> QED
      BY <2>2, <3>1, <3>2, <3>3, <1>3
  <2> QED
    BY <2>1, <2>2
<1> QED
  BY <1>7, <1>8, <1>9, <1>10 DEF IInv

\* A handler copies the notifications; none of them is one of its methods.
LEMMA ListNotificationsIInv ==
  ASSUME IInv, NEW w \in Workers, ListNotifications(w)
  PROVE  IInv'
<1> PICK seen \in Walks(m_notificationsTable, "notification") :
           AddProcedures(w, seen, "notification")
  BY DEF ListNotifications
<1>1. TypeOK /\ "notification" \in Kinds /\ seen \in Walks(Table("notification"), "notification")
  BY DEF IInv, Kinds, Table
<1>2. /\ seen \subseteq Names
      /\ \A n \in seen : Found("notification", n) \/ (Changing("notification") /\ inserting.name = n)
      /\ ~Changing("notification") => seen = DOMAIN m_notificationsTable
  BY <1>1, WalkSeen DEF Table
<1>3. /\ DOMAIN procedures' = Workers
      /\ DOMAIN procedures'[w] = DOMAIN procedures[w] \cup seen
      /\ \A n \in DOMAIN procedures'[w] :
           procedures'[w][n] = IF n \in seen THEN "notification" ELSE procedures[w][n]
      /\ \A x \in Workers \ {w} : procedures'[x] = procedures[x]
  BY <1>1, AddedProcedures
<1>4. UNCHANGED tableVars
  BY DEF ListNotifications
<1>5. /\ made[w] = "methods"
      /\ made' = [made EXCEPT ![w] = "made"]
      /\ before' = before
      /\ raced' = IF Changing("notification") THEN raced \cup {w} ELSE raced
  BY DEF ListNotifications, Watch
<1>6. TypeOK'
  <2>1. made' \in [Workers -> {"none", "methods", "made"}] /\ raced' \subseteq Workers
    BY <1>1, <1>5 DEF TypeOK
  <2>2. \A x \in Workers : /\ DOMAIN procedures'[x] \subseteq Names \cup Builtins
                           /\ \A n \in DOMAIN procedures'[x] : procedures'[x][n] \in Kinds
    BY <1>1, <1>2, <1>3 DEF TypeOK
  <2> QED
    BY <2>1, <2>2, <1>1, <1>3, <1>4, <1>5 DEF TypeOK, tableVars
<1>7. FirstBindingStays' /\ Tables'
  BY <1>4 DEF IInv, FirstBindingStays, Tables, Found, Table, tableVars, symbolExists
<1>8. ListedIsBound'
  <2> SUFFICES ASSUME NEW x \in Workers, NEW n \in DOMAIN procedures'[x] \ Builtins
               PROVE  \/ Found(procedures'[x][n], n)
                      \/ Changing(procedures'[x][n]) /\ inserting.name = n
    BY <1>4 DEF ListedIsBound, Found, Changing, Table, tableVars
  <2>1. CASE x = w /\ n \in seen
    BY <2>1, <1>2, <1>3
  <2>2. CASE ~(x = w /\ n \in seen)
    <3>1. n \in DOMAIN procedures[x] /\ procedures'[x][n] = procedures[x][n]
      BY <2>2, <1>3
    <3> QED
      BY <3>1 DEF IInv, ListedIsBound
  <2> QED
    BY <2>1, <2>2
<1>9. Copies'
  <2> SUFFICES ASSUME NEW x \in Workers
               PROVE  /\ made'[x] = "none" => DOMAIN procedures'[x] = {}
                      /\ made'[x] # "none" /\ x \notin raced' =>
                           /\ Builtins \subseteq DOMAIN procedures'[x]
                           /\ \A n \in before'[x] :
                                \/ n \in DOMAIN procedures'[x]
                                \/ made'[x] = "methods" /\ n \in DOMAIN m_notificationsTable
    BY <1>4 DEF Copies, tableVars
  <2>1. CASE x # w
    BY <2>1, <1>1, <1>3, <1>5 DEF IInv, Copies, TypeOK
  <2>2. CASE x = w
    <3>1. made'[w] = "made"
      BY <1>1, <1>5 DEF TypeOK
    <3>2. w \notin raced' => w \notin raced /\ seen = DOMAIN m_notificationsTable
      BY <1>2, <1>5
    <3> QED
      BY <2>2, <3>1, <3>2, <1>3, <1>5 DEF IInv, Copies
  <2> QED
    BY <2>1, <2>2
<1> QED
  BY <1>6, <1>7, <1>8, <1>9 DEF IInv

\* Every binding and every copy of the tables keeps it.
LEMMA StepIInv == IInv /\ [Next]_vars => IInv'
<1> SUFFICES ASSUME IInv, [Next]_vars PROVE IInv'
  OBVIOUS
<1>1. ASSUME NEW n \in Names, NEW f \in Funcs, bindMethod(n, f) \/ bindNotification(n, f)
      PROVE  IInv'
  <2>1. PICK b \in Bind : bind(b)
    BY <1>1 DEF bindMethod, bindNotification, Bind, Kinds
  <2> QED
    BY <2>1, BindIInv
<1>2. CASE BindReturns
  BY <1>2, BindReturnsIInv
<1>3. ASSUME NEW w \in Workers, ListMethods(w) \/ ListNotifications(w)
      PROVE  IInv'
  BY <1>3, ListMethodsIInv, ListNotificationsIInv
<1>4. CASE UNCHANGED vars
  BY <1>4 DEF vars, tableVars, copyVars, IInv, TypeOK, FirstBindingStays, Tables, ListedIsBound,
              Copies, Found, Changing, Table, symbolExists
<1> QED
  BY <1>1, <1>2, <1>3, <1>4 DEF Next

\* The inductive invariant of the bound names.
LEMMA Invariance == Spec => []IInv
  BY InitIInv, StepIInv, PTL DEF Spec

-----------------------------------------------------------------------------
(* The theorems.                                                           *)

\* The variables of the tables and of the handlers keep their types.
THEOREM TypeCorrect == Spec => []TypeOK
<1>1. IInv => TypeOK
  BY DEF IInv
<1> QED
  BY <1>1, Invariance, PTL

\* What bindMethod or bindNotification has confirmed is never taken back, for
\* any sequence of calls (RpcPeerServer.h:112-139).
THEOREM BindingsStay == Spec => []FirstBindingStays
<1>1. IInv => FirstBindingStays
  BY DEF IInv
<1> QED
  BY <1>1, Invariance, PTL

\* No handler offers a procedure whose function at() would not find, other
\* than one that is being bound (PeerProtocolHandler.h:59, RpcPeerServer.h:156).
THEOREM OffersAreKept == Spec => []ListedIsBound
<1>1. IInv => ListedIsBound
  BY DEF IInv
<1> QED
  BY <1>1, Invariance, PTL

\* A handler made while nothing is being bound knows every name bound before.
THEOREM HandlersAreComplete == Spec => []BoundBeforeIsListed
<1>1. IInv => BoundBeforeIsListed
  BY DEF IInv, Copies, BoundBeforeIsListed, TypeOK
<1> QED
  BY <1>1, Invariance, PTL

=============================================================================
