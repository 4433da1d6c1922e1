----------------------- MODULE WsConnectorRefinement -----------------------
(***************************************************************************)
(* WsConnector implements PeerService: for every number of worker threads  *)
(* its peers cannot tell it from a server without threads, queues, handles *)
(* and contexts that answers each request of an open connection once, and, *)
(* with one worker thread, in order and with none left out. Every step of  *)
(* the connector is shown to be one step of the service or none.           *)
(***************************************************************************)
EXTENDS WsConnectorAnswers

-----------------------------------------------------------------------------
(* No request of an open connection is lost.                               *)

Places == Queued \cup InHand \cup Posted \cup Sent

\* What the peer of an open connection has asked is on its way or answered.
Complete ==
  \A h \in Handles : conn[h].state = "open" =>
    \A n \in 1..asked[conn[h].session] : <<conn[h].session, n>> \in Places

\* A peer asks only when its connection has been opened.
Fresh == \A s \in Sessions : asked[s] # 0 => \E c \in DOMAIN owner : owner[c] = s

IInv == Ground /\ Known /\ Once /\ Complete /\ Fresh /\ (NumThreads = 1 => Ordered)

\* No step lets a peer ask before its connection has a context.
LEMMA StepFresh ==
  ASSUME Ground, Ground', Fresh, [OpenNext]_vars
  PROVE  Fresh'
<1>1. OwnersStay
  BY AskedGrows
<1>2. asked' = asked \/ \E t \in WorkerTasks : Asks(t)
  BY Moves DEF Announces, Posts, Takes, Finishes, Sends
<1>3. ASSUME NEW t \in WorkerTasks, Asks(t) PROVE Fresh'
  <2>1. /\ \A s \in Sessions : s # t.req.session => asked'[s] = asked[s]
        /\ t.ctx \in DOMAIN owner /\ owner[t.ctx] = t.req.session /\ owner' = owner
    BY <1>3 DEF Asks, Ground, TypeOK, NetTypes
  <2> QED
    BY <2>1 DEF Fresh
<1>4. asked' = asked => Fresh'
  BY <1>1 DEF Fresh, OwnersStay
<1> QED
  BY <1>2, <1>3, <1>4

\* The connections that are open stay so, or one has just opened.
LEMMA OpenSteps ==
  ASSUME Ground, [OpenNext]_vars
  PROVE  \/ \A h \in Handles : conn'[h].state = "open" => conn'[h] = conn[h]
         \/ \E h \in Handles : /\ onConnOpen(h) /\ conn'[h].session = conn[h].session
                               /\ \A g \in Handles \ {h} : conn'[g] = conn[g]
<1>1. conn \in ConnType
  BY DEF Ground, TypeOK, NetTypes, ConnType
<1>2. ASSUME NEW h \in Handles, Accept(h) \/ HandshakeFails(h) \/ PeerCloses(h)
      PROVE  \A g \in Handles : conn'[g].state = "open" => conn'[g] = conn[g]
  <2>1. CASE Accept(h)
    BY <1>1, <2>1 DEF Accept, ConnType
  <2>2. CASE HandshakeFails(h)
    BY <1>1, <2>2 DEF HandshakeFails, ConnType, Free
  <2>3. CASE PeerCloses(h)
    BY <1>1, <2>3 DEF PeerCloses, ConnType
  <2> QED
    BY <1>2, <2>1, <2>2, <2>3
<1>3. ASSUME NEW h \in Handles, onConnClose(h)
      PROVE  \A g \in Handles : conn'[g].state = "open" => conn'[g] = conn[g]
  <2>1. conn' = conn \/ conn' = [conn EXCEPT ![h] = Free]
    BY <1>3 DEF onConnClose, Terminate, netVars
  <2> QED
    BY <1>1, <2>1 DEF ConnType, Free
<1>4. ASSUME NEW h \in Handles, NEW body \in Bodies, onConnMessage(h, body) PROVE conn' = conn
  BY <1>4 DEF onConnMessage, Terminate, netVars
<1>5. ASSUME stopServerLoop
      PROVE  \A g \in Handles : conn'[g].state = "open" => conn'[g] = conn[g]
  BY <1>1, <1>5 DEF stopServerLoop, closeConnections, ConnType
<1>6. ASSUME NEW h \in Handles, onConnOpen(h)
      PROVE  /\ conn'[h].session = conn[h].session
             /\ \A g \in Handles \ {h} : conn'[g] = conn[g]
  BY <1>1, <1>6 DEF onConnOpen, ConnType
<1> QED
  BY <1>2, <1>3, <1>4, <1>5, <1>6, NetSteps

\* No request leaves all places, unless nobody waits for its answer.
LEMMA PlacesStay ==
  ASSUME Ground, Ground', Known, Once, [OpenNext]_vars,
         NEW k \in Places, k \notin Places'
  PROVE  ~Carried(k[1])
<1>1. CASE SameTasks /\ UNCHANGED <<workerTasks, serverTasks, wire>>
  BY <1>1, SamePlaces DEF Places
<1>2. ASSUME NEW t \in WorkerTasks, Announces(t) PROVE Places' = Places
  <2>1. Adds(workerTasks, t, workerTasks') /\ t.kind # "request" /\ Distinct(workerTasks, "request")
    BY <1>2, AppendAdds DEF Announces, Once, Single
  <2>2. Carries(workerTasks', "request") = Carries(workerTasks, "request")
    BY <2>1, AddsNothing
  <2> QED
    BY <1>2, <2>2, SamePlaces DEF Announces, SameTasks, Queued, Places
<1>3. ASSUME NEW m \in PostedOnly, Posts(m) PROVE Places' = Places
  <2>1. m \in ServerTasks /\ m.kind # "response"
    BY DEF PostedOnly, ServerTasks, Frames, Ground, TypeOK, BookTypes
  <2>2. Adds(serverTasks, m, serverTasks') /\ Distinct(serverTasks, "response")
    BY <1>3, <2>1, AppendAdds DEF Posts, Once, Single
  <2>3. Carries(serverTasks', "response") = Carries(serverTasks, "response")
    BY <2>1, <2>2, AddsNothing
  <2> QED
    BY <1>3, <2>3, SamePlaces DEF Posts, SameTasks, Posted, Places
<1>4. ASSUME NEW t \in WorkerTasks, Asks(t) PROVE Places \subseteq Places'
  BY <1>4, AskKeys DEF Places
<1>5. ASSUME NEW w \in Workers, Takes(w) PROVE Places \subseteq Places'
  BY <1>5, TakeKeys DEF Places
<1>6. ASSUME NEW w \in Workers, Finishes(w) PROVE Places \subseteq Places'
  BY <1>6, FinishKeys DEF Places
<1>7. ASSUME NEW m \in ServerTasks, Sends(m) PROVE ~Carried(k[1])
  <2>1. m.kind = "response" /\ k = Key(m) /\ Sent' = Sent
    BY <1>7, SendKeys DEF Places
  <2>2. m.ctx \in DOMAIN owner /\ owner[m.ctx] = k[1]
    <3>1. FrameKnown(m, owner, asked)
      BY <1>7, Elements, SameElements DEF Sends, Known
    <3> QED
      BY <2>1, <3>1 DEF FrameKnown, Key
  <2>3. CASE m \in Frames /\ wire' = [wire EXCEPT ![k[1]] = Append(@, m)] /\ k[1] \in Sessions
    <3>1. Adds(wire[k[1]], m, wire'[k[1]])
      BY <2>3, Elements, AppendAdds
    <3>2. k \in Carries(wire'[k[1]], "response")
      BY <2>1, <3>1 DEF Adds, Carries
    <3>3. k \in Sent'
      BY <2>3, <3>2 DEF Sent
    <3> QED
      BY <3>3 DEF Places
  <2> QED
    BY <1>7, <2>1, <2>2, <2>3 DEF Sends
<1> QED
  BY <1>1, <1>2, <1>3, <1>4, <1>5, <1>6, <1>7, Moves

\* No step loses a request of an open connection.
LEMMA StepComplete ==
  ASSUME Ground, Ground', Known, Once, Complete, Fresh, [OpenNext]_vars
  PROVE  Complete'
<1> SUFFICES ASSUME NEW h \in Handles, conn'[h].state = "open", NEW n \in 1..asked'[conn'[h].session]
             PROVE  <<conn'[h].session, n>> \in Places'
  BY DEF Complete
<1> DEFINE s == conn'[h].session
<1>1. s \in Sessions /\ asked \in [Sessions -> Nat] /\ asked' \in [Sessions -> Nat]
  <2>1. conn' \in ConnType /\ asked \in [Sessions -> 0..MaxRequests] /\ asked' \in [Sessions -> 0..MaxRequests]
    BY DEF Ground, TypeOK, NetTypes, ConnType
  <2> QED
    BY <2>1, BoundsAssumption DEF ConnType, Free
<1> HIDE DEF s
<1>2. CASE conn'[h] = conn[h]
  <2>1. Carried(s)
    BY <1>2 DEF Carried, s, Ground, TypeOK, NetTypes, Free
  <2>2. CASE n \in 1..asked[s]
    <3>1. <<s, n>> \in Places
      BY <1>2, <2>2 DEF Complete, s
    <3> QED
      BY <2>1, <3>1, PlacesStay DEF s
  <2>3. CASE n \notin 1..asked[s]
    <3>1. PICK t \in WorkerTasks : Asks(t)
      BY <2>3, Moves DEF Announces, Posts, Takes, Finishes, Sends, s
    <3>2. t.req.session = s /\ n = asked[s] + 1
      BY <1>1, <2>3, <3>1 DEF Asks, s
    <3>3. Key(t) = <<s, n>>
      BY <3>1, <3>2 DEF Key, Asks
    <3>4. Key(t) \in Queued'
      BY <3>1, AskKeys
    <3> QED
      BY <3>3, <3>4 DEF Places, s
  <2> QED
    BY <2>2, <2>3
<1>3. CASE onConnOpen(h) /\ s = conn[h].session
  <2>1. asked' = asked /\ Shaking(h)
    BY <1>3 DEF onConnOpen, Shaking
  <2>2. asked[s] = 0
    BY <1>1, <1>3, <2>1 DEF Fresh, Ground, Owners
  <2>3. n \in 1..0
    BY <2>1, <2>2 DEF s
  <2> QED
    BY <2>3
<1> QED
  BY <1>2, <1>3, OpenSteps DEF s

\* What the refinement needs to know of the states it meets.
LEMMA IInvariant == OpenSpec => []IInv
<1>1. Init => Complete /\ Fresh
  BY DEF Init, Complete, Fresh, Free
<1>2. Ground /\ Ground' /\ Known /\ Once /\ Complete /\ Fresh /\ [OpenNext]_vars => Complete' /\ Fresh'
  BY StepComplete, StepFresh
<1>3. CASE NumThreads = 1
  <2>1. OpenSpec => [](Ground /\ Known /\ Once /\ Ordered)
    BY <1>3, OrderedInvariant
  <2>2. Ground /\ Known /\ Once /\ Complete /\ Fresh /\ Ordered => IInv
    BY DEF IInv
  <2> QED
    BY <1>1, <1>2, <2>1, <2>2, PTL DEF OpenSpec
<1>4. CASE NumThreads # 1
  <2>1. Ground /\ Known /\ Once /\ Complete /\ Fresh => IInv
    BY <1>4 DEF IInv
  <2> QED
    BY <1>1, <1>2, <2>1, OnceInvariant, PTL DEF OpenSpec
<1> QED
  BY <1>3, <1>4

-----------------------------------------------------------------------------
(* The phase of a session.                                                 *)

\* What is said of session s by connections c, of which a were accepted.
Reads(c, a, s, p) ==
  /\ s > a => p = "awaited"
  /\ \A h \in Handles : c[h].session = s => p = c[h].state
  /\ ~(s > a) /\ (\A h \in Handles : c[h].session # s) => p = "gone"

PhaseIn(c, a, s) == IF s > a THEN "awaited"
                    ELSE IF \E h \in Handles : c[h].session = s
                           THEN (CHOOSE x \in {c[h] : h \in Handles} : x.session = s).state
                           ELSE "gone"

\* The phase is the state of the one connection that carries the session.
LEMMA PhaseReads ==
  ASSUME NEW c, NEW a, NEW s, \A h \in Handles : c[h].session = s => ~(s > a),
         \A g, h \in Handles : c[g].session = s /\ c[h].session = s => g = h
  PROVE  Reads(c, a, s, PhaseIn(c, a, s))
<1>1. ASSUME NEW h \in Handles, c[h].session = s PROVE PhaseIn(c, a, s) = c[h].state
  <2> DEFINE x == CHOOSE x \in {c[g] : g \in Handles} : x.session = s
  <2>1. x \in {c[g] : g \in Handles} /\ x.session = s
    BY <1>1
  <2>2. x = c[h]
    BY <1>1, <2>1
  <2> QED
    BY <1>1, <2>2 DEF PhaseIn
<1>2. s > a => PhaseIn(c, a, s) = "awaited"
  BY DEF PhaseIn
<1>3. ~(s > a) /\ (\A h \in Handles : c[h].session # s) => PhaseIn(c, a, s) = "gone"
  BY DEF PhaseIn
<1> QED
  BY <1>1, <1>2, <1>3 DEF Reads

\* A session accepted is carried by one connection at most, one that is not
\* yet accepted by none.
LEMMA CarriedByOne ==
  ASSUME NEW cc \in [Handles -> {Free} \cup [state : {"handshake", "open", "closing"}, session : Sessions]],
         NEW n \in 0..MaxSessions, NEW s \in Sessions,
         \A h \in Handles : cc[h].session <= n,
         \A g, h \in Handles : cc[g] # Free /\ cc[h] # Free /\ cc[g].session = cc[h].session => g = h
  PROVE  /\ \A h \in Handles : cc[h].session = s => ~(s > n)
         /\ \A g, h \in Handles : cc[g].session = s /\ cc[h].session = s => g = h
<1>1. s \in Nat \ {0} /\ n \in Nat
  BY BoundsAssumption DEF Sessions
<1>2. \A h \in Handles : cc[h].session = s => cc[h] # Free
  BY <1>1 DEF Free
<1> QED
  BY <1>1, <1>2

\* So it is in the states of the connector, before and after a step.
LEMMA Phases ==
  ASSUME Ground, Ground'
  PROVE  \A s \in Sessions : /\ Reads(conn, accepted, s, Phase(s))
                             /\ Reads(conn', accepted', s, Phase(s)')
<1>1. ASSUME NEW s \in Sessions PROVE Reads(conn, accepted, s, Phase(s))
  <2>1. /\ \A h \in Handles : conn[h].session = s => ~(s > accepted)
        /\ \A g, h \in Handles : conn[g].session = s /\ conn[h].session = s => g = h
    <3>1. /\ conn \in [Handles -> {Free} \cup [state : {"handshake", "open", "closing"}, session : Sessions]]
          /\ accepted \in 0..MaxSessions
      BY DEF Ground, TypeOK, NetTypes
    <3>2. /\ \A h \in Handles : conn[h].session <= accepted
          /\ \A g, h \in Handles : conn[g] # Free /\ conn[h] # Free /\ conn[g].session = conn[h].session
                                  => g = h
      BY DEF Ground, Owners
    <3> QED
      BY <3>1, <3>2, CarriedByOne
  <2>2. Phase(s) = PhaseIn(conn, accepted, s)
    BY DEF Phase, PhaseIn
  <2> QED
    BY <2>1, <2>2, PhaseReads
<1>2. ASSUME NEW s \in Sessions PROVE Reads(conn', accepted', s, Phase(s)')
  <2>1. /\ \A h \in Handles : conn'[h].session = s => ~(s > accepted')
        /\ \A g, h \in Handles : conn'[g].session = s /\ conn'[h].session = s => g = h
    <3>1. /\ conn' \in [Handles -> {Free} \cup [state : {"handshake", "open", "closing"}, session : Sessions]]
          /\ accepted' \in 0..MaxSessions
      BY DEF Ground, TypeOK, NetTypes
    <3>2. /\ \A h \in Handles : conn'[h].session <= accepted'
          /\ \A g, h \in Handles : conn'[g] # Free /\ conn'[h] # Free /\ conn'[g].session = conn'[h].session
                                  => g = h
      BY DEF Ground, Owners
    <3> QED
      BY <3>1, <3>2, CarriedByOne
  <2>2. Phase(s)' = PhaseIn(conn', accepted', s)
    BY DEF Phase, PhaseIn
  <2> QED
    BY <2>1, <2>2, PhaseReads
<1> QED
  BY <1>1, <1>2

\* A session of which nothing is said anew stands where it stood.
LEMMA SamePhase ==
  ASSUME Ground, Ground', NEW s \in Sessions, s > accepted' <=> s > accepted,
         \A h \in Handles : /\ conn'[h].session = s <=> conn[h].session = s
                            /\ conn[h].session = s => conn'[h].state = conn[h].state
  PROVE  Phase(s)' = Phase(s)
<1>1. Reads(conn, accepted, s, Phase(s)) /\ Reads(conn', accepted', s, Phase(s)')
  BY Phases
<1> QED
  BY <1>1 DEF Reads

phases == [s \in Sessions |-> Phase(s)]
got    == [s \in Sessions |-> [i \in DOMAIN wire[s] |-> Seen(wire[s][i])]]

\* One session moves on.
LEMMA MovesRefined ==
  ASSUME NEW s \in Sessions, NEW from, NEW to, Phase(s) = from, Phase(s)' = to,
         UNCHANGED <<asked, wire>>, \A r \in Sessions \ {s} : Phase(r)' = Phase(r)
  PROVE  Service!Moves(s, from, to)
  BY DEF Service!Moves, Service!Sessions, Sessions

-----------------------------------------------------------------------------
(* Every step.                                                             *)

\* The next peer comes.
LEMMA AcceptRefined ==
  ASSUME Ground, Ground', NEW h \in Handles, Accept(h)
  PROVE  \E s \in Service!Sessions : Service!Comes(s)
<1>0. PICK s \in Sessions : s = accepted + 1
  BY BoundsAssumption DEF Accept, Sessions, Ground, TypeOK, NetTypes
<1>1. accepted \in Nat /\ accepted' = s /\ UNCHANGED <<asked, wire>>
  BY <1>0, BoundsAssumption DEF Accept, Ground, TypeOK, NetTypes
<1>2. /\ conn[h].session = 0 /\ conn'[h] = [state |-> "handshake", session |-> s]
      /\ \A g \in Handles \ {h} : conn'[g] = conn[g]
      /\ \A g \in Handles : conn[g].session <= accepted /\ conn[g].session \in Nat
  BY <1>1, ConnStates DEF Accept, Ground, Owners, TypeOK, NetTypes, Free
<1>3. Phase(s) = "awaited" /\ Phase(s)' = "handshake"
  <2>1. s > accepted /\ conn'[h].session = s /\ conn'[h].state = "handshake"
    BY <1>0, <1>1, <1>2
  <2>2. Reads(conn, accepted, s, Phase(s)) /\ Reads(conn', accepted', s, Phase(s)')
    BY Phases
  <2> QED
    BY <1>1, <2>1, <2>2 DEF Reads
<1>4. ASSUME NEW r \in Sessions \ {s} PROVE Phase(r)' = Phase(r)
  <2>1. r \in Nat \ {0} /\ (r > accepted' <=> r > accepted)
    BY <1>0, <1>1, BoundsAssumption DEF Sessions
  <2> QED
    BY <1>2, <2>1, SamePhase
<1>5. \A t \in 1..(s - 1) : t \in Sessions /\ Phase(t) # "awaited"
  <2> SUFFICES ASSUME NEW t \in 1..(s - 1) PROVE t \in Sessions /\ Phase(t) # "awaited"
    OBVIOUS
  <2>1. t \in Sessions /\ ~(t > accepted)
    BY <1>0, <1>1, BoundsAssumption DEF Sessions
  <2>2. Reads(conn, accepted, t, Phase(t))
    BY <2>1, Phases
  <2>3. \A g \in Handles : conn[g].session = t => conn[g].state # "awaited"
    BY ConnStates DEF Ground
  <2> QED
    BY <2>1, <2>2, <2>3 DEF Reads
<1>6. Service!Moves(s, "awaited", "handshake")
  BY <1>1, <1>3, <1>4, MovesRefined
<1> QED
  BY <1>1, <1>5, <1>6 DEF Service!Comes, Service!Sessions, Sessions

\* One connection moves on.
LEMMA HandleMoves ==
  ASSUME Ground, Ground', NEW h \in Handles, NEW s \in Sessions, conn[h].session = s,
         NEW from, NEW to, conn[h].state = from,
         (conn'[h].session = s /\ conn'[h].state = to) \/ (conn'[h] = Free /\ to = "gone"),
         \A g \in Handles \ {h} : conn'[g] = conn[g],
         UNCHANGED <<accepted, asked, wire>>
  PROVE  Service!Moves(s, from, to)
<1>0. s # 0 /\ Free.session = 0 /\ ~(s > accepted)
  <2>1. s \in Nat \ {0} /\ accepted \in Nat /\ s <= accepted
    BY BoundsAssumption DEF Sessions, Ground, Owners, TypeOK, NetTypes
  <2> QED
    BY <2>1 DEF Free
<1>1. Reads(conn, accepted, s, Phase(s)) /\ Reads(conn', accepted', s, Phase(s)')
  BY Phases
<1>2. Phase(s) = from
  BY <1>1 DEF Reads
<1>3. Phase(s)' = to
  <2>1. CASE conn'[h].session = s /\ conn'[h].state = to
    BY <1>1, <2>1 DEF Reads
  <2>2. CASE conn'[h] = Free /\ to = "gone"
    <3>1. \A g \in Handles \ {h} : conn[g].session # s
      BY <1>0, ConnStates DEF Ground, Owners, Free
    <3>2. \A g \in Handles : conn'[g].session # s
      BY <1>0, <2>2, <3>1
    <3> QED
      BY <1>0, <1>1, <2>2, <3>2 DEF Reads
  <2> QED
    BY <2>1, <2>2
<1>4. ASSUME NEW r \in Sessions \ {s} PROVE Phase(r)' = Phase(r)
  <2>1. r # 0 /\ conn'[h].session # r
    BY <1>0, BoundsAssumption DEF Sessions
  <2> QED
    BY <2>1, SamePhase
<1> QED
  BY <1>2, <1>3, <1>4, MovesRefined

\* The sessions stand where they stood when the connections do.
LEMMA PhasesStay ==
  ASSUME Ground, Ground', UNCHANGED <<conn, accepted>>
  PROVE  UNCHANGED phases
<1>1. \A s \in Sessions : Phase(s)' = Phase(s)
  BY SamePhase
<1> QED
  BY <1>1 DEF phases

\* A handshake ends one way or the other, a peer hangs up, a peer goes.
LEMMA ConnectionRefined ==
  ASSUME Ground, Ground', NEW h \in Handles,
         HandshakeFails(h) \/ onConnOpen(h) \/ PeerCloses(h) \/ (onConnClose(h) /\ h \in DOMAIN m_connToCtx)
  PROVE  Service!Next
<1>0. PICK s \in Sessions : conn[h].session = s
  BY ConnStates DEF HandshakeFails, onConnOpen, PeerCloses, onConnClose, Ground
<1>1. conn \in ConnType
  BY DEF Ground, TypeOK, NetTypes, ConnType
<1> USE DEF Service!Next, Service!Sessions, Sessions
<1>2. CASE HandshakeFails(h)
  <2>1. Service!Moves(s, "handshake", "gone")
    BY <1>0, <1>1, <1>2, HandleMoves DEF HandshakeFails, ConnType
  <2> QED
    BY <2>1 DEF Service!Refused
<1>3. CASE onConnOpen(h)
  <2>1. Service!Moves(s, "handshake", "open")
    BY <1>0, <1>1, <1>3, HandleMoves DEF onConnOpen, ConnType
  <2> QED
    BY <2>1 DEF Service!Opens
<1>4. CASE PeerCloses(h)
  <2>1. Service!Moves(s, "open", "closing")
    BY <1>0, <1>1, <1>4, HandleMoves DEF PeerCloses, ConnType
  <2>2. Service!Close({s})
    BY <2>1 DEF Service!Moves, Service!Close
  <2> QED
    BY <2>2
<1>5. CASE onConnClose(h) /\ h \in DOMAIN m_connToCtx
  <2>1. Service!Moves(s, "closing", "gone")
    BY <1>0, <1>1, <1>5, HandleMoves DEF onConnClose, ConnType
  <2> QED
    BY <2>1 DEF Service!Goes
<1> QED
  BY <1>2, <1>3, <1>4, <1>5

\* The server closes every connection that is open.
LEMMA CloseRefined ==
  ASSUME Ground, Ground', stopServerLoop
  PROVE  \E S \in SUBSET Service!Sessions : Service!Close(S)
<1>0. PICK S \in SUBSET Sessions : S = {s \in Sessions : Carried(s)}
  OBVIOUS
<1>1. /\ UNCHANGED <<accepted, asked, wire>> /\ conn \in ConnType
      /\ conn' = [h \in Handles |-> IF h \in DOMAIN m_connToCtx /\ conn[h].state = "open"
                                     THEN [conn[h] EXCEPT !.state = "closing"] ELSE conn[h]]
  BY DEF stopServerLoop, TakeServerTask, closeConnections, getAllHdl, Ground, TypeOK, NetTypes, ConnType
<1>2. \A h \in Handles : /\ conn'[h].session = conn[h].session
                         /\ conn[h].state = "open" => conn'[h].state = "closing"
                         /\ conn[h].state # "open" => conn'[h] = conn[h]
  BY <1>1 DEF Ground, Book, Connected, ConnType
<1>3. ASSUME NEW s \in S PROVE Phase(s) = "open" /\ Phase(s)' = "closing"
  <2>1. PICK h \in Handles : conn[h] = [state |-> "open", session |-> s]
    BY <1>0 DEF Carried
  <2>2. conn[h].state = "open" /\ conn[h].session = s
    BY <2>1
  <2>3. Reads(conn, accepted, s, Phase(s)) /\ Reads(conn', accepted', s, Phase(s)')
    BY <1>0, Phases
  <2> QED
    BY <1>2, <2>2, <2>3 DEF Reads
<1>4. ASSUME NEW s \in Sessions, s \notin S PROVE Phase(s)' = Phase(s)
  <2>1. ~Carried(s)
    BY <1>0, <1>4
  <2>2. \A h \in Handles : conn[h].session = s => conn[h].state # "open"
    <3>1. s # 0
      BY BoundsAssumption DEF Sessions
    <3> QED
      BY <1>1, <2>1, <3>1 DEF Carried, ConnType, Free
  <2> QED
    BY <1>1, <1>2, <2>2, SamePhase
<1>5. Service!Close(S)
  BY <1>1, <1>3, <1>4 DEF Service!Close, Service!Sessions, Sessions
<1> QED
  BY <1>5 DEF Service!Sessions, Sessions

\* A message read is a request asked.
LEMMA AskRefined ==
  ASSUME Ground, Ground', NEW h \in DOMAIN m_connToCtx, NEW body \in Bodies, onConnMessage(h, body)
  PROVE  \E s \in Service!Sessions : Service!Asks(s)
<1>0. PICK s \in Sessions : conn[h].session = s
  BY NewRequest DEF Ground
<1>1. /\ asked' = [asked EXCEPT ![s] = asked[s] + 1] /\ asked[s] < MaxRequests
      /\ UNCHANGED <<conn, accepted, wire>> /\ conn[h].state = "open" /\ h \in Handles
  BY <1>0, NewRequest DEF Ground, onConnMessage
<1>2. Phase(s) = "open"
  BY <1>0, <1>1, Phases DEF Reads
<1>3. UNCHANGED phases
  BY <1>1, PhasesStay
<1>4. Service!Asks(s)
  BY <1>1, <1>2, <1>3 DEF Service!Asks, Service!Sessions, Sessions, phases
<1> QED
  BY <1>4 DEF Service!Sessions, Sessions

\* A frame is sent, and seen.
LEMMA SeenAppend ==
  ASSUME NEW q \in Seq(Frames), NEW m \in Frames
  PROVE  [i \in DOMAIN Append(q, m) |-> Seen(Append(q, m)[i])] = Append([i \in DOMAIN q |-> Seen(q[i])], Seen(m))
<1> DEFINE r == Append(q, m)
           p == [i \in DOMAIN q |-> Seen(q[i])]
<1>1. /\ Len(q) \in Nat /\ DOMAIN q = 1..Len(q) /\ DOMAIN r = 1..(Len(q) + 1)
      /\ r[Len(q) + 1] = m /\ \A i \in DOMAIN q : r[i] = q[i]
  OBVIOUS
<1>2. p \in Seq({Seen(x) : x \in Frames}) /\ Len(p) = Len(q)
  OBVIOUS
<1> HIDE DEF p, r
<1>3. ASSUME NEW S, NEW a \in Seq(S), NEW e \in S
      PROVE  Append(a, e) = [i \in 1..(Len(a) + 1) |-> IF i = Len(a) + 1 THEN e ELSE a[i]]
  <2> DEFINE b == Append(a, e)
  <2>0. ASSUME NEW c \in Seq(S) PROVE c \in [1..Len(c) -> S]
    OBVIOUS
  <2>1. b \in [1..(Len(a) + 1) -> S]
    <3>1. b \in Seq(S) /\ Len(b) = Len(a) + 1
      OBVIOUS
    <3> QED
      BY <2>0, <3>1
  <2>2. \A i \in 1..(Len(a) + 1) : b[i] = IF i = Len(a) + 1 THEN e ELSE a[i]
    OBVIOUS
  <2> HIDE DEF b
  <2>3. b = [i \in 1..(Len(a) + 1) |-> IF i = Len(a) + 1 THEN e ELSE a[i]]
    BY <2>1, <2>2
  <2> QED
    BY <2>3 DEF b
<1>4. Append(p, Seen(m)) = [i \in 1..(Len(p) + 1) |-> IF i = Len(p) + 1 THEN Seen(m) ELSE p[i]]
  <2>1. Seen(m) \in {Seen(x) : x \in Frames}
    OBVIOUS
  <2> QED
    BY <1>2, <1>3, <2>1
<1>5. \A i \in DOMAIN q : p[i] = Seen(q[i])
  BY DEF p
<1>6. \A i \in 1..(Len(q) + 1) : Seen(r[i]) = IF i = Len(q) + 1 THEN Seen(m) ELSE p[i]
  <2> SUFFICES ASSUME NEW i \in 1..(Len(q) + 1)
               PROVE  Seen(r[i]) = IF i = Len(q) + 1 THEN Seen(m) ELSE p[i]
    OBVIOUS
  <2>1. CASE i \in 1..Len(q)
    <3>1. i \in DOMAIN q /\ i # Len(q) + 1
      BY <1>1, <2>1
    <3>2. r[i] = q[i] /\ p[i] = Seen(q[i])
      BY <1>1, <1>5, <3>1
    <3> QED
      BY <3>1, <3>2
  <2>2. CASE i = Len(q) + 1
    BY <1>1, <2>2
  <2> QED
    BY <1>1, <2>1, <2>2
<1> QED
  BY <1>1, <1>2, <1>4, <1>6 DEF p, r

\* A frame sent for an open connection is one its peer is sent.
LEMMA SendRefined ==
  ASSUME Ground, Ground', NEW s \in Sessions, NEW m \in Frames, Carried(s),
         wire' = [wire EXCEPT ![s] = Append(@, m)], UNCHANGED <<conn, accepted, asked>>
  PROVE  Service!Send(s, Seen(m))
<1>1. Phase(s) = "open"
  BY Phases DEF Carried, Reads
<1>2. UNCHANGED phases
  BY PhasesStay
<1>3. wire[s] \in Seq(Frames) /\ wire'[s] = Append(wire[s], m) /\ \A r \in Sessions \ {s} : wire'[r] = wire[r]
  BY Elements
<1>4. [i \in DOMAIN wire'[s] |-> Seen(wire'[s][i])] = Append(got[s], Seen(m))
  BY <1>3, SeenAppend DEF got
<1>5. got' = [got EXCEPT ![s] = Append(@, Seen(m))]
  <2>1. got' = [r \in Sessions |-> [i \in DOMAIN wire'[r] |-> Seen(wire'[r][i])]]
    BY DEF got
  <2>2. got'[s] = Append(got[s], Seen(m))
    BY <1>4, <2>1
  <2>3. \A r \in Sessions \ {s} : got'[r] = got[r]
    BY <1>3, <2>1 DEF got
  <2> QED
    BY <2>1, <2>2, <2>3 DEF got
<1> QED
  BY <1>1, <1>2, <1>5 DEF Service!Send, Service!Sessions, Sessions, phases, got

\* What the peer of s has been sent for its n-th request.
LEMMA SentOrNot ==
  ASSUME Ground, Known, NEW s \in Sessions, NEW n \in Nat
  PROVE  <<s, n>> \in Sent <=> \E i \in DOMAIN wire[s] : Seen(wire[s][i]) = Service!Response(s, n)
<1>1. ASSUME NEW r \in Sessions, NEW i \in DOMAIN wire[r], wire[r][i].kind = "response"
      PROVE  wire[r][i].req.session = r
  BY <1>1 DEF Known, FrameKnown
<1>2. ASSUME <<s, n>> \in Sent
      PROVE  \E i \in DOMAIN wire[s] : Seen(wire[s][i]) = Service!Response(s, n)
  <2>0. PICK r \in Sessions : \E i \in DOMAIN wire[r] : wire[r][i].kind = "response" /\ Key(wire[r][i]) = <<s, n>>
    BY <1>2 DEF Sent, Carries
  <2>1. PICK i \in DOMAIN wire[r] : wire[r][i].kind = "response" /\ Key(wire[r][i]) = <<s, n>>
    BY <2>0
  <2>2. r = s /\ wire[s][i].req.session = s /\ wire[s][i].req.num = n
    BY <1>1, <2>1 DEF Key
  <2> QED
    BY <2>1, <2>2 DEF Seen, Service!Response
<1>3. ASSUME NEW i \in DOMAIN wire[s], Seen(wire[s][i]) = Service!Response(s, n)
      PROVE  <<s, n>> \in Sent
  <2>1. wire[s][i].kind = "response" /\ wire[s][i].req.num = n
    BY <1>3, Elements, TaskKinds DEF Seen, Service!Response
  <2>2. Key(wire[s][i]) = <<s, n>>
    BY <1>1, <2>1 DEF Key
  <2> QED
    BY <2>1, <2>2 DEF Sent, Carries
<1> QED
  BY <1>2, <1>3

\* A response sent answers a request not yet answered; with one worker, the
\* first of those.
LEMMA ResponseRefined ==
  ASSUME IInv, Ground', NEW s \in Sessions, NEW m \in Frames, Sends(m), m.kind = "response",
         owner[m.ctx] = s, Carried(s),
         wire' = [wire EXCEPT ![s] = Append(@, m)], UNCHANGED <<conn, accepted, asked>>
  PROVE  Service!Answered(s)
<1> USE DEF IInv
<1>0. PICK n \in Nat : n = m.req.num
  BY TaskKinds, BoundsAssumption DEF ServerTasks, Requests
<1>1. Seen(m) = Service!Response(s, n) /\ Key(m) = <<s, n>> /\ n \in 1..asked[s]
  <2>1. FrameKnown(m, owner, asked)
    BY Elements, SameElements DEF Sends, Known
  <2>2. m.req.session = s /\ n <= asked[s] /\ n >= 1
    BY <1>0, <2>1, TaskKinds, BoundsAssumption DEF FrameKnown, Requests, ServerTasks
  <2>3. asked[s] \in Nat
    BY BoundsAssumption DEF Ground, TypeOK, NetTypes
  <2> QED
    BY <1>0, <2>2, <2>3 DEF Seen, Service!Response, Key
<1>2. Key(m) \in Posted
  BY SendKeys DEF ServerTasks
<1>3. ASSUME NEW k \in 1..asked[s] PROVE k \in Service!Unanswered(s) <=> <<s, k>> \notin Sent
  <2>1. Service!Unanswered(s) = {j \in 1..asked[s] : \A i \in DOMAIN got[s] : got[s][i] # Service!Response(s, j)}
    BY DEF Service!Unanswered, got
  <2>2. DOMAIN got[s] = DOMAIN wire[s] /\ \A i \in DOMAIN wire[s] : got[s][i] = Seen(wire[s][i])
    BY DEF got
  <2>3. k \in Nat
    BY BoundsAssumption DEF Ground, TypeOK, NetTypes
  <2>4. <<s, k>> \in Sent <=> \E i \in DOMAIN wire[s] : Seen(wire[s][i]) = Service!Response(s, k)
    BY <2>3, SentOrNot
  <2> QED
    BY <1>3, <2>1, <2>2, <2>4
<1>4. n \in Service!Unanswered(s) /\ Service!Unanswered(s) \subseteq 1..asked[s]
  BY <1>1, <1>2, <1>3 DEF Once, Apart, Service!Unanswered
<1>5. ASSUME NumThreads = 1, NEW k \in Service!Unanswered(s) PROVE n <= k
  <2>1. k \in 1..asked[s] /\ <<s, k>> \notin Sent
    BY <1>3, <1>4
  <2>2. <<s, k>> \in Queued \cup InHand \cup Posted
    BY <2>1 DEF Carried, Complete, Places
  <2>3. CASE <<s, k>> \in Queued \cup InHand
    <3>1. Below(Posted, Queued) /\ Below(Posted, InHand)
      BY <1>5 DEF Ordered
    <3>2. <<s, n>> \in Posted
      BY <1>1, <1>2
    <3>3. n < k
      BY <2>3, <3>1, <3>2 DEF Below
    <3>4. k \in Nat
      BY <2>1, BoundsAssumption DEF Ground, TypeOK, NetTypes
    <3> QED
      BY <3>3, <3>4
  <2>4. CASE <<s, k>> \in Posted
    <3>1. PICK i \in DOMAIN serverTasks : serverTasks[i].kind = "response" /\ Key(serverTasks[i]) = <<s, k>>
      BY <2>4 DEF Posted, Carries
    <3>2. serverTasks[1] = m /\ 1 \in DOMAIN serverTasks
      BY Elements, SameElements DEF Sends
    <3>3. CASE i = 1
      BY <1>1, <3>1, <3>2, <3>3
    <3>4. CASE i # 1
      <4>1. 1 < i
        BY <3>4, Elements
      <4>2. m.req.session = s /\ serverTasks[i].req.session = s /\ serverTasks[i].req.num = k
        BY <1>1, <3>1 DEF Key
      <4>3. Rising(serverTasks, "response")
        BY <1>5 DEF Ordered
      <4>4. m.req.num < serverTasks[i].req.num
        BY <3>1, <3>2, <4>1, <4>2, <4>3 DEF Rising
      <4>5. k \in Nat
        BY <2>1, BoundsAssumption DEF Ground, TypeOK, NetTypes
      <4> QED
        BY <1>0, <4>2, <4>4, <4>5
    <3> QED
      BY <3>3, <3>4
  <2> QED
    BY <2>2, <2>3, <2>4
<1>6. Service!Send(s, Service!Response(s, n))
  BY <1>1, SendRefined
<1> QED
  BY <1>4, <1>5, <1>6 DEF Service!Answered

\* What the peers do not see is a stutter.
LEMMA NothingSeen ==
  ASSUME Ground, Ground', UNCHANGED <<conn, accepted, asked, wire>>
  PROVE  UNCHANGED Service!vars
<1>1. UNCHANGED phases
  BY PhasesStay
<1> QED
  BY <1>1 DEF Service!vars, phases, Seen

\* A posted response, or notification, is sent to the peer of its context, or
\* dropped.
LEMMA FrameRefined ==
  ASSUME IInv, Ground', doSendResponse \/ doSendNotification
  PROVE  Service!Next \/ UNCHANGED Service!vars
<1> USE DEF IInv
<1>1. UNCHANGED <<conn, accepted, asked>>
  BY DEF doSendResponse, doSendNotification, TakeServerTask
<1>2. PICK m \in ServerTasks : Sends(m)
  BY Sending
<1>3. CASE UNCHANGED wire
  BY <1>1, <1>3, NothingSeen
<1>4. ASSUME NEW s \in Sessions, s = owner[m.ctx], Carried(s), m \in Frames,
             wire' = [wire EXCEPT ![s] = Append(@, m)]
      PROVE  Service!Next
  <2>1. CASE m.kind = "response"
    <3>1. Service!Answered(s)
      BY <1>1, <1>2, <1>4, <2>1, ResponseRefined
    <3> QED
      BY <3>1 DEF Service!Next, Service!Sessions, Sessions
  <2>2. CASE m.kind # "response"
    <3>1. m.kind = "notification" /\ m.note \in Notes
      BY <1>4, <2>2, TaskKinds DEF Frames
    <3>2. Seen(m) = [kind |-> "notification", note |-> m.note]
      BY <3>1 DEF Seen
    <3>3. Service!Send(s, Seen(m))
      BY <1>1, <1>4, SendRefined
    <3>4. Service!Notified(s)
      BY <3>1, <3>2, <3>3 DEF Service!Notified
    <3> QED
      BY <3>4 DEF Service!Next, Service!Sessions, Sessions
  <2> QED
    BY <2>1, <2>2
<1> QED
  BY <1>2, <1>3, <1>4 DEF Sends

\* A step at one connection.
LEMMA NetworkRefined ==
  ASSUME Ground, Ground', NEW h \in Handles,
         Accept(h) \/ HandshakeFails(h) \/ onConnOpen(h) \/ PeerCloses(h) \/ onConnClose(h)
           \/ \E body \in Bodies : onConnMessage(h, body)
  PROVE  Service!Next \/ UNCHANGED Service!vars
<1>1. CASE Accept(h)
  <2>1. \E s \in Service!Sessions : Service!Comes(s)
    BY <1>1, AcceptRefined
  <2> QED
    BY <2>1 DEF Service!Next
<1>2. CASE HandshakeFails(h) \/ onConnOpen(h) \/ PeerCloses(h) \/ (onConnClose(h) /\ h \in DOMAIN m_connToCtx)
  <2>1. Service!Next
    BY <1>2, ConnectionRefined
  <2> QED
    BY <2>1
<1>3. CASE onConnClose(h) /\ h \notin DOMAIN m_connToCtx
  <2>1. UNCHANGED <<conn, accepted, asked, wire>>
    BY <1>3 DEF onConnClose, Terminate, netVars
  <2> QED
    BY <2>1, NothingSeen
<1>4. ASSUME NEW body \in Bodies, onConnMessage(h, body) PROVE Service!Next \/ UNCHANGED Service!vars
  <2>1. CASE h \in DOMAIN m_connToCtx
    <3>1. \E s \in Service!Sessions : Service!Asks(s)
      BY <1>4, <2>1, AskRefined
    <3> QED
      BY <3>1 DEF Service!Next
  <2>2. CASE h \notin DOMAIN m_connToCtx
    <3>1. UNCHANGED <<conn, accepted, asked, wire>>
      BY <1>4, <2>2 DEF onConnMessage, Terminate, netVars
    <3> QED
      BY <3>1, NothingSeen
  <2> QED
    BY <2>1, <2>2
<1> QED
  BY <1>1, <1>2, <1>3, <1>4

-----------------------------------------------------------------------------
(* The refinement.                                                         *)

\* No peer has come yet.
LEMMA InitRefined == Init => Service!Init
<1> SUFFICES ASSUME Init PROVE Service!Init
  OBVIOUS
<1>1. \A s \in Sessions : Phase(s) = "awaited"
  <2>1. \A s \in Sessions : s > 0
    BY BoundsAssumption DEF Sessions
  <2> QED
    BY <2>1 DEF Init, Phase
<1>2. phases = [s \in Sessions |-> "awaited"]
  BY <1>1 DEF phases
<1>3. got = [s \in Sessions |-> <<>>]
  <2>1. \A s \in Sessions : wire[s] = <<>>
    BY DEF Init
  <2>2. \A s \in Sessions : [i \in DOMAIN wire[s] |-> Seen(wire[s][i])] = <<>>
    BY <2>1
  <2> QED
    BY <2>2 DEF got
<1> QED
  BY <1>2, <1>3 DEF Init, Service!Init, Service!Sessions, Sessions, phases, got

\* Every step of the connector is a step of the service or none.
LEMMA StepRefined ==
  ASSUME IInv, IInv', [OpenNext]_vars
  PROVE  [Service!Next]_(Service!vars)
<1> SUFFICES Service!Next \/ UNCHANGED Service!vars
  OBVIOUS
<1> USE DEF IInv
<1>1. CASE \E h \in Handles : \/ Accept(h) \/ HandshakeFails(h) \/ onConnOpen(h) \/ PeerCloses(h)
                              \/ onConnClose(h) \/ \E body \in Bodies : onConnMessage(h, body)
  BY <1>1, NetworkRefined
<1>2. CASE stopServerLoop
  <2>1. \E S \in SUBSET Service!Sessions : Service!Close(S)
    BY <1>2, CloseRefined
  <2> QED
    BY <2>1 DEF Service!Next
<1>3. CASE UNCHANGED <<conn, accepted, asked, bookVars>>
  <2>1. CASE doSendResponse \/ doSendNotification
    BY <2>1, FrameRefined
  <2>2. CASE UNCHANGED wire
    BY <1>3, <2>2, NothingSeen
  <2>3. CASE \E h \in Handles : onConnOpen(h) \/ onConnClose(h) \/ \E body \in Bodies : onConnMessage(h, body)
    BY <1>1, <2>3
  <2> QED
    <3>1. TypeOK /\ DOMAIN m_connToCtx \subseteq Handles
      BY DEF Ground, TypeOK, BookTypes
    <3>2. \A w \in Workers : TakeWorkerTask(w) \/ (\E answer \in Answers : FinishTask(w, answer)) => UNCHANGED wire
      BY DEF TakeWorkerTask, FinishTask, workerUnchanged, netVars
    <3>3. Still \/ (\E m \in PostedOnly : Posts(m)) => UNCHANGED wire
      BY DEF Still, Posts
    <3> QED
      BY <1>2, <2>1, <2>2, <2>3, <3>1, <3>2, <3>3, QueueSteps
<1> QED
  BY <1>1, <1>2, <1>3, NetSteps

\* Its peers cannot tell the connector from a server without threads, queues
\* and handles (PeerService), whatever the bound methods do.
THEOREM PeersServed == OpenSpec => ServesPeers
<1>1. Init => Service!Init
  BY InitRefined
<1>2. IInv /\ IInv' /\ [OpenNext]_vars => [Service!Next]_(Service!vars)
  BY StepRefined
<1> QED
  BY <1>1, <1>2, IInvariant, PTL DEF OpenSpec, ServesPeers, Service!Spec

=============================================================================
