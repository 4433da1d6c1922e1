---------------------------- MODULE PeerService -----------------------------
(***************************************************************************)
(* What the peers of the connector see of it, without its threads, queues, *)
(* handles and contexts: a peer comes, asks while its connection is open,  *)
(* is answered and notified while it is open, and goes.                    *)
(***************************************************************************)
EXTENDS Naturals, Sequences

CONSTANTS
  MaxSessions,   \* bound: connections
  MaxRequests,   \* bound: requests of one connection
  Notes,         \* contents of notifications
  InOrder        \* answers come in the order of the requests

VARIABLES
  phase,   \* per session: where its connection stands
  asked,   \* per session: number of requests made
  got      \* per session: the frames its peer was sent

vars == <<phase, asked, got>>

Sessions == 1..MaxSessions

Init == /\ phase = [s \in Sessions |-> "awaited"]
        /\ asked = [s \in Sessions |-> 0]
        /\ got = [s \in Sessions |-> <<>>]

Moves(s, from, to) == /\ phase[s] = from
                      /\ phase' = [phase EXCEPT ![s] = to]
                      /\ UNCHANGED <<asked, got>>

Comes(s)   == /\ \A t \in 1..(s - 1) : phase[t] # "awaited"
              /\ Moves(s, "awaited", "handshake")
Opens(s)   == Moves(s, "handshake", "open")
Refused(s) == Moves(s, "handshake", "gone")
Goes(s)    == Moves(s, "closing", "gone")

\* One peer hangs up, or the server closes whatever is open.
Close(S) == /\ \A s \in S : phase[s] = "open"
            /\ phase' = [s \in Sessions |-> IF s \in S THEN "closing" ELSE phase[s]]
            /\ UNCHANGED <<asked, got>>

Asks(s) == /\ phase[s] = "open"
           /\ asked[s] < MaxRequests
           /\ asked' = [asked EXCEPT ![s] = @ + 1]
           /\ UNCHANGED <<phase, got>>

Response(s, n) == [kind |-> "response", session |-> s, num |-> n]

Unanswered(s) == {n \in 1..asked[s] : \A i \in DOMAIN got[s] : got[s][i] # Response(s, n)}

Send(s, frame) == /\ phase[s] = "open"
                  /\ got' = [got EXCEPT ![s] = Append(@, frame)]
                  /\ UNCHANGED <<phase, asked>>

Answered(s) == \E n \in Unanswered(s) : /\ InOrder => \A k \in Unanswered(s) : n <= k
                                        /\ Send(s, Response(s, n))

Notified(s) == \E note \in Notes : Send(s, [kind |-> "notification", note |-> note])

Next == \/ \E s \in Sessions : \/ Comes(s) \/ Opens(s) \/ Refused(s) \/ Goes(s)
                               \/ Asks(s) \/ Answered(s) \/ Notified(s)
        \/ \E S \in SUBSET Sessions : Close(S)

Spec == Init /\ [][Next]_vars

=============================================================================
