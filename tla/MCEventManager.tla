--------------------------- MODULE MCEventManager ---------------------------
(* Instances of EventManager for TLC: EventManagerCalls.cfg exercises every  *)
(* call, EventManagerEmissions.cfg several emissions at once.                *)
EXTENDS EventManager, TLC

\* Threads, clients and events are interchangeable. (The refinement mapping
\* picks with CHOOSE, so the run that checks it does not use this.)
Symmetry == Permutations(Threads) \cup Permutations(Ctxs) \cup Permutations(Events)

=============================================================================
