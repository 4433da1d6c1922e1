-------------------------- MODULE MCMethodBinding ---------------------------
(* Instances of MethodBinding for TLC.                                      *)
EXTENDS MethodBinding, TLC

\* Workers, the application's own names and functions are interchangeable.
Symmetry == Permutations(Workers) \cup Permutations(Names \ (Builtins \cup {EmptyName})) \cup Permutations(Funcs)

=============================================================================
