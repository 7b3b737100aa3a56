---------------------------- MODULE MCSessions ----------------------------
(* An instance of Sessions for TLC: two names, each of them the configured  *)
(* one or registered, two handlers and two sessions.                        *)
EXTENDS Sessions, TLC
Symmetry == Permutations(Names) \cup Permutations(Requests) \cup Permutations(Tokens)
=============================================================================
