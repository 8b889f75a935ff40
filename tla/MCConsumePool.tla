----------------------------- MODULE MCConsumePool -----------------------------
(***************************************************************************)
(* ConsumePool for TLC.  Requests are interchangeable; so are shapes.      *)
(***************************************************************************)
EXTENDS ConsumePool, TLC

\* Every variable treats requests, shapes and connections alike.
Symmetry == Permutations(Requests) \cup Permutations(Sigs) \cup Permutations(Conns)
=============================================================================
