----------------------------- MODULE MCMessages -----------------------------
(***************************************************************************)
(* An instance of what becomes of a stored message, for TLC.               *)
(***************************************************************************)
EXTENDS Messages, TLC

\* The outbox's messages are interchangeable, and so are its workers.
Symmetry == Permutations(Msg) \cup Permutations(Worker)
=============================================================================
