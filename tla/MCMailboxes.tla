----------------------------- MODULE MCMailboxes -----------------------------
(***************************************************************************)
(* An instance of the three synchronizers for TLC.                         *)
(***************************************************************************)
EXTENDS Mailboxes, TLC

\* Gmail's messages are interchangeable.
Symmetry == Permutations(Msg)
=============================================================================
