---------------------------- MODULE MCDeliveries ----------------------------
(***************************************************************************)
(* An instance of what surrounds an import, for TLC.                       *)
(***************************************************************************)
EXTENDS Deliveries, TLC

\* The dispatch's handlers are interchangeable.
Symmetry == Permutations(Slot)
=============================================================================
