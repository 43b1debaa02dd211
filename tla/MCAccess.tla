------------------------------ MODULE MCAccess ------------------------------
(***************************************************************************)
(* An instance of the components that decide who may do what, for TLC.     *)
(***************************************************************************)
EXTENDS Access
=============================================================================
