------------------------------ MODULE MCRoles ------------------------------
(* Instances of Roles for TLC. *)
EXTENDS Roles

CONSTANTS s1, s2, o1
=============================================================================
