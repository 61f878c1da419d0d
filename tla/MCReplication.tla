---------------------------- MODULE MCReplication ----------------------------
(* An instance of Replication for TLC. *)
EXTENDS Replication

=============================================================================
