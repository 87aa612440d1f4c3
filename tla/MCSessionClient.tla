-------------------------- MODULE MCSessionClient --------------------------
(* Values for the constants of SessionClient. *)
EXTENDS SessionClient

MCRoleOf == [u \in Users |-> u]
=============================================================================
