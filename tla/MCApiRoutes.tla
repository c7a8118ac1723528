---------------------------- MODULE MCApiRoutes ----------------------------
(* A small instance of ApiRoutes. *)
EXTENDS ApiRoutes

CONSTANTS alice

MCPerson == {alice}
MCKey == MCPerson \cup {unknown}
=============================================================================
