---------------------------- MODULE MCPinService ----------------------------
(* Small instances of PinService. *)
EXTENDS PinService, TLC

CONSTANTS p1, p2, malformed

MCPin == {p1, p2, malformed}
MCValidPin == {p1, p2}

Interchangeable == Permutations(Request)
=============================================================================
