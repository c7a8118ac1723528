---------------------------- MODULE MCDeployment ----------------------------
(* Small instances of Deployment. *)
EXTENDS Deployment

CONSTANTS r1, r2

MCRequest == {r1, r2}
MCTx == MCRequest \X (1..4)
=============================================================================
