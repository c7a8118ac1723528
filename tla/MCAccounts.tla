----------------------------- MODULE MCAccounts -----------------------------
(* Small instances of Accounts. *)
EXTENDS Accounts, TLC

CONSTANTS ann, annName

MCMemberName == [m \in {ann} |-> annName]

Interchangeable == Permutations(Request)
=============================================================================
