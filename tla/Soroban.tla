------------------------------ MODULE Soroban ------------------------------
(***************************************************************************)
(* The Soroban network as contract.service.ts uses it: an account has a    *)
(* sequence number, a transaction is built on the number its account had   *)
(* when it was loaded, and once sent it is included in a ledger (applied   *)
(* or failed) or dropped.                                                  *)
(***************************************************************************)
EXTENDS Naturals

CONSTANTS
    Account,  \* the platform's accounts on the network
    Tx        \* the transactions a run may build

VARIABLES
    sequence, \* the last sequence number used by each account
    built,    \* the one each transaction was built on
    chain     \* the fate of each transaction

network == <<sequence, built, chain>>

Fate == {"none", "sent", "applied", "failed", "dropped"}

\* The types of the variables.
NetworkTypeOK ==
    /\ sequence \in [Account -> Nat]
    /\ built \in [Tx -> Nat]
    /\ chain \in [Tx -> Fate]

NetworkInit ==
    /\ sequence = [a \in Account |-> 0]
    /\ built = [t \in Tx |-> 0]
    /\ chain = [t \in Tx |-> "none"]

\* getAccount and TransactionBuilder.
Build(t, a) ==
    /\ built' = [built EXCEPT ![t] = sequence[a]]
    /\ UNCHANGED <<sequence, chain>>

\* sendTransaction was not answered with ERROR.
SendTransaction(t) ==
    /\ chain' = [chain EXCEPT ![t] = "sent"]
    /\ UNCHANGED <<sequence, built>>

\* A ledger takes the transaction, in sequence; the contract may refuse.
Include(t, a, fate) ==
    /\ chain[t] = "sent"
    /\ built[t] = sequence[a]
    /\ sequence' = [sequence EXCEPT ![a] = @ + 1]
    /\ chain' = [chain EXCEPT ![t] = fate]
    /\ UNCHANGED built

\* Out of sequence, past its time bounds (TX_TIMEOUT_SECONDS), or
\* TRY_AGAIN_LATER: no ledger takes it.
Drop(t) ==
    /\ chain[t] = "sent"
    /\ chain' = [chain EXCEPT ![t] = "dropped"]
    /\ UNCHANGED <<sequence, built>>
=============================================================================
