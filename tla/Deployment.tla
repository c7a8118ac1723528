----------------------------- MODULE Deployment -----------------------------
(***************************************************************************)
(* Jobs that are sequences of transactions: POST /api/contracts/deploy     *)
(* (deployContract), createToken of token.service.ts and POST              *)
(* /api/contracts/invoke, over contract.service.ts; with the token         *)
(* balances of a merchant.                                                 *)
(*                                                                         *)
(* Every transaction of a job goes through Load, Send and Poll, and the    *)
(* next one is built when the one before has been found; what the job has  *)
(* made is recorded at its end.  A contract is named by its job.           *)
(***************************************************************************)
EXTENDS Soroban, FiniteSets, Sequences

CONSTANTS
    Request,   \* the requests of a run, each served once
    Merchant,
    Env        \* what the surroundings may do in a run

\* The transactions of each job, in order.
Plan(op) ==
    CASE op = "deploy" -> <<"upload", "create">>
      [] op = "token"  -> <<"upload", "create", "initialize", "mint">>
      [] op = "invoke" -> <<"call">>
      [] op \in {"none", "balances"} -> <<>>

\* "rpc": a request to the RPC server may be rejected, or end unanswered;
\* "db": a query may fail; "crash": the server may stop.
ASSUME DeploymentAssumption ==
    /\ Env \subseteq {"rpc", "db", "crash"}
    /\ Tx = Request \X (1..4) /\ Account = Merchant

VARIABLES
    contracts, \* the Contract table
    tokens,    \* the Token table
    pc, job, step, answer,
    shown      \* the balances a caller was shown: token and whether it was read

handler == <<pc, job, step, answer, shown>>
vars == <<network, contracts, tokens, handler>>

Stage == {"idle", "loading", "sending", "polling", "recording", "asking", "done"}
Answer == {"none", "ok", "failed", "error", "silence"}
Job == [op : {"deploy", "token", "invoke", "balances"}, by : Merchant]
         \cup {[op |-> "none"]}

\* The types of the variables.
TypeOK ==
    /\ NetworkTypeOK
    /\ contracts \subseteq Request /\ tokens \subseteq Request
    /\ pc \in [Request -> Stage]
    /\ job \in [Request -> Job]
    /\ step \in [Request -> Nat] /\ \A r \in Request : step[r] <= Len(Plan(job[r].op))
    /\ answer \in [Request -> Answer]
    /\ shown \in [Request -> SUBSET (Request \X BOOLEAN)]

Init ==
    /\ NetworkInit
    /\ contracts = {} /\ tokens = {}
    /\ pc = [r \in Request |-> "idle"]
    /\ job = [r \in Request |-> [op |-> "none"]]
    /\ step = [r \in Request |-> 0]
    /\ answer = [r \in Request |-> "none"]
    /\ shown = [r \in Request |-> {}]

-----------------------------------------------------------------------------
Current(r) == <<r, step[r]>>

Applied(r, what) ==
    \E i \in 1..Len(Plan(job[r].op)) : Plan(job[r].op)[i] = what /\ chain[<<r, i>>] = "applied"

\* What the network and the contract would do now: external.  A contract is
\* made of uploaded code, initialised once, and mints for who initialised it.
Succeeds(r) ==
    CASE Plan(job[r].op)[step[r]] = "upload" -> TRUE
      [] Plan(job[r].op)[step[r]] = "create" -> Applied(r, "upload")
      [] Plan(job[r].op)[step[r]] = "initialize" -> Applied(r, "create")
      [] Plan(job[r].op)[step[r]] = "mint" -> Applied(r, "initialize")
      [] Plan(job[r].op)[step[r]] = "call" -> TRUE

Goto(r, stage) == pc' = [pc EXCEPT ![r] = stage]

Finish(r, what) == Goto(r, "done") /\ answer' = [answer EXCEPT ![r] = what]

\* The route has checked its request (a token its decimals); the wallet is
\* read and its key decrypted.
Start(r) ==
    /\ pc[r] = "idle"
    /\ \E j \in Job \ {[op |-> "none"]} :
         /\ job' = [job EXCEPT ![r] = j]
         /\ IF j.op = "balances" THEN Goto(r, "asking") /\ UNCHANGED step
            ELSE Goto(r, "loading") /\ step' = [step EXCEPT ![r] = 1]
    /\ UNCHANGED <<network, contracts, tokens, answer, shown>>

\* getAccount: for every transaction of the job anew.
Load(r) ==
    /\ pc[r] = "loading"
    /\ Build(Current(r), job[r].by)
    /\ Goto(r, "sending")
    /\ UNCHANGED <<contracts, tokens, job, step, answer, shown>>

\* Prepared, signed and sent; ERROR when it is out of sequence.
Send(r) ==
    /\ pc[r] = "sending"
    /\ LET accepted == Succeeds(r) /\ built[Current(r)] = sequence[job[r].by]
       IN \/ accepted /\ SendTransaction(Current(r)) /\ Goto(r, "polling") /\ UNCHANGED answer
          \/ ~accepted /\ Finish(r, "failed") /\ UNCHANGED network
    /\ UNCHANGED <<contracts, tokens, job, step, shown>>

LastStep(r) == step[r] = Len(Plan(job[r].op))

\* Mutant: the step is counted before the end of the job is noticed.
AdvanceFirst(r) ==
    /\ step' = [step EXCEPT ![r] = @ + 1]
    /\ IF ~LastStep(r) THEN Goto(r, "loading") /\ UNCHANGED answer
       ELSE IF job[r].op = "invoke" THEN Finish(r, "ok") ELSE Goto(r, "recording") /\ UNCHANGED answer

\* A generic invocation records nothing.
Advance(r) ==
    \/ ~LastStep(r) /\ step' = [step EXCEPT ![r] = @ + 1] /\ Goto(r, "loading") /\ UNCHANGED answer
    \/ /\ LastStep(r) /\ UNCHANGED step
       /\ IF job[r].op = "invoke" THEN Finish(r, "ok") ELSE Goto(r, "recording") /\ UNCHANGED answer

\* Mutants: a transaction that was not found counts as done; the poll has no
\* last attempt.
PollOptimist(r) ==
    /\ pc[r] = "polling"
    /\ \/ chain[Current(r)] \in {"applied", "sent", "dropped"} /\ Advance(r)
       \/ chain[Current(r)] = "failed" /\ Finish(r, "failed") /\ UNCHANGED step
    /\ UNCHANGED <<network, contracts, tokens, job, shown>>

PollUntilFound(r) ==
    /\ pc[r] = "polling"
    /\ \/ chain[Current(r)] = "applied" /\ Advance(r)
       \/ chain[Current(r)] = "failed" /\ Finish(r, "failed") /\ UNCHANGED step
    /\ UNCHANGED <<network, contracts, tokens, job, shown>>

\* SUCCESS, FAILED, or NOT_FOUND when the attempts are used up.
Poll(r) ==
    /\ pc[r] = "polling"
    /\ \/ chain[Current(r)] = "applied" /\ Advance(r)
       \/ chain[Current(r)] # "applied" /\ Finish(r, "failed") /\ UNCHANGED step
    /\ UNCHANGED <<network, contracts, tokens, job, shown>>

Insert(r) ==
    /\ contracts' = IF job[r].op = "deploy" THEN contracts \cup {r} ELSE contracts
    /\ tokens' = IF job[r].op = "token" THEN tokens \cup {r} ELSE tokens

\* Mutant: the failure of the insert is only logged.
RecordAnyway(r) ==
    /\ pc[r] = "recording"
    /\ \/ Insert(r)
       \/ "db" \in Env /\ UNCHANGED <<contracts, tokens>>
    /\ Finish(r, "ok")
    /\ UNCHANGED <<network, job, step, shown>>

\* prisma.contract.create or prisma.token.create; one that rejects may have
\* taken effect.
Record(r) ==
    /\ pc[r] = "recording"
    /\ \/ Insert(r) /\ Finish(r, "ok")
       \/ "db" \in Env /\ Finish(r, "error") /\ UNCHANGED <<contracts, tokens>>
       \/ "db" \in Env /\ Finish(r, "error") /\ Insert(r)
    /\ UNCHANGED <<network, job, step, shown>>

\* getUserTokenBalances: the merchant's tokens, each with its balance, or
\* "0" where the query failed.
AskBalances(r) ==
    /\ pc[r] = "asking"
    /\ LET mine == {t \in tokens : job[t].by = job[r].by} IN
         \E read \in [mine -> BOOLEAN] :
            /\ "rpc" \notin Env => \A t \in mine : read[t]
            /\ shown' = [shown EXCEPT ![r] = {<<t, read[t]>> : t \in mine}]
    /\ Finish(r, "ok")
    /\ UNCHANGED <<network, contracts, tokens, job, step>>

\* A request to the RPC server rejects; one that sends may have arrived.
RpcFails(r) ==
    /\ "rpc" \in Env
    /\ pc[r] \in {"loading", "sending", "polling"}
    /\ Finish(r, "failed")
    /\ \/ UNCHANGED network
       \/ pc[r] = "sending" /\ SendTransaction(Current(r))
    /\ UNCHANGED <<contracts, tokens, job, step, shown>>

Crash ==
    /\ "crash" \in Env
    /\ LET running == {r \in Request : pc[r] \notin {"idle", "done"}} IN
         /\ running # {}
         /\ pc' = [r \in Request |-> IF r \in running THEN "done" ELSE pc[r]]
         /\ answer' = [r \in Request |-> IF r \in running THEN "silence" ELSE answer[r]]
    /\ UNCHANGED <<network, contracts, tokens, job, step, shown>>

\* The network takes the transaction of a job, or loses it: external.
Settle(r) ==
    /\ step[r] > 0
    /\ \/ Include(Current(r), job[r].by, IF Succeeds(r) THEN "applied" ELSE "failed")
       \/ job[r].op = "invoke" /\ Include(Current(r), job[r].by, "failed")
       \/ Drop(Current(r))
    /\ UNCHANGED <<contracts, tokens, handler>>

Proceed(r) ==
    \/ Load(r)
    \/ Send(r)
    \/ Poll(r)
    \/ Record(r)
    \/ AskBalances(r)

Next ==
    \/ \E r \in Request : Start(r) \/ Proceed(r) \/ RpcFails(r) \/ Settle(r)
    \/ Crash

Spec == Init /\ [][Next]_vars

FairSpec == Spec /\ \A r \in Request : WF_vars(Proceed(r))

-----------------------------------------------------------------------------
(* Properties.                                                             *)

\* What is recorded is complete: a contract in the table was instantiated,
\* and a token in the table was instantiated, initialised and minted, though
\* any of the transactions may fail, be lost or be found too late; and a
\* balance is shown of such a token only.
RecordedIsReady ==
    /\ \A r \in contracts \cup tokens : \A i \in 1..Len(Plan(job[r].op)) :
         chain[<<r, i>>] = "applied"
    /\ \A r \in Request : \A b \in shown[r] : Applied(b[1], "mint")

\* A job made something without recording it only if its caller heard of a
\* failure or the server went down: a caller who hears "ok" finds its
\* contract or token in the table.  What the table holds was never reported
\* as a failure of the network (502), which invites another try.
UnrecordedIsReported ==
    \A r \in Request :
        /\ answer[r] = "ok" /\ job[r].op = "deploy" => r \in contracts
        /\ answer[r] = "ok" /\ job[r].op = "token" => r \in tokens
        /\ answer[r] = "ok" /\ job[r].op = "invoke" => chain[<<r, 1>>] = "applied"
        /\ r \in contracts \cup tokens => answer[r] # "failed"

\* Every job ends, even when the network never shows its transaction.
JobsEnd == \A r \in Request : pc[r] = "loading" ~> pc[r] = "done"
=============================================================================
