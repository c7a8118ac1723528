-------------------------- MODULE DeploymentProofs --------------------------
(***************************************************************************)
(* Proofs about Deployment, for any number of jobs and merchants, and      *)
(* everything the surroundings may do (Env).                               *)
(*                                                                         *)
(* What is recorded is complete because a job climbs its plan one          *)
(* transaction at a time: those before its step are applied, those after   *)
(* it are unheard of, and only a transaction that was found applied lets   *)
(* it go on.                                                               *)
(***************************************************************************)
EXTENDS Deployment, TLAPS

Op == {"none", "deploy", "token", "invoke", "balances"}

\* No plan is longer than the transactions a job may name.
LEMMA PlanLength ==
    /\ \A op \in Op : Len(Plan(op)) \in Nat /\ Len(Plan(op)) <= 4
    /\ Len(Plan("none")) = 0 /\ Len(Plan("balances")) = 0
    /\ Len(Plan("deploy")) = 2 /\ Len(Plan("token")) = 4 /\ Len(Plan("invoke")) = 1
BY DEF Op, Plan

\* Every job that sends has a first transaction.
LEMMA PlanStarts ==
    \A op \in {"deploy", "token", "invoke"} : Len(Plan(op)) \in Nat /\ Len(Plan(op)) > 0
BY DEF Plan

\* A token is minted in the last step of its plan, and an invocation calls in
\* its only one.
LEMMA PlanEnds == Plan("token")[4] = "mint"
BY DEF Plan

\* A job's operation is one of those that have a plan.
LEMMA JobOp == \A j \in Job : j.op \in Op /\ (j.op # "none" => j.by \in Merchant)
BY DEF Job, Op

\* Where a job stands in its plan.
At(r) ==
    /\ pc[r] = "idle" => step[r] = 0
    /\ pc[r] \in {"loading", "sending", "polling"} => step[r] > 0
    /\ pc[r] \in {"loading", "sending"} => chain[<<r, step[r]>>] = "none"
    /\ pc[r] = "recording" =>
         /\ job[r].op \in {"deploy", "token"}
         /\ step[r] = Len(Plan(job[r].op))
         /\ chain[<<r, step[r]>>] = "applied"
    /\ \A i \in 1..4 :
         /\ i < step[r] => chain[<<r, i>>] = "applied"
         /\ i > step[r] => chain[<<r, i>>] = "none"

Climbing == \A r \in Request : At(r)

\* What the tables hold, and what a caller was shown of them.
OnRecord ==
    /\ \A r \in contracts : job[r].op = "deploy"
    /\ \A r \in tokens : job[r].op = "token"
    /\ \A r \in contracts \cup tokens :
         pc[r] = "done" /\ step[r] = Len(Plan(job[r].op)) /\ chain[<<r, step[r]>>] = "applied"
    /\ \A r \in Request : \A b \in shown[r] : b[1] \in tokens

JobInv == TypeOK /\ Climbing /\ OnRecord

\* At first nothing has started.
LEMMA InitJob == Init => JobInv
<1> SUFFICES ASSUME Init PROVE JobInv
  OBVIOUS
<1>1. TypeOK
  BY PlanLength DEF Init, NetworkInit, TypeOK, NetworkTypeOK, Stage, Answer, Job, Fate
<1>2. Climbing
  BY DeploymentAssumption DEF Init, NetworkInit, Climbing, At
<1>3. OnRecord
  BY DEF Init, OnRecord
<1> QED
  BY <1>1, <1>2, <1>3 DEF JobInv

\* A transaction of a job is one the network knows, and the job's merchant has
\* an account.
LEMMA Named ==
    ASSUME TypeOK, NEW r \in Request, step[r] > 0
    PROVE  Current(r) \in Tx /\ job[r].by \in Account
<1>1. step[r] <= Len(Plan(job[r].op)) /\ job[r].op \in Op /\ step[r] \in Nat
  BY JobOp DEF TypeOK
<1>2. Len(Plan(job[r].op)) \in Nat /\ Len(Plan(job[r].op)) <= 4
  BY <1>1, PlanLength
<1>3. job[r].op # "none" /\ step[r] \in 1..4
  BY <1>1, <1>2, PlanLength
<1> QED
  BY <1>3, JobOp, DeploymentAssumption DEF TypeOK, Current

\* The network alone moves: a transaction of r that was sent is decided.
LEMMA SettleKeeps ==
    ASSUME JobInv, NEW r \in Request, Settle(r)
    PROVE  JobInv'
<1>0. TypeOK /\ Climbing /\ OnRecord
  BY DEF JobInv
<1>1. /\ step[r] > 0 /\ chain[Current(r)] = "sent"
      /\ \E fate \in {"applied", "failed", "dropped"} : chain' = [chain EXCEPT ![Current(r)] = fate]
      /\ UNCHANGED <<built, contracts, tokens, pc, job, step, answer, shown>>
      /\ sequence' = sequence \/ sequence' = [sequence EXCEPT ![job[r].by] = @ + 1]
  BY DEF Settle, Include, Drop, handler
<1>2. Current(r) \in Tx /\ job[r].by \in Account
  BY <1>0, <1>1, Named
<1>3. TypeOK'
  <2>1. NetworkTypeOK'
    BY <1>0, <1>1, <1>2 DEF TypeOK, NetworkTypeOK, Fate
  <2> QED
    BY <1>0, <1>1, <2>1 DEF TypeOK
<1>4. \A t \in Tx : t # Current(r) => chain'[t] = chain[t]
  BY <1>0, <1>1 DEF TypeOK, NetworkTypeOK
<1>5. \A t \in Tx : chain[t] \in {"none", "applied"} => chain'[t] = chain[t]
  BY <1>1, <1>4
<1>6. \A q \in Request : step[q] > 0 => <<q, step[q]>> \in Tx
  BY <1>0, Named DEF Current
<1>7. \A q \in Request, i \in 1..4 : <<q, i>> \in Tx
  BY DeploymentAssumption
<1>8. Climbing'
  <2> SUFFICES ASSUME NEW q \in Request PROVE At(q)'
    BY DEF Climbing
  <2>0. At(q) /\ pc'[q] = pc[q] /\ job'[q] = job[q] /\ step'[q] = step[q] /\ step[q] \in Nat
    BY <1>0, <1>1 DEF Climbing, TypeOK
  <2>1. pc[q] \in {"loading", "sending"} => chain'[<<q, step[q]>>] = "none"
    BY <2>0, <1>5, <1>6 DEF At
  <2>2. pc[q] = "recording" => chain'[<<q, step[q]>>] = "applied"
    <3>1. pc[q] = "recording" => job[q].op \in {"deploy", "token"} /\ step[q] = Len(Plan(job[q].op))
      BY <2>0 DEF At
    <3>2. pc[q] = "recording" => step[q] > 0
      BY <3>1, PlanStarts
    <3> QED
      BY <2>0, <1>5, <1>6, <3>2 DEF At
  <2>3. ASSUME NEW i \in 1..4
        PROVE  /\ i < step[q] => chain'[<<q, i>>] = "applied"
               /\ i > step[q] => chain'[<<q, i>>] = "none"
    <3>1. <<q, i>> \in Tx
      BY <1>7
    <3>2. /\ i < step[q] => chain[<<q, i>>] = "applied"
          /\ i > step[q] => chain[<<q, i>>] = "none"
      BY <2>0 DEF At
    <3> QED
      BY <1>5, <3>1, <3>2
  <2> QED
    BY <2>0, <2>1, <2>2, <2>3 DEF At
<1>9. OnRecord'
  <2>1. \A q \in contracts \cup tokens : step[q] > 0
    <3>1. \A q \in contracts \cup tokens : job[q].op \in {"deploy", "token"} /\ step[q] = Len(Plan(job[q].op))
      BY <1>0 DEF OnRecord
    <3> QED
      BY <3>1, PlanStarts
  <2> QED
    BY <1>0, <1>1, <1>5, <1>6, <2>1 DEF OnRecord, TypeOK
<1> QED
  BY <1>3, <1>8, <1>9 DEF JobInv

\* A step of r's handler leaves the other jobs where they are.
Apart(r) ==
    /\ \A q \in Request \ {r} : pc'[q] = pc[q] /\ job'[q] = job[q] /\ step'[q] = step[q]
    /\ \A t \in Tx : t # Current(r) => chain'[t] = chain[t]

LEMMA OthersStay ==
    ASSUME JobInv, NEW r \in Request, Apart(r), NEW q \in Request \ {r}
    PROVE  At(q)'
<1>1. At(q) /\ step[q] \in Nat
  BY DEF JobInv, Climbing, TypeOK
<1>2. pc'[q] = pc[q] /\ job'[q] = job[q] /\ step'[q] = step[q]
  BY DEF Apart
<1>3. ASSUME NEW i, <<q, i>> \in Tx PROVE chain'[<<q, i>>] = chain[<<q, i>>]
  BY <1>3 DEF Apart, Current
<1>4. step[q] > 0 => <<q, step[q]>> \in Tx
  BY Named DEF JobInv, Current
<1>5. \A i \in 1..4 : <<q, i>> \in Tx
  BY DeploymentAssumption
<1>6. pc[q] = "recording" => step[q] > 0
  <2>1. pc[q] = "recording" => job[q].op \in {"deploy", "token"} /\ step[q] = Len(Plan(job[q].op))
    BY <1>1 DEF At
  <2> QED
    BY <2>1, PlanStarts
<1>7. step[q] > 0 => chain'[<<q, step[q]>>] = chain[<<q, step[q]>>]
  BY <1>3, <1>4
<1>8. \A i \in 1..4 : chain'[<<q, i>>] = chain[<<q, i>>]
  BY <1>3, <1>5
<1>9. pc[q] \in {"loading", "sending", "recording"} => step[q] > 0
  BY <1>1, <1>6 DEF At
<1> QED
  BY <1>1, <1>2, <1>7, <1>8, <1>9 DEF At

\* What is on record stays so while a handler that is not done takes a step
\* that inserts and shows nothing.
LEMMA RecordStays ==
    ASSUME JobInv, NEW r \in Request, Apart(r), pc[r] # "done",
           UNCHANGED <<contracts, tokens, shown>>
    PROVE  OnRecord'
<1>1. OnRecord /\ contracts \subseteq Request /\ tokens \subseteq Request
  BY DEF JobInv, TypeOK
<1>2. \A q \in contracts \cup tokens :
        /\ q \in Request \ {r}
        /\ pc'[q] = pc[q] /\ job'[q] = job[q] /\ step'[q] = step[q]
  BY <1>1 DEF OnRecord, Apart
<1>3. ASSUME NEW q \in contracts \cup tokens PROVE chain'[<<q, step[q]>>] = chain[<<q, step[q]>>]
  <2>1. job[q].op \in {"deploy", "token"} /\ step[q] = Len(Plan(job[q].op)) /\ q \in Request \ {r}
    BY <1>1, <1>2 DEF OnRecord
  <2>2. step[q] > 0
    BY <2>1, PlanStarts
  <2>3. <<q, step[q]>> \in Tx
    BY <2>1, <2>2, Named DEF JobInv, Current
  <2> QED
    BY <2>1, <2>3 DEF Apart, Current
<1> QED
  BY <1>1, <1>2, <1>3 DEF OnRecord

\* The step of r's handler itself.
LEMMA StartKeeps ==
    ASSUME JobInv, NEW r \in Request, Start(r)
    PROVE  JobInv'
<1>0. TypeOK /\ At(r) /\ pc[r] = "idle"
  BY DEF JobInv, Climbing, Start
<1>1. PICK j \in Job \ {[op |-> "none"]} :
        /\ job' = [job EXCEPT ![r] = j]
        /\ \/ /\ j.op = "balances" /\ pc' = [pc EXCEPT ![r] = "asking"] /\ step' = step
           \/ /\ j.op # "balances" /\ pc' = [pc EXCEPT ![r] = "loading"]
              /\ step' = [step EXCEPT ![r] = 1]
  BY DEF Start, Goto
<1>2. UNCHANGED <<network, contracts, tokens, answer, shown>>
  BY DEF Start
<1>3. Apart(r)
  BY <1>0, <1>1, <1>2 DEF Apart, TypeOK, network
<1>4. j.op \in {"deploy", "token", "invoke", "balances"}
  BY <1>1 DEF Job
<1>5. step[r] = 0 /\ step \in [Request -> Nat]
  BY <1>0 DEF At, TypeOK
<1>6. TypeOK'
  <2>1. NetworkTypeOK'
    BY <1>0, <1>2 DEF TypeOK, NetworkTypeOK, network
  <2>2. step'[r] <= Len(Plan(j.op)) /\ step' \in [Request -> Nat] /\ job'[r] = j
    <3>1. job'[r] = j
      BY <1>0, <1>1 DEF TypeOK
    <3>2. step' \in [Request -> Nat] /\ step'[r] = IF j.op = "balances" THEN 0 ELSE 1
      BY <1>1, <1>5
    <3>3. Len(Plan(j.op)) \in Nat /\ (j.op # "balances" => Len(Plan(j.op)) > 0)
      BY <1>4, PlanStarts, PlanLength DEF Op
    <3> QED
      BY <3>1, <3>2, <3>3
  <2>3. \A q \in Request : step'[q] <= Len(Plan(job'[q].op))
    BY <1>0, <2>2, <1>3 DEF TypeOK, Apart
  <2> QED
    BY <1>0, <1>1, <1>2, <2>1, <2>2, <2>3 DEF TypeOK, Stage
<1>7. At(r)'
  <2>1. \A i \in 1..4 : chain[<<r, i>>] = "none"
    BY <1>0, <1>5 DEF At
  <2>2. chain' = chain
    BY <1>2 DEF network
  <2>3. CASE j.op = "balances"
    <3>1. pc'[r] = "asking" /\ step'[r] = 0
      BY <1>0, <1>1, <1>5, <2>3 DEF TypeOK
    <3> QED
      BY <2>1, <2>2, <3>1 DEF At
  <2>4. CASE j.op # "balances"
    <3>1. pc'[r] = "loading" /\ step'[r] = 1
      BY <1>0, <1>1, <1>5, <2>4 DEF TypeOK
    <3> QED
      BY <2>1, <2>2, <3>1 DEF At
  <2> QED
    BY <2>3, <2>4
<1>8. Climbing'
  BY <1>3, <1>7, OthersStay DEF Climbing
<1>9. OnRecord'
  BY <1>0, <1>2, <1>3, RecordStays
<1> QED
  BY <1>6, <1>8, <1>9 DEF JobInv

\* A handler that goes on or ends, with at most its own transaction moved, and
\* nothing inserted or shown, keeps the invariant if its own place is sound.
LEMMA HandlerKeeps ==
    ASSUME JobInv, NEW r \in Request, pc[r] # "done", Apart(r), NetworkTypeOK',
           pc' \in [Request -> Stage], answer' \in [Request -> Answer],
           step' \in [Request -> Nat], step'[r] <= Len(Plan(job[r].op)),
           UNCHANGED <<contracts, tokens, job, shown>>,
           At(r)'
    PROVE  JobInv'
<1>1. TypeOK'
  BY DEF JobInv, TypeOK, Apart
<1>2. Climbing'
  BY OthersStay DEF Climbing
<1>3. OnRecord'
  BY RecordStays
<1> QED
  BY <1>1, <1>2, <1>3 DEF JobInv

LEMMA LoadKeeps ==
    ASSUME JobInv, NEW r \in Request, Load(r)
    PROVE  JobInv'
<1>0. TypeOK /\ At(r) /\ pc[r] = "loading" /\ step[r] > 0
  BY DEF JobInv, Climbing, Load, At
<1>1. /\ pc' = [pc EXCEPT ![r] = "sending"]
      /\ built' = [built EXCEPT ![Current(r)] = sequence[job[r].by]]
      /\ UNCHANGED <<sequence, chain, contracts, tokens, job, step, answer, shown>>
  BY DEF Load, Build, Goto
<1>2. job[r].by \in Account
  BY <1>0, Named
<1>3. NetworkTypeOK'
  BY <1>0, <1>1, <1>2 DEF TypeOK, NetworkTypeOK
<1>4. Apart(r) /\ pc' \in [Request -> Stage] /\ pc'[r] = "sending"
  BY <1>0, <1>1 DEF Apart, TypeOK, Stage
<1>5. At(r)'
  BY <1>0, <1>1, <1>4 DEF At
<1> QED
  BY <1>0, <1>1, <1>3, <1>4, <1>5, HandlerKeeps DEF TypeOK

\* The transaction of r is sent, whether its sender goes on or has given up.
LEMMA SentAt ==
    ASSUME JobInv, NEW r \in Request, pc[r] = "sending", SendTransaction(Current(r)),
           UNCHANGED <<job, step>>, pc'[r] \in {"polling", "done"}
    PROVE  At(r)' /\ NetworkTypeOK' /\ \A t \in Tx : t # Current(r) => chain'[t] = chain[t]
<1>0. TypeOK /\ At(r) /\ step[r] > 0 /\ step[r] \in Nat
  BY DEF JobInv, Climbing, At, TypeOK
<1>1. /\ chain' = [chain EXCEPT ![Current(r)] = "sent"]
      /\ UNCHANGED <<sequence, built>>
  BY DEF SendTransaction
<1>2. NetworkTypeOK' /\ \A t \in Tx : t # Current(r) => chain'[t] = chain[t]
  BY <1>0, <1>1 DEF TypeOK, NetworkTypeOK, Fate
<1>3. ASSUME NEW i \in 1..4, i # step[r] PROVE chain'[<<r, i>>] = chain[<<r, i>>]
  BY <1>2, <1>3, DeploymentAssumption DEF Current
<1>4. \A i \in 1..4 : /\ i < step'[r] => chain'[<<r, i>>] = "applied"
                      /\ i > step'[r] => chain'[<<r, i>>] = "none"
  <2> TAKE i \in 1..4
  <2>1. CASE i = step[r]
    BY <1>0, <2>1
  <2>2. CASE i # step[r]
    BY <1>0, <1>3, <2>2 DEF At
  <2> QED
    BY <2>1, <2>2
<1> QED
  BY <1>0, <1>2, <1>4 DEF At

LEMMA SendKeeps ==
    ASSUME JobInv, NEW r \in Request, Send(r)
    PROVE  JobInv'
<1>0. TypeOK /\ At(r) /\ pc[r] = "sending"
  BY DEF JobInv, Climbing, Send
<1>1. UNCHANGED <<contracts, tokens, job, step, shown>>
  BY DEF Send
<1>2. CASE SendTransaction(Current(r)) /\ pc' = [pc EXCEPT ![r] = "polling"] /\ answer' = answer
  <2>1. pc' \in [Request -> Stage] /\ pc'[r] = "polling"
    BY <1>0, <1>2 DEF TypeOK, Stage
  <2>2. At(r)' /\ NetworkTypeOK' /\ \A t \in Tx : t # Current(r) => chain'[t] = chain[t]
    BY <1>0, <1>1, <1>2, <2>1, SentAt
  <2>3. Apart(r)
    BY <1>0, <1>1, <1>2, <2>2 DEF Apart, TypeOK
  <2> QED
    BY <1>0, <1>1, <1>2, <2>1, <2>2, <2>3, HandlerKeeps DEF TypeOK
<1>3. CASE /\ pc' = [pc EXCEPT ![r] = "done"] /\ answer' = [answer EXCEPT ![r] = "failed"]
           /\ UNCHANGED network
  <2>1. pc' \in [Request -> Stage] /\ pc'[r] = "done" /\ answer' \in [Request -> Answer]
    BY <1>0, <1>3 DEF TypeOK, Stage, Answer
  <2>2. NetworkTypeOK' /\ Apart(r)
    BY <1>0, <1>1, <1>3 DEF Apart, TypeOK, NetworkTypeOK, network
  <2>3. At(r)'
    BY <1>0, <1>1, <1>3, <2>1 DEF At, network
  <2> QED
    BY <1>0, <1>1, <2>1, <2>2, <2>3, HandlerKeeps DEF TypeOK
<1> QED
  BY <1>2, <1>3 DEF Send, Goto, Finish

\* A job that ends where it stands, by its own error.
LEMMA EndKeeps ==
    ASSUME JobInv, NEW r \in Request, pc[r] # "done",
           pc' = [pc EXCEPT ![r] = "done"], NEW what \in Answer,
           answer' = [answer EXCEPT ![r] = what],
           UNCHANGED <<network, contracts, tokens, job, step, shown>>
    PROVE  JobInv'
<1>0. TypeOK /\ At(r)
  BY DEF JobInv, Climbing
<1>1. pc' \in [Request -> Stage] /\ pc'[r] = "done" /\ answer' \in [Request -> Answer]
  BY <1>0 DEF TypeOK, Stage
<1>2. NetworkTypeOK' /\ Apart(r)
  BY <1>0 DEF Apart, TypeOK, NetworkTypeOK, network
<1>3. At(r)'
  BY <1>0, <1>1 DEF At, network
<1> QED
  BY <1>0, <1>1, <1>2, <1>3, HandlerKeeps DEF TypeOK

LEMMA PollKeeps ==
    ASSUME JobInv, NEW r \in Request, Poll(r)
    PROVE  JobInv'
<1>0. TypeOK /\ At(r) /\ pc[r] = "polling" /\ step[r] > 0 /\ step[r] \in Nat
  BY DEF JobInv, Climbing, Poll, At, TypeOK
<1>1. UNCHANGED <<network, contracts, tokens, job, shown>>
  BY DEF Poll
<1>2. CASE pc' = [pc EXCEPT ![r] = "done"] /\ step' = step
           /\ \E what \in Answer : answer' = [answer EXCEPT ![r] = what]
  BY <1>0, <1>1, <1>2, EndKeeps
<1>3. job[r].op \in {"deploy", "token", "invoke"}
  <2>1. job[r].op \in Op /\ step[r] <= Len(Plan(job[r].op))
    BY <1>0, JobOp DEF TypeOK
  <2> QED
    BY <1>0, <2>1, PlanLength DEF Op
<1>4. Len(Plan(job[r].op)) \in Nat /\ step[r] <= Len(Plan(job[r].op)) /\ Len(Plan(job[r].op)) <= 4
  BY <1>0, <1>3, PlanLength DEF Op, TypeOK
<1>5. CASE /\ chain[Current(r)] = "applied" /\ step[r] # Len(Plan(job[r].op))
           /\ step' = [step EXCEPT ![r] = @ + 1] /\ pc' = [pc EXCEPT ![r] = "loading"]
           /\ answer' = answer
  <2>1. /\ pc' \in [Request -> Stage] /\ pc'[r] = "loading"
        /\ step' \in [Request -> Nat] /\ step'[r] = step[r] + 1
    BY <1>0, <1>5 DEF TypeOK, Stage
  <2>2. step'[r] <= Len(Plan(job[r].op)) /\ step'[r] \in 1..4
    BY <1>0, <1>4, <1>5, <2>1
  <2>3. NetworkTypeOK' /\ Apart(r)
    BY <1>0, <1>1, <1>5 DEF Apart, TypeOK, NetworkTypeOK, network
  <2>4. \A i \in 1..4 : /\ i < step'[r] => chain[<<r, i>>] = "applied"
                        /\ i > step'[r] => chain[<<r, i>>] = "none"
    <3> TAKE i \in 1..4
    <3>1. CASE i = step[r]
      BY <1>0, <1>5, <2>1, <3>1 DEF Current
    <3>2. CASE i # step[r]
      BY <1>0, <2>1, <3>2 DEF At
    <3> QED
      BY <3>1, <3>2
  <2>5. chain[<<r, step'[r]>>] = "none"
    <3>1. step'[r] > step[r]
      BY <1>0, <2>1
    <3> QED
      BY <1>0, <2>2, <3>1 DEF At
  <2>6. At(r)'
    BY <1>0, <1>1, <2>1, <2>2, <2>4, <2>5 DEF At, network
  <2> QED
    BY <1>0, <1>1, <1>5, <2>1, <2>2, <2>3, <2>6, HandlerKeeps DEF TypeOK
<1>6. CASE /\ chain[Current(r)] = "applied" /\ step[r] = Len(Plan(job[r].op)) /\ step' = step
           /\ job[r].op # "invoke" /\ pc' = [pc EXCEPT ![r] = "recording"] /\ answer' = answer
  <2>1. pc' \in [Request -> Stage] /\ pc'[r] = "recording"
    BY <1>0, <1>6 DEF TypeOK, Stage
  <2>2. NetworkTypeOK' /\ Apart(r)
    BY <1>0, <1>1, <1>6 DEF Apart, TypeOK, NetworkTypeOK, network
  <2>3. At(r)'
    BY <1>0, <1>1, <1>3, <1>6, <2>1 DEF At, network, Current
  <2> QED
    BY <1>0, <1>1, <1>4, <1>6, <2>1, <2>2, <2>3, HandlerKeeps DEF TypeOK
<1> QED
  <2> "ok" \in Answer /\ "failed" \in Answer
    BY DEF Answer
  <2> QED
    BY <1>2, <1>5, <1>6 DEF Poll, Advance, LastStep, Goto, Finish

LEMMA RpcFailsKeeps ==
    ASSUME JobInv, NEW r \in Request, RpcFails(r)
    PROVE  JobInv'
<1>0. TypeOK /\ At(r) /\ pc[r] # "done"
  BY DEF JobInv, Climbing, RpcFails
<1>1. /\ pc' = [pc EXCEPT ![r] = "done"] /\ answer' = [answer EXCEPT ![r] = "failed"]
      /\ UNCHANGED <<contracts, tokens, job, step, shown>>
  BY DEF RpcFails, Finish, Goto
<1>2. CASE UNCHANGED network
  <2>1. "failed" \in Answer
    BY DEF Answer
  <2> QED
    BY <1>0, <1>1, <1>2, <2>1, EndKeeps
<1>3. CASE pc[r] = "sending" /\ SendTransaction(Current(r))
  <2>1. pc' \in [Request -> Stage] /\ pc'[r] = "done" /\ answer' \in [Request -> Answer]
    BY <1>0, <1>1 DEF TypeOK, Stage, Answer
  <2>2. At(r)' /\ NetworkTypeOK' /\ \A t \in Tx : t # Current(r) => chain'[t] = chain[t]
    BY <1>1, <1>3, <2>1, SentAt
  <2>3. Apart(r)
    BY <1>0, <1>1, <2>2 DEF Apart, TypeOK
  <2> QED
    BY <1>0, <1>1, <2>1, <2>2, <2>3, HandlerKeeps DEF TypeOK
<1> QED
  BY <1>2, <1>3 DEF RpcFails

\* What was on record stays there beside what r may insert.
LEMMA RecordKeeps ==
    ASSUME JobInv, NEW r \in Request, Record(r)
    PROVE  JobInv'
<1>0. TypeOK /\ OnRecord /\ At(r) /\ pc[r] = "recording"
  BY DEF JobInv, Climbing, Record
<1>1. /\ pc' = [pc EXCEPT ![r] = "done"]
      /\ \E what \in {"ok", "error"} : answer' = [answer EXCEPT ![r] = what]
      /\ UNCHANGED <<network, job, step, shown>>
      /\ Insert(r) \/ UNCHANGED <<contracts, tokens>>
  BY DEF Record, Finish, Goto
<1>2. CASE UNCHANGED <<contracts, tokens>>
  <2>1. {"ok", "error"} \subseteq Answer
    BY DEF Answer
  <2> QED
    BY <1>0, <1>1, <1>2, <2>1, EndKeeps
<1>3. CASE Insert(r)
  <2>1. pc' \in [Request -> Stage] /\ answer' \in [Request -> Answer]
    BY <1>0, <1>1 DEF TypeOK, Stage, Answer
  <2>2. NetworkTypeOK' /\ Apart(r) /\ pc'[r] = "done" /\ chain' = chain
    BY <1>0, <1>1 DEF Apart, TypeOK, NetworkTypeOK, network
  <2>3. /\ contracts \subseteq contracts' /\ contracts' \subseteq contracts \cup {r}
        /\ tokens \subseteq tokens' /\ tokens' \subseteq tokens \cup {r}
        /\ (r \in contracts' \ contracts => job[r].op = "deploy")
        /\ (r \in tokens' \ tokens => job[r].op = "token")
    BY <1>3 DEF Insert
  <2>4. TypeOK'
    BY <1>0, <1>1, <2>1, <2>2, <2>3 DEF TypeOK
  <2>5. At(r)'
    BY <1>0, <1>1, <2>2 DEF At
  <2>6. Climbing'
    BY <2>2, <2>5, OthersStay DEF Climbing
  <2>7. OnRecord'
    <3>1. \A q \in contracts \cup tokens :
            pc[q] = "done" /\ step[q] = Len(Plan(job[q].op)) /\ chain[<<q, step[q]>>] = "applied"
      BY <1>0 DEF OnRecord
    <3>2. step[r] = Len(Plan(job[r].op)) /\ chain[<<r, step[r]>>] = "applied"
      BY <1>0 DEF At
    <3>3. \A q \in contracts \cup tokens : pc'[q] = "done"
      BY <1>0, <1>1, <3>1 DEF TypeOK
    <3>4. \A q \in contracts' \cup tokens' :
            pc'[q] = "done" /\ step[q] = Len(Plan(job[q].op)) /\ chain[<<q, step[q]>>] = "applied"
      BY <2>2, <2>3, <3>1, <3>2, <3>3
    <3>5. (\A q \in contracts' : job[q].op = "deploy") /\ (\A q \in tokens' : job[q].op = "token")
      BY <1>0, <2>3 DEF OnRecord
    <3>6. \A q \in Request : \A b \in shown[q] : b[1] \in tokens'
      BY <1>0, <2>3 DEF OnRecord
    <3> QED
      BY <1>1, <2>2, <3>4, <3>5, <3>6 DEF OnRecord
  <2> QED
    BY <2>4, <2>6, <2>7 DEF JobInv
<1> QED
  BY <1>1, <1>2, <1>3

\* A caller is shown tokens that are on record.
LEMMA BalancesKeep ==
    ASSUME JobInv, NEW r \in Request, AskBalances(r)
    PROVE  JobInv'
<1>0. TypeOK /\ OnRecord /\ At(r) /\ pc[r] = "asking"
  BY DEF JobInv, Climbing, AskBalances
<1>1. /\ pc' = [pc EXCEPT ![r] = "done"] /\ answer' = [answer EXCEPT ![r] = "ok"]
      /\ UNCHANGED <<network, contracts, tokens, job, step>>
  BY DEF AskBalances, Finish, Goto
<1>2. PICK what \in SUBSET (tokens \X BOOLEAN) : shown' = [shown EXCEPT ![r] = what]
  <2> DEFINE mine == {t \in tokens : job[t].by = job[r].by}
  <2>1. PICK read \in [mine -> BOOLEAN] : shown' = [shown EXCEPT ![r] = {<<t, read[t]>> : t \in mine}]
    BY DEF AskBalances
  <2>2. {<<t, read[t]>> : t \in mine} \in SUBSET (tokens \X BOOLEAN)
    OBVIOUS
  <2> QED
    BY <2>1, <2>2
<1>3. pc' \in [Request -> Stage] /\ answer' \in [Request -> Answer] /\ pc'[r] = "done"
  BY <1>0, <1>1 DEF TypeOK, Stage, Answer
<1>4. NetworkTypeOK' /\ Apart(r)
  BY <1>0, <1>1 DEF Apart, TypeOK, NetworkTypeOK, network
<1>5. TypeOK'
  <2>1. what \in SUBSET (Request \X BOOLEAN)
    BY <1>0, <1>2 DEF TypeOK
  <2>2. shown' \in [Request -> SUBSET (Request \X BOOLEAN)]
    BY <1>0, <1>2, <2>1 DEF TypeOK
  <2> QED
    BY <1>0, <1>1, <1>3, <1>4, <2>2 DEF TypeOK
<1>6. At(r)'
  BY <1>0, <1>1, <1>3 DEF At, network
<1>7. Climbing'
  BY <1>4, <1>6, OthersStay DEF Climbing
<1>8. OnRecord'
  <2>1. \A q \in Request : \A b \in shown'[q] : b[1] \in tokens
    BY <1>0, <1>2 DEF OnRecord, TypeOK
  <2>2. \A q \in contracts \cup tokens : q \in Request /\ pc[q] = "done"
    BY <1>0 DEF OnRecord, TypeOK
  <2>3. \A q \in contracts \cup tokens : pc'[q] = "done"
    BY <1>0, <1>1, <2>2 DEF TypeOK
  <2> QED
    BY <1>0, <1>1, <2>1, <2>3 DEF OnRecord, network
<1> QED
  BY <1>5, <1>7, <1>8 DEF JobInv

\* A crash ends the jobs that run, and moves nothing.
LEMMA CrashKeeps == ASSUME JobInv, Crash PROVE JobInv'
<1>0. TypeOK /\ OnRecord /\ Climbing
  BY DEF JobInv
<1>1. /\ \A q \in Request : pc'[q] = pc[q] \/ pc'[q] = "done"
      /\ pc' \in [Request -> Stage] /\ answer' \in [Request -> Answer]
      /\ UNCHANGED <<network, contracts, tokens, job, step, shown>>
  BY <1>0 DEF Crash, TypeOK, Stage, Answer
<1>2. TypeOK'
  BY <1>0, <1>1 DEF TypeOK, NetworkTypeOK, network
<1>3. Climbing'
  <2> SUFFICES ASSUME NEW q \in Request PROVE At(q)'
    BY DEF Climbing
  <2>1. At(q)
    BY <1>0 DEF Climbing
  <2> QED
    BY <1>1, <2>1 DEF At, network
<1>4. OnRecord'
  <2>1. \A q \in contracts \cup tokens : q \in Request /\ pc[q] = "done"
    BY <1>0 DEF OnRecord, TypeOK
  <2>2. \A q \in contracts \cup tokens : pc'[q] = "done"
    BY <1>1, <2>1
  <2> QED
    BY <1>0, <1>1, <2>2 DEF OnRecord, network
<1> QED
  BY <1>2, <1>3, <1>4 DEF JobInv

\* Every step keeps what every job relies on.
LEMMA NextJob == JobInv /\ [Next]_vars => JobInv'
<1> SUFFICES ASSUME JobInv, [Next]_vars PROVE JobInv'
  OBVIOUS
<1>1. ASSUME NEW r \in Request, Start(r) \/ Proceed(r) \/ RpcFails(r) \/ Settle(r) PROVE JobInv'
  BY <1>1, StartKeeps, LoadKeeps, SendKeeps, PollKeeps, RecordKeeps, BalancesKeep, RpcFailsKeeps,
     SettleKeeps DEF Proceed
<1>2. CASE Crash
  BY <1>2, CrashKeeps
<1>3. CASE UNCHANGED vars
  <2>1. TypeOK'
    BY <1>3 DEF vars, network, handler, JobInv, TypeOK, NetworkTypeOK
  <2>2. Climbing'
    BY <1>3 DEF vars, network, handler, JobInv, Climbing, At
  <2>3. OnRecord'
    BY <1>3 DEF vars, network, handler, JobInv, OnRecord
  <2> QED
    BY <2>1, <2>2, <2>3 DEF JobInv
<1> QED
  BY <1>1, <1>2, <1>3 DEF Next

\* The network, the tables and the handlers keep their types.
THEOREM TypeCorrect == Spec => []TypeOK
<1>1. JobInv => TypeOK
  BY DEF JobInv
<1> QED
  BY <1>1, InitJob, NextJob, PTL DEF Spec

\* A contract or token in the tables has all its transactions behind it, and a
\* balance is shown of a minted token only, whatever is lost or fails.
THEOREM RecordedJobsAreReady == Spec => []RecordedIsReady
<1>1. JobInv => RecordedIsReady
  <2> SUFFICES ASSUME JobInv PROVE RecordedIsReady
    OBVIOUS
  <2>0. TypeOK /\ Climbing /\ OnRecord
    BY DEF JobInv
  <2>1. ASSUME NEW r \in contracts \cup tokens, NEW i \in 1..Len(Plan(job[r].op))
        PROVE  chain[<<r, i>>] = "applied"
    <3>1. r \in Request /\ At(r) /\ step[r] = Len(Plan(job[r].op)) /\ chain[<<r, step[r]>>] = "applied"
      BY <2>0 DEF TypeOK, Climbing, OnRecord
    <3>2. job[r].op \in Op /\ Len(Plan(job[r].op)) \in Nat /\ Len(Plan(job[r].op)) <= 4
      BY <2>0, <3>1, JobOp, PlanLength DEF TypeOK
    <3>3. i \in 1..4 /\ (i < step[r] \/ i = step[r])
      BY <3>1, <3>2
    <3> QED
      BY <3>1, <3>3 DEF At
  <2>2. ASSUME NEW r \in Request, NEW b \in shown[r]
        PROVE  Applied(b[1], "mint")
    <3>1. b[1] \in tokens /\ job[b[1]].op = "token"
      BY <2>0 DEF OnRecord
    <3>2. 4 \in 1..Len(Plan(job[b[1]].op))
      BY <3>1, PlanLength
    <3>3. chain[<<b[1], 4>>] = "applied"
      BY <2>1, <3>1, <3>2
    <3>4. Plan(job[b[1]].op)[4] = "mint"
      BY <3>1, PlanEnds
    <3> QED
      BY <3>2, <3>3, <3>4 DEF Applied
  <2> QED
    BY <2>1, <2>2 DEF RecordedIsReady
<1> QED
  BY <1>1, InitJob, NextJob, PTL DEF Spec

-----------------------------------------------------------------------------
(* What the callers hear.                                                  *)

\* Who runs has answered nothing; balances alone are asked for.
Unheard ==
    \A r \in Request :
        /\ pc[r] # "done" => answer[r] = "none"
        /\ pc[r] = "asking" => job[r].op = "balances"

\* UnrecordedIsReported, of one request.
Reported(r) ==
    /\ answer[r] = "ok" /\ job[r].op = "deploy" => r \in contracts
    /\ answer[r] = "ok" /\ job[r].op = "token" => r \in tokens
    /\ answer[r] = "ok" /\ job[r].op = "invoke" => chain[<<r, 1>>] = "applied"
    /\ r \in contracts \cup tokens => answer[r] # "failed"

ReportInv == JobInv /\ Unheard /\ UnrecordedIsReported

\* A step that leaves the tables and the ledger's verdicts, and ends some jobs
\* without "ok", keeps the reports true.
LEMMA BadNews ==
    ASSUME ReportInv, UNCHANGED <<contracts, tokens, job>>,
           \A r \in Request :
              \/ pc'[r] = pc[r] /\ answer'[r] = answer[r]
              \/ pc[r] # "done" /\ pc'[r] # "asking" /\ pc'[r] # "done" /\ answer'[r] = answer[r]
              \/ pc[r] # "done" /\ pc'[r] = "done" /\ answer'[r] # "ok",
           \A t \in Tx : chain[t] = "applied" => chain'[t] = "applied"
    PROVE  Unheard' /\ UnrecordedIsReported'
<1>0. TypeOK /\ OnRecord /\ Unheard /\ UnrecordedIsReported
  BY DEF ReportInv, JobInv
<1>1. Unheard'
  BY <1>0 DEF Unheard
<1>2. \A r \in contracts \cup tokens : r \in Request /\ answer'[r] = answer[r]
  BY <1>0 DEF OnRecord, TypeOK
<1>3. \A r \in Request : answer'[r] = "ok" => answer[r] = "ok"
  BY <1>0 DEF Unheard
<1>4. \A r \in Request : <<r, 1>> \in Tx
  BY DeploymentAssumption
<1>5. UnrecordedIsReported'
  BY <1>0, <1>2, <1>3, <1>4 DEF UnrecordedIsReported
<1> QED
  BY <1>1, <1>5

\* A transaction that was applied stays so.
LEMMA AppliedStands ==
    ASSUME JobInv, [Next]_vars
    PROVE  \A t \in Tx : chain[t] = "applied" => chain'[t] = "applied"
<1>0. NetworkTypeOK /\ Climbing
  BY DEF JobInv, TypeOK
<1>1. ASSUME NEW r \in Request, pc[r] = "sending", SendTransaction(Current(r))
      PROVE  \A t \in Tx : chain[t] = "applied" => chain'[t] = "applied"
  <2>1. chain[Current(r)] = "none"
    BY <1>0, <1>1 DEF Climbing, At, Current
  <2> QED
    BY <1>0, <1>1, <2>1 DEF SendTransaction, NetworkTypeOK
<1>2. ASSUME NEW r \in Request, Settle(r)
      PROVE  \A t \in Tx : chain[t] = "applied" => chain'[t] = "applied"
  BY <1>0, <1>2 DEF Settle, Include, Drop, NetworkTypeOK
<1>3. CASE UNCHANGED chain
  BY <1>3
<1>4. ASSUME NEW r \in Request, Start(r) \/ Proceed(r) \/ RpcFails(r)
      PROVE  UNCHANGED chain \/ (pc[r] = "sending" /\ SendTransaction(Current(r)))
  BY <1>4 DEF Start, Proceed, Load, Build, Send, Poll, Record, AskBalances, RpcFails, network
<1> QED
  BY <1>1, <1>2, <1>3, <1>4 DEF Next, Crash, vars, network

\* Every step keeps the reports true.
LEMMA NextReport == ReportInv /\ [Next]_vars => ReportInv'
<1> SUFFICES ASSUME ReportInv, [Next]_vars PROVE Unheard' /\ UnrecordedIsReported'
  BY NextJob DEF ReportInv
<1>0. /\ TypeOK /\ OnRecord /\ Unheard /\ UnrecordedIsReported
      /\ \A t \in Tx : chain[t] = "applied" => chain'[t] = "applied"
      /\ \A r \in contracts \cup tokens : r \in Request /\ pc[r] = "done"
      /\ \A r \in Request : <<r, 1>> \in Tx
  <2>1. TypeOK /\ OnRecord /\ Unheard /\ UnrecordedIsReported
    BY DEF ReportInv, JobInv
  <2>2. \A t \in Tx : chain[t] = "applied" => chain'[t] = "applied"
    BY AppliedStands DEF ReportInv
  <2>3. \A r \in contracts \cup tokens : r \in Request /\ pc[r] = "done"
    BY <2>1 DEF OnRecord, TypeOK
  <2>4. \A r \in Request : <<r, 1>> \in Tx
    BY DeploymentAssumption
  <2> QED
    BY <2>1, <2>2, <2>3, <2>4
<1>1. ASSUME NEW r \in Request, Start(r) PROVE Unheard' /\ UnrecordedIsReported'
  <2>1. pc[r] = "idle" /\ answer' = answer /\ contracts' = contracts /\ tokens' = tokens
    BY <1>1 DEF Start
  <2>2. \A q \in Request \ {r} : pc'[q] = pc[q] /\ job'[q] = job[q]
    BY <1>0, <1>1 DEF Start, Goto, TypeOK
  <2>3. pc'[r] \in {"asking", "loading"} /\ (pc'[r] = "asking" => job'[r].op = "balances")
    BY <1>0, <1>1 DEF Start, Goto, TypeOK
  <2>4. answer[r] = "none" /\ r \notin contracts \cup tokens
    BY <1>0, <2>1 DEF Unheard
  <2>5. Unheard'
    BY <1>0, <2>1, <2>2, <2>3, <2>4 DEF Unheard
  <2>6. UnrecordedIsReported'
    <3> SUFFICES ASSUME NEW q \in Request PROVE Reported(q)'
      BY DEF UnrecordedIsReported, Reported
    <3>1. CASE q = r
      BY <2>1, <2>4, <3>1 DEF Reported
    <3>2. CASE q # r
      BY <1>0, <2>1, <2>2, <3>2 DEF UnrecordedIsReported, Reported
    <3> QED
      BY <3>1, <3>2
  <2> QED
    BY <2>5, <2>6
<1>2. ASSUME NEW r \in Request, Load(r) \/ Send(r) \/ RpcFails(r) PROVE Unheard' /\ UnrecordedIsReported'
  <2>1. UNCHANGED <<contracts, tokens, job>> /\ pc[r] \in {"loading", "sending", "polling"}
    BY <1>2 DEF Load, Send, RpcFails
  <2>2. \/ pc' = [pc EXCEPT ![r] = "sending"] /\ answer' = answer
        \/ pc' = [pc EXCEPT ![r] = "polling"] /\ answer' = answer
        \/ pc' = [pc EXCEPT ![r] = "done"] /\ answer' = [answer EXCEPT ![r] = "failed"]
    BY <1>2 DEF Load, Send, RpcFails, Goto, Finish
  <2> QED
    BY <1>0, <2>1, <2>2, BadNews DEF TypeOK
<1>3. ASSUME NEW r \in Request, Poll(r) PROVE Unheard' /\ UnrecordedIsReported'
  <2>1. UNCHANGED <<network, contracts, tokens, job>> /\ pc[r] = "polling"
    BY <1>3 DEF Poll
  <2>2. CASE \/ pc' = [pc EXCEPT ![r] = "loading"] /\ answer' = answer
             \/ pc' = [pc EXCEPT ![r] = "recording"] /\ answer' = answer
             \/ pc' = [pc EXCEPT ![r] = "done"] /\ answer' = [answer EXCEPT ![r] = "failed"]
    BY <1>0, <2>1, <2>2, BadNews DEF TypeOK
  <2>3. CASE /\ chain[Current(r)] = "applied" /\ LastStep(r) /\ job[r].op = "invoke"
             /\ pc' = [pc EXCEPT ![r] = "done"] /\ answer' = [answer EXCEPT ![r] = "ok"]
    <3>1. chain'[<<r, 1>>] = "applied"
      BY <2>1, <2>3, PlanLength DEF LastStep, Current, network
    <3>2. Unheard'
      BY <1>0, <2>1, <2>3 DEF Unheard, TypeOK
    <3>3. r \notin contracts \cup tokens
      BY <1>0, <2>1
    <3>4. answer'[r] = "ok" /\ \A q \in Request \ {r} : answer'[q] = answer[q]
      BY <1>0, <2>3 DEF TypeOK
    <3>5. UnrecordedIsReported'
      BY <1>0, <2>1, <2>3, <3>1, <3>3, <3>4 DEF UnrecordedIsReported
    <3> QED
      BY <3>2, <3>5
  <2> QED
    BY <1>3, <2>2, <2>3 DEF Poll, Advance, Goto, Finish
<1>4. ASSUME NEW r \in Request, Record(r) PROVE Unheard' /\ UnrecordedIsReported'
  <2>1. /\ pc[r] = "recording" /\ pc' = [pc EXCEPT ![r] = "done"] /\ UNCHANGED <<job, chain>>
        /\ \/ Insert(r) /\ answer' = [answer EXCEPT ![r] = "ok"]
           \/ answer' = [answer EXCEPT ![r] = "error"] /\ UNCHANGED <<contracts, tokens>>
           \/ answer' = [answer EXCEPT ![r] = "error"] /\ Insert(r)
    BY <1>4 DEF Record, Goto, Finish, network
  <2>2. job[r].op \in {"deploy", "token"}
    BY <2>1 DEF ReportInv, JobInv, Climbing, At
  <2>3. /\ contracts \subseteq contracts' /\ contracts' \subseteq contracts \cup {r}
        /\ tokens \subseteq tokens' /\ tokens' \subseteq tokens \cup {r}
        /\ answer'[r] \in {"ok", "error"}
        /\ answer'[r] = "ok" /\ job[r].op = "deploy" => r \in contracts'
        /\ answer'[r] = "ok" /\ job[r].op = "token" => r \in tokens'
    BY <1>0, <2>1 DEF Insert, TypeOK
  <2>4. \A q \in Request \ {r} : answer'[q] = answer[q] /\ pc'[q] = pc[q]
    BY <1>0, <2>1 DEF TypeOK
  <2>5. Unheard'
    BY <1>0, <2>1, <2>4 DEF Unheard, TypeOK
  <2>6. UnrecordedIsReported'
    <3> SUFFICES ASSUME NEW q \in Request PROVE Reported(q)'
      BY DEF UnrecordedIsReported, Reported
    <3>1. CASE q = r
      <4>1. job' = job /\ answer'[r] \in {"ok", "error"}
        BY <2>1, <2>3
      <4>2. /\ answer'[r] = "ok" /\ job[r].op = "deploy" => r \in contracts'
            /\ answer'[r] = "ok" /\ job[r].op = "token" => r \in tokens'
        BY <2>3
      <4>3. Reported(r)'
        BY <2>2, <4>1, <4>2 DEF Reported
      <4> QED
        BY <3>1, <4>3
    <3>2. CASE q # r
      <4>1. /\ q \in contracts' <=> q \in contracts
            /\ q \in tokens' <=> q \in tokens
        BY <2>3, <3>2
      <4>2. answer'[q] = answer[q] /\ job' = job /\ chain' = chain
        BY <2>1, <2>4, <3>2
      <4>3. Reported(q)
        BY <1>0 DEF UnrecordedIsReported, Reported
      <4> QED
        BY <4>1, <4>2, <4>3 DEF Reported
    <3> QED
      BY <3>1, <3>2
  <2> QED
    BY <2>5, <2>6
<1>5. ASSUME NEW r \in Request, AskBalances(r) PROVE Unheard' /\ UnrecordedIsReported'
  <2>1. /\ pc[r] = "asking" /\ pc' = [pc EXCEPT ![r] = "done"]
        /\ answer' = [answer EXCEPT ![r] = "ok"]
        /\ UNCHANGED <<network, contracts, tokens, job>>
    BY <1>5 DEF AskBalances, Goto, Finish
  <2>2. job[r].op = "balances" /\ r \notin contracts \cup tokens
    BY <1>0, <2>1 DEF Unheard
  <2>3. \A q \in Request \ {r} : answer'[q] = answer[q] /\ pc'[q] = pc[q]
    BY <1>0, <2>1 DEF TypeOK
  <2>4. Unheard'
    BY <1>0, <2>1, <2>3 DEF Unheard, TypeOK
  <2>5. UnrecordedIsReported'
    <3> SUFFICES ASSUME NEW q \in Request PROVE Reported(q)'
      BY DEF UnrecordedIsReported, Reported
    <3>1. CASE q = r
      BY <2>1, <2>2, <3>1 DEF Reported
    <3>2. CASE q # r
      BY <1>0, <2>1, <2>3, <3>2 DEF UnrecordedIsReported, Reported, network
    <3> QED
      BY <3>1, <3>2
  <2> QED
    BY <2>4, <2>5
<1>6. ASSUME NEW r \in Request, Settle(r) PROVE Unheard' /\ UnrecordedIsReported'
  BY <1>0, <1>6, BadNews DEF Settle, handler
<1>7. CASE Crash
  <2>1. UNCHANGED <<contracts, tokens, job>>
    BY <1>7 DEF Crash
  <2>2. \A r \in Request : \/ pc'[r] = pc[r] /\ answer'[r] = answer[r]
                           \/ pc[r] # "done" /\ pc'[r] = "done" /\ answer'[r] # "ok"
    BY <1>7 DEF Crash
  <2> QED
    BY <1>0, <2>1, <2>2, BadNews
<1>8. CASE UNCHANGED vars
  BY <1>0, <1>8, BadNews DEF vars, handler
<1> QED
  BY <1>1, <1>2, <1>3, <1>4, <1>5, <1>6, <1>7, <1>8 DEF Next, Proceed

\* A caller who hears "ok" finds its contract or token in the table, and what
\* the table holds was never answered as a failure of the network.
THEOREM ReportsAreTrue == Spec => []UnrecordedIsReported
<1>1. Init => ReportInv
  BY InitJob DEF Init, ReportInv, Unheard, UnrecordedIsReported
<1>2. ReportInv => UnrecordedIsReported
  BY DEF ReportInv
<1> QED
  BY <1>1, <1>2, NextReport, PTL DEF Spec
=============================================================================
