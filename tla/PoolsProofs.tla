---------------------------- MODULE PoolsProofs ----------------------------
(***************************************************************************)
(* Proofs about Pools, for every number of requests and members, every set *)
(* of amounts and floors, every first price, and whatever the surroundings *)
(* may do.                                                                 *)
(*                                                                         *)
(* The chain and the table are written by different steps, so between them *)
(* the two must be allowed to differ by exactly what one call has done on  *)
(* the chain and not yet in the table: Due.  That there is one such call   *)
(* at most is what a calm merchant has and another has not.                *)
(***************************************************************************)
EXTENDS Pools, TLAPS

Unsent == {"idle", "quoting", "loading", "simulating", "reloading", "sending"}

\* Where a request is, and what can have become of its transaction.
At(r) ==
    /\ call[r].op = "none" <=> pc[r] = "idle"
    /\ pc[r] # "done" => answer[r] = "none"
    /\ pc[r] = "quoting" => call[r].op = "swap"
    /\ pc[r] \in Unsent => chain[r] = "none"
    /\ pc[r] = "polling" => chain[r] # "none"
    /\ pc[r] \in {"reading", "recording"} \/ answer[r] = "ok" => chain[r] = "applied"
    /\ chain[r] = "applied" /\ call[r].op = "deposit" => paid[r] > 0
    /\ chain[r] = "applied" /\ call[r].op = "swap" => paid[r] >= call[r].min

StageInv == TypeOK /\ \A r \in Request : At(r)

Mine(r, m) == call[r].op # "none" /\ call[r].by = m

\* Applied, and not on record yet.
Pending(r) ==
    /\ pc[r] \in {"polling", "reading", "recording"}
    /\ chain[r] = "applied"
    /\ call[r].op # "swap"

\* By how much the record is behind the chain while r is pending; what r has
\* read of the record is still there when it writes.
Due(r, m) ==
    /\ call[r].op = "deposit" => lp[m] = Recorded(m) + paid[r]
    /\ call[r].op = "withdraw" => Recorded(m) = lp[m] + call[r].amount
    /\ pc[r] = "recording" => seen[r] = positions[m]

\* What holds of a calm merchant between its calls and within them.
CalmAt(m) ==
    /\ \A r, s \in Running(m) : r = s
    /\ \A r \in Request : Mine(r, m) /\ chain[r] = "sent" => pc[r] = "polling"
    /\ \A r \in Request : Mine(r, m) /\ Pending(r) => Due(r, m)
    /\ (\A r \in Request : Mine(r, m) => ~Pending(r)) => Recorded(m) = lp[m]

CalmInv == \A m \in calm : CalmAt(m)

-----------------------------------------------------------------------------
(* Types and stages.                                                       *)

\* The initial state has its types, and every request is at its start.
LEMMA InitStageInv == Init => StageInv
BY PoolAssumption
   DEF Init, StageInv, At, Unsent, TypeOK, NetworkInit, NetworkTypeOK, Stage, Answer, Call, Fate

\* The fields of a call, by its operation.
LEMMA CallFields ==
  ASSUME NEW c \in Call, c.op # "none"
  PROVE  /\ c.by \in Member
         /\ c.op \in {"deposit", "withdraw", "swap"}
         /\ c.op = "withdraw" => c.amount \in Nat \ {0}
         /\ c.op = "swap" => c.min \in Nat
<1>1. CASE c \in [op : {"deposit"}, by : Member]
  BY <1>1
<1>2. CASE c \in [op : {"withdraw"}, by : Member, amount : Shares]
  BY <1>2, PoolAssumption
<1>3. CASE c \in [op : {"swap"}, by : Member, min : Floor]
  BY <1>3, PoolAssumption
<1> QED
  BY <1>1, <1>2, <1>3 DEF Call

\* What a step of one request leaves of another.
Same(s) ==
    /\ pc'[s] = pc[s] /\ call'[s] = call[s] /\ seen'[s] = seen[s] /\ answer'[s] = answer[s]
    /\ chain'[s] = chain[s] /\ paid'[s] = paid[s]

\* A step of one request: it is in its new place, and the others are where
\* they were.
Moved(r) == TypeOK' /\ At(r)' /\ \A s \in Request \ {r} : Same(s)

\* What the lemmas on the steps need of the invariant.
LEMMA AtOne ==
  ASSUME StageInv, NEW r \in Request
  PROVE  /\ TypeOK /\ At(r) /\ Tx = Request /\ Account = Member
         /\ NetworkTypeOK
         /\ call[r] \in Call /\ pc[r] \in Stage /\ paid[r] \in Nat /\ price \in Nat
         /\ pc[r] # "idle" => call[r].by \in Member
BY CallFields, PoolAssumption DEF StageInv, TypeOK, At

\* A call begins.
LEMMA StartMoves ==
  ASSUME StageInv, NEW r \in Request, Start(r)
  PROVE  Moved(r)
<1>0. TypeOK /\ At(r)
  BY AtOne
<1>1. PICK c \in Call \ {[op |-> "none"]} :
         /\ call' = [call EXCEPT ![r] = c]
         /\ Goto(r, IF c.op = "swap" THEN "quoting" ELSE "loading")
         /\ Disturb(c.by, Running(c.by) # {})
  BY DEF Start
<1>2. c.op # "none"
  BY DEF Call
<1>3. TypeOK'
  BY <1>0, <1>1 DEF Start, Goto, Disturb, Idle, network, pool, table, TypeOK, NetworkTypeOK, Stage
<1>4. At(r)'
  BY <1>0, <1>1, <1>2
     DEF Start, Goto, Idle, network, pool, table, TypeOK, NetworkTypeOK, At, Unsent
<1> QED
  BY <1>0, <1>1, <1>3, <1>4 DEF Start, Goto, Idle, network, pool, Moved, Same, TypeOK

\* The steps that only move the request on: nothing else changes but its
\* answer, what it has read, and the sequence number it builds on.
LEMMA QuoteMoves ==
  ASSUME StageInv, NEW r \in Request, Quote(r)
  PROVE  Moved(r)
BY AtOne
   DEF Quote, Goto, Finish, Idle, network, pool, table, Moved, Same, TypeOK, NetworkTypeOK, Stage,
       Answer, At, Unsent

\* Loading the account, at first or again.
LEMMA BuildMoves ==
  ASSUME StageInv, NEW r \in Request, LoadAccount(r) \/ Reload(r)
  PROVE  Moved(r)
<1>0. TypeOK /\ At(r) /\ sequence[call[r].by] \in Nat /\ Tx = Request
  BY AtOne DEF LoadAccount, Reload, NetworkTypeOK
<1> QED
  BY <1>0
     DEF LoadAccount, Reload, Build, Goto, pool, table, Moved, Same, TypeOK, NetworkTypeOK, Stage,
         At, Unsent

\* The simulation.
LEMMA SimulateMoves ==
  ASSUME StageInv, NEW r \in Request, Simulate(r)
  PROVE  Moved(r)
BY AtOne
   DEF Simulate, Goto, Finish, Idle, network, pool, table, Moved, Same, TypeOK, NetworkTypeOK,
       Stage, Answer, At, Unsent

\* Sending.
LEMMA SendMoves ==
  ASSUME StageInv, NEW r \in Request, Send(r)
  PROVE  Moved(r)
BY AtOne
   DEF Send, SendTransaction, Goto, Finish, network, pool, table, Moved, Same, TypeOK,
       NetworkTypeOK, Stage, Answer, Fate, At, Unsent

\* Polling.
LEMMA PollMoves ==
  ASSUME StageInv, NEW r \in Request, Poll(r)
  PROVE  Moved(r)
BY AtOne
   DEF Poll, Disturb, Goto, Finish, Idle, network, pool, table, Moved, Same, TypeOK,
       NetworkTypeOK, Stage, Answer, At, Unsent

\* Reading the row.
LEMMA ReadMoves ==
  ASSUME StageInv, NEW r \in Request, ReadPosition(r)
  PROVE  Moved(r)
<1>0. TypeOK /\ At(r) /\ positions[call[r].by] \in Nat \cup {NoRow}
  BY AtOne DEF ReadPosition, TypeOK
<1>1. TypeOK'
  BY <1>0
     DEF ReadPosition, Goto, Finish, Idle, network, pool, table, TypeOK, NetworkTypeOK, Stage, Answer
<1> QED
  BY <1>0, <1>1
     DEF ReadPosition, Goto, Finish, Idle, network, pool, table, Moved, Same, TypeOK, At, Unsent

\* What a deposit or a withdrawal writes is a position.
LEMMA NewPositionType ==
  ASSUME StageInv, NEW r \in Request, pc[r] = "recording", call[r].op \in {"deposit", "withdraw"}
  PROVE  NewPosition(r) \in (Nat \ {0}) \cup {NoRow}
<1>0. TypeOK /\ At(r) /\ paid[r] \in Nat /\ seen[r] \in Nat \cup {NoRow}
  BY AtOne DEF TypeOK
<1>1. call[r].op = "withdraw" => call[r].amount \in Nat \ {0}
  BY AtOne, CallFields
<1>2. call[r].op = "deposit" => paid[r] > 0
  BY <1>0 DEF At
<1> QED
  BY <1>0, <1>1, <1>2, PoolAssumption DEF NewPosition

\* Writing it.
LEMMA RecordMoves ==
  ASSUME StageInv, NEW r \in Request, RecordPosition(r)
  PROVE  Moved(r)
<1>0. TypeOK /\ At(r)
  BY AtOne
<1>1. NewPosition(r) \in (Nat \ {0}) \cup {NoRow}
  BY NewPositionType DEF RecordPosition
<1>2. positions' \in [Member -> (Nat \ {0}) \cup {NoRow}]
  BY <1>0, <1>1 DEF RecordPosition, TypeOK
<1>3. TypeOK'
  BY <1>0, <1>2
     DEF RecordPosition, Goto, Finish, network, pool, TypeOK, NetworkTypeOK, Stage, Answer
<1> QED
  BY <1>0, <1>3 DEF RecordPosition, Goto, Finish, network, pool, Moved, Same, TypeOK, At, Unsent

\* Writing a swap.
LEMMA RecordSwapMoves ==
  ASSUME StageInv, NEW r \in Request, RecordSwap(r)
  PROVE  Moved(r)
<1>0. TypeOK /\ At(r) /\ paid[r] \in Nat
  BY AtOne
<1>1. TypeOK'
  BY <1>0
     DEF RecordSwap, Goto, Finish, network, pool, TypeOK, NetworkTypeOK, Stage, Answer
<1> QED
  BY <1>0, <1>1 DEF RecordSwap, Goto, Finish, network, pool, Moved, Same, TypeOK, At, Unsent

\* What may go wrong in the handler.
LEMMA FailureMoves ==
  ASSUME StageInv, NEW r \in Request, RpcFails(r) \/ QueryFails(r)
  PROVE  Moved(r)
<1>0. TypeOK /\ At(r) /\ Tx = Request
  BY AtOne
<1>1. CASE RpcFails(r)
  <2>1. /\ chain' \in [Tx -> Fate]
        /\ \A s \in Request \ {r} : chain'[s] = chain[s]
        /\ chain'[r] = chain[r] \/ chain'[r] = "sent"
    BY <1>0, <1>1 DEF RpcFails, SendTransaction, network, TypeOK, NetworkTypeOK, Fate
  <2>2. sequence' = sequence /\ built' = built
    BY <1>1 DEF RpcFails, SendTransaction, network
  <2>3. TypeOK'
    BY <1>0, <1>1, <2>1, <2>2
       DEF RpcFails, Goto, Finish, Disturb, pool, table, TypeOK, NetworkTypeOK, Stage, Answer
  <2> QED
    BY <1>0, <1>1, <2>1, <2>3 DEF RpcFails, Goto, Finish, pool, Moved, Same, TypeOK, At, Unsent
<1>2. CASE QueryFails(r)
  BY <1>0, <1>2
     DEF QueryFails, Disturb, Goto, Finish, Idle, network, pool, table, Moved, Same, TypeOK,
         NetworkTypeOK, Stage, Answer, At, Unsent
<1> QED
  BY <1>1, <1>2

\* A ledger takes a transaction that was sent, or none does.
LEMMA IncludeMoves ==
  ASSUME StageInv, NEW r \in Request, call[r].op # "none",
         NEW fate \in {"applied", "failed"}, Include(r, call[r].by, fate)
  PROVE  /\ NetworkTypeOK' /\ chain[r] = "sent" /\ chain'[r] = fate
         /\ \A s \in Request \ {r} : chain'[s] = chain[s]
<1>0. /\ TypeOK /\ At(r) /\ Tx = Request /\ Account = Member /\ NetworkTypeOK
      /\ call[r].by \in Member
  BY AtOne, CallFields
<1>1. sequence' \in [Account -> Nat]
  BY <1>0 DEF Include, NetworkTypeOK
<1> QED
  BY <1>0, <1>1 DEF Include, NetworkTypeOK, Fate

\* The chain and the contract.
LEMMA SettleMoves ==
  ASSUME StageInv, NEW r \in Request, Settle(r)
  PROVE  Moved(r)
<1>0. TypeOK /\ At(r) /\ Tx = Request /\ call[r] \in Call /\ price \in Nat
  BY AtOne
<1>1. CASE ApplyDeposit(r)
  <2>1. /\ NetworkTypeOK' /\ chain[r] = "sent" /\ chain'[r] = "applied"
        /\ \A s \in Request \ {r} : chain'[s] = chain[s]
    BY <1>1, IncludeMoves DEF ApplyDeposit
  <2>2. PICK minted \in Shares :
           /\ lp' = [lp EXCEPT ![call[r].by] = @ + minted]
           /\ paid' = [paid EXCEPT ![r] = minted]
    BY <1>1 DEF ApplyDeposit
  <2>3. call[r].by \in Member /\ minted \in Nat \ {0}
    BY <1>0, <1>1, CallFields, PoolAssumption DEF ApplyDeposit
  <2>4. lp' \in [Member -> Nat] /\ paid' \in [Request -> Nat] /\ paid'[r] > 0
        /\ \A s \in Request \ {r} : paid'[s] = paid[s]
    BY <1>0, <2>2, <2>3 DEF TypeOK
  <2>5. TypeOK'
    BY <1>0, <1>1, <2>1, <2>4 DEF ApplyDeposit, table, TypeOK
  <2>6. At(r)'
    BY <1>0, <1>1, <2>1, <2>4 DEF ApplyDeposit, At, Unsent
  <2> QED
    BY <1>1, <2>1, <2>4, <2>5, <2>6 DEF ApplyDeposit, Moved, Same
<1>2. CASE ApplyWithdraw(r)
  <2>1. /\ NetworkTypeOK' /\ chain[r] = "sent" /\ chain'[r] = "applied"
        /\ \A s \in Request \ {r} : chain'[s] = chain[s]
    BY <1>2, IncludeMoves DEF ApplyWithdraw
  <2>2. /\ call[r].by \in Member /\ call[r].amount \in Nat
        /\ lp[call[r].by] >= call[r].amount
    BY <1>0, <1>2, CallFields DEF ApplyWithdraw, Succeeds
  <2>3. lp' \in [Member -> Nat]
    BY <1>0, <1>2, <2>2 DEF ApplyWithdraw, TypeOK
  <2>4. TypeOK'
    BY <1>0, <1>2, <2>1, <2>3 DEF ApplyWithdraw, table, TypeOK
  <2> QED
    BY <1>0, <1>2, <2>1, <2>4 DEF ApplyWithdraw, At, Unsent, Moved, Same
<1>3. CASE ApplySwap(r)
  <2>1. /\ NetworkTypeOK' /\ chain[r] = "sent" /\ chain'[r] = "applied"
        /\ \A s \in Request \ {r} : chain'[s] = chain[s]
    BY <1>3, IncludeMoves DEF ApplySwap
  <2>2. price >= call[r].min
    BY <1>3 DEF ApplySwap, Succeeds, MinOutput
  <2>3. price' \in Nat /\ paid' \in [Request -> Nat]
    BY <1>0, <1>3 DEF ApplySwap, TypeOK
  <2>4. TypeOK'
    BY <1>0, <1>3, <2>1, <2>3 DEF ApplySwap, table, TypeOK
  <2> QED
    BY <1>0, <1>3, <2>1, <2>2, <2>4 DEF ApplySwap, At, Unsent, Moved, Same, TypeOK
<1>4. CASE Refuse(r)
  <2>1. /\ NetworkTypeOK' /\ chain[r] = "sent" /\ chain'[r] = "failed"
        /\ \A s \in Request \ {r} : chain'[s] = chain[s]
    BY <1>4, IncludeMoves DEF Refuse
  <2>2. TypeOK'
    BY <1>0, <1>4, <2>1 DEF Refuse, pool, table, TypeOK
  <2> QED
    BY <1>0, <1>4, <2>1, <2>2 DEF Refuse, pool, At, Unsent, Moved, Same
<1>5. CASE Lose(r)
  <2>1. /\ NetworkTypeOK' /\ chain[r] = "sent" /\ chain'[r] = "dropped"
        /\ \A s \in Request \ {r} : chain'[s] = chain[s]
    BY <1>0, <1>5 DEF Lose, Drop, TypeOK, NetworkTypeOK, Fate
  <2>2. TypeOK'
    BY <1>0, <1>5, <2>1 DEF Lose, pool, table, TypeOK
  <2> QED
    BY <1>0, <1>5, <2>1, <2>2 DEF Lose, pool, At, Unsent, Moved, Same
<1> QED
  BY <1>1, <1>2, <1>3, <1>4, <1>5 DEF Settle

\* A step of one request, be it the handler's or the chain's.
StepOf(r) == Start(r) \/ Proceed(r) \/ RpcFails(r) \/ QueryFails(r) \/ Settle(r)

\* All of them.
LEMMA StepMoves ==
  ASSUME StageInv, NEW r \in Request, StepOf(r)
  PROVE  Moved(r)
BY StartMoves, QuoteMoves, BuildMoves, SimulateMoves, SendMoves, PollMoves, ReadMoves,
   RecordMoves, RecordSwapMoves, FailureMoves, SettleMoves
   DEF StepOf, Proceed

\* A step is one request's, or the market's, or none.
LEMMA NextCases ==
  ASSUME [Next]_vars
  PROVE  (\E r \in Request : StepOf(r)) \/ Market \/ UNCHANGED vars
BY DEF Next, StepOf

\* Each request keeps to its stages.
LEMMA NextStageInv == StageInv /\ [Next]_vars => StageInv'
<1> SUFFICES ASSUME StageInv, [Next]_vars PROVE StageInv'
  OBVIOUS
<1>1. CASE \E r \in Request : StepOf(r)
  <2> PICK r \in Request : StepOf(r)
    BY <1>1
  <2>1. Moved(r)
    BY StepMoves
  <2>2. \A s \in Request \ {r} : At(s)'
    BY <2>1 DEF Moved, Same, StageInv, At
  <2> QED
    BY <2>1, <2>2 DEF Moved, StageInv
<1>2. CASE Market
  BY <1>2, PoolAssumption DEF Market, network, table, StageInv, TypeOK, NetworkTypeOK, At
<1>3. CASE UNCHANGED vars
  BY <1>3 DEF vars, network, pool, table, StageInv, TypeOK, NetworkTypeOK, At
<1> QED
  BY <1>1, <1>2, <1>3, NextCases

\* The invariant of types and stages.
LEMMA StagesKept == Spec => []StageInv
BY InitStageInv, NextStageInv, PTL DEF Spec

\* Type correctness: whatever the requests, the chain and the market do, the
\* tables and the handlers' locals keep their shape; in particular no
\* position of zero shares is ever stored.
THEOREM TypeCorrect == Spec => []TypeOK
<1>1. StageInv => TypeOK
  BY DEF StageInv
<1> QED
  BY <1>1, StagesKept, PTL

\* However the price has moved since the quote, an applied swap paid its
\* minimum.
THEOREM SwapsArePaidTheFloor == Spec => []SwapsPayTheFloor
<1>1. StageInv => SwapsPayTheFloor
  BY DEF StageInv, At, SwapsPayTheFloor
<1> QED
  BY <1>1, StagesKept, PTL

-----------------------------------------------------------------------------
(* Answers.                                                                *)

\* A transaction is applied once and what it paid is settled then: a handler
\* sends one that was not sent before, and the chain settles one that was.
LEMMA AppliedIsFinal ==
  ASSUME StageInv, NEW r \in Request, StepOf(r), NEW s \in Request, chain[s] = "applied"
  PROVE  chain'[s] = "applied" /\ paid'[s] = paid[s]
<1>0. TypeOK /\ At(r)
  BY AtOne
<1>1. CASE s # r
  BY <1>1, StepMoves DEF Moved, Same
<1>2. CASE s = r
  <2>1. CASE Start(r)
    BY <1>2, <2>1 DEF Start, Idle, network, pool
  <2>2. CASE Proceed(r)
    BY <1>0, <1>2, <2>2
       DEF Proceed, Quote, LoadAccount, Simulate, Reload, Send, Poll, ReadPosition, RecordPosition,
           RecordSwap, Build, SendTransaction, Idle, network, pool, At, Unsent
  <2>3. CASE RpcFails(r) \/ QueryFails(r)
    BY <1>0, <1>2, <2>3 DEF RpcFails, QueryFails, SendTransaction, Idle, network, pool, At, Unsent
  <2>4. CASE Settle(r)
    BY <1>2, <2>4
       DEF Settle, ApplyDeposit, ApplyWithdraw, ApplySwap, Refuse, Lose, Include, Drop
  <2> QED
    BY <2>1, <2>2, <2>3, <2>4 DEF StepOf
<1> QED
  BY <1>1, <1>2

\* Only a handler that records a swap writes SwapTransaction, and only after
\* that, or after a position is dealt with, is a call answered with success.
LEMMA SuccessComesLast ==
  ASSUME StageInv, NEW r \in Request, StepOf(r), ~RecordSwap(r)
  PROVE  /\ swaps' = swaps
         /\ answer'[r] = "ok" /\ answer[r] # "ok" => call'[r].op \in {"deposit", "withdraw"}
<1>0. TypeOK
  BY AtOne
<1>1. CASE Start(r)
  BY <1>0, <1>1 DEF Start, Idle, table, TypeOK
<1>2. CASE Proceed(r)
  <2>1. CASE ReadPosition(r)
    BY <1>0, <2>1 DEF ReadPosition, Finish, Goto, Idle, table, TypeOK
  <2>2. CASE RecordPosition(r)
    BY <1>0, <2>2 DEF RecordPosition, Finish, Goto, TypeOK
  <2>3. CASE ~ReadPosition(r) /\ ~RecordPosition(r)
    BY <1>0, <1>2, <2>3
       DEF Proceed, Quote, LoadAccount, Simulate, Reload, Send, Poll, Finish, Goto, Idle, table,
           TypeOK
  <2> QED
    BY <2>1, <2>2, <2>3
<1>3. CASE RpcFails(r) \/ QueryFails(r)
  BY <1>0, <1>3 DEF RpcFails, QueryFails, Finish, Idle, table, TypeOK
<1>4. CASE Settle(r)
  BY <1>0, <1>4
     DEF Settle, ApplyDeposit, ApplyWithdraw, ApplySwap, Refuse, Lose, table, TypeOK
<1> QED
  BY <1>1, <1>2, <1>3, <1>4 DEF StepOf

\* No step takes a success back, or says so of one that is not.
LEMMA NextSuccessIsReal == StageInv /\ SuccessIsReal /\ [Next]_vars => SuccessIsReal'
<1> SUFFICES ASSUME StageInv, SuccessIsReal, [Next]_vars PROVE SuccessIsReal'
  OBVIOUS
<1>1. CASE \E r \in Request : StepOf(r)
  <2> PICK r \in Request : StepOf(r)
    BY <1>1
  <2>1. TypeOK /\ TypeOK' /\ At(r)' /\ \A s \in Request \ {r} : Same(s)
    BY AtOne, StepMoves DEF Moved
  <2>2. \A s \in Request : chain[s] = "applied" => chain'[s] = "applied" /\ paid'[s] = paid[s]
    BY AppliedIsFinal
  <2>3. CASE RecordSwap(r)
    <3>1. swaps' = swaps \cup {[tx |-> r, output |-> paid[r]]} /\ paid' = paid /\ chain' = chain
      BY <2>3 DEF RecordSwap, network, pool
    <3>2. chain[r] = "applied"
      BY <2>3, AtOne DEF RecordSwap, At
    <3>3. \A s \in Request : answer'[s] = "ok" /\ s # r => answer[s] = "ok" /\ call'[s] = call[s]
      BY <2>1 DEF Same
    <3>4. \E row \in swaps' : row.tx = r
      <4>1. [tx |-> r, output |-> paid[r]].tx = r
        OBVIOUS
      <4>2. [tx |-> r, output |-> paid[r]] \in swaps'
        BY <3>1
      <4> QED
        BY <4>1, <4>2
    <3>5. \A s \in Request : answer'[s] = "ok" =>
             /\ chain'[s] = "applied"
             /\ call'[s].op = "swap" => \E row \in swaps' : row.tx = s
      BY <3>1, <3>2, <3>3, <3>4 DEF SuccessIsReal
    <3>6. \A row \in swaps' : chain'[row.tx] = "applied" /\ row.output = paid'[row.tx]
      BY <3>1, <3>2 DEF SuccessIsReal
    <3> QED
      BY <3>5, <3>6 DEF SuccessIsReal
  <2>4. CASE ~RecordSwap(r)
    <3>1. swaps' = swaps
          /\ (answer'[r] = "ok" /\ answer[r] # "ok" => call'[r].op \in {"deposit", "withdraw"})
      BY <2>4, SuccessComesLast
    <3>2. answer'[r] = "ok" => chain'[r] = "applied"
      BY <2>1 DEF At
    <3>3. answer[r] = "ok" => call'[r] = call[r]
      <4>1. answer[r] = "ok" => pc[r] = "done"
        BY AtOne DEF At
      <4>2. pc[r] = "done" => call' = call
        BY DEF StepOf, Start, Proceed, Quote, LoadAccount, Simulate, Reload, Send, Poll,
               ReadPosition, RecordPosition, RecordSwap, RpcFails, QueryFails, Settle,
               ApplyDeposit, ApplyWithdraw, ApplySwap, Refuse, Lose
      <4> QED
        BY <4>1, <4>2
    <3>4. \A s \in Request \ {r} : answer'[s] = answer[s] /\ call'[s] = call[s]
      BY <2>1 DEF Same
    <3>5. \A row \in swaps : row.tx \in Request
      BY <2>1 DEF TypeOK
    <3> QED
      BY <2>2, <3>1, <3>2, <3>3, <3>4, <3>5 DEF SuccessIsReal
  <2> QED
    BY <2>3, <2>4
<1>2. CASE Market
  BY <1>2 DEF Market, network, table, SuccessIsReal
<1>3. CASE UNCHANGED vars
  BY <1>3 DEF vars, network, pool, table, SuccessIsReal
<1> QED
  BY <1>1, <1>2, <1>3, NextCases

\* Success is told only of calls that were applied, and a recorded swap is
\* recorded with what it paid, which nothing changes any more.
THEOREM SuccessIsAlwaysReal == Spec => []SuccessIsReal
<1>1. Init => SuccessIsReal
  BY DEF Init, SuccessIsReal
<1> QED
  BY <1>1, NextSuccessIsReal, StagesKept, PTL DEF Spec

-----------------------------------------------------------------------------
(* The record and the chain.                                               *)

\* Nobody has shares and nothing is recorded at first.
LEMMA InitCalmInv == Init => CalmInv
BY PoolAssumption DEF Init, NetworkInit, CalmInv, CalmAt, Running, Mine, Pending, Recorded

\* A step writes the position and the shares of its own merchant only, and
\* makes nobody calm.
LEMMA OwnPosition ==
  ASSUME StageInv, NEW r \in Request, StepOf(r)
  PROVE  /\ call'[r].op # "none" /\ (call[r].op # "none" => call'[r] = call[r])
         /\ calm' \subseteq calm
         /\ \A m \in Member : m # call'[r].by => positions'[m] = positions[m] /\ lp'[m] = lp[m]
<1>0. TypeOK /\ At(r)
  BY AtOne
<1>1. CASE Start(r)
  <2>1. call[r].op = "none"
    BY <1>0, <1>1 DEF Start, At
  <2>2. call'[r] \in Call \ {[op |-> "none"]}
    BY <1>0, <1>1 DEF Start, TypeOK
  <2>3. call'[r].op # "none"
    BY <2>2 DEF Call
  <2> QED
    BY <1>1, <2>1, <2>3 DEF Start, Disturb, Idle, pool, table
<1>2. CASE pc[r] # "idle" /\ ~Settle(r)
  <2>1. call[r].op # "none"
    BY <1>0, <1>2 DEF At
  <2>2. call' = call /\ calm' \subseteq calm /\ lp' = lp
    BY <1>2
       DEF StepOf, Start, Proceed, Quote, LoadAccount, Simulate, Reload, Send, Poll, ReadPosition,
           RecordPosition, RecordSwap, RpcFails, QueryFails, Disturb, Idle, pool
  <2>3. positions' = positions \/ positions' = [positions EXCEPT ![call[r].by] = NewPosition(r)]
    BY <1>2
       DEF StepOf, Start, Proceed, Quote, LoadAccount, Simulate, Reload, Send, Poll, ReadPosition,
           RecordPosition, RecordSwap, RpcFails, QueryFails, Idle, table
  <2> QED
    BY <1>0, <2>1, <2>2, <2>3 DEF TypeOK
<1>3. CASE Settle(r)
  <2>1. call' = call /\ positions' = positions /\ calm' = calm
    BY <1>3 DEF Settle, ApplyDeposit, ApplyWithdraw, ApplySwap, Refuse, Lose, table
  <2>2. call[r].op # "none"
    BY <1>0, <1>3
       DEF Settle, ApplyDeposit, ApplyWithdraw, ApplySwap, Refuse, Lose, Drop, At, Unsent
  <2>3. \A m \in Member : m # call[r].by => lp'[m] = lp[m]
    BY <1>0, <1>3
       DEF Settle, ApplyDeposit, ApplyWithdraw, ApplySwap, Refuse, Lose, pool, TypeOK
  <2> QED
    BY <2>1, <2>2, <2>3
<1> QED
  BY <1>1, <1>2, <1>3
     DEF StepOf, Proceed, Quote, LoadAccount, Simulate, Reload, Send, Poll, ReadPosition,
         RecordPosition, RecordSwap, RpcFails, QueryFails

\* A running request is a call of somebody.
LEMMA RunningIsMine ==
  ASSUME StageInv, NEW m
  PROVE  Running(m) = {r \in Request : pc[r] \notin {"idle", "done"} /\ Mine(r, m)}
BY DEF Running, Mine, StageInv, At

\* A step of somebody else's request leaves a calm merchant in order.
LEMMA CalmElsewhere ==
  ASSUME StageInv, NEW r \in Request, StepOf(r), NEW m \in Member, CalmAt(m), m # call'[r].by
  PROVE  CalmAt(m)'
<1>1. /\ Moved(r) /\ positions'[m] = positions[m] /\ lp'[m] = lp[m]
      /\ ~Mine(r, m) /\ ~Mine(r, m)'
  BY StepMoves, OwnPosition DEF Mine
<1>2. \A s \in Request : Mine(s, m)' => s # r /\ Same(s)
  BY <1>1 DEF Moved
<1>3. \A s \in Request : Mine(s, m)' <=> Mine(s, m)
  BY <1>1 DEF Moved, Same, Mine
<1>4. Recorded(m)' = Recorded(m)
  BY <1>1 DEF Recorded
<1>5. Running(m)' = Running(m)
  <2>1. \A s \in Request : pc'[s] = "idle" => call'[s].op = "none"
    BY <1>1, AtOne DEF Moved, Same, At
  <2>2. \A s \in Request : s \in Running(m)' <=> pc'[s] \notin {"idle", "done"} /\ Mine(s, m)'
    BY <1>1, AtOne DEF Running, Moved, Same, At, Mine
  <2>3. \A s \in Request : s \in Running(m) <=> pc[s] \notin {"idle", "done"} /\ Mine(s, m)
    BY RunningIsMine
  <2>4. Running(m) \subseteq Request /\ Running(m)' \subseteq Request
    BY DEF Running
  <2> QED
    BY <1>2, <1>3, <2>2, <2>3, <2>4 DEF Same
<1>6. \A s \in Request : Mine(s, m)' => (Pending(s)' <=> Pending(s))
  BY <1>2 DEF Same, Pending
<1>7. \A s \in Request : Mine(s, m)' => (Due(s, m)' <=> Due(s, m))
  BY <1>1, <1>2, <1>4 DEF Same, Due
<1>8. \A s \in Request : Mine(s, m)' /\ chain'[s] = "sent" => pc'[s] = "polling"
  BY <1>2, <1>3 DEF Same, CalmAt
<1> QED
  BY <1>3, <1>4, <1>5, <1>6, <1>7, <1>8, <1>1 DEF CalmAt

\* Whoever stays calm goes on having one running call at most.
LEMMA StaysAlone ==
  ASSUME StageInv, NEW r \in Request, StepOf(r), NEW m \in calm', m = call'[r].by, CalmAt(m)
  PROVE  \A s, t \in Running(m)' : s = t
<1>0. TypeOK /\ At(r) /\ \A s \in Request \ {r} : Same(s)
  BY AtOne, StepMoves DEF Moved
<1>1. CASE Start(r)
  <2>1. PICK c \in Call \ {[op |-> "none"]} :
           /\ call' = [call EXCEPT ![r] = c]
           /\ Disturb(c.by, Running(c.by) # {})
    BY <1>1 DEF Start
  <2>2. c.by = m
    BY <1>0, <2>1 DEF TypeOK
  <2>3. Running(m) = {}
    BY <2>1, <2>2 DEF Disturb
  <2>4. \A s \in Request \ {r} : s \in Running(m)' => s \in Running(m)
    BY <1>0 DEF Running, Same
  <2> QED
    BY <2>3, <2>4 DEF Running
<1>2. CASE ~Start(r)
  <2>1. call' = call
    BY <1>2
       DEF StepOf, Proceed, Quote, LoadAccount, Simulate, Reload, Send, Poll, ReadPosition,
           RecordPosition, RecordSwap, RpcFails, QueryFails, Settle, ApplyDeposit, ApplyWithdraw,
           ApplySwap, Refuse, Lose
  <2>2. pc[r] \notin {"idle", "done"} \/ pc'[r] = pc[r]
    BY <1>2
       DEF StepOf, Proceed, Quote, LoadAccount, Simulate, Reload, Send, Poll, ReadPosition,
           RecordPosition, RecordSwap, RpcFails, QueryFails, Settle, ApplyDeposit, ApplyWithdraw,
           ApplySwap, Refuse, Lose
  <2>3. Running(m)' \subseteq Running(m)
    BY <1>0, <2>1, <2>2 DEF Running, Same
  <2> QED
    BY <2>3 DEF CalmAt
<1> QED
  BY <1>1, <1>2

\* A pending call is its merchant's only one, and the record is settled when
\* it is no longer pending.
LEMMA OnlyPending ==
  ASSUME StageInv, NEW m \in Member, CalmAt(m), NEW r \in Request, Mine(r, m),
         pc[r] \notin {"idle", "done"}
  PROVE  /\ \A s \in Request : Mine(s, m) /\ s # r => pc[s] = "done" /\ ~Pending(s)
         /\ ~Pending(r) => Recorded(m) = lp[m]
<1>1. \A s \in Request : Mine(s, m) /\ pc[s] \notin {"idle", "done"} => s = r
  BY RunningIsMine DEF CalmAt
<1>2. \A s \in Request : Mine(s, m) /\ s # r => pc[s] = "done"
  BY <1>1 DEF StageInv, At, Mine
<1>3. \A s \in Request : Mine(s, m) /\ s # r => ~Pending(s)
  BY <1>2 DEF Pending
<1> QED
  BY <1>2, <1>3 DEF CalmAt

\* A step that leaves the position and the shares alone, of a call that is
\* not pending before or after it, keeps its merchant in order.
LEMMA QuietStep ==
  ASSUME StageInv, NEW r \in Request, StepOf(r), NEW m \in calm', m \in Member, CalmAt(m),
         m = call'[r].by, positions' = positions, lp' = lp,
         ~Pending(r) \/ ~Mine(r, m), ~Pending(r)',
         chain'[r] = "sent" => pc'[r] = "polling"
  PROVE  CalmAt(m)'
<1>1. \A s \in Request \ {r} : Same(s)
  BY StepMoves DEF Moved
<1>2. \A s, t \in Running(m)' : s = t
  BY StaysAlone
<1>3. Recorded(m)' = Recorded(m) /\ lp'[m] = lp[m]
  BY DEF Recorded
<1>4. \A s \in Request \ {r} : (Mine(s, m)' <=> Mine(s, m)) /\ (Pending(s)' <=> Pending(s))
                              /\ (Due(s, m)' <=> Due(s, m))
  BY <1>1, <1>3 DEF Same, Mine, Pending, Due
<1>5. \A s \in Request : Mine(s, m)' /\ chain'[s] = "sent" => pc'[s] = "polling"
  BY <1>1, <1>4 DEF Same, CalmAt
<1>6. \A s \in Request : Mine(s, m)' /\ Pending(s)' => Due(s, m)'
  BY <1>4 DEF CalmAt
<1>7. (\A s \in Request : Mine(s, m)' => ~Pending(s)') => Recorded(m)' = lp'[m]
  BY <1>3, <1>4 DEF CalmAt
<1> QED
  BY <1>2, <1>5, <1>6, <1>7 DEF CalmAt

\* A step that leaves exactly this call of the merchant pending.
LEMMA DueStep ==
  ASSUME StageInv, NEW r \in Request, StepOf(r), NEW m \in calm', m \in Member, CalmAt(m),
         m = call'[r].by, Mine(r, m), pc[r] \notin {"idle", "done"},
         Pending(r)', Due(r, m)'
  PROVE  CalmAt(m)'
<1>1. \A s \in Request \ {r} : Same(s)
  BY StepMoves DEF Moved
<1>2. \A s, t \in Running(m)' : s = t
  BY StaysAlone
<1>3. \A s \in Request \ {r} : Mine(s, m)' => pc'[s] = "done" /\ ~Pending(s)'
  BY <1>1, OnlyPending DEF Same, Mine, Pending
<1>4. \A s \in Request \ {r} : Mine(s, m)' => chain'[s] # "sent"
  BY <1>1, OnlyPending DEF Same, Mine, CalmAt
<1>5. Mine(r, m)' /\ chain'[r] # "sent"
  BY OwnPosition DEF Mine, Pending
<1> QED
  BY <1>2, <1>3, <1>4, <1>5 DEF CalmAt

\* The chain settles a transaction of a calm merchant while its call still
\* polls: what a deposit or a withdrawal does to the shares is then due.
LEMMA CalmSettles ==
  ASSUME StageInv, NEW r \in Request, Settle(r), NEW m \in calm', m \in Member, CalmAt(m),
         m = call'[r].by
  PROVE  CalmAt(m)'
<1>0. TypeOK /\ TypeOK' /\ At(r) /\ At(r)' /\ StepOf(r)
  BY AtOne, StepMoves DEF StepOf, Moved
<1>1. /\ call' = call /\ positions' = positions /\ pc' = pc /\ seen' = seen /\ calm' = calm
      /\ chain[r] = "sent" /\ Recorded(m)' = Recorded(m)
  BY DEF Settle, ApplyDeposit, ApplyWithdraw, ApplySwap, Refuse, Lose, Include, Drop, table,
         Recorded
<1>2. Mine(r, m) /\ pc[r] = "polling" /\ ~Pending(r)
  BY <1>1, OwnPosition, <1>0 DEF Mine, Pending, CalmAt
<1>3. Recorded(m) = lp[m]
  BY <1>2, OnlyPending
<1>4. CASE ApplyDeposit(r)
  <2>1. PICK minted \in Shares :
           /\ lp' = [lp EXCEPT ![call[r].by] = @ + minted]
           /\ paid' = [paid EXCEPT ![r] = minted]
    BY <1>4 DEF ApplyDeposit
  <2>2. lp'[m] = Recorded(m) + paid'[r]
    BY <1>0, <1>1, <1>3, <2>1 DEF TypeOK
  <2>3. Pending(r)' /\ Due(r, m)'
    BY <1>0, <1>1, <1>2, <1>4, <2>2 DEF ApplyDeposit, Include, Pending, Due, TypeOK, NetworkTypeOK
  <2> QED
    BY <1>0, <1>2, <2>3, DueStep
<1>5. CASE ApplyWithdraw(r)
  <2>1. call[r].amount \in Nat /\ lp[m] \in Nat /\ lp'[m] = lp[m] - call[r].amount
    BY <1>0, <1>1, <1>5, AtOne, CallFields DEF ApplyWithdraw, TypeOK
  <2>2. Recorded(m) = lp'[m] + call[r].amount
    BY <1>3, <2>1
  <2>3. Pending(r)' /\ Due(r, m)'
    BY <1>0, <1>1, <1>2, <1>5, <2>2 DEF ApplyWithdraw, Include, Pending, Due, TypeOK, NetworkTypeOK
  <2> QED
    BY <1>0, <1>2, <2>3, DueStep
<1>6. CASE ApplySwap(r) \/ Refuse(r) \/ Lose(r)
  <2>1. lp' = lp /\ ~Pending(r)' /\ chain'[r] # "sent"
    BY <1>0, <1>1, <1>6, PoolAssumption
       DEF ApplySwap, Refuse, Lose, Include, Drop, pool, Pending, TypeOK, NetworkTypeOK
  <2> QED
    BY <1>0, <1>1, <1>2, <2>1, QuietStep
<1> QED
  BY <1>4, <1>5, <1>6 DEF Settle

\* The handler reads the row of a pending call: it is as far behind the chain
\* as the call has moved it, so a withdrawal always finds one.
LEMMA CalmReads ==
  ASSUME StageInv, NEW r \in Request, ReadPosition(r), NEW m \in calm', m \in Member, CalmAt(m),
         m = call'[r].by
  PROVE  CalmAt(m)'
<1>0. TypeOK /\ TypeOK' /\ At(r) /\ StepOf(r) /\ call[r] \in Call
  BY AtOne, StepMoves DEF StepOf, Proceed, Moved
<1>1. /\ call' = call /\ positions' = positions /\ lp' = lp /\ paid' = paid /\ chain' = chain
      /\ pc[r] = "reading" /\ chain[r] = "applied" /\ Recorded(m)' = Recorded(m)
      /\ seen'[r] = positions[m]
  BY <1>0 DEF ReadPosition, Idle, network, pool, table, At, Recorded, TypeOK
<1>2. Mine(r, m) /\ call[r].op \in {"deposit", "withdraw", "swap"}
  BY <1>0, <1>1, OwnPosition, CallFields DEF Mine
<1>3. CASE call[r].op = "swap"
  BY <1>0, <1>1, <1>3, QuietStep DEF Pending
<1>4. CASE call[r].op \in {"deposit", "withdraw"}
  <2>1. Pending(r) /\ Due(r, m)
    BY <1>1, <1>2, <1>4 DEF Pending, CalmAt
  <2>2. ~(call[r].op = "withdraw" /\ positions[m] = NoRow)
    <3> SUFFICES ASSUME call[r].op = "withdraw" PROVE positions[m] # NoRow
      OBVIOUS
    <3>1. Recorded(m) = lp[m] + call[r].amount
      BY <2>1 DEF Due
    <3>2. lp[m] \in Nat /\ call[r].amount \in Nat \ {0}
      BY <1>0, CallFields DEF TypeOK
    <3> QED
      BY <3>1, <3>2 DEF Recorded
  <2>3. pc'[r] = "recording"
    BY <1>0, <1>1, <2>2 DEF ReadPosition, Goto, TypeOK
  <2>4. Pending(r)' /\ Due(r, m)'
    BY <1>1, <1>4, <2>1, <2>3 DEF Pending, Due
  <2> QED
    BY <1>0, <1>1, <1>2, <2>4, DueStep
<1> QED
  BY <1>2, <1>3, <1>4

\* The handler writes the row it read, moved by what was due.
LEMMA CalmRecords ==
  ASSUME StageInv, NEW r \in Request, RecordPosition(r), NEW m \in calm', m \in Member, CalmAt(m),
         m = call'[r].by
  PROVE  CalmAt(m)'
<1>0. TypeOK /\ TypeOK' /\ At(r) /\ StepOf(r) /\ call[r] \in Call
  BY AtOne, StepMoves DEF StepOf, Proceed, Moved
<1>1. /\ call' = call /\ lp' = lp /\ paid' = paid /\ chain' = chain
      /\ pc[r] = "recording" /\ chain[r] = "applied" /\ pc'[r] = "done"
      /\ call[r].op \in {"deposit", "withdraw"}
  BY <1>0, AtOne DEF RecordPosition, Finish, Goto, network, pool, TypeOK, At, RowAsExpected
<1>2. Mine(r, m) /\ Pending(r) /\ Due(r, m)
  BY <1>0, <1>1, OwnPosition DEF Mine, Pending, CalmAt
<1>3. positions' = [positions EXCEPT ![m] = NewPosition(r)]
  BY <1>1, <1>2 DEF RecordPosition, RowAsExpected, Due
<1>4. seen[r] = positions[m] /\ positions[m] \in (Nat \ {0}) \cup {NoRow} /\ lp[m] \in Nat
      /\ paid[r] \in Nat
  BY <1>0, <1>1, <1>2 DEF Due, TypeOK
<1>5. Recorded(m)' = lp'[m]
  <2>1. positions'[m] = NewPosition(r)
    BY <1>0, <1>3 DEF TypeOK
  <2>2. CASE call[r].op = "deposit"
    <3>1. lp[m] = Recorded(m) + paid[r]
      BY <1>2, <2>2 DEF Due
    <3>2. NewPosition(r) = Recorded(m) + paid[r]
      BY <1>4, <2>2 DEF NewPosition, Recorded
    <3>3. NewPosition(r) # NoRow
      BY <1>4, <3>1, <3>2, PoolAssumption
    <3> QED
      BY <1>1, <2>1, <3>1, <3>2, <3>3 DEF Recorded
  <2>3. CASE call[r].op = "withdraw"
    <3>1. Recorded(m) = lp[m] + call[r].amount /\ call[r].amount \in Nat \ {0}
      BY <1>0, <1>2, <2>3, CallFields DEF Due
    <3>2. NewPosition(r) = IF Recorded(m) > call[r].amount THEN Recorded(m) - call[r].amount
                           ELSE NoRow
      BY <1>4, <2>3 DEF NewPosition, Recorded
    <3>3. NewPosition(r) = IF lp[m] > 0 THEN lp[m] ELSE NoRow
      BY <1>4, <3>1, <3>2
    <3> QED
      BY <1>1, <1>4, <2>1, <3>3, PoolAssumption DEF Recorded
  <2> QED
    BY <1>1, <2>2, <2>3
<1>6. \A s \in Request \ {r} : Same(s)
  BY <1>0, StepMoves DEF Moved
<1>7. \A s \in Request : Mine(s, m)' => ~Pending(s)' /\ chain'[s] # "sent"
  <2>1. \A s \in Request \ {r} : Mine(s, m) => ~Pending(s) /\ chain[s] # "sent"
    BY <1>1, <1>2, OnlyPending DEF CalmAt
  <2>2. ~Pending(r)' /\ chain'[r] # "sent"
    BY <1>1 DEF Pending
  <2> QED
    BY <1>6, <2>1, <2>2 DEF Same, Mine, Pending
<1>8. \A s, t \in Running(m)' : s = t
  BY <1>0, StaysAlone
<1> QED
  BY <1>5, <1>7, <1>8 DEF CalmAt

\* Polling: an applied transaction leaves the call pending, a refused one
\* leaves nothing, and with any other the merchant is calm no more.
LEMMA CalmPolls ==
  ASSUME StageInv, NEW r \in Request, Poll(r), NEW m \in calm', m \in Member, CalmAt(m),
         m = call'[r].by
  PROVE  CalmAt(m)'
<1>0. TypeOK /\ TypeOK' /\ At(r) /\ StepOf(r)
  BY AtOne, StepMoves DEF StepOf, Proceed, Moved
<1>1. /\ call' = call /\ positions' = positions /\ lp' = lp /\ paid' = paid /\ chain' = chain
      /\ pc[r] = "polling" /\ seen' = seen /\ Recorded(m)' = Recorded(m)
  BY DEF Poll, Idle, network, pool, table, Recorded
<1>2. Mine(r, m)
  BY <1>0, <1>1, OwnPosition DEF Mine
<1>3. CASE chain[r] = "applied"
  <2>1. pc'[r] = "reading"
    BY <1>0, <1>3 DEF Poll, Goto, TypeOK
  <2>2. CASE call[r].op = "swap"
    BY <1>0, <1>1, <1>3, <2>1, <2>2, QuietStep DEF Pending
  <2>3. CASE call[r].op # "swap"
    <3>1. Pending(r) /\ Due(r, m)
      BY <1>1, <1>2, <1>3, <2>3 DEF Pending, CalmAt
    <3>2. Pending(r)' /\ Due(r, m)'
      BY <1>1, <1>3, <2>1, <2>3, <3>1 DEF Pending, Due
    <3> QED
      BY <1>0, <1>1, <1>2, <3>2, DueStep
  <2> QED
    BY <2>2, <2>3
<1>4. CASE chain[r] = "failed"
  BY <1>0, <1>1, <1>4, QuietStep DEF Pending
<1>5. CASE chain[r] \in {"sent", "dropped"}
  <2>1. calm' = calm \ {m}
    BY <1>1, <1>5 DEF Poll, Disturb
  <2> QED
    BY <2>1
<1> QED
  BY <1>3, <1>4, <1>5 DEF Poll

\* The other steps of a handler: its transaction is not applied yet, or it is
\* a swap, or the merchant is calm no more.
LEMMA CalmOtherwise ==
  ASSUME StageInv, NEW r \in Request, StepOf(r), NEW m \in calm', m \in Member, CalmAt(m),
         m = call'[r].by,
         ~Settle(r), ~Poll(r), ~ReadPosition(r), ~RecordPosition(r)
  PROVE  CalmAt(m)'
<1>0. TypeOK /\ TypeOK' /\ At(r)
  BY AtOne, StepMoves DEF Moved
<1>1. CASE Start(r)
  <2>1. /\ positions' = positions /\ lp' = lp /\ chain'[r] = "none"
    BY <1>0, <1>1 DEF Start, Idle, network, pool, table, At, Unsent
  <2>2. ~Mine(r, m)
    BY <1>0, <1>1 DEF Start, At, Mine
  <2> QED
    BY <2>1, <2>2, QuietStep DEF Pending
<1>2. CASE Quote(r) \/ LoadAccount(r) \/ Simulate(r) \/ Reload(r)
  <2>1. /\ positions' = positions /\ lp' = lp /\ chain[r] = "none" /\ chain'[r] = "none"
    BY <1>0, <1>2
       DEF Quote, LoadAccount, Simulate, Reload, Build, Idle, network, pool, table, At, Unsent
  <2> QED
    BY <2>1, QuietStep DEF Pending
<1>3. CASE Send(r)
  <2>1. /\ positions' = positions /\ lp' = lp /\ chain[r] = "none"
        /\ chain'[r] = "none" \/ (chain'[r] = "sent" /\ pc'[r] = "polling")
    BY <1>0, <1>3, AtOne
       DEF Send, SendTransaction, Goto, network, pool, table, At, Unsent, TypeOK, NetworkTypeOK
  <2> QED
    BY <2>1, QuietStep DEF Pending
<1>4. CASE RecordSwap(r)
  <2>1. /\ positions' = positions /\ lp' = lp /\ call' = call /\ call[r].op = "swap"
        /\ chain'[r] = "applied"
    BY <1>0, <1>4 DEF RecordSwap, network, pool, At
  <2> QED
    BY <2>1, QuietStep DEF Pending
<1>5. CASE RpcFails(r)
  <2>1. CASE pc[r] \in {"sending", "polling"}
    <3>1. calm' = calm \ {m}
      BY <1>5, <2>1 DEF RpcFails, Disturb
    <3> QED
      BY <3>1
  <2>2. CASE pc[r] \notin {"sending", "polling"}
    <3>1. /\ positions' = positions /\ lp' = lp /\ chain[r] = "none" /\ chain'[r] = "none"
      BY <1>0, <1>5, <2>2 DEF RpcFails, network, pool, table, At, Unsent
    <3> QED
      BY <3>1, QuietStep DEF Pending
  <2> QED
    BY <2>1, <2>2
<1>6. CASE QueryFails(r)
  <2>1. calm' = calm \ {m}
    BY <1>6 DEF QueryFails, Disturb
  <2> QED
    BY <2>1
<1> QED
  BY <1>1, <1>2, <1>3, <1>4, <1>5, <1>6 DEF StepOf, Proceed

\* Every step keeps the calm merchants in order.
LEMMA NextCalmInv == StageInv /\ CalmInv /\ [Next]_vars => CalmInv'
<1> SUFFICES ASSUME StageInv, CalmInv, [Next]_vars PROVE CalmInv'
  OBVIOUS
<1>1. CASE \E r \in Request : StepOf(r)
  <2> PICK r \in Request : StepOf(r)
    BY <1>1
  <2> SUFFICES ASSUME NEW m \in calm' PROVE CalmAt(m)'
    BY DEF CalmInv
  <2>1. m \in Member /\ CalmAt(m)
    BY StepMoves, OwnPosition DEF Moved, TypeOK, CalmInv
  <2>2. CASE m # call'[r].by
    BY <2>1, <2>2, CalmElsewhere
  <2>3. CASE m = call'[r].by
    BY <2>1, <2>3, CalmSettles, CalmPolls, CalmReads, CalmRecords, CalmOtherwise
  <2> QED
    BY <2>2, <2>3
<1>2. CASE Market
  BY <1>2 DEF Market, network, table, CalmInv, CalmAt, Running, Mine, Pending, Due, Recorded
<1>3. CASE UNCHANGED vars
  BY <1>3
     DEF vars, network, pool, table, CalmInv, CalmAt, Running, Mine, Pending, Due, Recorded
<1> QED
  BY <1>1, <1>2, <1>3, NextCases

\* A merchant whose calls came one at a time and did not fail unseen has on
\* record, between them, the shares it has on chain.
THEOREM CalmPositionsAlwaysAgree == Spec => []CalmPositionsAgree
<1>1. StageInv /\ CalmInv => CalmPositionsAgree
  <2> SUFFICES ASSUME StageInv, CalmInv, NEW m \in calm, Running(m) = {}
               PROVE  Recorded(m) = lp[m]
    BY DEF CalmPositionsAgree
  <2>1. \A r \in Request : Mine(r, m) => ~Pending(r)
    BY RunningIsMine DEF Pending
  <2> QED
    BY <2>1 DEF CalmInv, CalmAt
<1> QED
  BY <1>1, InitCalmInv, NextCalmInv, StagesKept, PTL DEF Spec

=============================================================================
