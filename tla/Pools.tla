------------------------------- MODULE Pools -------------------------------
(***************************************************************************)
(* One liquidity pool: deposit, withdraw and swap of pool.service.ts over  *)
(* invokeContract and simulateContract of contract.service.ts, the pool    *)
(* contract they call (external), and the LPPosition and SwapTransaction   *)
(* tables.                                                                 *)
(*                                                                         *)
(*   swap     : Quote -+                                                   *)
(*   deposit  : -------+-> LoadAccount -> Simulate [-> Reload] -> Send     *)
(*   withdraw : -------+    -> Poll -> ReadPosition -> Record              *)
(*                                                                         *)
(* A transaction is named by the request that built it, and an account by  *)
(* its owner.  The pool pays its current price for one unit of the input   *)
(* token; swaps lower it.                                                  *)
(***************************************************************************)
EXTENDS Soroban, FiniteSets

CONSTANTS
    Request,   \* the requests of a run, each served once
    Member,    \* the users and merchants who send them
    Shares,    \* what a deposit may mint, or a withdrawal ask to burn
    Floor,     \* the minOutputAmount of swaps
    Price,     \* what the pool pays at first
    NoRow,     \* no LPPosition of the merchant
    Env        \* what the surroundings may do in a run

\* "rpc": a request to the RPC server may be rejected, or end unanswered;
\* "db": a query may fail; "market": others trade with the pool.
ASSUME PoolAssumption ==
    /\ Env \subseteq {"rpc", "db", "market"}
    /\ Tx = Request /\ Account = Member
    /\ Shares \subseteq Nat \ {0}
    /\ Floor \subseteq Nat
    /\ Price \in Nat
    /\ NoRow \notin Nat

VARIABLES
    lp,        \* chain: the shares of each account
    price,     \* chain: what the pool pays now
    paid,      \* chain: what a deposit minted, or a swap paid
    positions, \* LPPosition.shares per merchant
    swaps,     \* SwapTransaction rows: transaction and outputAmount
    pc, call, seen, answer,
    calm       \* history: merchants whose calls neither overlapped nor failed

pool  == <<lp, price, paid>>
table == <<positions, swaps>>
vars  == <<network, pool, table, pc, call, seen, answer, calm>>

Stage == {"idle", "quoting", "loading", "simulating", "reloading", "sending",
          "polling", "reading", "recording", "done"}
Answer == {"none", "ok", "turnedDown", "failed", "error"}
Call == [op : {"deposit"}, by : Member]
          \cup [op : {"withdraw"}, by : Member, amount : Shares]
          \cup [op : {"swap"}, by : Member, min : Floor]
          \cup {[op |-> "none"]}

\* The types of the variables.
TypeOK ==
    /\ NetworkTypeOK
    /\ lp \in [Member -> Nat] /\ price \in Nat
    /\ paid \in [Request -> Nat]
    /\ positions \in [Member -> (Nat \ {0}) \cup {NoRow}]
    /\ swaps \subseteq [tx : Request, output : Nat]
    /\ pc \in [Request -> Stage]
    /\ call \in [Request -> Call]
    /\ seen \in [Request -> Nat \cup {NoRow}]
    /\ answer \in [Request -> Answer]
    /\ calm \subseteq Member

Init ==
    /\ NetworkInit
    /\ lp = [m \in Member |-> 0] /\ price = Price
    /\ paid = [r \in Request |-> 0]
    /\ positions = [m \in Member |-> NoRow]
    /\ swaps = {}
    /\ pc = [r \in Request |-> "idle"]
    /\ call = [r \in Request |-> [op |-> "none"]]
    /\ seen = [r \in Request |-> NoRow]
    /\ answer = [r \in Request |-> "none"]
    /\ calm = Member

-----------------------------------------------------------------------------
(* Pure parts.                                                             *)

Running(m) == {r \in Request : pc[r] \notin {"idle", "done"} /\ call[r].by = m}

\* Mutant: the swap accepts any output, as deposit and withdraw do.
MinOutputZero(r) == 0

\* min_output, the fourth argument of the contract's swap.
MinOutput(r) == call[r].min

\* What the contract would do now: external.
Succeeds(r) ==
    CASE call[r].op = "deposit"  -> TRUE
      [] call[r].op = "withdraw" -> lp[call[r].by] >= call[r].amount
      [] call[r].op = "swap"     -> price >= MinOutput(r)

\* swap alone passes transfers to authorise: the routes name no tokens to
\* deposit.
HasSubAuth(r) == call[r].op = "swap"

-----------------------------------------------------------------------------
(* The handlers.                                                           *)

Goto(r, stage) == pc' = [pc EXCEPT ![r] = stage]

Finish(r, what) == Goto(r, "done") /\ answer' = [answer EXCEPT ![r] = what]

\* A call that overlaps another of the same merchant, or fails on the way,
\* is what calm merchants are spared.
Disturb(m, disturbed) == calm' = IF disturbed THEN calm \ {m} ELSE calm

Idle == UNCHANGED <<network, pool, table>>

\* verifyAndDecrypt: the PIN (PinService) and the wallet.
Start(r) ==
    /\ pc[r] = "idle"
    /\ \E c \in Call \ {[op |-> "none"]} :
         /\ call' = [call EXCEPT ![r] = c]
         /\ Goto(r, IF c.op = "swap" THEN "quoting" ELSE "loading")
         /\ Disturb(c.by, Running(c.by) # {})
    /\ UNCHANGED <<seen, answer>> /\ Idle

\* simulateContract: what the contract would pay now.
SimulatedOutput == price

\* The comparison of the simulation with minOutputAmount.
Quote(r) ==
    /\ pc[r] = "quoting"
    /\ \/ SimulatedOutput >= call[r].min /\ Goto(r, "loading") /\ UNCHANGED answer
       \/ SimulatedOutput < call[r].min /\ Finish(r, "turnedDown")
    /\ UNCHANGED <<call, seen, calm>> /\ Idle

LoadAccount(r) ==
    /\ pc[r] = "loading"
    /\ Build(r, call[r].by)
    /\ Goto(r, "simulating")
    /\ UNCHANGED <<pool, table, call, seen, answer, calm>>

\* The simulation tells whether the contract would refuse now.
Simulate(r) ==
    /\ pc[r] = "simulating"
    /\ \/ Succeeds(r) /\ Goto(r, IF HasSubAuth(r) THEN "reloading" ELSE "sending")
                      /\ UNCHANGED answer
       \/ ~Succeeds(r) /\ Finish(r, "failed")
    /\ UNCHANGED <<call, seen, calm>> /\ Idle

\* With transfers to authorise the transaction is built again, on an account
\* loaded again, and prepared again when it is sent.
Reload(r) ==
    /\ pc[r] = "reloading"
    /\ Build(r, call[r].by)
    /\ Goto(r, "sending")
    /\ UNCHANGED <<pool, table, call, seen, answer, calm>>

\* A transaction built on an old sequence number is answered with ERROR; one
\* with transfers is prepared first, which may fail.
Send(r) ==
    /\ pc[r] = "sending"
    /\ LET accepted == /\ HasSubAuth(r) => Succeeds(r)
                       /\ built[r] = sequence[call[r].by]
       IN \/ accepted /\ SendTransaction(r) /\ Goto(r, "polling") /\ UNCHANGED answer
          \/ ~accepted /\ Finish(r, "failed") /\ UNCHANGED network
    /\ UNCHANGED <<pool, table, call, seen, calm>>

\* Mutant: whatever ends the polling is a success.
PollAnyStatus(r) ==
    /\ pc[r] = "polling"
    /\ chain[r] \in {"applied", "failed", "dropped"}
    /\ Goto(r, "reading")
    /\ UNCHANGED <<answer, calm, call, seen>> /\ Idle

\* pollTransaction: SUCCESS, FAILED, or NOT_FOUND when its attempts are used
\* up, be the transaction dropped or only slow.
Poll(r) ==
    /\ pc[r] = "polling"
    /\ \/ chain[r] = "applied" /\ Goto(r, "reading") /\ UNCHANGED <<answer, calm>>
       \/ chain[r] = "failed" /\ Finish(r, "failed") /\ UNCHANGED calm
       \/ chain[r] \in {"sent", "dropped"} /\ Finish(r, "failed") /\ Disturb(call[r].by, TRUE)
    /\ UNCHANGED <<call, seen>> /\ Idle

\* Mutant: a deposit does not look for an older position.
ReadPositionNever(r) ==
    /\ pc[r] = "reading"
    /\ Goto(r, "recording")
    /\ seen' = [seen EXCEPT ![r] = IF call[r].op = "deposit" /\ positions[call[r].by] # NoRow
                                   THEN 0 ELSE positions[call[r].by]]
    /\ UNCHANGED <<call, answer, calm>> /\ Idle

\* The merchant's row, or for a swap any row of the pool (its pair of tokens).
\* A withdrawal without a row has nothing to record.
ReadPosition(r) ==
    /\ pc[r] = "reading"
    /\ seen' = [seen EXCEPT ![r] = positions[call[r].by]]
    /\ IF call[r].op = "withdraw" /\ positions[call[r].by] = NoRow
       THEN Finish(r, "ok") ELSE Goto(r, "recording") /\ UNCHANGED answer
    /\ UNCHANGED <<call, calm>> /\ Idle

\* Mutant: the row of a position that is used up is kept, with no shares.
NewPositionKept(r) ==
    LET old == IF seen[r] = NoRow THEN 0 ELSE seen[r] IN
    CASE call[r].op = "deposit" -> old + paid[r]
      [] call[r].op = "withdraw" -> IF old > call[r].amount THEN old - call[r].amount ELSE 0

\* What is written is computed from the row as it was read.
NewPosition(r) ==
    LET old == IF seen[r] = NoRow THEN 0 ELSE seen[r] IN
    CASE call[r].op = "deposit" -> old + paid[r]
      [] call[r].op = "withdraw" -> IF old > call[r].amount THEN old - call[r].amount ELSE NoRow

\* create wants no row to be there, update and delete want one.
RowAsExpected(r) == (seen[r] = NoRow) <=> (positions[call[r].by] = NoRow)

RecordPosition(r) ==
    /\ pc[r] = "recording"
    /\ call[r].op \in {"deposit", "withdraw"}
    /\ \/ /\ RowAsExpected(r)
          /\ positions' = [positions EXCEPT ![call[r].by] = NewPosition(r)]
          /\ Finish(r, "ok")
       \/ ~RowAsExpected(r) /\ Finish(r, "error") /\ UNCHANGED positions
    /\ UNCHANGED <<network, pool, swaps, call, seen, calm>>

RecordSwap(r) ==
    /\ pc[r] = "recording"
    /\ call[r].op = "swap"
    /\ swaps' = swaps \cup {[tx |-> r, output |-> paid[r]]}
    /\ Finish(r, "ok")
    /\ UNCHANGED <<network, pool, positions, call, seen, calm>>

\* A request to the RPC server rejects; one that sends may have arrived.
RpcFails(r) ==
    /\ "rpc" \in Env
    /\ pc[r] \in {"quoting", "loading", "simulating", "reloading", "sending", "polling"}
    /\ Finish(r, "failed")
    /\ \/ UNCHANGED network
       \/ pc[r] = "sending" /\ SendTransaction(r)
    /\ Disturb(call[r].by, pc[r] \in {"sending", "polling"})
    /\ UNCHANGED <<pool, table, call, seen>>

\* A query rejects, with the transaction applied.
QueryFails(r) ==
    /\ "db" \in Env
    /\ pc[r] \in {"reading", "recording"}
    /\ Finish(r, "error")
    /\ Disturb(call[r].by, TRUE)
    /\ UNCHANGED <<call, seen>> /\ Idle

-----------------------------------------------------------------------------
(* The network and the pool contract: external.                            *)

ApplyDeposit(r) ==
    /\ call[r].op = "deposit"
    /\ Include(r, call[r].by, "applied")
    /\ \E minted \in Shares :
         /\ lp' = [lp EXCEPT ![call[r].by] = @ + minted]
         /\ paid' = [paid EXCEPT ![r] = minted]
    /\ UNCHANGED <<price, table, pc, call, seen, answer, calm>>

ApplyWithdraw(r) ==
    /\ call[r].op = "withdraw" /\ Succeeds(r)
    /\ Include(r, call[r].by, "applied")
    /\ lp' = [lp EXCEPT ![call[r].by] = @ - call[r].amount]
    /\ UNCHANGED <<price, paid, table, pc, call, seen, answer, calm>>

ApplySwap(r) ==
    /\ call[r].op = "swap" /\ Succeeds(r)
    /\ Include(r, call[r].by, "applied")
    /\ paid' = [paid EXCEPT ![r] = price]
    /\ price' = IF price > 0 THEN price - 1 ELSE 0
    /\ UNCHANGED <<lp, table, pc, call, seen, answer, calm>>

\* In sequence, but the contract refuses: the fee is spent.
Refuse(r) ==
    /\ call[r].op # "none" /\ ~Succeeds(r)
    /\ Include(r, call[r].by, "failed")
    /\ UNCHANGED <<pool, table, pc, call, seen, answer, calm>>

Lose(r) ==
    /\ Drop(r)
    /\ UNCHANGED <<pool, table, pc, call, seen, answer, calm>>

\* Others trade with the pool.
Market ==
    /\ "market" \in Env
    /\ price' \in {p \in 0..Price : p # price}
    /\ UNCHANGED <<network, lp, paid, table, pc, call, seen, answer, calm>>

Proceed(r) ==
    \/ Quote(r)
    \/ LoadAccount(r)
    \/ Simulate(r)
    \/ Reload(r)
    \/ Send(r)
    \/ Poll(r)
    \/ ReadPosition(r)
    \/ RecordPosition(r)
    \/ RecordSwap(r)

Settle(r) ==
    \/ ApplyDeposit(r)
    \/ ApplyWithdraw(r)
    \/ ApplySwap(r)
    \/ Refuse(r)
    \/ Lose(r)

Next ==
    \/ \E r \in Request : Start(r) \/ Proceed(r) \/ RpcFails(r) \/ QueryFails(r) \/ Settle(r)
    \/ Market

Spec == Init /\ [][Next]_vars

-----------------------------------------------------------------------------
(* Properties.                                                             *)

Recorded(m) == IF positions[m] = NoRow THEN 0 ELSE positions[m]

\* The shares on record are the shares on chain, for a merchant whose calls
\* came one at a time and failed, if they did, before they could take effect
\* unseen: each deposit adds what the contract minted, each withdrawal takes
\* what it burned, and a call the chain refused leaves no trace.
CalmPositionsAgree ==
    \A m \in calm : Running(m) = {} => Recorded(m) = lp[m]

\* The quote is old when the swap is applied, as others have traded since: no
\* applied swap pays less than the user's minimum all the same.
SwapsPayTheFloor ==
    \A r \in Request :
        call[r].op = "swap" /\ chain[r] = "applied" => paid[r] >= call[r].min

\* A call answered with success was applied, whatever its polling went
\* through; a swap is on record, with what it paid and not what was quoted.
SuccessIsReal ==
    /\ \A r \in Request : answer[r] = "ok" =>
         /\ chain[r] = "applied"
         /\ call[r].op = "swap" => \E row \in swaps : row.tx = r
    /\ \A row \in swaps : chain[row.tx] = "applied" /\ row.output = paid[row.tx]
=============================================================================
