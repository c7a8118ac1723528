--------------------------- MODULE PaymentsProofs ---------------------------
(***************************************************************************)
(* Proofs about Payments, for every set of calls and accounts, all amounts *)
(* and funds, and everything the surroundings may do (Env).                *)
(*                                                                         *)
(* What must be kept in the invariant beside the table is where each call  *)
(* stands to the network: before its submission the network knows nothing  *)
(* of it, and Horizon's acceptance is only ever read off the ledger.       *)
(***************************************************************************)
EXTENDS Payments, TLAPS

\* Past the balance check the recipient has an address; only users call, and
\* others only pay users.
Resolved ==
    \A p \in Payment :
        /\ pc[p] \notin {"idle", "called", "done"} => order[p].to \in Account
        /\ pc[p] # "idle" => order[p].from \in User
        /\ order[p].from \in Outside => order[p].to \in User

\* A call that has not submitted yet is unknown to the network.
Unsent ==
    \A p \in Payment :
        (order[p].from \in User /\ pc[p] \in {"idle", "called", "checked", "authorised", "signed"})
            => chain[p] = "none"

BaseInv == TypeOK /\ Resolved /\ Unsent

\* Whoever is about to record a transaction has seen it applied.
Witnessed ==
    /\ \A p \in Payment : pc[p] = "accepted" => chain[p] = "applied"
    /\ \A e \in events : chain[e[1]] = "applied"

LedgerInv == BaseInv /\ Witnessed /\ CompletedIsApplied

-----------------------------------------------------------------------------
(* The rows and the balances that the steps build.                         *)

\* What sendPayment inserts is a row of the Transaction table.
LEMMA SenderRowIsRow ==
    ASSUME TypeOK, NEW p \in Payment, order[p].to \in Account,
           NEW tx \in Payment \cup {NoTx}, NEW status \in {"COMPLETED", "FAILED"}
    PROVE  SenderRow(p, tx, status) \in Row
BY DEF SenderRow, Row, TypeOK, Account

\* What a stream inserts is a row of the Transaction table.
LEMMA StreamRowIsRow ==
    ASSUME TypeOK, NEW p \in Payment, NEW a \in User
    PROVE  StreamRow(p, a) \in Row
BY DEF StreamRow, Row, TypeOK, Account

\* The network never lets an account below zero.
LEMMA TransferIsPaid ==
    ASSUME TypeOK, NEW o \in [from : Account, to : Account \cup {Unknown}, amount : Nat],
           Affordable(o)
    PROVE  Transfer(o) \in [Account -> Nat]
BY PaymentAssumption DEF Transfer, Affordable, TypeOK

\* At first no call has started and the network knows none.
LEMMA InitBase == Init => BaseInv
<1> SUFFICES ASSUME Init PROVE BaseInv
  OBVIOUS
<1> USE PaymentAssumption DEF Init
<1>1. order \in [Payment -> [from : Account, to : Account \cup {Unknown}, amount : Nat]]
  <2>1. order \in [Payment -> [from : Account, to : Account \cup {Unknown}, amount : Amount]]
    OBVIOUS
  <2> QED
    BY <2>1
<1>2. \A p \in Payment : order[p].from \in Outside => order[p].to \in User
  OBVIOUS
<1>3. TypeOK
  BY <1>1 DEF TypeOK, Stage, Result, Fate
<1> QED
  BY <1>2, <1>3 DEF BaseInv, Resolved, Unsent

\* Every step of the calls, the network and the streams keeps the types.
LEMMA NextTypeOK == BaseInv /\ [Next]_vars => TypeOK'
<1> SUFFICES ASSUME BaseInv, [Next]_vars PROVE TypeOK'
  OBVIOUS
<1> USE PaymentAssumption DEF TypeOK, Stage, Result, Fate, call, network, stream, Goto, Finish
<1>0. TypeOK /\ Resolved
  BY DEF BaseInv
<1>1. ASSUME NEW p \in Payment, Call(p) PROVE TypeOK'
  BY <1>0, <1>1 DEF Call
<1>2. ASSUME NEW p \in Payment, Serve(p) PROVE TypeOK'
  <2>1. CASE CheckBalance(p)
    BY <1>0, <2>1 DEF CheckBalance
  <2>2. CASE Authorise(p)
    BY <1>0, <2>2 DEF Authorise
  <2>3. CASE LoadSequence(p)
    <3>1. sequence[order[p].from] \in Nat
      BY <1>0
    <3> QED
      BY <1>0, <2>3, <3>1 DEF LoadSequence
  <2>4. CASE Submit(p)
    BY <1>0, <2>4 DEF Submit
  <2>5. CASE HorizonAnswers(p)
    BY <1>0, <2>5 DEF HorizonAnswers
  <2>6. CASE AnswerLost(p)
    BY <1>0, <2>6 DEF AnswerLost
  <2>7. CASE RecordCompleted(p)
    <3>1. SenderRow(p, p, "COMPLETED") \in Row
      BY <1>0, <2>7, SenderRowIsRow DEF RecordCompleted, Resolved
    <3> QED
      BY <1>0, <2>7, <3>1 DEF RecordCompleted
  <2>8. CASE RecordFailed(p)
    <3>1. SenderRow(p, NoTx, "FAILED") \in Row
      BY <1>0, <2>8, SenderRowIsRow DEF RecordFailed, Resolved
    <3> QED
      BY <1>0, <2>8, <3>1 DEF RecordFailed
  <2> QED
    BY <1>2, <2>1, <2>2, <2>3, <2>4, <2>5, <2>6, <2>7, <2>8 DEF Serve, Proceed
<1>3. ASSUME NEW p \in Payment, Apply(p) \/ OutsidePays(p) PROVE TypeOK'
  <2>1. Affordable(order[p]) /\ balance' = Transfer(order[p])
    BY <1>3 DEF Apply, OutsidePays
  <2>2. balance' \in [Account -> Nat]
    BY <1>0, <2>1, TransferIsPaid
  <2>3. Reported(p) \subseteq Payment \X User
    BY <1>0 DEF Reported
  <2>4. sequence' \in [Account -> Nat]
    BY <1>0, <1>3 DEF Apply, OutsidePays
  <2> QED
    BY <1>0, <1>3, <2>2, <2>3, <2>4 DEF Apply, OutsidePays
<1>4. ASSUME NEW p \in Payment, Reject(p) PROVE TypeOK'
  <2>1. balance' \in [Account -> Nat] /\ sequence' \in [Account -> Nat]
    <3>1. CASE UNCHANGED <<balance, sequence>>
      BY <1>0, <3>1
    <3>2. CASE /\ balance' = [balance EXCEPT ![order[p].from] = IF @ >= Fee THEN @ - Fee ELSE @]
               /\ sequence' = [sequence EXCEPT ![order[p].from] = @ + 1]
      <4>1. \A n \in Nat : (IF n >= Fee THEN n - Fee ELSE n) \in Nat
        OBVIOUS
      <4> QED
        BY <1>0, <3>2, <4>1
    <3> QED
      BY <1>4, <3>1, <3>2 DEF Reject
  <2> QED
    BY <1>0, <1>4, <2>1 DEF Reject
<1>5. ASSUME NEW p \in Payment, Expire(p) PROVE TypeOK'
  BY <1>0, <1>5 DEF Expire
<1>6. CASE OpenStreams \/ StopStreams
  BY <1>0, <1>6 DEF OpenStreams, StopStreams
<1>7. ASSUME NEW e \in Payment \X User, Dispatch(e) PROVE TypeOK'
  <2>1. CASE StreamInsert(e)
    <3>1. StreamRow(e[1], e[2]) \in Row
      BY <1>0, StreamRowIsRow
    <3> QED
      BY <1>0, <2>1, <3>1 DEF StreamInsert
  <2>2. CASE Notify(e)
    BY <1>0, <2>2 DEF Notify
  <2> QED
    BY <1>7, <2>1, <2>2 DEF Dispatch
<1>8. CASE Crash
  BY <1>0, <1>8 DEF Crash
<1>9. CASE UNCHANGED vars
  BY <1>0, <1>9 DEF vars
<1> QED
  BY <1>1, <1>2, <1>3, <1>4, <1>5, <1>6, <1>7, <1>8, <1>9 DEF Next, Settle

\* No step changes an order.
LEMMA OrdersStand == ASSUME [Next]_vars PROVE order' = order
<1> USE DEF call, network, stream
<1>1. ASSUME NEW p \in Payment, Serve(p) PROVE order' = order
  BY <1>1 DEF Serve, Proceed, CheckBalance, Authorise, LoadSequence, Submit, HorizonAnswers,
              AnswerLost, RecordCompleted, RecordFailed
<1> QED
  BY <1>1 DEF Next, Call, Settle, Apply, Reject, Expire, OutsidePays, OpenStreams, StopStreams,
              Dispatch, StreamInsert, Notify, Crash, vars

\* Every step keeps recipients resolved and unsent calls unsent.
LEMMA NextBase == BaseInv /\ [Next]_vars => BaseInv'
<1> SUFFICES ASSUME BaseInv, [Next]_vars PROVE Resolved' /\ Unsent'
  BY NextTypeOK DEF BaseInv
<1> USE PaymentAssumption DEF call, network, stream, Goto, Finish, TypeOK, Resolved, Unsent
<1>0. TypeOK /\ Resolved /\ Unsent
  BY DEF BaseInv
<1>1. ASSUME NEW p \in Payment, Call(p) PROVE Resolved' /\ Unsent'
  BY <1>0, <1>1 DEF Call
<1>2. ASSUME NEW p \in Payment, Serve(p) PROVE Resolved' /\ Unsent'
  <2>1. CASE CheckBalance(p)
    BY <1>0, <2>1 DEF CheckBalance
  <2>2. CASE Authorise(p)
    BY <1>0, <2>2 DEF Authorise
  <2>3. CASE LoadSequence(p)
    BY <1>0, <2>3 DEF LoadSequence
  <2>4. CASE Submit(p)
    BY <1>0, <2>4 DEF Submit
  <2>5. CASE HorizonAnswers(p)
    BY <1>0, <2>5 DEF HorizonAnswers
  <2>6. CASE AnswerLost(p)
    BY <1>0, <2>6 DEF AnswerLost
  <2>7. CASE RecordCompleted(p)
    BY <1>0, <2>7 DEF RecordCompleted
  <2>8. CASE RecordFailed(p)
    BY <1>0, <2>8 DEF RecordFailed
  <2> QED
    BY <1>2, <2>1, <2>2, <2>3, <2>4, <2>5, <2>6, <2>7, <2>8 DEF Serve, Proceed
<1>3. ASSUME NEW p \in Payment, Settle(p) \/ OutsidePays(p) PROVE Resolved' /\ Unsent'
  <2>1. pc' = pc /\ order' = order
    BY <1>3 DEF Settle, Apply, Reject, Expire, OutsidePays
  <2>2. chain' = [chain EXCEPT ![p] = chain'[p]]
    BY <1>0, <1>3 DEF Settle, Apply, Reject, Expire, OutsidePays
  <2>3. chain[p] = "sent" \/ order[p].from \notin User
    BY <1>0, <1>3 DEF Settle, Apply, Reject, Expire, OutsidePays
  <2> QED
    BY <1>0, <2>1, <2>2, <2>3
<1>4. CASE pc' = pc /\ chain' = chain
  BY <1>0, <1>4, OrdersStand
<1>5. CASE Crash
  BY <1>0, <1>5 DEF Crash
<1> QED
  BY <1>1, <1>2, <1>3, <1>4, <1>5
     DEF Next, OpenStreams, StopStreams, Dispatch, StreamInsert, Notify, vars

\* The payments keep their types: what sendPayment builds is always a row of
\* the table, and no balance goes below zero.
THEOREM TypeCorrect == Spec => []TypeOK
<1>1. BaseInv => TypeOK
  BY DEF BaseInv
<1> QED
  BY <1>1, InitBase, NextBase, PTL DEF Spec

-----------------------------------------------------------------------------
(* What the table claims.                                                  *)

\* The network does not take an applied transaction back: only calls that
\* have not submitted submit.
LEMMA AppliedStands ==
    ASSUME BaseInv, [Next]_vars, NEW p \in Payment, chain[p] = "applied"
    PROVE  chain'[p] = "applied"
<1> USE DEF call, network, stream, TypeOK
<1>0. TypeOK /\ Resolved /\ Unsent
  BY DEF BaseInv
<1>1. ASSUME NEW q \in Payment, Submit(q) PROVE chain'[p] = "applied"
  BY <1>0, <1>1 DEF Submit, Resolved, Unsent
<1>2. ASSUME NEW q \in Payment, Settle(q) \/ OutsidePays(q) PROVE chain'[p] = "applied"
  BY <1>0, <1>2 DEF Settle, Apply, Reject, Expire, OutsidePays
<1>3. CASE chain' = chain
  BY <1>3
<1>4. ASSUME NEW q \in Payment, Serve(q), ~Submit(q) PROVE chain' = chain
  BY <1>4 DEF Serve, Proceed, CheckBalance, Authorise, LoadSequence, HorizonAnswers,
              AnswerLost, RecordCompleted, RecordFailed
<1> QED
  BY <1>1, <1>2, <1>3, <1>4
     DEF Next, Call, OpenStreams, StopStreams, Dispatch, StreamInsert, Notify, Crash, vars

\* A row for an applied transaction that is on no other row may be added.
LEMMA OneMoreRow ==
    ASSUME NEW p \in Payment, NEW new, CompletedIsApplied, ~TxRecorded(p),
           rows' = rows \cup {new}, new.stellarTxId = p,
           chain'[p] = "applied",
           \A q \in Payment : chain[q] = "applied" => chain'[q] = "applied",
           \A row \in rows : row.stellarTxId \in Payment \cup {NoTx}
    PROVE  CompletedIsApplied'
BY PaymentAssumption DEF CompletedIsApplied, Completed, TxRecorded

\* Every step keeps the table behind the ledger.
LEMMA NextLedger == LedgerInv /\ [Next]_vars => LedgerInv'
<1> SUFFICES ASSUME LedgerInv, [Next]_vars PROVE Witnessed' /\ CompletedIsApplied'
  BY NextBase DEF LedgerInv
<1> USE PaymentAssumption DEF TypeOK, call, network, stream, Goto, Finish
<1>0. BaseInv /\ TypeOK /\ Witnessed /\ CompletedIsApplied
  BY DEF LedgerInv, BaseInv
<1>1. \A p \in Payment : chain[p] = "applied" => chain'[p] = "applied"
  BY <1>0, AppliedStands
<1>2. \A row \in rows : row.stellarTxId \in Payment \cup {NoTx}
  BY <1>0 DEF Row
<1>3. ASSUME rows' = rows PROVE CompletedIsApplied'
  <2>1. Completed' = Completed
    BY <1>3 DEF Completed
  <2>2. ASSUME NEW row \in Completed
        PROVE  row.stellarTxId # NoTx /\ chain'[row.stellarTxId] = "applied"
    <3>1. row \in rows /\ row.stellarTxId # NoTx /\ chain[row.stellarTxId] = "applied"
      BY <1>0 DEF CompletedIsApplied, Completed
    <3> QED
      BY <1>1, <1>2, <3>1
  <2>3. \A x, y \in Completed : x.stellarTxId = y.stellarTxId => x = y
    BY <1>0 DEF CompletedIsApplied
  <2> QED
    BY <2>1, <2>2, <2>3 DEF CompletedIsApplied
<1>4. ASSUME NEW p \in Payment, RecordCompleted(p), rows' # rows PROVE CompletedIsApplied'
  <2>1. chain[p] = "applied" /\ ~TxRecorded(p) /\ rows' = rows \cup {SenderRow(p, p, "COMPLETED")}
    BY <1>0, <1>4 DEF RecordCompleted, Witnessed
  <2>2. SenderRow(p, p, "COMPLETED").stellarTxId = p
    BY DEF SenderRow
  <2> QED
    BY <1>0, <1>1, <1>2, <2>1, <2>2, OneMoreRow
<1>5. ASSUME NEW p \in Payment, RecordFailed(p), rows' # rows PROVE CompletedIsApplied'
  <2>1. rows' = rows \cup {SenderRow(p, NoTx, "FAILED")}
    BY <1>5 DEF RecordFailed
  <2>2. SenderRow(p, NoTx, "FAILED").status = "FAILED"
    BY DEF SenderRow
  <2>3. Completed' = Completed
    BY <2>1, <2>2 DEF Completed
  <2> QED
    BY <1>0, <1>1, <1>2, <2>3 DEF CompletedIsApplied, Completed
<1>6. ASSUME NEW e \in Payment \X User, StreamInsert(e), rows' # rows
      PROVE  CompletedIsApplied'
  <2>1. chain[e[1]] = "applied" /\ ~TxRecorded(e[1]) /\ rows' = rows \cup {StreamRow(e[1], e[2])}
    BY <1>0, <1>6 DEF StreamInsert, Witnessed
  <2>2. StreamRow(e[1], e[2]).stellarTxId = e[1]
    BY DEF StreamRow
  <2> QED
    BY <1>0, <1>1, <1>2, <2>1, <2>2, OneMoreRow
<1>7. CompletedIsApplied'
  <2>1. ASSUME NEW p \in Payment, Serve(p), ~RecordCompleted(p), ~RecordFailed(p)
        PROVE  rows' = rows
    BY <2>1 DEF Serve, Proceed, CheckBalance, Authorise, LoadSequence, Submit, HorizonAnswers, AnswerLost
  <2>2. ASSUME NEW p \in Payment, Settle(p) \/ OutsidePays(p) PROVE rows' = rows
    BY <2>2 DEF Settle, Apply, Reject, Expire, OutsidePays
  <2> QED
    BY <1>3, <1>4, <1>5, <1>6, <2>1, <2>2
       DEF Next, Call, OpenStreams, StopStreams, Dispatch, Notify, Crash, vars
<1>8. ASSUME NEW p \in Payment, pc'[p] = "accepted" PROVE chain'[p] = "applied"
  <2>1. CASE pc[p] = "accepted"
    BY <1>0, <1>1, <2>1 DEF Witnessed
  <2>2. CASE pc[p] # "accepted"
    <3>1. ASSUME NEW q \in Payment, Serve(q) PROVE HorizonAnswers(q) /\ q = p
      BY <1>0, <1>8, <2>2, <3>1 DEF Serve, Proceed, CheckBalance, Authorise, LoadSequence, Submit,
         HorizonAnswers, AnswerLost, RecordCompleted, RecordFailed
    <3>2. ASSUME HorizonAnswers(p) PROVE chain[p] = "applied"
      BY <1>0, <1>8, <2>2, <3>2 DEF HorizonAnswers
    <3>3. ASSUME NEW q \in Payment, Settle(q) \/ OutsidePays(q) PROVE pc' = pc
      BY <3>3 DEF Settle, Apply, Reject, Expire, OutsidePays
    <3> QED
      BY <1>0, <1>1, <1>8, <2>2, <3>1, <3>2, <3>3
         DEF Next, Call, OpenStreams, StopStreams, Dispatch, StreamInsert, Notify, Crash, vars
  <2> QED
    BY <2>1, <2>2
<1>9. ASSUME NEW e \in events' PROVE chain'[e[1]] = "applied"
  <2>1. CASE e \in events
    BY <1>0, <1>1, <2>1 DEF Witnessed
  <2>2. CASE e \notin events
    <3>1. ASSUME NEW p \in Payment, Serve(p) PROVE events' = events
      BY <3>1 DEF Serve, Proceed, CheckBalance, Authorise, LoadSequence, Submit, HorizonAnswers,
         AnswerLost, RecordCompleted, RecordFailed
    <3>2. PICK p \in Payment : Apply(p) \/ OutsidePays(p)
      BY <2>2, <1>9, <3>1 DEF Next, Call, Settle, Reject, Expire, OpenStreams, StopStreams, Dispatch,
         StreamInsert, Notify, Crash, vars
    <3>3. chain'[p] = "applied" /\ e \in Reported(p)
      BY <1>0, <1>9, <2>2, <3>2 DEF Apply, OutsidePays
    <3> QED
      BY <3>3 DEF Reported
  <2> QED
    BY <2>1, <2>2
<1> QED
  BY <1>7, <1>8, <1>9 DEF Witnessed

\* The table never claims more than the network did, and no transaction is
\* claimed twice, however calls, streams, failures and crashes interleave.
THEOREM TableMatchesLedger == Spec => []CompletedIsApplied
<1>1. Init => LedgerInv
  BY InitBase DEF LedgerInv, Witnessed, CompletedIsApplied, Completed, Init
<1>2. LedgerInv => CompletedIsApplied
  BY DEF LedgerInv
<1> QED
  BY <1>1, <1>2, NextLedger, PTL DEF Spec

-----------------------------------------------------------------------------
(* What the callers hear.                                                  *)

\* No step deletes a row.
LEMMA RowsStay == ASSUME [Next]_vars PROVE rows \subseteq rows'
<1> USE DEF call, network, stream
<1>1. ASSUME NEW p \in Payment, Serve(p) PROVE rows \subseteq rows'
  BY <1>1 DEF Serve, Proceed, CheckBalance, Authorise, LoadSequence, Submit, HorizonAnswers,
              AnswerLost, RecordCompleted, RecordFailed
<1> QED
  BY <1>1 DEF Next, Call, Settle, Apply, Reject, Expire, OutsidePays, OpenStreams, StopStreams,
              Dispatch, StreamInsert, Notify, Crash, vars

\* An answer of sendPayment never outruns its record.
THEOREM AnswersAreOnRecord == Spec => []AnswerIsOnRecord
<1>1. Init => AnswerIsOnRecord
  BY DEF Init, AnswerIsOnRecord
<1>2. ASSUME BaseInv, AnswerIsOnRecord, [Next]_vars PROVE AnswerIsOnRecord'
  <2> USE DEF call, network, stream, Goto, Finish, TypeOK
  <2>0. TypeOK /\ AnswerIsOnRecord
    BY <1>2 DEF BaseInv
  <2>1. \A p \in Payment : \A tx, status :
         SenderRow(p, tx, status)' = SenderRow(p, tx, status)
    BY <1>2, OrdersStand DEF SenderRow
  <2>2. \/ result' = result
        \/ \E p \in Payment :
             /\ result' = [result EXCEPT ![p] = result'[p]]
             /\ \/ result'[p] \in {"turnedDown", "error"}
                \/ result'[p] = "completed" /\ SenderRow(p, p, "COMPLETED") \in rows'
                \/ result'[p] = "failed" /\ SenderRow(p, NoTx, "FAILED") \in rows'
        \/ Crash
    <3>1. ASSUME NEW p \in Payment, CheckBalance(p) \/ Authorise(p)
          PROVE  \/ result' = result
                 \/ /\ result' = [result EXCEPT ![p] = result'[p]]
                    /\ result'[p] \in {"turnedDown", "error"}
      <4>1. CASE CheckBalance(p)
        BY <2>0, <4>1 DEF CheckBalance
      <4>2. CASE Authorise(p)
        BY <2>0, <4>2 DEF Authorise
      <4> QED
        BY <3>1, <4>1, <4>2
    <3>2. ASSUME NEW p \in Payment, LoadSequence(p) \/ Submit(p) \/ HorizonAnswers(p) \/ AnswerLost(p)
          PROVE  result' = result
      BY <3>2 DEF LoadSequence, Submit, HorizonAnswers, AnswerLost
    <3>3. ASSUME NEW p \in Payment, RecordCompleted(p)
          PROVE  \/ result' = result
                 \/ /\ result' = [result EXCEPT ![p] = result'[p]]
                    /\ result'[p] = "completed" /\ SenderRow(p, p, "COMPLETED") \in rows'
      BY <2>0, <3>3 DEF RecordCompleted
    <3>4. ASSUME NEW p \in Payment, RecordFailed(p)
          PROVE  /\ result' = [result EXCEPT ![p] = result'[p]]
                 /\ \/ result'[p] = "error"
                    \/ result'[p] = "failed" /\ SenderRow(p, NoTx, "FAILED") \in rows'
      BY <2>0, <3>4 DEF RecordFailed
    <3> QED
      BY <1>2, <3>1, <3>2, <3>3, <3>4
         DEF Next, Serve, Proceed, Call, Settle, Apply, Reject, Expire, OutsidePays, OpenStreams, StopStreams,
             Dispatch, StreamInsert, Notify, vars
  <2>3. CASE result' = result
    BY <1>2, <2>1, <2>3, RowsStay DEF AnswerIsOnRecord
  <2>4. CASE Crash
    BY <1>2, <2>0, <2>1, <2>4 DEF AnswerIsOnRecord, Crash
  <2>5. ASSUME NEW p \in Payment,
               result' = [result EXCEPT ![p] = result'[p]],
               \/ result'[p] \in {"turnedDown", "error"}
               \/ result'[p] = "completed" /\ SenderRow(p, p, "COMPLETED") \in rows'
               \/ result'[p] = "failed" /\ SenderRow(p, NoTx, "FAILED") \in rows'
        PROVE  AnswerIsOnRecord'
    BY <1>2, <2>0, <2>1, <2>5, RowsStay DEF AnswerIsOnRecord
  <2> QED
    BY <2>2, <2>3, <2>4, <2>5
<1> QED
  BY <1>1, <1>2, InitBase, NextBase, PTL DEF Spec

-----------------------------------------------------------------------------
(* The ideal transfer.  A call whose error is a verdict of the network     *)
(* knows the fate of its transaction when it reports.                      *)

\* A transaction whose fate is open belongs to a call that still waits, to one
\* that a crash silenced, or to one that is in doubt; and who is in doubt
\* never reports success.
Knowing ==
    \A p \in Payment :
        /\ result[p] = "none" <=> pc[p] # "done"
        /\ pc[p] = "refused" => p \in doubtful \/ chain[p] \in {"none", "rejected", "expired"}
        /\ chain[p] = "sent" => pc[p] = "sent" \/ result[p] = "silence" \/ p \in doubtful
        /\ p \in doubtful => pc[p] \in {"refused", "done"} /\ result[p] # "completed"

KnowingInv == LedgerInv /\ Knowing

\* A call that has submitted nothing, or has heard of its fate, keeps knowing it.
LEMMA NextKnowing ==
    ASSUME KnowingInv, [Next]_vars
    PROVE  Knowing'
<1> USE PaymentAssumption DEF TypeOK, call, network, stream, Goto, Finish, Knowing
<1>0. TypeOK /\ Resolved /\ Unsent /\ Witnessed /\ Knowing
  BY DEF KnowingInv, LedgerInv, BaseInv
<1>2. ASSUME NEW p \in Payment, Call(p) PROVE Knowing'
  BY <1>0, <1>2 DEF Call
<1>3. ASSUME NEW p \in Payment, Serve(p) PROVE Knowing'
  <2>1. CASE CheckBalance(p)
    BY <1>0, <2>1 DEF CheckBalance, Resolved, Unsent
  <2>2. CASE Authorise(p)
    BY <1>0, <2>2 DEF Authorise, Resolved, Unsent
  <2>3. CASE LoadSequence(p)
    BY <1>0, <2>3 DEF LoadSequence, Resolved, Unsent
  <2>4. CASE Submit(p)
    BY <1>0, <2>4 DEF Submit
  <2>5. CASE HorizonAnswers(p)
    BY <1>0, <2>5 DEF HorizonAnswers
  <2>6. CASE AnswerLost(p)
    BY <1>0, <2>6 DEF AnswerLost
  <2>7. CASE RecordCompleted(p)
    <3>1. chain' = chain /\ chain[p] = "applied" /\ pc[p] = "accepted" /\ p \notin doubtful
      BY <1>0, <2>7 DEF RecordCompleted, Witnessed
    <3>2. CASE pc' = [pc EXCEPT ![p] = "done"]
      BY <1>0, <2>7, <3>1, <3>2 DEF RecordCompleted
    <3>3. CASE pc' = [pc EXCEPT ![p] = "refused"]
      BY <1>0, <2>7, <3>1, <3>3 DEF RecordCompleted
    <3> QED
      BY <2>7, <3>2, <3>3 DEF RecordCompleted
  <2>8. CASE RecordFailed(p)
    <3>1. /\ pc' = [pc EXCEPT ![p] = "done"] /\ pc[p] = "refused"
          /\ chain' = chain /\ doubtful' = doubtful
          /\ \E what \in {"failed", "error"} : result' = [result EXCEPT ![p] = what]
      BY <2>8 DEF RecordFailed
    <3> QED
      BY <1>0, <3>1
  <2> QED
    BY <1>3, <2>1, <2>2, <2>3, <2>4, <2>5, <2>6, <2>7, <2>8 DEF Serve, Proceed
<1>4. ASSUME NEW p \in Payment, Settle(p) PROVE Knowing'
  <2>1. /\ chain[p] = "sent"
        /\ UNCHANGED <<pc, result, doubtful>>
        /\ \E fate \in {"applied", "rejected", "expired"} : chain' = [chain EXCEPT ![p] = fate]
    BY <1>4 DEF Settle, Apply, Reject, Expire
  <2> QED
    BY <1>0, <2>1
<1>5. ASSUME NEW p \in Payment, OutsidePays(p) PROVE Knowing'
  <2>1. pc[p] = "idle"
    BY <1>0, <1>5 DEF OutsidePays, Resolved
  <2> QED
    BY <1>0, <1>5, <2>1 DEF OutsidePays
<1>6. ASSUME UNCHANGED <<pc, result, chain, doubtful>> PROVE Knowing'
  BY <1>0, <1>6
<1>7. CASE Crash
  <2>1. \A p \in Payment : /\ pc'[p] = (IF pc[p] \notin {"idle", "done"} THEN "done" ELSE pc[p])
                           /\ result'[p] = (IF pc[p] \notin {"idle", "done"} THEN "silence"
                                            ELSE result[p])
    BY <1>7 DEF Crash
  <2>2. chain' = chain /\ doubtful' = doubtful
    BY <1>7 DEF Crash
  <2> QED
    BY <1>0, <2>1, <2>2
<1> QED
  BY <1>2, <1>3, <1>4, <1>5, <1>6, <1>7
     DEF Next, OpenStreams, StopStreams, Dispatch, StreamInsert, Notify, vars

\* What the refinement mapping sends the two variables of the ideal to.
Moved == {p \in Payment : chain[p] = "applied"}

Told == [p \in Payment |->
           CASE result[p] = "completed" -> "completed"
             [] result[p] \in {"failed", "turnedDown", "error"} /\ p \notin doubtful -> "failed"
             [] OTHER -> "nothing"]

\* A step that moves no money and tells nobody anything is a stutter.
LEMMA SilentStep ==
    ASSUME Moved' = Moved, Told' = Told
    PROVE  [Ideal!Next]_(Ideal!vars)
BY DEF Ideal!vars, Moved, Told

\* A call that ends reports.
LEMMA ReportStep ==
    ASSUME TypeOK, NEW p \in Payment, NEW what \in Result, chain' = chain,
           result[p] = "none", result' = [result EXCEPT ![p] = what], doubtful' = doubtful,
           what = "completed" => chain[p] = "applied",
           what \in {"failed", "turnedDown", "error"} => chain[p] # "applied" \/ p \in doubtful
    PROVE  [Ideal!Next]_(Ideal!vars)
<1>1. Moved' = Moved
  BY DEF Moved
<1>2. Told[p] = "nothing"
  BY DEF Told
<1>3. CASE what = "completed"
  <2>1. Told' = [Told EXCEPT ![p] = "completed"]
    BY <1>3 DEF Told, TypeOK
  <2>2. p \in Moved
    BY <1>3 DEF Moved
  <2> QED
    BY <1>1, <1>2, <2>1, <2>2 DEF Ideal!Next, Ideal!ReportCompleted, Moved, Told
<1>4. CASE what \in {"failed", "turnedDown", "error"} /\ p \notin doubtful
  <2>1. Told' = [Told EXCEPT ![p] = "failed"]
    BY <1>4 DEF Told, TypeOK
  <2>2. p \notin Moved
    BY <1>4 DEF Moved
  <2> QED
    BY <1>1, <1>2, <2>1, <2>2 DEF Ideal!Next, Ideal!ReportFailed, Moved, Told
<1>5. CASE what \in {"none", "silence"} \/ (what # "completed" /\ p \in doubtful)
  <2>1. Told' = Told
    BY <1>5 DEF Told, TypeOK
  <2> QED
    BY <1>1, <2>1, SilentStep
<1> QED
  BY <1>3, <1>4, <1>5 DEF Result

\* The network applies a transaction whose caller has heard nothing.
LEMMA MoveStep ==
    ASSUME TypeOK, NEW p \in Payment, result' = result, doubtful' = doubtful,
           \/ result[p] \in {"none", "silence"}
           \/ p \in doubtful /\ result[p] # "completed",
           chain' = [chain EXCEPT ![p] = "applied"]
    PROVE  [Ideal!Next]_(Ideal!vars)
<1>1. Told' = Told /\ Told[p] = "nothing"
  BY DEF Told
<1>2. Moved' = Moved \cup {p}
  BY DEF Moved, TypeOK
<1> QED
  BY <1>1, <1>2 DEF Ideal!Next, Ideal!Move, Moved, Told

\* Each step moves money, reports, or is invisible.
LEMMA StepIsIdeal ==
    ASSUME KnowingInv, [Next]_vars
    PROVE  [Ideal!Next]_(Ideal!vars)
<1> USE PaymentAssumption DEF call, network, stream, Goto, Finish
<1>0. TypeOK /\ Resolved /\ Unsent /\ Witnessed /\ Knowing
  BY DEF KnowingInv, LedgerInv, BaseInv
<1>1. ASSUME chain' = chain, result' = result, doubtful' = doubtful PROVE [Ideal!Next]_(Ideal!vars)
  BY <1>1, SilentStep DEF Moved, Told
<1>2. ASSUME NEW p \in Payment, Serve(p) PROVE [Ideal!Next]_(Ideal!vars)
  <2>1. ASSUME CheckBalance(p) \/ Authorise(p) PROVE [Ideal!Next]_(Ideal!vars)
    <3>1. chain' = chain /\ chain[p] = "none" /\ result[p] = "none" /\ doubtful' = doubtful
      BY <1>0, <2>1 DEF CheckBalance, Authorise, Unsent, Resolved, Knowing
    <3>2. \/ result' = result
          \/ \E what \in {"turnedDown", "error"} : result' = [result EXCEPT ![p] = what]
      BY <2>1 DEF CheckBalance, Authorise
    <3> QED
      BY <1>0, <1>1, <3>1, <3>2, ReportStep DEF Result
  <2>2. ASSUME LoadSequence(p) \/ HorizonAnswers(p)
        PROVE  [Ideal!Next]_(Ideal!vars)
    BY <1>1, <2>2 DEF LoadSequence, HorizonAnswers
  <2>3. CASE Submit(p)
    <3>1. /\ result' = result /\ doubtful' = doubtful
          /\ chain[p] = "none" /\ chain' = [chain EXCEPT ![p] = "sent"]
      BY <1>0, <2>3 DEF Submit, Unsent, Resolved
    <3> QED
      BY <1>0, <3>1, SilentStep DEF Moved, Told, TypeOK
  <2>4. ASSUME chain' = chain, result' = result, doubtful' = doubtful \cup {p}, result[p] = "none"
        PROVE  [Ideal!Next]_(Ideal!vars)
    BY <2>4, SilentStep DEF Moved, Told
  <2>5. CASE AnswerLost(p)
    BY <1>0, <2>4, <2>5 DEF AnswerLost, Knowing
  <2>6. CASE RecordCompleted(p)
    <3>1. chain' = chain /\ chain[p] = "applied" /\ result[p] = "none"
      BY <1>0, <2>6 DEF RecordCompleted, Witnessed, Knowing
    <3>2. \/ result' = result /\ doubtful' = doubtful \cup {p}
          \/ result' = [result EXCEPT ![p] = "completed"] /\ doubtful' = doubtful
      BY <2>6 DEF RecordCompleted
    <3> QED
      BY <1>0, <2>4, <3>1, <3>2, ReportStep DEF Result
  <2>7. CASE RecordFailed(p)
    <3>1. /\ chain' = chain /\ result[p] = "none" /\ doubtful' = doubtful
          /\ chain[p] # "applied" \/ p \in doubtful
      BY <1>0, <2>7 DEF RecordFailed, Knowing
    <3>2. \E what \in {"failed", "error"} : result' = [result EXCEPT ![p] = what]
      BY <2>7 DEF RecordFailed
    <3> QED
      BY <1>0, <3>1, <3>2, ReportStep DEF Result
  <2> QED
    BY <1>2, <2>1, <2>2, <2>3, <2>5, <2>6, <2>7 DEF Serve, Proceed
<1>3. ASSUME NEW p \in Payment, Apply(p) \/ OutsidePays(p) PROVE [Ideal!Next]_(Ideal!vars)
  <2>1. result' = result /\ doubtful' = doubtful /\ chain' = [chain EXCEPT ![p] = "applied"]
    BY <1>3 DEF Apply, OutsidePays
  <2>2. \/ result[p] \in {"none", "silence"}
        \/ p \in doubtful /\ result[p] # "completed"
    <3>1. CASE chain[p] = "sent"
      BY <1>0, <3>1 DEF Knowing
    <3>2. CASE order[p].from \in Outside
      BY <1>0, <3>2 DEF Knowing, Resolved
    <3> QED
      BY <1>3, <3>1, <3>2 DEF Apply, OutsidePays
  <2> QED
    BY <1>0, <2>1, <2>2, MoveStep
<1>4. ASSUME NEW p \in Payment, Reject(p) \/ Expire(p) PROVE [Ideal!Next]_(Ideal!vars)
  <2>1. /\ result' = result /\ doubtful' = doubtful /\ chain[p] = "sent"
        /\ \E fate \in {"rejected", "expired"} : chain' = [chain EXCEPT ![p] = fate]
    BY <1>4 DEF Reject, Expire
  <2> QED
    BY <1>0, <2>1, SilentStep DEF Moved, Told, TypeOK
<1>5. CASE Crash
  <2>1. /\ chain' = chain /\ doubtful' = doubtful
        /\ result' = [p \in Payment |-> IF pc[p] \notin {"idle", "done"} THEN "silence"
                                        ELSE result[p]]
    BY <1>5 DEF Crash
  <2>2. \A p \in Payment : pc[p] \notin {"idle", "done"} => result[p] = "none"
    BY <1>0 DEF Knowing
  <2>3. Told' = Told
    BY <2>1, <2>2 DEF Told
  <2> QED
    BY <2>1, <2>3, SilentStep DEF Moved
<1> QED
  BY <1>1, <1>2, <1>3, <1>4, <1>5 DEF Next, Settle, Call, OpenStreams, StopStreams, Dispatch,
     StreamInsert, Notify, vars

\* sendPayment is the ideal transfer, whatever its surroundings do, as far as
\* its answers are verdicts of the network: what is then reported failed never
\* moves.
THEOREM PaymentsAreIdeal == Spec => ImplementsIdealTransfer
<1>1. Init => KnowingInv
  BY InitBase DEF KnowingInv, LedgerInv, Witnessed, CompletedIsApplied, Completed, Knowing, Init
<1>2. KnowingInv /\ [Next]_vars => KnowingInv'
  BY NextKnowing, NextLedger DEF KnowingInv
<1>3. Init => Ideal!Init
  BY DEF Init, Ideal!Init
<1>4. KnowingInv /\ [Next]_vars => [Ideal!Next]_(Ideal!vars)
  BY StepIsIdeal
<1> QED
  BY <1>1, <1>2, <1>3, <1>4, PTL DEF Spec, ImplementsIdealTransfer, Ideal!Spec
=============================================================================
