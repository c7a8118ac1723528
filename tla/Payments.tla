------------------------------ MODULE Payments ------------------------------
(***************************************************************************)
(* The payment flow: sendPayment of src/lib/services/payment.service.ts    *)
(* with submitPayment of stellar.service.ts, the Stellar network it talks  *)
(* to, the Transaction table, and the Horizon stream of                    *)
(* notification.service.ts, which records the same payments.               *)
(*                                                                         *)
(* A payment is one call of sendPayment.  Between two awaits of a call any *)
(* step of another call, of the network or of a stream may happen.         *)
(*                                                                         *)
(*   Call -> CheckBalance -> Authorise -> LoadSequence -> Submit           *)
(*        -> answer of Horizon -> RecordCompleted / RecordFailed           *)
(*                                                                         *)
(* An account is named by its owner: a user of the platform, or an address *)
(* that belongs to nobody here.  A transaction is named by the call that   *)
(* built it: no call builds two.                                           *)
(***************************************************************************)
EXTENDS Naturals, FiniteSets

CONSTANTS
    Payment,      \* the calls of sendPayment of a run
    User,         \* the platform's users with a wallet
    Outside,      \* funded addresses of nobody on the platform
    Unknown,      \* a recipient that resolves to no address
    NoTx,         \* stellarTxId = null
    NoUser,       \* recipientId = null
    Amount,       \* the amounts a caller may ask for
    Funds,        \* what every account holds at first
    Reserve,      \* MINIMUM_RESERVE_XLM, and the network's own minimum
    Fee,          \* BASE_FEE
    Env           \* what the surroundings may do in a run

\* "stream": Horizon streams are open; "lost": an answer of Horizon may be
\* lost; "db": an insert may fail; "crash": the server may stop.
ASSUME PaymentAssumption ==
    /\ Env \subseteq {"stream", "lost", "db", "crash"}
    /\ Amount \subseteq Nat \ {0}
    /\ Funds \in Nat /\ Reserve \in Nat /\ Fee \in Nat
    /\ User \cap Outside = {}
    /\ Unknown \notin User \cup Outside
    /\ NoUser \notin User \cup Outside
    /\ NoTx \notin Payment

VARIABLES
    pc,        \* where each call is
    order,     \* who it pays, whom, how much
    seqSeen,   \* the sender's sequence number it loaded
    result,    \* what its caller hears
    balance,   \* the network: what every account holds
    sequence,  \* the network: the last sequence number used
    chain,     \* the network: the fate of each transaction
    rows,      \* the Transaction table
    streams,   \* users whose account is streamed from Horizon
    events,    \* operations Horizon reported that wait for their insert
    inserted,  \* those whose insert has resolved, still to be notified
    notified,  \* calls of notifyPaymentReceived
    doubtful   \* history: calls whose error is no verdict of the network

call    == <<pc, order, seqSeen, result, doubtful>>
network == <<balance, sequence, chain>>
stream  == <<streams, events, inserted, notified>>
vars    == <<call, network, rows, stream>>

Account == User \cup Outside
Stage == {"idle", "called", "checked", "authorised", "signed", "sent",
          "accepted", "refused", "done"}
Result == {"none", "completed", "failed", "turnedDown", "error", "silence"}
Fate == {"none", "sent", "applied", "rejected", "expired"}
Row == [id : Payment \X {"sender", "stream"}, stellarTxId : Payment \cup {NoTx},
        sender : Account, recipient : Account, recipientId : User \cup {NoUser},
        status : {"COMPLETED", "FAILED"}]

\* The types of the variables.
TypeOK ==
    /\ pc \in [Payment -> Stage]
    /\ order \in [Payment -> [from : Account, to : Account \cup {Unknown}, amount : Nat]]
    /\ seqSeen \in [Payment -> Nat]
    /\ result \in [Payment -> Result]
    /\ balance \in [Account -> Nat]
    /\ sequence \in [Account -> Nat]
    /\ chain \in [Payment -> Fate]
    /\ rows \subseteq Row
    /\ streams \subseteq User
    /\ events \subseteq Payment \X User
    /\ inserted \subseteq Payment \X User
    /\ notified \subseteq Payment \X User
    /\ doubtful \subseteq Payment

Init ==
    /\ pc = [p \in Payment |-> "idle"]
    /\ order \in [Payment -> {o \in [from : Account, to : Account \cup {Unknown}, amount : Amount] :
                                o.from \in Outside => o.to \in User}]
    /\ seqSeen = [p \in Payment |-> 0]
    /\ result = [p \in Payment |-> "none"]
    /\ balance = [a \in Account |-> Funds]
    /\ sequence = [a \in Account |-> 0]
    /\ chain = [p \in Payment |-> "none"]
    /\ rows = {}
    /\ streams = {}
    /\ events = {} /\ inserted = {} /\ notified = {}
    /\ doubtful = {}

-----------------------------------------------------------------------------
(* Pure parts.                                                             *)

\* The check of sendPayment (no fee) and the rule of the network (with it).
LooksSufficient(o) == balance[o.from] >= o.amount + Reserve

Affordable(o) == balance[o.from] >= o.amount + Fee + Reserve

Transfer(o) ==
    [a \in Account |-> balance[a] + (IF a = o.to THEN o.amount ELSE 0)
                                  - (IF a = o.from THEN o.amount + Fee ELSE 0)]

\* Mutant: the column is not unique.
TxRecordedNever(p) == FALSE

\* stellarTxId is unique in the table.
TxRecorded(p) == \E row \in rows : row.stellarTxId = p

SenderRow(p, tx, status) ==
    [id |-> <<p, "sender">>, stellarTxId |-> tx, sender |-> order[p].from,
     recipient |-> order[p].to,
     recipientId |-> IF order[p].to \in User THEN order[p].to ELSE NoUser,
     status |-> status]

\* Mutant: the row names the operation's destination, which need not be a user.
StreamRowOfOperation(p, a) ==
    [id |-> <<p, "stream">>, stellarTxId |-> p, sender |-> order[p].from,
     recipient |-> order[p].to, recipientId |-> order[p].to, status |-> "COMPLETED"]

\* Whose stream it is decides the recipient, whichever way the money went.
StreamRow(p, a) ==
    [id |-> <<p, "stream">>, stellarTxId |-> p, sender |-> order[p].from,
     recipient |-> a, recipientId |-> a, status |-> "COMPLETED"]

Reported(p) == {p} \X (streams \cap {order[p].from, order[p].to})

-----------------------------------------------------------------------------
(* sendPayment.                                                            *)

Goto(p, stage) == pc' = [pc EXCEPT ![p] = stage]

Finish(p, what) == Goto(p, "done") /\ result' = [result EXCEPT ![p] = what]

Call(p) ==
    /\ pc[p] = "idle"
    /\ order[p].from \in User
    /\ Goto(p, "called")
    /\ UNCHANGED <<doubtful, order, seqSeen, result, network, rows, stream>>

\* The recipient is resolved, the wallet and its balance are fetched.
CheckBalance(p) ==
    /\ pc[p] = "called"
    /\ \/ /\ order[p].to = Unknown \/ ~LooksSufficient(order[p])
          /\ Finish(p, "turnedDown")
       \/ /\ order[p].to # Unknown /\ LooksSufficient(order[p])
          /\ Goto(p, "checked") /\ UNCHANGED result
       \/ Env \cap {"lost", "db"} # {} /\ Finish(p, "error")
    /\ UNCHANGED <<doubtful, order, seqSeen, network, rows, stream>>

\* isLocked and verifyPin (PinService), then the secret key is decrypted.  A
\* user may lack a PIN: verifyPin throws.
Authorise(p) ==
    /\ pc[p] = "checked"
    /\ \/ Goto(p, "authorised") /\ UNCHANGED result
       \/ Finish(p, "turnedDown")
       \/ Finish(p, "error")
    /\ UNCHANGED <<doubtful, order, seqSeen, network, rows, stream>>

\* submitPayment loads the account and builds the transaction, which may fail
\* (a memo may be too long); from here on every error is caught.
LoadSequence(p) ==
    /\ pc[p] = "authorised"
    /\ \/ Goto(p, "signed") /\ seqSeen' = [seqSeen EXCEPT ![p] = sequence[order[p].from]]
       \/ Goto(p, "refused") /\ UNCHANGED seqSeen
    /\ UNCHANGED <<doubtful, order, result, network, rows, stream>>

\* Mutant: the answer of Horizon is not awaited.
SubmitUnawaited(p) ==
    /\ pc[p] = "signed"
    /\ Goto(p, "accepted")
    /\ chain' = [chain EXCEPT ![p] = "sent"]
    /\ UNCHANGED <<doubtful, order, seqSeen, result, balance, sequence, rows, stream>>

Submit(p) ==
    /\ pc[p] = "signed"
    /\ Goto(p, "sent")
    /\ chain' = [chain EXCEPT ![p] = "sent"]
    /\ UNCHANGED <<doubtful, order, seqSeen, result, balance, sequence, rows, stream>>

\* Mutant: a refusal is swallowed.
HorizonAnswersGoodNews(p) ==
    /\ pc[p] = "sent"
    /\ chain[p] = "applied"
    /\ Goto(p, "accepted")
    /\ UNCHANGED <<doubtful, order, seqSeen, result, network, rows, stream>>

\* Horizon answers once the fate of the transaction is known ...
HorizonAnswers(p) ==
    /\ pc[p] = "sent"
    /\ \/ chain[p] = "applied" /\ Goto(p, "accepted")
       \/ chain[p] \in {"rejected", "expired"} /\ Goto(p, "refused")
    /\ UNCHANGED <<doubtful, order, seqSeen, result, network, rows, stream>>

\* ... or the request to it fails, whatever becomes of the transaction.
AnswerLost(p) ==
    /\ "lost" \in Env
    /\ pc[p] = "sent"
    /\ Goto(p, "refused")
    /\ doubtful' = doubtful \cup {p}
    /\ UNCHANGED <<order, seqSeen, result, network, rows, stream>>

\* The insert of the COMPLETED row is inside the try block: if it fails, the
\* payment is treated as refused.
RecordCompleted(p) ==
    /\ pc[p] = "accepted"
    /\ \/ /\ ~TxRecorded(p)
          /\ rows' = rows \cup {SenderRow(p, p, "COMPLETED")}
          /\ Finish(p, "completed")
          /\ UNCHANGED doubtful
       \/ /\ TxRecorded(p) \/ "db" \in Env
          /\ Goto(p, "refused")
          /\ doubtful' = doubtful \cup {p}
          /\ UNCHANGED <<rows, result>>
    /\ UNCHANGED <<order, seqSeen, network, stream>>

\* Mutant: the failure is reported although its insert failed.
RecordFailedAnyway(p) ==
    /\ pc[p] = "refused"
    /\ Finish(p, "failed")
    /\ \/ rows' = rows \cup {SenderRow(p, NoTx, "FAILED")}
       \/ "db" \in Env /\ UNCHANGED rows
    /\ UNCHANGED <<doubtful, order, seqSeen, network, stream>>

RecordFailed(p) ==
    /\ pc[p] = "refused"
    /\ \/ rows' = rows \cup {SenderRow(p, NoTx, "FAILED")} /\ Finish(p, "failed")
       \/ "db" \in Env /\ Finish(p, "error") /\ UNCHANGED rows
    /\ UNCHANGED <<doubtful, order, seqSeen, network, stream>>

-----------------------------------------------------------------------------
(* The Stellar network: external.                                          *)

\* In sequence and affordable: the money moves, and open streams report it.
Apply(p) ==
    /\ chain[p] = "sent"
    /\ seqSeen[p] = sequence[order[p].from]
    /\ Affordable(order[p])
    /\ chain' = [chain EXCEPT ![p] = "applied"]
    /\ balance' = Transfer(order[p])
    /\ sequence' = [sequence EXCEPT ![order[p].from] = @ + 1]
    /\ events' = events \cup Reported(p)
    /\ UNCHANGED <<call, rows, streams, inserted, notified>>

\* Out of sequence: refused for free.  Not affordable: the fee is spent.
Reject(p) ==
    /\ chain[p] = "sent"
    /\ chain' = [chain EXCEPT ![p] = "rejected"]
    /\ \/ /\ seqSeen[p] # sequence[order[p].from]
          /\ UNCHANGED <<balance, sequence>>
       \/ /\ seqSeen[p] = sequence[order[p].from]
          /\ ~Affordable(order[p])
          /\ balance' = [balance EXCEPT ![order[p].from] = IF @ >= Fee THEN @ - Fee ELSE @]
          /\ sequence' = [sequence EXCEPT ![order[p].from] = @ + 1]
    /\ UNCHANGED <<call, rows, stream>>

\* Its time bounds (TX_TIMEOUT_SECONDS) pass before any ledger takes it.
Expire(p) ==
    /\ chain[p] = "sent"
    /\ chain' = [chain EXCEPT ![p] = "expired"]
    /\ UNCHANGED <<call, balance, sequence, rows, stream>>

\* Somebody outside pays a user; no call of ours is involved.
OutsidePays(p) ==
    /\ order[p].from \in Outside
    /\ chain[p] = "none"
    /\ Affordable(order[p])
    /\ chain' = [chain EXCEPT ![p] = "applied"]
    /\ balance' = Transfer(order[p])
    /\ sequence' = [sequence EXCEPT ![order[p].from] = @ + 1]
    /\ events' = events \cup Reported(p)
    /\ UNCHANGED <<call, rows, streams, inserted, notified>>

-----------------------------------------------------------------------------
(* The Horizon streams of the notification service.                        *)

\* startHorizonStreaming: one stream per wallet, from now on.
OpenStreams ==
    /\ "stream" \in Env
    /\ streams # User
    /\ streams' = User
    /\ UNCHANGED <<call, network, rows, events, inserted, notified>>

\* stopAllStreams: a callback that has begun is not stopped by it.
StopStreams ==
    /\ streams # {}
    /\ streams' = {}
    /\ UNCHANGED <<call, network, rows, events, inserted, notified>>

\* The callback records the operation as an inbound payment of the account
\* whose stream it is; a failed insert is logged and dropped.
StreamInsert(e) ==
    /\ e \in events
    /\ events' = events \ {e}
    /\ \/ /\ ~TxRecorded(e[1])
          /\ rows' = rows \cup {StreamRow(e[1], e[2])}
          /\ inserted' = inserted \cup {e}
       \/ /\ TxRecorded(e[1]) \/ "db" \in Env
          /\ UNCHANGED <<rows, inserted>>
    /\ UNCHANGED <<call, network, streams, notified>>

Notify(e) ==
    /\ e \in inserted
    /\ inserted' = inserted \ {e}
    /\ notified' = notified \cup {e}
    /\ UNCHANGED <<call, network, rows, streams, events>>

-----------------------------------------------------------------------------
\* The server stops: calls in progress end without an answer, streams and
\* their unfinished callbacks are gone.  What was sent stays sent.
Crash ==
    /\ "crash" \in Env
    /\ LET running == {p \in Payment : pc[p] \notin {"idle", "done"}} IN
         /\ running \cup streams # {}
         /\ pc' = [p \in Payment |-> IF p \in running THEN "done" ELSE pc[p]]
         /\ result' = [p \in Payment |-> IF p \in running THEN "silence" ELSE result[p]]
    /\ streams' = {} /\ events' = {} /\ inserted' = {}
    /\ UNCHANGED <<doubtful, order, seqSeen, network, rows, notified>>

Proceed(p) ==
    \/ CheckBalance(p)
    \/ Authorise(p)
    \/ LoadSequence(p)
    \/ Submit(p)
    \/ HorizonAnswers(p)
    \/ RecordCompleted(p)
    \/ RecordFailed(p)

Serve(p) == Proceed(p) \/ AnswerLost(p)

Settle(p) ==
    \/ Apply(p)
    \/ Reject(p)
    \/ Expire(p)

Dispatch(e) ==
    \/ StreamInsert(e)
    \/ Notify(e)

Next ==
    \/ \E p \in Payment : Call(p) \/ Serve(p) \/ Settle(p) \/ OutsidePays(p)
    \/ OpenStreams
    \/ StopStreams
    \/ \E e \in Payment \X User : Dispatch(e)
    \/ Crash

\* Handlers and callbacks run to their end, and the network decides and is
\* heard unless an answer is lost.  Nobody has to pay, and the server need not
\* crash.
Fairness ==
    /\ \A p \in Payment : WF_vars(Proceed(p)) /\ WF_vars(Settle(p))
    /\ \A e \in Payment \X User : WF_vars(Dispatch(e))

Spec == Init /\ [][Next]_vars

FairSpec == Spec /\ Fairness

-----------------------------------------------------------------------------
(* Properties.                                                             *)

Completed == {row \in rows : row.status = "COMPLETED"}

\* Whatever the surroundings do, the table claims no more than the network
\* did: a COMPLETED row names a transaction the network applied, and no
\* transaction is claimed by two rows, though the sender's call and two
\* streams all try to record it.
CompletedIsApplied ==
    /\ \A row \in Completed : row.stellarTxId # NoTx /\ chain[row.stellarTxId] = "applied"
    /\ \A x, y \in Completed : x.stellarTxId = y.stellarTxId => x = y

\* A caller who hears "completed" finds the payment in the table with its
\* recipient, and one who hears "failed" finds the failure there: no answer
\* of sendPayment outruns its record.
AnswerIsOnRecord ==
    \A p \in Payment :
        /\ result[p] = "completed" => SenderRow(p, p, "COMPLETED") \in rows
        /\ result[p] = "failed" => SenderRow(p, NoTx, "FAILED") \in rows

\* The payments a sender may rely on, whatever calls, streams, failures and
\* crashes do: sendPayment's "failed" means that the money has not moved and
\* never will, unless the call lost the answer of Horizon or could not insert
\* its COMPLETED row.  Those are the only two ways in which an error of the
\* catch block says nothing about the money.
Ideal == INSTANCE IdealTransfer WITH
    moved <- {p \in Payment : chain[p] = "applied"},
    told <- [p \in Payment |->
               CASE result[p] = "completed" -> "completed"
                 [] result[p] \in {"failed", "turnedDown", "error"} /\ p \notin doubtful -> "failed"
                 [] OTHER -> "nothing"]

ImplementsIdealTransfer == Ideal!Spec

\* Every call of sendPayment ends: its caller hears an answer, or the server
\* went down under it.
CallsEnd == \A p \in Payment : pc[p] = "called" ~> pc[p] = "done"

\* What requirement 5.1 promises of a payment whose recipient is streamed: it
\* comes to stand in the table as COMPLETED and names the recipient, whether
\* the recipient's stream records it or the sender's call.
InboundIsRecorded ==
    \A p \in Payment, u \in User :
        (<<p, u>> \in events /\ u = order[p].to)
            ~> \E row \in Completed : row.stellarTxId = p /\ row.recipientId = u
=============================================================================
