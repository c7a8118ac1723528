----------------------------- MODULE ApiRoutes -----------------------------
(***************************************************************************)
(* The request pipeline of src/app/api: the proxy, the CSRF check, the     *)
(* role guard, the rate limiters and the body schema that stand before     *)
(* every service, and the answer that each route makes of the service's    *)
(* outcome.                                                                *)
(*                                                                         *)
(* The guards of a request run without giving up the processor, up to the  *)
(* body (await request.json()) and the service, so a request is            *)
(*                                                                         *)
(*   Arrive (proxy, csrf, role, limiter, query) -> Body -> Finish          *)
(*                                                                         *)
(* A route is a record of what its handler asks for, in the one order that *)
(* all handlers keep, what its service may raise, and the statuses its     *)
(* catch clause knows.  authRateLimiter and paymentRateLimiter are two     *)
(* instances of one limiter with keys of their own (an address, a user);   *)
(* both are the store of RateLimiter here.                                 *)
(*                                                                         *)
(* The proxy decodes the payload of the token and looks at its expiry; it  *)
(* verifies no signature and asks for no session, and no handler does so   *)
(* after it.  What the guards know of a sender is therefore a claim, here  *)
(* as there: nothing below says whose login a claim comes from.            *)
(***************************************************************************)
EXTENDS RateLimiter

CONSTANTS
    Slot,        \* requests that may be in flight together
    Person,      \* users: the keys of paymentRateLimiter
    Address      \* client addresses: the keys of authRateLimiter

\* The key of every client whose address no header gives.
unknown == "unknown"

ASSUME RoutesAssumption ==
    /\ Key = Person \cup Address \cup {unknown}
    /\ Person \cap (Address \cup {unknown}) = {}

VARIABLE request    \* per slot: the request it serves, or the last it answered

apiVars == <<vars, request>>

Role == {"USER", "MERCHANT", "ADMIN"}

\* What a service may do: complete, refuse and change nothing but a counter of
\* failures, or stop on the way ("upstream": Stellar's side; "broken": ours).
Refusal == {"duplicate", "badCredentials", "inactive", "locked", "wrongPin", "unset",
            "noRecipient", "insufficient", "missing", "noWallet", "slippage", "unreadable"}

Outcome == {"done", "upstream", "broken"} \cup Refusal

-----------------------------------------------------------------------------
(* The routes.                                                             *)

Anyone  == {}
Members == {"USER", "MERCHANT"}

Register ==
    [csrf |-> TRUE, roles |-> Anyone, limiter |-> "address", input |-> "json",
     raises |-> {"duplicate"}, answers |-> [done |-> 201, duplicate |-> 409]]

LoginRoute ==
    [csrf |-> TRUE, roles |-> Anyone, limiter |-> "address", input |-> "json",
     raises |-> {"badCredentials", "inactive", "locked"},
     answers |-> [done |-> 200, badCredentials |-> 401, inactive |-> 401, locked |-> 423]]

\* Mutants: the CSRF check is left out; a lost submission is reported as the
\* client's mistake.
SendPaymentNoCsrf ==
    [csrf |-> FALSE, roles |-> {"USER"}, limiter |-> "user", input |-> "json",
     raises |-> {}, answers |-> [done |-> 200]]

SendPaymentBadRequest ==
    [csrf |-> TRUE, roles |-> {"USER"}, limiter |-> "user", input |-> "json",
     raises |-> {"upstream"}, answers |-> [done |-> 200, upstream |-> 400]]

SendPayment ==
    [csrf |-> TRUE, roles |-> {"USER"}, limiter |-> "user", input |-> "json",
     raises |-> {"noRecipient", "insufficient", "locked", "wrongPin", "unset", "noWallet", "upstream"},
     answers |-> [done |-> 200, noRecipient |-> 404, insufficient |-> 400, locked |-> 423,
                  wrongPin |-> 400, upstream |-> 502]]

PaymentHistory ==
    [csrf |-> FALSE, roles |-> Members, limiter |-> "user", input |-> "query",
     raises |-> {}, answers |-> [done |-> 200]]

WalletDetails ==
    [csrf |-> FALSE, roles |-> Members, limiter |-> "user", input |-> "none",
     raises |-> {"noWallet", "upstream"}, answers |-> [done |-> 200, noWallet |-> 404]]

SetPin ==
    [csrf |-> TRUE, roles |-> Members, limiter |-> "none", input |-> "json",
     raises |-> {}, answers |-> [done |-> 200]]

ResetPin ==
    [csrf |-> TRUE, roles |-> Members, limiter |-> "none", input |-> "json",
     raises |-> {}, answers |-> [done |-> 200]]

VerifyPin ==
    [csrf |-> TRUE, roles |-> Members, limiter |-> "none", input |-> "json",
     raises |-> {"wrongPin", "locked", "unset", "missing"},
     answers |-> [done |-> 200, wrongPin |-> 401, locked |-> 423, unset |-> 400, missing |-> 400]]

ListContacts ==
    [csrf |-> FALSE, roles |-> {"USER"}, limiter |-> "none", input |-> "none",
     raises |-> {}, answers |-> [done |-> 200]]

CreateContact ==
    [csrf |-> TRUE, roles |-> {"USER"}, limiter |-> "none", input |-> "json",
     raises |-> {"missing", "duplicate"},
     answers |-> [done |-> 201, missing |-> 404, duplicate |-> 409]]

UpdateContact ==
    [csrf |-> TRUE, roles |-> {"USER"}, limiter |-> "none", input |-> "json",
     raises |-> {"missing", "duplicate"},
     answers |-> [done |-> 200, missing |-> 404, duplicate |-> 409]]

DeleteContact ==
    [csrf |-> TRUE, roles |-> {"USER"}, limiter |-> "none", input |-> "none",
     raises |-> {"missing"}, answers |-> [done |-> 200, missing |-> 404]]

SearchUsers ==
    [csrf |-> FALSE, roles |-> {"USER"}, limiter |-> "none", input |-> "query",
     raises |-> {}, answers |-> [done |-> 200]]

AdminDashboard ==
    [csrf |-> FALSE, roles |-> {"ADMIN"}, limiter |-> "none", input |-> "none",
     raises |-> {}, answers |-> [done |-> 200]]

AdminUsers ==
    [csrf |-> FALSE, roles |-> {"ADMIN"}, limiter |-> "none", input |-> "query",
     raises |-> {}, answers |-> [done |-> 200]]

SetAccountStatus ==
    [csrf |-> TRUE, roles |-> {"ADMIN"}, limiter |-> "none", input |-> "json",
     raises |-> {"missing"}, answers |-> [done |-> 200, missing |-> 404]]

StaticQR ==
    [csrf |-> FALSE, roles |-> {"MERCHANT"}, limiter |-> "none", input |-> "none",
     raises |-> {"noWallet", "upstream"}, answers |-> [done |-> 200, noWallet |-> 404]]

DynamicQR ==
    [csrf |-> TRUE, roles |-> {"MERCHANT"}, limiter |-> "none", input |-> "json",
     raises |-> {"noWallet", "upstream"}, answers |-> [done |-> 200, noWallet |-> 404]]

ParseQR ==
    [csrf |-> TRUE, roles |-> {"USER"}, limiter |-> "none", input |-> "json",
     raises |-> {"unreadable"}, answers |-> [done |-> 200, unreadable |-> 400]]

EventStream ==
    [csrf |-> FALSE, roles |-> Members, limiter |-> "none", input |-> "none",
     raises |-> {}, answers |-> [done |-> 200]]

DeployContract ==
    [csrf |-> TRUE, roles |-> {"MERCHANT"}, limiter |-> "none", input |-> "json",
     raises |-> {"unreadable", "noWallet", "upstream"},
     answers |-> [done |-> 200, unreadable |-> 400, noWallet |-> 400, upstream |-> 502]]

InvokeContract ==
    [csrf |-> TRUE, roles |-> Members, limiter |-> "none", input |-> "json",
     raises |-> {"noWallet", "upstream"},
     answers |-> [done |-> 200, noWallet |-> 400, upstream |-> 502]]

SimulateContract ==
    [csrf |-> TRUE, roles |-> Members, limiter |-> "none", input |-> "json",
     raises |-> {"upstream"}, answers |-> [done |-> 200, upstream |-> 502]]

CreateToken ==
    [csrf |-> TRUE, roles |-> {"MERCHANT"}, limiter |-> "none", input |-> "json",
     raises |-> {"noWallet", "upstream"},
     answers |-> [done |-> 200, noWallet |-> 400, upstream |-> 502]]

TokenBalances ==
    [csrf |-> FALSE, roles |-> Members, limiter |-> "none", input |-> "none",
     raises |-> {}, answers |-> [done |-> 200]]

\* Of what verifyPin throws, the pool routes know the wrong PIN only: a locked
\* or unset PIN is answered 500.
Deposit ==
    [csrf |-> TRUE, roles |-> {"MERCHANT"}, limiter |-> "none", input |-> "json",
     raises |-> {"wrongPin", "locked", "unset", "noWallet", "upstream"},
     answers |-> [done |-> 200, wrongPin |-> 400, noWallet |-> 400, upstream |-> 502]]

Withdraw ==
    [csrf |-> TRUE, roles |-> {"MERCHANT"}, limiter |-> "none", input |-> "json",
     raises |-> {"wrongPin", "locked", "unset", "noWallet", "upstream"},
     answers |-> [done |-> 200, wrongPin |-> 400, noWallet |-> 400, upstream |-> 502]]

Swap ==
    [csrf |-> TRUE, roles |-> Members, limiter |-> "none", input |-> "json",
     raises |-> {"wrongPin", "locked", "unset", "noWallet", "slippage", "upstream"},
     answers |-> [done |-> 200, wrongPin |-> 400, noWallet |-> 400, slippage |-> 400,
                  upstream |-> 502]]

Positions ==
    [csrf |-> FALSE, roles |-> {"MERCHANT"}, limiter |-> "none", input |-> "none",
     raises |-> {}, answers |-> [done |-> 200]]

Route ==
    [register |-> Register, login |-> LoginRoute,
     send |-> SendPayment, history |-> PaymentHistory, wallet |-> WalletDetails,
     setPin |-> SetPin, resetPin |-> ResetPin, verifyPin |-> VerifyPin,
     listContacts |-> ListContacts, createContact |-> CreateContact,
     updateContact |-> UpdateContact, deleteContact |-> DeleteContact, search |-> SearchUsers,
     dashboard |-> AdminDashboard, users |-> AdminUsers, setStatus |-> SetAccountStatus,
     staticQR |-> StaticQR, dynamicQR |-> DynamicQR, parseQR |-> ParseQR, events |-> EventStream,
     deploy |-> DeployContract, invoke |-> InvokeContract, simulate |-> SimulateContract,
     createToken |-> CreateToken, balances |-> TokenBalances,
     deposit |-> Deposit, withdraw |-> Withdraw, swap |-> Swap, positions |-> Positions]

Name == DOMAIN Route

\* The status of an outcome: what the catch clause knows, or 500.
StatusOf(name, outcome) ==
    IF outcome \in DOMAIN Route[name].answers THEN Route[name].answers[outcome] ELSE 500

-----------------------------------------------------------------------------
(* The guards.                                                             *)

\* What a request shows of its sender.  Its claim is the role that the payload
\* of its token names, "unfit" when the payload is absent, malformed or
\* expired; user is whom the payload names.
Claim == Role \cup {"unfit"}
Sender == [claim : Claim, csrf : BOOLEAN, user : Person, address : Address \cup {unknown}]

\* The proxy stands before every route but those of /api/auth, and lets every
\* claim pass that is fit to read.
Proxied(name, sender) ==
    Route[name].roles # Anyone => sender.claim # "unfit"

\* validateCsrf, where the handler calls it.
CsrfPasses(name, sender) == Route[name].csrf => sender.csrf

RolePasses(name, sender) ==
    Route[name].roles # Anyone => sender.claim \in Route[name].roles

Limited(name) == Route[name].limiter # "none"

\* The first guard that fails decides the status; 0 when none does.
Verdict(name, sender) ==
    IF ~Proxied(name, sender) THEN 401
    ELSE IF ~CsrfPasses(name, sender) \/ ~RolePasses(name, sender) THEN 403
    ELSE 0

LimiterKey(name, sender) ==
    IF Route[name].limiter = "address" THEN sender.address ELSE sender.user

\* A slot: nothing is going on, or the body is read, the service runs, or the
\* answer is out.
Idle == [stage |-> "idle"]

Pending(name, sender) ==
    [stage |-> IF Route[name].input = "json" THEN "body" ELSE "service",
     name |-> name, claim |-> sender.claim, csrf |-> sender.csrf]

Answered(status, outcome) == [stage |-> "answered", status |-> status, outcome |-> outcome]

Free(s) == request[s].stage \in {"idle", "answered"}

\* What a handler without a body does once its guards have passed; a query
\* may be malformed.
Enter(s, name, sender) ==
    \/ request' = [request EXCEPT ![s] = Pending(name, sender)]
    \/ /\ Route[name].input = "query"
       /\ request' = [request EXCEPT ![s] = Answered(400, "none")]

\* A guard before the limiter fails.
TurnAway(s, name, sender) ==
    /\ Free(s)
    /\ Verdict(name, sender) # 0
    /\ request' = [request EXCEPT ![s] = Answered(Verdict(name, sender), "none")]
    /\ UNCHANGED vars

Arrive(s, name, sender) ==
    /\ Free(s)
    /\ Verdict(name, sender) = 0
    /\ ~Limited(name)
    /\ Enter(s, name, sender)
    /\ UNCHANGED vars

\* The limiter counts the request, or turns it away.
ArriveLimited(s, name, sender) ==
    /\ Free(s)
    /\ Verdict(name, sender) = 0
    /\ Limited(name)
    /\ LET key == LimiterKey(name, sender) IN
         /\ Check(key)
         /\ IF last'[key].allowed THEN Enter(s, name, sender)
            ELSE request' = [request EXCEPT ![s] = Answered(429, "none")]

\* The body has arrived: it is not JSON, or not what the schema asks for, or
\* the service is called with it.
Body(s) ==
    /\ request[s].stage = "body"
    /\ \/ request' = [request EXCEPT ![s].stage = "service"]
       \/ request' = [request EXCEPT ![s] = Answered(400, "none")]
    /\ UNCHANGED vars

\* The service returns or throws.
Finish(s) ==
    /\ request[s].stage = "service"
    /\ \E outcome \in {"done", "broken"} \cup Route[request[s].name].raises :
         request' = [request EXCEPT ![s] = Answered(StatusOf(request[s].name, outcome), outcome)]
    /\ UNCHANGED vars

\* The server restarts: the requests it was serving get no answer, and the
\* limiters, which live in its memory, start anew.
Restart ==
    /\ Clear
    /\ request' = [s \in Slot |-> Idle]

Pass == Tick /\ UNCHANGED request

ApiInit == Init /\ request = [s \in Slot |-> Idle]

ApiNext ==
    \/ \E s \in Slot, name \in Name, sender \in Sender :
         \/ TurnAway(s, name, sender)
         \/ Arrive(s, name, sender)
         \/ ArriveLimited(s, name, sender)
    \/ \E s \in Slot : Body(s) \/ Finish(s)
    \/ Restart
    \/ Pass

ApiSpec == ApiInit /\ [][ApiNext]_apiVars

-----------------------------------------------------------------------------
(* Properties.                                                             *)

Status == {200, 201, 400, 401, 403, 404, 409, 423, 429, 500, 502}

\* The types of the variables.
ApiTypeOK ==
    /\ TypeOK
    /\ \A s \in Slot :
         \/ request[s] = Idle
         \/ request[s] \in [stage : {"body", "service"}, name : Name, claim : Claim, csrf : BOOLEAN]
         \/ request[s] \in [stage : {"answered"}, status : Status, outcome : Outcome \cup {"none"}]

\* The routes whose services write rows or send to Stellar.
Changing ==
    {"register", "login", "send", "setPin", "resetPin", "verifyPin", "createContact",
     "updateContact", "deleteContact", "setStatus", "deploy", "invoke", "createToken",
     "deposit", "withdraw", "swap"}

\* No service that changes anything runs for a request without the CSRF token
\* (requirement 13.7), and no service of the administrators for a request that
\* does not claim their role, whichever route was taken and whatever is in
\* flight: the handlers repeat the checks one by one, in 29 files.  It is as
\* much of requirement 12.6 as the code upholds: the claim itself is not
\* verified anywhere.
GuardsBeforeServices ==
    \A s \in Slot : request[s].stage = "service" =>
        /\ request[s].name \in Changing => request[s].csrf
        /\ request[s].name \in {"dashboard", "users", "setStatus"} => request[s].claim = "ADMIN"

\* The answer tells what became of the request: a success is a completed
\* service, a refusal (4xx) one that moved nothing, and a service that stopped
\* on the way is never answered as either.
AnswersTellTheOutcome ==
    \A s \in Slot : request[s].stage = "answered" =>
        /\ request[s].status < 300 <=> request[s].outcome = "done"
        /\ request[s].status \in 400..499 => request[s].outcome \in Refusal \cup {"none"}
=============================================================================
