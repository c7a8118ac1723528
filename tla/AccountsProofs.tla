--------------------------- MODULE AccountsProofs ---------------------------
(***************************************************************************)
(* Proofs about Accounts, for every number of requests, users and names,   *)
(* every threshold, lockout and number of tries.                           *)
(*                                                                         *)
(* Rows are inserted by registrations and never removed or renamed, so     *)
(* what a request has found out about the table stays true while it is     *)
(* suspended, all but the two things others may change: the counter and    *)
(* the status.  Each of them has an invariant of its own on top of the     *)
(* stages.                                                                 *)
(***************************************************************************)
EXTENDS Accounts, FiniteSetTheorems, TLAPS

\* Registrations whose row was inserted.
Inserted(r) ==
    \/ pc[r] \in {"funding", "storing"}
    \/ call[r].op = "register" /\ (pc[r] = "signing" \/ answer[r] = "registered")

\* Logins that have found their row.
Found(r) ==
    \/ pc[r] \in {"comparing", "writing"}
    \/ call[r].op = "login" /\ (pc[r] = "signing" \/ answer[r] \in {"wrong", "token"})

\* Which operation a request is in, by its stage and by its answer.
Within(r) ==
    /\ pc[r] = "idle" <=> call[r].op = "none"
    /\ pc[r] # "done" => answer[r] = "none"
    /\ pc[r] \in {"checkName", "checkEmail", "creating", "funding", "storing"}
         \/ answer[r] = "registered" => call[r].op = "register"
    /\ pc[r] \in {"reading", "comparing", "writing"} \/ answer[r] \in {"wrong", "locked", "token"}
         => call[r].op = "login"
    /\ pc[r] = "signing" => call[r].op \in {"register", "login"}
    /\ pc[r] \in {"finding", "deciding"} => call[r].op = "status"

\* What it has found out about the table, or done to it.
Knows(r) ==
    /\ Inserted(r) => r \in registered /\ profile[r] = call[r].name
    /\ r \in registered => /\ call[r].op = "register"
                           /\ pc[r] \notin {"checkName", "checkEmail", "creating"}
    /\ pc[r] \in {"idle", "checkName", "checkEmail", "creating"} => tries[r] = 0
    /\ pc[r] = "funding" => tries[r] < MaxTries
    /\ pc[r] = "storing" => r \in funded
    /\ call[r].op = "register" /\ (pc[r] = "signing" \/ answer[r] = "registered") => r \in wallets
    /\ Found(r) => seen[r].user \in registered

At(r) == Within(r) /\ Knows(r)

StageInv == TypeOK /\ \A r \in Request : At(r)

\* A counter and a lock that agree.
Agree(c) == c.failed <= MaxFailed /\ (c.lockedUntil # NoLock <=> c.failed = MaxFailed)

\* A row's counter is covered by the wrong passwords on record.
RowAgrees(u) ==
    /\ Agree(login[u])
    /\ IsFiniteSet(WrongAttempts(u))
    /\ login[u].failed <= Cardinality(WrongAttempts(u))

\* So is a counter that a request has read, and below the limit; one that is
\* to be written counts its own attempt at most on top of those on record.
Held(r) ==
    /\ pc[r] = "comparing" =>
         /\ seen[r].counter.failed < MaxFailed
         /\ seen[r].counter.failed <= Cardinality(WrongAttempts(seen[r].user))
    /\ pc[r] = "writing" /\ call[r].right => seen[r].counter = Cleared
    /\ pc[r] = "writing" /\ ~call[r].right =>
         /\ Agree(seen[r].counter)
         /\ seen[r].counter.failed <= Cardinality(WrongAttempts(seen[r].user)) + 1
    /\ answer[r] = "locked" =>
         \E u \in registered : /\ profile[u].email = call[r].email
                               /\ Cardinality(WrongAttempts(u)) >= MaxFailed

CounterInv == (\A u \in User : RowAgrees(u)) /\ (\A r \in Request : Held(r))

\* The inactive account that a login l is about to read.
Barred(l) == \E u \in registered : profile[u].email = call[l].email /\ status[u] = "INACTIVE"

\* A login that was shut out is done, without a token, or is about to read
\* that account.
ShutOutInv ==
    \A l \in shutOut : /\ pc[l] \in {"reading", "done"} /\ answer[l] # "token"
                       /\ pc[l] = "reading" => Barred(l)

-----------------------------------------------------------------------------
(* Types and stages.                                                       *)

\* The fields of a call, by its operation.
LEMMA CallFields ==
  ASSUME NEW c \in Call
  PROVE  /\ c.op \in {"none", "register", "login", "status"}
         /\ c.op = "register" => c.name \in Profile
         /\ c.op = "login" => c.email \in Name /\ c.right \in BOOLEAN
         /\ c.op = "status" => c.target \in User /\ c.to \in {"ACTIVE", "INACTIVE"}
<1>1. CASE c \in [op : {"register"}, name : Profile]
  BY <1>1
<1>2. CASE c \in [op : {"login"}, email : Name, right : BOOLEAN]
  BY <1>2
<1>3. CASE c \in [op : {"status"}, target : User, to : {"ACTIVE", "INACTIVE"}]
  BY <1>3
<1>4. CASE c = [op |-> "none"]
  BY <1>4
<1> QED
  BY <1>1, <1>2, <1>3, <1>4 DEF Call

\* A counter without failures, and the one after a wrong password.
LEMMA CounterTypes ==
  ASSUME TypeOK, NEW n \in Nat
  PROVE  Cleared \in Counter /\ AfterWrong(n) \in Counter
         /\ [Cleared EXCEPT !.failed = n] \in Counter
BY AccountAssumption DEF TypeOK, Cleared, Counter, AfterWrong

\* The initial state has its types, and every request is at its start.
LEMMA InitStageInv == Init => StageInv
<1> SUFFICES ASSUME Init PROVE StageInv
  OBVIOUS
<1>1. Cleared \in Counter
  BY DEF Cleared, Counter
<1>2. login \in [User -> Counter]
  BY <1>1 DEF Init
<1>3. profile \in [User -> Profile \cup {[username |-> NoOne, email |-> NoOne]}]
  BY AccountAssumption DEF Init, Profile
<1>4. seen \in [Request -> [user : User \cup {NoOne}, counter : Counter]]
  <2>1. [user |-> NoOne, counter |-> Cleared] \in [user : User \cup {NoOne}, counter : Counter]
    BY <1>1
  <2> QED
    BY <2>1 DEF Init
<1>5. call \in [Request -> Call]
  BY DEF Init, Call
<1>6. TypeOK
  BY <1>2, <1>3, <1>4, <1>5, AccountAssumption DEF Init, TypeOK, Stage, Answer, User
<1>7. \A r \in Request : At(r)
  BY AccountAssumption DEF Init, At, Within, Knows, Inserted, Found
<1> QED
  BY <1>6, <1>7 DEF StageInv

\* What a step of one request leaves of another.
Same(s) ==
    /\ pc'[s] = pc[s] /\ call'[s] = call[s] /\ seen'[s] = seen[s] /\ tries'[s] = tries[s]
    /\ answer'[s] = answer[s]

\* What it leaves of the table: rows are added, its own only, and keep their
\* names; wallets and funded keys are kept.
Grown(r) ==
    /\ registered \subseteq registered' /\ registered' \subseteq registered \cup {r}
    /\ \A u \in registered : profile'[u] = profile[u]
    /\ wallets \subseteq wallets' /\ funded \subseteq funded'

Moved(r) == TypeOK' /\ At(r)' /\ Grown(r) /\ \A s \in Request \ {r} : Same(s)

\* A request begins: with a call of one of the three operations.
LEMMA StartMoves ==
  ASSUME StageInv, NEW r \in Request, Start(r)
  PROVE  Moved(r) /\ pc[r] = "idle" /\ answer'[r] = "none"
         /\ pc'[r] \in {"checkName", "reading", "finding"}
<1>0. TypeOK /\ At(r)
  BY DEF StageInv
<1>1. PICK c \in Call, stage \in {"checkName", "reading", "finding"} :
         /\ Begin(r, c, stage)
         /\ c.op = IF stage = "checkName" THEN "register"
                   ELSE IF stage = "reading" THEN "login" ELSE "status"
  <2>1. CASE Register(r)
    <3> PICK p \in Profile : Begin(r, [op |-> "register", name |-> p], "checkName")
      BY <2>1 DEF Register
    <3> QED
      BY DEF Call
  <2>2. CASE Login(r)
    <3> PICK e \in Name, right \in BOOLEAN :
          Begin(r, [op |-> "login", email |-> e, right |-> right], "reading")
      BY <2>2 DEF Login
    <3> QED
      BY DEF Call
  <2>3. CASE SetStatus(r)
    <3> PICK u \in User, to \in {"ACTIVE", "INACTIVE"} :
          Begin(r, [op |-> "status", target |-> u, to |-> to], "finding")
      BY <2>3 DEF SetStatus
    <3> QED
      BY DEF Call
  <2> QED
    BY <2>1, <2>2, <2>3 DEF Start
<1>2. shutOut' \subseteq Request
  BY <1>0 DEF Start, Register, Login, SetStatus, TypeOK
<1>3. TypeOK'
  BY <1>0, <1>1, <1>2 DEF Begin, Goto, table, TypeOK, Stage
<1>4. At(r)'
  BY <1>0, <1>1 DEF Begin, Goto, table, TypeOK, At, Within, Knows, Inserted, Found
<1> QED
  BY <1>0, <1>1, <1>3, <1>4 DEF Begin, Goto, table, TypeOK, Moved, Same, Grown, At, Within

\* The queries of a registration, and a query that rejects: the request moves
\* on or ends.
LEMMA QueryMoves ==
  ASSUME StageInv, NEW r \in Request,
         CheckUsername(r) \/ CheckEmail(r) \/ FindTarget(r) \/ QueryFails(r)
  PROVE  Moved(r)
<1>0. TypeOK /\ At(r)
  BY DEF StageInv
<1>1. TypeOK'
  BY <1>0
     DEF CheckUsername, CheckEmail, FindTarget, QueryFails, Finish, Goto, table, TypeOK,
         Stage, Answer
<1>2. At(r)'
  BY <1>0
     DEF CheckUsername, CheckEmail, FindTarget, QueryFails, Finish, Goto, table, TypeOK,
         At, Within, Knows, Inserted, Found
<1> QED
  BY <1>0, <1>1, <1>2
     DEF CheckUsername, CheckEmail, FindTarget, QueryFails, Finish, Goto, table, TypeOK,
         Moved, Same, Grown

\* The insert of a user: r had no row before.
LEMMA CreateMoves ==
  ASSUME StageInv, NEW r \in Request, CreateUser(r)
  PROVE  Moved(r)
<1>0. TypeOK /\ At(r) /\ call[r] \in Call /\ r \in User
  BY DEF StageInv, TypeOK, User
<1>1. pc[r] = "creating" /\ r \notin registered /\ call[r].op = "register"
  BY <1>0 DEF CreateUser, At, Within, Knows
<1>2. call[r].name \in Profile
  BY <1>0, <1>1, CallFields
<1>a. CASE Finish(r, "error") /\ UNCHANGED <<registered, profile>>
  <2>1. TypeOK'
    BY <1>0, <1>a DEF CreateUser, Finish, Goto, TypeOK, Stage, Answer
  <2>2. At(r)'
    BY <1>0, <1>1, <1>a
       DEF CreateUser, Finish, Goto, TypeOK, At, Within, Knows, Inserted, Found
  <2> QED
    BY <1>0, <1>a, <2>1, <2>2 DEF CreateUser, Finish, Goto, TypeOK, Moved, Same, Grown
<1>b. CASE /\ registered' = registered \cup {r}
           /\ profile' = [profile EXCEPT ![r] = call[r].name]
           /\ Goto(r, "funding")
           /\ UNCHANGED answer
  <2>1. profile' \in [User -> Profile \cup {[username |-> NoOne, email |-> NoOne]}]
    BY <1>0, <1>2, <1>b DEF TypeOK
  <2>2. \A u \in registered : profile'[u] = profile[u]
    BY <1>0, <1>1, <1>b DEF TypeOK
  <2>4. pc' \in [Request -> Stage] /\ pc'[r] = "funding"
    BY <1>0, <1>b DEF Goto, TypeOK, Stage
  <2>5. TypeOK'
    BY <1>0, <1>b, <2>1, <2>4 DEF CreateUser, TypeOK
  <2>6. profile'[r] = call'[r].name /\ r \in registered'
    BY <1>0, <1>b DEF CreateUser, TypeOK
  <2>7. Within(r)'
    BY <1>0, <1>1, <1>b, <2>4 DEF CreateUser, At, Within
  <2>8. Knows(r)'
    BY <1>0, <1>1, <1>b, <2>4, <2>6, <2>7, AccountAssumption
       DEF CreateUser, TypeOK, At, Within, Knows, Inserted, Found
  <2> QED
    BY <1>0, <1>b, <2>2, <2>5, <2>7, <2>8 DEF CreateUser, Goto, TypeOK, Moved, Same, Grown, At
<1> QED
  BY <1>a, <1>b DEF CreateUser

\* An attempt to fund: the last one that fails ends the request.
LEMMA FundMoves ==
  ASSUME StageInv, NEW r \in Request, Fund(r)
  PROVE  Moved(r)
<1>0. /\ TypeOK /\ At(r) /\ pc[r] = "funding" /\ tries[r] \in Nat /\ tries[r] < MaxTries
      /\ MaxTries \in Nat /\ r \in User
  BY AccountAssumption DEF StageInv, TypeOK, Fund, At, Knows, User
<1>1. funded' \subseteq User /\ funded \subseteq funded'
  BY <1>0 DEF Fund, Friendbot, TypeOK
<1>2. CASE Friendbot(r, TRUE) /\ Goto(r, "storing") /\ UNCHANGED <<tries, answer>>
  <2>1. TypeOK'
    BY <1>0, <1>1, <1>2 DEF Fund, Goto, table, TypeOK, Stage
  <2>2. At(r)'
    BY <1>0, <1>2
       DEF Fund, Friendbot, Goto, table, TypeOK, At, Within, Knows, Inserted, Found
  <2> QED
    BY <1>0, <1>1, <1>2, <2>1, <2>2 DEF Fund, Goto, table, TypeOK, Moved, Same, Grown
<1>3. CASE /\ tries' = [tries EXCEPT ![r] = @ + 1]
           /\ IF tries[r] + 1 = MaxTries THEN Finish(r, "error") ELSE UNCHANGED <<pc, answer>>
  <2>1. tries' \in [Request -> 0..MaxTries]
        /\ (tries[r] + 1 # MaxTries => tries'[r] < MaxTries)
    BY <1>0, <1>3 DEF TypeOK
  <2>2. TypeOK'
    BY <1>0, <1>1, <1>3, <2>1 DEF Fund, Finish, Goto, table, TypeOK, Stage, Answer
  <2>3. At(r)'
    BY <1>0, <1>3, <2>1
       DEF Fund, Finish, Goto, table, TypeOK, At, Within, Knows, Inserted, Found
  <2> QED
    BY <1>0, <1>1, <1>3, <2>2, <2>3
       DEF Fund, Finish, Goto, table, TypeOK, Moved, Same, Grown
<1> QED
  BY <1>2, <1>3 DEF Fund

\* The insert of a wallet.
LEMMA StoreMoves ==
  ASSUME StageInv, NEW r \in Request, StoreWallet(r)
  PROVE  Moved(r)
<1>0. TypeOK /\ At(r) /\ pc[r] = "storing" /\ r \in registered /\ call[r].op = "register"
  BY DEF StageInv, StoreWallet, At, Within, Knows, Inserted
<1>1. TypeOK'
  BY <1>0 DEF StoreWallet, Goto, TypeOK, Stage
<1>2. At(r)'
  BY <1>0 DEF StoreWallet, Goto, TypeOK, At, Within, Knows, Inserted, Found
<1> QED
  BY <1>0, <1>1, <1>2 DEF StoreWallet, Goto, TypeOK, Moved, Same, Grown

\* The read of a row by login.
LEMMA ReadLoginMoves ==
  ASSUME StageInv, NEW r \in Request, ReadLogin(r)
  PROVE  Moved(r)
<1>0. TypeOK /\ At(r) /\ pc[r] = "reading"
  BY DEF StageInv, ReadLogin
<1>1. CASE \E what \in {"invalid", "locked"} : Finish(r, what) /\ UNCHANGED seen
  <2>1. TypeOK'
    BY <1>0, <1>1 DEF ReadLogin, Finish, Goto, table, TypeOK, Stage, Answer
  <2>2. At(r)'
    BY <1>0, <1>1
       DEF ReadLogin, Finish, Goto, table, TypeOK, At, Within, Knows, Inserted, Found
  <2> QED
    BY <1>0, <1>1, <2>1, <2>2
       DEF ReadLogin, Finish, Goto, table, TypeOK, Moved, Same, Grown
<1>2. CASE \E u \in registered, counter \in Counter :
             /\ seen' = [seen EXCEPT ![r] = [user |-> u, counter |-> counter]]
             /\ Goto(r, "comparing") /\ UNCHANGED answer
  <2> PICK u \in registered, counter \in Counter :
             /\ seen' = [seen EXCEPT ![r] = [user |-> u, counter |-> counter]]
             /\ Goto(r, "comparing") /\ UNCHANGED answer
    BY <1>2
  <2>1. seen' \in [Request -> [user : User \cup {NoOne}, counter : Counter]]
    BY <1>0 DEF TypeOK
  <2>2. seen'[r].user \in registered
    BY <1>0 DEF TypeOK
  <2>3. TypeOK'
    BY <1>0, <2>1 DEF ReadLogin, Goto, table, TypeOK, Stage
  <2>4. At(r)'
    BY <1>0, <2>2
       DEF ReadLogin, Goto, table, TypeOK, At, Within, Knows, Inserted, Found
  <2> QED
    BY <1>0, <2>3, <2>4 DEF ReadLogin, Goto, table, TypeOK, Moved, Same, Grown
<1>3. \A u \in registered : [Cleared EXCEPT !.failed = EffectiveAttempts(u)] \in Counter
  <2> SUFFICES ASSUME NEW u \in registered
               PROVE  [Cleared EXCEPT !.failed = EffectiveAttempts(u)] \in Counter
    OBVIOUS
  <2>1. EffectiveAttempts(u) \in Nat
    BY <1>0 DEF TypeOK, Counter, EffectiveAttempts
  <2> QED
    BY <1>0, <2>1, CounterTypes
<1> QED
  BY <1>1, <1>2, <1>3 DEF ReadLogin

\* The comparison, after which what is to be written is a counter.
LEMMA CompareMoves ==
  ASSUME StageInv, NEW r \in Request, ComparePassword(r)
  PROVE  /\ Moved(r) /\ seen'[r].user = seen[r].user /\ answer'[r] = "none"
         /\ seen'[r].counter = IF call[r].right THEN Cleared
                               ELSE AfterWrong(seen[r].counter.failed + 1)
<1>0. TypeOK /\ At(r) /\ pc[r] = "comparing" /\ answer[r] = "none" /\ seen[r].user \in registered
      /\ seen[r] \in [user : User \cup {NoOne}, counter : Counter]
  BY DEF StageInv, ComparePassword, At, Within, Knows, Found, TypeOK
<1> DEFINE new == IF call[r].right THEN Cleared ELSE AfterWrong(seen[r].counter.failed + 1)
<1>1. new \in Counter
  <2>1. seen[r].counter.failed + 1 \in Nat
    BY <1>0 DEF Counter
  <2> QED
    BY <1>0, <2>1, CounterTypes
<1>2. seen' = [seen EXCEPT ![r].counter = new]
  BY DEF ComparePassword
<1> HIDE DEF new
<1>3. seen' \in [Request -> [user : User \cup {NoOne}, counter : Counter]]
  BY <1>0, <1>1, <1>2 DEF TypeOK
<1>4. seen'[r].user = seen[r].user /\ seen'[r].counter = new
  BY <1>0, <1>2 DEF TypeOK
<1>5. TypeOK'
  BY <1>0, <1>3 DEF ComparePassword, Goto, table, TypeOK, Stage
<1>6. At(r)'
  BY <1>0, <1>4
     DEF ComparePassword, Goto, table, TypeOK, At, Within, Knows, Inserted, Found
<1>7. \A s \in Request \ {r} : seen'[s] = seen[s]
  BY <1>0, <1>2 DEF TypeOK
<1>8. Moved(r)
  BY <1>0, <1>5, <1>6, <1>7 DEF ComparePassword, Goto, table, TypeOK, Moved, Same, Grown
<1> QED
  BY <1>0, <1>4, <1>8 DEF ComparePassword, new

\* The writes of a row: by login, which has found it, and by an admin.
LEMMA WriteMoves ==
  ASSUME StageInv, NEW r \in Request, WriteAttempt(r) \/ WriteStatus(r)
  PROVE  Moved(r)
<1>0. TypeOK /\ At(r)
  BY DEF StageInv
<1>1. CASE WriteAttempt(r)
  <2>1. seen[r].user \in User /\ seen[r].counter \in Counter /\ call[r].op = "login"
    BY <1>0, <1>1 DEF WriteAttempt, TypeOK, At, Within, Knows, Found
  <2>2. login' \in [User -> Counter]
    BY <1>0, <1>1, <2>1 DEF WriteAttempt, TypeOK
  <2>3. TypeOK'
    BY <1>0, <1>1, <2>2 DEF WriteAttempt, Finish, Goto, TypeOK, Stage, Answer
  <2>4. At(r)'
    BY <1>0, <1>1, <2>1
       DEF WriteAttempt, Finish, Goto, TypeOK, At, Within, Knows, Inserted, Found
  <2> QED
    BY <1>0, <1>1, <2>3, <2>4 DEF WriteAttempt, Finish, Goto, TypeOK, Moved, Same, Grown
<1>2. CASE WriteStatus(r)
  <2>1. call[r].op = "status" /\ call[r] \in Call
    BY <1>0, <1>2 DEF WriteStatus, At, Within, TypeOK
  <2>2. call[r].target \in User /\ call[r].to \in {"ACTIVE", "INACTIVE"}
    BY <2>1, CallFields
  <2>3. status' \in [User -> {"ACTIVE", "INACTIVE"}] /\ shutOut' \subseteq Request
    BY <1>0, <1>2, <2>2 DEF WriteStatus, TypeOK
  <2>4. TypeOK'
    BY <1>0, <1>2, <2>3 DEF WriteStatus, Finish, Goto, TypeOK, Stage, Answer
  <2>5. At(r)'
    BY <1>0, <1>2, <2>1
       DEF WriteStatus, Finish, Goto, TypeOK, At, Within, Knows, Inserted, Found
  <2> QED
    BY <1>0, <1>2, <2>4, <2>5 DEF WriteStatus, Finish, Goto, TypeOK, Moved, Same, Grown
<1> QED
  BY <1>1, <1>2

\* The signature of a token.
LEMMA SignMoves ==
  ASSUME StageInv, NEW r \in Request, Sign(r)
  PROVE  Moved(r)
<1>0. TypeOK /\ At(r)
  BY DEF StageInv
<1>1. TypeOK'
  BY <1>0 DEF Sign, Finish, Goto, table, TypeOK, Stage, Answer
<1>2. At(r)'
  BY <1>0 DEF Sign, Finish, Goto, table, TypeOK, At, Within, Knows, Inserted, Found
<1> QED
  BY <1>0, <1>1, <1>2 DEF Sign, Finish, Goto, table, TypeOK, Moved, Same, Grown

\* A step of one request.
StepOf(r) == Start(r) \/ Proceed(r) \/ QueryFails(r)

\* All of them.
LEMMA StepMoves ==
  ASSUME StageInv, NEW r \in Request, StepOf(r)
  PROVE  Moved(r)
BY StartMoves, QueryMoves, CreateMoves, FundMoves, StoreMoves, ReadLoginMoves, CompareMoves,
   WriteMoves, SignMoves
   DEF StepOf, Proceed

\* A step is one request's, or the clock's, or none.
LEMMA NextCases ==
  ASSUME [Next]_vars
  PROVE  \/ \E r \in Request : StepOf(r)
         \/ Tick
         \/ UNCHANGED vars
BY DEF Next, StepOf

\* What no step but a request's changes.
LEMMA OthersKeep ==
  ASSUME Tick \/ UNCHANGED vars
  PROVE  /\ UNCHANGED <<registered, profile, login, status, wallets, funded, pc, call, seen, tries,
                        answer, shutOut>>
BY DEF Tick, vars, table, handler

\* Each request keeps to its stages, and what it has found out stays so.
LEMMA NextStageInv == StageInv /\ [Next]_vars => StageInv'
<1> SUFFICES ASSUME StageInv, [Next]_vars PROVE StageInv'
  OBVIOUS
<1>1. CASE \E r \in Request : StepOf(r)
  <2> PICK r \in Request : StepOf(r)
    BY <1>1
  <2>1. Moved(r)
    BY StepMoves
  <2>2. ASSUME NEW s \in Request \ {r} PROVE At(s)'
    <3>1. At(s) /\ Same(s) /\ Grown(r)
      BY <2>1 DEF Moved, StageInv
    <3>2. s \in registered' => s \in registered
      BY <3>1 DEF Grown
    <3>3. Within(s)'
      BY <3>1 DEF Same, At, Within
    <3>4. Knows(s)'
      BY <3>1, <3>2 DEF Same, Grown, At, Knows, Inserted, Found
    <3> QED
      BY <3>3, <3>4 DEF At
  <2> QED
    BY <2>1, <2>2 DEF Moved, StageInv
<1>2. CASE Tick \/ UNCHANGED vars
  <2>1. \A r \in Request : At(r)'
    BY <1>2, OthersKeep DEF StageInv, At, Within, Knows, Inserted, Found
  <2>2. TypeOK
    BY DEF StageInv
  <2>3. TypeOK'
    <3>1. CASE Tick
      BY <2>2, <3>1 DEF Tick, table, handler, TypeOK
    <3>2. CASE UNCHANGED vars
      BY <2>2, <3>2 DEF vars, table, handler, TypeOK
    <3> QED
      BY <1>2, <3>1, <3>2
  <2> QED
    BY <2>1, <2>3 DEF StageInv
<1> QED
  BY <1>1, <1>2, NextCases

\* The invariant of types and stages.
LEMMA StagesKept == Spec => []StageInv
BY InitStageInv, NextStageInv, PTL DEF Spec

\* Type correctness: whatever the requests and the PIN service do, the rows
\* and the handlers' locals keep their shape, and every wallet has a user.
THEOREM TypeCorrect == Spec => []TypeOK
<1>1. StageInv => TypeOK
  BY DEF StageInv
<1> QED
  BY <1>1, StagesKept, PTL

-----------------------------------------------------------------------------
(* Registrations.                                                          *)

\* Names are unique, and wallets have funded keys.
WholeInv ==
    /\ \A u, v \in registered :
         profile[u].username = profile[v].username \/ profile[u].email = profile[v].email => u = v
    /\ wallets \subseteq funded

\* Only the insert adds a row, and it is refused for a name that is taken by
\* then; only a funded key gets its wallet.
LEMMA NextWholeInv == StageInv /\ WholeInv /\ [Next]_vars => WholeInv'
<1> SUFFICES ASSUME StageInv, WholeInv, [Next]_vars PROVE WholeInv'
  OBVIOUS
<1>1. CASE \E r \in Request : StepOf(r)
  <2> PICK r \in Request : StepOf(r)
    BY <1>1
  <2>0. TypeOK /\ At(r) /\ Grown(r)
    BY StepMoves DEF StageInv, Moved
  <2>1. CASE registered' = registered
    <3>1. wallets' = wallets \/ (wallets' = wallets \cup {r} /\ r \in funded)
      BY <2>0
         DEF StepOf, Start, Register, Login, SetStatus, Begin, Proceed, CheckUsername, CheckEmail,
             CreateUser, Fund, StoreWallet, ReadLogin, ComparePassword, WriteAttempt, Sign,
             FindTarget, WriteStatus, QueryFails, table, At, Knows
    <3> QED
      BY <2>0, <2>1, <3>1 DEF WholeInv, Grown
  <2>2. CASE registered' # registered
    <3>1. CreateUser(r)
      BY <2>2
         DEF StepOf, Start, Register, Login, SetStatus, Begin, Proceed, CheckUsername, CheckEmail,
             Fund, StoreWallet, ReadLogin, ComparePassword, WriteAttempt, Sign, FindTarget,
             WriteStatus, QueryFails, table
    <3>2. /\ ~NameTaken(call[r].name.username) /\ ~EmailTaken(call[r].name.email)
          /\ registered' = registered \cup {r} /\ profile' = [profile EXCEPT ![r] = call[r].name]
          /\ wallets' = wallets /\ funded' = funded
      BY <2>2, <3>1 DEF CreateUser
    <3>3. profile'[r] = call[r].name
      BY <2>0, <3>2 DEF TypeOK, User
    <3>4. \A u \in registered : /\ profile'[u] = profile[u]
                               /\ profile[u].username # profile'[r].username
                               /\ profile[u].email # profile'[r].email
      BY <2>0, <3>2, <3>3 DEF Grown, NameTaken, EmailTaken
    <3> QED
      BY <3>2, <3>4 DEF WholeInv
  <2> QED
    BY <2>1, <2>2
<1>2. CASE Tick \/ UNCHANGED vars
  BY <1>2, OthersKeep DEF WholeInv
<1> QED
  BY <1>1, <1>2, NextCases

\* The members' names differ.
LEMMA InitWholeInv == Init => WholeInv
BY AccountAssumption DEF Init, WholeInv, User

\* The invariant of registrations.
LEMMA WholeKept == Spec => []WholeInv
BY InitWholeInv, NextWholeInv, StagesKept, PTL DEF Spec

\* However registrations interleave, who was told of success has an account
\* of that name alone, with a wallet whose key is funded.
THEOREM RegisteredIsAlwaysWhole == Spec => []RegisteredIsWhole
<1>1. StageInv /\ WholeInv => RegisteredIsWhole
  BY DEF StageInv, At, Within, Knows, Inserted, WholeInv, RegisteredIsWhole
<1> QED
  BY <1>1, StagesKept, WholeKept, PTL

-----------------------------------------------------------------------------
(* Status.                                                                 *)

\* Which steps write the status, and which change who is shut out.
LEMMA StatusWriters ==
  ASSUME NEW r \in Request, StepOf(r), ~WriteStatus(r)
  PROVE  status' = status /\ (shutOut' = shutOut \/ Login(r))
BY DEF StepOf, Start, Register, Login, SetStatus, Begin, Proceed, CheckUsername, CheckEmail,
       CreateUser, Fund, StoreWallet, ReadLogin, ComparePassword, WriteAttempt, Sign, FindTarget,
       QueryFails, table

\* The account is still there and inactive after a step of another request that does
\* not take l off the list.
LEMMA BarredStays ==
  ASSUME StageInv, NEW r \in Request, StepOf(r), NEW l \in shutOut', l \in Request \ {r}, Barred(l)
  PROVE  Barred(l)'
<1>0. TypeOK /\ Grown(r) /\ Same(l)
  BY StepMoves DEF StageInv, Moved
<1>1. PICK u \in registered : profile[u].email = call[l].email /\ status[u] = "INACTIVE"
  BY DEF Barred
<1>2. u \in registered' /\ profile'[u].email = call'[l].email
  BY <1>0, <1>1 DEF Grown, Same
<1>3. status'[u] = "INACTIVE"
  <2>1. CASE ~WriteStatus(r)
    BY <1>1, <2>1, StatusWriters
  <2>2. CASE WriteStatus(r) /\ call[r].to = "INACTIVE"
    BY <1>0, <1>1, <2>2 DEF WriteStatus, TypeOK
  <2>3. CASE WriteStatus(r) /\ call[r].to # "INACTIVE"
    <3>1. profile[call[r].target].email # call[l].email
      BY <2>3 DEF WriteStatus
    <3> QED
      BY <1>0, <1>1, <2>3, <3>1 DEF WriteStatus, TypeOK
  <2> QED
    BY <2>1, <2>2, <2>3
<1> QED
  BY <1>2, <1>3 DEF Barred

\* A login that reads an inactive account is refused: the e-mail is nobody
\* else's.
LEMMA ShutOutReads ==
  ASSUME StageInv, WholeInv, NEW r \in Request, ReadLogin(r), Barred(r)
  PROVE  pc'[r] = "done" /\ answer'[r] \in {"invalid", "locked"}
<1>0. TypeOK
  BY DEF StageInv
<1>1. PICK v \in registered : profile[v].email = call[r].email /\ status[v] = "INACTIVE"
  BY DEF Barred
<1>2. \A u \in registered : profile[u].email = call[r].email => u = v
  BY <1>1 DEF WholeInv
<1>3. \E what \in {"invalid", "locked"} : Finish(r, what)
  BY <1>1, <1>2 DEF ReadLogin
<1> QED
  BY <1>0, <1>3 DEF Finish, Goto, TypeOK

\* Nobody is let in who was shut out.
LEMMA NextShutOutInv == StageInv /\ WholeInv /\ ShutOutInv /\ [Next]_vars => ShutOutInv'
<1> SUFFICES ASSUME StageInv, WholeInv, ShutOutInv, [Next]_vars PROVE ShutOutInv'
  OBVIOUS
<1>0. TypeOK
  BY DEF StageInv
<1>1. CASE \E r \in Request : StepOf(r)
  <2> PICK r \in Request : StepOf(r)
    BY <1>1
  <2>0. Moved(r) /\ At(r)
    BY StepMoves DEF StageInv
  <2> SUFFICES ASSUME NEW l \in shutOut'
               PROVE  /\ pc'[l] \in {"reading", "done"} /\ answer'[l] # "token"
                      /\ pc'[l] = "reading" => Barred(l)'
    BY DEF ShutOutInv
  <2>1. l \in Request
    BY <2>0 DEF Moved, TypeOK
  <2>2. CASE l # r
    <3>1. l \in shutOut
      <4>1. Login(r) => shutOut' \subseteq shutOut \cup {r}
        BY DEF Login
      <4>2. WriteStatus(r) => shutOut' \subseteq shutOut
        BY DEF WriteStatus
      <4> QED
        BY <2>2, <4>1, <4>2, StatusWriters
    <3>2. pc[l] = "reading" => Barred(l)
      BY <3>1 DEF ShutOutInv
    <3>3. Same(l)
      BY <2>0, <2>1, <2>2 DEF Moved
    <3>4. pc[l] = "reading" => Barred(l)'
      BY <2>1, <2>2, <3>2, BarredStays
    <3> QED
      BY <3>1, <3>3, <3>4 DEF Same, ShutOutInv
  <2>3. CASE l = r /\ Start(r)
    <3>1. pc[r] = "idle" /\ answer'[r] = "none"
      BY <2>3, StartMoves
    <3>2. r \notin shutOut
      BY <3>1 DEF ShutOutInv
    <3>3. Login(r)
      BY <2>3, <3>2 DEF Start, Register, SetStatus
    <3>4. PICK e \in Name, right \in BOOLEAN :
             /\ Begin(r, [op |-> "login", email |-> e, right |-> right], "reading")
             /\ shutOut' = IF \E u \in registered : profile[u].email = e /\ status[u] = "INACTIVE"
                           THEN shutOut \cup {r} ELSE shutOut
      BY <3>3 DEF Login
    <3>5. PICK u \in registered : profile[u].email = e /\ status[u] = "INACTIVE"
      BY <2>3, <3>2, <3>4
    <3>6. pc'[r] = "reading" /\ call'[r].email = e /\ UNCHANGED <<registered, profile, status>>
      BY <1>0, <3>4 DEF Begin, Goto, table, TypeOK
    <3> QED
      BY <2>3, <3>1, <3>5, <3>6 DEF Barred
  <2>4. CASE l = r /\ ~Start(r)
    <3>1. r \in shutOut
      BY <2>4, StatusWriters DEF WriteStatus, Start
    <3>2. pc[r] = "reading"
      BY <2>4, <3>1
         DEF ShutOutInv, StepOf, Proceed, CheckUsername, CheckEmail, CreateUser, Fund, StoreWallet,
             ReadLogin, ComparePassword, WriteAttempt, Sign, FindTarget, WriteStatus, QueryFails
    <3>3. Barred(r)
      BY <3>1, <3>2 DEF ShutOutInv
    <3>4. ReadLogin(r) \/ QueryFails(r)
      BY <2>4, <3>2
         DEF StepOf, Proceed, CheckUsername, CheckEmail, CreateUser, Fund, StoreWallet,
             ComparePassword, WriteAttempt, Sign, FindTarget, WriteStatus
    <3>5. pc'[r] = "done" /\ answer'[r] \in {"invalid", "locked", "error"}
      BY <1>0, <3>3, <3>4, ShutOutReads DEF QueryFails, Finish, Goto, TypeOK
    <3> QED
      BY <2>4, <3>5
  <2> QED
    BY <2>2, <2>3, <2>4
<1>2. CASE Tick \/ UNCHANGED vars
  BY <1>2, OthersKeep DEF ShutOutInv, Barred
<1> QED
  BY <1>1, <1>2, NextCases

\* A login that was called on an account that is inactive, and stays so, gets
\* no token.
THEOREM InactiveAlwaysStaysOut == Spec => []InactiveStaysOut
<1>1. Init => ShutOutInv
  BY DEF Init, ShutOutInv
<1>2. ShutOutInv => InactiveStaysOut
  BY DEF ShutOutInv, InactiveStaysOut
<1> QED
  BY <1>1, <1>2, NextShutOutInv, StagesKept, WholeKept, PTL DEF Spec

-----------------------------------------------------------------------------
(* Lockout.                                                                *)

\* At first nothing is counted and nothing is on record.
LEMMA InitCounterInv == Init => CounterInv
<1> SUFFICES ASSUME Init PROVE CounterInv
  OBVIOUS
<1>1. \A u \in User : WrongAttempts(u) = {}
  BY DEF Init, WrongAttempts
<1>2. IsFiniteSet({}) /\ Cardinality({}) = 0
  BY FS_EmptySet
<1>3. \A u \in User : Agree(login[u]) /\ login[u].failed = 0
  BY AccountAssumption DEF Init, Cleared, Agree
<1>4. \A u \in User : IsFiniteSet(WrongAttempts(u)) /\ login[u].failed <= Cardinality(WrongAttempts(u))
  BY <1>1, <1>2, <1>3
<1>5. \A r \in Request : pc[r] = "idle" /\ answer[r] = "none"
  BY DEF Init
<1> HIDE DEF Init
<1> QED
  BY <1>3, <1>4, <1>5 DEF CounterInv, RowAgrees, Held

\* A step of r puts its own attempt on record, or none.
LEMMA RecordGrows ==
  ASSUME StageInv, NEW r \in Request, StepOf(r), NEW u
  PROVE  /\ WrongAttempts(u)' = WrongAttempts(u)
               \cup (IF answer'[r] = "wrong" /\ seen'[r].user = u THEN {r} ELSE {})
         /\ r \in WrongAttempts(u) => r \in WrongAttempts(u)'
         /\ answer'[r] = "wrong" /\ answer[r] # "wrong" => WriteAttempt(r)
<1>0. TypeOK /\ At(r) /\ Moved(r)
  BY StepMoves DEF StageInv
<1>1. answer[r] = "wrong" => answer' = answer /\ seen' = seen
  <2>1. answer[r] = "wrong" => pc[r] = "done"
    BY <1>0 DEF At, Within
  <2> QED
    BY <2>1
       DEF StepOf, Start, Register, Login, SetStatus, Begin, Proceed, CheckUsername, CheckEmail,
           CreateUser, Fund, StoreWallet, ReadLogin, ComparePassword, WriteAttempt, Sign,
           FindTarget, WriteStatus, QueryFails
<1>2. answer'[r] = "wrong" /\ answer[r] # "wrong" => WriteAttempt(r)
  BY <1>0
     DEF StepOf, Start, Register, Login, SetStatus, Begin, Proceed, CheckUsername, CheckEmail,
         CreateUser, Fund, StoreWallet, ReadLogin, ComparePassword, Sign, FindTarget, WriteStatus,
         QueryFails, Finish, TypeOK
<1>3. \A s \in Request \ {r} : answer'[s] = answer[s] /\ seen'[s] = seen[s]
  BY <1>0 DEF Moved, Same
<1> QED
  BY <1>1, <1>2, <1>3 DEF WrongAttempts

\* So the record stays finite, grows by one at most, and never shrinks.
LEMMA RecordCounts ==
  ASSUME StageInv, CounterInv, NEW r \in Request, StepOf(r), NEW u \in User
  PROVE  /\ IsFiniteSet(WrongAttempts(u)')
         /\ Cardinality(WrongAttempts(u)) \in Nat /\ Cardinality(WrongAttempts(u)') \in Nat
         /\ Cardinality(WrongAttempts(u)') >= Cardinality(WrongAttempts(u))
         /\ answer'[r] = "wrong" /\ answer[r] # "wrong" /\ seen'[r].user = u =>
              Cardinality(WrongAttempts(u)') = Cardinality(WrongAttempts(u)) + 1
<1>1. IsFiniteSet(WrongAttempts(u)) /\ Cardinality(WrongAttempts(u)) \in Nat
  BY FS_CardinalityType DEF CounterInv, RowAgrees
<1>2. WrongAttempts(u)' = WrongAttempts(u) \/ WrongAttempts(u)' = WrongAttempts(u) \cup {r}
  BY RecordGrows
<1>3. answer'[r] = "wrong" /\ answer[r] # "wrong" /\ seen'[r].user = u =>
         WrongAttempts(u)' = WrongAttempts(u) \cup {r} /\ r \notin WrongAttempts(u)
  BY RecordGrows DEF WrongAttempts
<1>4. /\ IsFiniteSet(WrongAttempts(u) \cup {r})
      /\ Cardinality(WrongAttempts(u) \cup {r}) =
           IF r \in WrongAttempts(u) THEN Cardinality(WrongAttempts(u))
                                     ELSE Cardinality(WrongAttempts(u)) + 1
  BY <1>1, FS_AddElement
<1> QED
  BY <1>1, <1>2, <1>3, <1>4

\* What is held stays right as the record grows and rows are added.
LEMMA HeldStays ==
  ASSUME StageInv, CounterInv, NEW r \in Request, StepOf(r), NEW s \in Request \ {r}
  PROVE  Held(s)'
<1>0. TypeOK /\ At(s) /\ Same(s) /\ Grown(r) /\ Held(s)
  BY StepMoves DEF StageInv, Moved, CounterInv, Held
<1>1. \A u \in User : /\ Cardinality(WrongAttempts(u)) \in Nat
                     /\ Cardinality(WrongAttempts(u)') \in Nat
                     /\ Cardinality(WrongAttempts(u)') >= Cardinality(WrongAttempts(u))
  BY RecordCounts
<1>2. pc[s] \in {"comparing", "writing"} => seen[s].user \in User /\ seen[s].counter.failed \in Nat
  BY <1>0 DEF At, Knows, Found, TypeOK, Counter
<1>3. MaxFailed \in Nat
  BY AccountAssumption
<1>4. ASSUME pc[s] \in {"comparing", "writing"}
      PROVE  /\ Cardinality(WrongAttempts(seen[s].user)) \in Nat
             /\ Cardinality(WrongAttempts(seen[s].user))' \in Nat
             /\ Cardinality(WrongAttempts(seen[s].user))' >= Cardinality(WrongAttempts(seen[s].user))
  <2>1. PICK u \in User : u = seen[s].user
    BY <1>2, <1>4
  <2>2. seen'[s].user = u
    BY <1>0, <2>1 DEF Same
  <2>3. WrongAttempts(seen[s].user)' = WrongAttempts(u)'
    BY <2>2 DEF WrongAttempts
  <2> QED
    BY <1>1, <2>1, <2>3
<1>5. answer'[s] = "locked" =>
         \E u \in registered' : /\ profile'[u].email = call'[s].email
                                /\ Cardinality(WrongAttempts(u)') >= MaxFailed
  <2> SUFFICES ASSUME answer'[s] = "locked"
               PROVE  \E u \in registered' : /\ profile'[u].email = call'[s].email
                                             /\ Cardinality(WrongAttempts(u)') >= MaxFailed
    OBVIOUS
  <2>1. PICK u \in registered : /\ profile[u].email = call[s].email
                                /\ Cardinality(WrongAttempts(u)) >= MaxFailed
    BY <1>0 DEF Same, Held
  <2>2. u \in registered' /\ profile'[u].email = call'[s].email /\ u \in User
    BY <1>0, <2>1 DEF Same, Grown, TypeOK
  <2>3. Cardinality(WrongAttempts(u)') >= MaxFailed
    BY <1>1, <1>3, <2>1, <2>2
  <2> QED
    BY <2>2, <2>3
<1>6. (pc[s] = "comparing" =>
         /\ seen[s].counter.failed < MaxFailed
         /\ seen[s].counter.failed <= Cardinality(WrongAttempts(seen[s].user)))'
  <2> SUFFICES ASSUME pc[s] = "comparing"
               PROVE  /\ seen[s].counter.failed < MaxFailed
                      /\ seen[s].counter.failed <= Cardinality(WrongAttempts(seen[s].user))'
    BY <1>0 DEF Same
  <2> QED
    BY <1>0, <1>2, <1>4 DEF Held
<1>7. (pc[s] = "writing" /\ ~call[s].right =>
         /\ Agree(seen[s].counter)
         /\ seen[s].counter.failed <= Cardinality(WrongAttempts(seen[s].user)) + 1)'
  <2> SUFFICES ASSUME pc[s] = "writing", ~call[s].right
               PROVE  /\ Agree(seen[s].counter)
                      /\ seen[s].counter.failed <= Cardinality(WrongAttempts(seen[s].user))' + 1
    BY <1>0 DEF Same, Agree
  <2> QED
    BY <1>0, <1>2, <1>4 DEF Held
<1>8. (pc[s] = "writing" /\ call[s].right => seen[s].counter = Cleared)'
  BY <1>0 DEF Same, Held
<1> QED
  BY <1>5, <1>6, <1>7, <1>8 DEF Held

\* The counter login goes on with is below the limit, when it is not locked.
LEMMA EffectiveBelow ==
  ASSUME TypeOK, CounterInv, NEW u \in User
  PROVE  /\ EffectiveAttempts(u) \in Nat
         /\ EffectiveAttempts(u) <= Cardinality(WrongAttempts(u))
         /\ ~LoginLocked(u) => EffectiveAttempts(u) < MaxFailed
         /\ LoginLocked(u) => Cardinality(WrongAttempts(u)) >= MaxFailed
<1>1. /\ login[u].failed \in Nat /\ login[u].lockedUntil \in Nat \cup {NoLock} /\ now \in Nat
      /\ Agree(login[u]) /\ MaxFailed \in Nat \ {0}
      /\ login[u].failed <= Cardinality(WrongAttempts(u))
      /\ Cardinality(WrongAttempts(u)) \in Nat
  BY AccountAssumption, FS_CardinalityType DEF TypeOK, Counter, CounterInv, RowAgrees
<1>2. CASE login[u].lockedUntil = NoLock
  BY <1>1, <1>2 DEF Agree, EffectiveAttempts, LoginLocked
<1>3. CASE login[u].lockedUntil # NoLock
  BY <1>1, <1>3 DEF Agree, EffectiveAttempts, LoginLocked
<1> QED
  BY <1>2, <1>3

\* The counter after one more wrong password agrees with its lock.
LEMMA AfterWrongAgrees ==
  ASSUME TypeOK, NEW n \in Nat, n < MaxFailed
  PROVE  Agree(AfterWrong(n + 1)) /\ AfterWrong(n + 1).failed = n + 1
<1>1. MaxFailed \in Nat /\ now + Lockout \in Nat /\ NoLock \notin Nat
  BY AccountAssumption DEF TypeOK
<1>2. AfterWrong(n + 1).failed = n + 1
      /\ AfterWrong(n + 1).lockedUntil = IF n + 1 >= MaxFailed THEN now + Lockout ELSE NoLock
  BY DEF AfterWrong
<1> QED
  BY <1>1, <1>2 DEF Agree

\* A login that reads a row: it is told of a lock that was earned, or holds a
\* counter below the limit.
LEMMA ReadLoginHolds ==
  ASSUME StageInv, CounterInv, NEW r \in Request, ReadLogin(r)
  PROVE  Held(r)'
<1>0. /\ TypeOK /\ At(r) /\ StepOf(r) /\ answer[r] = "none" /\ UNCHANGED <<registered, profile, call>>
  BY DEF StageInv, At, Within, ReadLogin, StepOf, Proceed, table
<1>1. CASE Finish(r, "invalid")
  BY <1>0, <1>1 DEF Finish, Goto, TypeOK, Held
<1>2. CASE \E u \in registered : /\ profile[u].email = call[r].email
                                 /\ LoginLocked(u) /\ Finish(r, "locked") /\ UNCHANGED seen
  <2> PICK u \in registered : /\ profile[u].email = call[r].email
                              /\ LoginLocked(u) /\ Finish(r, "locked") /\ UNCHANGED seen
    BY <1>2
  <2>1. u \in User /\ MaxFailed \in Nat
    BY <1>0, AccountAssumption DEF TypeOK
  <2>2. Cardinality(WrongAttempts(u)') >= MaxFailed
    BY <1>0, <2>1, EffectiveBelow, RecordCounts
  <2>3. pc'[r] = "done"
    BY <1>0 DEF Finish, Goto, TypeOK
  <2> QED
    BY <1>0, <2>2, <2>3 DEF Held
<1>3. CASE \E u \in registered :
             /\ ~LoginLocked(u)
             /\ seen' = [seen EXCEPT ![r] = [user |-> u, counter |-> [Cleared EXCEPT !.failed = EffectiveAttempts(u)]]]
             /\ Goto(r, "comparing") /\ UNCHANGED answer
  <2> PICK u \in registered :
             /\ ~LoginLocked(u)
             /\ seen' = [seen EXCEPT ![r] = [user |-> u, counter |-> [Cleared EXCEPT !.failed = EffectiveAttempts(u)]]]
             /\ Goto(r, "comparing") /\ UNCHANGED answer
    BY <1>3
  <2>1. u \in User
    BY <1>0 DEF TypeOK
  <2>2. seen'[r].user = u /\ seen'[r].counter.failed = EffectiveAttempts(u)
    BY <1>0 DEF TypeOK, Cleared
  <2>3. Cardinality(WrongAttempts(u)') >= Cardinality(WrongAttempts(u))
        /\ Cardinality(WrongAttempts(u)) \in Nat /\ Cardinality(WrongAttempts(u)') \in Nat
    BY <1>0, <2>1, RecordCounts
  <2>4. WrongAttempts(seen[r].user)' = WrongAttempts(u)'
    BY <2>2 DEF WrongAttempts
  <2>5. (/\ seen[r].counter.failed < MaxFailed
         /\ seen[r].counter.failed <= Cardinality(WrongAttempts(seen[r].user)))'
    BY <1>0, <2>1, <2>2, <2>3, <2>4, EffectiveBelow
  <2>6. pc'[r] = "comparing" /\ answer'[r] = "none"
    BY <1>0 DEF Goto, TypeOK
  <2> QED
    BY <2>5, <2>6 DEF Held
<1> QED
  BY <1>1, <1>2, <1>3 DEF ReadLogin

\* The comparison: the counter to be written counts this attempt on top of
\* those on record.
LEMMA CompareHolds ==
  ASSUME StageInv, CounterInv, NEW r \in Request, ComparePassword(r)
  PROVE  Held(r)'
<1>0. /\ TypeOK /\ At(r) /\ StepOf(r) /\ pc[r] = "comparing" /\ pc'[r] = "writing"
      /\ UNCHANGED <<call, answer>> /\ answer[r] = "none"
  BY DEF StageInv, TypeOK, At, Within, ComparePassword, Goto, StepOf, Proceed
<1>1. /\ seen'[r].user = seen[r].user
      /\ seen'[r].counter = IF call[r].right THEN Cleared
                            ELSE AfterWrong(seen[r].counter.failed + 1)
  BY CompareMoves
<1>2. PICK u \in User : u = seen[r].user
  BY <1>0 DEF At, Knows, Found, TypeOK
<1>3. /\ seen[r].counter.failed \in Nat /\ seen[r].counter.failed < MaxFailed
      /\ seen[r].counter.failed <= Cardinality(WrongAttempts(u))
  BY <1>0, <1>2 DEF TypeOK, Counter, CounterInv, Held
<1>4. WrongAttempts(seen[r].user)' = WrongAttempts(u)'
  BY <1>1, <1>2 DEF WrongAttempts
<1>5. Cardinality(WrongAttempts(u)') >= Cardinality(WrongAttempts(u))
      /\ Cardinality(WrongAttempts(u)) \in Nat /\ Cardinality(WrongAttempts(u)') \in Nat
  BY <1>0, RecordCounts
<1>6. ~call[r].right => Agree(seen'[r].counter)
                       /\ seen'[r].counter.failed <= Cardinality(WrongAttempts(seen[r].user)') + 1
  <2> SUFFICES ASSUME ~call[r].right
               PROVE  Agree(seen'[r].counter)
                      /\ seen'[r].counter.failed <= Cardinality(WrongAttempts(seen[r].user)') + 1
    OBVIOUS
  <2>1. Agree(AfterWrong(seen[r].counter.failed + 1))
        /\ AfterWrong(seen[r].counter.failed + 1).failed = seen[r].counter.failed + 1
    BY <1>0, <1>3, AfterWrongAgrees
  <2> QED
    BY <1>1, <1>3, <1>4, <1>5, <2>1
<1> QED
  BY <1>0, <1>1, <1>6 DEF Held, Agree

\* The other steps hold no counter of their own.
LEMMA OtherwiseHolds ==
  ASSUME StageInv, NEW r \in Request, StepOf(r), ~ReadLogin(r), ~ComparePassword(r)
  PROVE  Held(r)'
<1>0. TypeOK /\ At(r)
  BY DEF StageInv
<1>1. pc'[r] \notin {"comparing", "writing"}
  BY <1>0
     DEF StepOf, Start, Register, Login, SetStatus, Begin, Proceed, CheckUsername, CheckEmail,
         CreateUser, Fund, StoreWallet, WriteAttempt, Sign, FindTarget, WriteStatus, QueryFails,
         Finish, Goto, TypeOK
<1>2. answer'[r] # "locked"
  BY <1>0
     DEF StepOf, Start, Register, Login, SetStatus, Begin, Proceed, CheckUsername, CheckEmail,
         CreateUser, Fund, StoreWallet, WriteAttempt, Sign, FindTarget, WriteStatus, QueryFails,
         Finish, TypeOK, At, Within
<1> QED
  BY <1>1, <1>2 DEF Held

\* The rows: only WriteAttempt writes a counter, and it puts its attempt on
\* record with it.
LEMMA RowsAgree ==
  ASSUME StageInv, CounterInv, NEW r \in Request, StepOf(r), NEW u \in User
  PROVE  RowAgrees(u)'
<1>0. /\ TypeOK /\ At(r) /\ login[u].failed \in Nat
      /\ Agree(login[u]) /\ login[u].failed <= Cardinality(WrongAttempts(u))
  BY DEF StageInv, TypeOK, Counter, CounterInv, RowAgrees
<1>1. /\ IsFiniteSet(WrongAttempts(u)')
      /\ Cardinality(WrongAttempts(u)) \in Nat /\ Cardinality(WrongAttempts(u)') \in Nat
      /\ Cardinality(WrongAttempts(u)') >= Cardinality(WrongAttempts(u))
  BY RecordCounts
<1>2. CASE login'[u] = login[u]
  BY <1>0, <1>1, <1>2 DEF RowAgrees
<1>3. CASE WriteAttempt(r) /\ seen[r].user = u
  <2>1. login'[u] = seen[r].counter /\ pc[r] = "writing" /\ answer[r] = "none"
        /\ seen'[r].user = u
    BY <1>0, <1>3 DEF WriteAttempt, TypeOK, At, Within
  <2>2. CASE call[r].right
    <3>1. login'[u] = Cleared
      BY <2>1, <2>2 DEF CounterInv, Held
    <3> QED
      BY <1>1, <3>1, AccountAssumption DEF Cleared, Agree, RowAgrees
  <2>3. CASE ~call[r].right
    <3>1. answer'[r] = "wrong"
      BY <1>0, <1>3, <2>3 DEF WriteAttempt, Finish, TypeOK
    <3>2. Cardinality(WrongAttempts(u)') = Cardinality(WrongAttempts(u)) + 1
      BY <2>1, <3>1, RecordCounts
    <3>3. Agree(seen[r].counter)
          /\ seen[r].counter.failed <= Cardinality(WrongAttempts(u)) + 1
      BY <1>3, <2>1, <2>3 DEF CounterInv, Held
    <3> QED
      BY <1>1, <2>1, <3>2, <3>3 DEF RowAgrees
  <2> QED
    BY <2>2, <2>3
<1>4. login'[u] = login[u] \/ (WriteAttempt(r) /\ seen[r].user = u)
  BY <1>0
     DEF StepOf, Start, Register, Login, SetStatus, Begin, Proceed, CheckUsername, CheckEmail,
         CreateUser, Fund, StoreWallet, ReadLogin, ComparePassword, WriteAttempt, Sign, FindTarget,
         WriteStatus, QueryFails, table, TypeOK
<1> QED
  BY <1>2, <1>3, <1>4

\* No step lets a counter overtake the record.
LEMMA NextCounterInv == StageInv /\ CounterInv /\ [Next]_vars => CounterInv'
<1> SUFFICES ASSUME StageInv, CounterInv, [Next]_vars PROVE CounterInv'
  OBVIOUS
<1>1. CASE \E r \in Request : StepOf(r)
  <2> PICK r \in Request : StepOf(r)
    BY <1>1
  <2>1. Held(r)'
    BY ReadLoginHolds, CompareHolds, OtherwiseHolds
  <2>2. \A s \in Request : Held(s)'
    BY <2>1, HeldStays
  <2>3. (\A u \in User : RowAgrees(u))'
    BY RowsAgree
  <2> QED
    BY <2>2, <2>3 DEF CounterInv
<1>2. CASE Tick \/ UNCHANGED vars
  <2>0. UNCHANGED <<registered, profile, login, pc, call, seen, answer>>
    BY <1>2, OthersKeep
  <2>1. \A u : WrongAttempts(u)' = WrongAttempts(u)
    BY <2>0 DEF WrongAttempts
  <2>2. (\A u \in User : RowAgrees(u))'
    BY <2>0, <2>1 DEF CounterInv, RowAgrees, Agree
  <2>3. ASSUME NEW r \in Request PROVE Held(r)'
    <3>1. Held(r)
      BY DEF CounterInv
    <3>2. WrongAttempts(seen[r].user)' = WrongAttempts(seen[r].user)
      BY <2>0 DEF WrongAttempts
    <3> QED
      BY <2>0, <2>1, <3>1, <3>2 DEF Held, Agree
  <2> QED
    BY <2>2, <2>3 DEF CounterInv
<1> QED
  BY <1>1, <1>2, NextCases

\* Every lock on an account is earned by wrong passwords, however attempts
\* interleave, and counter and lock always agree.
THEOREM LoginLockAlwaysEarned == Spec => []LoginLockEarned
<1>1. StageInv /\ CounterInv => LoginLockEarned
  BY DEF StageInv, TypeOK, CounterInv, RowAgrees, Held, Agree, LoginLockEarned
<1> QED
  BY <1>1, InitCounterInv, NextCounterInv, StagesKept, PTL DEF Spec

=============================================================================
