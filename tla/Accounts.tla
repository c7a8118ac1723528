------------------------------ MODULE Accounts ------------------------------
(***************************************************************************)
(* Accounts: register and login of auth.service.ts, createWallet of        *)
(* wallet.service.ts with fundAccount of stellar.service.ts, and           *)
(* setAccountStatus of admin.service.ts.                                   *)
(*                                                                         *)
(* A request ends an action at every await:                                *)
(*                                                                         *)
(*   register : CheckUsername -> CheckEmail -> CreateUser -> Fund (up to   *)
(*              three times) -> StoreWallet -> Sign                        *)
(*   login    : ReadLogin -> ComparePassword -> WriteAttempt -> Sign       *)
(*   status   : FindTarget -> WriteStatus                                  *)
(*                                                                         *)
(* A user is named by the registration that created it; members registered *)
(* before the run.  No code changes a password or removes a user, and no   *)
(* path of the program asks for the session behind a token: the clock of   *)
(* its row, which validateTokenWithSession would compare, is left out.     *)
(***************************************************************************)
EXTENDS Naturals, FiniteSets

CONSTANTS
    Request,    \* the requests of a run, each served once
    Member,     \* users registered before
    Name,       \* what a username or the e-mail address may be
    MemberName, \* what the members are called
    NoOne, NoLock,
    MaxFailed,  \* MAX_FAILED_LOGIN_ATTEMPTS
    Lockout,    \* LOGIN_LOCKOUT_DURATION_MINUTES, in units of the clock
    MaxTries,   \* FRIENDBOT_MAX_RETRIES
    MaxTime     \* bound: where the clock of a run stops

User == Request \cup Member

ASSUME AccountAssumption ==
    /\ Request \cap Member = {}
    /\ NoOne \notin User \cup Name
    /\ MemberName \in [Member -> Name]
    /\ \A m, n \in Member : MemberName[m] = MemberName[n] => m = n
    /\ NoLock \notin Nat
    /\ MaxFailed \in Nat \ {0} /\ MaxTries \in Nat \ {0}
    /\ Lockout \in Nat \ {0} /\ MaxTime \in Nat

VARIABLES
    now,         \* the clock
    registered,  \* the users that have a row
    profile,     \* their username and e-mail
    login,       \* failedLoginAttempts, loginLockedUntil
    status,      \* ACTIVE or INACTIVE
    wallets,     \* users with a Wallet row
    funded,      \* ledger: users whose key has an account
    pc, call, seen, tries,
    answer,      \* what the request returned or threw
    shutOut      \* history: logins called on an account inactive ever since

table   == <<registered, profile, login, status, wallets>>
handler == <<pc, call, seen, tries, answer>>
vars == <<now, table, funded, handler, shutOut>>

Stage == {"idle", "checkName", "checkEmail", "creating", "funding", "storing",
          "reading", "comparing", "writing", "signing", "finding", "deciding", "done"}
Answer == {"none", "registered", "duplicate", "error", "invalid", "wrong", "locked",
           "token", "notFound", "updated"}
Counter == [failed : Nat, lockedUntil : Nat \cup {NoLock}]
Cleared == [failed |-> 0, lockedUntil |-> NoLock]
Profile == [username : Name, email : Name]
Call == [op : {"register"}, name : Profile]
          \cup [op : {"login"}, email : Name, right : BOOLEAN]
          \cup [op : {"status"}, target : User, to : {"ACTIVE", "INACTIVE"}]
          \cup {[op |-> "none"]}

\* The types of the variables.
TypeOK ==
    /\ now \in Nat
    /\ registered \subseteq User
    /\ profile \in [User -> Profile \cup {[username |-> NoOne, email |-> NoOne]}]
    /\ login \in [User -> Counter]
    /\ status \in [User -> {"ACTIVE", "INACTIVE"}]
    /\ wallets \subseteq registered
    /\ funded \subseteq User
    /\ pc \in [Request -> Stage]
    /\ call \in [Request -> Call]
    /\ seen \in [Request -> [user : User \cup {NoOne}, counter : Counter]]
    /\ tries \in [Request -> 0..MaxTries]
    /\ answer \in [Request -> Answer]
    /\ shutOut \subseteq Request

Init ==
    /\ now = 0
    /\ registered = Member /\ wallets = Member /\ funded = Member
    /\ profile = [u \in User |-> IF u \in Member
                                 THEN [username |-> MemberName[u], email |-> MemberName[u]]
                                 ELSE [username |-> NoOne, email |-> NoOne]]
    /\ login = [u \in User |-> Cleared]
    /\ status = [u \in User |-> "ACTIVE"]
    /\ pc = [r \in Request |-> "idle"]
    /\ call = [r \in Request |-> [op |-> "none"]]
    /\ seen = [r \in Request |-> [user |-> NoOne, counter |-> Cleared]]
    /\ tries = [r \in Request |-> 0]
    /\ answer = [r \in Request |-> "none"]
    /\ shutOut = {}

-----------------------------------------------------------------------------
(* What the handlers share.                                                *)

Goto(r, stage) == pc' = [pc EXCEPT ![r] = stage]

Finish(r, what) == Goto(r, "done") /\ answer' = [answer EXCEPT ![r] = what]

Begin(r, c, stage) ==
    /\ pc[r] = "idle"
    /\ call' = [call EXCEPT ![r] = c]
    /\ Goto(r, stage)
    /\ UNCHANGED <<now, table, funded, seen, tries, answer>>

-----------------------------------------------------------------------------
(* register and createWallet.                                              *)

Register(r) ==
    /\ \E p \in Profile : Begin(r, [op |-> "register", name |-> p], "checkName")
    /\ UNCHANGED shutOut

NameTaken(name) == \E u \in registered : profile[u].username = name

EmailTaken(email) == \E u \in registered : profile[u].email = email

\* Each check is a query of its own.
CheckUsername(r) ==
    /\ pc[r] = "checkName"
    /\ IF NameTaken(call[r].name.username) THEN Finish(r, "duplicate")
       ELSE Goto(r, "checkEmail") /\ UNCHANGED answer
    /\ UNCHANGED <<now, table, funded, call, seen, tries, shutOut>>

CheckEmail(r) ==
    /\ pc[r] = "checkEmail"
    /\ IF EmailTaken(call[r].name.email) THEN Finish(r, "duplicate")
       ELSE Goto(r, "creating") /\ UNCHANGED answer
    /\ UNCHANGED <<now, table, funded, call, seen, tries, shutOut>>

\* After the hash the row is inserted; a unique column may refuse it by now,
\* and no handler expects that error.
CreateUser(r) ==
    /\ pc[r] = "creating"
    /\ \/ /\ ~NameTaken(call[r].name.username) /\ ~EmailTaken(call[r].name.email)
          /\ registered' = registered \cup {r}
          /\ profile' = [profile EXCEPT ![r] = call[r].name]
          /\ Goto(r, "funding")
          /\ UNCHANGED answer
       \/ /\ NameTaken(call[r].name.username) \/ EmailTaken(call[r].name.email)
          /\ Finish(r, "error")
          /\ UNCHANGED <<registered, profile>>
    /\ UNCHANGED <<now, login, status, wallets, funded, call, seen, tries, shutOut>>

\* Friendbot creates the account of the new key, once; its answer may be lost.
Friendbot(r, heard) ==
    /\ heard => r \notin funded
    /\ \/ funded' = funded \cup {r}
       \/ ~heard /\ UNCHANGED funded

\* Mutant: the retries run out and the wallet is stored all the same.
FundGivesIn(r) ==
    /\ pc[r] = "funding"
    /\ \/ Friendbot(r, TRUE) /\ Goto(r, "storing") /\ UNCHANGED <<tries, answer>>
       \/ /\ Friendbot(r, FALSE)
          /\ tries' = [tries EXCEPT ![r] = @ + 1]
          /\ IF tries[r] + 1 = MaxTries THEN Goto(r, "storing") ELSE UNCHANGED pc
          /\ UNCHANGED answer
    /\ UNCHANGED <<now, table, call, seen, shutOut>>

\* Mutant: one attempt too many.
FundOnceMore(r) ==
    /\ pc[r] = "funding"
    /\ \/ Friendbot(r, TRUE) /\ Goto(r, "storing") /\ UNCHANGED <<tries, answer>>
       \/ /\ Friendbot(r, FALSE)
          /\ tries' = [tries EXCEPT ![r] = @ + 1]
          /\ IF tries[r] = MaxTries THEN Finish(r, "error") ELSE UNCHANGED <<pc, answer>>
    /\ UNCHANGED <<now, table, call, seen, shutOut>>

\* fundAccount, one attempt: the last failure is thrown.
Fund(r) ==
    /\ pc[r] = "funding"
    /\ \/ Friendbot(r, TRUE) /\ Goto(r, "storing") /\ UNCHANGED <<tries, answer>>
       \/ /\ Friendbot(r, FALSE)
          /\ tries' = [tries EXCEPT ![r] = @ + 1]
          /\ IF tries[r] + 1 = MaxTries THEN Finish(r, "error") ELSE UNCHANGED <<pc, answer>>
    /\ UNCHANGED <<now, table, call, seen, shutOut>>

\* The key is encrypted and the wallet inserted.
StoreWallet(r) ==
    /\ pc[r] = "storing"
    /\ wallets' = wallets \cup {r}
    /\ Goto(r, "signing")
    /\ UNCHANGED <<now, registered, profile, login, status, funded, call, seen, tries, answer,
                   shutOut>>

-----------------------------------------------------------------------------
(* login.                                                                  *)

Login(r) ==
    \E e \in Name, right \in BOOLEAN :
        /\ Begin(r, [op |-> "login", email |-> e, right |-> right], "reading")
        /\ shutOut' = IF \E u \in registered : profile[u].email = e /\ status[u] = "INACTIVE"
                      THEN shutOut \cup {r} ELSE shutOut

LoginLocked(u) == login[u].lockedUntil # NoLock /\ login[u].lockedUntil > now

\* An expired lock is forgiven.
EffectiveAttempts(u) ==
    IF login[u].lockedUntil # NoLock /\ login[u].lockedUntil <= now THEN 0
    ELSE login[u].failed

\* Mutant: the status is not looked at.
ReadLoginAnyStatus(r) ==
    /\ pc[r] = "reading"
    /\ \/ /\ ~EmailTaken(call[r].email)
          /\ Finish(r, "invalid") /\ UNCHANGED seen
       \/ \E u \in registered :
            /\ profile[u].email = call[r].email
            /\ IF LoginLocked(u) THEN Finish(r, "locked") /\ UNCHANGED seen
               ELSE /\ seen' = [seen EXCEPT ![r] = [user |-> u, counter |-> [Cleared EXCEPT !.failed = EffectiveAttempts(u)]]]
                    /\ Goto(r, "comparing") /\ UNCHANGED answer
    /\ UNCHANGED <<now, table, funded, call, tries, shutOut>>

ReadLogin(r) ==
    /\ pc[r] = "reading"
    /\ \/ /\ ~EmailTaken(call[r].email)
          /\ Finish(r, "invalid") /\ UNCHANGED seen
       \/ \E u \in registered :
            /\ profile[u].email = call[r].email
            /\ \/ LoginLocked(u) /\ Finish(r, "locked") /\ UNCHANGED seen
               \/ /\ ~LoginLocked(u) /\ status[u] = "INACTIVE"
                  /\ Finish(r, "invalid") /\ UNCHANGED seen
               \/ /\ ~LoginLocked(u) /\ status[u] = "ACTIVE"
                  /\ seen' = [seen EXCEPT ![r] = [user |-> u, counter |-> [Cleared EXCEPT !.failed = EffectiveAttempts(u)]]]
                  /\ Goto(r, "comparing") /\ UNCHANGED answer
    /\ UNCHANGED <<now, table, funded, call, tries, shutOut>>

AfterWrong(failed) ==
    [failed |-> failed, lockedUntil |-> IF failed >= MaxFailed THEN now + Lockout ELSE NoLock]

\* Mutant: every attempt counts, the right ones too.
ComparePasswordCountsAll(r) ==
    /\ pc[r] = "comparing"
    /\ Goto(r, "writing")
    /\ seen' = [seen EXCEPT ![r].counter = AfterWrong(@.failed + 1)]
    /\ UNCHANGED <<now, table, funded, call, tries, answer, shutOut>>

\* bcrypt.compare resolves; what is to be written follows from what was read
\* before it.
ComparePassword(r) ==
    /\ pc[r] = "comparing"
    /\ Goto(r, "writing")
    /\ seen' = [seen EXCEPT ![r].counter = IF call[r].right THEN Cleared
                                           ELSE AfterWrong(@.failed + 1)]
    /\ UNCHANGED <<now, table, funded, call, tries, answer, shutOut>>

\* The counter and the lock are written, whatever they are by now.
WriteAttempt(r) ==
    LET u == seen[r].user IN
    /\ pc[r] = "writing"
    /\ login' = [login EXCEPT ![u] = seen[r].counter]
    /\ IF call[r].right THEN Goto(r, "signing") /\ UNCHANGED answer ELSE Finish(r, "wrong")
    /\ UNCHANGED <<now, registered, profile, status, wallets, funded, call, seen, tries, shutOut>>

\* jwt.sign, after the last write of a registration or a login has resolved.
Sign(r) ==
    /\ pc[r] = "signing"
    /\ Finish(r, IF call[r].op = "register" THEN "registered" ELSE "token")
    /\ UNCHANGED <<now, table, funded, call, seen, tries, shutOut>>

-----------------------------------------------------------------------------
(* setAccountStatus.                                                       *)

SetStatus(r) ==
    /\ \E u \in User, to \in {"ACTIVE", "INACTIVE"} :
         Begin(r, [op |-> "status", target |-> u, to |-> to], "finding")
    /\ UNCHANGED shutOut

FindTarget(r) ==
    /\ pc[r] = "finding"
    /\ IF call[r].target \in registered THEN Goto(r, "deciding") /\ UNCHANGED answer
       ELSE Finish(r, "notFound")
    /\ UNCHANGED <<now, table, funded, call, seen, tries, shutOut>>

\* Logins under way on an account that is set active are shut out no more.
WriteStatus(r) ==
    LET u == call[r].target IN
    /\ pc[r] = "deciding"
    /\ status' = [status EXCEPT ![u] = call[r].to]
    /\ Finish(r, "updated")
    /\ shutOut' = IF call[r].to = "INACTIVE" THEN shutOut
                  ELSE {l \in shutOut : call[l].email # profile[u].email}
    /\ UNCHANGED <<now, registered, profile, login, wallets, funded, call, seen, tries>>

\* A query rejects: the handler throws and its caller hears 500.
QueryFails(r) ==
    /\ pc[r] \in {"checkName", "checkEmail", "creating", "storing", "reading", "writing",
                  "finding", "deciding"}
    /\ Finish(r, "error")
    /\ UNCHANGED <<now, table, funded, call, seen, tries, shutOut>>

Tick ==
    /\ now < MaxTime
    /\ now' = now + 1
    /\ UNCHANGED <<table, funded, handler, shutOut>>

Start(r) ==
    \/ Register(r)
    \/ Login(r)
    \/ SetStatus(r)

Proceed(r) ==
    \/ CheckUsername(r)
    \/ CheckEmail(r)
    \/ CreateUser(r)
    \/ Fund(r)
    \/ StoreWallet(r)
    \/ ReadLogin(r)
    \/ ComparePassword(r)
    \/ WriteAttempt(r)
    \/ Sign(r)
    \/ FindTarget(r)
    \/ WriteStatus(r)

Next ==
    \/ Tick
    \/ \E r \in Request : Start(r) \/ Proceed(r) \/ QueryFails(r)

Spec == Init /\ [][Next]_vars

-----------------------------------------------------------------------------
(* Properties.                                                             *)

\* A registration that was answered with a token left an account under the
\* name it asked for, which nobody shares, however the checks of register
\* interleave with the inserts of others; the account has a wallet, and no
\* wallet is stored for a key Friendbot has not funded, though its answers
\* may be lost (requirements 1.2, 2.1 and 2.6).
RegisteredIsWhole ==
    /\ \A u, v \in registered :
         \/ profile[u].username = profile[v].username
         \/ profile[u].email = profile[v].email
         => u = v
    /\ \A r \in Request :
         answer[r] = "registered" => r \in wallets /\ profile[r] = call[r].name
    /\ wallets \subseteq funded

\* Attempts whose wrong password is on record for u.
WrongAttempts(u) == {r \in Request : answer[r] = "wrong" /\ seen[r].user = u}

\* Attempts in flight overwrite each other's counter, but only to forget: a
\* lock stands exactly when the counter is at its limit, the counter never
\* exceeds the wrong passwords recorded, and who is turned away with 423
\* follows at least MAX_FAILED_LOGIN_ATTEMPTS of them (requirement 13.5).
LoginLockEarned ==
    /\ \A u \in registered :
         /\ login[u].failed <= MaxFailed
         /\ login[u].lockedUntil # NoLock <=> login[u].failed = MaxFailed
         /\ login[u].failed <= Cardinality(WrongAttempts(u))
    /\ \A r \in Request : answer[r] = "locked" =>
         \E u \in registered : /\ profile[u].email = call[r].email
                               /\ Cardinality(WrongAttempts(u)) >= MaxFailed

\* A login called on an account that is inactive and stays so gets no token,
\* whatever else is in flight (requirement 12.4).  One that was called before
\* may still get one: its row was read while it was active.
InactiveStaysOut == \A r \in shutOut : answer[r] # "token"
=============================================================================
