----------------------------- MODULE PinService -----------------------------
(***************************************************************************)
(* The transaction PIN of one user: setPin, resetPin and verifyPin of      *)
(* src/lib/services/pin.service.ts, with the part of POST                  *)
(* /api/users/pin/verify that reads the row a second time to answer.       *)
(*                                                                         *)
(* Every request is an asynchronous handler over one row of the User       *)
(* table.  It gives up the processor at every await, so each database call *)
(* is one action, and what it read may be stale when it writes:            *)
(*                                                                         *)
(*   verify :  Call -> Read -> Compare -> Write -> Respond                 *)
(*   set    :  Call ----------(hash)----> Write                            *)
(*                                                                         *)
(* bcrypt is modelled by what it does: a hash matches the PIN it was made  *)
(* from and no other, so the row keeps the PIN itself.                     *)
(***************************************************************************)
EXTENDS Naturals, FiniteSets

CONSTANTS
    Request,    \* the requests of a run, each served once
    Pin,        \* what clients may submit
    ValidPin,   \* the submitted strings of 4 to 6 digits
    NoPin,      \* pinHash = null
    NoLock,     \* pinLockedUntil = null
    MaxFailed,  \* MAX_FAILED_ATTEMPTS
    Lockout,    \* LOCKOUT_DURATION_MINUTES, in units of the clock
    MaxActive,  \* bound: how many requests may be in flight together
    MaxTime     \* bound: where the clock of a run stops

ASSUME PinAssumption ==
    /\ IsFiniteSet(Request)
    /\ ValidPin \subseteq Pin
    /\ NoPin \notin Pin
    /\ NoLock \notin Nat
    /\ MaxFailed \in Nat \ {0}
    /\ Lockout \in Nat \ {0}
    /\ MaxActive \in Nat
    /\ MaxTime \in Nat

VARIABLES
    now,     \* new Date()
    user,    \* the row: pinHash, failedPinAttempts, pinLockedUntil
    pc,      \* where each request is
    call,    \* what it was asked
    seen,    \* the part of the row it read and still holds
    update,  \* the counter and lock it is about to write
    answer,  \* what the service returned or threw
    reply    \* what the route read back: attempts remaining or lock expiry

vars == <<now, user, pc, call, seen, update, answer, reply>>

Operation == {"verify", "set", "reset"}
Stage     == {"idle", "called", "comparing", "writing", "responding", "done"}
Answer    == {"none", "ok", "match", "mismatch", "locked", "unset", "invalid",
              "error"}
Expiry    == Nat \cup {NoLock}
Counter   == [failed : Nat, lockedUntil : Expiry]
Cleared   == [failed |-> 0, lockedUntil |-> NoLock]

\* The types of the variables.
TypeOK ==
    /\ now \in Nat
    /\ user \in [pinHash : Pin \cup {NoPin}, failed : Nat, lockedUntil : Expiry]
    /\ pc \in [Request -> Stage]
    /\ call \in [Request -> [op : Operation, pin : Pin \cup {NoPin}]]
    /\ seen \in [Request -> [pinHash : Pin \cup {NoPin}, failed : Nat]]
    /\ update \in [Request -> Counter]
    /\ answer \in [Request -> Answer]
    /\ reply \in [Request -> Expiry]

Init ==
    /\ now = 0
    /\ user = [pinHash |-> NoPin, failed |-> 0, lockedUntil |-> NoLock]
    /\ pc = [r \in Request |-> "idle"]
    /\ call = [r \in Request |-> [op |-> "verify", pin |-> NoPin]]
    /\ seen = [r \in Request |-> [pinHash |-> NoPin, failed |-> 0]]
    /\ update = [r \in Request |-> Cleared]
    /\ answer = [r \in Request |-> "none"]
    /\ reply = [r \in Request |-> NoLock]

-----------------------------------------------------------------------------
(* The pure parts of the service.                                          *)

Locked == user.lockedUntil # NoLock /\ user.lockedUntil > now

LockExpired == user.lockedUntil # NoLock /\ user.lockedUntil <= now

\* Mutants: the expiry never forgives; the threshold is off by one; locking
\* clears the counter.
EffectiveFailedForever == user.failed

AfterMismatchOffByOne(failed) ==
    [failed |-> failed + 1,
     lockedUntil |-> IF failed + 1 > MaxFailed THEN now + Lockout ELSE NoLock]

AfterMismatchRestarts(failed) ==
    IF failed + 1 >= MaxFailed THEN [failed |-> 0, lockedUntil |-> now + Lockout]
    ELSE [failed |-> failed + 1, lockedUntil |-> NoLock]

EffectiveFailed == IF LockExpired THEN 0 ELSE user.failed

AfterMismatch(failed) ==
    [failed |-> failed + 1,
     lockedUntil |-> IF failed + 1 >= MaxFailed THEN now + Lockout ELSE NoLock]

AttemptsRemaining ==
    IF user.failed >= MaxFailed THEN 0 ELSE MaxFailed - user.failed

-----------------------------------------------------------------------------
(* The handlers.                                                           *)

Active == {r \in Request : pc[r] \notin {"idle", "done"}}

Admit(r) == pc[r] = "idle" /\ Cardinality(Active) < MaxActive

\* verifyPin is called; the row is not read yet.  Every route that calls it
\* has checked the form of the PIN.
CallVerify(r) ==
    /\ Admit(r)
    /\ \E pin \in ValidPin : call' = [call EXCEPT ![r] = [op |-> "verify", pin |-> pin]]
    /\ pc' = [pc EXCEPT ![r] = "called"]
    /\ UNCHANGED <<now, user, seen, update, answer, reply>>

\* setPin or resetPin: a malformed PIN is thrown back, any other is hashed
\* and then written.
CallSet(r) ==
    /\ Admit(r)
    /\ \E op \in {"set", "reset"}, pin \in Pin :
         /\ call' = [call EXCEPT ![r] = [op |-> op, pin |-> pin]]
         /\ IF pin \in ValidPin
            THEN /\ pc' = [pc EXCEPT ![r] = "writing"]
                 /\ update' = [update EXCEPT ![r] = Cleared]
                 /\ answer' = [answer EXCEPT ![r] = "ok"]
            ELSE /\ pc' = [pc EXCEPT ![r] = "done"]
                 /\ answer' = [answer EXCEPT ![r] = "invalid"]
                 /\ UNCHANGED update
    /\ UNCHANGED <<now, user, seen, reply>>

\* The row has no PIN: verifyPin throws and the route answers 400.
ReadUnset(r) ==
    /\ pc[r] = "called"
    /\ user.pinHash = NoPin
    /\ pc' = [pc EXCEPT ![r] = "done"]
    /\ answer' = [answer EXCEPT ![r] = "unset"]
    /\ UNCHANGED <<now, user, call, seen, update, reply>>

\* The row is locked: verifyPin throws and the route goes on to fetch the
\* expiry it reports with 423.
ReadLocked(r) ==
    /\ pc[r] = "called"
    /\ user.pinHash # NoPin
    /\ Locked
    /\ pc' = [pc EXCEPT ![r] = "responding"]
    /\ answer' = [answer EXCEPT ![r] = "locked"]
    /\ UNCHANGED <<now, user, call, seen, update, reply>>

\* The row is open: its hash and its effective counter are kept across the
\* bcrypt comparison.
ReadOpen(r) ==
    /\ pc[r] = "called"
    /\ user.pinHash # NoPin
    /\ ~Locked
    /\ seen' = [seen EXCEPT ![r] = [pinHash |-> user.pinHash,
                                    failed |-> EffectiveFailed]]
    /\ pc' = [pc EXCEPT ![r] = "comparing"]
    /\ UNCHANGED <<now, user, call, update, answer, reply>>

\* Mutant: an attempt is counted whether or not it matches.
CompareCountsAll(r) ==
    /\ pc[r] = "comparing"
    /\ update' = [update EXCEPT ![r] = AfterMismatch(seen[r].failed)]
    /\ answer' = [answer EXCEPT ![r] = IF call[r].pin = seen[r].pinHash
                                       THEN "match" ELSE "mismatch"]
    /\ pc' = [pc EXCEPT ![r] = "writing"]
    /\ UNCHANGED <<now, user, call, seen, reply>>

\* bcrypt.compare resolves; the update to send is computed from what was
\* read before it.
Compare(r) ==
    /\ pc[r] = "comparing"
    /\ IF call[r].pin = seen[r].pinHash
       THEN /\ update' = [update EXCEPT ![r] = Cleared]
            /\ answer' = [answer EXCEPT ![r] = "match"]
       ELSE /\ update' = [update EXCEPT ![r] = AfterMismatch(seen[r].failed)]
            /\ answer' = [answer EXCEPT ![r] = "mismatch"]
    /\ pc' = [pc EXCEPT ![r] = "writing"]
    /\ UNCHANGED <<now, user, call, seen, reply>>

\* Mutant: the update replaces the row instead of naming its fields.
WriteDropsHash(r) ==
    /\ pc[r] = "writing"
    /\ user' = update[r]
    /\ pc' = [pc EXCEPT ![r] = IF answer[r] = "mismatch" THEN "responding" ELSE "done"]
    /\ UNCHANGED <<now, call, seen, update, answer, reply>>

\* prisma.user.update: both counter fields, and the hash when it is set.
Write(r) ==
    /\ pc[r] = "writing"
    /\ user' = [pinHash |-> IF call[r].op = "verify" THEN user.pinHash ELSE call[r].pin,
                failed |-> update[r].failed,
                lockedUntil |-> update[r].lockedUntil]
    /\ pc' = [pc EXCEPT ![r] = IF answer[r] = "mismatch" THEN "responding" ELSE "done"]
    /\ UNCHANGED <<now, call, seen, update, answer, reply>>

\* The route reads the row again: attempts left for a 401, expiry for a 423.
Respond(r) ==
    /\ pc[r] = "responding"
    /\ reply' = [reply EXCEPT ![r] = IF answer[r] = "mismatch" THEN AttemptsRemaining
                                     ELSE user.lockedUntil]
    /\ pc' = [pc EXCEPT ![r] = "done"]
    /\ UNCHANGED <<now, user, call, seen, update, answer>>

\* A database call rejects: the row is left alone and the client hears 500,
\* though an attempt may be on record when the second read fails.
QueryFails(r) ==
    /\ pc[r] \in {"called", "writing", "responding"}
    /\ pc' = [pc EXCEPT ![r] = "done"]
    /\ answer' = [answer EXCEPT ![r] = IF pc[r] = "responding" THEN @ ELSE "error"]
    /\ UNCHANGED <<now, user, call, seen, update, reply>>

Tick ==
    /\ now < MaxTime
    /\ now' = now + 1
    /\ UNCHANGED <<user, pc, call, seen, update, answer, reply>>

Handle(r) ==
    \/ CallVerify(r)
    \/ CallSet(r)
    \/ ReadUnset(r)
    \/ ReadLocked(r)
    \/ ReadOpen(r)
    \/ Compare(r)
    \/ Write(r)
    \/ Respond(r)
    \/ QueryFails(r)

Next == Tick \/ \E r \in Request : Handle(r)

Spec == Init /\ [][Next]_vars

-----------------------------------------------------------------------------
(* Properties.                                                             *)

\* Requests whose wrong PIN has been recorded.
Wrong == {r \in Request : answer[r] = "mismatch" /\ pc[r] \in {"responding", "done"}}

\* However requests interleave, the counter and the lock written by
\* verifyPin, setPin and resetPin agree: a lock is set exactly when the
\* counter is at MAX_FAILED_ATTEMPTS, the counter never passes it, and no
\* lock lasts longer than LOCKOUT_DURATION_MINUTES from now.
LockTracksCounter ==
    /\ user.failed <= MaxFailed
    /\ user.lockedUntil # NoLock <=> user.failed = MaxFailed
    /\ user.lockedUntil # NoLock => user.lockedUntil <= now + Lockout

\* Lost updates in verifyPin can only forget attempts, never invent them: the
\* counter is at most the number of wrong PINs recorded, so whoever is turned
\* away with 423 follows at least MAX_FAILED_ATTEMPTS wrong PINs.
LockoutEarned ==
    /\ user.failed <= Cardinality(Wrong)
    /\ \A r \in Request : answer[r] = "locked" => Cardinality(Wrong) >= MaxFailed

\* The verify route reads the counter in a second query, after other requests
\* may have written it; when it promises attempts left, the account is open
\* at that moment.
AttemptsLeftMeansOpen ==
    [][\A r \in Request :
         (Respond(r) /\ answer[r] = "mismatch" /\ reply'[r] > 0) => ~Locked]_vars

\* Attempts that were answered 423.
TurnedAway == {r \in Request : answer[r] = "locked"}

\* The attempts of verifyPin overlap, and none of them runs in a transaction,
\* so not every wrong PIN ends up in the counter.  What the lockout still
\* promises, however many requests are in flight, is ForgetfulLockout.
Forgetful == INSTANCE ForgetfulLockout WITH
    wrong <- Cardinality(Wrong), turnedAway <- Cardinality(TurnedAway),
    failed <- user.failed, lockedUntil <- user.lockedUntil

ImplementsForgetfulLockout == Forgetful!Spec

\* The lockout as pin.service.ts describes it, an attempt at a time.
AtomicLockout == INSTANCE PinLockout WITH
    pinHash <- user.pinHash, failed <- user.failed, lockedUntil <- user.lockedUntil

\* What r read still is what the row says; setPin and resetPin read nothing.
Fresh(r) ==
    call[r].op = "verify" =>
        seen[r] = [pinHash |-> user.pinHash, failed |-> EffectiveFailed]

\* With any number of requests in flight, a write of verifyPin, setPin or
\* resetPin is one step of the atomic component as long as no other request
\* changed the row between its read and its write: the race of read and write
\* is the only way in which attempts are miscounted or locks lifted.
FreshWriteIsAtomic ==
    [][\A r \in Request :
         Write(r) /\ Fresh(r) =>
             IF call[r].op # "verify" THEN AtomicLockout!SetPin
             ELSE IF answer[r] = "match" THEN AtomicLockout!Accept
             ELSE AtomicLockout!Refuse]_vars
=============================================================================
