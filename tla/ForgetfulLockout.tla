--------------------------- MODULE ForgetfulLockout ---------------------------
(***************************************************************************)
(* What is left of the lockout when requests overlap.  PinLockout judges   *)
(* each attempt on the state that the previous one left; the code judges   *)
(* it on a row that others may have written since, and this is all that    *)
(* its users can rely on, whatever the number of requests in flight:       *)
(*                                                                         *)
(*   - a wrong PIN counts, though the counter may start again from any     *)
(*     lower number, and it never counts more than were tried;             *)
(*   - who reaches the limit is locked out in the same step, and who is    *)
(*     locked out has reached it;                                          *)
(*   - nobody is turned away but by a lock.                                *)
(***************************************************************************)
EXTENDS Naturals

CONSTANTS
    NoLock,     \* pinLockedUntil = null
    MaxFailed,  \* MAX_FAILED_ATTEMPTS
    Lockout     \* LOCKOUT_DURATION_MINUTES, in units of the clock

VARIABLES
    now,
    wrong,        \* how many wrong PINs are on record
    turnedAway,   \* how many attempts were answered 423
    failed,
    lockedUntil

vars == <<now, wrong, turnedAway, failed, lockedUntil>>

Init ==
    /\ now = 0
    /\ wrong = 0 /\ turnedAway = 0
    /\ failed = 0
    /\ lockedUntil = NoLock

\* The right PIN, or a new one: the slate is clean, even of a lock that the
\* request has not seen.
Forgive ==
    /\ failed' = 0
    /\ lockedUntil' = NoLock
    /\ UNCHANGED <<now, wrong, turnedAway>>

\* A wrong PIN is put on record.
Count ==
    /\ wrong' = wrong + 1
    /\ failed' \in 1..MaxFailed
    /\ failed' <= wrong'
    /\ IF failed' = MaxFailed
       THEN lockedUntil' \in Nat /\ lockedUntil' <= now + Lockout
       ELSE lockedUntil' = NoLock
    /\ UNCHANGED <<now, turnedAway>>

TurnAway ==
    /\ failed = MaxFailed
    /\ wrong >= MaxFailed
    /\ lockedUntil # NoLock /\ lockedUntil > now
    /\ turnedAway' = turnedAway + 1
    /\ UNCHANGED <<now, wrong, failed, lockedUntil>>

Tick == now' = now + 1 /\ UNCHANGED <<wrong, turnedAway, failed, lockedUntil>>

Next == Forgive \/ Count \/ TurnAway \/ Tick

Spec == Init /\ [][Next]_vars
=============================================================================
