----------------------------- MODULE PinLockout -----------------------------
(***************************************************************************)
(* What the transaction-PIN component promises of one user, whatever the   *)
(* number of requests in flight: every attempt counts, and each one is     *)
(* judged on the state the previous one left.  design.md says "The         *)
(* PINService checks and resets these atomically"; here an attempt is one  *)
(* step.  PinService is compared with this specification by a refinement   *)
(* mapping.                                                                *)
(***************************************************************************)
EXTENDS Naturals

CONSTANTS
    ValidPin,   \* the PINs of 4 to 6 digits
    NoLock,     \* pinLockedUntil = null
    MaxFailed,  \* MAX_FAILED_ATTEMPTS
    Lockout     \* LOCKOUT_DURATION_MINUTES, in units of the clock

VARIABLES now, pinHash, failed, lockedUntil

vars == <<now, pinHash, failed, lockedUntil>>

LockSet     == lockedUntil # NoLock
LockActive  == LockSet /\ lockedUntil > now
LockExpired == LockSet /\ lockedUntil <= now

\* Nobody has tried yet.
Init == /\ now = 0
        /\ failed = 0
        /\ lockedUntil = NoLock

\* A PIN is set or reset: the slate is clean.
SetPin == /\ pinHash' \in ValidPin
          /\ failed' = 0
          /\ lockedUntil' = NoLock
          /\ now' = now

\* The right PIN, outside a lock.
Accept == /\ ~LockActive
          /\ failed' = 0
          /\ lockedUntil' = NoLock
          /\ UNCHANGED <<now, pinHash>>

\* A wrong PIN, outside a lock: it counts, and the MaxFailed-th one locks
\* for at most Lockout (the answer may be recorded a little after it was
\* computed).
Refuse == /\ ~LockActive
          /\ failed' = (IF LockExpired THEN 0 ELSE failed) + 1
          /\ IF failed' >= MaxFailed
             THEN /\ lockedUntil' \in Nat
                  /\ lockedUntil' <= now + Lockout
             ELSE lockedUntil' = NoLock
          /\ UNCHANGED <<now, pinHash>>

Tick == now' = now + 1 /\ UNCHANGED <<pinHash, failed, lockedUntil>>

Next == SetPin \/ Accept \/ Refuse \/ Tick

Spec == Init /\ [][Next]_vars

=============================================================================
