-------------------------- MODULE PinServiceProofs --------------------------
(***************************************************************************)
(* Proofs about PinService, for every number of requests, every PIN set,   *)
(* every threshold and lockout, and every degree of concurrency.           *)
(*                                                                         *)
(* The counter and the lock are only ever written together, so what must   *)
(* be kept in the invariant beside the row is what the requests hold: the  *)
(* counter a request read before bcrypt.compare (below the threshold, or   *)
(* it would have been turned away), and the update it computed after it.   *)
(***************************************************************************)
EXTENDS PinService, FiniteSetTheorems, TLAPS

\* A counter and a lock that agree at the present time.
Agree(c) ==
    /\ c.failed <= MaxFailed
    /\ c.lockedUntil # NoLock <=> c.failed = MaxFailed
    /\ c.lockedUntil # NoLock => c.lockedUntil <= now + Lockout

\* What the requests in flight hold.
HeldAgree ==
    \A r \in Request :
        /\ pc[r] = "comparing" => seen[r].failed < MaxFailed
        /\ pc[r] = "writing" => Agree(update[r])

CounterInv == TypeOK /\ LockTracksCounter /\ HeldAgree

\* How the counters in flight compare with the attempts on record: an update
\* is ahead of the record by its own attempt at most.
HeldEarned ==
    \A r \in Request :
        /\ pc[r] = "comparing" => seen[r].failed <= Cardinality(Wrong)
        /\ pc[r] = "writing" =>
             update[r].failed <= Cardinality(Wrong) + (IF answer[r] = "mismatch" THEN 1 ELSE 0)

EarnedInv == LockoutEarned /\ HeldEarned

-----------------------------------------------------------------------------

\* The initial row and requests have their types.
LEMMA InitTypeOK == Init => TypeOK
BY PinAssumption
   DEF Init, TypeOK, Stage, Operation, Answer, Expiry, Counter, Cleared

\* Every handler step and every tick keeps the types.
LEMMA NextTypeOK == TypeOK /\ [Next]_vars => TypeOK'
<1> SUFFICES ASSUME TypeOK, [Next]_vars PROVE TypeOK'
  OBVIOUS
<1> USE PinAssumption DEF TypeOK, Stage, Operation, Answer, Expiry, Counter, Cleared
<1>1. CASE Tick
  BY <1>1 DEF Tick
<1>2. CASE \E r \in Request : Handle(r)
  <2> PICK r \in Request : Handle(r)
    BY <1>2
  <2>1. CASE CallVerify(r)
    BY <2>1 DEF CallVerify
  <2>2. CASE CallSet(r)
    <3>1. call' \in [Request -> [op : Operation, pin : Pin \cup {NoPin}]]
      <4> PICK op \in {"set", "reset"}, pin \in Pin :
            call' = [call EXCEPT ![r] = [op |-> op, pin |-> pin]]
        BY <2>2 DEF CallSet
      <4> QED
        OBVIOUS
    <3>2. pc' \in [Request -> Stage] /\ answer' \in [Request -> Answer]
      BY <2>2 DEF CallSet
    <3>3. update' \in [Request -> Counter]
      <4>1. Cleared \in Counter
        OBVIOUS
      <4>2. update' = [update EXCEPT ![r] = Cleared] \/ update' = update
        BY <2>2 DEF CallSet
      <4> QED
        BY <4>1, <4>2
    <3> QED
      BY <2>2, <3>1, <3>2, <3>3 DEF CallSet
  <2>3. CASE ReadUnset(r)
    BY <2>3 DEF ReadUnset
  <2>4. CASE ReadLocked(r)
    BY <2>4 DEF ReadLocked
  <2>5. CASE ReadOpen(r)
    BY <2>5 DEF ReadOpen, EffectiveFailed
  <2>6. CASE Compare(r)
    <3>1. AfterMismatch(seen[r].failed) \in Counter /\ Cleared \in Counter
      BY DEF AfterMismatch
    <3>2. \E counter \in Counter : update' = [update EXCEPT ![r] = counter]
      BY <2>6, <3>1 DEF Compare
    <3>3. update \in [Request -> Counter]
      OBVIOUS
    <3>4. update' \in [Request -> Counter]
      <4> HIDE DEF Counter
      <4> QED
        BY <3>2, <3>3
    <3> QED
      BY <2>6, <3>4 DEF Compare
  <2>7. CASE Write(r)
    BY <2>7 DEF Write
  <2>8. CASE Respond(r)
    BY <2>8 DEF Respond, AttemptsRemaining
  <2>9. CASE QueryFails(r)
    BY <2>9 DEF QueryFails
  <2> QED
    BY <2>1, <2>2, <2>3, <2>4, <2>5, <2>6, <2>7, <2>8, <2>9 DEF Handle
<1>3. CASE UNCHANGED vars
  BY <1>3 DEF vars
<1> QED
  BY <1>1, <1>2, <1>3 DEF Next

\* Type correctness: whatever the requests do, the row and every handler's
\* locals keep their shape.
THEOREM TypeCorrect == Spec => []TypeOK
BY InitTypeOK, NextTypeOK, PTL DEF Spec

-----------------------------------------------------------------------------

\* The update after a wrong PIN, computed from a counter below the threshold.
LEMMA AfterMismatchAgrees ==
  ASSUME now \in Nat, NEW n \in Nat, n < MaxFailed
  PROVE  Agree(AfterMismatch(n))
<1>1. CASE n + 1 >= MaxFailed
  <2>1. AfterMismatch(n) = [failed |-> n + 1, lockedUntil |-> now + Lockout]
    BY <1>1 DEF AfterMismatch
  <2>2. n + 1 = MaxFailed /\ now + Lockout \in Nat
    BY <1>1, PinAssumption
  <2> QED
    BY <2>1, <2>2, PinAssumption DEF Agree
<1>2. CASE ~(n + 1 >= MaxFailed)
  BY <1>2, PinAssumption DEF AfterMismatch, Agree
<1> QED
  BY <1>1, <1>2

\* Outside a lock the effective counter is below the threshold.
LEMMA OpenBelowThreshold ==
  ASSUME TypeOK, LockTracksCounter, ~Locked
  PROVE  EffectiveFailed < MaxFailed
<1>1. /\ now \in Nat /\ user.failed \in Nat /\ MaxFailed \in Nat \ {0}
      /\ user.lockedUntil \in Nat \cup {NoLock}
  BY PinAssumption DEF TypeOK, Expiry
<1>2. CASE user.lockedUntil = NoLock
  BY <1>1, <1>2 DEF LockTracksCounter, EffectiveFailed, LockExpired
<1>3. CASE user.lockedUntil # NoLock
  <2>1. LockExpired
    BY <1>1, <1>3 DEF Locked, LockExpired
  <2> QED
    BY <1>1, <2>1 DEF EffectiveFailed
<1> QED
  BY <1>2, <1>3

\* At first the counter is zero and nobody holds anything.
LEMMA InitCounterInv == Init => CounterInv
<1> SUFFICES ASSUME Init PROVE CounterInv
  OBVIOUS
<1>1. TypeOK
  BY InitTypeOK
<1>2. LockTracksCounter /\ HeldAgree
  BY PinAssumption DEF Init, LockTracksCounter, HeldAgree, Cleared
<1> QED
  BY <1>1, <1>2 DEF CounterInv

\* Every step of every request keeps the row and what is held in agreement.
LEMMA NextCounterInv == CounterInv /\ [Next]_vars => CounterInv'
<1> SUFFICES ASSUME CounterInv, [Next]_vars PROVE CounterInv'
  OBVIOUS
<1>0. TypeOK'
  BY NextTypeOK DEF CounterInv
<1> USE PinAssumption DEF CounterInv, TypeOK, LockTracksCounter, HeldAgree, Agree,
                          Expiry, Counter
<1>1. CASE Tick
  BY <1>0, <1>1 DEF Tick
<1>2. CASE \E r \in Request : Handle(r)
  <2> PICK r \in Request : Handle(r)
    BY <1>2
  <2>1. CASE CallVerify(r)
    BY <1>0, <2>1 DEF CallVerify
  <2>2. CASE CallSet(r)
    <3>1. UNCHANGED <<now, user, seen>>
      BY <2>2 DEF CallSet
    <3>2. \/ /\ pc' = [pc EXCEPT ![r] = "writing"]
             /\ update' = [update EXCEPT ![r] = Cleared]
          \/ /\ pc' = [pc EXCEPT ![r] = "done"]
             /\ update' = update
      BY <2>2 DEF CallSet
    <3>3. Agree(Cleared)
      BY DEF Cleared
    <3>4. HeldAgree'
      BY <3>1, <3>2, <3>3
    <3> QED
      BY <1>0, <3>1, <3>4
  <2>3. CASE ReadUnset(r)
    BY <1>0, <2>3 DEF ReadUnset
  <2>4. CASE ReadLocked(r)
    BY <1>0, <2>4 DEF ReadLocked
  <2>5. CASE ReadOpen(r)
    <3>1. EffectiveFailed < MaxFailed
      BY <2>5, OpenBelowThreshold DEF ReadOpen
    <3>2. HeldAgree'
      BY <2>5, <3>1 DEF ReadOpen
    <3> QED
      BY <1>0, <2>5, <3>2 DEF ReadOpen
  <2>6. CASE Compare(r)
    <3>1. seen[r].failed \in Nat /\ seen[r].failed < MaxFailed
      BY <2>6 DEF Compare
    <3>2. Agree(AfterMismatch(seen[r].failed)) /\ Agree(Cleared)
      BY <3>1, AfterMismatchAgrees DEF Cleared
    <3>3. /\ UNCHANGED <<now, user, seen>>
          /\ pc' = [pc EXCEPT ![r] = "writing"]
          /\ \/ update' = [update EXCEPT ![r] = Cleared]
             \/ update' = [update EXCEPT ![r] = AfterMismatch(seen[r].failed)]
      BY <2>6 DEF Compare
    <3>4. HeldAgree'
      BY <3>2, <3>3
    <3> QED
      BY <1>0, <3>3, <3>4
  <2>7. CASE Write(r)
    BY <1>0, <2>7 DEF Write
  <2>8. CASE Respond(r)
    BY <1>0, <2>8 DEF Respond
  <2>9. CASE QueryFails(r)
    BY <1>0, <2>9 DEF QueryFails
  <2> QED
    BY <2>1, <2>2, <2>3, <2>4, <2>5, <2>6, <2>7, <2>8, <2>9 DEF Handle
<1>3. CASE UNCHANGED vars
  BY <1>0, <1>3 DEF vars
<1> QED
  BY <1>1, <1>2, <1>3 DEF Next

\* Counter and lock agree under every interleaving of verifyPin, setPin and
\* resetPin, although none of them runs in a transaction.
THEOREM CounterAndLockAgree == Spec => []LockTracksCounter
<1>1. CounterInv => LockTracksCounter
  BY DEF CounterInv
<1> QED
  BY InitCounterInv, NextCounterInv, <1>1, PTL DEF Spec

\* The verify route never promises attempts on an account that is locked at
\* that moment, although it reads the counter in a query of its own.
THEOREM AttemptsLeftAreUsable == Spec => AttemptsLeftMeansOpen
<1>1. CounterInv /\ [Next]_vars =>
        [\A r \in Request :
           (Respond(r) /\ answer[r] = "mismatch" /\ reply'[r] > 0) => ~Locked]_vars
  <2> SUFFICES ASSUME CounterInv, NEW r \in Request, Respond(r),
                      answer[r] = "mismatch", reply'[r] > 0
               PROVE ~Locked
    OBVIOUS
  <2>1. reply'[r] = AttemptsRemaining
    BY DEF CounterInv, TypeOK, Respond
  <2>2. user.failed < MaxFailed
    BY <2>1, PinAssumption DEF CounterInv, TypeOK, AttemptsRemaining
  <2> QED
    BY <2>2, PinAssumption DEF CounterInv, TypeOK, LockTracksCounter, Locked
<1> QED
  BY InitCounterInv, NextCounterInv, <1>1, PTL DEF Spec, AttemptsLeftMeansOpen

-----------------------------------------------------------------------------

\* The record of wrong PINs is a finite set of requests.
LEMMA WrongIsFinite == IsFiniteSet(Wrong) /\ Cardinality(Wrong) \in Nat
<1>1. Wrong \in SUBSET Request
  BY DEF Wrong
<1>2. IsFiniteSet(Wrong)
  BY <1>1, FS_Subset, PinAssumption
<1> QED
  BY <1>2, FS_CardinalityType

\* No step takes an attempt off the record, so a bound once reached stays.
LEMMA RecordGrows ==
  ASSUME NEW r \in Request, r \notin Wrong, Wrong' = Wrong \cup {r}
  PROVE  Cardinality(Wrong)' = Cardinality(Wrong) + 1
<1>1. Cardinality(Wrong \cup {r}) = Cardinality(Wrong) + 1
  BY WrongIsFinite, FS_AddElement
<1> QED
  BY <1>1

\* At first no wrong PIN is recorded and none is counted.
LEMMA InitEarnedInv == Init => EarnedInv
<1> SUFFICES ASSUME Init PROVE EarnedInv
  OBVIOUS
<1> QED
  BY WrongIsFinite DEF Init, EarnedInv, LockoutEarned, HeldEarned

\* No step makes the counter, or an update in flight, overtake the record.
LEMMA NextEarnedInv == CounterInv /\ EarnedInv /\ [Next]_vars => EarnedInv'
<1> SUFFICES ASSUME CounterInv, EarnedInv, [Next]_vars PROVE EarnedInv'
  OBVIOUS
<1>0. TypeOK /\ TypeOK' /\ Cardinality(Wrong) \in Nat
  BY NextTypeOK, WrongIsFinite DEF CounterInv
<1> USE PinAssumption DEF EarnedInv, LockoutEarned, HeldEarned
<1>1. CASE Tick
  BY <1>1 DEF Tick, Wrong
<1>2. CASE \E r \in Request : Handle(r)
  <2> PICK r \in Request : Handle(r)
    BY <1>2
  <2>1. CASE CallVerify(r)
    <3>1. Wrong' = Wrong
      BY <1>0, <2>1 DEF CallVerify, Admit, Wrong, TypeOK
    <3> QED
      BY <1>0, <2>1, <3>1 DEF CallVerify, TypeOK
  <2>2. CASE CallSet(r)
    <3>1. Wrong' = Wrong
      BY <1>0, <2>2 DEF CallSet, Admit, Wrong, TypeOK
    <3>2. \A q \in Request : pc'[q] = "comparing" => pc[q] = "comparing"
      BY <1>0, <2>2 DEF CallSet, TypeOK
    <3>3. update'[r].failed = 0 \/ pc'[r] # "writing"
      BY <1>0, <2>2 DEF CallSet, TypeOK, Cleared
    <3>4. \A q \in Request : answer'[q] = "locked" => answer[q] = "locked"
      BY <1>0, <2>2 DEF CallSet, TypeOK
    <3>5. \A q \in Request \ {r} : /\ pc'[q] = pc[q] /\ update'[q] = update[q]
                                   /\ answer'[q] = answer[q]
      BY <1>0, <2>2 DEF CallSet, TypeOK
    <3>6. UNCHANGED <<user, seen>>
      BY <2>2 DEF CallSet
    <3> QED
      BY <1>0, <3>1, <3>2, <3>3, <3>4, <3>5, <3>6
  <2>3. CASE ReadUnset(r)
    <3>1. Wrong' = Wrong
      BY <1>0, <2>3 DEF ReadUnset, Wrong, TypeOK
    <3> QED
      BY <1>0, <2>3, <3>1 DEF ReadUnset, TypeOK
  <2>4. CASE ReadLocked(r)
    <3>1. Wrong' = Wrong
      BY <1>0, <2>4 DEF ReadLocked, Wrong, TypeOK
    <3>2. user.failed = MaxFailed
      BY <2>4 DEF ReadLocked, Locked, CounterInv, LockTracksCounter
    <3>3. Cardinality(Wrong) >= MaxFailed
      BY <1>0, <3>2
    <3> QED
      BY <1>0, <2>4, <3>1, <3>3 DEF ReadLocked, TypeOK
  <2>5. CASE ReadOpen(r)
    <3>1. Wrong' = Wrong
      BY <1>0, <2>5 DEF ReadOpen, Wrong, TypeOK
    <3>2. EffectiveFailed <= Cardinality(Wrong)
      BY <1>0 DEF EffectiveFailed, TypeOK
    <3> QED
      BY <1>0, <2>5, <3>1, <3>2 DEF ReadOpen, TypeOK
  <2>6. CASE Compare(r)
    <3>1. Wrong' = Wrong
      BY <1>0, <2>6 DEF Compare, Wrong, TypeOK
    <3>2. \/ update'[r].failed = 0
          \/ update'[r].failed = seen[r].failed + 1 /\ answer'[r] = "mismatch"
      BY <1>0, <2>6 DEF Compare, TypeOK, Cleared, AfterMismatch
    <3>3. \A q \in Request \ {r} : /\ pc'[q] = pc[q] /\ update'[q] = update[q]
                                   /\ answer'[q] = answer[q]
      BY <1>0, <2>6 DEF Compare, TypeOK
    <3>4. /\ UNCHANGED <<user, seen>> /\ pc[r] = "comparing" /\ pc'[r] = "writing"
          /\ answer'[r] # "locked" /\ seen[r].failed \in Nat
      BY <1>0, <2>6 DEF Compare, TypeOK
    <3> QED
      BY <1>0, <3>1, <3>2, <3>3, <3>4
  <2>7. CASE Write(r)
    <3>1. /\ r \notin Wrong /\ user'.failed = update[r].failed
          /\ UNCHANGED <<seen, update, answer>> /\ pc'[r] \notin {"comparing", "writing"}
          /\ \A q \in Request \ {r} : pc'[q] = pc[q]
          /\ update[r].failed \in Nat
      BY <1>0, <2>7 DEF Write, Wrong, TypeOK, Counter
    <3>2. CASE answer[r] = "mismatch"
      <4>1. Wrong' = Wrong \cup {r}
        BY <1>0, <2>7, <3>2 DEF Write, Wrong, TypeOK
      <4>2. Cardinality(Wrong)' = Cardinality(Wrong) + 1
        BY <3>1, <4>1, RecordGrows
      <4>3. \A q \in Request : /\ seen[q].failed \in Nat /\ update[q].failed \in Nat
        BY <1>0 DEF TypeOK, Counter
      <4> QED
        BY <1>0, <2>7, <3>1, <3>2, <4>2, <4>3 DEF Write
    <3>3. CASE answer[r] # "mismatch"
      <4>1. Wrong' = Wrong
        BY <1>0, <2>7, <3>3 DEF Write, Wrong, TypeOK
      <4> QED
        BY <1>0, <2>7, <3>1, <3>3, <4>1 DEF Write
    <3> QED
      BY <3>2, <3>3
  <2>8. CASE Respond(r)
    <3>1. Wrong' = Wrong
      BY <1>0, <2>8 DEF Respond, Wrong, TypeOK
    <3> QED
      BY <1>0, <2>8, <3>1 DEF Respond, TypeOK
  <2>9. CASE QueryFails(r)
    <3>1. Wrong' = Wrong
      BY <1>0, <2>9 DEF QueryFails, Wrong, TypeOK
    <3> QED
      BY <1>0, <2>9, <3>1 DEF QueryFails, TypeOK
  <2> QED
    BY <2>1, <2>2, <2>3, <2>4, <2>5, <2>6, <2>7, <2>8, <2>9 DEF Handle
<1>3. CASE UNCHANGED vars
  BY <1>3 DEF vars, Wrong
<1> QED
  BY <1>1, <1>2, <1>3 DEF Next

\* Lost updates never lock anyone out early: a lock, and every 423, is preceded
\* by MAX_FAILED_ATTEMPTS recorded wrong PINs.
THEOREM LockoutsAreEarned == Spec => []LockoutEarned
<1>1. EarnedInv => LockoutEarned
  BY DEF EarnedInv
<1> QED
  BY InitCounterInv, NextCounterInv, InitEarnedInv, NextEarnedInv, <1>1, PTL DEF Spec

-----------------------------------------------------------------------------
(* Any number at a time.  The update of an attempt is a function of what   *)
(* was read, so an attempt whose reading is still true is an atomic one.   *)

HoldsJudgement(r) ==
    /\ pc[r] \in {"idle", "called", "comparing"} => answer[r] = "none"
    /\ pc[r] \in {"called", "comparing"} => call[r].op = "verify"
    /\ pc[r] = "writing" =>
         IF call[r].op # "verify"
         THEN update[r] = Cleared /\ call[r].pin \in ValidPin /\ answer[r] = "ok"
         ELSE /\ answer[r] \in {"match", "mismatch"}
              /\ seen[r].failed < MaxFailed
              /\ answer[r] = "match" => update[r] = Cleared
              /\ answer[r] = "mismatch" => update[r].failed = seen[r].failed + 1

Judged == \A r \in Request : HoldsJudgement(r)

\* Every step keeps the update of an attempt tied to what was read.
LEMMA NextJudged == CounterInv /\ Judged /\ [Next]_vars => Judged'
<1> SUFFICES ASSUME CounterInv, Judged, [Next]_vars PROVE Judged'
  OBVIOUS
<1> USE DEF Judged, HoldsJudgement
<1>0. TypeOK /\ HeldAgree
  BY DEF CounterInv
<1>1. CASE Tick
  BY <1>1 DEF Tick
<1>2. ASSUME NEW r \in Request, Handle(r) PROVE Judged'
  <2>1. CASE CallVerify(r)
    BY <1>0, <2>1 DEF CallVerify, Admit, TypeOK
  <2>2. CASE CallSet(r)
    <3> PICK op \in {"set", "reset"}, pin \in Pin :
          /\ call' = [call EXCEPT ![r] = [op |-> op, pin |-> pin]]
          /\ \/ /\ pin \in ValidPin
                /\ pc' = [pc EXCEPT ![r] = "writing"]
                /\ update' = [update EXCEPT ![r] = Cleared]
                /\ answer' = [answer EXCEPT ![r] = "ok"]
             \/ /\ pc' = [pc EXCEPT ![r] = "done"]
                /\ answer' = [answer EXCEPT ![r] = "invalid"]
                /\ UNCHANGED update
      BY <2>2 DEF CallSet
    <3>1. seen' = seen /\ call'[r].op # "verify" /\ call'[r].pin = pin
      BY <1>0, <2>2 DEF CallSet, TypeOK
    <3>2. HoldsJudgement(r)'
      BY <1>0, <3>1 DEF TypeOK
    <3>3. \A q \in Request \ {r} : HoldsJudgement(q)'
      BY <1>0, <3>1 DEF TypeOK
    <3> QED
      BY <3>2, <3>3
  <2>3. CASE ReadUnset(r) \/ ReadLocked(r) \/ ReadOpen(r) \/ Write(r) \/ Respond(r) \/ QueryFails(r)
    <3>1. /\ pc'[r] \notin {"idle", "called", "writing"}
          /\ pc'[r] = "comparing" => pc[r] = "called" /\ answer'[r] = answer[r]
          /\ UNCHANGED <<call, update>>
          /\ \A q \in Request \ {r} : pc'[q] = pc[q] /\ answer'[q] = answer[q] /\ seen'[q] = seen[q]
      BY <1>0, <2>3 DEF ReadUnset, ReadLocked, ReadOpen, Write, Respond, QueryFails, TypeOK
    <3> QED
      BY <1>0, <3>1
  <2>4. CASE Compare(r)
    <3>1. AfterMismatch(seen[r].failed).failed = seen[r].failed + 1
      BY DEF AfterMismatch
    <3>2. seen[r].failed < MaxFailed /\ call[r].op = "verify"
      BY <1>0, <2>4 DEF Compare, HeldAgree
    <3> QED
      BY <1>0, <2>4, <3>1, <3>2 DEF Compare, TypeOK
  <2> QED
    BY <1>2, <2>1, <2>2, <2>3, <2>4 DEF Handle
<1>3. CASE UNCHANGED vars
  BY <1>3 DEF vars
<1> QED
  BY <1>1, <1>2, <1>3 DEF Next

\* With any number of requests in flight, a write of verifyPin, setPin or
\* resetPin whose reading is still what the row says is an atomic attempt.
THEOREM FreshWritesAreAtomic == Spec => FreshWriteIsAtomic
<1>1. Init => Judged
  BY DEF Init, Judged, HoldsJudgement
<1>2. CounterInv /\ Judged /\ [Next]_vars =>
        [\A r \in Request :
           Write(r) /\ Fresh(r) =>
               IF call[r].op # "verify" THEN AtomicLockout!SetPin
               ELSE IF answer[r] = "match" THEN AtomicLockout!Accept
               ELSE AtomicLockout!Refuse]_vars
  <2> SUFFICES ASSUME CounterInv, Judged, NEW r \in Request, Write(r), Fresh(r)
               PROVE IF call[r].op # "verify" THEN AtomicLockout!SetPin
                     ELSE IF answer[r] = "match" THEN AtomicLockout!Accept
                     ELSE AtomicLockout!Refuse
    OBVIOUS
  <2>1. /\ pc[r] = "writing" /\ now' = now
        /\ user'.failed = update[r].failed /\ user'.lockedUntil = update[r].lockedUntil
        /\ user'.pinHash = IF call[r].op = "verify" THEN user.pinHash ELSE call[r].pin
    BY DEF Write
  <2>2. HoldsJudgement(r) /\ Agree(update[r])
    BY <2>1 DEF Judged, CounterInv, HeldAgree
  <2>3. ASSUME call[r].op # "verify" PROVE AtomicLockout!SetPin
    BY <2>1, <2>2, <2>3 DEF HoldsJudgement, Cleared, AtomicLockout!SetPin
  <2>4. ASSUME call[r].op = "verify" PROVE ~Locked /\ seen[r].failed = EffectiveFailed
    <3>1. seen[r].failed = EffectiveFailed /\ seen[r].failed < MaxFailed
      BY <2>1, <2>2, <2>4 DEF Fresh, HoldsJudgement
    <3>2. ASSUME Locked PROVE EffectiveFailed = MaxFailed
      BY <3>2, PinAssumption DEF EffectiveFailed, LockExpired, Locked, CounterInv, LockTracksCounter,
         TypeOK, Expiry
    <3> QED
      BY <3>1, <3>2, PinAssumption
  <2>5. ASSUME call[r].op = "verify", answer[r] = "match" PROVE AtomicLockout!Accept
    <3>1. update[r] = Cleared
      BY <2>1, <2>2, <2>5 DEF HoldsJudgement
    <3> QED
      BY <2>1, <2>4, <2>5, <3>1 DEF Cleared, Locked, AtomicLockout!Accept,
         AtomicLockout!LockActive, AtomicLockout!LockSet
  <2>6. ASSUME call[r].op = "verify", answer[r] = "mismatch" PROVE AtomicLockout!Refuse
    <3>1. user'.failed = EffectiveFailed + 1
      BY <2>1, <2>2, <2>4, <2>6 DEF HoldsJudgement
    <3>2. /\ update[r].lockedUntil \in Nat \cup {NoLock}
          /\ update[r].failed \in Nat /\ MaxFailed \in Nat
      BY PinAssumption DEF CounterInv, TypeOK, Counter, Expiry
    <3>3. IF user'.failed >= MaxFailed
          THEN user'.lockedUntil \in Nat /\ user'.lockedUntil <= now + Lockout
          ELSE user'.lockedUntil = NoLock
      BY <2>1, <2>2, <3>2 DEF Agree
    <3> QED
      BY <2>1, <2>4, <2>6, <3>1, <3>3 DEF Locked, EffectiveFailed, LockExpired, AtomicLockout!Refuse,
         AtomicLockout!LockActive, AtomicLockout!LockExpired, AtomicLockout!LockSet
  <2>7. call[r].op # "verify" \/ answer[r] \in {"match", "mismatch"}
    BY <2>1, <2>2 DEF HoldsJudgement
  <2> QED
    BY <2>3, <2>5, <2>6, <2>7
<1> QED
  BY <1>1, <1>2, InitCounterInv, NextCounterInv, NextJudged, PTL DEF Spec, FreshWriteIsAtomic

-----------------------------------------------------------------------------
(* The lockout that overlapping requests implement.                        *)

\* The attempts turned away are finitely many.
LEMMA TurnedAwayIsFinite ==
  IsFiniteSet(TurnedAway) /\ Cardinality(TurnedAway) \in Nat
<1>1. TurnedAway \in SUBSET Request
  BY DEF TurnedAway
<1>2. IsFiniteSet(TurnedAway)
  BY <1>1, FS_Subset, PinAssumption
<1> QED
  BY <1>2, FS_CardinalityType

\* At first nothing is on record.
LEMMA InitForgetful == Init => Forgetful!Init
<1> SUFFICES ASSUME Init PROVE Forgetful!Init
  OBVIOUS
<1>1. Wrong = {} /\ TurnedAway = {}
  BY DEF Init, Wrong, TurnedAway
<1>2. Cardinality({}) = 0
  BY FS_EmptySet
<1> QED
  BY <1>1, <1>2 DEF Init, Forgetful!Init

\* A write puts its wrong PIN on record and counts it, or forgives.
LEMMA WriteForgetsOrCounts ==
  ASSUME CounterInv, EarnedInv, Judged, NEW r \in Request, Write(r)
  PROVE  Forgetful!Forgive \/ Forgetful!Count
<1>0. TypeOK
  BY DEF CounterInv
<1>1. /\ pc[r] = "writing" /\ now' = now /\ answer' = answer
      /\ user'.failed = update[r].failed /\ user'.lockedUntil = update[r].lockedUntil
  BY DEF Write
<1>2. HoldsJudgement(r) /\ Agree(update[r])
  BY <1>1 DEF Judged, CounterInv, HeldAgree
<1>3. TurnedAway' = TurnedAway
  BY <1>1 DEF TurnedAway
<1>4. CASE answer[r] = "mismatch" /\ call[r].op = "verify"
  <2>1. r \notin Wrong /\ Wrong' = Wrong \cup {r}
    BY <1>0, <1>1, <1>4 DEF Write, Wrong, TypeOK
  <2>2. Cardinality(Wrong)' = Cardinality(Wrong) + 1
    BY <2>1, RecordGrows
  <2>3. /\ update[r].failed \in Nat /\ update[r].failed >= 1
        /\ update[r].failed <= MaxFailed
    BY <1>0, <1>1, <1>2, <1>4, PinAssumption DEF HoldsJudgement, Agree, TypeOK, Counter
  <2>4. update[r].failed <= Cardinality(Wrong) + 1
    BY <1>1, <1>4 DEF EarnedInv, HeldEarned
  <2>5. IF update[r].failed = MaxFailed
        THEN update[r].lockedUntil \in Nat /\ update[r].lockedUntil <= now + Lockout
        ELSE update[r].lockedUntil = NoLock
    BY <1>0, <1>2 DEF Agree, TypeOK, Counter, Expiry
  <2> QED
    BY <1>1, <1>3, <2>2, <2>3, <2>4, <2>5, PinAssumption DEF Forgetful!Count
<1>5. CASE ~(answer[r] = "mismatch" /\ call[r].op = "verify")
  <2>1. update[r] = Cleared
    BY <1>1, <1>2, <1>5 DEF HoldsJudgement
  <2>2. Wrong' = Wrong
    <3>1. CASE answer[r] # "mismatch"
      BY <1>0, <1>1, <3>1 DEF Write, Wrong, TypeOK
    <3>2. CASE call[r].op # "verify"
      BY <1>0, <1>1, <1>2, <3>2 DEF Write, Wrong, TypeOK, HoldsJudgement
    <3> QED
      BY <1>5, <3>1, <3>2
  <2> QED
    BY <1>1, <1>3, <2>1, <2>2 DEF Cleared, Forgetful!Forgive
<1> QED
  BY <1>4, <1>5

\* Only an attempt that meets a lock in force is turned away.
LEMMA TurnsAwayByALock ==
  ASSUME CounterInv, EarnedInv, NEW r \in Request, ReadLocked(r), r \notin TurnedAway
  PROVE  Forgetful!TurnAway
<1>0. TypeOK
  BY DEF CounterInv
<1>1. Wrong' = Wrong
  BY <1>0 DEF ReadLocked, Wrong, TypeOK
<1>2. TurnedAway' = TurnedAway \cup {r}
  BY <1>0 DEF ReadLocked, TurnedAway, TypeOK
<1>3. Cardinality(TurnedAway \cup {r}) = Cardinality(TurnedAway) + 1
  BY TurnedAwayIsFinite, FS_AddElement
<1>4. user.failed = MaxFailed
  BY DEF ReadLocked, Locked, CounterInv, LockTracksCounter
<1>5. Cardinality(Wrong) >= MaxFailed
  BY <1>4 DEF EarnedInv, LockoutEarned
<1> QED
  BY <1>1, <1>2, <1>3, <1>4, <1>5 DEF ReadLocked, Locked, Forgetful!TurnAway

\* Every other step leaves both records and the row alone.
LEMMA OthersAreInvisible ==
  ASSUME CounterInv, Judged, NEW r \in Request,
         Handle(r), ~Write(r), ~ReadLocked(r)
  PROVE  UNCHANGED Forgetful!vars
<1>0. TypeOK /\ HoldsJudgement(r)
  BY DEF CounterInv, Judged
<1>1. UNCHANGED <<now, user>>
  BY DEF Handle, CallVerify, CallSet, ReadUnset, ReadOpen, Compare, Respond, QueryFails
<1>2. \A q \in Request \ {r} : pc'[q] = pc[q] /\ answer'[q] = answer[q]
  BY <1>0 DEF Handle, CallVerify, CallSet, ReadUnset, ReadOpen, Compare, Respond, QueryFails, TypeOK
<1>3. r \in Wrong' <=> r \in Wrong
  BY <1>0 DEF Handle, CallVerify, CallSet, Admit, ReadUnset, ReadOpen, Compare, Respond, QueryFails,
     TypeOK, Wrong, HoldsJudgement
<1>4. answer'[r] = "locked" <=> answer[r] = "locked"
  BY <1>0 DEF Handle, CallVerify, CallSet, Admit, ReadUnset, ReadOpen, Compare, Respond, QueryFails,
     TypeOK, HoldsJudgement
<1>5. Wrong' = Wrong /\ TurnedAway' = TurnedAway
  BY <1>2, <1>3, <1>4 DEF Wrong, TurnedAway
<1> QED
  BY <1>1, <1>5 DEF Forgetful!vars

\* Each step forgives, counts, turns away, lets time pass, or is invisible.
LEMMA StepIsForgetful ==
  CounterInv /\ EarnedInv /\ Judged /\ [Next]_vars => [Forgetful!Next]_(Forgetful!vars)
<1> SUFFICES ASSUME CounterInv, EarnedInv, Judged, [Next]_vars
             PROVE  [Forgetful!Next]_(Forgetful!vars)
  OBVIOUS
<1>1. CASE Tick
  <2>1. Wrong' = Wrong /\ TurnedAway' = TurnedAway
    BY <1>1 DEF Tick, Wrong, TurnedAway
  <2> QED
    BY <1>1, <2>1 DEF Tick, Forgetful!Tick, Forgetful!Next
<1>2. ASSUME NEW r \in Request, Handle(r) PROVE [Forgetful!Next]_(Forgetful!vars)
  <2>1. CASE Write(r)
    BY <2>1, WriteForgetsOrCounts DEF Forgetful!Next
  <2>2. CASE ReadLocked(r)
    <3>1. r \notin TurnedAway
      BY <2>2 DEF ReadLocked, TurnedAway, Judged, HoldsJudgement
    <3> QED
      BY <2>2, <3>1, TurnsAwayByALock DEF Forgetful!Next
  <2>3. CASE ~Write(r) /\ ~ReadLocked(r)
    BY <1>2, <2>3, OthersAreInvisible
  <2> QED
    BY <2>1, <2>2, <2>3
<1>3. CASE UNCHANGED vars
  BY <1>3 DEF vars, Wrong, TurnedAway, Forgetful!vars
<1> QED
  BY <1>1, <1>2, <1>3 DEF Next

\* However many requests overlap, verifyPin, setPin and resetPin implement the
\* forgetful lockout: it is what the races leave of the atomic one.
THEOREM LockoutsAreForgetful == Spec => ImplementsForgetfulLockout
<1>1. Init => Judged
  BY DEF Init, Judged, HoldsJudgement
<1> QED
  BY <1>1, InitForgetful, InitCounterInv, NextCounterInv, InitEarnedInv, NextEarnedInv, NextJudged,
     StepIsForgetful, PTL DEF Spec, ImplementsForgetfulLockout, Forgetful!Spec
=============================================================================
