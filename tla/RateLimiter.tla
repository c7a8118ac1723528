----------------------------- MODULE RateLimiter -----------------------------
(***************************************************************************)
(* createRateLimiter of src/lib/middleware/rate-limiter.ts: a log of the   *)
(* requests let through, per key (an address or a user).  check is         *)
(* synchronous, so it is one action; what varies is when it is called.     *)
(*                                                                         *)
(* allowed is a history variable: every request let through since the key  *)
(* was last reset, where store forgets.                                    *)
(***************************************************************************)
EXTENDS Integers, Sequences, FiniteSets

CONSTANTS
    Key,
    MaxRequests,
    Window,      \* windowMs, in units of the clock
    MaxTime      \* bound: where the clock of a run stops

ASSUME LimiterAssumption ==
    /\ MaxRequests \in Nat \ {0}
    /\ Window \in Nat \ {0}
    /\ MaxTime \in Nat

VARIABLES
    now,     \* Date.now()
    store,   \* the timestamps kept per key; <<>> when there is no entry
    last,    \* the latest answer of check per key
    allowed

vars == <<now, store, last, allowed>>

NoAnswer == [allowed |-> TRUE, remaining |-> 0, resetAt |-> 0]

\* The types of the variables.
TypeOK ==
    /\ now \in Nat
    /\ store \in [Key -> Seq(Nat)]
    /\ last \in [Key -> [allowed : BOOLEAN, remaining : 0..MaxRequests, resetAt : Nat]]
    /\ allowed \in [Key -> Seq(Nat)]

Init ==
    /\ now = 0
    /\ store = [k \in Key |-> <<>>]
    /\ last = [k \in Key |-> NoAnswer]
    /\ allowed = [k \in Key |-> <<>>]

\* timestamps.filter: what stands at the places that are kept, in order.
Filter(timestamps, places) ==
    [n \in 1..Cardinality(places) |->
        timestamps[CHOOSE i \in places : Cardinality({j \in places : j <= i}) = n]]

\* Mutant: the start of the window still counts.
RecentOrEqual(timestamps, t) ==
    Filter(timestamps, {i \in DOMAIN timestamps : timestamps[i] >= t - Window})

\* The timestamps still in the window that ends at t.
Recent(timestamps, t) ==
    Filter(timestamps, {i \in DOMAIN timestamps : timestamps[i] > t - Window})

\* The pruned log is saved back, without or with the request itself.
Refuse(k, timestamps) ==
    /\ store' = [store EXCEPT ![k] = timestamps]
    /\ last' = [last EXCEPT ![k] = [allowed |-> FALSE, remaining |-> 0,
                                    resetAt |-> timestamps[1] + Window]]
    /\ UNCHANGED <<now, allowed>>

Accept(k, timestamps, remaining) ==
    /\ store' = [store EXCEPT ![k] = Append(timestamps, now)]
    /\ last' = [last EXCEPT ![k] = [allowed |-> TRUE, remaining |-> remaining,
                                    resetAt |-> now + Window]]
    /\ allowed' = [allowed EXCEPT ![k] = Append(@, now)]
    /\ UNCHANGED now

\* Mutant: one request too many.
CheckOneMore(k) ==
    LET timestamps == Recent(store[k], now) IN
    \/ Len(timestamps) > MaxRequests /\ Refuse(k, timestamps)
    \/ /\ Len(timestamps) <= MaxRequests
       /\ Accept(k, timestamps, MaxRequests - (Len(timestamps) + 1))

Check(k) ==
    LET timestamps == Recent(store[k], now) IN
    \/ Len(timestamps) >= MaxRequests /\ Refuse(k, timestamps)
    \/ /\ Len(timestamps) < MaxRequests
       /\ Accept(k, timestamps, MaxRequests - (Len(timestamps) + 1))

\* reset and clear, which start the history of their keys over.
Forget(keys) ==
    /\ store' = [k \in Key |-> IF k \in keys THEN <<>> ELSE store[k]]
    /\ last' = [k \in Key |-> IF k \in keys THEN NoAnswer ELSE last[k]]
    /\ allowed' = [k \in Key |-> IF k \in keys THEN <<>> ELSE allowed[k]]
    /\ UNCHANGED now

Reset(k) == Forget({k})

Clear == Forget(Key)

Tick ==
    /\ now < MaxTime
    /\ now' = now + 1
    /\ UNCHANGED <<store, last, allowed>>

Next == Tick \/ Clear \/ \E k \in Key : Check(k) \/ Reset(k)

Spec == Init /\ [][Next]_vars

-----------------------------------------------------------------------------
(* Properties.                                                             *)

\* However the requests fall, no window of Window units ever lets more than
\* MaxRequests of one key through, though the store forgets as it goes
\* (requirements 13.1 and 13.2).
WindowNeverExceeded ==
    \A k \in Key, t \in 0..now :
        Cardinality({i \in DOMAIN allowed[k] : allowed[k][i] > t - Window /\ allowed[k][i] <= t})
            <= MaxRequests

Admits(k, t) == Len(Recent(store[k], t)) < MaxRequests

\* What check answers is true: a refused caller is told exactly when a request
\* will pass again, not before resetAt and from then on; an accepted one who
\* is told that some requests remain can make them, now or later.
AnswersAreHonest ==
    \A k \in Key :
        IF last[k].allowed
        THEN store[k] # <<>> => Len(Recent(store[k], now)) + last[k].remaining <= MaxRequests
        ELSE \A t \in now..(MaxTime + Window) : Admits(k, t) <=> t >= last[k].resetAt
=============================================================================
