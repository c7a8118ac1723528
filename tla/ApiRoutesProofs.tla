-------------------------- MODULE ApiRoutesProofs --------------------------
(***************************************************************************)
(* Proofs about RateLimiter and ApiRoutes, for every set of users,         *)
(* addresses and slots, every number of requests and every window.         *)
(*                                                                         *)
(* The store forgets, so it cannot say by itself that a window was never   *)
(* exceeded: Kept relates it to the history.  What is forgotten is the     *)
(* oldest part and has left the window, and two requests MaxRequests apart *)
(* in the history are a window apart in time.                              *)
(***************************************************************************)
EXTENDS ApiRoutes, FiniteSetTheorems, WellFoundedInduction, TLAPS

InOrder(s) == \A i, j \in DOMAIN s : i <= j => s[i] <= s[j]

\* f is s without its first k entries.
TailOf(f, s, k) ==
    /\ Len(f) = Len(s) - k
    /\ \A j \in 1..Len(f) : f[j] = s[k + j]

\* The first k entries of s are out of the window that ends at t.
OutOfWindow(s, k, t) == \A i \in 1..k : s[i] <= t - Window

-----------------------------------------------------------------------------
(* Sequences.                                                              *)

\* A set of numbers that is not empty has a least element.
LEMMA Least ==
    ASSUME NEW T \in SUBSET Nat, T # {}
    PROVE  \E x \in T : \A y \in T : x <= y
<1>1. \E x \in T : \A y \in T : ~ (<<y, x>> \in OpToRel(<, Nat))
  BY NatLessThanWellFounded, WFMin
<1>2. PICK x \in T : \A y \in T : ~ (<<y, x>> \in OpToRel(<, Nat))
  BY <1>1
<1>3. ASSUME NEW y \in T  PROVE x <= y
  <2>1. ~ (y < x)
    BY <1>2, <1>3, Zenon DEF OpToRel
  <2> QED
    BY <2>1
<1> QED
  BY <1>3

\* A sequence in order splits at any bound.
LEMMA Split ==
    ASSUME NEW s \in Seq(Nat), InOrder(s), NEW w \in Int
    PROVE  \E k \in 0..Len(s) : /\ \A i \in 1..k : s[i] <= w
                                /\ \A i \in (k + 1)..Len(s) : s[i] > w
<1> DEFINE T == {i \in 1..Len(s) : s[i] > w}
<1>1. CASE T = {}
  <2>1. \A i \in 1..Len(s) : s[i] \in Nat /\ s[i] <= w
    BY <1>1
  <2>2. Len(s) \in 0..Len(s) /\ (Len(s) + 1)..Len(s) = {}
    OBVIOUS
  <2> QED
    BY <2>1, <2>2
<1>2. CASE T # {}
  <2>1. T \in SUBSET Nat
    OBVIOUS
  <2>2. PICK x \in T : \A y \in T : x <= y
    BY <1>2, <2>1, Least
  <2>3. x \in 1..Len(s) /\ s[x] > w /\ x - 1 \in 0..Len(s)
    BY <2>2
  <2>4. \A i \in 1..(x - 1) : s[i] <= w
    <3>1. ASSUME NEW i \in 1..(x - 1)  PROVE s[i] <= w
      <4>1. i \in 1..Len(s) /\ i < x /\ s[i] \in Nat
        BY <2>3
      <4>2. i \notin T
        BY <2>2, <2>3, <4>1
      <4> QED
        BY <4>1, <4>2
    <3> QED
      BY <3>1
  <2>5. \A i \in ((x - 1) + 1)..Len(s) : s[i] > w
    <3>1. ASSUME NEW i \in ((x - 1) + 1)..Len(s)  PROVE s[i] > w
      <4>1. i \in 1..Len(s) /\ x <= i /\ s[i] \in Nat /\ s[x] \in Nat
        BY <2>3
      <4>2. s[x] <= s[i]
        BY <2>3, <4>1 DEF InOrder
      <4> QED
        BY <2>3, <4>1, <4>2
    <3> QED
      BY <3>1
  <2> QED
    BY <2>3, <2>4, <2>5
<1> QED
  BY <1>1, <1>2

\* Filter, where what is kept is the end of the sequence.
LEMMA FilterKeepsTheTail ==
    ASSUME NEW s \in Seq(Nat), NEW k \in 0..Len(s)
    PROVE  /\ Filter(s, (k + 1)..Len(s)) \in Seq(Nat)
           /\ TailOf(Filter(s, (k + 1)..Len(s)), s, k)
<1> DEFINE P == (k + 1)..Len(s)
           At(n) == CHOOSE i \in P : Cardinality({j \in P : j <= i}) = n
<1>1. Cardinality(P) = Len(s) - k
  <2>1. k + 1 \in Int /\ Len(s) \in Int
    OBVIOUS
  <2>2. Cardinality(P) = IF k + 1 > Len(s) THEN 0 ELSE Len(s) - (k + 1) + 1
    BY <2>1, FS_Interval
  <2> QED
    BY <2>2
<1>2. ASSUME NEW i \in P  PROVE Cardinality({j \in P : j <= i}) = i - k
  <2>1. k + 1 \in Int /\ i \in Int /\ k + 1 <= i
    OBVIOUS
  <2>2. {j \in P : j <= i} = (k + 1)..i
    OBVIOUS
  <2>3. Cardinality((k + 1)..i) = IF k + 1 > i THEN 0 ELSE i - (k + 1) + 1
    BY <2>1, FS_Interval
  <2>4. Cardinality((k + 1)..i) = i - k
    BY <2>1, <2>3
  <2> QED
    BY <2>2, <2>4, Zenon
<1>3. ASSUME NEW n \in 1..(Len(s) - k)  PROVE At(n) = k + n
  <2>1. k + n \in P /\ (k + n) - k = n
    OBVIOUS
  <2>2. Cardinality({j \in P : j <= k + n}) = n
    BY <1>2, <2>1
  <2>3. At(n) \in P /\ Cardinality({j \in P : j <= At(n)}) = n
    BY <2>1, <2>2
  <2> HIDE DEF At
  <2>4. At(n) - k = n
    BY <1>2, <2>3, Zenon
  <2>5. At(n) \in Int /\ k \in Int /\ n \in Int
    BY <2>3
  <2> QED
    BY <2>4, <2>5
<1>4. Filter(s, P) = [n \in 1..(Len(s) - k) |-> s[At(n)]]
  BY <1>1 DEF Filter
<1> HIDE DEF P, At
<1>5. Filter(s, P) = [n \in 1..(Len(s) - k) |-> s[k + n]]
  BY <1>3, <1>4
<1>6. Len(s) - k \in Nat /\ \A n \in 1..(Len(s) - k) : s[k + n] \in Nat
  OBVIOUS
<1>7. Filter(s, P) \in Seq(Nat) /\ Len(Filter(s, P)) = Len(s) - k
  BY <1>5, <1>6
<1>8. \A j \in 1..Len(Filter(s, P)) : Filter(s, P)[j] = s[k + j]
  BY <1>5, <1>7
<1> QED
  BY <1>7, <1>8 DEF TailOf, P

\* Recent forgets the oldest entries of a log in order, and no others.
LEMMA RecentIsTheTail ==
    ASSUME NEW s \in Seq(Nat), InOrder(s), NEW t \in Int
    PROVE  /\ Recent(s, t) \in Seq(Nat)
           /\ \E k \in 0..Len(s) :
                /\ TailOf(Recent(s, t), s, k)
                /\ OutOfWindow(s, k, t)
                /\ \A i \in (k + 1)..Len(s) : s[i] > t - Window
<1>1. t - Window \in Int
  BY LimiterAssumption
<1>2. PICK k \in 0..Len(s) : /\ \A i \in 1..k : s[i] <= t - Window
                             /\ \A i \in (k + 1)..Len(s) : s[i] > t - Window
  BY <1>1, Split
<1>3. {i \in DOMAIN s : s[i] > t - Window} = (k + 1)..Len(s)
  <2>1. ASSUME NEW i \in 1..Len(s)  PROVE s[i] > t - Window <=> i \in (k + 1)..Len(s)
    <3>1. s[i] \in Nat /\ (i \in 1..k \/ i \in (k + 1)..Len(s)) /\ ~(i \in 1..k /\ i \in (k + 1)..Len(s))
      OBVIOUS
    <3> QED
      BY <1>1, <1>2, <3>1
  <2>2. DOMAIN s = 1..Len(s) /\ (k + 1)..Len(s) \subseteq 1..Len(s)
    OBVIOUS
  <2> QED
    BY <2>1, <2>2
<1>4. Recent(s, t) = Filter(s, (k + 1)..Len(s))
  BY <1>3 DEF Recent
<1>5. Recent(s, t) \in Seq(Nat) /\ TailOf(Recent(s, t), s, k)
  BY <1>4, FilterKeepsTheTail
<1> QED
  BY <1>2, <1>5 DEF OutOfWindow

-----------------------------------------------------------------------------
(* The log of one key.                                                     *)

\* What the log of a key keeps of the history of that key, at time t.
Kept(log, all, t) ==
    /\ log \in Seq(Nat)
    /\ all \in Seq(Nat)
    /\ InOrder(all)
    /\ \A i \in 1..Len(all) : all[i] <= t
    /\ \A i \in 1..Len(all) :
         i + MaxRequests <= Len(all) => all[i + MaxRequests] >= all[i] + Window
    /\ Len(log) <= MaxRequests
    /\ \E d \in 0..Len(all) : TailOf(log, all, d) /\ OutOfWindow(all, d, t)

\* A log that is kept is in order.
LEMMA KeptIsInOrder ==
    ASSUME NEW log, NEW all, NEW t, Kept(log, all, t)
    PROVE  InOrder(log)
<1>1. PICK d \in 0..Len(all) : TailOf(log, all, d)
  BY DEF Kept
<1>2. log \in Seq(Nat) /\ all \in Seq(Nat) /\ InOrder(all)
  BY DEF Kept
<1>3. ASSUME NEW i \in DOMAIN log, NEW j \in DOMAIN log, i <= j
      PROVE  log[i] <= log[j]
  <2>1. /\ i \in 1..Len(log) /\ j \in 1..Len(log)
        /\ d + i \in DOMAIN all /\ d + j \in DOMAIN all /\ d + i <= d + j
    BY <1>1, <1>2, <1>3 DEF TailOf
  <2>2. log[i] = all[d + i] /\ log[j] = all[d + j]
    BY <1>1, <2>1 DEF TailOf
  <2> QED
    BY <1>2, <2>1, <2>2 DEF InOrder
<1> QED
  BY <1>3 DEF InOrder

\* Time passes, and what is out of the window stays out.
LEMMA KeptLater ==
    ASSUME NEW log, NEW all, NEW t \in Nat, Kept(log, all, t)
    PROVE  Kept(log, all, t + 1)
<1>1. PICK d \in 0..Len(all) : TailOf(log, all, d) /\ OutOfWindow(all, d, t)
  BY DEF Kept
<1>2. OutOfWindow(all, d, t + 1)
  <2>1. all \in Seq(Nat)
    BY DEF Kept
  <2> QED
    BY <1>1, <2>1, LimiterAssumption DEF OutOfWindow
<1>3. \A i \in 1..Len(all) : all[i] <= t + 1
  BY DEF Kept
<1> QED
  BY <1>1, <1>2, <1>3 DEF Kept

\* Pruning a log.
LEMMA KeptPruned ==
    ASSUME NEW log, NEW all, NEW t \in Nat, Kept(log, all, t)
    PROVE  /\ Kept(Recent(log, t), all, t)
           /\ Len(Recent(log, t)) <= Len(log)
           /\ Len(Recent(log, t)) = Len(log) => Recent(log, t) = log
<1> DEFINE new == Recent(log, t)
<1>1. log \in Seq(Nat) /\ all \in Seq(Nat) /\ InOrder(log) /\ t \in Int
  BY KeptIsInOrder DEF Kept
<1>2. PICK d \in 0..Len(all) : TailOf(log, all, d) /\ OutOfWindow(all, d, t)
  BY DEF Kept
<1>3. new \in Seq(Nat)
  BY <1>1, RecentIsTheTail
<1>4. PICK e \in 0..Len(log) : TailOf(new, log, e) /\ OutOfWindow(log, e, t)
  BY <1>1, RecentIsTheTail
<1> HIDE DEF new
<1>5. Len(new) = Len(log) - e /\ Len(log) = Len(all) - d
  BY <1>2, <1>4 DEF TailOf
<1>6. d + e \in 0..Len(all) /\ Len(new) = Len(all) - (d + e)
  BY <1>1, <1>5
<1>7. \A j \in 1..Len(new) : new[j] = all[(d + e) + j]
  <2>1. ASSUME NEW j \in 1..Len(new)  PROVE new[j] = all[(d + e) + j]
    <3>1. e + j \in 1..Len(log) /\ d + (e + j) = (d + e) + j
      BY <1>1, <1>3, <1>5
    <3>2. new[j] = log[e + j]
      BY <1>4, <2>1 DEF TailOf
    <3>3. log[e + j] = all[d + (e + j)]
      BY <1>2, <3>1 DEF TailOf
    <3> QED
      BY <3>1, <3>2, <3>3
  <2> QED
    BY <2>1
<1>8. OutOfWindow(all, d + e, t)
  <2>1. ASSUME NEW i \in 1..(d + e)  PROVE all[i] <= t - Window
    <3>1. CASE i \in 1..d
      BY <1>2, <3>1 DEF OutOfWindow
    <3>2. CASE i \notin 1..d
      <4>1. i - d \in 1..e /\ i - d \in 1..Len(log) /\ d + (i - d) = i
        BY <1>1, <3>2
      <4>2. log[i - d] <= t - Window
        BY <1>4, <4>1 DEF OutOfWindow
      <4>3. log[i - d] = all[d + (i - d)]
        BY <1>2, <4>1 DEF TailOf
      <4> QED
        BY <4>1, <4>2, <4>3
    <3> QED
      BY <3>1, <3>2
  <2> QED
    BY <2>1 DEF OutOfWindow
<1>9. TailOf(new, all, d + e)
  BY <1>6, <1>7 DEF TailOf
<1>10. Len(new) <= Len(log) /\ Len(log) <= MaxRequests
  BY <1>1, <1>5 DEF Kept
<1>11. Kept(new, all, t)
  <2>1. Len(new) <= MaxRequests
    BY <1>1, <1>3, <1>10, LimiterAssumption
  <2> QED
    BY <1>3, <1>6, <1>8, <1>9, <2>1 DEF Kept
<1>12. ASSUME Len(new) = Len(log)  PROVE new = log
  <2>1. e = 0
    BY <1>1, <1>5, <1>12
  <2>2. \A j \in 1..Len(log) : new[j] = log[j]
    <3>1. \A j \in 1..Len(log) : 0 + j = j
      OBVIOUS
    <3> QED
      BY <1>4, <1>12, <2>1, <3>1 DEF TailOf
  <2>3. DOMAIN new = 1..Len(log) /\ DOMAIN log = 1..Len(log)
    BY <1>1, <1>3, <1>12
  <2> QED
    BY <1>1, <1>3, <2>2, <2>3
<1> QED
  BY <1>10, <1>11, <1>12 DEF new

\* Letting a request through: the one MaxRequests before it is forgotten, so
\* it is a window ago.
LEMMA KeptAppended ==
    ASSUME NEW log, NEW all, NEW t \in Nat, Kept(log, all, t), Len(log) < MaxRequests
    PROVE  Kept(Append(log, t), Append(all, t), t)
<1> DEFINE log1 == Append(log, t)
           all1 == Append(all, t)
<1>1. log \in Seq(Nat) /\ all \in Seq(Nat) /\ InOrder(all)
  BY DEF Kept
<1>2. PICK d \in 0..Len(all) : TailOf(log, all, d) /\ OutOfWindow(all, d, t)
  BY DEF Kept
<1>3. /\ log1 \in Seq(Nat) /\ all1 \in Seq(Nat)
      /\ \A i \in 1..Len(log) : log1[i] = log[i]
      /\ \A i \in 1..Len(all) : all1[i] = all[i]
      /\ log1[Len(log) + 1] = t
      /\ all1[Len(all) + 1] = t
  BY <1>1
<1>4. /\ Len(log) \in Nat /\ Len(log1) = Len(log) + 1
      /\ Len(all) \in Nat /\ Len(all1) = Len(all) + 1
  BY <1>1
<1>5. DOMAIN all = 1..Len(all) /\ DOMAIN all1 = 1..Len(all1)
  BY <1>1
<1> HIDE DEF log1, all1
<1>6. \A i \in 1..Len(all) : all[i] \in Nat /\ all[i] <= t
  BY <1>1 DEF Kept
<1>7. \A i \in 1..Len(all1) : all1[i] <= t
  <2>1. ASSUME NEW i \in 1..Len(all1)  PROVE all1[i] <= t
    <3>1. i \in 1..Len(all) \/ i = Len(all) + 1
      BY <1>4
    <3>2. CASE i \in 1..Len(all)
      BY <1>3, <1>6, <3>2
    <3>3. CASE i = Len(all) + 1
      BY <1>3, <3>3
    <3> QED
      BY <3>1, <3>2, <3>3
  <2> QED
    BY <2>1
<1>8. InOrder(all1)
  <2>1. ASSUME NEW i \in 1..Len(all1), NEW j \in 1..Len(all1), i <= j
        PROVE  all1[i] <= all1[j]
    <3>1. CASE j = Len(all) + 1
      BY <1>3, <1>7, <3>1
    <3>2. CASE j # Len(all) + 1
      <4>1. i \in 1..Len(all) /\ j \in 1..Len(all)
        BY <1>4, <2>1, <3>2
      <4>2. all[i] <= all[j]
        BY <1>1, <1>5, <2>1, <4>1 DEF InOrder
      <4> QED
        BY <1>3, <4>1, <4>2
    <3> QED
      BY <3>1, <3>2
  <2> QED
    BY <1>5, <2>1 DEF InOrder
<1>9. ASSUME NEW i \in 1..Len(all1), i + MaxRequests <= Len(all1)
      PROVE  all1[i + MaxRequests] >= all1[i] + Window
  <2>1. MaxRequests \in Nat \ {0} /\ Window \in Nat
    BY LimiterAssumption
  <2>2. i \in 1..Len(all) /\ all1[i] = all[i]
    <3>1. i \in 1..Len(all)
      BY <1>4, <1>9, <2>1
    <3> QED
      BY <1>3, <3>1
  <2>3. CASE i + MaxRequests <= Len(all)
    <3>1. i + MaxRequests \in 1..Len(all)
      BY <1>4, <2>1, <2>2, <2>3
    <3>2. all1[i + MaxRequests] = all[i + MaxRequests]
      BY <1>3, <3>1
    <3>3. all[i + MaxRequests] >= all[i] + Window
      BY <2>2, <2>3 DEF Kept
    <3> QED
      BY <2>2, <3>2, <3>3
  <2>4. CASE i + MaxRequests = Len(all) + 1
    <3>1. Len(log) = Len(all) - d
      BY <1>2 DEF TailOf
    <3>2. i \in 1..d
      BY <1>4, <2>1, <2>2, <2>4, <3>1
    <3>3. all[i] <= t - Window /\ all[i] \in Nat
      BY <1>2, <1>6, <2>2, <3>2 DEF OutOfWindow
    <3>4. all1[i + MaxRequests] = t
      BY <1>3, <2>4
    <3> QED
      BY <2>1, <2>2, <3>3, <3>4
  <2> QED
    BY <1>4, <1>9, <2>1, <2>3, <2>4
<1>10. d \in 0..Len(all1) /\ OutOfWindow(all1, d, t)
  <2>1. d \in 0..Len(all1) /\ \A i \in 1..d : i \in 1..Len(all)
    BY <1>4
  <2> QED
    BY <1>2, <1>3, <2>1 DEF OutOfWindow
<1>11. TailOf(log1, all1, d)
  <2>1. Len(log) = Len(all) - d /\ Len(log1) = Len(all1) - d
    <3>1. Len(log) = Len(all) - d
      BY <1>2 DEF TailOf
    <3> QED
      BY <1>4, <3>1
  <2>2. ASSUME NEW j \in 1..Len(log1)  PROVE log1[j] = all1[d + j]
    <3>1. CASE j = Len(log) + 1
      <4>1. d + j = Len(all) + 1
        BY <1>4, <2>1, <3>1
      <4> QED
        BY <1>3, <3>1, <4>1
    <3>2. CASE j # Len(log) + 1
      <4>1. j \in 1..Len(log) /\ d + j \in 1..Len(all)
        BY <1>4, <2>1, <2>2, <3>2
      <4>2. log[j] = all[d + j]
        BY <1>2, <4>1 DEF TailOf
      <4> QED
        BY <1>3, <4>1, <4>2
    <3> QED
      BY <3>1, <3>2
  <2> QED
    BY <2>1, <2>2 DEF TailOf
<1>12. Len(log1) <= MaxRequests
  BY <1>4, LimiterAssumption
<1> QED
  BY <1>3, <1>7, <1>8, <1>9, <1>10, <1>11, <1>12 DEF Kept, log1, all1

-----------------------------------------------------------------------------
(* The limiter.                                                            *)

\* What a key was last told fits its log.
Told(k) ==
    /\ last[k].allowed /\ store[k] # <<>> => Len(store[k]) + last[k].remaining = MaxRequests
    /\ ~last[k].allowed =>
         Len(store[k]) = MaxRequests /\ last[k].resetAt = store[k][1] + Window

RateInv == TypeOK /\ \A k \in Key : Kept(store[k], allowed[k], now) /\ Told(k)

\* Nothing has been asked yet.
LEMMA KeptAtFirst ==
    ASSUME NEW t \in Nat
    PROVE  Kept(<<>>, <<>>, t)
<1> DEFINE e == <<>>
<1>1. e \in Seq(Nat) /\ Len(e) = 0 /\ DOMAIN e = {} /\ 1..0 = {}
  OBVIOUS
<1> HIDE DEF e
<1>2. InOrder(e) /\ 0 \in 0..Len(e) /\ TailOf(e, e, 0) /\ OutOfWindow(e, 0, t)
  BY <1>1 DEF InOrder, TailOf, OutOfWindow
<1>3. Len(e) <= MaxRequests
  BY <1>1, LimiterAssumption
<1>4. Kept(e, e, t)
  BY <1>1, <1>2, <1>3 DEF Kept
<1> QED
  BY <1>4 DEF e

\* The server starts.
LEMMA RateInit == Init => RateInv
<1> SUFFICES ASSUME Init  PROVE RateInv
  OBVIOUS
<1>1. NoAnswer \in [allowed : BOOLEAN, remaining : 0..MaxRequests, resetAt : Nat]
  BY LimiterAssumption DEF NoAnswer
<1>2. <<>> \in Seq(Nat)
  OBVIOUS
<1>3. TypeOK
  BY <1>1, <1>2 DEF Init, TypeOK
<1>4. ASSUME NEW k \in Key  PROVE Kept(store[k], allowed[k], now) /\ Told(k)
  <2>1. store[k] = <<>> /\ allowed[k] = <<>> /\ now \in Nat /\ last[k] = NoAnswer
    BY DEF Init
  <2> QED
    BY <2>1, KeptAtFirst DEF Told, NoAnswer
<1> QED
  BY <1>3, <1>4 DEF RateInv

\* A key that a step leaves alone, with the clock.
LEMMA RateSame ==
    ASSUME RateInv, NEW k \in Key, now' = now,
           store'[k] = store[k], allowed'[k] = allowed[k], last'[k] = last[k]
    PROVE  Kept(store[k], allowed[k], now)' /\ Told(k)'
BY DEF RateInv, Told

\* check, refusing: the log was full of requests in the window, so nothing
\* was pruned.
LEMMA RefuseStep ==
    ASSUME RateInv, NEW k \in Key,
           Len(Recent(store[k], now)) >= MaxRequests, Refuse(k, Recent(store[k], now))
    PROVE  RateInv'
<1> DEFINE new == Recent(store[k], now)
<1>1. Kept(store[k], allowed[k], now) /\ now \in Nat /\ store[k] \in Seq(Nat)
  BY DEF RateInv, TypeOK
<1>2. Kept(new, allowed[k], now) /\ Len(new) <= Len(store[k])
      /\ (Len(new) = Len(store[k]) => new = store[k])
  BY <1>1, KeptPruned
<1>3. Len(new) >= MaxRequests /\ Refuse(k, new)
  OBVIOUS
<1> HIDE DEF new
<1>4. new \in Seq(Nat) /\ MaxRequests \in Nat \ {0} /\ Window \in Nat /\ Len(store[k]) <= MaxRequests
  BY <1>1, <1>2, LimiterAssumption DEF Kept
<1>5. Len(new) = MaxRequests /\ new[1] \in Nat
  BY <1>1, <1>2, <1>3, <1>4
<1> DEFINE told == [allowed |-> FALSE, remaining |-> 0, resetAt |-> new[1] + Window]
<1>6. told \in [allowed : BOOLEAN, remaining : 0..MaxRequests, resetAt : Nat]
  BY <1>4, <1>5
<1>7. told.allowed = FALSE /\ told.resetAt = new[1] + Window
  OBVIOUS
<1>8. /\ store' = [store EXCEPT ![k] = new]
      /\ last' = [last EXCEPT ![k] = told]
      /\ now' = now /\ allowed' = allowed
  BY <1>3 DEF Refuse
<1> HIDE DEF told
<1>9. TypeOK'
  BY <1>4, <1>6, <1>8 DEF RateInv, TypeOK
<1>10. ASSUME NEW j \in Key  PROVE Kept(store[j], allowed[j], now)' /\ Told(j)'
  <2>1. CASE j = k
    <3>1. store'[j] = new /\ last'[j] = told /\ allowed'[j] = allowed[k]
      BY <1>8, <2>1 DEF RateInv, TypeOK
    <3> QED
      BY <1>2, <1>5, <1>7, <1>8, <3>1 DEF Told
  <2>2. CASE j # k
    <3>1. store'[j] = store[j] /\ last'[j] = last[j] /\ allowed'[j] = allowed[j]
      BY <1>8, <2>2 DEF RateInv, TypeOK
    <3> QED
      BY <1>8, <3>1, RateSame
  <2> QED
    BY <2>1, <2>2
<1> QED
  BY <1>9, <1>10 DEF RateInv

\* check, accepting.
LEMMA AcceptStep ==
    ASSUME RateInv, NEW k \in Key, Len(Recent(store[k], now)) < MaxRequests,
           Accept(k, Recent(store[k], now), MaxRequests - (Len(Recent(store[k], now)) + 1))
    PROVE  RateInv'
<1> DEFINE new == Recent(store[k], now)
           remaining == MaxRequests - (Len(new) + 1)
<1>1. /\ Kept(store[k], allowed[k], now) /\ now \in Nat
      /\ store[k] \in Seq(Nat) /\ allowed[k] \in Seq(Nat)
  BY DEF RateInv, TypeOK
<1>2. Kept(new, allowed[k], now)
  BY <1>1, KeptPruned
<1>3. Len(new) < MaxRequests /\ Accept(k, new, remaining)
  OBVIOUS
<1> HIDE DEF new
<1>4. new \in Seq(Nat) /\ MaxRequests \in Nat /\ Window \in Nat
  BY <1>2, LimiterAssumption DEF Kept
<1>5. Kept(Append(new, now), Append(allowed[k], now), now)
  BY <1>1, <1>2, <1>3, KeptAppended
<1>6. Len(new) \in Nat
  BY <1>4
<1>7. remaining \in 0..MaxRequests /\ (Len(new) + 1) + remaining = MaxRequests
  BY <1>3, <1>4, <1>6
<1>8. /\ Append(new, now) \in Seq(Nat) /\ Len(Append(new, now)) = Len(new) + 1
      /\ Append(allowed[k], now) \in Seq(Nat)
  BY <1>1, <1>4
<1> DEFINE told == [allowed |-> TRUE, remaining |-> remaining, resetAt |-> now + Window]
<1> HIDE DEF remaining
<1>9. told \in [allowed : BOOLEAN, remaining : 0..MaxRequests, resetAt : Nat]
  BY <1>1, <1>4, <1>7
<1>10. told.allowed = TRUE /\ told.remaining = remaining
  OBVIOUS
<1>11. /\ store' = [store EXCEPT ![k] = Append(new, now)]
       /\ last' = [last EXCEPT ![k] = told]
       /\ allowed' = [allowed EXCEPT ![k] = Append(allowed[k], now)]
       /\ now' = now
  BY <1>3 DEF Accept
<1> HIDE DEF told
<1>12. TypeOK'
  BY <1>8, <1>9, <1>11 DEF RateInv, TypeOK
<1>13. ASSUME NEW j \in Key  PROVE Kept(store[j], allowed[j], now)' /\ Told(j)'
  <2>1. CASE j = k
    <3>1. /\ store'[j] = Append(new, now) /\ last'[j] = told
          /\ allowed'[j] = Append(allowed[k], now)
      BY <1>11, <2>1 DEF RateInv, TypeOK
    <3>2. Kept(store[j], allowed[j], now)'
      BY <1>5, <1>11, <3>1
    <3>3. Len(store'[j]) + last'[j].remaining = MaxRequests /\ last'[j].allowed
      BY <1>7, <1>8, <1>10, <3>1
    <3> QED
      BY <3>2, <3>3 DEF Told
  <2>2. CASE j # k
    <3>1. store'[j] = store[j] /\ last'[j] = last[j] /\ allowed'[j] = allowed[j]
      BY <1>11, <2>2 DEF RateInv, TypeOK
    <3> QED
      BY <1>11, <3>1, RateSame
  <2> QED
    BY <2>1, <2>2
<1> QED
  BY <1>12, <1>13 DEF RateInv

\* reset and clear.
LEMMA ForgetStep ==
    ASSUME RateInv, NEW keys, Forget(keys)
    PROVE  RateInv'
<1>1. NoAnswer \in [allowed : BOOLEAN, remaining : 0..MaxRequests, resetAt : Nat]
  BY LimiterAssumption DEF NoAnswer
<1>2. <<>> \in Seq(Nat)
  OBVIOUS
<1>3. TypeOK'
  BY <1>1, <1>2 DEF RateInv, TypeOK, Forget
<1>4. ASSUME NEW j \in Key  PROVE Kept(store[j], allowed[j], now)' /\ Told(j)'
  <2>1. now' = now /\ now \in Nat
    BY DEF RateInv, TypeOK, Forget
  <2>2. CASE j \in keys
    <3>1. store'[j] = <<>> /\ allowed'[j] = <<>> /\ last'[j] = NoAnswer
      BY <2>2 DEF Forget
    <3> QED
      BY <2>1, <3>1, KeptAtFirst DEF Told, NoAnswer
  <2>3. CASE j \notin keys
    <3>1. store'[j] = store[j] /\ last'[j] = last[j] /\ allowed'[j] = allowed[j]
      BY <2>3 DEF Forget
    <3> QED
      BY <2>1, <3>1, RateSame
  <2> QED
    BY <2>2, <2>3
<1> QED
  BY <1>3, <1>4 DEF RateInv

\* The clock.
LEMMA TickStep ==
    ASSUME RateInv, Tick
    PROVE  RateInv'
<1>1. now \in Nat /\ now' = now + 1 /\ store' = store /\ last' = last /\ allowed' = allowed
  BY DEF RateInv, TypeOK, Tick
<1>2. TypeOK'
  BY <1>1 DEF RateInv, TypeOK
<1>3. ASSUME NEW j \in Key  PROVE Kept(store[j], allowed[j], now)' /\ Told(j)'
  <2>1. Kept(store[j], allowed[j], now + 1)
    BY <1>1, KeptLater DEF RateInv
  <2>2. Told(j)'
    BY <1>1 DEF RateInv, Told
  <2> QED
    BY <1>1, <2>1, <2>2
<1> QED
  BY <1>2, <1>3 DEF RateInv

\* Every step of the limiter.
LEMMA RateNext == RateInv /\ [Next]_vars => RateInv'
<1> SUFFICES ASSUME RateInv, [Next]_vars  PROVE RateInv'
  OBVIOUS
<1>1. CASE Tick
  BY <1>1, TickStep
<1>2. CASE Clear
  BY <1>2, ForgetStep DEF Clear
<1>3. ASSUME NEW k \in Key, Check(k)  PROVE RateInv'
  BY <1>3, RefuseStep, AcceptStep DEF Check
<1>4. ASSUME NEW k \in Key, Reset(k)  PROVE RateInv'
  BY <1>4, ForgetStep DEF Reset
<1>5. CASE UNCHANGED vars
  <2>1. now' = now /\ store' = store /\ last' = last /\ allowed' = allowed
    BY <1>5 DEF vars
  <2>2. TypeOK'
    BY <2>1 DEF RateInv, TypeOK
  <2>3. \A k \in Key : Kept(store[k], allowed[k], now)' /\ Told(k)'
    BY <2>1, RateSame
  <2> QED
    BY <2>2, <2>3 DEF RateInv
<1> QED
  BY <1>1, <1>2, <1>3, <1>4, <1>5 DEF Next

\* The limiter by itself.
LEMMA LimiterInvariant == Spec => []RateInv
<1> QED
  BY RateInit, RateNext, PTL DEF Spec

\* The requests of one window are consecutive in the history, and the first
\* and the last of them are less than MaxRequests apart.
LEMMA FewInAWindow ==
    ASSUME NEW log, NEW all, NEW clock, Kept(log, all, clock), NEW t \in Nat
    PROVE  Cardinality({i \in DOMAIN all : all[i] > t - Window /\ all[i] <= t}) <= MaxRequests
<1> DEFINE I == {i \in DOMAIN all : all[i] > t - Window /\ all[i] <= t}
<1>1. /\ all \in Seq(Nat) /\ InOrder(all) /\ DOMAIN all = 1..Len(all)
      /\ MaxRequests \in Nat \ {0} /\ Window \in Nat
  BY LimiterAssumption DEF Kept
<1>2. CASE I = {}
  <2> HIDE DEF I
  <2>1. Cardinality(I) = 0
    BY <1>2, FS_EmptySet, Zenon
  <2>2. Cardinality(I) <= MaxRequests
    BY <1>1, <2>1
  <2> QED
    BY <2>2 DEF I
<1>3. CASE I # {}
  <2>1. I \in SUBSET Nat
    BY <1>1
  <2>2. PICK lo \in I : \A i \in I : lo <= i
    BY <1>3, <2>1, Least
  <2>3. lo \in 1..Len(all) /\ all[lo] > t - Window /\ all[lo] \in Nat
    BY <1>1, <2>2
  <2>4. ASSUME NEW i \in I  PROVE i \in lo..(lo + MaxRequests - 1)
    <3>1. i \in 1..Len(all) /\ lo <= i /\ all[i] <= t /\ all[i] \in Nat
      BY <1>1, <2>2, <2>4
    <3>2. ASSUME i >= lo + MaxRequests  PROVE FALSE
      <4>1. lo + MaxRequests \in 1..Len(all)
        BY <1>1, <2>3, <3>1, <3>2
      <4>2. all[lo + MaxRequests] >= all[lo] + Window /\ all[lo + MaxRequests] \in Nat
        BY <1>1, <2>3, <4>1 DEF Kept
      <4>3. all[lo + MaxRequests] <= all[i]
        BY <1>1, <3>1, <3>2, <4>1 DEF InOrder
      <4> QED
        BY <1>1, <2>3, <3>1, <4>2, <4>3
    <3> QED
      BY <1>1, <2>3, <3>1, <3>2
  <2>5. lo \in Int /\ lo + MaxRequests - 1 \in Int /\ lo <= lo + MaxRequests - 1
    BY <1>1, <2>3
  <2>6. /\ IsFiniteSet(lo..(lo + MaxRequests - 1))
        /\ Cardinality(lo..(lo + MaxRequests - 1)) = (lo + MaxRequests - 1) - lo + 1
    BY <2>5, FS_Interval
  <2>7. I \in SUBSET (lo..(lo + MaxRequests - 1))
    BY <2>4
  <2> HIDE DEF I
  <2>8. Cardinality(I) <= Cardinality(lo..(lo + MaxRequests - 1))
    BY <2>6, <2>7, FS_Subset
  <2>9. (lo + MaxRequests - 1) - lo + 1 = MaxRequests
    BY <1>1, <2>3
  <2> QED
    BY <2>6, <2>8, <2>9 DEF I
<1> QED
  BY <1>2, <1>3

\* The invariant says what the window promises.
LEMMA RateGivesWindow == RateInv => WindowNeverExceeded
<1> SUFFICES ASSUME RateInv  PROVE WindowNeverExceeded
  OBVIOUS
<1>1. ASSUME NEW k \in Key, NEW t \in 0..now
      PROVE  Cardinality({i \in DOMAIN allowed[k] :
                            allowed[k][i] > t - Window /\ allowed[k][i] <= t}) <= MaxRequests
  <2>1. Kept(store[k], allowed[k], now) /\ t \in Nat
    BY DEF RateInv, TypeOK
  <2> QED
    BY <2>1, FewInAWindow
<1> QED
  BY <1>1 DEF WindowNeverExceeded

\* The invariant says that the answers are honest.
LEMMA RateGivesHonesty == RateInv => AnswersAreHonest
<1> SUFFICES ASSUME RateInv, NEW k \in Key
             PROVE  IF last[k].allowed
                    THEN store[k] # <<>> =>
                           Len(Recent(store[k], now)) + last[k].remaining <= MaxRequests
                    ELSE \A t \in now..(MaxTime + Window) : Admits(k, t) <=> t >= last[k].resetAt
  BY DEF AnswersAreHonest
<1>1. /\ Kept(store[k], allowed[k], now) /\ Told(k)
      /\ now \in Nat /\ store[k] \in Seq(Nat) /\ last[k].remaining \in 0..MaxRequests
      /\ MaxRequests \in Nat \ {0} /\ Window \in Nat /\ MaxTime \in Nat
  BY LimiterAssumption DEF RateInv, TypeOK
<1>2. InOrder(store[k])
  BY <1>1, KeptIsInOrder
<1>3. ASSUME last[k].allowed, store[k] # <<>>
      PROVE  Len(Recent(store[k], now)) + last[k].remaining <= MaxRequests
  <2>1. Len(store[k]) + last[k].remaining = MaxRequests
    BY <1>1, <1>3 DEF Told
  <2>2. Len(Recent(store[k], now)) <= Len(store[k]) /\ Recent(store[k], now) \in Seq(Nat)
    BY <1>1, KeptPruned DEF Kept
  <2>3. Len(store[k]) \in Nat /\ Len(Recent(store[k], now)) \in Nat
    BY <1>1, <2>2
  <2> QED
    BY <1>1, <2>1, <2>2, <2>3
<1>4. ASSUME ~last[k].allowed, NEW t \in now..(MaxTime + Window)
      PROVE  Admits(k, t) <=> t >= last[k].resetAt
  <2>1. t \in Int
    BY <1>1
  <2>2. Len(store[k]) = MaxRequests /\ last[k].resetAt = store[k][1] + Window
    BY <1>1, <1>4 DEF Told
  <2>3. 1 \in 1..Len(store[k]) /\ store[k][1] \in Nat
    BY <1>1, <2>2
  <2>4. PICK e \in 0..Len(store[k]) :
          /\ TailOf(Recent(store[k], t), store[k], e)
          /\ OutOfWindow(store[k], e, t)
          /\ \A i \in (e + 1)..Len(store[k]) : store[k][i] > t - Window
    BY <1>1, <1>2, <2>1, RecentIsTheTail
  <2>5. Len(Recent(store[k], t)) = MaxRequests - e
    BY <2>2, <2>4 DEF TailOf
  <2>6. e \in 0..MaxRequests
    BY <2>2, <2>4
  <2>7. CASE e = 0
    <3>1. 1 \in (e + 1)..Len(store[k])
      BY <1>1, <2>2, <2>7
    <3>2. store[k][1] > t - Window
      BY <2>4, <3>1
    <3> QED
      BY <1>1, <2>1, <2>2, <2>3, <2>5, <2>7, <3>2 DEF Admits
  <2>8. CASE e # 0
    <3>1. 1 \in 1..e
      BY <2>6, <2>8
    <3>2. store[k][1] <= t - Window
      BY <2>4, <3>1 DEF OutOfWindow
    <3> QED
      BY <1>1, <2>1, <2>2, <2>3, <2>5, <2>6, <2>8, <3>2 DEF Admits
  <2> QED
    BY <2>7, <2>8
<1> QED
  BY <1>3, <1>4

-----------------------------------------------------------------------------
(* The routes.                                                             *)

StatusFrom(route, outcome) ==
    IF outcome \in DOMAIN route.answers THEN route.answers[outcome] ELSE 500

\* What a route may answer: each status tells the outcome.
Sound(route) ==
    /\ route.raises \subseteq Outcome
    /\ \A outcome \in {"done", "broken"} \cup route.raises :
         /\ StatusFrom(route, outcome) \in Status
         /\ StatusFrom(route, outcome) < 300 <=> outcome = "done"
         /\ StatusFrom(route, outcome) \in 400..499 => outcome \in Refusal

\* Every route of the table is sound: a catch clause knows no outcome as
\* something else than it is.
LEMMA RoutesAreSound == \A name \in Name : Sound(Route[name])
<1> USE DEF Sound, StatusFrom, Status, Refusal, Outcome
<1>1. Sound(Register)
  BY DEF Register
<1>2. Sound(LoginRoute)
  BY DEF LoginRoute
<1>3. Sound(SendPayment)
  BY DEF SendPayment
<1>4. Sound(PaymentHistory)
  BY DEF PaymentHistory
<1>5. Sound(WalletDetails)
  BY DEF WalletDetails
<1>6. Sound(SetPin)
  BY DEF SetPin
<1>7. Sound(ResetPin)
  BY DEF ResetPin
<1>8. Sound(VerifyPin)
  BY DEF VerifyPin
<1>9. Sound(ListContacts)
  BY DEF ListContacts
<1>10. Sound(CreateContact)
  BY DEF CreateContact
<1>11. Sound(UpdateContact)
  BY DEF UpdateContact
<1>12. Sound(DeleteContact)
  BY DEF DeleteContact
<1>13. Sound(SearchUsers)
  BY DEF SearchUsers
<1>14. Sound(AdminDashboard)
  BY DEF AdminDashboard
<1>15. Sound(AdminUsers)
  BY DEF AdminUsers
<1>16. Sound(SetAccountStatus)
  BY DEF SetAccountStatus
<1>17. Sound(StaticQR)
  BY DEF StaticQR
<1>18. Sound(DynamicQR)
  BY DEF DynamicQR
<1>19. Sound(ParseQR)
  BY DEF ParseQR
<1>20. Sound(EventStream)
  BY DEF EventStream
<1>21. Sound(DeployContract)
  BY DEF DeployContract
<1>22. Sound(InvokeContract)
  BY DEF InvokeContract
<1>23. Sound(SimulateContract)
  BY DEF SimulateContract
<1>24. Sound(CreateToken)
  BY DEF CreateToken
<1>25. Sound(TokenBalances)
  BY DEF TokenBalances
<1>26. Sound(Deposit)
  BY DEF Deposit
<1>27. Sound(Withdraw)
  BY DEF Withdraw
<1>28. Sound(Swap)
  BY DEF Swap
<1>29. Sound(Positions)
  BY DEF Positions
<1> HIDE DEF Sound, StatusFrom, Status, Refusal, Outcome
<1> QED
  BY <1>1, <1>2, <1>3, <1>4, <1>5, <1>6, <1>7, <1>8, <1>9, <1>10,
     <1>11, <1>12, <1>13, <1>14, <1>15, <1>16, <1>17, <1>18, <1>19, <1>20,
     <1>21, <1>22, <1>23, <1>24, <1>25, <1>26, <1>27, <1>28, <1>29
     DEF Name, Route

\* The handlers repeat their checks file by file: each that changes something
\* asks for the CSRF token, and each of the administrators' for their role.
LEMMA RoutesAreGuarded ==
    \A name \in Name :
        /\ name \in Changing => Route[name].csrf
        /\ name \in {"dashboard", "users", "setStatus"} => Route[name].roles = {"ADMIN"}
<1>1. \A name \in Changing : Route[name].csrf
  BY DEF Changing, Route, Register, LoginRoute, SendPayment, SetPin, ResetPin, VerifyPin,
         CreateContact, UpdateContact, DeleteContact, SetAccountStatus, DeployContract,
         InvokeContract, CreateToken, Deposit, Withdraw, Swap
<1>2. \A name \in {"dashboard", "users", "setStatus"} : Route[name].roles = {"ADMIN"}
  BY DEF Route, AdminDashboard, AdminUsers, SetAccountStatus
<1> QED
  BY <1>1, <1>2

-----------------------------------------------------------------------------
(* The requests.                                                           *)

\* What a request shows lets it through the guards of a route.
Passes(name, shown) ==
    /\ Route[name].csrf => shown.csrf
    /\ Route[name].roles # Anyone => shown.claim \in Route[name].roles

Waiting ==
    {r \in [stage : {"body", "service"}, name : Name, claim : Claim, csrf : BOOLEAN] :
        Passes(r.name, r)}

Truthful(status, outcome) ==
    /\ status < 300 <=> outcome = "done"
    /\ status \in 400..499 => outcome \in Refusal \cup {"none"}

Over ==
    {r \in [stage : {"answered"}, status : Status, outcome : Outcome \cup {"none"}] :
        Truthful(r.status, r.outcome)}

RequestInv == request \in [Slot -> {Idle} \cup Waiting \cup Over]

\* An answer that no service has a part in is a refusal.
LEMMA RefusalsAreOver ==
    \A status \in {400, 401, 403, 429} : Answered(status, "none") \in Over
<1> SUFFICES ASSUME NEW status \in {400, 401, 403, 429}
             PROVE  Answered(status, "none") \in Over
  OBVIOUS
<1>1. Answered(status, "none")
        \in [stage : {"answered"}, status : Status, outcome : Outcome \cup {"none"}]
  BY DEF Answered, Status
<1>2. "none" # "done" /\ Truthful(status, "none")
  BY DEF Truthful
<1> QED
  BY <1>1, <1>2 DEF Over, Answered

\* Once no guard fails, the sender has what the route asks for.
LEMMA NoVerdict ==
    ASSUME NEW name, NEW sender, Verdict(name, sender) = 0
    PROVE  Passes(name, sender)
BY DEF Verdict, CsrfPasses, RolePasses, Proxied, Passes

\* The step after the guards.
LEMMA EnterStep ==
    ASSUME RequestInv, NEW s \in Slot, NEW name \in Name, NEW sender \in Sender,
           Verdict(name, sender) = 0, Enter(s, name, sender)
    PROVE  RequestInv'
<1>1. Passes(name, sender)
  BY NoVerdict
<1>2. sender.claim \in Claim /\ sender.csrf \in BOOLEAN
  BY DEF Sender
<1> DEFINE p == Pending(name, sender)
<1>3. p \in [stage : {"body", "service"}, name : Name, claim : Claim, csrf : BOOLEAN]
  BY <1>2 DEF Pending
<1>4. p.name = name /\ p.claim = sender.claim /\ p.csrf = sender.csrf
  BY DEF Pending
<1> HIDE DEF p
<1>5. Passes(p.name, p)
  BY <1>1, <1>4 DEF Passes
<1>6. p \in Waiting
  BY <1>3, <1>5 DEF Waiting
<1>7. Answered(400, "none") \in Over
  BY RefusalsAreOver
<1>8. \/ request' = [request EXCEPT ![s] = p]
      \/ request' = [request EXCEPT ![s] = Answered(400, "none")]
  BY DEF Enter, p
<1> QED
  BY <1>6, <1>7, <1>8 DEF RequestInv

\* The requests are in order when the server starts.
LEMMA RequestInit == ApiInit => RequestInv
BY DEF ApiInit, RequestInv

\* Body: what the guards saw is what the service is called for.
LEMMA BodyStep ==
    ASSUME RequestInv, NEW s \in Slot, Body(s)
    PROVE  RequestInv'
<1>1. request[s] \in {Idle} \cup Waiting \cup Over /\ request[s].stage = "body"
  BY DEF RequestInv, Body
<1>2. request[s] \in Waiting
  BY <1>1 DEF Idle, Over
<1> DEFINE r == [request[s] EXCEPT !.stage = "service"]
<1>3. /\ r \in [stage : {"body", "service"}, name : Name, claim : Claim, csrf : BOOLEAN]
      /\ r.name = request[s].name /\ r.claim = request[s].claim /\ r.csrf = request[s].csrf
  BY <1>2 DEF Waiting
<1>4. \/ request' = [request EXCEPT ![s] = r]
      \/ request' = [request EXCEPT ![s] = Answered(400, "none")]
  BY DEF Body
<1> HIDE DEF r
<1>5. Passes(r.name, r)
  BY <1>2, <1>3 DEF Waiting, Passes
<1>6. r \in Waiting
  BY <1>3, <1>5 DEF Waiting
<1>7. Answered(400, "none") \in Over
  BY RefusalsAreOver
<1> QED
  BY <1>4, <1>6, <1>7 DEF RequestInv

\* Finish: the catch clause of the route makes the answer.
LEMMA FinishStep ==
    ASSUME RequestInv, NEW s \in Slot, Finish(s)
    PROVE  RequestInv'
<1>1. request[s] \in {Idle} \cup Waiting \cup Over /\ request[s].stage = "service"
  BY DEF RequestInv, Finish
<1>2. request[s] \in Waiting
  BY <1>1 DEF Idle, Over
<1> DEFINE name == request[s].name
<1>3. name \in Name
  BY <1>2 DEF Waiting
<1>4. PICK outcome \in {"done", "broken"} \cup Route[name].raises :
        request' = [request EXCEPT ![s] = Answered(StatusOf(name, outcome), outcome)]
  BY DEF Finish
<1> HIDE DEF name
<1>5. Sound(Route[name])
  BY <1>3, RoutesAreSound
<1> DEFINE status == StatusOf(name, outcome)
<1>6. status = StatusFrom(Route[name], outcome)
  BY DEF StatusOf, StatusFrom
<1>7. /\ outcome \in Outcome /\ status \in Status
      /\ status < 300 <=> outcome = "done"
      /\ status \in 400..499 => outcome \in Refusal
  BY <1>4, <1>5, <1>6 DEF Sound, Outcome
<1> HIDE DEF status
<1>8. Answered(status, outcome) \in Over
  BY <1>7 DEF Answered, Over, Truthful
<1>9. request' = [request EXCEPT ![s] = Answered(status, outcome)]
  BY <1>4 DEF status
<1> QED
  BY <1>8, <1>9 DEF RequestInv

\* Every step of the pipeline.
LEMMA RequestNext == RequestInv /\ [ApiNext]_apiVars => RequestInv'
<1> SUFFICES ASSUME RequestInv, [ApiNext]_apiVars  PROVE RequestInv'
  OBVIOUS
<1>1. ASSUME NEW s \in Slot, NEW name \in Name, NEW sender \in Sender,
             TurnAway(s, name, sender)
      PROVE  RequestInv'
  <2>1. Verdict(name, sender) \in {401, 403}
    BY <1>1 DEF TurnAway, Verdict
  <2>2. Answered(Verdict(name, sender), "none") \in Over
    BY <2>1, RefusalsAreOver
  <2>3. request' = [request EXCEPT ![s] = Answered(Verdict(name, sender), "none")]
    BY <1>1 DEF TurnAway
  <2> QED
    BY <2>2, <2>3 DEF RequestInv
<1>2. ASSUME NEW s \in Slot, NEW name \in Name, NEW sender \in Sender,
             Arrive(s, name, sender)
      PROVE  RequestInv'
  BY <1>2, EnterStep DEF Arrive
<1>3. ASSUME NEW s \in Slot, NEW name \in Name, NEW sender \in Sender,
             ArriveLimited(s, name, sender)
      PROVE  RequestInv'
  <2>1. Verdict(name, sender) = 0
    BY <1>3 DEF ArriveLimited
  <2>2. \/ Enter(s, name, sender)
        \/ request' = [request EXCEPT ![s] = Answered(429, "none")]
    BY <1>3 DEF ArriveLimited
  <2>3. CASE Enter(s, name, sender)
    BY <2>1, <2>3, EnterStep
  <2>4. CASE request' = [request EXCEPT ![s] = Answered(429, "none")]
    <3>1. Answered(429, "none") \in Over
      BY RefusalsAreOver
    <3> QED
      BY <2>4, <3>1 DEF RequestInv
  <2> QED
    BY <2>2, <2>3, <2>4
<1>4. ASSUME NEW s \in Slot, Body(s)  PROVE RequestInv'
  BY <1>4, BodyStep
<1>5. ASSUME NEW s \in Slot, Finish(s)  PROVE RequestInv'
  BY <1>5, FinishStep
<1>6. CASE Restart
  BY <1>6 DEF Restart, RequestInv
<1>7. CASE Pass
  BY <1>7 DEF Pass, RequestInv
<1>8. CASE UNCHANGED apiVars
  BY <1>8 DEF apiVars, RequestInv
<1> QED
  BY <1>1, <1>2, <1>3, <1>4, <1>5, <1>6, <1>7, <1>8 DEF ApiNext

\* The keys of the limiters are the users and the addresses.
LEMMA LimiterKeyIsAKey ==
    \A name \in Name, sender \in Sender : LimiterKey(name, sender) \in Key
BY RoutesAssumption DEF LimiterKey, Sender

\* To the limiter, a step of the pipeline is one of its own operations.
LEMMA StepUsesLimiter == [ApiNext]_apiVars => [Next]_vars
<1> SUFFICES ASSUME [ApiNext]_apiVars  PROVE [Next]_vars
  OBVIOUS
<1>1. ASSUME NEW s \in Slot, NEW name \in Name, NEW sender \in Sender,
             \/ TurnAway(s, name, sender)
             \/ Arrive(s, name, sender)
      PROVE  [Next]_vars
  BY <1>1 DEF TurnAway, Arrive
<1>2. ASSUME NEW s \in Slot, NEW name \in Name, NEW sender \in Sender,
             ArriveLimited(s, name, sender)
      PROVE  [Next]_vars
  <2>1. Check(LimiterKey(name, sender))
    BY <1>2 DEF ArriveLimited
  <2>2. LimiterKey(name, sender) \in Key
    BY LimiterKeyIsAKey
  <2> QED
    BY <2>1, <2>2 DEF Next
<1>3. ASSUME NEW s \in Slot, Body(s) \/ Finish(s)  PROVE [Next]_vars
  BY <1>3 DEF Body, Finish
<1>4. CASE Restart
  BY <1>4 DEF Restart, Next
<1>5. CASE Pass
  BY <1>5 DEF Pass, Next
<1>6. CASE UNCHANGED apiVars
  BY <1>6 DEF apiVars
<1> QED
  BY <1>1, <1>2, <1>3, <1>4, <1>5, <1>6 DEF ApiNext

-----------------------------------------------------------------------------
(* Theorems.                                                               *)

\* The pipeline uses the limiter as its specification allows: whatever the
\* handlers do, only check, reset and clear change the store.
THEOREM PipelineUsesLimiter == ApiSpec => Spec
<1>1. ApiInit => Init
  BY DEF ApiInit
<1> QED
  BY <1>1, StepUsesLimiter, PTL DEF ApiSpec, Spec

\* No window of Window units lets more than MaxRequests of one key through,
\* however the requests fall, for any limit and any window.
THEOREM WindowIsNeverExceeded == ApiSpec => []WindowNeverExceeded
<1> QED
  BY PipelineUsesLimiter, LimiterInvariant, RateGivesWindow, PTL

\* A refused caller is told exactly when a request will pass again, and an
\* accepted one never more than what remains.
THEOREM AnswersAreAlwaysHonest == ApiSpec => []AnswersAreHonest
<1> QED
  BY PipelineUsesLimiter, LimiterInvariant, RateGivesHonesty, PTL

\* The invariant of the requests holds throughout.
LEMMA RequestInvariant == ApiSpec => []RequestInv
<1> QED
  BY RequestInit, RequestNext, PTL DEF ApiSpec

\* The variables of the pipeline and of the limiter keep their types.
THEOREM TypeCorrect == ApiSpec => []ApiTypeOK
<1>1. RateInv => TypeOK
  BY DEF RateInv
<1>2. RequestInv /\ TypeOK => ApiTypeOK
  BY DEF RequestInv, ApiTypeOK, Waiting, Over
<1> QED
  BY <1>1, <1>2, PipelineUsesLimiter, LimiterInvariant, RequestInvariant, PTL

\* No service that changes anything runs for a request without the CSRF
\* token, and no service of the administrators for a request that does not
\* claim their role.
THEOREM GuardsAlwaysBeforeServices == ApiSpec => []GuardsBeforeServices
<1>1. RequestInv => GuardsBeforeServices
  <2> SUFFICES ASSUME RequestInv, NEW s \in Slot, request[s].stage = "service"
               PROVE  /\ request[s].name \in Changing => request[s].csrf
                      /\ request[s].name \in {"dashboard", "users", "setStatus"} =>
                           request[s].claim = "ADMIN"
    BY DEF GuardsBeforeServices
  <2>1. request[s] \in {Idle} \cup Waiting \cup Over
    BY DEF RequestInv
  <2>2. request[s] \in Waiting
    BY <2>1 DEF Idle, Over
  <2>3. request[s].name \in Name /\ Passes(request[s].name, request[s])
    BY <2>2 DEF Waiting
  <2>4. ASSUME request[s].name \in Changing  PROVE request[s].csrf
    BY <2>3, <2>4, RoutesAreGuarded DEF Passes
  <2>5. ASSUME request[s].name \in {"dashboard", "users", "setStatus"}
        PROVE  request[s].claim = "ADMIN"
    BY <2>3, <2>5, RoutesAreGuarded DEF Passes, Anyone
  <2> QED
    BY <2>4, <2>5
<1> QED
  BY <1>1, RequestInvariant, PTL

\* The answer tells what became of the request, on each of the 29 routes.
THEOREM AnswersAlwaysTellTheOutcome == ApiSpec => []AnswersTellTheOutcome
<1>1. RequestInv => AnswersTellTheOutcome
  <2> SUFFICES ASSUME RequestInv, NEW s \in Slot, request[s].stage = "answered"
               PROVE  /\ request[s].status < 300 <=> request[s].outcome = "done"
                      /\ request[s].status \in 400..499 =>
                           request[s].outcome \in Refusal \cup {"none"}
    BY DEF AnswersTellTheOutcome
  <2>1. request[s] \in {Idle} \cup Waiting \cup Over
    BY DEF RequestInv
  <2>2. request[s] \in Over
    BY <2>1 DEF Idle, Waiting
  <2> QED
    BY <2>2 DEF Over, Truthful
<1> QED
  BY <1>1, RequestInvariant, PTL
=============================================================================
