-------------------------- MODULE WorkQueueProofs --------------------------
(***************************************************************************)
(* Proofs about the fan-out's work queue: for any units, workers, lanes,   *)
(* providers and budgets, no unit is lost or held twice, the throttle's    *)
(* counts are exact, a blocked worker has something to wake it, a worker   *)
(* leaves only a drained queue, the retry budgets hold, and every step is  *)
(* one that the contract of Engine.Run allows.                             *)
(***************************************************************************)
EXTENDS WorkQueue, FiniteSetTheorems, FunctionTheorems, SequenceTheorems,
        WellFoundedInduction, TLAPS

-----------------------------------------------------------------------------
(* Sequences: what promote and take do to a queue.                         *)

\* nth lists the members of a finite set of positions, each once.
LEMMA Ranks ==
  ASSUME NEW n \in Nat, NEW K \in SUBSET (1..n)
  PROVE  /\ Cardinality(K) \in Nat
         /\ \A i \in 1..Cardinality(K) :
              nth(K, i) \in K /\ Cardinality({j \in K : j <= nth(K, i)}) = i
         /\ \A k \in K : \E i \in 1..Cardinality(K) : nth(K, i) = k
<1> DEFINE below(k) == {j \in K : j <= k}
           rank == [k \in K |-> Cardinality(below(k))]
           N == Cardinality(K)
<1>1. IsFiniteSet(K) /\ N \in Nat
  <2>1. IsFiniteSet(1..n)
    BY FS_Interval
  <2>2. IsFiniteSet(K)
    BY <2>1, FS_Subset
  <2> QED
    BY <2>2, FS_CardinalityType
<1>2. \A k \in K : IsFiniteSet(below(k)) /\ Cardinality(below(k)) \in 1..N
  <2> SUFFICES ASSUME NEW k \in K
               PROVE  IsFiniteSet(below(k)) /\ Cardinality(below(k)) \in 1..N
    OBVIOUS
  <2>1. below(k) \in SUBSET K /\ k \in below(k)
    OBVIOUS
  <2>2. IsFiniteSet(below(k)) /\ Cardinality(below(k)) <= N
    BY <1>1, <2>1, FS_Subset
  <2>3. Cardinality(below(k)) \in Nat /\ Cardinality(below(k)) # 0
    BY <2>1, <2>2, FS_EmptySet, FS_CardinalityType
  <2> QED
    BY <1>1, <2>2, <2>3
<1>3. \A j, k \in K : j < k => Cardinality(below(j)) # Cardinality(below(k))
  <2> SUFFICES ASSUME NEW j \in K, NEW k \in K, j < k,
                      Cardinality(below(k)) = Cardinality(below(j))
               PROVE  FALSE
    OBVIOUS
  <2>1. j \in Int /\ k \in Int /\ \A i \in K : i \in Int
    OBVIOUS
  <2>2. \A i \in K : i <= j => i <= k
    BY <2>1
  <2>3. below(j) \in SUBSET below(k) /\ k \in below(k) /\ k \notin below(j)
    <3>1. below(j) \in SUBSET below(k)
      BY <2>2
    <3>2. k <= k /\ ~(k <= j)
      BY <2>1
    <3> QED
      BY <3>1, <3>2
  <2>4. below(k) = below(j)
    BY <1>2, <2>3, FS_Subset
  <2> QED
    BY <2>3, <2>4
<1>4. rank \in Injection(K, 1..N)
  <2>1. rank \in [K -> 1..N]
    BY <1>2
  <2>2. \A j, k \in K : rank[j] = rank[k] => j = k
    BY <1>3
  <2> QED
    BY <2>1, <2>2 DEF Injection, IsInjective
<1>5. IsFiniteSet(1..N) /\ Cardinality(1..N) = N
  BY <1>1, FS_Interval
<1>6. rank \in Surjection(K, 1..N)
  BY <1>4, <1>5, FS_Injection
<1>7. \A i \in 1..N : \E k \in K : Cardinality(below(k)) = i
  BY <1>6 DEF Surjection
<1>8. \A i \in 1..N : nth(K, i) \in K /\ Cardinality(below(nth(K, i))) = i
  BY <1>7 DEF nth
<1>9. \A k \in K : nth(K, Cardinality(below(k))) = k
  <2> SUFFICES ASSUME NEW k \in K
               PROVE  nth(K, Cardinality(below(k))) = k
    OBVIOUS
  <2>1. PICK i \in 1..N : i = Cardinality(below(k))
    BY <1>2
  <2>2. rank[nth(K, i)] = rank[k] /\ nth(K, i) \in K
    BY <1>8, <2>1
  <2> QED
    BY <1>4, <2>1, <2>2 DEF Injection, IsInjective
<1> QED
  BY <1>1, <1>2, <1>8, <1>9

\* At picks the elements at the positions K, each once.
LEMMA AtPositions ==
  ASSUME NEW S, NEW s \in Seq(S), NEW K \in SUBSET DOMAIN s
  PROVE  /\ At(s, K) \in Seq(S) /\ Len(At(s, K)) = Cardinality(K) /\ Cardinality(K) \in Nat
         /\ DOMAIN At(s, K) = 1..Cardinality(K)
         /\ \A i \in 1..Cardinality(K) : nth(K, i) \in K /\ At(s, K)[i] = s[nth(K, i)]
         /\ \A i, j \in 1..Cardinality(K) : nth(K, i) = nth(K, j) => i = j
         /\ \A k \in K : \E i \in 1..Cardinality(K) : nth(K, i) = k
<1>1. /\ Cardinality(K) \in Nat
      /\ \A i \in 1..Cardinality(K) :
           nth(K, i) \in K /\ Cardinality({j \in K : j <= nth(K, i)}) = i
      /\ \A k \in K : \E i \in 1..Cardinality(K) : nth(K, i) = k
  <2>1. Len(s) \in Nat /\ DOMAIN s = 1..Len(s)
    BY LenProperties
  <2> QED
    BY <2>1, Ranks
<1>2. At(s, K) \in [1..Cardinality(K) -> S]
  <2>1. \A k \in K : s[k] \in S
    BY ElementOfSeq, LenProperties
  <2> QED
    BY <1>1, <2>1 DEF At
<1>3. At(s, K) \in Seq(S) /\ Len(At(s, K)) = Cardinality(K)
  BY <1>1, <1>2
<1> QED
  BY <1>1, <1>2, <1>3 DEF At

\* Without drops one element and moves those behind it up.
LEMMA WithoutElements ==
  ASSUME NEW S, NEW s \in Seq(S), NEW k \in DOMAIN s
  PROVE  /\ Without(s, k) \in Seq(S)
         /\ Len(Without(s, k)) = Len(s) - 1
         /\ \A i \in 1..(Len(s) - 1) : Without(s, k)[i] = s[IF i < k THEN i ELSE i + 1]
<1> DEFINE a == SubSeq(s, 1, k - 1)
           b == SubSeq(s, k + 1, Len(s))
<1>1. Len(s) \in Nat /\ k \in 1..Len(s) /\ \A i \in 1..Len(s) : s[i] \in S
  OBVIOUS
<1>2. /\ a \in Seq(S) /\ Len(a) = k - 1
      /\ \A i \in 1..(k - 1) : a[i] = s[i]
  <2>1. \A i \in 1..(k - 1) : s[i] \in S
    BY <1>1
  <2>2. /\ a \in Seq(S)
        /\ Len(a) = IF 1 <= k - 1 THEN (k - 1) - 1 + 1 ELSE 0
        /\ \A i \in 1..((k - 1) - 1 + 1) : a[i] = s[1 + i - 1]
    BY <1>1, <2>1, SubSeqProperties
  <2> QED
    BY <1>1, <2>2
<1>3. /\ b \in Seq(S) /\ Len(b) = Len(s) - k
      /\ \A i \in 1..(Len(s) - k) : b[i] = s[k + i]
  <2>1. \A i \in (k + 1)..Len(s) : s[i] \in S
    BY <1>1
  <2>2. /\ b \in Seq(S)
        /\ Len(b) = IF k + 1 <= Len(s) THEN Len(s) - (k + 1) + 1 ELSE 0
        /\ \A i \in 1..(Len(s) - (k + 1) + 1) : b[i] = s[(k + 1) + i - 1]
    BY <1>1, <2>1, SubSeqProperties
  <2> QED
    BY <1>1, <2>2
<1> DEFINE c == a \o b
<1>4. /\ c \in Seq(S) /\ Len(c) = Len(a) + Len(b)
      /\ \A i \in 1..(Len(a) + Len(b)) : c[i] = IF i <= Len(a) THEN a[i] ELSE b[i - Len(a)]
  BY <1>2, <1>3, ConcatProperties
<1>5. Without(s, k) = c
  BY DEF Without
<1> HIDE DEF a, b, c
<1>6. Len(c) = Len(s) - 1
  BY <1>1, <1>2, <1>3, <1>4
<1>7. ASSUME NEW i \in 1..(Len(s) - 1)
      PROVE  c[i] = s[IF i < k THEN i ELSE i + 1]
  <2>0. i \in 1..(Len(a) + Len(b)) /\ Len(a) = k - 1
    BY <1>1, <1>2, <1>3
  <2>1. CASE i < k
    <3>1. i <= Len(a) /\ i \in 1..(k - 1)
      BY <1>1, <2>0, <2>1
    <3>2. c[i] = a[i]
      BY <1>4, <2>0, <3>1
    <3> QED
      BY <1>2, <2>1, <3>1, <3>2
  <2>2. CASE ~(i < k)
    <3>1. ~(i <= Len(a)) /\ i - Len(a) \in 1..(Len(s) - k) /\ k + (i - Len(a)) = i + 1
      BY <1>1, <2>0, <2>2, SMTT(30)
    <3>2. c[i] = b[i - Len(a)]
      BY <1>4, <2>0, <3>1
    <3>3. b[i - Len(a)] = s[k + (i - Len(a))]
      BY <1>3, <3>1
    <3> QED
      BY <2>2, <3>1, <3>2, <3>3
  <2> QED
    BY <2>1, <2>2
<1> QED
  BY <1>4, <1>5, <1>6, <1>7
-----------------------------------------------------------------------------
(* The inductive invariant.                                                *)

Holding == {"leased", "starting", "calling", "requeue", "resolved", "release"}

\* A worker has a unit exactly while it is between a lease and its settlement,
\* and no two have the same.  A unit is reported before it is released.
Shape ==
  /\ \A w \in Workers : unit[w] # NoUnit <=> pc[w] \in Holding
  /\ \A w \in Workers : pc[w] = "release" => reported[unit[w]] > 0
  /\ \A v, w \in Workers : unit[v] # NoUnit /\ unit[v] = unit[w] => v = w

Listed(s, u) == \E k \in DOMAIN s : s[k] = u
Distinct(s) == \A j, k \in DOMAIN s : s[j] = s[k] => j = k
DelayedUnits == [k \in DOMAIN delayed |-> delayed[k].unit]
InHand(u) == \E w \in Workers : unit[w] = u /\ pc[w] # "release"

\* The places of a unit, without counting: no queue has a unit twice, a unit
\* is in some place, and never in two.
Somewhere(u) == Listed(pending, u) \/ Listed(DelayedUnits, u) \/ InHand(u) \/ reported[u] > 0
Apart(u) ==
  /\ Listed(pending, u) => ~Listed(DelayedUnits, u) /\ ~InHand(u) /\ reported[u] = 0
  /\ Listed(DelayedUnits, u) => ~InHand(u) /\ reported[u] = 0
  /\ InHand(u) => reported[u] = 0
  /\ reported[u] <= 1
Places ==
  /\ Distinct(pending) /\ Distinct(DelayedUnits)
  /\ \A u \in Units : Somewhere(u) /\ Apart(u)

\* A unit that may still be called has an attempt left.
Callable(u) ==
  \/ Listed(pending, u) \/ Listed(DelayedUnits, u)
  \/ \E w \in Workers : unit[w] = u /\ pc[w] \in {"leased", "starting", "calling", "requeue"}
Budgeted ==
  \A u \in Units :
    /\ retry[u].circuitWaits <= retry[u].attempts
    /\ calls(u) <= MaxAttempts
    /\ Callable(u) => calls(u) < MaxAttempts
    /\ retry[u].spent <= Budget
    /\ retry[u].circuitSpent <= CircuitBudget

\* A unit that was called, or is about to be reported, has a result.
Resulted ==
  /\ \A u \in Units : retry[u].attempts > 0 \/ reported[u] > 0 => result[u].class # "none"
  /\ \A w \in Workers : pc[w] = "resolved" => result[unit[w]].class # "none"

\* The inductive invariant.
IInv == /\ TypeOK /\ Shape /\ Places /\ InFlightExact
        /\ Budgeted /\ Resulted /\ BlockedWillWake /\ ExitMeansDrained

-----------------------------------------------------------------------------
(* Constants and operators.                                                *)

\* There is a worker, and the pool's ceiling counts them.
LEMMA CeilingPositive == Ceiling \in Nat \ {0}
BY QueueAssumption, FS_CardinalityType, FS_EmptySet DEF Ceiling

\* A walk of a chain ends in a result with a class.
LEMMA WalkTyped ==
  ASSUME NEW u, NEW hold, NEW r \in WalkResults(u, hold) \cup {NeverCalled}
  PROVE  r \in Results /\ r.class # "none"
<1>1. \A e : classifyUnitFailure(e) \in Classes \ {"none"}
  BY DEF classifyUnitFailure, Classes
<1>2. \A e : PrimaryFailed(e) \in Results /\ PrimaryFailed(e).class # "none"
  BY <1>1 DEF PrimaryFailed, Results
<1>3. \A e, f : ChainFailed(e, f) \in Results /\ ChainFailed(e, f).class # "none"
  BY <1>1 DEF ChainFailed, Results
<1>4. \A f \in BOOLEAN : \A e : Served(f, e) \in Results /\ Served(f, e).class # "none"
  BY DEF Served, Results, Classes
<1>5. TruncatedThenOpen \in Results /\ TruncatedThenOpen.class # "none"
  BY <1>2 DEF TruncatedThenOpen, Results
<1>6. \/ r = NeverCalled \/ r = Served(FALSE, "none") \/ r = TruncatedThenOpen
      \/ \E e \in Errors : r = PrimaryFailed(e)
      \/ \E e \in Errors : r = Served(TRUE, e)
      \/ \E e, f \in Errors : r = ChainFailed(e, f)
  <2>1. CASE r = NeverCalled
    BY <2>1
  <2>2. CASE r \in {Served(FALSE, "none")} \cup {PrimaryFailed(e) : e \in Errors}
                     \cup {TruncatedThenOpen : e \in Errors \cap {"circuit_open"}}
    BY <2>2
  <2>3. CASE \E e \in Errors : r \in {Served(TRUE, e)} \cup {ChainFailed(e, f) : f \in Errors}
    BY <2>3
  <2> QED
    BY <2>1, <2>2, <2>3 DEF WalkResults
<1> QED
  BY <1>2, <1>3, <1>4, <1>5, <1>6 DEF NeverCalled

\* A backoff before another attempt leaves an attempt and stays in the budget.
LEMMA NextBounds ==
  ASSUME NEW class, NEW a \in Nat \ {0}, NEW spent \in Nat, next(class, a, spent) # NoTimer
  PROVE  /\ next(class, a, spent) \in Nat
         /\ a < MaxAttempts /\ spent + next(class, a, spent) <= Budget
<1>1. a < MaxAttempts /\ a \in 1..MaxAttempts
  BY QueueAssumption DEF next
<1>2. 2^(a - 1) \in Nat
  BY <1>1, ShiftAssumption
<1>3. unitBackoff(class, a) \in Nat
  BY <1>2, QueueAssumption DEF unitBackoff
<1>4. next(class, a, spent) = unitBackoff(class, a) /\ ~(spent + unitBackoff(class, a) > Budget)
  BY DEF next
<1> QED
  BY <1>1, <1>3, <1>4, QueueAssumption

\* So does a wait on an open breaker.
LEMMA CircuitWaitBounds ==
  ASSUME NEW waited \in Nat, nextCircuitWait(waited) # NoTimer
  PROVE  nextCircuitWait(waited) \in Nat /\ waited + nextCircuitWait(waited) <= CircuitBudget
BY QueueAssumption DEF nextCircuitWait

RetryStates == [attempts : Nat, circuitWaits : Nat, spent : Nat, circuitSpent : Nat]

\* A retry record within both budgets.
Within(x) ==
  /\ x \in RetryStates
  /\ x.circuitWaits <= x.attempts /\ x.attempts - x.circuitWaits <= MaxAttempts
  /\ x.spent <= Budget /\ x.circuitSpent <= CircuitBudget

\* settle counts the attempt and either resolves the unit or, while the run is
\* not done, gives it a backoff with an attempt left.
LEMMA SettleEffect ==
  ASSUME TypeOK, NEW w \in Workers, NEW u \in Units, NEW r, Within(retry[u]),
         calls(u) < MaxAttempts, settle(w, u, r)
  PROVE  \E x \in RetryStates :
           /\ Within(x) /\ x.attempts > 0 /\ retry' = [retry EXCEPT ![u] = x]
           /\ \/ /\ pc' = [pc EXCEPT ![w] = "resolved"]
                 /\ UNCHANGED <<backoff, started>>
              \/ /\ pc' = [pc EXCEPT ![w] = "requeue"]
                 /\ x.attempts - x.circuitWaits < MaxAttempts
                 /\ \E b \in Nat : backoff' = [backoff EXCEPT ![w] = b]
                 /\ started' = started \ {unit[w]}
                 /\ ~cancelled
<1> DEFINE old == retry[u]
<1>1. /\ old \in RetryStates /\ old.circuitWaits <= old.attempts
      /\ old.attempts - old.circuitWaits < MaxAttempts
      /\ old.spent <= Budget /\ old.circuitSpent <= CircuitBudget
      /\ calls(u) = old.attempts - old.circuitWaits
      /\ calls(u) + 1 \in Nat \ {0}
  <2>1. /\ old \in RetryStates /\ old.circuitWaits <= old.attempts
        /\ old.spent <= Budget /\ old.circuitSpent <= CircuitBudget
        /\ calls(u) = old.attempts - old.circuitWaits
    BY DEF Within, calls
  <2>2. old.attempts \in Nat /\ old.circuitWaits \in Nat
    BY <2>1 DEF RetryStates
  <2> QED
    BY <2>1, <2>2
<1>2. retry \in [Units -> RetryStates]
  BY DEF TypeOK, RetryStates
<1>3. CASE settleFinal(w, u)
  <2> DEFINE x == [old EXCEPT !.attempts = @ + 1]
  <2>1. x \in RetryStates /\ Within(x) /\ x.attempts > 0
    BY <1>1, QueueAssumption DEF Within, RetryStates
  <2>2. retry' = [retry EXCEPT ![u] = x]
    BY <1>2, <1>3 DEF settleFinal, RetryStates
  <2> QED
    BY <1>3, <2>1, <2>2 DEF settleFinal, Final
<1>4. CASE settleCircuitWait(w, u) /\ ~cancelled
  <2> DEFINE b == nextCircuitWait(old.circuitSpent)
             sum == IF b = NoTimer THEN old.circuitSpent ELSE old.circuitSpent + b
             x == [old EXCEPT !.attempts = @ + 1, !.circuitWaits = @ + 1,
                              !.circuitSpent = sum]
  <2>1. b # NoTimer => b \in Nat /\ old.circuitSpent + b <= CircuitBudget
    BY <1>1, CircuitWaitBounds DEF RetryStates
  <2>2. /\ x \in RetryStates /\ Within(x) /\ x.attempts > 0
        /\ x.attempts - x.circuitWaits < MaxAttempts
    <3>1. /\ x.attempts = old.attempts + 1 /\ x.circuitWaits = old.circuitWaits + 1
          /\ x.spent = old.spent
          /\ x.circuitSpent = sum
      BY <1>1 DEF RetryStates
    <3>2. sum \in Nat /\ sum <= CircuitBudget
      BY <1>1, <2>1 DEF RetryStates
    <3> HIDE DEF sum
    <3>3. old.attempts \in Nat /\ old.circuitWaits \in Nat /\ old.circuitSpent \in Nat
      BY <1>1 DEF RetryStates
    <3>4. old.attempts + 1 \in Nat /\ old.circuitWaits + 1 \in Nat
      BY <3>3
    <3>5. x \in RetryStates
      BY <1>1, <3>2, <3>4, Zenon DEF RetryStates
    <3> HIDE DEF x
    <3> QED
      BY <1>1, <3>1, <3>2, <3>3, <3>5, QueueAssumption DEF Within
  <2>3. retry' = [retry EXCEPT ![u] = x]
    BY <1>2, <1>4 DEF settleCircuitWait, RetryStates
  <2>4. IF b = NoTimer THEN Final(w) ELSE Again(w, b)
    BY <1>4 DEF settleCircuitWait
  <2> QED
    BY <1>4, <2>1, <2>2, <2>3, <2>4 DEF Final, Again
<1>5. CASE settleRetry(w, u, budgetClass(r)) /\ ~cancelled
  <2> DEFINE b == next(budgetClass(r), calls(u) + 1, old.spent)
             sum == IF b = NoTimer THEN old.spent ELSE old.spent + b
             x == [old EXCEPT !.attempts = @ + 1, !.spent = sum]
  <2>1. b # NoTimer => b \in Nat /\ calls(u) + 1 < MaxAttempts /\ old.spent + b <= Budget
    BY <1>1, NextBounds DEF RetryStates
  <2>2. x \in RetryStates /\ Within(x) /\ x.attempts > 0
        /\ x.attempts - x.circuitWaits = calls(u) + 1
    <3>1. /\ x.attempts = old.attempts + 1 /\ x.circuitWaits = old.circuitWaits
          /\ x.spent = sum
          /\ x.circuitSpent = old.circuitSpent
      BY <1>1 DEF RetryStates
    <3>2. sum \in Nat /\ sum <= Budget
      BY <1>1, <2>1 DEF RetryStates
    <3> HIDE DEF sum
    <3>3. old.attempts \in Nat /\ old.circuitWaits \in Nat /\ old.spent \in Nat
      BY <1>1 DEF RetryStates
    <3>4. old.attempts + 1 \in Nat
      BY <3>3
    <3>5. x \in RetryStates
      BY <1>1, <3>2, <3>4, Zenon DEF RetryStates
    <3> HIDE DEF x
    <3> QED
      BY <1>1, <3>1, <3>2, <3>3, <3>5, QueueAssumption DEF Within
  <2>3. retry' = [retry EXCEPT ![u] = x]
    BY <1>2, <1>5 DEF settleRetry, RetryStates
  <2>4. IF b = NoTimer THEN Final(w) ELSE Again(w, b)
    BY <1>5 DEF settleRetry
  <2> QED
    BY <1>5, <2>1, <2>2, <2>3, <2>4 DEF Final, Again
<1> QED
  BY <1>3, <1>4, <1>5 DEF settle

LaneStates == [inFlight : Nat, limit : 0..Ceiling, until : Nat, serverRun : 0..ServerStreak,
               serverUntil : Nat]

\* done's effect on a lane keeps its cap between none and the ceiling, and
\* does not touch the lane's count.
LEMMA CappedType ==
  ASSUME NEW l \in LaneStates, NEW r
  PROVE  cappedBy(l, r) \in LaneStates /\ cappedBy(l, r).inFlight = l.inFlight
<1>1. AfterServerFail(l) \in LaneStates /\ AfterServerFail(l).inFlight = l.inFlight
  <2> DEFINE n == IF l.serverRun + 1 >= ServerStreak THEN ServerStreak ELSE l.serverRun + 1
             t == IF l.serverRun + 1 >= ServerStreak THEN ServerWindow ELSE l.serverUntil
  <2>1. n \in 0..ServerStreak /\ t \in Nat
    BY QueueAssumption DEF LaneStates
  <2>2. AfterServerFail(l) = [l EXCEPT !.serverRun = n, !.serverUntil = t]
    BY DEF AfterServerFail
  <2> HIDE DEF n, t
  <2>3. [l EXCEPT !.serverRun = n, !.serverUntil = t] \in LaneStates
    BY <2>1, Zenon DEF LaneStates
  <2> QED
    BY <2>2, <2>3 DEF LaneStates
<1>2. AfterRateLimit(l) \in LaneStates /\ AfterRateLimit(l).inFlight = l.inFlight
  <2> DEFINE n == larger(1, (IF l.limit = 0 THEN Ceiling ELSE l.limit) \div 2)
  <2>1. n \in 0..Ceiling /\ RateBackoff \in Nat
    BY QueueAssumption, CeilingPositive DEF LaneStates, larger
  <2>2. AfterRateLimit(l) = [l EXCEPT !.limit = n, !.until = RateBackoff]
    BY DEF AfterRateLimit
  <2> HIDE DEF n
  <2>3. [l EXCEPT !.limit = n, !.until = RateBackoff] \in LaneStates
    BY <2>1, Zenon DEF LaneStates
  <2> QED
    BY <2>2, <2>3 DEF LaneStates
<1>3. AfterSuccess(l) \in LaneStates /\ AfterSuccess(l).inFlight = l.inFlight
  <2> DEFINE n == IF l.limit > 0 /\ l.until = 0 THEN raised(l.limit) ELSE l.limit
  <2>1. n \in 0..Ceiling /\ 0 \in 0..ServerStreak
    BY QueueAssumption, CeilingPositive DEF LaneStates, raised
  <2>2. AfterSuccess(l) = [l EXCEPT !.serverRun = 0, !.limit = n]
    BY DEF AfterSuccess
  <2> HIDE DEF n
  <2>3. [l EXCEPT !.serverRun = 0, !.limit = n] \in LaneStates
    BY <2>1, Zenon DEF LaneStates
  <2> QED
    BY <2>2, <2>3 DEF LaneStates
<1> QED
  BY <1>1, <1>2, <1>3 DEF cappedBy

-----------------------------------------------------------------------------
(* Steps of a worker that holds its unit throughout.                       *)

LocalStep(w) ==
  \/ Park(w) \/ Wake(w) \/ KeepResult(w) \/ Proceed(w) \/ ShortCircuit(w) \/ StartCall(w)
  \/ EndCall(w) \/ Panic(w) \/ Report(w)

\* A worker that is calling holds a unit with an attempt left.
LEMMA CallingHolds ==
  ASSUME IInv, NEW w \in Workers, pc[w] \in Holding
  PROVE  /\ unit[w] \in Units /\ Within(retry[unit[w]])
         /\ pc[w] = "calling" => calls(unit[w]) < MaxAttempts
<1>1. unit[w] \in Units
  BY DEF IInv, TypeOK, Shape
<1>2. Within(retry[unit[w]])
  BY <1>1 DEF IInv, TypeOK, Budgeted, Within, RetryStates, calls
<1>3. pc[w] = "calling" => calls(unit[w]) < MaxAttempts
  BY <1>1 DEF IInv, Budgeted, Callable
<1> QED
  BY <1>1, <1>2, <1>3

\* How a call ends.
LEMMA EndCallEffect ==
  ASSUME IInv, NEW w \in Workers, EndCall(w)
  PROVE  /\ unit[w] \in Units /\ pc[w] = "calling"
         /\ UNCHANGED <<queueVars, throttleVars, unit, wake, listens, cancelled, reported, circuit>>
         /\ \E r \in Results : r.class # "none" /\ result' = [result EXCEPT ![unit[w]] = r]
         /\ \E x \in RetryStates :
              /\ Within(x) /\ x.attempts > 0 /\ retry' = [retry EXCEPT ![unit[w]] = x]
              /\ \/ /\ pc' = [pc EXCEPT ![w] = "resolved"]
                    /\ UNCHANGED <<backoff, started>>
                 \/ /\ pc' = [pc EXCEPT ![w] = "requeue"]
                    /\ x.attempts - x.circuitWaits < MaxAttempts
                    /\ \E b \in Nat : backoff' = [backoff EXCEPT ![w] = b]
                    /\ started' = started \ {unit[w]}
                    /\ ~cancelled
<1>1. pc[w] = "calling"
  BY DEF EndCall
<1>2. unit[w] \in Units /\ Within(retry[unit[w]]) /\ calls(unit[w]) < MaxAttempts
  BY <1>1, CallingHolds DEF Holding
<1>3. PICK r \in WalkResults(unit[w], holdRateLimit(unit[w])) \cup {NeverCalled} :
        result' = [result EXCEPT ![unit[w]] = r] /\ settle(w, unit[w], r)
  BY DEF EndCall
<1>4. r \in Results /\ r.class # "none"
  BY <1>3, WalkTyped
<1>5. TypeOK
  BY DEF IInv
<1>6. UNCHANGED <<queueVars, throttleVars, unit, wake, listens, cancelled, reported, circuit>>
  BY DEF EndCall
<1> QED
  BY <1>1, <1>2, <1>3, <1>4, <1>5, <1>6, SettleEffect

\* Where a local step takes its worker.
Goes(w, from, to) == pc[w] = from /\ pc' = [pc EXCEPT ![w] = to]

\* What a local step changes.
LEMMA LocalFrame ==
  ASSUME IInv, NEW w \in Workers, LocalStep(w)
  PROVE  /\ UNCHANGED <<queueVars, throttleVars, unit, cancelled, circuit>>
         /\ \/ /\ Goes(w, "parking", "waiting") \/ Goes(w, "waiting", "lease")
               /\ UNCHANGED <<backoff, retry, result, started, reported>>
            \/ /\ Goes(w, "leased", "resolved") \/ Goes(w, "leased", "starting")
                    \/ Goes(w, "starting", "resolved") \/ Goes(w, "starting", "calling")
                    \/ Goes(w, "calling", "resolved") \/ Goes(w, "calling", "requeue")
               /\ UNCHANGED <<wake, listens, reported>>
            \/ /\ Goes(w, "resolved", "release")
               /\ reported' = [reported EXCEPT ![unit[w]] = @ + 1]
               /\ UNCHANGED <<backoff, wake, listens, retry, result>>
<1>1. CASE EndCall(w)
  <2>1. UNCHANGED <<queueVars, throttleVars, unit, cancelled, circuit, wake, listens, reported>>
    BY <1>1 DEF EndCall
  <2>2. Goes(w, "calling", "resolved") \/ Goes(w, "calling", "requeue")
    BY <1>1, EndCallEffect DEF Goes
  <2> QED
    BY <2>1, <2>2
<1>2. CASE Park(w) \/ Wake(w)
  BY <1>2 DEF Park, Wake, Goes, hookVars
<1>3. CASE KeepResult(w) \/ Proceed(w) \/ ShortCircuit(w)
  BY <1>3 DEF KeepResult, Proceed, ShortCircuit, Goes, hookVars
<1>4. CASE StartCall(w) \/ Panic(w)
  BY <1>4 DEF StartCall, Panic, Final, Goes
<1>5. CASE Report(w)
  BY <1>5 DEF Report, Goes
<1> QED
  BY <1>1, <1>2, <1>3, <1>4, <1>5 DEF LocalStep

\* Local steps keep the types.
LEMMA LocalType ==
  ASSUME IInv, NEW w \in Workers, LocalStep(w)
  PROVE  TypeOK'
<1>1. UNCHANGED <<queueVars, throttleVars, unit, cancelled, circuit>>
  BY LocalFrame
<1>2. TypeOK
  BY DEF IInv
<1>3. pc[w] \in Holding => unit[w] \in Units
  BY CallingHolds
<1>4. CASE EndCall(w)
  <2>1. PICK r \in Results : result' = [result EXCEPT ![unit[w]] = r]
    BY <1>4, EndCallEffect
  <2>2. PICK x \in RetryStates : retry' = [retry EXCEPT ![unit[w]] = x]
    BY <1>4, EndCallEffect
  <2>3. /\ pc' = [pc EXCEPT ![w] = "resolved"] \/ pc' = [pc EXCEPT ![w] = "requeue"]
        /\ backoff' = backoff \/ \E b \in Nat : backoff' = [backoff EXCEPT ![w] = b]
        /\ started' \subseteq started
        /\ UNCHANGED <<wake, listens, reported>>
    BY <1>4, EndCallEffect
  <2>4. pc' \in [Workers -> {"lease", "parking", "waiting", "leased", "starting", "calling",
                             "requeue", "resolved", "release", "exited"}]
    BY <1>2, <2>3 DEF TypeOK
  <2>5. backoff' \in [Workers -> Nat] /\ started' \subseteq Units
    BY <1>2, <2>3 DEF TypeOK
  <2>6. result' \in [Units -> Results] /\ retry' \in [Units -> RetryStates]
    BY <1>2, <2>1, <2>2 DEF TypeOK, RetryStates
  <2> QED
    BY <1>1, <1>2, <2>3, <2>4, <2>5, <2>6 DEF TypeOK, queueVars, throttleVars, RetryStates
<1>5. CASE Park(w)
  BY <1>1, <1>2, <1>5 DEF Park, TypeOK, queueVars, throttleVars, hookVars
<1>6. CASE Wake(w)
  BY <1>1, <1>2, <1>6 DEF Wake, TypeOK, queueVars, throttleVars, hookVars, Timers
<1>7. CASE KeepResult(w) \/ Proceed(w)
  BY <1>1, <1>2, <1>7 DEF KeepResult, Proceed, TypeOK, queueVars, throttleVars, hookVars
<1>8. CASE ShortCircuit(w)
  <2>1. NeverCalled \in Results
    BY WalkTyped
  <2> QED
    BY <1>1, <1>2, <1>3, <1>8, <2>1 DEF ShortCircuit, TypeOK, queueVars, throttleVars, hookVars,
       Holding
<1>9. CASE StartCall(w)
  BY <1>1, <1>2, <1>3, <1>9 DEF StartCall, TypeOK, queueVars, throttleVars, Holding
<1>10. CASE Panic(w)
  <2>1. PrimaryFailed("other") \in Results
    BY WalkTyped DEF NeverCalled
  <2> QED
    BY <1>1, <1>2, <1>3, <1>10, <2>1 DEF Panic, Final, TypeOK, queueVars, throttleVars, Holding
<1>11. CASE Report(w)
  BY <1>1, <1>2, <1>3, <1>11, SMTT(30) DEF Report, TypeOK, queueVars, throttleVars, Holding
<1> QED
  BY <1>4, <1>5, <1>6, <1>7, <1>8, <1>9, <1>10, <1>11 DEF LocalStep

\* A local step moves one worker.
LEMMA LocalMoves ==
  ASSUME IInv, NEW w \in Workers, LocalStep(w)
  PROVE  /\ \A v \in Workers \ {w} : pc'[v] = pc[v]
         /\ pc'[w] = "release" => pc[w] = "resolved"
<1>1. pc \in [Workers -> {"lease", "parking", "waiting", "leased", "starting", "calling",
                          "requeue", "resolved", "release", "exited"}]
  BY DEF IInv, TypeOK
<1>2. \E to : pc' = [pc EXCEPT ![w] = to] /\ (to = "release" => pc[w] = "resolved")
  BY LocalFrame DEF Goes
<1> QED
  BY <1>1, <1>2

\* Local steps keep the workers in shape.
LEMMA LocalShape ==
  ASSUME IInv, NEW w \in Workers, LocalStep(w)
  PROVE  Shape'
<1>1. unit' = unit /\ TypeOK /\ Shape
  BY LocalFrame DEF IInv
<1>2. \A v \in Workers : pc[v] \in Holding <=> pc'[v] \in Holding
  BY <1>1, LocalFrame, ZenonT(40) DEF Goes, Holding, TypeOK
<1>3. \A v \in Workers : pc'[v] = "release" => reported'[unit[v]] > 0
  <2> SUFFICES ASSUME NEW v \in Workers, pc'[v] = "release"
               PROVE  reported'[unit[v]] > 0
    OBVIOUS
  <2>1. pc[v] = "release" \/ (v = w /\ pc[w] = "resolved")
    BY LocalMoves
  <2>2. unit[v] \in Units /\ (pc[w] \in Holding => unit[w] \in Units)
    BY <2>1, CallingHolds DEF Holding
  <2>3. pc[v] = "release" => reported[unit[v]] > 0
    BY <1>1 DEF Shape
  <2>4. \/ reported' = reported
        \/ pc[w] = "resolved" /\ reported' = [reported EXCEPT ![unit[w]] = @ + 1]
    BY LocalFrame DEF Goes
  <2>5. \A u \in Units : reported[u] \in Nat
    BY <1>1 DEF TypeOK
  <2>6. CASE pc[v] = "release"
    <3>1. reported[unit[v]] \in Nat /\ reported[unit[v]] > 0 /\ DOMAIN reported = Units
      BY <1>1, <2>2, <2>3, <2>5, <2>6 DEF TypeOK
    <3>2. reported'[unit[v]] = reported[unit[v]] \/ reported'[unit[v]] = reported[unit[v]] + 1
      BY <2>2, <2>4, <3>1
    <3> QED
      BY <3>1, <3>2
  <2>7. CASE v = w /\ pc[w] = "resolved"
    <3>1. reported' = [reported EXCEPT ![unit[w]] = @ + 1]
      BY <2>7, LocalFrame DEF Goes
    <3> QED
      BY <1>1, <2>2, <2>5, <2>7, <3>1 DEF TypeOK
  <2> QED
    BY <2>1, <2>6, <2>7
<1> QED
  BY <1>1, <1>2, <1>3 DEF Shape

\* Local steps leave every unit where it is, but a report, after which its
\* worker only gives it back.
LEMMA LocalPlaces ==
  ASSUME IInv, NEW w \in Workers, LocalStep(w)
  PROVE  Places'
<1>1. /\ pending' = pending /\ delayed' = delayed /\ unit' = unit
      /\ TypeOK /\ Shape /\ Places
  BY LocalFrame DEF IInv, queueVars
<1>2. CASE ~Goes(w, "resolved", "release")
  <2>1. reported' = reported
    BY <1>2, LocalFrame
  <2>2. \A v \in Workers : unit[v] # NoUnit => (pc[v] = "release" <=> pc'[v] = "release")
    BY <1>1, <1>2, LocalFrame DEF Goes, TypeOK
  <2>3. \A u \in Units : InHand(u)' <=> InHand(u)
    BY <1>1, <2>2 DEF InHand, Units, NoUnit
  <2>4. DelayedUnits' = DelayedUnits
    BY <1>1 DEF DelayedUnits
  <2> QED
    BY <1>1, <2>1, <2>3, <2>4 DEF Places, Somewhere, Apart
<1>3. CASE Goes(w, "resolved", "release")
  <2>1. unit[w] \in Units
    BY <1>3, CallingHolds DEF Goes, Holding
  <2>2. reported' = [reported EXCEPT ![unit[w]] = @ + 1]
    BY <1>3, LocalFrame DEF Goes
  <2>3. InHand(unit[w]) /\ ~InHand(unit[w])'
    BY <1>1, <1>3, <2>1 DEF InHand, Goes, Shape, TypeOK, Units, NoUnit
  <2>4. \A u \in Units \ {unit[w]} : InHand(u)' <=> InHand(u)
    BY <1>1, <1>3 DEF InHand, Goes, TypeOK
  <2>5. DelayedUnits' = DelayedUnits
    BY <1>1 DEF DelayedUnits
  <2>6. \A u \in Units : reported[u] \in Nat
    BY <1>1 DEF TypeOK
  <2>7. reported[unit[w]] = 0 /\ ~Listed(pending, unit[w]) /\ ~Listed(DelayedUnits, unit[w])
    BY <1>1, <2>1, <2>3 DEF Places, Apart
  <2>8. reported'[unit[w]] = 1 /\ \A u \in Units \ {unit[w]} : reported'[u] = reported[u]
    BY <1>1, <2>1, <2>2, <2>7 DEF TypeOK
  <2>9. \A u \in Units : Somewhere(u)' /\ Apart(u)'
    BY <1>1, <2>3, <2>4, <2>5, <2>7, <2>8 DEF Places, Somewhere, Apart
  <2> QED
    BY <1>1, <2>5, <2>9 DEF Places
<1> QED
  BY <1>2, <1>3

\* Local steps leave the holders and the counts of them alone.
LEMMA LocalCounts ==
  ASSUME IInv, NEW w \in Workers, LocalStep(w)
  PROVE  InFlightExact'
BY LocalFrame DEF IInv, InFlightExact, Holders, HoldersOn, HoldersOf, queueVars, throttleVars

Trying == {"leased", "starting", "calling", "requeue"}

\* Local steps keep both budgets: only the end of a call spends, and it leaves
\* an attempt to a unit that is to be called again.
LEMMA LocalBudget ==
  ASSUME IInv, NEW w \in Workers, LocalStep(w)
  PROVE  Budgeted'
<1>1. /\ pending' = pending /\ delayed' = delayed /\ unit' = unit
      /\ TypeOK /\ Shape /\ Places /\ Budgeted
  BY LocalFrame DEF IInv, queueVars
<1>2. DelayedUnits' = DelayedUnits
  BY <1>1 DEF DelayedUnits
<1>3. pc'[w] \in Trying => pc[w] \in Trying
  BY <1>1, LocalFrame DEF Goes, TypeOK, Trying
<1>4. \A u \in Units : Callable(u)' => Callable(u)
  BY <1>1, <1>2, <1>3, LocalMoves DEF Callable, Trying
<1>5. CASE ~EndCall(w)
  <2>1. retry' = retry
    BY <1>5, LocalFrame DEF LocalStep, KeepResult, Proceed, ShortCircuit, StartCall, Panic, Park,
       Wake, Report
  <2> QED
    BY <1>1, <1>4, <2>1 DEF Budgeted, calls
<1>6. CASE EndCall(w)
  <2>1. unit[w] \in Units /\ pc[w] = "calling"
    BY <1>6, EndCallEffect
  <2>2. PICK x \in RetryStates :
          /\ Within(x) /\ retry' = [retry EXCEPT ![unit[w]] = x]
          /\ \/ pc' = [pc EXCEPT ![w] = "resolved"]
             \/ x.attempts - x.circuitWaits < MaxAttempts
    BY <1>6, EndCallEffect
  <2>3. retry'[unit[w]] = x /\ \A u \in Units \ {unit[w]} : retry'[u] = retry[u]
    BY <1>1, <2>1, <2>2 DEF TypeOK
  <2>4. InHand(unit[w])
    BY <2>1 DEF InHand
  <2>5. \A u \in Units : u = unit[w] /\ Callable(u)' => pc'[w] \in Trying
    BY <1>1, <1>2, <2>1, <2>4 DEF Callable, Places, Apart, Shape, Trying, Units, NoUnit
  <2>6. pc'[w] \in Trying => x.attempts - x.circuitWaits < MaxAttempts
    BY <1>1, <2>2 DEF TypeOK, Trying
  <2> SUFFICES ASSUME NEW u \in Units
               PROVE  /\ retry'[u].circuitWaits <= retry'[u].attempts
                      /\ retry'[u].attempts - retry'[u].circuitWaits <= MaxAttempts
                      /\ Callable(u)' => retry'[u].attempts - retry'[u].circuitWaits < MaxAttempts
                      /\ retry'[u].spent <= Budget
                      /\ retry'[u].circuitSpent <= CircuitBudget
    BY DEF Budgeted, calls
  <2>7. CASE u = unit[w]
    BY <2>2, <2>3, <2>5, <2>6, <2>7 DEF Within
  <2>8. CASE u # unit[w]
    BY <1>1, <1>4, <2>3, <2>8 DEF Budgeted, calls
  <2> QED
    BY <2>7, <2>8
<1> QED
  BY <1>5, <1>6

\* Local steps keep the results: one that resolves a unit leaves it one.
LEMMA LocalResult ==
  ASSUME IInv, NEW w \in Workers, LocalStep(w)
  PROVE  Resulted'
<1>1. unit' = unit /\ TypeOK /\ Resulted
  BY LocalFrame DEF IInv
<1>2. pc[w] \in Holding => unit[w] \in Units
  BY CallingHolds
<1>3. \/ result' = result
      \/ \E r \in Results : /\ r.class # "none" /\ unit[w] \in Units
                            /\ result' = [result EXCEPT ![unit[w]] = r]
  <2>1. CASE EndCall(w)
    BY <2>1, EndCallEffect
  <2>2. CASE ShortCircuit(w)
    <3>1. NeverCalled \in Results /\ NeverCalled.class # "none"
      BY WalkTyped
    <3> QED
      BY <1>2, <2>2, <3>1 DEF ShortCircuit, Holding
  <2>3. CASE Panic(w)
    <3>1. PrimaryFailed("other") \in Results /\ PrimaryFailed("other").class # "none"
      BY WalkTyped DEF NeverCalled
    <3> QED
      BY <1>2, <2>3, <3>1 DEF Panic, Holding
  <2>4. CASE ~EndCall(w) /\ ~ShortCircuit(w) /\ ~Panic(w)
    BY <2>4 DEF LocalStep, KeepResult, Proceed, StartCall, Park, Wake, Report
  <2> QED
    BY <2>1, <2>2, <2>3, <2>4
<1>4. \A u \in Units : result[u].class # "none" => result'[u].class # "none"
  BY <1>1, <1>3 DEF TypeOK
<1>5. \A u \in Units : retry'[u].attempts > 0 => retry[u].attempts > 0 \/ result'[u].class # "none"
  <2>1. CASE EndCall(w)
    <3>1. \A u \in Units \ {unit[w]} : retry'[u] = retry[u]
      BY <1>1, <2>1, EndCallEffect DEF TypeOK
    <3>2. result'[unit[w]].class # "none"
      BY <1>1, <2>1, EndCallEffect DEF TypeOK
    <3> QED
      BY <3>1, <3>2
  <2>2. CASE ~EndCall(w)
    BY <2>2 DEF LocalStep, KeepResult, Proceed, ShortCircuit, StartCall, Panic, Park, Wake, Report
  <2> QED
    BY <2>1, <2>2
<1>6. pc'[w] = "resolved" => result'[unit[w]].class # "none"
  <2>1. CASE EndCall(w)
    BY <1>1, <2>1, EndCallEffect DEF TypeOK
  <2>2. CASE ShortCircuit(w) \/ Panic(w)
    BY <1>1, <1>2, <2>2, WalkTyped DEF ShortCircuit, Panic, NeverCalled, Holding, TypeOK
  <2>3. CASE KeepResult(w)
    BY <1>1, <1>2, <1>4, <2>3 DEF KeepResult, Holding, Resulted
  <2>4. CASE ~EndCall(w) /\ ~ShortCircuit(w) /\ ~Panic(w) /\ ~KeepResult(w)
    BY <1>1, <2>4 DEF LocalStep, Proceed, StartCall, Park, Wake, Report, TypeOK
  <2> QED
    BY <2>1, <2>2, <2>3, <2>4
<1>7. \A u \in Units : reported'[u] > 0 => reported[u] > 0 \/ (pc[w] = "resolved" /\ u = unit[w])
  BY <1>1, LocalFrame, ZenonT(40) DEF Goes, TypeOK
<1>8. \A v \in Workers : pc[v] = "resolved" => unit[v] \in Units
  BY CallingHolds DEF Holding
<1>9. \A v \in Workers : pc[v] = "resolved" => result'[unit[v]].class # "none"
  BY <1>1, <1>4, <1>8 DEF Resulted
<1> QED
  BY <1>1, <1>4, <1>5, <1>6, <1>7, <1>9, LocalMoves DEF Resulted

\* Local steps keep the blocked workers' timers, and a drained queue drained.
LEMMA LocalWaits ==
  ASSUME IInv, NEW w \in Workers, LocalStep(w)
  PROVE  BlockedWillWake' /\ ExitMeansDrained'
<1>1. /\ pending' = pending /\ delayed' = delayed /\ held' = held
      /\ TypeOK /\ BlockedWillWake /\ ExitMeansDrained
  BY LocalFrame DEF IInv, queueVars
<1>2. pc'[w] # "exited" /\ (Blocked(w)' => Blocked(w))
  BY <1>1, LocalFrame DEF Goes, TypeOK, Blocked
<1>3. Blocked(w)' => wake'[w] = wake[w]
  BY <1>1 DEF LocalStep, KeepResult, Proceed, ShortCircuit, StartCall, EndCall, Panic, Park,
     Wake, Report, Blocked, TypeOK
<1>4. \A v \in Workers \ {w} : Blocked(v)' => Blocked(v) /\ wake'[v] = wake[v]
  <2>1. \A v \in Workers \ {w} : wake'[v] = wake[v]
    BY <1>1 DEF LocalStep, KeepResult, Proceed, ShortCircuit, StartCall, EndCall, Panic, Park,
       Wake, Report, TypeOK
  <2> QED
    BY <2>1, LocalMoves DEF Blocked
<1>5. BlockedWillWake'
  BY <1>1, <1>2, <1>3, <1>4 DEF BlockedWillWake
<1>6. ExitMeansDrained'
  BY <1>1, <1>2, LocalMoves DEF ExitMeansDrained
<1> QED
  BY <1>5, <1>6

\* The steps of a worker that neither lease nor give back keep the invariant.
LEMMA LocalInv ==
  ASSUME IInv, NEW w \in Workers, LocalStep(w)
  PROVE  IInv'
BY LocalType, LocalShape, LocalPlaces, LocalCounts, LocalBudget, LocalResult, LocalWaits DEF IInv

-----------------------------------------------------------------------------
(* The counts of leases.                                                   *)

\* Sets of workers are finite.
LEMMA WorkersFinite ==
  ASSUME NEW S \in SUBSET Workers
  PROVE  /\ IsFiniteSet(S) /\ Cardinality(S) \in Nat
         /\ Cardinality(S) = 0 <=> S = {}
BY QueueAssumption, FS_Subset, FS_CardinalityType, FS_EmptySet

\* One more worker in a set of them.
LEMMA OneMore ==
  ASSUME NEW S \in SUBSET Workers, NEW w \in Workers \ S
  PROVE  Cardinality(S \cup {w}) = Cardinality(S) + 1
BY WorkersFinite, FS_AddElement

\* One worker fewer in a set of them.
LEMMA OneFewer ==
  ASSUME NEW S \in SUBSET Workers, NEW w \in S
  PROVE  Cardinality(S \ {w}) = Cardinality(S) - 1
BY WorkersFinite, FS_RemoveElement

\* The holders of a lane and of a provider.
LEMMA HolderSets ==
  /\ Holders \in SUBSET Workers
  /\ \A l : HoldersOn(l) \in SUBSET Workers
  /\ \A p : HoldersOf(p) \in SUBSET Workers
BY DEF Holders, HoldersOn, HoldersOf

\* acquire counts the lease where its holder is.
LEMMA AcquireCounts ==
  ASSUME TypeOK, InFlightExact, NEW w \in Workers, NEW u \in Units,
         unit[w] = NoUnit, unit' = [unit EXCEPT ![w] = u], held' = held + 1, acquire(u)
  PROVE  InFlightExact' /\ lane' \in [Lanes -> LaneStates] /\ inFlight' \in [Providers -> Nat]
<1> DEFINE l == LaneOf[u]
           p == ProviderOf[l]
<1>1. /\ l \in Lanes /\ u # NoUnit /\ lane \in [Lanes -> LaneStates]
      /\ inFlight \in [Providers -> Nat] /\ unit \in [Workers -> Units \cup {NoUnit}]
  <2>1. l \in Lanes /\ u # NoUnit
    BY QueueAssumption DEF Units, NoUnit
  <2>2. /\ lane \in [Lanes -> LaneStates]
        /\ inFlight \in [Providers -> Nat] /\ unit \in [Workers -> Units \cup {NoUnit}]
    BY DEF TypeOK, LaneStates
  <2> QED
    BY <2>1, <2>2
<1>2. w \notin Holders /\ Holders' = Holders \cup {w}
  BY <1>1 DEF Holders
<1>3. /\ w \notin HoldersOn(l)
      /\ \A m : HoldersOn(m)' = IF m = l THEN HoldersOn(m) \cup {w} ELSE HoldersOn(m)
  BY <1>1, <1>2 DEF Holders, HoldersOn
<1>4. /\ w \notin HoldersOf(p)
      /\ \A q : HoldersOf(q)' = IF q = p THEN HoldersOf(q) \cup {w} ELSE HoldersOf(q)
  BY <1>1, <1>2 DEF Holders, HoldersOf
<1>5. /\ Cardinality(Holders)' = Cardinality(Holders) + 1
      /\ Cardinality(HoldersOn(l) \cup {w}) = Cardinality(HoldersOn(l)) + 1
      /\ Cardinality(HoldersOf(p) \cup {w}) = Cardinality(HoldersOf(p)) + 1
  BY <1>2, <1>3, <1>4, HolderSets, OneMore
<1>6. CASE Capped(u)
  <2>1. /\ lane' = [lane EXCEPT ![l].inFlight = @ + 1]
        /\ inFlight' = [inFlight EXCEPT ![p] = @ + 1] /\ p \in Providers
    BY <1>6 DEF acquire, Capped, Keyed
  <2>2. /\ lane'[l].inFlight = lane[l].inFlight + 1
        /\ \A m \in Lanes \ {l} : lane'[m] = lane[m]
        /\ inFlight'[p] = inFlight[p] + 1 /\ \A q \in Providers \ {p} : inFlight'[q] = inFlight[q]
    BY <1>1, <2>1 DEF LaneStates
  <2>3. lane' \in [Lanes -> LaneStates] /\ inFlight' \in [Providers -> Nat]
    BY <1>1, <2>1 DEF LaneStates
  <2> HIDE DEF l, p
  <2>4. Throttled => \A m \in Lanes : Keyed(m) => lane'[m].inFlight = Cardinality(HoldersOn(m)')
    BY <1>3, <1>5, <2>2 DEF InFlightExact
  <2>5. Throttled => \A q \in Providers : inFlight'[q] = Cardinality(HoldersOf(q)')
    BY <1>4, <1>5, <2>2 DEF InFlightExact
  <2> QED
    BY <1>5, <2>3, <2>4, <2>5 DEF InFlightExact, Keyed
<1>7. CASE ~Capped(u)
  <2>1. lane' = lane /\ inFlight' = inFlight /\ (Throttled => ~Keyed(l) /\ p \notin Providers)
    BY <1>7 DEF acquire, throttleVars, Capped, Keyed
  <2>2. Throttled => \A m \in Lanes : Keyed(m) => HoldersOn(m)' = HoldersOn(m)
    BY <1>3, <2>1
  <2> QED
    BY <1>1, <1>4, <1>5, <2>1, <2>2 DEF InFlightExact, Keyed
<1> QED
  BY <1>6, <1>7

\* done takes the lease off the counts it was put on, whatever its result.
LEMMA DoneCounts ==
  ASSUME TypeOK, InFlightExact, NEW w \in Workers, NEW u \in Units, NEW r,
         unit[w] = u, unit' = [unit EXCEPT ![w] = NoUnit], held' = held - 1, done(u, r)
  PROVE  /\ InFlightExact' /\ held > 0 /\ held' \in Nat
         /\ lane' \in [Lanes -> LaneStates] /\ inFlight' \in [Providers -> Nat]
<1> DEFINE l == LaneOf[u]
           p == ProviderOf[l]
<1>1. /\ l \in Lanes /\ u # NoUnit /\ lane \in [Lanes -> LaneStates]
      /\ inFlight \in [Providers -> Nat] /\ unit \in [Workers -> Units \cup {NoUnit}]
  <2>1. l \in Lanes /\ u # NoUnit
    BY QueueAssumption DEF Units, NoUnit
  <2>2. /\ lane \in [Lanes -> LaneStates]
        /\ inFlight \in [Providers -> Nat] /\ unit \in [Workers -> Units \cup {NoUnit}]
    BY DEF TypeOK, LaneStates
  <2> QED
    BY <2>1, <2>2
<1>2. w \in Holders /\ Holders' = Holders \ {w}
  BY <1>1 DEF Holders
<1>3. /\ w \in HoldersOn(l)
      /\ \A m : HoldersOn(m)' = IF m = l THEN HoldersOn(m) \ {w} ELSE HoldersOn(m)
  BY <1>1, <1>2 DEF Holders, HoldersOn
<1>4. /\ w \in HoldersOf(p)
      /\ \A q : HoldersOf(q)' = IF q = p THEN HoldersOf(q) \ {w} ELSE HoldersOf(q)
  BY <1>1, <1>2 DEF Holders, HoldersOf
<1>5. /\ Cardinality(Holders)' = Cardinality(Holders) - 1
      /\ Cardinality(HoldersOn(l) \ {w}) = Cardinality(HoldersOn(l)) - 1
      /\ Cardinality(HoldersOf(p) \ {w}) = Cardinality(HoldersOf(p)) - 1
  BY <1>2, <1>3, <1>4, HolderSets, OneFewer
<1>6. /\ Cardinality(Holders) \in Nat \ {0} /\ Cardinality(HoldersOn(l)) \in Nat \ {0}
      /\ Cardinality(HoldersOf(p)) \in Nat \ {0}
  BY <1>2, <1>3, <1>4, HolderSets, WorkersFinite
<1>7. held = Cardinality(Holders)
  BY DEF InFlightExact
<1>8. CASE Capped(u)
  <2> DEFINE less == lessOne(lane[l])
  <2>1. /\ lane' = [lane EXCEPT ![l] = cappedBy(less, r)]
        /\ inFlight' = [inFlight EXCEPT ![p] = @ - 1] /\ p \in Providers /\ Throttled /\ Keyed(l)
    <3>1. lane' = [lane EXCEPT ![l] = cappedBy(less, r)]
      BY <1>8 DEF done
    <3> QED
      BY <1>8, <3>1 DEF done, Capped, Keyed
  <2>2. lane[l].inFlight \in Nat \ {0} /\ inFlight[p] \in Nat \ {0}
    BY <1>1, <1>6, <2>1 DEF InFlightExact
  <2>3. less \in LaneStates /\ less.inFlight = lane[l].inFlight - 1
    BY <1>1, <2>2 DEF LaneStates, lessOne
  <2>4. cappedBy(less, r) \in LaneStates /\ cappedBy(less, r).inFlight = lane[l].inFlight - 1
    BY <2>3, CappedType
  <2>5. /\ lane'[l].inFlight = lane[l].inFlight - 1
        /\ \A m \in Lanes \ {l} : lane'[m] = lane[m]
        /\ inFlight'[p] = inFlight[p] - 1 /\ \A q \in Providers \ {p} : inFlight'[q] = inFlight[q]
    BY <1>1, <2>1, <2>4
  <2>6. lane' \in [Lanes -> LaneStates] /\ inFlight' \in [Providers -> Nat]
    BY <1>1, <2>1, <2>2, <2>4
  <2> HIDE DEF l, p, less
  <2>7. \A m \in Lanes : Keyed(m) => lane'[m].inFlight = Cardinality(HoldersOn(m)')
    BY <1>3, <1>5, <2>1, <2>5 DEF InFlightExact
  <2>8. \A q \in Providers : inFlight'[q] = Cardinality(HoldersOf(q)')
    BY <1>4, <1>5, <2>1, <2>5 DEF InFlightExact
  <2> QED
    BY <1>5, <1>6, <1>7, <2>6, <2>7, <2>8 DEF InFlightExact, Keyed
<1>9. CASE ~Capped(u)
  <2>1. lane' = lane /\ inFlight' = inFlight /\ (Throttled => ~Keyed(l) /\ p \notin Providers)
    BY <1>9 DEF done, throttleVars, Capped, Keyed
  <2>2. Throttled => \A m \in Lanes : Keyed(m) => HoldersOn(m)' = HoldersOn(m)
    BY <1>3, <2>1
  <2> QED
    BY <1>1, <1>4, <1>5, <1>6, <1>7, <2>1, <2>2 DEF InFlightExact, Keyed
<1> QED
  BY <1>8, <1>9

-----------------------------------------------------------------------------
(* Giving a unit back.                                                     *)

\* What the two ways of giving a unit back have in common: the counts go down
\* and everyone who waits is woken.
LEMMA GiveBackEffect ==
  ASSUME IInv, NEW w \in Workers, pc[w] \in {"requeue", "release"}, GiveBack(w)
  PROVE  /\ unit[w] \in Units /\ unit' = [unit EXCEPT ![w] = NoUnit]
         /\ held > 0 /\ held' \in Nat /\ InFlightExact'
         /\ lane' \in [Lanes -> LaneStates] /\ inFlight' \in [Providers -> Nat]
         /\ pc'[w] = "lease"
          /\ \A v \in Workers \ {w} : pc'[v] = IF Blocked(v) THEN "lease" ELSE pc[v]
         /\ \A v \in Workers : ~Blocked(v)'
         /\ pc' \in [Workers -> {"lease", "parking", "waiting", "leased", "starting", "calling",
                                 "requeue", "resolved", "release", "exited"}]
         /\ wake' \in [Workers -> Timers] /\ listens' \in [Workers -> BOOLEAN]
<1>1. TypeOK /\ InFlightExact /\ unit[w] \in Units
  BY CallingHolds DEF IInv, Holding
<1>2. held' = held - 1 /\ done(unit[w], result[unit[w]]) /\ unit' = [unit EXCEPT ![w] = NoUnit]
  BY DEF GiveBack
<1>3. pc' = [v \in Workers |-> IF v = w \/ Blocked(v) THEN "lease" ELSE pc[v]]
  BY DEF GiveBack, signal
<1>4. \A v \in Workers : ~Blocked(v)'
  BY <1>3 DEF Blocked
<1>5. pc' \in [Workers -> {"lease", "parking", "waiting", "leased", "starting", "calling",
                           "requeue", "resolved", "release", "exited"}]
  BY <1>1, <1>3 DEF TypeOK
<1>6. wake' \in [Workers -> Timers] /\ listens' \in [Workers -> BOOLEAN]
  BY <1>1 DEF GiveBack, signal, TypeOK, Timers
<1>7. /\ InFlightExact' /\ held > 0 /\ held' \in Nat
      /\ lane' \in [Lanes -> LaneStates] /\ inFlight' \in [Providers -> Nat]
  BY <1>1, <1>2, DoneCounts
<1> QED
  BY <1>1, <1>2, <1>3, <1>4, <1>5, <1>6, <1>7

\* The worker that gave its unit back has none, the others keep theirs.
LEMMA GiveBackShape ==
  ASSUME IInv, NEW w \in Workers, pc[w] \in {"requeue", "release"}, GiveBack(w),
         reported' = reported
  PROVE  /\ Shape'
         /\ \A v \in Workers \ {w} : unit'[v] = unit[v] /\ (unit[v] # NoUnit => pc'[v] = pc[v])
         /\ unit'[w] = NoUnit /\ unit[w] # NoUnit /\ unit[w] \in Units
<1>1. TypeOK /\ Shape
  BY DEF IInv
<1>2. unit'[w] = NoUnit /\ unit[w] \in Units /\ \A v \in Workers \ {w} : unit'[v] = unit[v]
  BY <1>1, GiveBackEffect DEF TypeOK
<1>3. unit[w] # NoUnit
  BY <1>2 DEF Units, NoUnit
<1>4. \A v \in Workers : Blocked(v) => unit[v] = NoUnit
  BY <1>1 DEF Shape, Blocked, Holding
<1>5. /\ \A v \in Workers \ {w} : pc'[v] = IF Blocked(v) THEN "lease" ELSE pc[v]
      /\ pc'[w] = "lease"
  BY GiveBackEffect
<1> QED
  BY <1>1, <1>2, <1>3, <1>4, <1>5 DEF Shape, Holding

\* A unit in its backoff is one of the delayed ones.
LEMMA AppendDelayed ==
  ASSUME TypeOK, NEW u \in Units, NEW n \in Nat,
         delayed' = Append(delayed, [unit |-> u, left |-> n])
  PROVE  /\ delayed' \in Seq([unit : Units, left : Nat])
         /\ \A x : Listed(DelayedUnits, x)' <=> Listed(DelayedUnits, x) \/ x = u
         /\ Distinct(DelayedUnits) /\ ~Listed(DelayedUnits, u) => Distinct(DelayedUnits)'
<1> DEFINE S == [unit : Units, left : Nat]
           e == [unit |-> u, left |-> n]
<1>1. delayed \in Seq(S) /\ e \in S
  BY DEF TypeOK
<1>2. /\ delayed' \in Seq(S) /\ Len(delayed') = Len(delayed) + 1
      /\ \A i \in 1..Len(delayed) : delayed'[i] = delayed[i]
      /\ delayed'[Len(delayed) + 1] = e
  BY <1>1, AppendProperties
<1>3. /\ Len(delayed) \in Nat /\ DOMAIN delayed = 1..Len(delayed)
      /\ DOMAIN delayed' = 1..(Len(delayed) + 1)
  BY <1>1, <1>2, LenProperties
<1>4. /\ DOMAIN DelayedUnits = 1..Len(delayed) /\ DOMAIN DelayedUnits' = 1..(Len(delayed) + 1)
      /\ \A i \in 1..Len(delayed) : DelayedUnits'[i] = DelayedUnits[i]
      /\ DelayedUnits'[Len(delayed) + 1] = u
  BY <1>2, <1>3 DEF DelayedUnits
<1> HIDE DEF S, e
<1>5. \A x : Listed(DelayedUnits, x)' <=> Listed(DelayedUnits, x) \/ x = u
  BY <1>3, <1>4 DEF Listed
<1>6. Distinct(DelayedUnits) /\ ~Listed(DelayedUnits, u) => Distinct(DelayedUnits)'
  BY <1>3, <1>4 DEF Listed, Distinct
<1> QED
  BY <1>2, <1>5, <1>6 DEF S

\* Giving a unit back wakes everyone, and no worker has left before.
LEMMA GiveBackWaits ==
  ASSUME IInv, NEW w \in Workers, pc[w] \in {"requeue", "release"}, GiveBack(w)
  PROVE  BlockedWillWake' /\ ExitMeansDrained'
<1>1. BlockedWillWake'
  BY GiveBackEffect DEF BlockedWillWake
<1>2. \A v \in Workers : pc[v] # "exited"
  <2>1. held \in Nat /\ held > 0
    BY GiveBackEffect DEF IInv, TypeOK
  <2> QED
    BY <2>1 DEF IInv, ExitMeansDrained
<1>3. \A v \in Workers : pc'[v] # "exited"
  BY <1>2, GiveBackEffect
<1> QED
  BY <1>1, <1>3 DEF ExitMeansDrained

\* A requeue moves its unit to the delayed ones and keeps the invariant.
LEMMA RequeueInv ==
  ASSUME IInv, NEW w \in Workers, requeue(w)
  PROVE  IInv'
<1> DEFINE u == unit[w]
<1>1. /\ pc[w] = "requeue" /\ GiveBack(w)
      /\ delayed' = Append(delayed, [unit |-> u, left |-> backoff[w]])
      /\ backoff' = [backoff EXCEPT ![w] = 0]
      /\ UNCHANGED <<pending, started, reported, cancelled, retry, result, circuit>>
  BY DEF requeue, hookVars
<1>2. TypeOK /\ Shape /\ Places /\ Budgeted /\ Resulted
  BY DEF IInv
<1>3. /\ Shape'
      /\ \A v \in Workers \ {w} : unit'[v] = unit[v] /\ (unit[v] # NoUnit => pc'[v] = pc[v])
      /\ unit'[w] = NoUnit /\ u # NoUnit /\ u \in Units
  BY <1>1, GiveBackShape
<1>4. backoff[w] \in Nat
  BY <1>2 DEF TypeOK
<1>5. /\ delayed' \in Seq([unit : Units, left : Nat])
      /\ \A x : Listed(DelayedUnits, x)' <=> Listed(DelayedUnits, x) \/ x = u
      /\ Distinct(DelayedUnits) /\ ~Listed(DelayedUnits, u) => Distinct(DelayedUnits)'
  BY <1>1, <1>2, <1>3, <1>4, AppendDelayed
<1>6. TypeOK'
  <2>1. backoff' \in [Workers -> Nat] /\ unit' \in [Workers -> Units \cup {NoUnit}]
    BY <1>1, <1>2, GiveBackEffect DEF TypeOK
  <2> QED
    BY <1>1, <1>2, <1>5, <2>1, GiveBackEffect DEF TypeOK, LaneStates
<1>7. \A x \in Units : InHand(x)' <=> InHand(x) /\ x # u
  BY <1>2, <1>3 DEF InHand, Shape, Units, NoUnit
<1>8. InHand(u)
  BY <1>1 DEF InHand
<1>9. Places'
  <2>1. Apart(u) /\ ~Listed(DelayedUnits, u) /\ ~Listed(pending, u) /\ reported[u] = 0
    BY <1>2, <1>3, <1>8 DEF Places, Apart
  <2>2. \A x \in Units : Somewhere(x)' /\ Apart(x)'
    BY <1>1, <1>2, <1>5, <1>7, <2>1 DEF Places, Somewhere, Apart
  <2> QED
    BY <1>1, <1>2, <1>5, <2>1, <2>2 DEF Places
<1>10. Budgeted'
  <2>1. Callable(u)
    BY <1>1 DEF Callable
  <2>2. ASSUME NEW x \in Units \ {u}, Callable(x)' PROVE Callable(x)
    <3>1. Listed(pending, x)' => Listed(pending, x)
      BY <1>1 DEF Listed
    <3>2. Listed(DelayedUnits, x)' => Listed(DelayedUnits, x)
      BY <1>5
    <3>3. x # NoUnit
      BY DEF Units, NoUnit
    <3>4. ASSUME NEW v \in Workers, unit'[v] = x
          PROVE  unit[v] = x /\ pc'[v] = pc[v]
      BY <1>3, <3>3, <3>4
    <3> QED
      BY <2>2, <3>1, <3>2, <3>4 DEF Callable
  <2> QED
    BY <1>1, <1>2, <1>3, <2>1, <2>2 DEF Budgeted, calls
<1>11. Resulted'
  <2>1. \A v \in Workers : pc'[v] = "resolved" => pc[v] = "resolved" /\ unit'[v] = unit[v]
    BY <1>1, <1>3, GiveBackEffect
  <2> QED
    BY <1>1, <1>2, <2>1 DEF Resulted
<1> QED
  BY <1>1, <1>3, <1>6, <1>9, <1>10, <1>11, GiveBackEffect, GiveBackWaits DEF IInv

\* So does the release of a reported unit.
LEMMA ReleaseInv ==
  ASSUME IInv, NEW w \in Workers, release(w)
  PROVE  IInv'
<1> DEFINE u == unit[w]
<1>1. /\ pc[w] = "release" /\ GiveBack(w)
      /\ UNCHANGED <<pending, delayed, backoff, started, reported, cancelled, retry, result,
                     circuit>>
  BY DEF release, hookVars
<1>2. TypeOK /\ Shape /\ Places /\ Budgeted /\ Resulted
  BY DEF IInv
<1>3. /\ Shape'
      /\ \A v \in Workers \ {w} : unit'[v] = unit[v] /\ (unit[v] # NoUnit => pc'[v] = pc[v])
      /\ unit'[w] = NoUnit /\ u # NoUnit /\ u \in Units
  BY <1>1, GiveBackShape
<1>4. TypeOK'
  <2>1. unit' \in [Workers -> Units \cup {NoUnit}]
    BY <1>1, <1>2, GiveBackEffect, ZenonT(40) DEF TypeOK
  <2> QED
    BY <1>1, <1>2, <2>1, GiveBackEffect, ZenonT(40) DEF TypeOK, LaneStates
<1>5. \A x \in Units : InHand(x)' <=> InHand(x)
  BY <1>1, <1>2, <1>3 DEF InHand, Shape, Units, NoUnit
<1>6. DelayedUnits' = DelayedUnits
  BY <1>1 DEF DelayedUnits
<1>7. Places'
  BY <1>1, <1>2, <1>5, <1>6 DEF Places, Somewhere, Apart
<1>8. Budgeted'
  <2>1. \A x \in Units : Callable(x)' => Callable(x)
    BY <1>1, <1>3, <1>6 DEF Callable, Units, NoUnit
  <2> QED
    BY <1>1, <1>2, <2>1 DEF Budgeted, calls
<1>9. Resulted'
  <2>1. \A v \in Workers : pc'[v] = "resolved" => pc[v] = "resolved" /\ unit'[v] = unit[v]
    BY <1>1, <1>3, GiveBackEffect
  <2> QED
    BY <1>1, <1>2, <2>1 DEF Resulted
<1> QED
  BY <1>1, <1>3, <1>4, <1>7, <1>8, <1>9, GiveBackEffect, GiveBackWaits DEF IInv

-----------------------------------------------------------------------------
(* Leasing: promote, take and the wait for a wakeup.                       *)

Delays == [unit : Units, left : Nat]

\* The units promote moves behind the pending ones are the ready ones.
LEMMA PromoteReady ==
  ASSUME TypeOK
  PROVE  /\ readyUnits \in Seq(Units)
         /\ \A u : Listed(readyUnits, u) <=>
                     \E k \in DOMAIN delayed : Ready(delayed[k]) /\ delayed[k].unit = u
         /\ Distinct(DelayedUnits) => Distinct(readyUnits)
<1> DEFINE K == {k \in DOMAIN delayed : Ready(delayed[k])}
           s == At(delayed, K)
           n == Cardinality(K)
<1>1. delayed \in Seq(Delays) /\ K \in SUBSET DOMAIN delayed
  BY DEF TypeOK, Delays
<1>2. readyUnits = [k \in DOMAIN s |-> s[k].unit]
  BY DEF readyUnits
<1>3. \A k \in K : k \in DOMAIN delayed /\ Ready(delayed[k]) /\ delayed[k] \in Delays
  BY <1>1
<1>4. \A k \in DOMAIN delayed : Ready(delayed[k]) => k \in K
  OBVIOUS
<1> HIDE DEF K
<1>5. /\ s \in Seq(Delays) /\ Len(s) = n /\ n \in Nat /\ DOMAIN s = 1..n
      /\ \A i \in 1..n : nth(K, i) \in K /\ s[i] = delayed[nth(K, i)]
      /\ \A i, j \in 1..n : nth(K, i) = nth(K, j) => i = j
      /\ \A k \in K : \E i \in 1..n : nth(K, i) = k
  BY <1>1, AtPositions
<1> HIDE DEF s, n
<1>6. readyUnits \in Seq(Units)
  <2>1. \A i \in 1..n : s[i].unit \in Units
    BY <1>3, <1>5 DEF Delays
  <2>2. readyUnits \in [1..n -> Units]
    BY <1>2, <1>5, <2>1
  <2> QED
    BY <1>5, <2>2
<1>7. DOMAIN readyUnits = 1..n /\ \A i \in 1..n : readyUnits[i] = delayed[nth(K, i)].unit
  BY <1>2, <1>5
<1>8. \A u : Listed(readyUnits, u) <=>
               \E k \in DOMAIN delayed : Ready(delayed[k]) /\ delayed[k].unit = u
  BY <1>3, <1>4, <1>5, <1>7 DEF Listed
<1>9. Distinct(DelayedUnits) => Distinct(readyUnits)
  BY <1>3, <1>5, <1>7 DEF Distinct, DelayedUnits
<1> QED
  BY <1>6, <1>8, <1>9

\* The units it keeps are the others, with their backoffs.
LEMMA PromoteKept ==
  ASSUME TypeOK
  PROVE  /\ keptDelayed \in Seq(Delays)
         /\ \A i \in DOMAIN keptDelayed :
              \E k \in DOMAIN delayed : ~Ready(delayed[k]) /\ keptDelayed[i] = delayed[k]
         /\ \A k \in DOMAIN delayed :
              ~Ready(delayed[k]) => \E i \in DOMAIN keptDelayed : keptDelayed[i] = delayed[k]
         /\ Distinct(DelayedUnits) =>
              \A i, j \in DOMAIN keptDelayed : keptDelayed[i].unit = keptDelayed[j].unit => i = j
<1> DEFINE K == {k \in DOMAIN delayed : NotReady(delayed[k])}
           n == Cardinality(K)
<1>1. delayed \in Seq(Delays) /\ K \in SUBSET DOMAIN delayed /\ keptDelayed = At(delayed, K)
  BY DEF TypeOK, Delays, keptDelayed
<1>2. \A k : k \in K <=> k \in DOMAIN delayed /\ ~Ready(delayed[k])
  BY DEF NotReady
<1> HIDE DEF K
<1>3. /\ keptDelayed \in Seq(Delays) /\ n \in Nat /\ DOMAIN keptDelayed = 1..n
      /\ \A i \in 1..n : nth(K, i) \in K /\ keptDelayed[i] = delayed[nth(K, i)]
      /\ \A i, j \in 1..n : nth(K, i) = nth(K, j) => i = j
      /\ \A k \in K : \E i \in 1..n : nth(K, i) = k
  BY <1>1, AtPositions
<1> HIDE DEF n
<1>4. Distinct(DelayedUnits) =>
        \A i, j \in DOMAIN keptDelayed : keptDelayed[i].unit = keptDelayed[j].unit => i = j
  BY <1>2, <1>3 DEF Distinct, DelayedUnits
<1> QED
  BY <1>2, <1>3, <1>4

Queue == pending \o readyUnits

\* After promote the queue has the pending and the ready units, each once.
LEMMA QueueUnits ==
  ASSUME TypeOK, Places
  PROVE  /\ Queue \in Seq(Units) /\ Distinct(Queue)
         /\ \A u : Listed(Queue, u) <=> Listed(pending, u) \/ Listed(readyUnits, u)
<1>1. pending \in Seq(Units) /\ readyUnits \in Seq(Units)
  BY PromoteReady DEF TypeOK
<1> DEFINE m == Len(pending)
           n == Len(readyUnits)
<1>2. m \in Nat /\ n \in Nat /\ DOMAIN pending = 1..m /\ DOMAIN readyUnits = 1..n
  BY <1>1, LenProperties
<1>3. /\ Queue \in Seq(Units) /\ Len(Queue) = m + n
      /\ \A i \in 1..(m + n) : Queue[i] = IF i <= m THEN pending[i] ELSE readyUnits[i - m]
  BY <1>1, ConcatProperties DEF Queue
<1>4. DOMAIN Queue = 1..(m + n)
  BY <1>3, LenProperties
<1> HIDE DEF m, n
<1>5. \A u : Listed(Queue, u) <=> Listed(pending, u) \/ Listed(readyUnits, u)
  <2>1. \A i \in 1..m : i \in 1..(m + n) /\ Queue[i] = pending[i]
    BY <1>2, <1>3
  <2>2. \A i \in 1..n : m + i \in 1..(m + n) /\ Queue[m + i] = readyUnits[i]
    BY <1>2, <1>3
  <2>3. \A i \in 1..(m + n) : i \in 1..m \/ i - m \in 1..n
    BY <1>2
  <2> QED
    BY <1>2, <1>3, <1>4, <2>1, <2>2, <2>3 DEF Listed
<1>6. \A u : ~(Listed(pending, u) /\ Listed(readyUnits, u))
  <2> SUFFICES ASSUME NEW u, Listed(pending, u), Listed(readyUnits, u)
               PROVE  FALSE
    OBVIOUS
  <2>1. u \in Units
    BY <1>1 DEF Listed
  <2>2. Listed(DelayedUnits, u)
    BY PromoteReady DEF Listed, DelayedUnits
  <2> QED
    BY <2>1, <2>2 DEF Places, Apart
<1>7. Distinct(pending) /\ Distinct(readyUnits)
  BY PromoteReady DEF Places
<1>8. Distinct(Queue)
  <2> SUFFICES ASSUME NEW i \in 1..(m + n), NEW j \in 1..(m + n), Queue[i] = Queue[j]
               PROVE  i = j
    BY <1>4 DEF Distinct
  <2>1. CASE i <= m /\ j <= m
    BY <1>2, <1>3, <1>7, <2>1 DEF Distinct
  <2>2. CASE ~(i <= m) /\ ~(j <= m)
    <3>1. i - m \in 1..n /\ j - m \in 1..n /\ readyUnits[i - m] = readyUnits[j - m]
      BY <1>2, <1>3, <2>2
    <3>2. i - m = j - m
      BY <1>2, <1>7, <3>1 DEF Distinct
    <3> QED
      BY <1>2, <3>2
  <2>3. ASSUME NEW a \in 1..(m + n), NEW b \in 1..(m + n), a <= m, ~(b <= m), Queue[a] = Queue[b]
        PROVE  FALSE
    <3>1. a \in 1..m /\ b - m \in 1..n /\ Queue[a] = pending[a] /\ Queue[a] = readyUnits[b - m]
      BY <1>2, <1>3, <2>3
    <3>2. Listed(pending, Queue[a]) /\ Listed(readyUnits, Queue[a])
      BY <1>2, <3>1 DEF Listed
    <3> QED
      BY <1>6, <3>2
  <2> QED
    BY <2>1, <2>2, <2>3
<1> QED
  BY <1>3, <1>5, <1>8

\* Taking one unit leaves the others, each once.
LEMMA WithoutUnits ==
  ASSUME NEW s \in Seq(Units), Distinct(s), NEW k \in DOMAIN s
  PROVE  /\ Without(s, k) \in Seq(Units) /\ Distinct(Without(s, k)) /\ s[k] \in Units
         /\ \A u : Listed(Without(s, k), u) <=> Listed(s, u) /\ u # s[k]
<1> DEFINE t == Without(s, k)
           n == Len(s)
<1>1. n \in Nat /\ DOMAIN s = 1..n /\ k \in 1..n /\ s[k] \in Units
  BY LenProperties, ElementOfSeq
<1>2. /\ t \in Seq(Units) /\ Len(t) = n - 1
      /\ \A i \in 1..(n - 1) : t[i] = s[IF i < k THEN i ELSE i + 1]
  BY WithoutElements
<1>3. DOMAIN t = 1..(n - 1)
  BY <1>2, LenProperties
<1> HIDE DEF t, n
<1>4. \A i \in 1..(n - 1) : \E j \in 1..n \ {k} : t[i] = s[j] /\ i = IF j < k THEN j ELSE j - 1
  <2> SUFFICES ASSUME NEW i \in 1..(n - 1)
               PROVE  \E j \in 1..n \ {k} : t[i] = s[j] /\ i = IF j < k THEN j ELSE j - 1
    OBVIOUS
  <2>1. CASE i < k
    BY <1>1, <1>2, <2>1
  <2>2. CASE ~(i < k)
    <3>1. i + 1 \in 1..n \ {k} /\ t[i] = s[i + 1] /\ ~(i + 1 < k) /\ i = (i + 1) - 1
      BY <1>1, <1>2, <2>2
    <3> QED
      BY <3>1
  <2> QED
    BY <2>1, <2>2
<1>5. \A j \in 1..n \ {k} : \E i \in 1..(n - 1) : t[i] = s[j]
  <2> SUFFICES ASSUME NEW j \in 1..n \ {k}
               PROVE  \E i \in 1..(n - 1) : t[i] = s[j]
    OBVIOUS
  <2>1. CASE j < k
    BY <1>1, <1>2, <2>1
  <2>2. CASE ~(j < k)
    <3>1. j - 1 \in 1..(n - 1) /\ ~(j - 1 < k) /\ (j - 1) + 1 = j
      BY <1>1, <2>2
    <3> QED
      BY <1>2, <3>1
  <2> QED
    BY <2>1, <2>2
<1>6. Distinct(t)
  <2> SUFFICES ASSUME NEW i \in 1..(n - 1), NEW j \in 1..(n - 1), t[i] = t[j]
               PROVE  i = j
    BY <1>3 DEF Distinct
  <2>1. PICK a \in 1..n \ {k} : t[i] = s[a] /\ i = IF a < k THEN a ELSE a - 1
    BY <1>4
  <2>2. PICK b \in 1..n \ {k} : t[j] = s[b] /\ j = IF b < k THEN b ELSE b - 1
    BY <1>4
  <2>3. a = b
    BY <1>1, <2>1, <2>2 DEF Distinct
  <2> QED
    BY <2>1, <2>2, <2>3
<1>7. \A u : Listed(t, u) <=> Listed(s, u) /\ u # s[k]
  BY <1>1, <1>3, <1>4, <1>5, ZenonT(40) DEF Listed, Distinct
<1> QED
  BY <1>1, <1>2, <1>6, <1>7 DEF t

\* A set of naturals that is not empty has a least member.
LEMMA LeastMember ==
  ASSUME NEW K \in SUBSET Nat, K # {}
  PROVE  \E k \in K : \A j \in K : k <= j
<1>1. IsWellFoundedOn(OpToRel(<, Nat), Nat)
  BY NatLessThanWellFounded
<1>2. PICK k \in K : \A j \in K : ~(<<j, k>> \in OpToRel(<, Nat))
  BY <1>1, WFMin
<1>3. \A j \in K : ~(j < k)
  BY <1>2 DEF OpToRel
<1>4. k \in Nat /\ \A j \in K : j \in Nat
  OBVIOUS
<1> QED
  BY <1>3, <1>4

\* take finds a unit unless the queue is empty or the throttle admits none.
LEMMA TakeFinds ==
  ASSUME NEW s \in Seq(Units), NEW all
  PROVE  /\ takeable(s, all) \subseteq DOMAIN s
         /\ (Throttled /\ ~all) => \A k \in takeable(s, all) : admit(LaneOf[s[k]])
         /\ takeable(s, all) = {} =>
              s = <<>> \/ (Throttled /\ ~all /\ \A k \in DOMAIN s : ~admit(LaneOf[s[k]]))
<1>1. DOMAIN s \in SUBSET Nat /\ (DOMAIN s = {} => s = <<>>)
  <2>1. Len(s) \in Nat /\ DOMAIN s = 1..Len(s)
    BY LenProperties
  <2>2. DOMAIN s = {} => Len(s) = 0
    BY <2>1
  <2>3. s # <<>> => Len(s) # 0
    BY EmptySeq
  <2> QED
    BY <2>1, <2>2, <2>3
<1>2. Admitted(s) \subseteq DOMAIN s /\ \A k \in Admitted(s) : admit(LaneOf[s[k]])
  BY DEF Admitted
<1>3. Preferred(s) \subseteq Admitted(s) /\ (Preferred(s) = {} => Admitted(s) = {})
  BY DEF Preferred
<1>4. \A K \in SUBSET DOMAIN s : First(K) \subseteq K /\ (First(K) = {} => K = {})
  BY <1>1, LeastMember DEF First
<1>5. CASE Throttled /\ ~all
  <2>1. takeable(s, all) = First(Preferred(s))
    BY <1>5 DEF takeable
  <2> QED
    BY <1>2, <1>3, <1>4, <1>5, <2>1 DEF Admitted
<1>6. CASE ~(Throttled /\ ~all)
  <2>1. takeable(s, all) = First(DOMAIN s)
    BY <1>6 DEF takeable
  <2> QED
    BY <1>1, <1>4, <1>6, <2>1
<1> QED
  BY <1>5, <1>6

\* A lane's cap is never below one.
LEMMA CapPositive ==
  ASSUME TypeOK, NEW l \in Lanes
  PROVE  capFor(l) \in Nat \ {0}
<1>1. lane[l].limit \in 0..Ceiling
  BY DEF TypeOK
<1> DEFINE full == IF lane[l].limit > 0 THEN lane[l].limit ELSE Ceiling
<1>2. full \in Nat \ {0}
  BY <1>1, CeilingPositive
<1>3. larger(1, full \div 2) \in Nat \ {0}
  BY <1>2 DEF larger
<1>4. capFor(l) \in {1, larger(1, full \div 2), full}
  BY DEF capFor
<1> HIDE DEF full
<1> QED
  BY <1>2, <1>3, <1>4

\* A lane the throttle holds back has a unit of its provider held.
LEMMA RefusedHasHolder ==
  ASSUME TypeOK, InFlightExact, Throttled, NEW l \in Lanes, ~admit(l)
  PROVE  HoldersOf(ProviderOf[l]) # {}
<1>1. /\ Keyed(l) /\ ProviderOf[l] \in Providers
      /\ \/ ~(inFlight[ProviderOf[l]] < 1)
         \/ ~(lane[l].inFlight < capFor(l))
  BY DEF admit, Keyed
<1>2. /\ inFlight[ProviderOf[l]] = Cardinality(HoldersOf(ProviderOf[l]))
      /\ lane[l].inFlight = Cardinality(HoldersOn(l))
  BY <1>1 DEF InFlightExact
<1>3. HoldersOn(l) \subseteq HoldersOf(ProviderOf[l])
  BY DEF HoldersOn, HoldersOf
<1>4. CASE ~(inFlight[ProviderOf[l]] < 1)
  BY <1>2, <1>4, HolderSets, WorkersFinite
<1>5. CASE ~(lane[l].inFlight < capFor(l))
  <2>1. Cardinality(HoldersOn(l)) # 0
    BY <1>2, <1>5, CapPositive, HolderSets, WorkersFinite
  <2> QED
    BY <1>3, <2>1, HolderSets, WorkersFinite
<1> QED
  BY <1>1, <1>4, <1>5

\* A sequence without positions is empty, and the other way round.
LEMMA EmptyDomain ==
  ASSUME NEW S, NEW s \in Seq(S)
  PROVE  s = <<>> <=> DOMAIN s = {}
<1>1. Len(s) \in Nat /\ DOMAIN s = 1..Len(s)
  BY LenProperties
<1>2. s # <<>> => Len(s) # 0
  BY EmptySeq
<1>3. s = <<>> => Len(s) = 0
  BY EmptySeq
<1>4. 1..0 = {}
  OBVIOUS
<1>5. Len(s) # 0 => 1 \in 1..Len(s)
  BY <1>1
<1> QED
  BY <1>1, <1>2, <1>3, <1>4, <1>5, Zenon

\* promote splits the delayed units into ready and kept ones.
LEMMA DelayedSplit ==
  ASSUME TypeOK, Places, delayed' = keptDelayed
  PROVE  /\ delayed' \in Seq(Delays) /\ Distinct(DelayedUnits)'
         /\ \A x : Listed(DelayedUnits, x) <=> Listed(readyUnits, x) \/ Listed(DelayedUnits, x)'
         /\ \A x : ~(Listed(readyUnits, x) /\ Listed(DelayedUnits, x)')
         /\ \A i \in DOMAIN delayed' : \E k \in DOMAIN delayed : delayed'[i] = delayed[k]
         /\ delayed # <<>> => delayed' # <<>> \/ Queue # <<>>
<1>1. Distinct(DelayedUnits)
  BY DEF Places
<1>2. /\ DOMAIN DelayedUnits = DOMAIN delayed
      /\ \A k \in DOMAIN delayed : DelayedUnits[k] = delayed[k].unit
      /\ DOMAIN DelayedUnits' = DOMAIN delayed'
      /\ \A k \in DOMAIN delayed' : DelayedUnits'[k] = delayed'[k].unit
  BY DEF DelayedUnits
<1>3. Distinct(DelayedUnits)'
  BY <1>1, <1>2, PromoteKept DEF Distinct
<1>4. \A x : Listed(DelayedUnits, x)' <=>
               \E k \in DOMAIN delayed : ~Ready(delayed[k]) /\ delayed[k].unit = x
  BY <1>2, PromoteKept DEF Listed
<1>5. \A x : Listed(readyUnits, x) <=>
               \E k \in DOMAIN delayed : Ready(delayed[k]) /\ delayed[k].unit = x
  BY PromoteReady
<1>6. \A x : Listed(DelayedUnits, x) <=> \E k \in DOMAIN delayed : delayed[k].unit = x
  BY <1>2 DEF Listed
<1>7. \A x : Listed(DelayedUnits, x) <=> Listed(readyUnits, x) \/ Listed(DelayedUnits, x)'
  BY <1>4, <1>5, <1>6
<1>8. \A x : ~(Listed(readyUnits, x) /\ Listed(DelayedUnits, x)')
  BY <1>1, <1>2, <1>4, <1>5 DEF Distinct
<1>9. /\ delayed' \in Seq(Delays)
      /\ \A i \in DOMAIN delayed' : \E k \in DOMAIN delayed : delayed'[i] = delayed[k]
  BY PromoteKept
<1>10. delayed # <<>> => delayed' # <<>> \/ Queue # <<>>
  <2> SUFFICES ASSUME delayed # <<>>, delayed' = <<>>
               PROVE  Queue # <<>>
    OBVIOUS
  <2>1. delayed \in Seq(Delays)
    BY DEF TypeOK, Delays
  <2>2. PICK k \in DOMAIN delayed : TRUE
    BY <2>1, EmptyDomain
  <2>3. DOMAIN delayed' = {}
    BY <1>9, EmptyDomain
  <2>4. Listed(readyUnits, delayed[k].unit)
    <3>1. \A y : ~Listed(DelayedUnits, y)'
      BY <1>2, <2>3 DEF Listed
    <3> QED
      BY <1>6, <1>7, <2>2, <3>1
  <2>5. Listed(Queue, delayed[k].unit) /\ Queue \in Seq(Units)
    BY <2>4, QueueUnits
  <2> QED
    BY <2>5, EmptyDomain DEF Listed
<1> QED
  BY <1>3, <1>7, <1>8, <1>9, <1>10

\* What every lease does first.
LEMMA LeaseEffect ==
  ASSUME NEW w \in Workers, Lease(w)
  PROVE  /\ pc[w] = "lease" /\ delayed' = keptDelayed
         /\ UNCHANGED <<backoff, listens, retry, result, circuit, started, reported>>
         /\ \E all \in {cancelled, TRUE} :
              /\ cancelled' = all
              /\ LeaseUnit(w, Queue, all) \/ LeaseNone(w, Queue, keptDelayed, all)
BY DEF Lease, Queue, hookVars

\* A timer set to the first delayed unit is a natural and not later than any.
LEMMA NextReadyLeast ==
  ASSUME NEW s \in Seq(Delays), s # <<>>
  PROVE  nextReady(s) \in Nat /\ \A k \in DOMAIN s : nextReady(s) <= s[k].left
<1> DEFINE L == {s[k].left : k \in DOMAIN s}
<1>1. \A k \in DOMAIN s : s[k] \in Delays
  BY LenProperties, ElementOfSeq
<1>2. L \in SUBSET Nat
  BY <1>1 DEF Delays
<1>3. L # {}
  BY EmptyDomain
<1>4. \E n \in L : \A k \in DOMAIN s : n <= s[k].left
  <2>1. \A k \in DOMAIN s : s[k].left \in L
    OBVIOUS
  <2> HIDE DEF L
  <2>2. PICK n \in L : \A m \in L : n <= m
    BY <1>2, <1>3, LeastMember
  <2> QED
    BY <2>1, <2>2
<1>5. nextReady(s) \in L /\ \A k \in DOMAIN s : nextReady(s) <= s[k].left
  BY <1>4 DEF nextReady
<1> QED
  BY <1>2, <1>5

\* A lease that takes a unit keeps the invariant.
LEMMA LeaseUnitInv ==
  ASSUME IInv, NEW w \in Workers, Lease(w), NEW all \in BOOLEAN, cancelled' = all,
         LeaseUnit(w, Queue, all)
  PROVE  IInv'
<1>1. TypeOK /\ Shape /\ Places /\ InFlightExact /\ Budgeted /\ Resulted
      /\ BlockedWillWake /\ ExitMeansDrained
  BY DEF IInv
<1>2. /\ pc[w] = "lease" /\ delayed' = keptDelayed
      /\ UNCHANGED <<backoff, listens, retry, result, circuit, started, reported>>
  BY LeaseEffect
<1>3. Queue \in Seq(Units) /\ Distinct(Queue)
      /\ \A u : Listed(Queue, u) <=> Listed(pending, u) \/ Listed(readyUnits, u)
  BY <1>1, QueueUnits
<1>4. PICK k \in DOMAIN Queue :
        /\ pending' = Without(Queue, k) /\ held' = held + 1 /\ acquire(Queue[k])
        /\ unit' = [unit EXCEPT ![w] = Queue[k]] /\ pc' = [pc EXCEPT ![w] = "leased"]
        /\ wake' = wake
  BY <1>3, TakeFinds DEF LeaseUnit
<1>5. PICK u \in Units :
        /\ u = Queue[k] /\ Listed(Queue, u)
        /\ pending' \in Seq(Units) /\ Distinct(pending')
        /\ \A x : Listed(pending', x) <=> Listed(Queue, x) /\ x # u
  <2>1. /\ Without(Queue, k) \in Seq(Units) /\ Distinct(Without(Queue, k)) /\ Queue[k] \in Units
        /\ \A x : Listed(Without(Queue, k), x) <=> Listed(Queue, x) /\ x # Queue[k]
    BY <1>3, WithoutUnits
  <2>2. Listed(Queue, Queue[k])
    BY DEF Listed
  <2> QED
    BY <1>4, <2>1, <2>2
<1>6. /\ delayed' \in Seq(Delays) /\ Distinct(DelayedUnits)'
      /\ \A x : Listed(DelayedUnits, x) <=> Listed(readyUnits, x) \/ Listed(DelayedUnits, x)'
      /\ \A x : ~(Listed(readyUnits, x) /\ Listed(DelayedUnits, x)')
      /\ \A i \in DOMAIN delayed' : \E j \in DOMAIN delayed : delayed'[i] = delayed[j]
  BY <1>1, <1>2, DelayedSplit
<1>7. unit[w] = NoUnit
  BY <1>1, <1>2 DEF Shape, Holding
<1>8. InFlightExact' /\ lane' \in [Lanes -> LaneStates] /\ inFlight' \in [Providers -> Nat]
  BY <1>1, <1>4, <1>5, <1>7, AcquireCounts
<1>9. /\ unit' = [unit EXCEPT ![w] = u] /\ u # NoUnit
      /\ unit'[w] = u /\ pc'[w] = "leased"
      /\ \A v \in Workers \ {w} : unit'[v] = unit[v] /\ pc'[v] = pc[v]
  BY <1>1, <1>4, <1>5 DEF TypeOK, Units, NoUnit
<1>10. TypeOK'
  <2>1. unit' \in [Workers -> Units \cup {NoUnit}] /\ cancelled' \in BOOLEAN /\ held' \in Nat
    BY <1>1, <1>4, <1>5, <1>9 DEF TypeOK
  <2>2. pc' \in [Workers -> {"lease", "parking", "waiting", "leased", "starting", "calling",
                             "requeue", "resolved", "release", "exited"}]
    BY <1>1, <1>4 DEF TypeOK
  <2> QED
    BY <1>1, <1>2, <1>4, <1>5, <1>6, <1>8, <2>1, <2>2 DEF TypeOK, LaneStates, Delays
<1>11. /\ Listed(pending, u) \/ Listed(readyUnits, u)
       /\ Listed(pending, u) \/ Listed(DelayedUnits, u)
       /\ ~InHand(u) /\ reported[u] = 0
  BY <1>1, <1>3, <1>5, <1>6 DEF Places, Apart
<1>12. \A v \in Workers : unit[v] # u
  <2> SUFFICES ASSUME NEW v \in Workers, unit[v] = u
               PROVE  FALSE
    OBVIOUS
  <2>1. pc[v] = "release"
    BY <1>11 DEF InHand
  <2>2. reported[u] > 0
    BY <1>1, <2>1 DEF Shape
  <2> QED
    BY <1>11, <2>2
<1>13. Shape'
  <2>1. \A v \in Workers : unit'[v] # NoUnit <=> pc'[v] \in Holding
    BY <1>1, <1>9 DEF Shape, Holding
  <2>2. \A v \in Workers : pc'[v] = "release" => reported'[unit'[v]] > 0
    BY <1>1, <1>2, <1>9 DEF Shape
  <2>3. \A v, x \in Workers : unit'[v] # NoUnit /\ unit'[v] = unit'[x] => v = x
    BY <1>1, <1>9, <1>12 DEF Shape
  <2> QED
    BY <2>1, <2>2, <2>3 DEF Shape
<1>14. \A x \in Units : InHand(x)' <=> InHand(x) \/ x = u
  BY <1>1, <1>7, <1>9 DEF InHand, Units, NoUnit
<1>15. Places'
  <2>1. ~Listed(DelayedUnits, u)' /\ ~Listed(pending, u)'
    BY <1>1, <1>5, <1>6, <1>11 DEF Places, Apart
  <2>2. \A x \in Units \ {u} :
          /\ Listed(pending, x)' <=> Listed(pending, x) \/ Listed(readyUnits, x)
          /\ InHand(x)' <=> InHand(x)
    BY <1>3, <1>5, <1>14
  <2>3. \A x \in Units \ {u} : Somewhere(x)' /\ Apart(x)'
    BY <1>1, <1>2, <1>6, <2>2 DEF Places, Somewhere, Apart
  <2>4. Somewhere(u)' /\ Apart(u)'
    BY <1>2, <1>11, <1>14, <2>1 DEF Somewhere, Apart
  <2>5. Distinct(pending)' /\ Distinct(DelayedUnits)'
    BY <1>5, <1>6
  <2> QED
    BY <2>3, <2>4, <2>5 DEF Places
<1>16. Budgeted'
  <2>1. \A x \in Units : Callable(x)' => Callable(x)
    <3>1. \A x \in Units : Listed(pending, x)' => Listed(pending, x) \/ Listed(DelayedUnits, x)
      BY <1>3, <1>5, <1>6
    <3>2. \A x \in Units : Listed(DelayedUnits, x)' => Listed(DelayedUnits, x)
      BY <1>6
    <3>3. \A x \in Units : (\E v \in Workers : unit'[v] = x /\ pc'[v] \in Trying) =>
            x = u \/ \E v \in Workers : unit[v] = x /\ pc[v] \in Trying
      BY <1>9
    <3> QED
      BY <1>11, <3>1, <3>2, <3>3 DEF Callable, Trying
  <2> QED
    BY <1>1, <1>2, <2>1 DEF Budgeted, calls
<1>17. Resulted'
  BY <1>1, <1>2, <1>9 DEF Resulted
<1>18. BlockedWillWake'
  <2>1. \A v \in Workers : Blocked(v)' => v # w /\ Blocked(v)
    BY <1>9 DEF Blocked
  <2>2. held' > 0
    BY <1>1, <1>4 DEF TypeOK
  <2> QED
    BY <1>1, <1>4, <1>6, <2>1, <2>2 DEF BlockedWillWake
<1>19. ExitMeansDrained'
  <2>1. pending # <<>> \/ delayed # <<>>
    BY <1>1, <1>11, EmptyDomain DEF Listed, DelayedUnits, TypeOK
  <2> QED
    BY <1>1, <1>9, <2>1 DEF ExitMeansDrained
<1> QED
  BY <1>8, <1>10, <1>13, <1>15, <1>16, <1>17, <1>18, <1>19 DEF IInv

\* A lease that finds nothing keeps the invariant: its worker leaves a drained
\* queue, or waits for the first delayed unit or for one that is held.
LEMMA LeaseNoneInv ==
  ASSUME IInv, NEW w \in Workers, Lease(w), NEW all \in BOOLEAN, cancelled' = all,
         LeaseNone(w, Queue, keptDelayed, all)
  PROVE  IInv'
<1>1. TypeOK /\ Shape /\ Places /\ InFlightExact /\ Budgeted /\ Resulted
      /\ BlockedWillWake /\ ExitMeansDrained
  BY DEF IInv
<1>2. /\ pc[w] = "lease" /\ delayed' = keptDelayed
      /\ UNCHANGED <<backoff, listens, retry, result, circuit, started, reported>>
  BY LeaseEffect
<1>3. Queue \in Seq(Units) /\ Distinct(Queue)
      /\ \A u : Listed(Queue, u) <=> Listed(pending, u) \/ Listed(readyUnits, u)
  BY <1>1, QueueUnits
<1>4. /\ takeable(Queue, all) = {} /\ pending' = Queue
      /\ UNCHANGED <<held, unit, lane, inFlight>>
      /\ \/ /\ Queue = <<>> /\ delayed' = <<>> /\ held = 0
            /\ pc' = [pc EXCEPT ![w] = "exited"] /\ wake' = wake
         \/ /\ ~(Queue = <<>> /\ delayed' = <<>> /\ held = 0)
            /\ pc' = [pc EXCEPT ![w] = "parking"]
            /\ wake' = [wake EXCEPT ![w] = IF delayed' = <<>> THEN NoTimer ELSE nextReady(delayed')]
  BY <1>2 DEF LeaseNone, Drained, throttleVars
<1>5. /\ delayed' \in Seq(Delays) /\ Distinct(DelayedUnits)'
      /\ \A x : Listed(DelayedUnits, x) <=> Listed(readyUnits, x) \/ Listed(DelayedUnits, x)'
      /\ \A x : ~(Listed(readyUnits, x) /\ Listed(DelayedUnits, x)')
      /\ \A i \in DOMAIN delayed' : \E j \in DOMAIN delayed : delayed'[i] = delayed[j]
      /\ delayed # <<>> => delayed' # <<>> \/ Queue # <<>>
  BY <1>1, <1>2, DelayedSplit
<1>6. Queue # <<>> => held > 0
  <2> SUFFICES ASSUME Queue # <<>>
               PROVE  held > 0
    OBVIOUS
  <2>1. PICK k \in DOMAIN Queue : Throttled /\ ~admit(LaneOf[Queue[k]])
    BY <1>3, <1>4, TakeFinds, EmptyDomain
  <2>2. LaneOf[Queue[k]] \in Lanes
    BY <1>3, ElementOfSeq, LenProperties, QueueAssumption
  <2>3. HoldersOf(ProviderOf[LaneOf[Queue[k]]]) # {}
    BY <1>1, <2>1, <2>2, RefusedHasHolder
  <2>4. Holders # {}
    BY <2>3 DEF HoldersOf
  <2> QED
    BY <1>1, <2>4, HolderSets, WorkersFinite DEF InFlightExact
<1>7. delayed' # <<>> => /\ nextReady(delayed') \in Nat
                         /\ \A k \in DOMAIN delayed' : nextReady(delayed') <= delayed'[k].left
  BY <1>5, NextReadyLeast
<1>8. /\ pc'[w] \in {"exited", "parking"} /\ \A v \in Workers \ {w} : pc'[v] = pc[v]
      /\ \A v \in Workers \ {w} : wake'[v] = wake[v]
  BY <1>1, <1>4 DEF TypeOK
<1>9. TypeOK'
  <2>1. wake' \in [Workers -> Timers]
    BY <1>1, <1>4, <1>7 DEF TypeOK, Timers
  <2>2. pc' \in [Workers -> {"lease", "parking", "waiting", "leased", "starting", "calling",
                             "requeue", "resolved", "release", "exited"}]
    BY <1>1, <1>4 DEF TypeOK
  <2> QED
    BY <1>1, <1>2, <1>3, <1>4, <1>5, <2>1, <2>2 DEF TypeOK, Delays
<1>10. Shape'
  BY <1>1, <1>2, <1>4, <1>8 DEF Shape, Holding
<1>11. unit[w] = NoUnit
  BY <1>1, <1>2 DEF Shape, Holding
<1>12. \A x \in Units : InHand(x)' <=> InHand(x)
  BY <1>4, <1>8, <1>11 DEF InHand, Units, NoUnit
<1>13. Places'
  <2>1. \A x \in Units : Listed(pending, x)' <=> Listed(pending, x) \/ Listed(readyUnits, x)
    BY <1>3, <1>4
  <2>2. \A x \in Units : Somewhere(x)' /\ Apart(x)'
    BY <1>1, <1>2, <1>5, <1>12, <2>1 DEF Places, Somewhere, Apart
  <2>3. Distinct(pending)' /\ Distinct(DelayedUnits)'
    BY <1>3, <1>4, <1>5
  <2> QED
    BY <2>2, <2>3 DEF Places
<1>14. InFlightExact'
  BY <1>1, <1>4 DEF InFlightExact, Holders, HoldersOn, HoldersOf
<1>15. Budgeted'
  <2>1. \A x \in Units : Callable(x)' => Callable(x)
    <3>1. \A x \in Units : Listed(pending, x)' => Listed(pending, x) \/ Listed(DelayedUnits, x)
      BY <1>3, <1>4, <1>5
    <3>2. \A x \in Units : Listed(DelayedUnits, x)' => Listed(DelayedUnits, x)
      BY <1>5
    <3> QED
      BY <1>4, <1>8, <3>1, <3>2 DEF Callable
  <2> QED
    BY <1>1, <1>2, <2>1 DEF Budgeted, calls
<1>16. Resulted'
  BY <1>1, <1>2, <1>4, <1>8 DEF Resulted
<1>17. BlockedWillWake'
  <2>1. \A v \in Workers \ {w} : Blocked(v)' => Blocked(v) /\ wake'[v] = wake[v]
    BY <1>8 DEF Blocked
  <2>2. (\E v \in Workers : Blocked(v)') => held' > 0 \/ delayed' # <<>>
    BY <1>1, <1>4, <1>5, <1>6, <1>8, <2>1 DEF BlockedWillWake, Blocked, TypeOK
  <2>3. \A v \in Workers \ {w} : Blocked(v)' =>
          \A k \in DOMAIN delayed' : wake'[v] # NoTimer /\ wake'[v] <= delayed'[k].left
    BY <1>1, <1>5, <2>1 DEF BlockedWillWake
  <2>4. Blocked(w)' =>
          \A k \in DOMAIN delayed' : wake'[w] # NoTimer /\ wake'[w] <= delayed'[k].left
    <3> SUFFICES ASSUME Blocked(w)', NEW k \in DOMAIN delayed'
                 PROVE  wake'[w] # NoTimer /\ wake'[w] <= delayed'[k].left
      OBVIOUS
    <3>1. delayed' # <<>>
      BY <1>5, EmptyDomain
    <3>2. wake'[w] = nextReady(delayed')
      BY <1>1, <1>4, <3>1 DEF TypeOK, Blocked
    <3> QED
      BY <1>7, <3>1, <3>2 DEF NoTimer
  <2> QED
    BY <2>2, <2>3, <2>4 DEF BlockedWillWake
<1>18. ExitMeansDrained'
  <2>1. CASE pc'[w] = "exited"
    BY <1>1, <1>4, <2>1 DEF ExitMeansDrained, TypeOK
  <2>2. CASE pc'[w] # "exited"
    <3> SUFFICES ASSUME \E v \in Workers : pc'[v] = "exited"
                 PROVE  pending' = <<>> /\ delayed' = <<>> /\ held' = 0
      BY DEF ExitMeansDrained
    <3>1. pending = <<>> /\ delayed = <<>> /\ held = 0
      BY <1>1, <1>8, <2>2 DEF ExitMeansDrained
    <3>2. DOMAIN delayed = {}
      BY <1>1, <3>1, EmptyDomain DEF TypeOK
    <3>3. delayed' = <<>>
      BY <1>5, <3>2, EmptyDomain
    <3> QED
      BY <1>4, <1>6, <3>1, <3>3
  <2> QED
    BY <2>1, <2>2
<1> QED
  BY <1>9, <1>10, <1>13, <1>14, <1>15, <1>16, <1>17, <1>18 DEF IInv

-----------------------------------------------------------------------------
(* The environment's steps, and the initial state.                         *)

\* Time passes for every timer alike: a unit's backoff and the timer of a
\* worker that waits for it.
LEMMA TickInv ==
  ASSUME IInv, Tick
  PROVE  IInv'
<1>1. TypeOK /\ Shape /\ Places /\ InFlightExact /\ Budgeted /\ Resulted
      /\ BlockedWillWake /\ ExitMeansDrained
  BY DEF IInv
<1>2. /\ delayed' = [k \in DOMAIN delayed |-> [delayed[k] EXCEPT !.left = lower(@)]]
      /\ wake' = [w \in Workers |-> lower(wake[w])]
      /\ lane' = [l \in Lanes |-> [lane[l] EXCEPT !.until = lower(@), !.serverUntil = lower(@)]]
      /\ UNCHANGED <<pending, held, pc, unit, backoff, listens, inFlight, started, reported,
                     cancelled, retry, result, circuit>>
  BY DEF Tick, hookVars
<1>3. delayed \in Seq(Delays) /\ Len(delayed) \in Nat /\ DOMAIN delayed = 1..Len(delayed)
      /\ \A k \in DOMAIN delayed : delayed[k] \in Delays
  <2>1. delayed \in Seq(Delays)
    BY <1>1 DEF TypeOK, Delays
  <2> QED
    BY <2>1, LenProperties, ElementOfSeq
<1>4. \A n \in Nat : lower(n) \in Nat
  BY DEF lower
<1>5. /\ DOMAIN delayed' = DOMAIN delayed
      /\ \A k \in DOMAIN delayed : /\ delayed'[k] \in Delays /\ delayed'[k].unit = delayed[k].unit
                                   /\ delayed'[k].left = lower(delayed[k].left)
  BY <1>2, <1>3, <1>4 DEF Delays
<1>6. delayed' \in Seq(Delays)
  <2>1. delayed' \in [1..Len(delayed) -> Delays]
    BY <1>2, <1>3, <1>5
  <2> QED
    BY <1>3, <2>1
<1>7. DelayedUnits' = DelayedUnits
  BY <1>5 DEF DelayedUnits
<1>8. /\ lane' \in [Lanes -> LaneStates]
      /\ \A l \in Lanes : lane'[l].inFlight = lane[l].inFlight
  <2> SUFFICES ASSUME NEW l \in Lanes
               PROVE  /\ [lane[l] EXCEPT !.until = lower(@), !.serverUntil = lower(@)]
                           \in LaneStates
                      /\ lane'[l].inFlight = lane[l].inFlight
    BY <1>2
  <2>1. lane[l] \in LaneStates /\ lower(lane[l].until) \in Nat /\ lower(lane[l].serverUntil) \in Nat
    BY <1>1, <1>4 DEF TypeOK, LaneStates
  <2>2. [lane[l] EXCEPT !.until = lower(@), !.serverUntil = lower(@)] \in LaneStates
    BY <2>1, Zenon DEF LaneStates
  <2>3. lane'[l].inFlight = lane[l].inFlight
    BY <1>2, <2>1 DEF LaneStates
  <2> QED
    BY <2>2, <2>3
<1>9. wake' \in [Workers -> Timers]
  <2>1. \A n \in Timers : lower(n) \in Timers
    BY <1>4 DEF Timers, lower, NoTimer
  <2> QED
    BY <1>1, <1>2, <2>1 DEF TypeOK
<1>10. TypeOK'
  BY <1>1, <1>2, <1>6, <1>8, <1>9 DEF TypeOK, LaneStates, Delays
<1>11. Shape' /\ Resulted'
  BY <1>1, <1>2 DEF Shape, Resulted
<1>12. Places'
  BY <1>1, <1>2, <1>7 DEF Places, Somewhere, Apart, InHand
<1>13. InFlightExact'
  BY <1>1, <1>2, <1>8, ZenonT(40) DEF InFlightExact, Holders, HoldersOn, HoldersOf
<1>14. Budgeted'
  BY <1>1, <1>2, <1>7 DEF Budgeted, calls, Callable
<1>15. delayed = <<>> <=> delayed' = <<>>
  BY <1>3, <1>5, <1>6, EmptyDomain
<1>16. BlockedWillWake'
  <2> SUFFICES ASSUME NEW w \in Workers, Blocked(w)
               PROVE  /\ held > 0 \/ delayed' # <<>>
                      /\ \A k \in DOMAIN delayed : /\ lower(wake[w]) # NoTimer
                                                   /\ lower(wake[w]) <= lower(delayed[k].left)
    BY <1>2, <1>5, ZenonT(40) DEF BlockedWillWake, Blocked
  <2>1. wake[w] \in Timers /\ \A k \in DOMAIN delayed : delayed[k].left \in Nat
    BY <1>1, <1>3 DEF TypeOK, Delays
  <2>2. /\ held > 0 \/ delayed # <<>>
        /\ \A k \in DOMAIN delayed : wake[w] # NoTimer /\ wake[w] <= delayed[k].left
    BY <1>1 DEF BlockedWillWake
  <2> QED
    BY <1>15, <2>1, <2>2 DEF lower, Timers, NoTimer
<1>17. ExitMeansDrained'
  BY <1>1, <1>2, <1>15 DEF ExitMeansDrained
<1> QED
  BY <1>10, <1>11, <1>12, <1>13, <1>14, <1>16, <1>17 DEF IInv

\* A cancel and a circuit's move change nothing the invariant ties together.
LEMMA EnvironmentInv ==
  ASSUME IInv, Cancel \/ (\E p \in Providers : BreakerMove(p)) \/ Terminated \/ UNCHANGED vars
  PROVE  IInv'
<1>1. TypeOK /\ Shape /\ Places /\ InFlightExact /\ Budgeted /\ Resulted
      /\ BlockedWillWake /\ ExitMeansDrained
  BY DEF IInv
<1>2. UNCHANGED <<pending, delayed, held, pc, unit, backoff, wake, listens, retry, result, lane,
                  inFlight, started, reported>>
  BY DEF Cancel, BreakerMove, Terminated, vars, queueVars, workerVars, throttleVars, hookVars
<1>3. cancelled' \in BOOLEAN /\ circuit' \in [Providers -> Cb!CircuitStates]
  <2>1. CASE Cancel \/ Terminated \/ UNCHANGED vars
    BY <1>1, <2>1 DEF Cancel, Terminated, vars, TypeOK
  <2>2. ASSUME NEW p \in Providers, BreakerMove(p)
        PROVE  cancelled' \in BOOLEAN /\ circuit' \in [Providers -> Cb!CircuitStates]
    <3>1. circuit[p] \in Cb!CircuitStates
      BY <1>1 DEF TypeOK
    <3>2. Cb!CircuitSucc(circuit[p]) \subseteq Cb!CircuitStates
      BY <3>1 DEF Cb!CircuitSucc, Cb!CircuitStates
    <3> QED
      BY <1>1, <2>2, <3>2 DEF BreakerMove, TypeOK
  <2> QED
    BY <2>1, <2>2
<1>4. TypeOK'
  BY <1>1, <1>2, <1>3 DEF TypeOK
<1>5. DelayedUnits' = DelayedUnits
  BY <1>2 DEF DelayedUnits
<1>6. Shape' /\ Resulted' /\ BlockedWillWake' /\ ExitMeansDrained'
  BY <1>1, <1>2 DEF Shape, Resulted, BlockedWillWake, ExitMeansDrained, Blocked
<1>7. Places'
  BY <1>1, <1>2, <1>5 DEF Places, Somewhere, Apart, InHand
<1>8. InFlightExact'
  BY <1>1, <1>2 DEF InFlightExact, Holders, HoldersOn, HoldersOf
<1>9. Budgeted'
  BY <1>1, <1>2, <1>5 DEF Budgeted, calls, Callable
<1> QED
  BY <1>4, <1>6, <1>7, <1>8, <1>9 DEF IInv

\* The invariant holds when the run begins: every unit is pending.
LEMMA InitInv ==
  ASSUME Init
  PROVE  IInv
<1>1. NumUnits \in Nat /\ Units = 1..NumUnits
  BY QueueAssumption DEF Units
<1>2. pending \in Seq(Units) /\ delayed \in Seq(Delays) /\ DOMAIN delayed = {}
  <2>1. pending \in [1..NumUnits -> Units]
    BY <1>1 DEF Init
  <2> QED
    BY <1>1, <2>1 DEF Init
<1>3. TypeOK
  <2>1. lane \in [Lanes -> LaneStates]
    BY QueueAssumption, CeilingPositive DEF Init, LaneStates
  <2>2. result \in [Units -> Results]
    BY DEF Init, NoResult, Results, Classes
  <2>3. circuit \in [Providers -> Cb!CircuitStates]
    BY DEF Init, Cb!CircuitStates
  <2>4. wake \in [Workers -> Timers] /\ unit \in [Workers -> Units \cup {NoUnit}]
        /\ pc \in [Workers -> {"lease", "parking", "waiting", "leased", "starting", "calling",
                               "requeue", "resolved", "release", "exited"}]
        /\ listens \in [Workers -> BOOLEAN] /\ backoff \in [Workers -> Nat]
    BY DEF Init, Timers
  <2>5. retry \in [Units -> RetryStates] /\ reported \in [Units -> Nat]
        /\ inFlight \in [Providers -> Nat] /\ held \in Nat /\ cancelled \in BOOLEAN
        /\ started \subseteq Units
    BY DEF Init, RetryStates
  <2> QED
    BY <1>2, <2>1, <2>2, <2>3, <2>4, <2>5 DEF TypeOK, LaneStates, RetryStates, Delays
<1>4. Shape
  BY DEF Init, Shape, Holding
<1>5. Places
  <2>1. DOMAIN DelayedUnits = {} /\ DOMAIN pending = Units /\ \A k \in Units : pending[k] = k
    BY <1>1, <1>2 DEF Init, DelayedUnits
  <2>2. \A u \in Units : /\ Listed(pending, u) /\ ~Listed(DelayedUnits, u)
                        /\ ~InHand(u) /\ reported[u] = 0
    BY <1>1, <2>1 DEF Listed, InHand, Init, NoUnit
  <2>3. Distinct(pending) /\ Distinct(DelayedUnits)
    BY <2>1 DEF Distinct
  <2> QED
    BY <2>2, <2>3 DEF Places, Somewhere, Apart
<1>6. InFlightExact
  <2>1. Holders = {} /\ \A x : HoldersOn(x) = {} /\ HoldersOf(x) = {}
    BY DEF Init, Holders, HoldersOn, HoldersOf
  <2> QED
    BY <2>1, FS_EmptySet DEF Init, InFlightExact
<1>7. Budgeted
  BY QueueAssumption DEF Init, Budgeted, calls
<1>8. Resulted /\ BlockedWillWake /\ ExitMeansDrained
  BY QueueAssumption DEF Init, Resulted, BlockedWillWake, ExitMeansDrained, Blocked
<1> QED
  BY <1>3, <1>4, <1>5, <1>6, <1>7, <1>8 DEF IInv

-----------------------------------------------------------------------------
(* The theorems.                                                           *)

\* Every step keeps the invariant.
LEMMA StepInv ==
  ASSUME IInv, [Next]_vars
  PROVE  IInv'
<1>1. ASSUME NEW w \in Workers, WorkerStep(w)
      PROVE  IInv'
  <2>1. CASE LocalStep(w)
    BY <2>1, LocalInv
  <2>2. CASE requeue(w) \/ release(w)
    BY <2>2, RequeueInv, ReleaseInv
  <2>3. CASE Lease(w)
    <3>1. PICK all \in {cancelled, TRUE} :
            /\ cancelled' = all
            /\ LeaseUnit(w, Queue, all) \/ LeaseNone(w, Queue, keptDelayed, all)
      BY <2>3, LeaseEffect
    <3>2. all \in BOOLEAN
      BY DEF IInv, TypeOK
    <3> QED
      BY <2>3, <3>1, <3>2, LeaseUnitInv, LeaseNoneInv
  <2> QED
    BY <1>1, <2>1, <2>2, <2>3 DEF WorkerStep, LocalStep
<1> QED
  BY <1>1, TickInv, EnvironmentInv DEF Next

\* In every behaviour, for any units, workers, lanes, providers and budgets,
\* through requeues, waits, panics and a cancel at any point, the queue, the
\* workers, the throttle and the retry records stay related as IInv says.
THEOREM QueueInvariance == Spec => []IInv
<1>1. Init => IInv
  BY InitInv
<1>2. IInv /\ [Next]_vars => IInv'
  BY StepInv
<1> QED
  BY <1>1, <1>2, PTL DEF Spec

\* Type correctness: in particular a lane's cap stays at or below the ceiling,
\* and no count of leases goes below zero.
THEOREM TypeCorrect == Spec => []TypeOK
<1>1. IInv => TypeOK
  BY DEF IInv
<1> QED
  BY QueueInvariance, <1>1, PTL

\* A set without two members has one or none.
LEMMA AtMostOne ==
  ASSUME NEW S, \A x, y \in S : x = y
  PROVE  Cardinality(S) = IF S = {} THEN 0 ELSE 1
<1>1. CASE S = {}
  BY <1>1, FS_EmptySet
<1>2. CASE S # {}
  <2>1. PICK x \in S : S = {x}
    BY <1>2
  <2> QED
    BY <1>2, <2>1, FS_Singleton
<1> QED
  BY <1>1, <1>2

\* No unit is lost and none is held twice, through requeues, promotions in any
\* order, panics and cancels (unitQueue's lease, requeue and release).
THEOREM NoUnitLost == Spec => []UnitInOnePlace
<1>1. IInv => UnitInOnePlace
  <2> SUFFICES ASSUME IInv, NEW u \in Units
               PROVE  1 = Cardinality({k \in DOMAIN pending : pending[k] = u})
                            + Cardinality({k \in DOMAIN delayed : delayed[k].unit = u})
                            + Cardinality({w \in Workers : unit[w] = u /\ pc[w] # "release"})
                            + reported[u]
    BY DEF UnitInOnePlace
  <2> DEFINE P == {k \in DOMAIN pending : pending[k] = u}
             D == {k \in DOMAIN delayed : delayed[k].unit = u}
             H == {w \in Workers : unit[w] = u /\ pc[w] # "release"}
  <2>1. Places /\ Shape /\ reported[u] \in Nat
    BY DEF IInv, TypeOK
  <2>2. /\ P # {} <=> Listed(pending, u)
        /\ D # {} <=> Listed(DelayedUnits, u)
        /\ H # {} <=> InHand(u)
    BY DEF Listed, DelayedUnits, InHand
  <2>3. \A x, y \in P : x = y
    BY <2>1 DEF Places, Distinct
  <2>4. \A x, y \in D : x = y
    BY <2>1 DEF Places, Distinct, DelayedUnits
  <2>5. \A x, y \in H : x = y
    BY <2>1 DEF Shape, Units, NoUnit
  <2> HIDE DEF P, D, H
  <2>6. /\ Cardinality(P) = IF P = {} THEN 0 ELSE 1
        /\ Cardinality(D) = IF D = {} THEN 0 ELSE 1
        /\ Cardinality(H) = IF H = {} THEN 0 ELSE 1
    BY <2>3, <2>4, <2>5, AtMostOne
  <2>7. 1 = Cardinality(P) + Cardinality(D) + Cardinality(H) + reported[u]
    BY <2>1, <2>2, <2>6 DEF Places, Somewhere, Apart
  <2> QED
    BY <2>7 DEF P, D, H
<1> QED
  BY QueueInvariance, <1>1, PTL

\* The queue's and the throttle's counts are the leases under way, on every
\* path that gives a unit back (acquire, done).
THEOREM CountsAreExact == Spec => []InFlightExact
<1>1. IInv => InFlightExact
  BY DEF IInv
<1> QED
  BY QueueInvariance, <1>1, PTL

\* A pending unit the throttle skips has a unit of its provider held, so that
\* a release will look at it again (pick, verdict).
THEOREM SkippedIsHeldUp == Spec => []SkippedHasHolder
<1>1. IInv => SkippedHasHolder
  <2> SUFFICES ASSUME IInv, Throttled, NEW k \in DOMAIN pending, ~admit(LaneOf[pending[k]])
               PROVE  HoldersOf(ProviderOf[LaneOf[pending[k]]]) # {}
    BY DEF SkippedHasHolder
  <2>1. pending[k] \in Units
    BY ElementOfSeq, LenProperties DEF IInv, TypeOK
  <2>2. LaneOf[pending[k]] \in Lanes
    BY <2>1, QueueAssumption
  <2> QED
    BY <2>2, RefusedHasHolder DEF IInv
<1> QED
  BY QueueInvariance, <1>1, PTL

\* No lost wakeup, for any number of workers: one that blocks has something to
\* wait for and a timer early enough (lease, signal).
THEOREM NoLostWakeup == Spec => []BlockedWillWake
<1>1. IInv => BlockedWillWake
  BY DEF IInv
<1> QED
  BY QueueInvariance, <1>1, PTL

\* A worker leaves only a drained queue, and nothing comes back to it (lease).
THEOREM LeavesDrained == Spec => []ExitMeansDrained
<1>1. IInv => ExitMeansDrained
  BY DEF IInv
<1> QED
  BY QueueInvariance, <1>1, PTL

\* Neither retry budget is overrun, however a unit's failures mix
\* (unitRetryPolicy.next, nextCircuitWait, settle).
THEOREM WithinBudgets == Spec => []BudgetsHold
<1>1. IInv => BudgetsHold
  BY QueueAssumption DEF IInv, Budgeted, BudgetsHold
<1> QED
  BY QueueInvariance, <1>1, PTL

\* Once the run is cancelled no call starts and no backoff is given (runUnit,
\* settle).
THEOREM CancelStops == Spec => CancelStopsWork
<1>1. ASSUME IInv, [Next]_vars, cancelled
      PROVE  /\ started' \subseteq started
             /\ \A w \in Workers : pc'[w] = "requeue" => pc[w] = "requeue"
  <2>0. TypeOK
    BY <1>1 DEF IInv
  <2>1. ASSUME NEW w \in Workers, EndCall(w)
        PROVE  started' \subseteq started /\ pc' = [pc EXCEPT ![w] = "resolved"]
    BY <1>1, <2>1, EndCallEffect
  <2>2. ASSUME NEW w \in Workers, StartCall(w) \/ Report(w) \/ Panic(w)
        PROVE  /\ started' \subseteq started
               /\ \E to \in {"calling", "release", "resolved"} : pc' = [pc EXCEPT ![w] = to]
    BY <1>1, <2>2 DEF StartCall, Report, Panic, Final
  <2>3. ASSUME NEW w \in Workers, requeue(w) \/ release(w)
        PROVE  /\ started' = started
               /\ \A v \in Workers : pc'[v] = "requeue" => pc[v] = "requeue"
    <3>1. pc[w] \in {"requeue", "release"} /\ GiveBack(w) /\ started' = started
      BY <2>3 DEF requeue, release, hookVars
    <3> QED
      BY <1>1, <3>1, GiveBackEffect
  <2>4. ASSUME NEW w \in Workers, Lease(w)
        PROVE  /\ started' = started
               /\ \E to \in {"leased", "exited", "parking"} : pc' = [pc EXCEPT ![w] = to]
    <3>1. started' = started
      BY <2>4 DEF Lease, hookVars
    <3> QED
      BY <2>4, <3>1, LeaseEffect DEF LeaseUnit, LeaseNone
  <2>5. ASSUME NEW w \in Workers,
               Park(w) \/ Wake(w) \/ KeepResult(w) \/ Proceed(w) \/ ShortCircuit(w)
        PROVE  /\ started' = started
               /\ \E to \in {"waiting", "lease", "resolved", "starting"} :
                    pc' = [pc EXCEPT ![w] = to]
    BY <2>5 DEF Park, Wake, KeepResult, Proceed, ShortCircuit, hookVars
  <2>6. CASE Cancel \/ Tick \/ (\E p \in Providers : BreakerMove(p)) \/ Terminated \/ UNCHANGED vars
    BY <2>6 DEF Cancel, Tick, BreakerMove, Terminated, vars, workerVars, hookVars
  <2>7. ASSUME NEW w \in Workers, NEW to \in {"calling", "release", "resolved", "leased", "exited",
               "parking", "waiting", "lease", "starting"}, pc' = [pc EXCEPT ![w] = to]
        PROVE  \A v \in Workers : pc'[v] = "requeue" => pc[v] = "requeue"
    BY <2>0, <2>7 DEF TypeOK
  <2> QED
    BY <1>1, <2>1, <2>2, <2>3, <2>4, <2>5, <2>6, <2>7 DEF Next, WorkerStep
<1>2. IInv /\ [Next]_vars =>
        [cancelled => /\ started' \subseteq started
                      /\ \A w \in Workers : pc'[w] = "requeue" => pc[w] = "requeue"]_vars
  BY <1>1
<1> QED
  BY QueueInvariance, <1>2, PTL DEF Spec, CancelStopsWork

\* A step other than a lease gives no provider a holder.
LEMMA OnlyLeasesHold ==
  ASSUME IInv, [Next]_vars, NEW p, ~ \E w \in Workers : Lease(w)
  PROVE  HoldersOf(p)' \subseteq HoldersOf(p)
<1>1. TypeOK
  BY DEF IInv
<1>2. unit' = unit => HoldersOf(p)' \subseteq HoldersOf(p)
  BY DEF HoldersOf, Holders
<1>3. ASSUME NEW w \in Workers, requeue(w) \/ release(w)
      PROVE  HoldersOf(p)' \subseteq HoldersOf(p)
  <2>1. unit' = [unit EXCEPT ![w] = NoUnit]
    BY <1>3 DEF requeue, release, GiveBack
  <2>2. \A v \in Workers : unit'[v] # NoUnit => unit'[v] = unit[v]
    BY <1>1, <2>1 DEF TypeOK
  <2> QED
    BY <2>2 DEF HoldersOf, Holders
<1>4. ASSUME NEW w \in Workers, LocalStep(w)
      PROVE  unit' = unit
  BY <1>4, LocalFrame
<1>5. CASE Cancel \/ Tick \/ (\E q \in Providers : BreakerMove(q)) \/ Terminated \/ UNCHANGED vars
  BY <1>2, <1>5 DEF Cancel, Tick, BreakerMove, Terminated, vars, workerVars
<1> QED
  BY <1>2, <1>3, <1>4, <1>5 DEF Next, WorkerStep, LocalStep

\* While a provider's circuit is not closed its leases, over all its lanes,
\* drain down to one and stay there (verdict).
THEOREM OutageDrains == Spec => OutageOneLease
<1>1. ASSUME IInv, [Next]_vars, Throttled, ~cancelled', NEW p \in Providers, circuit[p] # "closed"
      PROVE  Cardinality(HoldersOf(p)') <= larger(1, Cardinality(HoldersOf(p)))
  <2>0. TypeOK /\ InFlightExact /\ Shape
    BY <1>1 DEF IInv
  <2>1. /\ HoldersOf(p) \in SUBSET Workers /\ IsFiniteSet(HoldersOf(p))
        /\ Cardinality(HoldersOf(p)) \in Nat
    BY HolderSets, WorkersFinite
  <2>2. CASE HoldersOf(p)' \subseteq HoldersOf(p)
    <3>1. PICK S \in SUBSET Workers : S = HoldersOf(p)' /\ S \subseteq HoldersOf(p)
      BY <2>1, <2>2
    <3>2. Cardinality(S) <= Cardinality(HoldersOf(p)) /\ Cardinality(S) \in Nat
      BY <2>1, <3>1, FS_Subset, WorkersFinite
    <3> QED
      BY <2>1, <3>1, <3>2 DEF larger
  <2>3. ASSUME NEW w \in Workers, Lease(w)
        PROVE  Cardinality(HoldersOf(p)') <= larger(1, Cardinality(HoldersOf(p)))
    <3>1. PICK all \in {cancelled, TRUE} :
            /\ cancelled' = all
            /\ LeaseUnit(w, Queue, all) \/ LeaseNone(w, Queue, keptDelayed, all)
      BY <2>3, LeaseEffect
    <3>2. ~all
      BY <1>1, <3>1
    <3>3. CASE LeaseNone(w, Queue, keptDelayed, all)
      BY <2>2, <3>3 DEF LeaseNone, HoldersOf, Holders
    <3>4. CASE LeaseUnit(w, Queue, all)
      <4>1. Queue \in Seq(Units)
        BY <1>1, QueueUnits DEF IInv
      <4>2. PICK k \in DOMAIN Queue :
              admit(LaneOf[Queue[k]]) /\ unit' = [unit EXCEPT ![w] = Queue[k]]
        BY <1>1, <3>2, <3>4, <4>1, TakeFinds DEF LeaseUnit
      <4>3. CASE ProviderOf[LaneOf[Queue[k]]] # p
        <5>1. HoldersOf(p)' \subseteq HoldersOf(p)
          BY <2>0, <4>2, <4>3 DEF TypeOK, HoldersOf, Holders
        <5> QED
          BY <2>2, <5>1
      <4>4. CASE ProviderOf[LaneOf[Queue[k]]] = p
        <5>1. inFlight[p] < 1 /\ inFlight[p] \in Nat
          BY <1>1, <2>0, <4>2, <4>4 DEF admit, Keyed, TypeOK
        <5>2. HoldersOf(p) = {}
          BY <1>1, <2>0, <2>1, <5>1, WorkersFinite DEF InFlightExact
        <5>3. HoldersOf(p)' \subseteq {w}
          BY <2>0, <4>2, <5>2 DEF TypeOK, HoldersOf, Holders
        <5>4. PICK S \in SUBSET {w} : S = HoldersOf(p)'
          BY <5>3
        <5>5. Cardinality(S) <= 1 /\ Cardinality(S) \in Nat
          <6>1. IsFiniteSet({w}) /\ Cardinality({w}) = 1
            BY FS_Singleton
          <6>2. IsFiniteSet(S) /\ Cardinality(S) <= 1
            BY <6>1, FS_Subset
          <6> QED
            BY <6>2, FS_CardinalityType
        <5> QED
          BY <2>1, <5>4, <5>5 DEF larger
      <4> QED
        BY <4>3, <4>4
    <3> QED
      BY <3>1, <3>3, <3>4
  <2> QED
    BY <1>1, <2>2, <2>3, OnlyLeasesHold
<1>2. IInv /\ [Next]_vars =>
        [Throttled /\ ~cancelled' =>
           \A p \in Providers :
             circuit[p] # "closed" =>
               Cardinality(HoldersOf(p)') <= larger(1, Cardinality(HoldersOf(p)))]_vars
  BY <1>1
<1> QED
  BY QueueInvariance, <1>2, PTL DEF Spec, OutageOneLease

-----------------------------------------------------------------------------
(* The contract of Engine.Run.                                             *)

finalResult == [u \in Units |-> IF reported[u] > 0 THEN result[u] ELSE NoResult]

ExitedReported ==
  AllExited => \A u \in Units : reported[u] > 0 /\ result[u] # NoResult

\* When every worker has left, every unit was reported with a result.
LEMMA ExitedAllReported ==
  ASSUME IInv
  PROVE  ExitedReported
<1> SUFFICES ASSUME AllExited
             PROVE  \A u \in Units : reported[u] > 0 /\ result[u] # NoResult
  BY DEF ExitedReported
<1>1. TypeOK /\ Places /\ Shape /\ Resulted /\ ExitMeansDrained
  BY DEF IInv
<1>2. pending = <<>> /\ delayed = <<>>
  BY <1>1, QueueAssumption DEF AllExited, ExitMeansDrained
<1>3. DOMAIN pending = {} /\ DOMAIN DelayedUnits = {}
  BY <1>1, <1>2, EmptyDomain DEF TypeOK, DelayedUnits
<1>4. \A w \in Workers : unit[w] = NoUnit
  BY <1>1 DEF AllExited, Shape, Holding
<1>5. \A u \in Units : reported[u] > 0
  BY <1>1, <1>3, <1>4 DEF Places, Somewhere, Listed, InHand, Units, NoUnit
<1>6. \A u \in Units : result[u].class # "none"
  BY <1>1, <1>5 DEF Resulted
<1> QED
  BY <1>5, <1>6 DEF NoResult

\* A step of the queue resolves one slot, returns, or is hidden from the
\* caller.
LEMMA ContractStep ==
  ASSUME IInv, ExitedReported', [Next]_vars
  PROVE  [Slots!Next]_(Slots!vars)
<1>1. TypeOK /\ Places /\ Shape /\ Resulted
  BY DEF IInv
<1>2. ASSUME NEW w \in Workers, Report(w)
      PROVE  Slots!Next
  <2>1. pc[w] = "resolved" /\ unit[w] \in Units /\ ~AllExited /\ InHand(unit[w])
    BY <1>2, CallingHolds DEF Report, Holding, AllExited, InHand
  <2>2. reported[unit[w]] = 0 /\ result[unit[w]] \in Results
    BY <1>1, <2>1 DEF Places, Apart, TypeOK
  <2>3. /\ reported' = [reported EXCEPT ![unit[w]] = @ + 1] /\ result' = result
        /\ pc' = [pc EXCEPT ![w] = "release"]
    BY <1>2 DEF Report
  <2>4. ~AllExited'
    BY <1>1, <2>3 DEF AllExited, TypeOK
  <2>5. finalResult[unit[w]] = NoResult
    BY <2>1, <2>2 DEF finalResult
  <2>6. PICK u \in Units, r \in Results : u = unit[w] /\ r = result[unit[w]]
    BY <2>1, <2>2
  <2>7. finalResult' = [finalResult EXCEPT ![u] = r]
    <3>1. \A x \in Units : reported'[x] = IF x = u THEN 1 ELSE reported[x]
      BY <1>1, <2>2, <2>3, <2>6 DEF TypeOK
    <3>2. \A x \in Units : finalResult'[x] = IF x = u THEN r ELSE finalResult[x]
      BY <2>3, <2>6, <3>1 DEF finalResult
    <3> QED
      BY <3>2 DEF finalResult
  <2>8. Slots!Resolve(u)
    <3>1. AllExited' = AllExited
      BY <2>1, <2>4 DEF AllExited
    <3>2. finalResult[u] = NoResult
      BY <2>5, <2>6
    <3> QED
      BY <2>1, <2>7, <3>1, <3>2 DEF Slots!Resolve, finalResult
  <2> QED
    BY <2>8 DEF Slots!Next
<1>3. (\A w \in Workers : ~Report(w)) => finalResult' = finalResult
  <2> SUFFICES ASSUME \A w \in Workers : ~Report(w), NEW u \in Units
               PROVE  reported'[u] = reported[u] /\ (reported[u] > 0 => result'[u] = result[u])
    BY DEF finalResult
  <2>1. reported' = reported
    BY DEF Next, WorkerStep, Lease, Park, Wake, KeepResult, Proceed, ShortCircuit, StartCall,
       EndCall, Panic, requeue, release, Cancel, Tick, BreakerMove, Terminated, vars, hookVars
  <2>2. CASE \E w \in Workers : ShortCircuit(w) \/ EndCall(w) \/ Panic(w)
    <3>1. PICK w \in Workers : ShortCircuit(w) \/ EndCall(w) \/ Panic(w)
      BY <2>2
    <3>2. pc[w] \in {"starting", "calling"} /\ unit[w] \in Units
      BY <3>1, CallingHolds DEF ShortCircuit, EndCall, Panic, Holding
    <3>3. reported[unit[w]] = 0
      BY <1>1, <3>2 DEF Places, Apart, InHand
    <3>4. \E r : result' = [result EXCEPT ![unit[w]] = r]
      BY <3>1 DEF ShortCircuit, EndCall, Panic
    <3> QED
      BY <1>1, <2>1, <3>3, <3>4 DEF TypeOK
  <2>3. CASE ~ \E w \in Workers : ShortCircuit(w) \/ EndCall(w) \/ Panic(w)
    <3>1. result' = result
      BY <2>3 DEF Next, WorkerStep, Lease, Park, Wake, KeepResult, Proceed, StartCall,
         requeue, release, Cancel, Tick, BreakerMove, Terminated, vars
    <3> QED
      BY <2>1, <3>1
  <2> QED
    BY <2>2, <2>3
<1>4. AllExited => AllExited'
  <2> SUFFICES ASSUME AllExited
               PROVE  pc' = pc
    BY DEF AllExited
  <2>1. \A w \in Workers : ~WorkerStep(w)
    BY DEF AllExited, WorkerStep, Lease, Park, Wake, KeepResult, Proceed, ShortCircuit,
       StartCall, EndCall, Panic, Report, requeue, release
  <2> QED
    BY <2>1 DEF Next, Cancel, Tick, BreakerMove, Terminated, vars, workerVars
<1>5. CASE (\A w \in Workers : ~Report(w)) /\ AllExited' /\ ~AllExited
  <2>1. \A u \in Units : reported'[u] > 0 /\ result'[u] # NoResult
    BY <1>5 DEF ExitedReported
  <2>2. \A u \in Units : finalResult[u] # NoResult
    BY <1>3, <1>5, <2>1 DEF finalResult
  <2> QED
    BY <1>3, <1>5, <2>2 DEF Slots!Next, Slots!Return, finalResult
<1>6. CASE (\A w \in Workers : ~Report(w)) /\ (AllExited' <=> AllExited)
  <2>1. finalResult' = finalResult
    BY <1>3, <1>6
  <2>2. AllExited' = AllExited
    BY <1>6 DEF AllExited
  <2> QED
    BY <2>1, <2>2 DEF Slots!vars, finalResult
<1> QED
  BY <1>2, <1>4, <1>5, <1>6

\* Engine.Run keeps the safety part of its contract: each slot is reported
\* once, its result never changes after that, and Run returns only when every
\* slot has one.
THEOREM KeepsSlotContract == Spec => Slots!Safety
<1>1. Init => Slots!Init
  BY QueueAssumption DEF Init, Slots!Init, AllExited
<1> QED
  BY <1>1, ContractStep, ExitedAllReported, QueueInvariance, PTL DEF Spec, Slots!Safety
=============================================================================
