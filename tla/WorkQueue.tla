----------------------------- MODULE WorkQueue -----------------------------
(***************************************************************************)
(* The fan-out's work queue: the workers of Engine.Run draining one        *)
(* unitQueue (internal/fanout/engine.go, workpool.go), the outer retry of  *)
(* a failed unit (requeue.go) and the per-lane lease cap (throttle.go).    *)
(* A unit is one slot: a reviewer's chunk.  A lane is a provider and a     *)
(* model.  The parallel pool is an instance with a throttle, the serial    *)
(* lane one with a single worker and none.                                 *)
(*                                                                         *)
(* Time is kept as what is left of each timer, which is all the code       *)
(* compares.  q.mu makes each queue operation one step; between a lease    *)
(* and its settlement the worker runs on its own.                          *)
(***************************************************************************)
EXTENDS Integers, Sequences, FiniteSets

CONSTANTS
  NumUnits,        \* slots of this queue
  Workers,         \* poolWorkers of them
  Covered,         \* units the outer retry covers (WithUnitRetry)
  WithFallback,    \* units whose chain has a fallback behind the primary
  Errors,          \* what a call may fail with in this instance
  Lanes, Providers,
  LaneOf,          \* the lane of each unit
  ProviderOf,      \* the provider of each lane; one outside Providers is ""
  Throttled,       \* the queue has a providerThrottle
  Serial,          \* the queue is the serial lane's
  MaxAttempts, Budget,          \* unitMaxAttempts, unitBackoffBudget
  RateBackoff, OutageBackoff,   \* rateLimitBackoff, outageBackoff
  CircuitWait, CircuitBudget,   \* circuitOpenBackoff, unitCircuitWaitBudget
  ServerStreak, ServerWindow    \* serverStreak, serverWindow

Units == 1..NumUnits

\* "other" is any error classifyUnitFailure calls final, a cancelled context's
\* included; "other_http" a response outside 429 and 5xx.
ErrorKinds == {"429", "5xx", "other_http", "deadline", "transport",
               "circuit_open", "other"}

ASSUME QueueAssumption ==
  /\ NumUnits \in Nat
  /\ IsFiniteSet(Workers) /\ Workers # {}
  /\ Covered \subseteq Units /\ WithFallback \subseteq Units
  /\ Errors \subseteq ErrorKinds
  /\ LaneOf \in [Units -> Lanes]
  /\ DOMAIN ProviderOf = Lanes
  /\ Throttled \in BOOLEAN /\ Serial \in BOOLEAN
  /\ MaxAttempts \in Nat \ {0} /\ Budget \in Nat
  /\ RateBackoff \in Nat \ {0} /\ OutageBackoff \in Nat \ {0}
  /\ CircuitWait \in Nat \ {0} /\ CircuitBudget \in Nat
  /\ ServerStreak \in Nat \ {0} /\ ServerWindow \in Nat

\* The shift of a backoff does not overflow: a fact of arithmetic.
ASSUME ShiftAssumption == \A a \in 1..MaxAttempts : 2^(a - 1) \in Nat \ {0}

VARIABLES
  pending,     \* units to lease, in order
  delayed,     \* requeued units waiting out a backoff: [unit, left]
  held,        \* the queue's count of leased units
  cancelled,   \* the run's context is done
  pc,          \* where each worker is
  unit,        \* the unit each worker holds
  backoff,     \* the backoff a requeueing worker has computed
  wake,        \* what is left of each waiting worker's timer, or NoTimer
  listens,     \* the waiting worker selects on the run's context too
  retry,       \* each unit's unitRetryState
  result,      \* each unit's latest result
  lane,        \* each lane's providerLane
  inFlight,    \* each provider's leases across its lanes
  circuit,     \* each provider's breaker, which other traffic moves too
  started,     \* units whose slotStart is not yet answered by a hook
  reported     \* how often slotDone was called for each unit

queueVars == <<pending, delayed, held>>
workerVars == <<pc, unit, backoff, wake, listens>>
throttleVars == <<lane, inFlight>>
hookVars == <<started, reported>>
vars == <<queueVars, workerVars, throttleVars, hookVars, cancelled, retry,
          result, circuit>>

NoTimer == -1
NoUnit == 0
Cb == INSTANCE Circuit WITH circuit <- circuit

larger(a, b) == IF a >= b THEN a ELSE b

\* The elements of sequence s at the positions K, in their order.
nth(K, i) == CHOOSE k \in K : Cardinality({j \in K : j <= k}) = i
At(s, K) == [i \in 1..Cardinality(K) |-> s[nth(K, i)]]

Ceiling == Cardinality(Workers)

-----------------------------------------------------------------------------
(* Results of one lease: invokeSlotWithRetry walking the unit's chain.     *)

classifyUnitFailure(e) ==
  CASE e = "429" -> "rate_limit"
    [] e = "5xx" -> "server"
    [] e = "deadline" -> "timeout"
    [] e = "transport" -> "transport"
    [] e = "circuit_open" -> "circuit_open"
    [] OTHER -> "final"

Classes == {"none", "final", "rate_limit", "server", "timeout", "transport",
            "circuit_open"}

Results == [ok : BOOLEAN, class : Classes, fallback : BOOLEAN,
            primary5xx : BOOLEAN, fastOnly : BOOLEAN]

NoResult == [ok |-> FALSE, class |-> "none", fallback |-> FALSE,
             primary5xx |-> FALSE, fastOnly |-> FALSE]

\* A walk that ended on the primary with error e.
PrimaryFailed(e) ==
  [ok |-> FALSE, class |-> classifyUnitFailure(e), fallback |-> FALSE,
   primary5xx |-> (e = "5xx"), fastOnly |-> (e = "circuit_open")]

\* A truncated reply, asked for again on a circuit that opened meanwhile: the
\* walk ends on an open breaker and yet made a call.
TruncatedThenOpen == [PrimaryFailed("circuit_open") EXCEPT !.fastOnly = FALSE]

\* A walk whose primary failed with e and whose last fallback failed with f.
ChainFailed(e, f) ==
  [ok |-> FALSE, class |-> classifyUnitFailure(f), fallback |-> TRUE,
   primary5xx |-> (e = "5xx"),
   fastOnly |-> (e = "circuit_open" /\ f = "circuit_open")]

Served(byFallback, e) ==
  [ok |-> TRUE, class |-> "final", fallback |-> byFallback,
   primary5xx |-> (e = "5xx"), fastOnly |-> FALSE]

\* Errors that let the walk go on to the fallback: all but a 429 the unit may
\* still requeue on.
PassesOn(e, hold) == ~(hold /\ e = "429")

\* Every result one walk of unit u's chain can end in.  The unit's own
\* deadline may stop the walk after any attempt, leaving the error it has.
WalkResults(u, hold) ==
  {Served(FALSE, "none")}
    \cup {PrimaryFailed(e) : e \in Errors}
    \cup {TruncatedThenOpen : e \in Errors \cap {"circuit_open"}}
    \cup (IF u \in WithFallback
          THEN UNION {{Served(TRUE, e)} \cup {ChainFailed(e, f) : f \in Errors} :
                        e \in {x \in Errors : PassesOn(x, hold)}}
          ELSE {})

\* What a slot gets when the run was cancelled before its first call.
NeverCalled == PrimaryFailed("other")

-----------------------------------------------------------------------------
(* The outer retry budget.                                                 *)

unitBackoff(class, attempt) ==
  (IF class = "rate_limit" THEN RateBackoff ELSE OutageBackoff) * 2^(attempt - 1)

calls(u) == retry[u].attempts - retry[u].circuitWaits

\* unitRetryPolicy.next: the backoff before another lease, or NoTimer when
\* either budget is used up.
nextOffByOne(class, attempt, spent) ==
  IF attempt > MaxAttempts \/ spent + unitBackoff(class, attempt) > Budget
  THEN NoTimer ELSE unitBackoff(class, attempt)
next(class, attempt, spent) ==
  IF attempt >= MaxAttempts \/ spent + unitBackoff(class, attempt) > Budget
  THEN NoTimer ELSE unitBackoff(class, attempt)

nextCircuitWaitUnbounded(waited) == CircuitWait
nextCircuitWait(waited) ==
  IF waited + CircuitWait > CircuitBudget THEN NoTimer ELSE CircuitWait

-----------------------------------------------------------------------------
(* The throttle.                                                           *)

Keyed(l) == ProviderOf[l] \in Providers
Capped(u) == Throttled /\ Keyed(LaneOf[u])

\* capFor: how many leases a lane may hold now.
capForNoFloor(l) ==
  LET full == IF lane[l].limit > 0 THEN lane[l].limit ELSE Ceiling
  IN  IF circuit[ProviderOf[l]] # "closed" THEN 1
      ELSE IF lane[l].serverUntil > 0 THEN full \div 2
      ELSE full
capFor(l) ==
  LET full == IF lane[l].limit > 0 THEN lane[l].limit ELSE Ceiling
  IN  IF circuit[ProviderOf[l]] # "closed" THEN 1
      ELSE IF lane[l].serverUntil > 0 THEN larger(1, full \div 2)
      ELSE full

throttledLane(l) ==
  /\ Keyed(l)
  /\ lane[l].limit > 0 \/ lane[l].serverUntil > 0 \/ circuit[ProviderOf[l]] # "closed"

admitIgnoringProvider(l) == Keyed(l) => lane[l].inFlight < capFor(l)
admit(l) ==
  Keyed(l) =>
    IF circuit[ProviderOf[l]] # "closed"
    THEN inFlight[ProviderOf[l]] < 1
    ELSE lane[l].inFlight < capFor(l)

probe(l) ==
  /\ Keyed(l)
  /\ inFlight[ProviderOf[l]] = 0
  /\ circuit[ProviderOf[l]] = "half-open"

\* pick: the positions of queue s that are best to lease now.  A half-open
\* provider's probe goes first, then a healthy lane's, then a throttled one's.
Admitted(s) == {k \in DOMAIN s : admit(LaneOf[s[k]])}
Preferred(s) ==
  LET probes == {k \in Admitted(s) : probe(LaneOf[s[k]])}
      healthy == {k \in Admitted(s) : ~throttledLane(LaneOf[s[k]])}
  IN  IF probes # {} THEN probes ELSE IF healthy # {} THEN healthy ELSE Admitted(s)

First(K) == {k \in K : \A j \in K : k <= j}

\* take: the position to lease, as a set that is empty when there is none.
\* A done run leases in order, past every cap.
takeable(s, all) == First(IF Throttled /\ ~all THEN Preferred(s) ELSE DOMAIN s)

acquire(u) ==
  IF Capped(u)
  THEN /\ lane' = [lane EXCEPT ![LaneOf[u]].inFlight = @ + 1]
       /\ inFlight' = [inFlight EXCEPT ![ProviderOf[LaneOf[u]]] = @ + 1]
  ELSE UNCHANGED throttleVars

\* done's effect on the cap of lane record l, given the attempt's result r.
serverFail(r) == r.primary5xx \/ (~r.fallback /\ ~r.ok /\ r.class = "server")
rateLimited(r) == ~r.fallback /\ ~r.ok /\ r.class = "rate_limit"
raisedUncapped(n) == n + 1
raised(n) == IF n + 1 >= Ceiling THEN 0 ELSE n + 1

\* serverRun is only ever compared with serverStreak, so it stops there.
AfterServerFail(l) ==
  [l EXCEPT !.serverRun = IF @ + 1 >= ServerStreak THEN ServerStreak ELSE @ + 1,
            !.serverUntil = IF l.serverRun + 1 >= ServerStreak THEN ServerWindow ELSE @]
AfterRateLimit(l) ==
  [l EXCEPT !.limit = larger(1, (IF @ = 0 THEN Ceiling ELSE @) \div 2),
            !.until = RateBackoff]
AfterSuccess(l) ==
  [l EXCEPT !.serverRun = 0,
            !.limit = IF @ > 0 /\ l.until = 0 THEN raised(@) ELSE @]

cappedBy(l, r) ==
  IF serverFail(r) THEN AfterServerFail(l)
  ELSE IF rateLimited(r) THEN AfterRateLimit(l)
  ELSE IF r.ok /\ ~r.fallback THEN AfterSuccess(l)
  ELSE l

lessOne(l) == [l EXCEPT !.inFlight = @ - 1]
doneOnSuccessOnly(u, r) ==
  IF Capped(u) /\ r.ok
  THEN /\ lane' = [lane EXCEPT ![LaneOf[u]] = cappedBy(lessOne(@), r)]
       /\ inFlight' = [inFlight EXCEPT ![ProviderOf[LaneOf[u]]] = @ - 1]
  ELSE UNCHANGED throttleVars
done(u, r) ==
  IF Capped(u)
  THEN /\ lane' = [lane EXCEPT ![LaneOf[u]] = cappedBy(lessOne(@), r)]
       /\ inFlight' = [inFlight EXCEPT ![ProviderOf[LaneOf[u]]] = @ - 1]
  ELSE UNCHANGED throttleVars

-----------------------------------------------------------------------------
(* The queue.                                                              *)

Init ==
  /\ pending = [k \in 1..NumUnits |-> k]
  /\ delayed = <<>>
  /\ held = 0
  /\ cancelled = FALSE
  /\ pc = [w \in Workers |-> "lease"]
  /\ unit = [w \in Workers |-> NoUnit]
  /\ backoff = [w \in Workers |-> 0]
  /\ wake = [w \in Workers |-> NoTimer]
  /\ listens = [w \in Workers |-> FALSE]
  /\ retry = [u \in Units |-> [attempts |-> 0, circuitWaits |-> 0, spent |-> 0,
                               circuitSpent |-> 0]]
  /\ result = [u \in Units |-> NoResult]
  /\ lane = [l \in Lanes |-> [inFlight |-> 0, limit |-> 0, until |-> 0,
                              serverRun |-> 0, serverUntil |-> 0]]
  /\ inFlight = [p \in Providers |-> 0]
  /\ circuit = [p \in Providers |-> "closed"]
  /\ started = {}
  /\ reported = [u \in Units |-> 0]

\* promote: delayed units whose backoff has passed, all of them once the run is
\* done, go behind the pending ones in the order they were delayed.
Ready(d) == cancelled \/ d.left = 0
NotReadyKeepsAll(d) == TRUE
NotReady(d) == ~Ready(d)
readyUnits == LET s == At(delayed, {k \in DOMAIN delayed : Ready(delayed[k])})
              IN  [k \in DOMAIN s |-> s[k].unit]
keptDelayed == At(delayed, {k \in DOMAIN delayed : NotReady(delayed[k])})

Without(s, k) == SubSeq(s, 1, k - 1) \o SubSeq(s, k + 1, Len(s))

nextReady(s) == CHOOSE n \in {s[k].left : k \in DOMAIN s} :
                  \A k \in DOMAIN s : n <= s[k].left

LeaseUnit(w, queue, all) ==
  \E k \in takeable(queue, all) :
    /\ pending' = Without(queue, k)
    /\ held' = held + 1
    /\ acquire(queue[k])
    /\ unit' = [unit EXCEPT ![w] = queue[k]]
    /\ pc' = [pc EXCEPT ![w] = "leased"]
    /\ UNCHANGED wake

DrainedIgnoringHeld(queue, waiting) == queue = <<>> /\ waiting = <<>>
Drained(queue, waiting) == queue = <<>> /\ waiting = <<>> /\ held = 0

LeaseNone(w, queue, waiting, all) ==
  /\ takeable(queue, all) = {}
  /\ pending' = queue
  /\ IF Drained(queue, waiting)
     THEN /\ pc' = [pc EXCEPT ![w] = "exited"]
          /\ UNCHANGED wake
     ELSE /\ pc' = [pc EXCEPT ![w] = "parking"]
          /\ wake' = [wake EXCEPT ![w] = IF waiting = <<>> THEN NoTimer
                                         ELSE nextReady(waiting)]
  /\ UNCHANGED <<held, unit, throttleVars>>

\* lease, as far as the queue's mutex is held.  promote and take each look at
\* the context, and the run may be cancelled between the two looks.
Lease(w) ==
  /\ pc[w] = "lease"
  /\ LET queue == pending \o readyUnits
         waiting == keptDelayed
     IN  /\ delayed' = waiting
         /\ \E all \in {cancelled, TRUE} :
              /\ cancelled' = all
              /\ LeaseUnit(w, queue, all) \/ LeaseNone(w, queue, waiting, all)
  /\ UNCHANGED <<backoff, listens, retry, result, circuit, hookVars>>

\* lease, after the unlock: the context is looked at a second time, and a done
\* one is left out of the select.
Park(w) ==
  /\ pc[w] = "parking"
  /\ pc' = [pc EXCEPT ![w] = "waiting"]
  /\ listens' = [listens EXCEPT ![w] = ~cancelled]
  /\ UNCHANGED <<queueVars, throttleVars, hookVars, cancelled, unit, backoff, wake,
                 retry, result, circuit>>

\* The select returns on the timer or on the context.
Wake(w) ==
  /\ pc[w] = "waiting"
  /\ wake[w] = 0 \/ (listens[w] /\ cancelled)
  /\ pc' = [pc EXCEPT ![w] = "lease"]
  /\ wake' = [wake EXCEPT ![w] = NoTimer]
  /\ listens' = [listens EXCEPT ![w] = FALSE]
  /\ UNCHANGED <<queueVars, throttleVars, hookVars, cancelled, unit, backoff, retry,
                 result, circuit>>

\* signal closes the channel every blocked worker took under the mutex; worker
\* w, which signals, goes on to its next lease.
Blocked(w) == pc[w] \in {"parking", "waiting"}
SignalNobody(w) ==
  /\ pc' = [pc EXCEPT ![w] = "lease"]
  /\ UNCHANGED <<wake, listens>>
signal(w) ==
  /\ pc' = [v \in Workers |-> IF v = w \/ Blocked(v) THEN "lease" ELSE pc[v]]
  /\ wake' = [v \in Workers |-> IF Blocked(v) THEN NoTimer ELSE wake[v]]
  /\ listens' = [v \in Workers |-> IF Blocked(v) THEN FALSE ELSE listens[v]]

\* A worker gives its unit back: held and the throttle's counts go down.
GiveBack(w) ==
  /\ held' = held - 1
  /\ done(unit[w], result[unit[w]])
  /\ unit' = [unit EXCEPT ![w] = NoUnit]
  /\ signal(w)

requeue(w) ==
  /\ pc[w] = "requeue"
  /\ GiveBack(w)
  /\ delayed' = Append(delayed, [unit |-> unit[w], left |-> backoff[w]])
  /\ backoff' = [backoff EXCEPT ![w] = 0]
  /\ UNCHANGED <<pending, hookVars, cancelled, retry, result, circuit>>

release(w) ==
  /\ pc[w] = "release"
  /\ GiveBack(w)
  /\ UNCHANGED <<pending, delayed, backoff, hookVars, cancelled, retry, result, circuit>>

-----------------------------------------------------------------------------
(* runUnit.                                                                *)

\* A unit re-leased after the run was cancelled keeps its last result.
KeepResult(w) ==
  /\ pc[w] = "leased"
  /\ cancelled /\ retry[unit[w]].attempts > 0
  /\ pc' = [pc EXCEPT ![w] = "resolved"]
  /\ UNCHANGED <<queueVars, throttleVars, hookVars, unit, backoff, wake, listens,
                 cancelled, retry, result, circuit>>

Proceed(w) ==
  /\ pc[w] = "leased"
  /\ ~(cancelled /\ retry[unit[w]].attempts > 0)
  /\ pc' = [pc EXCEPT ![w] = "starting"]
  /\ UNCHANGED <<queueVars, throttleVars, hookVars, unit, backoff, wake, listens,
                 cancelled, retry, result, circuit>>

\* The serial lane looks at the context again and makes up a result.
ShortCircuitSilent(w) ==
  /\ pc[w] = "starting"
  /\ Serial /\ cancelled
  /\ pc' = [pc EXCEPT ![w] = "resolved"]
  /\ UNCHANGED <<queueVars, throttleVars, hookVars, unit, backoff, wake, listens,
                 cancelled, retry, result, circuit>>
ShortCircuit(w) ==
  /\ pc[w] = "starting"
  /\ Serial /\ cancelled
  /\ result' = [result EXCEPT ![unit[w]] = NeverCalled]
  /\ pc' = [pc EXCEPT ![w] = "resolved"]
  /\ UNCHANGED <<queueVars, throttleVars, hookVars, unit, backoff, wake, listens,
                 cancelled, retry, circuit>>

\* The lease hook fires unless the run is done, and the walk begins.
StartCall(w) ==
  /\ pc[w] = "starting"
  /\ ~(Serial /\ cancelled)
  /\ started' = IF cancelled THEN started ELSE started \cup {unit[w]}
  /\ pc' = [pc EXCEPT ![w] = "calling"]
  /\ UNCHANGED <<queueVars, throttleVars, unit, backoff, wake, listens, cancelled,
                 retry, result, reported, circuit>>

holdRateLimit(u) == u \in Covered /\ next("rate_limit", calls(u) + 1, retry[u].spent) # NoTimer

\* The class settle budgets for: a walk that made a real call before it ended
\* on an open breaker spent an attempt.
budgetClass(r) == IF r.class = "circuit_open" /\ ~r.fastOnly THEN "transport" ELSE r.class

Final(w) ==
  /\ pc' = [pc EXCEPT ![w] = "resolved"]
  /\ UNCHANGED <<backoff, started>>

\* slotRequeue is called, and the unit goes back to the queue with backoff b.
Again(w, b) ==
  /\ pc' = [pc EXCEPT ![w] = "requeue"]
  /\ backoff' = [backoff EXCEPT ![w] = b]
  /\ started' = started \ {unit[w]}

settleFinal(w, u) ==
  /\ retry' = [retry EXCEPT ![u].attempts = @ + 1]
  /\ Final(w)

settleCircuitWait(w, u) ==
  LET b == nextCircuitWait(retry[u].circuitSpent)
  IN  /\ retry' = [retry EXCEPT ![u].attempts = @ + 1,
                                ![u].circuitWaits = @ + 1,
                                ![u].circuitSpent = IF b = NoTimer THEN @ ELSE @ + b]
      /\ IF b = NoTimer THEN Final(w) ELSE Again(w, b)

settleRetry(w, u, class) ==
  LET b == next(class, calls(u) + 1, retry[u].spent)
  IN  /\ retry' = [retry EXCEPT ![u].attempts = @ + 1,
                                ![u].spent = IF b = NoTimer THEN @ ELSE @ + b]
      /\ IF b = NoTimer THEN Final(w) ELSE Again(w, b)

settleAfterCancel(w, u, r) ==
  IF u \notin Covered \/ r.ok \/ r.class = "final"
  THEN settleFinal(w, u)
  ELSE IF budgetClass(r) = "circuit_open" THEN settleCircuitWait(w, u)
  ELSE settleRetry(w, u, budgetClass(r))
settle(w, u, r) ==
  IF u \notin Covered \/ r.ok \/ cancelled \/ r.class = "final"
  THEN settleFinal(w, u)
  ELSE IF budgetClass(r) = "circuit_open" THEN settleCircuitWait(w, u)
  ELSE settleRetry(w, u, budgetClass(r))

\* The walk ends and is settled.  A unit whose lease hook did not fire was
\* leased after the cancel, and its walk stops before the first call.
EndCall(w) ==
  /\ pc[w] = "calling"
  /\ LET u == unit[w]
     IN  \E r \in (IF u \in started THEN WalkResults(u, holdRateLimit(u)) ELSE {NeverCalled}) :
           /\ result' = [result EXCEPT ![u] = r]
           /\ settle(w, u, r)
  /\ UNCHANGED <<queueVars, throttleVars, unit, wake, listens, cancelled, reported, circuit>>

\* recoverUnit: a panicking unit fails without counting an attempt.
Panic(w) ==
  /\ pc[w] = "calling"
  /\ result' = [result EXCEPT ![unit[w]] = PrimaryFailed("other")]
  /\ Final(w)
  /\ UNCHANGED <<queueVars, throttleVars, unit, wake, listens, cancelled, retry, reported,
                 circuit>>

\* done: the completion hook, before the unit is released.
Report(w) ==
  /\ pc[w] = "resolved"
  /\ reported' = [reported EXCEPT ![unit[w]] = @ + 1]
  /\ started' = started \ {unit[w]}
  /\ pc' = [pc EXCEPT ![w] = "release"]
  /\ UNCHANGED <<queueVars, throttleVars, unit, backoff, wake, listens, cancelled, retry,
                 result, circuit>>

-----------------------------------------------------------------------------
(* The run.                                                                *)

\* The caller's context ends: its ceiling, a signal, a shutdown.
Cancel ==
  /\ ~cancelled
  /\ cancelled' = TRUE
  /\ UNCHANGED <<queueVars, workerVars, throttleVars, hookVars, retry, result, circuit>>

\* Time passes: every timer that is running comes one unit closer.
lower(n) == IF n > 0 THEN n - 1 ELSE n
Running ==
  \/ \E k \in DOMAIN delayed : delayed[k].left > 0
  \/ \E w \in Workers : wake[w] > 0
  \/ \E l \in Lanes : lane[l].until > 0 \/ lane[l].serverUntil > 0
Tick ==
  /\ Running
  /\ delayed' = [k \in DOMAIN delayed |-> [delayed[k] EXCEPT !.left = lower(@)]]
  /\ wake' = [w \in Workers |-> lower(wake[w])]
  /\ lane' = [l \in Lanes |-> [lane[l] EXCEPT !.until = lower(@), !.serverUntil = lower(@)]]
  /\ UNCHANGED <<pending, held, pc, unit, backoff, listens, inFlight, hookVars, cancelled,
                 retry, result, circuit>>

\* A provider's circuit moves, on this run's traffic or on another's.
BreakerMove(p) ==
  /\ \E s \in Cb!CircuitSucc(circuit[p]) : circuit' = [circuit EXCEPT ![p] = s]
  /\ UNCHANGED <<queueVars, workerVars, throttleVars, hookVars, cancelled, retry, result>>

AllExited == \A w \in Workers : pc[w] = "exited"

\* Run has returned.
Terminated == AllExited /\ UNCHANGED vars

WorkerStep(w) ==
  \/ Lease(w) \/ Park(w) \/ Wake(w)
  \/ KeepResult(w) \/ Proceed(w) \/ ShortCircuit(w) \/ StartCall(w)
  \/ EndCall(w) \/ Panic(w) \/ Report(w)
  \/ requeue(w) \/ release(w)

Next ==
  \/ \E w \in Workers : WorkerStep(w)
  \/ Cancel
  \/ Tick
  \/ \E p \in Providers : BreakerMove(p)
  \/ Terminated

Spec == Init /\ [][Next]_vars

\* A worker that can go on does: its call ends (the unit's deadline bounds the
\* walk) and q.mu is never held across one.  Time passes.  Nothing is assumed
\* of the circuits, the providers or the caller's context.
Fairness == (\A w \in Workers : WF_vars(WorkerStep(w))) /\ WF_vars(Tick)
FairSpec == Spec /\ Fairness

-----------------------------------------------------------------------------
(* Properties.                                                             *)

Timers == Nat \cup {NoTimer}

TypeOK ==
  /\ pending \in Seq(Units)
  /\ delayed \in Seq([unit : Units, left : Nat])
  /\ held \in Nat
  /\ cancelled \in BOOLEAN
  /\ pc \in [Workers -> {"lease", "parking", "waiting", "leased", "starting", "calling",
                         "requeue", "resolved", "release", "exited"}]
  /\ unit \in [Workers -> Units \cup {NoUnit}]
  /\ backoff \in [Workers -> Nat]
  /\ wake \in [Workers -> Timers]
  /\ listens \in [Workers -> BOOLEAN]
  /\ retry \in [Units -> [attempts : Nat, circuitWaits : Nat, spent : Nat, circuitSpent : Nat]]
  /\ result \in [Units -> Results]
  /\ lane \in [Lanes -> [inFlight : Nat, limit : 0..Ceiling, until : Nat,
                        serverRun : 0..ServerStreak, serverUntil : Nat]]
  /\ inFlight \in [Providers -> Nat]
  /\ circuit \in [Providers -> Cb!CircuitStates]
  /\ started \subseteq Units
  /\ reported \in [Units -> Nat]

\* No unit is lost and none is held twice: at every moment a unit is in exactly
\* one place, pending, delayed, with one worker, or reported for good (the
\* three places of the comment on unitQueue, and the hook that fires once).
UnitInOnePlace ==
  \A u \in Units :
    1 = Cardinality({k \in DOMAIN pending : pending[k] = u})
          + Cardinality({k \in DOMAIN delayed : delayed[k].unit = u})
          + Cardinality({w \in Workers : unit[w] = u /\ pc[w] # "release"})
          + reported[u]

Holders == {w \in Workers : unit[w] # NoUnit}
HoldersOf(p) == {w \in Holders : ProviderOf[LaneOf[unit[w]]] = p}
HoldersOn(l) == {w \in Holders : LaneOf[unit[w]] = l}

\* The queue's held and the throttle's two in-flight counts are exact, on every
\* path that gives a unit back: requeued, resolved, kept, panicked, cancelled.
\* A count that stays up would cap its lane for the rest of the run.
InFlightExact ==
  /\ held = Cardinality(Holders)
  /\ Throttled => \A l \in Lanes : Keyed(l) => lane[l].inFlight = Cardinality(HoldersOn(l))
  /\ Throttled =>
       \A p \in Providers : inFlight[p] = Cardinality(HoldersOf(p))

\* lease's comment: a pending unit the throttle skips has a unit of its lane or
\* provider held, whatever the circuit and the caps did since.
SkippedHasHolder ==
  (Throttled /\ ~cancelled) =>
    \A k \in DOMAIN pending :
      ~admit(LaneOf[pending[k]]) =>
        HoldersOf(ProviderOf[LaneOf[pending[k]]]) # {}

\* verdict's comment: an outage is provider-wide.  While a provider's circuit is
\* not closed its leases, over all its lanes, drain down to one and stay there.
OutageOneLease ==
  [][Throttled /\ ~cancelled' =>
       \A p \in Providers :
         circuit[p] # "closed" =>
           Cardinality(HoldersOf(p)') <= larger(1, Cardinality(HoldersOf(p)))]_vars

\* No lost wakeup: a blocked worker has something to wait for, and its timer is
\* not later than the first delayed unit's, also when another worker delays a
\* unit after it blocked.
BlockedWillWake ==
  \A w \in Workers :
    Blocked(w) =>
      /\ held > 0 \/ delayed # <<>>
      /\ \A k \in DOMAIN delayed : wake[w] # NoTimer /\ wake[w] <= delayed[k].left

\* A worker leaves only a drained queue, and nothing comes back to it after.
ExitMeansDrained ==
  (\E w \in Workers : pc[w] = "exited") => pending = <<>> /\ delayed = <<>> /\ held = 0

\* Neither budget of a covered unit is ever overrun, however its failures mix
\* rate limits, outages and fail-fasts on an open breaker.
BudgetsHold ==
  \A u \in Covered :
    /\ calls(u) <= MaxAttempts
    /\ retry[u].spent <= Budget
    /\ retry[u].circuitSpent <= CircuitBudget

\* Once the run is cancelled no unit starts a call and none is given a backoff
\* but by a worker that had settled it before.
CancelStopsWork ==
  [][cancelled => /\ started' \subseteq started
                  /\ \A w \in Workers : pc'[w] = "requeue" => pc[w] = "requeue"]_vars

\* Run keeps its contract with the caller.
Slots == INSTANCE SlotContract WITH
           final <- [u \in Units |-> IF reported[u] > 0 THEN result[u] ELSE NoResult],
           returned <- AllExited
RefinesSlotContract == Slots!Spec
=============================================================================
