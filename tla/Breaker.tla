------------------------------ MODULE Breaker ------------------------------
(***************************************************************************)
(* One provider's circuit breaker (internal/circuitbreaker/breaker.go) and *)
(* the callers that share it: goroutines inside Client.send, each running  *)
(* the retry loop of Client.dispatch (internal/llmclient/client.go).       *)
(*                                                                         *)
(* Every breaker method holds the breaker's mutex for its whole body, so   *)
(* each is one step; what interleaves is everything between Allow and the  *)
(* verdict, which spans a whole retry schedule.                            *)
(***************************************************************************)
EXTENDS Naturals

CONSTANTS Callers,     \* goroutines that call the provider
          Threshold,   \* consecutive failures that trip the circuit
          Cooldown,    \* clock units an open circuit waits
          MaxRetries   \* attempts after the first in one dispatch

ASSUME BreakerAssumption ==
  /\ Threshold \in Nat \ {0}
  /\ Cooldown \in Nat \ {0}
  /\ MaxRetries \in Nat

VARIABLES
  state,          \* "closed", "open" or "half-open"
  failureCount,   \* the consecutive-failure run
  elapsed,        \* now - openedAt, no longer counted once it reaches Cooldown
  probeInFlight,  \* the half-open slot is taken
  pc,             \* where each caller is: "idle", "sending" or "reporting"
  admitted,       \* the state Allow admitted the caller's call in, or "none"
  attempt,        \* dispatch's attempt index
  verdict,        \* what send is about to tell the breaker
  stragglers      \* history: calls in flight when the circuit last tripped

breakerVars == <<state, failureCount, elapsed, probeInFlight>>
callVars == <<pc, admitted, attempt, verdict>>
vars == <<breakerVars, callVars, stragglers>>

States == {"closed", "open", "half-open"}
Verdicts == {"none", "success", "failure", "release"}

InFlight == {c \in Callers : pc[c] # "idle"}
Probes == {c \in Callers : admitted[c] = "half-open"}

-----------------------------------------------------------------------------
(* The breaker.                                                            *)

Init ==
  /\ state = "closed"
  /\ failureCount = 0
  /\ elapsed = 0
  /\ probeInFlight = FALSE
  /\ pc = [c \in Callers |-> "idle"]
  /\ admitted = [c \in Callers |-> "none"]
  /\ attempt = [c \in Callers |-> 0]
  /\ verdict = [c \in Callers |-> "none"]
  /\ stragglers = {}

\* refresh: the state once a cooled-down open circuit has rolled forward.
refresh == IF state = "open" /\ elapsed >= Cooldown THEN "half-open" ELSE state

\* A caller enters dispatch, admitted while the circuit was in state s.
Admit(c, s) ==
  /\ pc' = [pc EXCEPT ![c] = "sending"]
  /\ admitted' = [admitted EXCEPT ![c] = s]
  /\ attempt' = [attempt EXCEPT ![c] = 0]
  /\ UNCHANGED verdict

\* Allow on a closed circuit.
AllowClosedUnlessProbing(c) ==
  /\ refresh # "half-open"
  /\ Admit(c, "closed")
  /\ UNCHANGED probeInFlight
AllowClosed(c) ==
  /\ refresh = "closed"
  /\ Admit(c, "closed")
  /\ UNCHANGED probeInFlight

\* Allow on a half-open circuit whose slot is free: the caller is the probe.
AllowProbe(c) ==
  /\ refresh = "half-open"
  /\ ~probeInFlight
  /\ probeInFlight' = TRUE
  /\ Admit(c, "half-open")

\* Allow fails fast: send returns CircuitOpenError without a request.
AllowRefused(c) ==
  /\ refresh = "open" \/ (refresh = "half-open" /\ probeInFlight)
  /\ UNCHANGED <<probeInFlight, callVars>>

Allow(c) ==
  /\ pc[c] = "idle"
  /\ state' = refresh
  /\ AllowClosed(c) \/ AllowProbe(c) \/ AllowRefused(c)
  /\ UNCHANGED <<failureCount, elapsed, stragglers>>

\* State: the throttle and the metrics read the state, rolled forward.
ReadState ==
  /\ state' = refresh
  /\ UNCHANGED <<failureCount, elapsed, probeInFlight, callVars, stragglers>>

\* open: every call still in flight now predates the trip.
openKeepingRun(c) ==
  /\ state' = "open"
  /\ elapsed' = 0
  /\ failureCount' = failureCount + 1
  /\ stragglers' = InFlight \ {c}
open(c) ==
  /\ state' = "open"
  /\ elapsed' = 0
  /\ failureCount' = 0
  /\ stragglers' = InFlight \ {c}

RecordSuccessAnyState(c) ==
  /\ state' = "closed"
  /\ failureCount' = 0
  /\ probeInFlight' = FALSE
  /\ stragglers' = stragglers \ {c}
  /\ UNCHANGED elapsed
RecordSuccess(c) ==
  /\ state' = IF state = "half-open" THEN "closed" ELSE state
  /\ failureCount' = 0
  /\ probeInFlight' = IF state = "half-open" THEN FALSE ELSE probeInFlight
  /\ stragglers' = stragglers \ {c}
  /\ UNCHANGED elapsed

\* A failure that does not trip: it lengthens the closed circuit's run, and an
\* open circuit ignores it.
FailureCountedOneMore(c) ==
  /\ \/ /\ state = "closed"
        /\ failureCount + 1 <= Threshold
        /\ failureCount' = failureCount + 1
     \/ state = "open" /\ UNCHANGED failureCount
  /\ stragglers' = stragglers \ {c}
  /\ UNCHANGED <<state, elapsed, probeInFlight>>
FailureCounted(c) ==
  /\ \/ /\ state = "closed"
        /\ failureCount + 1 < Threshold
        /\ failureCount' = failureCount + 1
     \/ state = "open" /\ UNCHANGED failureCount
  /\ stragglers' = stragglers \ {c}
  /\ UNCHANGED <<state, elapsed, probeInFlight>>

FailureTrips(c) ==
  /\ state = "closed"
  /\ failureCount + 1 >= Threshold
  /\ open(c)
  /\ UNCHANGED probeInFlight

FailureReopensKeepingSlot(c) ==
  /\ state = "half-open"
  /\ open(c)
  /\ UNCHANGED probeInFlight
FailureReopens(c) ==
  /\ state = "half-open"
  /\ open(c)
  /\ probeInFlight' = FALSE

RecordFailure(c) == FailureCounted(c) \/ FailureTrips(c) \/ FailureReopens(c)

ReleaseProbeNothing(c) ==
  /\ stragglers' = stragglers \ {c}
  /\ UNCHANGED <<state, failureCount, elapsed, probeInFlight>>
ReleaseProbe(c) ==
  /\ probeInFlight' = FALSE
  /\ stragglers' = stragglers \ {c}
  /\ UNCHANGED <<state, failureCount, elapsed>>

-----------------------------------------------------------------------------
(* The callers: send and dispatch.                                         *)

\* What one attempt brings back.  "server_final" is a 5xx outside
\* retryableStatus, "unreadable" a 200 whose body cannot be read or is over
\* the cap, "transport" no response while the caller's own context is live
\* (connection errors, and a stall that trips the HTTP client's timeout).
Replies == {"ok", "unreadable", "rate_limited", "server", "server_final",
            "client", "transport"}

\* The replies dispatch retries: status 0, 429 and the retryable 5xx.
Retryable == {"transport", "rate_limited", "server"}

\* isBreakerFailure, of the error a reply becomes.
isBreakerFailure(r) == r \in {"transport", "server", "server_final", "unreadable"}

\* The switch of send, of the reply dispatch gave up with.  A stall whose
\* caller's own deadline has passed by the time send looks at it is released.
VerdictsOf(r) ==
  (IF isBreakerFailure(r) THEN {"failure"} ELSE {"success"})
    \cup (IF r = "transport" THEN {"release"} ELSE {})

Finish(c, v) ==
  /\ pc' = [pc EXCEPT ![c] = "reporting"]
  /\ verdict' = [verdict EXCEPT ![c] = v]
  /\ UNCHANGED <<breakerVars, admitted, attempt, stragglers>>

\* A retryable reply with budget left: back off and try again.
Retry(c) ==
  /\ pc[c] = "sending"
  /\ attempt[c] < MaxRetries
  /\ attempt' = [attempt EXCEPT ![c] = @ + 1]
  /\ UNCHANGED <<breakerVars, pc, admitted, verdict, stragglers>>

\* dispatch returns: a final reply, or a retryable one on the last attempt.
Return(c) ==
  /\ pc[c] = "sending"
  /\ \E r \in Replies :
       /\ r \in Retryable => attempt[c] = MaxRetries
       /\ \E v \in VerdictsOf(r) : Finish(c, v)

\* The caller's context ends mid-attempt or mid-backoff (cancelled, or past
\* its own deadline), or the call panics: nothing was learned.
Abandon(c) == pc[c] = "sending" /\ Finish(c, "release")

\* send reports its verdict, exactly once per admitted call.
Report(c) ==
  /\ pc[c] = "reporting"
  /\ \/ verdict[c] = "success" /\ RecordSuccess(c)
     \/ verdict[c] = "failure" /\ RecordFailure(c)
     \/ verdict[c] = "release" /\ ReleaseProbe(c)
  /\ pc' = [pc EXCEPT ![c] = "idle"]
  /\ admitted' = [admitted EXCEPT ![c] = "none"]
  /\ verdict' = [verdict EXCEPT ![c] = "none"]
  /\ UNCHANGED attempt

\* The clock, as far as refresh can see it.
Tick ==
  /\ state = "open"
  /\ elapsed < Cooldown
  /\ elapsed' = elapsed + 1
  /\ UNCHANGED <<state, failureCount, probeInFlight, callVars, stragglers>>

Next ==
  \/ \E c \in Callers : Allow(c) \/ Retry(c) \/ Return(c) \/ Abandon(c) \/ Report(c)
  \/ ReadState
  \/ Tick

Spec == Init /\ [][Next]_vars

\* An attempt ends (the HTTP client or the caller's deadline bounds it), the
\* retry loop is bounded, and a returned call reports.  Nothing is assumed of
\* new calls or of the provider.
Fairness == \A c \in Callers :
  /\ WF_vars(Retry(c) \/ Return(c) \/ Abandon(c))
  /\ WF_vars(Report(c))

FairSpec == Spec /\ Fairness

-----------------------------------------------------------------------------
(* Properties.                                                             *)

TypeOK ==
  /\ state \in States
  /\ failureCount \in 0..(Threshold - 1)
  /\ elapsed \in 0..Cooldown
  /\ probeInFlight \in BOOLEAN
  /\ pc \in [Callers -> {"idle", "sending", "reporting"}]
  /\ admitted \in [Callers -> {"none", "closed", "half-open"}]
  /\ attempt \in [Callers -> 0..MaxRetries]
  /\ verdict \in [Callers -> Verdicts]
  /\ stragglers \subseteq Callers

\* The slot is never wedged: whenever the half-open slot is taken, a call that
\* Allow admitted as a probe is still in flight, so its report will free it.
\* ReleaseProbe's comment rests on the first half: outside half-open the slot
\* is always free.
SlotHasOwner ==
  probeInFlight => state = "half-open" /\ Probes \cap InFlight # {}

\* While the circuit is open no request is in flight but those that were there
\* when it tripped: the cooldown is a real pause, whatever late verdicts,
\* stale probes and state reads do meanwhile.
OpenAdmitsNobody == state = "open" => InFlight \subseteq stragglers

\* A circuit that is not closed carries no failure run, so the closed circuit
\* that follows a recovery starts with the full threshold before it.
FailureRunClean == state # "closed" => failureCount = 0

\* A taken slot is eventually freed, so other callers are not failed fast
\* forever by a probe that never resolves.
ProbeResolves == probeInFlight ~> ~probeInFlight

\* The breaker implements the circuit its readers see.
C == INSTANCE Circuit WITH circuit <- state
RefinesCircuit == C!Spec

\* The comment on probeInFlight: half-open is gated to a single trial request.
\* A call admitted before the trip that is cancelled while another call probes
\* frees a slot it does not own, so a second probe is admitted beside it.
SingleProbe == \A c, d \in Probes : c = d
=============================================================================
