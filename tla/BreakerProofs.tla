--------------------------- MODULE BreakerProofs ---------------------------
(***************************************************************************)
(* Theorems about Breaker, for any set of callers, threshold, cooldown and *)
(* retry budget.                                                           *)
(***************************************************************************)
EXTENDS Breaker, TLAPS

\* A caller that is not idle holds an admission, and one that is idle none.
AdmissionMatchesPc == \A c \in Callers : pc[c] = "idle" <=> admitted[c] = "none"

\* A caller about to report has something to report.
ReportHasVerdict == \A c \in Callers : pc[c] = "reporting" => verdict[c] # "none"

\* The inductive invariant.
IInv ==
  /\ TypeOK
  /\ SlotHasOwner
  /\ OpenAdmitsNobody
  /\ FailureRunClean
  /\ AdmissionMatchesPc
  /\ ReportHasVerdict

-----------------------------------------------------------------------------

\* The breaker starts closed with its slot free and nobody in flight.
LEMMA InitIInv == Init => IInv
<1> SUFFICES ASSUME Init PROVE IInv
  OBVIOUS
<1>1. failureCount \in 0..(Threshold - 1) /\ elapsed \in 0..Cooldown
  BY BreakerAssumption DEF Init
<1>2. probeInFlight \in BOOLEAN
  BY DEF Init
<1>3. TypeOK
  BY <1>1, <1>2, BreakerAssumption DEF Init, TypeOK, States, Verdicts
<1>4. SlotHasOwner /\ OpenAdmitsNobody /\ FailureRunClean
  BY DEF Init, SlotHasOwner, OpenAdmitsNobody, FailureRunClean, InFlight
<1>5. AdmissionMatchesPc /\ ReportHasVerdict
  BY DEF Init, AdmissionMatchesPc, ReportHasVerdict
<1> QED
  BY <1>3, <1>4, <1>5 DEF IInv

\* Allow preserves the invariant: an admission on half-open takes the slot and
\* owns it, and an open circuit admits nobody.
LEMMA AllowIInv ==
  ASSUME IInv, NEW c \in Callers, Allow(c)
  PROVE  IInv'
<1> USE BreakerAssumption
<1>1. TypeOK'
  <2>1. probeInFlight' \in BOOLEAN
    BY DEF IInv, TypeOK, Allow, AllowClosed, AllowProbe, AllowRefused
  <2>2. /\ state' \in States
        /\ pc' \in [Callers -> {"idle", "sending", "reporting"}]
        /\ admitted' \in [Callers -> {"none", "closed", "half-open"}]
        /\ attempt' \in [Callers -> 0..MaxRetries]
        /\ verdict' \in [Callers -> Verdicts]
    BY DEF IInv, TypeOK, Allow, AllowClosed, AllowProbe, AllowRefused, Admit,
           callVars, refresh, States
  <2> QED
    BY <2>1, <2>2 DEF IInv, TypeOK, Allow
<1>2. SlotHasOwner'
  <2>1. CASE AllowProbe(c)
    <3>1. state' = "half-open"
      BY <2>1 DEF Allow, AllowProbe
    <3>2. c \in Probes' /\ c \in InFlight'
      BY <2>1 DEF IInv, TypeOK, AllowProbe, Admit, Probes, InFlight
    <3> QED
      BY <3>1, <3>2 DEF SlotHasOwner
  <2>2. CASE AllowClosed(c)
    BY <2>2 DEF IInv, TypeOK, SlotHasOwner, Allow, AllowClosed, refresh, States
  <2>3. CASE AllowRefused(c)
    BY <2>3 DEF IInv, TypeOK, SlotHasOwner, Allow, AllowRefused, callVars,
                refresh, Probes, InFlight, States
  <2> QED
    BY <2>1, <2>2, <2>3 DEF Allow
<1>3. OpenAdmitsNobody'
  BY DEF IInv, TypeOK, OpenAdmitsNobody, Allow, AllowClosed, AllowProbe,
         AllowRefused, Admit, callVars, refresh, InFlight, States
<1>4. FailureRunClean'
  BY DEF IInv, TypeOK, FailureRunClean, Allow, refresh, States
<1>5. AdmissionMatchesPc' /\ ReportHasVerdict'
  BY DEF IInv, TypeOK, AdmissionMatchesPc, ReportHasVerdict, Allow, AllowClosed,
         AllowProbe, AllowRefused, Admit, callVars
<1> QED
  BY <1>1, <1>2, <1>3, <1>4, <1>5 DEF IInv

\* The steps inside dispatch leave the breaker alone and keep the call in flight.
LEMMA DispatchIInv ==
  ASSUME IInv, NEW c \in Callers, Retry(c) \/ Return(c) \/ Abandon(c)
  PROVE  IInv'
<1> USE BreakerAssumption
<1>1. CASE Retry(c)
  BY <1>1 DEF IInv, TypeOK, SlotHasOwner, OpenAdmitsNobody, FailureRunClean,
              AdmissionMatchesPc, ReportHasVerdict, Retry, breakerVars, InFlight,
              Probes, States, Verdicts
<1>2. ASSUME NEW v \in {"success", "failure", "release"}, pc[c] = "sending", Finish(c, v)
      PROVE  IInv'
  <2>1. TypeOK'
    BY <1>2 DEF IInv, TypeOK, Finish, breakerVars, States, Verdicts
  <2>2. InFlight' = InFlight /\ Probes' = Probes
    BY <1>2 DEF IInv, TypeOK, Finish, InFlight, Probes
  <2>3. SlotHasOwner' /\ OpenAdmitsNobody' /\ FailureRunClean'
    BY <1>2, <2>2 DEF IInv, SlotHasOwner, OpenAdmitsNobody, FailureRunClean, Finish,
                      breakerVars
  <2>4. AdmissionMatchesPc' /\ ReportHasVerdict'
    BY <1>2 DEF IInv, TypeOK, AdmissionMatchesPc, ReportHasVerdict, Finish, Verdicts
  <2> QED
    BY <2>1, <2>3, <2>4 DEF IInv
<1>3. CASE Return(c)
  <2>1. PICK r \in Replies : \E v \in VerdictsOf(r) : Finish(c, v)
    BY <1>3 DEF Return
  <2>2. PICK v \in VerdictsOf(r) : Finish(c, v)
    BY <2>1
  <2>3. v \in {"success", "failure", "release"}
    BY DEF VerdictsOf, isBreakerFailure
  <2> QED
    BY <1>2, <1>3, <2>2, <2>3 DEF Return
<1>4. CASE Abandon(c)
  BY <1>2, <1>4 DEF Abandon
<1> QED
  BY <1>1, <1>3, <1>4

\* A report ends its call, and in half-open it always frees the slot, whoever
\* reports: that is why a taken slot always has an owner in flight.
LEMMA ReportIInv ==
  ASSUME IInv, NEW c \in Callers, Report(c)
  PROVE  IInv'
<1> USE BreakerAssumption
<1>1. InFlight' = InFlight \ {c}
  BY DEF IInv, TypeOK, Report, InFlight
<1>2. AdmissionMatchesPc' /\ ReportHasVerdict'
  BY DEF IInv, TypeOK, AdmissionMatchesPc, ReportHasVerdict, Report
<1>3. /\ pc' \in [Callers -> {"idle", "sending", "reporting"}]
      /\ admitted' \in [Callers -> {"none", "closed", "half-open"}]
      /\ attempt' \in [Callers -> 0..MaxRetries]
      /\ verdict' \in [Callers -> Verdicts]
  BY DEF IInv, TypeOK, Report, Verdicts
<1>4. probeInFlight' = FALSE
  <2>1. state # "half-open" => probeInFlight = FALSE
    BY DEF IInv, TypeOK, SlotHasOwner
  <2> QED
    BY <2>1 DEF IInv, TypeOK, Report, RecordSuccess, RecordFailure, FailureCounted,
                FailureTrips, FailureReopens, ReleaseProbe, open, States
<1>5. /\ probeInFlight' \in BOOLEAN
      /\ SlotHasOwner'
  BY <1>4 DEF SlotHasOwner
<1>6. /\ state' \in States
      /\ failureCount' \in 0..(Threshold - 1)
      /\ elapsed' \in 0..Cooldown
      /\ stragglers' \subseteq Callers
      /\ FailureRunClean'
  <2> USE DEF IInv, TypeOK, FailureRunClean, States
  <2>1. CASE RecordSuccess(c)
    BY <2>1 DEF RecordSuccess
  <2>2. CASE FailureCounted(c)
    BY <2>2 DEF FailureCounted
  <2>3. CASE FailureTrips(c)
    BY <2>3 DEF FailureTrips, open, InFlight
  <2>4. CASE FailureReopens(c)
    BY <2>4 DEF FailureReopens, open, InFlight
  <2>5. CASE ReleaseProbe(c)
    BY <2>5 DEF ReleaseProbe
  <2> QED
    BY <2>1, <2>2, <2>3, <2>4, <2>5 DEF Report, RecordFailure
<1>7. OpenAdmitsNobody'
  BY <1>1 DEF IInv, OpenAdmitsNobody, Report, RecordSuccess, RecordFailure, FailureCounted,
              FailureTrips, FailureReopens, ReleaseProbe, open
<1> QED
  BY <1>2, <1>3, <1>5, <1>6, <1>7 DEF IInv, TypeOK

\* A state read and the clock touch neither the slot nor the calls.
LEMMA ClockIInv ==
  ASSUME IInv, ReadState \/ Tick
  PROVE  IInv'
<1> USE BreakerAssumption
<1>1. InFlight' = InFlight /\ Probes' = Probes
  BY DEF ReadState, Tick, callVars, InFlight, Probes
<1> QED
  BY <1>1 DEF IInv, TypeOK, SlotHasOwner, OpenAdmitsNobody, FailureRunClean,
              AdmissionMatchesPc, ReportHasVerdict, ReadState, Tick, refresh, callVars,
              States, Verdicts

\* Stuttering.
LEMMA StutterIInv ==
  ASSUME IInv, UNCHANGED vars
  PROVE  IInv'
  BY DEF IInv, TypeOK, SlotHasOwner, OpenAdmitsNobody, FailureRunClean,
         AdmissionMatchesPc, ReportHasVerdict, vars, breakerVars, callVars, InFlight, Probes

\* The invariant holds in every reachable state.
THEOREM BreakerInvariant == Spec => []IInv
<1>1. IInv /\ [Next]_vars => IInv'
  BY AllowIInv, DispatchIInv, ReportIInv, ClockIInv, StutterIInv DEF Next
<1> QED
  BY InitIInv, <1>1, PTL DEF Spec

\* Type correctness: in particular the failure run stays below the threshold.
THEOREM TypeCorrect == Spec => []TypeOK
<1>1. IInv => TypeOK
  BY DEF IInv
<1> QED
  BY BreakerInvariant, <1>1, PTL

\* The half-open slot never outlives its probes (Allow's "otherwise the probe
\* slot leaks and the circuit wedges half-open forever").
THEOREM SlotNeverWedges == Spec => []SlotHasOwner
<1>1. IInv => SlotHasOwner
  BY DEF IInv
<1> QED
  BY BreakerInvariant, <1>1, PTL

\* An open circuit lets no request through, under every interleaving of late
\* reports, state reads and clock ticks.
THEOREM OpenFailsFast == Spec => []OpenAdmitsNobody
<1>1. IInv => OpenAdmitsNobody
  BY DEF IInv
<1> QED
  BY BreakerInvariant, <1>1, PTL

\* Every circuit that closes again starts with a clean failure run.
THEOREM CleanRun == Spec => []FailureRunClean
<1>1. IInv => FailureRunClean
  BY DEF IInv
<1> QED
  BY BreakerInvariant, <1>1, PTL

-----------------------------------------------------------------------------

\* Every breaker step is a move of the abstract circuit or leaves it alone.
LEMMA CircuitStep ==
  ASSUME IInv, [Next]_vars
  PROVE  [C!Next]_state
<1>1. state' = refresh => [C!Next]_state
  BY DEF refresh, C!Next, C!CircuitSucc
<1>2. ASSUME NEW c \in Callers, Report(c)
      PROVE  [C!Next]_state
  BY <1>2 DEF IInv, TypeOK, Report, RecordSuccess, RecordFailure, FailureCounted,
              FailureTrips, FailureReopens, ReleaseProbe, open, C!Next, C!CircuitSucc
<1>3. ASSUME NEW c \in Callers, Retry(c) \/ Return(c) \/ Abandon(c)
      PROVE  state' = state
  BY <1>3 DEF Retry, Return, Abandon, Finish, breakerVars
<1> QED
  BY <1>1, <1>2, <1>3 DEF Next, Allow, ReadState, Tick, vars, breakerVars

\* The breaker implements the circuit its readers rely on.
THEOREM ImplementsCircuit == Spec => RefinesCircuit
<1>1. Init => C!Init
  BY DEF Init, C!Init
<1> QED
  BY <1>1, CircuitStep, BreakerInvariant, PTL DEF Spec, RefinesCircuit, C!Spec
=============================================================================
