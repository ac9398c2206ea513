------------------------- MODULE ChunkLedgerProofs -------------------------
(***************************************************************************)
(* What ChunkLedger promises of the files on disk, for any bins, requeues, *)
(* runs and failed writes.                                                 *)
(***************************************************************************)
EXTENDS ChunkLedger, TLAPS

-----------------------------------------------------------------------------
(* Types.                                                                  *)

\* What a run plans is a record.
LEMMA PlannedType ==
  ASSUME TypeOK, NEW D \in SUBSET Bins
  PROVE  plannedRecord(D) \in [Bins -> BinRecords]
BY DEF TypeOK, plannedRecord, inherited, carryReviewed, Absent, BinRecords, Outcomes

\* A write that fails is one the bound on faults allows.
LEMMA FaultType ==
  ASSUME TypeOK, NEW ok \in Written, Faulted(ok)
  PROVE  ok \in BOOLEAN /\ faults' \in 0..MaxFaults
<1>1. CASE faults < MaxFaults
  <2>1. ok \in BOOLEAN
    BY <1>1 DEF Written
  <2>2. faults' = faults \/ faults' = faults + 1
    BY DEF Faulted
  <2> QED
    BY <1>1, <2>1, <2>2, LedgerAssumption DEF TypeOK
<1>2. CASE ~(faults < MaxFaults)
  <2>1. ok = TRUE
    BY <1>2 DEF Written
  <2>2. faults' = faults
    BY <2>1 DEF Faulted
  <2> QED
    BY <2>1, <2>2 DEF TypeOK
<1> QED
  BY <1>1, <1>2

\* Starting a run.
LEMMA StartType ==
  ASSUME TypeOK, NEW D \in SUBSET Bins, StartRun(D), runs < MaxRuns,
         resuming' \in BOOLEAN
  PROVE  TypeOK'
<1>1. plannedRecord(D) \in [Bins -> BinRecords]
  BY PlannedType
<1>2. PICK ok \in Written :
        /\ Faulted(ok)
        /\ failed' = ~ok
        /\ ahead' = (ahead \/ ~ok) /\ behind' = (behind \/ ~ok)
        /\ record' = IF ok THEN plannedRecord(D) ELSE record
  BY DEF StartRun
<1>3. /\ faults' \in 0..MaxFaults /\ failed' \in BOOLEAN
      /\ ahead' \in BOOLEAN /\ behind' \in BOOLEAN
      /\ record' \in [Bins -> BinRecords]
  BY <1>1, <1>2, FaultType DEF TypeOK
<1>4. [b \in Bins |-> Absent] \in [Bins -> BinRecords]
  BY DEF Absent, BinRecords
<1>5. /\ bins' \in [Bins -> BinRecords] /\ gen' = 1 /\ written' \in 0..gen'
      /\ snapshot' \in [gen : 0..gen', record : [Bins -> BinRecords]]
  BY <1>1, <1>4 DEF StartRun
<1>6. /\ leased' \subseteq Bins /\ writer' \in Bins \cup {NoBin}
      /\ pc' \in [Bins -> {"out", "queued", "calling", "done", "requeued", "flushed", "resolved"}]
      /\ want' \in [Bins -> 0..gen'] /\ requeues' \in [Bins -> 0..MaxRequeues]
      /\ carried' \subseteq Bins
  BY <1>5, LedgerAssumption DEF StartRun
<1>7. /\ phase' \in Phases /\ cancelled' \in BOOLEAN /\ mergedEarly' \in BOOLEAN
      /\ current' \in BOOLEAN
      /\ prior' \in [known : BOOLEAN, findings : SUBSET Bins, review : [Bins -> Nat]]
  BY DEF StartRun, NoPrior, Phases
<1>8. runs' \in 0..MaxRuns /\ dispatches' \in [Bins -> Nat]
  BY LedgerAssumption DEF TypeOK, StartRun
<1> QED
  BY <1>3, <1>5, <1>6, <1>7, <1>8 DEF TypeOK, StartRun

\* The hooks of a bin.
LEMMA StampType ==
  ASSUME TypeOK, NEW b \in Bins, NEW o \in Outcomes,
         NEW at \in {"done", "requeued"}, stamp(b, o, at),
         requeues' \in [Bins -> 0..MaxRequeues]
  PROVE  TypeOK'
<1>1. gen' = gen + 1 /\ gen \in Nat /\ gen' \in Nat
  BY DEF TypeOK, stamp
<1>2. bins' \in [Bins -> BinRecords]
  BY DEF TypeOK, stamp, BinRecords
<1>3. /\ leased' \subseteq Bins
      /\ pc' \in [Bins -> {"out", "queued", "calling", "done", "requeued", "flushed", "resolved"}]
      /\ ended' \in [Bins -> Nat]
  BY DEF TypeOK, stamp
<1>4. want' \in [Bins -> 0..gen'] /\ written' \in 0..gen'
  BY <1>1 DEF TypeOK, stamp
<1>5. snapshot' \in [gen : 0..gen', record : [Bins -> BinRecords]]
  BY <1>1 DEF TypeOK, stamp
<1> QED
  BY <1>1, <1>2, <1>3, <1>4, <1>5 DEF TypeOK, stamp, diskVars, runVars

\* The completion hooks keep the types.
LEMMA HookType ==
  ASSUME TypeOK, NEW b \in Bins, Hook(b)
  PROVE  TypeOK'
<1>1. CASE slotStart(b)
  BY <1>1 DEF TypeOK, slotStart, diskVars, runVars, histVars
<1>2. CASE slotDone(b)
  <2>1. PICK o \in Outcomes : stamp(b, o, "done")
    BY <1>2 DEF slotDone, Outcomes
  <2> QED
    BY <1>2, <2>1, StampType DEF slotDone, TypeOK
<1>3. CASE slotRequeue(b)
  <2>1. requeues' \in [Bins -> 0..MaxRequeues]
    BY <1>3, LedgerAssumption DEF slotRequeue, TypeOK
  <2> QED
    BY <1>3, <2>1, StampType DEF slotRequeue, Outcomes
<1>4. CASE FlushSkip(b)
  BY <1>4 DEF TypeOK, FlushSkip, returned, diskVars, ledgerVars, runVars, histVars
<1>5. CASE FlushSnapshot(b)
  <2>1. snapshot' \in [gen : 0..gen', record : [Bins -> BinRecords]]
    BY <1>5 DEF TypeOK, FlushSnapshot
  <2> QED
    BY <1>5, <2>1 DEF TypeOK, FlushSnapshot, diskVars, hookVars, runVars, histVars
<1>6. CASE FlushWrite(b)
  <2>1. PICK ok \in Written :
          /\ Faulted(ok)
          /\ record' = IF ok THEN snapshot.record ELSE record
          /\ failed' = (failed \/ ~ok)
          /\ behind' = (behind \/ ~ok)
    BY <1>6 DEF FlushWrite
  <2>2. /\ faults' \in 0..MaxFaults /\ failed' \in BOOLEAN /\ behind' \in BOOLEAN
        /\ record' \in [Bins -> BinRecords]
    BY <2>1, FaultType DEF TypeOK
  <2> QED
    BY <1>6, <2>2 DEF TypeOK, FlushWrite, returned, runVars
<1>7. CASE Track(b)
  <2>1. phase' \in Phases
    BY <1>7 DEF Track, TypeOK, Phases
  <2>2. UNCHANGED <<record, bins, findings, findingsFile, review, status, vouched, leased, gen, written,
                    failed, writer, snapshot, want, requeues, resuming, cancelled, carried,
                    prior, mergedEarly, runs, faults, dispatches, ended, current, ahead, behind>>
    BY <1>7 DEF Track, diskVars, ledgerVars, histVars
  <2>3. pc' \in [Bins -> {"out", "queued", "calling", "done", "requeued", "flushed", "resolved"}]
    BY <1>7 DEF Track, TypeOK
  <2> QED
    BY <2>1, <2>2, <2>3 DEF TypeOK
<1> QED
  BY <1>1, <1>2, <1>3, <1>4, <1>5, <1>6, <1>7 DEF Hook

\* What a merge takes for the files of before the run is of their types.
LEMMA PriorType ==
  ASSUME TypeOK
  PROVE  priorFor \in [known : BOOLEAN, findings : SUBSET Bins, review : [Bins -> Nat]]
BY DEF TypeOK, priorFor, priorFromDisk

\* The writers of a persona's files keep the types.
LEMMA FilesType ==
  ASSUME TypeOK, Files
  PROVE  TypeOK'
<1>1. CASE Join
  <2>1. phase' \in Phases
    BY <1>1 DEF Join, Phases
  <2>2. UNCHANGED <<record, bins, findings, findingsFile, review, status, vouched, leased, gen, written,
                    failed, writer, snapshot, pc, want, requeues, resuming, cancelled, carried,
                    prior, mergedEarly, runs, faults, dispatches, ended, current, ahead, behind>>
    BY <1>1 DEF Join, diskVars, ledgerVars, hookVars, histVars
  <2> QED
    BY <2>1, <2>2 DEF TypeOK
<1>2. CASE WriteFindings
  <2>1. PICK ok \in Written :
          /\ Faulted(ok)
          /\ phase' = IF ~ok THEN AfterError
                      ELSE IF phase = "early findings" THEN "early review" ELSE "final review"
          /\ findings' = IF ok THEN mergedFindings(priorFor) ELSE findings
          /\ findingsFile' = (ok \/ findingsFile)
          /\ current' = (current \/ ok)
          /\ ahead' = (ahead \/ (phase' = "down" /\ Unmerged))
    BY <1>2 DEF WriteFindings
  <2>2. ok \in BOOLEAN /\ faults' \in 0..MaxFaults
    BY <2>1, FaultType
  <2>3. /\ phase' \in Phases /\ findingsFile' \in BOOLEAN
        /\ current' \in BOOLEAN /\ ahead' \in BOOLEAN
    BY <2>1, <2>2 DEF AfterError, Phases, TypeOK
  <2>4. findings' \subseteq Bins
    BY <2>1, <2>2 DEF mergedFindings, Fresh, Dispatched, TypeOK
  <2>5. prior' \in [known : BOOLEAN, findings : SUBSET Bins, review : [Bins -> Nat]]
    BY <1>2, PriorType DEF WriteFindings, TypeOK
  <2> QED
    BY <1>2, <2>2, <2>3, <2>4, <2>5 DEF TypeOK, WriteFindings, ledgerVars, hookVars
<1>3. CASE WriteReview
  <2>1. PICK ok \in Written :
          /\ Faulted(ok)
          /\ phase' = IF ~ok THEN AfterError
                      ELSE IF phase = "early review" THEN "early status" ELSE "final status"
          /\ review' = IF ok THEN mergedReview(priorFor) ELSE review
    BY <1>3 DEF WriteReview
  <2>2. ok \in BOOLEAN /\ faults' \in 0..MaxFaults
    BY <2>1, FaultType
  <2>3. phase' \in Phases
    BY <2>1, <2>2 DEF AfterError, Phases
  <2>4. review' \in [Bins -> Nat]
    <3>1. priorFor.review \in [Bins -> Nat]
      BY PriorType
    <3>2. mergedReview(priorFor) \in [Bins -> Nat]
      BY <3>1 DEF mergedReview
    <3> QED
      BY <2>1, <2>2, <3>2 DEF TypeOK
  <2>5. UNCHANGED <<record, bins, findings, findingsFile, status, vouched, leased, gen, written,
                    failed, writer, snapshot, pc, want, requeues, resuming, cancelled, carried,
                    prior, mergedEarly, runs, dispatches, ended, current, ahead, behind>>
    BY <1>3 DEF WriteReview, ledgerVars, hookVars
  <2> QED
    BY <2>2, <2>3, <2>4, <2>5 DEF TypeOK
<1>4. CASE WriteStatus
  <2>1. PICK ok \in Written :
          /\ Faulted(ok)
          /\ status' = IF ok THEN mergedStatus ELSE status
          /\ vouched' = IF ok THEN Reviewed ELSE vouched
          /\ mergedEarly' = (mergedEarly \/ (ok /\ carried # {}))
          /\ prior' = IF ok THEN NoPrior ELSE prior
    BY <1>4 DEF WriteStatus
  <2>2. ok \in BOOLEAN /\ faults' \in 0..MaxFaults
    BY <2>1, FaultType
  <2>3. phase' \in Phases
    BY <1>4 DEF WriteStatus, Phases
  <2>4. /\ status' \in {"none", "ok", "failed"} /\ vouched' \subseteq Bins
        /\ mergedEarly' \in BOOLEAN
    BY <2>1, <2>2 DEF mergedStatus, Reviewed, TypeOK
  <2>5. prior' \in [known : BOOLEAN, findings : SUBSET Bins, review : [Bins -> Nat]]
    BY <2>1, <2>2 DEF NoPrior, TypeOK
  <2> QED
    BY <1>4, <2>2, <2>3, <2>4, <2>5 DEF TypeOK, WriteStatus, ledgerVars, hookVars
<1> QED
  BY <1>1, <1>2, <1>3, <1>4 DEF Files

\* A killed process leaves its initial state.
LEMMA KillType ==
  ASSUME TypeOK, Kill
  PROVE  TypeOK'
<1>1. [b \in Bins |-> Absent] \in [Bins -> BinRecords]
  BY DEF Absent, BinRecords
<1>2. /\ snapshot' \in [gen : 0..gen', record : [Bins -> BinRecords]]
      /\ bins' \in [Bins -> BinRecords] /\ gen' \in Nat /\ written' \in 0..gen'
      /\ want' \in [Bins -> 0..gen']
  BY <1>1 DEF Kill
<1>3. requeues' \in [Bins -> 0..MaxRequeues] /\ phase' \in Phases
  BY LedgerAssumption DEF Kill, Phases
<1>4. prior' \in [known : BOOLEAN, findings : SUBSET Bins, review : [Bins -> Nat]]
  BY DEF Kill, NoPrior
<1>5. ahead' \in BOOLEAN /\ current' \in BOOLEAN
  BY DEF Kill, TypeOK
<1> QED
  BY <1>2, <1>3, <1>4, <1>5 DEF TypeOK, Kill, diskVars

\* Every step keeps the types.
LEMMA TypeStep ==
  ASSUME TypeOK, [Next]_vars
  PROVE  TypeOK'
<1>1. CASE RunReview
  BY <1>1, StartType DEF RunReview
<1>2. CASE Resume
  <2>1. pendingBins \in SUBSET Bins
    BY DEF pendingBins, openBins
  <2> QED
    BY <1>2, <2>1, StartType DEF Resume
<1>3. CASE Cancel
  BY <1>3 DEF TypeOK, Cancel, diskVars, ledgerVars, hookVars, histVars
<1>4. CASE Over \/ UNCHANGED vars
  BY <1>4 DEF TypeOK, Over, vars, diskVars, ledgerVars, hookVars, runVars, histVars
<1> QED
  BY <1>1, <1>2, <1>3, <1>4, HookType, FilesType, KillType DEF Next

\* The initial state is well typed.
LEMMA TypeInit == ASSUME Init PROVE TypeOK
<1>1. [b \in Bins |-> Absent] \in [Bins -> BinRecords]
  BY DEF Absent, BinRecords
<1>2. prior \in [known : BOOLEAN, findings : SUBSET Bins, review : [Bins -> Nat]]
  BY DEF Init, NoPrior
<1>3. /\ snapshot \in [gen : 0..gen, record : [Bins -> BinRecords]]
      /\ want \in [Bins -> 0..gen] /\ gen \in Nat /\ written \in 0..gen
  BY <1>1 DEF Init
<1>4. requeues \in [Bins -> 0..MaxRequeues] /\ runs \in 0..MaxRuns /\ faults \in 0..MaxFaults
  BY LedgerAssumption DEF Init
<1>5. phase \in Phases
  BY DEF Init, Phases
<1> QED
  BY <1>1, <1>2, <1>3, <1>4, <1>5 DEF Init, TypeOK

\* Every variable keeps its type: no counter runs past its bound, and no write
\* captures a mutation that has not been made.
THEOREM TypeCorrect == Spec => []TypeOK
<1>1. Init => TypeOK
  BY TypeInit
<1> QED
  BY <1>1, TypeStep, PTL DEF Spec

-----------------------------------------------------------------------------
(* The ledger: one run's record and what its writes hold.                  *)

Flushing == {"done", "requeued"}

\* An attempt is counted only when it ends.
LeasedCalls == \A b \in leased : pc[b] = "calling"

\* No record counts an attempt that has not ended.
Honest ==
  \A b \in Bins :
    /\ record[b].attempts <= ended[b]
    /\ bins[b].attempts <= ended[b]
    /\ snapshot.record[b].attempts <= ended[b]

\* A hook that holds writeMu is still in its flush, and its snapshot has every
\* bin but those stamped after it.
SnapshotFresh ==
  running /\ writer # NoBin =>
    /\ pc[writer] \in Flushing /\ want[writer] <= snapshot.gen
    /\ \A b \in Bins : (pc[b] \in Flushing => want[b] <= snapshot.gen) =>
                         snapshot.record[b] = bins[b]

\* Unless a write failed, the disk has every bin but those whose flush is due.
Durable ==
  phase # "down" /\ ~failed =>
    \A b \in Bins : (pc[b] \in Flushing => want[b] <= written) => record[b] = bins[b]

\* A bin that was reviewed is not under way.
OkRests ==
  running =>
    \A b \in Bins : bins[b].outcome = "ok" => pc[b] \notin {"queued", "calling", "requeued"}

LedgerInv ==
  /\ TypeOK /\ LeasedCalls /\ Honest
  /\ SnapshotFresh /\ Durable /\ OkRests

-----------------------------------------------------------------------------
(* The reviewed bins of the record, through runs and kills.                *)

\* The record on disk and the findings file can be relied on together, or a
\* resume may still trust them.
Relied == ~ahead \/ (findingsFile /\ openBins # {})

\* What the disk shows reviewed no write of this run takes back.
ReviewedKept ==
  running =>
    \A b \in Bins :
      /\ Relied /\ record[b].outcome = "ok" =>
           /\ bins[b].outcome = "ok"
           /\ writer # NoBin => snapshot.record[b].outcome = "ok"
      /\ writer # NoBin /\ snapshot.record[b].outcome = "ok" => bins[b].outcome = "ok"

\* Before the first run nothing is on disk.
NothingYet ==
  runs = 0 => phase = "down" /\ findingsFile = FALSE /\ status = "none"

\* Every write of a run that planned holds reviewed only what the run has reviewed.
RecordBacked ==
  phase # "down" /\ ~ahead =>
    \A b \in Bins : record[b].outcome = "ok" => bins[b].outcome = "ok"

RecordInv == NothingYet /\ ReviewedKept /\ RecordBacked

-----------------------------------------------------------------------------
(* The persona's files.                                                    *)

\* The files are written once every bin has resolved.
Settled == phase \notin {"down", "running"} => \A b \in Bins : pc[b] \in {"out", "resolved"}

\* A reviewed bin this run did not dispatch is one it replays, and only such a
\* bin is.
OutIsCarried ==
  phase # "down" =>
    \A b \in Bins : /\ b \in carried => pc[b] = "out"
                    /\ pc[b] = "out" /\ bins[b].outcome = "ok" => b \in carried

\* A run that skips its writes reviewed nothing.
SkippedNothing == phase = "skipped" => Fresh = {}

FailedNoted == failed => behind

\* A replayed bin's findings are in what the merge starts from.
CarriedFound ==
  phase # "down" /\ ~ahead =>
    \A b \in carried : bins[b].outcome = "ok" => b \in priorFor.findings

\* The later files are written once this run has written the findings file, which
\* then has every reviewed bin.
FindingsWritten ==
  /\ phase \in {"early review", "early status", "final review", "final status"}
       \/ (phase = "joined" /\ mergedEarly) => current
  /\ phase \in {"running", "skipped", "early findings"} => ~current
  /\ phase # "down" /\ current => findingsFile /\ (~ahead => Reviewed \subseteq findings)

\* What an ok status counted the record shows reviewed.
VouchedRecorded ==
  status = "ok" /\ ~ahead /\ ~behind => \A b \in vouched : record[b].outcome = "ok"

\* The artifacts the first merge read are kept until a merge is complete.
PriorKept ==
  /\ phase \in {"running", "skipped"} => ~prior.known /\ ~mergedEarly
  /\ phase # "down" /\ mergedEarly => phase = "joined"
  /\ phase \notin {"down", "running", "skipped", "early findings"} /\ carried # {} =>
       prior.known \/ mergedEarly
  /\ phase # "down" /\ ~current /\ prior.known => prior.findings = findings

\* The text a merge starts from has none of this run's bins.
NotYetMerged ==
  phase # "down" =>
    \A b \in Bins :
      /\ pc[b] # "out" => dispatches[b] > 0
      /\ carried # {} /\ ~mergedEarly =>
           priorFor.review[b] + (IF pc[b] # "out" THEN 1 ELSE 0) <= dispatches[b]

FilesInv ==
  /\ Settled /\ OutIsCarried /\ SkippedNothing /\ FailedNoted /\ CarriedFound
  /\ FindingsWritten
  /\ VouchedRecorded /\ PriorKept /\ NotYetMerged
  /\ StatusVouches /\ ReplayedInStep /\ MergedOnce

\* The inductive invariant.
IInv == LedgerInv /\ RecordInv /\ FilesInv

-----------------------------------------------------------------------------
(* The ledger's invariant is kept.                                         *)

\* A run begins with a ledger that is in step with the record it planned.
LEMMA StartLedger ==
  ASSUME LedgerInv, TypeOK', NEW D \in SUBSET Bins, StartRun(D)
  PROVE  LedgerInv'
<1>1. PICK ok \in Written :
        failed' = ~ok /\ record' = IF ok THEN plannedRecord(D) ELSE record
  BY DEF StartRun
<1>2. ok \in BOOLEAN
  BY DEF Written
<1>3. LeasedCalls' /\ SnapshotFresh'
  BY DEF StartRun, LeasedCalls, SnapshotFresh
<1>4. \A b \in Bins : plannedRecord(D)[b].attempts <= ended[b]
  BY DEF plannedRecord, inherited, Absent, LedgerInv, Honest, TypeOK
<1>5. Honest'
  BY <1>1, <1>2, <1>4 DEF StartRun, LedgerInv, Honest, TypeOK, Absent
<1>6. Durable'
  BY <1>1, <1>2 DEF StartRun, Durable
<1>7. OkRests'
  BY DEF StartRun, OkRests, plannedRecord
<1> QED
  BY <1>3, <1>5, <1>6, <1>7 DEF LedgerInv

\* slotStart and slotRequeue keep the ledger in step with the bins.
LEMMA StampLedger ==
  ASSUME LedgerInv, TypeOK', NEW b \in Bins, NEW o \in Outcomes,
         NEW at \in Flushing, stamp(b, o, at), running,
         pc[b] \in {"queued", "calling"}, o = "ok" => at = "done"
  PROVE  LedgerInv'
<1>1. /\ TypeOK /\ gen' = gen + 1 /\ written' = written /\ snapshot' = snapshot
      /\ writer' = writer /\ failed' = failed /\ record' = record /\ phase' = phase
      /\ want' = [want EXCEPT ![b] = gen + 1] /\ pc' = [pc EXCEPT ![b] = at]
      /\ \A c \in Bins \ {b} : bins'[c] = bins[c]
      /\ bins'[b].outcome = o
  BY DEF LedgerInv, stamp, diskVars, runVars, TypeOK
<1>2. LeasedCalls'
  BY DEF LedgerInv, LeasedCalls, stamp, TypeOK
<1>3. Honest'
  <2>1. /\ bins'[b].attempts <= ended'[b] /\ ended'[b] >= ended[b]
        /\ \A c \in Bins \ {b} : ended'[c] = ended[c]
    BY DEF LedgerInv, LeasedCalls, Honest, stamp, TypeOK, BinRecords
  <2>2. /\ \A c \in Bins : /\ record[c].attempts \in Nat /\ ended[c] \in Nat
                           /\ snapshot.record[c].attempts \in Nat
        /\ ended'[b] \in Nat
    BY DEF LedgerInv, TypeOK, BinRecords
  <2>3. ASSUME NEW c \in Bins
        PROVE  /\ record'[c].attempts <= ended'[c]
               /\ bins'[c].attempts <= ended'[c]
               /\ snapshot'.record[c].attempts <= ended'[c]
    <3>1. CASE c = b
      BY <1>1, <2>1, <2>2, <3>1 DEF LedgerInv, Honest
    <3>2. CASE c # b
      BY <1>1, <2>1, <2>2, <3>2 DEF LedgerInv, Honest
    <3> QED
      BY <3>1, <3>2
  <2> QED
    BY <2>3 DEF Honest
<1>4. SnapshotFresh'
  BY <1>1 DEF LedgerInv, SnapshotFresh, running, Flushing, TypeOK
<1>5. Durable'
  BY <1>1 DEF LedgerInv, Durable, Flushing, TypeOK
<1>6. OkRests'
  BY <1>1 DEF LedgerInv, OkRests, running, TypeOK
<1> QED
  BY <1>2, <1>3, <1>4, <1>5, <1>6 DEF LedgerInv

\* slotDone and its coalesced write keep the ledger in step with the disk.
LEMMA HookLedger ==
  ASSUME LedgerInv, TypeOK', NEW b \in Bins, Hook(b)
  PROVE  LedgerInv'
<1> USE DEF Flushing
<1>1. CASE slotStart(b)
  <2>1. LeasedCalls' /\ Honest' /\ OkRests'
    BY <1>1 DEF slotStart, LedgerInv, TypeOK, LeasedCalls, Honest, OkRests, running,
                diskVars, histVars, runVars
  <2>2. SnapshotFresh' /\ Durable'
    BY <1>1 DEF slotStart, LedgerInv, TypeOK, SnapshotFresh, Durable, running,
                diskVars, runVars
  <2> QED
    BY <2>1, <2>2 DEF LedgerInv
<1>2. CASE slotDone(b)
  <2>1. /\ \E o \in Outcomes : stamp(b, o, "done")
        /\ running /\ pc[b] \in {"queued", "calling"}
    BY <1>2 DEF slotDone, Outcomes
  <2> QED
    BY <2>1, StampLedger
<1>3. CASE slotRequeue(b)
  BY <1>3, StampLedger DEF slotRequeue, Outcomes
<1>4. CASE FlushSkip(b)
  <2>1. LeasedCalls' /\ Honest' /\ OkRests'
    BY <1>4 DEF FlushSkip, flushing, returned, LedgerInv, TypeOK, LeasedCalls, Honest, OkRests,
                running, diskVars, ledgerVars, histVars, runVars
  <2>2. SnapshotFresh' /\ Durable'
    BY <1>4 DEF FlushSkip, flushing, returned, LedgerInv, TypeOK, SnapshotFresh, Durable,
                running, diskVars, ledgerVars, runVars
  <2> QED
    BY <2>1, <2>2 DEF LedgerInv
<1>5. CASE FlushSnapshot(b)
  <2>1. LeasedCalls' /\ Honest' /\ OkRests' /\ Durable'
    BY <1>5 DEF FlushSnapshot, LedgerInv, TypeOK, LeasedCalls, Honest, OkRests, Durable,
                running, diskVars, hookVars, histVars, runVars
  <2>2. SnapshotFresh'
    BY <1>5 DEF FlushSnapshot, flushing, LedgerInv, TypeOK, SnapshotFresh, running, hookVars
  <2> QED
    BY <2>1, <2>2 DEF LedgerInv
<1>6. CASE FlushWrite(b)
  <2>1. PICK ok \in Written :
          /\ record' = IF ok THEN snapshot.record ELSE record
          /\ failed' = (failed \/ ~ok)
    BY <1>6 DEF FlushWrite
  <2>2. ok \in BOOLEAN
    BY DEF Written
  <2>3. LeasedCalls' /\ Honest' /\ OkRests'
    <3>1. b \in Bins /\ writer # NoBin /\ pc[b] \in Flushing
      BY <1>6, LedgerAssumption DEF FlushWrite, LedgerInv, SnapshotFresh
    <3>2. LeasedCalls' /\ OkRests'
      BY <1>6, <3>1 DEF FlushWrite, returned, LedgerInv, TypeOK, LeasedCalls, OkRests, running,
                        runVars
    <3>3. Honest'
      BY <1>6, <2>1, <2>2 DEF FlushWrite, LedgerInv, TypeOK, Honest
    <3> QED
      BY <3>2, <3>3
  <2>4. SnapshotFresh'
    BY <1>6 DEF FlushWrite, SnapshotFresh
  <2>5. Durable'
    <3>1. CASE ~ok
      BY <2>1, <3>1 DEF Durable
    <3>2. CASE ok
      <4>1. /\ record' = snapshot.record /\ bins' = bins /\ written' = snapshot.gen
            /\ want' = want /\ pc' = [pc EXCEPT ![b] = returned(b)]
            /\ writer = b /\ b # NoBin /\ running
        BY <1>6, <2>1, <3>2, LedgerAssumption DEF FlushWrite
      <4>2. /\ want[b] <= snapshot.gen
            /\ \A c \in Bins : (pc[c] \in Flushing => want[c] <= snapshot.gen) =>
                                 snapshot.record[c] = bins[c]
        BY <4>1 DEF LedgerInv, SnapshotFresh
      <4>3. \A c \in Bins \ {b} : pc'[c] = pc[c]
        BY <4>1 DEF LedgerInv, TypeOK
      <4> QED
        BY <4>1, <4>2, <4>3 DEF Durable
    <3> QED
      BY <2>2, <3>1, <3>2
  <2> QED
    BY <2>3, <2>4, <2>5 DEF LedgerInv
<1>7. CASE Track(b)
  <2>1. /\ phase' # "down" /\ running /\ pc[b] = "flushed"
        /\ pc' = [pc EXCEPT ![b] = "resolved"]
        /\ UNCHANGED <<diskVars, ledgerVars, want, histVars>>
    BY <1>7 DEF Track, running
  <2>2. LeasedCalls' /\ Honest' /\ OkRests'
    BY <2>1 DEF LedgerInv, TypeOK, LeasedCalls, Honest, OkRests, running, diskVars, ledgerVars,
                histVars
  <2>3. SnapshotFresh' /\ Durable'
    BY <2>1 DEF LedgerInv, TypeOK, SnapshotFresh, Durable, running, diskVars, ledgerVars
  <2> QED
    BY <2>2, <2>3 DEF LedgerInv
<1> QED
  BY <1>1, <1>2, <1>3, <1>4, <1>5, <1>6, <1>7 DEF Hook

\* The other steps leave the ledger alone, or drop it.
LEMMA OtherLedger ==
  ASSUME LedgerInv, TypeOK', Files \/ Cancel \/ Kill \/ Over \/ UNCHANGED vars
  PROVE  LedgerInv'
<1>1. CASE Files
  <2>1. /\ UNCHANGED <<record, ledgerVars, hookVars, ended>>
        /\ phase \notin {"down", "running"} /\ phase' # "running"
    BY <1>1 DEF Files, Join, WriteFindings, WriteReview, WriteStatus, AfterError, diskVars,
                histVars
  <2> QED
    BY <2>1 DEF LedgerInv, LeasedCalls, Honest, SnapshotFresh, Durable, OkRests, running,
                ledgerVars, hookVars
<1>2. CASE Cancel \/ Over \/ UNCHANGED vars
  <2>1. UNCHANGED <<record, ledgerVars, hookVars, ended, phase>>
    BY <1>2 DEF Cancel, Over, vars, diskVars, runVars, histVars
  <2> QED
    BY <2>1 DEF LedgerInv, LeasedCalls, Honest, SnapshotFresh, Durable, OkRests, running,
                ledgerVars, hookVars
<1>3. CASE Kill
  <2>1. Honest'
    BY <1>3 DEF Kill, LedgerInv, Honest, Absent, TypeOK, diskVars
  <2> QED
    BY <1>3, <2>1 DEF Kill, LedgerInv, LeasedCalls, SnapshotFresh, Durable, OkRests, running
<1> QED
  BY <1>1, <1>2, <1>3

\* Every step keeps the ledger invariant.
LEMMA LedgerStep ==
  ASSUME LedgerInv, [Next]_vars
  PROVE  LedgerInv'
<1>1. TypeOK'
  BY TypeStep DEF LedgerInv
<1>2. pendingBins \in SUBSET Bins
  BY DEF pendingBins, openBins
<1>3. CASE RunReview \/ Resume
  BY <1>1, <1>2, <1>3, StartLedger DEF RunReview, Resume
<1> QED
  BY <1>1, <1>3, HookLedger, OtherLedger DEF Next

-----------------------------------------------------------------------------
(* What the disk shows reviewed is kept.                                   *)

\* A run begins with everything an earlier run relied on in its record.
LEMMA StartRecord ==
  ASSUME IInv, TypeOK', RunReview \/ Resume
  PROVE  RecordInv'
<1>1. PICK D \in SUBSET Bins :
        /\ StartRun(D)
        /\ runs = 0 \/ (D = pendingBins /\ D # {})
    BY DEF RunReview, Resume, pendingBins, openBins
<1>2. PICK ok \in Written :
        /\ record' = IF ok THEN plannedRecord(D) ELSE record
        /\ ahead' = (ahead \/ ~ok)
  BY <1>1 DEF StartRun
<1>3. /\ bins' = plannedRecord(D) /\ writer' = NoBin /\ findingsFile' = findingsFile
      /\ runs' = runs + 1 /\ status' = status
  BY <1>1 DEF StartRun
<1>4. NothingYet'
  BY <1>3 DEF NothingYet, IInv, LedgerInv, TypeOK
<1>5. ASSUME NEW b \in Bins, Relied', record'[b].outcome = "ok"
      PROVE  bins'[b].outcome = "ok"
  <2>1. CASE ok
    BY <1>2, <1>3, <1>5, <2>1
  <2>2. CASE ~ok
    <3>1. /\ record' = record /\ findingsFile /\ openBins # {} /\ runs # 0
      BY <1>2, <1>3, <1>5, <2>2 DEF Relied, openBins, IInv, RecordInv, NothingYet
    <3>2. trusted
      BY <3>1 DEF trusted, openBins, open, Absent
    <3>3. D = openBins
      BY <1>1, <3>1, <3>2 DEF pendingBins
    <3>4. record[b].outcome = "ok" /\ b \notin D
      BY <1>5, <3>1, <3>3 DEF openBins, open
    <3> QED
      BY <1>3, <3>2, <3>4 DEF plannedRecord, carryReviewed, StatusOK
  <2> QED
    BY <2>1, <2>2
<1>6. ReviewedKept' /\ RecordBacked'
  BY <1>3, <1>5 DEF ReviewedKept, RecordBacked, Relied
<1> QED
  BY <1>4, <1>6 DEF RecordInv

\* slotStart and slotRequeue never touch a reviewed bin.
LEMMA StampRecord ==
  ASSUME IInv, NEW b \in Bins, NEW o \in Outcomes, NEW at \in Flushing,
         stamp(b, o, at), running, pc[b] \in {"queued", "calling"}
  PROVE  RecordInv'
<1>1. UNCHANGED <<record, findingsFile, status, ahead, writer, snapshot, phase, runs>>
  BY DEF stamp, diskVars, runVars
<1>2. bins[b].outcome # "ok"
  BY DEF IInv, LedgerInv, OkRests
<1>3. \A c \in Bins \ {b} : bins'[c] = bins[c]
  BY DEF stamp, IInv, LedgerInv, TypeOK
<1>4. Relied' => Relied
  BY <1>1 DEF Relied, openBins
<1> QED
  BY <1>1, <1>2, <1>3, <1>4 DEF IInv, RecordInv, NothingYet, ReviewedKept, RecordBacked, running

\* A completion hook's write keeps what the record on disk shows.
LEMMA HookRecord ==
  ASSUME IInv, TypeOK', NEW b \in Bins, Hook(b)
  PROVE  RecordInv'
<1>1. CASE slotDone(b) \/ slotRequeue(b)
  <2>1. /\ \E o \in Outcomes, at \in Flushing : stamp(b, o, at)
        /\ running /\ pc[b] \in {"queued", "calling"}
    BY <1>1 DEF slotDone, slotRequeue, Outcomes, Flushing
  <2> QED
    BY <2>1, StampRecord
<1>2. CASE slotStart(b) \/ FlushSkip(b) \/ Track(b)
  <2>1. /\ UNCHANGED <<record, findingsFile, status, ahead, writer, snapshot, runs, bins>>
        /\ running
    BY <1>2 DEF slotStart, FlushSkip, Track, flushing, diskVars, ledgerVars, histVars
  <2>2. Relied' => Relied
    BY <2>1 DEF Relied, openBins
  <2> QED
    BY <2>1, <2>2 DEF IInv, RecordInv, NothingYet, ReviewedKept, RecordBacked, running
<1>3. CASE FlushSnapshot(b)
  <2>1. /\ UNCHANGED <<record, findingsFile, status, ahead, runs, bins, phase>>
        /\ snapshot'.record = bins /\ running
    BY <1>3 DEF FlushSnapshot, flushing, diskVars, runVars, histVars
  <2>2. Relied' => Relied
    BY <2>1 DEF Relied, openBins
  <2> QED
    BY <2>1, <2>2 DEF IInv, RecordInv, NothingYet, ReviewedKept, RecordBacked, running
<1>4. CASE FlushWrite(b)
  <2>1. PICK ok \in Written :
          record' = IF ok THEN snapshot.record ELSE record
    BY <1>4 DEF FlushWrite
  <2>2. /\ UNCHANGED <<findingsFile, status, runs, bins, phase, ahead>> /\ writer' = NoBin
        /\ running /\ writer # NoBin
    BY <1>4, LedgerAssumption DEF FlushWrite, runVars
  <2>3. ASSUME NEW c \in Bins, Relied', record'[c].outcome = "ok"
        PROVE  bins'[c].outcome = "ok"
    <3>1. CASE ok
      BY <2>1, <2>2, <2>3, <3>1 DEF IInv, RecordInv, ReviewedKept
    <3>2. CASE ~ok
      <4>1. Relied /\ record' = record
        BY <2>1, <2>2, <2>3, <3>2 DEF Relied, openBins
      <4> QED
        BY <2>2, <2>3, <4>1 DEF IInv, RecordInv, ReviewedKept
    <3> QED
      BY <3>1, <3>2
  <2> QED
    BY <2>2, <2>3 DEF IInv, RecordInv, NothingYet, ReviewedKept, RecordBacked, Relied
<1> QED
  BY <1>1, <1>2, <1>3, <1>4 DEF Hook

\* Every step keeps the record invariant.
LEMMA RecordStep ==
  ASSUME IInv, [Next]_vars
  PROVE  RecordInv'
<1>1. TypeOK'
  BY TypeStep DEF IInv, LedgerInv
<1>2. CASE Files \/ Kill
  <2>1. runs' = runs /\ runs # 0 /\ phase' # "running"
    BY <1>2 DEF Files, Join, WriteFindings, WriteReview, WriteStatus, AfterError, Kill,
                histVars, IInv, RecordInv, NothingYet
  <2>2. phase' # "down" => UNCHANGED <<record, bins>> /\ phase # "down" /\ (ahead => ahead')
    BY <1>2 DEF Files, Join, WriteFindings, WriteReview, WriteStatus, AfterError, Kill,
                histVars, diskVars, ledgerVars
  <2> QED
    BY <2>1, <2>2 DEF IInv, RecordInv, NothingYet, ReviewedKept, RecordBacked, running
<1>3. CASE Cancel \/ Over \/ UNCHANGED vars
  <2>1. UNCHANGED <<diskVars, ledgerVars, phase, runs, ahead>>
    BY <1>3 DEF Cancel, Over, vars, runVars, histVars
  <2>2. Relied' => Relied
    BY <2>1 DEF Relied, openBins, diskVars
  <2> QED
    BY <2>1, <2>2 DEF IInv, RecordInv, NothingYet, ReviewedKept, RecordBacked, running, diskVars,
                      ledgerVars
<1> QED
  BY <1>1, <1>2, <1>3, StartRecord, HookRecord DEF Next

\* A resume never forgets a reviewed bin, in any write of any run.
LEMMA StepKeepsReviewed ==
  ASSUME IInv, [Next]_vars, trusted, openBins # {},
         NEW b \in Bins, record[b].outcome = "ok"
  PROVE  record'[b].outcome = "ok"
<1>1. CASE RunReview
  BY <1>1 DEF RunReview, IInv, RecordInv, NothingYet, trusted
<1>2. CASE Resume
  <2>1. pendingBins = openBins /\ b \notin openBins
    BY DEF pendingBins, openBins, open
  <2>2. plannedRecord(openBins)[b] = record[b]
    BY <2>1 DEF plannedRecord, carryReviewed, StatusOK
  <2>3. record' = plannedRecord(openBins) \/ record' = record
    BY <1>2, <2>1 DEF Resume, StartRun
  <2> QED
    BY <2>2, <2>3
<1>3. ASSUME NEW c \in Bins, FlushWrite(c) PROVE record'[b].outcome = "ok"
  <2>1. record' = snapshot.record \/ record' = record
    BY <1>3 DEF FlushWrite
  <2>2. running /\ writer # NoBin /\ Relied
    BY <1>3, LedgerAssumption DEF FlushWrite, Relied, trusted
  <2>3. snapshot.record[b].outcome = "ok"
    BY <2>2 DEF IInv, RecordInv, ReviewedKept
  <2> QED
    BY <2>1, <2>3
<1>4. ASSUME NEW c \in Bins, Hook(c), ~FlushWrite(c) PROVE record' = record
  BY <1>4 DEF Hook, slotStart, slotDone, slotRequeue, stamp, FlushSkip, FlushSnapshot, Track,
              diskVars
<1>5. CASE Files \/ Cancel \/ Kill \/ Over \/ UNCHANGED vars
  BY <1>5 DEF Files, Join, WriteFindings, WriteReview, WriteStatus, Cancel, Kill, Over, vars,
              diskVars
<1> QED
  BY <1>1, <1>2, <1>3, <1>4, <1>5 DEF Next

-----------------------------------------------------------------------------
(* The persona's files stay in step with the record.                       *)

\* A run begins with the files as the last one left them.
LEMMA StartFiles ==
  ASSUME IInv, TypeOK', RunReview \/ Resume
  PROVE  FilesInv'
<1>0. [Next]_vars
  BY DEF Next
<1>1. PICK D \in SUBSET Bins :
        StartRun(D) /\ (runs = 0 \/ (D = pendingBins /\ D # {}))
    BY DEF RunReview, Resume, pendingBins, openBins
<1>2. PICK ok \in Written :
        /\ failed' = ~ok /\ ahead' = (ahead \/ ~ok) /\ behind' = (behind \/ ~ok)
        /\ record' = IF ok THEN plannedRecord(D) ELSE record
  BY <1>1 DEF StartRun
<1>3. /\ phase = "down" /\ phase' = "running" /\ bins' = plannedRecord(D)
      /\ pc' = [b \in Bins |-> IF b \in D THEN "queued" ELSE "out"]
      /\ carried' = {b \in Bins \ D : carryReviewed(b)}
      /\ prior' = NoPrior /\ mergedEarly' = FALSE /\ current' = FALSE
      /\ dispatches' = [b \in Bins |-> IF b \in D THEN dispatches[b] + 1 ELSE dispatches[b]]
      /\ UNCHANGED <<findings, findingsFile, review, status, vouched>>
  BY <1>1 DEF StartRun, RunReview, Resume
<1>4. priorFor' = [known |-> TRUE, findings |-> findings, review |-> review]
  BY <1>3 DEF priorFor, NoPrior, priorFromDisk
<1>5. Settled' /\ SkippedNothing' /\ FindingsWritten' /\ PriorKept' /\ ReplayedInStep'
  BY <1>3 DEF Settled, SkippedNothing, FindingsWritten, PriorKept, ReplayedInStep, NoPrior
<1>6. OutIsCarried'
  BY <1>3 DEF OutIsCarried, plannedRecord, Absent
<1>7. FailedNoted'
  BY <1>2 DEF FailedNoted
<1>8. CarriedFound'
  <2> SUFFICES ASSUME ~ahead', NEW b \in carried', bins'[b].outcome = "ok"
               PROVE  b \in findings
    BY <1>4 DEF CarriedFound
  <2>1. trusted /\ record[b].outcome = "ok" /\ ~ahead
    BY <1>2, <1>3 DEF plannedRecord, carryReviewed
  <2> QED
    BY <1>3, <2>1 DEF IInv, FilesInv, ReplayedInStep
<1>9. VouchedRecorded'
  <2> SUFFICES ASSUME status = "ok", ~ahead', ~behind', NEW b \in vouched
               PROVE  record'[b].outcome = "ok"
    BY <1>3 DEF VouchedRecorded
  <2>1. ~ahead /\ ~behind /\ runs # 0
    BY <1>2 DEF IInv, RecordInv, NothingYet
  <2>2. trusted /\ openBins # {}
    BY <1>1, <2>1 DEF pendingBins
  <2>3. b \in Bins /\ record[b].outcome = "ok"
    BY <2>1 DEF IInv, LedgerInv, TypeOK, FilesInv, VouchedRecorded
  <2> QED
    BY <1>0, <2>2, <2>3, StepKeepsReviewed
<1>10. NotYetMerged' /\ MergedOnce'
  <2>1. \A b \in Bins : review[b] \in Nat /\ dispatches[b] \in Nat /\ review[b] <= dispatches[b]
    BY DEF IInv, LedgerInv, TypeOK, FilesInv, MergedOnce
  <2> QED
    BY <1>3, <1>4, <2>1 DEF NotYetMerged, MergedOnce
<1>11. StatusVouches'
  BY <1>2, <1>3 DEF IInv, FilesInv, StatusVouches
<1> QED
  BY <1>5, <1>6, <1>7, <1>8, <1>9, <1>10, <1>11 DEF FilesInv

\* slotStart and slotRequeue leave the persona's files alone.
LEMMA StampFiles ==
  ASSUME IInv, NEW b \in Bins, NEW o \in Outcomes, NEW at \in Flushing,
         stamp(b, o, at), running, pc[b] \in {"queued", "calling"}
  PROVE  FilesInv'
<1>1. /\ UNCHANGED <<diskVars, phase, carried, prior, mergedEarly, failed, current, ahead, behind,
                     dispatches>>
      /\ phase = "running"
      /\ \A c \in Bins \ {b} : bins'[c] = bins[c] /\ pc'[c] = pc[c]
      /\ pc'[b] # "out" /\ pc[b] # "out" /\ b \notin carried
  BY DEF stamp, runVars, running, Flushing, IInv, LedgerInv, TypeOK, FilesInv, OutIsCarried
<1>2. priorFor' = priorFor
  BY <1>1 DEF priorFor, priorFromDisk, diskVars
<1>3. Settled' /\ SkippedNothing' /\ FindingsWritten' /\ PriorKept' /\ ReplayedInStep'
  BY <1>1 DEF Settled, SkippedNothing, FindingsWritten, PriorKept, ReplayedInStep, IInv, FilesInv,
              diskVars
<1>4. OutIsCarried' /\ FailedNoted'
  BY <1>1 DEF OutIsCarried, FailedNoted, IInv, FilesInv
<1>5. CarriedFound'
  BY <1>1, <1>2 DEF CarriedFound, IInv, FilesInv, LedgerInv, TypeOK
<1>6. VouchedRecorded' /\ StatusVouches' /\ MergedOnce'
  BY <1>1 DEF VouchedRecorded, StatusVouches, MergedOnce, IInv, FilesInv, diskVars
<1>7. NotYetMerged'
  BY <1>1, <1>2 DEF NotYetMerged, IInv, FilesInv
<1> QED
  BY <1>3, <1>4, <1>5, <1>6, <1>7 DEF FilesInv

\* A completion leaves the files alone, or has the last bin begin the early writes.
LEMMA HookFiles ==
  ASSUME IInv, TypeOK', NEW b \in Bins, Hook(b)
  PROVE  FilesInv'
<1>1. CASE slotDone(b) \/ slotRequeue(b)
  <2>1. /\ \E o \in Outcomes, at \in Flushing : stamp(b, o, at)
        /\ running /\ pc[b] \in {"queued", "calling"}
    BY <1>1 DEF slotDone, slotRequeue, Outcomes, Flushing
  <2> QED
    BY <2>1, StampFiles
<1>2. CASE slotStart(b) \/ FlushSkip(b) \/ FlushSnapshot(b) \/ FlushWrite(b)
  <2>1. /\ UNCHANGED <<findings, findingsFile, review, status, vouched, phase, carried, prior,
                       mergedEarly, bins, dispatches, current, ahead>>
        /\ phase = "running"
    BY <1>2 DEF slotStart, FlushSkip, FlushSnapshot, FlushWrite, flushing, running, diskVars,
                ledgerVars, runVars, histVars
  <2>2. \A c \in Bins : pc'[c] = "out" <=> pc[c] = "out"
    <3>1. pc[b] # "out"
      BY <1>2, LedgerAssumption DEF slotStart, FlushSkip, FlushSnapshot, FlushWrite, flushing,
         Flushing, running, IInv, LedgerInv, SnapshotFresh
    <3>2. pc' = pc \/ (\E at \in {"calling", "queued", "flushed"} : pc' = [pc EXCEPT ![b] = at])
      BY <1>2 DEF slotStart, FlushSkip, FlushSnapshot, FlushWrite, returned, hookVars
    <3> QED
      BY <3>1, <3>2 DEF IInv, LedgerInv, TypeOK
  <2>3. behind => behind'
    BY <1>2 DEF slotStart, FlushSkip, FlushSnapshot, FlushWrite, histVars
  <2>4. failed' => behind'
    BY <1>2 DEF slotStart, FlushSkip, FlushSnapshot, FlushWrite, histVars, ledgerVars, IInv,
                FilesInv, FailedNoted
  <2>5. priorFor' = priorFor
    BY <2>1 DEF priorFor, priorFromDisk
  <2>6. Settled' /\ SkippedNothing' /\ FindingsWritten' /\ PriorKept' /\ ReplayedInStep'
    BY <2>1 DEF Settled, SkippedNothing, FindingsWritten, PriorKept, ReplayedInStep, IInv, FilesInv
  <2>7. OutIsCarried' /\ FailedNoted' /\ CarriedFound'
    BY <2>1, <2>2, <2>3, <2>4, <2>5 DEF OutIsCarried, FailedNoted, CarriedFound, IInv, FilesInv
  <2>8. StatusVouches' /\ MergedOnce' /\ NotYetMerged'
    BY <2>1, <2>2, <2>3, <2>5 DEF StatusVouches, MergedOnce, NotYetMerged, IInv, FilesInv
  <2>9. VouchedRecorded'
    <3> SUFFICES ASSUME status = "ok", ~ahead', ~behind', NEW c \in vouched
                 PROVE  record'[c].outcome = "ok"
      BY <2>1 DEF VouchedRecorded
    <3>1. c \in Bins /\ record[c].outcome = "ok" /\ ~ahead
      BY <2>1, <2>3 DEF IInv, FilesInv, VouchedRecorded, LedgerInv, TypeOK
    <3>2. CASE FlushWrite(b)
      <4>1. record' = snapshot.record \/ record' = record
        BY <3>2 DEF FlushWrite
      <4>2. snapshot.record[c].outcome = "ok"
        BY <3>1, <3>2, LedgerAssumption DEF FlushWrite, IInv, RecordInv, ReviewedKept, Relied
      <4> QED
        BY <3>1, <4>1, <4>2
    <3>3. CASE ~FlushWrite(b)
      BY <1>2, <3>1, <3>3 DEF slotStart, FlushSkip, FlushSnapshot, diskVars
    <3> QED
      BY <3>2, <3>3
  <2> QED
    BY <2>6, <2>7, <2>8, <2>9 DEF FilesInv
<1>3. CASE Track(b)
  <2>1. /\ UNCHANGED <<diskVars, ledgerVars, carried, prior, mergedEarly, histVars>>
        /\ pc' = [pc EXCEPT ![b] = "resolved"] /\ pc[b] = "flushed"
        /\ phase = "running" /\ phase' \in {"running", "early findings", "skipped"}
        /\ phase' # "running" => \A c \in Dispatched \ {b} : pc[c] = "resolved"
        /\ phase' = "skipped" => Fresh = {}
    BY <1>3 DEF Track, running, MaySkip
  <2>2. priorFor' = priorFor
    BY <2>1 DEF priorFor, priorFromDisk, diskVars
  <2>3. \A c \in Bins : pc'[c] = "out" <=> pc[c] = "out"
    BY <2>1 DEF IInv, LedgerInv, TypeOK
  <2>4. Fresh' = Fresh
    BY <2>1, <2>3 DEF Fresh, Dispatched, ledgerVars
  <2>5. Settled'
    BY <2>1, ZenonT(40) DEF Settled, Dispatched, IInv, LedgerInv, TypeOK
  <2>6. SkippedNothing' /\ FindingsWritten' /\ PriorKept' /\ ReplayedInStep'
    BY <2>1, <2>4 DEF SkippedNothing, FindingsWritten, PriorKept, ReplayedInStep, IInv, FilesInv,
                      histVars, diskVars
  <2>7. OutIsCarried' /\ FailedNoted' /\ CarriedFound'
    BY <2>1, <2>2, <2>3 DEF OutIsCarried, FailedNoted, CarriedFound, IInv, FilesInv, ledgerVars,
                            histVars
  <2>8. StatusVouches' /\ MergedOnce' /\ NotYetMerged' /\ VouchedRecorded'
    BY <2>1, <2>2, <2>3 DEF StatusVouches, MergedOnce, NotYetMerged, VouchedRecorded, IInv,
                            FilesInv, diskVars, histVars
  <2> QED
    BY <2>5, <2>6, <2>7, <2>8 DEF FilesInv
<1> QED
  BY <1>1, <1>2, <1>3 DEF Hook

\* Once the bins have resolved, the record is on disk as the ledger has it.
LEMMA SettledDurable ==
  ASSUME IInv, phase \notin {"down", "running"}, ~behind
  PROVE  \A b \in Bins : record[b] = bins[b]
<1>1. ~failed
  BY DEF IInv, FilesInv, FailedNoted
<1>2. \A b \in Bins : pc[b] \notin Flushing
  BY DEF IInv, FilesInv, Settled, Flushing
<1> QED
  BY <1>1, <1>2 DEF IInv, LedgerInv, Durable

\* A merge has the findings of every reviewed bin.
LEMMA MergeHasReviewed ==
  ASSUME IInv, phase \notin {"down", "running"}, ~ahead
  PROVE  Reviewed \subseteq mergedFindings(priorFor)
<1> SUFFICES ASSUME NEW b \in Bins, bins[b].outcome = "ok"
             PROVE  b \in mergedFindings(priorFor)
  BY DEF Reviewed
<1>1. CASE pc[b] = "out"
  <2>1. b \in carried
    BY <1>1 DEF IInv, FilesInv, OutIsCarried
  <2>2. b \in priorFor.findings
    BY <2>1 DEF IInv, FilesInv, CarriedFound
  <2> QED
    BY <2>1, <2>2 DEF mergedFindings
<1>2. CASE pc[b] # "out"
  BY <1>2 DEF mergedFindings, Fresh, Dispatched, StatusOK
<1> QED
  BY <1>1, <1>2

\* However a run ends, what it leaves on disk is in step, unless it reviewed a bin
\* and left an older findings file.
LEMMA EndsInStep ==
  ASSUME IInv, phase # "down", findingsFile, ~ahead, ~Unmerged,
         NEW b \in Bins, record[b].outcome = "ok"
  PROVE  b \in findings
<1>1. bins[b].outcome = "ok"
  BY DEF IInv, RecordInv, RecordBacked
<1>2. CASE current
  BY <1>1, <1>2 DEF IInv, FilesInv, FindingsWritten, Reviewed
<1>3. CASE ~current
  <2>1. pc[b] = "out"
    BY <1>1, <1>3 DEF Unmerged, Dispatched
  <2>2. b \in priorFor.findings
    BY <1>1, <2>1 DEF IInv, FilesInv, OutIsCarried, CarriedFound
  <2>3. prior.known => prior.findings = findings
    BY <1>3 DEF IInv, FilesInv, PriorKept
  <2> QED
    BY <2>2, <2>3 DEF priorFor, priorFromDisk
<1> QED
  BY <1>2, <1>3

\* After the join a run ends, or goes on to its final writes, with the files in step.
LEMMA JoinFiles ==
  ASSUME IInv, Join
  PROVE  FilesInv'
<1>1. /\ UNCHANGED <<diskVars, ledgerVars, pc, carried, prior, mergedEarly, histVars>>
      /\ phase \in {"joined", "skipped"} /\ phase' \in {"down", "final findings"}
      /\ phase' = "final findings" => phase = "joined" /\ ~mergedEarly
      /\ phase = "joined" /\ phase' = "down" => mergedEarly
  BY DEF Join, hookVars, IInv, LedgerInv, TypeOK
<1>2. priorFor' = priorFor
  BY <1>1 DEF priorFor, priorFromDisk, diskVars
<1>3. Settled' /\ SkippedNothing' /\ FindingsWritten' /\ PriorKept'
  BY <1>1 DEF Settled, SkippedNothing, FindingsWritten, PriorKept, Reviewed, IInv, FilesInv,
              diskVars, ledgerVars, histVars
<1>4. OutIsCarried' /\ FailedNoted' /\ CarriedFound'
  BY <1>1, <1>2 DEF OutIsCarried, FailedNoted, CarriedFound, IInv, FilesInv, ledgerVars, histVars
<1>5. StatusVouches' /\ MergedOnce' /\ NotYetMerged' /\ VouchedRecorded'
  BY <1>1, <1>2 DEF StatusVouches, MergedOnce, NotYetMerged, VouchedRecorded, IInv, FilesInv,
                    diskVars, histVars
<1>6. ReplayedInStep'
  <2> SUFFICES ASSUME phase' = "down", trusted', ~ahead', NEW b \in Bins,
                      record'[b].outcome = "ok"
               PROVE  b \in findings
    BY <1>1 DEF ReplayedInStep, diskVars
  <2>1. /\ ~ahead /\ findingsFile /\ record[b].outcome = "ok"
        /\ phase # "down"
    BY <1>1 DEF trusted, diskVars, histVars
  <2>2. ~Unmerged
    <3>1. CASE phase = "joined"
      BY <1>1, <3>1 DEF IInv, FilesInv, FindingsWritten, Unmerged
    <3>2. CASE phase = "skipped"
      BY <3>2 DEF IInv, FilesInv, SkippedNothing, Unmerged, Fresh, StatusOK
    <3> QED
      BY <1>1, <3>1, <3>2
  <2> QED
    BY <2>1, <2>2, EndsInStep
<1> QED
  BY <1>3, <1>4, <1>5, <1>6 DEF FilesInv

\* The findings are written before anything that vouches for them.
LEMMA FindingsFiles ==
  ASSUME IInv, TypeOK', WriteFindings
  PROVE  FilesInv'
<1>1. PICK ok \in Written :
        /\ phase' = IF ~ok THEN AfterError
                    ELSE IF phase = "early findings" THEN "early review" ELSE "final review"
        /\ findings' = IF ok THEN mergedFindings(priorFor) ELSE findings
        /\ findingsFile' = (ok \/ findingsFile)
        /\ current' = (current \/ ok)
        /\ ahead' = (ahead \/ (phase' = "down" /\ Unmerged))
  BY DEF WriteFindings
<1>2. /\ phase \in {"early findings", "final findings"}
      /\ UNCHANGED <<record, review, status, vouched, ledgerVars, pc, carried, mergedEarly,
                     dispatches, behind>>
      /\ prior' = IF carried # {} THEN priorFor ELSE prior
  BY DEF WriteFindings, hookVars
<1>3. ok \in BOOLEAN /\ ~mergedEarly
  BY <1>2 DEF Written, IInv, FilesInv, PriorKept
<1>4. /\ phase' \in {"early review", "final review", "joined", "down"}
      /\ phase' = "joined" => ~ok
      /\ phase' = "down" => ~ok
  BY <1>1, <1>2, <1>3 DEF AfterError
<1>5. carried # {} => prior'.known /\ priorFor' = priorFor
  BY <1>2 DEF priorFor, priorFromDisk
<1>6. Settled' /\ SkippedNothing' /\ PriorKept' /\ OutIsCarried' /\ FailedNoted'
  <2>1. ~current' /\ prior'.known => prior'.findings = findings'
    BY <1>1, <1>2, <1>3 DEF PriorKept, priorFor, priorFromDisk, IInv, FilesInv
  <2>2. PriorKept'
    BY <1>2, <1>3, <1>4, <1>5, <2>1 DEF PriorKept
  <2> QED
    BY <1>2, <1>4, <2>2 DEF Settled, SkippedNothing, OutIsCarried, FailedNoted, IInv, FilesInv,
       ledgerVars
<1>7. CarriedFound' /\ NotYetMerged'
  BY <1>1, <1>2, <1>3, <1>5 DEF CarriedFound, NotYetMerged, IInv, FilesInv, ledgerVars
<1>8. ASSUME ok, ~ahead' PROVE Reviewed \subseteq findings'
  BY <1>1, <1>2, <1>8, MergeHasReviewed
<1>9. FindingsWritten'
  <2>1. phase' # "joined" /\ phase' # "down" => ok
    BY <1>1, <1>2, <1>3 DEF AfterError
  <2>2. ASSUME ~ok, current PROVE findingsFile' /\ (~ahead' => Reviewed' \subseteq findings')
    BY <1>1, <1>2, <2>2 DEF FindingsWritten, Reviewed, ledgerVars, IInv, FilesInv
  <2>3. ASSUME ok PROVE findingsFile' /\ (~ahead' => Reviewed' \subseteq findings')
    BY <1>1, <1>2, <1>8, <2>3 DEF Reviewed, ledgerVars
  <2> QED
    BY <1>1, <1>2, <1>3, <1>4, <2>1, <2>2, <2>3 DEF FindingsWritten
<1>10. VouchedRecorded' /\ MergedOnce'
  BY <1>1, <1>2 DEF VouchedRecorded, MergedOnce, IInv, FilesInv
<1>11. StatusVouches'
  <2> SUFFICES ASSUME status = "ok"
               PROVE  findingsFile' /\ (ahead' \/ behind \/ vouched \subseteq findings')
    BY <1>2 DEF StatusVouches
  <2>1. findingsFile'
    BY <1>1, <1>3 DEF IInv, FilesInv, StatusVouches
  <2>2. ASSUME ~ahead', ~behind, ok PROVE vouched \subseteq findings'
    <3>1. ~ahead /\ vouched \subseteq Bins
      BY <1>1, <2>2 DEF IInv, LedgerInv, TypeOK
    <3>2. vouched \subseteq Reviewed
      BY <1>2, <2>2, <3>1 DEF IInv, RecordInv, RecordBacked, FilesInv, VouchedRecorded, Reviewed
    <3> QED
      BY <1>8, <2>2, <3>2
  <2>3. ASSUME ~ahead', ~behind, ~ok PROVE vouched \subseteq findings'
    BY <1>1, <2>3 DEF IInv, FilesInv, StatusVouches
  <2> QED
    BY <1>3, <2>1, <2>2, <2>3 DEF IInv, LedgerInv, TypeOK
<1>12. ReplayedInStep'
  <2> SUFFICES ASSUME phase' = "down", trusted', ~ahead', NEW b \in Bins,
                      record[b].outcome = "ok"
               PROVE  b \in findings'
    BY <1>2 DEF ReplayedInStep
  <2>1. ~ok /\ ~ahead /\ ~Unmerged /\ findings' = findings
    BY <1>1, <1>3, <1>4 DEF IInv, LedgerInv, TypeOK
  <2>2. findingsFile /\ phase # "down"
    BY <1>1, <1>2, <2>1 DEF trusted
  <2> QED
    BY <2>1, <2>2, EndsInStep
<1> QED
  BY <1>6, <1>7, <1>9, <1>10, <1>11, <1>12 DEF FilesInv

\* review.md gets each bin's text once for a run.
LEMMA ReviewFiles ==
  ASSUME IInv, TypeOK', WriteReview
  PROVE  FilesInv'
<1>1. PICK ok \in Written :
        /\ phase' = IF ~ok THEN AfterError
                    ELSE IF phase = "early review" THEN "early status" ELSE "final status"
        /\ review' = IF ok THEN mergedReview(priorFor) ELSE review
  BY DEF WriteReview
<1>2. /\ phase \in {"early review", "final review"}
      /\ UNCHANGED <<record, findings, findingsFile, status, vouched, ledgerVars, pc, carried,
                     prior, mergedEarly, dispatches, current, ahead, behind>>
  BY DEF WriteReview, hookVars
<1>3. /\ ok \in BOOLEAN /\ ~mergedEarly
      /\ current /\ findingsFile /\ (~ahead => Reviewed \subseteq findings)
      /\ carried # {} => prior.known
  BY <1>2 DEF Written, IInv, FilesInv, PriorKept, FindingsWritten
<1>4. phase' \in {"early status", "final status", "joined", "down"}
  BY <1>1, <1>2, <1>3 DEF AfterError
<1>5. /\ carried # {} => priorFor' = priorFor
      /\ priorFor'.findings = priorFor.findings
  BY <1>2, <1>3 DEF priorFor, priorFromDisk
<1>6. Settled' /\ SkippedNothing' /\ PriorKept' /\ OutIsCarried' /\ FailedNoted'
  BY <1>2, <1>3, <1>4 DEF Settled, SkippedNothing, PriorKept, OutIsCarried, FailedNoted, IInv,
     FilesInv, ledgerVars
<1>7. CarriedFound' /\ NotYetMerged'
  BY <1>2, <1>5 DEF CarriedFound, NotYetMerged, IInv, FilesInv, ledgerVars
<1>8. FindingsWritten' /\ VouchedRecorded' /\ StatusVouches'
  <2>1. FindingsWritten'
    BY <1>2, <1>3, <1>4 DEF FindingsWritten, Reviewed, ledgerVars
  <2> QED
    BY <1>2, <2>1 DEF VouchedRecorded, StatusVouches, IInv, FilesInv
<1>9. MergedOnce'
  <2>1. CASE ~ok
    BY <1>1, <1>2, <2>1 DEF MergedOnce, IInv, FilesInv
  <2>2. CASE ok
    <3> SUFFICES ASSUME NEW b \in Bins PROVE mergedReview(priorFor)[b] <= dispatches[b]
      BY <1>1, <1>2, <2>2 DEF MergedOnce
    <3>1. /\ priorFor.review[b] \in Nat /\ dispatches[b] \in Nat
      BY PriorType DEF IInv, LedgerInv, TypeOK
    <3>2. /\ pc[b] # "out" => dispatches[b] > 0
          /\ carried # {} =>
               priorFor.review[b] + (IF pc[b] # "out" THEN 1 ELSE 0) <= dispatches[b]
      BY <1>2, <1>3 DEF IInv, FilesInv, NotYetMerged
    <3>3. b \in Fresh => pc[b] # "out"
      BY DEF Fresh, Dispatched
    <3> QED
      BY <3>1, <3>2, <3>3 DEF mergedReview
  <2> QED
    BY <1>3, <2>1, <2>2
<1>10. ReplayedInStep'
  <2>1. ~Unmerged /\ phase # "down"
    BY <1>2, <1>3 DEF Unmerged
  <2> QED
    BY <1>2, <1>3, <2>1, EndsInStep DEF ReplayedInStep
<1> QED
  BY <1>6, <1>7, <1>8, <1>9, <1>10 DEF FilesInv

\* status.json is written over findings that are there.
LEMMA StatusFiles ==
  ASSUME IInv, TypeOK', WriteStatus
  PROVE  FilesInv'
<1>1. PICK ok \in Written :
        /\ status' = IF ok THEN mergedStatus ELSE status
        /\ vouched' = IF ok THEN Reviewed ELSE vouched
        /\ mergedEarly' = (mergedEarly \/ (ok /\ carried # {}))
        /\ prior' = IF ok THEN NoPrior ELSE prior
  BY DEF WriteStatus
<1>2. /\ phase \in {"early status", "final status"} /\ phase' \in {"joined", "down"}
      /\ UNCHANGED <<record, findings, findingsFile, review, ledgerVars, pc, carried,
                     dispatches, current, ahead, behind>>
  BY DEF WriteStatus, hookVars
<1>3. /\ ok \in BOOLEAN /\ ~mergedEarly
      /\ current /\ findingsFile /\ (~ahead => Reviewed \subseteq findings)
      /\ carried # {} => prior.known
  BY <1>2 DEF Written, IInv, FilesInv, PriorKept, FindingsWritten
<1>4. /\ ok => priorFor'.findings = findings
      /\ ~ok => priorFor' = priorFor
  BY <1>1, <1>2 DEF priorFor, priorFromDisk, NoPrior
<1>5. Settled' /\ SkippedNothing' /\ OutIsCarried' /\ FailedNoted'
  BY <1>2 DEF Settled, SkippedNothing, OutIsCarried, FailedNoted, IInv, FilesInv, ledgerVars
<1>6. PriorKept'
  BY <1>1, <1>2, <1>3 DEF PriorKept
<1>7. CarriedFound'
  <2>1. CASE ok
    BY <1>2, <1>3, <1>4, <2>1 DEF CarriedFound, Reviewed, ledgerVars, IInv, LedgerInv, TypeOK
  <2>2. CASE ~ok
    BY <1>2, <1>4, <2>2 DEF CarriedFound, IInv, FilesInv, ledgerVars
  <2> QED
    BY <1>3, <2>1, <2>2
<1>8. NotYetMerged'
  BY <1>1, <1>2, <1>3, <1>4 DEF NotYetMerged, IInv, FilesInv
<1>9. FindingsWritten' /\ MergedOnce'
  BY <1>2, <1>3 DEF FindingsWritten, MergedOnce, IInv, FilesInv, Reviewed, ledgerVars
<1>10. VouchedRecorded' /\ StatusVouches'
  <2>1. CASE ok
    BY <1>1, <1>2, <1>3, <2>1, SettledDurable DEF VouchedRecorded, StatusVouches, Reviewed
  <2>2. CASE ~ok
    BY <1>1, <1>2, <2>2 DEF VouchedRecorded, StatusVouches, IInv, FilesInv
  <2> QED
    BY <1>3, <2>1, <2>2
<1>11. ReplayedInStep'
  <2>1. ~Unmerged /\ phase # "down"
    BY <1>2, <1>3 DEF Unmerged
  <2> QED
    BY <1>2, <1>3, <2>1, EndsInStep DEF ReplayedInStep
<1> QED
  BY <1>5, <1>6, <1>7, <1>8, <1>9, <1>10, <1>11 DEF FilesInv

\* A killed run leaves the files of the writes it finished.
LEMMA KillFiles ==
  ASSUME IInv, Kill
  PROVE  FilesInv'
<1>1. /\ phase # "down" /\ phase' = "down" /\ failed' = FALSE
      /\ UNCHANGED <<diskVars, dispatches, behind>>
      /\ ahead' = (ahead \/ Unmerged)
  BY DEF Kill
<1>2. ReplayedInStep'
  BY <1>1, EndsInStep DEF ReplayedInStep, trusted, diskVars
<1> QED
  BY <1>1, <1>2 DEF FilesInv, Settled, OutIsCarried, SkippedNothing, FailedNoted, CarriedFound,
     FindingsWritten, VouchedRecorded, PriorKept, NotYetMerged, StatusVouches, MergedOnce,
     diskVars, IInv

\* A cancel and a stutter leave the files as they are.
LEMMA SameFiles ==
  ASSUME IInv, Cancel \/ Over \/ UNCHANGED vars
  PROVE  FilesInv'
<1>1. UNCHANGED <<diskVars, ledgerVars, pc, phase, carried, prior, mergedEarly, dispatches,
                  current, ahead, behind>>
  BY DEF Cancel, Over, vars, hookVars, runVars, histVars
<1>2. priorFor' = priorFor /\ Fresh' = Fresh /\ Reviewed' = Reviewed /\ trusted' = trusted
  BY <1>1 DEF priorFor, priorFromDisk, Fresh, Dispatched, Reviewed, trusted, diskVars, ledgerVars
<1>3. /\ Settled' /\ OutIsCarried' /\ SkippedNothing' /\ FailedNoted' /\ CarriedFound'
      /\ FindingsWritten'
  BY <1>1, <1>2 DEF FilesInv, Settled, OutIsCarried, SkippedNothing, FailedNoted, CarriedFound,
     FindingsWritten, diskVars, ledgerVars, IInv
<1>4. VouchedRecorded' /\ PriorKept' /\ NotYetMerged'
  BY <1>1, <1>2 DEF FilesInv, VouchedRecorded, PriorKept, NotYetMerged, diskVars, ledgerVars, IInv
<1>5. StatusVouches' /\ ReplayedInStep' /\ MergedOnce'
  BY <1>1, <1>2 DEF FilesInv, StatusVouches, ReplayedInStep, MergedOnce, diskVars, ledgerVars, IInv
<1> QED
  BY <1>3, <1>4, <1>5 DEF FilesInv

-----------------------------------------------------------------------------
(* The theorems.                                                           *)

\* In every behaviour, through failed writes, kills and resumes, the ledger,
\* chunks.json, the findings file, review.md and status.json stay related as
\* the inductive invariant says.
THEOREM LedgerInvariance == Spec => []IInv
<1>1. Init => IInv
  <2> SUFFICES ASSUME Init PROVE IInv
    OBVIOUS
  <2>1. TypeOK
    BY TypeInit
  <2>2. LedgerInv
    BY <2>1 DEF Init, LedgerInv, LeasedCalls, Honest, SnapshotFresh, Durable, OkRests, Absent,
                running
  <2>3. RecordInv
    BY DEF Init, RecordInv, NothingYet, ReviewedKept, RecordBacked, running
  <2>4. FilesInv
    BY DEF Init, FilesInv, Settled, OutIsCarried, SkippedNothing, FailedNoted, CarriedFound,
       FindingsWritten, VouchedRecorded, PriorKept, NotYetMerged, StatusVouches, ReplayedInStep,
       MergedOnce, trusted
  <2> QED
    BY <2>2, <2>3, <2>4 DEF IInv
<1>2. IInv /\ [Next]_vars => IInv'
  <2> SUFFICES ASSUME IInv, [Next]_vars PROVE IInv'
    OBVIOUS
  <2>1. LedgerInv' /\ RecordInv' /\ TypeOK'
    BY LedgerStep, RecordStep DEF IInv, LedgerInv
  <2>2. FilesInv'
    BY <2>1, StartFiles, HookFiles, JoinFiles, FindingsFiles, ReviewFiles, StatusFiles,
       KillFiles, SameFiles DEF Next, Files
  <2> QED
    BY <2>1, <2>2 DEF IInv
<1> QED
  BY <1>1, <1>2, PTL DEF Spec

\* A hook returns only once chunks.json holds its outcome, whoever wrote it
\* (chunkLedger.flush).
THEOREM HooksAreDurable == Spec => []DurableCompletion
<1>1. IInv => DurableCompletion
  BY DEF IInv, LedgerInv, Durable, DurableCompletion, running, Flushing
<1> QED
  BY <1>1, LedgerInvariance, PTL

\* No attempt in flight is ever counted on disk (slotStart, slotDone).
THEOREM AttemptsAreHonest == Spec => []AttemptsHonest
<1>1. IInv => AttemptsHonest
  BY DEF IInv, LedgerInv, Honest, AttemptsHonest
<1> QED
  BY <1>1, LedgerInvariance, PTL

\* An ok status.json never stands without the findings it counted.
THEOREM StatusGoesLast == Spec => []StatusVouches
<1>1. IInv => StatusVouches
  BY DEF IInv, FilesInv
<1> QED
  BY <1>1, LedgerInvariance, PTL

\* A bin a resume may replay has its findings on disk, wherever a run was killed
\* and whichever flushes failed, unless a resume ended after it had reviewed a bin
\* and before it wrote the findings, or a plan was never written
\* (trustedChunkRecord).
THEOREM ReplayIsBacked == Spec => []ReplayedInStep
<1>1. IInv => ReplayedInStep
  BY DEF IInv, FilesInv
<1> QED
  BY <1>1, LedgerInvariance, PTL

\* review.md holds a bin's text at most once for each run that dispatched it.
THEOREM MergesOnce == Spec => []MergedOnce
<1>1. IInv => MergedOnce
  BY DEF IInv, FilesInv
<1> QED
  BY <1>1, LedgerInvariance, PTL

\* No write of a resume takes back a bin that a trusted record shows reviewed.
THEOREM ResumeForgetsNothing == Spec => ReviewedStays
<1>1. IInv /\ [Next]_vars =>
        [(trusted /\ openBins # {}) =>
           \A b \in Bins : record[b].outcome = "ok" => record'[b].outcome = "ok"]_vars
  BY StepKeepsReviewed
<1> QED
  BY <1>1, LedgerInvariance, PTL DEF Spec, ReviewedStays
=============================================================================
