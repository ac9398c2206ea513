---------------------------- MODULE ChunkLedger ----------------------------
(***************************************************************************)
(* One chunked persona of a baseline review across runs and kills: the     *)
(* ledger that keeps chunks.json (internal/fanout/chunkrecord.go), the     *)
(* writers of the persona's findings, review.md and status.json            *)
(* (review.go, artifacts.go), and the resume that reads them back          *)
(* (resume.go, chunkmerge.go).                                             *)
(*                                                                         *)
(* A bin stands for its file set, which the payload keeps between runs.    *)
(* The engine's workers call the hooks as module WorkQueue shows: a bin is *)
(* held by one worker at a time and resolves once per run.                 *)
(***************************************************************************)
EXTENDS Integers, FiniteSets

CONSTANTS Bins,          \* the persona's bins, more than one
          MaxRequeues,   \* requeues of one bin in one run
          MaxFaults,     \* bound: writes that fail
          MaxRuns        \* bound: runs and resumes of the review

NoBin == "no bin"

ASSUME LedgerAssumption ==
  /\ IsFiniteSet(Bins) /\ Cardinality(Bins) > 1 /\ NoBin \notin Bins
  /\ MaxRequeues \in Nat /\ MaxRuns \in Nat /\ MaxFaults \in Nat

VARIABLES
  \* on disk
  record,        \* chunks.json: each bin's outcome and attempts
  findings,      \* the bins whose findings the findings file holds
  findingsFile,  \* that file exists
  review,        \* how often review.md holds each bin's text
  status,        \* status.json: "none", "ok" or "failed"
  vouched,       \* the reviewed bins status.json was computed from
  \* the process
  phase,         \* "down", "running", or the persona's file being written
  resuming,      \* PreparedReview.resuming
  cancelled,     \* the run's context is done
  bins,          \* the ledger's record
  leased,        \* the ledger's leased set
  gen, written,  \* mutations of the record, and the last one a write captured
  failed,        \* a chunks.json write has failed
  writer,        \* the bin whose hook holds writeMu, or NoBin
  snapshot,      \* the record that hook took under mu, and its gen
  pc,            \* where each dispatched bin is
  want,          \* the generation each bin's flush must see written
  requeues,      \* requeues of each bin in this run
  carried,       \* the prior bins this run replays
  prior,         \* the artifacts the first merge of this run read
  mergedEarly,   \* the early write merged the replayed bins
  \* history
  runs,          \* runs started
  faults,        \* writes that failed
  dispatches,    \* runs that dispatched each bin
  ended,         \* attempts of each bin that ended, in any run
  current,       \* the findings file is one this run wrote
  ahead,         \* chunks.json may show reviewed what no findings file ever held
  behind         \* a chunks.json write failed, so it may miss what was reviewed

diskVars == <<record, findings, findingsFile, review, status, vouched>>
ledgerVars == <<bins, leased, gen, written, failed, writer, snapshot>>
hookVars == <<pc, want, requeues>>
runVars == <<phase, resuming, cancelled, carried, prior, mergedEarly>>
histVars == <<runs, faults, dispatches, ended, current, ahead, behind>>
vars == <<diskVars, ledgerVars, hookVars, runVars, histVars>>

NoPrior == [known |-> FALSE, findings |-> {}, review |-> [b \in Bins |-> 0]]
Absent == [outcome |-> "absent", attempts |-> 0]

\* What a write can come to.
Written == IF faults < MaxFaults THEN BOOLEAN ELSE {TRUE}
Faulted(ok) == faults' = IF ok THEN faults ELSE faults + 1

\* "ok" is an ok bin that covered all its files.  "hollow" is an ok bin whose
\* lane contributed nothing, or whose re-packed server left a file uncovered.
Outcomes == {"pending", "ok", "hollow", "failed"}
BinRecords == [outcome : Outcomes \cup {"absent"}, attempts : Nat]

StatusOK(o) == o \in {"ok", "hollow"}
open(r) == r.outcome \in {"pending", "failed", "hollow"}

Dispatched == {b \in Bins : pc[b] # "out"}
Fresh == {b \in Dispatched : StatusOK(bins[b].outcome)}

\* This run has stamped a bin reviewed, and the findings file is an older run's.
Unmerged == findingsFile /\ ~current /\ \E b \in Dispatched : bins[b].outcome = "ok"

-----------------------------------------------------------------------------
(* Starting: a fresh run, or a resume of the record on disk.               *)

Init ==
  /\ record = [b \in Bins |-> Absent]
  /\ findings = {} /\ findingsFile = FALSE
  /\ review = [b \in Bins |-> 0]
  /\ status = "none" /\ vouched = {}
  /\ phase = "down"
  /\ resuming = FALSE /\ cancelled = FALSE
  /\ bins = [b \in Bins |-> Absent]
  /\ leased = {}
  /\ gen = 0 /\ written = 0 /\ failed = FALSE
  /\ writer = NoBin
  /\ snapshot = [gen |-> 0, record |-> [b \in Bins |-> Absent]]
  /\ pc = [b \in Bins |-> "out"]
  /\ want = [b \in Bins |-> 0]
  /\ requeues = [b \in Bins |-> 0]
  /\ carried = {} /\ prior = NoPrior /\ mergedEarly = FALSE
  /\ runs = 0 /\ faults = 0
  /\ dispatches = [b \in Bins |-> 0]
  /\ ended = [b \in Bins |-> 0]
  /\ current = FALSE /\ ahead = FALSE /\ behind = FALSE

\* trustedChunkRecord: a record that parses, beside a findings file.
trustedAlone == \E b \in Bins : record[b] # Absent
trusted == findingsFile /\ \E b \in Bins : record[b] # Absent
openBins == {b \in Bins : open(record[b])}

\* readResumeRecord and PrepareResume: the bins a resume dispatches.  None when
\* the persona is done.
pendingBins ==
  IF trusted /\ openBins # {} THEN openBins
  ELSE IF status = "ok" THEN {}
  ELSE Bins

\* inheritAttempts and carryReviewed: the record a resume plans.
inherited(b) == IF trusted /\ open(record[b]) THEN record[b].attempts ELSE 0
carryReviewedNone(b) == FALSE
carryReviewed(b) == trusted /\ StatusOK(record[b].outcome)
plannedRecord(D) ==
  [b \in Bins |-> IF b \in D THEN [outcome |-> "pending", attempts |-> inherited(b)]
                  ELSE IF carryReviewed(b) THEN record[b]
                  ELSE Absent]

\* newChunkLedger to writePlan, whose write may fail.
StartRun(D) ==
  /\ runs' = runs + 1
  /\ phase' = "running"
  /\ cancelled' = FALSE
  /\ bins' = plannedRecord(D)
  /\ leased' = {}
  /\ gen' = 1 /\ written' = 1
  /\ \E ok \in Written :
       /\ Faulted(ok)
       /\ failed' = ~ok
       /\ ahead' = (ahead \/ ~ok) /\ behind' = (behind \/ ~ok)
       /\ record' = IF ok THEN plannedRecord(D) ELSE record
  /\ writer' = NoBin
  /\ snapshot' = [gen |-> 0, record |-> [b \in Bins |-> Absent]]
  /\ pc' = [b \in Bins |-> IF b \in D THEN "queued" ELSE "out"]
  /\ want' = [b \in Bins |-> 0]
  /\ requeues' = [b \in Bins |-> 0]
  /\ carried' = {b \in Bins \ D : carryReviewed(b)}
  /\ prior' = NoPrior /\ mergedEarly' = FALSE
  /\ dispatches' = [b \in Bins |-> IF b \in D THEN dispatches[b] + 1 ELSE dispatches[b]]
  /\ current' = FALSE
  /\ UNCHANGED <<findings, findingsFile, review, status, vouched, ended>>

RunReview ==
  /\ phase = "down" /\ runs = 0 /\ runs < MaxRuns
  /\ resuming' = FALSE
  /\ StartRun(Bins)

Resume ==
  /\ phase = "down" /\ runs > 0 /\ runs < MaxRuns
  /\ pendingBins # {}
  /\ resuming' = TRUE
  /\ StartRun(pendingBins)

-----------------------------------------------------------------------------
(* The ledger's hooks.                                                     *)

running == phase = "running"

slotStartCounting(b) ==
  /\ running /\ pc[b] = "queued" /\ ~cancelled
  /\ leased' = leased \cup {b}
  /\ bins' = [bins EXCEPT ![b].attempts = @ + 1]
  /\ pc' = [pc EXCEPT ![b] = "calling"]
  /\ UNCHANGED <<diskVars, gen, written, failed, writer, snapshot, want, requeues, runVars,
                 histVars>>
slotStart(b) ==
  /\ running /\ pc[b] = "queued" /\ ~cancelled
  /\ leased' = leased \cup {b}
  /\ pc' = [pc EXCEPT ![b] = "calling"]
  /\ UNCHANGED <<diskVars, bins, gen, written, failed, writer, snapshot, want, requeues, runVars,
                 histVars>>

\* The part of slotDone and slotRequeue under mu: the outcome is stamped, a
\* leased attempt is counted, and the generation a write must hold is noted.
stamp(b, o, at) ==
  /\ bins' = [bins EXCEPT ![b] = [outcome |-> o,
                                  attempts |-> IF b \in leased THEN @.attempts + 1
                                               ELSE @.attempts]]
  /\ leased' = leased \ {b}
  /\ gen' = gen + 1
  /\ want' = [want EXCEPT ![b] = gen + 1]
  /\ pc' = [pc EXCEPT ![b] = at]
  /\ ended' = [ended EXCEPT ![b] = IF pc[b] = "calling" THEN @ + 1 ELSE @]
  /\ UNCHANGED <<diskVars, written, failed, writer, snapshot, runVars, runs, faults, dispatches,
                 current, ahead, behind>>

slotDone(b) ==
  /\ running
  /\ \/ pc[b] = "calling" /\ \E o \in {"ok", "hollow", "failed"} : stamp(b, o, "done")
     \/ pc[b] = "queued" /\ cancelled /\ stamp(b, "failed", "done")
  /\ UNCHANGED requeues

slotRequeueUnbounded(b) ==
  /\ running /\ pc[b] = "calling" /\ ~cancelled
  /\ requeues' = [requeues EXCEPT ![b] = @ + 1]
  /\ stamp(b, "pending", "requeued")
slotRequeue(b) ==
  /\ running /\ pc[b] = "calling" /\ ~cancelled
  /\ requeues[b] < MaxRequeues
  /\ requeues' = [requeues EXCEPT ![b] = @ + 1]
  /\ stamp(b, "pending", "requeued")

\* What a bin does once its flush returns.
returned(b) == IF pc[b] = "requeued" THEN "queued" ELSE "flushed"
flushing(b) == running /\ pc[b] \in {"done", "requeued"}

\* flush finds its generation captured by another hook's write.
FlushSkip(b) ==
  /\ flushing(b) /\ writer = NoBin
  /\ written >= want[b]
  /\ pc' = [pc EXCEPT ![b] = returned(b)]
  /\ UNCHANGED <<diskVars, ledgerVars, want, requeues, runVars, histVars>>

\* flush takes a snapshot under mu.
FlushSnapshot(b) ==
  /\ flushing(b) /\ writer = NoBin
  /\ written < want[b]
  /\ writer' = b
  /\ snapshot' = [gen |-> gen, record |-> bins]
  /\ UNCHANGED <<diskVars, bins, leased, gen, written, failed, hookVars, runVars, histVars>>

\* flush's write, outside mu, and what it notes of it: a failed write still
\* advances written.
FlushWriteNotingGen(b) ==
  /\ running /\ writer = b
  /\ \E ok \in Written :
       /\ Faulted(ok)
       /\ record' = IF ok THEN snapshot.record ELSE record
       /\ failed' = (failed \/ ~ok)
       /\ behind' = (behind \/ ~ok)
  /\ written' = gen
  /\ writer' = NoBin
  /\ pc' = [pc EXCEPT ![b] = returned(b)]
  /\ UNCHANGED <<findings, findingsFile, review, status, vouched, bins, leased, gen, snapshot,
                 want, requeues, runVars, runs, dispatches, ended, current, ahead>>
FlushWrite(b) ==
  /\ running /\ writer = b
  /\ \E ok \in Written :
       /\ Faulted(ok)
       /\ record' = IF ok THEN snapshot.record ELSE record
       /\ failed' = (failed \/ ~ok)
       /\ behind' = (behind \/ ~ok)
  /\ written' = snapshot.gen
  /\ writer' = NoBin
  /\ pc' = [pc EXCEPT ![b] = returned(b)]
  /\ UNCHANGED <<findings, findingsFile, review, status, vouched, bins, leased, gen, snapshot,
                 want, requeues, runVars, runs, dispatches, ended, current, ahead>>

\* personaTracker.slotDone: the last bin to resolve writes the persona's files.
\* On a resume a persona that produced nothing may be a synthesized
\* cancellation, which neither write records.
MaySkip == resuming /\ Fresh = {}

Track(b) ==
  /\ running /\ pc[b] = "flushed"
  /\ pc' = [pc EXCEPT ![b] = "resolved"]
  /\ IF \A c \in Dispatched \ {b} : pc[c] = "resolved"
     THEN phase' \in {"early findings"} \cup (IF MaySkip THEN {"skipped"} ELSE {})
     ELSE UNCHANGED phase
  /\ UNCHANGED <<diskVars, ledgerVars, want, requeues, resuming, cancelled, carried, prior,
                 mergedEarly, histVars>>

-----------------------------------------------------------------------------
(* The persona's files: findings, review.md and status.json, in that       *)
(* order, once when its last bin resolves and again after the join.        *)

\* priorFor: the artifacts on disk when this run first merged.
priorFromDisk == [known |-> TRUE, findings |-> findings, review |-> review]
priorReread == priorFromDisk
priorFor == IF prior.known THEN prior ELSE priorFromDisk

mergedFindings(p) == (p.findings \cap carried) \cup Fresh
mergedReview(p) ==
  [b \in Bins |-> (IF carried # {} THEN p.review[b] ELSE 0) + (IF b \in Fresh THEN 1 ELSE 0)]
mergedStatus == IF Fresh \cup carried # {} THEN "ok" ELSE "failed"
Reviewed == {b \in Bins : bins[b].outcome = "ok"}

\* A persona whose early write already merged its replayed bins is not merged
\* again.
Join ==
  /\ \/ phase = "joined" /\ phase' = IF mergedEarly THEN "down" ELSE "final findings"
     \/ phase = "skipped" /\ phase' = "down"
  /\ UNCHANGED <<diskVars, ledgerVars, hookVars, resuming, cancelled, carried, prior,
                 mergedEarly, histVars>>

\* The phase after a file write failed: the early write is left to the final
\* one, and the final one's error ends the run.
AfterErrorGoOn == CASE phase = "early findings" -> "early review"
                    [] phase = "final findings" -> "final review"
                    [] phase = "early review" -> "early status"
                    [] OTHER -> "final status"
AfterError == IF phase \in {"early findings", "early review", "early status"}
              THEN "joined" ELSE "down"

WriteFindings ==
  /\ phase \in {"early findings", "final findings"}
  /\ prior' = IF carried # {} THEN priorFor ELSE prior
  /\ \E ok \in Written :
       /\ Faulted(ok)
       /\ phase' = IF ~ok THEN AfterError
                   ELSE IF phase = "early findings" THEN "early review" ELSE "final review"
       /\ findings' = IF ok THEN mergedFindings(priorFor) ELSE findings
       /\ findingsFile' = (ok \/ findingsFile)
       /\ current' = (current \/ ok)
       /\ ahead' = (ahead \/ (phase' = "down" /\ Unmerged))
  /\ UNCHANGED <<record, review, status, vouched, ledgerVars, hookVars, resuming, cancelled,
                 carried, mergedEarly, runs, dispatches, ended, behind>>

WriteReview ==
  /\ phase \in {"early review", "final review"}
  /\ \E ok \in Written :
       /\ Faulted(ok)
       /\ phase' = IF ~ok THEN AfterError
                   ELSE IF phase = "early review" THEN "early status" ELSE "final status"
       /\ review' = IF ok THEN mergedReview(priorFor) ELSE review
  /\ UNCHANGED <<record, findings, findingsFile, status, vouched, ledgerVars, hookVars,
                 resuming, cancelled, carried, prior, mergedEarly, runs, dispatches, ended,
                 current, ahead, behind>>

WriteStatus ==
  /\ \/ phase = "early status" /\ phase' = "joined"
     \/ phase = "final status" /\ phase' = "down"
  /\ \E ok \in Written :
       /\ Faulted(ok)
       /\ status' = IF ok THEN mergedStatus ELSE status
       /\ vouched' = IF ok THEN Reviewed ELSE vouched
       /\ mergedEarly' = (mergedEarly \/ (ok /\ carried # {}))
       /\ prior' = IF ok THEN NoPrior ELSE prior
  /\ UNCHANGED <<record, findings, findingsFile, review, ledgerVars, hookVars, resuming,
                 cancelled, carried, runs, dispatches, ended, current, ahead, behind>>

-----------------------------------------------------------------------------
(* The outside world.                                                      *)

\* SIGINT, or the run's ceiling: the context is done and the run winds down.
Cancel ==
  /\ running /\ ~cancelled
  /\ cancelled' = TRUE
  /\ UNCHANGED <<diskVars, ledgerVars, hookVars, phase, resuming, carried, prior, mergedEarly,
                 histVars>>

\* The process is killed: only the disk survives.
Kill ==
  /\ phase # "down"
  /\ phase' = "down"
  /\ ahead' = (ahead \/ Unmerged)
  /\ current' = FALSE
  /\ resuming' = FALSE /\ cancelled' = FALSE
  /\ bins' = [b \in Bins |-> Absent]
  /\ leased' = {}
  /\ gen' = 0 /\ written' = 0 /\ failed' = FALSE
  /\ writer' = NoBin
  /\ snapshot' = [gen |-> 0, record |-> [b \in Bins |-> Absent]]
  /\ pc' = [b \in Bins |-> "out"]
  /\ want' = [b \in Bins |-> 0]
  /\ requeues' = [b \in Bins |-> 0]
  /\ carried' = {} /\ prior' = NoPrior /\ mergedEarly' = FALSE
  /\ UNCHANGED <<diskVars, runs, faults, dispatches, ended, behind>>

\* Nothing more to run: the persona is done, or the bound is reached.
Over == phase = "down" /\ (runs >= MaxRuns \/ (runs > 0 /\ pendingBins = {})) /\ UNCHANGED vars

Hook(b) ==
  \/ slotStart(b) \/ slotDone(b) \/ slotRequeue(b)
  \/ FlushSkip(b) \/ FlushSnapshot(b) \/ FlushWrite(b) \/ Track(b)
Files == Join \/ WriteFindings \/ WriteReview \/ WriteStatus

Next ==
  \/ RunReview \/ Resume
  \/ \E b \in Bins : Hook(b)
  \/ Files
  \/ Cancel \/ Kill \/ Over

Spec == Init /\ [][Next]_vars

-----------------------------------------------------------------------------
(* Properties.                                                             *)

Phases == {"down", "running", "skipped", "joined", "early findings", "early review", "early status",
           "final findings", "final review", "final status"}

TypeOK ==
  /\ record \in [Bins -> BinRecords] /\ bins \in [Bins -> BinRecords]
  /\ findings \subseteq Bins /\ findingsFile \in BOOLEAN
  /\ review \in [Bins -> Nat]
  /\ status \in {"none", "ok", "failed"} /\ vouched \subseteq Bins
  /\ phase \in Phases
  /\ resuming \in BOOLEAN /\ cancelled \in BOOLEAN /\ failed \in BOOLEAN
  /\ leased \subseteq Bins
  /\ gen \in Nat /\ written \in 0..gen
  /\ writer \in Bins \cup {NoBin}
  /\ snapshot \in [gen : 0..gen, record : [Bins -> BinRecords]]
  /\ pc \in [Bins -> {"out", "queued", "calling", "done", "requeued", "flushed", "resolved"}]
  /\ want \in [Bins -> 0..gen]
  /\ requeues \in [Bins -> 0..MaxRequeues]
  /\ carried \subseteq Bins
  /\ prior \in [known : BOOLEAN, findings : SUBSET Bins, review : [Bins -> Nat]]
  /\ mergedEarly \in BOOLEAN
  /\ runs \in 0..MaxRuns /\ faults \in 0..MaxFaults
  /\ current \in BOOLEAN /\ ahead \in BOOLEAN /\ behind \in BOOLEAN
  /\ dispatches \in [Bins -> Nat] /\ ended \in [Bins -> Nat]

\* slotDone and slotRequeue return only once chunks.json holds the outcome: with
\* coalesced writes, whichever hook did the writing, a bin that is past its flush
\* is on disk as the ledger has it, unless the run has noted a failed write.
DurableCompletion ==
  \A b \in Bins :
    (running /\ ~failed /\ pc[b] \in {"queued", "calling", "flushed", "resolved"})
      => record[b] = bins[b]

\* An attempt in flight never reaches the disk, whatever another bin's write
\* captured meanwhile and however many runs were killed.
AttemptsHonest == \A b \in Bins : record[b].attempts <= ended[b]

\* A resume never forgets a reviewed bin: while a trusted record leaves work
\* open, a bin it shows reviewed stays so, from the first write of the plan on.
ReviewedStays ==
  [][(trusted /\ openBins # {}) =>
       \A b \in Bins : record[b].outcome = "ok" => record'[b].outcome = "ok"]_vars

\* status.json goes last: an ok status never stands without the findings of the
\* bins it counted, wherever a run is killed between the writes of the files,
\* unless an earlier run left chunks.json ahead of the findings or a chunks.json
\* write failed.
StatusVouches ==
  status = "ok" => findingsFile /\ (ahead \/ behind \/ vouched \subseteq findings)

\* What a resume replays has findings on disk (trustedChunkRecord): a run may be
\* killed at any point, its flushes may fail to write, and it may wind down
\* without its final files.  The one exception is what ahead notes: a resume that
\* ended, beside an older findings file, after a bin of its own was stamped and
\* before it wrote the findings, and a run whose plan was never written.
ReplayedInStep ==
  (phase = "down" /\ trusted /\ ~ahead) =>
    \A b \in Bins : record[b].outcome = "ok" => b \in findings

\* A retried merge rebuilds from the prior artifacts and never merges its own
\* output a second time: review.md holds a bin's text at most once for each run
\* that dispatched it.
MergedOnce == \A b \in Bins : review[b] <= dispatches[b]

\* readPriorChunkRecords: a record beside a findings file is trusted so that no
\* bin is replayed whose findings exist nowhere.
ReplayedHasFindings ==
  (phase = "down" /\ trusted) =>
    \A b \in Bins : record[b].outcome = "ok" => b \in findings
=============================================================================
