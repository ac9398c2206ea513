# A TLA+ development of atcr

atcr sends a change set to a panel of LLM reviewers, collects their findings,
reconciles, verifies and reports them.  What is hard in it is not the text: it is
a few dozen goroutines sharing rate-limited providers, a run that may be
cancelled or killed at any instant, and files on disk that a later `atcr resume`
must be able to trust.  This project models those parts in TLA+, model-checks
them with TLC on small instances and proves every safety property of the passing runs
with TLAPS for every value of the constants.

`PROJECT.json` is the index: components, runs, the source lines behind every
definition, the hazards, the findings and the theorems.  All paths below are
relative to `src/`.

## 1. Inventory

### 1.1 The review path (the core)

| Component | State it keeps | Operations | Talks to |
|---|---|---|---|
| **Circuit breaker** `internal/circuitbreaker` | per provider: state, consecutive failures, `openedAt`, `probeInFlight` | `Allow`, `RecordSuccess`, `RecordFailure`, `ReleaseProbe`, `State` | called by every LLM call; read by the throttle |
| **LLM client** `internal/llmclient/client.go` | the retry index of a call | `send` (admission, one verdict per call), `dispatch` (bounded retries), `attempt` | breaker, HTTP |
| **Fan-out engine** `internal/fanout/engine.go` | results, per-unit retry state | `Run`: workers, `runUnit`, `settle`, panic recovery, the fallback walk | queue, throttle, completion hooks |
| **Work queue** `internal/fanout/workpool.go` | `pending`, `delayed`, `held`, the `changed` channel | `lease`, `requeue`, `release`, `promote`, `signal` | throttle, clock, context |
| **Outer retry** `internal/fanout/requeue.go` | attempts, backoff spent, circuit waits | `classifyUnitFailure`, `next`, `nextCircuitWait` | engine |
| **Provider throttle** `internal/fanout/throttle.go` | per lane: in-flight, cap, windows, 5xx streak; per provider: in-flight | `pick`, `verdict`, `acquire`, `done` | breaker state |
| **Chunk ledger** `internal/fanout/chunkrecord.go`, `chunkmerge.go` | in memory: record, leases, generations; on disk: `chunks.json` | `slotStart`, `slotDone`, `slotRequeue`, `flush`, `carryReviewed`, `writeMergedAgent` | engine hooks, artifact writers |
| **Review run and artifacts** `internal/fanout/review.go`, `artifacts.go` | on disk: findings, `review.md`, `status.json` | `runEngine`, `personaTracker`, `earlyAgentWriter`, `WritePool` | ledger, engine |
| **Resume** `internal/fanout/resume.go` | none of its own | `readResumeRecord`, `PrepareResume`, `ExecuteResume`, `writeResumedAgents` | everything on disk |

A run goes down this table: `Engine.Run` starts workers that lease units from the
queue; `take` asks the throttle, which reads the breakers; a held unit walks its
fallback chain, each call passing `send`'s breaker; the outcome is settled
(requeue with a backoff, or final), reported to the hooks (the ledger first, then
the persona tracker, which writes the persona's files), and released, which wakes
the waiting workers.  A resume reads what the last process left on disk and
dispatches what is open.

What makes each part correct:

* breaker: a half-open slot is never leaked; an open circuit is quiet; a recovered
  circuit starts clean; the state moves only closed → open → half-open → closed/open;
* queue, engine, throttle: no unit lost, doubled or reported twice; counts exact on
  every path; no lost wakeup; nobody leaves early; budgets kept; cancellation stops
  new calls; `Run` returns;
* ledger and resume: what a hook reported is on disk; an attempt in flight is not;
  reviewed bins survive kills; an `ok` status stands on its findings; a retried
  merge does not merge itself.

### 1.2 Around the review path

| Component | State | Hard behaviour |
|---|---|---|
| Backups `internal/atomicfs/atomic.go`, `internal/fanout/reviewdir.go` | a live path, `.bak`, `.bak.old`, a staged copy | kills and failures between renames: one whole generation must remain |
| Webhook daemon `internal/webhook` | job registry, dedupe window, wait group, auto-fix state file | duplicate deliveries, jobs racing for one pull request, shutdown against a late `Start`, a kill between file and memory, midnight |
| Auto-fix `cli/autofix.go`, `internal/autofix` | files, their backups, what GitHub has | partial failure, a revert that fails half way, leftovers of a killed run |
| Debt item locks `internal/localdebt/itemlock.go` | refs on a shared remote | clones racing, a stale read, an answer that is lost |
| Local debt store `internal/localdebt` | append-only shards under a file lock | a lock file removed while others wait on it |
| MCP server `internal/mcp` | running reviews | cancellation, shutdown drain |
| Debate, verification, reconciler | in memory | protocol of seats; vote aggregation; merge rules |
| Cache, payload builder, scorecard, sandbox, registry, parsers, renderers, CLI | files or none | sequential; little to interleave |

`PROJECT.json` lists each with the reason it is modelled, planned or left out,
and every hazard at the line where it bites.

## 2. Plan

1. **Breaker** (done): `Circuit` (abstract), `Breaker`, proofs in `BreakerProofs`.
2. **Work queue, retry, throttle, engine** (done): `SlotContract` (abstract),
   `WorkQueue`, proofs in `WorkQueueProofs`.  `Circuit` is its environment, which
   composes it with `Breaker`.
3. **Ledger, artifacts, resume** (done for the persona's bins): `ChunkLedger`, proofs
   in `ChunkLedgerProofs`.  To come: a payload that changes between runs (`dropOpenBins`), the manifest and
   `RebuildPool`.
4. **Backups and auto-fix** (done): `BackupSwap`, the two one-generation backups, and
   `AutoFix`, which runs them in sequence with apply, validation and revert; proofs of
   both in `AutoFixProofs`.
5. **Webhook daemon** (done): `Webhook`, job registry, dedupe, shutdown, auto-fix
   claims and restarts, proofs in `WebhookProofs`.
6. **Debt locks** (done): `ItemLock` with `ItemLockProofs`; `StoreLock` with
   `StoreLockProofs`, which is proved and has no run.
7. To come: the MCP server's review handles and drain; pure algorithms (vote
   aggregation, gate rules) against reference definitions.
8. Proofs: every safety invariant and every action property of a passing run is
   proved, and the safety half of the refinement of `SlotContract`.  What is left is
   liveness, which stays with TLC (section 5).

## 3. Modules and how they correspond to the code

### Circuit and Breaker

`Circuit` is what a reader of a breaker may rely on: three states and four moves.
`Breaker` is one breaker and the goroutines inside `Client.send` that share it.
Each breaker method runs under the breaker's mutex, so each is one step: `Allow`
(closed, probe and refused as separate disjuncts, each after `refresh`),
`RecordSuccess`, `RecordFailure`, `ReleaseProbe`, `ReadState`.  A caller is `idle`,
`sending` (in `dispatch`, where `Retry` is one more attempt) or `reporting` (between
`dispatch`'s return and the verdict).  `Replies` are the classes of an attempt's
outcome that `retryableStatus` and `isBreakerFailure` tell apart, `VerdictsOf` is
`send`'s switch.  A stall and a caller's deadline carry the same error and are told
apart by a later look at the context, so a transport failure may become either
verdict.  `Abandon` is a cancelled context or a panic.  `elapsed` is `now -
openedAt`, no longer counted once `refresh` cannot tell.  `stragglers` is a history
variable.

### SlotContract and WorkQueue

`SlotContract` is the promise of `Engine.Run`: each slot is resolved once, its
result never changes, and `Run` returns, after all of them.  `WorkQueue` is one
`unitQueue` with its workers.  The pool and the serial lane are two instances of
the code and two instances of the module (`Throttled`, `Serial`).

A worker is at `lease`, `parking` (mutex released, context not looked at again yet),
`waiting` (in the select), `leased`, `starting`, `calling`, `requeue`, `resolved`,
`release` or `exited`.  The steps between two looks at the context are separate
actions, because a cancel may fall between any two: `lease` itself looks twice under
the mutex and a third time after it.  `signal` closes the channel the waiting
workers took under the mutex, which is modelled as what it does: all of them
go back to `lease`.

`WalkResults` is every result `invokeSlotWithRetry` may return for a unit, given
whether a 429 on the primary is held back for a requeue; the walk over the chain is
abstracted to its last error and the three flags `settle` and the throttle read.
Timers are what is left of them.  `circuit` moves by itself along
`Circuit!CircuitSucc`, as the breaker is shared with other traffic.

### ChunkLedger

One chunked persona over a run and its resumes.  On disk: `record`
(`chunks.json`), `findings`, `review` and `status`; a bin stands for its file set,
`review[b]` counts how often the text of bin `b` stands in `review.md`.  In the
process: the ledger's record and leases, `gen`, `written`, `writer` (who holds
`writeMu`), and the hook each bin is in.  `flush` is three steps, as its mutex is
released around the write: `FlushSkip`, `FlushSnapshot`, `FlushWrite`.  The files are
written findings, review, status, first by the persona tracker and again after the
join.  Any write may fail (`Written`, at most `MaxFaults` times), the context may be
cancelled, and `Kill` drops everything but the disk, in every phase.

Three history variables say how record and findings stand to each other.  `current`: the
findings file is one this run wrote.  `ahead`: the record may show reviewed what no
findings file ever held, because a run ended beside an older findings file after it
stamped a bin reviewed and before it wrote the findings (`Unmerged`), or because its plan
was never written.  `behind`: a `chunks.json` write failed.  A kill of a fresh run, or of
a resume that has written its findings, sets none of them.

`"hollow"` is a bin with status ok whose lane contributed nothing or left a file
uncovered: ok for the status, open for a resume.

### Webhook

The daemon over several process lives.  A *delivery* is one authenticated request
whose event has a job; `pc` follows it from the handler (`fresh`, `refused`) into its
job (`resolving` … `ending`).  The three mutexes (of the dedupe, of `jobs`, of
`AutoFixState`) each make their critical section one step; what lies between two of
them is where the code can be overtaken: `firstSeen` then `Start`, `Start`'s refusal
then `forget`, `Resolve` then `claim`, the clock read in `runAutoFix` then `Claim`.
`Claim` itself is split at its file write (`writeAutoFixState`, `TakeClaim`), because
a kill may fall there; the mutex it holds is `MutexFree`.  The deferred calls of
`jobs.run` come in their order: `release` of the second key, `Unrun`'s `forget`,
`EndJob`.  A Slack job's one key is its pull request, which `Start` takes.  `Exit` is
any end of the process, `Restart` is `OpenAutoFixState`.  A request may be accepted
long before its handler gets to the dedupe, so `firstSeen` is possible at any time of
the process's life, after `Shutdown` too.  Time is the UTC day, and the end of a
dedupe window is the action `Expire`.

`FixOnce` looks at the moment a claim is written (`writeAutoFixState`) and at the pair's
last claim before it, which may be of the same day: the two are at least the replay
horizon apart.  The comment at `linear.go:45` says "at most one job, ever"; what the code
does, and `autofixstate.go:28` says, is one per horizon of 30 days, and that is what is
stated.

### BackupSwap and AutoFix

`BackupSwap` is one call of `BackupToDotBak` (a copy) or `backupExisting` (a move,
with its cross-device copy): `ClearStale`, `CopyLive`, `RenameAside`, `SwapIn` or
`SwapFails`, `TearLive` and `Vacate`, `RemoveOld`, one system call or loop of them each,
each with its failure.  Contents are generation numbers; `Torn` is a part.  Two history
variables carry the promise from call to call: `last` is the last whole backup made of a
path, until its owner drops it on purpose (`Dropped`: a cleanup, a revert that restored
it, an undone entry), and `leftovers` are the paths whose backup began on what a killed or
failed one left (`Interrupted`), until a whole backup is made again.

`AutoFix` extends it with `atcr review --force --auto-fix`, run after run in one
checkout: `StartRun` moves the review tree aside, `Review` writes it anew,
`selectAutoFixEntries` keeps the first fix of each path, `following` goes from one of
them to the next, `BackUp`, `WriteEntry` and their failures
are `applyOne`, and then comes validation with cleanup and publishing, or the revert,
which truncates (`RevertOpens`) before it copies.  `Kill` stops a run anywhere; the
next one starts from the disk as it is, leftovers included.  Content is the number of
the run that wrote it, so a patch is not confused with what it replaced.

### ItemLock

Clones lock and unlock items on one git remote.  A ref names a tag, a tag names its
holder, and each `git push` or `ls-remote` is a step.  A push lands in one transaction
(`CreateRefs`, `DeleteRefs`, external) and its answer may be lost, which is the `error`
branch of `LockLands` and `DeleteLands`.  A rejected `Lock` asks the remote afterwards
(`Lookup`), by when everything may have changed.  `holds`, `released` and `effect` are
history variables.  Two clones may use one holder name and then release each other's
locks, which the code intends.

### StoreLock

The `flock` of unix builds.  `Open`, `Flock`, `Check` (the second look at the path),
`Remove` and `Release` are the system calls of `withLock` and `tryFlock`.  The kernel is
`LockFree`: a file's lock is held through one descriptor.  A file is a number, new with
every creation, since an inode some process has open is not reused.

## 4. Runs

| Run | Instance | Distinct states | Shows |
|---|---|---|---|
| `Breaker` | 3 callers, threshold 2, cooldown 2, 1 retry | 74 thousand | type, `SlotHasOwner`, `OpenAdmitsNobody`, `FailureRunClean`, `ProbeResolves` (liveness), refinement of `Circuit` |
| `SingleProbe` | 3 callers, threshold 1 | – | *violated*: two probes in flight (finding 1) |
| `PoolSafety` | 2 workers, 3 units, 2 lanes of one provider, one fallback, 429 and 5xx | 1.4 million | nothing lost, counts exact, no lost wakeup, budgets, cancellation, the outage rule |
| `PoolLive` | 2 workers, 2 units, 429 and open circuits | 116 thousand | refinement of `SlotContract`, with its liveness |
| `SerialLane` | 1 worker, 2 units, deadlines, 429, open circuits, fallback | 44 thousand | the same refinement for the serial lane, budgets |
| `Ledger` | 2 bins, 1 requeue each, 1 failed write, a run and a resume | 2.5 million | durability, honest attempts, status and replay, merge once, reviewed bins kept |
| `LedgerReplay` | 2 bins, a run and two resumes, no faults | – | *violated*: a replayed bin without findings (finding 2) |
| `Webhook` | a Slack mention, one status change delivered twice, two more issues; cap 2, horizon 1 day, 2 days, 1 restart, 1 failed write | 285 thousand | one job per key and none leaked, one handling per event, keys given back, cap and claims exact, a shutdown that ends with nothing running |
| `AutoFixCap` | three issues, cap 1, 2 days | – | *violated*: two fixes on one day (finding 3) |
| `AutoFix` | a review tree and 3 files, 4 fixes (two of one file), 3 runs, both kinds of file system | 1.2 million | what the run found is kept, the last whole backup is kept, answers are true |
| `BackupRetry` | a review tree, 3 runs without fixes | – | *violated*: a retry after a kill leaves no backup (finding 4) |
| `ItemLock` | 3 clones, two of one holder name, 2 items, 2 `Lock` calls | 2.0 million | a lock stands until its holder name releases it, answers are true |

Why these bounds are enough for the cases in question.  *Breaker*: three callers are
a probe, a straggler from before the trip and one more to be admitted; a threshold
above one is needed for a failure run to exist, a cooldown of two for a moment at
which the circuit is open and part of it has passed.  *Pool*: two workers give one
that waits and one that works, the smallest pool with a wakeup to lose; three units
over two lanes of one provider let a lane be skipped while another is leased, and
leave one unit outside the retry; a ceiling of two is halved to one and raised back;
one unit of backoff is a timer that is running and then is not; two attempts
are a retry and an exhausted budget.  *Ledger*: two bins are a bin that writes while
another is in flight, and a carried bin beside a dispatched one; two runs are one
interrupted and one that resumes it; the third run of `LedgerReplay` is the one that
would replay the lost bin.  *Webhook*: two deliveries of one change are a duplicate that
may come before, during and after the first one's job; the Slack mention and the
second issue are a pull request taken by `Start` and one found later, and the second
issue's link may change; a cap of two leaves room for a second claim of one pair on one
day, which must be refused for the pair and not for the cap, and a third issue meets the
cap when it is used; two days pass a horizon of one, and one restart is the one between
the file and the memory.  `FirstThenSecond` explores the twin deliveries in one order of
arrival, the other being the same with the names exchanged; `CapUsedFirst` sends the third
issue once two claims were made, which is what it is there for, and not beside the Slack
mention, which claims nothing.  Both rule out orders of arrival only, and no arrival is
fair, so every behaviour of `ShutdownEnds` that keeps to the order is explored to its
end.  *AutoFix*: three runs are one that leaves
something behind, one that meets it and one that meets what that one made of it; the
fixes modify, create and delete, and two are of one file; `BackupRetry` needs one run that
makes a backup, one killed while it rotates it and one that retries.  *ItemLock*: two `Lock` calls
are a lock taken, released and re-taken under a reader's feet, or two racing; two
items are what an atomic push could split.  `StoreLock` needs no bound: it is proved.
Symmetry (`WorkerSymmetry`, `BinSymmetry`, `TwinSymmetry`) is used in
runs that check safety only.

Every property of a passing run has a mutant in `PROJECT.json`: a changed
definition (a dropped guard, a missing reset, an off-by-one) under which TLC finds
the property violated in the same run.

### Fairness

* `Breaker`: weak fairness of a caller's own steps.  An attempt is bounded by the
  HTTP client's timeout and the caller's deadline, the retry loop by its budget, and
  a returned `dispatch` runs on to the report.  Nothing is assumed of new calls, of
  the clock or of the provider.
* `WorkQueue`: weak fairness of each worker's steps and of time.  A walk is bounded
  by the unit's deadline, and `q.mu` is never held across a call.  Nothing is assumed
  of the circuits (which may move for ever), of providers or of the context.  That
  this is enough for `Run` to return is the point of `PoolLive`.
* `Webhook`: weak fairness of each accepted delivery's steps and of the goroutine that
  waits for the jobs.  A lookup and a review end when their context does, which
  `Shutdown` cancels, and no mutex is held across one.  Neither the grace period nor a
  kill is relied on, nor that requests arrive.
* `ChunkLedger`, `AutoFix`, `ItemLock` and `StoreLock` are treated for safety only.

### Findings

1. **`ReleaseProbe` frees a slot it may not own** (`breaker.go:195`): a call from
   before the trip that is cancelled while another call probes lets a second probe
   in.  The slot still never wedges (`SlotHasOwner` is proved).
2. **A findings file from an earlier run makes a record trusted**
   (`chunkmerge.go:89`): a resume killed between `slotDone`'s write and the merge
   leaves bins recorded ok whose findings exist nowhere, and the next resume replays
   them.  `ReplayedInStep` says how far the guarantee goes: after any kill of a fresh run,
   any failed flush and any wind-down, but not after such a resume (`ahead`).
3. **A claim dated before the state's day** (`autofixstate.go:154`): the clock is read
   before the mutex, and the state counts a single day, so a job that waits across
   midnight finds no count for its own day and starts beyond the cap.  `CapHolds` and
   `FixOnce` say that cap and horizon are kept while claims are dated in order.
4. **A retried backup removes the only one** (`reviewdir.go:322`, `atomic.go:154`): a call
   killed between the rename aside and the swap leaves the last backup in `.bak.old`; the
   next call removes that at entry, before it has made a new one, although both functions
   promise that an interrupted backup never leaves neither generation, across a retry too.
   `OneGeneration` says how far the promise goes: over any number of calls, kills and
   failures, except for calls that begin on such leftovers.

## 5. Proofs

### The breaker

`BreakerProofs` holds, for any set of callers, any positive threshold and cooldown
and any retry budget (`BreakerAssumption`; `Callers` need not be finite):

| Theorem | Statement |
|---|---|
| `BreakerInvariant` | `Spec => []IInv` |
| `TypeCorrect` | `Spec => []TypeOK`, with the failure run below the threshold |
| `SlotNeverWedges` | `Spec => []SlotHasOwner` |
| `OpenFailsFast` | `Spec => []OpenAdmitsNobody` |
| `CleanRun` | `Spec => []FailureRunClean` |
| `ImplementsCircuit` | `Spec => RefinesCircuit` |

`IInv` is `TypeOK`, the three safety invariants and two facts about callers: a
caller is admitted exactly while it is in flight (`AdmissionMatchesPc`) and one that
is about to report has a verdict (`ReportHasVerdict`), so that its report is never
blocked.  The invariants lean on each other: a trip from the closed state leaves
`probeInFlight` alone, so that the slot of an open circuit is free (half of
`SlotHasOwner`) rests on its being free in every state but half-open; a probe's own
report must free the slot whatever its verdict, and every other report either frees
it or leaves the probe in flight; `OpenAdmitsNobody` rests on `refresh` being
the only way out of the open state, and on `open` noting everyone then in flight.
The bound in `TypeOK`, a failure run below the threshold, is inductive because the
step that would reach the threshold trips and clears it.  The proof of the induction
step has a lemma per group of actions (`Allow`, the dispatch loop, the report, the
clock), and in each a step per conjunct.  The refinement uses `IInv` for the range
of the state; every step is then one of the four moves or leaves the state alone.

### The item locks

`ItemLockProofs`, for any clones, items, holder names and number of `Lock` calls:
`Invariance` (`Spec => []IInv`), `TypeCorrect`, `HeldIsLocked` (`LockedWhileHeld`),
`TrueAnswers` (`AnswersTrue`) and `MutualExclusion`: two holder names never both have an
unreleased lock on one item.  `IInv` adds three facts to the checked invariants.
`TagsMade`: tags are numbered as they are made, so a new one is in no ref and in
nobody's hands, and a lock a client was told of carries that client's holder.
`DeleteOwn`: what an `Unlock` is about to delete carries its own holder name; with the
lease this is why a delete that lands releases only locks of that name.
`NoEffectYet`: a call that is not answered has changed nothing, from which the answers
follow.  One lemma treats each kind of step that changes the remote, and one the rest.

### The store lock

`StoreLockProofs`, for any set of processes: `LockExcludes` (two never run their `fn` at
once) and `OwnFileRemoved` (the deferred `Remove` hits the holder's own file), from
`LockInvariance`.  The invariant is that a file's lock has one holder, that a process
past its open has a file, and that the file at the path is the one the process in
`fn` locked.  The last is what the second look in `tryFlock` establishes, and it stays
because only the process in `fn` removes the file and a new one is made only where
there is none.  Without that look TLC finds it violated.

### The webhook

`WebhookProofs`, for any finite set of deliveries, any events and any caps and bounds:

| Theorem | Statement |
|---|---|
| `RegistryInvariance`, `KeysOwnedOnce` | `Spec => []IInv`, `Spec => []OneOwner` |
| `WaitInvariance`, `ShutdownIsQuiet` | `Spec => []WaitInv`, `Spec => []StoppedIsQuiet` |
| `DedupeInvariance`, `RunsOncePerWindow`, `KeysAreNotBurned` | `Spec => []DedupeInv`, `[]HandledOnce`, `[]KeyNotBurned` |
| `ClaimInvariance`, `CapIsExact`, `FixesOnce` | `Spec => []ClaimInv`, `[]CapHolds`, `Spec => FixOnce` |
| `TypeCorrect` | `Spec => []TypeOK` |

What the three mutexes and the wait group protect hardly meets, so there are four small
inductive invariants instead of one large one; `TypeOK` rests on all of them.

They use `WebhookAssumption`: an issue's key is never a pull request's and an id of a
Linear event is never another source's (`linear:` prefixes both), and a Slack job's key
is its pull request.  The registry's invariant adds `JobShape`: a job that claims or
has claimed its pull request knows it, and only a Linear job has a second key to release.
With it every step of a delivery takes keys nobody has or gives back its own, which
`MoveKeepsOwner` shows is all that `OneOwner` needs; `release` keeps the first key
because the two differ.  The shutdown needs that `wg` is the number of jobs under way,
so that it is zero when there is none, and that `Start` tests `closed` in the section that
counts the job.

The dedupe's invariant says which deliveries can still decide about an id: those from
`fresh` to the call of `Run` (`NotRun`).  An id has at most one such delivery, is seen
and not run while it has one, and a seen Linear id that was not run has one
(`SeenForAReason`).  The last step of that way either calls `Run` or forgets the id, so
neither half can be lost.  The claims' invariant is that `Claim`'s mutex has one holder and
that outside it memory and file are the same (`MutexInv`), and, while claims are dated in
order, that the count is the day's, that no later day has a claim, and that a claim the
file no longer lists is older than the horizon (`StateTrue`).  The third is what `FixOnce`
needs: a pair the file still lists is refused unless its claim is past the horizon, on
whatever day, and one it no longer lists was pruned past it.  The second makes a new day's
count start at zero.

### The work queue

`WorkQueueProofs`, for any finite, nonempty set of workers, any units, lanes and
providers, any budgets, backoffs and windows, throttled or not, pool or serial lane:

| Theorem | Statement |
|---|---|
| `QueueInvariance` | `Spec => []IInv` |
| `TypeCorrect` | `Spec => []TypeOK` |
| `NoUnitLost` | `Spec => []UnitInOnePlace` |
| `CountsAreExact` | `Spec => []InFlightExact` |
| `SkippedIsHeldUp` | `Spec => []SkippedHasHolder` |
| `NoLostWakeup` | `Spec => []BlockedWillWake` |
| `LeavesDrained` | `Spec => []ExitMeansDrained` |
| `WithinBudgets` | `Spec => []BudgetsHold` |
| `CancelStops`, `OutageDrains` | `Spec => CancelStopsWork`, `Spec => OutageOneLease` |
| `KeepsSlotContract` | `Spec => Slots!Safety` |

`IInv` says of the workers that they have a unit exactly between a lease and its
settlement and no two the same (`Shape`), of the units that each is somewhere and never in
two places (`Places`), of the budgets that a unit that may be called again has an attempt
left (`Budgeted`), and of results that a unit called or about to be reported has one
(`Resulted`); `InFlightExact`, `BlockedWillWake` and `ExitMeansDrained` are conjuncts as
they stand.  `Places` is `UnitInOnePlace` without its sum of cardinalities, which the
provers cannot carry through a step; the sum is derived from it at the end.  The
properties need each other: that a count is a natural number (`TypeOK`) rests on its being
the number of holders, that a skipped unit has a holder rests on the counts being exact and
the caps at least one, that a worker that waits without a timer has a `held` unit to wait
for rests on that, and that nothing comes back to a queue some worker left rests on
nobody holding a unit.

`promote` and `take` move units between sequences.  What they do is proved once, for any
sequence: `At` (the members at some positions, in order) lists exactly those members, and
once each (from the bijection between a finite set of numbers and its ranks), and `Without`
drops one position.  That the earliest timer exists (`nextReady`) is the
well-foundedness of the naturals.  `ShiftAssumption` states that the shifts of a backoff are
positive numbers, a fact of arithmetic the provers have no induction for; TLC evaluates it.
`KeepsSlotContract` is the safety half of `RefinesSlotContract`: the hook fires once per unit
and with a result, and `Run` returns after all of them, which is `ExitMeansDrained` and
`Places` together.

### The chunk ledger

`ChunkLedgerProofs`, for any finite set of two or more bins (one bin is not chunked) and
any number of requeues, faults and runs:

| Theorem | Statement |
|---|---|
| `LedgerInvariance` | `Spec => []IInv` |
| `TypeCorrect` | `Spec => []TypeOK` |
| `HooksAreDurable` | `Spec => []DurableCompletion` |
| `AttemptsAreHonest` | `Spec => []AttemptsHonest` |
| `StatusGoesLast` | `Spec => []StatusVouches` |
| `ReplayIsBacked` | `Spec => []ReplayedInStep` |
| `MergesOnce` | `Spec => []MergedOnce` |
| `ResumeForgetsNothing` | `Spec => ReviewedStays` |

The argument has three layers.  *Coalesced writes* (`LedgerInv`): a snapshot has every bin
but those stamped after it (`SnapshotFresh`), and the disk every bin but those whose flush
is still due (`Durable`); generation numbers compare the two, and a hook that skips its
write does so only when `written` has reached what it wants.  *The record through kills*
(`RecordInv`): as long as a resume relies on the disk (`Relied`), what the disk shows
reviewed is reviewed in the ledger and in every snapshot about to be written
(`ReviewedKept`), so no write takes it back; a reviewed bin is not dispatched again
(`OkRests`); and the disk never shows reviewed what the ledger does not (`RecordBacked`).  *The files* (`FilesInv`): a replayed bin's findings are in what the merge
starts from (`CarriedFound`), the findings file is written before review and status
(`FindingsWritten`) and then has every reviewed bin, an ok status counted only bins the record shows reviewed
(`VouchedRecorded`), the artifacts the first merge read are kept until one is complete
(`PriorKept`), and the text a merge starts from has none of this run's bins
(`NotYetMerged`), which is why a retry of the merge adds each at most once.  A kill is
where `ReplayedInStep` has to be shown anew (`EndsInStep`): beside a findings file the
reviewed bins of the record are those of a ledger that was merged, or were carried from
it, or `Unmerged` notes the end as `ahead`.  `LedgerAssumption`
says besides that `NoBin` is no bin.

### Backups and auto-fix

`AutoFixProofs`, for any paths, any list of fixes (several of one file, of different kinds)
and any number of runs:

| Theorem | Statement |
|---|---|
| `AutoFixInvariance` | `Spec => []IInv` |
| `TypeCorrect` | `Spec => []TypeOK` |
| `FoundIsKept` | `Spec => []PreRunKept` |
| `BackupsHeld`, `GenerationsKept` | `Spec => []HeldInv`, `Spec => []OneGeneration` |
| `AnswersAreTrue` | `Spec => []AnswerTrue` |

`Generations` says for each point of a backup where the prior generation is and where the
content being backed up is: live and in `.bak` before the rename aside, in `.bak.old` and
the staged copy, or the live tree itself, before the swap, in `.bak` after it.  A lemma per
system call shows that the call, or its failure, leads to the next such point
(`BackupKeeps`).  Around it `IInv` has: in the two phases that back up, the call is one for
the tree or for the entry ApplyPatch is at (`CallShape`); the tree stays in its backup
(`DirKept`); `MapTrue`, the meaning of the `BackupMap`: an entry with a backup has the
original there, one without was absent, and a file not in the map is as it was or, in a
revert that collected an error, still has its `.bak`; `Landed`, that the entries before
`next` hold this run's content unless one failed and those from it on are not in the map,
which is where one fix per path is needed; one file is restored at a time; and what was
validated is what is there.  Everything but the two properties is given up when a run ends
or is killed (`LeftBehind`), since the next one starts from the disk as it is.

`OneGeneration` speaks of backups made by earlier calls, so it has an invariant of its own,
`HeldInv`, which is kept at a kill.  A path that is not among the leftovers has its last
whole backup in `.bak`, or in `.bak.old` with no `.bak` (`HeldIn`); a call that begins
there finds it in `.bak`, or else begins on leftovers.  While the call is under way
(`MadeSoFar`) that backup is its prior, until the swap makes the content it started from
the last one; that content is whole, since a torn live path counts as left over.  With
`Generations` each system call then leaves the backup where `HeldIn` looks for it; a lemma
per group of calls says so.

The attempt changed the model in two places.  The content validation passed on was first
kept as a function with `NoFiles` for none, which is also what a run that deletes every
file validates; it is now a set with at most one member.  And `AnswerTrue` spoke of every
fix, which is wrong of a second fix of a path that differs in kind from the first: it now
speaks of the entries, the first fix of each path, and `next` runs over their positions.

### What is not proved

The liveness properties `ProbeResolves` and `ShutdownEnds` and the fairness half of
`RefinesSlotContract` are outside what the prover does and stay with TLC.  The properties
of the four violated runs are false.

## 6. What is not modelled

* Inside the modelled parts: the test seams of the breaker (`ForceHalfOpen`,
  `SetClock`, the registry's `Reset` and `Set`); prompts, payloads, tokens, usage and
  redaction; the tool loop and the classification of a reply's text; deferred bins,
  bins over a window and the numbers of the file gap; the validation of a resume's
  range and roster.
* Panics and kills inside a single atomic file write: `WriteFileAtomic` (temporary
  file, then rename) is one step.
* A cancel between `promote` and the second look at the context in `lease`
  (`workpool.go:100`) is in the model, and leaves a worker waiting on the timer of a
  delayed unit although the comment at line 97 says none can be there.  The run then ends
  one backoff later than it could, which `RefinesSlotContract` allows; no run is kept for it.
* `LeaseUnit` reads the breakers and takes the unit in one step.  A circuit that trips
  between the two is as one that trips just after: the lease stands in both.
* The budget of circuit waits is exercised in `SerialLane`, the attempts in both lanes; the
  backoff budget refuses no retry in any run, since two attempts do not use it up.  That
  it holds for all values is `WithinBudgets`.
* `Review` writes the review tree in one step; a kill in the middle of it would leave a
  part, which the next `--force` backs up as it is.
* In the webhook daemon: signatures and parsing (a refused request changes nothing
  here), the checkout, the child process of a fix and its process group; a
  `job_timeout` set above the dedupe window, which the options do not refuse and `Expire`
  leaves out; the claims of a clock that is set back.
* In auto-fix: diffs, path guards, the validation command; `--output-dir`.
* In the debt store: the records and their fold, which are sequential under the lock,
  a compaction killed between two shards, and the locks of other operating systems.
* Verification and debate run bounded pools whose jobs each write their own slot and
  are joined before the result is used; reconciler, payload builder, scorecard, cache,
  registry, parsers and renderers are sequential processing of text; the sandbox and
  the command line drive other programs or wire the parts above.  The MCP server's
  drain has the shape of `Webhook`'s shutdown and is next in the plan.
