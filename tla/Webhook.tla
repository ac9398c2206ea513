------------------------------ MODULE Webhook ------------------------------
(***************************************************************************)
(* The webhook daemon (internal/webhook): the request handlers, the dedupe *)
(* window, the jobs they start (jobs.go) and the auto-fix state that       *)
(* outlives the process (autofixstate.go).                                 *)
(*                                                                         *)
(* A delivery is one authenticated request whose event has a job; it is    *)
(* followed from the request to the end of its job.  Requests the handlers *)
(* refuse, and events without a job, leave this state alone.  Each mutex   *)
(* makes its critical section one step, the handlers and the jobs run      *)
(* between.  Time is the UTC day; the dedupe window ends by an action.     *)
(***************************************************************************)
EXTENDS Integers, FiniteSets

CONSTANTS
  Deliveries,
  Event,         \* each delivery's event: [id, linear, fix, job, prs]
  DailyCap,      \* daily_cap of the auto-fix
  Horizon,       \* autoFixReplayHorizon, in days
  MaxDay,        \* bound: days run from 0 to MaxDay
  MaxRestarts,   \* bound: how often the daemon is started again
  MaxFaults      \* bound: how often the state file cannot be written

Ids == {Event[d].id : d \in Deliveries}
PRs == UNION {Event[d].prs : d \in Deliveries}
Keys == {Event[d].job : d \in Deliveries} \cup PRs
Days == 0..MaxDay
None == -1
NoPR == "none"

\* id is what the dedupe remembers: a Slack event id, or an issue and a state
\* with the prefix linear:, which no Slack id has.
\* job is the key Start takes: the issue, or for Slack the pull request itself.
\* prs are the pull requests an issue's lookup may answer; links change.
ASSUME WebhookAssumption ==
  /\ IsFiniteSet(Deliveries)
  /\ \A d \in Deliveries :
       /\ Event[d].linear \in BOOLEAN /\ Event[d].fix \in BOOLEAN
       /\ Event[d].linear \/ (~Event[d].fix /\ Event[d].prs = {Event[d].job})
       /\ Event[d].linear => Event[d].job \notin PRs
  /\ \A d, e \in Deliveries :
       Event[d].id = Event[e].id => Event[d].linear = Event[e].linear
  /\ DailyCap \in Nat \ {0} /\ Horizon \in Nat \ {0}
  /\ MaxDay \in Nat /\ MaxRestarts \in Nat /\ MaxFaults \in Nat

VARIABLES
  phase,      \* up, closing (its jobs cancelled), stopped or down
  pc,         \* where each delivery's handler or job is
  seen,       \* dedupe.seen: ids within the window
  running,    \* jobs.running: the keys of running jobs
  wg,         \* jobs.wg
  pr,         \* the pull request a job found or is for, or NoPR
  nowOf,      \* the day an auto-fix job read before its claim, or None
  mem,        \* AutoFixState.data
  disk,       \* the state file
  today,
  restarts, faults,
  ran,        \* history: jobs run for each id in its window
  claimed,    \* history: the day each id was last claimed
  startedOn,  \* history: claims made on each day
  late        \* history: a claim was dated before the state's day

procVars == <<phase, restarts>>
jobVars == <<seen, running, wg, pr, ran>>
fixVars == <<nowOf, mem, disk, faults, claimed, startedOn, late>>
vars == <<procVars, pc, jobVars, fixVars, today>>

-----------------------------------------------------------------------------
(* Where a delivery can be.                                                *)

\* fresh is the handler before Start, refused the handler with Start's error.
Handling == {"fresh", "refused"}

\* The job holds its pull request from the claim (Slack: from Start) on.
Ran == {"running", "dated", "written", "fixing", "releasing"}
Working == Ran \cup {"resolving", "resolved", "unrun", "ending"}

PCs == Handling \cup Working \cup {"unsent", "done"}

KeysOf(d) ==
  (IF pc[d] \in Working THEN {Event[d].job} ELSE {}) \cup
  (IF pc[d] \in Ran THEN {pr[d]} ELSE {})

Goto(d, at) == pc' = [pc EXCEPT ![d] = at]

-----------------------------------------------------------------------------
(* Requests: server.go.                                                    *)

\* handleSlack and handleLinear, which acknowledge the request, and then the
\* dedupe.  The request may have been accepted long before, while the daemon
\* still served: the handler gets here at any time in the process's life.
firstSeen(d) ==
  /\ phase # "down" /\ pc[d] = "unsent"
  /\ IF Event[d].id \in seen
     THEN Goto(d, "done") /\ UNCHANGED seen
     ELSE Goto(d, "fresh") /\ seen' = seen \cup {Event[d].id}
  /\ UNCHANGED <<procVars, running, wg, pr, ran, fixVars, today>>

closedNever == FALSE

closed == phase \in {"closing", "stopped"}

StartWithoutAdd(d) ==
  /\ pc[d] = "fresh" /\ ~closed /\ Event[d].job \notin running
  /\ running' = running \cup {Event[d].job}
  /\ IF Event[d].linear
     THEN Goto(d, "resolving") /\ UNCHANGED <<pr, ran>>
     ELSE /\ Goto(d, "running")
          /\ pr' = [pr EXCEPT ![d] = Event[d].job]
          /\ ran' = [ran EXCEPT ![Event[d].id] = @ + 1]
  /\ UNCHANGED <<procVars, seen, wg, fixVars, today>>

StartKeepingSeen(d) ==
  /\ pc[d] = "fresh"
  /\ closed \/ Event[d].job \in running
  /\ Goto(d, "done")
  /\ UNCHANGED <<procVars, jobVars, fixVars, today>>

\* A Slack job runs under its one key at once; a Linear job looks its pull
\* request up first.  A refused Slack event stays seen, a Linear one is
\* forgotten by the handler, outside the mutex.
Start(d) ==
  /\ pc[d] = "fresh"
  /\ IF closed \/ Event[d].job \in running
     THEN /\ Goto(d, IF Event[d].linear THEN "refused" ELSE "done")
          /\ UNCHANGED <<running, wg, pr, ran>>
     ELSE /\ running' = running \cup {Event[d].job}
          /\ wg' = wg + 1
          /\ IF Event[d].linear
             THEN Goto(d, "resolving") /\ UNCHANGED <<pr, ran>>
             ELSE /\ Goto(d, "running")
                  /\ pr' = [pr EXCEPT ![d] = Event[d].job]
                  /\ ran' = [ran EXCEPT ![Event[d].id] = @ + 1]
  /\ UNCHANGED <<procVars, seen, fixVars, today>>

\* dispatchLinear's forget, and Unrun's.
forget(d) ==
  /\ pc[d] \in {"refused", "unrun"}
  /\ seen' = seen \ {Event[d].id}
  /\ Goto(d, IF pc[d] = "refused" THEN "done" ELSE "ending")
  /\ UNCHANGED <<procVars, running, wg, pr, ran, fixVars, today>>

\* The window of a handled id ends.  A job's timeout is below the window, so no
\* job outlives its id (NewServer's defaults: 30 minutes and an hour).
Expire(k) ==
  /\ k \in seen
  /\ \A d \in Deliveries : Event[d].id = k => pc[d] \in {"unsent", "done"}
  /\ seen' = seen \ {k}
  /\ ran' = [ran EXCEPT ![k] = 0]
  /\ UNCHANGED <<procVars, pc, running, wg, pr, fixVars, today>>

-----------------------------------------------------------------------------
(* Jobs: jobs.run, and the Run of a review and of an auto-fix.             *)

\* The lookup finds the pull request, or fails, or panics.
Resolve(d) ==
  /\ pc[d] = "resolving"
  /\ \/ \E p \in Event[d].prs :
          pr' = [pr EXCEPT ![d] = p] /\ Goto(d, "resolved")
     \/ Goto(d, "unrun") /\ UNCHANGED pr
  /\ UNCHANGED <<procVars, seen, running, wg, ran, fixVars, today>>

claimUnchecked(d) ==
  /\ pc[d] = "resolved"
  /\ running' = running \cup {pr[d]}
  /\ ran' = [ran EXCEPT ![Event[d].id] = @ + 1]
  /\ Goto(d, "running")
  /\ UNCHANGED <<procVars, seen, wg, pr, fixVars, today>>

claim(d) ==
  /\ pc[d] = "resolved"
  /\ IF pr[d] \in running
     THEN Goto(d, "unrun") /\ UNCHANGED <<running, ran>>
     ELSE /\ running' = running \cup {pr[d]}
          /\ ran' = [ran EXCEPT ![Event[d].id] = @ + 1]
          /\ Goto(d, "running")
  /\ UNCHANGED <<procVars, seen, wg, pr, fixVars, today>>

\* A Slack job has no second key to release.
AfterRun(d) == IF Event[d].linear THEN "releasing" ELSE "ending"

\* A review, or an auto-fix whose head branch is not found, returns or panics;
\* so does a fix under way.  A cancelled context only makes it return sooner.
Return(d) ==
  /\ pc[d] \in {"running", "fixing"}
  /\ Goto(d, AfterRun(d))
  /\ UNCHANGED <<procVars, jobVars, fixVars, today>>

\* runAutoFix finds the head branch and reads the clock for Claim.
HeadFound(d) ==
  /\ Event[d].fix /\ pc[d] = "running"
  /\ nowOf' = [nowOf EXCEPT ![d] = today]
  /\ Goto(d, "dated")
  /\ UNCHANGED <<procVars, jobVars, mem, disk, faults, claimed, startedOn,
                 late, today>>

replayExpiredEarly(at, now) == now - at >= Horizon - 1

replayExpired(at, now) == now - at >= Horizon

ClaimedIn(state, k, now) ==
  state.seen[k] # None /\ ~replayExpired(state.seen[k], now)

countOn(state, day) == IF state.day = day THEN state.count ELSE 0

\* The claim's new state: the expired pairs pruned, this one recorded.
NextState(state, k, now) ==
  [seen |-> [j \in Ids |->
               IF j = k THEN now
               ELSE IF ClaimedIn(state, j, now) THEN state.seen[j] ELSE None],
   day |-> now, count |-> countOn(state, now) + 1]

\* Claim holds the state's mutex from its checks until the write is in memory.
MutexFree == \A d \in Deliveries : pc[d] # "written"

Claimable(d) ==
  /\ ~ClaimedIn(mem, Event[d].id, nowOf[d])
  /\ countOn(mem, nowOf[d]) < DailyCap

\* The pair was claimed, or the day's cap is used.
ClaimRefused(d) ==
  /\ pc[d] = "dated" /\ MutexFree /\ ~Claimable(d)
  /\ Goto(d, AfterRun(d))
  /\ UNCHANGED <<procVars, jobVars, fixVars, today>>

writeAutoFixState(d) ==
  /\ pc[d] = "dated" /\ MutexFree /\ Claimable(d)
  /\ disk' = NextState(mem, Event[d].id, nowOf[d])
  /\ late' = (late \/ nowOf[d] < mem.day)
  /\ claimed' = [claimed EXCEPT ![Event[d].id] = nowOf[d]]
  /\ startedOn' = [startedOn EXCEPT ![nowOf[d]] = @ + 1]
  /\ Goto(d, "written")
  /\ UNCHANGED <<procVars, jobVars, nowOf, mem, faults, today>>

WriteFailsCounted(d) ==
  /\ pc[d] = "dated" /\ MutexFree /\ Claimable(d)
  /\ faults < MaxFaults
  /\ faults' = faults + 1
  /\ mem' = NextState(mem, Event[d].id, nowOf[d])
  /\ Goto(d, AfterRun(d))
  /\ UNCHANGED <<procVars, jobVars, nowOf, disk, claimed, startedOn, late, today>>

WriteFails(d) ==
  /\ pc[d] = "dated" /\ MutexFree /\ Claimable(d)
  /\ faults < MaxFaults
  /\ faults' = faults + 1
  /\ Goto(d, AfterRun(d))
  /\ UNCHANGED <<procVars, jobVars, nowOf, mem, disk, claimed, startedOn, late,
                 today>>

\* s.data = next, and the fix starts.
TakeClaim(d) ==
  /\ pc[d] = "written"
  /\ mem' = disk
  /\ Goto(d, "fixing")
  /\ UNCHANGED <<procVars, jobVars, nowOf, disk, faults, claimed, startedOn,
                 late, today>>

releaseForgetting(d) ==
  /\ pc[d] = "releasing"
  /\ running' = running \ {pr[d]}
  /\ Goto(d, "unrun")
  /\ UNCHANGED <<procVars, seen, wg, pr, ran, fixVars, today>>

release(d) ==
  /\ pc[d] = "releasing"
  /\ running' = running \ {pr[d]}
  /\ Goto(d, "ending")
  /\ UNCHANGED <<procVars, seen, wg, pr, ran, fixVars, today>>

EndJobNotDone(d) ==
  /\ pc[d] = "ending"
  /\ running' = running \ {Event[d].job}
  /\ pr' = [pr EXCEPT ![d] = NoPR]
  /\ nowOf' = [nowOf EXCEPT ![d] = None]
  /\ Goto(d, "done")
  /\ UNCHANGED <<procVars, seen, wg, ran, mem, disk, faults, claimed, startedOn,
                 late, today>>

\* The last deferred call of run.
EndJob(d) ==
  /\ pc[d] = "ending"
  /\ running' = running \ {Event[d].job}
  /\ wg' = wg - 1
  /\ pr' = [pr EXCEPT ![d] = NoPR]
  /\ nowOf' = [nowOf EXCEPT ![d] = None]
  /\ Goto(d, "done")
  /\ UNCHANGED <<procVars, seen, ran, mem, disk, faults, claimed, startedOn,
                 late, today>>

-----------------------------------------------------------------------------
(* The process: Serve, Shutdown, a kill and the next start.                *)

\* jobs.Shutdown: once srv.Shutdown saw the handlers return or its grace end,
\* or right away when srv.Serve itself failed.
CloseJobs ==
  /\ phase = "up"
  /\ phase' = "closing"
  /\ UNCHANGED <<restarts, pc, jobVars, fixVars, today>>

\* wg.Wait returns: Shutdown answers nil, a handler may still be at work.
JobsDone ==
  /\ phase = "closing" /\ wg = 0
  /\ phase' = "stopped"
  /\ UNCHANGED <<restarts, pc, jobVars, fixVars, today>>

\* The process ends: it returned from Serve, its grace ended, or it was killed.
Exit ==
  /\ phase # "down"
  /\ phase' = "down"
  /\ pc' = [d \in Deliveries |-> IF pc[d] = "unsent" THEN "unsent" ELSE "done"]
  /\ seen' = {} /\ running' = {} /\ wg' = 0
  /\ pr' = [d \in Deliveries |-> NoPR]
  /\ nowOf' = [d \in Deliveries |-> None]
  /\ ran' = [k \in Ids |-> 0]
  /\ UNCHANGED <<restarts, mem, disk, faults, claimed, startedOn, late, today>>

\* OpenAutoFixState reads what the last process wrote.
Restart ==
  /\ phase = "down" /\ restarts < MaxRestarts
  /\ restarts' = restarts + 1
  /\ phase' = "up"
  /\ mem' = disk
  /\ UNCHANGED <<pc, jobVars, nowOf, disk, faults, claimed, startedOn, late,
                 today>>

Midnight ==
  /\ today < MaxDay
  /\ today' = today + 1
  /\ UNCHANGED <<procVars, pc, jobVars, fixVars>>

\* Nothing is left to do; a delivery stuck half way would deadlock.
Quiet ==
  /\ \A d \in Deliveries : pc[d] \in {"unsent", "done"}
  /\ UNCHANGED vars

-----------------------------------------------------------------------------
NoClaims == [seen |-> [k \in Ids |-> None], day |-> None, count |-> 0]

Init ==
  /\ phase = "up" /\ restarts = 0 /\ faults = 0 /\ today = 0
  /\ pc = [d \in Deliveries |-> "unsent"]
  /\ seen = {} /\ running = {} /\ wg = 0
  /\ ran = [k \in Ids |-> 0]
  /\ pr = [d \in Deliveries |-> NoPR]
  /\ nowOf = [d \in Deliveries |-> None]
  /\ mem = NoClaims /\ disk = NoClaims
  /\ claimed = [k \in Ids |-> None]
  /\ startedOn = [day \in Days |-> 0]
  /\ late = FALSE

\* What a handler or a job does once its delivery was accepted.
Step(d) ==
  \/ Start(d)
  \/ forget(d)
  \/ Resolve(d)
  \/ claim(d)
  \/ Return(d)
  \/ HeadFound(d)
  \/ ClaimRefused(d)
  \/ writeAutoFixState(d)
  \/ WriteFails(d)
  \/ TakeClaim(d)
  \/ release(d)
  \/ EndJob(d)

Next ==
  \/ \E d \in Deliveries : firstSeen(d)
  \/ \E d \in Deliveries : Step(d)
  \/ \E k \in Ids : Expire(k)
  \/ CloseJobs
  \/ JobsDone
  \/ Exit
  \/ Restart
  \/ Midnight
  \/ Quiet

Spec == Init /\ [][Next]_vars

\* Handlers and jobs make progress: every call of theirs ends when its context
\* is cancelled, and the goroutine waiting for them returns.  Neither the grace
\* nor a kill is relied on.
FairSpec ==
  /\ Spec
  /\ \A d \in Deliveries : WF_vars(Step(d))
  /\ WF_vars(JobsDone)

-----------------------------------------------------------------------------
(* Properties.                                                             *)

States == [seen : [Ids -> Days \cup {None}], day : Days \cup {None}, count : Nat]

\* Type invariant.
TypeOK ==
  /\ phase \in {"up", "closing", "stopped", "down"}
  /\ pc \in [Deliveries -> PCs]
  /\ seen \subseteq Ids /\ running \subseteq Keys
  /\ wg \in Nat
  /\ pr \in [Deliveries -> PRs \cup {NoPR}]
  /\ nowOf \in [Deliveries -> Days \cup {None}]
  /\ mem \in States /\ disk \in States
  /\ today \in Days /\ restarts \in 0..MaxRestarts /\ faults \in 0..MaxFaults
  /\ ran \in [Ids -> Nat]
  /\ claimed \in [Ids -> Days \cup {None}]
  /\ startedOn \in [Days -> Nat]
  /\ late \in BOOLEAN

\* jobs.running is exactly the keys of the jobs under way, and no key has two:
\* "One PR runs one job at a time" (jobs.go) also for a pull request found
\* after the start, and no key is leaked by a failed lookup, a busy pull
\* request or a panic.
OneOwner ==
  /\ running = UNION {KeysOf(d) : d \in Deliveries}
  /\ \A d, e \in Deliveries : d # e => KeysOf(d) \cap KeysOf(e) = {}

\* A retried or repeated delivery is handled once (dedupe): within one window
\* of one process at most one job runs for an id, however the deliveries, the
\* refusals and the forgetting interleave.
HandledOnce == \A k \in Ids : ran[k] <= 1

\* "A job that never reviewed must not burn the key for the window"
\* (dispatchLinear): a Linear id stays seen only while its handler or job is
\* under way, or because its Run was called.
KeyNotBurned ==
  \A d \in Deliveries :
    Event[d].linear /\ Event[d].id \in seen =>
      \/ ran[Event[d].id] > 0
      \/ \E e \in Deliveries :
           Event[e].id = Event[d].id /\ pc[e] \notin {"unsent", "done"}

\* No fix starts for an issue and state that was claimed less than the replay
\* horizon before, on the same UTC day or a later one, through redeliveries,
\* restarts between the write and the memory, and failed writes (Claim,
\* OpenAutoFixState), while claims are dated in order.  Past the horizon a pair
\* counts as unclaimed (replayExpired).
FixOnce ==
  [][~late' =>
       \A d \in Deliveries :
         LET at == claimed[Event[d].id]
         IN  pc[d] # "written" /\ pc'[d] = "written" /\ at # None =>
               nowOf[d] - at >= Horizon]_vars

\* While claims are dated in order, the count is the number of claims of its
\* day, so that neither a refused claim, a failed write nor a restart uses up
\* the cap or frees it, and no day starts more than the cap.
CapHolds ==
  ~late =>
    /\ \A day \in Days : startedOn[day] <= DailyCap
    /\ disk.day # None => disk.count = startedOn[disk.day]
    /\ phase # "down" /\ MutexFree => mem = disk

\* "At most State's daily cap start per UTC day" (LinearAutoFix), whatever the
\* order in which the jobs read the clock and take the mutex.
DailyCapHolds == \A day \in Days : startedOn[day] <= DailyCap

\* Once Shutdown returned nil no job is under way, though a handler may still
\* be about to start one (jobs.Shutdown, Start).
StoppedIsQuiet ==
  phase = "stopped" => \A d \in Deliveries : pc[d] \notin Working

\* A shutdown ends without its grace or a kill: every job under way releases
\* what it holds and the wait group reaches zero.
ShutdownEnds == (phase = "closing") ~> (phase \in {"stopped", "down"})
=============================================================================
