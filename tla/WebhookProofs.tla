--------------------------- MODULE WebhookProofs ---------------------------
(***************************************************************************)
(* The job registry of Webhook owns its keys exactly, and a shutdown that  *)
(* returned leaves no job, for any deliveries, events, caps and bounds.    *)
(***************************************************************************)
EXTENDS Webhook, FiniteSetTheorems, TLAPS

\* What the registry needs of the types.
JobTypes ==
  /\ pc \in [Deliveries -> PCs]
  /\ pr \in [Deliveries -> PRs \cup {NoPR}]

\* A job that claims or has claimed its pull request knows it; a Slack job has
\* only its one key, and goes from its run straight to its end.
JobShape ==
  \A d \in Deliveries :
    /\ pc[d] \in Ran \cup {"resolved"} => pr[d] \in PRs
    /\ ~Event[d].linear /\ pc[d] \in Ran => pr[d] = Event[d].job
    /\ pc[d] \in {"resolving", "resolved", "releasing", "unrun"} =>
         Event[d].linear

\* The inductive invariant.
IInv == JobTypes /\ JobShape /\ OneOwner

\* A step that changes the keys of one delivery and the registry alike.
Moves(d, taken, freed) ==
  /\ \A e \in Deliveries \ {d} : KeysOf(e)' = KeysOf(e)
  /\ taken \cap running = {} /\ freed \subseteq KeysOf(d)
  /\ KeysOf(d)' = (KeysOf(d) \cup taken) \ freed
  /\ running' = (running \cup taken) \ freed

-----------------------------------------------------------------------------

\* A key that nobody has may be taken, and one's own may be given back.
LEMMA MoveKeepsOwner ==
  ASSUME OneOwner, NEW d \in Deliveries, NEW taken, NEW freed,
         Moves(d, taken, freed)
  PROVE  OneOwner'
<1>1. \A e, f \in Deliveries : e # f => KeysOf(e)' \cap KeysOf(f)' = {}
  <2> SUFFICES ASSUME NEW e \in Deliveries, NEW f \in Deliveries, e # f,
                      NEW k, k \in KeysOf(e)', k \in KeysOf(f)'
               PROVE  FALSE
    OBVIOUS
  <2>1. \A g \in Deliveries : KeysOf(g) \subseteq running
    BY DEF OneOwner
  <2>2. KeysOf(e) \cap KeysOf(f) = {}
    BY DEF OneOwner
  <2>3. CASE e # d /\ f # d
    BY <2>2, <2>3 DEF Moves
  <2>4. CASE e = d
    BY <2>1, <2>2, <2>4 DEF Moves
  <2>5. CASE f = d
    BY <2>1, <2>2, <2>5 DEF Moves
  <2> QED
    BY <2>3, <2>4, <2>5
<1>2. ASSUME NEW k PROVE k \in running' <=> \E e \in Deliveries : k \in KeysOf(e)'
  <2>1. k \in running <=> \E e \in Deliveries : k \in KeysOf(e)
    BY DEF OneOwner
  <2>2. CASE k \in running'
    <3>1. CASE k \in taken
      BY <2>2, <3>1 DEF Moves
    <3>2. CASE k \notin taken
      <4>1. PICK e \in Deliveries : k \in KeysOf(e)
        BY <2>1, <2>2, <3>2 DEF Moves
      <4> QED
        BY <2>2, <4>1 DEF Moves
    <3> QED
      BY <3>1, <3>2
  <2>3. ASSUME NEW e \in Deliveries, k \in KeysOf(e)' PROVE k \in running'
    <3>1. CASE e = d
      BY <2>1, <2>3, <3>1 DEF Moves
    <3>2. CASE e # d
      <4>1. k \in KeysOf(e) /\ k \in running
        BY <2>1, <2>3, <3>2 DEF Moves
      <4>2. k \notin KeysOf(d)
        BY <3>2, <4>1 DEF OneOwner
      <4> QED
        BY <4>1, <4>2 DEF Moves
    <3> QED
      BY <3>1, <3>2
  <2> QED
    BY <2>2, <2>3
<1>3. running' = UNION {KeysOf(e)' : e \in Deliveries}
  BY <1>2
<1> QED
  BY <1>1, <1>3 DEF OneOwner

\* The keys a delivery has at a place, when p is its pull request.
KeysAt(d, at, p) ==
  (IF at \in Working THEN {Event[d].job} ELSE {}) \cup
  (IF at \in Ran THEN {p} ELSE {})

\* A step of one delivery: it goes to a place and knows a pull request, both
\* as JobShape asks, and its keys and the registry change by the same keys.
OneMoves(d, at, p, taken, freed) ==
  /\ pc' = [pc EXCEPT ![d] = at] /\ at \in PCs
  /\ pr' = [pr EXCEPT ![d] = p] /\ p \in PRs \cup {NoPR}
  /\ at \in Ran \cup {"resolved"} => p \in PRs
  /\ ~Event[d].linear /\ at \in Ran => p = Event[d].job
  /\ at \in {"resolving", "resolved", "releasing", "unrun"} => Event[d].linear
  /\ taken \cap running = {} /\ freed \subseteq KeysOf(d)
  /\ KeysAt(d, at, p) = (KeysOf(d) \cup taken) \ freed
  /\ running' = (running \cup taken) \ freed

\* Such a step keeps the invariant.
LEMMA OneMovesKeeps ==
  ASSUME IInv, NEW d \in Deliveries, NEW at, NEW p, NEW taken, NEW freed,
         OneMoves(d, at, p, taken, freed)
  PROVE  IInv'
<1>1. JobTypes'
  BY DEF IInv, JobTypes, OneMoves
<1>2. JobShape'
  BY DEF IInv, JobTypes, JobShape, OneMoves
<1>3. KeysOf(d)' = KeysAt(d, at, p)
  BY DEF IInv, JobTypes, OneMoves, KeysOf, KeysAt
<1>4. \A e \in Deliveries \ {d} : KeysOf(e)' = KeysOf(e)
  BY DEF IInv, JobTypes, OneMoves, KeysOf
<1>5. Moves(d, taken, freed)
  BY <1>3, <1>4 DEF Moves, OneMoves
<1>6. OneOwner'
  BY <1>5, MoveKeepsOwner DEF IInv
<1> QED
  BY <1>1, <1>2, <1>6 DEF IInv

\* A step that moves a delivery between places with the same keys.
LEMMA StaysOwner ==
  ASSUME IInv, NEW d \in Deliveries, NEW at \in PCs, Goto(d, at),
         UNCHANGED <<running, pr>>,
         at \in Ran => pc[d] \in Ran,
         at \in Working <=> pc[d] \in Working,
         at \notin Ran /\ pc[d] \in Ran => pr[d] = Event[d].job,
         at # "resolved",
         at \in {"resolving", "releasing", "unrun"} => Event[d].linear
  PROVE  IInv'
<1>1. pr' = [pr EXCEPT ![d] = pr[d]] /\ pr[d] \in PRs \cup {NoPR}
  BY DEF IInv, JobTypes
<1>2. /\ at \in Ran \cup {"resolved"} => pr[d] \in PRs
      /\ ~Event[d].linear /\ at \in Ran => pr[d] = Event[d].job
  BY DEF IInv, JobShape
<1>3. KeysAt(d, at, pr[d]) = (KeysOf(d) \cup {}) \ {}
  BY DEF KeysAt, KeysOf, Ran, Working
<1>4. OneMoves(d, at, pr[d], {}, {})
  BY <1>1, <1>2, <1>3 DEF OneMoves, Goto
<1> QED
  BY <1>4, OneMovesKeeps

\* A step that touches neither the deliveries nor the registry.
LEMMA ElsewhereKeeps ==
  ASSUME IInv, UNCHANGED <<pc, pr, running>>
  PROVE  IInv'
BY ZenonT(40) DEF IInv, JobTypes, JobShape, OneOwner, KeysOf

-----------------------------------------------------------------------------
(* The steps that change keys.                                             *)

\* Start takes the job's key under the mutex, or leaves the registry alone.
LEMMA StartKeeps ==
  ASSUME IInv, NEW d \in Deliveries, Start(d)
  PROVE  IInv'
<1>1. CASE closed \/ Event[d].job \in running
  <2> DEFINE at == IF Event[d].linear THEN "refused" ELSE "done"
  <2>1. Goto(d, at) /\ UNCHANGED <<running, pr>> /\ pc[d] = "fresh"
    BY <1>1 DEF Start
  <2>2. at \in {"refused", "done"}
    OBVIOUS
  <2> HIDE DEF at
  <2> QED
    BY <2>1, <2>2, StaysOwner DEF Ran, Working, PCs, Handling
<1>2. CASE ~(closed \/ Event[d].job \in running)
  <2>1. /\ pc[d] = "fresh" /\ Event[d].job \notin running
        /\ running' = running \cup {Event[d].job}
    BY <1>2 DEF Start
  <2>2. KeysOf(d) = {}
    BY <2>1 DEF KeysOf, Ran, Working
  <2>3. CASE Event[d].linear
    <3>1. pc' = [pc EXCEPT ![d] = "resolving"] /\ pr' = pr
      BY <1>2, <2>3 DEF Start, Goto
    <3>2. pr' = [pr EXCEPT ![d] = pr[d]] /\ pr[d] \in PRs \cup {NoPR}
      BY <3>1 DEF IInv, JobTypes
    <3>3. KeysAt(d, "resolving", pr[d]) = (KeysOf(d) \cup {Event[d].job}) \ {}
      BY <2>2 DEF KeysAt, Ran, Working
    <3>4. OneMoves(d, "resolving", pr[d], {Event[d].job}, {})
      BY <2>1, <2>3, <3>1, <3>2, <3>3 DEF OneMoves, PCs, Ran, Working
    <3> QED
      BY <3>4, OneMovesKeeps
  <2>4. CASE ~Event[d].linear
    <3>1. pc' = [pc EXCEPT ![d] = "running"] /\ pr' = [pr EXCEPT ![d] = Event[d].job]
      BY <1>2, <2>4 DEF Start, Goto
    <3>2. Event[d].job \in PRs
      BY <2>4, WebhookAssumption DEF PRs
    <3>3. KeysAt(d, "running", Event[d].job) = (KeysOf(d) \cup {Event[d].job}) \ {}
      BY <2>2 DEF KeysAt, Ran, Working
    <3>4. OneMoves(d, "running", Event[d].job, {Event[d].job}, {})
      BY <2>1, <2>4, <3>1, <3>2, <3>3 DEF OneMoves, PCs, Ran, Working
    <3> QED
      BY <3>4, OneMovesKeeps
  <2> QED
    BY <2>3, <2>4
<1> QED
  BY <1>1, <1>2

\* A lookup that answers fixes the key that claim will ask for.
LEMMA ResolveKeeps ==
  ASSUME IInv, NEW d \in Deliveries, Resolve(d)
  PROVE  IInv'
<1>1. pc[d] = "resolving" /\ running' = running /\ Event[d].linear
  BY DEF Resolve, IInv, JobShape
<1>2. CASE Goto(d, "unrun") /\ UNCHANGED pr
  BY <1>1, <1>2, StaysOwner DEF Ran, Working, PCs
<1>3. ASSUME NEW p \in Event[d].prs,
             pr' = [pr EXCEPT ![d] = p], Goto(d, "resolved")
      PROVE  IInv'
  <2>1. p \in PRs
    BY <1>3 DEF PRs
  <2>2. KeysAt(d, "resolved", p) = (KeysOf(d) \cup {}) \ {}
    BY <1>1 DEF KeysAt, KeysOf, Ran, Working
  <2>3. OneMoves(d, "resolved", p, {}, {})
    BY <1>1, <1>3, <2>1, <2>2 DEF OneMoves, Goto, PCs, Ran, Working
  <2> QED
    BY <2>3, OneMovesKeeps
<1> QED
  BY <1>2, <1>3 DEF Resolve

\* claim tests and takes the second key in one critical section, so that an
\* answer that went stale since the lookup is refused.
LEMMA ClaimKeeps ==
  ASSUME IInv, NEW d \in Deliveries, claim(d)
  PROVE  IInv'
<1>1. /\ pc[d] = "resolved" /\ pr' = pr /\ Event[d].linear
      /\ pr[d] \in PRs
  BY DEF claim, IInv, JobShape
<1>2. CASE pr[d] \in running
  <2>1. Goto(d, "unrun") /\ UNCHANGED <<running, pr>>
    BY <1>1, <1>2 DEF claim
  <2> QED
    BY <1>1, <2>1, StaysOwner DEF Ran, Working, PCs
<1>3. CASE pr[d] \notin running
  <2>1. pc' = [pc EXCEPT ![d] = "running"] /\ running' = running \cup {pr[d]}
    BY <1>3 DEF claim, Goto
  <2>2. pr' = [pr EXCEPT ![d] = pr[d]]
    BY <1>1 DEF IInv, JobTypes
  <2>3. KeysAt(d, "running", pr[d]) = (KeysOf(d) \cup {pr[d]}) \ {}
    BY <1>1 DEF KeysAt, KeysOf, Ran, Working
  <2>4. OneMoves(d, "running", pr[d], {pr[d]}, {})
    BY <1>1, <1>3, <2>1, <2>2, <2>3 DEF OneMoves, PCs, Ran, Working
  <2> QED
    BY <2>4, OneMovesKeeps
<1> QED
  BY <1>2, <1>3

\* release gives back the second key and keeps the first: they differ.
LEMMA ReleaseKeeps ==
  ASSUME IInv, NEW d \in Deliveries, release(d)
  PROVE  IInv'
<1>1. /\ pc[d] = "releasing" /\ pr' = pr /\ running' = running \ {pr[d]}
      /\ pc' = [pc EXCEPT ![d] = "ending"]
  BY DEF release, Goto
<1>2. Event[d].linear /\ pr[d] \in PRs
  BY <1>1 DEF IInv, JobShape, Ran
<1>3. pr[d] # Event[d].job
  BY <1>2, WebhookAssumption
<1>4. pr' = [pr EXCEPT ![d] = pr[d]]
  BY <1>1 DEF IInv, JobTypes
<1>5. /\ KeysAt(d, "ending", pr[d]) = (KeysOf(d) \cup {}) \ {pr[d]}
      /\ {pr[d]} \subseteq KeysOf(d)
  BY <1>1, <1>3 DEF KeysAt, KeysOf, Ran, Working
<1>6. OneMoves(d, "ending", pr[d], {}, {pr[d]})
  BY <1>1, <1>2, <1>4, <1>5 DEF OneMoves, PCs, Ran, Working
<1> QED
  BY <1>6, OneMovesKeeps

\* The last deferred call gives back the job's own key, its only one by then.
LEMMA EndJobKeeps ==
  ASSUME IInv, NEW d \in Deliveries, EndJob(d)
  PROVE  IInv'
<1>1. /\ pc[d] = "ending" /\ running' = running \ {Event[d].job}
      /\ pc' = [pc EXCEPT ![d] = "done"] /\ pr' = [pr EXCEPT ![d] = NoPR]
  BY DEF EndJob, Goto
<1>2. /\ KeysAt(d, "done", NoPR) = (KeysOf(d) \cup {}) \ {Event[d].job}
      /\ {Event[d].job} \subseteq KeysOf(d)
  BY <1>1 DEF KeysAt, KeysOf, Ran, Working
<1>3. OneMoves(d, "done", NoPR, {}, {Event[d].job})
  BY <1>1, <1>2 DEF OneMoves, PCs, Ran, Working
<1> QED
  BY <1>3, OneMovesKeeps

\* A process that ends takes its jobs and their registry with it.
LEMMA ExitKeeps ==
  ASSUME IInv, Exit
  PROVE  IInv'
<1>1. /\ pc' = [d \in Deliveries |-> IF pc[d] = "unsent" THEN "unsent" ELSE "done"]
      /\ pr' = [d \in Deliveries |-> NoPR] /\ running' = {}
  BY DEF Exit
<1>2. \A d \in Deliveries : pc'[d] \in {"unsent", "done"}
  BY <1>1
<1>3. \A d \in Deliveries : KeysOf(d)' = {}
  BY <1>2 DEF KeysOf, Ran, Working
<1>4. JobTypes'
  BY <1>1 DEF JobTypes, PCs
<1>5. JobShape'
  BY <1>2 DEF JobShape, Ran
<1>6. OneOwner'
  BY <1>1, <1>3 DEF OneOwner
<1> QED
  BY <1>4, <1>5, <1>6 DEF IInv

-----------------------------------------------------------------------------
(* The other steps of a delivery hold what they held.                      *)

\* An admitted or a repeated delivery has no key yet.
LEMMA FirstSeenKeeps ==
  ASSUME IInv, NEW d \in Deliveries, firstSeen(d)
  PROVE  IInv'
<1>1. pc[d] = "unsent" /\ UNCHANGED <<running, pr>>
  BY DEF firstSeen
<1>2. PICK at \in {"done", "fresh"} : Goto(d, at)
  BY DEF firstSeen
<1> QED
  BY <1>1, <1>2, StaysOwner DEF Ran, Working, PCs, Handling

\* A forgotten job keeps its key until its end.
LEMMA ForgetKeeps ==
  ASSUME IInv, NEW d \in Deliveries, forget(d)
  PROVE  IInv'
<1>1. UNCHANGED <<running, pr>>
  BY DEF forget
<1>2. \/ pc[d] = "refused" /\ Goto(d, "done")
      \/ pc[d] = "unrun" /\ Goto(d, "ending")
  BY DEF forget
<1> QED
  BY <1>1, <1>2, StaysOwner DEF Ran, Working, PCs

\* A Run that ends keeps both keys of a Linear job and the one of a Slack job.
LEMMA AfterRunKeeps ==
  ASSUME IInv, NEW d \in Deliveries, Goto(d, AfterRun(d)),
         UNCHANGED <<running, pr>>, pc[d] \in {"running", "dated", "fixing"}
  PROVE  IInv'
<1>1. CASE Event[d].linear
  <2>1. Goto(d, "releasing")
    BY <1>1 DEF AfterRun
  <2> QED
    BY <1>1, <2>1, StaysOwner DEF Ran, Working, PCs
<1>2. CASE ~Event[d].linear
  <2>1. Goto(d, "ending")
    BY <1>2 DEF AfterRun
  <2>2. pr[d] = Event[d].job
    BY <1>2 DEF IInv, JobShape, Ran
  <2> QED
    BY <2>1, <2>2, StaysOwner DEF Ran, Working, PCs
<1> QED
  BY <1>1, <1>2

\* The steps of an auto-fix up to its start.
LEMMA FixStepKeeps ==
  ASSUME IInv, NEW d \in Deliveries,
         HeadFound(d) \/ writeAutoFixState(d) \/ TakeClaim(d)
  PROVE  IInv'
<1>1. UNCHANGED <<running, pr>> /\ pc[d] \in {"running", "dated", "written"}
  BY DEF HeadFound, writeAutoFixState, TakeClaim, jobVars
<1>2. PICK at \in {"dated", "written", "fixing"} : Goto(d, at)
  BY DEF HeadFound, writeAutoFixState, TakeClaim
<1> QED
  BY <1>1, <1>2, StaysOwner DEF Ran, Working, PCs

-----------------------------------------------------------------------------

\* Every step of the daemon keeps the invariant.
LEMMA NextKeeps ==
  ASSUME IInv, [Next]_vars
  PROVE  IInv'
<1>1. ASSUME NEW d \in Deliveries, Step(d) PROVE IInv'
  <2>1. CASE Return(d) \/ ClaimRefused(d) \/ WriteFails(d)
    <3>1. /\ Goto(d, AfterRun(d)) /\ UNCHANGED <<running, pr>>
          /\ pc[d] \in {"running", "dated", "fixing"}
      BY <2>1 DEF Return, ClaimRefused, WriteFails, jobVars
    <3> QED
      BY <3>1, AfterRunKeeps
  <2>2. CASE HeadFound(d) \/ writeAutoFixState(d) \/ TakeClaim(d)
    BY <2>2, FixStepKeeps
  <2> QED
    BY <1>1, <2>1, <2>2, StartKeeps, ForgetKeeps, ResolveKeeps, ClaimKeeps,
       ReleaseKeeps, EndJobKeeps DEF Step
<1>2. ASSUME NEW d \in Deliveries, firstSeen(d) PROVE IInv'
  BY <1>2, FirstSeenKeeps
<1>3. ASSUME NEW k \in Ids, Expire(k) PROVE IInv'
  BY <1>3, ElsewhereKeeps DEF Expire
<1>4. CASE CloseJobs \/ JobsDone \/ Restart \/ Midnight
  BY <1>4, ElsewhereKeeps
  DEF CloseJobs, JobsDone, Restart, Midnight, jobVars
<1>5. CASE Exit
  BY <1>5, ExitKeeps
<1>6. CASE Quiet \/ UNCHANGED vars
  BY <1>6, ElsewhereKeeps DEF Quiet, vars, jobVars
<1> QED
  BY <1>1, <1>2, <1>3, <1>4, <1>5, <1>6 DEF Next

\* The registry, the places and the pull requests of the jobs stay in step in
\* every behaviour of the daemon (jobs.go: Start, run, claim, release).
THEOREM RegistryInvariance == Spec => []IInv
<1>1. Init => IInv
  <2> SUFFICES ASSUME Init PROVE IInv
    OBVIOUS
  <2>1. \A d \in Deliveries : pc[d] = "unsent" /\ KeysOf(d) = {}
    BY DEF Init, KeysOf, Ran, Working
  <2>2. JobTypes
    BY DEF Init, JobTypes, PCs
  <2>3. JobShape
    BY <2>1 DEF JobShape, Ran
  <2>4. OneOwner
    BY <2>1 DEF Init, OneOwner
  <2> QED
    BY <2>2, <2>3, <2>4 DEF IInv
<1>2. IInv /\ [Next]_vars => IInv'
  BY NextKeeps
<1> QED
  BY <1>1, <1>2, PTL DEF Spec

\* One pull request runs one job at a time, and jobs.running is exactly the
\* keys of the jobs under way, for any deliveries, links, caps and restarts.
THEOREM KeysOwnedOnce == Spec => []OneOwner
<1>1. IInv => OneOwner
  BY DEF IInv
<1> QED
  BY <1>1, RegistryInvariance, PTL

-----------------------------------------------------------------------------
(* The wait group and the shutdown.                                        *)

Busy == {d \in Deliveries : pc[d] \in Working}

\* jobs.wg counts the jobs under way, and none is once Shutdown returned.
WaitInv ==
  /\ pc \in [Deliveries -> PCs]
  /\ wg = Cardinality(Busy)
  /\ StoppedIsQuiet

\* The jobs under way are finitely many.
LEMMA BusyFinite == IsFiniteSet(Busy) /\ IsFiniteSet(Busy')
<1>1. Busy \in SUBSET Deliveries /\ Busy' \in SUBSET Deliveries
  BY DEF Busy
<1> QED
  BY <1>1, FS_Subset, WebhookAssumption

\* A step that starts and ends no job and does not reach stopped.
LEMMA SameBusyKeeps ==
  ASSUME WaitInv, pc' \in [Deliveries -> PCs], wg' = wg, phase' = phase,
         \A d \in Deliveries : pc'[d] \in Working <=> pc[d] \in Working
  PROVE  WaitInv'
<1>1. Busy' = Busy
  BY DEF Busy
<1>2. StoppedIsQuiet'
  BY DEF WaitInv, StoppedIsQuiet
<1> QED
  BY <1>1, <1>2 DEF WaitInv

\* A delivery that moves between places which are both a job's or both not.
LEMMA PlainMoveKeeps ==
  ASSUME WaitInv, NEW d \in Deliveries, NEW at \in PCs, Goto(d, at),
         UNCHANGED <<wg, phase>>, at \in Working <=> pc[d] \in Working
  PROVE  WaitInv'
<1>1. pc' = [pc EXCEPT ![d] = at] /\ pc \in [Deliveries -> PCs]
  BY DEF WaitInv, Goto
<1>2. /\ pc' \in [Deliveries -> PCs]
      /\ \A e \in Deliveries : pc'[e] \in Working <=> pc[e] \in Working
  BY <1>1
<1> QED
  BY <1>2, SameBusyKeeps

\* A job is counted in the step that makes it, and only while not closed.
LEMMA StartCounts ==
  ASSUME WaitInv, NEW d \in Deliveries, Start(d)
  PROVE  WaitInv'
<1>1. pc[d] = "fresh" /\ phase' = phase
  BY DEF Start, procVars
<1>2. CASE closed \/ Event[d].job \in running
  <2>1. (\E at \in {"refused", "done"} : Goto(d, at)) /\ wg' = wg
    BY <1>2 DEF Start
  <2> QED
    BY <1>1, <2>1, PlainMoveKeeps DEF Working, Ran, PCs, Handling
<1>3. CASE ~(closed \/ Event[d].job \in running)
  <2>1. wg' = wg + 1
    BY <1>3 DEF Start
  <2>2. PICK at \in {"resolving", "running"} : pc' = [pc EXCEPT ![d] = at]
    BY <1>3 DEF Start, Goto
  <2>3. /\ pc' \in [Deliveries -> PCs]
        /\ Busy' = Busy \cup {d} /\ d \notin Busy
    BY <1>1, <2>2 DEF WaitInv, Busy, Working, Ran, PCs
  <2>4. Cardinality(Busy') = Cardinality(Busy) + 1
    BY <2>3, BusyFinite, FS_AddElement
  <2>5. StoppedIsQuiet'
    BY <1>1, <1>3 DEF closed, StoppedIsQuiet
  <2> QED
    BY <2>1, <2>3, <2>4, <2>5 DEF WaitInv
<1> QED
  BY <1>2, <1>3

\* wg.Done comes with the end of the job.
LEMMA EndJobCounts ==
  ASSUME WaitInv, NEW d \in Deliveries, EndJob(d)
  PROVE  WaitInv'
<1>1. /\ pc[d] = "ending" /\ phase' = phase /\ wg' = wg - 1
      /\ pc' = [pc EXCEPT ![d] = "done"]
  BY DEF EndJob, Goto, procVars
<1>2. /\ pc' \in [Deliveries -> PCs]
      /\ Busy' = Busy \ {d} /\ d \in Busy
  BY <1>1 DEF WaitInv, Busy, Working, Ran, PCs
<1>3. Cardinality(Busy') = Cardinality(Busy) - 1
  BY <1>2, BusyFinite, FS_RemoveElement
<1>4. StoppedIsQuiet'
  BY <1>1, <1>2 DEF StoppedIsQuiet, WaitInv, Busy
<1> QED
  BY <1>1, <1>2, <1>3, <1>4 DEF WaitInv

\* The other steps of a delivery neither start nor end a job.
LEMMA OtherStepCounts ==
  ASSUME WaitInv, NEW d \in Deliveries,
         \/ firstSeen(d) \/ forget(d) \/ Resolve(d) \/ claim(d) \/ Return(d)
         \/ HeadFound(d) \/ ClaimRefused(d) \/ writeAutoFixState(d)
         \/ WriteFails(d) \/ TakeClaim(d) \/ release(d)
  PROVE  WaitInv'
<1>1. UNCHANGED <<wg, phase>>
  BY DEF firstSeen, forget, Resolve, claim, Return, HeadFound, ClaimRefused,
         writeAutoFixState, WriteFails, TakeClaim, release, procVars, jobVars
<1>2. CASE firstSeen(d) \/ (forget(d) /\ pc[d] = "refused")
  <2>1. pc[d] \in {"unsent", "refused"} /\ \E at \in {"done", "fresh"} : Goto(d, at)
    BY <1>2 DEF firstSeen, forget
  <2> QED
    BY <1>1, <2>1, PlainMoveKeeps DEF Working, Ran, PCs, Handling
<1>3. CASE ~(firstSeen(d) \/ (forget(d) /\ pc[d] = "refused"))
  <2>1. pc[d] \in Working /\ \E at \in Working : Goto(d, at)
    BY <1>3 DEF forget, Resolve, claim, Return, HeadFound, ClaimRefused,
                writeAutoFixState, WriteFails, TakeClaim, release, AfterRun,
                Working, Ran
  <2>2. Working \subseteq PCs
    BY DEF PCs
  <2> QED
    BY <1>1, <2>1, <2>2, PlainMoveKeeps
<1> QED
  BY <1>2, <1>3

\* wg.Wait returns only when no job is left; an exit leaves none.
LEMMA ProcessCounts ==
  ASSUME WaitInv, CloseJobs \/ JobsDone \/ Exit \/ Restart
  PROVE  WaitInv'
<1>1. CASE CloseJobs \/ Restart
  <2>1. UNCHANGED <<pc, wg>> /\ phase' # "stopped"
    BY <1>1 DEF CloseJobs, Restart, jobVars
  <2>2. Busy' = Busy
    BY <2>1 DEF Busy
  <2> QED
    BY <2>1, <2>2 DEF WaitInv, StoppedIsQuiet
<1>2. CASE JobsDone
  <2>1. UNCHANGED <<pc, wg>> /\ wg = 0
    BY <1>2 DEF JobsDone, jobVars
  <2>2. Busy' = Busy /\ Busy = {}
    BY <2>1, BusyFinite, FS_EmptySet DEF WaitInv, Busy
  <2>3. StoppedIsQuiet'
    BY <2>2 DEF Busy, StoppedIsQuiet
  <2> QED
    BY <2>1, <2>2, <2>3 DEF WaitInv
<1>3. CASE Exit
  <2>1. /\ phase' = "down" /\ wg' = 0
        /\ pc' = [d \in Deliveries |-> IF pc[d] = "unsent" THEN "unsent" ELSE "done"]
    BY <1>3 DEF Exit
  <2>2. pc' \in [Deliveries -> PCs] /\ Busy' = {}
    BY <2>1 DEF Busy, PCs, Working, Ran
  <2> QED
    BY <2>1, <2>2, FS_EmptySet DEF WaitInv, StoppedIsQuiet
<1> QED
  BY <1>1, <1>2, <1>3

\* jobs.wg counts the jobs under way in every behaviour (Start, run, Shutdown).
THEOREM WaitInvariance == Spec => []WaitInv
<1>1. Init => WaitInv
  <2> SUFFICES ASSUME Init PROVE WaitInv
    OBVIOUS
  <2>1. pc \in [Deliveries -> PCs] /\ Busy = {}
    BY DEF Init, Busy, PCs, Working, Ran
  <2> QED
    BY <2>1, FS_EmptySet DEF Init, WaitInv, StoppedIsQuiet
<1>2. WaitInv /\ [Next]_vars => WaitInv'
  <2> SUFFICES ASSUME WaitInv, [Next]_vars PROVE WaitInv'
    OBVIOUS
  <2>1. ASSUME NEW d \in Deliveries, Step(d) \/ firstSeen(d) PROVE WaitInv'
    BY <2>1, StartCounts, EndJobCounts, OtherStepCounts DEF Step
  <2>2. CASE CloseJobs \/ JobsDone \/ Exit \/ Restart
    BY <2>2, ProcessCounts
  <2>3. CASE (\E k \in Ids : Expire(k)) \/ Midnight \/ Quiet \/ UNCHANGED vars
    <3>1. UNCHANGED <<pc, wg, phase>>
      BY <2>3 DEF Expire, Midnight, Quiet, vars, procVars, jobVars
    <3> QED
      BY <3>1, SameBusyKeeps DEF WaitInv
  <2> QED
    BY <2>1, <2>2, <2>3 DEF Next
<1> QED
  BY <1>1, <1>2, PTL DEF Spec

\* Once Shutdown returned nil no job is under way (jobs.Shutdown, Start), for
\* any deliveries and however late a handler gets to its Start.
THEOREM ShutdownIsQuiet == Spec => []StoppedIsQuiet
<1>1. WaitInv => StoppedIsQuiet
  BY DEF WaitInv
<1> QED
  BY <1>1, WaitInvariance, PTL

-----------------------------------------------------------------------------
(* The dedupe window.                                                      *)

\* Accepted, and its Run not called: the handler and the job before the claim.
NotRun == {"fresh", "refused", "resolving", "resolved", "unrun"}

DedupeTypes ==
  /\ pc \in [Deliveries -> PCs]
  /\ seen \subseteq Ids
  /\ ran \in [Ids -> Nat]

\* An id whose Run was called stays seen, and one under way was not run yet and
\* has no second delivery under way.
SeenWhileHandled ==
  /\ \A k \in Ids : ran[k] <= 1 /\ (ran[k] > 0 => k \in seen)
  /\ \A d \in Deliveries :
       pc[d] \in NotRun => Event[d].id \in seen /\ ran[Event[d].id] = 0
  /\ \A d, e \in Deliveries :
       d # e /\ Event[d].id = Event[e].id /\ pc[d] \in NotRun => pc[e] \notin NotRun

\* The way from accepted to run or forgotten is the only one a seen Linear id
\* can be on (KeyNotBurned, at the places where it can still be decided).
SeenForAReason ==
  \A d \in Deliveries :
    Event[d].linear /\ Event[d].id \in seen =>
      \/ ran[Event[d].id] > 0
      \/ \E e \in Deliveries : Event[e].id = Event[d].id /\ pc[e] \in NotRun

\* The inductive invariant of the dedupe.
DedupeInv == DedupeTypes /\ SeenWhileHandled /\ SeenForAReason

\* A delivery's id is one of the ids.
LEMMA IdOf == \A d \in Deliveries : Event[d].id \in Ids
BY DEF Ids

\* A new id is accepted: it was not run in this window.
LEMMA AcceptKeeps ==
  ASSUME DedupeInv, NEW d \in Deliveries, pc[d] \notin NotRun,
         Event[d].id \notin seen, Goto(d, "fresh"),
         seen' = seen \cup {Event[d].id}, ran' = ran
  PROVE  DedupeInv'
<1>1. pc' = [pc EXCEPT ![d] = "fresh"] /\ pc'[d] = "fresh" /\ "fresh" \in NotRun
  BY DEF Goto, NotRun, DedupeInv, DedupeTypes
<1>2. \A e \in Deliveries : e # d => pc'[e] = pc[e]
  BY <1>1 DEF DedupeInv, DedupeTypes
<1>3. DedupeTypes'
  BY <1>1, IdOf DEF DedupeInv, DedupeTypes, PCs, Handling
<1>4. ran[Event[d].id] = 0
  BY IdOf DEF DedupeInv, DedupeTypes, SeenWhileHandled
<1>5. SeenWhileHandled'
  BY <1>1, <1>2, <1>4, IdOf DEF DedupeInv, SeenWhileHandled
<1>6. SeenForAReason'
  BY <1>1, <1>2, IdOf DEF DedupeInv, SeenForAReason
<1> QED
  BY <1>3, <1>5, <1>6 DEF DedupeInv

\* A delivery moves on without touching the window: before its Run, after it,
\* or a Slack event that is dropped.
LEMMA MoveOnKeeps ==
  ASSUME DedupeInv, NEW d \in Deliveries, NEW at \in PCs, Goto(d, at),
         UNCHANGED <<seen, ran>>,
         at \in NotRun => pc[d] \in NotRun,
         at \notin NotRun /\ pc[d] \in NotRun => ~Event[d].linear
  PROVE  DedupeInv'
<1>1. pc' = [pc EXCEPT ![d] = at] /\ pc'[d] = at
  BY DEF Goto, DedupeInv, DedupeTypes
<1>2. \A e \in Deliveries : e # d => pc'[e] = pc[e]
  BY <1>1 DEF DedupeInv, DedupeTypes
<1>3. DedupeTypes'
  BY <1>1 DEF DedupeInv, DedupeTypes
<1>4. SeenWhileHandled'
  BY <1>1, <1>2 DEF DedupeInv, SeenWhileHandled
<1>5. SeenForAReason'
  <2> SUFFICES ASSUME NEW e \in Deliveries, Event[e].linear, Event[e].id \in seen,
                      ran[Event[e].id] > 0 => FALSE
               PROVE  \E f \in Deliveries : Event[f].id = Event[e].id /\ pc'[f] \in NotRun
    BY DEF SeenForAReason
  <2>1. PICK f \in Deliveries : Event[f].id = Event[e].id /\ pc[f] \in NotRun
    BY DEF DedupeInv, SeenForAReason
  <2>2. Event[f].linear
    BY <2>1, WebhookAssumption
  <2> QED
    BY <1>1, <1>2, <2>1, <2>2
<1> QED
  BY <1>3, <1>4, <1>5 DEF DedupeInv

\* The Run is called: the id counts as handled until its window ends.
LEMMA RunKeeps ==
  ASSUME DedupeInv, NEW d \in Deliveries, NEW at \in PCs \ NotRun, Goto(d, at),
         pc[d] \in NotRun, seen' = seen,
         ran' = [ran EXCEPT ![Event[d].id] = @ + 1]
  PROVE  DedupeInv'
<1>1. pc' = [pc EXCEPT ![d] = at] /\ pc'[d] = at
  BY DEF Goto, DedupeInv, DedupeTypes
<1>2. \A e \in Deliveries : e # d => pc'[e] = pc[e]
  BY <1>1 DEF DedupeInv, DedupeTypes
<1>3. DedupeTypes'
  BY <1>1, IdOf DEF DedupeInv, DedupeTypes
<1>4. /\ Event[d].id \in seen /\ ran'[Event[d].id] = 1
      /\ \A k \in Ids : k # Event[d].id => ran'[k] = ran[k]
  BY IdOf DEF DedupeInv, DedupeTypes, SeenWhileHandled
<1>5. SeenWhileHandled'
  BY <1>1, <1>2, <1>4, IdOf DEF DedupeInv, SeenWhileHandled
<1>6. SeenForAReason'
  BY <1>1, <1>2, <1>4, IdOf DEF DedupeInv, SeenForAReason
<1> QED
  BY <1>3, <1>5, <1>6 DEF DedupeInv

\* The id is forgotten by the one delivery that was under way for it.
LEMMA ForgettingKeeps ==
  ASSUME DedupeInv, NEW d \in Deliveries, NEW at \in PCs \ NotRun, Goto(d, at),
         pc[d] \in NotRun, seen' = seen \ {Event[d].id}, ran' = ran
  PROVE  DedupeInv'
<1>1. pc' = [pc EXCEPT ![d] = at] /\ pc'[d] = at
  BY DEF Goto, DedupeInv, DedupeTypes
<1>2. \A e \in Deliveries : e # d => pc'[e] = pc[e]
  BY <1>1 DEF DedupeInv, DedupeTypes
<1>3. DedupeTypes'
  BY <1>1 DEF DedupeInv, DedupeTypes
<1>4. ran[Event[d].id] = 0
  BY DEF DedupeInv, SeenWhileHandled
<1>5. SeenWhileHandled'
  BY <1>1, <1>2, <1>4, IdOf DEF DedupeInv, SeenWhileHandled
<1>6. SeenForAReason'
  BY <1>1, <1>2 DEF DedupeInv, SeenForAReason
<1> QED
  BY <1>3, <1>5, <1>6 DEF DedupeInv

\* A window ends when nothing of its id is under way.
LEMMA ExpireKeeps ==
  ASSUME DedupeInv, NEW k \in Ids, Expire(k)
  PROVE  DedupeInv'
<1>1. /\ seen' = seen \ {k} /\ ran' = [ran EXCEPT ![k] = 0] /\ pc' = pc
      /\ \A d \in Deliveries : Event[d].id = k => pc[d] \notin NotRun
  BY DEF Expire, NotRun
<1>2. DedupeTypes'
  BY <1>1 DEF DedupeInv, DedupeTypes
<1>3. ran'[k] = 0 /\ \A j \in Ids : j # k => ran'[j] = ran[j]
  BY <1>1 DEF DedupeInv, DedupeTypes
<1>4. SeenWhileHandled'
  BY <1>1, <1>3, IdOf DEF DedupeInv, SeenWhileHandled
<1>5. SeenForAReason'
  BY <1>1, <1>3, IdOf DEF DedupeInv, SeenForAReason
<1> QED
  BY <1>2, <1>4, <1>5 DEF DedupeInv

\* A process that ends forgets the window and every delivery in it.
LEMMA ExitForgets ==
  ASSUME DedupeInv, Exit
  PROVE  DedupeInv'
<1>1. /\ pc' = [d \in Deliveries |-> IF pc[d] = "unsent" THEN "unsent" ELSE "done"]
      /\ seen' = {} /\ ran' = [k \in Ids |-> 0]
  BY DEF Exit
<1>2. \A d \in Deliveries : pc'[d] \notin NotRun
  BY <1>1 DEF NotRun
<1>3. DedupeTypes'
  BY <1>1 DEF DedupeTypes, PCs
<1> QED
  BY <1>1, <1>2, <1>3, IdOf DEF DedupeInv, SeenWhileHandled, SeenForAReason

\* Every step of one delivery keeps the window in order.
LEMMA DeliveryKeepsWindow ==
  ASSUME DedupeInv, NEW d \in Deliveries, firstSeen(d) \/ Step(d)
  PROVE  DedupeInv'
<1>1. CASE firstSeen(d)
  <2>1. pc[d] = "unsent" /\ ran' = ran
    BY <1>1 DEF firstSeen
  <2>2. CASE Event[d].id \in seen
    <3>1. Goto(d, "done") /\ seen' = seen
      BY <1>1, <2>2 DEF firstSeen
    <3> QED
      BY <2>1, <3>1, MoveOnKeeps DEF NotRun, PCs
  <2>3. CASE Event[d].id \notin seen
    <3>1. Goto(d, "fresh") /\ seen' = seen \cup {Event[d].id}
      BY <1>1, <2>3 DEF firstSeen
    <3> QED
      BY <2>1, <2>3, <3>1, AcceptKeeps DEF NotRun
  <2> QED
    BY <2>2, <2>3
<1>2. CASE Start(d)
  <2>1. pc[d] = "fresh" /\ seen' = seen
    BY <1>2 DEF Start
  <2>2. CASE closed \/ Event[d].job \in running
    <3> DEFINE at == IF Event[d].linear THEN "refused" ELSE "done"
    <3>1. Goto(d, at) /\ ran' = ran
      BY <1>2, <2>2 DEF Start
    <3>2. at \in PCs /\ (at \notin NotRun => ~Event[d].linear)
      BY DEF PCs, Handling, NotRun
    <3> HIDE DEF at
    <3> QED
      BY <2>1, <3>1, <3>2, MoveOnKeeps DEF NotRun
  <2>3. CASE ~(closed \/ Event[d].job \in running) /\ Event[d].linear
    <3>1. Goto(d, "resolving") /\ ran' = ran
      BY <1>2, <2>3 DEF Start
    <3> QED
      BY <2>1, <3>1, MoveOnKeeps DEF NotRun, PCs, Working
  <2>4. CASE ~(closed \/ Event[d].job \in running) /\ ~Event[d].linear
    <3>1. Goto(d, "running") /\ ran' = [ran EXCEPT ![Event[d].id] = @ + 1]
      BY <1>2, <2>4 DEF Start
    <3> QED
      BY <2>1, <3>1, RunKeeps DEF NotRun, PCs, Working, Ran
  <2> QED
    BY <2>2, <2>3, <2>4
<1>3. CASE forget(d)
  <2>1. /\ pc[d] \in NotRun /\ seen' = seen \ {Event[d].id} /\ ran' = ran
        /\ \E at \in {"done", "ending"} : Goto(d, at)
    BY <1>3 DEF forget, NotRun
  <2> QED
    BY <2>1, ForgettingKeeps DEF NotRun, PCs, Working
<1>4. CASE Resolve(d)
  <2>1. /\ pc[d] = "resolving" /\ UNCHANGED <<seen, ran>>
        /\ \E at \in {"resolved", "unrun"} : Goto(d, at)
    BY <1>4 DEF Resolve
  <2> QED
    BY <2>1, MoveOnKeeps DEF NotRun, PCs, Working
<1>5. CASE claim(d)
  <2>1. pc[d] = "resolved" /\ seen' = seen
    BY <1>5 DEF claim
  <2>2. CASE pr[d] \in running
    <3>1. Goto(d, "unrun") /\ ran' = ran
      BY <1>5, <2>2 DEF claim
    <3> QED
      BY <2>1, <3>1, MoveOnKeeps DEF NotRun, PCs, Working
  <2>3. CASE pr[d] \notin running
    <3>1. Goto(d, "running") /\ ran' = [ran EXCEPT ![Event[d].id] = @ + 1]
      BY <1>5, <2>3 DEF claim
    <3> QED
      BY <2>1, <3>1, RunKeeps DEF NotRun, PCs, Working, Ran
  <2> QED
    BY <2>2, <2>3
<1>6. CASE \/ Return(d) \/ HeadFound(d) \/ ClaimRefused(d)
           \/ writeAutoFixState(d) \/ WriteFails(d) \/ TakeClaim(d)
           \/ release(d) \/ EndJob(d)
  <2>1. /\ pc[d] \notin NotRun /\ UNCHANGED <<seen, ran>>
        /\ \E at \in {"dated", "written", "fixing", "releasing", "ending", "done"} :
             Goto(d, at)
    BY <1>6 DEF Return, HeadFound, ClaimRefused, writeAutoFixState, WriteFails,
                TakeClaim, release, EndJob, AfterRun, jobVars, NotRun
  <2> QED
    BY <2>1, MoveOnKeeps DEF NotRun, PCs, Working, Ran
<1> QED
  BY <1>1, <1>2, <1>3, <1>4, <1>5, <1>6 DEF Step

\* The dedupe's window, the deliveries under way and what was run stay in step
\* in every behaviour (firstSeen, forget, dispatchLinear, Unrun).
THEOREM DedupeInvariance == Spec => []DedupeInv
<1>1. Init => DedupeInv
  <2> SUFFICES ASSUME Init PROVE DedupeInv
    OBVIOUS
  <2>1. \A d \in Deliveries : pc[d] \notin NotRun
    BY DEF Init, NotRun
  <2>2. DedupeTypes
    BY DEF Init, DedupeTypes, PCs
  <2> QED
    BY <2>1, <2>2 DEF Init, DedupeInv, SeenWhileHandled, SeenForAReason
<1>2. DedupeInv /\ [Next]_vars => DedupeInv'
  <2> SUFFICES ASSUME DedupeInv, [Next]_vars PROVE DedupeInv'
    OBVIOUS
  <2>1. CASE CloseJobs \/ JobsDone \/ Restart \/ Midnight \/ Quiet \/ UNCHANGED vars
    <3>1. UNCHANGED <<pc, seen, ran>>
      BY <2>1 DEF CloseJobs, JobsDone, Restart, Midnight, Quiet, vars, jobVars
    <3> QED
      BY <3>1 DEF DedupeInv, DedupeTypes, SeenWhileHandled, SeenForAReason
  <2> QED
    BY <2>1, DeliveryKeepsWindow, ExpireKeeps, ExitForgets DEF Next
<1> QED
  BY <1>1, <1>2, PTL DEF Spec

\* Within one window of one process at most one job runs for an id, for any
\* deliveries, refusals and forgetting (dedupe.firstSeen, jobs.Start, claim).
THEOREM RunsOncePerWindow == Spec => []HandledOnce
<1>1. DedupeInv => HandledOnce
  BY DEF DedupeInv, SeenWhileHandled, HandledOnce
<1> QED
  BY <1>1, DedupeInvariance, PTL

\* A Linear id stays seen only for a job that is under way or was run, so that
\* a redelivery of one that never ran is taken (dispatchLinear, Unrun).
THEOREM KeysAreNotBurned == Spec => []KeyNotBurned
<1>1. DedupeInv => KeyNotBurned
  <2>1. \A e \in Deliveries : pc[e] \in NotRun => pc[e] \notin {"unsent", "done"}
    BY DEF NotRun
  <2> QED
    BY <2>1 DEF DedupeInv, SeenForAReason, KeyNotBurned
<1> QED
  BY <1>1, DedupeInvariance, PTL

-----------------------------------------------------------------------------
(* The auto-fix claims.                                                    *)

ClaimTypes ==
  /\ pc \in [Deliveries -> PCs]
  /\ nowOf \in [Deliveries -> Days \cup {None}]
  /\ today \in Days
  /\ mem \in States /\ disk \in States
  /\ claimed \in [Ids -> Days \cup {None}]
  /\ startedOn \in [Days -> Nat]
  /\ late \in BOOLEAN

\* A claim has its day; nothing runs in a process that is down; Claim's mutex
\* has one holder, and outside it the memory is what the file holds.
MutexInv ==
  /\ \A d \in Deliveries : pc[d] = "dated" => nowOf[d] \in Days
  /\ phase = "down" => \A d \in Deliveries : pc[d] \in {"unsent", "done"}
  /\ \A d, e \in Deliveries : pc[d] = "written" /\ pc[e] = "written" => d = e
  /\ phase # "down" /\ MutexFree => mem = disk

\* What the state file says while claims are dated in order: the count is the
\* day's, no later day has a claim, and a claim it no longer lists is expired.
StateTrue ==
  ~late =>
    /\ \A day \in Days : startedOn[day] <= DailyCap
    /\ disk.day # None => disk.count = startedOn[disk.day]
    /\ \A day \in Days : day > disk.day => startedOn[day] = 0
    /\ \A k \in Ids : claimed[k] # None =>
         disk.seen[k] = claimed[k] \/ disk.day - claimed[k] >= Horizon

\* The inductive invariant of the claims.
ClaimInv == ClaimTypes /\ MutexInv /\ StateTrue

\* A claim's new state is a state.
LEMMA NextStateType ==
  ASSUME NEW state \in States, NEW k \in Ids, NEW now \in Days
  PROVE  NextState(state, k, now) \in States
<1>1. countOn(state, now) + 1 \in Nat
  BY DEF States, countOn
<1>2. [j \in Ids |-> IF j = k THEN now
                     ELSE IF ClaimedIn(state, j, now) THEN state.seen[j] ELSE None]
        \in [Ids -> Days \cup {None}]
  BY DEF States
<1> QED
  BY <1>1, <1>2, Zenon DEF NextState, States

\* A step that leaves the state file and what was claimed alone, and the mutex
\* with whoever has it.
LEMMA OffMutexKeeps ==
  ASSUME ClaimInv, pc' \in [Deliveries -> PCs],
         nowOf' \in [Deliveries -> Days \cup {None}], today' \in Days,
         UNCHANGED <<mem, disk, claimed, startedOn, late>>,
         \A d \in Deliveries : pc'[d] = "dated" => nowOf'[d] \in Days,
         \A d \in Deliveries : pc'[d] = "written" <=> pc[d] = "written",
         phase' = "down" => \A d \in Deliveries : pc'[d] \in {"unsent", "done"},
         phase = "down" => phase' = "down"
  PROVE  ClaimInv'
<1>1. ClaimTypes'
  BY DEF ClaimInv, ClaimTypes
<1>2. MutexFree' <=> MutexFree
  BY DEF MutexFree
<1>3. MutexInv'
  BY <1>2 DEF ClaimInv, MutexInv
<1>4. StateTrue'
  BY DEF ClaimInv, StateTrue
<1> QED
  BY <1>1, <1>3, <1>4 DEF ClaimInv

\* A delivery moves and does not come to or from the mutex.
LEMMA OneOffMutexKeeps ==
  ASSUME ClaimInv, NEW d \in Deliveries, NEW at \in PCs, Goto(d, at),
         pc[d] # "written", at # "written", phase # "down", phase' = phase,
         nowOf' \in [Deliveries -> Days \cup {None}],
         \A e \in Deliveries \ {d} : nowOf'[e] = nowOf[e],
         at = "dated" => nowOf'[d] \in Days,
         UNCHANGED <<mem, disk, claimed, startedOn, late, today>>
  PROVE  ClaimInv'
<1>1. pc' = [pc EXCEPT ![d] = at] /\ pc \in [Deliveries -> PCs]
  BY DEF Goto, ClaimInv, ClaimTypes
<1>2. /\ pc' \in [Deliveries -> PCs] /\ pc'[d] = at
      /\ \A e \in Deliveries \ {d} : pc'[e] = pc[e]
  BY <1>1
<1>3. \A e \in Deliveries : pc'[e] = "dated" => nowOf'[e] \in Days
  BY <1>2 DEF ClaimInv, MutexInv
<1>4. today' \in Days
  BY DEF ClaimInv, ClaimTypes
<1> QED
  BY <1>2, <1>3, <1>4, OffMutexKeeps

\* The write: what is recorded is true of the claim made, and of the others
\* when it is dated in order.
LEMMA WriteKeeps ==
  ASSUME ClaimInv, NEW d \in Deliveries, writeAutoFixState(d)
  PROVE  ClaimInv'
<1> DEFINE k == Event[d].id
           now == nowOf[d]
<1>1. /\ pc[d] = "dated" /\ MutexFree /\ Claimable(d)
      /\ disk' = NextState(mem, k, now) /\ late' = (late \/ now < mem.day)
      /\ claimed' = [claimed EXCEPT ![k] = now]
      /\ startedOn' = [startedOn EXCEPT ![now] = @ + 1]
      /\ pc' = [pc EXCEPT ![d] = "written"]
      /\ UNCHANGED <<phase, nowOf, mem, today>>
  BY DEF writeAutoFixState, Goto, procVars
<1>2. k \in Ids /\ now \in Days /\ phase # "down" /\ mem = disk
  BY <1>1, IdOf DEF ClaimInv, MutexInv
<1>3. /\ pc \in [Deliveries -> PCs] /\ mem \in States /\ late \in BOOLEAN
      /\ claimed \in [Ids -> Days \cup {None}] /\ startedOn \in [Days -> Nat]
  BY DEF ClaimInv, ClaimTypes
<1>4. now \in Nat /\ mem.day \in Int /\ mem.count \in Nat /\ None = -1
      /\ DailyCap \in Nat /\ Horizon \in Nat
  BY <1>2, <1>3, WebhookAssumption DEF States, Days, None
<1>5. disk' \in States
  BY <1>1, <1>2, <1>3, NextStateType
<1>6. pc' \in [Deliveries -> PCs] /\ "written" \in PCs
  BY <1>1, <1>3 DEF PCs, Working, Ran
<1>7. late' \in BOOLEAN
  BY <1>1
<1>8. ClaimTypes'
  <2>1. claimed' \in [Ids -> Days \cup {None}] /\ startedOn' \in [Days -> Nat]
    BY <1>1, <1>2, <1>3
  <2> QED
    BY <1>1, <1>5, <1>6, <1>7, <2>1 DEF ClaimInv, ClaimTypes
<1>9. MutexInv'
  <2>1. pc'[d] = "written" /\ \A e \in Deliveries \ {d} : pc'[e] = pc[e] /\ pc[e] # "written"
    BY <1>1, <1>3 DEF MutexFree
  <2>2. ~MutexFree'
    BY <2>1 DEF MutexFree
  <2> QED
    BY <1>1, <1>2, <2>1, <2>2 DEF ClaimInv, MutexInv
<1>10. ASSUME ~late' PROVE StateTrue'
  <2>1. ~late /\ now >= mem.day
    <3>1. ~late /\ ~(now < mem.day)
      BY <1>1, <1>10, Zenon
    <3> QED
      BY <1>4, <3>1
  <2>2. /\ \A day \in Days : startedOn[day] <= DailyCap
        /\ mem.day # None => mem.count = startedOn[mem.day]
        /\ \A day \in Days : day > mem.day => startedOn[day] = 0
        /\ \A j \in Ids : claimed[j] # None =>
             mem.seen[j] = claimed[j] \/ mem.day - claimed[j] >= Horizon
    BY <1>2, <2>1 DEF ClaimInv, StateTrue
  <2>3. /\ disk'.day = now /\ disk'.count = countOn(mem, now) + 1
        /\ \A j \in Ids : disk'.seen[j] =
             IF j = k THEN now
             ELSE IF ClaimedIn(mem, j, now) THEN mem.seen[j] ELSE None
    BY <1>1 DEF NextState
  <2>4. countOn(mem, now) = startedOn[now]
    <3>1. CASE mem.day = now
      BY <1>4, <2>2, <3>1 DEF countOn
    <3>2. CASE mem.day # now
      BY <1>2, <1>4, <2>1, <2>2, <3>2 DEF countOn
    <3> QED
      BY <3>1, <3>2
  <2>5. startedOn[now] + 1 <= DailyCap
    <3>1. countOn(mem, now) < DailyCap
      BY <1>1 DEF Claimable
    <3> QED
      BY <1>2, <1>3, <1>4, <2>4, <3>1
  <2>6. /\ startedOn'[now] = startedOn[now] + 1
        /\ \A day \in Days : day # now => startedOn'[day] = startedOn[day]
    BY <1>1, <1>2, <1>3
  <2>7. \A day \in Days : startedOn'[day] <= DailyCap
    BY <2>2, <2>5, <2>6
  <2>8. \A day \in Days : day > now => startedOn'[day] = 0
    BY <1>4, <2>1, <2>2, <2>6 DEF Days
  <2>9. ASSUME NEW j \in Ids, claimed'[j] # None
        PROVE  disk'.seen[j] = claimed'[j] \/ now - claimed'[j] >= Horizon
    <3>1. CASE j = k
      BY <1>1, <1>2, <1>3, <2>3, <3>1
    <3>2. CASE j # k
      <4>1. claimed'[j] = claimed[j] /\ claimed[j] \in Int
        BY <1>1, <1>3, <3>2 DEF Days, None
      <4>2. CASE mem.day - claimed[j] >= Horizon
        BY <1>4, <2>1, <4>1, <4>2
      <4>3. CASE mem.seen[j] = claimed[j]
        BY <2>3, <2>9, <3>2, <4>1, <4>3 DEF ClaimedIn, replayExpired
      <4> QED
        BY <2>2, <2>9, <4>1, <4>2, <4>3
    <3> QED
      BY <3>1, <3>2
  <2> QED
    BY <2>3, <2>4, <2>6, <2>7, <2>8, <2>9 DEF StateTrue
<1>11. StateTrue'
  BY <1>10 DEF StateTrue
<1> QED
  BY <1>8, <1>9, <1>11 DEF ClaimInv

\* The memory takes what was written, and the mutex is free again.
LEMMA TakeKeeps ==
  ASSUME ClaimInv, NEW d \in Deliveries, TakeClaim(d)
  PROVE  ClaimInv'
<1>1. /\ pc[d] = "written" /\ mem' = disk
      /\ pc' = [pc EXCEPT ![d] = "fixing"]
      /\ UNCHANGED <<phase, nowOf, disk, claimed, startedOn, late, today>>
  BY DEF TakeClaim, Goto, procVars
<1>2. ClaimTypes'
  BY <1>1 DEF ClaimInv, ClaimTypes, PCs, Working, Ran
<1>3. pc'[d] = "fixing" /\ \A e \in Deliveries \ {d} : pc'[e] = pc[e]
  BY <1>1 DEF ClaimInv, ClaimTypes
<1>4. MutexInv'
  BY <1>1, <1>3 DEF ClaimInv, MutexInv
<1>5. StateTrue'
  BY <1>1 DEF ClaimInv, StateTrue
<1> QED
  BY <1>2, <1>4, <1>5 DEF ClaimInv

\* A restart reads the file; the end of a process only drops its memory.
LEMMA ProcessKeepsClaims ==
  ASSUME ClaimInv, CloseJobs \/ JobsDone \/ Exit \/ Restart
  PROVE  ClaimInv'
<1>1. CASE CloseJobs \/ JobsDone
  <2>1. /\ UNCHANGED <<pc, nowOf, mem, disk, claimed, startedOn, late, today>>
        /\ phase # "down" /\ phase' # "down"
    BY <1>1 DEF CloseJobs, JobsDone, fixVars
  <2> QED
    BY <2>1, OffMutexKeeps DEF ClaimInv, ClaimTypes, MutexInv
<1>2. CASE Exit
  <2>1. /\ pc' = [d \in Deliveries |-> IF pc[d] = "unsent" THEN "unsent" ELSE "done"]
        /\ nowOf' = [d \in Deliveries |-> None] /\ phase' = "down"
        /\ UNCHANGED <<mem, disk, claimed, startedOn, late, today>>
    BY <1>2 DEF Exit
  <2>2. \A d \in Deliveries : pc'[d] \in {"unsent", "done"}
    BY <2>1
  <2>3. ClaimTypes'
    BY <2>1 DEF ClaimInv, ClaimTypes, PCs
  <2>4. MutexInv'
    BY <2>1, <2>2 DEF MutexInv
  <2>5. StateTrue'
    BY <2>1 DEF ClaimInv, StateTrue
  <2> QED
    BY <2>3, <2>4, <2>5 DEF ClaimInv
<1>3. CASE Restart
  <2>1. /\ phase = "down" /\ phase' = "up" /\ mem' = disk
        /\ UNCHANGED <<pc, nowOf, disk, claimed, startedOn, late, today>>
    BY <1>3 DEF Restart
  <2> QED
    BY <2>1 DEF ClaimInv, ClaimTypes, MutexInv, StateTrue
<1> QED
  BY <1>1, <1>2, <1>3

\* The other steps of a delivery leave the claims alone.
LEMMA OtherStepsKeepClaims ==
  ASSUME ClaimInv, NEW d \in Deliveries, firstSeen(d) \/ Step(d),
         ~writeAutoFixState(d), ~TakeClaim(d)
  PROVE  ClaimInv'
<1>1. /\ pc[d] # "written" /\ pc[d] # "done" /\ phase' = phase
      /\ UNCHANGED <<mem, disk, claimed, startedOn, late, today>>
  BY DEF firstSeen, Step, Start, forget, Resolve, claim, Return, HeadFound,
         ClaimRefused, WriteFails, release, EndJob, procVars, fixVars
<1>2. phase # "down"
  BY <1>1 DEF ClaimInv, MutexInv, firstSeen, Step, Start, forget, Resolve, claim,
              Return, HeadFound, ClaimRefused, WriteFails, release, EndJob
<1>3. CASE HeadFound(d)
  <2>1. Goto(d, "dated") /\ nowOf' = [nowOf EXCEPT ![d] = today]
    BY <1>3 DEF HeadFound
  <2>2. /\ nowOf' \in [Deliveries -> Days \cup {None}] /\ nowOf'[d] \in Days
        /\ \A e \in Deliveries \ {d} : nowOf'[e] = nowOf[e]
    BY <2>1 DEF ClaimInv, ClaimTypes
  <2>3. "dated" \in PCs
    BY DEF PCs, Working, Ran
  <2> QED
    BY <1>1, <1>2, <2>1, <2>2, <2>3, OneOffMutexKeeps
<1>4. CASE EndJob(d)
  <2>1. Goto(d, "done") /\ nowOf' = [nowOf EXCEPT ![d] = None]
    BY <1>4 DEF EndJob
  <2>2. /\ nowOf' \in [Deliveries -> Days \cup {None}]
        /\ \A e \in Deliveries \ {d} : nowOf'[e] = nowOf[e]
    BY <2>1 DEF ClaimInv, ClaimTypes
  <2>3. "done" \in PCs
    BY DEF PCs
  <2> QED
    BY <1>1, <1>2, <2>1, <2>2, <2>3, OneOffMutexKeeps
<1>5. CASE ~HeadFound(d) /\ ~EndJob(d)
  <2>1. nowOf' = nowOf
    BY <1>5 DEF firstSeen, Step, Start, forget, Resolve, claim, Return,
                ClaimRefused, WriteFails, release, fixVars
  <2>2. \E at \in PCs : at \notin {"written", "dated"} /\ Goto(d, at)
    <3>1. \E at \in {"done", "fresh", "refused", "resolving", "running", "ending",
                     "resolved", "unrun", "releasing"} : Goto(d, at)
      BY <1>5 DEF firstSeen, Step, Start, forget, Resolve, claim, Return,
                  ClaimRefused, WriteFails, release, AfterRun
    <3> QED
      BY <3>1 DEF PCs, Working, Ran, Handling
  <2>3. nowOf \in [Deliveries -> Days \cup {None}]
    BY DEF ClaimInv, ClaimTypes
  <2> QED
    BY <1>1, <1>2, <2>1, <2>2, <2>3, OneOffMutexKeeps
<1> QED
  BY <1>3, <1>4, <1>5

\* Every step keeps the claims' invariant.
LEMMA NextKeepsClaims ==
  ASSUME ClaimInv, [Next]_vars
  PROVE  ClaimInv'
<1>1. ASSUME NEW d \in Deliveries, firstSeen(d) \/ Step(d) PROVE ClaimInv'
  BY <1>1, WriteKeeps, TakeKeeps, OtherStepsKeepClaims
<1>2. CASE CloseJobs \/ JobsDone \/ Exit \/ Restart
  BY <1>2, ProcessKeepsClaims
<1>3. CASE (\E k \in Ids : Expire(k)) \/ Quiet \/ UNCHANGED vars
  <2>1. UNCHANGED <<pc, phase, nowOf, mem, disk, claimed, startedOn, late, today>>
    BY <1>3 DEF Expire, Quiet, vars, procVars, fixVars
  <2> QED
    BY <2>1, OffMutexKeeps DEF ClaimInv, ClaimTypes, MutexInv
<1>4. CASE Midnight
  <2>1. /\ UNCHANGED <<pc, phase, nowOf, mem, disk, claimed, startedOn, late>>
        /\ today < MaxDay /\ today' = today + 1
    BY <1>4 DEF Midnight, procVars, fixVars
  <2>2. today' \in Days
    BY <2>1, WebhookAssumption DEF ClaimInv, ClaimTypes, Days
  <2> QED
    BY <2>1, <2>2, OffMutexKeeps DEF ClaimInv, ClaimTypes, MutexInv
<1> QED
  BY <1>1, <1>2, <1>3, <1>4 DEF Next

\* The state file, the memory and the claims made agree in every behaviour
\* (Claim, writeAutoFixState, OpenAutoFixState).
THEOREM ClaimInvariance == Spec => []ClaimInv
<1>1. Init => ClaimInv
  <2> SUFFICES ASSUME Init PROVE ClaimInv
    OBVIOUS
  <2>1. /\ mem = NoClaims /\ disk = NoClaims /\ today = 0 /\ phase = "up" /\ late = FALSE
        /\ claimed = [k \in Ids |-> None] /\ startedOn = [day \in Days |-> 0]
        /\ pc = [d \in Deliveries |-> "unsent"] /\ nowOf = [d \in Deliveries |-> None]
    BY DEF Init
  <2>2. NoClaims \in States
    <3>1. [k \in Ids |-> None] \in [Ids -> Days \cup {None}]
      OBVIOUS
    <3>2. 0 \in Nat
      OBVIOUS
    <3> QED
      BY <3>1, <3>2, Zenon DEF NoClaims, States
  <2>3. today \in Days
    BY <2>1, WebhookAssumption DEF Days
  <2>4. ClaimTypes
    BY <2>1, <2>2, <2>3 DEF ClaimTypes, PCs
  <2>5. MutexInv
    BY <2>1 DEF MutexInv
  <2>6. StateTrue
    BY <2>1, WebhookAssumption DEF StateTrue, NoClaims
  <2> QED
    BY <2>4, <2>5, <2>6 DEF ClaimInv
<1>2. ClaimInv /\ [Next]_vars => ClaimInv'
  BY NextKeepsClaims
<1> QED
  BY <1>1, <1>2, PTL DEF Spec

\* While claims are dated in order no day starts more than the cap, and the
\* count on disk is the day's number of claims (Claim, countOn).
THEOREM CapIsExact == Spec => []CapHolds
<1>1. ClaimInv => CapHolds
  BY DEF ClaimInv, MutexInv, StateTrue, CapHolds
<1> QED
  BY <1>1, ClaimInvariance, PTL

\* No fix starts for an issue and state claimed less than the replay horizon
\* before, the same day included, while claims are dated in order, through
\* restarts and failed writes (Claim, replayExpired, OpenAutoFixState).
THEOREM FixesOnce == Spec => FixOnce
<1>1. ASSUME ClaimInv, Next, ~late', NEW d \in Deliveries,
             pc[d] # "written", pc'[d] = "written", claimed[Event[d].id] # None
      PROVE  nowOf[d] - claimed[Event[d].id] >= Horizon
  <2>1. writeAutoFixState(d)
    <3>1. pc \in [Deliveries -> PCs]
      BY <1>1 DEF ClaimInv, ClaimTypes
    <3>2. \A e \in Deliveries : Step(e) => writeAutoFixState(d)
      BY <1>1, <3>1 DEF Step, Goto, AfterRun, Start, forget, Resolve, claim, Return, HeadFound,
         ClaimRefused, writeAutoFixState, WriteFails, TakeClaim, release, EndJob
    <3> QED
      BY <1>1, <3>1, <3>2 DEF Next, firstSeen, Goto, Expire, CloseJobs, JobsDone, Exit, Restart,
         Midnight, Quiet, vars
  <2> DEFINE k == Event[d].id
  <2>2. /\ pc[d] = "dated" /\ MutexFree /\ Claimable(d) /\ k \in Ids
        /\ late' = (late \/ nowOf[d] < mem.day)
    BY <2>1 DEF writeAutoFixState, Ids
  <2>3. /\ claimed \in [Ids -> Days \cup {None}] /\ mem \in States
        /\ nowOf[d] \in Days /\ mem = disk
    BY <1>1, <2>2 DEF ClaimInv, ClaimTypes, MutexInv
  <2>4. ~late /\ ~(nowOf[d] < mem.day)
    BY <1>1, <2>2, Zenon
  <2>5. mem.seen[k] = claimed[k] \/ mem.day - claimed[k] >= Horizon
    BY <1>1, <2>2, <2>3, <2>4 DEF ClaimInv, StateTrue
  <2>6. /\ nowOf[d] \in Int /\ claimed[k] \in Int /\ mem.day \in Int
        /\ Horizon \in Int
    BY <2>2, <2>3, WebhookAssumption DEF Days, None, States
  <2>7. CASE mem.seen[k] = claimed[k]
    BY <1>1, <2>2, <2>7 DEF Claimable, ClaimedIn, replayExpired
  <2>8. CASE mem.day - claimed[k] >= Horizon
    BY <2>4, <2>6, <2>8
  <2> QED
    BY <2>5, <2>7, <2>8
<1>2. ClaimInv /\ [Next]_vars =>
        [~late' =>
           \A d \in Deliveries :
             LET at == claimed[Event[d].id]
             IN  pc[d] # "written" /\ pc'[d] = "written" /\ at # None =>
                   nowOf[d] - at >= Horizon]_vars
  BY <1>1
<1> QED
  BY <1>2, ClaimInvariance, PTL DEF Spec, FixOnce

-----------------------------------------------------------------------------
(* Types.                                                                  *)

\* What the other invariants leave of TypeOK.
RestTypes ==
  /\ phase \in {"up", "closing", "stopped", "down"}
  /\ restarts \in 0..MaxRestarts /\ faults \in 0..MaxFaults

\* Type correctness: in particular the registry holds keys only, the wait group
\* never goes below zero, and the state's days are days.
THEOREM TypeCorrect == Spec => []TypeOK
<1>1. Init => RestTypes
  BY WebhookAssumption DEF Init, RestTypes
<1>2. RestTypes /\ [Next]_vars => RestTypes'
  <2> SUFFICES ASSUME RestTypes, [Next]_vars PROVE RestTypes'
    OBVIOUS
  <2>1. CASE CloseJobs \/ JobsDone \/ Exit \/ Restart
    BY <2>1, WebhookAssumption
    DEF CloseJobs, JobsDone, Exit, Restart, RestTypes, fixVars
  <2>2. ASSUME NEW d \in Deliveries, WriteFails(d) PROVE RestTypes'
    BY <2>2, WebhookAssumption DEF WriteFails, RestTypes, procVars
  <2>3. ASSUME NEW d \in Deliveries, firstSeen(d) \/ Step(d), ~WriteFails(d)
        PROVE  RestTypes'
    BY <2>3 DEF firstSeen, Step, Start, forget, Resolve, claim, Return,
                HeadFound, ClaimRefused, writeAutoFixState, TakeClaim, release,
                EndJob, RestTypes, procVars, fixVars
  <2>4. CASE (\E k \in Ids : Expire(k)) \/ Midnight \/ Quiet \/ UNCHANGED vars
    BY <2>4 DEF Expire, Midnight, Quiet, RestTypes, vars, procVars, fixVars
  <2> QED
    BY <2>1, <2>2, <2>3, <2>4 DEF Next
<1>3. RestTypes /\ IInv /\ WaitInv /\ DedupeInv /\ ClaimInv => TypeOK
  <2> SUFFICES ASSUME RestTypes, IInv, WaitInv, DedupeInv, ClaimInv
               PROVE  TypeOK
    OBVIOUS
  <2>1. wg \in Nat
    BY BusyFinite, FS_CardinalityType DEF WaitInv
  <2>2. \A d \in Deliveries : KeysOf(d) \subseteq Keys
    BY DEF IInv, JobShape, KeysOf, Keys
  <2>3. running \subseteq Keys
    BY <2>2 DEF IInv, OneOwner
  <2> QED
    BY <2>1, <2>3
    DEF TypeOK, RestTypes, IInv, JobTypes, DedupeInv, DedupeTypes, ClaimInv, ClaimTypes
<1> QED
  BY <1>1, <1>2, <1>3, RegistryInvariance, WaitInvariance, DedupeInvariance,
     ClaimInvariance, PTL DEF Spec
=============================================================================
