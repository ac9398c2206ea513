------------------------------ MODULE AutoFix ------------------------------
(***************************************************************************)
(* One `atcr review --force --auto-fix` after another in one checkout: the *)
(* review tree is moved to its backup and written anew, then runAutoFix    *)
(* (cli/autofix.go) applies the selected fixes (autofix/apply.go), has     *)
(* them validated, and reverts them (autofix/revert.go) or drops the       *)
(* backups and publishes.  Every file goes through the backups of          *)
(* BackupSwap.  A run may be killed anywhere; the next one finds what it   *)
(* left.                                                                   *)
(***************************************************************************)
EXTENDS BackupSwap, FiniteSetsExt, Sequences

CONSTANTS
  Dir,       \* the review tree
  Fixes,     \* the findings' fixes in order: [path, kind]
  MaxRuns    \* bound: runs started

Files == Paths \ {Dir}
NoFile == "none"

ASSUME AutoFixAssumption ==
  /\ Moved = {Dir} /\ Dir \in Paths /\ NoFile \notin Paths
  /\ Fixes \in Seq([path : Files, kind : {"modify", "create", "delete"}])
  /\ MaxRuns \in Nat /\ MaxRuns <= MaxGen

VARIABLES
  pc,         \* where the run is; idle when none is
  runs,       \* runs started; a run writes its number as content
  pre,        \* history: each path's content when the run started
  next,       \* the fix ApplyPatch is at, or the number after the last
  bm,         \* the BackupMap: "bak", "" (was absent) or "none" for each file
  failed,     \* ApplyPatch, later RevertPatch, collected an error
  restoring,  \* the file RevertPatch is copying over, or NoFile
  validated,  \* what validation passed on: no or one content of the files
  committed,  \* what the commit holds, or NoFiles
  remote,     \* what GitHub has of this run
  outcome     \* what the last run answered

runVars == <<runs, pre, next, bm, failed, restoring, validated, committed,
             remote, outcome>>
vars == <<backupVars, pc, runVars>>

NoFiles == [f \in Files |-> Absent]
LiveFiles == [f \in Files |-> fs[f].live]

selectEveryFix(fixes) == DOMAIN fixes

\* One entry per path, its first fix: a second one for a file would back up the
\* patched file.
selectAutoFixEntries(fixes) ==
  {i \in DOMAIN fixes : \A j \in 1..(i - 1) : fixes[j].path # fixes[i].path}

Entries == selectAutoFixEntries(Fixes)
Finish == Len(Fixes) + 1
following(i) == Min({j \in Entries \cup {Finish} : j > i})

-----------------------------------------------------------------------------
(* The run's start: --force moves the prior review tree to its backup.     *)

StartRun ==
  /\ pc = "idle" /\ runs < MaxRuns
  /\ runs' = runs + 1
  /\ pre' = [f \in Paths |-> fs[f].live]
  /\ next' = following(0)
  /\ bm' = [f \in Files |-> "none"]
  /\ failed' = FALSE /\ restoring' = NoFile
  /\ validated' = {} /\ committed' = NoFiles
  /\ remote' = "none" /\ outcome' = "running"
  /\ Begin(Dir)
  /\ pc' = "force"
  /\ UNCHANGED <<fs, exdev>>

End(answer) == pc' = "idle" /\ outcome' = answer

\* The backup failed: the run ends before anything is written.
ForceFailed ==
  /\ pc = "force" /\ call.at = "failed"
  /\ Goto("none")
  /\ End("force failed")
  /\ UNCHANGED <<fs, exdev, madeVars, runs, pre, next, bm, failed, restoring, validated,
                 committed, remote>>

\* The review runs and fills the scaffolded tree.
Review ==
  /\ pc = "force" /\ call.at = "ok"
  /\ Goto("none")
  /\ fs' = [fs EXCEPT ![Dir].live = runs]
  /\ pc' = "apply"
  /\ UNCHANGED <<exdev, madeVars, runVars>>

-----------------------------------------------------------------------------
(* ApplyPatch: one entry at a time, a failed one does not stop the others. *)

Entry == Fixes[next]

EntryFailedToFix ==
  /\ failed' = TRUE
  /\ next' = next + 1
  /\ pc' = "apply"

EntryFailed ==
  /\ failed' = TRUE
  /\ next' = following(next)
  /\ pc' = "apply"

EntryLanded(backup) ==
  /\ bm' = [bm EXCEPT ![Entry.path] = backup]
  /\ next' = following(next)
  /\ pc' = "apply"

Applicable ==
  CASE Entry.kind = "modify" -> fs[Entry.path].live # Absent
    [] Entry.kind = "create" -> fs[Entry.path].live = Absent
    [] Entry.kind = "delete" -> TRUE

\* A refused path, an unparseable diff, or one that does not match the file.
Unapplicable ==
  /\ pc = "apply" /\ next # Finish
  /\ EntryFailed
  /\ UNCHANGED <<backupVars, runs, pre, bm, restoring, validated, committed,
                 remote, outcome>>

BackUp ==
  /\ pc = "apply" /\ next # Finish /\ Applicable
  /\ Begin(Entry.path)
  /\ pc' = "backup"
  /\ UNCHANGED <<fs, exdev, runVars>>

BackupFailed ==
  /\ pc = "backup" /\ call.at = "failed"
  /\ Goto("none")
  /\ EntryFailed
  /\ UNCHANGED <<fs, exdev, madeVars, runs, pre, bm, restoring, validated,
                 committed, remote, outcome>>

\* BackupToDotBak made no backup of an absent file.
backedUp == fs[Entry.path].live # Absent

\* WriteFileAtomic renames the patched content in; a deletion removes the file.
WriteEntry ==
  /\ pc = "backup" /\ call.at = "ok"
  /\ Goto("none")
  /\ fs' = [fs EXCEPT ![Entry.path].live =
                        IF Entry.kind = "delete" THEN Absent ELSE runs]
  /\ EntryLanded(IF backedUp THEN "bak" ELSE "")
  /\ UNCHANGED <<exdev, madeVars, runs, pre, failed, restoring, validated,
                 committed, remote, outcome>>

\* The backup just made is removed again, best effort.
WriteFails ==
  /\ pc = "backup" /\ call.at = "ok"
  /\ Entry.kind = "delete" => backedUp
  /\ Goto("none")
  /\ \/ /\ backedUp /\ fs' = [fs EXCEPT ![Entry.path].bak = Absent]
        /\ Dropped(Entry.path)
     \/ UNCHANGED <<fs, madeVars>>
  /\ EntryFailed
  /\ UNCHANGED <<exdev, runs, pre, bm, restoring, validated, committed, remote,
                 outcome>>

-----------------------------------------------------------------------------
(* Validation, and what follows it.                                        *)

Applied ==
  /\ pc = "apply" /\ next = Finish
  /\ pc' = IF failed THEN "revert" ELSE "validate"
  /\ failed' = FALSE
  /\ UNCHANGED <<backupVars, runs, pre, next, bm, restoring, validated,
                 committed, remote, outcome>>

ValidationPasses ==
  /\ pc = "validate"
  /\ validated' = {LiveFiles}
  /\ pc' = "cleanup"
  /\ UNCHANGED <<backupVars, runs, pre, next, bm, failed, restoring, committed,
                 remote, outcome>>

\* A failure, a timeout, or a command that could not start or is refused.
ValidationFails ==
  /\ pc = "validate"
  /\ pc' = "revert"
  /\ UNCHANGED <<backupVars, runVars>>

\* The map is ranged over in any order.
RevertCreated(f) ==
  /\ pc = "revert" /\ restoring = NoFile /\ bm[f] = ""
  /\ \/ fs' = [fs EXCEPT ![f].live = Absent] /\ UNCHANGED failed
     \/ fs[f].live # Absent /\ failed' = TRUE /\ UNCHANGED fs
  /\ bm' = [bm EXCEPT ![f] = "none"]
  /\ UNCHANGED <<call, exdev, madeVars, pc, runs, pre, next, restoring,
                 validated, committed, remote, outcome>>

\* CopyPath truncates the target before it copies.
RevertOpens(f) ==
  /\ pc = "revert" /\ restoring = NoFile /\ bm[f] = "bak"
  /\ fs' = [fs EXCEPT ![f].live = Torn]
  /\ restoring' = f
  /\ UNCHANGED <<call, exdev, madeVars, pc, runs, pre, next, bm, failed,
                 validated, committed, remote, outcome>>

RevertDrops(f) == bm' = [bm EXCEPT ![f] = "none"] /\ restoring' = NoFile

RevertCopies(f) ==
  /\ pc = "revert" /\ restoring = f
  /\ \E left \in {Absent, fs[f].bak} :
       /\ fs' = [fs EXCEPT ![f].live = fs[f].bak, ![f].bak = left]
       /\ IF left = Absent THEN Dropped(f) ELSE UNCHANGED madeVars
  /\ RevertDrops(f)
  /\ UNCHANGED <<call, exdev, pc, runs, pre, next, failed, validated, committed,
                 remote, outcome>>

RevertFailsDropping(f) ==
  /\ pc = "revert"
  /\ restoring = f \/ (restoring = NoFile /\ bm[f] = "bak")
  /\ fs' = [fs EXCEPT ![f].bak = Absent]
  /\ failed' = TRUE
  /\ RevertDrops(f)
  /\ UNCHANGED <<call, exdev, madeVars, pc, runs, pre, next, validated,
                 committed, remote, outcome>>

\* The copy fails before or after the truncation; the .bak is left in place.
RevertFails(f) ==
  /\ pc = "revert"
  /\ restoring = f \/ (restoring = NoFile /\ bm[f] = "bak")
  /\ failed' = TRUE
  /\ RevertDrops(f)
  /\ UNCHANGED <<backupVars, pc, runs, pre, next, validated, committed, remote,
                 outcome>>

Reverted ==
  /\ pc = "revert" /\ \A f \in Files : bm[f] = "none"
  /\ End(IF failed THEN "revert failed" ELSE "reverted")
  /\ UNCHANGED <<backupVars, runs, pre, next, bm, failed, restoring, validated,
                 committed, remote>>

CleanupBackups(f) ==
  /\ pc = "cleanup" /\ bm[f] # "none"
  /\ \/ bm[f] = "bak" /\ fs' = [fs EXCEPT ![f].bak = Absent] /\ Dropped(f)
     \/ UNCHANGED <<fs, madeVars>>
  /\ bm' = [bm EXCEPT ![f] = "none"]
  /\ UNCHANGED <<call, exdev, pc, runs, pre, next, failed, restoring, validated,
                 committed, remote, outcome>>

\* commitFilesFrom reads the entries' files, then the branch is created.
CreateBranch ==
  /\ pc = "cleanup" /\ \A f \in Files : bm[f] = "none"
  /\ \/ /\ committed' = LiveFiles
        /\ remote' = "branch" /\ pc' = "publish"
        /\ UNCHANGED outcome
     \/ End("publish failed") /\ UNCHANGED <<committed, remote>>
  /\ UNCHANGED <<backupVars, runs, pre, next, bm, failed, restoring, validated>>

\* CreateCommit, then the pull request is found and updated, or opened.
Publish ==
  /\ pc = "publish"
  /\ \/ remote = "branch" /\ remote' = "commit" /\ UNCHANGED <<pc, outcome>>
     \/ remote = "commit" /\ remote' = "pr" /\ End("published")
     \/ End("publish failed") /\ UNCHANGED remote
  /\ UNCHANGED <<backupVars, runs, pre, next, bm, failed, restoring, validated,
                 committed>>

-----------------------------------------------------------------------------
Kill ==
  /\ pc # "idle"
  /\ End("killed")
  /\ UNCHANGED <<backupVars, runs, pre, next, bm, failed, restoring, validated,
                 committed, remote>>

\* The last run is over; a run stuck half way would deadlock.
Over == pc = "idle" /\ runs = MaxRuns /\ UNCHANGED vars

\* A checkout without leftovers; the files to create are not there.
Init ==
  /\ fs \in [Paths -> {[live |-> l, bak |-> Absent, old |-> Absent, tmp |-> Absent] :
                         l \in {0, Absent}}]
  /\ \A i \in DOMAIN Fixes :
       (fs[Fixes[i].path].live = Absent) <=> (Fixes[i].kind = "create")
  /\ exdev \in BOOLEAN
  /\ call = [path |-> Dir, at |-> "none", prior |-> Absent]
  /\ last = [f \in Paths |-> Absent] /\ leftovers = {}
  /\ pc = "idle" /\ runs = 0 /\ next = Finish
  /\ pre = [f \in Paths |-> fs[f].live]
  /\ bm = [f \in Files |-> "none"]
  /\ failed = FALSE /\ restoring = NoFile
  /\ validated = {} /\ committed = NoFiles
  /\ remote = "none" /\ outcome = "none"

Next ==
  \/ StartRun
  \/ ForceFailed
  \/ Review
  \/ pc # "idle" /\ BackupStep /\ UNCHANGED <<pc, runVars>>
  \/ Unapplicable
  \/ BackUp
  \/ BackupFailed
  \/ WriteEntry
  \/ WriteFails
  \/ Applied
  \/ ValidationPasses
  \/ ValidationFails
  \/ \E f \in Files : \/ RevertCreated(f)
                      \/ RevertOpens(f)
                      \/ RevertCopies(f)
                      \/ RevertFails(f)
                      \/ CleanupBackups(f)
  \/ Reverted
  \/ CreateBranch
  \/ Publish
  \/ Kill
  \/ Over

Spec == Init /\ [][Next]_vars

-----------------------------------------------------------------------------
(* Properties.                                                             *)

StateTypeOK ==
  /\ BackupTypeOK
  /\ pc \in {"idle", "force", "apply", "backup", "validate", "revert",
             "cleanup", "publish"}
  /\ runs \in 0..MaxRuns
  /\ pre \in [Paths -> Contents]
  /\ next \in Entries \cup {Finish}
  /\ bm \in [Files -> {"bak", "", "none"}]
  /\ failed \in BOOLEAN
  /\ restoring \in Files \cup {NoFile}
  /\ validated \subseteq [Files -> Contents] /\ committed \in [Files -> Contents]
  /\ remote \in {"none", "branch", "commit", "pr"}
  /\ outcome \in {"none", "running", "force failed", "reverted",
                  "revert failed", "publish failed", "published", "killed"}

\* Type invariant.
TypeOK == StateTypeOK /\ last \in [Paths -> Contents] /\ leftovers \subseteq Paths

\* Until validation passed, what a path held when the run started is whole on
\* disk, live or as a backup, whatever step failed and wherever the run was
\* killed: RevertPatch "leaves the .bak in place: it holds the only surviving
\* pre-patch copy", and --force "preserves the prior review tree".
PreRunKept ==
  \A f \in Paths :
    pre[f] \notin {Absent, Torn} /\ (f = Dir \/ validated = {}) =>
      pre[f] \in {fs[f].live, fs[f].bak, fs[f].old}

\* What a run answers is so: after "working tree reverted" every file is as it
\* was, and GitHub has a branch only of files that all were patched and passed
\* validation together, the commit holding just those contents (runAutoFix:
\* "no GitHub-mutating call is reachable until local validation has PASSED").
AnswerTrue ==
  /\ outcome = "reverted" => \A f \in Files : fs[f].live = pre[f]
  /\ remote # "none" =>
       /\ validated = {committed}
       /\ \A i \in Entries :
            committed[Fixes[i].path] =
              IF Fixes[i].kind = "delete" THEN Absent ELSE runs
=============================================================================
