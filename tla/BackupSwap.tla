----------------------------- MODULE BackupSwap -----------------------------
(***************************************************************************)
(* One-generation backups: BackupToDotBak (internal/atomicfs/atomic.go),   *)
(* which copies a path to its .bak, and backupExisting (internal/fanout/   *)
(* reviewdir.go), which moves the review tree there for --force.  Both     *)
(* clear what a crashed call left, rename the prior .bak aside to .bak.old *)
(* and bring the new one in; every system call is a step that may fail,    *)
(* and the process may be killed after any of them.                        *)
(*                                                                         *)
(* A path's content is a generation number; Torn is a tree or a file of    *)
(* which only a part is there.                                             *)
(***************************************************************************)
EXTENDS Integers

CONSTANTS
  Paths,     \* what is backed up
  Moved,     \* those of Paths that backupExisting moves; the rest is copied
  MaxGen     \* bound: generations 0..MaxGen

ASSUME BackupAssumption == Moved \subseteq Paths /\ MaxGen \in Nat

VARIABLES
  fs,        \* each path's [live, bak, old, tmp]; tmp is the staged copy
  call,      \* the backup under way: its path, where it is, the prior .bak
  exdev,     \* Moved paths and their .bak are on different file systems
  last,      \* history: the last whole backup made of each path, or Absent when
             \* none was or its owner dropped it
  leftovers  \* history: paths whose backup began on what a killed or failed one
             \* left, until there is a whole new one

madeVars == <<last, leftovers>>
backupVars == <<fs, call, exdev, madeVars>>

Absent == -1
Torn == -2
Contents == 0..MaxGen \cup {Absent, Torn}

Steps == {"none", "clear", "copy", "aside", "swap", "vacate", "clean", "ok",
          "failed"}
Calls == [path : Paths, at : Steps, prior : Contents]

src == call.path
moving == src \in Moved

Goto(step) == call' = [call EXCEPT !.at = step]
Put(files) == fs' = [fs EXCEPT ![src] = files]

-----------------------------------------------------------------------------
\* A prior call was killed or failed before its swap, or while it took the live
\* path away or put it back.
Interrupted(path) ==
  \/ fs[path].live = Torn
  \/ fs[path].old # Absent /\ fs[path].bak = Absent

\* The prior .bak is what the error paths may restore.
Begin(path) ==
  /\ call' = [path |-> path, at |-> "clear", prior |-> fs[path].bak]
  /\ leftovers' = IF Interrupted(path) THEN leftovers \cup {path} ELSE leftovers
  /\ UNCHANGED last

\* A live path that is absent needs no backup.  Otherwise .bak.old and the
\* staging of a crashed call go first; a removal may fail half way, and only
\* backupExisting minds that the staging stays.
ClearStale ==
  /\ call.at = "clear"
  /\ \/ fs[src].live = Absent /\ Goto("ok") /\ UNCHANGED fs
     \/ /\ fs[src].live # Absent
        /\ Put([fs[src] EXCEPT !.old = Absent, !.tmp = Absent])
        /\ Goto(IF moving THEN "aside" ELSE "copy")
     \/ /\ fs[src].live # Absent /\ fs[src].old # Absent
        /\ \E left \in {fs[src].old, Torn} : Put([fs[src] EXCEPT !.old = left])
        /\ Goto("failed")
     \/ /\ fs[src].live # Absent /\ moving /\ fs[src].tmp # Absent
        /\ Put([fs[src] EXCEPT !.old = Absent])
        /\ Goto("failed")
  /\ UNCHANGED <<exdev, madeVars>>

\* After a failed swap .bak.old is renamed back, which may fail as well.
Restored(files) ==
  {files} \cup (IF call.prior = Absent THEN {}
                ELSE {[files EXCEPT !.bak = files.old, !.old = Absent]})

\* The copy: before the prior .bak is touched in BackupToDotBak, after it in
\* backupCrossDevice.  A partial copy is removed.
CopyLive ==
  /\ call.at = "copy"
  /\ \/ /\ Put([fs[src] EXCEPT !.tmp = fs[src].live])
        /\ Goto(IF moving THEN "swap" ELSE "aside")
     \/ /\ \E files \in IF moving THEN Restored(fs[src]) ELSE {fs[src]} : Put(files)
        /\ Goto("failed")
  /\ UNCHANGED <<exdev, madeVars>>

RemovePrior ==
  /\ call.at = "aside"
  /\ Put([fs[src] EXCEPT !.bak = Absent])
  /\ Goto(IF moving /\ exdev THEN "copy" ELSE "swap")
  /\ UNCHANGED <<exdev, madeVars>>

RenameAside ==
  /\ call.at = "aside"
  /\ \/ /\ Put(IF call.prior = Absent THEN fs[src]
               ELSE [fs[src] EXCEPT !.old = call.prior, !.bak = Absent])
        /\ Goto(IF moving /\ exdev THEN "copy" ELSE "swap")
     \/ /\ Put([fs[src] EXCEPT !.tmp = Absent])
        /\ Goto("failed")
  /\ UNCHANGED <<exdev, madeVars>>

Made(new) ==
  IF new = Torn THEN UNCHANGED madeVars
  ELSE last' = [last EXCEPT ![src] = new] /\ leftovers' = leftovers \ {src}

SwapIn ==
  /\ call.at = "swap"
  /\ IF moving /\ ~exdev
     THEN Put([fs[src] EXCEPT !.bak = fs[src].live, !.live = Absent])
     ELSE Put([fs[src] EXCEPT !.bak = fs[src].tmp, !.tmp = Absent])
  /\ Made(IF moving /\ ~exdev THEN fs[src].live ELSE fs[src].tmp)
  /\ Goto(IF moving /\ exdev THEN "vacate" ELSE "clean")
  /\ UNCHANGED exdev

\* BackupToDotBak drops its staged copy, backupCrossDevice leaves it behind.
SwapFails ==
  /\ call.at = "swap"
  /\ \E files \in Restored(fs[src]) :
       Put(IF moving THEN files ELSE [files EXCEPT !.tmp = Absent])
  /\ Goto("failed")
  /\ UNCHANGED <<exdev, madeVars>>

\* backupCrossDevice removes the live tree entry by entry.
TearLive ==
  /\ call.at = "vacate" /\ fs[src].live # Torn
  /\ Put([fs[src] EXCEPT !.live = Torn])
  /\ UNCHANGED <<call, exdev, madeVars>>

Vacate ==
  /\ call.at = "vacate"
  /\ \/ Put([fs[src] EXCEPT !.live = Absent]) /\ Goto("clean")
     \/ UNCHANGED fs /\ Goto("failed")
  /\ UNCHANGED <<exdev, madeVars>>

\* The superseded generation goes; only the move answers an error when it stays.
RemoveOld ==
  /\ call.at = "clean"
  /\ \/ Put([fs[src] EXCEPT !.old = Absent]) /\ Goto("ok")
     \/ /\ call.prior # Absent
        /\ UNCHANGED fs
        /\ Goto(IF moving THEN "failed" ELSE "ok")
  /\ UNCHANGED <<exdev, madeVars>>

\* The owner of a path's backup removes it on purpose.
Dropped(path) == last' = [last EXCEPT ![path] = Absent] /\ UNCHANGED leftovers

BackupStep ==
  \/ ClearStale
  \/ CopyLive
  \/ RenameAside
  \/ SwapIn
  \/ SwapFails
  \/ TearLive
  \/ Vacate
  \/ RemoveOld

-----------------------------------------------------------------------------
BackupTypeOK ==
  /\ fs \in [Paths -> [live : Contents, bak : Contents, old : Contents,
                       tmp : Contents]]
  /\ call \in Calls
  /\ exdev \in BOOLEAN

Survives(path) == last[path] # Absent => last[path] \in {fs[path].bak, fs[path].old}

\* The last whole backup of a path is on disk, in .bak or .bak.old, until a new
\* one is or its owner drops it: through any number of calls, at every kill and
\* every failed system call (BackupToDotBak, backupExisting).  A call that begins
\* on what a killed or failed one left is the exception, until it has made a whole
\* backup.
OneGeneration == \A path \in Paths \ leftovers : Survives(path)

\* "an interrupted backup never leaves the user with neither generation"
\* (BackupToDotBak), "the one-generation contract holds across a crash-then-retry
\* sequence" (backupExisting): the same without the exception, of a backup that is
\* not just a copy of what is live.
BackupOutlivesRetry ==
  \A path \in Paths : Survives(path) \/ last[path] = fs[path].live
=============================================================================
