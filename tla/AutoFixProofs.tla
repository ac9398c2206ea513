--------------------------- MODULE AutoFixProofs ---------------------------
(***************************************************************************)
(* The backups of BackupSwap and the auto-fix runs that use them keep what *)
(* a run found and the last backup made, and a run's answer is true, for   *)
(* any paths, fixes and number of runs.                                    *)
(***************************************************************************)
EXTENDS AutoFix, NaturalsInduction, WellFoundedInduction, TLAPS

\* Where the two generations of a backup are, when was is what its path held at
\* its start: the path's files are now and the call is at at.
Generations(now, at, was) ==
  LET asideKept == call.prior = Absent \/ now.old = call.prior
  IN /\ at \in {"clear", "copy", "aside", "swap"} => now.live = was
     /\ at \in {"clear", "aside"} => now.bak = call.prior
     /\ at = "copy" => IF moving THEN exdev /\ asideKept ELSE now.bak = call.prior
     /\ at = "aside" => moving \/ now.tmp = was
     /\ at = "swap" => asideKept /\ ((moving /\ ~exdev) \/ now.tmp = was)
     /\ at = "vacate" => moving /\ exdev
     /\ at \in {"vacate", "clean"} => now.bak = was
     /\ at \in {"clean", "ok", "failed"} => moving \/ now.live = was
     /\ at = "ok" => now.bak = was \/ (was = Absent /\ now.bak = call.prior)
     /\ at = "failed" =>
          /\ was \in {now.live, now.bak}
          /\ asideKept \/ now.bak \in {call.prior, was}

-----------------------------------------------------------------------------

InCall == pc \in {"force", "backup"}

\* A backup is under way in two phases of a run, for the tree or for an entry.
CallShape ==
  /\ pc = "force" => src = Dir
  /\ pc = "backup" => next # Finish /\ src = Entry.path
  /\ pc # "idle" => (call.at = "none" <=> ~InCall)
  /\ InCall => Generations(fs[src], call.at, pre[src])

\* The tree is in its backup once it was moved there.
DirKept == pc \notin {"idle", "force"} => pre[Dir] \in {fs[Dir].bak, Absent}

\* The backup map says where each file's content is.
MapTrue ==
  pc \in {"force", "apply", "backup", "validate", "revert"} =>
    \A f \in Files :
      /\ bm[f] = "bak" => fs[f].bak = pre[f]
      /\ bm[f] = "" => pre[f] = Absent
      /\ bm[f] = "none" =>
           \/ fs[f].live = pre[f]
           \/ pc = "revert" /\ failed /\ pre[f] \in {fs[f].bak, Absent}

Target(i) == IF Fixes[i].kind = "delete" THEN Absent ELSE runs

\* The entries before next are patched unless one failed, those from it on are
\* untouched.
Landed ==
  /\ pc \in {"force", "apply", "backup"} =>
       \A i \in Entries :
         /\ i >= next => bm[Fixes[i].path] = "none"
         /\ i < next /\ ~failed => fs[Fixes[i].path].live = Target(i)
  /\ pc \in {"validate", "cleanup"} =>
       \A i \in Entries : fs[Fixes[i].path].live = Target(i)

\* RevertPatch is at one file at a time.
OneRestored ==
  /\ pc \notin {"idle", "revert"} => restoring = NoFile
  /\ pc = "revert" /\ restoring # NoFile => bm[restoring] = "bak"

\* What was validated, and what GitHub has.
Vouched ==
  /\ pc \in {"force", "apply", "backup", "validate", "revert"} => validated = {}
  /\ pc = "cleanup" => validated = {LiveFiles}
  /\ pc \notin {"idle", "publish"} => remote = "none"
  /\ pc = "publish" =>
       /\ validated = {committed}
       /\ \A i \in Entries : committed[Fixes[i].path] = Target(i)
  /\ pc # "idle" => outcome = "running"

\* While no run is under way there is what the last one left.
LeftBehind == pc = "idle" => PreRunKept /\ AnswerTrue

\* The inductive invariant.
IInv ==
  /\ StateTypeOK /\ CallShape /\ DirKept /\ MapTrue /\ Landed /\ OneRestored /\ Vouched
  /\ LeftBehind

-----------------------------------------------------------------------------
(* One step of a backup.                                                   *)

FileStates == [live : Contents, bak : Contents, old : Contents, tmp : Contents]

\* What a step of a backup does to its path and its call: the path's files
\* become now, the call goes to at.
StepTo(now, at) ==
  /\ fs' = [fs EXCEPT ![src] = now]
  /\ call' = [call EXCEPT !.at = at]
  /\ exdev' = exdev

\* Absent and Torn are contents, and so are the parts of a path's files.
LEMMA ContentsOf ==
  ASSUME BackupTypeOK
  PROVE  /\ Absent \in Contents /\ Torn \in Contents
         /\ src \in Paths /\ call.prior \in Contents /\ call.at \in Steps
         /\ fs \in [Paths -> FileStates] /\ fs[src] \in FileStates
         /\ fs[src].live \in Contents /\ fs[src].bak \in Contents
         /\ fs[src].old \in Contents /\ fs[src].tmp \in Contents
BY DEF BackupTypeOK, Contents, Calls, src, FileStates

Holds(files, live, bak, old, tmp) ==
  /\ files \in FileStates
  /\ files.live = live /\ files.bak = bak /\ files.old = old /\ files.tmp = tmp

\* A path's files after a change of some of them.
LEMMA Edits ==
  ASSUME NEW r \in FileStates, NEW c \in Contents, NEW d \in Contents
  PROVE  /\ Holds(r, r.live, r.bak, r.old, r.tmp)
         /\ Holds([r EXCEPT !.live = c], c, r.bak, r.old, r.tmp)
         /\ Holds([r EXCEPT !.bak = c], r.live, c, r.old, r.tmp)
         /\ Holds([r EXCEPT !.old = c], r.live, r.bak, c, r.tmp)
         /\ Holds([r EXCEPT !.tmp = c], r.live, r.bak, r.old, c)
         /\ Holds([r EXCEPT !.old = c, !.tmp = d], r.live, r.bak, c, d)
         /\ Holds([r EXCEPT !.bak = c, !.old = d], r.live, c, d, r.tmp)
         /\ Holds([r EXCEPT !.old = c, !.bak = d], r.live, d, c, r.tmp)
         /\ Holds([r EXCEPT !.bak = c, !.live = d], d, c, r.old, r.tmp)
         /\ Holds([r EXCEPT !.bak = c, !.tmp = d], r.live, c, r.old, d)
         /\ Holds([r EXCEPT !.live = c, !.bak = d], c, d, r.old, r.tmp)
<1>1. Holds(r, r.live, r.bak, r.old, r.tmp)
  BY DEF FileStates, Holds
<1>2. Holds([r EXCEPT !.live = c], c, r.bak, r.old, r.tmp)
  BY DEF FileStates, Holds
<1>3. Holds([r EXCEPT !.bak = c], r.live, c, r.old, r.tmp)
  BY DEF FileStates, Holds
<1>4. Holds([r EXCEPT !.old = c], r.live, r.bak, c, r.tmp)
  BY DEF FileStates, Holds
<1>5. Holds([r EXCEPT !.tmp = c], r.live, r.bak, r.old, c)
  BY DEF FileStates, Holds
<1>6. Holds([r EXCEPT !.old = c, !.tmp = d], r.live, r.bak, c, d)
  BY DEF FileStates, Holds
<1>7. Holds([r EXCEPT !.bak = c, !.old = d], r.live, c, d, r.tmp)
  BY DEF FileStates, Holds
<1>8. Holds([r EXCEPT !.old = c, !.bak = d], r.live, d, c, r.tmp)
  BY DEF FileStates, Holds
<1>9. Holds([r EXCEPT !.bak = c, !.live = d], d, c, r.old, r.tmp)
  BY DEF FileStates, Holds
<1>10. Holds([r EXCEPT !.bak = c, !.tmp = d], r.live, c, r.old, d)
  BY DEF FileStates, Holds
<1>11. Holds([r EXCEPT !.live = c, !.bak = d], c, d, r.old, r.tmp)
  BY DEF FileStates, Holds
<1> QED
  BY <1>1, <1>2, <1>3, <1>4, <1>5, <1>6, <1>7, <1>8, <1>9, <1>10, <1>11

\* A step of a backup that leaves its generations in place.
Kept(was) ==
  \E now \in FileStates, at \in Steps :
    /\ StepTo(now, at) /\ Generations(now, at, was) /\ at # "none"
    /\ moving \/ now.live = fs[src].live

\* The entry checks: what a crashed call left goes, the prior .bak stays.
LEMMA ClearStaleKeeps ==
  ASSUME BackupTypeOK, NEW was, Generations(fs[src], call.at, was), ClearStale
  PROVE  Kept(was)
<1> DEFINE me == fs[src]
<1>0. /\ Absent \in Contents /\ Torn \in Contents
      /\ me \in FileStates /\ fs \in [Paths -> FileStates] /\ me.old \in Contents
  BY ContentsOf
<1>1. call.at = "clear" /\ me.live = was /\ me.bak = call.prior /\ exdev' = exdev
  BY DEF ClearStale, Generations
<1>2. CASE me.live = Absent /\ Goto("ok") /\ UNCHANGED fs
  <2>1. fs' = [fs EXCEPT ![src] = me]
    BY <1>0, <1>2 DEF BackupTypeOK
  <2>2. StepTo(me, "ok") /\ Generations(me, "ok", was) /\ "ok" \in Steps
    BY <1>1, <1>2, <2>1 DEF StepTo, Goto, Generations, Steps
  <2> QED
    BY <1>0, <2>2 DEF Kept
<1>3. ASSUME Put([me EXCEPT !.old = Absent, !.tmp = Absent]),
             Goto(IF moving THEN "aside" ELSE "copy")
      PROVE  Kept(was)
  <2> DEFINE now == [me EXCEPT !.old = Absent, !.tmp = Absent]
             at == IF moving THEN "aside" ELSE "copy"
  <2>1. Holds(now, me.live, me.bak, Absent, Absent)
    BY <1>0, Edits
  <2>2. StepTo(now, at) /\ Generations(now, at, was) /\ at \in Steps /\ at # "none"
    BY <1>1, <1>3, <2>1 DEF StepTo, Put, Goto, Generations, Steps, Holds
  <2> QED
    BY <2>1, <2>2 DEF Kept, Holds
<1>4. ASSUME NEW left \in {me.old, Torn, Absent}, Put([me EXCEPT !.old = left]), Goto("failed")
      PROVE  Kept(was)
  <2> DEFINE now == [me EXCEPT !.old = left]
  <2>1. Holds(now, me.live, me.bak, left, me.tmp)
    BY <1>0, Edits
  <2>2. StepTo(now, "failed") /\ Generations(now, "failed", was) /\ "failed" \in Steps
    BY <1>1, <1>4, <2>1 DEF StepTo, Put, Goto, Generations, Steps, Holds
  <2> QED
    BY <2>1, <2>2 DEF Kept, Holds
<1> QED
  BY <1>2, <1>3, <1>4 DEF ClearStale

\* The copy of the live path, staged, or a failed one undone.
LEMMA CopyLiveKeeps ==
  ASSUME BackupTypeOK, NEW was, Generations(fs[src], call.at, was), CopyLive
  PROVE  Kept(was)
<1> DEFINE me == fs[src]
<1>0. /\ Absent \in Contents /\ me \in FileStates /\ fs \in [Paths -> FileStates]
      /\ me.live \in Contents /\ me.old \in Contents /\ me.bak \in Contents
  BY ContentsOf
<1>1. /\ call.at = "copy" /\ me.live = was /\ exdev' = exdev
      /\ IF moving THEN exdev /\ (call.prior = Absent \/ me.old = call.prior)
                   ELSE me.bak = call.prior
  BY DEF CopyLive, Generations
<1>2. ASSUME Put([me EXCEPT !.tmp = me.live]), Goto(IF moving THEN "swap" ELSE "aside")
      PROVE  Kept(was)
  <2> DEFINE now == [me EXCEPT !.tmp = me.live]
             at == IF moving THEN "swap" ELSE "aside"
  <2>1. Holds(now, me.live, me.bak, me.old, me.live)
    BY <1>0, Edits
  <2>2. StepTo(now, at) /\ Generations(now, at, was) /\ at \in Steps /\ at # "none"
    BY <1>1, <1>2, <2>1 DEF StepTo, Put, Goto, Generations, Steps, Holds
  <2> QED
    BY <2>1, <2>2 DEF Kept, Holds
<1>3. ASSUME NEW now \in IF moving THEN Restored(me) ELSE {me}, Put(now), Goto("failed")
      PROVE  Kept(was)
  <2>1. CASE now = me
    <3>1. StepTo(now, "failed") /\ Generations(now, "failed", was) /\ "failed" \in Steps
      BY <1>1, <1>3, <2>1 DEF StepTo, Put, Goto, Generations, Steps
    <3> QED
      BY <1>0, <2>1, <3>1 DEF Kept
  <2>2. CASE now # me
    <3>1. now = [me EXCEPT !.bak = me.old, !.old = Absent] /\ moving /\ call.prior # Absent
      BY <1>3, <2>2 DEF Restored
    <3>2. Holds(now, me.live, me.old, Absent, me.tmp)
      BY <1>0, <3>1, Edits
    <3>3. StepTo(now, "failed") /\ Generations(now, "failed", was) /\ "failed" \in Steps
      BY <1>1, <1>3, <3>1, <3>2 DEF StepTo, Put, Goto, Generations, Steps, Holds
    <3> QED
      BY <3>2, <3>3 DEF Kept, Holds
  <2> QED
    BY <2>1, <2>2
<1> QED
  BY <1>2, <1>3 DEF CopyLive

\* The prior .bak is renamed aside, or the call ends with it in place.
LEMMA RenameAsideKeeps ==
  ASSUME BackupTypeOK, NEW was, Generations(fs[src], call.at, was), RenameAside
  PROVE  Kept(was)
<1> DEFINE me == fs[src]
           at == IF moving /\ exdev THEN "copy" ELSE "swap"
<1>0. /\ Absent \in Contents /\ me \in FileStates /\ fs \in [Paths -> FileStates]
      /\ call.prior \in Contents /\ exdev \in BOOLEAN
  BY ContentsOf DEF BackupTypeOK
<1>1. /\ call.at = "aside" /\ me.live = was /\ me.bak = call.prior /\ exdev' = exdev
      /\ moving \/ me.tmp = was
  BY DEF RenameAside, Generations
<1>2. at \in Steps /\ at # "none"
  BY DEF Steps
<1>3. ASSUME Put(me), call.prior = Absent, Goto(at) PROVE Kept(was)
  <2>1. StepTo(me, at) /\ Generations(me, at, was)
    BY <1>1, <1>3 DEF StepTo, Put, Goto, Generations
  <2> QED
    BY <1>0, <1>2, <2>1 DEF Kept
<1>4. ASSUME Put([me EXCEPT !.old = call.prior, !.bak = Absent]), Goto(at) PROVE Kept(was)
  <2> DEFINE now == [me EXCEPT !.old = call.prior, !.bak = Absent]
  <2>1. Holds(now, me.live, Absent, call.prior, me.tmp)
    BY <1>0, Edits
  <2>2. StepTo(now, at) /\ Generations(now, at, was)
    BY <1>1, <1>4, <2>1 DEF StepTo, Put, Goto, Generations, Holds
  <2> QED
    BY <1>2, <2>1, <2>2 DEF Kept, Holds
<1>5. ASSUME Put([me EXCEPT !.tmp = Absent]), Goto("failed") PROVE Kept(was)
  <2> DEFINE now == [me EXCEPT !.tmp = Absent]
  <2>1. Holds(now, me.live, me.bak, me.old, Absent)
    BY <1>0, Edits
  <2>2. StepTo(now, "failed") /\ Generations(now, "failed", was) /\ "failed" \in Steps
    BY <1>1, <1>5, <2>1 DEF StepTo, Put, Goto, Generations, Steps, Holds
  <2> QED
    BY <2>1, <2>2 DEF Kept, Holds
<1> QED
  BY <1>3, <1>4, <1>5 DEF RenameAside

\* The new generation comes in.
LEMMA SwapInKeeps ==
  ASSUME BackupTypeOK, NEW was, Generations(fs[src], call.at, was), SwapIn
  PROVE  Kept(was)
<1> DEFINE me == fs[src]
           at == IF moving /\ exdev THEN "vacate" ELSE "clean"
<1>0. /\ Absent \in Contents /\ me \in FileStates
      /\ me.live \in Contents /\ me.tmp \in Contents
  BY ContentsOf
<1>1. /\ call.at = "swap" /\ me.live = was /\ exdev' = exdev /\ Goto(at)
      /\ (moving /\ ~exdev) \/ me.tmp = was
  BY DEF SwapIn, Generations
<1>2. at \in Steps /\ at # "none"
  BY DEF Steps
<1>3. CASE moving /\ ~exdev
  <2> DEFINE now == [me EXCEPT !.bak = me.live, !.live = Absent]
  <2>1. Put(now)
    BY <1>3 DEF SwapIn
  <2>2. Holds(now, Absent, me.live, me.old, me.tmp)
    BY <1>0, Edits
  <2>3. StepTo(now, at) /\ Generations(now, at, was)
    BY <1>1, <1>3, <2>1, <2>2 DEF StepTo, Put, Goto, Generations, Holds
  <2> QED
    BY <1>2, <1>3, <2>2, <2>3 DEF Kept, Holds
<1>4. CASE ~(moving /\ ~exdev)
  <2> DEFINE now == [me EXCEPT !.bak = me.tmp, !.tmp = Absent]
  <2>1. Put(now)
    BY <1>4 DEF SwapIn
  <2>2. Holds(now, me.live, me.tmp, me.old, Absent)
    BY <1>0, Edits
  <2>3. StepTo(now, at) /\ Generations(now, at, was)
    BY <1>1, <1>4, <2>1, <2>2 DEF StepTo, Put, Goto, Generations, Holds
  <2> QED
    BY <1>2, <2>2, <2>3 DEF Kept, Holds
<1> QED
  BY <1>3, <1>4

\* A failed swap renames the prior generation back, or leaves it aside.
LEMMA SwapFailsKeeps ==
  ASSUME BackupTypeOK, NEW was, Generations(fs[src], call.at, was), SwapFails
  PROVE  Kept(was)
<1> DEFINE me == fs[src]
<1>0. /\ Absent \in Contents /\ me \in FileStates /\ me.old \in Contents
  BY ContentsOf
<1>1. /\ call.at = "swap" /\ me.live = was /\ exdev' = exdev /\ Goto("failed")
      /\ call.prior = Absent \/ me.old = call.prior
  BY DEF SwapFails, Generations
<1>2. PICK files \in Restored(me) :
        Put(IF moving THEN files ELSE [files EXCEPT !.tmp = Absent])
  BY DEF SwapFails
<1> DEFINE now == IF moving THEN files ELSE [files EXCEPT !.tmp = Absent]
<1>3. /\ files \in FileStates /\ files.live = me.live
      /\ call.prior = Absent \/ call.prior \in {files.bak, files.old}
  <2>1. CASE files = me
    BY <1>0, <1>1, <2>1
  <2>2. CASE files # me
    <3>1. files = [me EXCEPT !.bak = me.old, !.old = Absent]
      BY <2>2 DEF Restored
    <3>2. Holds(files, me.live, me.old, Absent, me.tmp)
      BY <1>0, <3>1, Edits
    <3> QED
      BY <1>1, <3>2 DEF Holds
  <2> QED
    BY <2>1, <2>2
<1>4. /\ now \in FileStates /\ now.live = me.live
      /\ call.prior = Absent \/ call.prior \in {now.bak, now.old}
  <2>1. Holds([files EXCEPT !.tmp = Absent], files.live, files.bak, files.old, Absent)
    BY <1>0, <1>3, Edits
  <2> QED
    BY <1>3, <2>1 DEF Holds
<1> HIDE DEF now
<1>5. StepTo(now, "failed") /\ Generations(now, "failed", was) /\ "failed" \in Steps
  BY <1>1, <1>2, <1>4 DEF StepTo, Put, Goto, Generations, Steps, now
<1> QED
  BY <1>4, <1>5 DEF Kept

\* The live tree goes once its copy is the backup.
LEMMA VacateKeeps ==
  ASSUME BackupTypeOK, NEW was, Generations(fs[src], call.at, was), TearLive \/ Vacate
  PROVE  Kept(was)
<1> DEFINE me == fs[src]
<1>0. /\ Absent \in Contents /\ Torn \in Contents /\ me \in FileStates
      /\ me.live \in Contents /\ fs \in [Paths -> FileStates]
  BY ContentsOf
<1>1. call.at = "vacate" /\ moving /\ exdev /\ me.bak = was /\ exdev' = exdev
  BY DEF TearLive, Vacate, Generations
<1>2. ASSUME NEW l \in Contents, NEW at \in {"vacate", "clean", "failed"},
             Put([me EXCEPT !.live = l]), call' = [call EXCEPT !.at = at]
      PROVE  Kept(was)
  <2> DEFINE now == [me EXCEPT !.live = l]
  <2>1. Holds(now, l, me.bak, me.old, me.tmp)
    BY <1>0, Edits
  <2>2. StepTo(now, at) /\ Generations(now, at, was) /\ at \in Steps
    BY <1>1, <1>2, <2>1 DEF StepTo, Put, Generations, Steps, Holds
  <2> QED
    BY <1>1, <1>2, <2>1, <2>2 DEF Kept, Holds
<1>3. CASE TearLive
  <2>1. call' = [call EXCEPT !.at = "vacate"]
    BY <1>1, <1>3 DEF TearLive, BackupTypeOK, Calls
  <2> QED
    BY <1>0, <1>2, <1>3, <2>1 DEF TearLive
<1>4. CASE Vacate
  <2>1. fs' = fs => Put([me EXCEPT !.live = me.live])
    BY <1>0 DEF Put, FileStates
  <2> QED
    BY <1>0, <1>2, <1>4, <2>1 DEF Vacate, Goto
<1> QED
  BY <1>3, <1>4

\* The superseded generation goes, or stays aside.
LEMMA RemoveOldKeeps ==
  ASSUME BackupTypeOK, NEW was, Generations(fs[src], call.at, was), RemoveOld
  PROVE  Kept(was)
<1> DEFINE me == fs[src]
<1>0. /\ Absent \in Contents /\ me \in FileStates /\ me.old \in Contents
      /\ fs \in [Paths -> FileStates]
  BY ContentsOf
<1>1. call.at = "clean" /\ me.bak = was /\ (moving \/ me.live = was) /\ exdev' = exdev
  BY DEF RemoveOld, Generations
<1>2. ASSUME NEW o \in Contents, NEW at \in {"ok", "failed"},
             Put([me EXCEPT !.old = o]), Goto(at)
      PROVE  Kept(was)
  <2> DEFINE now == [me EXCEPT !.old = o]
  <2>1. Holds(now, me.live, me.bak, o, me.tmp)
    BY <1>0, Edits
  <2>2. StepTo(now, at) /\ Generations(now, at, was) /\ at \in Steps
    BY <1>1, <1>2, <2>1 DEF StepTo, Put, Goto, Generations, Steps, Holds
  <2> QED
    BY <1>2, <2>1, <2>2 DEF Kept, Holds
<1>3. fs' = fs => Put([me EXCEPT !.old = me.old])
  BY <1>0 DEF Put, FileStates
<1> QED
  BY <1>0, <1>2, <1>3 DEF RemoveOld

\* Every step of a backup keeps its generations.
LEMMA BackupKeeps ==
  ASSUME BackupTypeOK, NEW was, Generations(fs[src], call.at, was), BackupStep
  PROVE  Kept(was)
BY ClearStaleKeeps, CopyLiveKeeps, RenameAsideKeeps, SwapInKeeps, SwapFailsKeeps,
   VacateKeeps, RemoveOldKeeps DEF BackupStep

-----------------------------------------------------------------------------
(* The entries of a run.                                                   *)

\* The selected fixes are fixes of files, one for each path.
LEMMA EntriesOf ==
  /\ Finish \in Nat /\ 0 < Finish /\ Entries \in SUBSET Nat
  /\ \A i \in Entries :
       /\ 0 < i /\ i < Finish
       /\ Fixes[i].path \in Files /\ Fixes[i].path \in Paths /\ Fixes[i].path # Dir
       /\ Fixes[i].kind \in {"modify", "create", "delete"}
  /\ \A i, j \in Entries : i # j => Fixes[i].path # Fixes[j].path
<1> DEFINE S == [path : Files, kind : {"modify", "create", "delete"}]
<1>0. Fixes \in Seq(S)
  BY AutoFixAssumption
<1> HIDE DEF S
<1>1. /\ Len(Fixes) \in Nat /\ DOMAIN Fixes = 1..Len(Fixes)
      /\ \A i \in 1..Len(Fixes) : Fixes[i] \in S
  BY <1>0
<1>2. Finish \in Nat /\ 0 < Finish /\ Entries \subseteq 1..Len(Fixes)
  BY <1>1 DEF Finish, Entries, selectAutoFixEntries
<1>3. \A i \in Entries : \A j \in 1..(i - 1) : Fixes[j].path # Fixes[i].path
  BY DEF Entries, selectAutoFixEntries
<1>4. ASSUME NEW i \in Entries, NEW j \in Entries, i # j
      PROVE  Fixes[i].path # Fixes[j].path
  <2>1. i \in 1..(j - 1) \/ j \in 1..(i - 1)
    BY <1>1, <1>2, <1>4
  <2> QED
    BY <1>3, <2>1
<1>5. \A i \in Entries : 0 < i /\ i < Finish
  BY <1>1, <1>2 DEF Finish
<1>6. ASSUME NEW i \in Entries
      PROVE  /\ Fixes[i].path \in Files
             /\ Fixes[i].kind \in {"modify", "create", "delete"}
  <2>1. Fixes[i] \in S
    BY <1>1, <1>2
  <2> QED
    BY <2>1 DEF S
<1>7. Entries \in SUBSET Nat
  BY <1>1, <1>2
<1>8. \A i \in Entries : Fixes[i].path \in Paths /\ Fixes[i].path # Dir
  BY <1>6 DEF Files
<1> QED
  BY <1>2, <1>4, <1>5, <1>6, <1>7, <1>8

\* A set of naturals that is not empty has a least member, Min.
LEMMA LeastMember ==
  ASSUME NEW K \in SUBSET Nat, K # {}
  PROVE  Min(K) \in K /\ \A j \in K : Min(K) <= j
<1>1. IsWellFoundedOn(OpToRel(<, Nat), Nat)
  BY NatLessThanWellFounded
<1>2. PICK k \in K : \A j \in K : ~(<<j, k>> \in OpToRel(<, Nat))
  BY <1>1, WFMin
<1>3. \A j \in K : ~(j < k) /\ j \in Nat
  BY <1>2 DEF OpToRel
<1>4. \E x \in K : \A y \in K : x =< y
  BY <1>3
<1> QED
  BY <1>4 DEF Min

\* After the entry at i comes the next one, or the finish.
LEMMA FollowingIs ==
  ASSUME NEW i \in Nat, i < Finish
  PROVE  /\ following(i) \in Entries \cup {Finish}
         /\ following(i) \in Nat /\ i < following(i)
         /\ \A j \in Entries : i < j => following(i) <= j
<1> DEFINE K == {j \in Entries \cup {Finish} : j > i}
<1>1. K \in SUBSET Nat /\ Finish \in K
  BY EntriesOf
<1>2. Min(K) \in K /\ \A j \in K : Min(K) <= j
  BY <1>1, LeastMember
<1>3. following(i) = Min(K)
  BY DEF following
<1>4. \A j \in Entries : i < j => j \in K
  BY EntriesOf
<1> QED
  BY <1>1, <1>2, <1>3, <1>4

\* The entries fall into those before i, the one at i and those from the
\* following one on.
LEMMA Sides ==
  ASSUME NEW i \in Nat, i < Finish, NEW j \in Entries
  PROVE  /\ j >= following(i) => j >= i /\ j # i
         /\ j < following(i) => j = i \/ (j < i /\ j # i)
<1>1. j \in Nat
  BY EntriesOf
<1> QED
  BY <1>1, FollowingIs

-----------------------------------------------------------------------------
(* What the invariant says of the properties.                              *)

\* A run's number is a content.
LEMMA RunsContent ==
  ASSUME StateTypeOK
  PROVE  runs \in Nat /\ runs \in Contents /\ Absent \in Contents /\ Torn \in Contents
<1>1. MaxRuns \in Nat /\ MaxGen \in Nat /\ MaxRuns <= MaxGen
  BY AutoFixAssumption, BackupAssumption
<1>2. runs \in 0..MaxRuns
  BY DEF StateTypeOK
<1> QED
  BY <1>1, <1>2 DEF Contents, Absent, Torn

\* The invariant says what the properties say.
LEMMA Follows ==
  ASSUME IInv
  PROVE  PreRunKept /\ AnswerTrue
<1>1. CASE pc = "idle"
  BY <1>1 DEF IInv, LeftBehind
<1>2. CASE pc # "idle"
  <2>1. /\ StateTypeOK /\ CallShape /\ DirKept /\ MapTrue /\ Vouched
        /\ Dir \in Paths /\ Files \subseteq Paths /\ Dir \notin Files
    BY AutoFixAssumption DEF IInv, Files
  <2>3. pre[Dir] \in {fs[Dir].live, fs[Dir].bak, Absent}
    <3>1. CASE pc = "force"
      <4>1. src = Dir /\ Generations(fs[Dir], call.at, pre[Dir]) /\ call.at \in Steps
            /\ call.at # "none"
        BY <2>1, <3>1 DEF CallShape, InCall, StateTypeOK, BackupTypeOK, Calls
      <4> QED
        BY <4>1 DEF Generations, Steps
    <3>2. CASE pc # "force"
      BY <1>2, <2>1, <3>2 DEF DirKept
    <3> QED
      BY <3>1, <3>2
  <2>4. ASSUME NEW f \in Files, validated = {}
        PROVE  pre[f] \in {fs[f].live, fs[f].bak, Absent}
    <3>1. pc \in {"force", "apply", "backup", "validate", "revert"}
      BY <1>2, <2>1, <2>4 DEF Vouched, StateTypeOK
    <3>2. bm[f] \in {"bak", "", "none"}
      BY <2>1 DEF StateTypeOK
    <3> QED
      BY <2>1, <3>1, <3>2 DEF MapTrue
  <2>5. PreRunKept
    BY <2>1, <2>3, <2>4 DEF PreRunKept, Files
  <2>6. AnswerTrue
    BY <1>2, <2>1 DEF AnswerTrue, Vouched, Target
  <2> QED
    BY <2>5, <2>6
<1> QED
  BY <1>1, <1>2

\* A run that ends, or is killed, leaves what the invariant says.
LEMMA EndsKeeps ==
  ASSUME IInv, pc # "idle", pc' = "idle",
         UNCHANGED <<fs, exdev, runs, pre, next, bm, failed, restoring, validated, committed>>,
         call' = call \/ call' = [call EXCEPT !.at = "none"],
         remote' = remote \/ (pc = "publish" /\ remote' \in {"branch", "commit", "pr"}),
         outcome' \in {"force failed", "reverted", "revert failed", "publish failed",
                       "published", "killed"},
         outcome' = "reverted" => \A f \in Files : fs[f].live = pre[f]
  PROVE  IInv'
<1>1. StateTypeOK /\ Vouched /\ PreRunKept /\ AnswerTrue
  BY Follows DEF IInv
<1>2. call' \in Calls /\ call'.path = call.path /\ call'.prior = call.prior
      /\ call'.at \in {call.at, "none"}
  BY <1>1 DEF StateTypeOK, BackupTypeOK, Calls, Steps
<1>3. StateTypeOK'
  BY <1>1, <1>2 DEF StateTypeOK, BackupTypeOK
<1>4. PreRunKept'
  BY <1>1 DEF PreRunKept
<1>6. AnswerTrue'
  BY <1>1 DEF AnswerTrue, Vouched, Target
<1> QED
  BY <1>3, <1>4, <1>6
  DEF IInv, CallShape, InCall, DirKept, MapTrue, Landed, OneRestored, Vouched, LeftBehind

-----------------------------------------------------------------------------
(* Steps that change the files of one path.                                *)

\* Some files of one path are set.
Sets(f, now) ==
  /\ fs' \in [Paths -> FileStates] /\ fs'[f] = now
  /\ \A p \in Paths \ {f} : fs'[p] = fs[p]

\* The live file or the backup of a path is set.
LEMMA OneSet ==
  ASSUME BackupTypeOK, NEW f \in Paths, NEW c \in Contents, NEW d \in Contents
  PROVE  /\ fs' = [fs EXCEPT ![f].live = c] => Sets(f, [fs[f] EXCEPT !.live = c])
         /\ fs' = [fs EXCEPT ![f].bak = c] => Sets(f, [fs[f] EXCEPT !.bak = c])
         /\ fs' = [fs EXCEPT ![f].live = c, ![f].bak = d] =>
              Sets(f, [fs[f] EXCEPT !.live = c, !.bak = d])
         /\ fs' = fs => Sets(f, fs[f])
         /\ Holds(fs[f], fs[f].live, fs[f].bak, fs[f].old, fs[f].tmp)
         /\ Holds([fs[f] EXCEPT !.live = c], c, fs[f].bak, fs[f].old, fs[f].tmp)
         /\ Holds([fs[f] EXCEPT !.bak = c], fs[f].live, c, fs[f].old, fs[f].tmp)
         /\ Holds([fs[f] EXCEPT !.live = c, !.bak = d], c, d, fs[f].old, fs[f].tmp)
<1>1. fs \in [Paths -> FileStates] /\ fs[f] \in FileStates
  BY DEF BackupTypeOK, FileStates
<1>2. /\ Holds(fs[f], fs[f].live, fs[f].bak, fs[f].old, fs[f].tmp)
      /\ Holds([fs[f] EXCEPT !.live = c], c, fs[f].bak, fs[f].old, fs[f].tmp)
      /\ Holds([fs[f] EXCEPT !.bak = c], fs[f].live, c, fs[f].old, fs[f].tmp)
      /\ Holds([fs[f] EXCEPT !.live = c, !.bak = d], c, d, fs[f].old, fs[f].tmp)
  BY <1>1, Edits
<1>3. ASSUME NEW now \in FileStates, fs' = [fs EXCEPT ![f] = now] PROVE Sets(f, now)
  BY <1>1, <1>3 DEF Sets
<1>4. ASSUME fs' = [fs EXCEPT ![f].live = c] PROVE Sets(f, [fs[f] EXCEPT !.live = c])
  BY <1>2, <1>3, <1>4 DEF Holds
<1>5. ASSUME fs' = [fs EXCEPT ![f].bak = c] PROVE Sets(f, [fs[f] EXCEPT !.bak = c])
  BY <1>2, <1>3, <1>5 DEF Holds
<1>6. ASSUME fs' = [fs EXCEPT ![f].live = c, ![f].bak = d]
      PROVE  Sets(f, [fs[f] EXCEPT !.live = c, !.bak = d])
  <2>1. fs' = [fs EXCEPT ![f] = [fs[f] EXCEPT !.live = c, !.bak = d]]
    BY <1>1, <1>6 DEF FileStates
  <2> QED
    BY <1>2, <1>3, <2>1 DEF Holds
<1>7. fs' = fs => Sets(f, fs[f])
  BY <1>1 DEF Sets
<1> QED
  BY <1>2, <1>4, <1>5, <1>6, <1>7

-----------------------------------------------------------------------------
(* The start of a run and the move of the review tree.                     *)

\* A new run finds what the last one left and makes it its own.
LEMMA StartRunKeeps ==
  ASSUME IInv, StartRun
  PROVE  IInv'
<1>1. /\ pc' = "force" /\ pre' = [f \in Paths |-> fs[f].live] /\ next' = following(0)
      /\ bm' = [f \in Files |-> "none"] /\ failed' = FALSE /\ restoring' = NoFile
      /\ validated' = {} /\ committed' = NoFiles /\ remote' = "none"
      /\ outcome' = "running" /\ fs' = fs /\ exdev' = exdev
      /\ call' = [path |-> Dir, at |-> "clear", prior |-> fs[Dir].bak]
      /\ runs < MaxRuns /\ runs' = runs + 1
  BY DEF StartRun, Begin
<1>2. StateTypeOK /\ Dir \in Paths /\ Files \subseteq Paths /\ MaxRuns \in Nat
  BY AutoFixAssumption DEF IInv, Files
<1>3. fs \in [Paths -> FileStates] /\ fs[Dir] \in FileStates /\ fs[Dir].bak \in Contents
  BY <1>2 DEF StateTypeOK, BackupTypeOK, FileStates
<1>4. next' \in Entries \cup {Finish} /\ \A i \in Entries : i >= next'
  BY <1>1, FollowingIs, EntriesOf
<1>5. StateTypeOK'
  <2>1. call' \in Calls
    BY <1>1, <1>2, <1>3 DEF Calls, Steps
  <2>2. pre' \in [Paths -> Contents]
    BY <1>1, <1>3 DEF FileStates
  <2>3. committed' \in [Files -> Contents]
    BY <1>1, <1>2, RunsContent DEF NoFiles
  <2>4. runs' \in 0..MaxRuns
    <3>1. runs \in 0..MaxRuns
      BY <1>2 DEF StateTypeOK
    <3> QED
      BY <1>1, <1>2, <3>1
  <2> QED
    BY <1>1, <1>2, <1>4, <2>1, <2>2, <2>3, <2>4 DEF StateTypeOK, BackupTypeOK
<1>6. CallShape'
  BY <1>1, <1>2 DEF CallShape, InCall, Generations, src
<1>7. MapTrue'
  BY <1>1, <1>2 DEF MapTrue
<1>8. Landed'
  <2>1. \A i \in Entries : bm'[Fixes[i].path] = "none"
    BY <1>1, EntriesOf
  <2>2. \A i \in Entries : ~(i < next')
    <3>1. next' \in Nat /\ \A i \in Entries : i \in Nat
      BY <1>4, EntriesOf
    <3> QED
      BY <1>4, <3>1
  <2> QED
    BY <1>1, <2>1, <2>2 DEF Landed
<1> QED
  BY <1>1, <1>5, <1>6, <1>7, <1>8
  DEF IInv, DirKept, OneRestored, Vouched, LeftBehind

\* A step of the backup under way.
LEMMA InBackupKeeps ==
  ASSUME IInv, pc # "idle", BackupStep, UNCHANGED <<pc, runVars>>
  PROVE  IInv'
<1>1. StateTypeOK /\ BackupTypeOK /\ CallShape /\ DirKept /\ MapTrue /\ Landed
      /\ OneRestored /\ Vouched
  BY DEF IInv, StateTypeOK
<1>2. UNCHANGED <<pc, runs, pre, next, bm, failed, restoring, validated, committed, remote,
                  outcome>>
  BY DEF runVars
<1>3. call.at # "none"
  BY DEF BackupStep, ClearStale, CopyLive, RenameAside, SwapIn, SwapFails, TearLive,
         Vacate, RemoveOld
<1>4. InCall
  BY <1>1, <1>3 DEF CallShape
<1>5. src \in Paths /\ call \in Calls /\ exdev \in BOOLEAN /\ fs \in [Paths -> FileStates]
  BY <1>1, ContentsOf DEF BackupTypeOK
<1>6. PICK was : was = pre[src]
  OBVIOUS
<1>7. Generations(fs[src], call.at, was)
  BY <1>1, <1>4, <1>6 DEF CallShape
<1>8. Kept(was)
  BY <1>1, <1>7, BackupKeeps
<1>9. PICK now \in FileStates, at \in Steps :
        /\ StepTo(now, at) /\ Generations(now, at, was) /\ at # "none"
        /\ moving \/ now.live = fs[src].live
  BY <1>8 DEF Kept
<1>10. /\ fs' \in [Paths -> FileStates] /\ fs'[src] = now
       /\ \A p \in Paths \ {src} : fs'[p] = fs[p]
       /\ call' \in Calls /\ src' = src /\ call'.prior = call.prior /\ call'.at = at
       /\ exdev' = exdev
  BY <1>5, <1>9 DEF StepTo, Calls, src
<1>11. StateTypeOK'
  <2>1. BackupTypeOK'
    BY <1>5, <1>10 DEF BackupTypeOK, FileStates
  <2> QED
    BY <1>1, <1>2, <2>1, ZenonT(40) DEF StateTypeOK
<1>12. Generations(fs[src], call.at, pre[src])'
  BY <1>2, <1>6, <1>9, <1>10 DEF Generations, moving
<1>13. CallShape'
  BY <1>1, <1>2, <1>4, <1>9, <1>10, <1>12 DEF CallShape, InCall, Entry
<1>14. \A f \in Files : /\ f \in Paths /\ fs'[f].live = fs[f].live
                        /\ f # src => fs'[f] = fs[f]
  <2>1. moving <=> src = Dir
    BY AutoFixAssumption DEF moving
  <2> QED
    BY <1>9, <1>10, <2>1 DEF Files
<1>15. \A f \in Files : bm[f] # "none" => f # src
  <2>1. CASE pc = "force"
    BY <1>1, <2>1 DEF CallShape, Files
  <2>2. CASE pc = "backup"
    <3>1. next \in Entries /\ src = Fixes[next].path
      BY <1>1, <2>2 DEF CallShape, StateTypeOK, Entry
    <3>2. next >= next
      BY <3>1, EntriesOf
    <3> QED
      BY <1>1, <2>2, <3>1, <3>2 DEF Landed
  <2> QED
    BY <1>4, <2>1, <2>2 DEF InCall
<1>16. DirKept'
  <2>1. pc = "backup" => src # Dir
    BY <1>1, EntriesOf DEF CallShape, StateTypeOK, Entry
  <2> QED
    BY <1>1, <1>2, <1>4, <1>10, <2>1, AutoFixAssumption DEF DirKept, InCall
<1>17. MapTrue'
  BY <1>1, <1>2, <1>4, <1>14, <1>15 DEF MapTrue, InCall, StateTypeOK
<1>18. Landed'
  BY <1>1, <1>2, <1>14, EntriesOf DEF Landed, Target
<1>19. OneRestored' /\ Vouched' /\ LeftBehind'
  BY <1>1, <1>2, <1>4 DEF OneRestored, Vouched, LeftBehind, InCall, Target
<1> QED
  BY <1>11, <1>13, <1>16, <1>17, <1>18, <1>19 DEF IInv

\* The review writes the new tree; the old one is in its backup.
LEMMA ReviewKeeps ==
  ASSUME IInv, Review
  PROVE  IInv'
<1>1. /\ pc = "force" /\ call.at = "ok" /\ call' = [call EXCEPT !.at = "none"]
      /\ fs' = [fs EXCEPT ![Dir].live = runs] /\ pc' = "apply" /\ exdev' = exdev
      /\ UNCHANGED <<runs, pre, next, bm, failed, restoring, validated, committed, remote,
                     outcome>>
  BY DEF Review, Goto, runVars
<1>2. StateTypeOK /\ BackupTypeOK /\ CallShape /\ MapTrue /\ Landed /\ OneRestored /\ Vouched
      /\ Dir \in Paths /\ runs \in Contents
  BY AutoFixAssumption, RunsContent DEF IInv, StateTypeOK
<1>3. /\ Sets(Dir, [fs[Dir] EXCEPT !.live = runs])
      /\ Holds([fs[Dir] EXCEPT !.live = runs], runs, fs[Dir].bak, fs[Dir].old, fs[Dir].tmp)
  BY <1>1, <1>2, OneSet
<1>4. call' \in Calls /\ call'.at = "none"
  BY <1>1, <1>2 DEF BackupTypeOK, Calls, Steps
<1>5. StateTypeOK'
  BY <1>1, <1>2, <1>3, <1>4 DEF StateTypeOK, BackupTypeOK, Sets, FileStates
<1>6. CallShape'
  BY <1>1, <1>4 DEF CallShape, InCall
<1>7. DirKept'
  <2>1. pre[Dir] \in {fs[Dir].bak, Absent}
    BY <1>1, <1>2 DEF CallShape, InCall, Generations
  <2> QED
    BY <1>1, <1>3, <2>1 DEF DirKept, Sets, Holds
<1>8. \A f \in Files : fs'[f] = fs[f]
  BY <1>3 DEF Sets, Files
<1>9. MapTrue'
  BY <1>1, <1>2, <1>8 DEF MapTrue
<1>10. Landed'
  BY <1>1, <1>2, <1>8, EntriesOf DEF Landed, Target
<1> QED
  BY <1>1, <1>2, <1>5, <1>6, <1>7, <1>9, <1>10 DEF IInv, OneRestored, Vouched, LeftBehind

-----------------------------------------------------------------------------
(* ApplyPatch.                                                             *)

\* The entry ApplyPatch is at was not touched yet.
LEMMA AtEntry ==
  ASSUME IInv, pc \in {"apply", "backup"}, next # Finish
  PROVE  /\ next \in Entries /\ next \in Nat /\ next < Finish
         /\ Entry.path \in Files /\ Entry.path \in Paths /\ Entry.path # Dir
         /\ bm[Entry.path] = "none" /\ fs[Entry.path].live = pre[Entry.path]
<1>1. StateTypeOK /\ Landed /\ MapTrue
  BY DEF IInv
<1>2. next \in Entries
  BY <1>1 DEF StateTypeOK
<1>3. next \in Nat /\ next < Finish /\ next >= next
  BY <1>2, EntriesOf
<1>4. Entry.path \in Files /\ Entry.path \in Paths /\ Entry.path # Dir
  BY <1>2, EntriesOf DEF Entry
<1>5. bm[Entry.path] = "none"
  BY <1>1, <1>2, <1>3 DEF Landed, Entry
<1>6. fs[Entry.path].live = pre[Entry.path]
  BY <1>1, <1>4, <1>5 DEF MapTrue
<1> QED
  BY <1>2, <1>3, <1>4, <1>5, <1>6

\* An entry is done: it landed and the map says where the content is, or it
\* failed and left the live file alone.
LEMMA EntryDone ==
  ASSUME IInv, pc \in {"apply", "backup"}, pc' = "apply", next # Finish,
         NEW now \in FileStates, Sets(Entry.path, now),
         NEW b \in {"bak", "", "none"}, bm' = [bm EXCEPT ![Entry.path] = b],
         b = "none" => now.live = pre[Entry.path] /\ failed' = TRUE,
         b = "bak" => now.bak = pre[Entry.path],
         b = "" => pre[Entry.path] = Absent,
         b # "none" => now.live = Target(next) /\ failed' = failed,
         next' = following(next),
         call' \in Calls, call'.at = "none",
         UNCHANGED <<exdev, runs, pre, restoring, validated, committed, remote, outcome>>
  PROVE  IInv'
<1> DEFINE p == Entry.path
<1>1. StateTypeOK /\ BackupTypeOK /\ DirKept /\ MapTrue /\ Landed /\ OneRestored /\ Vouched
  BY DEF IInv, StateTypeOK
<1>2. /\ next \in Entries /\ next \in Nat /\ next < Finish
      /\ p \in Files /\ p \in Paths /\ p # Dir /\ p = Fixes[next].path
  BY AtEntry DEF Entry
<1>3. /\ next' \in Entries \cup {Finish} /\ next' \in Nat /\ next < next'
      /\ \A j \in Entries : next < j => next' <= j
  BY <1>2, FollowingIs
<1>4. /\ fs' \in [Paths -> FileStates] /\ fs'[p] = now
      /\ \A q \in Paths \ {p} : fs'[q] = fs[q]
  BY DEF Sets
<1>5. /\ bm' \in [Files -> {"bak", "", "none"}] /\ bm'[p] = b
      /\ \A f \in Files \ {p} : bm'[f] = bm[f]
  BY <1>1, <1>2 DEF StateTypeOK
<1>6. failed' \in BOOLEAN /\ (~failed' => ~failed /\ b # "none")
  BY <1>1 DEF StateTypeOK
<1> HIDE DEF p
<1>7. StateTypeOK'
  BY <1>1, <1>3, <1>4, <1>5, <1>6 DEF StateTypeOK, BackupTypeOK, FileStates
<1>8. CallShape'
  BY DEF CallShape, InCall
<1>9. DirKept'
  BY <1>1, <1>2, <1>4, AutoFixAssumption DEF DirKept
<1>10. MapTrue'
  <2> SUFFICES ASSUME NEW f \in Files
               PROVE  /\ bm'[f] = "bak" => fs'[f].bak = pre[f]
                      /\ bm'[f] = "" => pre[f] = Absent
                      /\ bm'[f] = "none" => fs'[f].live = pre[f]
    BY DEF MapTrue
  <2>1. CASE f = p
    BY <1>4, <1>5, <2>1 DEF p
  <2>2. CASE f # p
    <3>1. fs'[f] = fs[f] /\ bm'[f] = bm[f]
      BY <1>4, <1>5, <2>2 DEF Files
    <3> QED
      BY <1>1, <3>1 DEF MapTrue
  <2> QED
    BY <2>1, <2>2
<1>11. Landed'
  <2>1. \A i \in Entries : /\ i \in Nat /\ Fixes[i].path \in Files
                           /\ Fixes[i].path \in Paths
                           /\ i # next => Fixes[i].path # p
    BY <1>2, EntriesOf
  <2>2. ASSUME NEW i \in Entries, i >= next'
        PROVE  bm'[Fixes[i].path] = "none"
    <3>1. i >= next /\ i # next
      BY <1>2, <2>2, Sides
    <3>2. bm[Fixes[i].path] = "none"
      BY <1>1, <3>1 DEF Landed
    <3> QED
      BY <1>5, <2>1, <3>1, <3>2
  <2>3. ASSUME NEW i \in Entries, i < next', ~failed'
        PROVE  fs'[Fixes[i].path].live = Target(i)
    <3>1. ~failed /\ b # "none"
      BY <1>6, <2>3
    <3>2. i = next \/ (i < next /\ i # next)
      BY <1>2, <2>3, Sides
    <3>3. CASE i = next
      BY <1>2, <1>4, <3>1, <3>3
    <3>4. CASE i < next /\ i # next
      <4>1. fs[Fixes[i].path].live = Target(i)
        BY <1>1, <3>1, <3>4 DEF Landed
      <4> QED
        BY <1>4, <2>1, <3>4, <4>1
    <3> QED
      BY <3>2, <3>3, <3>4
  <2>4. Target(0)' = Target(0) /\ \A i \in Entries : Target(i)' = Target(i)
    BY DEF Target
  <2> QED
    BY <2>2, <2>3, <2>4 DEF Landed, Target
<1> QED
  BY <1>1, <1>7, <1>8, <1>9, <1>10, <1>11 DEF IInv, OneRestored, Vouched, LeftBehind

\* An entry that fails before or in its backup.
LEMMA EntryFailsKeeps ==
  ASSUME IInv, Unapplicable \/ BackupFailed
  PROVE  IInv'
<1>1. /\ pc \in {"apply", "backup"} /\ pc' = "apply" /\ fs' = fs /\ bm' = bm
      /\ failed' = TRUE /\ next' = following(next)
      /\ UNCHANGED <<exdev, runs, pre, restoring, validated, committed, remote, outcome>>
  BY DEF Unapplicable, BackupFailed, EntryFailed, backupVars
<1>2. StateTypeOK /\ BackupTypeOK /\ CallShape
  BY DEF IInv, StateTypeOK
<1>3. next # Finish
  BY <1>2 DEF Unapplicable, BackupFailed, CallShape
<1>4. call' \in Calls /\ call'.at = "none"
  BY <1>2 DEF Unapplicable, BackupFailed, CallShape, InCall, Goto, backupVars,
              BackupTypeOK, Calls, Steps
<1>5. /\ Entry.path \in Files /\ Entry.path \in Paths /\ bm[Entry.path] = "none"
      /\ fs[Entry.path].live = pre[Entry.path]
  BY <1>1, <1>3, AtEntry
<1>6. fs[Entry.path] \in FileStates /\ Sets(Entry.path, fs[Entry.path])
  BY <1>1, <1>2, <1>5 DEF BackupTypeOK, FileStates, Sets
<1>7. bm' = [bm EXCEPT ![Entry.path] = "none"]
  BY <1>1, <1>2, <1>5 DEF StateTypeOK
<1>8. PICK now \in FileStates : now = fs[Entry.path]
  BY <1>6
<1> QED
  BY <1>1, <1>3, <1>4, <1>5, <1>6, <1>7, <1>8, EntryDone

\* The backup of an entry starts.
LEMMA BackUpKeeps ==
  ASSUME IInv, BackUp
  PROVE  IInv'
<1>1. /\ pc = "apply" /\ next # Finish /\ pc' = "backup"
      /\ call' = [path |-> Entry.path, at |-> "clear", prior |-> fs[Entry.path].bak]
      /\ UNCHANGED <<fs, exdev, runs, pre, next, bm, failed, restoring, validated, committed,
                     remote, outcome>>
  BY DEF BackUp, Begin, runVars
<1>2. StateTypeOK /\ BackupTypeOK /\ DirKept /\ MapTrue /\ Landed /\ OneRestored /\ Vouched
  BY DEF IInv, StateTypeOK
<1>3. Entry.path \in Paths /\ fs[Entry.path].live = pre[Entry.path]
  BY <1>1, AtEntry
<1>4. fs[Entry.path].bak \in Contents
  BY <1>2, <1>3 DEF BackupTypeOK
<1>5. /\ call' \in Calls /\ src' = Entry.path /\ call'.at = "clear"
      /\ call'.prior = fs[Entry.path].bak
  BY <1>1, <1>3, <1>4 DEF Calls, Steps, src
<1>6. StateTypeOK'
  BY <1>1, <1>2, <1>5 DEF StateTypeOK, BackupTypeOK
<1>7. CallShape'
  BY <1>1, <1>3, <1>5 DEF CallShape, InCall, Generations, Entry
<1>8. MapTrue' /\ Landed'
  BY <1>1, <1>2 DEF MapTrue, Landed, Target
<1> QED
  BY <1>1, <1>2, <1>6, <1>7, <1>8 DEF IInv, DirKept, OneRestored, Vouched, LeftBehind

\* The entry is written over its backup, or its write fails and undoes it.
LEMMA WriteEntryKeeps ==
  ASSUME IInv, WriteEntry \/ WriteFails
  PROVE  IInv'
<1> DEFINE p == Entry.path
<1>1. /\ pc = "backup" /\ call.at = "ok" /\ pc' = "apply" /\ next' = following(next)
      /\ call' = [call EXCEPT !.at = "none"]
      /\ UNCHANGED <<exdev, runs, pre, restoring, validated, committed, remote, outcome>>
  BY DEF WriteEntry, WriteFails, EntryLanded, EntryFailed, Goto
<1>2. StateTypeOK /\ BackupTypeOK /\ CallShape
  BY DEF IInv, StateTypeOK
<1>3. next # Finish /\ src = p
  BY <1>1, <1>2 DEF CallShape
<1>4. /\ next \in Entries /\ p \in Files /\ p \in Paths /\ p # Dir /\ bm[p] = "none"
      /\ fs[p].live = pre[p]
  BY <1>1, <1>3, AtEntry
<1>5. call' \in Calls /\ call'.at = "none"
  BY <1>1, <1>2 DEF BackupTypeOK, Calls, Steps
<1>6. fs[p].bak = pre[p] \/ pre[p] = Absent
  BY <1>1, <1>2, <1>3 DEF CallShape, InCall, Generations
<1>7. runs \in Contents /\ Absent \in Contents
  BY <1>2, RunsContent
<1>8. CASE WriteEntry
  <2> DEFINE c == IF Entry.kind = "delete" THEN Absent ELSE runs
             b == IF backedUp THEN "bak" ELSE ""
             now == [fs[p] EXCEPT !.live = c]
  <2>1. fs' = [fs EXCEPT ![p].live = c] /\ bm' = [bm EXCEPT ![p] = b] /\ failed' = failed
    BY <1>8 DEF WriteEntry, EntryLanded
  <2>2. c \in Contents /\ c = Target(next)
    BY <1>7 DEF Target, Entry
  <2> HIDE DEF c
  <2>3. Sets(p, now) /\ Holds(now, c, fs[p].bak, fs[p].old, fs[p].tmp)
    BY <1>2, <1>4, <2>1, <2>2, OneSet
  <2>4. /\ b \in {"bak", "", "none"} /\ b # "none"
        /\ b = "bak" => fs[p].bak = pre[p]
        /\ b = "" => pre[p] = Absent
    BY <1>4, <1>6 DEF backedUp
  <2> HIDE DEF b, now
  <2> QED
    BY <1>1, <1>3, <1>5, <2>1, <2>2, <2>3, <2>4, EntryDone DEF Holds
<1>9. CASE WriteFails
  <2>1. /\ failed' = TRUE /\ bm' = bm
        /\ fs' = [fs EXCEPT ![p].bak = Absent] \/ fs' = fs
    BY <1>9 DEF WriteFails, EntryFailed
  <2>2. bm' = [bm EXCEPT ![p] = "none"]
    BY <1>2, <1>4, <2>1 DEF StateTypeOK
  <2>3. \E now \in FileStates : Sets(p, now) /\ now.live = fs[p].live
    <3> DEFINE dropped == [fs[p] EXCEPT !.bak = Absent]
    <3> HIDE DEF p
    <3>1. /\ fs' = [fs EXCEPT ![p].bak = Absent] => Sets(p, dropped)
          /\ fs' = fs => Sets(p, fs[p])
          /\ dropped \in FileStates /\ dropped.live = fs[p].live
          /\ fs[p] \in FileStates
      BY <1>2, <1>4, <1>7, OneSet DEF Holds
    <3> HIDE DEF dropped
    <3> QED
      BY <2>1, <3>1
  <2>4. PICK now \in FileStates : Sets(p, now) /\ now.live = fs[p].live
    BY <2>3
  <2> QED
    BY <1>1, <1>3, <1>4, <1>5, <2>1, <2>2, <2>4, EntryDone
<1> QED
  BY <1>8, <1>9

-----------------------------------------------------------------------------
(* Validation.                                                             *)

\* After the last entry every file is patched, or the run reverts.
LEMMA AppliedKeeps ==
  ASSUME IInv, Applied
  PROVE  IInv'
<1>1. /\ pc = "apply" /\ next = Finish /\ pc' \in {"revert", "validate"}
      /\ pc' = "validate" => ~failed
      /\ failed' = FALSE
      /\ UNCHANGED <<fs, call, exdev, runs, pre, next, bm, restoring, validated, committed,
                     remote, outcome>>
  BY DEF Applied, backupVars
<1>2. StateTypeOK /\ CallShape /\ DirKept /\ MapTrue /\ Landed /\ OneRestored /\ Vouched
  BY DEF IInv
<1>3. StateTypeOK'
  BY <1>1, <1>2 DEF StateTypeOK, BackupTypeOK
<1>4. CallShape' /\ DirKept' /\ OneRestored' /\ Vouched' /\ LeftBehind'
  BY <1>1, <1>2 DEF CallShape, InCall, DirKept, OneRestored, Vouched, LeftBehind
<1>5. MapTrue'
  BY <1>1, <1>2 DEF MapTrue
<1>6. Landed'
  <2>1. ASSUME ~failed, NEW i \in Entries
        PROVE  fs[Fixes[i].path].live = Target(i)
    <3>1. i < next
      BY <1>1, EntriesOf
    <3> QED
      BY <1>1, <1>2, <2>1, <3>1 DEF Landed
  <2> QED
    BY <1>1, <2>1 DEF Landed, Target
<1> QED
  BY <1>3, <1>4, <1>5, <1>6 DEF IInv

\* Validation vouches for the files as they are, or the run reverts.
LEMMA ValidationKeeps ==
  ASSUME IInv, ValidationPasses \/ ValidationFails
  PROVE  IInv'
<1>1. /\ pc = "validate" /\ pc' \in {"cleanup", "revert"}
      /\ pc' = "cleanup" => validated' = {LiveFiles}
      /\ pc' = "revert" => validated' = validated
      /\ UNCHANGED <<fs, call, exdev, runs, pre, next, bm, failed, restoring, committed,
                     remote, outcome>>
  BY DEF ValidationPasses, ValidationFails, backupVars, runVars
<1>2. StateTypeOK /\ CallShape /\ DirKept /\ MapTrue /\ Landed /\ OneRestored /\ Vouched
  BY DEF IInv
<1>3. StateTypeOK'
  <2>1. LiveFiles \in [Files -> Contents]
    BY <1>2 DEF LiveFiles, StateTypeOK, BackupTypeOK, Files
  <2>2. BackupTypeOK'
    BY <1>1, <1>2 DEF StateTypeOK, BackupTypeOK
  <2>3. validated' \subseteq [Files -> Contents]
    BY <1>1, <1>2, <2>1 DEF StateTypeOK
  <2> QED
    BY <1>1, <1>2, <2>2, <2>3 DEF StateTypeOK
<1>4. LiveFiles' = LiveFiles
  BY <1>1 DEF LiveFiles
<1>5. CallShape' /\ DirKept' /\ OneRestored' /\ LeftBehind' /\ Vouched'
  BY <1>1, <1>2, <1>4 DEF CallShape, InCall, DirKept, OneRestored, Vouched, LeftBehind
<1>6. MapTrue' /\ Landed'
  BY <1>1, <1>2 DEF MapTrue, Landed, Target
<1> QED
  BY <1>3, <1>5, <1>6 DEF IInv

-----------------------------------------------------------------------------
(* RevertPatch.                                                            *)

\* A step of RevertPatch for one file: it is back, or its backup stays.
LEMMA RevertStep ==
  ASSUME IInv, pc = "revert", pc' = "revert",
         NEW f \in Files, NEW now \in FileStates, Sets(f, now),
         NEW b \in {"bak", "none"}, bm' = [bm EXCEPT ![f] = b],
         failed' \in BOOLEAN, failed => failed',
         restoring' = NoFile \/ (restoring' = f /\ b = "bak"),
         b = "bak" => now.bak = pre[f],
         b = "none" => now.live = pre[f] \/ (failed' /\ pre[f] \in {now.bak, Absent}),
         UNCHANGED <<call, exdev, runs, pre, next, validated, committed, remote, outcome>>
  PROVE  IInv'
<1>1. StateTypeOK /\ CallShape /\ DirKept /\ MapTrue /\ Vouched
  BY DEF IInv
<1>2. /\ f \in Paths /\ f # Dir /\ Dir \in Paths
      /\ NoFile \notin Files /\ Files \subseteq Paths
  BY AutoFixAssumption DEF Files
<1>3. /\ fs' \in [Paths -> FileStates] /\ fs'[f] = now
      /\ \A q \in Paths \ {f} : fs'[q] = fs[q]
  BY DEF Sets
<1>4. /\ bm' \in [Files -> {"bak", "", "none"}] /\ bm'[f] = b
      /\ \A g \in Files \ {f} : bm'[g] = bm[g]
  BY <1>1 DEF StateTypeOK
<1>5. restoring' \in Files \cup {NoFile} /\ (restoring' # NoFile => bm'[restoring'] = "bak")
  BY <1>4
<1>6. StateTypeOK'
  BY <1>1, <1>3, <1>4, <1>5 DEF StateTypeOK, BackupTypeOK, FileStates
<1>7. CallShape' /\ Vouched' /\ LeftBehind'
  BY <1>1 DEF CallShape, InCall, Vouched, LeftBehind
<1>8. DirKept'
  BY <1>1, <1>2, <1>3 DEF DirKept
<1>9. MapTrue'
  <2>1. ASSUME NEW g \in Files \ {f}
        PROVE  fs'[g] = fs[g] /\ bm'[g] = bm[g]
    BY <1>2, <1>3, <1>4
  <2>2. ASSUME NEW g \in Files \ {f}
        PROVE  /\ bm'[g] = "bak" => fs'[g].bak = pre[g]
               /\ bm'[g] = "" => pre[g] = Absent
               /\ bm'[g] = "none" =>
                    fs'[g].live = pre[g] \/ (failed' /\ pre[g] \in {fs'[g].bak, Absent})
    BY <1>1, <2>1 DEF MapTrue
  <2> QED
    BY <1>3, <1>4, <2>2 DEF MapTrue
<1>10. Landed' /\ OneRestored'
  BY <1>5 DEF Landed, OneRestored
<1> QED
  BY <1>6, <1>7, <1>8, <1>9, <1>10 DEF IInv

\* RevertPatch removes a file that was not there, or collects the error.
LEMMA RevertCreatedKeeps ==
  ASSUME IInv, NEW f \in Files, RevertCreated(f)
  PROVE  IInv'
<1>1. /\ pc = "revert" /\ restoring = NoFile /\ bm[f] = "" /\ pc' = pc
      /\ bm' = [bm EXCEPT ![f] = "none"]
      /\ UNCHANGED <<call, exdev, runs, pre, next, restoring, validated, committed, remote,
                     outcome>>
  BY DEF RevertCreated
<1>2. \/ fs' = [fs EXCEPT ![f].live = Absent] /\ failed' = failed
      \/ fs' = fs /\ failed' = TRUE
  BY DEF RevertCreated
<1>3. StateTypeOK /\ BackupTypeOK /\ MapTrue /\ f \in Paths
  BY DEF IInv, StateTypeOK, Files
<1>4. pre[f] = Absent /\ Absent \in Contents
  BY <1>1, <1>3, RunsContent DEF MapTrue
<1>5. failed \in BOOLEAN
  BY <1>3 DEF StateTypeOK
<1> DEFINE gone == [fs[f] EXCEPT !.live = Absent]
<1>6. /\ fs' = [fs EXCEPT ![f].live = Absent] => Sets(f, gone)
      /\ fs' = fs => Sets(f, fs[f])
      /\ gone \in FileStates /\ gone.live = Absent /\ fs[f] \in FileStates
  BY <1>3, <1>4, OneSet DEF Holds
<1> HIDE DEF gone
<1>7. CASE fs' = [fs EXCEPT ![f].live = Absent] /\ failed' = failed
  BY <1>1, <1>4, <1>5, <1>6, <1>7, RevertStep
<1>8. CASE fs' = fs /\ failed' = TRUE
  <2>1. PICK now \in FileStates : now = fs[f]
    BY <1>6
  <2> QED
    BY <1>1, <1>4, <1>6, <1>8, <2>1, RevertStep
<1> QED
  BY <1>2, <1>7, <1>8

\* RevertPatch copies a backup over its file: the copy starts, ends or fails.
LEMMA RevertCopyKeeps ==
  ASSUME IInv, NEW f \in Files, RevertOpens(f) \/ RevertCopies(f) \/ RevertFails(f)
  PROVE  IInv'
<1>1. /\ pc = "revert" /\ pc' = pc
      /\ UNCHANGED <<call, exdev, runs, pre, next, validated, committed, remote, outcome>>
  BY DEF RevertOpens, RevertCopies, RevertFails, backupVars
<1>2. StateTypeOK /\ BackupTypeOK /\ MapTrue /\ OneRestored /\ f \in Paths /\ f # NoFile
  BY AutoFixAssumption DEF IInv, StateTypeOK, Files
<1>3. bm[f] = "bak"
  BY <1>1, <1>2 DEF OneRestored, RevertOpens, RevertCopies, RevertFails
<1>4. fs[f].bak = pre[f]
  BY <1>1, <1>2, <1>3 DEF MapTrue
<1>5. Absent \in Contents /\ Torn \in Contents /\ fs[f].bak \in Contents
  BY <1>2, RunsContent DEF BackupTypeOK
<1>6. failed \in BOOLEAN /\ bm = [bm EXCEPT ![f] = "bak"]
  BY <1>2, <1>3 DEF StateTypeOK
<1>7. CASE RevertOpens(f)
  <2> DEFINE torn == [fs[f] EXCEPT !.live = Torn]
  <2>1. fs' = [fs EXCEPT ![f].live = Torn] /\ restoring' = f /\ bm' = bm /\ failed' = failed
    BY <1>7 DEF RevertOpens
  <2>2. Sets(f, torn) /\ torn \in FileStates /\ torn.bak = fs[f].bak
    BY <1>2, <1>5, <2>1, OneSet DEF Holds
  <2> HIDE DEF torn
  <2>3. bm' = [bm EXCEPT ![f] = "bak"]
    BY <1>6, <2>1
  <2> QED
    BY <1>1, <1>4, <1>6, <2>1, <2>2, <2>3, RevertStep
<1>8. CASE RevertCopies(f)
  <2>1. PICK left \in {Absent, fs[f].bak} :
          fs' = [fs EXCEPT ![f].live = fs[f].bak, ![f].bak = left]
    BY <1>8 DEF RevertCopies
  <2>2. bm' = [bm EXCEPT ![f] = "none"] /\ restoring' = NoFile /\ failed' = failed
    BY <1>8 DEF RevertCopies, RevertDrops
  <2>3. PICK c \in Contents : c = fs[f].bak
    BY <1>5
  <2>4. left \in Contents
    BY <1>5, <2>1
  <2> DEFINE back == [fs[f] EXCEPT !.live = c, !.bak = left]
  <2>5. fs' = [fs EXCEPT ![f].live = c, ![f].bak = left]
    BY <2>1, <2>3
  <2>6. Sets(f, back) /\ Holds(back, c, left, fs[f].old, fs[f].tmp)
    BY <1>2, <2>4, <2>5, OneSet
  <2> HIDE DEF back
  <2> QED
    BY <1>1, <1>4, <1>6, <2>2, <2>3, <2>6, RevertStep DEF Holds
<1>9. CASE RevertFails(f)
  <2>1. /\ bm' = [bm EXCEPT ![f] = "none"] /\ restoring' = NoFile /\ failed' = TRUE
        /\ fs' = fs
    BY <1>9 DEF RevertFails, RevertDrops, backupVars
  <2>2. PICK now \in FileStates : now = fs[f] /\ Sets(f, now)
    BY <1>2, <2>1 DEF BackupTypeOK, FileStates, Sets
  <2> QED
    BY <1>1, <1>4, <2>1, <2>2, RevertStep
<1> QED
  BY <1>7, <1>8, <1>9

-----------------------------------------------------------------------------
(* Publication.                                                            *)

\* The backups of validated files go; the files stay as they are.
LEMMA CleanupKeeps ==
  ASSUME IInv, NEW f \in Files, CleanupBackups(f)
  PROVE  IInv'
<1>1. /\ pc = "cleanup" /\ pc' = pc /\ bm' = [bm EXCEPT ![f] = "none"]
      /\ fs' = [fs EXCEPT ![f].bak = Absent] \/ fs' = fs
      /\ UNCHANGED <<call, exdev, runs, pre, next, failed, restoring, validated, committed,
                     remote, outcome>>
  BY DEF CleanupBackups
<1>2. StateTypeOK /\ BackupTypeOK /\ CallShape /\ DirKept /\ Landed /\ OneRestored /\ Vouched
      /\ f \in Paths /\ f # Dir /\ Dir \in Paths /\ Files \subseteq Paths
  BY AutoFixAssumption DEF IInv, StateTypeOK, Files
<1>3. PICK now \in FileStates : Sets(f, now) /\ now.live = fs[f].live
  <2> DEFINE dropped == [fs[f] EXCEPT !.bak = Absent]
  <2>1. /\ fs' = [fs EXCEPT ![f].bak = Absent] => Sets(f, dropped)
        /\ fs' = fs => Sets(f, fs[f])
        /\ dropped \in FileStates /\ dropped.live = fs[f].live /\ fs[f] \in FileStates
    BY <1>2, RunsContent, OneSet DEF Holds
  <2> HIDE DEF dropped
  <2> QED
    BY <1>1, <2>1
<1>4. fs' \in [Paths -> FileStates] /\ fs'[Dir] = fs[Dir]
      /\ \A g \in Files : fs'[g].live = fs[g].live
  BY <1>2, <1>3 DEF Sets
<1>5. StateTypeOK'
  BY <1>1, <1>2, <1>4 DEF StateTypeOK, BackupTypeOK, FileStates
<1>6. LiveFiles' = LiveFiles
  BY <1>4 DEF LiveFiles
<1>7. CallShape' /\ OneRestored' /\ Vouched' /\ LeftBehind' /\ MapTrue'
  BY <1>1, <1>2, <1>6 DEF CallShape, InCall, OneRestored, Vouched, LeftBehind, MapTrue
<1>8. DirKept'
  BY <1>1, <1>2, <1>4 DEF DirKept
<1>9. Landed'
  BY <1>1, <1>2, <1>4, EntriesOf DEF Landed, Target
<1> QED
  BY <1>5, <1>7, <1>8, <1>9 DEF IInv

\* The commit is made of the validated files.
LEMMA CreateBranchKeeps ==
  ASSUME IInv, CreateBranch
  PROVE  IInv'
<1>1. /\ pc = "cleanup"
      /\ UNCHANGED <<fs, call, exdev, runs, pre, next, bm, failed, restoring, validated>>
  BY DEF CreateBranch, backupVars
<1>2. \/ committed' = LiveFiles /\ remote' = "branch" /\ pc' = "publish" /\ outcome' = outcome
      \/ /\ pc' = "idle" /\ outcome' = "publish failed"
         /\ committed' = committed /\ remote' = remote
  BY DEF CreateBranch, End
<1>3. StateTypeOK /\ CallShape /\ DirKept /\ Landed /\ OneRestored /\ Vouched
  BY DEF IInv
<1>4. CASE committed' = LiveFiles /\ remote' = "branch" /\ pc' = "publish" /\ outcome' = outcome
  <2>1. StateTypeOK'
    <3>1. LiveFiles \in [Files -> Contents]
      BY <1>3 DEF LiveFiles, StateTypeOK, BackupTypeOK, Files
    <3> QED
      BY <1>1, <1>3, <1>4, <3>1 DEF StateTypeOK, BackupTypeOK
  <2>2. \A i \in Entries : LiveFiles[Fixes[i].path] = Target(i)
    BY <1>1, <1>3, EntriesOf DEF Landed, LiveFiles
  <2>3. Vouched'
    <3>1. \A i \in Entries : committed'[Fixes[i].path] = Target(i)' /\ validated' = {committed'}
      BY <1>1, <1>3, <1>4, <2>2 DEF Vouched, Target
    <3>2. validated' = {committed'}
      BY <1>1, <1>3, <1>4 DEF Vouched
    <3> QED
      BY <1>1, <1>3, <1>4, <3>1, <3>2 DEF Vouched
  <2>4. CallShape' /\ DirKept' /\ OneRestored' /\ LeftBehind' /\ MapTrue' /\ Landed'
    BY <1>1, <1>3, <1>4
    DEF CallShape, InCall, DirKept, OneRestored, LeftBehind, MapTrue, Landed
  <2> QED
    BY <2>1, <2>3, <2>4 DEF IInv
<1>5. CASE /\ pc' = "idle" /\ outcome' = "publish failed"
           /\ committed' = committed /\ remote' = remote
  BY <1>1, <1>5, EndsKeeps
<1> QED
  BY <1>2, <1>4, <1>5

\* What is on GitHub grows with the same commit, or the run ends.
LEMMA PublishKeeps ==
  ASSUME IInv, Publish
  PROVE  IInv'
<1>1. /\ pc = "publish"
      /\ UNCHANGED <<fs, call, exdev, runs, pre, next, bm, failed, restoring, validated,
                     committed>>
  BY DEF Publish, backupVars
<1>2. \/ remote' = "commit" /\ pc' = pc /\ outcome' = outcome
      \/ remote' = "pr" /\ pc' = "idle" /\ outcome' = "published"
      \/ remote' = remote /\ pc' = "idle" /\ outcome' = "publish failed"
  BY DEF Publish, End
<1>3. CASE remote' = "commit" /\ pc' = pc /\ outcome' = outcome
  <2>1. StateTypeOK /\ CallShape /\ DirKept /\ OneRestored /\ Vouched
    BY DEF IInv
  <2>2. StateTypeOK'
    BY <1>1, <1>3, <2>1 DEF StateTypeOK, BackupTypeOK
  <2>3. Vouched'
    BY <1>1, <1>3, <2>1 DEF Vouched, Target
  <2>4. CallShape' /\ DirKept' /\ OneRestored' /\ LeftBehind' /\ MapTrue' /\ Landed'
    BY <1>1, <1>3, <2>1
    DEF CallShape, InCall, DirKept, OneRestored, LeftBehind, MapTrue, Landed
  <2> QED
    BY <2>2, <2>3, <2>4 DEF IInv
<1>4. CASE remote' = "pr" /\ pc' = "idle" /\ outcome' = "published"
  BY <1>1, <1>4, EndsKeeps
<1>5. CASE remote' = remote /\ pc' = "idle" /\ outcome' = "publish failed"
  BY <1>1, <1>5, EndsKeeps
<1> QED
  BY <1>2, <1>3, <1>4, <1>5

-----------------------------------------------------------------------------
(* The end of a run.                                                       *)

\* A run ends early, by its revert, or is killed.
LEMMA OverKeeps ==
  ASSUME IInv, ForceFailed \/ Reverted \/ Kill
  PROVE  IInv'
<1>1. CASE ForceFailed
  BY <1>1, EndsKeeps DEF ForceFailed, End, Goto
<1>2. CASE Kill
  BY <1>2, EndsKeeps DEF Kill, End, backupVars
<1>3. CASE Reverted
  <2>1. /\ pc = "revert" /\ pc' = "idle"
        /\ UNCHANGED <<fs, call, exdev, runs, pre, next, bm, failed, restoring, validated,
                       committed, remote>>
        /\ outcome' \in {"revert failed", "reverted"} /\ (outcome' = "reverted" => ~failed)
    BY <1>3 DEF Reverted, End, backupVars
  <2>2. \A f \in Files : bm[f] = "none"
    BY <1>3 DEF Reverted
  <2>3. ~failed => \A f \in Files : fs[f].live = pre[f]
    BY <2>1, <2>2 DEF IInv, MapTrue
  <2> QED
    BY <2>1, <2>3, EndsKeeps
<1> QED
  BY <1>1, <1>2, <1>3

\* Every step keeps the invariant.
LEMMA NextKeeps ==
  ASSUME IInv, [Next]_vars
  PROVE  IInv'
<1>1. CASE StartRun
  BY <1>1, StartRunKeeps
<1>2. CASE ForceFailed \/ Reverted \/ Kill
  BY <1>2, OverKeeps
<1>3. CASE Review
  BY <1>3, ReviewKeeps
<1>4. CASE pc # "idle" /\ BackupStep /\ UNCHANGED <<pc, runVars>>
  BY <1>4, InBackupKeeps
<1>5. CASE Unapplicable \/ BackupFailed
  BY <1>5, EntryFailsKeeps
<1>6. CASE BackUp
  BY <1>6, BackUpKeeps
<1>7. CASE WriteEntry \/ WriteFails
  BY <1>7, WriteEntryKeeps
<1>8. CASE Applied
  BY <1>8, AppliedKeeps
<1>9. CASE ValidationPasses \/ ValidationFails
  BY <1>9, ValidationKeeps
<1>10. CASE \E f \in Files : RevertCreated(f)
  BY <1>10, RevertCreatedKeeps
<1>11. CASE \E f \in Files : RevertOpens(f) \/ RevertCopies(f) \/ RevertFails(f)
  BY <1>11, RevertCopyKeeps
<1>12. CASE \E f \in Files : CleanupBackups(f)
  BY <1>12, CleanupKeeps
<1>13. CASE CreateBranch
  BY <1>13, CreateBranchKeeps
<1>14. CASE Publish
  BY <1>14, PublishKeeps
<1>15. CASE Over \/ UNCHANGED vars
  <2>1. UNCHANGED <<fs, call, exdev, pc, runs, pre, next, bm, failed, restoring, validated,
                    committed, remote, outcome>>
    BY <1>15 DEF Over, vars, backupVars, runVars
  <2>2. CallShape' = CallShape /\ DirKept' = DirKept /\ MapTrue' = MapTrue
        /\ Landed' = Landed /\ OneRestored' = OneRestored /\ Vouched' = Vouched
    BY <2>1
    DEF CallShape, InCall, Generations, src, moving, Entry, DirKept, MapTrue, Landed,
        Target, OneRestored, Vouched, LiveFiles
  <2>3. StateTypeOK' = StateTypeOK /\ LeftBehind' = LeftBehind
    BY <2>1 DEF StateTypeOK, BackupTypeOK, LeftBehind, PreRunKept,
                AnswerTrue
  <2> QED
    BY <2>2, <2>3 DEF IInv
<1> QED
  BY <1>1, <1>2, <1>3, <1>4, <1>5, <1>6, <1>7, <1>8, <1>9, <1>10, <1>11, <1>12, <1>13,
     <1>14, <1>15 DEF Next

\* A checkout without leftovers meets the invariant.
LEMMA InitMeets ==
  ASSUME Init
  PROVE  IInv
<1>1. /\ exdev \in BOOLEAN /\ call = [path |-> Dir, at |-> "none", prior |-> Absent]
      /\ pc = "idle" /\ runs = 0 /\ next = Finish
      /\ pre = [f \in Paths |-> fs[f].live] /\ bm = [f \in Files |-> "none"]
      /\ failed = FALSE /\ restoring = NoFile /\ validated = {} /\ committed = NoFiles
      /\ remote = "none" /\ outcome = "none"
  BY DEF Init
<1>2. Dir \in Paths /\ MaxRuns \in Nat /\ Files \subseteq Paths
  BY AutoFixAssumption DEF Files
<1>3. 0 \in Contents /\ Absent \in Contents
  BY BackupAssumption DEF Contents, Absent
<1>4. fs \in [Paths -> FileStates]
  <2> DEFINE fresh(l) == [live |-> l, bak |-> Absent, old |-> Absent, tmp |-> Absent]
  <2>1. \A l \in {0, Absent} : fresh(l) \in FileStates
    BY <1>3 DEF FileStates
  <2>2. fs \in [Paths -> {fresh(l) : l \in {0, Absent}}]
    BY DEF Init
  <2> HIDE DEF fresh
  <2>3. {fresh(l) : l \in {0, Absent}} \subseteq FileStates
    BY <2>1
  <2> QED
    BY <2>2, <2>3
<1>5. StateTypeOK
  <2>1. BackupTypeOK
    BY <1>1, <1>2, <1>3, <1>4 DEF BackupTypeOK, Calls, Steps, FileStates
  <2>2. pre \in [Paths -> Contents] /\ committed \in [Files -> Contents]
    BY <1>1, <1>3, <1>4 DEF NoFiles, FileStates
  <2>3. runs \in 0..MaxRuns
    BY <1>1, <1>2
  <2> QED
    BY <1>1, <2>1, <2>2, <2>3 DEF StateTypeOK
<1>6. LeftBehind
  <2>1. PreRunKept
    BY <1>1 DEF PreRunKept
  <2>3. AnswerTrue
    BY <1>1 DEF AnswerTrue
  <2> QED
    BY <2>1, <2>3 DEF LeftBehind
<1>7. CallShape /\ DirKept /\ MapTrue /\ Landed /\ OneRestored /\ Vouched
  BY <1>1 DEF CallShape, InCall, DirKept, MapTrue, Landed, OneRestored, Vouched
<1> QED
  BY <1>5, <1>6, <1>7 DEF IInv

-----------------------------------------------------------------------------
(* The last whole backup of a path.                                        *)

\* A path's files hold the backup made of it, in .bak or else in .bak.old.
HeldIn(files, made) ==
  made = Absent \/ files.bak = made \/ (files.bak = Absent /\ files.old = made)

\* The backup under way started from whole content, keeps the made one as its
\* prior, and has replaced it once it is swapped in.
MadeSoFar(at, made, was) ==
  /\ was # Torn
  /\ at \in {"clear", "copy", "aside", "swap"} => made \in {Absent, call.prior}
  /\ at \in {"vacate", "clean"} => made = was

\* The inductive invariant of the backups made, on top of IInv.
HeldInv ==
  /\ last \in [Paths -> Contents] /\ leftovers \subseteq Paths
  /\ \A p \in Paths \ leftovers : HeldIn(fs[p], last[p])
  /\ InCall /\ src \notin leftovers => MadeSoFar(call.at, last[src], pre[src])

\* A step outside a backup, or that ends one, may drop a backup and otherwise
\* leaves .bak and .bak.old alone.
LEMMA OutsideHolds ==
  ASSUME HeldInv, ~InCall', leftovers' = leftovers, last' \in [Paths -> Contents],
         \A p \in Paths :
           \/ last'[p] = Absent
           \/ last'[p] = last[p] /\ fs'[p].bak = fs[p].bak /\ fs'[p].old = fs[p].old
  PROVE  HeldInv'
BY DEF HeldInv, HeldIn

\* A backup begins: what it finds in .bak is the one made last, unless the path
\* was left half way.
LEMMA BeginHolds ==
  ASSUME BackupTypeOK, HeldInv, NEW path \in Paths, Begin(path), fs' = fs,
         pre'[path] = fs[path].live
  PROVE  HeldInv'
<1>1. /\ src' = path /\ call'.at = "clear" /\ call'.prior = fs[path].bak /\ last' = last
      /\ leftovers' = IF Interrupted(path) THEN leftovers \cup {path} ELSE leftovers
  BY DEF Begin, src
<1>2. leftovers' \subseteq Paths /\ leftovers \subseteq leftovers'
  BY <1>1 DEF HeldInv
<1>3. \A p \in Paths \ leftovers' : HeldIn(fs[p], last[p])
  BY <1>2 DEF HeldInv
<1>4. ASSUME path \notin leftovers'
      PROVE  MadeSoFar(call.at, last[src], pre[src])'
  <2>1. ~Interrupted(path) /\ HeldIn(fs[path], last[path])
    BY <1>1, <1>3, <1>4
  <2> QED
    BY <1>1, <2>1 DEF MadeSoFar, Interrupted, HeldIn
<1> QED
  BY <1>1, <1>2, <1>3, <1>4 DEF HeldInv, HeldIn

\* A step of a backup that makes none keeps the one made, when the path's files
\* still hold it.
LEMMA StepHolds ==
  ASSUME IInv, HeldInv, InCall, pre' = pre, last' = last, leftovers' = leftovers,
         NEW now \in FileStates, NEW at \in Steps, StepTo(now, at),
         src \notin leftovers => HeldIn(now, last[src]) /\ MadeSoFar(at, last[src], pre[src])
  PROVE  HeldInv'
<1>1. BackupTypeOK /\ src \in Paths
  BY ContentsOf DEF IInv, StateTypeOK
<1>2. /\ fs'[src] = now /\ (\A p \in Paths \ {src} : fs'[p] = fs[p])
      /\ src' = src /\ call'.prior = call.prior /\ call'.at = at
  BY <1>1 DEF StepTo, BackupTypeOK, Calls, src
<1>3. \A p \in Paths \ leftovers : HeldIn(fs'[p], last[p])
  BY <1>2 DEF HeldInv
<1>4. src \notin leftovers => MadeSoFar(call.at, last[src], pre[src])'
  BY <1>2 DEF MadeSoFar
<1> QED
  BY <1>2, <1>3, <1>4 DEF HeldInv, HeldIn

\* What the steps of a backup start from.
LEMMA InBackup ==
  ASSUME IInv, HeldInv, pc # "idle", BackupStep
  PROVE  /\ InCall /\ BackupTypeOK /\ Generations(fs[src], call.at, pre[src])
         /\ src \notin leftovers =>
              HeldIn(fs[src], last[src]) /\ MadeSoFar(call.at, last[src], pre[src])
<1>1. call.at # "none" /\ CallShape /\ BackupTypeOK
  BY DEF BackupStep, ClearStale, CopyLive, RenameAside, SwapIn, SwapFails, TearLive,
         Vacate, RemoveOld, IInv, StateTypeOK
<1>2. InCall /\ src \in Paths
  BY <1>1, ContentsOf DEF CallShape
<1> QED
  BY <1>1, <1>2 DEF CallShape, HeldInv

\* The entry checks and the copy leave .bak, or put the prior back into it.
LEMMA EarlyHolds ==
  ASSUME IInv, HeldInv, pc # "idle", BackupStep, pre' = pre, ClearStale \/ CopyLive
  PROVE  HeldInv'
<1> DEFINE me == fs[src]
<1>1. /\ InCall /\ Generations(me, call.at, pre[src])
      /\ src \notin leftovers => HeldIn(me, last[src]) /\ MadeSoFar(call.at, last[src], pre[src])
  BY InBackup
<1>2. /\ Absent \in Contents /\ Torn \in Contents /\ me \in FileStates
      /\ me.live \in Contents /\ me.old \in Contents /\ last' = last
      /\ leftovers' = leftovers /\ exdev' = exdev
  BY InBackup, ContentsOf DEF ClearStale, CopyLive, madeVars
<1> DEFINE Early(now, at) == /\ StepTo(now, at) /\ now \in FileStates /\ at \in Steps
                             /\ at \notin {"vacate", "clean"}
                             /\ now.bak = me.bak \/ now.bak = call.prior
                             /\ now.bak = me.bak /\ me.bak # call.prior => now.old = me.old
<1>3. ASSUME ClearStale PROVE \E now, at : Early(now, at)
  <2>1. me.bak = call.prior /\ call.at = "clear"
    BY <1>1, <1>3 DEF ClearStale, Generations
  <2>2. ASSUME fs' = fs, Goto("ok") PROVE Early(me, "ok")
    BY <1>2, <2>2, InBackup, ContentsOf DEF StepTo, Goto, Steps
  <2>3. ASSUME NEW c \in Contents, NEW at \in {"aside", "copy", "failed"}, Goto(at),
               \/ Put([me EXCEPT !.old = c, !.tmp = Absent])
               \/ Put([me EXCEPT !.old = c])
        PROVE  \E now : Early(now, at)
    <3>1. /\ Holds([me EXCEPT !.old = c, !.tmp = Absent], me.live, me.bak, c, Absent)
          /\ Holds([me EXCEPT !.old = c], me.live, me.bak, c, me.tmp)
      BY <1>2, Edits
    <3>2. \E now : Put(now) /\ now \in FileStates /\ now.bak = me.bak
      BY <2>3, <3>1 DEF Holds
    <3> QED
      BY <1>2, <2>1, <2>3, <3>2 DEF StepTo, Put, Goto, Steps
  <2> HIDE DEF Early
  <2>4. CASE fs[src].live = Absent /\ Goto("ok") /\ UNCHANGED fs
    BY <2>2, <2>4
  <2>5. CASE /\ Put([me EXCEPT !.old = Absent, !.tmp = Absent])
             /\ Goto(IF moving THEN "aside" ELSE "copy")
    BY <1>2, <2>3, <2>5
  <2>6. CASE /\ \E left \in {me.old, Torn} : Put([me EXCEPT !.old = left])
             /\ Goto("failed")
    BY <1>2, <2>3, <2>6
  <2>7. CASE Put([me EXCEPT !.old = Absent]) /\ Goto("failed")
    BY <1>2, <2>3, <2>7
  <2> QED
    BY <1>3, <2>4, <2>5, <2>6, <2>7 DEF ClearStale
<1>4. ASSUME CopyLive PROVE \E now, at : Early(now, at)
  <2>1. call.at = "copy" /\ (~moving => me.bak = call.prior)
        /\ (moving /\ call.prior # Absent => me.old = call.prior)
    BY <1>1, <1>4 DEF CopyLive, Generations
  <2>2. CASE Put([me EXCEPT !.tmp = me.live]) /\ Goto(IF moving THEN "swap" ELSE "aside")
    <3>1. PICK at \in Steps : Goto(at) /\ at \notin {"vacate", "clean"}
      BY <2>2 DEF Steps
    <3>2. Holds([me EXCEPT !.tmp = me.live], me.live, me.bak, me.old, me.live)
      BY <1>2, Edits
    <3> QED
      BY <1>2, <2>2, <3>1, <3>2 DEF StepTo, Put, Goto, Holds
  <2>3. CASE /\ \E files \in IF moving THEN Restored(me) ELSE {me} : Put(files)
             /\ Goto("failed")
    <3>1. PICK files \in IF moving THEN Restored(me) ELSE {me} : Put(files)
      BY <2>3
    <3>2. CASE files = me
      <4>1. Early(me, "failed")
        BY <1>2, <2>3, <3>1, <3>2 DEF StepTo, Put, Goto, Steps
      <4> HIDE DEF Early
      <4> QED
        BY <4>1
    <3>3. CASE files # me
      <4>1. files = [me EXCEPT !.bak = me.old, !.old = Absent] /\ me.old = call.prior
        BY <2>1, <3>1, <3>3 DEF Restored
      <4>2. Holds(files, me.live, me.old, Absent, me.tmp)
        BY <1>2, <4>1, Edits
      <4>3. Early(files, "failed")
        BY <1>2, <2>3, <3>1, <4>1, <4>2 DEF StepTo, Put, Goto, Steps, Holds
      <4> HIDE DEF Early
      <4> QED
        BY <4>3
    <3> QED
      BY <3>2, <3>3
  <2> QED
    BY <1>4, <2>2, <2>3 DEF CopyLive
<1>5. PICK now, at : Early(now, at)
  BY <1>3, <1>4
<1>6. call.at \in {"clear", "copy"}
  BY DEF ClearStale, CopyLive
<1>7. src \notin leftovers => HeldIn(now, last[src]) /\ MadeSoFar(at, last[src], pre[src])
  BY <1>1, <1>5, <1>6 DEF HeldIn, MadeSoFar
<1> QED
  BY <1>1, <1>2, <1>5, <1>7, StepHolds

\* The prior generation is renamed aside, and back when the swap fails.
LEMMA AsideHolds ==
  ASSUME IInv, HeldInv, pc # "idle", BackupStep, pre' = pre, RenameAside \/ SwapFails
  PROVE  HeldInv'
<1> DEFINE me == fs[src]
           Aside(now, at) == /\ StepTo(now, at) /\ now \in FileStates /\ at \in Steps
                             /\ at \notin {"vacate", "clean"}
                             /\ \/ now.bak = me.bak /\ now.old = me.old
                                \/ now.bak = call.prior
                                \/ now.bak = Absent /\ now.old = call.prior
<1>1. /\ InCall /\ Generations(me, call.at, pre[src])
      /\ src \notin leftovers => HeldIn(me, last[src]) /\ MadeSoFar(call.at, last[src], pre[src])
  BY InBackup
<1>2. /\ Absent \in Contents /\ me \in FileStates /\ call.prior \in Contents
      /\ me.bak \in Contents /\ me.old \in Contents
      /\ last' = last /\ leftovers' = leftovers /\ exdev' = exdev
  BY InBackup, ContentsOf DEF RenameAside, SwapFails, madeVars
<1>3. ASSUME RenameAside PROVE \E now, at : Aside(now, at)
  <2>1. /\ Holds([me EXCEPT !.old = call.prior, !.bak = Absent],
                 me.live, Absent, call.prior, me.tmp)
        /\ Holds([me EXCEPT !.tmp = Absent], me.live, me.bak, me.old, Absent)
    BY <1>2, Edits
  <2>2. CASE /\ Put(IF call.prior = Absent THEN me
                    ELSE [me EXCEPT !.old = call.prior, !.bak = Absent])
             /\ Goto(IF moving /\ exdev THEN "copy" ELSE "swap")
    <3>1. PICK at \in Steps : Goto(at) /\ at \notin {"vacate", "clean"}
      BY <2>2 DEF Steps
    <3>2. PICK now \in FileStates :
            Put(now) /\ (now = me \/ (now.bak = Absent /\ now.old = call.prior))
      BY <1>2, <2>1, <2>2 DEF Holds
    <3>3. Aside(now, at)
      BY <1>2, <3>1, <3>2 DEF StepTo, Put, Goto
    <3> HIDE DEF Aside
    <3> QED
      BY <3>3
  <2>3. CASE Put([me EXCEPT !.tmp = Absent]) /\ Goto("failed")
    <3>1. Aside([me EXCEPT !.tmp = Absent], "failed")
      BY <1>2, <2>1, <2>3 DEF StepTo, Put, Goto, Steps, Holds
    <3> HIDE DEF Aside
    <3> QED
      BY <3>1
  <2> QED
    BY <1>3, <2>2, <2>3 DEF RenameAside
<1>4. ASSUME SwapFails PROVE \E now, at : Aside(now, at)
  <2>1. call.at = "swap" /\ Goto("failed") /\ (call.prior # Absent => me.old = call.prior)
    BY <1>1, <1>4 DEF SwapFails, Generations
  <2>2. PICK files \in Restored(me) :
          Put(IF moving THEN files ELSE [files EXCEPT !.tmp = Absent])
    BY <1>4 DEF SwapFails
  <2>3. /\ files \in FileStates
        /\ (files.bak = me.bak /\ files.old = me.old) \/ files.bak = call.prior
    <3>1. Holds([me EXCEPT !.bak = me.old, !.old = Absent], me.live, me.old, Absent, me.tmp)
      BY <1>2, Edits
    <3> QED
      BY <1>2, <2>1, <2>2, <3>1 DEF Restored, Holds
  <2>4. Holds([files EXCEPT !.tmp = Absent], files.live, files.bak, files.old, Absent)
    BY <1>2, <2>3, Edits
  <2>5. PICK now \in FileStates : Put(now) /\ now.bak = files.bak /\ now.old = files.old
    BY <2>2, <2>3, <2>4 DEF Holds
  <2>6. Aside(now, "failed")
    BY <1>2, <2>1, <2>3, <2>5 DEF StepTo, Put, Goto, Steps
  <2> HIDE DEF Aside
  <2> QED
    BY <2>6
<1>5. PICK now, at : Aside(now, at)
  BY <1>3, <1>4
<1>6. call.at \in {"aside", "swap"}
  BY DEF RenameAside, SwapFails
<1>7. src \notin leftovers => HeldIn(now, last[src]) /\ MadeSoFar(at, last[src], pre[src])
  BY <1>1, <1>5, <1>6 DEF HeldIn, MadeSoFar
<1> QED
  BY <1>1, <1>2, <1>5, <1>7, StepHolds

\* The new backup comes in: it is the one made last, unless what it copied was
\* itself left half way.
LEMMA SwapInHolds ==
  ASSUME IInv, HeldInv, pc # "idle", BackupStep, pre' = pre, SwapIn
  PROVE  HeldInv'
<1> DEFINE me == fs[src]
<1>1. /\ InCall /\ Generations(me, call.at, pre[src]) /\ BackupTypeOK
      /\ src \notin leftovers => MadeSoFar(call.at, last[src], pre[src])
  BY InBackup
<1>2. /\ src \in Paths /\ Absent \in Contents /\ me \in FileStates
      /\ me.live \in Contents /\ me.tmp \in Contents
      /\ fs \in [Paths -> FileStates]
  BY <1>1, ContentsOf
<1>3. PICK new \in Contents : new = pre[src] /\ Made(new)
  BY <1>1, <1>2 DEF SwapIn, Generations
<1>4. /\ fs'[src].bak = new /\ (\A p \in Paths \ {src} : fs'[p] = fs[p])
  <2>1. /\ Holds([me EXCEPT !.bak = me.live, !.live = Absent], Absent, me.live, me.old, me.tmp)
        /\ Holds([me EXCEPT !.bak = me.tmp, !.tmp = Absent], me.live, me.tmp, me.old, Absent)
    BY <1>2, Edits
  <2>2. PICK now \in FileStates : Put(now) /\ now.bak = new
    BY <1>1, <1>3, <2>1 DEF SwapIn, Generations, Holds
  <2> QED
    BY <1>2, <2>2 DEF Put
<1>5. /\ src' = src /\ call'.prior = call.prior /\ call'.at \in {"vacate", "clean"}
  BY <1>1 DEF SwapIn, Goto, BackupTypeOK, Calls, src
<1>6. CASE new = Torn
  <2>1. src \in leftovers /\ last' = last /\ leftovers' = leftovers
    BY <1>1, <1>3, <1>6 DEF MadeSoFar, Made, madeVars
  <2> QED
    BY <1>4, <1>5, <2>1 DEF HeldInv, HeldIn
<1>7. CASE new # Torn
  <2>1. last' = [last EXCEPT ![src] = new] /\ leftovers' = leftovers \ {src}
    BY <1>3, <1>7 DEF Made
  <2>2. /\ last' \in [Paths -> Contents] /\ last'[src] = new
        /\ \A p \in Paths \ {src} : last'[p] = last[p]
    BY <1>2, <2>1 DEF HeldInv
  <2>3. \A p \in Paths \ leftovers' : HeldIn(fs'[p], last'[p])
    BY <1>4, <2>1, <2>2 DEF HeldInv, HeldIn
  <2>4. MadeSoFar(call.at, last[src], pre[src])'
    BY <1>3, <1>5, <1>7, <2>2 DEF MadeSoFar
  <2> QED
    BY <2>1, <2>2, <2>3, <2>4 DEF HeldInv, HeldIn
<1> QED
  BY <1>6, <1>7

\* The live tree goes, and the superseded generation after it.
LEMMA LateHolds ==
  ASSUME IInv, HeldInv, pc # "idle", BackupStep, pre' = pre,
         TearLive \/ Vacate \/ RemoveOld
  PROVE  HeldInv'
<1> DEFINE me == fs[src]
<1>1. /\ InCall /\ Generations(me, call.at, pre[src]) /\ call \in Calls
      /\ src \notin leftovers => HeldIn(me, last[src]) /\ MadeSoFar(call.at, last[src], pre[src])
  BY InBackup DEF BackupTypeOK
<1>2. /\ Absent \in Contents /\ Torn \in Contents /\ me \in FileStates
      /\ fs \in [Paths -> FileStates] /\ src \in Paths
      /\ last' = last /\ leftovers' = leftovers /\ exdev' = exdev
  BY InBackup, ContentsOf DEF TearLive, Vacate, RemoveOld, madeVars
<1>3. call.at \in {"vacate", "clean"}
  BY DEF TearLive, Vacate, RemoveOld
<1>4. /\ Holds([me EXCEPT !.live = Torn], Torn, me.bak, me.old, me.tmp)
      /\ Holds([me EXCEPT !.live = Absent], Absent, me.bak, me.old, me.tmp)
      /\ Holds([me EXCEPT !.old = Absent], me.live, me.bak, Absent, me.tmp)
  BY <1>2, Edits
<1>5. PICK now \in FileStates : Put(now) /\ now.bak = me.bak
  BY <1>2, <1>4 DEF TearLive, Vacate, RemoveOld, Holds, Put
<1>6. PICK at \in Steps : Goto(at) /\ at \in {"vacate", "clean", "ok", "failed"}
  BY <1>1, <1>3 DEF TearLive, Vacate, RemoveOld, Goto, Steps, Calls
<1>7. StepTo(now, at)
  BY <1>2, <1>5, <1>6 DEF StepTo, Put, Goto
<1>8. src \notin leftovers => HeldIn(now, last[src]) /\ MadeSoFar(at, last[src], pre[src])
  BY <1>1, <1>3, <1>5, <1>6 DEF HeldIn, MadeSoFar, Generations
<1> QED
  BY <1>1, <1>2, <1>5, <1>6, <1>7, <1>8, StepHolds

\* The steps of a run outside its backups, and the end of one.
LEMMA RunHolds ==
  ASSUME IInv, HeldInv, ~InCall', NEW f \in Paths, NEW now \in FileStates, Sets(f, now),
         \/ UNCHANGED madeVars /\ now.bak = fs[f].bak /\ now.old = fs[f].old
         \/ Dropped(f)
  PROVE  HeldInv'
<1>1. last \in [Paths -> Contents] /\ Absent \in Contents
  BY RunsContent DEF HeldInv, IInv
<1>2. leftovers' = leftovers /\ last' \in [Paths -> Contents]
      /\ (\A p \in Paths \ {f} : last'[p] = last[p])
  BY <1>1 DEF Dropped, madeVars
<1>3. \/ last'[f] = Absent
      \/ last'[f] = last[f] /\ fs'[f].bak = fs[f].bak /\ fs'[f].old = fs[f].old
  BY <1>1 DEF Dropped, madeVars, Sets
<1>4. \A p \in Paths \ {f} : fs'[p] = fs[p]
  BY DEF Sets
<1> QED
  BY <1>2, <1>3, <1>4, OutsideHolds

\* Every step keeps it.
LEMMA NextHolds ==
  ASSUME IInv, HeldInv, [Next]_vars
  PROVE  HeldInv'
<1>1. /\ BackupTypeOK /\ StateTypeOK /\ CallShape /\ Dir \in Paths /\ Files \subseteq Paths
      /\ last \in [Paths -> Contents]
  BY AutoFixAssumption DEF IInv, StateTypeOK, Files, HeldInv
<1>2. ASSUME fs' = fs, last' = last, leftovers' = leftovers, ~InCall' PROVE HeldInv'
  BY <1>1, <1>2, OutsideHolds
<1>3. CASE StartRun
  <2>1. Begin(Dir) /\ fs' = fs /\ pre'[Dir] = fs[Dir].live
    BY <1>1, <1>3 DEF StartRun
  <2> QED
    BY <1>1, <2>1, BeginHolds
<1>4. CASE BackUp
  <2>1. pc = "apply" /\ next # Finish /\ Begin(Entry.path) /\ fs' = fs /\ pre' = pre
    BY <1>4 DEF BackUp, runVars
  <2>2. PICK path \in Paths : path = Entry.path /\ fs[path].live = pre[path]
    BY <2>1, AtEntry
  <2> QED
    BY <1>1, <2>1, <2>2, BeginHolds
<1>5. CASE pc # "idle" /\ BackupStep /\ UNCHANGED <<pc, runVars>>
  <2>1. pre' = pre
    BY <1>5 DEF runVars
  <2> QED
    BY <1>5, <2>1, EarlyHolds, AsideHolds, SwapInHolds, LateHolds DEF BackupStep
<1>6. CASE Review
  <2>1. fs' = [fs EXCEPT ![Dir].live = runs] /\ UNCHANGED madeVars /\ ~InCall'
    BY <1>6 DEF Review, InCall
  <2>2. PICK c \in Contents : c = runs
    BY <1>1, RunsContent
  <2>3. Sets(Dir, [fs[Dir] EXCEPT !.live = c])
        /\ Holds([fs[Dir] EXCEPT !.live = c], c, fs[Dir].bak, fs[Dir].old, fs[Dir].tmp)
    BY <1>1, <2>1, <2>2, OneSet
  <2> QED
    BY <1>1, <2>1, <2>3, RunHolds DEF Holds
<1>7. CASE WriteEntry \/ WriteFails
  <2>1. pc = "backup" /\ ~InCall'
    BY <1>7 DEF WriteEntry, WriteFails, EntryLanded, EntryFailed, InCall
  <2>2. PICK f \in Paths : f = Entry.path
    BY <1>1, <2>1, AtEntry DEF CallShape
  <2>3. PICK c \in Contents : c = IF Entry.kind = "delete" THEN Absent ELSE runs
    BY <1>1, RunsContent
  <2>4. \/ fs' = [fs EXCEPT ![f].live = c] /\ UNCHANGED madeVars
        \/ fs' = [fs EXCEPT ![f].bak = Absent] /\ Dropped(f)
        \/ fs' = fs /\ UNCHANGED madeVars
    BY <1>7, <2>2, <2>3 DEF WriteEntry, WriteFails
  <2>5. /\ fs' = [fs EXCEPT ![f].live = c] => Sets(f, [fs[f] EXCEPT !.live = c])
        /\ Holds([fs[f] EXCEPT !.live = c], c, fs[f].bak, fs[f].old, fs[f].tmp)
        /\ fs' = fs => Sets(f, fs[f])
        /\ Holds(fs[f], fs[f].live, fs[f].bak, fs[f].old, fs[f].tmp)
    BY <1>1, OneSet
  <2>6. /\ fs' = [fs EXCEPT ![f].bak = Absent] => Sets(f, [fs[f] EXCEPT !.bak = Absent])
        /\ [fs[f] EXCEPT !.bak = Absent] \in FileStates
    BY <1>1, RunsContent, OneSet DEF Holds
  <2> QED
    BY <2>1, <2>4, <2>5, <2>6, RunHolds DEF Holds
<1>8. CASE \E f \in Files : \/ RevertCreated(f) \/ RevertOpens(f) \/ RevertCopies(f)
                            \/ RevertFails(f) \/ CleanupBackups(f)
  <2>1. PICK f \in Files : \/ RevertCreated(f) \/ RevertOpens(f) \/ RevertCopies(f)
                           \/ RevertFails(f) \/ CleanupBackups(f)
    BY <1>8
  <2>2. ~InCall' /\ f \in Paths
    BY <1>1, <2>1 DEF RevertCreated, RevertOpens, RevertCopies, RevertFails,
                      CleanupBackups, InCall
  <2>3. PICK b \in Contents : b = fs[f].bak
    BY <1>1, <2>2 DEF BackupTypeOK
  <2>4. \E c, d \in Contents :
          \/ /\ UNCHANGED madeVars
             /\ \/ fs' = [fs EXCEPT ![f].live = c]
                \/ fs' = [fs EXCEPT ![f].live = c, ![f].bak = b]
                \/ fs' = fs
          \/ /\ Dropped(f)
             /\ \/ fs' = [fs EXCEPT ![f].live = c, ![f].bak = d]
                \/ fs' = [fs EXCEPT ![f].bak = d]
    <3>1. Absent \in Contents /\ Torn \in Contents
      BY <1>1, RunsContent
    <3>2. CASE RevertCopies(f)
      BY <2>3, <3>1, <3>2 DEF RevertCopies
    <3>3. CASE CleanupBackups(f)
      BY <3>1, <3>3 DEF CleanupBackups
    <3>4. CASE RevertCreated(f) \/ RevertOpens(f) \/ RevertFails(f)
      BY <3>1, <3>4 DEF RevertCreated, RevertOpens, RevertFails, backupVars, madeVars
    <3> QED
      BY <2>1, <3>2, <3>3, <3>4
  <2>5. PICK c \in Contents, d \in Contents :
          \/ /\ UNCHANGED madeVars
             /\ \/ fs' = [fs EXCEPT ![f].live = c]
                \/ fs' = [fs EXCEPT ![f].live = c, ![f].bak = b]
                \/ fs' = fs
          \/ /\ Dropped(f)
             /\ \/ fs' = [fs EXCEPT ![f].live = c, ![f].bak = d]
                \/ fs' = [fs EXCEPT ![f].bak = d]
    BY <2>4
  <2>6. ASSUME NEW e \in Contents
        PROVE  /\ fs' = [fs EXCEPT ![f].live = c] => Sets(f, [fs[f] EXCEPT !.live = c])
               /\ fs' = [fs EXCEPT ![f].bak = e] => Sets(f, [fs[f] EXCEPT !.bak = e])
               /\ fs' = [fs EXCEPT ![f].live = c, ![f].bak = e] =>
                    Sets(f, [fs[f] EXCEPT !.live = c, !.bak = e])
               /\ fs' = fs => Sets(f, fs[f])
               /\ Holds(fs[f], fs[f].live, fs[f].bak, fs[f].old, fs[f].tmp)
               /\ Holds([fs[f] EXCEPT !.live = c], c, fs[f].bak, fs[f].old, fs[f].tmp)
               /\ Holds([fs[f] EXCEPT !.bak = e], fs[f].live, e, fs[f].old, fs[f].tmp)
               /\ Holds([fs[f] EXCEPT !.live = c, !.bak = e], c, e, fs[f].old, fs[f].tmp)
    BY <1>1, <2>2, OneSet
  <2>7. CASE /\ UNCHANGED madeVars
             /\ \/ fs' = [fs EXCEPT ![f].live = c]
                \/ fs' = [fs EXCEPT ![f].live = c, ![f].bak = b]
                \/ fs' = fs
    <3>1. \E now \in FileStates :
            Sets(f, now) /\ now.bak = fs[f].bak /\ now.old = fs[f].old
      BY <2>3, <2>6, <2>7 DEF Holds
    <3> QED
      BY <2>2, <2>7, <3>1, RunHolds
  <2>8. CASE /\ Dropped(f)
             /\ \/ fs' = [fs EXCEPT ![f].live = c, ![f].bak = d]
                \/ fs' = [fs EXCEPT ![f].bak = d]
    <3>1. \E now \in FileStates : Sets(f, now)
      BY <2>3, <2>6, <2>8 DEF Holds
    <3> QED
      BY <2>2, <2>8, <3>1, RunHolds
  <2> QED
    BY <2>5, <2>7, <2>8
<1>9. CASE ForceFailed \/ Reverted \/ Kill \/ Unapplicable \/ BackupFailed
  <2>1. fs' = fs /\ last' = last /\ leftovers' = leftovers /\ ~InCall'
    BY <1>9 DEF ForceFailed, Reverted, Kill, Unapplicable, BackupFailed, EntryFailed, End,
                backupVars, madeVars, InCall
  <2> QED
    BY <1>2, <2>1
<1>10. CASE Applied \/ ValidationPasses \/ ValidationFails \/ CreateBranch \/ Publish
  <2>1. fs' = fs /\ last' = last /\ leftovers' = leftovers /\ ~InCall'
    BY <1>10 DEF Applied, ValidationPasses, ValidationFails, CreateBranch, Publish, End,
                 backupVars, madeVars, InCall
  <2> QED
    BY <1>2, <2>1
<1>11. CASE Over \/ UNCHANGED vars
  <2>1. UNCHANGED <<fs, call, last, leftovers, pc, pre>>
    BY <1>11 DEF Over, vars, backupVars, madeVars, runVars
  <2> QED
    BY <2>1 DEF HeldInv, HeldIn, MadeSoFar, InCall, src
<1> QED
  BY <1>3, <1>4, <1>5, <1>6, <1>7, <1>8, <1>9, <1>10, <1>11 DEF Next

-----------------------------------------------------------------------------
(* Theorems.                                                               *)

\* The invariant is inductive: it holds of a clean checkout, and every system
\* call of a run, every failure and every kill keeps it.
THEOREM AutoFixInvariance == Spec => []IInv
<1>1. Init => IInv
  BY InitMeets
<1>2. IInv /\ [Next]_vars => IInv'
  BY NextKeeps
<1> QED
  BY <1>1, <1>2, PTL DEF Spec

\* The last backup made of a path is held by its files, or a backup began on what
\* a killed or failed one left: the strengthening that OneGeneration needs.
THEOREM BackupsHeld == Spec => []HeldInv
<1>1. Init => HeldInv
  <2>1. Absent \in Contents
    BY BackupAssumption DEF Contents
  <2> QED
    BY <2>1 DEF Init, HeldInv, HeldIn, InCall
<1>2. IInv /\ HeldInv /\ [Next]_vars => HeldInv'
  BY NextHolds
<1> QED
  BY <1>1, <1>2, AutoFixInvariance, PTL DEF Spec

\* Every variable keeps its type, whatever a crashed run left behind.
THEOREM TypeCorrect == Spec => []TypeOK
<1>1. IInv /\ HeldInv => TypeOK
  BY DEF IInv, HeldInv, TypeOK
<1> QED
  BY <1>1, AutoFixInvariance, BackupsHeld, PTL

\* What a path held when a run started stays whole on disk, live or as a
\* backup, until validation passed: RevertPatch "leaves the .bak in place" and
\* --force "preserves the prior review tree".
THEOREM FoundIsKept == Spec => []PreRunKept
<1>1. IInv => PreRunKept
  BY Follows
<1> QED
  BY <1>1, AutoFixInvariance, PTL

\* BackupToDotBak and backupExisting keep the last whole backup of a path in .bak
\* or .bak.old until there is a new one, over any number of runs and kills; the
\* exception is a call that begins on what a killed or failed one left, which
\* removes it (the run BackupRetry), until that call has made a whole backup.
THEOREM GenerationsKept == Spec => []OneGeneration
<1>1. HeldInv => OneGeneration
  BY DEF HeldInv, HeldIn, OneGeneration, Survives
<1> QED
  BY <1>1, BackupsHeld, PTL

\* runAutoFix says "reverted" only of restored files, and GitHub has only what
\* was patched in full and validated.
THEOREM AnswersAreTrue == Spec => []AnswerTrue
<1>1. IInv => AnswerTrue
  BY Follows
<1> QED
  BY <1>1, AutoFixInvariance, PTL
=============================================================================
