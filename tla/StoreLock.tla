----------------------------- MODULE StoreLock -----------------------------
(***************************************************************************)
(* The debt store's cross-process lock (internal/localdebt/lock_unix.go):  *)
(* an exclusive flock on a file that its holder removes before it unlocks, *)
(* so that a waiter may come to hold a file that is no longer there.       *)
(*                                                                         *)
(* Each system call of withLock and tryFlock is a step, and a process may  *)
(* die between any two; the kernel then closes its descriptor.  A file is  *)
(* a number, new with every creation: an inode that some process has open  *)
(* is not reused.                                                          *)
(***************************************************************************)
EXTENDS Naturals

CONSTANT Procs      \* processes that use the store

NoFile == 0

VARIABLES
  path,     \* the file at <dir>/.flock, or NoFile
  made,     \* files created so far
  fd,       \* the file each process has open, or NoFile
  pc        \* where it is in withLock

vars == <<path, made, fd, pc>>

\* critical is fn; removing is the deferred call between Remove and Close.
Holding == {"locked", "critical", "removing"}
PCs == Holding \cup {"idle", "opened"}

Goto(p, at) == pc' = [pc EXCEPT ![p] = at]

\* Closing the descriptor releases the flock taken through it.
Close(p) == Goto(p, "idle") /\ fd' = [fd EXCEPT ![p] = NoFile]

\* O_CREATE: the file at the path, or a new one.
Open(p) ==
  /\ pc[p] = "idle"
  /\ \/ path # NoFile /\ UNCHANGED <<path, made>>
     \/ path = NoFile /\ made' = made + 1 /\ path' = made + 1
  /\ fd' = [fd EXCEPT ![p] = path']
  /\ Goto(p, "opened")

\* The kernel's rule: one open descriptor holds a file's exclusive lock.
LockFree(p) == \A q \in Procs : pc[q] \in Holding => fd[q] # fd[p]

\* LOCK_NB: a held lock closes the file, and withLock polls again or gives up.
Flock(p) ==
  /\ pc[p] = "opened"
  /\ \/ LockFree(p) /\ Goto(p, "locked") /\ UNCHANGED fd
     \/ Close(p)
  /\ UNCHANGED <<path, made>>

SameFile(p) == path = fd[p]

\* tryFlock's last look: the file it locked is the one at the path, or it
\* starts over; either Stat may fail.
Check(p) ==
  /\ pc[p] = "locked"
  /\ \/ SameFile(p) /\ Goto(p, "critical") /\ UNCHANGED fd
     \/ Close(p)
  /\ UNCHANGED <<path, made>>

\* fn is over: os.Remove takes away whatever file is at the path, or fails.
Remove(p) ==
  /\ pc[p] = "critical"
  /\ path' \in {NoFile, path}
  /\ Goto(p, "removing")
  /\ UNCHANGED <<made, fd>>

Release(p) ==
  /\ pc[p] = "removing"
  /\ Close(p)
  /\ UNCHANGED <<path, made>>

\* The process dies and leaves the file behind.
Die(p) ==
  /\ pc[p] # "idle"
  /\ Close(p)
  /\ UNCHANGED <<path, made>>

Init ==
  /\ path = NoFile /\ made = 0
  /\ fd = [p \in Procs |-> NoFile]
  /\ pc = [p \in Procs |-> "idle"]

Next ==
  \E p \in Procs :
    \/ Open(p)
    \/ Flock(p)
    \/ Check(p)
    \/ Remove(p)
    \/ Release(p)
    \/ Die(p)

Spec == Init /\ [][Next]_vars

-----------------------------------------------------------------------------
\* Type invariant.
TypeOK ==
  /\ path \in Nat /\ made \in Nat
  /\ fd \in [Procs -> Nat]
  /\ pc \in [Procs -> PCs]

\* Two processes never run their fn at once: neither a file removed between the
\* open and the flock, nor one left by a dead holder, lets a second one in
\* (withLock).
Exclusion ==
  \A p, q \in Procs : pc[p] = "critical" /\ pc[q] = "critical" => p = q

\* A holder removes its own lock file and never the one another process is
\* using: while fn runs the file at the path is the one it locked (withLock's
\* deferred Remove).
RemovesOwn == \A p \in Procs : pc[p] = "critical" => path = fd[p]
=============================================================================
