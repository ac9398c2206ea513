-------------------------- MODULE StoreLockProofs --------------------------
(***************************************************************************)
(* The store lock excludes, for any set of processes.                      *)
(***************************************************************************)
EXTENDS StoreLock, TLAPS

\* The kernel's half of the argument: a file's lock has one holder.
OneHolder ==
  \A p, q \in Procs :
    pc[p] \in Holding /\ pc[q] \in Holding /\ fd[p] = fd[q] => p = q

\* A process past its open has a file, none made later than the last.
HasFile ==
  /\ path <= made
  /\ \A p \in Procs : fd[p] <= made /\ (pc[p] # "idle" => fd[p] # NoFile)

\* The inductive invariant.
IInv == TypeOK /\ HasFile /\ OneHolder /\ RemovesOwn

-----------------------------------------------------------------------------

\* At the start nobody has the file open.
LEMMA InitIInv == Init => IInv
BY DEF Init, IInv, TypeOK, PCs, HasFile, OneHolder, RemovesOwn, Holding, NoFile

\* Opening makes a file only where there is none, when nobody is in fn.
LEMMA OpenIInv ==
  ASSUME IInv, NEW p \in Procs, Open(p)
  PROVE  IInv'
<1> USE DEF NoFile
<1>1. /\ path' \in Nat /\ made' \in Nat /\ path' <= made' /\ made <= made'
      /\ path' # NoFile
      /\ path # NoFile => path' = path
  BY DEF IInv, TypeOK, HasFile, Open
<1>2. /\ fd' \in [Procs -> Nat] /\ pc' \in [Procs -> PCs]
      /\ fd'[p] = path' /\ pc'[p] = "opened"
      /\ \A q \in Procs \ {p} : fd'[q] = fd[q] /\ pc'[q] = pc[q]
  BY <1>1 DEF IInv, TypeOK, Open, Goto, PCs
<1>3. TypeOK'
  BY <1>1, <1>2 DEF TypeOK
<1>4. HasFile'
  BY <1>1, <1>2 DEF IInv, TypeOK, HasFile
<1>5. OneHolder'
  BY <1>2 DEF IInv, OneHolder, Holding
<1>6. RemovesOwn'
  BY <1>1, <1>2 DEF IInv, HasFile, RemovesOwn
<1> QED
  BY <1>3, <1>4, <1>5, <1>6 DEF IInv

\* A close leaves the file at the path and every other process alone.
LEMMA CloseIInv ==
  ASSUME IInv, NEW p \in Procs, Close(p), UNCHANGED <<path, made>>
  PROVE  IInv'
<1> USE DEF NoFile
<1>1. /\ fd' \in [Procs -> Nat] /\ pc' \in [Procs -> PCs]
      /\ fd'[p] = NoFile /\ pc'[p] = "idle"
      /\ \A q \in Procs \ {p} : fd'[q] = fd[q] /\ pc'[q] = pc[q]
  BY DEF IInv, TypeOK, Close, Goto, PCs
<1>2. TypeOK'
  BY <1>1 DEF IInv, TypeOK
<1>3. HasFile'
  BY <1>1 DEF IInv, TypeOK, HasFile
<1>4. OneHolder'
  BY <1>1 DEF IInv, OneHolder, Holding
<1>5. RemovesOwn'
  BY <1>1 DEF IInv, RemovesOwn
<1> QED
  BY <1>2, <1>3, <1>4, <1>5 DEF IInv

\* The steps that keep the file open: the lock is free, it is the file at the
\* path, or it goes away.
LEMMA KeepIInv ==
  ASSUME IInv, NEW p \in Procs,
         \/ pc[p] = "opened" /\ LockFree(p) /\ Goto(p, "locked") /\ path' = path
         \/ pc[p] = "locked" /\ SameFile(p) /\ Goto(p, "critical") /\ path' = path
         \/ Remove(p),
         UNCHANGED <<made, fd>>
  PROVE  IInv'
<1> USE DEF NoFile
<1>1. /\ pc' \in [Procs -> PCs] /\ pc'[p] \in Holding /\ pc[p] # "idle"
      /\ \A q \in Procs \ {p} : pc'[q] = pc[q]
  BY DEF IInv, TypeOK, Goto, Remove, PCs, Holding
<1>2. path' \in {NoFile, path}
  BY DEF Remove
<1>3. TypeOK'
  BY <1>1, <1>2 DEF IInv, TypeOK
<1>4. HasFile'
  BY <1>1, <1>2 DEF IInv, TypeOK, HasFile
<1>5. OneHolder'
  <2>1. CASE pc[p] = "opened" /\ LockFree(p)
    BY <1>1, <2>1 DEF IInv, OneHolder, LockFree
  <2>2. CASE pc[p] \in Holding
    BY <1>1, <2>2 DEF IInv, OneHolder
  <2> QED
    BY <2>1, <2>2 DEF Remove, Holding
<1>6. RemovesOwn'
  <2>1. CASE pc[p] = "critical"
    <3>1. \A q \in Procs \ {p} : pc[q] # "critical"
      BY <2>1 DEF IInv, RemovesOwn, OneHolder, Holding
    <3>2. pc'[p] # "critical"
      BY <2>1 DEF IInv, TypeOK, Remove, Goto
    <3> QED
      BY <1>1, <3>1, <3>2 DEF RemovesOwn
  <2>2. CASE pc[p] # "critical"
    <3>1. /\ path' = path
          /\ pc'[p] = "critical" => path = fd[p]
      BY <2>2 DEF IInv, TypeOK, Goto, Remove, SameFile
    <3> QED
      BY <1>1, <3>1 DEF IInv, RemovesOwn
  <2> QED
    BY <2>1, <2>2
<1> QED
  BY <1>3, <1>4, <1>5, <1>6 DEF IInv

\* The inductive invariant holds throughout.
THEOREM LockInvariance == Spec => []IInv
<1>1. IInv /\ [Next]_vars => IInv'
  <2> SUFFICES ASSUME IInv, [Next]_vars PROVE IInv'
    OBVIOUS
  <2>1. CASE UNCHANGED vars
    BY <2>1 DEF IInv, TypeOK, HasFile, OneHolder, RemovesOwn, vars
  <2>2. CASE Next
    <3>1. PICK p \in Procs :
            Open(p) \/ Flock(p) \/ Check(p) \/ Remove(p) \/ Release(p) \/ Die(p)
      BY <2>2 DEF Next
    <3>2. CASE Open(p)
      BY <3>2, OpenIInv
    <3>3. CASE Close(p) /\ UNCHANGED <<path, made>>
      BY <3>3, CloseIInv
    <3>4. CASE Flock(p)
      BY <3>3, <3>4, KeepIInv DEF Flock
    <3>5. CASE Check(p)
      BY <3>3, <3>5, KeepIInv DEF Check
    <3>6. CASE Remove(p)
      BY <3>6, KeepIInv DEF Remove
    <3>7. CASE Release(p) \/ Die(p)
      BY <3>3, <3>7 DEF Release, Die
    <3> QED
      BY <3>1, <3>2, <3>4, <3>5, <3>6, <3>7
  <2> QED
    BY <2>1, <2>2
<1> QED
  BY InitIInv, <1>1, PTL DEF Spec

\* Two processes never run their fn at once, whatever files are removed, left
\* behind or replaced (withLock).
THEOREM LockExcludes == Spec => []Exclusion
<1>1. IInv => Exclusion
  BY DEF IInv, RemovesOwn, OneHolder, Holding, Exclusion
<1> QED
  BY <1>1, LockInvariance, PTL

\* The deferred Remove takes away the holder's own file (withLock).
THEOREM OwnFileRemoved == Spec => []RemovesOwn
<1>1. IInv => RemovesOwn
  BY DEF IInv
<1> QED
  BY <1>1, LockInvariance, PTL
=============================================================================
