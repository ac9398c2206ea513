--------------------------- MODULE ItemLockProofs ---------------------------
(***************************************************************************)
(* Theorems about ItemLock, for any clones, items, holder names and number *)
(* of Lock calls.                                                          *)
(***************************************************************************)
EXTENDS ItemLock, TLAPS

\* Tags are numbered as they are made, and a lock a client was told of carries
\* that client's holder name.
TagsMade ==
  /\ \A i \in Ids : refs[i] <= minted
  /\ \A c \in Clients, i \in Ids, t \in Tags :
       <<i, t>> \in holds[c] => t <= minted /\ holderOf[t] = Holder[c]

\* An Unlock about to delete has read locks of its own holder name only.
DeleteOwn ==
  \A c \in Clients : pc[c] = "delete" =>
    \A i \in want[c] :
      /\ read[c][i] # NoTag /\ read[c][i] <= minted
      /\ holderOf[read[c][i]] = Holder[c]

\* A call that is not yet answered has changed nothing.
NoEffectYet ==
  \A c \in Clients : pc[c] \in {"idle", "lookup", "delete"} => effect[c] = {}

\* The inductive invariant.
IInv ==
  /\ TypeOK
  /\ LockedWhileHeld
  /\ AnswersTrue
  /\ TagsMade
  /\ DeleteOwn
  /\ NoEffectYet

-----------------------------------------------------------------------------

\* At the start the remote has no lock and nobody was told of one.
LEMMA InitIInv == Init => IInv
<1> SUFFICES ASSUME Init PROVE IInv
  OBVIOUS
<1>1. TypeOK
  BY LockAssumption DEF Init, TypeOK, PCs, Tags
<1>2. LockedWhileHeld /\ AnswersTrue /\ TagsMade /\ DeleteOwn /\ NoEffectYet
  BY LockAssumption
     DEF Init, LockedWhileHeld, AnswersTrue, TagsMade, DeleteOwn, NoEffectYet,
         NothingDone, NoTag
<1> QED
  BY <1>1, <1>2 DEF IInv

\* A push that lands found no lock, so no lock that stands is overwritten.
LEMMA LockLandsIInv ==
  ASSUME IInv, NEW c \in Clients, NEW items \in SUBSET Ids, LockLands(c, items)
  PROVE  IInv'
<1> USE LockAssumption DEF NoTag, Tags
<1>1. minted \in Nat /\ minted' = minted + 1 /\ minted + 1 \in 1..MaxLocks
  BY DEF IInv, TypeOK, LockLands, Mint
<1>2. \A d \in Clients, i \in Ids, t \in Tags :
        <<i, t>> \in holds'[d] =>
          <<i, t>> \in holds[d] \/ (d = c /\ i \in items /\ t = minted + 1)
  BY DEF IInv, TypeOK, LockLands
<1>3. TypeOK'
  <2>1. refs' \in [Ids -> Tags \cup {NoTag}]
    BY <1>1 DEF IInv, TypeOK, LockLands, CreateRefs
  <2>2. holderOf' \in [Tags -> Holders \cup {NoHolder}]
    BY <1>1 DEF IInv, TypeOK, LockLands, Mint, Holders
  <2>3. pc' \in [Clients -> PCs]
    BY DEF IInv, TypeOK, LockLands, Goto, PCs, Answers
  <2>4. holds' \in [Clients -> SUBSET (Ids \X Tags)]
    <3> DEFINE new == {<<i, minted + 1>> : i \in items}
    <3>1. new \subseteq Ids \X Tags
      BY <1>1
    <3>2. holds' = [holds EXCEPT ![c] = @ \cup new] \/ holds' = holds
      BY DEF LockLands
    <3> HIDE DEF new
    <3> QED
      BY <3>1, <3>2 DEF IInv, TypeOK
  <2>5. /\ want' \in [Clients -> SUBSET Ids]
        /\ effect' \in [Clients -> SUBSET Ids]
    BY DEF IInv, TypeOK, LockLands, Mint, CreateRefs
  <2>6. minted' \in 0..MaxLocks
    BY <1>1
  <2>7. /\ read' \in [Clients -> [Ids -> Tags \cup {NoTag}]]
        /\ released' \in SUBSET (Ids \X Tags \X Holders)
    BY DEF IInv, TypeOK, LockLands
  <2> QED
    BY <2>1, <2>2, <2>3, <2>4, <2>5, <2>6, <2>7 DEF TypeOK
<1>4. LockedWhileHeld'
  <2> SUFFICES ASSUME NEW d \in Clients, NEW i \in Ids, NEW t \in Tags,
                      <<i, t>> \in holds'[d]
               PROVE  refs'[i] = t \/ <<i, t, Holder[d]>> \in released'
    BY DEF LockedWhileHeld
  <2>1. CASE <<i, t>> \in holds[d]
    <3>1. refs[i] = t \/ <<i, t, Holder[d]>> \in released
      BY <2>1 DEF IInv, LockedWhileHeld
    <3>2. i \in items => refs[i] = NoTag
      BY DEF LockLands, Free
    <3> QED
      BY <3>1, <3>2 DEF LockLands, CreateRefs
  <2>2. CASE d = c /\ i \in items /\ t = minted + 1
    BY <2>2 DEF LockLands, CreateRefs
  <2> QED
    BY <1>2, <2>1, <2>2
<1>5. AnswersTrue' /\ NoEffectYet'
  BY DEF IInv, TypeOK, AnswersTrue, NoEffectYet, LockLands, Mint, CreateRefs,
         Goto, NothingDone
<1>6. TagsMade'
  <2>1. \A i \in Ids : refs'[i] <= minted'
    BY <1>1, SMTT(30) DEF IInv, TypeOK, TagsMade, LockLands, CreateRefs
  <2>2. ASSUME NEW d \in Clients, NEW i \in Ids, NEW t \in Tags,
               <<i, t>> \in holds'[d]
        PROVE  t <= minted' /\ holderOf'[t] = Holder[d]
    BY <1>1, <1>2, <2>2 DEF IInv, TypeOK, TagsMade, LockLands, Mint
  <2> QED
    BY <2>1, <2>2 DEF TagsMade
<1>7. DeleteOwn'
  BY <1>1 DEF IInv, TypeOK, DeleteOwn, LockLands, Mint, Goto
<1> QED
  BY <1>3, <1>4, <1>5, <1>6, <1>7 DEF IInv

\* A push that does not land makes a tag nobody sees.
LEMMA LockFailsIInv ==
  ASSUME IInv, NEW c \in Clients, NEW items \in SUBSET Ids, LockFails(c, items)
  PROVE  IInv'
<1> USE LockAssumption DEF NoTag, Tags
<1>1. minted \in Nat /\ minted' = minted + 1 /\ minted + 1 \in 1..MaxLocks
  BY DEF IInv, TypeOK, LockFails, Mint
<1>2. TypeOK'
  <2>1. holderOf' \in [Tags -> Holders \cup {NoHolder}]
    BY <1>1 DEF IInv, TypeOK, LockFails, Mint, Holders
  <2>2. pc' \in [Clients -> PCs]
    BY DEF IInv, TypeOK, LockFails, Goto, PCs, Answers
  <2>3. want' \in [Clients -> SUBSET Ids]
    BY DEF IInv, TypeOK, LockFails, Mint
  <2>4. minted' \in 0..MaxLocks
    BY <1>1
  <2>5. UNCHANGED <<refs, read, holds, released, effect>>
    BY DEF LockFails
  <2> QED
    BY <2>1, <2>2, <2>3, <2>4, <2>5 DEF IInv, TypeOK
<1>3. LockedWhileHeld'
  BY DEF IInv, LockedWhileHeld, LockFails
<1>4. AnswersTrue' /\ NoEffectYet'
  BY DEF IInv, TypeOK, AnswersTrue, NoEffectYet, LockFails, Mint, Goto,
         NothingDone
<1>5. TagsMade'
  BY <1>1 DEF IInv, TypeOK, TagsMade, LockFails, Mint
<1>6. DeleteOwn'
  BY <1>1 DEF IInv, TypeOK, DeleteOwn, LockFails, Mint, Goto
<1> QED
  BY <1>2, <1>3, <1>4, <1>5, <1>6 DEF IInv

\* The reads, the rejections and the return leave the remote alone.
LEMMA QuietIInv ==
  ASSUME IInv, NEW c \in Clients,
         Lookup(c) \/ Unlock(c) \/ DeleteFails(c) \/ Return(c)
  PROVE  IInv'
<1> USE LockAssumption DEF NoTag, Tags
<1>1. CASE Lookup(c)
  <2>1. TypeOK'
    BY <1>1 DEF IInv, TypeOK, Lookup, Goto, PCs, Answers, NothingDone
  <2>2. AnswersTrue' /\ NoEffectYet'
    BY <1>1 DEF IInv, TypeOK, AnswersTrue, NoEffectYet, Lookup, Goto, Answers,
                NothingDone
  <2>3. LockedWhileHeld' /\ TagsMade'
    BY <1>1 DEF IInv, LockedWhileHeld, TagsMade, Lookup
  <2>4. DeleteOwn'
    BY <1>1 DEF IInv, TypeOK, DeleteOwn, Lookup, Goto
  <2> QED
    BY <2>1, <2>2, <2>3, <2>4 DEF IInv
<1>2. ASSUME NEW items \in SUBSET Ids, readItemLocks(c, items) PROVE IInv'
  <2>1. TypeOK'
    BY <1>2 DEF IInv, TypeOK, readItemLocks, Goto, PCs, Answers, NothingDone
  <2>2. AnswersTrue' /\ NoEffectYet'
    BY <1>2 DEF IInv, TypeOK, AnswersTrue, NoEffectYet, readItemLocks, Goto,
                NothingDone
  <2>3. LockedWhileHeld' /\ TagsMade'
    BY <1>2 DEF IInv, LockedWhileHeld, TagsMade, readItemLocks
  <2>4. DeleteOwn'
    <3> SUFFICES ASSUME NEW d \in Clients, pc'[d] = "delete", NEW i \in want'[d]
                 PROVE  /\ read'[d][i] # NoTag /\ read'[d][i] <= minted'
                        /\ holderOf'[read'[d][i]] = Holder[d]
      BY DEF DeleteOwn
    <3>1. CASE d = c
      <4>1. i \in items /\ i \in Ids /\ read'[d][i] = refs[i]
        BY <1>2, <3>1 DEF IInv, TypeOK, readItemLocks
      <4>2. ~NotLocked(items) /\ ~OthersLock(c, items)
        BY <1>2, <3>1 DEF IInv, TypeOK, readItemLocks, Goto
      <4> QED
        BY <1>2, <3>1, <4>1, <4>2
           DEF IInv, TagsMade, readItemLocks, NotLocked, OthersLock
    <3>2. CASE d # c
      <4>1. /\ want'[d] = want[d] /\ read'[d] = read[d] /\ pc'[d] = pc[d]
            /\ minted' = minted /\ holderOf' = holderOf
        BY <1>2, <3>2 DEF IInv, TypeOK, readItemLocks, Goto
      <4> QED
        BY <4>1 DEF IInv, DeleteOwn
    <3> QED
      BY <3>1, <3>2
  <2> QED
    BY <2>1, <2>2, <2>3, <2>4 DEF IInv
<1>3. CASE DeleteFails(c)
  <2>1. TypeOK'
    BY <1>3 DEF IInv, TypeOK, DeleteFails, Goto, PCs, Answers, NothingDone
  <2>2. AnswersTrue' /\ NoEffectYet'
    BY <1>3 DEF IInv, TypeOK, AnswersTrue, NoEffectYet, DeleteFails, Goto, Answers,
                NothingDone
  <2>3. LockedWhileHeld' /\ TagsMade'
    BY <1>3 DEF IInv, LockedWhileHeld, TagsMade, DeleteFails
  <2>4. DeleteOwn'
    BY <1>3 DEF IInv, TypeOK, DeleteOwn, DeleteFails, Goto
  <2> QED
    BY <2>1, <2>2, <2>3, <2>4 DEF IInv
<1>4. CASE Return(c)
  <2>1. TypeOK'
    BY <1>4 DEF IInv, TypeOK, Return, Goto, PCs, Answers, NothingDone
  <2>2. AnswersTrue' /\ NoEffectYet'
    BY <1>4 DEF IInv, TypeOK, AnswersTrue, NoEffectYet, Return, Goto, Answers,
                NothingDone
  <2>3. LockedWhileHeld' /\ TagsMade'
    BY <1>4 DEF IInv, LockedWhileHeld, TagsMade, Return
  <2>4. DeleteOwn'
    BY <1>4 DEF IInv, TypeOK, DeleteOwn, Return, Goto
  <2> QED
    BY <2>1, <2>2, <2>3, <2>4 DEF IInv
<1> QED
  BY <1>1, <1>2, <1>3, <1>4 DEF Unlock

\* A delete that lands removes the tags it read, and those carry its holder.
LEMMA DeleteLandsIInv ==
  ASSUME IInv, NEW c \in Clients, DeleteLands(c)
  PROVE  IInv'
<1> USE LockAssumption DEF NoTag, Tags
<1>1. want[c] \in SUBSET Ids /\ Holder[c] \in Holders
  BY DEF IInv, TypeOK, Holders
<1>2. \A i \in want[c] :
        /\ read[c][i] \in Tags /\ refs[i] = read[c][i]
        /\ holderOf[read[c][i]] = Holder[c]
  BY <1>1 DEF IInv, TypeOK, DeleteOwn, DeleteLands, Leased
<1>3. \A d \in Clients : holds'[d] \subseteq holds[d]
  BY DEF IInv, TypeOK, DeleteLands
<1>4. TypeOK'
  <2>1. refs' \in [Ids -> Tags \cup {NoTag}]
    BY DEF IInv, TypeOK, DeleteLands, DeleteRefs
  <2>2. released' \in SUBSET (Ids \X Tags \X Holders)
    BY <1>1, <1>2 DEF IInv, TypeOK, DeleteLands, DeleteRefs
  <2>3. holds' \in [Clients -> SUBSET (Ids \X Tags)]
    BY DEF IInv, TypeOK, DeleteLands
  <2>4. pc' \in [Clients -> PCs]
    BY DEF IInv, TypeOK, DeleteLands, Goto, PCs, Answers
  <2> QED
    BY <2>1, <2>2, <2>3, <2>4 DEF IInv, TypeOK, DeleteLands, DeleteRefs
<1>5. LockedWhileHeld'
  <2> SUFFICES ASSUME NEW d \in Clients, NEW i \in Ids, NEW t \in Tags,
                      <<i, t>> \in holds'[d]
               PROVE  refs'[i] = t \/ <<i, t, Holder[d]>> \in released'
    BY DEF LockedWhileHeld
  <2>1. <<i, t>> \in holds[d]
    BY <1>3
  <2>2. refs[i] = t \/ <<i, t, Holder[d]>> \in released
    BY <2>1 DEF IInv, LockedWhileHeld
  <2>3. CASE i \in want[c] /\ refs[i] = t
    <3>1. Holder[d] = Holder[c]
      BY <1>2, <2>1, <2>3 DEF IInv, TagsMade
    <3>2. <<i, read[c][i], Holder[c]>> \in released'
      BY <2>3 DEF DeleteLands, DeleteRefs
    <3> QED
      BY <1>2, <2>3, <3>1, <3>2
  <2> QED
    BY <2>2, <2>3 DEF DeleteLands, DeleteRefs
<1>6. AnswersTrue' /\ NoEffectYet'
  BY <1>1 DEF IInv, TypeOK, AnswersTrue, NoEffectYet, DeleteLands, DeleteRefs,
              Goto, NothingDone
<1>7. TagsMade'
  BY <1>3 DEF IInv, TypeOK, TagsMade, DeleteLands, DeleteRefs
<1>8. DeleteOwn'
  BY DEF IInv, TypeOK, DeleteOwn, DeleteLands, Goto
<1> QED
  BY <1>4, <1>5, <1>6, <1>7, <1>8 DEF IInv

\* The inductive invariant holds throughout.
THEOREM Invariance == Spec => []IInv
<1>1. IInv /\ [Next]_vars => IInv'
  <2> SUFFICES ASSUME IInv, [Next]_vars PROVE IInv'
    OBVIOUS
  <2>1. CASE UNCHANGED vars
    BY <2>1 DEF IInv, TypeOK, LockedWhileHeld, AnswersTrue, TagsMade, DeleteOwn,
                NoEffectYet, vars
  <2>2. ASSUME NEW c \in Clients, Lock(c) PROVE IInv'
    BY <2>2, LockLandsIInv, LockFailsIInv DEF Lock
  <2>3. ASSUME NEW c \in Clients, DeleteLands(c) PROVE IInv'
    BY <2>3, DeleteLandsIInv
  <2>4. ASSUME NEW c \in Clients,
               Lookup(c) \/ Unlock(c) \/ DeleteFails(c) \/ Return(c)
        PROVE  IInv'
    BY <2>4, QuietIInv
  <2> QED
    BY <2>1, <2>2, <2>3, <2>4 DEF Next
<1> QED
  BY InitIInv, <1>1, PTL DEF Spec

\* Every variable keeps its type, whatever the clones do.
THEOREM TypeCorrect == Spec => []TypeOK
<1>1. IInv => TypeOK
  BY DEF IInv
<1> QED
  BY <1>1, Invariance, PTL

\* A lock a client was told it has stands until its holder name releases it.
THEOREM HeldIsLocked == Spec => []LockedWhileHeld
<1>1. IInv => LockedWhileHeld
  BY DEF IInv
<1> QED
  BY <1>1, Invariance, PTL

\* A call does all it was asked or nothing, and answers which.
THEOREM TrueAnswers == Spec => []AnswersTrue
<1>1. IInv => AnswersTrue
  BY DEF IInv
<1> QED
  BY <1>1, Invariance, PTL

\* Of an item, two holder names never both have an unreleased lock.
Exclusive ==
  \A c, d \in Clients, i \in Ids, t, u \in Tags :
    /\ <<i, t>> \in holds[c] /\ <<i, t, Holder[c]>> \notin released
    /\ <<i, u>> \in holds[d] /\ <<i, u, Holder[d]>> \notin released
    => t = u /\ Holder[c] = Holder[d]

\* The locks exclude: what Lock promises its callers, from the ref being
\* created only where there is none and deleted only under its holder's name.
THEOREM MutualExclusion == Spec => []Exclusive
<1>1. IInv => Exclusive
  BY DEF IInv, LockedWhileHeld, TagsMade, Exclusive
<1> QED
  BY <1>1, Invariance, PTL
=============================================================================
