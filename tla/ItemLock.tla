------------------------------ MODULE ItemLock ------------------------------
(***************************************************************************)
(* Per-item debt locks (internal/localdebt/itemlock.go): clones of one     *)
(* store lock and unlock items through refs on their shared git remote.    *)
(* "The push IS the mutex": the remote creates a ref only where there is   *)
(* none, deletes it only on the object the lease names, and an --atomic    *)
(* push changes all its refs or none.                                      *)
(*                                                                         *)
(* Each git command that reads or changes the refs is a step; making and   *)
(* fetching tags, which never change, goes with it.  A command may fail    *)
(* without reaching the remote, and its answer may be lost (a timeout, a   *)
(* kill) after the remote acted on it.  A tag carries a nonce: the number  *)
(* of the Lock call that made it stands for it.                            *)
(***************************************************************************)
EXTENDS Integers

CONSTANTS
  Clients,      \* clones running `atcr debt lock` and `unlock`
  Ids,          \* debt items
  Holder,       \* each client's holder name; clients may share one
  MaxLocks      \* bound: Lock calls that reach their push

ASSUME LockAssumption == MaxLocks \in Nat

NoTag == 0
Tags == 1..MaxLocks
Holders == {Holder[c] : c \in Clients}
NoHolder == "none"

VARIABLES
  refs,       \* the remote: the tag each item's ref names, or NoTag
  minted,     \* Lock calls so far: the tags made
  holderOf,   \* the holder recorded in each tag
  pc,         \* where each client's call is, its answer at the end
  want,       \* the items of its call
  read,       \* the tag its Unlock read for each item
  holds,      \* history: item and tag of each lock it was told it has
  released,   \* history: item, tag and holder of each lock deleted
  effect      \* history: the items its call changed on the remote

vars == <<refs, minted, holderOf, pc, want, read, holds, released, effect>>

\* The answers that end in "nothing was locked" or "nothing was unlocked".
NothingDone == {"item locked", "push rejected", "not locked", "held by other",
                "delete rejected"}
Answers == NothingDone \cup {"locked", "unlocked", "error"}

\* lookup is a Lock whose push was rejected, delete an Unlock that read its own
\* holder's locks.
PCs == Answers \cup {"idle", "lookup", "delete"}

Goto(c, step) == pc' = [pc EXCEPT ![c] = step]

Free(items) == \A i \in items : refs[i] = NoTag

-----------------------------------------------------------------------------
(* Lock: the tags are made in the clone and pushed in one atomic push.     *)

Mint(c, items) ==
  /\ pc[c] = "idle" /\ minted < MaxLocks /\ items # {}
  /\ minted' = minted + 1
  /\ holderOf' = [holderOf EXCEPT ![minted + 1] = Holder[c]]
  /\ want' = [want EXCEPT ![c] = items]

\* receive-pack takes every ref, in one transaction.
CreateRefs(c, items) ==
  /\ refs' = [i \in Ids |-> IF i \in items THEN minted + 1 ELSE refs[i]]
  /\ effect' = [effect EXCEPT ![c] = items]

\* The push lands; its porcelain output says so, or is lost with the answer.
LockLands(c, items) ==
  /\ Mint(c, items) /\ Free(items)
  /\ CreateRefs(c, items)
  /\ \/ /\ Goto(c, "locked")
        /\ holds' = [holds EXCEPT ![c] = @ \cup {<<i, minted + 1>> : i \in items}]
     \/ Goto(c, "error") /\ UNCHANGED holds
  /\ UNCHANGED <<read, released>>

LockFailsPartly(c, items) ==
  /\ Mint(c, items)
  /\ CreateRefs(c, {i \in items : refs[i] = NoTag})
  /\ Goto(c, "lookup")
  /\ UNCHANGED <<read, holds, released>>

\* The remote rejects a ref that exists, or that another push raced for; or it
\* is never reached.
LockFails(c, items) ==
  /\ Mint(c, items)
  /\ \E step \in {"lookup", "error"} : Goto(c, step)
  /\ UNCHANGED <<refs, read, holds, released, effect>>

\* The remote decides what a rejection was about; the lookup may fail as well.
Lookup(c) ==
  /\ pc[c] = "lookup"
  /\ \/ ~Free(want[c]) /\ Goto(c, "item locked")
     \/ Goto(c, "push rejected")
  /\ UNCHANGED <<refs, minted, holderOf, want, read, holds, released, effect>>

-----------------------------------------------------------------------------
(* Unlock: read the locks, compare their holder, delete what was read.     *)

NoneLocked(items) == \A i \in items : refs[i] = NoTag

NotLocked(items) == \E i \in items : refs[i] = NoTag
OthersLock(c, items) ==
  \E i \in items : refs[i] # NoTag /\ holderOf[refs[i]] # Holder[c]

readItemLocks(c, items) ==
  /\ pc[c] = "idle" /\ items # {}
  /\ want' = [want EXCEPT ![c] = items]
  /\ read' = [read EXCEPT ![c] =
                [i \in Ids |-> IF i \in items THEN refs[i] ELSE NoTag]]
  /\ \/ NotLocked(items) /\ Goto(c, "not locked")
     \/ ~NotLocked(items) /\ OthersLock(c, items) /\ Goto(c, "held by other")
     \/ ~NotLocked(items) /\ ~OthersLock(c, items) /\ Goto(c, "delete")
     \/ Goto(c, "error")
  /\ UNCHANGED <<refs, minted, holderOf, holds, released, effect>>

Unleased(c) == \A i \in want[c] : refs[i] # NoTag

\* --force-with-lease: the ref still names the tag read.
Leased(c) == \A i \in want[c] : refs[i] = read[c][i]

DeleteRefs(c) ==
  /\ refs' = [i \in Ids |-> IF i \in want[c] THEN NoTag ELSE refs[i]]
  /\ effect' = [effect EXCEPT ![c] = want[c]]
  /\ released' = released \cup {<<i, read[c][i], Holder[c]>> : i \in want[c]}

DeleteLands(c) ==
  /\ pc[c] = "delete" /\ Leased(c)
  /\ DeleteRefs(c)
  /\ \/ /\ Goto(c, "unlocked")
        /\ holds' = [holds EXCEPT ![c] = @ \ {<<i, read[c][i]>> : i \in want[c]}]
     \/ Goto(c, "error") /\ UNCHANGED holds
  /\ UNCHANGED <<minted, holderOf, want, read>>

DeleteFails(c) ==
  /\ pc[c] = "delete"
  /\ \/ ~Leased(c) /\ Goto(c, "delete rejected")
     \/ Goto(c, "error")
  /\ UNCHANGED <<refs, minted, holderOf, want, read, holds, released, effect>>

\* The command ends with its answer; nothing of the call is kept.
Return(c) ==
  /\ pc[c] \in Answers
  /\ Goto(c, "idle")
  /\ want' = [want EXCEPT ![c] = {}]
  /\ read' = [read EXCEPT ![c] = [i \in Ids |-> NoTag]]
  /\ effect' = [effect EXCEPT ![c] = {}]
  /\ UNCHANGED <<refs, minted, holderOf, holds, released>>

-----------------------------------------------------------------------------
Init ==
  /\ refs = [i \in Ids |-> NoTag]
  /\ minted = 0
  /\ holderOf = [t \in Tags |-> NoHolder]
  /\ pc = [c \in Clients |-> "idle"]
  /\ want = [c \in Clients |-> {}]
  /\ read = [c \in Clients |-> [i \in Ids |-> NoTag]]
  /\ holds = [c \in Clients |-> {}]
  /\ released = {}
  /\ effect = [c \in Clients |-> {}]

Lock(c) == \E items \in SUBSET Ids : LockLands(c, items) \/ LockFails(c, items)

Unlock(c) == \E items \in SUBSET Ids : readItemLocks(c, items)

Next ==
  \E c \in Clients :
    \/ Lock(c)
    \/ Lookup(c)
    \/ Unlock(c)
    \/ DeleteLands(c)
    \/ DeleteFails(c)
    \/ Return(c)

Spec == Init /\ [][Next]_vars

-----------------------------------------------------------------------------
(* Properties.                                                             *)

\* Type invariant.
TypeOK ==
  /\ refs \in [Ids -> Tags \cup {NoTag}]
  /\ minted \in 0..MaxLocks
  /\ holderOf \in [Tags -> Holders \cup {NoHolder}]
  /\ pc \in [Clients -> PCs]
  /\ want \in [Clients -> SUBSET Ids]
  /\ read \in [Clients -> [Ids -> Tags \cup {NoTag}]]
  /\ holds \in [Clients -> SUBSET (Ids \X Tags)]
  /\ released \in SUBSET (Ids \X Tags \X Holders)
  /\ effect \in [Clients -> SUBSET Ids]

\* A lock a client was told it has stands on the remote, under the very tag it
\* pushed, until someone of the same holder name releases it: no other clone
\* locks the item meanwhile, and no Unlock that read an earlier lock releases a
\* lock re-taken in between (Lock, Unlock).
LockedWhileHeld ==
  \A c \in Clients, i \in Ids, t \in Tags :
    <<i, t>> \in holds[c] => refs[i] = t \/ <<i, t, Holder[c]>> \in released

\* A call locks or unlocks all its items or none, and says which: success means
\* all, "nothing was locked" and "nothing was unlocked" mean none, and only the
\* plain failure leaves it open (Lock, Unlock).
AnswersTrue ==
  \A c \in Clients :
    /\ effect[c] \in {{}, want[c]}
    /\ pc[c] \in {"locked", "unlocked"} => effect[c] = want[c]
    /\ pc[c] \in NothingDone => effect[c] = {}
=============================================================================
