----------------------------- MODULE BioProofs -----------------------------
(***************************************************************************)
(* Proofs about the buffer cache, for any number of processes, blocks and  *)
(* buffers: the invariants of Bio hold, no two processes have the data of  *)
(* one block, and the cache implements the array of blocks of BlockStore.  *)
(***************************************************************************)
EXTENDS Bio, FiniteSetTheorems, TLAPS

\* No conjunct is inductive alone.  A recycled buffer has no holder only
\* because its count is exact; the counts stay exact only if a pinned block is
\* cached, and once; and a process gives back the buffer it has got.
Inv == TypeOK /\ SingleCopy /\ HoldersExact /\ PinnedCached /\ RefcntExact

Holders(c) == {p \in Proc : b[p] = c}

\* The number of processes that have a buffer is a natural number.
LEMMA HoldersFinite ==
  ASSUME NEW c
  PROVE  IsFiniteSet(Holders(c)) /\ Cardinality(Holders(c)) \in Nat
<1>1. Holders(c) \subseteq Proc
  BY DEF Holders
<1>2. IsFiniteSet(Holders(c))
  BY <1>1, FS_Subset, ProcAssumption
<1> QED
  BY <1>2, FS_CardinalityType

\* NULL is no process, no block and no buffer.
LEMMA NullApart == NULL \notin Proc /\ NULL \notin Block /\ NULL \notin Buf
  BY BufAssumption

\* When bget gives a buffer to a process that had none, its holders are one more.
LEMMA HolderJoins ==
  ASSUME TypeOK, NEW p \in Proc, NEW c \in Buf, b[p] = NULL, b' = [b EXCEPT ![p] = c]
  PROVE  /\ Cardinality(Holders(c)') = Cardinality(Holders(c)) + 1
         /\ \A d \in Buf \ {c} : Holders(d)' = Holders(d)
<1>1. Holders(c)' = Holders(c) \cup {p}
  BY DEF Holders, TypeOK
<1>2. p \notin Holders(c)
  BY NullApart DEF Holders
<1>3. Cardinality(Holders(c)') = Cardinality(Holders(c)) + 1
  BY <1>1, <1>2, HoldersFinite, FS_AddElement, Zenon
<1>4. \A d \in Buf \ {c} : Holders(d)' = Holders(d)
  <2> SUFFICES ASSUME NEW d \in Buf \ {c} PROVE Holders(d)' = Holders(d)
    OBVIOUS
  <2>1. \A q \in Proc : b'[q] = d <=> b[q] = d
    BY NullApart DEF TypeOK
  <2> QED
    BY <2>1 DEF Holders
<1> QED
  BY <1>3, <1>4

\* When brelse takes it back, they are one fewer.
LEMMA HolderLeaves ==
  ASSUME TypeOK, NEW p \in Proc, NEW c \in Buf, b[p] = c, b' = [b EXCEPT ![p] = NULL]
  PROVE  /\ Cardinality(Holders(c)) \in Nat \ {0}
         /\ Cardinality(Holders(c)') = Cardinality(Holders(c)) - 1
         /\ \A d \in Buf \ {c} : Holders(d)' = Holders(d)
<1>1. p \in Holders(c)
  BY DEF Holders
<1>2. Cardinality(Holders(c)) \in Nat \ {0}
  BY <1>1, HoldersFinite, FS_EmptySet
<1>3. Holders(c)' = Holders(c) \ {p}
  BY NullApart DEF Holders, TypeOK
<1>4. Cardinality(Holders(c)') = Cardinality(Holders(c)) - 1
  <2>1. Cardinality(Holders(c) \ {p}) =
          IF p \in Holders(c) THEN Cardinality(Holders(c)) - 1 ELSE Cardinality(Holders(c))
    BY HoldersFinite, FS_RemoveElement, Zenon
  <2> QED
    BY <1>1, <1>3, <2>1, Zenon
<1>5. \A d \in Buf \ {c} : Holders(d)' = Holders(d)
  <2> SUFFICES ASSUME NEW d \in Buf \ {c} PROVE Holders(d)' = Holders(d)
    OBVIOUS
  <2>1. \A q \in Proc : b'[q] = d <=> b[q] = d
    BY NullApart DEF TypeOK
  <2> QED
    BY <2>1 DEF Holders
<1> QED
  BY <1>2, <1>4, <1>5

\* RefcntExact in terms of Holders.
LEMMA RefcntHolders ==
  RefcntExact <=>
    \A c \in Buf :
      refcnt[c] = Cardinality(Holders(c)) + (IF blockno[c] \in pins THEN 1 ELSE 0)
  BY DEF RefcntExact, Holders

\* Moving a buffer to the front of the list leaves a list of buffers.
LEMMA MoveToFrontType ==
  ASSUME order \in Seq(Buf), NEW c \in Buf
  PROVE  MoveToFront(c) \in Seq(Buf)
<1>1. Len(order) \in Nat /\ \A j \in 1..Len(order) : order[j] \in Buf
  OBVIOUS
<1>2. \A j \in 1..Len(order) : MoveToFront(c)[j] \in Buf
  BY <1>1 DEF MoveToFront
<1> QED
  BY <1>1, <1>2 DEF MoveToFront

\* binit establishes the invariant.
LEMMA InitInv == Init => Inv
<1> SUFFICES ASSUME Init PROVE Inv
  OBVIOUS
<1>1. TypeOK
  BY BufAssumption, ValAssumption DEF Init, TypeOK
<1>2. SingleCopy /\ HoldersExact /\ PinnedCached
  BY DEF Init, SingleCopy, HoldersExact, PinnedCached
<1>3. RefcntExact
  <2>1. \A c \in Buf : Holders(c) = {}
    BY NullApart DEF Init, Holders
  <2>2. \A c \in Buf : Cardinality(Holders(c)) = 0
    BY <2>1, FS_EmptySet
  <2> QED
    BY <2>2, RefcntHolders DEF Init
<1> QED
  BY <1>1, <1>2, <1>3 DEF Inv

\* bget of a block that is cached.
LEMMA HitInv ==
  ASSUME Inv, NEW p \in Proc, NEW k \in Block, bget_hit(p, k)
  PROVE  Inv'
<1>1. PICK c \in Buf : /\ blockno[c] = k
                       /\ refcnt' = [refcnt EXCEPT ![c] = @ + 1]
                       /\ b' = [b EXCEPT ![p] = c]
  BY Zenon DEF bget_hit
<1>2. TypeOK'
  BY <1>1 DEF Inv, TypeOK, bget_hit, Goto, bufs
<1>3. SingleCopy' /\ PinnedCached'
  BY DEF Inv, SingleCopy, PinnedCached, bget_hit, bufs
<1>4. HoldersExact'
  BY <1>1 DEF Inv, TypeOK, HoldersExact, bget_hit, Goto, bufs
<1>5. RefcntExact'
  <2>1. b[p] = NULL
    BY DEF Inv, HoldersExact, bget_hit
  <2>2. /\ Cardinality(Holders(c)') = Cardinality(Holders(c)) + 1
        /\ \A d \in Buf \ {c} : Holders(d)' = Holders(d)
    BY <1>1, <2>1, HolderJoins, Zenon DEF Inv
  <2>3. pins' = pins /\ blockno' = blockno
    BY DEF bget_hit, bufs
  <2>4. \A d \in Buf : refcnt'[d] =
          Cardinality(Holders(d)') + (IF blockno'[d] \in pins' THEN 1 ELSE 0)
    BY <1>1, <2>2, <2>3, RefcntHolders, HoldersFinite DEF Inv, TypeOK
  <2> QED
    BY <2>4 DEF RefcntExact, Holders
<1> QED
  BY <1>2, <1>3, <1>4, <1>5 DEF Inv

\* bget of a block that is not: the recycled buffer has no holder and caches
\* no pinned block.
LEMMA RecycleInv ==
  ASSUME Inv, NEW p \in Proc, NEW k \in Block, bget_recycle(p, k)
  PROVE  Inv'
<1>1. PICK j \in Unused : /\ blockno' = [blockno EXCEPT ![order[j]] = k]
                          /\ valid' = [valid EXCEPT ![order[j]] = FALSE]
                          /\ refcnt' = [refcnt EXCEPT ![order[j]] = 1]
                          /\ b' = [b EXCEPT ![p] = order[j]]
  BY Zenon DEF bget_recycle
<1>2. PICK c \in Buf : c = order[j] /\ refcnt[c] = 0
  BY DEF Inv, TypeOK, Unused
<1>3. /\ blockno' = [blockno EXCEPT ![c] = k] /\ valid' = [valid EXCEPT ![c] = FALSE]
      /\ refcnt' = [refcnt EXCEPT ![c] = 1] /\ b' = [b EXCEPT ![p] = c]
  BY <1>1, <1>2
<1>4. Cardinality(Holders(c)) = 0 /\ blockno[c] \notin pins
  BY <1>2, RefcntHolders, HoldersFinite DEF Inv
<1>5. \A q \in Proc : b[q] # c
  <2>1. Holders(c) = {}
    BY <1>4, HoldersFinite, FS_EmptySet
  <2> QED
    BY <2>1 DEF Holders
<1>6. \A d \in Buf : blockno[d] # k
  BY DEF bget_recycle
<1>7. TypeOK'
  BY <1>3 DEF Inv, TypeOK, bget_recycle, Goto
<1>8. SingleCopy'
  BY <1>3, <1>6 DEF Inv, TypeOK, SingleCopy
<1>9. HoldersExact'
  BY <1>3, <1>5 DEF Inv, TypeOK, HoldersExact, bget_recycle, Goto
<1>10. PinnedCached'
  BY <1>3, <1>4 DEF Inv, TypeOK, PinnedCached, bget_recycle
<1>11. RefcntExact'
  <2>1. b[p] = NULL
    BY DEF Inv, HoldersExact, bget_recycle
  <2>2. /\ Cardinality(Holders(c)') = Cardinality(Holders(c)) + 1
        /\ \A d \in Buf \ {c} : Holders(d)' = Holders(d)
    BY <1>3, <2>1, HolderJoins, Zenon DEF Inv
  <2>3. k \notin pins /\ pins' = pins
    BY <1>6 DEF Inv, PinnedCached, bget_recycle
  <2>4. \A d \in Buf : refcnt'[d] =
          Cardinality(Holders(d)') + (IF blockno'[d] \in pins' THEN 1 ELSE 0)
    <3> SUFFICES ASSUME NEW d \in Buf
                 PROVE  refcnt'[d] = Cardinality(Holders(d)')
                                       + (IF blockno'[d] \in pins' THEN 1 ELSE 0)
      OBVIOUS
    <3>1. CASE d = c
      <4>1. refcnt'[c] = 1 /\ blockno'[c] = k
        BY <1>3 DEF Inv, TypeOK
      <4> QED
        BY <3>1, <4>1, <1>4, <2>2, <2>3
    <3>2. CASE d # c
      <4>1. refcnt'[d] = refcnt[d] /\ blockno'[d] = blockno[d]
        BY <3>2, <1>3 DEF Inv, TypeOK
      <4> QED
        BY <3>2, <4>1, <2>2, <2>3, RefcntHolders DEF Inv
    <3> QED
      BY <3>1, <3>2
  <2> QED
    BY <2>4 DEF RefcntExact, Holders
<1> QED
  BY <1>7, <1>8, <1>9, <1>10, <1>11 DEF Inv

\* log_write pins a block that was not pinned, and install_trans unpins it:
\* exactly one count changes, because the block is in one buffer.
LEMMA PinInv ==
  ASSUME Inv, NEW p \in Proc, bpin(p) \/ bunpin(p)
  PROVE  Inv'
<1>1. PICK c \in Buf : c = b[p] /\ blockno[c] \in Block
  BY DEF Inv, HoldersExact, bpin, bunpin
<1>2. UNCHANGED <<order, blockno, valid, data, lock, disk, pc, b>>
  BY DEF bpin, bunpin, bufs
<1>3. \A d \in Buf : Holders(d)' = Holders(d)
  BY <1>2 DEF Holders
<1>4. SingleCopy' /\ HoldersExact'
  BY <1>2 DEF Inv, SingleCopy, HoldersExact
<1>5. \A d \in Buf \ {c} : blockno[d] # blockno[c]
  BY <1>1, NullApart DEF Inv, SingleCopy
<1>6. CASE bpin(p)
  <2>1. /\ blockno[c] \notin pins /\ pins' = pins \cup {blockno[c]}
        /\ refcnt' = [refcnt EXCEPT ![c] = @ + 1]
    BY <1>1, <1>6 DEF bpin
  <2>2. TypeOK'
    BY <1>1, <1>2, <2>1 DEF Inv, TypeOK
  <2>3. PinnedCached'
    BY <1>1, <1>2, <2>1 DEF Inv, PinnedCached
  <2>4. \A d \in Buf : refcnt'[d] =
          Cardinality(Holders(d)') + (IF blockno'[d] \in pins' THEN 1 ELSE 0)
    BY <1>2, <1>3, <1>5, <2>1, RefcntHolders, HoldersFinite DEF Inv, TypeOK
  <2>5. RefcntExact'
    BY <2>4 DEF RefcntExact, Holders
  <2> QED
    BY <1>4, <2>2, <2>3, <2>5 DEF Inv
<1>7. CASE bunpin(p)
  <2>1. /\ blockno[c] \in pins /\ pins' = pins \ {blockno[c]}
        /\ refcnt' = [refcnt EXCEPT ![c] = @ - 1]
    BY <1>1, <1>7 DEF bunpin
  <2>2. refcnt[c] - 1 \in Nat
    BY <2>1, RefcntHolders, HoldersFinite DEF Inv
  <2>3. TypeOK'
    BY <1>2, <2>1, <2>2 DEF Inv, TypeOK
  <2>4. PinnedCached'
    BY <1>2, <2>1 DEF Inv, PinnedCached
  <2>5. \A d \in Buf : refcnt'[d] =
          Cardinality(Holders(d)') + (IF blockno'[d] \in pins' THEN 1 ELSE 0)
    BY <1>2, <1>3, <1>5, <2>1, RefcntHolders, HoldersFinite DEF Inv, TypeOK
  <2>6. RefcntExact'
    BY <2>5 DEF RefcntExact, Holders
  <2> QED
    BY <1>4, <2>3, <2>4, <2>6 DEF Inv
<1> QED
  BY <1>6, <1>7

\* The second half of brelse.
LEMMA BrelseInv ==
  ASSUME Inv, NEW p \in Proc, brelse(p)
  PROVE  Inv'
<1>1. PICK c \in Buf : c = b[p]
  BY DEF Inv, HoldersExact, brelse
<1>2. /\ refcnt' = [refcnt EXCEPT ![c] = @ - 1]
      /\ order' = IF refcnt[c] = 1 THEN MoveToFront(c) ELSE order
      /\ b' = [b EXCEPT ![p] = NULL]
      /\ pc' = [pc EXCEPT ![p] = "idle"]
      /\ UNCHANGED <<blockno, valid, data, lock, disk, pins>>
  BY <1>1 DEF brelse, Goto, bufs
<1>3. /\ Cardinality(Holders(c)) \in Nat \ {0}
      /\ Cardinality(Holders(c)') = Cardinality(Holders(c)) - 1
      /\ \A d \in Buf \ {c} : Holders(d)' = Holders(d)
  BY <1>1, <1>2, HolderLeaves, Zenon DEF Inv
<1>4. refcnt[c] - 1 \in Nat
  BY <1>3, RefcntHolders DEF Inv
<1>5. order' \in Seq(Buf)
  BY <1>2, MoveToFrontType DEF Inv, TypeOK
<1>6. TypeOK'
  BY <1>2, <1>4, <1>5 DEF Inv, TypeOK
<1>7. SingleCopy' /\ PinnedCached'
  BY <1>2 DEF Inv, SingleCopy, PinnedCached
<1>8. HoldersExact'
  BY <1>2 DEF Inv, TypeOK, HoldersExact
<1>9. RefcntExact'
  <2>1. \A d \in Buf : refcnt'[d] =
          Cardinality(Holders(d)') + (IF blockno'[d] \in pins' THEN 1 ELSE 0)
    BY <1>2, <1>3, RefcntHolders, HoldersFinite DEF Inv, TypeOK
  <2> QED
    BY <2>1 DEF RefcntExact, Holders
<1> QED
  BY <1>6, <1>7, <1>8, <1>9 DEF Inv

\* What only takes or releases a sleep lock, or transfers or changes data,
\* leaves the counts and the cached blocks alone.
LEMMA CountsKept ==
  ASSUME Inv, UNCHANGED <<blockno, refcnt, pins, b>>
  PROVE  SingleCopy' /\ PinnedCached' /\ RefcntExact'
  BY DEF Inv, SingleCopy, PinnedCached, RefcntExact

\* The sleep lock: a second process does not get it, and the one that has it
\* loses it only by releasing it.
LEMMA SleeplockInv ==
  ASSUME Inv, NEW p \in Proc, acquiresleep(p) \/ releasesleep(p)
  PROVE  Inv'
<1>1. SingleCopy' /\ PinnedCached' /\ RefcntExact'
  BY CountsKept DEF acquiresleep, releasesleep, bufs
<1>2. b[p] \in Buf
  BY DEF Inv, HoldersExact, acquiresleep, releasesleep
<1>3. CASE acquiresleep(p)
  <2>1. TypeOK'
    <3>1. UNCHANGED <<order, blockno, valid, data, refcnt, disk, pins, b>>
      BY <1>3 DEF acquiresleep, bufs
    <3>2. \/ lock' = [lock EXCEPT ![b[p]] = p] /\ pc' = [pc EXCEPT ![p] = "bread"]
          \/ lock' = lock /\ pc' = [pc EXCEPT ![p] = "asleep"]
      BY <1>3 DEF acquiresleep, Goto
    <3>3. lock' \in [Buf -> Proc \cup {NULL}]
      BY <3>2 DEF Inv, TypeOK
    <3>4. pc' \in [Proc -> {"idle", "acquiresleep", "asleep", "woken", "bread", "use",
                            "brelse", "panic"}]
      BY <3>2 DEF Inv, TypeOK
    <3> QED
      BY <3>1, <3>3, <3>4 DEF Inv, TypeOK
  <2>2. HoldersExact'
    <3>1. CASE lock[b[p]] = NULL
      <4>1. /\ lock' = [lock EXCEPT ![b[p]] = p] /\ pc' = [pc EXCEPT ![p] = "bread"]
            /\ b' = b /\ blockno' = blockno /\ pc[p] \in {"acquiresleep", "woken"}
        BY <1>3, <3>1 DEF acquiresleep, Goto, bufs
      <4>2. \A q \in Proc : pc[q] \in {"bread", "use"} => lock[b[q]] = q /\ b[q] \in Buf
        BY DEF Inv, HoldersExact
      <4>3. \A q \in Proc : pc[q] \in {"bread", "use"} => b[q] # b[p]
        BY <4>2, <3>1, NullApart
      <4>4. \A q \in Proc : pc'[q] \in {"bread", "use"} => lock'[b'[q]] = q
        BY <1>2, <4>1, <4>2, <4>3 DEF Inv, TypeOK
      <4>5. \A q \in Proc : pc'[q] \in {"idle", "panic"} <=> pc[q] \in {"idle", "panic"}
        BY <4>1 DEF Inv, TypeOK
      <4> QED
        BY <4>1, <4>4, <4>5 DEF Inv, HoldersExact
    <3>2. CASE lock[b[p]] # NULL
      BY <1>3, <3>2 DEF Inv, TypeOK, HoldersExact, acquiresleep, Goto, bufs
    <3> QED
      BY <3>1, <3>2
  <2> QED
    BY <1>1, <2>1, <2>2 DEF Inv
<1>4. CASE releasesleep(p)
  <2>1. TypeOK'
    BY <1>2, <1>4 DEF Inv, TypeOK, releasesleep, bufs
  <2>2. HoldersExact'
    <3>1. /\ lock' = [lock EXCEPT ![b[p]] = NULL] /\ b' = b /\ blockno' = blockno
          /\ pc[p] = "use" /\ pc'[p] = "brelse"
          /\ \A q \in Proc \ {p} : \/ pc'[q] = pc[q]
                                   \/ pc[q] = "asleep" /\ pc'[q] = "woken"
      BY <1>4 DEF releasesleep, bufs
    <3>2. \A q \in Proc : pc[q] \in {"bread", "use"} => lock[b[q]] = q /\ b[q] \in Buf
      BY DEF Inv, HoldersExact
    <3>3. \A q \in Proc \ {p} : pc[q] \in {"bread", "use"} => b[q] # b[p]
      BY <3>1, <3>2
    <3>4. \A q \in Proc : pc'[q] \in {"bread", "use"} => lock'[b'[q]] = q
      BY <1>2, <3>1, <3>2, <3>3 DEF Inv, TypeOK
    <3>5. \A q \in Proc : pc'[q] \in {"idle", "panic"} <=> pc[q] \in {"idle", "panic"}
      BY <3>1
    <3> QED
      BY <3>1, <3>4, <3>5 DEF Inv, HoldersExact
  <2> QED
    BY <1>1, <2>1, <2>2 DEF Inv
<1> QED
  BY <1>3, <1>4

\* Data: the steps of the process that has the lock, and the panic of bget.
LEMMA DataInv ==
  ASSUME Inv, NEW p \in Proc,
         \/ bread(p) \/ (\E x \in Val : modify(p, x)) \/ bwrite(p)
         \/ \E k \in Block : bget_panic(p, k)
  PROVE  Inv'
<1>1. SingleCopy' /\ PinnedCached' /\ RefcntExact'
  BY CountsKept DEF bread, modify, bwrite, bget_panic, bufs
<1>2. CASE bread(p)
  <2>1. b[p] \in Buf /\ blockno[b[p]] \in Block
    BY <1>2 DEF Inv, HoldersExact, bread
  <2>2. TypeOK' /\ HoldersExact'
    BY <1>2, <2>1 DEF Inv, TypeOK, HoldersExact, bread, Goto
  <2> QED
    BY <1>1, <2>2 DEF Inv
<1>3. CASE \E x \in Val : modify(p, x)
  <2>1. PICK x \in Val : modify(p, x)
    BY <1>3
  <2>2. TypeOK'
    BY <2>1, Zenon DEF Inv, TypeOK, modify
  <2>3. HoldersExact'
    BY <2>1 DEF Inv, HoldersExact, modify
  <2> QED
    BY <1>1, <2>2, <2>3 DEF Inv
<1>4. CASE bwrite(p)
  <2>1. b[p] \in Buf /\ blockno[b[p]] \in Block
    BY <1>4 DEF Inv, HoldersExact, bwrite
  <2>2. TypeOK' /\ HoldersExact'
    BY <1>4, <2>1 DEF Inv, TypeOK, HoldersExact, bwrite, bufs
  <2> QED
    BY <1>1, <2>2 DEF Inv
<1>5. CASE \E k \in Block : bget_panic(p, k)
  BY <1>1, <1>5 DEF Inv, TypeOK, HoldersExact, bget_panic, Goto, bufs
<1> QED
  BY <1>2, <1>3, <1>4, <1>5

\* Every step preserves the invariant.
LEMMA NextInv == Inv /\ [Next]_vars => Inv'
<1> SUFFICES ASSUME Inv, [Next]_vars PROVE Inv'
  OBVIOUS
<1>1. CASE UNCHANGED vars
  BY <1>1 DEF vars, Inv, TypeOK, SingleCopy, HoldersExact, PinnedCached, RefcntExact
<1>2. ASSUME NEW p \in Proc, NEW k \in Block, bget_hit(p, k) PROVE Inv'
  BY <1>2, HitInv
<1>3. ASSUME NEW p \in Proc, NEW k \in Block, bget_recycle(p, k) PROVE Inv'
  BY <1>3, RecycleInv
<1>4. ASSUME NEW p \in Proc, bpin(p) \/ bunpin(p) PROVE Inv'
  BY <1>4, PinInv
<1>5. ASSUME NEW p \in Proc, brelse(p) PROVE Inv'
  BY <1>5, BrelseInv
<1>6. ASSUME NEW p \in Proc, acquiresleep(p) \/ releasesleep(p) PROVE Inv'
  BY <1>6, SleeplockInv
<1>7. ASSUME NEW p \in Proc,
             \/ bread(p) \/ (\E x \in Val : modify(p, x)) \/ bwrite(p)
             \/ \E k \in Block : bget_panic(p, k)
      PROVE  Inv'
  BY <1>7, DataInv
<1> QED
  BY <1>1, <1>2, <1>3, <1>4, <1>5, <1>6, <1>7 DEF Next

\* The invariant holds in every reachable state.
THEOREM Invariant == Spec => []Inv
  BY InitInv, NextInv, PTL DEF Spec

\* Every field keeps its type; in particular no reference count of brelse or
\* bunpin goes below zero.
THEOREM TypeCorrect == Spec => []TypeOK
<1>1. Inv => TypeOK
  BY DEF Inv
<1> QED
  BY <1>1, Invariant, PTL

\* bget never lets a block into two buffers.
THEOREM OneCopy == Spec => []SingleCopy
<1>1. Inv => SingleCopy
  BY DEF Inv
<1> QED
  BY <1>1, Invariant, PTL

\* Reference counts are exact, so bget recycles no buffer that somebody has,
\* waits for or has pinned.
THEOREM CountsExact == Spec => []RefcntExact
<1>1. Inv => RefcntExact
  BY DEF Inv
<1> QED
  BY <1>1, Invariant, PTL

\* Two processes that both have the data of a block between bread and brelse
\* are one process.
BlockExclusive ==
  \A p, q \in Proc :
    pc[p] = "use" /\ pc[q] = "use" /\ blockno[b[p]] = blockno[b[q]] => p = q

\* What the callers of bread rely on: it is OneCopy and the sleep lock together.
THEOREM MutualExclusion == Spec => []BlockExclusive
<1>1. Inv => BlockExclusive
  <2> SUFFICES ASSUME Inv, NEW p \in Proc, NEW q \in Proc,
                      pc[p] = "use", pc[q] = "use", blockno[b[p]] = blockno[b[q]]
               PROVE  p = q
    BY DEF BlockExclusive
  <2>1. /\ b[p] \in Buf /\ blockno[b[p]] \in Block /\ lock[b[p]] = p
        /\ b[q] \in Buf /\ lock[b[q]] = q
    BY DEF Inv, HoldersExact
  <2>2. b[p] = b[q]
    BY <2>1, NullApart DEF Inv, SingleCopy
  <2> QED
    BY <2>1, <2>2
<1> QED
  BY <1>1, Invariant, PTL
-----------------------------------------------------------------------------
(* The cache implements BlockStore. *)

\* Somebody is between bread and brelse with buffer c.
InUse(c) == \E p \in Proc : pc[p] = "use" /\ b[p] = c

\* Data that differ from the disk are in use or pinned, and nobody uses data
\* that were not read.
Clean ==
  /\ \A p \in Proc : pc[p] = "use" => valid[b[p]]
  /\ \A c \in Buf : blockno[c] \in Block /\ valid[c] =>
       data[c] = disk[blockno[c]] \/ blockno[c] \in pins \/ InUse(c)

\* What Content and User come to, given one copy of each block.
ContentIs ==
  /\ \A c \in Buf : blockno[c] \in Block /\ valid[c] => Content(blockno[c]) = data[c]
  /\ \A k \in Block :
       (\A c \in Buf : ~(blockno[c] = k /\ valid[c])) => Content(k) = disk[k]
UserIs ==
  /\ \A p \in Proc : pc[p] = "use" => User(blockno[b[p]]) = p
  /\ \A k \in Block :
       (\A p \in Proc : ~(pc[p] = "use" /\ blockno[b[p]] = k)) => User(k) = NULL

\* bget keeps one copy of a block, and its sleep lock lets in one user.
LEMMA Unique == Inv => ContentIs /\ UserIs
<1> SUFFICES ASSUME Inv PROVE ContentIs /\ UserIs
  OBVIOUS
<1>1. ContentIs
  <2>1. \A c, d \in Buf : blockno[c] \in Block /\ blockno[d] = blockno[c] => d = c
    BY NullApart DEF Inv, SingleCopy
  <2> QED
    BY <2>1 DEF ContentIs, Content
<1>2. UserIs
  <2>1. \A p, q \in Proc :
          pc[p] = "use" /\ pc[q] = "use" /\ blockno[b[q]] = blockno[b[p]] => q = p
    BY NullApart DEF Inv, HoldersExact, SingleCopy
  <2> QED
    BY <2>1 DEF UserIs, User
<1> QED
  BY <1>1, <1>2

\* The same in the next state.
LEMMA UniqueNext == Inv' => ContentIs' /\ UserIs'
BY Unique, PTL

\* A step after which the same processes use the same blocks.
LEMMA SameUser ==
  ASSUME Inv, Inv', \A q \in Proc : pc[q] = "use" <=> pc'[q] = "use",
         \A q \in Proc : pc[q] = "use" => blockno'[b'[q]] = blockno[b[q]]
  PROVE  \A k \in Block : User(k)' = User(k)
<1>1. UserIs /\ UserIs'
  BY Unique, UniqueNext
<1> SUFFICES ASSUME NEW k \in Block PROVE User(k)' = User(k)
  OBVIOUS
<1>2. CASE \E p \in Proc : pc[p] = "use" /\ blockno[b[p]] = k
  BY <1>1, <1>2 DEF UserIs
<1>3. CASE ~\E p \in Proc : pc[p] = "use" /\ blockno[b[p]] = k
  BY <1>1, <1>3 DEF UserIs
<1> QED
  BY <1>2, <1>3

\* A step that leaves the buffers and the disk alone.
LEMMA SameContent ==
  ASSUME UNCHANGED <<bufs, disk>>
  PROVE  \A k \in Block : Content(k)' = Content(k)
BY DEF bufs, Content

\* bget, when it recycles a buffer: that holds nothing the disk does not have.
LEMMA RecycleContent ==
  ASSUME Inv, Inv', Clean, NEW p \in Proc, NEW k \in Block, bget_recycle(p, k)
  PROVE  /\ Clean'
         /\ \A l \in Block : Content(l)' = Content(l) /\ User(l)' = User(l)
<1>1. PICK c \in Buf :
        /\ refcnt[c] = 0
        /\ blockno' = [blockno EXCEPT ![c] = k] /\ valid' = [valid EXCEPT ![c] = FALSE]
        /\ b' = [b EXCEPT ![p] = c]
  <2>1. PICK j \in Unused :
          /\ blockno' = [blockno EXCEPT ![order[j]] = k]
          /\ valid' = [valid EXCEPT ![order[j]] = FALSE]
          /\ b' = [b EXCEPT ![p] = order[j]]
    BY Zenon DEF bget_recycle
  <2>2. order[j] \in Buf /\ refcnt[order[j]] = 0
    BY DEF Inv, TypeOK, Unused
  <2> QED
    BY <2>1, <2>2, Zenon
<1>2. /\ pc[p] = "idle" /\ pc' = [pc EXCEPT ![p] = "acquiresleep"]
      /\ \A d \in Buf : blockno[d] # k
      /\ UNCHANGED <<data, disk, pins>>
  BY DEF bget_recycle, Goto
<1>3. blockno[c] \notin pins /\ \A q \in Proc : b[q] # c
  <2>1. Cardinality(Holders(c)) = 0 /\ blockno[c] \notin pins
    BY <1>1, HoldersFinite, RefcntHolders DEF Inv
  <2>2. Holders(c) = {}
    BY <2>1, HoldersFinite, FS_EmptySet
  <2> QED
    BY <2>1, <2>2 DEF Holders
<1>4. Clean'
  BY <1>1, <1>2, <1>3 DEF Clean, InUse, Inv, TypeOK, HoldersExact
<1>5. \A l \in Block : User(l)' = User(l)
  BY <1>1, <1>2, <1>3, SameUser DEF Inv, TypeOK, HoldersExact
<1>6. ASSUME NEW l \in Block PROVE Content(l)' = Content(l)
  <2>1. ContentIs /\ ContentIs'
    BY Unique, UniqueNext
  <2>2. CASE \E d \in Buf \ {c} : blockno[d] = l /\ valid[d]
    BY <1>1, <1>2, <2>1, <2>2 DEF ContentIs, Inv, TypeOK
  <2>3. CASE blockno[c] = l /\ valid[c]
    <3>1. Content(l) = disk[l]
      BY <1>3, <2>1, <2>3 DEF ContentIs, Clean, InUse
    <3>2. \A d \in Buf : ~(blockno'[d] = l /\ valid'[d])
      BY <1>1, <2>3, NullApart DEF Inv, TypeOK, SingleCopy
    <3> QED
      BY <1>2, <2>1, <3>1, <3>2 DEF ContentIs
  <2>4. CASE \A d \in Buf : ~(blockno[d] = l /\ valid[d])
    <3>1. \A d \in Buf : ~(blockno'[d] = l /\ valid'[d])
      BY <1>1, <2>4 DEF Inv, TypeOK
    <3> QED
      BY <1>2, <2>1, <2>4, <3>1 DEF ContentIs
  <2> QED
    BY <2>2, <2>3, <2>4
<1> QED
  BY <1>4, <1>5, <1>6

\* The steps that change neither data nor who uses them.
LEMMA QuietContent ==
  ASSUME Inv, Inv', Clean, NEW p \in Proc,
         \/ \E k \in Block : bget_hit(p, k) \/ bget_panic(p, k)
         \/ acquiresleep(p) \/ brelse(p) \/ bpin(p) \/ bunpin(p)
  PROVE  /\ Clean'
         /\ \A l \in Block : Content(l)' = Content(l) /\ User(l)' = User(l)
<1>1. UNCHANGED <<bufs, disk>>
  BY DEF bget_hit, bget_panic, acquiresleep, brelse, bpin, bunpin
<1>2. /\ \A q \in Proc : pc[q] = "use" <=> pc'[q] = "use"
      /\ \A q \in Proc : pc[q] = "use" => b'[q] = b[q]
  BY DEF bget_hit, bget_panic, acquiresleep, brelse, bpin, bunpin, Goto, Inv, TypeOK
<1>3. \A l \in Block : Content(l)' = Content(l)
  BY <1>1, SameContent
<1>4. \A l \in Block : User(l)' = User(l)
  BY <1>1, <1>2, SameUser DEF bufs
<1>5. \A c \in Buf : InUse(c) => InUse(c)'
  BY <1>2 DEF InUse
<1>6. \A c \in Buf : blockno[c] \in pins =>
        blockno[c] \in pins' \/ data[c] = disk[blockno[c]]
  <2>1. CASE bunpin(p)
    <3>1. b[p] \in Buf /\ blockno[b[p]] \in Block
      BY <2>1 DEF bunpin, Inv, HoldersExact
    <3> QED
      BY <2>1, <3>1, NullApart DEF bunpin, Inv, SingleCopy
  <2>2. CASE ~bunpin(p)
    BY <2>2 DEF bget_hit, bget_panic, acquiresleep, brelse, bpin
  <2> QED
    BY <2>1, <2>2
<1>7. Clean'
  BY <1>1, <1>2, <1>5, <1>6 DEF Clean, bufs
<1> QED
  BY <1>3, <1>4, <1>7

\* bread: the caller finds what the last user of the block left, in the
\* buffer or, if the buffer was recycled in between, on the disk.
LEMMA BreadTakes ==
  ASSUME Inv, Inv', Clean, NEW p \in Proc, bread(p)
  PROVE  Clean' /\ Store!Take(p, blockno[b[p]])
<1>1. PICK c \in Buf, k \in Block : b[p] = c /\ blockno[c] = k /\ lock[c] = p
  BY DEF bread, Inv, HoldersExact
<1>2. /\ pc[p] = "bread" /\ pc' = [pc EXCEPT ![p] = "use"]
      /\ valid' = [valid EXCEPT ![c] = TRUE]
      /\ data' = IF valid[c] THEN data ELSE [data EXCEPT ![c] = disk[k]]
      /\ UNCHANGED <<blockno, disk, pins, b>>
  BY <1>1 DEF bread, Goto
<1>3. \A d \in Buf : blockno[d] = k => d = c
  BY <1>1, NullApart DEF Inv, SingleCopy
<1>4. \A q \in Proc : pc[q] = "use" => b[q] \in Buf /\ b[q] # c
  BY <1>1, <1>2 DEF Inv, HoldersExact
<1>5. ContentIs /\ ContentIs' /\ UserIs /\ UserIs'
  BY Unique, UniqueNext
<1>6. Clean'
  <2>1. InUse(c)'
    BY <1>1, <1>2 DEF InUse, Inv, TypeOK
  <2>2. \A d \in Buf : InUse(d) => InUse(d)'
    BY <1>2 DEF InUse, Inv, TypeOK
  <2>3. \A q \in Proc : pc'[q] = "use" => valid'[b'[q]]
    BY <1>1, <1>2, <1>4 DEF Clean, Inv, TypeOK
  <2>4. \A d \in Buf \ {c} : data'[d] = data[d] /\ valid'[d] = valid[d]
    BY <1>1, <1>2 DEF Inv, TypeOK
  <2> QED
    BY <1>2, <2>1, <2>2, <2>3, <2>4 DEF Clean
<1>7. ASSUME NEW l \in Block PROVE Content(l)' = Content(l)
  <2>1. CASE l = k
    <3>1. Content(l)' = data'[c]
      BY <1>1, <1>2, <1>5, <2>1 DEF ContentIs, Inv, TypeOK
    <3>2. CASE valid[c]
      BY <1>1, <1>2, <1>5, <2>1, <3>1, <3>2 DEF ContentIs
    <3>3. CASE ~valid[c]
      <4>1. Content(l) = disk[l]
        BY <1>3, <1>5, <2>1, <3>3 DEF ContentIs
      <4>2. data'[c] = disk[k]
        BY <1>1, <1>2, <3>3 DEF Inv, TypeOK
      <4> QED
        BY <2>1, <3>1, <4>1, <4>2
    <3> QED
      BY <3>2, <3>3
  <2>2. CASE l # k
    <3>1. \A d \in Buf : blockno[d] = l =>
            d # c /\ valid'[d] = valid[d] /\ data'[d] = data[d]
      BY <1>1, <1>2, <2>2, Zenon DEF Inv, TypeOK
    <3>2. CASE \E d \in Buf : blockno[d] = l /\ valid[d]
      BY <1>2, <1>5, <3>1, <3>2 DEF ContentIs
    <3>3. CASE ~\E d \in Buf : blockno[d] = l /\ valid[d]
      BY <1>2, <1>5, <3>1, <3>3, Zenon DEF ContentIs
    <3> QED
      BY <3>2, <3>3
  <2> QED
    BY <2>1, <2>2
<1>8. User(k) = NULL /\ User(k)' = p
  <2>1. \A q \in Proc : ~(pc[q] = "use" /\ blockno[b[q]] = k)
    BY <1>3, <1>4
  <2>2. pc'[p] = "use" /\ blockno'[b'[p]] = k
    BY <1>1, <1>2 DEF Inv, TypeOK
  <2> QED
    BY <1>1, <1>5, <2>1, <2>2 DEF UserIs
<1>9. ASSUME NEW l \in Block \ {k} PROVE User(l)' = User(l)
  <2>1. \A q \in Proc : /\ blockno'[b'[q]] = blockno[b[q]]
                        /\ blockno[b[q]] = l => (pc'[q] = "use" <=> pc[q] = "use")
    BY <1>1, <1>2 DEF Inv, TypeOK
  <2>2. CASE \E q \in Proc : pc[q] = "use" /\ blockno[b[q]] = l
    BY <1>5, <2>1, <2>2 DEF UserIs
  <2>3. CASE ~\E q \in Proc : pc[q] = "use" /\ blockno[b[q]] = l
    BY <1>5, <2>1, <2>3 DEF UserIs
  <2> QED
    BY <2>2, <2>3
<1>10. Store!Take(p, k)
  BY <1>1, <1>7, <1>8, <1>9, Zenon DEF Store!Take
<1> QED
  BY <1>1, <1>6, <1>10

\* The caller of bread changes the data of its block, and of no other.
LEMMA ModifyChanges ==
  ASSUME Inv, Inv', Clean, NEW p \in Proc, NEW x \in Val, modify(p, x)
  PROVE  Clean' /\ Store!Change(p, blockno[b[p]], x)
<1>1. PICK c \in Buf, k \in Block :
        b[p] = c /\ blockno[c] = k /\ pc[p] = "use" /\ valid[c]
  BY DEF modify, Inv, HoldersExact, Clean
<1>2. /\ data' = [data EXCEPT ![c] = x]
      /\ UNCHANGED <<blockno, valid, disk, pins, pc, b>>
  BY <1>1 DEF modify
<1>3. ContentIs /\ ContentIs' /\ UserIs
  BY Unique, UniqueNext
<1>4. Clean'
  <2>1. InUse(c)' /\ \A d \in Buf : InUse(d) => InUse(d)'
    BY <1>1, <1>2 DEF InUse
  <2> QED
    BY <1>1, <1>2, <2>1 DEF Clean, Inv, TypeOK
<1>5. Content(k)' = x /\ User(k) = p
  BY <1>1, <1>2, <1>3 DEF ContentIs, UserIs, Inv, TypeOK
<1>6. ASSUME NEW l \in Block \ {k} PROVE Content(l)' = Content(l)
  <2>1. \A d \in Buf : blockno[d] = l => data'[d] = data[d]
    BY <1>1, <1>2 DEF Inv, TypeOK
  <2>2. CASE \E d \in Buf : blockno[d] = l /\ valid[d]
    BY <1>2, <1>3, <2>1, <2>2 DEF ContentIs
  <2>3. CASE ~\E d \in Buf : blockno[d] = l /\ valid[d]
    BY <1>2, <1>3, <2>1, <2>3 DEF ContentIs
  <2> QED
    BY <2>2, <2>3
<1>7. \A l \in Block : User(l)' = User(l)
  BY <1>2 DEF User
<1>8. Store!Change(p, k, x)
  BY <1>5, <1>6, <1>7, Zenon DEF Store!Change
<1> QED
  BY <1>1, <1>4, <1>8

\* bwrite: a user of the block still finds what the buffer holds.
LEMMA BwriteContent ==
  ASSUME Inv, Inv', Clean, NEW p \in Proc, bwrite(p)
  PROVE  /\ Clean'
         /\ \A l \in Block : Content(l)' = Content(l) /\ User(l)' = User(l)
<1>1. PICK c \in Buf, k \in Block : b[p] = c /\ blockno[c] = k /\ valid[c]
  BY DEF bwrite, Inv, HoldersExact, Clean
<1>2. /\ disk' = [disk EXCEPT ![k] = data[c]]
      /\ UNCHANGED <<blockno, valid, data, pins, pc, b>>
  BY <1>1 DEF bwrite, bufs
<1>3. ContentIs /\ ContentIs'
  BY Unique, UniqueNext
<1>4. Clean'
  <2>1. \A d \in Buf : InUse(d) => InUse(d)'
    BY <1>2 DEF InUse
  <2>2. \A d \in Buf : blockno[d] = k => d = c
    BY <1>1, NullApart DEF Inv, SingleCopy
  <2> QED
    BY <1>1, <1>2, <2>1, <2>2 DEF Clean, Inv, TypeOK
<1>5. ASSUME NEW l \in Block PROVE Content(l)' = Content(l)
  <2>1. CASE \E d \in Buf : blockno[d] = l /\ valid[d]
    BY <1>2, <1>3, <2>1 DEF ContentIs
  <2>2. CASE ~\E d \in Buf : blockno[d] = l /\ valid[d]
    <3>1. l # k /\ disk'[l] = disk[l]
      BY <1>1, <1>2, <2>2 DEF Inv, TypeOK
    <3> QED
      BY <1>2, <1>3, <2>2, <3>1 DEF ContentIs
  <2> QED
    BY <2>1, <2>2
<1>6. \A l \in Block : User(l)' = User(l)
  BY <1>2 DEF User
<1> QED
  BY <1>4, <1>5, <1>6

\* The first half of brelse gives the block back, clean or pinned.
LEMMA ReleaseGives ==
  ASSUME Inv, Inv', Clean, NEW p \in Proc, releasesleep(p)
  PROVE  Clean' /\ Store!Give(p, blockno[b[p]])
<1>1. PICK c \in Buf, k \in Block :
        b[p] = c /\ blockno[c] = k /\ lock[c] = p /\ pc[p] = "use"
  BY DEF releasesleep, Inv, HoldersExact
<1>2. /\ pc'[p] = "brelse" /\ \A q \in Proc \ {p} : pc'[q] = "use" <=> pc[q] = "use"
      /\ data[c] = disk[k] \/ k \in pins
      /\ UNCHANGED <<blockno, valid, data, disk, pins, b>>
  BY <1>1 DEF releasesleep, bufs
<1>3. UserIs /\ UserIs'
  BY Unique, UniqueNext
<1>4. Clean'
  <2>1. \A d \in Buf \ {c} : InUse(d) => InUse(d)'
    BY <1>1, <1>2 DEF InUse
  <2> QED
    BY <1>1, <1>2, <2>1 DEF Clean
<1>5. \A l \in Block : Content(l)' = Content(l)
  BY <1>2 DEF Content
<1>6. User(k) = p /\ User(k)' = NULL
  <2>1. \A q \in Proc \ {p} : pc[q] = "use" => blockno[b[q]] # k
    BY <1>1, NullApart DEF Inv, HoldersExact, SingleCopy
  <2> QED
    BY <1>1, <1>2, <1>3, <2>1 DEF UserIs
<1>7. ASSUME NEW l \in Block \ {k} PROVE User(l)' = User(l)
  <2>1. \A q \in Proc : blockno[b[q]] = l => (pc'[q] = "use" <=> pc[q] = "use")
    BY <1>1, <1>2
  <2>2. CASE \E q \in Proc : pc[q] = "use" /\ blockno[b[q]] = l
    BY <1>2, <1>3, <2>1, <2>2 DEF UserIs
  <2>3. CASE ~\E q \in Proc : pc[q] = "use" /\ blockno[b[q]] = l
    BY <1>2, <1>3, <2>1, <2>3 DEF UserIs
  <2> QED
    BY <2>2, <2>3
<1>8. Store!Give(p, k)
  BY <1>5, <1>6, <1>7, Zenon DEF Store!Give
<1> QED
  BY <1>1, <1>4, <1>8

\* binit starts with what is on the disk and without users.
LEMMA InitStore == Init => Clean /\ Store!Init
<1> SUFFICES ASSUME Init PROVE Clean /\ Store!Init
  OBVIOUS
<1>1. Clean
  BY DEF Init, Clean
<1>2. \A k \in Block : Content(k) \in Val /\ User(k) = NULL
  BY ValAssumption DEF Init, Content, User
<1> QED
  BY <1>1, <1>2 DEF Store!Init

\* Every step of the cache is a step of the array of blocks, or none.
LEMMA NextStore ==
  Inv /\ Inv' /\ Clean /\ [Next]_vars =>
    Clean' /\ [Store!Next]_<<[k \in Block |-> Content(k)], [k \in Block |-> User(k)]>>
<1> DEFINE Same == \A l \in Block : Content(l)' = Content(l) /\ User(l)' = User(l)
<1> SUFFICES ASSUME Inv, Inv', Clean, [Next]_vars PROVE Clean' /\ (Store!Next \/ Same)
  OBVIOUS
<1>1. CASE UNCHANGED vars
  <2>1. Same
    BY <1>1 DEF vars, Content, User
  <2>2. Clean'
    BY <1>1 DEF vars, Clean, InUse
  <2> QED
    BY <2>1, <2>2
<1>2. ASSUME NEW p \in Proc, Next!(p) PROVE Clean' /\ (Store!Next \/ Same)
  <2>1. CASE \E k \in Block : bget_recycle(p, k)
    BY <2>1, RecycleContent
  <2>2. CASE \/ \E k \in Block : bget_hit(p, k) \/ bget_panic(p, k)
             \/ acquiresleep(p) \/ brelse(p) \/ bpin(p) \/ bunpin(p)
    BY <2>2, QuietContent
  <2>3. CASE bwrite(p)
    BY <2>3, BwriteContent
  <2>4. CASE bread(p)
    <3>1. blockno[b[p]] \in Block
      BY <2>4 DEF bread, Inv, HoldersExact
    <3> QED
      BY <2>4, <3>1, BreadTakes DEF Store!Next
  <2>5. CASE \E x \in Val : modify(p, x)
    <3>1. blockno[b[p]] \in Block
      BY <2>5 DEF modify, Inv, HoldersExact
    <3> QED
      BY <2>5, <3>1, ModifyChanges DEF Store!Next
  <2>6. CASE releasesleep(p)
    <3>1. blockno[b[p]] \in Block
      BY <2>6 DEF releasesleep, Inv, HoldersExact
    <3> QED
      BY <2>6, <3>1, ReleaseGives DEF Store!Next
  <2> QED
    BY <1>2, <2>1, <2>2, <2>3, <2>4, <2>5, <2>6
<1> QED
  BY <1>1, <1>2 DEF Next

\* The buffer cache of bread, bwrite, brelse, bpin and bunpin implements an
\* array of blocks with one user each, which finds what the last user left,
\* however many buffers bget has and whichever it recycles.
THEOREM Refinement == Spec => ImplementsStore
  BY InitInv, NextInv, InitStore, NextStore, PTL DEF Spec, ImplementsStore, Store!Spec
=============================================================================
