-------------------------------- MODULE Bio --------------------------------
(***************************************************************************)
(* The buffer cache (kernel/bio.c) and the sleep locks of its buffers      *)
(* (kernel/sleeplock.c).  A step is a critical section of bcache.lock or   *)
(* of a sleep lock's spinlock, one change of the data by the process that  *)
(* has the buffer, or one disk transfer (module Virtio shows how the       *)
(* driver completes it).                                                   *)
(*                                                                         *)
(* A process gets one buffer at a time (bmap and write_log, which get a    *)
(* second one, are not followed).  It changes the data only if it then     *)
(* writes them with bwrite (swapwrite) or leaves the buffer pinned for the *)
(* log (log_write), which writes and unpins it later.                      *)
(***************************************************************************)
EXTENDS Naturals, Sequences, FiniteSets

CONSTANTS
  Proc,
  Block,      \* pairs of dev and blockno
  Buf,        \* bcache.buf
  BufOrder,   \* the order in which binit lists them
  Val, Zero,  \* block contents, and the contents of the disk at first
  MaxPin,     \* how many blocks the log may keep pinned
  NULL

ASSUME BufAssumption ==
  /\ NULL \notin Proc \cup Block \cup Buf
  /\ BufOrder \in Seq(Buf)
  /\ \A b \in Buf : \E k \in 1..Len(BufOrder) : BufOrder[k] = b
  /\ \A j, k \in 1..Len(BufOrder) : BufOrder[j] = BufOrder[k] => j = k
ASSUME ValAssumption == Zero \in Val /\ MaxPin \in Nat
ASSUME ProcAssumption == IsFiniteSet(Proc)

VARIABLES
  order,                      \* the list behind bcache.head, most recent first
  blockno, valid, refcnt, data,   \* fields of struct buf
  lock,                       \* the process that has the buffer's sleep lock
  disk,
  pins,                       \* blocks the log has pinned
  pc, b                       \* what each process does, and with which buffer

bufs == <<blockno, valid, data>>
vars == <<order, blockno, valid, refcnt, data, lock, disk, pins, pc, b>>

\* binit; dev and blockno are 0 at first, which no caller asks for.
Init ==
  /\ order = BufOrder
  /\ blockno = [c \in Buf |-> NULL]
  /\ valid = [c \in Buf |-> FALSE]
  /\ refcnt = [c \in Buf |-> 0]
  /\ data = [c \in Buf |-> Zero]
  /\ lock = [c \in Buf |-> NULL]
  /\ disk = [k \in Block |-> Zero]
  /\ pins = {}
  /\ pc = [p \in Proc |-> "idle"]
  /\ b = [p \in Proc |-> NULL]

Goto(p, l) == pc' = [pc EXCEPT ![p] = l]
-----------------------------------------------------------------------------
(* bget. *)

\* The block is cached.
bget_hit(p, k) ==
  /\ pc[p] = "idle"
  /\ \E c \in Buf :
       /\ blockno[c] = k
       /\ refcnt' = [refcnt EXCEPT ![c] = @ + 1]
       /\ b' = [b EXCEPT ![p] = c]
  /\ Goto(p, "acquiresleep")
  /\ UNCHANGED <<order, bufs, lock, disk, pins>>

Unused == {j \in 1..Len(order) : refcnt[order[j]] = 0}

\* Mutant: the search for the block and the recycling are two critical
\* sections, and the block may have been cached between them.
bget_recycle_unlocked(p, k) ==
  /\ pc[p] = "idle"
  /\ \E j \in Unused :
       /\ \A l \in Unused : l <= j
       /\ blockno' = [blockno EXCEPT ![order[j]] = k]
       /\ valid' = [valid EXCEPT ![order[j]] = FALSE]
       /\ refcnt' = [refcnt EXCEPT ![order[j]] = 1]
       /\ b' = [b EXCEPT ![p] = order[j]]
  /\ Goto(p, "acquiresleep")
  /\ UNCHANGED <<order, data, lock, disk, pins>>

\* It is not: the least recently used buffer without references is recycled.
bget_recycle(p, k) ==
  /\ pc[p] = "idle"
  /\ \A c \in Buf : blockno[c] # k
  /\ \E j \in Unused :
       /\ \A l \in Unused : l <= j
       /\ blockno' = [blockno EXCEPT ![order[j]] = k]
       /\ valid' = [valid EXCEPT ![order[j]] = FALSE]
       /\ refcnt' = [refcnt EXCEPT ![order[j]] = 1]
       /\ b' = [b EXCEPT ![p] = order[j]]
  /\ Goto(p, "acquiresleep")
  /\ UNCHANGED <<order, data, lock, disk, pins>>

\* panic("bget: no buffers").
bget_panic(p, k) ==
  /\ pc[p] = "idle"
  /\ \A c \in Buf : blockno[c] # k
  /\ Unused = {}
  /\ Goto(p, "panic")
  /\ UNCHANGED <<order, bufs, refcnt, lock, disk, pins, b>>
-----------------------------------------------------------------------------
(* Sleep locks. *)

\* Mutant: a process that was woken takes the lock without looking again.
acquiresleep_no_recheck(p) ==
  /\ pc[p] \in {"acquiresleep", "woken"}
  /\ IF lock[b[p]] = NULL \/ pc[p] = "woken"
     THEN lock' = [lock EXCEPT ![b[p]] = p] /\ Goto(p, "bread")
     ELSE Goto(p, "asleep") /\ UNCHANGED lock
  /\ UNCHANGED <<order, bufs, refcnt, disk, pins, b>>

acquiresleep(p) ==
  /\ pc[p] \in {"acquiresleep", "woken"}
  /\ IF lock[b[p]] = NULL
     THEN lock' = [lock EXCEPT ![b[p]] = p] /\ Goto(p, "bread")
     ELSE Goto(p, "asleep") /\ UNCHANGED lock
  /\ UNCHANGED <<order, bufs, refcnt, disk, pins, b>>

\* The first half of brelse.  The data are on disk or pinned by now.
releasesleep(p) ==
  /\ pc[p] = "use"
  /\ data[b[p]] = disk[blockno[b[p]]] \/ blockno[b[p]] \in pins
  /\ lock' = [lock EXCEPT ![b[p]] = NULL]
  /\ pc' = [q \in Proc |-> IF q = p THEN "brelse"
                           ELSE IF pc[q] = "asleep" /\ b[q] = b[p] THEN "woken" ELSE pc[q]]
  /\ UNCHANGED <<order, bufs, refcnt, disk, pins, b>>
-----------------------------------------------------------------------------
(* The rest of bread, bwrite, brelse, bpin, bunpin. *)

bread(p) ==
  /\ pc[p] = "bread"
  /\ LET c == b[p]
     IN /\ data' = IF valid[c] THEN data ELSE [data EXCEPT ![c] = disk[blockno[c]]]
        /\ valid' = [valid EXCEPT ![c] = TRUE]
  /\ Goto(p, "use")
  /\ UNCHANGED <<order, blockno, refcnt, lock, disk, pins, b>>

\* The caller changes the data.
modify(p, x) ==
  /\ pc[p] = "use"
  /\ data' = [data EXCEPT ![b[p]] = x]
  /\ UNCHANGED <<order, blockno, valid, refcnt, lock, disk, pins, pc, b>>

bwrite(p) ==
  /\ pc[p] = "use"
  /\ disk' = [disk EXCEPT ![blockno[b[p]]] = data[b[p]]]
  /\ UNCHANGED <<order, bufs, refcnt, lock, pins, pc, b>>

bpin(p) ==
  /\ pc[p] = "use"
  /\ blockno[b[p]] \notin pins
  /\ Cardinality(pins) < MaxPin
  /\ refcnt' = [refcnt EXCEPT ![b[p]] = @ + 1]
  /\ pins' = pins \cup {blockno[b[p]]}
  /\ UNCHANGED <<order, bufs, lock, disk, pc, b>>

\* install_trans has written the block.
bunpin(p) ==
  /\ pc[p] = "use"
  /\ blockno[b[p]] \in pins
  /\ data[b[p]] = disk[blockno[b[p]]]
  /\ refcnt' = [refcnt EXCEPT ![b[p]] = @ - 1]
  /\ pins' = pins \ {blockno[b[p]]}
  /\ UNCHANGED <<order, bufs, lock, disk, pc, b>>

\* The list with buffer c moved behind bcache.head: the buffers before c move
\* one place down.
MoveToFront(c) ==
  [j \in 1..Len(order) |->
     IF j = 1 THEN c
     ELSE IF \E l \in j..Len(order) : order[l] = c THEN order[j - 1] ELSE order[j]]

\* Mutant: the reference is kept.
brelse_ref_kept(p) ==
  /\ pc[p] = "brelse"
  /\ b' = [b EXCEPT ![p] = NULL]
  /\ Goto(p, "idle")
  /\ UNCHANGED <<order, bufs, refcnt, lock, disk, pins>>

\* The second half of brelse: an unreferenced buffer becomes the most recent.
brelse(p) ==
  /\ pc[p] = "brelse"
  /\ LET c == b[p]
     IN /\ refcnt' = [refcnt EXCEPT ![c] = @ - 1]
        /\ order' = IF refcnt[c] = 1 THEN MoveToFront(c) ELSE order
  /\ b' = [b EXCEPT ![p] = NULL]
  /\ Goto(p, "idle")
  /\ UNCHANGED <<bufs, lock, disk, pins>>

Next ==
  \E p \in Proc :
    \/ \E k \in Block : bget_hit(p, k) \/ bget_recycle(p, k) \/ bget_panic(p, k)
    \/ acquiresleep(p) \/ bread(p) \/ (\E x \in Val : modify(p, x)) \/ bwrite(p)
    \/ bpin(p) \/ bunpin(p) \/ releasesleep(p) \/ brelse(p)

Spec == Init /\ [][Next]_vars
-----------------------------------------------------------------------------
(* Properties. *)

\* Every variable holds a value of its C type.
TypeOK ==
  /\ order \in Seq(Buf)
  /\ blockno \in [Buf -> Block \cup {NULL}]
  /\ valid \in [Buf -> BOOLEAN] /\ data \in [Buf -> Val]
  /\ refcnt \in [Buf -> Nat]
  /\ lock \in [Buf -> Proc \cup {NULL}]
  /\ disk \in [Block -> Val]
  /\ pins \subseteq Block
  /\ pc \in [Proc -> {"idle", "acquiresleep", "asleep", "woken", "bread", "use", "brelse", "panic"}]
  /\ b \in [Proc -> Buf \cup {NULL}]

\* A block is in at most one buffer.
SingleCopy ==
  \A c, d \in Buf : blockno[c] # NULL /\ blockno[c] = blockno[d] => c = d

\* A process that has a buffer, or waits for it, has one that caches a block,
\* and whoever reads or changes its data has its sleep lock.
HoldersExact ==
  \A p \in Proc :
    /\ pc[p] \in {"idle", "panic"} => b[p] = NULL
    /\ pc[p] \notin {"idle", "panic"} => b[p] \in Buf /\ blockno[b[p]] \in Block
    /\ pc[p] \in {"bread", "use"} => lock[b[p]] = p

\* A pinned block stays in the cache.
PinnedCached == \A k \in pins : \E c \in Buf : blockno[c] = k

\* The reference count of a buffer is the number of processes that have it or
\* wait for it, and one more while the log has it pinned: a buffer is recycled
\* neither too early nor never.
RefcntExact ==
  \A c \in Buf :
    refcnt[c] = Cardinality({p \in Proc : b[p] = c}) + (IF blockno[c] \in pins THEN 1 ELSE 0)

\* The buffer cache implements an array of blocks with one user each.
Content(k) ==
  IF \E c \in Buf : blockno[c] = k /\ valid[c]
  THEN data[CHOOSE c \in Buf : blockno[c] = k /\ valid[c]]
  ELSE disk[k]
User(k) ==
  IF \E p \in Proc : pc[p] = "use" /\ blockno[b[p]] = k
  THEN CHOOSE p \in Proc : pc[p] = "use" /\ blockno[b[p]] = k
  ELSE NULL
Store == INSTANCE BlockStore WITH
           content <- [k \in Block |-> Content(k)], user <- [k \in Block |-> User(k)]
ImplementsStore == Store!Spec
=============================================================================
