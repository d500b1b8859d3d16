-------------------------------- MODULE Log --------------------------------
(***************************************************************************)
(* The redo log of kernel/log.c with the part of the buffer cache it       *)
(* relies on (pinned buffers are not recycled), concurrent file system     *)
(* calls, group commit, crashes at any point and recovery.                 *)
(*                                                                         *)
(* A step is a critical section of log.lock or one disk write.  A block of *)
(* the file system is read, changed, passed to log_write and released      *)
(* under its buffer's sleep lock, so that is one step too.  The disk       *)
(* writes one block atomically and in the order in which bwrite was called *)
(* (external: virtio_disk_rw waits for each request).                      *)
(***************************************************************************)
EXTENDS Naturals, Sequences, FiniteSets

CONSTANTS
  Proc,         \* processes that make file system calls
  Block,        \* home blocks of the file system
  Val, Zero,    \* block contents, and what mkfs writes
  LOGSIZE, MAXOPBLOCKS,
  NLog,         \* log.size - 1, the blocks behind the header (set by mkfs)
  NULL

ASSUME SizeAssumption ==
  /\ LOGSIZE \in Nat /\ MAXOPBLOCKS \in Nat \ {0} /\ MAXOPBLOCKS <= LOGSIZE
  /\ NLog \in Nat
ASSUME ProcAssumption == IsFiniteSet(Proc)
ASSUME ValAssumption == NULL \notin Val /\ Zero \in Val

VARIABLES
  disk,         \* home blocks on disk
  dlog, dhead,  \* log blocks and the block numbers in the header, on disk
  cache,        \* buffer cache: contents of a cached home block, or NULL
  pins,         \* references log_write holds on the buffer of a home block
  lh,           \* log.lh: block numbers logged in memory
  outstanding, committing,
  pc,           \* what each process is doing
  wrote,        \* blocks that its system call has logged
  tail,         \* loop counter of write_log and install_trans
  boot          \* recover_from_log: "read", "install", "clear" or "up"

ondisk == <<disk, dlog, dhead>>
group  == <<lh, outstanding, committing>>
vars == <<disk, dlog, dhead, cache, pins, lh, outstanding, committing, pc,
          wrote, tail, boot>>

InSeq(b, s) == \E i \in 1..Len(s) : s[i] = b

\* The contents of a home block as bread returns them.
View == [b \in Block |-> IF cache[b] = NULL THEN disk[b] ELSE cache[b]]

Init ==
  /\ cache = [b \in Block |-> NULL]
  /\ pins = [b \in Block |-> 0]
  /\ lh = <<>>
  /\ outstanding = 0
  /\ committing = FALSE
  /\ pc = [p \in Proc |-> "idle"]
  /\ wrote = [p \in Proc |-> {}]
  /\ tail = 1
  /\ boot = "read"
  /\ disk = [b \in Block |-> Zero]
  /\ dlog = [i \in 1..NLog |-> Zero]
  /\ dhead = <<>>

Goto(p, l) == pc' = [pc EXCEPT ![p] = l]

\* pc after wakeup(&log), with process p itself at l.
WakeAll(p, l) ==
  pc' = [q \in Proc |-> IF q = p THEN l ELSE IF pc[q] = "asleep" THEN "begin" ELSE pc[q]]

\* A panic in log_write or end_op keeps log.lock for ever.
Stuck == \E p \in Proc : pc[p] \in {"too_big", "panic"}
-----------------------------------------------------------------------------
(* The buffer cache. *)

bread(b) ==
  /\ boot = "up"
  /\ cache[b] = NULL
  /\ cache' = [cache EXCEPT ![b] = disk[b]]
  /\ UNCHANGED <<ondisk, pins, group, pc, wrote, tail, boot>>

\* bget recycles a buffer nobody refers to.
bget_recycles(b) ==
  /\ boot = "up"
  /\ cache[b] # NULL
  /\ pins[b] = 0
  /\ cache' = [cache EXCEPT ![b] = NULL]
  /\ UNCHANGED <<ondisk, pins, group, pc, wrote, tail, boot>>
-----------------------------------------------------------------------------
(* System calls. *)

\* Mutant: the space reserved by the calls in progress is not counted.
begin_op_no_reservation(p) ==
  /\ boot = "up"
  /\ ~Stuck
  /\ pc[p] \in {"idle", "begin"}
  /\ IF committing \/ Len(lh) + MAXOPBLOCKS > LOGSIZE
     THEN /\ Goto(p, "asleep")
          /\ UNCHANGED outstanding
     ELSE /\ outstanding' = outstanding + 1
          /\ Goto(p, "op")
  /\ UNCHANGED <<ondisk, cache, pins, lh, committing, wrote, tail, boot>>

begin_op(p) ==
  /\ boot = "up"
  /\ ~Stuck
  /\ pc[p] \in {"idle", "begin"}
  /\ IF committing \/ Len(lh) + (outstanding + 1) * MAXOPBLOCKS > LOGSIZE
     THEN /\ Goto(p, "asleep")
          /\ UNCHANGED outstanding
     ELSE /\ outstanding' = outstanding + 1
          /\ Goto(p, "op")
  /\ UNCHANGED <<ondisk, cache, pins, lh, committing, wrote, tail, boot>>

\* bread, modify, log_write, brelse.  A system call logs at most MAXOPBLOCKS
\* different blocks, each as often as it likes.
log_write(p, b, x) ==
  /\ ~Stuck
  /\ pc[p] = "op"
  /\ Cardinality(wrote[p] \cup {b}) <= MAXOPBLOCKS
  /\ IF Len(lh) >= LOGSIZE \/ Len(lh) >= NLog
     THEN Goto(p, "too_big") /\ UNCHANGED <<cache, lh, pins, wrote>>
     ELSE IF outstanding < 1
     THEN Goto(p, "panic") /\ UNCHANGED <<cache, lh, pins, wrote>>
     ELSE /\ cache' = [cache EXCEPT ![b] = x]
          /\ wrote' = [wrote EXCEPT ![p] = @ \cup {b}]
          /\ IF InSeq(b, lh)
             THEN UNCHANGED <<lh, pins>>
             ELSE /\ lh' = Append(lh, b)
                  /\ pins' = [pins EXCEPT ![b] = @ + 1]
          /\ UNCHANGED pc
  /\ UNCHANGED <<ondisk, outstanding, committing, tail, boot>>

end_op(p) ==
  /\ ~Stuck
  /\ pc[p] = "op"
  /\ outstanding' = outstanding - 1
  /\ wrote' = [wrote EXCEPT ![p] = {}]
  /\ IF committing
     THEN Goto(p, "panic") /\ UNCHANGED committing
     ELSE IF outstanding = 1
          THEN committing' = TRUE /\ Goto(p, "commit")
          ELSE WakeAll(p, "idle") /\ UNCHANGED committing
  /\ UNCHANGED <<ondisk, cache, pins, lh, tail, boot>>
-----------------------------------------------------------------------------
(* commit, by the process that ended the last system call. *)

\* Mutant: the header is written before the blocks.
commit_head_first(p) ==
  /\ pc[p] = "commit"
  /\ tail' = 1
  /\ dhead' = lh
  /\ Goto(p, IF lh = <<>> THEN "committed" ELSE "write_log")
  /\ UNCHANGED <<disk, dlog, cache, pins, group, wrote, boot>>

commit(p) ==
  /\ pc[p] = "commit"
  /\ tail' = 1
  /\ Goto(p, IF lh = <<>> THEN "committed" ELSE "write_log")
  /\ UNCHANGED <<ondisk, cache, pins, group, wrote, boot>>

write_log(p) ==
  /\ pc[p] = "write_log"
  /\ dlog' = [dlog EXCEPT ![tail] = View[lh[tail]]]
  /\ IF tail = Len(lh) THEN Goto(p, "write_head") /\ tail' = 1
                       ELSE tail' = tail + 1 /\ UNCHANGED pc
  /\ UNCHANGED <<disk, dhead, cache, pins, group, wrote, boot>>

\* The commit point.
write_head(p) ==
  /\ pc[p] = "write_head"
  /\ dhead' = lh
  /\ Goto(p, "install")
  /\ UNCHANGED <<disk, dlog, cache, pins, group, wrote, tail, boot>>

install_trans(p) ==
  /\ pc[p] = "install"
  /\ disk' = [disk EXCEPT ![lh[tail]] = dlog[tail]]
  /\ cache' = [cache EXCEPT ![lh[tail]] = dlog[tail]]
  /\ pins' = [pins EXCEPT ![lh[tail]] = @ - 1]
  /\ IF tail = Len(lh) THEN Goto(p, "clear") /\ tail' = 1
                       ELSE tail' = tail + 1 /\ UNCHANGED pc
  /\ UNCHANGED <<dlog, dhead, group, wrote, boot>>

clear(p) ==
  /\ pc[p] = "clear"
  /\ lh' = <<>>
  /\ dhead' = <<>>
  /\ Goto(p, "committed")
  /\ UNCHANGED <<disk, dlog, cache, pins, outstanding, committing, wrote, tail, boot>>

\* Mutant: nobody is woken.
committed_no_wakeup(p) ==
  /\ pc[p] = "committed"
  /\ committing' = FALSE
  /\ Goto(p, "idle")
  /\ UNCHANGED <<ondisk, cache, pins, lh, outstanding, wrote, tail, boot>>

committed(p) ==
  /\ pc[p] = "committed"
  /\ committing' = FALSE
  /\ WakeAll(p, "idle")
  /\ UNCHANGED <<ondisk, cache, pins, lh, outstanding, wrote, tail, boot>>

Commit(p) ==
  commit(p) \/ write_log(p) \/ write_head(p) \/ install_trans(p) \/ clear(p) \/ committed(p)
-----------------------------------------------------------------------------
(* Crash and recovery (initlog). *)

Crash ==
  /\ cache' = [b \in Block |-> NULL]
  /\ pins' = [b \in Block |-> 0]
  /\ lh' = <<>>
  /\ outstanding' = 0
  /\ committing' = FALSE
  /\ pc' = [p \in Proc |-> "idle"]
  /\ wrote' = [p \in Proc |-> {}]
  /\ tail' = 1
  /\ boot' = "read"
  /\ UNCHANGED ondisk

read_head ==
  /\ boot = "read"
  /\ lh' = dhead
  /\ boot' = IF dhead = <<>> THEN "clear" ELSE "install"
  /\ UNCHANGED <<ondisk, cache, pins, outstanding, committing, pc, wrote, tail>>

recover_install ==
  /\ boot = "install"
  /\ disk' = [disk EXCEPT ![lh[tail]] = dlog[tail]]
  /\ cache' = [cache EXCEPT ![lh[tail]] = dlog[tail]]
  /\ IF tail = Len(lh) THEN boot' = "clear" /\ tail' = 1
                       ELSE tail' = tail + 1 /\ UNCHANGED boot
  /\ UNCHANGED <<dlog, dhead, pins, group, pc, wrote>>

recover_clear ==
  /\ boot = "clear"
  /\ lh' = <<>>
  /\ dhead' = <<>>
  /\ boot' = "up"
  /\ UNCHANGED <<disk, dlog, cache, pins, outstanding, committing, pc, wrote, tail>>

\* panic does not return; only a reset helps.
panic == Stuck /\ UNCHANGED vars

Recover == read_head \/ recover_install \/ recover_clear
-----------------------------------------------------------------------------
Next ==
  \/ \E b \in Block : bread(b) \/ bget_recycles(b)
  \/ \E p \in Proc : begin_op(p) \/ end_op(p) \/ Commit(p)
  \/ \E p \in Proc, b \in Block, x \in Val : log_write(p, b, x)
  \/ panic
  \/ Crash
  \/ Recover

\* System calls end, the committing process is scheduled, woken processes run.
Spec ==
  /\ Init /\ [][Next]_vars
  /\ \A p \in Proc : WF_vars(end_op(p)) /\ WF_vars(Commit(p))
  /\ \A p \in Proc : WF_vars(begin_op(p) /\ pc[p] = "begin")
  /\ WF_vars(Recover)
-----------------------------------------------------------------------------
(* Properties. *)

Label == {"idle", "begin", "asleep", "op", "too_big", "panic", "commit", "write_log", "write_head",
          "install", "clear", "committed"}

\* Blocks that fit into the header and into the log area.
Capacity == IF NLog < LOGSIZE THEN NLog ELSE LOGSIZE

\* Every variable holds a value of its C type, and the log never has more
\* entries than the header and the log area have room for.
TypeOK ==
  /\ disk \in [Block -> Val] /\ dlog \in [1..NLog -> Val]
  /\ dhead \in Seq(Block) /\ Len(dhead) <= Capacity
  /\ cache \in [Block -> Val \cup {NULL}] /\ pins \in [Block -> Nat]
  /\ lh \in Seq(Block) /\ Len(lh) <= Capacity
  /\ outstanding \in Nat /\ committing \in BOOLEAN
  /\ pc \in [Proc -> Label]
  /\ wrote \in [Proc -> SUBSET Block]
  /\ tail \in 1..(LOGSIZE + 1)
  /\ boot \in {"read", "install", "clear", "up"}

\* The space that begin_op reserves is enough: log_write panics with "too big a
\* transaction" only when the log is full and the call has logged all of its
\* MAXOPBLOCKS different blocks and logs one of them again (log.c:220 comes
\* before the search for the block), or as many blocks earlier as the log area
\* is smaller than LOGSIZE.  The other panics are never reached.
ReservationHolds ==
  \A p \in Proc :
    /\ pc[p] # "panic"
    /\ pc[p] = "too_big" =>
         /\ Len(lh) = Capacity
         /\ Cardinality(wrote[p]) + (LOGSIZE - Capacity) >= MAXOPBLOCKS

\* What recover_from_log would leave on disk if the machine crashed now.
Recovered ==
  [b \in Block |-> IF InSeq(b, dhead)
                   THEN dlog[CHOOSE i \in 1..Len(dhead) : dhead[i] = b]
                   ELSE disk[b]]

\* The log makes groups of system calls atomic and durable across crashes,
\* also crashes during commit and during recovery.  While the machine boots
\* the file system is what recovery will make it.
Atomic == INSTANCE AtomicDisk WITH
            stable <- Recovered,
            view <- IF boot = "up" THEN View ELSE Recovered,
            active <- {p \in Proc : pc[p] = "op"}
ImplementsAtomicDisk == Atomic!Spec

\* A process that sleeps in begin_op is woken, unless log_write has panicked.
SleepersWoken == \A p \in Proc : pc[p] = "asleep" ~> pc[p] # "asleep" \/ Stuck
=============================================================================
