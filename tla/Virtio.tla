------------------------------- MODULE Virtio -------------------------------
(***************************************************************************)
(* The disk driver (kernel/virtio_disk.c), the device behind its rings and *)
(* the interrupt handler.  A step is a critical section of                 *)
(* disk.vdisk_lock up to the next sleep, one turn of the handler's loop,   *)
(* or one step of the device, which runs beside both and may finish        *)
(* requests in any order.  A process does one request at a time, on a      *)
(* buffer of its own: the buffer's sleep lock sees to that (module Bio).   *)
(***************************************************************************)
EXTENDS Naturals, FiniteSets

CONSTANTS
  Proc,
  NUM,        \* descriptors, and entries of a ring
  Idx,        \* number of values of a ring index (2^16, a multiple of NUM)
  NULL

ASSUME RingAssumption == NUM \in Nat /\ NUM >= 3 /\ Idx \in Nat \ {0} /\ Idx % NUM = 0
ASSUME NullAssumption == NULL \notin Proc

Desc == 0..(NUM - 1)

VARIABLES
  free,                  \* disk.free
  desc,                  \* disk.desc: the chain that starts at a descriptor
  b, status,             \* disk.info: the process whose buffer it is for, and the status
  avail, avail_idx,      \* disk.avail
  used, used_idx,        \* disk.used->ring, disk.used_idx
  dev_idx,               \* disk.used->idx
  dev_avail, taken,      \* how far the device is in avail, the requests it works on
  pending,               \* the device's interrupt
  handler,               \* virtio_disk_intr runs and has the lock
  panicked,
  pc, bdisk, idx0,       \* each process's b->disk and idx[0]
  served                 \* the device has transferred b->data

rings == <<avail, avail_idx, used, used_idx, dev_idx, dev_avail, taken>>
vars == <<free, desc, b, status, rings, pending, handler, panicked,
          pc, bdisk, idx0, served>>

\* virtio_disk_init.
Init ==
  /\ free = Desc
  /\ desc = [d \in Desc |-> {}]
  /\ b = [d \in Desc |-> NULL]
  /\ status = [d \in Desc |-> 0]
  /\ avail = [d \in Desc |-> 0] /\ avail_idx = 0
  /\ used = [d \in Desc |-> 0] /\ used_idx = 0
  /\ dev_idx = 0 /\ dev_avail = 0 /\ taken = {}
  /\ pending = FALSE /\ handler = FALSE /\ panicked = FALSE
  /\ pc = [p \in Proc |-> "idle"]
  /\ bdisk = [p \in Proc |-> FALSE]
  /\ idx0 = [p \in Proc |-> NUM]
  /\ served = [p \in Proc |-> FALSE]

Goto(p, l) == pc' = [pc EXCEPT ![p] = l]
-----------------------------------------------------------------------------
(* virtio_disk_rw. *)

\* A process that has the sleep lock of a buffer calls it, to read or write.
call(p) ==
  /\ pc[p] = "idle"
  /\ Goto(p, "rw")
  /\ UNCHANGED <<free, desc, b, status, rings, pending, handler, panicked, bdisk, idx0, served>>

\* wakeup(&disk.free[0]), and p goes on at l.
WakeFree(p, l) ==
  pc' = [q \in Proc |-> IF q = p THEN l ELSE IF pc[q] = "nodesc" THEN "rw" ELSE pc[q]]

\* alloc3_desc fails.  It gives back what it got, which wakes the others that
\* wait for descriptors, and the process joins them.
alloc3_desc_fails(p) ==
  /\ pc[p] = "rw" /\ ~handler
  /\ Cardinality(free) < 3
  /\ IF free = {} THEN Goto(p, "nodesc") ELSE WakeFree(p, "nodesc")
  /\ UNCHANGED <<free, desc, b, status, rings, pending, handler, panicked, bdisk, idx0, served>>

\* The three descriptors that alloc3_desc finds.
alloc3_desc ==
  {d \in free : Cardinality({e \in free : e < d}) < 3}

\* Mutant: the ring entry is one too far.
submit_next_entry(p) ==
  /\ pc[p] = "rw" /\ ~handler
  /\ Cardinality(free) >= 3
  /\ LET h == CHOOSE d \in alloc3_desc : \A e \in alloc3_desc : d <= e
     IN /\ desc' = [desc EXCEPT ![h] = alloc3_desc]
        /\ status' = [status EXCEPT ![h] = 255]
        /\ b' = [b EXCEPT ![h] = p]
        /\ avail' = [avail EXCEPT ![(avail_idx + 1) % NUM] = h]
        /\ idx0' = [idx0 EXCEPT ![p] = h]
  /\ free' = free \ alloc3_desc
  /\ bdisk' = [bdisk EXCEPT ![p] = TRUE]
  /\ avail_idx' = (avail_idx + 1) % Idx
  /\ Goto(p, "wait")
  /\ UNCHANGED <<used, used_idx, dev_idx, dev_avail, taken, pending, handler, panicked, served>>

\* Mutant: the third descriptor stays marked free.
submit_third_free(p) ==
  /\ pc[p] = "rw" /\ ~handler
  /\ Cardinality(free) >= 3
  /\ LET h == CHOOSE d \in alloc3_desc : \A e \in alloc3_desc : d <= e
         l == CHOOSE d \in alloc3_desc : \A e \in alloc3_desc : e <= d
     IN /\ desc' = [desc EXCEPT ![h] = alloc3_desc]
        /\ status' = [status EXCEPT ![h] = 255]
        /\ b' = [b EXCEPT ![h] = p]
        /\ avail' = [avail EXCEPT ![avail_idx % NUM] = h]
        /\ idx0' = [idx0 EXCEPT ![p] = h]
        /\ free' = free \ (alloc3_desc \ {l})
  /\ bdisk' = [bdisk EXCEPT ![p] = TRUE]
  /\ avail_idx' = (avail_idx + 1) % Idx
  /\ Goto(p, "wait")
  /\ UNCHANGED <<used, used_idx, dev_idx, dev_avail, taken, pending, handler, panicked, served>>

\* The request goes to the device and the process sleeps on its buffer.
submit(p) ==
  /\ pc[p] = "rw" /\ ~handler
  /\ Cardinality(free) >= 3
  /\ LET h == CHOOSE d \in alloc3_desc : \A e \in alloc3_desc : d <= e
     IN /\ desc' = [desc EXCEPT ![h] = alloc3_desc]
        /\ status' = [status EXCEPT ![h] = 255]
        /\ b' = [b EXCEPT ![h] = p]
        /\ avail' = [avail EXCEPT ![avail_idx % NUM] = h]
        /\ idx0' = [idx0 EXCEPT ![p] = h]
  /\ free' = free \ alloc3_desc
  /\ bdisk' = [bdisk EXCEPT ![p] = TRUE]
  /\ avail_idx' = (avail_idx + 1) % Idx
  /\ Goto(p, "wait")
  /\ UNCHANGED <<used, used_idx, dev_idx, dev_avail, taken, pending, handler, panicked, served>>

\* Mutant: nobody learns that there are free descriptors.
finish_quiet(p) ==
  /\ pc[p] = "woken" /\ ~handler /\ ~bdisk[p]
  /\ LET h == idx0[p]
     IN /\ b' = [b EXCEPT ![h] = NULL]
        /\ desc' = [desc EXCEPT ![h] = {}]
        /\ free' = free \cup desc[h]
        /\ panicked' = (panicked \/ free \cap desc[h] # {})
  /\ idx0' = [idx0 EXCEPT ![p] = NUM]
  /\ Goto(p, "idle")
  /\ served' = [served EXCEPT ![p] = FALSE]
  /\ UNCHANGED <<status, rings, pending, handler, bdisk>>

\* The request is finished: free_chain, which panics on a free descriptor.
finish(p) ==
  /\ pc[p] = "woken" /\ ~handler /\ ~bdisk[p]
  /\ LET h == idx0[p]
     IN /\ b' = [b EXCEPT ![h] = NULL]
        /\ desc' = [desc EXCEPT ![h] = {}]
        /\ free' = free \cup desc[h]
        /\ panicked' = (panicked \/ free \cap desc[h] # {})
  /\ idx0' = [idx0 EXCEPT ![p] = NUM]
  /\ WakeFree(p, "idle")
  /\ served' = [served EXCEPT ![p] = FALSE]
  /\ UNCHANGED <<status, rings, pending, handler, bdisk>>
-----------------------------------------------------------------------------
(* The device. *)

dev_take ==
  /\ dev_avail # avail_idx
  /\ taken' = taken \cup {avail[dev_avail % NUM]}
  /\ avail' = [avail EXCEPT ![dev_avail % NUM] = 0]    \* not read again
  /\ dev_avail' = (dev_avail + 1) % Idx
  /\ UNCHANGED <<free, desc, b, status, avail_idx, used, used_idx, dev_idx,
                 pending, handler, panicked, pc, bdisk, idx0, served>>

\* It transfers the data between the block and the buffer the chain names.
dev_complete(h) ==
  /\ h \in taken
  /\ served' = [p \in Proc |-> served[p] \/ idx0[p] = h]
  /\ status' = [status EXCEPT ![h] = 0]
  /\ used' = [used EXCEPT ![dev_idx % NUM] = h]
  /\ dev_idx' = (dev_idx + 1) % Idx
  /\ taken' = taken \ {h}
  /\ pending' = TRUE
  /\ UNCHANGED <<free, desc, b, avail, avail_idx, used_idx, dev_avail, handler, panicked,
                 pc, bdisk, idx0>>
-----------------------------------------------------------------------------
(* virtio_disk_intr. *)

\* The handler gets the lock and acknowledges the interrupt.
intr_ack ==
  /\ pending /\ ~handler
  /\ pending' = FALSE
  /\ handler' = TRUE
  /\ UNCHANGED <<free, desc, b, status, rings, panicked, pc, bdisk, idx0, served>>

\* One turn of its loop: b->disk = 0 and wakeup(b).
intr_entry ==
  /\ handler /\ used_idx # dev_idx
  /\ LET id == used[used_idx % NUM]
         p == b[id]
     IN /\ panicked' = (panicked \/ status[id] # 0 \/ p = NULL)
        /\ bdisk' = [q \in Proc |-> bdisk[q] /\ q # p]
        /\ pc' = [q \in Proc |-> IF q = p /\ pc[q] = "wait" THEN "woken" ELSE pc[q]]
  /\ used' = [used EXCEPT ![used_idx % NUM] = 0]    \* not read again
  /\ used_idx' = (used_idx + 1) % Idx
  /\ UNCHANGED <<free, desc, b, status, avail, avail_idx, dev_idx, dev_avail, taken,
                 pending, handler, idx0, served>>

\* There is no entry left.
intr_end ==
  /\ handler /\ used_idx = dev_idx
  /\ handler' = FALSE
  /\ UNCHANGED <<free, desc, b, status, rings, pending, panicked, pc, bdisk, idx0, served>>

Next ==
  \/ \E p \in Proc :
       \/ call(p) \/ alloc3_desc_fails(p) \/ submit(p) \/ finish(p)
  \/ dev_take \/ (\E h \in Desc : dev_complete(h))
  \/ intr_ack \/ intr_entry \/ intr_end

\* The device serves its requests, interrupts are taken, and a process that
\* can run does.
Spec ==
  /\ Init /\ [][Next]_vars
  /\ WF_vars(dev_take) /\ (\A h \in Desc : WF_vars(dev_complete(h)))
  /\ WF_vars(intr_ack) /\ WF_vars(intr_entry) /\ WF_vars(intr_end)
  /\ \A p \in Proc : WF_vars(submit(p)) /\ WF_vars(alloc3_desc_fails(p)) /\ WF_vars(finish(p))
-----------------------------------------------------------------------------
(* Properties. *)

\* Every variable holds a value of its C type.
TypeOK ==
  /\ free \subseteq Desc /\ desc \in [Desc -> SUBSET Desc]
  /\ b \in [Desc -> Proc \cup {NULL}] /\ status \in [Desc -> {0, 255}]
  /\ avail \in [Desc -> Desc] /\ used \in [Desc -> Desc]
  /\ {avail_idx, used_idx, dev_idx, dev_avail} \subseteq 0..(Idx - 1)
  /\ taken \subseteq Desc
  /\ {pending, handler, panicked} \subseteq BOOLEAN
  /\ pc \in [Proc -> {"idle", "rw", "nodesc", "wait", "woken"}]
  /\ bdisk \in [Proc -> BOOLEAN] /\ served \in [Proc -> BOOLEAN]
  /\ idx0 \in [Proc -> 0..NUM]

\* A process that finds b->disk clear has its data: the device has done its
\* own request, whatever others were in flight and in whatever order they
\* were finished.
Transferred == \A p \in Proc : pc[p] = "woken" => ~bdisk[p] /\ served[p]

\* A descriptor is free or in the chain of exactly one request; the panics
\* "free_desc 2" and "virtio_disk_intr status" are not reached, nor is a
\* completion without a buffer.
DescsExact ==
  ~panicked /\ \A d \in Desc :
    Cardinality({p \in Proc : pc[p] \in {"wait", "woken"} /\ d \in desc[idx0[p]]})
      = IF d \in free THEN 0 ELSE 1

\* A process that waits for its transfer, or for descriptors, is woken.
SleepersWoken ==
  \A p \in Proc :
    /\ pc[p] = "wait" ~> pc[p] = "woken"
    /\ pc[p] = "nodesc" ~> pc[p] # "nodesc"
=============================================================================
