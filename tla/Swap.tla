-------------------------------- MODULE Swap --------------------------------
(***************************************************************************)
(* Demand paging to the swap area: the page allocator and page replacement *)
(* (kernel/kalloc.c), the user page tables (kernel/vm.c), the page fault   *)
(* handler (kernel/trap.c) and swap I/O (swapread, swapwrite in            *)
(* kernel/fs.c), executed by several processes at once.                    *)
(*                                                                         *)
(* Every process runs on a CPU of its own or is preempted anywhere, so     *)
(* steps of different processes interleave freely.  One step is a critical *)
(* section of kmem.lock, lru_lock or swap_lock, the transfer of one disk   *)
(* block, or one access to a PTE, together with the process's own work up  *)
(* to the next such point.                                                 *)
(*                                                                         *)
(* A page holds world.blks values (one per disk block).  The page-table    *)
(* pages of a process are the frame leaf[p] (allocated by walk) and, with  *)
(* its trapframe, the frame tf[p] (allocated by allocproc): what allocproc *)
(* and proc_pagetable allocate is had or missed together.  The             *)
(* replacement list is the queue of ClockQueue, which LruList implements.  *)
(* The buffer cache passes swap blocks through unchanged.                  *)
(***************************************************************************)
EXTENDS Naturals, Sequences, FiniteSets

CONSTANTS
  Proc, initproc,   \* process slots, and the first process
  Frame,            \* physical pages in the allocator's range
  BootList,         \* the same pages in the order of the free list at boot
  MaxPg,            \* bound: size of an address space, in pages
  MaxGrow,          \* bound: pages requested by one sbrk
  SpPage,           \* PGROUNDDOWN(sp) / PGSIZE of a running program
  Val,              \* values that user programs store
  Worlds,           \* machines and programs, see WorldAssumption
  NULL

OpNames == {"access", "copyout", "grow", "shrink", "fork", "wait", "exit"}

ASSUME ProcAssumption  == initproc \in Proc /\ NULL \notin Proc
ASSUME FrameAssumption ==
  /\ NULL \notin Frame
  /\ BootList \in Seq(Frame) /\ Len(BootList) >= 3
  /\ \A f \in Frame : \E k \in 1..Len(BootList) : BootList[k] = f
  /\ \A j, k \in 1..Len(BootList) : BootList[j] = BootList[k] => j = k
ASSUME BoundAssumption == MaxPg \in Nat \ {0} /\ MaxGrow \in Nat /\ SpPage \in Nat

\* frames: pages of memory; slots: SWAPMAX / 4, page slots on disk; blks:
\* PGSIZE / BSIZE; pages, grow: bounds on an address space and on one sbrk;
\* ops: what each program does.
ASSUME WorldAssumption ==
  Worlds \subseteq [frames : 3..Len(BootList), slots : Nat, blks : 1..2,
                   pages : 1..MaxPg, grow : 0..MaxGrow, ops : [Proc -> SUBSET OpNames]]

Pg     == 0 .. MaxPg - 1
AnyBlk == 0 .. 1
Data == Val \cup {"zero", "junk"}

VARIABLES
  world,      \* the member of Worlds that runs
  freelist,   \* kmem.freelist
  lru,        \* the replacement list, the page under the hand first
  rmap,       \* pages[].pagetable and pages[].vaddr
  bitmap,     \* the slots marked in use in swap_bitmap
  pte,        \* <<p, v>> -> st: PTE_V ("V"), PTE_S ("S") or neither ("0"),
              \*             n: frame or slot number, a: PTE_A
  mem, disk,  \* contents of frames and slots
  sz,         \* p->sz in pages
  leaf, tf,   \* page-table page and trapframe of each process
  parent,
  pc, L,      \* what each process is doing, and its local variables
  tlb,        \* translations cached by the CPU that runs p in user mode
  want        \* history: what p (or its parent before fork) stored last

Boot == SubSeq(BootList, 1, world.frames)
Slot == 0 .. world.slots - 1
Blk  == 0 .. world.blks - 1

store  == <<mem, disk>>
tables == <<pte, rmap, lru>>
life   == <<sz, leaf, tf, parent>>
vars   == <<world, freelist, lru, rmap, bitmap, pte, mem, disk, sz, leaf, tf, parent,
            pc, L, tlb, want>>

Page(x)     == [b \in Blk |-> x]
NoPte       == [st |-> "0", n |-> NULL, a |-> FALSE]
InMem(f, a) == [st |-> "V", n |-> f, a |-> a]
OnDisk(e, s) == [e EXCEPT !.st = "S", !.n = s]
NoTlb       == [v \in Pg |-> NULL]

\* ret: where kalloc or uvmunmap returns to; as, i, end: the address space
\* and the pages being worked on; n: the new size; got, hold: frames owned by
\* this thread; pa: a frame it merely points to; fl: flags read from a PTE.
Idle == [ret |-> "user", as |-> NULL, i |-> 0, end |-> 0, n |-> 0, got |-> NULL,
         hold |-> NULL, pa |-> NULL, fl |-> FALSE, slot |-> 0, blk |-> 0]

\* After userinit: the first process has its trapframe, a page-table page and
\* one page of memory (uvmfirst).
Init ==
  /\ world \in Worlds
  /\ freelist = SubSeq(Boot, 4, Len(Boot))
  /\ tf = [p \in Proc |-> IF p = initproc THEN Boot[1] ELSE NULL]
  /\ leaf = [p \in Proc |-> IF p = initproc THEN Boot[2] ELSE NULL]
  /\ lru = <<Boot[3]>>
  /\ rmap = [f \in Frame |-> <<initproc, 0>>]
  /\ bitmap = {}
  /\ pte = [x \in Proc \X Pg |->
              IF x = <<initproc, 0>> THEN InMem(Boot[3], FALSE) ELSE NoPte]
  /\ mem = [f \in Frame |-> Page(IF f = Boot[3] THEN "zero" ELSE "junk")]
  /\ disk = [s \in Slot |-> Page("junk")]
  /\ sz = [p \in Proc |-> IF p = initproc THEN 1 ELSE 0]
  /\ parent = [p \in Proc |-> NULL]
  /\ pc = [p \in Proc |-> IF p = initproc THEN "user" ELSE "unused"]
  /\ L = [p \in Proc |-> Idle]
  /\ tlb = [p \in Proc |-> NoTlb]
  /\ want = [x \in Proc \X Pg |-> Page("zero")]

Goto(p, l) == pc' = [pc EXCEPT ![p] = l]

\* Back to user mode, with the locals forgotten.
Return(p) ==
  /\ Goto(p, "user")
  /\ L' = [L EXCEPT ![p] = Idle]

Does(p, op) == pc[p] = "user" /\ op \in world.ops[p]

\* Mutant: the TLB survives the way into the kernel.
Trap_no_flush(p) == UNCHANGED tlb

\* Every way into the kernel goes through uservec, which flushes the TLB.
Trap(p) == tlb' = [tlb EXCEPT ![p] = NoTlb]
-----------------------------------------------------------------------------
(* kalloc and swap_out.  The result is L[p].got, NULL on failure. *)

CallKalloc(p, l) == Goto(p, "kalloc") /\ L' = [L EXCEPT ![p] = l]

kalloc(p) ==
  /\ pc[p] = "kalloc"
  /\ IF freelist # <<>>
     THEN /\ freelist' = Tail(freelist)
          /\ mem' = [mem EXCEPT ![Head(freelist)] = Page("junk")]
          /\ L' = [L EXCEPT ![p].got = Head(freelist)]
          /\ Goto(p, L[p].ret)
     ELSE /\ Goto(p, "swap_out")
          /\ UNCHANGED <<freelist, mem, L>>
  /\ UNCHANGED <<world, tables, bitmap, disk, life, tlb, want>>

\* Positions of the queue whose recorded PTE is valid, and not referenced.
Usable == {k \in 1..Len(lru) : pte[rmap[lru[k]]].st = "V"}
Cold   == {k \in Usable : ~pte[rmap[lru[k]]].a}

\* The clock stops at position k: at the first unreferenced page, or, if all
\* are referenced, at the first page on the second round.
Victim(k) ==
  IF Cold # {} THEN k \in Cold /\ \A j \in Cold : k <= j
               ELSE k \in Usable /\ \A j \in Usable : k <= j

\* The pages that lost PTE_A before the clock stopped at k.
Passed(k) == {rmap[lru[j]] : j \in {j \in Usable : Cold = {} \/ j < k}}

SecondChance(k) ==
  [x \in DOMAIN pte |-> IF x \in Passed(k) THEN [pte[x] EXCEPT !.a = FALSE] ELSE pte[x]]

FreeSlot(s) == s \in Slot \ bitmap /\ \A t \in Slot \ bitmap : s <= t

\* Mutant: a full swap area is not an error, swap_out waits for a slot.
swap_out_waits(p) ==
  /\ pc[p] = "swap_out"
  /\ lru = <<>>
  /\ Goto(p, L[p].ret)
  /\ L' = [L EXCEPT ![p].got = NULL]
  /\ UNCHANGED <<world, freelist, tables, bitmap, store, life, tlb, want>>

\* Nothing can be evicted: no page is listed, or no slot is free.
swap_out_fails(p) ==
  /\ pc[p] = "swap_out"
  /\ IF lru = <<>>
     THEN UNCHANGED pte
     ELSE /\ Slot \subseteq bitmap
          /\ \E k \in Usable : Victim(k) /\ pte' = SecondChance(k)
  /\ Goto(p, L[p].ret)
  /\ L' = [L EXCEPT ![p].got = NULL]
  /\ UNCHANGED <<world, freelist, lru, rmap, bitmap, store, life, tlb, want>>

\* The critical section of lru_lock: choose a victim and a slot, unlink the
\* page and mark its PTE.  Only this CPU's TLB is flushed, and the page is not
\* written yet.  If pages are listed but none has a valid PTE the code loops
\* for ever with lru_lock held: no step is possible.
swap_out(p) ==
  /\ pc[p] = "swap_out"
  /\ \E k \in Usable, s \in Slot :
       /\ Victim(k) /\ FreeSlot(s)
       /\ bitmap' = bitmap \cup {s}
       /\ lru' = SubSeq(lru, k + 1, Len(lru)) \o SubSeq(lru, 1, k - 1)
       /\ pte' = [SecondChance(k) EXCEPT ![rmap[lru[k]]] = OnDisk(@, s)]
       /\ L' = [L EXCEPT ![p].got = lru[k], ![p].slot = s, ![p].blk = 0]
  /\ Goto(p, "swapwrite")
  /\ UNCHANGED <<world, freelist, rmap, store, life, tlb, want>>

\* Mutant: the last block is not written.
swapwrite_short(p) ==
  /\ pc[p] = "swapwrite"
  /\ LET f == L[p].got
         s == L[p].slot
         b == L[p].blk
     IN /\ disk' = [disk EXCEPT ![s][b] = mem[f][b]]
        /\ IF b + 2 >= world.blks
           THEN /\ mem' = [mem EXCEPT ![f] = Page("junk")]
                /\ L' = [L EXCEPT ![p].blk = 0]
                /\ Goto(p, L[p].ret)
           ELSE /\ L' = [L EXCEPT ![p].blk = b + 1]
                /\ UNCHANGED <<mem, pc>>
  /\ UNCHANGED <<world, freelist, tables, bitmap, life, tlb, want>>

\* One block of swapwrite; after the last one kalloc fills the page with 5s.
swapwrite(p) ==
  /\ pc[p] = "swapwrite"
  /\ LET f == L[p].got
         s == L[p].slot
         b == L[p].blk
     IN /\ disk' = [disk EXCEPT ![s][b] = mem[f][b]]
        /\ IF b + 1 = world.blks
           THEN /\ mem' = [mem EXCEPT ![f] = Page("junk")]
                /\ L' = [L EXCEPT ![p].blk = 0]
                /\ Goto(p, L[p].ret)
           ELSE /\ L' = [L EXCEPT ![p].blk = b + 1]
                /\ UNCHANGED <<mem, pc>>
  /\ UNCHANGED <<world, freelist, tables, bitmap, life, tlb, want>>
-----------------------------------------------------------------------------
(* User mode and the page fault handler. *)

\* A store through a cached translation or through the page table.  What a
\* load returns is the subject of the invariant Intact.
Store(p, v, b, x) ==
  /\ Does(p, "access")
  /\ b \in Blk
  /\ \E f \in Frame :
       /\ \/ tlb[p][v] = f /\ UNCHANGED <<tlb, pte>>
          \/ /\ pte[<<p, v>>].st = "V" /\ pte[<<p, v>>].n = f
             /\ tlb' = [tlb EXCEPT ![p][v] = f]
             /\ pte' = [pte EXCEPT ![<<p, v>>].a = TRUE]
       /\ mem' = [mem EXCEPT ![f][b] = x]
  /\ want' = [want EXCEPT ![<<p, v>>][b] = x]
  /\ UNCHANGED <<world, freelist, lru, rmap, bitmap, disk, life, pc, L>>

\* exit: the process becomes a zombie that keeps its memory until its parent
\* waits for it; its children go to initproc.  initproc may not exit.
Exit(p) ==
  /\ Goto(p, IF p = initproc THEN "halted" ELSE "zombie")
  /\ parent' = [q \in Proc |-> IF parent[q] = p THEN initproc ELSE parent[q]]
  /\ L' = [L EXCEPT ![p] = Idle]

sys_exit(p) ==
  /\ Does(p, "exit")
  /\ Trap(p)
  /\ Exit(p)
  /\ UNCHANGED <<world, freelist, tables, bitmap, store, sz, leaf, tf, want>>

\* Page fault on v: a swapped-out page of the program is brought back;
\* anything else, and what looks like the stack guard page, kills it.
usertrap(p, v) ==
  /\ Does(p, "access")
  /\ pte[<<p, v>>].st # "V"
  /\ Trap(p)
  /\ IF v < sz[p] /\ v + 1 # SpPage /\ leaf[p] # NULL /\ pte[<<p, v>>].st = "S"
     THEN CallKalloc(p, [Idle EXCEPT !.ret = "swapin", !.i = v]) /\ UNCHANGED parent
     ELSE Exit(p)
  /\ UNCHANGED <<world, freelist, tables, bitmap, store, sz, leaf, tf, want>>

\* One block of swapread, for a page fault ("swapin") or for uvmcopy
\* ("copyin").  The slot number is taken from the PTE.
swapread(p) ==
  /\ pc[p] \in {"swapin", "copyin"}
  /\ L[p].got # NULL
  /\ LET f == L[p].got
         b == L[p].blk
         s == pte[<<p, L[p].i>>].n
     IN /\ mem' = [mem EXCEPT ![f][b] = disk[s][b]]
        /\ IF b + 1 = world.blks
           THEN /\ L' = [L EXCEPT ![p].blk = 0, ![p].slot = s]
                /\ Goto(p, "freeslot")
           ELSE /\ L' = [L EXCEPT ![p].blk = b + 1]
                /\ UNCHANGED pc
  /\ UNCHANGED <<world, freelist, tables, bitmap, disk, life, tlb, want>>

\* No memory for the page that faulted: the process is killed.
swapin_fails(p) ==
  /\ pc[p] = "swapin"
  /\ L[p].got = NULL
  /\ Exit(p)
  /\ UNCHANGED <<world, freelist, tables, bitmap, store, sz, leaf, tf, tlb, want>>

\* swap_bitmap[swap_idx] = 0, under swap_lock.
freeslot(p) ==
  /\ pc[p] = "freeslot"
  /\ bitmap' = bitmap \ {L[p].slot}
  /\ Goto(p, "restore")
  /\ UNCHANGED <<world, freelist, tables, store, life, L, tlb, want>>

\* Frame f becomes the resident page x: PTE, reverse map, replacement list.
Register(x, f, a) ==
  /\ pte' = [pte EXCEPT ![x] = InMem(f, a)]
  /\ rmap' = [rmap EXCEPT ![f] = x]
  /\ lru' = Append(lru, f)

\* Mutant: the page that was read back is not listed.
restore_unlisted(p) ==
  /\ pc[p] = "restore"
  /\ LET x == <<p, L[p].i>>
         f == L[p].got
         copying == L[p].ret = "copyin"
     IN /\ pte' = [pte EXCEPT ![x] = InMem(f, pte[x].a \/ copying)]
        /\ rmap' = [rmap EXCEPT ![f] = x]
        /\ IF copying
           THEN CallKalloc(p, [L[p] EXCEPT !.ret = "copymove", !.pa = f,
                                           !.fl = TRUE, !.got = NULL])
           ELSE Return(p)
  /\ UNCHANGED <<world, lru, freelist, bitmap, store, life, tlb, want>>

\* The PTE is valid again.  A fault is over; uvmcopy goes on to allocate the
\* child's page and remembers the parent's frame only by its address.
restore(p) ==
  /\ pc[p] = "restore"
  /\ LET f == L[p].got
         copying == L[p].ret = "copyin"
         x == <<p, L[p].i>>
     IN /\ Register(x, f, pte[x].a \/ copying)
        /\ IF copying
           THEN CallKalloc(p, [L[p] EXCEPT !.ret = "copymove", !.pa = f,
                                           !.fl = TRUE, !.got = NULL])
           ELSE Return(p)
  /\ UNCHANGED <<world, freelist, bitmap, store, life, tlb, want>>

\* A system call that stores into user memory: walkaddr finds the frame,
\* memmove uses it later.  A page that is not in memory is an error.
copyout(p, v) ==
  /\ Does(p, "copyout")
  /\ Trap(p)
  /\ IF pte[<<p, v>>].st = "V"
     THEN /\ L' = [L EXCEPT ![p].pa = pte[<<p, v>>].n, ![p].i = v]
          /\ Goto(p, "memmove")
     ELSE UNCHANGED <<L, pc>>
  /\ UNCHANGED <<world, freelist, tables, bitmap, store, life, want>>

memmove(p, b, x) ==
  /\ pc[p] = "memmove"
  /\ b \in Blk
  /\ mem' = [mem EXCEPT ![L[p].pa][b] = x]
  /\ want' = [want EXCEPT ![<<p, L[p].i>>][b] = x]
  /\ Return(p)
  /\ UNCHANGED <<world, freelist, tables, bitmap, disk, life, tlb>>
-----------------------------------------------------------------------------
(* uvmunmap of the pages i .. end-1 of the address space as. *)

CallUnmap(p, l) == Goto(p, "unmap") /\ L' = [L EXCEPT ![p] = l]

Push(f, q) == IF f = NULL THEN q ELSE <<f>> \o q

\* Mutant: the slot of a swapped-out page is not given back.
unmap_slot_leaked(p) ==
  /\ pc[p] = "unmap"
  /\ L[p].i < L[p].end
  /\ LET x == <<L[p].as, L[p].i>>
         e == pte[x]
     IN IF leaf[L[p].as] = NULL
        THEN Goto(p, "panic") /\ UNCHANGED <<L, bitmap, pte>>
        ELSE IF e.st = "V"
             THEN /\ L' = [L EXCEPT ![p].pa = e.n]
                  /\ Goto(p, "unmap_resident")
                  /\ UNCHANGED <<bitmap, pte>>
             ELSE /\ pte' = [pte EXCEPT ![x] = NoPte]
                  /\ L' = [L EXCEPT ![p].i = @ + 1]
                  /\ UNCHANGED <<bitmap, pc>>
  /\ UNCHANGED <<world, freelist, lru, rmap, store, life, tlb, want>>

\* Look at one PTE.  The slot of a swapped-out page is freed at once; for a
\* page in memory the frame number is read and the list is locked later.
unmap(p) ==
  /\ pc[p] = "unmap"
  /\ L[p].i < L[p].end
  /\ LET x == <<L[p].as, L[p].i>>
         e == pte[x]
     IN IF leaf[L[p].as] = NULL
        THEN Goto(p, "panic") /\ UNCHANGED <<L, bitmap, pte>>
        ELSE IF e.st = "V"
             THEN /\ L' = [L EXCEPT ![p].pa = e.n]
                  /\ Goto(p, "unmap_resident")
                  /\ UNCHANGED <<bitmap, pte>>
             ELSE /\ bitmap' = IF e.st = "S" THEN bitmap \ {e.n} ELSE bitmap
                  /\ pte' = [pte EXCEPT ![x] = NoPte]
                  /\ L' = [L EXCEPT ![p].i = @ + 1]
                  /\ UNCHANGED pc
  /\ UNCHANGED <<world, freelist, lru, rmap, store, life, tlb, want>>

\* The replacement list without f; lru_remove ignores a page not listed.
Without(f) ==
  IF \E k \in 1..Len(lru) : lru[k] = f
  THEN LET k == CHOOSE k \in 1..Len(lru) : lru[k] = f
       IN SubSeq(lru, 1, k - 1) \o SubSeq(lru, k + 1, Len(lru))
  ELSE lru

\* lru_remove(pa); kfree(pa); *pte = 0.
unmap_resident(p) ==
  /\ pc[p] = "unmap_resident"
  /\ lru' = Without(L[p].pa)
  /\ freelist' = Push(L[p].pa, freelist)
  /\ mem' = [mem EXCEPT ![L[p].pa] = Page("junk")]
  /\ pte' = [pte EXCEPT ![<<L[p].as, L[p].i>>] = NoPte]
  /\ L' = [L EXCEPT ![p].i = @ + 1, ![p].pa = NULL]
  /\ Goto(p, "unmap")
  /\ UNCHANGED <<world, rmap, bitmap, disk, life, tlb, want>>

\* The caller of uvmunmap goes on.  growproc: the size is set, or kept after
\* a failed allocation.  wait and fork: freeproc gives back what is left of
\* the process (freewalk panics if a page is still mapped).
unmapped(p) ==
  /\ pc[p] = "unmap"
  /\ L[p].i >= L[p].end
  /\ LET c == L[p].as
     IN IF L[p].ret \in {"shrunk", "growfailed"}
        THEN /\ sz' = [sz EXCEPT ![p] = L[p].n]
             /\ Return(p)
             /\ UNCHANGED <<freelist, leaf, tf, parent>>
        ELSE /\ freelist' = Push(leaf[c], Push(tf[c], freelist))
             /\ leaf' = [leaf EXCEPT ![c] = NULL]
             /\ tf' = [tf EXCEPT ![c] = NULL]
             /\ sz' = [sz EXCEPT ![c] = 0]
             /\ parent' = [parent EXCEPT ![c] = NULL]
             /\ pc' = [pc EXCEPT ![c] = "unused",
                         ![p] = IF \E v \in Pg : pte[<<c, v>>].st = "V" THEN "panic" ELSE "user"]
             /\ L' = [L EXCEPT ![p] = Idle]
  /\ want' = [x \in DOMAIN want |->
                IF x[1] = L[p].as /\ x[2] >= L[p].n THEN Page("zero") ELSE want[x]]
  /\ UNCHANGED <<world, tables, bitmap, store, tlb>>
-----------------------------------------------------------------------------
(* growproc. *)

sbrk_grow(p, n) ==
  /\ Does(p, "grow")
  /\ n <= world.grow /\ sz[p] + n <= world.pages
  /\ Trap(p)
  /\ CallKalloc(p, [Idle EXCEPT !.ret = "grown", !.as = p, !.i = sz[p], !.end = sz[p] + n])
  /\ UNCHANGED <<world, freelist, tables, bitmap, store, life, want>>

sbrk_shrink(p, n) ==
  /\ Does(p, "shrink")
  /\ n <= sz[p]
  /\ Trap(p)
  /\ CallUnmap(p, [Idle EXCEPT !.ret = "shrunk", !.as = p, !.i = sz[p] - n,
                               !.end = sz[p], !.n = sz[p] - n])
  /\ UNCHANGED <<world, freelist, tables, bitmap, store, life, want>>

\* Allocation failed inside uvmalloc or uvmcopy: undo the pages done so far.
Undo(p) ==
  LET l == [Idle EXCEPT !.as = L[p].as, !.end = L[p].i]
  IN IF L[p].as = p
     THEN CallUnmap(p, [l EXCEPT !.ret = "growfailed", !.i = sz[p], !.n = sz[p]])
     ELSE CallUnmap(p, [l EXCEPT !.ret = "forkfailed"])

\* mappages of frame f as page i of address space as, and the next round of
\* the caller's loop (uvmalloc if as is p's own, uvmcopy otherwise).
MapNext(p, f) ==
  LET c == L[p].as
      i == L[p].i
      l == [L[p] EXCEPT !.i = i + 1, !.got = NULL, !.hold = NULL, !.pa = NULL, !.fl = FALSE]
  IN IF pte[<<c, i>>].st = "V"
     THEN Goto(p, "panic") /\ UNCHANGED <<tables, sz, L>>
     ELSE /\ Register(<<c, i>>, f, L[p].fl)
          /\ IF c # p
             THEN /\ Goto(p, "copy")
                  /\ L' = [L EXCEPT ![p] = l]
                  /\ UNCHANGED sz
             ELSE IF i + 1 = L[p].end
                  THEN Return(p) /\ sz' = [sz EXCEPT ![p] = i + 1]
                  ELSE CallKalloc(p, [l EXCEPT !.ret = "grown"]) /\ UNCHANGED sz

\* uvmalloc and uvmcopy with the new frame in got: fill it, then map it.  If
\* walk needs a page-table page it calls kalloc while the frame is held.
fill(p) ==
  /\ pc[p] \in {"grown", "copymove"}
  /\ IF L[p].got = NULL
     THEN Undo(p) /\ UNCHANGED <<mem, tables, sz>>
     ELSE /\ mem' = [mem EXCEPT ![L[p].got] =
                       IF pc[p] = "grown" THEN Page("zero") ELSE mem[L[p].pa]]
          /\ IF leaf[L[p].as] # NULL
             THEN MapNext(p, L[p].got)
             ELSE /\ CallKalloc(p, [L[p] EXCEPT !.ret = "leafed", !.hold = L[p].got, !.got = NULL])
                  /\ UNCHANGED <<tables, sz>>
  /\ UNCHANGED <<world, freelist, bitmap, disk, leaf, tf, parent, tlb, want>>

\* Mutant: the frame that could not be mapped is not freed.
leafed_leak(p) ==
  /\ pc[p] = "leafed"
  /\ IF L[p].got = NULL
     THEN /\ Undo(p)
          /\ UNCHANGED <<freelist, mem, tables, sz, leaf>>
     ELSE /\ leaf' = [leaf EXCEPT ![L[p].as] = L[p].got]
          /\ MapNext(p, L[p].hold)
          /\ UNCHANGED <<freelist, mem>>
  /\ UNCHANGED <<world, bitmap, disk, tf, parent, tlb, want>>

\* walk has its page-table page, or has none: then the frame is freed.
leafed(p) ==
  /\ pc[p] = "leafed"
  /\ IF L[p].got = NULL
     THEN /\ freelist' = Push(L[p].hold, freelist)
          /\ mem' = [mem EXCEPT ![L[p].hold] = Page("junk")]
          /\ Undo(p)
          /\ UNCHANGED <<tables, sz, leaf>>
     ELSE /\ leaf' = [leaf EXCEPT ![L[p].as] = L[p].got]
          /\ MapNext(p, L[p].hold)
          /\ UNCHANGED <<freelist, mem>>
  /\ UNCHANGED <<world, bitmap, disk, tf, parent, tlb, want>>
-----------------------------------------------------------------------------
(* fork and wait. *)

\* allocproc finds an unused slot and allocates with no lock held.
fork(p, np) ==
  /\ Does(p, "fork")
  /\ pc[np] = "unused"
  /\ Trap(p)
  /\ pc' = [pc EXCEPT ![p] = "kalloc", ![np] = "used"]
  /\ L' = [L EXCEPT ![p] = [Idle EXCEPT !.ret = "trapframe", !.as = np]]
  /\ UNCHANGED <<world, freelist, tables, bitmap, store, life, want>>

\* allocproc has its trapframe and page-table pages, which are one frame here,
\* or gives the slot back.
trapframe(p) ==
  /\ pc[p] = "trapframe"
  /\ LET np == L[p].as
     IN IF L[p].got = NULL
        THEN /\ pc' = [pc EXCEPT ![p] = "user", ![np] = "unused"]
             /\ L' = [L EXCEPT ![p] = Idle]
             /\ UNCHANGED tf
        ELSE /\ tf' = [tf EXCEPT ![np] = L[p].got]
             /\ L' = [L EXCEPT ![p].got = NULL]
             /\ Goto(p, "copy")
  /\ UNCHANGED <<world, freelist, tables, bitmap, store, sz, leaf, parent, tlb, want>>

\* One round of uvmcopy up to its first kalloc: frame number and flags of a
\* page in memory are read before the allocation.
uvmcopy(p) ==
  /\ pc[p] = "copy"
  /\ L[p].i < sz[p]
  /\ LET e == pte[<<p, L[p].i>>]
     IN IF e.st = "V"
        THEN CallKalloc(p, [L[p] EXCEPT !.ret = "copymove", !.pa = e.n, !.fl = e.a])
        ELSE IF e.st = "S"
             THEN CallKalloc(p, [L[p] EXCEPT !.ret = "copyin"])
             ELSE Goto(p, "panic") /\ UNCHANGED L
  /\ UNCHANGED <<world, freelist, tables, bitmap, store, life, tlb, want>>

\* No memory to bring the parent's page back.
copyin_fails(p) ==
  /\ pc[p] = "copyin"
  /\ L[p].got = NULL
  /\ Undo(p)
  /\ UNCHANGED <<world, freelist, tables, bitmap, store, life, tlb, want>>

forked(p) ==
  /\ pc[p] = "copy"
  /\ L[p].i >= sz[p]
  /\ LET np == L[p].as
     IN /\ sz' = [sz EXCEPT ![np] = sz[p]]
        /\ want' = [x \in DOMAIN want |-> IF x[1] = np THEN want[<<p, x[2]>>] ELSE want[x]]
        /\ parent' = [parent EXCEPT ![np] = p]
        /\ pc' = [pc EXCEPT ![p] = "user", ![np] = "user"]
  /\ L' = [L EXCEPT ![p] = Idle]
  /\ UNCHANGED <<world, freelist, tables, bitmap, store, leaf, tf, tlb>>

\* wait finds a zombie; freeproc frees the trapframe and then the memory.
wait(p, c) ==
  /\ Does(p, "wait")
  /\ pc[c] = "zombie"
  /\ parent[c] = p
  /\ Trap(p)
  /\ freelist' = Push(tf[c], freelist)
  /\ tf' = [tf EXCEPT ![c] = NULL]
  /\ CallUnmap(p, [Idle EXCEPT !.ret = "reaped", !.as = c, !.end = sz[c]])
  /\ UNCHANGED <<world, tables, bitmap, store, sz, leaf, parent, want>>
-----------------------------------------------------------------------------
\* What a program does, up to its entry into the kernel ...
User(p) ==
  \/ \E v \in Pg : usertrap(p, v) \/ copyout(p, v)
  \/ \E v \in Pg, b \in AnyBlk, x \in Val : Store(p, v, b, x)
  \/ sys_exit(p)
  \/ \E n \in 1..MaxGrow : sbrk_grow(p, n)
  \/ \E n \in 1..MaxPg : sbrk_shrink(p, n)
  \/ \E q \in Proc : fork(p, q) \/ wait(p, q)

\* ... and what the kernel does until it returns.
Kernel(p) ==
  \/ kalloc(p) \/ swap_out_fails(p) \/ swap_out(p) \/ swapwrite(p)
  \/ swapread(p) \/ swapin_fails(p) \/ freeslot(p) \/ restore(p)
  \/ \E b \in AnyBlk, x \in Val : memmove(p, b, x)
  \/ unmap(p) \/ unmap_resident(p) \/ unmapped(p)
  \/ fill(p) \/ leafed(p)
  \/ trapframe(p) \/ uvmcopy(p) \/ copyin_fails(p) \/ forked(p)

\* panic() loops for ever.
Halted(p) == pc[p] \in {"panic", "halted"} /\ UNCHANGED vars

Next == \E p \in Proc : User(p) \/ Kernel(p) \/ Halted(p)

Spec == Init /\ [][Next]_vars

\* Every process in the kernel is scheduled again and every disk transfer
\* completes: nothing in these paths waits for another process.
FairSpec == Spec /\ \A p \in Proc : WF_vars(Kernel(p))
-----------------------------------------------------------------------------
(* Properties. *)

\* Every variable holds a value of its C type.
TypeOK ==
  /\ freelist \in Seq(Frame) /\ lru \in Seq(Frame)
  /\ rmap \in [Frame -> Proc \X Pg]
  /\ bitmap \subseteq Slot
  /\ pte \in [Proc \X Pg -> [st : {"0"}, n : {NULL}, a : {FALSE}]
                       \cup [st : {"V"}, n : Frame, a : BOOLEAN]
                       \cup [st : {"S"}, n : Slot, a : {FALSE}]]
  /\ mem \in [Frame -> [Blk -> Data]] /\ disk \in [Slot -> [Blk -> Data]]
  /\ sz \in [Proc -> 0..MaxPg]
  /\ leaf \in [Proc -> Frame \cup {NULL}] /\ tf \in [Proc -> Frame \cup {NULL}]
  /\ parent \in [Proc -> Proc \cup {NULL}]
  /\ tlb \in [Proc -> [Pg -> Frame \cup {NULL}]]
  /\ want \in [Proc \X Pg -> [Blk -> Data]]

\* Who holds a frame: the free list, a page table that maps it, a process
\* that uses it as page table or trapframe, a thread that has just got it.
Claims ==
     {<<freelist[k], <<"free", k, 0>>>> : k \in 1..Len(freelist)}
  \cup {<<pte[x].n, <<"page", x[1], x[2]>>>> : x \in {x \in DOMAIN pte : pte[x].st = "V"}}
  \cup {<<leaf[p], <<"leaf", p, 0>>>> : p \in {p \in Proc : leaf[p] # NULL}}
  \cup {<<tf[p], <<"tf", p, 0>>>> : p \in {p \in Proc : tf[p] # NULL}}
  \cup {<<L[p].got, <<"got", p, 0>>>> : p \in {p \in Proc : L[p].got # NULL}}
  \cup {<<L[p].hold, <<"hold", p, 0>>>> : p \in {p \in Proc : L[p].hold # NULL}}

\* Every frame has exactly one holder: kalloc never hands out a page that is
\* in use, uvmunmap, uvmalloc, uvmcopy and freeproc never free one twice, and
\* none is lost after failed allocations, failed forks and exits.  (The programs
\* of the instances do not shrink while another process may evict.)
FramesExact ==
  /\ \A c, d \in Claims : c[1] = d[1] => c = d
  /\ \A k \in 1..Len(Boot) : \E c \in Claims : c[1] = Boot[k]

\* The page x is being brought back and its slot is free already.
Released(x) == pc[x[1]] = "restore" /\ L[x[1]].i = x[2]

\* swap_bitmap marks exactly the slots that a page table refers to, each
\* referred to once: no slot is shared by two pages and none leaks, unless a
\* process unmaps pages while another evicts them.
SlotsExact ==
  \A s \in Slot :
    LET users == {x \in DOMAIN pte : pte[x].st = "S" /\ pte[x].n = s /\ ~Released(x)}
    IN IF s \in bitmap THEN \E x \in users : users = {x} ELSE users = {}

\* The replacement list holds each resident user page once, under the
\* mapping recorded for it: swap_out finds the PTE of its victim, and every
\* resident page can become a victim.
ListExact ==
  /\ \A j, k \in 1..Len(lru) : lru[j] = lru[k] => j = k
  /\ \A k \in 1..Len(lru) : LET e == pte[rmap[lru[k]]] IN e.st = "V" /\ e.n = lru[k]
  /\ \A x \in DOMAIN pte :
       pte[x].st = "V" => rmap[pte[x].n] = x /\ \E k \in 1..Len(lru) : lru[k] = pte[x].n

\* Block b of page x as its owner would read it: from memory, or from the
\* slot once the pending write of swap_out is done.
Content(x, b) ==
  IF pte[x].st = "V" THEN mem[pte[x].n][b]
  ELSE LET w == {q \in Proc : pc[q] = "swapwrite" /\ L[q].slot = pte[x].n /\ L[q].blk <= b}
       IN IF w = {} THEN disk[pte[x].n][b] ELSE mem[L[CHOOSE q \in w : TRUE].got][b]

\* Swapping is transparent: a process in user mode finds in every page what
\* it stored there last (or what its parent had stored before fork).
Intact ==
  \A p \in Proc, v \in Pg, b \in Blk :
    pc[p] = "user" /\ v < sz[p] => Content(<<p, v>>, b) = want[<<p, v>>][b]

\* No process but the first: never forked, or reaped.
Alone == \A p \in Proc \ {initproc} : pc[p] = "unused"

\* Swapping is transparent to a process that is alone in memory, whatever
\* eviction, fault and failed call came before.
IntactAlone == Alone => Intact

\* The CPU of a process that is alone in memory never uses a translation
\* that the page table no longer contains.
TlbCoherent ==
  Alone => \A p \in Proc, v \in Pg :
    tlb[p][v] # NULL => pte[<<p, v>>].st = "V" /\ pte[<<p, v>>].n = tlb[p][v]

\* Every system call and page fault ends: kalloc, swap_out and the loops of
\* uvmalloc, uvmunmap and uvmcopy terminate, with success or failure, and not
\* in one of the panics of uvmunmap, mappages, uvmcopy and freewalk.
KernelReturns ==
  \A p \in Proc :
    L[p] # Idle \/ pc[p] = "panic" ~> pc[p] \in {"user", "zombie", "halted"}
=============================================================================
