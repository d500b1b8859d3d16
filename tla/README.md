# A TLA+ model of xv6-riscv with swapping

This directory models the program in `src/xv6-riscv`: the xv6-riscv teaching kernel with an
extension that swaps user pages to disk (`pa4`), and the shell that runs on it. The modules state
what the concurrent parts promise, TLC checks them on small instances, and TLAPS proves the
properties of the page replacement list, the log, the disk driver, the buffer cache, the process
table and pipes for instances of any size.

    tlc -config <run>.cfg <module>         # section 3 and PROJECT.json list the runs
    tlapm <module>.tla                     # LruListProofs, LogTheorems, LogProofs, VirtioProofs,
                                           # DeviceProofs, BioProofs, ProcProofs, PipeProofs

## 1. Inventory

| Part | State | Operations | Shared with |
|---|---|---|---|
| Replacement list (`kalloc.c`) | `lru_head`, `struct page` links | `lru_add`, `lru_remove`, the clock of `swap_out` | all CPUs, under `lru_lock`; the MMU sets `PTE_A` |
| Swapping, user memory (`kalloc.c`, `vm.c`, `trap.c`, `fs.c`) | free list, PTEs, `swap_bitmap`, swap blocks | `kalloc`, `swap_out`, page fault, `uvmalloc`, `uvmunmap`, `uvmcopy`, `copyout` | page tables of other processes are changed by `swap_out` |
| Log (`log.c`) | header in memory and on disk, `outstanding`, `committing` | `begin_op`, `log_write`, `end_op`, recovery | file system calls |
| Buffer cache (`bio.c`, `sleeplock.c`) | buffers, LRU order, reference counts, sleep locks | `bread`, `bwrite`, `brelse`, `bpin`, `bunpin` | log, file system, swapping |
| Disk driver (`virtio_disk.c`) | descriptors, two rings | `virtio_disk_rw`, `virtio_disk_intr` | the device |
| Processes (`proc.c`) | process table, `wait_lock`, contexts | scheduler, `sleep`, `wakeup`, `fork`, `exit`, `wait`, `kill` | everything |
| Pipes (`pipe.c`) | ring, free-running counters, two ends | `pipewrite`, `piperead`, `pipeclose` | processes that share an end |
| Inodes, directories, paths (`fs.c`) | inode table, dinodes, directory entries | `iget`, `ilock`, `iput`, `ialloc`, `dirlink`, `namex` | log, buffer cache |
| File table and calls (`file.c`, `sysfile.c`) | open files, descriptors | `open`, `link`, `unlink`, `chdir`, `close`, `dup`, ... | `fork` and `exit` |
| File contents (`fs.c`, `file.c`) | bitmap, block map, shared offset | `balloc`, `bfree`, `bmap`, `readi`, `writei`, `itrunc`, `filewrite` | processes that share an open file |
| Console, UART (`console.c`, `uart.c`, `printf.c`) | input buffer, transmit ring | read, write, interrupt, `printf` | devices |
| Clock (`trap.c`, `sysproc.c`) | `ticks` | `clockintr`, `sys_sleep` | all sleepers |
| Spin locks (`spinlock.c`) | `locked`, `noff`, `intena` | `acquire`, `release`, `push_off`, `pop_off` | everything |
| Shell, init (`sh.c`, `init.c`) | command tree, descriptors | parser, `runcmd`, main loops | pipes and processes |
| `exec` (`exec.c`) | a new page table | `exec`, `loadseg` | swapping |

Boot, formatting, system call dispatch, the libraries and the other user programs have no
concurrent state of their own. PROJECT.json lists every part, with its status, and the hazards with
their lines.

## 2. Modules

Every module models critical sections as steps: the code between taking a spin lock and releasing
it, or going to sleep, is one action. Where the code reads shared state *without* a lock, or uses
after a sleep what it read before, the action is split there. Definitions carry the names of the C
functions; a name with a suffix (`swap_out_fails`, `write_full`) is one path of the function.
Operators marked *Mutant* are faulty versions of the operator below them. They are not part of any
specification; putting one in the place of the operator must break a property.

Some modules have a variable `world` or `load` that Init chooses and no step changes: which calls
each process makes, and how large memory is. One run then covers several workloads, each small.

* **LruList** is the doubly linked ring pointer by pointer. `Map` and `Unmap` stand for the places
  that map or unmap a user page, `Scan...` for the clock of `swap_out`, `Touch` for the MMU.
  **ClockQueue** is what the ring stands for: a sequence with a hand.
* **Swap** takes the list as a sequence, which LruList justifies, and adds frames, page tables,
  slots, disk blocks, TLBs and the processes. `L` holds the locals of the system call or page fault
  each process is in. `swapwrite` and `swapread` transfer a page one block at a time. `want` is a
  history variable: what each process stored last. The trapframe of a process and the page-table pages
  that `proc_pagetable` allocates with it are one frame, allocated or missed together.
* **Log** has the disk blocks, the log on disk, the cached blocks, and a crash that can come between
  any two disk writes. The log area on disk has `NLog` blocks besides its header (`log.size - 1`), which may
  be fewer than LOGSIZE: mkfs, which decides, is not in the repository. A call logs at most MAXOPBLOCKS
  different blocks, each as often as it likes. A panic keeps `log.lock`, so nobody else gets on. **AtomicDisk** commits groups of writes in one step.
* **Bio** has the buffers with their reference counts and sleep locks. **BlockStore** is an array of
  blocks with one user each.
* **Virtio** has the descriptors, the rings with indices that wrap, the device that finishes
  requests in any order, and the handler's loop step by step. The data are abstracted to whether a
  request has been served, and a ring entry is cleared once nobody reads it again.
* **Proc** has the process table at the level of `p->lock` and `wait_lock`, with the CPUs that run
  contexts, so that a process that is a zombie but still on its stack is visible. `kill` may meet any
  entry: init, which then panics in `exit`, and a free one, whose pid is 0.
* **Pipe** has the ring with counters modulo `UMax`. **BoundedFifo** is a queue of bytes.
* **Fs** has the inode table, dinodes, directory entries, open files, descriptors and current
  directories. A step is a critical section of `itable.lock` or `ftable.lock`; `iput` is split
  where it lets its locks go, and an inode stays locked across the steps in which the code waits
  for something else (`create` under a locked parent, `unlink` with two inodes, `open` while it looks for
  a descriptor). A file that `open` or `pipe` has allocated is taken for the others before it has a
  descriptor, and is closed again if it gets none. The table is
  indexed by inode number: NINODE is taken to be large enough, and "iget: no inodes" is not met.
* **File** has the bitmap, the direct and indirect blocks, sizes, open files with their offsets, and
  the transaction of each process. A block holds BSIZE bytes, and a byte is the process that wrote
  it. `copyin` and `copyout` may fail at any block; what a failing `copyin` has already put into the
  buffer stays there, unlogged, as in `writei`. `want` and `sent` are history variables.
* **Console** has a stack of frames per process and per scheduler: an interrupt pushes a frame on
  whatever its CPU runs. `acquire` is two steps, so that an interrupt can come between disabling
  interrupts and taking the lock on another CPU. The test of `killed` and the sleep after it are two
  steps, and so are taking a character from the transmit ring and writing it to the UART. The ring counters and `ticks` wrap at `UINT`;
  `printf` prints one character. **LineBuffer** is what input promises: a line that can be edited
  until it is committed.
* **Shell** has the parser of `sh.c` as recursive operators on sequences of tokens, a second
  definition of the grammar to compare it with (`Meaning`), and the processes, pipe ends and
  descriptors that `runcmd` makes. A program writes `Burst` bytes to descriptor 1 and then reads
  descriptor 0 to its end. init starts the shell again when it exits, and panics if it cannot fork.
  Kernel calls are external here.

The modules meet at their boundaries: Fs and File assume of a transaction what Log shows, Log of
`bread` what Bio shows, Bio of a transfer what Virtio shows; Log, Pipe, Bio and Console of `sleep` and
`wakeup` what Proc models with the locks; Shell of pipes, descriptors and `wait` what Pipe, Fs and
Proc show.

## 3. Runs

| Run | Module | Instance | Question |
|---|---|---|---|
| `lru` | LruList | 4 pages | Is the list always one ring of mapped pages, does it implement ClockQueue, does the scan end? |
| `swap` | MCSwap | four worlds, see below | Are frames, slots and the list exact, failures undone, memory and TLB intact for a process that is alone, do all calls end? |
| `log` | Log | 2 processes, 3 blocks, LOGSIZE 4, MAXOPBLOCKS 2, 3 blocks on disk, any number of crashes and of `log_write`s | Are groups of calls atomic, when can `log_write` panic, is everyone woken? |
| `bio` | MCBio | 2 processes, 3 blocks, 2 buffers, 1 pin | One copy, exact counts, is it a BlockStore? |
| `virtio` | Virtio | 3 processes, 8 descriptors, indices modulo 8 | Right buffers, exact descriptors, is everyone woken? |
| `proc` | MCProc | 4 processes, 2 CPUs, 2 kills | Has a stack one user, is every exit noticed, has everyone a parent? |
| `pipe` | MCPipe | 2 writers, 1 reader, 2 bytes of ring, counters modulo 4 | Are wakeups kept, is it a BoundedFifo? |
| `fs` | MCFs | 2 processes, 4 inodes, 2 open files, 2 descriptors, three loads | Are references exact, are link counts exact whenever a crash could show them, is an inode in use kept, no panic, no deadlock? |
| `file` | MCFile | 2 processes, 2 inodes, 3 open files, 2 bytes per block, 2 direct blocks and 1 indirect, 4 blocks on disk, three loads | Has a block one owner, do reads return what was written, do transactions fit, do writers with one offset not overwrite each other? |
| `console` | MCConsole | 2 CPUs, 2 processes, 2 characters of input, 1 of output, counters modulo 4, six loads | Do locks mask interrupts, is every sleeper woken, does output go on, is input a LineBuffer? |
| `shell` | MCShell | all lines of at most 4 tokens out of 7, and 8 longer ones; 3 or 8 process slots | Is the parser the grammar, are pipes wired as the line says, does every line end? |
| `swap_fork_copy` | MCSwap | parent and child, 6 frames, 2 slots | violation, see below |

The worlds of `swap` are *Solo* (one process, 4 frames, 1 slot, pages of two blocks), *Fork*
(a parent and children that only exit, 5 frames, 1 slot), *ForkLarge* (the same with 4 pages each)
and *Duo* (two processes that grow and use memory at the same time, 6 frames, 2 slots). The loads of
`fs` are files created, linked, removed and closed in two directories; a directory that comes and
goes under its users; descriptors shared by parent and child and calls that fail. Those of `file`
are two writers of one open file; a writer, a reader and a truncation on a full disk; two open files
of one inode. Those of `console` are one reader, two readers, editing with a writer, writers preempted
with a full buffer, `printf` and the process list, and the clock.

The bounds are chosen so that the limits are met: fewer frames than pages, one or two slots, fewer
buffers than blocks, a log that two calls fill and an area for it that is smaller still, a disk with fewer blocks than two files need, rings
whose indices wrap several times. Three requests of three descriptors each do not fit into eight,
so one process waits. Two blocks per page are enough for a page that is half written. Four
processes are init, a parent, its child and one more to take a freed slot of the table; two kills
reach the parent and the child. A write of up to three bytes into a pipe of two has to sleep. A
write of five bytes needs the indirect block and is split into transactions. Four tokens
are enough for each pair of operators to meet, and three process slots for `fork` to fail inside a
pipeline. Symmetry (`proc`, `pipe`) is used with safety properties only; ImplementsFifo is one.

**Fairness.** Swap (`FairSpec`) assumes that a process inside the kernel is scheduled again and
that disk transfers complete. Log and Virtio assume weak fairness for the steps of a process that
can run, for the device and for taking an interrupt: xv6's scheduler is round robin and interrupts
are level triggered. LruList assumes that the clock moves, since its CPU has interrupts off. Shell
assumes only that while some process of the command can go on, one does, and that init goes on when the
shell has exited; its `Finishes` is then a statement about deadlock among processes and pipes. Bio, Proc, Pipe, Fs, File and Console are checked
without fairness: their lost wakeups and deadlocks are stated as invariants, or found by TLC's
deadlock check.

`swap_fork_copy` is expected to end in a violation: `uvmcopy` keeps the frame of a page across
`kalloc`, which may evict that page and return the frame, so that the child gets other contents than
the parent had. A comment and a test of the repository say that the data are copied (see the
finding in PROJECT.json).

### What else the models show

These have no run of their own. Each is what the code does; unless it says so, the passing runs leave the case out,
in the way that is said here, and the hazards in PROJECT.json give the lines.

* *Races of `swap_out` with the owner of the page.* `swap_out` changes the page tables of other
  processes, which use and change their own tables without a lock, and flushes only its own CPU's
  TLB. In world Duo the invariant `Intact` is violated: a store goes through a stale TLB entry, or
  the owner reads the slot before `swapwrite` has written it (`kalloc.c:229`). Hence `IntactAlone` and
  `TlbCoherent` speak of a process that is alone.
* *Unmapping during eviction.* With "shrink" added to the child's calls in Duo, `FramesExact` and
  `SlotsExact` are violated: `uvmunmap` and `swap_out` both take a frame (`vm.c:214`).
* *An inode that is not reclaimed.* `Reclaimed` of Fs, checked with `fs.cfg`, is violated: `iput` frees
  an inode number, a `create` that then fails for lack of space allocates and drops it again at once,
  while the first process has yet to decrement its reference; neither `iput` frees it (`fs.c:343`).
* *A removed current directory.* `open("..")` in it runs into the panic of `ilock` "no type", and
  `create` in it leaves an inode without a name. The loads of `fs` do not do this.
* *The log.* `log_write` looks for a full log before it looks for the block (`log.c:220`), so a call that
  has logged MAXOPBLOCKS blocks and logs one of them again when the log is full ends in "too big a
  transaction". `begin_op` reckons with LOGSIZE, `log_write` also with the size of the log area; if that
  is smaller the panic comes earlier. `ReservationHolds` says that there is no other way to it, and the
  run `log` does reach the panic.
* *A kill that does not wake.* `consoleread` and `sys_sleep` ask `killed` and then sleep; a kill in between
  leaves the process asleep until the next input or tick (`console.c:92`, `sysproc.c:63`). The same holds
  for `wait` (Proc). `NoLostWakeup` is about the wakeups of input, output, clock and exit, not of `kill`.
* *`kill(0)`* marks a free entry of the process table as killed, and `allocproc` does not clear the mark:
  the next process there is killed when it first enters the kernel. *Killing init* is the panic
  "init exiting". Both are steps of `proc`.
* *`wait` with a swapped-out status page* returns -1, the action `reap_fails` of Proc.
* *A killed writer* leaves bytes in a pipe that no reader is woken for; `NoLostWakeup` of Pipe excepts it.

## 4. Proofs

**The replacement list.** `LruListProofs` proves for any finite or infinite set of pages:

* `TypeCorrect`: the links are pages or NULL;
* `ListWellFormed`: `next` and `prev` are inverse to each other (`Ring`), and no proper subset of
  the listed pages is closed under `next` (`OneRing`); together they are `WellFormed`;
* `ClockMeetsMappedPages`: every listed page is mapped, and so is the page under the hand;
* `Refinement`: the pointers implement ClockQueue.

`WellFormed` is not inductive, and says too little to read a queue off the ring. The inductive
invariant says that the listed pages can be numbered 1 to n along `next`, and back along `prev`, with
`lru_head` first (`Lists`). `ListIsRing` and `ListIsOneRing` derive the ring from it; the second follows a
set that is closed under `next` to the least number it misses. The same argument shows that there is
only one numbering (`WalkUnique`), so it is the sequence `Order` that the refinement mapping uses
(`OrderIs`). Unlinking is shown for the last page (`LastUnlinked`), and every page is the last one of
the same ring started behind it (`TurnedChain`, `PageUnlinked`); adding puts a page behind the last.
`NextInv` has one step per action and shows the invariant and the step of the queue together.
The only assumption is that NULL is not a page.

**The log.** `LogProofs` has the inductive invariant and what each step does to it, `LogTheorems` the
results, for any processes, blocks, size of the log and number of crashes:

* `Refinement`: the log implements AtomicDisk. What a recovery would leave on disk changes only when
  the header is written, and then by all the blocks of a group at once; a crash at any step, also in
  recovery, loses whole groups only;
* `ReservationEnough`: what `begin_op` reserves is enough (`ReservationHolds`). `log_write` meets a full log
  only when its call has logged MAXOPBLOCKS different blocks already and logs one again, or as many
  blocks earlier as the log area is smaller than LOGSIZE; no other panic of `log_write` or `end_op` is
  reached. How often a call logs is not restricted, nor is the size of the area.

The invariant has five parts. `Group`: a commit and system calls exclude each other. `Counted`:
`log.outstanding` is the number of calls in progress. `Memory`: a block is in the header once and pinned
once until it is installed, and an unpinned block is cached as it is on disk. `Header`: the header on
disk is empty unless what it lists is being installed. `Loops` and `Copied`: how far `write_log` and
`install_trans` are. The mapping needs all of them: the committed disk is the disk with the log copied
over it (`RecoveredIs`), installing changes nothing in that view (`InstallRecovers`), and clearing the
header does not because everything has been installed (`ClearRecovers`). `ReservationEnough` needs two more
invariants. `Logged`: what a call has logged is in the header until the call ends. `Enough`: the blocks
in the header and those that calls in progress may still log (`Reserved`, a set of pairs of a call and
a number) are together at most LOGSIZE; a `log_write` of a new block uses up one pair of its call
(`WriteRoom`), and `begin_op` adds MAXOPBLOCKS pairs only if there is room (`BeginRoom`). The assumptions are
finitely many processes and 1 <= MAXOPBLOCKS <= LOGSIZE.

**The disk driver.** `DeviceProofs` has the inductive invariant, the rings and the steps of the device
and the handler; `VirtioProofs` adds the steps that take and free descriptors and proves, for any
processes, at least three descriptors, and ring indices that wrap at any multiple of NUM:

* `DataArrives`: who is woken has had its own buffer transferred (`Transferred`), whatever the order of
  completion;
* `DescriptorsOwned`: a descriptor is free or in one request's chain, and no panic is reached
  (`DescsExact`).

The invariant has three parts. `Chains`: requests have disjoint chains of three descriptors, and what is
not free is in one. `Requests`: a request that is not finished is in exactly one of the available ring,
the device and the used ring, and in the used ring with its data transferred. `Calls`: `b->disk` is set
while its process waits. The available ring is never overrun because a request takes three descriptors:
fewer than NUM heads are in the ring (`Room`, by the pigeonhole principle). `Produce` and `Consume` are the
two ends of a ring whose indices wrap.

**The buffer cache.** `BioProofs` proves for any sets of blocks and buffers and any finite set of
processes:

* `TypeCorrect`: in particular no reference count goes below zero;
* `OneCopy`: a block is in at most one buffer (`SingleCopy`);
* `CountsExact`: a reference count is the number of processes that have the buffer or wait for it,
  and one more while it is pinned (`RefcntExact`);
* `MutualExclusion`: no two processes have the data of a block at a time (`BlockExclusive`).

The inductive invariant adds `HoldersExact` (who has a buffer, and with its lock) and `PinnedCached`
(a pinned block is in a buffer). A recycled buffer has no holder and no pin because its count is
exact; counts stay exact because the block that is recycled *for* is not pinned, which follows from
`PinnedCached`; pinning changes one count because of `SingleCopy`. The lemmas `HolderJoins` and
`HolderLeaves` count the holders, and there is one lemma per action or group of actions. The
assumptions are that NULL is no process, block or buffer, that processes are finitely many, and
that the list of `binit` consists of the buffers.

`BioProofs` goes on to `Refinement`: the cache implements BlockStore. The mapping takes the contents
of a block from its valid buffer, or else from the disk, and its user from the process between
`bread` and `brelse`. It needs one more invariant, `Clean`: data that differ from the disk are in use or
pinned. With exact counts this makes recycling invisible, since a buffer without references holds
what the disk holds. `bread` is the step Take, a change of the data Change, the first half of `brelse`
Give, and every other step a stutter. `Clean` rests on the guard of `releasesleep`, the obligation of the
callers to write or log what they changed.

**Processes.** `ProcProofs` proves for any number of processes and CPUs:

* `StacksExclusive`: no two CPUs run on one process's stack, and a slot is reused only when its old
  process has left its stack (`StackExclusive`);
* `NoOrphans`: every process but init has a parent that has not exited (`HasParent`). init itself stays in
  the table: its `exit` is a panic.

The inductive invariant `PInv` has four parts. `Threads` ties a process's state, the holder of its lock
and the CPU that runs it together, in particular across `swtch`, where the lock passes from one context
to another. `Children` says what `fork` has under construction between its two critical sections.
`Family` says that parents are alive and that nobody becomes a zombie before its children have been
given to init; without it a child could be handed to a process that is already past `reparent`.

`NoWakeupLost` is the third theorem: a process that sleeps in `wait` has no zombie child, unless an exit is
still in its wakeup loop before it (`NoLostWakeup`). Two more invariants are needed. `Guarded` says that
who is in the scan of `wait`, or between `wakeup` and ZOMBIE in `exit`, has `wait_lock`. `Wakeups` says that
the scan has passed no zombie child, that there is none when `wait` decides to sleep, and that `exit`
reaches or has passed its sleeping parent. Together they are the argument for the order of the
locks in `sleep`, which takes `p->lock` before it lets `wait_lock` go. The assumptions are NPROC > 0 and
that NULL is neither a number nor a CPU.

**Pipes.** `PipeProofs` proves for any readers and writers, any PIPESIZE and any bound of the counters
that is a larger multiple of PIPESIZE, as 2^32 is of 512:

* `WakeupsKept`: `NoLostWakeup`; the invariants `ReadersSleep` and `WritersSleep` give the reasons for
  sleeping in every state, also while somebody has the lock and has not yet called `wakeup`;
* `Refinement`: the pipe implements BoundedFifo. The queue is read off the ring between `nread` and
  `nwrite`. `RingOK` bounds their distance by PIPESIZE; the arithmetic lemmas (`NextIndex`, `Distance`,
  `SlotWraps`, `SlotsDiffer`) show that a counter that wraps does not change which slot comes next and
  that a new byte goes to none of the slots still to be read. This is where the counters' bound has to
  be a multiple of the size. `PutByte` and `GetByte` are then facts about sequences.

Only model-checked: the invariants of Swap, Fs, File and Console, the refinement of LineBuffer, all
liveness (out of this prover's reach), and the parser of Shell, which is recursive over its input.

## 5. Not modelled

* `exec`: a new address space is filled from a file while pages of it may be evicted. It would be one
  more operation of Swap, whose run is at its limit; the hazard at `exec.c:156` is listed.
* Boot and formatting: they run once, alone, and their result is Init.
* Dispatch and the fetching of arguments: a table lookup. `copyin` and `copyinstr` are not actions of
  Swap, since they change no kernel state; that they may fail is a choice in File.
* `fstat`, `swapstat` and the counters behind it: they are only read or counted.
* The libraries of kernel and user (strings, formatting, `umalloc`): sequential loops over bytes.
* The user and test programs: sequential clients of the calls, the environment of the models.
* In the modules: Swap has one leaf page table per process, and no failure between the trapframe and the
  page table of a new process (`proc.c:139-149`); the clock queue lets a page with a clear reference bit
  be evicted though another such page is before it; Proc leaves out pids and the registers
  that `swtch` and the trap code save, and takes the timer interrupt only where an earlier one does not
  have the same effect; Bio gives a process one buffer at a time, while `bmap` and `write_log` hold two;
  Fs has room for every inode; Shell takes a line as tokens.

## 6. Plan

1. Done: LruList, Log, Virtio, Bio, Proc and Pipe with their proofs; Swap, Fs, File, Console, Shell.
2. exec over Swap's memory: evicted pages in `loadseg` and `copyout` of the arguments.
3. Fs and File over AtomicDisk in one module: a crash in the middle of a call that spans transactions.
4. Two buffers per process in Bio: the order in which `bmap` and `write_log` take them.
5. Proofs: `RefExact` of Fs, `BlocksExact` of File, Console as a LineBuffer.
