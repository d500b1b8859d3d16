-------------------------------- MODULE Proc --------------------------------
(***************************************************************************)
(* The life of processes in kernel/proc.c: fork, exit, wait, kill, sleep,  *)
(* wakeup, yield and the per-CPU scheduler, at the level of wait_lock and  *)
(* of the lock of each process.                                            *)
(*                                                                         *)
(* A CPU executes its scheduler or the kernel thread of one process.  A    *)
(* step is a critical section, or the part of one between two acquisitions *)
(* when a second lock is taken inside it.  A spinlock is held by a CPU, as *)
(* in struct spinlock.  sleep is used by wait only; the other sleepers of  *)
(* the kernel follow the same protocol with their own lock and channel.    *)
(***************************************************************************)
EXTENDS Naturals, FiniteSets

CONSTANTS
  NPROC,        \* size of the process table
  CPU,
  MaxKill,      \* bound: how many processes may be marked killed at a time
  NULL

ASSUME ProcAssumption == NPROC \in Nat \ {0} /\ NULL \notin Nat /\ NULL \notin CPU
ASSUME KillAssumption == MaxKill \in Nat

Proc == 1..NPROC
initproc == 1

VARIABLES
  state, chan, killed, parent,  \* fields of struct proc
  plock, wait_lock,             \* the CPU that holds each p->lock, and wait_lock
  ctx,                          \* the process whose thread a CPU executes, or
                                \*   NULL in the scheduler (c->proc)
  pc, ret,                      \* where each kernel thread is, and where it goes
                                \*   on after swtch
  i, wchan, kids,               \* locals: loop counter, channel to wake, havekids
  child                         \* np in fork

fields == <<state, chan, killed, parent>>
locks  == <<plock, wait_lock>>
locals == <<i, wchan, kids, child>>
vars == <<state, chan, killed, parent, plock, wait_lock, ctx, pc, ret, i, wchan,
          kids, child>>

\* userinit has made the first process; every CPU is in its scheduler.
Init ==
  /\ state = [p \in Proc |-> IF p = initproc THEN "RUNNABLE" ELSE "UNUSED"]
  /\ chan = [p \in Proc |-> NULL]
  /\ killed = [p \in Proc |-> FALSE]
  /\ parent = [p \in Proc |-> NULL]
  /\ plock = [p \in Proc |-> NULL]
  /\ wait_lock = NULL
  /\ ctx = [c \in CPU |-> NULL]
  /\ pc = [p \in Proc |-> "resume"]
  /\ ret = [p \in Proc |-> "user"]
  /\ i = [p \in Proc |-> 1]
  /\ wchan = [p \in Proc |-> NULL]
  /\ kids = [p \in Proc |-> FALSE]
  /\ child = [p \in Proc |-> NULL]

\* CPU c executes the thread of process p, which is at label l.
At(c, p, l) == ctx[c] = p /\ pc[p] = l

Goto(p, l) == pc' = [pc EXCEPT ![p] = l]

\* The locals of a loop or call that is over.
Forget(p) ==
  /\ i' = [i EXCEPT ![p] = 1]
  /\ wchan' = [wchan EXCEPT ![p] = NULL]
  /\ kids' = [kids EXCEPT ![p] = FALSE]
  /\ child' = [child EXCEPT ![p] = NULL]

Acquire(p, c) == plock[p] = NULL /\ plock' = [plock EXCEPT ![p] = c]
Release(p)    == plock' = [plock EXCEPT ![p] = NULL]
Free(p)       == plock[p] = NULL \* acquired and released within one step
-----------------------------------------------------------------------------
(* scheduler, sched, yield, forkret. *)

\* The scheduler finds p runnable and switches to it, holding p->lock.
scheduler(c, p) ==
  /\ ctx[c] = NULL
  /\ state[p] = "RUNNABLE"
  /\ Acquire(p, c)
  /\ state' = [state EXCEPT ![p] = "RUNNING"]
  /\ ctx' = [ctx EXCEPT ![c] = p]
  /\ UNCHANGED <<chan, killed, parent, wait_lock, pc, ret, locals>>

\* sched: the thread switches to the scheduler, which releases p->lock.
sched(c, p) ==
  /\ At(c, p, "swtch")
  /\ ctx' = [ctx EXCEPT ![c] = NULL]
  /\ Release(p)
  /\ Goto(p, "resume")
  /\ UNCHANGED <<fields, wait_lock, ret, locals>>

\* Back from swtch: the rest of yield, of sleep (which clears p->chan), or
\* forkret.  All release p->lock first.
resume(c, p) ==
  /\ At(c, p, "resume")
  /\ Release(p)
  /\ chan' = [chan EXCEPT ![p] = NULL]
  /\ Goto(p, ret[p])
  /\ ret' = [ret EXCEPT ![p] = "user"]
  /\ UNCHANGED <<state, killed, parent, wait_lock, ctx, locals>>

\* A timer interrupt while no lock is held: in user mode, where a killed
\* process exits first, or in the kernel (kerneltrap), the loop of panic
\* included.  One at the start of exit or wait could as well have come just
\* before the system call.
yield(c, p) ==
  /\ ctx[c] = p
  /\ pc[p] \in {"user", "fork_alloc", "fork_run", "panic"}
  /\ pc[p] = "user" => ~killed[p]
  /\ Acquire(p, c)
  /\ state' = [state EXCEPT ![p] = "RUNNABLE"]
  /\ ret' = [ret EXCEPT ![p] = pc[p]]
  /\ Goto(p, "swtch")
  /\ UNCHANGED <<chan, killed, parent, wait_lock, ctx, locals>>
-----------------------------------------------------------------------------
(* System calls.  usertrap looks at p->killed first. *)

\* The program enters the kernel, or is found killed when it does.
usertrap(c, p) ==
  /\ At(c, p, "user")
  /\ Free(p)
  /\ \E l \in {"wait", "exit"} :
       /\ killed[p] => l = "exit"
       /\ Goto(p, l)
  /\ UNCHANGED <<fields, locks, ctx, ret, locals>>

freeproc(q) ==
  /\ state' = [state EXCEPT ![q] = "UNUSED"]
  /\ chan' = [chan EXCEPT ![q] = NULL]
  /\ killed' = [killed EXCEPT ![q] = FALSE]
  /\ parent' = [parent EXCEPT ![q] = NULL]

\* fork: allocproc takes an unused entry and lets go of its lock to allocate.
fork(c, p, np) ==
  /\ At(c, p, "user")
  /\ ~killed[p]
  /\ Free(p) /\ Free(np)
  /\ state[np] = "UNUSED"
  /\ state' = [state EXCEPT ![np] = "USED"]
  /\ child' = [child EXCEPT ![p] = np]
  /\ Goto(p, "fork_alloc")
  /\ UNCHANGED <<chan, killed, parent, locks, ctx, ret, i, wchan, kids>>

\* kalloc, proc_pagetable or uvmcopy fails.
fork_fails(c, p) ==
  /\ At(c, p, "fork_alloc")
  /\ Free(child[p])
  /\ freeproc(child[p])
  /\ Goto(p, "user")
  /\ Forget(p)
  /\ UNCHANGED <<locks, ctx, ret>>

\* Mutant: np->parent is not set.
fork_parent_unset(c, p) ==
  /\ At(c, p, "fork_alloc")
  /\ wait_lock = NULL
  /\ Goto(p, "fork_run")
  /\ UNCHANGED <<fields, locks, ctx, ret, locals>>

\* np->parent = p, under wait_lock.
fork_parent(c, p) ==
  /\ At(c, p, "fork_alloc")
  /\ wait_lock = NULL
  /\ parent' = [parent EXCEPT ![child[p]] = p]
  /\ Goto(p, "fork_run")
  /\ UNCHANGED <<state, chan, killed, locks, ctx, ret, locals>>

fork_run(c, p) ==
  /\ At(c, p, "fork_run")
  /\ Free(child[p])
  /\ state' = [state EXCEPT ![child[p]] = "RUNNABLE"]
  /\ pc' = [pc EXCEPT ![p] = "user", ![child[p]] = "resume"]
  /\ ret' = [ret EXCEPT ![child[p]] = "user"]
  /\ Forget(p)
  /\ UNCHANGED <<chan, killed, parent, locks, ctx>>

\* kill, of any process.  A free entry has pid 0, so kill(0) marks one: the
\* next fork that takes the entry makes a process that is killed from the start.
kill(c, p, q) ==
  /\ At(c, p, "user")
  /\ ~killed[p]
  /\ Free(p) /\ Free(q)
  /\ Cardinality({r \in Proc : killed[r]}) < MaxKill
  /\ killed' = [killed EXCEPT ![q] = TRUE]
  /\ state' = [state EXCEPT ![q] = IF @ = "SLEEPING" THEN "RUNNABLE" ELSE @]
  /\ UNCHANGED <<chan, parent, locks, ctx, pc, ret, locals>>
-----------------------------------------------------------------------------
(* exit. *)

\* init must not exit: panic, for ever.
init_exiting(c, p) ==
  /\ At(c, p, "exit") /\ p = initproc
  /\ Goto(p, "panic")
  /\ UNCHANGED <<fields, locks, ctx, ret, locals>>

\* exit and reparent: with wait_lock held, the children go to init, which is
\* woken if there are any, and then the parent is.
exit(c, p) ==
  /\ At(c, p, "exit") /\ p # initproc
  /\ wait_lock = NULL /\ wait_lock' = c
  /\ parent' = [q \in Proc |-> IF parent[q] = p THEN initproc ELSE parent[q]]
  /\ wchan' = [wchan EXCEPT ![p] = IF \E q \in Proc : parent[q] = p THEN initproc ELSE parent[p]]
  /\ i' = [i EXCEPT ![p] = 1]
  /\ Goto(p, "wakeup")
  /\ UNCHANGED <<state, chan, killed, plock, ctx, ret, kids, child>>

\* One round of wakeup(wchan[p]) under the lock of the process looked at.
wakeup(c, p) ==
  /\ At(c, p, "wakeup")
  /\ i[p] \in Proc
  /\ i[p] # p => Free(i[p])
  /\ state' = [state EXCEPT ![i[p]] =
                 IF i[p] # p /\ @ = "SLEEPING" /\ chan[i[p]] = wchan[p] THEN "RUNNABLE" ELSE @]
  /\ i' = [i EXCEPT ![p] = @ + 1]
  /\ UNCHANGED <<chan, killed, parent, locks, ctx, pc, ret, wchan, kids, child>>

\* wakeup(initproc) is followed by wakeup(p->parent), that by the end of exit.
woken(c, p) ==
  /\ At(c, p, "wakeup")
  /\ i[p] \notin Proc
  /\ IF wchan[p] # parent[p]
     THEN /\ wchan' = [wchan EXCEPT ![p] = parent[p]]
          /\ i' = [i EXCEPT ![p] = 1]
          /\ UNCHANGED pc
     ELSE Goto(p, "zombie") /\ UNCHANGED <<i, wchan>>
  /\ UNCHANGED <<fields, locks, ctx, ret, kids, child>>

\* p->lock is taken, the state set, wait_lock released; then sched.
zombie(c, p) ==
  /\ At(c, p, "zombie")
  /\ Acquire(p, c)
  /\ state' = [state EXCEPT ![p] = "ZOMBIE"]
  /\ wait_lock' = NULL
  /\ Goto(p, "swtch")
  /\ Forget(p)
  /\ UNCHANGED <<chan, killed, parent, ctx, ret>>
-----------------------------------------------------------------------------
(* wait and sleep. *)

wait(c, p) ==
  /\ At(c, p, "wait")
  /\ wait_lock = NULL /\ wait_lock' = c
  /\ i' = [i EXCEPT ![p] = 1]
  /\ kids' = [kids EXCEPT ![p] = FALSE]
  /\ Goto(p, "scan")
  /\ UNCHANGED <<fields, plock, ctx, ret, wchan, child>>

WaitReturns(p) ==
  /\ wait_lock' = NULL
  /\ Goto(p, "user")
  /\ Forget(p)

\* The scan meets an entry that is not an exited child.
scan(c, p) ==
  /\ At(c, p, "scan")
  /\ i[p] \in Proc
  /\ parent[i[p]] = p => Free(i[p]) /\ state[i[p]] # "ZOMBIE"
  /\ kids' = [kids EXCEPT ![p] = @ \/ parent[i[p]] = p]
  /\ i' = [i EXCEPT ![p] = @ + 1]
  /\ UNCHANGED <<fields, locks, ctx, pc, ret, wchan, child>>

\* Mutant: the child's lock is not taken.
reap_unlocked(c, p) ==
  /\ At(c, p, "scan")
  /\ i[p] \in Proc
  /\ parent[i[p]] = p
  /\ state[i[p]] = "ZOMBIE"
  /\ freeproc(i[p])
  /\ WaitReturns(p)
  /\ UNCHANGED <<plock, ctx, ret>>

\* An exited child is freed under its lock.
reap(c, p) ==
  /\ At(c, p, "scan")
  /\ i[p] \in Proc
  /\ parent[i[p]] = p
  /\ Free(i[p])
  /\ state[i[p]] = "ZOMBIE"
  /\ freeproc(i[p])
  /\ WaitReturns(p)
  /\ UNCHANGED <<plock, ctx, ret>>

\* copyout of the exit status fails: the page is not in memory.
reap_fails(c, p) ==
  /\ At(c, p, "scan")
  /\ i[p] \in Proc
  /\ parent[i[p]] = p
  /\ Free(i[p])
  /\ state[i[p]] = "ZOMBIE"
  /\ WaitReturns(p)
  /\ UNCHANGED <<fields, plock, ctx, ret>>

\* Mutant: wait_lock is given up before p->lock is taken.
scanned_unlocks(c, p) ==
  /\ At(c, p, "scan")
  /\ i[p] \notin Proc
  /\ kids[p] => Free(p)
  /\ IF ~kids[p] \/ killed[p]
     THEN WaitReturns(p)
     ELSE Goto(p, "sleep") /\ Forget(p) /\ wait_lock' = NULL
  /\ UNCHANGED <<fields, plock, ctx, ret>>

\* The scan is over: give up, or go to sleep.
scanned(c, p) ==
  /\ At(c, p, "scan")
  /\ i[p] \notin Proc
  /\ kids[p] => Free(p)
  /\ IF ~kids[p] \/ killed[p]
     THEN WaitReturns(p)
     ELSE Goto(p, "sleep") /\ Forget(p) /\ UNCHANGED wait_lock
  /\ UNCHANGED <<fields, plock, ctx, ret>>

\* sleep(p, &wait_lock): p->lock is taken before wait_lock is released.
sleep(c, p) ==
  /\ At(c, p, "sleep")
  /\ Acquire(p, c)
  /\ wait_lock' = NULL
  /\ chan' = [chan EXCEPT ![p] = p]
  /\ state' = [state EXCEPT ![p] = "SLEEPING"]
  /\ ret' = [ret EXCEPT ![p] = "wait"]
  /\ Goto(p, "swtch")
  /\ UNCHANGED <<killed, parent, ctx, locals>>
-----------------------------------------------------------------------------
Step(c, p) ==
  \/ scheduler(c, p) \/ sched(c, p) \/ resume(c, p) \/ yield(c, p) \/ usertrap(c, p)
  \/ \E q \in Proc : fork(c, p, q) \/ kill(c, p, q)
  \/ fork_fails(c, p) \/ fork_parent(c, p) \/ fork_run(c, p)
  \/ init_exiting(c, p) \/ exit(c, p) \/ wakeup(c, p) \/ woken(c, p) \/ zombie(c, p)
  \/ wait(c, p) \/ scan(c, p) \/ reap(c, p) \/ reap_fails(c, p) \/ scanned(c, p)
  \/ sleep(c, p)

Next == \E c \in CPU, p \in Proc : Step(c, p)

Spec == Init /\ [][Next]_vars
-----------------------------------------------------------------------------
(* Properties. *)

\* Every variable holds a value of its C type.
TypeOK ==
  /\ state \in [Proc -> {"UNUSED", "USED", "SLEEPING", "RUNNABLE", "RUNNING", "ZOMBIE"}]
  /\ chan \in [Proc -> Proc \cup {NULL}]
  /\ killed \in [Proc -> BOOLEAN]
  /\ parent \in [Proc -> Proc \cup {NULL}]
  /\ plock \in [Proc -> CPU \cup {NULL}]
  /\ wait_lock \in CPU \cup {NULL}
  /\ ctx \in [CPU -> Proc \cup {NULL}]
  /\ i \in [Proc -> 1..(NPROC + 1)]
  /\ kids \in [Proc -> BOOLEAN]
  /\ child \in [Proc -> Proc \cup {NULL}]

\* The process table and the CPUs agree: no kernel stack is used by two CPUs,
\* a running process is on a CPU, and a process on a CPU is running or that
\* CPU holds its lock to leave it.  So wait never frees, fork never reuses and the
\* scheduler never resumes a process that has not left its stack.
StackExclusive ==
  /\ \A c, d \in CPU : ctx[c] # NULL /\ ctx[c] = ctx[d] => c = d
  /\ \A p \in Proc : state[p] = "RUNNING" => \E c \in CPU : ctx[c] = p
  /\ \A c \in CPU, p \in Proc :
       ctx[c] = p => \/ state[p] = "RUNNING"
                     \/ plock[p] = c /\ state[p] \in {"RUNNABLE", "SLEEPING", "ZOMBIE"}

\* No wakeup is lost: unless an exit is in progress, a process that sleeps in
\* wait has no child that has exited.
NoLostWakeup ==
  \A p, q \in Proc :
    /\ parent[q] = p /\ state[q] = "ZOMBIE"
    /\ state[p] = "SLEEPING" /\ chan[p] = p
    => \E r \in Proc : pc[r] = "wakeup"

\* No process is orphaned: every process that can run or has exited has a
\* parent that has not, which can wait for it or passes it on to init.
HasParent ==
  \A p \in Proc \ {initproc} :
    state[p] \in {"RUNNABLE", "RUNNING", "SLEEPING", "ZOMBIE"} =>
      parent[p] # NULL /\ state[parent[p]] \in {"RUNNABLE", "RUNNING", "SLEEPING"}
=============================================================================
