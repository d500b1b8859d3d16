----------------------------- MODULE ProcProofs -----------------------------
(***************************************************************************)
(* Proofs about module Proc, for any number of processes and CPUs: no two  *)
(* CPUs use one kernel stack, no process is orphaned and wait misses no    *)
(* exit.                                                                   *)
(*                                                                         *)
(* Threads says what the thread of a process does on its CPU, and that it  *)
(* waits in swtch off it; Children, that a process that fork is making     *)
(* belongs to one fork; Family, that a parent passes its children on       *)
(* before it is a zombie; Guarded, that exit and wait have wait_lock to    *)
(* themselves; Wakeups, that what wait has seen of its children stays true *)
(* until it sleeps, and that exit has woken the parent before it becomes a *)
(* zombie.                                                                 *)
(***************************************************************************)
EXTENDS Proc, TLAPS

Label == {"user", "fork_alloc", "fork_run", "wait", "scan", "sleep", "exit", "wakeup",
          "zombie", "panic", "swtch", "resume"}

Types ==
  /\ TypeOK
  /\ pc \in [Proc -> Label]
  /\ ret \in [Proc -> {"user", "fork_alloc", "fork_run", "panic", "wait"}]
  /\ wchan \in [Proc -> Proc \cup {NULL}]

\* A thread is about to leave its CPU, has just come back to one, or runs.
Threads ==
  /\ \A c, d \in CPU : ctx[c] # NULL /\ ctx[c] = ctx[d] => c = d
  /\ \A c \in CPU, p \in Proc : ctx[c] = p =>
       \/ /\ pc[p] = "swtch" /\ plock[p] = c
          /\ state[p] \in {"RUNNABLE", "SLEEPING", "ZOMBIE"}
       \/ pc[p] = "resume" /\ plock[p] = c /\ state[p] = "RUNNING"
       \/ /\ pc[p] \notin {"swtch", "resume"} /\ ret[p] = "user"
          /\ plock[p] = NULL /\ state[p] = "RUNNING"
  /\ \A p \in Proc : (\A c \in CPU : ctx[c] # p) =>
       pc[p] = "resume" /\ plock[p] = NULL /\ state[p] # "RUNNING"

\* p is in fork, between allocproc and its last step, maybe preempted there.
Forks(p) == pc[p] \in {"fork_alloc", "fork_run"} \/ ret[p] \in {"fork_alloc", "fork_run"}

Children ==
  /\ \A p \in Proc : Forks(p) => child[p] # NULL
  /\ \A p \in Proc : child[p] # NULL => state[child[p]] = "USED"
  /\ \A p, q \in Proc : child[p] # NULL /\ child[p] = child[q] => p = q

Alive(p) == state[p] \in {"RUNNABLE", "RUNNING", "SLEEPING"}

Family ==
  /\ Alive(initproc) /\ pc[initproc] \notin {"wakeup", "zombie"}
  /\ \A p \in Proc : parent[p] # NULL =>
       Alive(parent[p]) /\ pc[parent[p]] \notin {"wakeup", "zombie"}
  /\ \A p \in Proc \ {initproc} : Alive(p) \/ state[p] = "ZOMBIE" => parent[p] # NULL
  /\ \A p \in Proc : pc[p] = "fork_run" \/ ret[p] = "fork_run" => parent[child[p]] = p
-----------------------------------------------------------------------------
(* Types and threads. *)

\* The entries of the process table are numbered from that of init.
LEMMA Indices ==
  /\ initproc \in Proc /\ NULL \notin Proc /\ NULL \notin CPU
  /\ 1 \in 1 .. (NPROC + 1)
  /\ \A k \in Proc : k + 1 \in 1 .. (NPROC + 1)
BY ProcAssumption DEF Proc, initproc

\* wait has found no exited child: it returns or goes on to sleep, with
\* wait_lock still held.
LEMMA ScannedStep ==
  ASSUME NEW c \in CPU, NEW p \in Proc, scanned(c, p)
  PROVE  /\ At(c, p, "scan") /\ i[p] \notin Proc
         /\ \/ Goto(p, "user") /\ wait_lock' = NULL
            \/ Goto(p, "sleep") /\ UNCHANGED wait_lock
         /\ Forget(p)
         /\ UNCHANGED <<fields, plock, ctx, ret>>
BY Zenon DEF scanned, WaitReturns

\* Every step keeps the types, where each thread is included.
LEMMA NextTypes ==
  ASSUME Types, Next
  PROVE  Types'
<1>1. PICK c \in CPU, p \in Proc : Step(c, p)
  BY DEF Next
<1> USE Indices DEF fields, locks, locals, Types, TypeOK, Label
<1>2. CASE scheduler(c, p)
  BY <1>2 DEF scheduler, Acquire
<1>3. CASE sched(c, p)
  BY <1>3 DEF sched, At, Release, Goto
<1>4. CASE resume(c, p)
  BY <1>4 DEF resume, At, Release, Goto
<1>5. CASE yield(c, p)
  BY <1>5 DEF yield, Acquire, Goto
<1>6. CASE usertrap(c, p)
  BY <1>6 DEF usertrap, At, Free, Goto
<1>7. ASSUME NEW q \in Proc, fork(c, p, q) PROVE Types'
  BY <1>7 DEF fork, At, Free, Goto
<1>8. ASSUME NEW q \in Proc, kill(c, p, q) PROVE Types'
  BY <1>8 DEF kill, At, Free
<1>9. CASE fork_fails(c, p)
  BY <1>9, Zenon DEF fork_fails, At, Free, freeproc, Goto, Forget
<1>10. CASE fork_parent(c, p)
  BY <1>10, Zenon DEF fork_parent, At, Goto
<1>11. CASE fork_run(c, p)
  BY <1>11, Zenon DEF fork_run, At, Free, Forget
<1>12. CASE exit(c, p)
  BY <1>12 DEF exit, At, Goto
<1>13. CASE wakeup(c, p)
  BY <1>13 DEF wakeup, At, Free
<1>14. CASE woken(c, p)
  BY <1>14 DEF woken, At, Goto
<1>15. CASE zombie(c, p)
  BY <1>15 DEF zombie, At, Acquire, Goto, Forget
<1>16. CASE wait(c, p)
  BY <1>16 DEF wait, At, Goto
<1>17. CASE scan(c, p)
  BY <1>17 DEF scan, At, Free
<1>18. CASE reap(c, p)
  BY <1>18 DEF reap, At, Free, freeproc, WaitReturns, Goto, Forget
<1>19. CASE reap_fails(c, p)
  BY <1>19 DEF reap_fails, At, Free, WaitReturns, Goto, Forget
<1>20. CASE scanned(c, p)
  <2>1. /\ At(c, p, "scan") /\ i[p] \notin Proc
        /\ \/ Goto(p, "user") /\ wait_lock' = NULL
           \/ Goto(p, "sleep") /\ UNCHANGED wait_lock
        /\ Forget(p)
        /\ UNCHANGED <<fields, plock, ctx, ret>>
    BY <1>20, ScannedStep
  <2>2. PICK l \in {"user", "sleep"} :
          pc' = [pc EXCEPT ![p] = l] /\ wait_lock' \in {NULL, wait_lock}
    BY <2>1, Zenon DEF Goto
  <2> QED
    BY <2>1, <2>2 DEF At, Forget
<1>21. CASE sleep(c, p)
  BY <1>21 DEF sleep, At, Acquire, Goto
<1>22. CASE init_exiting(c, p)
  BY <1>22 DEF init_exiting, At, Goto
<1> QED
  BY <1>1, <1>2, <1>3, <1>4, <1>5, <1>6, <1>7, <1>8, <1>9, <1>10, <1>11, <1>12, <1>13,
     <1>14, <1>15, <1>16, <1>17, <1>18, <1>19, <1>20, <1>21, <1>22, Zenon DEF Step

\* swtch, under p->lock, is how a thread changes CPU: every step keeps Threads.
LEMMA NextThreads ==
  ASSUME Types, Threads, Children, Next
  PROVE  Threads'
<1>1. PICK c \in CPU, p \in Proc : Step(c, p)
  BY DEF Next
<1> USE Indices DEF fields, locks, locals, Types, TypeOK, Label, Threads, Children,
      Forks
<1>2. CASE scheduler(c, p)
  BY <1>2 DEF scheduler, Acquire
<1>3. CASE sched(c, p)
  BY <1>3 DEF sched, At, Release, Goto
<1>4. CASE resume(c, p)
  BY <1>4 DEF resume, At, Release, Goto
<1>5. CASE yield(c, p)
  BY <1>5 DEF yield, Acquire, Goto
<1>6. CASE usertrap(c, p)
  BY <1>6 DEF usertrap, At, Free, Goto
<1>7. ASSUME NEW q \in Proc, fork(c, p, q) PROVE Threads'
  BY <1>7 DEF fork, At, Free, Goto
<1>8. ASSUME NEW q \in Proc, kill(c, p, q) PROVE Threads'
  BY <1>8 DEF kill, At, Free
<1>9. CASE fork_fails(c, p)
  BY <1>9 DEF fork_fails, At, Free, freeproc, Goto, Forget
<1>10. CASE fork_parent(c, p)
  BY <1>10 DEF fork_parent, At, Goto
<1>11. CASE fork_run(c, p)
  BY <1>11 DEF fork_run, At, Free, Forget
<1>12. CASE exit(c, p)
  BY <1>12 DEF exit, At, Goto
<1>13. CASE wakeup(c, p)
  BY <1>13 DEF wakeup, At, Free
<1>14. CASE woken(c, p)
  BY <1>14 DEF woken, At, Goto
<1>15. CASE zombie(c, p)
  BY <1>15 DEF zombie, At, Acquire, Goto, Forget
<1>16. CASE wait(c, p)
  BY <1>16 DEF wait, At, Goto
<1>17. CASE scan(c, p)
  BY <1>17 DEF scan, At, Free
<1>18. CASE reap(c, p)
  BY <1>18 DEF reap, At, Free, freeproc, WaitReturns, Goto, Forget
<1>19. CASE reap_fails(c, p)
  BY <1>19 DEF reap_fails, At, Free, WaitReturns, Goto, Forget
<1>20. CASE scanned(c, p)
  <2>1. /\ At(c, p, "scan") /\ i[p] \notin Proc
        /\ \/ Goto(p, "user") /\ wait_lock' = NULL
           \/ Goto(p, "sleep") /\ UNCHANGED wait_lock
        /\ Forget(p)
        /\ UNCHANGED <<fields, plock, ctx, ret>>
    BY <1>20, ScannedStep
  <2> QED
    BY <2>1 DEF At, Goto, Forget
<1>21. CASE sleep(c, p)
  BY <1>21 DEF sleep, At, Acquire, Goto
<1>22. CASE init_exiting(c, p)
  BY <1>22 DEF init_exiting, At, Goto
<1> QED
  BY <1>1, <1>2, <1>3, <1>4, <1>5, <1>6, <1>7, <1>8, <1>9, <1>10, <1>11, <1>12, <1>13,
     <1>14, <1>15, <1>16, <1>17, <1>18, <1>19, <1>20, <1>21, <1>22, Zenon DEF Step

\* allocproc gives an entry of the table to one fork only.
LEMMA NextChildren ==
  ASSUME Types, Threads, Children, Next
  PROVE  Children'
<1>1. PICK c \in CPU, p \in Proc : Step(c, p)
  BY DEF Next
<1> USE Indices DEF fields, locks, locals, Types, TypeOK, Label, Threads, Children,
      Forks
<1>2. CASE scheduler(c, p)
  BY <1>2 DEF scheduler, Acquire
<1>3. CASE sched(c, p)
  BY <1>3 DEF sched, At, Release, Goto
<1>4. CASE resume(c, p)
  BY <1>4 DEF resume, At, Release, Goto
<1>5. CASE yield(c, p)
  BY <1>5 DEF yield, Acquire, Goto
<1>6. CASE usertrap(c, p)
  BY <1>6 DEF usertrap, At, Free, Goto
<1>7. ASSUME NEW q \in Proc, fork(c, p, q) PROVE Children'
  BY <1>7 DEF fork, At, Free, Goto
<1>8. ASSUME NEW q \in Proc, kill(c, p, q) PROVE Children'
  BY <1>8 DEF kill, At, Free
<1>9. CASE fork_fails(c, p)
  BY <1>9 DEF fork_fails, At, Free, freeproc, Goto, Forget
<1>10. CASE fork_parent(c, p)
  BY <1>10 DEF fork_parent, At, Goto
<1>11. CASE fork_run(c, p)
  BY <1>11 DEF fork_run, At, Free, Forget
<1>12. CASE exit(c, p)
  BY <1>12 DEF exit, At, Goto
<1>13. CASE wakeup(c, p)
  BY <1>13 DEF wakeup, At, Free
<1>14. CASE woken(c, p)
  BY <1>14 DEF woken, At, Goto
<1>15. CASE zombie(c, p)
  BY <1>15 DEF zombie, At, Acquire, Goto, Forget
<1>16. CASE wait(c, p)
  BY <1>16 DEF wait, At, Goto
<1>17. CASE scan(c, p)
  BY <1>17 DEF scan, At, Free
<1>18. CASE reap(c, p)
  BY <1>18 DEF reap, At, Free, freeproc, WaitReturns, Goto, Forget
<1>19. CASE reap_fails(c, p)
  BY <1>19 DEF reap_fails, At, Free, WaitReturns, Goto, Forget
<1>20. CASE scanned(c, p)
  <2>1. /\ At(c, p, "scan") /\ i[p] \notin Proc
        /\ \/ Goto(p, "user") /\ wait_lock' = NULL
           \/ Goto(p, "sleep") /\ UNCHANGED wait_lock
        /\ Forget(p)
        /\ UNCHANGED <<fields, plock, ctx, ret>>
    BY <1>20, ScannedStep
  <2>2. PICK l \in {"user", "sleep"} :
          pc' = [pc EXCEPT ![p] = l] /\ wait_lock' \in {NULL, wait_lock}
    BY <2>1, Zenon DEF Goto
  <2> QED
    BY <2>1, <2>2 DEF At, Forget
<1>21. CASE sleep(c, p)
  BY <1>21 DEF sleep, At, Acquire, Goto
<1>22. CASE init_exiting(c, p)
  BY <1>22 DEF init_exiting, At, Goto
<1> QED
  BY <1>1, <1>2, <1>3, <1>4, <1>5, <1>6, <1>7, <1>8, <1>9, <1>10, <1>11, <1>12, <1>13,
     <1>14, <1>15, <1>16, <1>17, <1>18, <1>19, <1>20, <1>21, <1>22, Zenon DEF Step
-----------------------------------------------------------------------------
(* Parents and children. *)

\* A new process has its parent before it can run (fork), and exit passes the
\* children on (reparent) before it becomes a zombie.
LEMMA NextFamily ==
  ASSUME Types, Threads, Children, Family, Next
  PROVE  Family'
<1>1. PICK c \in CPU, p \in Proc : Step(c, p)
  BY DEF Next
<1> USE Indices DEF fields, locks, locals, Types, TypeOK, Label, Threads, Children,
      Forks, Family, Alive
<1>2. CASE scheduler(c, p)
  BY <1>2 DEF scheduler, Acquire
<1>3. CASE sched(c, p)
  BY <1>3 DEF sched, At, Release, Goto
<1>4. CASE resume(c, p)
  BY <1>4 DEF resume, At, Release, Goto
<1>5. CASE yield(c, p)
  BY <1>5 DEF yield, Acquire, Goto
<1>6. CASE usertrap(c, p)
  BY <1>6 DEF usertrap, At, Free, Goto
<1>7. ASSUME NEW q \in Proc, fork(c, p, q) PROVE Family'
  BY <1>7 DEF fork, At, Free, Goto
<1>8. ASSUME NEW q \in Proc, kill(c, p, q) PROVE Family'
  BY <1>8 DEF kill, At, Free
<1>9. CASE fork_fails(c, p)
  BY <1>9 DEF fork_fails, At, Free, freeproc, Goto, Forget
<1>10. CASE fork_parent(c, p)
  <2>1. /\ child[p] \in Proc /\ state[child[p]] = "USED"
        /\ state[p] = "RUNNING" /\ ret[p] = "user"
    BY <1>10 DEF fork_parent, At
  <2>2. /\ parent' = [parent EXCEPT ![child[p]] = p]
        /\ pc' = [pc EXCEPT ![p] = "fork_run"]
        /\ UNCHANGED <<state, ret, child>>
    BY <1>10 DEF fork_parent, Goto
  <2>3. \A q \in Proc : pc'[q] = "fork_run" \/ ret'[q] = "fork_run" =>
         parent'[child'[q]] = q
    BY <2>1, <2>2
  <2> QED
    BY <2>1, <2>2, <2>3
<1>11. CASE fork_run(c, p)
  BY <1>11 DEF fork_run, At, Free, Forget
<1>12. CASE exit(c, p)
  <2>1. p # initproc /\ ret[p] = "user"
    BY <1>12 DEF exit, At
  <2>2. /\ parent' = [q \in Proc |-> IF parent[q] = p THEN initproc ELSE parent[q]]
        /\ pc' = [pc EXCEPT ![p] = "wakeup"]
        /\ UNCHANGED <<state, ret, child>>
    BY <1>12 DEF exit, Goto
  <2>3. \A q \in Proc : parent'[q] # NULL =>
         parent'[q] = initproc \/ (parent'[q] = parent[q] /\ parent[q] # p)
    BY <2>2
  <2>4. \A q \in Proc : pc'[q] = "fork_run" \/ ret'[q] = "fork_run" =>
         parent'[child'[q]] = q
    BY <2>1, <2>2
  <2> QED
    BY <2>1, <2>2, <2>3, <2>4
<1>13. CASE wakeup(c, p)
  BY <1>13 DEF wakeup, At, Free
<1>14. CASE woken(c, p)
  BY <1>14 DEF woken, At, Goto
<1>15. CASE zombie(c, p)
  BY <1>15 DEF zombie, At, Acquire, Goto, Forget
<1>16. CASE wait(c, p)
  BY <1>16 DEF wait, At, Goto
<1>17. CASE scan(c, p)
  BY <1>17 DEF scan, At, Free
<1>18. CASE reap(c, p)
  BY <1>18 DEF reap, At, Free, freeproc, WaitReturns, Goto, Forget
<1>19. CASE reap_fails(c, p)
  BY <1>19 DEF reap_fails, At, Free, WaitReturns, Goto, Forget
<1>20. CASE scanned(c, p)
  <2>1. /\ At(c, p, "scan") /\ i[p] \notin Proc
        /\ \/ Goto(p, "user") /\ wait_lock' = NULL
           \/ Goto(p, "sleep") /\ UNCHANGED wait_lock
        /\ Forget(p)
        /\ UNCHANGED <<fields, plock, ctx, ret>>
    BY <1>20, ScannedStep
  <2> QED
    BY <2>1 DEF At, Goto, Forget
<1>21. CASE sleep(c, p)
  BY <1>21 DEF sleep, At, Acquire, Goto
<1>22. CASE init_exiting(c, p)
  BY <1>22 DEF init_exiting, At, Goto
<1> QED
  BY <1>1, <1>2, <1>3, <1>4, <1>5, <1>6, <1>7, <1>8, <1>9, <1>10, <1>11, <1>12, <1>13,
     <1>14, <1>15, <1>16, <1>17, <1>18, <1>19, <1>20, <1>21, <1>22, Zenon DEF Step
-----------------------------------------------------------------------------
(* Theorems. *)

PInv == Types /\ Threads /\ Children /\ Family

\* The invariants hold once userinit has made the first process.
LEMMA InitPInv == Init => PInv
<1> USE Indices DEF Init
<1>1. Init => Types /\ Threads
  BY DEF Types, TypeOK, Label, Threads
<1>2. Init => Children /\ Family
  BY DEF Children, Forks, Family, Alive
<1> QED
  BY <1>1, <1>2 DEF PInv

\* fork, exit, wait, kill and the scheduler keep the invariants.
LEMMA NextPInv == PInv /\ [Next]_vars => PInv'
<1> SUFFICES ASSUME PInv, [Next]_vars PROVE PInv'
  OBVIOUS
<1>1. CASE Next
  BY <1>1, NextTypes, NextThreads, NextChildren, NextFamily DEF PInv
<1>2. CASE UNCHANGED vars
  <2>1. Types' /\ Threads'
    BY <1>2 DEF vars, PInv, Types, TypeOK, Threads
  <2>2. Children' /\ Family'
    BY <1>2 DEF vars, PInv, Children, Forks, Family, Alive
  <2> QED
    BY <2>1, <2>2 DEF PInv
<1> QED
  BY <1>1, <1>2

\* The invariants hold in every state.
THEOREM Invariance == Spec => []PInv
BY InitPInv, NextPInv, PTL DEF Spec

\* The fields of struct proc, the locks and the CPUs keep their types.
THEOREM TypeCorrect == Spec => []TypeOK
<1>1. PInv => TypeOK
  BY DEF PInv, Types
<1> QED
  BY <1>1, Invariance, PTL

\* The scheduler, sched and wait never let two CPUs use one kernel stack.
THEOREM StacksExclusive == Spec => []StackExclusive
<1>1. PInv => StackExclusive
  BY DEF PInv, Threads, StackExclusive
<1> QED
  BY <1>1, Invariance, PTL

\* fork and reparent leave no process without a parent that can wait for it.
THEOREM NoOrphans == Spec => []HasParent
<1>1. PInv => HasParent
  BY Indices DEF PInv, Types, TypeOK, Family, Alive, HasParent
<1> QED
  BY <1>1, Invariance, PTL
-----------------------------------------------------------------------------
(* exit and wait. *)

\* p holds wait_lock across steps.
Locked(p) == pc[p] \in {"wakeup", "zombie", "scan", "sleep"}
Guarded   == \A c \in CPU, p \in Proc : ctx[c] = p /\ Locked(p) => wait_lock = c

Asleep(p)    == state[p] = "SLEEPING" /\ chan[p] = p
Exited(p, q) == parent[q] = p /\ state[q] = "ZOMBIE"    \* q is an exited child of p

\* r is at wakeup and has not yet come to p.
Wakes(r, p) == pc[r] = "wakeup" /\ wchan[r] = p /\ i[r] <= p /\ r # p

\* A scan has passed no exited child, and wait found none when it goes to sleep.
Passed  == \A p, q \in Proc : pc[p] = "scan" /\ q < i[p] => ~Exited(p, q)
Settled == \A p, q \in Proc : pc[p] = "sleep" => ~Exited(p, q)

\* A sleeper with an exited child is about to be woken; a process in exit has not
\* yet come to its parent if that sleeps, and has woken it when it is done.
Told    == \A p, q \in Proc : Asleep(p) /\ Exited(p, q) => \E r \in Proc : Wakes(r, p)
Telling == \A p, r \in Proc : /\ pc[r] = "wakeup" /\ wchan[r] = p
                              /\ parent[r] = p /\ Asleep(p)
                              => i[r] <= p
Done    == \A p, r \in Proc : pc[r] = "zombie" /\ parent[r] = p => ~Asleep(p)

Wakeups == Passed /\ Settled /\ Told /\ Telling /\ Done
-----------------------------------------------------------------------------
(* wait_lock. *)

\* exit and wait change parent and scan the table only with wait_lock held.
LEMMA NextGuarded ==
  ASSUME Types, Threads, Children, Guarded, Next
  PROVE  Guarded'
<1>1. PICK c \in CPU, p \in Proc : Step(c, p)
  BY DEF Next
<1> USE Indices DEF fields, locks, locals, Types, TypeOK, Label, Threads, Children,
      Forks, Guarded, Locked
<1>2. CASE scheduler(c, p)
  BY <1>2 DEF scheduler, Acquire
<1>3. CASE sched(c, p)
  BY <1>3 DEF sched, At, Release, Goto
<1>4. CASE resume(c, p)
  BY <1>4 DEF resume, At, Release, Goto
<1>5. CASE yield(c, p)
  BY <1>5 DEF yield, Acquire, Goto
<1>6. CASE usertrap(c, p)
  BY <1>6 DEF usertrap, At, Free, Goto
<1>7. ASSUME NEW q \in Proc, fork(c, p, q) PROVE Guarded'
  BY <1>7 DEF fork, At, Free, Goto
<1>8. ASSUME NEW q \in Proc, kill(c, p, q) PROVE Guarded'
  BY <1>8 DEF kill, At, Free
<1>9. CASE fork_fails(c, p)
  BY <1>9 DEF fork_fails, At, Free, freeproc, Goto, Forget
<1>10. CASE fork_parent(c, p)
  BY <1>10 DEF fork_parent, At, Goto
<1>11. CASE fork_run(c, p)
  BY <1>11 DEF fork_run, At, Free, Forget
<1>12. CASE exit(c, p)
  BY <1>12 DEF exit, At, Goto
<1>13. CASE wakeup(c, p)
  BY <1>13 DEF wakeup, At, Free
<1>14. CASE woken(c, p)
  BY <1>14 DEF woken, At, Goto
<1>15. CASE zombie(c, p)
  BY <1>15 DEF zombie, At, Acquire, Goto, Forget
<1>16. CASE wait(c, p)
  BY <1>16 DEF wait, At, Goto
<1>17. CASE scan(c, p)
  BY <1>17 DEF scan, At, Free
<1>18. CASE reap(c, p)
  BY <1>18 DEF reap, At, Free, freeproc, WaitReturns, Goto, Forget
<1>19. CASE reap_fails(c, p)
  BY <1>19 DEF reap_fails, At, Free, WaitReturns, Goto, Forget
<1>20. CASE scanned(c, p)
  <2>1. /\ At(c, p, "scan") /\ i[p] \notin Proc
        /\ \/ Goto(p, "user") /\ wait_lock' = NULL
           \/ Goto(p, "sleep") /\ UNCHANGED wait_lock
        /\ Forget(p)
        /\ UNCHANGED <<fields, plock, ctx, ret>>
    BY <1>20, ScannedStep
  <2> QED
    BY <2>1 DEF At, Goto, Forget
<1>21. CASE sleep(c, p)
  BY <1>21 DEF sleep, At, Acquire, Goto
<1>22. CASE init_exiting(c, p)
  BY <1>22 DEF init_exiting, At, Goto
<1> QED
  BY <1>1, <1>2, <1>3, <1>4, <1>5, <1>6, <1>7, <1>8, <1>9, <1>10, <1>11, <1>12, <1>13,
     <1>14, <1>15, <1>16, <1>17, <1>18, <1>19, <1>20, <1>21, <1>22, Zenon DEF Step

\* One process at most is inside wait_lock across steps, none while it is free.
LEMMA OneLocked ==
  ASSUME Types, Threads, Guarded
  PROVE  /\ wait_lock = NULL => \A p \in Proc : ~Locked(p)
         /\ \A p, q \in Proc : Locked(p) /\ Locked(q) => p = q
<1>1. \A p \in Proc : Locked(p) => \E c \in CPU : ctx[c] = p
  BY DEF Threads, Locked
<1>2. \A p \in Proc : Locked(p) => wait_lock \in CPU /\ ctx[wait_lock] = p
  BY <1>1 DEF Guarded
<1> QED
  BY <1>2, Indices, Zenon

\* A thread that is not at swtch is that of a running process.
LEMMA Running ==
  ASSUME Threads, NEW p \in Proc, pc[p] \notin {"swtch", "resume"}
  PROVE  state[p] = "RUNNING"
BY DEF Threads

\* The process a fork is making is an entry of the table that no CPU runs.
LEMMA ForkChild ==
  ASSUME Types, Threads, Children, NEW p \in Proc, Forks(p)
  PROVE  child[p] \in Proc /\ state[child[p]] = "USED" /\ pc[child[p]] = "resume"
<1>1. child[p] \in Proc /\ state[child[p]] = "USED"
  BY DEF Types, TypeOK, Children
<1> QED
  BY <1>1, Indices DEF Types, TypeOK, Threads
-----------------------------------------------------------------------------
(* The wakeup of wait. *)

\* What the loops over the process table need of its order.
LEMMA Order ==
  /\ \A k \in Proc : k \in Nat /\ 1 <= k
  /\ \A k \in 1 .. (NPROC + 1) : k \in Nat /\ (k \notin Proc => \A q \in Proc : q < k)
  /\ \A k, q \in Proc : /\ q < k + 1 => q < k \/ q = k
                        /\ k <= q /\ q # k => k + 1 <= q
BY ProcAssumption DEF Proc

\* The step puts no process to sleep in wait, makes no zombie and moves no
\* process inside exit or wait.
Quietly ==
  /\ \A q \in Proc : Asleep(q)' => Asleep(q)
  /\ \A q, r \in Proc : Exited(q, r)' => Exited(q, r)
  /\ \A q \in Proc : pc[q] = "wakeup" \/ Locked(q)' =>
       pc'[q] = pc[q] /\ i'[q] = i[q] /\ wchan'[q] = wchan[q]
  /\ \A q \in Proc : Locked(q)' => parent'[q] = parent[q]

\* Steps other than those of exit, wait and sleep keep Wakeups.
LEMMA Quiet ==
  ASSUME Wakeups, Quietly
  PROVE  Wakeups'
<1> USE DEF Wakeups, Quietly, Locked
<1>1. Passed' /\ Settled'
  BY DEF Passed, Settled
<1>2. Told'
  BY DEF Told, Wakes
<1>3. Telling' /\ Done'
  BY DEF Telling, Done
<1> QED
  BY <1>1, <1>2, <1>3

\* What wait has seen stays true until it sleeps, because exit makes a zombie
\* only with wait_lock held and after it has woken the parent.
LEMMA NextWakeups ==
  ASSUME Types, Threads, Children, Family, Guarded, Wakeups, Next
  PROVE  Wakeups'
<1>1. PICK c \in CPU, p \in Proc : Step(c, p)
  BY DEF Next
<1> USE Indices DEF fields, locks, locals, Types, TypeOK, Label
<1>2. CASE scheduler(c, p)
  BY <1>2, Quiet DEF scheduler, Acquire, Quietly, Asleep, Exited, Locked
<1>3. CASE sched(c, p)
  BY <1>3, Quiet DEF sched, At, Release, Goto, Quietly, Asleep, Exited, Locked
<1>4. CASE resume(c, p)
  BY <1>4, Quiet DEF resume, At, Release, Goto, Quietly, Asleep, Exited, Locked
<1>5. CASE yield(c, p)
  BY <1>5, Quiet DEF yield, Acquire, Goto, Quietly, Asleep, Exited, Locked
<1>6. CASE usertrap(c, p)
  BY <1>6, Quiet DEF usertrap, At, Free, Goto, Quietly, Asleep, Exited, Locked
<1>7. ASSUME NEW q \in Proc, fork(c, p, q) PROVE Wakeups'
  BY <1>7, Quiet DEF fork, At, Free, Goto, Quietly, Asleep, Exited, Locked
<1>8. ASSUME NEW q \in Proc, kill(c, p, q) PROVE Wakeups'
  BY <1>8, Quiet DEF kill, At, Free, Quietly, Asleep, Exited, Locked
<1>9. CASE fork_fails(c, p)
  <2>1. child[p] \in Proc /\ state[child[p]] = "USED" /\ pc[child[p]] = "resume"
    BY <1>9, ForkChild DEF fork_fails, At, Forks
  <2> QED
    BY <1>9, <2>1, Quiet DEF fork_fails, At, Free, freeproc, Goto, Forget,
       Quietly, Asleep, Exited, Locked
<1>10. CASE fork_parent(c, p)
  <2>1. child[p] \in Proc /\ state[child[p]] = "USED" /\ pc[child[p]] = "resume"
    BY <1>10, ForkChild DEF fork_parent, At, Forks
  <2> QED
    BY <1>10, <2>1, Quiet DEF fork_parent, At, Goto, Quietly, Asleep, Exited, Locked
<1>11. CASE fork_run(c, p)
  <2>1. child[p] \in Proc /\ state[child[p]] = "USED" /\ pc[child[p]] = "resume"
    BY <1>11, ForkChild DEF fork_run, At, Forks
  <2> QED
    BY <1>11, <2>1, Quiet DEF fork_run, At, Free, Forget,
       Quietly, Asleep, Exited, Locked
<1>12. CASE exit(c, p)
  <2>1. /\ pc' = [pc EXCEPT ![p] = "wakeup"] /\ i' = [i EXCEPT ![p] = 1]
        /\ parent' = [q \in Proc |-> IF parent[q] = p THEN initproc ELSE parent[q]]
        /\ (\E q \in Proc : parent[q] = p) => wchan'[p] = initproc
        /\ UNCHANGED <<state, chan>>
    BY <1>12, Zenon DEF exit, Goto
  <2>2. p # initproc /\ \A q \in Proc : ~Locked(q)
    BY <1>12, OneLocked DEF exit
  <2>3. Passed' /\ Settled' /\ Done'
    BY <2>1, <2>2 DEF Passed, Settled, Done, Locked
  <2>4. Told'
    <3> SUFFICES ASSUME NEW q \in Proc, NEW r \in Proc, Asleep(q)', Exited(q, r)'
                 PROVE  Wakes(p, q)'
      BY DEF Told
    <3>1. ~Exited(q, r)
      BY <2>1, <2>2 DEF Wakeups, Told, Wakes, Locked, Asleep, Exited
    <3>2. parent[r] = p /\ q = initproc
      BY <3>1, <2>1 DEF Exited
    <3> QED
      BY <3>2, <2>1, <2>2, Order DEF Wakes
  <2>5. Telling'
    BY <2>1, <2>2, Order DEF Telling, Locked
  <2> QED
    BY <2>3, <2>4, <2>5 DEF Wakeups
<1>13. CASE wakeup(c, p)
  <2>1. /\ pc[p] = "wakeup" /\ i[p] \in Proc
        /\ i' = [i EXCEPT ![p] = i[p] + 1]
        /\ state' = [state EXCEPT ![i[p]] =
                       IF i[p] # p /\ state[i[p]] = "SLEEPING" /\ chan[i[p]] = wchan[p]
                       THEN "RUNNABLE" ELSE state[i[p]]]
        /\ UNCHANGED <<chan, parent, pc, wchan>>
    BY <1>13 DEF wakeup, At
  <2>2. state[p] = "RUNNING" /\ \A q \in Proc \ {p} : ~Locked(q)
    BY <2>1, OneLocked, Running DEF Locked
  <2>3. \A q \in Proc : Asleep(q)' => Asleep(q) /\ (q = wchan[p] => q # i[p])
    BY <2>1, <2>2 DEF Asleep
  <2>4. \A q, r \in Proc : Exited(q, r)' => Exited(q, r)
    BY <2>1 DEF Exited
  <2>5. Passed' /\ Settled' /\ Done'
    BY <2>1, <2>2 DEF Passed, Settled, Done, Locked
  <2>6. Told'
    <3> SUFFICES ASSUME NEW q \in Proc, NEW r \in Proc, Asleep(q)', Exited(q, r)'
                 PROVE  Wakes(p, q)'
      BY DEF Told
    <3>1. Asleep(q) /\ Exited(q, r) /\ (q = wchan[p] => q # i[p])
      BY <2>3, <2>4, Zenon
    <3>2. PICK x \in Proc : Wakes(x, q)
      BY <3>1, Zenon DEF Wakeups, Told
    <3>3. x = p
      BY <2>2, <3>2, Zenon DEF Wakes, Locked
    <3>4. pc[p] = "wakeup" /\ wchan[p] = q /\ i[p] <= q /\ p # q
      BY <3>2, <3>3, Zenon DEF Wakes
    <3>5. i[p] + 1 <= q
      BY <3>1, <3>4, <2>1, Order
    <3>6. pc'[p] = pc[p] /\ wchan'[p] = wchan[p] /\ i'[p] = i[p] + 1
      BY <2>1
    <3> QED
      BY <3>4, <3>5, <3>6, Zenon DEF Wakes
  <2>7. Telling'
    BY <2>1, <2>2, <2>3, Order DEF Wakeups, Telling, Locked
  <2> QED
    BY <2>5, <2>6, <2>7 DEF Wakeups
<1>14. CASE woken(c, p)
  <2>1. /\ pc[p] = "wakeup" /\ \A q \in Proc : ~(i[p] <= q)
        /\ UNCHANGED <<state, chan, parent>>
    BY <1>14, Order DEF woken, At
  <2>2. \A q \in Proc \ {p} : ~Locked(q)
    BY <2>1, OneLocked DEF Locked
  <2>3. \A q, r \in Proc : ~(Asleep(q) /\ Exited(q, r))
    BY <2>1, <2>2 DEF Wakeups, Told, Wakes, Locked
  <2>4. Told'
    BY <2>1, <2>3 DEF Told, Asleep, Exited
  <2>5. CASE wchan[p] # parent[p]
    <3>1. /\ wchan' = [wchan EXCEPT ![p] = parent[p]] /\ i' = [i EXCEPT ![p] = 1]
          /\ pc' = pc
      BY <1>14, <2>5 DEF woken
    <3>2. Passed' /\ Settled' /\ Done'
      BY <2>1, <2>2, <3>1 DEF Passed, Settled, Done, Locked
    <3>3. Telling'
      BY <2>1, <2>2, <3>1, Order DEF Telling, Locked
    <3> QED
      BY <2>4, <3>2, <3>3 DEF Wakeups
  <2>6. CASE wchan[p] = parent[p]
    <3>1. pc' = [pc EXCEPT ![p] = "zombie"] /\ UNCHANGED <<i, wchan>>
      BY <1>14, <2>6 DEF woken, Goto
    <3>2. Passed' /\ Settled' /\ Telling'
      BY <2>1, <2>2, <3>1 DEF Passed, Settled, Telling, Locked
    <3>3. Done'
      BY <2>1, <2>2, <2>6, <3>1 DEF Wakeups, Telling, Done, Locked, Asleep
    <3> QED
      BY <2>4, <3>2, <3>3 DEF Wakeups
  <2> QED
    BY <2>5, <2>6
<1>15. CASE zombie(c, p)
  <2>1. /\ pc[p] = "zombie" /\ pc' = [pc EXCEPT ![p] = "swtch"]
        /\ state' = [state EXCEPT ![p] = "ZOMBIE"]
        /\ UNCHANGED <<chan, parent>>
    BY <1>15 DEF zombie, At, Goto
  <2>2. \A q \in Proc \ {p} : ~Locked(q)
    BY <2>1, OneLocked DEF Locked
  <2>3. Passed' /\ Settled' /\ Telling' /\ Done'
    BY <2>1, <2>2 DEF Passed, Settled, Telling, Done, Locked
  <2>4. \A q, r \in Proc : ~(Asleep(q) /\ Exited(q, r))
    BY <2>1, <2>2 DEF Wakeups, Told, Wakes, Locked
  <2>5. Told'
    BY <2>1, <2>4 DEF Wakeups, Done, Told, Asleep, Exited
  <2> QED
    BY <2>3, <2>5 DEF Wakeups
<1>16. CASE wait(c, p)
  <2>1. /\ pc' = [pc EXCEPT ![p] = "scan"] /\ i' = [i EXCEPT ![p] = 1]
        /\ UNCHANGED <<state, chan, parent>>
    BY <1>16 DEF wait, Goto
  <2>2. \A q \in Proc : ~Locked(q)
    BY <1>16, OneLocked DEF wait
  <2>3. Passed' /\ Settled' /\ Telling' /\ Done'
    <3>1. i'[p] = 1 /\ \A q \in Proc : Locked(q)' => q = p /\ pc'[q] = "scan"
      BY <2>1, <2>2 DEF Locked
    <3>2. Passed'
      BY <3>1, Order DEF Passed, Locked
    <3>3. Settled' /\ Telling' /\ Done'
      BY <3>1 DEF Settled, Telling, Done, Locked
    <3> QED
      BY <3>2, <3>3
  <2>4. Told'
    BY <2>1, <2>2 DEF Wakeups, Told, Wakes, Locked, Asleep, Exited
  <2> QED
    BY <2>3, <2>4 DEF Wakeups
<1>17. CASE scan(c, p)
  <2>1. /\ pc[p] = "scan" /\ i[p] \in Proc /\ ~Exited(p, i[p])
        /\ i' = [i EXCEPT ![p] = i[p] + 1]
        /\ UNCHANGED <<state, chan, parent, pc, wchan>>
    BY <1>17 DEF scan, At, Exited
  <2>2. \A q \in Proc \ {p} : ~Locked(q)
    BY <2>1, OneLocked DEF Locked
  <2>3. Passed'
    BY <2>1, <2>2, Order DEF Wakeups, Passed, Exited, Locked
  <2>4. Settled' /\ Telling' /\ Done'
    BY <2>1, <2>2 DEF Settled, Telling, Done, Locked
  <2>5. Told'
    BY <2>1, <2>2 DEF Wakeups, Told, Wakes, Locked, Asleep, Exited
  <2> QED
    BY <2>3, <2>4, <2>5 DEF Wakeups
<1>18. CASE reap(c, p)
  <2>1. state[i[p]] = "ZOMBIE" /\ pc[i[p]] \in {"swtch", "resume"}
    BY <1>18, Running DEF reap
  <2> QED
    BY <1>18, <2>1, Quiet DEF reap, At, Free, freeproc, WaitReturns, Goto, Forget,
       Quietly, Asleep, Exited, Locked
<1>19. CASE reap_fails(c, p)
  BY <1>19, Quiet DEF reap_fails, At, Free, WaitReturns, Goto, Forget,
       Quietly, Asleep, Exited, Locked
<1>20. CASE scanned(c, p)
  <2>1. /\ pc[p] = "scan" /\ \A q \in Proc : q < i[p]
        /\ UNCHANGED <<state, chan, parent>>
    BY <1>20, ScannedStep, Order DEF At
  <2>2. PICK l \in {"user", "sleep"} : pc' = [pc EXCEPT ![p] = l]
    BY <1>20, ScannedStep, Zenon DEF Goto
  <2>3. \A q \in Proc \ {p} : ~Locked(q)
    BY <2>1, OneLocked DEF Locked
  <2>4. Settled'
    BY <2>1, <2>2, <2>3 DEF Wakeups, Passed, Settled, Exited, Locked
  <2>5. Passed' /\ Telling' /\ Done'
    BY <2>2, <2>3 DEF Passed, Telling, Done, Locked
  <2>6. Told'
    BY <2>1, <2>3 DEF Wakeups, Told, Wakes, Locked, Asleep, Exited
  <2> QED
    BY <2>4, <2>5, <2>6 DEF Wakeups
<1>21. CASE sleep(c, p)
  <2>1. /\ pc[p] = "sleep" /\ pc' = [pc EXCEPT ![p] = "swtch"]
        /\ state' = [state EXCEPT ![p] = "SLEEPING"] /\ chan' = [chan EXCEPT ![p] = p]
        /\ UNCHANGED parent
    BY <1>21 DEF sleep, At, Goto
  <2>2. \A q \in Proc \ {p} : ~Locked(q)
    BY <2>1, OneLocked DEF Locked
  <2>3. Passed' /\ Settled' /\ Telling' /\ Done'
    BY <2>1, <2>2 DEF Passed, Settled, Telling, Done, Locked
  <2>4. \A q, r \in Proc : ~(Asleep(q) /\ Exited(q, r))
    BY <2>1, <2>2 DEF Wakeups, Told, Wakes, Locked
  <2>5. Told'
    BY <2>1, <2>4 DEF Wakeups, Settled, Told, Asleep, Exited
  <2> QED
    BY <2>3, <2>5 DEF Wakeups
<1>22. CASE init_exiting(c, p)
  BY <1>22, Quiet DEF init_exiting, At, Goto, Quietly, Asleep, Exited, Locked
<1> QED
  BY <1>1, <1>2, <1>3, <1>4, <1>5, <1>6, <1>7, <1>8, <1>9, <1>10, <1>11, <1>12, <1>13,
     <1>14, <1>15, <1>16, <1>17, <1>18, <1>19, <1>20, <1>21, <1>22, Zenon DEF Step
-----------------------------------------------------------------------------
(* Theorem. *)

\* No process is in exit or wait when userinit has made the first one.
LEMMA InitWakeups == Init => Guarded /\ Wakeups
BY Indices DEF Init, Guarded, Locked, Wakeups, Passed, Settled, Told, Telling, Done,
   Exited, Asleep

\* A step that changes nothing keeps Guarded and Wakeups.
LEMMA Stutter ==
  ASSUME Guarded, Wakeups, UNCHANGED vars
  PROVE  Guarded' /\ Wakeups'
<1> USE DEF vars, Wakeups
<1>1. Guarded' /\ Passed' /\ Settled'
  BY DEF Guarded, Locked, Passed, Settled, Exited
<1>2. Told' /\ Telling' /\ Done'
  BY DEF Told, Telling, Done, Wakes, Exited, Asleep
<1> QED
  BY <1>1, <1>2

\* A parent that sleeps in wait has no exited child unless an exit is about to
\* wake it: the order of wait_lock and p->lock in sleep and exit loses no wakeup.
THEOREM NoWakeupLost == Spec => []NoLostWakeup
<1>1. /\ PInv /\ Guarded /\ Wakeups
      /\ [Next]_vars
      => Guarded' /\ Wakeups'
  BY NextGuarded, NextWakeups, Stutter DEF PInv
<1>2. Wakeups => NoLostWakeup
  BY DEF Wakeups, Told, Wakes, Asleep, Exited, NoLostWakeup
<1> QED
  BY InitWakeups, Invariance, <1>1, <1>2, PTL DEF Spec
=============================================================================
