----------------------------- MODULE AtomicDisk -----------------------------
(***************************************************************************)
(* What kernel/log.c promises to the file system: system calls write       *)
(* blocks in memory, and what a crash leaves behind is always the state    *)
(* reached when some set of complete system calls had run.                 *)
(***************************************************************************)
CONSTANTS Proc, Block, Val

VARIABLES
  stable,   \* the blocks as found after a crash
  view,     \* the blocks as system calls see them now
  active    \* processes between begin_op and end_op

vars == <<stable, view, active>>

\* mkfs wrote some file system.
Init ==
  /\ stable \in [Block -> Val]
  /\ view = stable
  /\ active = {}

Begin(p) ==
  /\ p \notin active
  /\ active' = active \cup {p}
  /\ UNCHANGED <<stable, view>>

Write(p, b, x) ==
  /\ p \in active
  /\ view' = [view EXCEPT ![b] = x]
  /\ UNCHANGED <<stable, active>>

End(p) ==
  /\ p \in active
  /\ active' = active \ {p}
  /\ UNCHANGED <<stable, view>>

\* All writes become durable together, and only between system calls.
Commit ==
  /\ active = {}
  /\ stable' = view
  /\ UNCHANGED <<view, active>>

\* A crash forgets every system call that was not committed.
Crash ==
  /\ view' = stable
  /\ active' = {}
  /\ UNCHANGED stable

Next ==
  \/ \E p \in Proc : Begin(p) \/ End(p) \/ \E b \in Block, x \in Val : Write(p, b, x)
  \/ Commit
  \/ Crash

Spec == Init /\ [][Next]_vars
=============================================================================
