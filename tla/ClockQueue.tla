----------------------------- MODULE ClockQueue -----------------------------
(***************************************************************************)
(* What the page replacement list of kernel/kalloc.c promises to the rest  *)
(* of the kernel, without pointers: a queue of resident user pages, each   *)
(* with a reference bit.  New pages enter at the back.  A page is evicted  *)
(* only while its reference bit is clear, and the pages that were passed   *)
(* over go to the back in their old order (the hand of the clock moves).   *)
(***************************************************************************)
EXTENDS Naturals, Sequences

CONSTANT Page   \* the physical pages described by pages[]

VARIABLES
  queue,        \* the listed pages, the page under the clock hand first
  ref           \* the PTE_A bit of the mapping of each page

vars == <<queue, ref>>

Listed == {queue[i] : i \in 1..Len(queue)}

Init ==
  /\ queue = <<>>
  /\ ref = [p \in Page |-> FALSE]

\* A page that has just been mapped enters at the back.
Enter(p) ==
  /\ p \notin Listed
  /\ queue' = Append(queue, p)
  /\ \E b \in BOOLEAN : ref' = [ref EXCEPT ![p] = b]

\* A page that is unmapped leaves from wherever it stands.
Leave(i) ==
  /\ queue' = SubSeq(queue, 1, i - 1) \o SubSeq(queue, i + 1, Len(queue))
  /\ ref' = [ref EXCEPT ![queue[i]] = FALSE]

\* Eviction of the i-th page: the i-1 pages before it are the youngest now.
Evict(i) ==
  /\ ~ref[queue[i]]
  /\ queue' = SubSeq(queue, i + 1, Len(queue)) \o SubSeq(queue, 1, i - 1)
  /\ UNCHANGED ref

\* The hardware sets a reference bit, the clock hand clears one.
Mark(p, b) ==
  /\ p \in Listed
  /\ ref' = [ref EXCEPT ![p] = b]
  /\ UNCHANGED queue

Next ==
  \/ \E p \in Page : Enter(p)
  \/ \E i \in 1..Len(queue) : Leave(i) \/ Evict(i)
  \/ \E p \in Page, b \in BOOLEAN : Mark(p, b)

Spec == Init /\ [][Next]_vars
=============================================================================
