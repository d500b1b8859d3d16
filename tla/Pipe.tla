-------------------------------- MODULE Pipe --------------------------------
(***************************************************************************)
(* A pipe (kernel/pipe.c) used by several readers and writers that share   *)
(* its two ends.  The ring buffer and its free-running counters are those  *)
(* of the code: the counters wrap around at UMax (2^32 in the code, a      *)
(* multiple of PIPESIZE).  pi->lock is held from the start of a call to    *)
(* its end or to sleep; every byte is a step of its own.                   *)
(*                                                                         *)
(* fileclose calls pipeclose for an end when the last process that has it  *)
(* open closes it (file.c); a process inside pipewrite or piperead has     *)
(* its end open.                                                           *)
(***************************************************************************)
EXTENDS Naturals, FiniteSets

CONSTANTS
  Writer, Reader,   \* the processes that have each end open at first
  Byte,
  PIPESIZE, UMax,
  MaxN,             \* bound: bytes asked for in one call
  NULL

Proc == Writer \cup Reader

ASSUME SizeAssumption ==
  /\ PIPESIZE \in Nat \ {0} /\ UMax \in Nat
  /\ UMax % PIPESIZE = 0 /\ UMax > PIPESIZE
  /\ MaxN \in Nat
ASSUME ProcAssumption == Writer \cap Reader = {} /\ NULL \notin Proc
ASSUME ByteAssumption == Byte # {} /\ NULL \notin Byte

VARIABLES
  data, nread, nwrite,
  readopen, writeopen,
  freed,          \* the page of the pipe was given back
  lock,           \* the process that holds pi->lock, or NULL
  has,            \* processes that have their end open
  killed,
  pc, n,          \* what each process does, and the bytes still to do
  got             \* the byte that was copied to a reader last

ring == <<data, nread, nwrite>>
ends == <<readopen, writeopen, freed, has>>
vars == <<data, nread, nwrite, readopen, writeopen, freed, lock, has, killed, pc, n, got>>

\* pipealloc.
Init ==
  /\ data = [k \in 0..PIPESIZE - 1 |-> CHOOSE x \in Byte : TRUE]
  /\ nread = 0 /\ nwrite = 0
  /\ readopen = TRUE /\ writeopen = TRUE
  /\ freed = FALSE
  /\ lock = NULL
  /\ has = Proc
  /\ killed = [p \in Proc |-> FALSE]
  /\ pc = [p \in Proc |-> "user"]
  /\ n = [p \in Proc |-> 0]
  /\ got = NULL

Goto(p, l) == pc' = [pc EXCEPT ![p] = l]

Wake(p, l, ch) ==
  pc' = [q \in Proc |-> IF q = p THEN l
                        ELSE IF pc[q] = "sleep" /\ q \in ch THEN "acquire" ELSE pc[q]]

\* The call ends; everyone who sleeps on the channel ch is woken.
Return(p, ch) ==
  /\ Wake(p, "user", ch)
  /\ lock' = NULL
  /\ n' = [n EXCEPT ![p] = 0]

\* sleep: the lock is released, those sleeping on ch are woken before.
Sleep(p, ch) ==
  /\ Wake(p, "sleep", ch)
  /\ lock' = NULL
  /\ UNCHANGED n

Call(p, k) ==
  /\ pc[p] = "user" /\ p \in has
  /\ ~killed[p]
  /\ n' = [n EXCEPT ![p] = k]
  /\ Goto(p, "acquire")
  /\ UNCHANGED <<ring, ends, lock, killed, got>>

acquire(p) ==
  /\ pc[p] = "acquire"
  /\ lock = NULL /\ lock' = p
  /\ Goto(p, "loop")
  /\ UNCHANGED <<ring, ends, killed, n, got>>

Full  == nwrite = (nread + PIPESIZE) % UMax
Empty == nwrite = nread
-----------------------------------------------------------------------------
(* pipewrite. *)

write_fails(p) ==
  /\ p \in Writer /\ pc[p] = "loop" /\ n[p] > 0
  /\ ~readopen \/ killed[p]
  /\ Return(p, {})
  /\ UNCHANGED <<ring, ends, killed, got>>

\* Mutant: readers are not woken when the pipe is full.
write_full_quiet(p) ==
  /\ p \in Writer /\ pc[p] = "loop" /\ n[p] > 0
  /\ readopen /\ ~killed[p]
  /\ Full
  /\ Sleep(p, {})
  /\ UNCHANGED <<ring, ends, killed, got>>

write_full(p) ==
  /\ p \in Writer /\ pc[p] = "loop" /\ n[p] > 0
  /\ readopen /\ ~killed[p]
  /\ Full
  /\ Sleep(p, Reader)
  /\ UNCHANGED <<ring, ends, killed, got>>

\* Mutant: the pipe is taken for full only when the counters differ by more.
write_byte_overrun(p, x) ==
  /\ p \in Writer /\ pc[p] = "loop" /\ n[p] > 0
  /\ readopen /\ ~killed[p]
  /\ nwrite # (nread + PIPESIZE + 1) % UMax
  /\ data' = [data EXCEPT ![nwrite % PIPESIZE] = x]
  /\ nwrite' = (nwrite + 1) % UMax
  /\ n' = [n EXCEPT ![p] = @ - 1]
  /\ UNCHANGED <<nread, ends, lock, killed, pc, got>>

write_byte(p, x) ==
  /\ p \in Writer /\ pc[p] = "loop" /\ n[p] > 0
  /\ readopen /\ ~killed[p]
  /\ ~Full
  /\ data' = [data EXCEPT ![nwrite % PIPESIZE] = x]
  /\ nwrite' = (nwrite + 1) % UMax
  /\ n' = [n EXCEPT ![p] = @ - 1]
  /\ UNCHANGED <<nread, ends, lock, killed, pc, got>>

\* All bytes are in, or copyin fails.
write_ends(p) ==
  /\ p \in Writer /\ pc[p] = "loop"
  /\ n[p] > 0 => readopen /\ ~killed[p] /\ ~Full
  /\ Return(p, Reader)
  /\ UNCHANGED <<ring, ends, killed, got>>

pipewrite(p) ==
  \/ write_fails(p) \/ write_full(p) \/ write_ends(p)
  \/ \E x \in Byte : write_byte(p, x)
-----------------------------------------------------------------------------
(* piperead. *)

read_fails(p) ==
  /\ p \in Reader /\ pc[p] = "loop"
  /\ Empty /\ writeopen /\ killed[p]
  /\ Return(p, {})
  /\ UNCHANGED <<ring, ends, killed, got>>

read_empty(p) ==
  /\ p \in Reader /\ pc[p] = "loop"
  /\ Empty /\ writeopen /\ ~killed[p]
  /\ Sleep(p, {})
  /\ UNCHANGED <<ring, ends, killed, got>>

\* The pipe has bytes, or never will: the copy loop begins.
read_starts(p) ==
  /\ p \in Reader /\ pc[p] = "loop"
  /\ ~(Empty /\ writeopen)
  /\ Goto(p, "copy")
  /\ UNCHANGED <<ring, ends, lock, killed, n, got>>

read_byte(p) ==
  /\ pc[p] = "copy"
  /\ n[p] > 0 /\ ~Empty
  /\ got' = data[nread % PIPESIZE]
  /\ nread' = (nread + 1) % UMax
  /\ n' = [n EXCEPT ![p] = @ - 1]
  /\ UNCHANGED <<data, nwrite, ends, lock, killed, pc>>

\* copyout fails after the byte was taken.
read_faults(p) ==
  /\ pc[p] = "copy"
  /\ n[p] > 0 /\ ~Empty
  /\ nread' = (nread + 1) % UMax
  /\ Return(p, Writer)
  /\ UNCHANGED <<data, nwrite, ends, killed, got>>

read_ends(p) ==
  /\ pc[p] = "copy"
  /\ n[p] = 0 \/ Empty
  /\ Return(p, Writer)
  /\ UNCHANGED <<ring, ends, killed, got>>

piperead(p) ==
  \/ read_fails(p) \/ read_empty(p) \/ read_starts(p) \/ read_byte(p)
  \/ read_faults(p) \/ read_ends(p)
-----------------------------------------------------------------------------
\* p gives up its end without being the last to do so.
fileclose(p) ==
  /\ pc[p] = "user" /\ p \in has
  /\ has' = has \ {p}
  /\ has' \cap (IF p \in Writer THEN Writer ELSE Reader) # {}
  /\ UNCHANGED <<ring, readopen, writeopen, freed, lock, killed, pc, n, got>>

\* The last process to have an end open closes it.
pipeclose(p) ==
  /\ pc[p] = "user" /\ p \in has
  /\ lock = NULL
  /\ has' = has \ {p}
  /\ has' \cap (IF p \in Writer THEN Writer ELSE Reader) = {}
  /\ IF p \in Writer
     THEN writeopen' = FALSE /\ UNCHANGED readopen /\ Wake(p, "user", Reader)
     ELSE readopen' = FALSE /\ UNCHANGED writeopen /\ Wake(p, "user", Writer)
  /\ freed' = (~readopen' /\ ~writeopen')
  /\ UNCHANGED <<ring, lock, killed, n, got>>

\* kill (module Proc) marks p and makes it runnable if it sleeps.
kill(p) ==
  /\ ~killed[p]
  /\ killed' = [killed EXCEPT ![p] = TRUE]
  /\ Goto(p, IF pc[p] = "sleep" THEN "acquire" ELSE pc[p])
  /\ UNCHANGED <<ring, ends, lock, n, got>>

\* When both ends are closed nothing is left to do.
Done == has = {} /\ UNCHANGED vars

Step(p) ==
  \/ \E k \in 1..MaxN : Call(p, k)
  \/ acquire(p) \/ pipewrite(p) \/ piperead(p)
  \/ fileclose(p) \/ pipeclose(p) \/ kill(p)

Next == (\E p \in Proc : Step(p)) \/ Done

Spec == Init /\ [][Next]_vars
-----------------------------------------------------------------------------
(* Properties. *)

Count == (nwrite + UMax - nread) % UMax
Queue == [k \in 1..Count |-> data[(nread + k - 1) % PIPESIZE]]

\* The ring buffer with its wrapping counters is a bounded queue of bytes.
Fifo == INSTANCE BoundedFifo WITH
          Size <- PIPESIZE,
          q <- Queue, delivered <- got, reading <- readopen, writing <- writeopen
ImplementsFifo == Fifo!Spec

\* No wakeup is lost: when the lock is free, a writer sleeps only while the
\* pipe is full and a reader only while it is empty, with the other end open.
\* Except: pipewrite returns without a wakeup when its process was killed, so
\* a reader may sleep on bytes that a killed writer has left.
NoLostWakeup ==
  lock = NULL =>
    \A p \in Proc : pc[p] = "sleep" =>
      IF p \in Reader THEN writeopen /\ (Empty \/ \E w \in Writer : killed[w])
      ELSE Full /\ readopen
=============================================================================
