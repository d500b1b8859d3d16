----------------------------- MODULE MCConsole ------------------------------
(* Instances of Console: two CPUs and two processes. *)
EXTENDS Console

CONSTANTS c1, c2, p1, p2

World(cs, a, b, ks, ts, ds) ==
  [cpus |-> cs, load |-> [p \in {p1, p2} |-> IF p = p1 THEN a ELSE b], keys |-> ks,
   timer |-> ts, kill |-> ds]

\* A reader of everything; two readers that share lines.
Reader   == World({c1}, "read", "printf", {"x", "cr", "eof"}, {}, {})
Readers  == World({c1, c2}, "read", "read", {"cr"}, {}, {p1})
\* A line is edited and echoed while a process writes.
Editing  == World({c1}, "read", "write", {"x", "kill", "erase"}, {}, {})
\* Writers are preempted while the transmit buffer is full.
Writers  == World({c1, c2}, "write", "write", {}, {c2}, {p1})
\* A writer, the kernel's printf and the process list.
Printing == World({c1, c2}, "write", "printf", {"dump"}, {}, {})
\* The clock.
Clock    == World({c1, c2}, "sleep", "printf", {}, {c1}, {p1})

AllWorlds == {Reader, Readers, Editing, Writers, Printing, Clock}
=============================================================================
