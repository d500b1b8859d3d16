------------------------------- MODULE MCSwap -------------------------------
(* Instances of Swap for TLC. *)
EXTENDS Swap

CONSTANTS init, p1, f1, f2, f3, f4, f5, f6

Frames == <<f1, f2, f3, f4, f5, f6>>

\* init does what own says, its child what other says.
Ops(own, other) == [p \in {init, p1} |-> IF p = init THEN own ELSE other]

\* One process, one thread in the kernel at a time; pages of two blocks.
Solo == [frames |-> 4, slots |-> 1, blks |-> 2, pages |-> 4, grow |-> 2,
         ops |-> Ops({"access", "copyout", "grow", "shrink"}, {})]

\* init does everything, its child only waits to exit: again never two threads
\* in the kernel, but two address spaces that compete for memory.
Fork == [frames |-> 5, slots |-> 1, blks |-> 1, pages |-> 2, grow |-> 1,
         ops |-> Ops({"access", "grow", "shrink", "fork", "wait"}, {"exit"})]

\* The same with larger processes that do not use their memory.
ForkLarge == [Fork EXCEPT !.pages = 4, !.grow = 2, !.ops[init] = @ \ {"access"}]

\* Two processes that grow and use memory at the same time.
Duo == [frames |-> 6, slots |-> 2, blks |-> 1, pages |-> 2, grow |-> 1,
        ops |-> Ops({"access", "grow", "fork"}, {"access", "grow"})]

\* The child runs, and there is room for both.
Copy == [Fork EXCEPT !.frames = 6, !.slots = 2]

Passing  == {Solo, Fork, ForkLarge, Duo}
OnlyCopy == {Copy}
=============================================================================
