------------------------------ MODULE Console -------------------------------
(***************************************************************************)
(* The console and the clock, and what they need from the kernel: line     *)
(* input (kernel/console.c), buffered output (kernel/uart.c), sys_sleep    *)
(* (kernel/sysproc.c), the interrupt handlers that run on top of them      *)
(* (kernel/trap.c) and the spinlocks that mask interrupts                  *)
(* (kernel/spinlock.c).                                                    *)
(*                                                                         *)
(* A CPU runs a process or its scheduler; an interrupt adds a frame to     *)
(* the stack of whichever it runs.  A frame is a label.  A spinlock is     *)
(* taken in two steps, push_off and the atomic swap, and what is done      *)
(* under it is one step unless the code waits there, or a lock that other  *)
(* CPUs need for kill or printf is let go in between.  p->lock is not seen *)
(* here: sleep, wakeup, yield and the scheduler are steps (module Proc).   *)
(* uartputc_sync finds the UART idle and writes to it in one step: its     *)
(* FIFO is on, so that two characters written at once are both sent.       *)
(***************************************************************************)
EXTENDS Naturals, Sequences, FiniteSets

CONSTANTS
  CPU, CPU0,          \* the CPUs, and the one that counts ticks
  Proc,
  INPUT_BUF_SIZE, UART_TX_BUF_SIZE,
  UINT,               \* bound: unsigned counters are modulo UINT
  LEN,                \* length of the reads and writes, and ticks of the sleeps
  Worlds,             \* what is done: the CPUs that run (cpus), the call each
                      \* process makes again and again (load), what is typed
                      \* (keys), the CPUs whose timer is set (timer), the
                      \* processes killed (kill)
  NULL

ASSUME ConsoleAssumption ==
  /\ CPU0 \in CPU /\ NULL \notin CPU \cup Proc /\ CPU \cap Proc = {}
  /\ UINT % INPUT_BUF_SIZE = 0 /\ UINT > INPUT_BUF_SIZE
  /\ UINT > LEN

Char == {"x", "nl", "eof"}     \* an ordinary character, newline, control-D

VARIABLES
  world,                       \* what is done (never changes)
  cpu,                         \* struct cpu: intr (sstatus.SIE), noff, intena
  on,                          \* c->proc, NULL in the scheduler
  spin,                        \* the lock that acquire waits for on each CPU
  lock,                        \* the CPU that holds each spinlock
  stack,                       \* the frames of each process and scheduler
  state, chan, killed, intena, \* of each process; intena is the local of sched, TRUE outside it
  n, ticks0,                   \* locals: characters or ticks to go, start of a sleep;
                               \*   LEN and NULL between calls
  buf, r, w, e,                \* cons
  uart_tx_n,                   \* characters in the transmit buffer: uart_tx_w - uart_tx_r
  ticks,
  rhr, busy, txirq,            \* UART: character received, sending, transmit interrupt
  claimed, c0                  \* PLIC: interrupt in service, and its character

cons  == <<buf, r, w, e>>
uart  == <<rhr, busy, txirq>>
plic  == <<claimed, c0>>
sched == <<state, chan, killed, intena>>
local == <<n, ticks0>>
vars  == <<world, cpu, on, spin, lock, stack, sched, local, cons, uart_tx_n, ticks, uart, plic>>

Lock == {"cons", "tx", "ticks", "pr"}

\* The system is up; every process is about to run in user mode.
Init ==
  /\ world \in Worlds
  /\ cpu = [c \in CPU |-> [intr |-> TRUE, noff |-> 0, intena |-> FALSE]]
  /\ on = [c \in CPU |-> NULL] /\ spin = [c \in CPU |-> NULL]
  /\ lock = [l \in Lock |-> NULL]
  /\ stack = [s \in Proc \cup CPU |-> <<IF s \in CPU THEN "scheduler" ELSE "user">>]
  /\ state = [p \in Proc |-> "RUNNABLE"] /\ chan = [p \in Proc |-> NULL]
  /\ killed = [p \in Proc |-> FALSE] /\ intena = [p \in Proc |-> TRUE]
  /\ n = [p \in Proc |-> LEN] /\ ticks0 = [p \in Proc |-> NULL]
  /\ buf = [k \in 0 .. INPUT_BUF_SIZE - 1 |-> NULL] /\ r = 0 /\ w = 0 /\ e = 0
  /\ uart_tx_n = 0
  /\ ticks = 0
  /\ rhr = NULL /\ busy = FALSE /\ txirq = FALSE
  /\ claimed = FALSE /\ c0 = NULL

Plus(x, y)  == (x + y) % UINT
Minus(x, y) == (x + UINT - y) % UINT

\* What CPU c runs, and where that is.
Cur(c)   == IF on[c] = NULL THEN c ELSE on[c]
Depth(s) == Len(stack[s])
At(c, l) == spin[c] = NULL /\ stack[Cur(c)][Depth(Cur(c))] = l
Goto(c, l) == stack' = [stack EXCEPT ![Cur(c)][Depth(Cur(c))] = l]
-----------------------------------------------------------------------------
(* Spinlocks. *)

push_off(k) == [intr |-> FALSE, noff |-> k.noff + 1, intena |-> IF k.noff = 0 THEN k.intr ELSE k.intena]

\* Mutant: interrupts are turned on by any pop_off.
pop_off_early(k) == [intr |-> k.intena, noff |-> k.noff - 1, intena |-> k.noff > 1 /\ k.intena]

\* intena is not used again once noff is 0.
pop_off(k) ==
  [intr |-> k.noff = 1 /\ k.intena, noff |-> k.noff - 1, intena |-> k.noff > 1 /\ k.intena]

\* The lock that each label is about to acquire, and where it has it.
Acquires == [read |-> "cons", key |-> "cons", put |-> "tx", start |-> "tx",
             sleep |-> "ticks", clock |-> "ticks", printf |-> "pr", dump |-> "pr"]
Holding  == [read |-> "consoleread", key |-> "consoleintr", put |-> "uartputc",
             start |-> "uartstart", sleep |-> "sys_sleep", clock |-> "clockintr",
             printf |-> "consputc", dump |-> "procdump"]

acquire(c) ==
  /\ \E l \in DOMAIN Acquires :
       /\ At(c, l)
       /\ (l = "clock") => (c = CPU0)
       /\ spin' = [spin EXCEPT ![c] = Acquires[l]]
  /\ cpu' = [cpu EXCEPT ![c] = push_off(@)]
  /\ UNCHANGED <<world, on, lock, stack, sched, local, cons, uart_tx_n, ticks, uart, plic>>

acquired(c) ==
  /\ spin[c] # NULL /\ lock[spin[c]] = NULL
  /\ lock' = [lock EXCEPT ![spin[c]] = c]
  /\ spin' = [spin EXCEPT ![c] = NULL]
  /\ Goto(c, Holding[stack[Cur(c)][Depth(Cur(c))]])
  /\ UNCHANGED <<world, cpu, on, sched, local, cons, uart_tx_n, ticks, uart, plic>>

release(c, l) ==
  /\ lock' = [lock EXCEPT ![l] = NULL]
  /\ cpu' = [cpu EXCEPT ![c] = pop_off(@)]

-----------------------------------------------------------------------------
(* Processes. *)

\* sched and the scheduler's loop: the CPU is left to others with interrupts on.
sched_out(c, p, st) ==
  /\ state' = [state EXCEPT ![p] = st]
  /\ on' = [on EXCEPT ![c] = NULL]
  /\ cpu' = [cpu EXCEPT ![c] = [intr |-> TRUE, noff |-> 0, intena |-> FALSE]]

\* sleep(ch, l) with l held, to go on at label lb, which acquires l again.
sleep(c, p, ch, l, lb) ==
  /\ lock' = [lock EXCEPT ![l] = NULL]
  /\ chan' = [chan EXCEPT ![p] = ch]
  /\ intena' = [intena EXCEPT ![p] = cpu[c].intena]
  /\ sched_out(c, p, "SLEEPING")
  /\ Goto(c, lb)

\* Mutant: one sleeper is woken.
wakeup_one(ch) ==
  LET S == {p \in Proc : state[p] = "SLEEPING" /\ chan[p] = ch}
  IN state' = [p \in Proc |-> IF S # {} /\ p = CHOOSE q \in S : TRUE THEN "RUNNABLE" ELSE state[p]]

\* wakeup(ch).
wakeup(ch) ==
  state' = [p \in Proc |-> IF state[p] = "SLEEPING" /\ chan[p] = ch THEN "RUNNABLE" ELSE state[p]]

\* The scheduler switches to p, which restores intena and releases p->lock.
scheduler(c, p) ==
  /\ c \in world.cpus /\ At(c, "scheduler") /\ cpu[c].noff = 0
  /\ state[p] = "RUNNABLE"
  /\ state' = [state EXCEPT ![p] = "RUNNING"]
  /\ chan' = [chan EXCEPT ![p] = NULL]
  /\ intena' = [intena EXCEPT ![p] = TRUE]
  /\ on' = [on EXCEPT ![c] = p]
  /\ cpu' = [cpu EXCEPT ![c] = pop_off([intr |-> FALSE, noff |-> 1, intena |-> intena[p]])]
  /\ UNCHANGED <<world, spin, lock, stack, killed, local, cons, uart_tx_n, ticks, uart, plic>>

\* usertrap on a system call: a killed process exits, others enter the call
\* with interrupts on.
usertrap(c) ==
  /\ At(c, "user")
  /\ LET p == on[c]
     IN IF killed[p]
        THEN /\ sched_out(c, p, "ZOMBIE")
             /\ UNCHANGED stack
        ELSE /\ Goto(c, world.load[p])
             /\ UNCHANGED <<cpu, on, state>>
  /\ UNCHANGED <<world, spin, lock, chan, killed, intena, local, cons, uart_tx_n, ticks, uart, plic>>

\* sys_kill of p by a process in user mode.
sys_kill(c, p) ==
  /\ At(c, "user") /\ ~killed[on[c]]
  /\ p \in world.kill /\ ~killed[p]
  /\ killed' = [killed EXCEPT ![p] = TRUE]
  /\ state' = [state EXCEPT ![p] = IF @ = "SLEEPING" THEN "RUNNABLE" ELSE @]
  /\ UNCHANGED <<world, cpu, on, spin, lock, stack, chan, intena, local, cons, uart_tx_n, ticks, uart, plic>>

\* One round of the loop of consoleread, with cons.lock held: decide to wait, or
\* take a character and copy it out, which fails if ~ok.  An end-of-file in the
\* middle of a read is left for the next one.
consoleread(c, ok) ==
  /\ At(c, "consoleread")
  /\ LET p == on[c]
         x == buf[r % INPUT_BUF_SIZE]
         more == ok /\ x \notin {"eof", "nl"} /\ n[p] > 1
     IN IF r = w /\ ~killed[p]
        THEN Goto(c, "waits for input") /\ UNCHANGED <<cpu, lock, n, r>>
        ELSE /\ IF r # w /\ more
                THEN n' = [n EXCEPT ![p] = @ - 1] /\ UNCHANGED <<lock, cpu, stack>>
                ELSE n' = [n EXCEPT ![p] = LEN] /\ release(c, "cons") /\ Goto(c, "user")
             /\ r' = IF r = w \/ (x = "eof" /\ n[p] < LEN) THEN r ELSE Plus(r, 1)
  /\ UNCHANGED <<world, on, spin, sched, ticks0, buf, w, e, uart_tx_n, ticks, uart, plic>>

\* The loop of consolewrite: the next character, unless it cannot be copied in.
consolewrite(c, ok) ==
  /\ At(c, "write")
  /\ IF ok /\ n[on[c]] > 0 THEN Goto(c, "put") /\ UNCHANGED n
     ELSE Goto(c, "user") /\ n' = [n EXCEPT ![on[c]] = LEN]
  /\ UNCHANGED <<world, cpu, on, spin, lock, sched, ticks0, cons, uart_tx_n, ticks, uart, plic>>

\* Mutant: sending is left to the next interrupt.
uartputc_lazy(c) ==
  /\ At(c, "uartputc")
  /\ IF uart_tx_n = UART_TX_BUF_SIZE
     THEN sleep(c, on[c], "uart_tx_r", "tx", "put") /\ UNCHANGED <<n, uart_tx_n>>
     ELSE /\ uart_tx_n' = uart_tx_n + 1
          /\ n' = [n EXCEPT ![on[c]] = @ - 1]
          /\ release(c, "tx") /\ Goto(c, "write")
          /\ UNCHANGED <<on, state, chan, intena>>
  /\ UNCHANGED <<world, spin, killed, ticks0, cons, ticks, uart, plic>>

\* uartputc with uart_tx_lock held, until it calls uartstart.
uartputc(c) ==
  /\ At(c, "uartputc")
  /\ LET p == on[c]
     IN IF uart_tx_n = UART_TX_BUF_SIZE
        THEN /\ sleep(c, p, "uart_tx_r", "tx", "put")
             /\ UNCHANGED <<n, uart_tx_n>>
        ELSE /\ uart_tx_n' = uart_tx_n + 1
             /\ n' = [n EXCEPT ![p] = @ - 1]
             /\ Goto(c, "uartstart")
             /\ UNCHANGED <<cpu, on, lock, state, chan, intena>>
  /\ UNCHANGED <<world, spin, killed, ticks0, cons, ticks, uart, plic>>

\* sys_sleep with tickslock held, until it sleeps.  ticks0 is read the first time.
sys_sleep(c) ==
  /\ At(c, "sys_sleep")
  /\ LET p  == on[c]
         t0 == IF ticks0[p] = NULL THEN ticks ELSE ticks0[p]
     IN IF Minus(ticks, t0) < n[p] /\ ~killed[p]
        THEN /\ Goto(c, "waits for a tick")
             /\ ticks0' = [ticks0 EXCEPT ![p] = t0]
             /\ UNCHANGED <<cpu, lock>>
        ELSE /\ release(c, "ticks") /\ Goto(c, "user")
             /\ ticks0' = [ticks0 EXCEPT ![p] = NULL]
  /\ UNCHANGED <<world, on, spin, sched, n, cons, uart_tx_n, ticks, uart, plic>>

\* consoleread and sys_sleep call sleep.  killed() has let p->lock go, so that a
\* kill can come before sleep takes it, and does not wake the process.
goes_to_sleep(c) ==
  /\ \/ At(c, "waits for input") /\ sleep(c, on[c], "cons.r", "cons", "read")
     \/ At(c, "waits for a tick") /\ sleep(c, on[c], "ticks", "ticks", "sleep")
  /\ UNCHANGED <<world, spin, killed, local, cons, uart_tx_n, ticks, uart, plic>>

\* A character of the kernel's printf, under pr.lock: uartputc_sync waits for
\* the UART between push_off and pop_off.
consputc(c) ==
  /\ At(c, "consputc")
  /\ ~busy /\ busy' = TRUE /\ txirq' = FALSE
  /\ cpu' = [cpu EXCEPT ![c] = pop_off(push_off(@))]
  /\ Goto(c, "printed")
  /\ UNCHANGED <<world, on, spin, lock, sched, local, cons, uart_tx_n, ticks, rhr, plic>>

printf(c) ==
  /\ At(c, "printed")
  /\ release(c, "pr")
  /\ Goto(c, "user")
  /\ UNCHANGED <<world, on, spin, sched, local, cons, uart_tx_n, ticks, uart, plic>>
-----------------------------------------------------------------------------
(* Interrupts. *)

\* A frame for the handler is pushed, with interrupts off.
trap(c, l) ==
  /\ c \in world.cpus /\ cpu[c].intr
  /\ stack' = [stack EXCEPT ![Cur(c)] = Append(@, l)]
  /\ cpu' = [cpu EXCEPT ![c].intr = FALSE]

\* kerneltrap or usertrap, devintr and plic_claim.
devintr(c) ==
  /\ trap(c, "uartintr")
  /\ ~claimed /\ (rhr # NULL \/ txirq)
  /\ claimed' = TRUE
  /\ UNCHANGED <<world, on, spin, lock, sched, local, cons, uart_tx_n, ticks, uart, c0>>

\* The timer is due on c.
timer(c) ==
  /\ c \in world.timer
  /\ trap(c, IF c = CPU0 THEN "clock" ELSE "yield")
  /\ UNCHANGED <<world, on, spin, lock, sched, local, cons, uart_tx_n, ticks, uart, plic>>

clockintr(c) ==
  /\ At(c, "clockintr")
  /\ ticks' = Plus(ticks, 1)
  /\ wakeup("ticks")
  /\ release(c, "ticks")
  /\ Goto(c, "yield")
  /\ UNCHANGED <<world, on, spin, chan, killed, intena, local, cons, uart_tx_n, uart, plic>>

\* The end of a timer interrupt: a process gives up the CPU.  It goes on, maybe
\* on another CPU, with interrupts still off.
yield(c) ==
  /\ At(c, "yield")
  /\ Goto(c, "sret")
  /\ IF on[c] = NULL THEN UNCHANGED <<cpu, on, state, intena>>
     ELSE /\ intena' = [intena EXCEPT ![on[c]] = push_off(cpu[c]).intena]
          /\ sched_out(c, on[c], "RUNNABLE")
  /\ UNCHANGED <<world, spin, lock, chan, killed, local, cons, uart_tx_n, ticks, uart, plic>>

\* The handler returns.  A killed process that it finds in user mode only exits
\* from there (usertrap).
sret(c) ==
  /\ At(c, "sret")
  /\ stack' = [stack EXCEPT ![Cur(c)] = SubSeq(@, 1, Len(@) - 1)]
  /\ cpu' = [cpu EXCEPT ![c].intr = TRUE]
  /\ UNCHANGED <<world, on, spin, lock, sched, local, cons, uart_tx_n, ticks, uart, plic>>

\* The loop of uartintr: a character, if there is one.
uartgetc(c) ==
  /\ At(c, "uartintr")
  /\ IF rhr = NULL THEN Goto(c, "start") ELSE Goto(c, "key")
  /\ c0' = rhr /\ rhr' = NULL
  /\ UNCHANGED <<world, cpu, on, spin, lock, sched, local, cons, uart_tx_n, ticks, busy, txirq, claimed>>

\* consoleintr ends.
Handled(c) ==
  /\ release(c, "cons")
  /\ Goto(c, "uartintr")
  /\ c0' = NULL

\* Mutant: a full buffer is not committed.
Commits_line(x, i) == x \in {"nl", "eof"}

\* The character x, stored before index i, completes what can be read.
Commits(x, i) == x \in {"nl", "eof"} \/ Minus(i, r) = INPUT_BUF_SIZE

\* consoleintr for a character to store: echo it, append it, and commit the
\* line.  Characters are lost while the buffer is full.
consoleintr(c) ==
  /\ At(c, "consoleintr") /\ c0 \in Char \cup {"cr"}
  /\ IF Minus(e, r) < INPUT_BUF_SIZE
     THEN LET x == IF c0 = "cr" THEN "nl" ELSE c0
          IN /\ ~busy /\ busy' = TRUE /\ txirq' = FALSE
             /\ buf' = [buf EXCEPT ![e % INPUT_BUF_SIZE] = x]
             /\ e' = Plus(e, 1)
             /\ IF Commits(x, e')
                THEN w' = e' /\ wakeup("cons.r") ELSE UNCHANGED <<w, state>>
     ELSE UNCHANGED <<buf, w, e, state, busy, txirq>>
  /\ Handled(c)
  /\ UNCHANGED <<world, on, spin, chan, killed, intena, local, r, uart_tx_n, ticks, rhr, claimed>>

\* Control-H, delete and each round of control-U: the last character is erased
\* on the screen too.
consoleintr_erase(c) ==
  /\ At(c, "consoleintr") /\ c0 \in {"erase", "kill"}
  /\ IF e # w /\ (c0 = "kill" => buf[Minus(e, 1) % INPUT_BUF_SIZE] # "nl")
     THEN /\ ~busy /\ busy' = TRUE /\ txirq' = FALSE
          /\ e' = Minus(e, 1)
          /\ IF c0 = "erase" THEN Handled(c) ELSE UNCHANGED <<cpu, lock, stack, c0>>
     ELSE Handled(c) /\ UNCHANGED <<e, busy, txirq>>
  /\ UNCHANGED <<world, on, spin, sched, local, buf, r, w, uart_tx_n, ticks, rhr, claimed>>

\* Control-P: procdump prints under pr.lock, with cons.lock held.
consoleintr_dump(c) ==
  /\ At(c, "consoleintr") /\ c0 = "dump"
  /\ Goto(c, "dump")
  /\ UNCHANGED <<world, cpu, on, spin, lock, sched, local, cons, uart_tx_n, ticks, uart, plic>>

procdump(c) ==
  /\ At(c, "procdump")
  /\ ~busy /\ busy' = TRUE /\ txirq' = FALSE
  /\ lock' = [lock EXCEPT !["pr"] = NULL, !["cons"] = NULL]
  /\ cpu' = [cpu EXCEPT ![c] = pop_off(pop_off(@))]
  /\ Goto(c, "uartintr") /\ c0' = NULL
  /\ UNCHANGED <<world, on, spin, sched, local, cons, uart_tx_n, ticks, rhr, claimed>>

\* uartstart returns, to uartputc or to uartintr, which is then over.
Started(c) ==
  /\ release(c, "tx")
  /\ LET handler == on[c] = NULL \/ Depth(on[c]) > 1
     IN /\ Goto(c, IF handler THEN "sret" ELSE "write")
        /\ claimed' = (claimed /\ ~handler)

\* One round of uartstart, with uart_tx_lock held, until it writes the character
\* to the UART.
uartstart(c) ==
  /\ At(c, "uartstart")
  /\ IF uart_tx_n = 0 \/ busy
     THEN /\ Started(c)
          /\ txirq' = (txirq /\ uart_tx_n > 0)
          /\ UNCHANGED <<uart_tx_n, state>>
     ELSE /\ uart_tx_n' = uart_tx_n - 1
          /\ wakeup("uart_tx_r")
          /\ Goto(c, "WriteReg")
          /\ UNCHANGED <<cpu, lock, claimed, txirq>>
  /\ UNCHANGED <<world, on, spin, chan, killed, intena, local, cons, ticks, rhr, busy, c0>>

\* uartputc_sync, which does not take uart_tx_lock, may have written meanwhile.
uartstart_write(c) ==
  /\ At(c, "WriteReg")
  /\ busy' = TRUE /\ txirq' = FALSE
  /\ Goto(c, "uartstart")
  /\ UNCHANGED <<world, cpu, on, spin, lock, sched, local, cons, uart_tx_n, ticks, rhr, plic>>
-----------------------------------------------------------------------------
(* The UART: a character arrives, or the last one has been sent. *)

Receive ==
  /\ rhr = NULL
  /\ rhr' \in world.keys
  /\ UNCHANGED <<world, cpu, on, spin, lock, stack, sched, local, cons, uart_tx_n, ticks, busy, txirq, plic>>

Sent ==
  /\ busy
  /\ busy' = FALSE /\ txirq' = TRUE
  /\ UNCHANGED <<world, cpu, on, spin, lock, stack, sched, local, cons, uart_tx_n, ticks, rhr, plic>>
-----------------------------------------------------------------------------
Step(c) ==
  \/ acquire(c) \/ acquired(c)
  \/ \E p \in Proc : scheduler(c, p) \/ sys_kill(c, p)
  \/ usertrap(c) \/ uartputc(c) \/ sys_sleep(c) \/ goes_to_sleep(c)
  \/ consputc(c) \/ printf(c)
  \/ \E ok \in BOOLEAN : consoleread(c, ok) \/ consolewrite(c, ok)
  \/ devintr(c) \/ timer(c) \/ clockintr(c) \/ yield(c) \/ sret(c)
  \/ uartgetc(c) \/ consoleintr(c) \/ consoleintr_erase(c) \/ consoleintr_dump(c)
  \/ procdump(c) \/ uartstart(c) \/ uartstart_write(c)

Next == (\E c \in CPU : Step(c)) \/ Receive \/ Sent

Spec == Init /\ [][Next]_vars
-----------------------------------------------------------------------------
(* Properties. *)

Held(c) == {l \in Lock : lock[l] = c}

\* spinlock.c:24, "disable interrupts to avoid deadlock": a CPU that holds or
\* wants a spinlock has interrupts off, noff counts those locks, no CPU waits
\* for a lock that it holds itself or for one whose holder waits for it, and a
\* process off the CPU holds none (the panics of acquire, pop_off and sched).
\* No interrupt comes while a handler runs either, even when it has yielded
\* and goes on on another CPU: kerneltrap keeps sepc and sstatus on the stack.
LocksMasked ==
  \A c \in CPU :
    /\ cpu[c].noff = Cardinality(Held(c)) + (IF spin[c] = NULL THEN 0 ELSE 1)
    /\ cpu[c].noff > 0 => ~cpu[c].intr
    /\ spin[c] # NULL =>
         /\ lock[spin[c]] # c
         /\ \A d \in CPU : lock[spin[c]] = d /\ spin[d] # NULL => lock[spin[d]] # c
    /\ Depth(Cur(c)) < 2 \/ (Depth(Cur(c)) = 2 /\ ~cpu[c].intr)

\* No wakeup for input, output or time is lost: a process sleeps in consoleread
\* only while there is no line, in uartputc only while the buffer is full, in
\* sys_sleep only while its time is not over.  (The wakeup of kill can be lost,
\* between killed() and sleep; uartputc does not look for it.)
NoLostWakeup ==
  \A p \in Proc : state[p] = "SLEEPING" =>
    /\ chan[p] = "cons.r" => r = w
    /\ chan[p] = "uart_tx_r" => uart_tx_n = UART_TX_BUF_SIZE
    /\ chan[p] = "ticks" => Minus(ticks, ticks0[p]) < n[p]

\* Output does not stall: characters in the transmit buffer are being seen to,
\* by a process or handler at uartstart, or by an interrupt that is pending or
\* follows the character the UART is sending.
OutputNotStalled ==
  uart_tx_n > 0 => busy \/ txirq \/ claimed \/ lock["tx"] # NULL

\* The characters of cons.buf between two indices.
Slice(i, j) == [k \in 1 .. Minus(j, i) |-> buf[Plus(i, k - 1) % INPUT_BUF_SIZE]]

Line == INSTANCE LineBuffer
          WITH Size <- INPUT_BUF_SIZE, line <- Slice(w, e), ready <- Slice(r, w)

\* The ring of indices implements the line buffer: no character is lost,
\* doubled or read before it is committed, and a full buffer can be read.
ImplementsLineBuffer == Line!Spec
=============================================================================
