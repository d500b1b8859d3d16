------------------------------- MODULE Shell --------------------------------
(***************************************************************************)
(* The shell (user/sh.c) and init (user/init.c): how a line is parsed, and *)
(* which processes, pipes and descriptors running it makes.                *)
(*                                                                         *)
(* A line is a sequence of tokens.  A program copies nothing: it writes    *)
(* Burst bytes to descriptor 1, then reads descriptor 0 to its end.  What  *)
(* the kernel does for these calls is external here (modules Fs, Pipe and  *)
(* Proc); steps of one process that no other can observe are one step.     *)
(***************************************************************************)
EXTENDS Integers, Sequences, FiniteSets, SequencesExt

CONSTANTS
  Word,       \* tokens that are program and file names
  Lines,      \* the lines typed
  MAXARGS,
  NPROC,      \* process slots, the shell included
  Slots,      \* how many of them are free for the user: numbers up to NPROC
  NOFILE,     \* descriptors of a process
  NPIPE,      \* bound: pipes at a time
  MaxLines,   \* bound: how often the line is typed
  Burst,      \* bytes that a program writes
  PIPESIZE,
  NONE

ASSUME ShellAssumption ==
  /\ MAXARGS \in Nat \ {0} /\ Slots \subseteq 1 .. NPROC
  /\ Word \cap {"<", ">", ">>", "|", ";", "&", "(", ")"} = {}
-----------------------------------------------------------------------------
(* Parsing. *)

execcmd(argv)       == [type |-> "EXEC", argv |-> argv]
redircmd(c, r)      == [type |-> "REDIR", cmd |-> c, op |-> r[1], file |-> r[2]]
pipecmd(l, r)       == [type |-> "PIPE", left |-> l, right |-> r]
listcmd(l, r)       == [type |-> "LIST", left |-> l, right |-> r]
backcmd(c)          == [type |-> "BACK", cmd |-> c]

Parsed(c, ts) == [ok |-> TRUE, cmd |-> c, rest |-> ts]
Syntax        == [ok |-> FALSE, cmd |-> NONE, rest |-> <<>>]

peek(ts, S) == ts # <<>> /\ Head(ts) \in S

\* The redirections at the head of ts, in order.
RECURSIVE parseredirs(_)
parseredirs(ts) ==
  IF ~peek(ts, {"<", ">", ">>"}) THEN [ok |-> TRUE, rs |-> <<>>, rest |-> ts]
  ELSE IF Len(ts) < 2 \/ ts[2] \notin Word THEN [ok |-> FALSE, rs |-> <<>>, rest |-> <<>>]
  ELSE LET more == parseredirs(SubSeq(ts, 3, Len(ts)))
       IN [more EXCEPT !.rs = <<<<ts[1], ts[2]>>>> \o @]

\* Mutant: the first redirection is the outermost.
RECURSIVE Redirected_last(_, _)
Redirected_last(c, rs) ==
  IF rs = <<>> THEN c ELSE Redirected_last(redircmd(c, Last(rs)), Front(rs))

\* The last redirection of a command is the outermost, so it is done first.
RECURSIVE Redirected(_, _)
Redirected(c, rs) ==
  IF rs = <<>> THEN c ELSE Redirected(redircmd(c, Head(rs)), Tail(rs))

\* The loop of parseexec, with the arguments and redirections so far.
RECURSIVE parseargs(_, _, _)
parseargs(ts, argv, rs) ==
  IF ts = <<>> \/ peek(ts, {"|", ")", "&", ";"}) THEN Parsed(Redirected(execcmd(argv), rs), ts)
  ELSE IF Head(ts) \notin Word \/ Len(argv) + 1 >= MAXARGS THEN Syntax
  ELSE LET more == parseredirs(Tail(ts))
       IN IF more.ok THEN parseargs(more.rest, Append(argv, Head(ts)), rs \o more.rs)
          ELSE Syntax

RECURSIVE parseline(_)

parseblock(ts) ==
  LET line == parseline(Tail(ts))
      rs   == parseredirs(Tail(line.rest))
  IN IF ~line.ok \/ ~peek(line.rest, {")"}) \/ ~rs.ok THEN Syntax
     ELSE Parsed(Redirected(line.cmd, rs.rs), rs.rest)

parseexec(ts) ==
  IF peek(ts, {"("}) THEN parseblock(ts)
  ELSE LET first == parseredirs(ts)
       IN IF first.ok THEN parseargs(first.rest, <<>>, first.rs) ELSE Syntax

RECURSIVE parsepipe(_)
parsepipe(ts) ==
  LET l == parseexec(ts)
      r == parsepipe(Tail(l.rest))
  IN IF ~l.ok \/ ~peek(l.rest, {"|"}) THEN l
     ELSE IF r.ok THEN Parsed(pipecmd(l.cmd, r.cmd), r.rest) ELSE Syntax

\* Every "&" puts another command around the one before it.
RECURSIVE Backed(_)
Backed(x) == IF peek(x.rest, {"&"}) THEN Backed(Parsed(backcmd(x.cmd), Tail(x.rest))) ELSE x

parseline(ts) ==
  LET l == Backed(parsepipe(ts))
      r == parseline(Tail(l.rest))
  IN IF ~l.ok \/ ~peek(l.rest, {";"}) THEN l
     ELSE IF r.ok THEN Parsed(listcmd(l.cmd, r.cmd), r.rest) ELSE Syntax

\* nulterminate only ends the strings that the tokens already are here.
parsecmd(ts) ==
  LET line == parseline(ts)
  IN IF line.ok /\ line.rest = <<>> THEN line.cmd ELSE NONE
-----------------------------------------------------------------------------
(* Processes and descriptors. *)

Fd   == 0 .. NOFILE - 1
Slot == 1 .. NPROC      \* slot 1 is the shell

VARIABLES
  line, slots,     \* what is typed, and how many slots there are (never change)
  command,         \* what parsecmd makes of the line, NONE if it panics
  typed,           \* how often it has been typed
  proc,            \* the processes
  pipes            \* bytes in each pipe, and the command it was made for

vars == <<line, slots, command, typed, proc, pipes>>

\* What a descriptor refers to: the console, a file, an end of a pipe, nothing.
Object(kind, file, k) == [kind |-> kind, file |-> file, pipe |-> k]
Nothing == Object("none", "", 0)
Console == Object("console", "", 0)
Closed  == [d \in Fd |-> Nothing]

\* path, which the code does not have, is where cmd is in the line's command;
\* ends is the array p of runcmd.
Unused == [st |-> "unused", cmd |-> NONE, path |-> <<>>, fd |-> Closed, parent |-> 0, n |-> 0,
           ends |-> <<0, 0>>]

Init ==
  /\ line \in Lines /\ slots \in Slots /\ typed = 0
  /\ command = parsecmd(line)
  /\ proc = [p \in Slot |-> IF p = 1 THEN [Unused EXCEPT !.st = "getcmd",
                                             !.fd = [d \in Fd |-> IF d < 3 THEN Console ELSE Nothing]]
                            ELSE Unused]
  /\ pipes = [k \in 1 .. NPIPE |-> [bytes |-> 0, by |-> <<>>]]

close(f, d)   == [f EXCEPT ![d] = Nothing]
Lowest(f)     == CHOOSE d \in Fd : f[d] = Nothing /\ \A y \in 0 .. d - 1 : f[y] # Nothing
fdalloc(f, x) == [f EXCEPT ![Lowest(f)] = x]
dup(f, d)     == fdalloc(f, f[d])

FreeSlots  == {p \in 2 .. slots : proc[p].st = "unused"}
Holds(k)   == \E p \in Slot, d \in Fd : proc[p].fd[d].pipe = k
Open(k, e) == \E p \in Slot, d \in Fd : proc[p].fd[d] = Object(e, "", k)

\* The processes after p has exited: init inherits its children.
Exited(p) ==
  [q \in Slot |->
     IF q = p THEN [Unused EXCEPT !.st = IF p = 1 THEN "dead" ELSE "zombie", !.parent = proc[p].parent]
     ELSE IF proc[q].parent = p THEN [proc[q] EXCEPT !.parent = 0] ELSE proc[q]]

exit(p) == proc' = Exited(p) /\ UNCHANGED pipes

\* fork1: the child begins as x, the parent goes on as y; a panic if it fails.
fork1(p, x, y) ==
  IF FreeSlots = {} THEN exit(p)
  ELSE LET q == CHOOSE q \in FreeSlots : \A o \in FreeSlots : q <= o
       IN /\ proc' = [proc EXCEPT ![q] = [x EXCEPT !.parent = p], ![p] = y]
          /\ UNCHANGED pipes

\* wait(0), after which p goes on as y.
wait(p, y) ==
  /\ \E q \in Slot : /\ proc[q].parent = p /\ proc[q].st = "zombie"
                     /\ proc' = [proc EXCEPT ![q] = Unused, ![p] = y]
  /\ UNCHANGED pipes

\* p goes on with the subcommand c, which is at d in its command, and files f.
Sub(p, c, d, f) ==
  [proc[p] EXCEPT !.st = "runcmd", !.cmd = c, !.path = Append(@, d), !.fd = f,
                  !.ends = <<0, 0>>]
-----------------------------------------------------------------------------
(* main of sh and of init. *)

\* The loop of main: a line is run by a child, cd by the shell itself, if the
\* line begins with these letters and a blank.
main(cd) ==
  /\ proc[1].st = "getcmd"
  /\ typed < MaxLines /\ typed' = typed + 1
  /\ IF cd /\ peek(line, {"cd"}) THEN UNCHANGED <<proc, pipes>>
     ELSE fork1(1, [proc[1] EXCEPT !.st = "parsecmd"], [proc[1] EXCEPT !.st = "wait"])
  /\ UNCHANGED <<line, slots, command>>

main_wait ==
  /\ proc[1].st = "wait"
  /\ wait(1, [proc[1] EXCEPT !.st = "getcmd"])
  /\ UNCHANGED <<line, slots, command, typed>>

\* getcmd finds the end of the input.
main_eof ==
  /\ proc[1].st = "getcmd"
  /\ exit(1)
  /\ UNCHANGED <<line, slots, command, typed>>

\* init starts another shell: again and again if exec fails, but if its fork
\* does it exits, which is the end (the panic "init exiting").
init_sh(forks) ==
  /\ proc[1].st = "dead"
  /\ proc' = [proc EXCEPT ![1] =
       IF forks THEN [Unused EXCEPT !.st = "getcmd",
                        !.fd = [d \in Fd |-> IF d < 3 THEN Console ELSE Nothing]]
       ELSE [Unused EXCEPT !.st = "panic"]]
  /\ UNCHANGED <<line, slots, command, typed, pipes>>

panic == proc[1].st = "panic" /\ UNCHANGED vars

\* init waits for what has no parent.
init_wait(p) ==
  /\ proc[1].st # "panic"
  /\ proc[p].st = "zombie" /\ proc[p].parent = 0
  /\ proc' = [proc EXCEPT ![p] = Unused]
  /\ UNCHANGED <<line, slots, command, typed, pipes>>
-----------------------------------------------------------------------------
(* runcmd. *)

At(p, st, type) == proc[p].st = st /\ proc[p].cmd.type = type

parse(p) ==
  /\ proc[p].st = "parsecmd"
  /\ IF command = NONE THEN exit(p)
     ELSE proc' = [proc EXCEPT ![p].st = "runcmd", ![p].cmd = command] /\ UNCHANGED pipes
  /\ UNCHANGED <<line, slots, command, typed>>

run_exec(p, ok) ==
  /\ At(p, "runcmd", "EXEC")
  /\ IF ok /\ proc[p].cmd.argv # <<>>
     THEN proc' = [proc EXCEPT ![p].st = "program", ![p].n = Burst] /\ UNCHANGED pipes
     ELSE exit(p)
  /\ UNCHANGED <<line, slots, command, typed>>

run_redir(p, ok) ==
  /\ At(p, "runcmd", "REDIR")
  /\ LET c == proc[p].cmd
         f == close(proc[p].fd, IF c.op = "<" THEN 0 ELSE 1)
     IN IF ok
        THEN /\ proc' = [proc EXCEPT ![p] = Sub(p, c.cmd, "c", fdalloc(f, Object(c.op, c.file, 0)))]
             /\ UNCHANGED pipes
        ELSE exit(p)
  /\ UNCHANGED <<line, slots, command, typed>>

run_list(p) ==
  /\ At(p, "runcmd", "LIST")
  /\ fork1(p, Sub(p, proc[p].cmd.left, "l", proc[p].fd), [proc[p] EXCEPT !.st = "wait"])
  /\ UNCHANGED <<line, slots, command, typed>>

list_wait(p) ==
  /\ At(p, "wait", "LIST")
  /\ wait(p, Sub(p, proc[p].cmd.right, "r", proc[p].fd))
  /\ UNCHANGED <<line, slots, command, typed>>

\* pipe(p), and two forks.
run_pipe(p) ==
  /\ At(p, "runcmd", "PIPE")
  /\ LET free == {k \in 1 .. NPIPE : ~Holds(k)}
         k == CHOOSE k \in free : \A o \in free : k <= o
         f == fdalloc(proc[p].fd, Object("r", "", k))
     IN IF free = {} THEN exit(p)
        ELSE /\ pipes' = [pipes EXCEPT ![k] = [bytes |-> 0, by |-> proc[p].path]]
             /\ proc' = [proc EXCEPT ![p].st = "left", ![p].fd = fdalloc(f, Object("w", "", k)),
                                     ![p].ends = <<Lowest(proc[p].fd), Lowest(f)>>]
  /\ UNCHANGED <<line, slots, command, typed>>

\* The parent and each child close the two ends.
Both(p, f) == close(close(f, proc[p].ends[1]), proc[p].ends[2])

pipe_left(p) ==
  /\ At(p, "left", "PIPE")
  /\ fork1(p, Sub(p, proc[p].cmd.left, "l", Both(p, dup(close(proc[p].fd, 1), proc[p].ends[2]))),
           [proc[p] EXCEPT !.st = "right"])
  /\ UNCHANGED <<line, slots, command, typed>>

\* Mutant: the right child keeps the write end.
pipe_right_keeps(p) ==
  /\ At(p, "right", "PIPE")
  /\ fork1(p, Sub(p, proc[p].cmd.right, "r",
                  close(dup(close(proc[p].fd, 0), proc[p].ends[1]), proc[p].ends[1])),
           [proc[p] EXCEPT !.st = "close"])
  /\ UNCHANGED <<line, slots, command, typed>>

pipe_right(p) ==
  /\ At(p, "right", "PIPE")
  /\ fork1(p, Sub(p, proc[p].cmd.right, "r", Both(p, dup(close(proc[p].fd, 0), proc[p].ends[1]))),
           [proc[p] EXCEPT !.st = "close"])
  /\ UNCHANGED <<line, slots, command, typed>>

pipe_close(p) ==
  /\ At(p, "close", "PIPE")
  /\ proc' = [proc EXCEPT ![p].st = "wait", ![p].fd = Both(p, @), ![p].n = 2, ![p].ends = <<0, 0>>]
  /\ UNCHANGED <<line, slots, command, typed, pipes>>

\* wait(0) twice, and exit.
pipe_wait(p) ==
  /\ At(p, "wait", "PIPE")
  /\ IF proc[p].n > 0 THEN wait(p, [proc[p] EXCEPT !.n = @ - 1]) ELSE exit(p)
  /\ UNCHANGED <<line, slots, command, typed>>

run_back(p) ==
  /\ At(p, "runcmd", "BACK")
  /\ fork1(p, Sub(p, proc[p].cmd.cmd, "c", proc[p].fd), [proc[p] EXCEPT !.st = "exit"])
  /\ UNCHANGED <<line, slots, command, typed>>

back_exit(p) == proc[p].st = "exit" /\ exit(p) /\ UNCHANGED <<line, slots, command, typed>>
-----------------------------------------------------------------------------
(* The programs. *)

\* A write is refused when nobody can read.
program_writes(p) ==
  /\ proc[p].st = "program" /\ proc[p].n > 0
  /\ LET x == proc[p].fd[1]
     IN IF x.pipe # 0 /\ ~Open(x.pipe, "r") THEN exit(p)
        ELSE /\ proc' = [proc EXCEPT ![p].n = @ - 1]
             /\ IF x.pipe = 0 THEN UNCHANGED pipes
                ELSE /\ pipes[x.pipe].bytes < PIPESIZE
                     /\ pipes' = [pipes EXCEPT ![x.pipe].bytes = @ + 1]
  /\ UNCHANGED <<line, slots, command, typed>>

\* Files and the console are at their end, a pipe when nobody can write.
program_reads(p) ==
  /\ proc[p].st = "program" /\ proc[p].n = 0
  /\ LET x == proc[p].fd[0]
     IN IF x.pipe # 0 /\ pipes[x.pipe].bytes > 0
        THEN pipes' = [pipes EXCEPT ![x.pipe].bytes = @ - 1] /\ UNCHANGED proc
        ELSE (x.pipe # 0 => ~Open(x.pipe, "w")) /\ exit(p)
  /\ UNCHANGED <<line, slots, command, typed>>
-----------------------------------------------------------------------------
Run(p) ==
  \/ parse(p) \/ run_list(p) \/ list_wait(p) \/ run_back(p) \/ back_exit(p)
  \/ \E ok \in BOOLEAN : run_exec(p, ok) \/ run_redir(p, ok)
  \/ run_pipe(p) \/ pipe_left(p) \/ pipe_right(p) \/ pipe_close(p) \/ pipe_wait(p)
  \/ program_writes(p) \/ program_reads(p)

Work == (\E p \in 2 .. NPROC : Run(p) \/ init_wait(p)) \/ main_wait

Next == Work \/ (\E cd \in BOOLEAN : main(cd)) \/ main_eof \/ panic
  \/ \E forks \in BOOLEAN : init_sh(forks)

Spec == Init /\ [][Next]_vars

\* As long as some process can go on, one does, and init starts the shell again.
FairSpec == Spec /\ WF_vars(Work) /\ WF_vars(\E forks \in BOOLEAN : init_sh(forks))
-----------------------------------------------------------------------------
(* Properties.  First, another definition of what a line means: it is cut   *)
(* at its operators, the weakest first.                                    *)

\* How many parentheses are open after the first i tokens.
Depth(ts, i) == Cardinality({j \in 1 .. i : ts[j] = "("}) - Cardinality({j \in 1 .. i : ts[j] = ")"})

\* The first t outside parentheses (a ")": that closes the first one), or 0.
First(ts, t) ==
  LET S == {i \in 1 .. Len(ts) : ts[i] = t /\ Depth(ts, i) = 0}
  IN IF S = {} THEN 0 ELSE Min(S)

Before(ts, i) == SubSeq(ts, 1, i - 1)
Beyond(ts, i) == SubSeq(ts, i + 1, Len(ts))
Pick(ts, S)   == LET q == SetToSortSeq(S, <) IN [k \in 1 .. Len(q) |-> ts[q[k]]]
Join(F(_, _), a, b) == IF NONE \in {a, b} THEN NONE ELSE F(a, b)

\* Words and redirections, around the command c if that is not NONE.
Words(ts, c) ==
  LET ops  == {i \in 1 .. Len(ts) : ts[i] \in {"<", ">", ">>"}}
      args == {i \in 1 .. Len(ts) : i \notin ops /\ i - 1 \notin ops}
      rs   == [k \in 1 .. Cardinality(ops) |-> <<Pick(ts, ops)[k], Pick(ts, {i + 1 : i \in ops})[k]>>]
  IN IF \/ \E i \in 1 .. Len(ts) : i \notin ops /\ ts[i] \notin Word
        \/ \E i \in ops : i = Len(ts) \/ i + 1 \in ops
        \/ Cardinality(args) >= IF c = NONE THEN MAXARGS ELSE 1
     THEN NONE
     ELSE FoldLeft(redircmd, IF c = NONE THEN execcmd(Pick(ts, args)) ELSE c, rs)

RECURSIVE Meaning(_, _)
Meaning(ts, level) ==
  LET i == First(ts, CASE level = "line" -> ";" [] level = "pipe" -> "|" [] OTHER -> ")")
  IN CASE level = "line" ->
            IF i = 0 THEN Meaning(ts, "back")
            ELSE Join(listcmd, Meaning(Before(ts, i), "back"), Meaning(Beyond(ts, i), "line"))
       [] level = "back" ->
            IF ts = <<>> \/ Last(ts) # "&" THEN Meaning(ts, "pipe")
            ELSE LET c == Meaning(Front(ts), "back") IN IF c = NONE THEN NONE ELSE backcmd(c)
       [] level = "pipe" ->
            IF i = 0 THEN Meaning(ts, "exec")
            ELSE Join(pipecmd, Meaning(Before(ts, i), "exec"), Meaning(Beyond(ts, i), "pipe"))
       [] level = "exec" ->
            IF ts = <<>> \/ ts[1] # "(" THEN Words(ts, NONE)
            ELSE LET c == IF i = 0 THEN NONE ELSE Meaning(SubSeq(ts, 2, i - 1), "line")
                 IN IF c = NONE THEN NONE ELSE Words(Beyond(ts, i), c)

\* The recursive descent of parsecmd gives every line the command that cutting
\* it at its operators gives, and refuses exactly the lines without one.
ParseExact ==
  \A p \in Slot : proc[p].st = "parsecmd" => command = Meaning(line, "line")

\* The command at a path of c, and what its input and output should be: the
\* file of the innermost redirection, or the innermost pipe.
RECURSIVE Wire(_, _, _, _)
Wire(c, path, here, io) ==
  IF path = <<>> THEN io
  ELSE LET d == Head(path)
           k == IF d = "l" THEN 1 ELSE 0
       IN Wire(CASE d = "l" -> c.left [] d = "r" -> c.right [] d = "c" -> c.cmd,
               Tail(path), Append(here, d),
               CASE c.type = "PIPE"  -> [io EXCEPT ![k] = <<"pipe", here>>]
                 [] c.type = "REDIR" -> [io EXCEPT ![IF c.op = "<" THEN 0 ELSE 1] = <<c.op, c.file>>]
                 [] OTHER -> io)

Refers(x, e, end) ==
  CASE e[1] = "console" -> x = Console
    [] e[1] = "pipe"    -> x.kind = end /\ pipes[x.pipe].by = e[2]
    [] OTHER            -> x = Object(e[1], e[2], 0)

\* A program runs with the input and output that the line gives it, and with no
\* other descriptor than those and 2: no end of a pipe is leaked to it.
Wiring ==
  \A p \in Slot : proc[p].st = "program" =>
    LET f  == proc[p].fd
        io == Wire(command, proc[p].path, <<>>, [d \in {0, 1} |-> <<"console", "">>])
    IN /\ Refers(f[0], io[0], "r") /\ Refers(f[1], io[1], "w") /\ f[2] = Console
       /\ \A d \in Fd : d > 2 => f[d] = Nothing

Idle == proc[1].st = "getcmd" /\ \A p \in 2 .. NPROC : proc[p].st = "unused"

\* Every command ends, whatever fails on the way: its processes exit and are
\* waited for, and the shell, started again by init if it has exited, asks for
\* the next line; unless init cannot fork it, and exits.
Finishes == ~Idle ~> Idle \/ proc[1].st = "panic"
=============================================================================
