-------------------------------- MODULE MCFs --------------------------------
(* Instances of Fs for TLC. *)
EXTENDS Fs

CONSTANTS p1, p2

Op(op)           == [op |-> op, path |-> <<>>, new |-> <<>>, type |-> "none"]
On(op, path)     == [Op(op) EXCEPT !.path = path]
Make(op, path, t) == [On(op, path) EXCEPT !.type = t]
Link(path, new)  == [On("link", path) EXCEPT !.new = new]

A  == <<"/", "a">>
D  == <<"/", "d">>
DA == <<"/", "d", "a">>

\* A directory that stays, with files in it and in the root.
Files == [p \in {p1, p2} |-> {On("unlink", A), On("unlink", DA)} \cup
  IF p = p1 THEN {Make("create", A, "file"), Op("close")} ELSE {Link(A, DA)}]

\* A directory that comes and goes, empty, under processes that use it.
Dirs == [p \in {p1, p2} |-> {On("unlink", D)} \cup
  IF p = p1 THEN {On("chdir", D), On("chdir", <<"/">>)}
            ELSE {Make("mkdir", D, "dir"), On("open", D), Op("close")}]

\* Descriptors shared by parent and child, device files, calls that fail.
Fork == [p \in {p1, p2} |->
  IF p = p1 THEN {Make("mknod", A, "baddev"), On("openw", D), Op("dup"), Op("pipe"), Op("close"), Op("fork")}
  ELSE {Make("create", A, "file"), On("unlink", A), On("unlink", D), On("chdir", DA), Op("exit")}]

Worlds3 == LET d == <<2, "dir", 1, "d">>
           IN {[tree |-> {d}, load |-> Files], [tree |-> {d}, load |-> Dirs],
               [tree |-> {d, <<3, "file", 2, "a">>}, load |-> Fork]}
Numbers == 1 .. 4
=============================================================================
