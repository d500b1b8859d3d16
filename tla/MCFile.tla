------------------------------- MODULE MCFile -------------------------------
(* An instance of File for TLC. *)
EXTENDS File

CONSTANTS p1, p2, i1, i2, f1, f2, f3

\* f1 is shared by both processes; p2 writes the file that p1 reads.
Opens == [f \in {f1, f2, f3} |-> IF f = f1 THEN i1 ELSE i2]

Shared == [p \in {p1, p2} |-> {<<"write", f1, IF p = p1 THEN 4 ELSE 1>>}]
Apart  == [p \in {p1, p2} |->
  IF p = p1 THEN {<<"write", f1, 2>>}
            ELSE {<<"write", f2, 5>>, <<"read", f3, 5>>, <<"trunc", f2, 0>>}]
\* Two open files of one inode, each with its offset.
Over   == [p \in {p1, p2} |->
  IF p = p1 THEN {<<"write", f2, 5>>} ELSE {<<"write", f3, 1>>, <<"read", f3, 2>>}]
AllLoads == {Shared, Apart, Over}
=============================================================================
