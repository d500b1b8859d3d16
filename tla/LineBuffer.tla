----------------------------- MODULE LineBuffer -----------------------------
(***************************************************************************)
(* What the input half of kernel/console.c promises: characters typed can  *)
(* be erased until a newline, an end-of-file or a full buffer commits      *)
(* them; committed characters, the end-of-file among them, are taken from  *)
(* the buffer once and in the order typed.                                 *)
(***************************************************************************)
EXTENDS Naturals, Sequences

CONSTANTS Size, Char

VARIABLES
  line,     \* what is being typed
  ready     \* what can be read

vars == <<line, ready>>

Init == line = <<>> /\ ready = <<>>

Type(x) ==
  /\ Len(line) + Len(ready) < Size
  /\ LET l == Append(line, x)
     IN IF x \in {"nl", "eof"} \/ Len(l) + Len(ready) = Size
        THEN ready' = ready \o l /\ line' = <<>>
        ELSE line' = l /\ UNCHANGED ready

Erase ==
  /\ line # <<>>
  /\ line' = SubSeq(line, 1, Len(line) - 1)
  /\ UNCHANGED ready

Read ==
  /\ ready # <<>>
  /\ ready' = Tail(ready)
  /\ UNCHANGED line

Next == (\E x \in Char : Type(x)) \/ Erase \/ Read

Spec == Init /\ [][Next]_vars
=============================================================================
