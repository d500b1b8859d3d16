---------------------------- MODULE BoundedFifo ----------------------------
(***************************************************************************)
(* What kernel/pipe.c promises: bytes leave in the order in which they     *)
(* entered, at most Size of them are inside, nothing enters once the read  *)
(* end is closed, and an end that is closed stays closed.                  *)
(***************************************************************************)
EXTENDS Naturals, Sequences

CONSTANTS Size, Byte, NULL

VARIABLES
  q,             \* the bytes inside
  delivered,     \* the byte that was taken out last
  reading, writing   \* whether each end is open

vars == <<q, delivered, reading, writing>>

Init ==
  /\ q = <<>>
  /\ delivered = NULL
  /\ reading = TRUE
  /\ writing = TRUE

Put(x) ==
  /\ reading /\ writing
  /\ Len(q) < Size
  /\ q' = Append(q, x)
  /\ UNCHANGED <<delivered, reading, writing>>

Get ==
  /\ reading
  /\ q # <<>>
  /\ delivered' = Head(q)
  /\ q' = Tail(q)
  /\ UNCHANGED <<reading, writing>>

\* The reader's buffer cannot be written: the byte is gone.
Drop ==
  /\ reading
  /\ q # <<>>
  /\ q' = Tail(q)
  /\ UNCHANGED <<delivered, reading, writing>>

CloseRead  == reading /\ reading' = FALSE /\ UNCHANGED <<q, delivered, writing>>
CloseWrite == writing /\ writing' = FALSE /\ UNCHANGED <<q, delivered, reading>>

Next == (\E x \in Byte : Put(x)) \/ Get \/ Drop \/ CloseRead \/ CloseWrite

Spec == Init /\ [][Next]_vars
=============================================================================
