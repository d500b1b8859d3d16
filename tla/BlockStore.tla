----------------------------- MODULE BlockStore -----------------------------
(***************************************************************************)
(* What kernel/bio.c promises: one process at a time uses a block, and it  *)
(* finds there what its last user left.                                    *)
(***************************************************************************)
CONSTANTS Proc, Block, Val, NULL

VARIABLES
  content,    \* what a user of each block finds
  user        \* the process that uses it, or NULL

Init ==
  /\ content \in [Block -> Val]
  /\ user = [k \in Block |-> NULL]

Take(p, k) ==
  /\ user[k] = NULL
  /\ user' = [user EXCEPT ![k] = p]
  /\ UNCHANGED content

Change(p, k, x) ==
  /\ user[k] = p
  /\ content' = [content EXCEPT ![k] = x]
  /\ UNCHANGED user

Give(p, k) ==
  /\ user[k] = p
  /\ user' = [user EXCEPT ![k] = NULL]
  /\ UNCHANGED content

Next ==
  \E p \in Proc, k \in Block : Take(p, k) \/ Give(p, k) \/ \E x \in Val : Change(p, k, x)

Spec == Init /\ [][Next]_<<content, user>>
=============================================================================
