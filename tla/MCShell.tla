------------------------------ MODULE MCShell -------------------------------
(* Instances of Shell. *)
EXTENDS Shell

\* Every line of at most four tokens, and longer ones.
Token == {"a", "<", "|", ";", "&", "(", ")"}
Short == UNION {[1 .. k -> Token] : k \in 0 .. 4}
Long == {<<"cd", "a">>, <<"a", "b", "a", "b">>,
         <<"a", "|", "a", "|", "a">>, <<"(", "a", "|", "a", ")", ";", "a">>,
         <<"a", "|", "(", "a", ";", "a", ")">>, <<"a", "|", "a", "&", ";", "a">>,
         <<"a", "<", "a", "<", "b", ">>", "a", "|", "a">>, <<"(", "a", ";", "a", ")", ">", "b">>}
AllLines == Short \cup Long
=============================================================================
