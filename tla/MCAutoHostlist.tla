--------------------------- MODULE MCAutoHostlist ---------------------------
(* Instances of AutoHostlist for TLC.                                       *)
EXTENDS AutoHostlist, TLC

\* A host that is not listed, and one in a domain that the user excludes.
Names == {<<"ok">>, <<"www", "ex">>}
Excluded == {<<"ex">>}
Nothing == {}
\* Two processes with one profile, and one process with two.
Lines ==
  {[p \in Proc |-> Http]} \cup
  {[p \in Proc |-> IF p = one THEN Profile ELSE {}] : one \in Proc}
\* Processes are interchangeable.
Interchangeable == Permutations(Proc)
=============================================================================
