---------------------------- MODULE MCSelfUpdate ----------------------------
(* Two releases, the later of which has a second part. *)
EXTENDS SelfUpdate

MCVersion == {<<1>>, <<1, 1>>}

Sample == UNION {[1 .. n -> 0 .. 2] : n \in 0 .. 3}
Weight(v) == 9 * Part(v, 1) + 3 * Part(v, 2) + Part(v, 3)

ASSUME VerLtAgrees ==
  \A a, b \in Sample : VerLt(a, b) <=> Weight(a) < Weight(b)

=============================================================================
