-------------------------- MODULE MCZapretControl ---------------------------
(* Instances of ZapretControl for TLC.                                      *)
EXTENDS ZapretControl

OneTrial == <<"tr-default">>
TwoTrials == <<"tr-default", "tr-split-midsld">>

\* At home everything is blocked, at work GitHub alone.
Blocked == [n \in Net |-> IF n = "home" THEN 0 ELSE 1]

\* tr-default does nothing for the blocked sites at home, the other strategy does.
Bypassed == [n \in Net |-> [s \in Strategy |-> IF n = "home" /\ s = Default THEN 0 ELSE 2]]
=============================================================================
