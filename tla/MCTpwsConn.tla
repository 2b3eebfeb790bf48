----------------------------- MODULE MCTpwsConn -----------------------------
(* Instances of TpwsConn for TLC.                                           *)
EXTENDS TpwsConn, TLC

CONSTANTS
  Quiet,   \* bound: slots whose connections say nothing
  Brief    \* bound: bytes a target sends

QuietBound == \A c \in Quiet, s \in Side : pair[c][s].got = 0
BriefBound == \A c \in Conn : pair[c]["remote"].got <= Brief
=============================================================================
