----------------------------- MODULE Resolution -----------------------------
(***************************************************************************)
(* What a SOCKS connection of tpws is promised when it hands a host name   *)
(* to the resolver: one answer for each question, never to a connection    *)
(* that did not ask, and none left over when the connection's memory is    *)
(* used again.  TpwsConn shows that the event loop keeps its side of the   *)
(* contract, Resolver that the threads keep theirs.                        *)
(***************************************************************************)
CONSTANT Conn

VARIABLES
  alive,    \* connections that may ask and be answered
  lookup,   \* where the question of each connection is
  up        \* no call the resolver relies on has failed, and it is not being stopped

vars == <<alive, lookup, up>>

Status == {"none", "asked", "answered"}

Init ==
  /\ alive = {}
  /\ lookup = [c \in Conn |-> "none"]
  /\ up = TRUE

Open(c) ==
  /\ c \notin alive /\ lookup[c] = "none"
  /\ alive' = alive \cup {c}
  /\ UNCHANGED <<lookup, up>>

Ask(c) ==
  /\ c \in alive /\ lookup[c] = "none"
  /\ lookup' = [lookup EXCEPT ![c] = "asked"]
  /\ UNCHANGED <<alive, up>>

Answer(c) ==
  /\ up
  /\ lookup[c] = "asked"
  /\ lookup' = [lookup EXCEPT ![c] = "answered"]
  /\ UNCHANGED <<alive, up>>

\* The answer may be that there is no such host: then the connection ends with it.
Deliver(c) ==
  /\ c \in alive /\ lookup[c] = "answered"
  /\ lookup' = [lookup EXCEPT ![c] = "none"]
  /\ alive' \in {alive, alive \ {c}}
  /\ UNCHANGED up

Close(c) ==
  /\ c \in alive
  /\ alive' = alive \ {c}
  /\ UNCHANGED <<lookup, up>>

\* The questions of connections that are gone are forgotten.
Forget(cs) ==
  /\ cs \cap alive = {}
  /\ lookup' = [c \in Conn |-> IF c \in cs THEN "none" ELSE lookup[c]]
  /\ UNCHANGED <<alive, up>>

\* Nothing is promised once the resolver is stopped or one of its calls has failed.
Fail == up' = FALSE

Next ==
  \/ /\ up
     /\ \/ \E c \in Conn : Open(c) \/ Ask(c) \/ Answer(c) \/ Deliver(c) \/ Close(c)
        \/ \E cs \in SUBSET Conn : Forget(cs)
  \/ Fail

SafeSpec == Init /\ [][Next]_vars

\* A resolver that is up answers every question.
Spec == SafeSpec /\ \A c \in Conn : WF_vars(Answer(c))
=============================================================================
