-------------------------------- MODULE Epoll --------------------------------
(***************************************************************************)
(* What the event loop of tpws relies on when it calls epoll_wait: the     *)
(* level-triggered interface of sys/epoll.h, whoever provides it.          *)
(* A call returns when an event is due; it reports nothing that is not     *)
(* due; and of a descriptor it reports all that was due when it looked,    *)
(* except that a hangup may come one report late, once (MayBeLate).        *)
(***************************************************************************)
EXTENDS Naturals, FiniteSets

CONSTANTS
  Fd,          \* descriptors
  MaxEvents    \* the size of the array that epoll_wait fills

Event == {"in", "out", "rdhup", "hup"}
Nothing == [f \in Fd |-> {}]

VARIABLES
  watched,   \* the descriptors that are registered
  due,       \* what could be reported of each descriptor now
  owed,      \* what was due when the call under way has looked
  late,      \* the descriptors whose hangup has been late
  waiting,   \* a call of epoll_wait is under way
  report     \* what the last call has returned

vars == <<watched, due, owed, late, waiting, report>>

Init ==
  /\ watched = {}
  /\ due = Nothing
  /\ owed = Nothing
  /\ late = {}
  /\ waiting = FALSE
  /\ report = Nothing

\* Sockets change whenever they like; only the caller, between two calls, makes an event
\* go away or registers and removes descriptors.
World ==
  /\ due' \in [Fd -> SUBSET Event]
  /\ watched' \in SUBSET Fd
  /\ \A f \in Fd \ watched' : due'[f] = {}
  /\ late' = late \cap watched'
  /\ waiting => watched' = watched /\ \A f \in Fd : due[f] \subseteq due'[f]
  /\ UNCHANGED <<owed, waiting, report>>

Call ==
  /\ ~waiting
  /\ waiting' = TRUE
  /\ owed' = Nothing
  /\ report' = Nothing
  /\ UNCHANGED <<watched, due, late>>

Look ==
  /\ waiting
  /\ owed' = due
  /\ UNCHANGED <<watched, due, late, waiting, report>>

\* The hangup of a descriptor may be late once, when something else of it is reported.
MayBeLate(f, r) == IF f \notin late /\ r[f] # {} THEN {"hup"} ELSE {}

\* With more descriptors than the array has room for, some may have to wait.
Crowded == Cardinality(watched) > MaxEvents

Whole(r) ==
  \A f \in Fd : r[f] # {} \/ ~Crowded => owed[f] \subseteq r[f] \cup MayBeLate(f, r)

Return ==
  /\ waiting
  /\ waiting' = FALSE
  /\ report' \in [Fd -> SUBSET Event]
  /\ report' # Nothing
  /\ \A f \in Fd : report'[f] \subseteq due[f]
  /\ Whole(report')
  /\ late' = late \cup {f \in Fd : report'[f] # {} /\ "hup" \in owed[f] \ report'[f]}
  /\ UNCHANGED <<watched, due, owed>>

Next == World \/ Call \/ Look \/ Return

SafeSpec == Init /\ [][Next]_vars

Spec == SafeSpec /\ WF_vars(Return)
=============================================================================
