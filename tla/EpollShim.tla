------------------------------ MODULE EpollShim ------------------------------
(***************************************************************************)
(* The epoll that tpws has on macOS: upstream/tpws/epoll-shim, a library   *)
(* on top of kqueue, linked into tpws by "make mac".  A registered socket  *)
(* is a node; a node asks the kernel for a READ and a WRITE filter (two    *)
(* knotes), level-triggered or with EV_CLEAR, that depend on what the      *)
(* caller asked for and on which ends of the stream have been seen.  What  *)
(* the kernel tells (kevents) is turned into epoll events one kevent after *)
(* the other, and the knotes of the node are registered anew whenever it   *)
(* needs other filters than before.                                        *)
(*                                                                         *)
(* tpws registers sockets (and the read end of a pipe, which is never at   *)
(* its end: one level-triggered filter, left out) with EPOLLIN, EPOLLOUT   *)
(* and EPOLLRDHUP, never edge-triggered, so nodes of the other types,      *)
(* EPOLLET, EPOLLONESHOT, EPOLLPRI and the polling of files are left out.  *)
(* EPOLLHUP and EPOLLERR are one event: tpws treats them alike.            *)
(***************************************************************************)
EXTENDS Naturals, FiniteSets

CONSTANTS
  Fd,          \* descriptors
  Listener,    \* those of listening sockets: all that happens to them is a new connection
  MaxEvents,   \* MAX_EPOLL_EVENTS, the cnt of epoll_wait
  Masks        \* the sets of events tpws asks for

ASSUME ShimAssumption == IsFiniteSet(Fd) /\ Listener \subseteq Fd /\ MaxEvents \in Nat \ {0}

Event == {"in", "out", "rdhup", "hup"}

ASSUME MaskAssumption == Masks \subseteq SUBSET (Event \ {"hup"})

Filter == {"read", "write"}
Trigger == {"none", "level", "clear"}

\* The socket, in the kernel.
Socket == [ data : BOOLEAN,    \* bytes or connections that can be read
            room : BOOLEAN,    \* it is connected and its buffer has room
            fin  : BOOLEAN,    \* the peer has ended its stream
            shut : BOOLEAN,    \* tpws has ended its own
            rst  : BOOLEAN ]   \* reset, refused or timed out

\* A registered_fds_node_; has_evfilt_read and has_evfilt_write are that it has a knote.
Node == [ registered : BOOLEAN,
          events     : SUBSET Event,    \* what the caller asked for
          eof        : SUBSET Filter,   \* eof_state
          got        : SUBSET Filter,   \* got_evfilt_read, got_evfilt_write
          revents    : SUBSET Event ]

Knote == Fd \X Filter
Kevent == [fd : Fd, filter : Filter, eof : BOOLEAN, error : BOOLEAN]

VARIABLES
  sock,     \* kernel: the sockets
  knote,    \* kernel: how each filter of each descriptor is asked for
  active,   \* kernel: the queue of the knotes with something to tell
  front,    \* kernel: those of them that come before the others
  node,     \* the nodes of the shim
  phase,    \* "loop" outside epoll_wait, "poll" when it looks or sleeps, "feed" after kevent
  kevs,     \* the kevents not handled yet
  full,     \* kevent has filled all the room it was given
  report,   \* what epoll_wait has returned last
  owed,     \* history: what was due when kevent was called last
  late      \* history: the descriptors reported once without the hangup that was due

vars == <<sock, knote, active, front, node, phase, kevs, full, report, owed, late>>

NoNode == [registered |-> FALSE, events |-> {}, eof |-> {}, got |-> {}, revents |-> {}]
NoKnote == [flt \in Filter |-> "none"]
FreshSocket == [data |-> FALSE, room |-> FALSE, fin |-> FALSE, shut |-> FALSE, rst |-> FALSE]
Silent == [f \in Fd |-> {}]

Registered == {f \in Fd : node[f].registered}

TypeOK ==
  /\ sock \in [Fd -> Socket]
  /\ knote \in [Fd -> [Filter -> Trigger]]
  /\ active \in SUBSET Knote /\ front \in SUBSET Knote
  /\ node \in [Fd -> Node]
  /\ phase \in {"loop", "poll", "feed"}
  /\ kevs \in SUBSET Kevent
  /\ full \in BOOLEAN
  /\ report \in [Fd -> SUBSET Event]
  /\ owed \in [Fd -> SUBSET Event]
  /\ late \in SUBSET Fd

Init ==
  /\ sock = [f \in Fd |-> FreshSocket]
  /\ knote = [f \in Fd |-> NoKnote]
  /\ active = {} /\ front = {}
  /\ node = [f \in Fd |-> NoNode]
  /\ phase = "loop"
  /\ kevs = {}
  /\ full = FALSE
  /\ report = Silent
  /\ owed = Silent
  /\ late = {}

-----------------------------------------------------------------------------
(* The kernel: kqueue.                                                     *)

\* whether a filter has something to tell, and whether it tells of an end (EV_EOF)
Ends(s, flt) == s.rst \/ (IF flt = "read" THEN s.fin ELSE s.shut)
Tells(s, flt) == Ends(s, flt) \/ (IF flt = "read" THEN s.data ELSE s.room)

KeventOf(f, flt) ==
  [fd |-> f, filter |-> flt, eof |-> Ends(sock[f], flt), error |-> sock[f].rst]

\* the knotes, among those of the filters flts of f, that are asked for and tell something
Woken(f, kn, s, flts) == {<<f, flt>> : flt \in {g \in flts : kn[g] # "none" /\ Tells(s, g)}}

KnotesOf(f) == {f} \X Filter

\* Something happens to the socket f, and the filters flts are woken.
Happens(f, s, flts) ==
  /\ f \in Registered
  /\ sock' = [sock EXCEPT ![f] = s]
  /\ active' = active \cup Woken(f, knote[f], s, flts)
  /\ UNCHANGED <<knote, front, node, phase, kevs, full, report, owed, late>>

Arrives(f) ==
  /\ ~sock[f].fin /\ ~sock[f].rst
  /\ Happens(f, [sock[f] EXCEPT !.data = TRUE], {"read"})

PeerFinishes(f) ==
  /\ f \notin Listener
  /\ ~sock[f].fin /\ ~sock[f].rst
  /\ Happens(f, [sock[f] EXCEPT !.fin = TRUE], {"read"})

Resets(f) ==
  /\ f \notin Listener
  /\ ~sock[f].rst
  /\ Happens(f, [sock[f] EXCEPT !.rst = TRUE], Filter)

GetsRoom(f) ==
  /\ f \notin Listener
  /\ ~sock[f].room /\ ~sock[f].rst
  /\ Happens(f, [sock[f] EXCEPT !.room = TRUE], {"write"})

-----------------------------------------------------------------------------
(* Which filters a node needs.                                             *)

BothEnds == Filter

\* the filters that the events ask for
AskedFilters(nd) ==
  [flt \in Filter |->
     IF flt = "write" THEN IF "out" \in nd.events THEN "level" ELSE "none"
     ELSE IF "in" \in nd.events THEN "level"
     ELSE IF "rdhup" \notin nd.events THEN "none"
     ELSE IF "read" \in nd.eof THEN "level" ELSE "clear"]

\* (mutant) nothing watches for the end that is still missing.
NeededFilters_NoMissingEnd(nd) ==
  LET asked == AskedFilters(nd)
  IN [flt \in Filter |->
        IF nd.eof = BothEnds /\ flt = "read" THEN "level"
        ELSE IF nd.eof = {} /\ flt = "read" /\ asked["read"] = "none" /\ asked["write"] = "none"
          THEN "clear" ELSE asked[flt]]

\* A hangup is always reported, so a filter must tell of it: when both ends were seen one
\* level-triggered filter goes on telling it; before that, the missing end is watched for.
NeededFilters(nd) ==
  LET asked == AskedFilters(nd)
      read == IF "level" \in {asked["read"], asked["write"]} THEN asked["read"] ELSE "level"
  IN IF nd.eof = BothEnds
     THEN [flt \in Filter |->
             IF flt = "read" THEN read ELSE IF read = "none" THEN asked["write"] ELSE "none"]
     ELSE [flt \in Filter |->
             IF asked[flt] # "none" THEN asked[flt]
             ELSE IF nd.eof # {} /\ flt \notin nd.eof THEN "clear"
             ELSE IF nd.eof = {} /\ flt = "read" /\ asked["write"] = "none" THEN "clear"
             ELSE "none"]

\* epollfd_ctx__register_events: the knotes of node nd are deleted and added again, behind all
\* others, and tell at once what they can tell.
RegisterEvents(f, nd, s) ==
  /\ knote' = [knote EXCEPT ![f] = NeededFilters(nd)]
  /\ active' = (active \ KnotesOf(f)) \cup Woken(f, NeededFilters(nd), s, Filter)
  /\ front' = front \ KnotesOf(f)

-----------------------------------------------------------------------------
(* What tpws does between two calls of epoll_wait.                         *)

\* It has dealt with a report when it no longer asks for an end it was told of, and has
\* closed a socket that hangs up.
Dealt(f) ==
  /\ "hup" \in report[f] => f \notin Registered
  /\ "rdhup" \in report[f] => "rdhup" \notin node[f].events

\* A socket of a connection starts with RDHUP, or with OUT alone while it connects.
FirstMasks(f) ==
  IF f \in Listener THEN {{"in"}} ELSE {m \in Masks : "rdhup" \in m \/ m = {"out"}}

\* RDHUP is dropped from the mask only once it was reported.
NextMasks(f) ==
  IF f \in Listener THEN {} ELSE {m \in Masks : "rdhup" \in m \/ "read" \in node[f].eof}

\* A socket that is new: something may have happened to it before it is registered.
NewSocket(f) ==
  IF f \in Listener THEN {FreshSocket, [FreshSocket EXCEPT !.data = TRUE]}
  ELSE {s \in Socket : ~s.shut}

Add(f) ==
  /\ phase = "loop" /\ f \notin Registered /\ report[f] = {}
  /\ \E mask \in FirstMasks(f), s \in NewSocket(f) :
       LET nd == [NoNode EXCEPT !.registered = TRUE, !.events = mask]
       IN /\ sock' = [sock EXCEPT ![f] = s]
          /\ node' = [node EXCEPT ![f] = nd]
          /\ RegisterEvents(f, nd, s)
  /\ UNCHANGED <<phase, kevs, full, report, owed, late>>

Modify(f) ==
  /\ phase = "loop" /\ f \in Registered
  /\ \E mask \in NextMasks(f) \ {node[f].events} :
       LET nd == [node[f] EXCEPT !.events = mask]
       IN /\ node' = [node EXCEPT ![f] = nd]
          /\ RegisterEvents(f, nd, sock[f])
  /\ UNCHANGED <<sock, phase, kevs, full, report, owed, late>>

\* The socket is closed after that.
Delete(f) ==
  /\ phase = "loop" /\ f \in Registered \ Listener
  /\ node' = [node EXCEPT ![f] = NoNode]
  /\ knote' = [knote EXCEPT ![f] = NoKnote]
  /\ active' = active \ KnotesOf(f)
  /\ front' = front \ KnotesOf(f)
  /\ sock' = [sock EXCEPT ![f] = FreshSocket]
  /\ late' = late \ {f}
  /\ UNCHANGED <<phase, kevs, full, report, owed>>

Reads(f) == phase = "loop" /\ sock[f].data /\ Happens(f, [sock[f] EXCEPT !.data = FALSE], {})
Writes(f) == phase = "loop" /\ sock[f].room /\ Happens(f, [sock[f] EXCEPT !.room = FALSE], {})
Shuts(f) ==
  /\ phase = "loop" /\ f \notin Listener /\ ~sock[f].shut
  /\ Happens(f, [sock[f] EXCEPT !.shut = TRUE], {"write"})

-----------------------------------------------------------------------------
(* epoll_wait.                                                             *)

\* what a level-triggered epoll would report of f
Due(f) ==
  IF f \notin Registered THEN {}
  ELSE LET s == sock[f]
       IN {e \in Event :
             \/ e = "hup" /\ (s.rst \/ (s.fin /\ s.shut))
             \/ e \in node[f].events /\ e = "in" /\ Tells(s, "read")
             \/ e \in node[f].events /\ e = "rdhup" /\ Ends(s, "read")
             \/ e \in node[f].events /\ e = "out" /\ Tells(s, "write")}

EpollWait ==
  /\ phase = "loop"
  /\ \A f \in Fd : Dealt(f)
  /\ phase' = "poll"
  /\ report' = Silent
  /\ owed' = Silent
  /\ UNCHANGED <<sock, knote, active, front, node, kevs, full, late>>

\* the room for kevents: enough for all of them if the caller has room for all descriptors
Count == IF MaxEvents >= Cardinality(Registered) THEN 3 * (MaxEvents + 1) ELSE MaxEvents

Talking == {k \in active : Tells(sock[k[1]], k[2])}
IsLevel(k) == knote[k[1]][k[2]] = "level"

\* kevent: of the active knotes, those in front before the others, as many as there is room for
\* of those that still have something to tell.  A level-triggered knote stays active, behind
\* the others.  With no active knote the call sleeps in ppoll, and wakes when there is one.
Retrieve ==
  /\ phase = "poll" /\ active # {}
  /\ \E taken \in SUBSET Talking :
       /\ Cardinality(taken) = IF Cardinality(Talking) < Count THEN Cardinality(Talking) ELSE Count
       /\ taken \subseteq front \/ Talking \cap front \subseteq taken
       /\ kevs' = {KeventOf(k[1], k[2]) : k \in taken}
       /\ full' = (Cardinality(taken) = Count)
       /\ active' = (Talking \ taken) \cup {k \in taken : IsLevel(k)}
       /\ front' = LET left == Talking \ taken
                   IN IF left \cap front = {} THEN left ELSE left \cap front
       /\ phase' = IF taken = {} THEN "poll" ELSE "feed"
  /\ owed' = [f \in Fd |-> Due(f)]
  /\ UNCHANGED <<sock, knote, node, report, late>>

EofAfter(nd, kev) == IF kev.eof THEN nd.eof \cup {kev.filter} ELSE nd.eof \ {kev.filter}

\* (mutant) a connection of which both ends were seen does not hang up
Told_NoHangup(kev, eof) ==
  {IF kev.filter = "read" THEN "in" ELSE "out"}
    \cup (IF "read" \in eof THEN {"in", "rdhup"} ELSE {})
    \cup (IF "write" \in eof THEN {"out"} ELSE {})

Told(kev, eof) ==
  {IF kev.filter = "read" THEN "in" ELSE "out"}
    \cup (IF kev.eof /\ kev.error THEN {"hup"} ELSE {})
    \cup (IF "read" \in eof THEN {"in", "rdhup"} ELSE {})
    \cup (IF "write" \in eof THEN {"out"} ELSE {})
    \cup (IF eof = BothEnds THEN {"hup"} ELSE {})

\* registered_fds_node_feed_event
FeedEvent(nd, kev) ==
  LET revents == (nd.revents \cup Told(kev, EofAfter(nd, kev))) \cap (nd.events \cup {"hup"})
  IN [nd EXCEPT !.eof = EofAfter(nd, kev), !.revents = revents,
                !.got = IF revents = {} THEN @ ELSE @ \cup {kev.filter}]

\* One kevent; the node is registered anew if it needs other filters after it.
Feed ==
  /\ phase = "feed"
  /\ \E kev \in kevs :
       LET f == kev.fd
           nd == FeedEvent(node[f], kev)
       IN /\ node' = [node EXCEPT ![f] = nd]
          /\ IF NeededFilters(nd) # NeededFilters(node[f]) THEN RegisterEvents(f, nd, sock[f])
             ELSE UNCHANGED <<knote, active, front>>
          /\ kevs' = kevs \ {kev}
  /\ UNCHANGED <<sock, phase, full, report, owed, late>>

\* When kevent had no room for more, the filters of a descriptor that is about to be
\* reported and that have not been heard are asked on a kqueue of their own.
Unheard(f) ==
  {flt \in Filter : knote[f][flt] # "none" /\ flt \notin node[f].got /\ Tells(sock[f], flt)}

Hear(nd, f, flt) == IF flt \in Unheard(f) THEN FeedEvent(nd, KeventOf(f, flt)) ELSE nd

\* (mutant) what kevent had room for is all there is.
Complete_Never(f) == node[f]

Complete(f) ==
  IF full /\ node[f].revents # {} THEN Hear(Hear(node[f], f, "read"), f, "write") ELSE node[f]

\* All kevents are handled: the events are handed over, or epoll_wait looks again.
Return ==
  /\ phase = "feed" /\ kevs = {}
  /\ LET done == [f \in Fd |-> Complete(f)]
     IN /\ node' = [f \in Fd |-> [done[f] EXCEPT !.revents = {}, !.got = {}]]
        /\ IF \E f \in Fd : node[f].revents # {}
           THEN /\ phase' = "loop"
                /\ report' = [f \in Fd |-> done[f].revents]
                /\ late' = late \cup {f \in Fd : report'[f] # {} /\ "hup" \in owed[f] \ report'[f]}
           ELSE /\ phase' = "poll"
                /\ UNCHANGED <<report, late>>
  /\ UNCHANGED <<sock, knote, active, front, kevs, full, owed>>

-----------------------------------------------------------------------------
Kernel == \E f \in Fd : Arrives(f) \/ PeerFinishes(f) \/ Resets(f) \/ GetsRoom(f)

Loop == \E f \in Fd : Add(f) \/ Modify(f) \/ Delete(f) \/ Reads(f) \/ Writes(f) \/ Shuts(f)

Shim == EpollWait \/ Retrieve \/ Feed \/ Return

Next == Kernel \/ Loop \/ Shim

Spec == Init /\ [][Next]_vars

\* epoll_wait goes on until it returns or has nothing to do, and tpws calls it again and again.
FairSpec ==
  /\ Spec
  /\ WF_vars(Retrieve) /\ WF_vars(Feed) /\ WF_vars(Return)
  /\ []<>(phase = "poll")

-----------------------------------------------------------------------------
(* Properties.                                                             *)

\* No event is missed: when epoll_wait is about to sleep, or sleeps, some active knote will
\* wake it for every descriptor of which something is due.  The filters that a node asks
\* for change with what has been heard (get_needed_filters), and an EV_CLEAR filter tells
\* a thing once.
NeverDeaf ==
  phase = "poll" => \A f \in Fd : Due(f) # {} => active \cap KnotesOf(f) # {}

\* Every event that stays due is reported, also when there are more descriptors than
\* epoll_wait has room for, unless descriptors are registered anew for ever: each time
\* puts a descriptor behind the others.
EveryoneHeard ==
  <>[][\A f \in Fd : ~Modify(f)]_vars =>
    \A f \in Fd, e \in Event : e \in Due(f) ~> (e \in report[f] \/ e \notin Due(f))

\* The shim provides the epoll that the event loop relies on.
Level ==
  INSTANCE Epoll WITH
    watched <- Registered,
    due     <- [f \in Fd |-> Due(f)],
    waiting <- phase # "loop"

\* What epoll_wait reports is what a level-triggered epoll would: nothing that is not due, all
\* that was due when it looked of a descriptor that it reports (a hangup may be late once), of
\* all descriptors if the caller has room for them; and it returns when something is due.
ImplementsEpoll == Level!Spec
=============================================================================
