--------------------------- MODULE EpollShimProofs ---------------------------
(***************************************************************************)
(* For every set of descriptors, every size of the array and every set of  *)
(* masks: NeverDeaf of EpollShim, from Inv; and that every step of the     *)
(* shim is a step of Epoll or one that Epoll does not see, from ReportInv. *)
(***************************************************************************)
EXTENDS EpollShim, FiniteSetTheorems, TLAPS

-----------------------------------------------------------------------------
(* The inductive invariant.                                                *)

\* The ends of stream that the shim knows have happened.
EofTrue == \A f \in Fd : \A flt \in node[f].eof : Ends(sock[f], flt)

\* The kevents of a batch: one for a filter; an end it tells of has happened, and one
\* that tells of no end is not older than what the shim knows.
KevsTrue ==
  /\ \A kev \in kevs : kev.eof => Ends(sock[kev.fd], kev.filter)
  /\ \A kev \in kevs : kev.filter \in node[kev.fd].eof => kev.eof
  /\ \A kev, other \in kevs : kev.fd = other.fd /\ kev.filter = other.filter => kev = other

\* Outside a batch nothing is left of one.
Clean ==
  phase # "feed" => kevs = {} /\ \A f \in Fd : node[f].revents = {} /\ node[f].got = {}

\* A level-triggered knote that has something to tell is active.
LevelActive ==
  \A f \in Fd, flt \in Filter :
    knote[f][flt] = "level" /\ Tells(sock[f], flt) => <<f, flt>> \in active

\* An EV_CLEAR knote tells of an end until the shim has heard of it.
ClearHeard ==
  \A f \in Fd, flt \in Filter :
    knote[f][flt] = "clear" /\ Ends(sock[f], flt) /\ flt \notin node[f].eof
      => \/ <<f, flt>> \in active
         \/ \E kev \in kevs : kev.fd = f /\ kev.filter = flt /\ kev.eof

\* The knotes are those that the node needs; if a completion has changed that, tpws
\* has been told something it must act on before it waits again.
Fits ==
  \A f \in Registered :
    \/ knote[f] = NeededFilters(node[f])
    \/ /\ phase = "loop"
       /\ "hup" \in report[f] \/ ("rdhup" \in report[f] /\ "rdhup" \in node[f].events)

\* What a node has heard in a batch that knows of no end was asked for.
GotAsked ==
  \A f \in Fd :
    /\ node[f].revents # {} => node[f].got # {}
    /\ node[f].eof = {} /\ node[f].got = {"write"} => "out" \in node[f].events
    /\ node[f].eof = {} /\ node[f].got = {"read"} => "in" \in node[f].events

Inv ==
  /\ TypeOK /\ EofTrue /\ KevsTrue /\ Clean
  /\ LevelActive /\ ClearHeard /\ Fits /\ GotAsked

-----------------------------------------------------------------------------
(* Types.                                                                  *)

\* The filters that a node needs are filters.
LEMMA NeededType ==
  ASSUME NEW nd \in Node
  PROVE  /\ NeededFilters(nd) \in [Filter -> Trigger]
         /\ AskedFilters(nd) \in [Filter -> Trigger]
  BY DEF NeededFilters, AskedFilters, Filter, Trigger, Node, BothEnds

\* What a kevent makes of a node.
LEMMA FeedFacts ==
  ASSUME NEW nd \in Node, NEW kev \in Kevent
  PROVE  /\ FeedEvent(nd, kev) \in Node
         /\ FeedEvent(nd, kev).registered = nd.registered
         /\ FeedEvent(nd, kev).events = nd.events
         /\ FeedEvent(nd, kev).eof = EofAfter(nd, kev)
         /\ FeedEvent(nd, kev).revents
              = (nd.revents \cup Told(kev, EofAfter(nd, kev))) \cap (nd.events \cup {"hup"})
         /\ FeedEvent(nd, kev).got
              = IF FeedEvent(nd, kev).revents = {} THEN nd.got ELSE nd.got \cup {kev.filter}
<1>. DEFINE eof == EofAfter(nd, kev)
            rev == (nd.revents \cup Told(kev, eof)) \cap (nd.events \cup {"hup"})
            got == IF rev = {} THEN nd.got ELSE nd.got \cup {kev.filter}
<1>1. /\ nd.registered \in BOOLEAN /\ nd.events \in SUBSET Event /\ nd.eof \in SUBSET Filter
      /\ nd.got \in SUBSET Filter /\ nd.revents \in SUBSET Event /\ kev.filter \in Filter
  BY DEF Node, Kevent
<1>2. eof \in SUBSET Filter
  BY <1>1 DEF EofAfter
<1>3. rev \in SUBSET Event
  BY <1>1 DEF Event
<1>4. got \in SUBSET Filter
  BY <1>1
<1>5. FeedEvent(nd, kev) = [nd EXCEPT !.eof = eof, !.revents = rev, !.got = got]
  BY DEF FeedEvent
<1>. HIDE DEF eof, rev, got
<1>6. FeedEvent(nd, kev)
        = [registered |-> nd.registered, events |-> nd.events, eof |-> eof, got |-> got,
           revents |-> rev]
  BY <1>5 DEF Node
<1>7. FeedEvent(nd, kev) \in Node
  BY <1>1, <1>2, <1>3, <1>4, <1>6 DEF Node
<1>. QED
  BY <1>6, <1>7 DEF eof, rev, got

\* What kevent tells of a filter.
LEMMA KeventFacts ==
  ASSUME NEW f \in Fd, NEW flt \in Filter, sock \in [Fd -> Socket]
  PROVE  /\ KeventOf(f, flt) \in Kevent
         /\ KeventOf(f, flt).fd = f /\ KeventOf(f, flt).filter = flt
         /\ KeventOf(f, flt).eof = Ends(sock[f], flt)
         /\ KeventOf(f, flt).error = sock[f].rst
<1>1. sock[f] \in Socket
  OBVIOUS
<1>2. Ends(sock[f], flt) \in BOOLEAN /\ sock[f].rst \in BOOLEAN
  BY <1>1 DEF Ends, Socket
<1>. QED
  BY <1>2 DEF KeventOf, Kevent

\* So is what the completion makes of it.
LEMMA HearType ==
  ASSUME TypeOK, NEW f \in Fd, NEW flt \in Filter, NEW nd \in Node
  PROVE  /\ Hear(nd, f, flt) \in Node
         /\ Hear(nd, f, flt).registered = nd.registered
         /\ Hear(nd, f, flt).events = nd.events
<1>1. KeventOf(f, flt) \in Kevent
  BY KeventFacts DEF TypeOK
<1>2. CASE flt \in Unheard(f)
  <2>1. Hear(nd, f, flt) = FeedEvent(nd, KeventOf(f, flt))
    BY <1>2 DEF Hear
  <2>. QED
    BY <1>1, <2>1, FeedFacts
<1>3. CASE flt \notin Unheard(f)
  BY <1>3 DEF Hear
<1>. QED
  BY <1>2, <1>3

LEMMA CompleteType ==
  ASSUME TypeOK, NEW f \in Fd
  PROVE  /\ Complete(f) \in Node
         /\ Complete(f).registered = node[f].registered
         /\ Complete(f).events = node[f].events
<1>. DEFINE H == Hear(node[f], f, "read")
            G == Hear(H, f, "write")
<1>1. node[f] \in Node /\ "read" \in Filter /\ "write" \in Filter
  BY DEF TypeOK, Filter
<1>2. H \in Node /\ H.registered = node[f].registered /\ H.events = node[f].events
  BY <1>1, HearType
<1>3. G \in Node /\ G.registered = H.registered /\ G.events = H.events
  BY <1>1, <1>2, HearType
<1>4. Complete(f) = IF full /\ node[f].revents # {} THEN G ELSE node[f]
  BY DEF Complete
<1>. HIDE DEF H, G
<1>. QED
  BY <1>1, <1>2, <1>3, <1>4

\* Which knotes are woken.
LEMMA WokenFacts ==
  ASSUME NEW f \in Fd, NEW kn, NEW s, NEW flts \in SUBSET Filter
  PROVE  /\ Woken(f, kn, s, flts) \in SUBSET Knote
         /\ \A g, flt : <<g, flt>> \in Woken(f, kn, s, flts)
                          <=> g = f /\ flt \in flts /\ kn[flt] # "none" /\ Tells(s, flt)
  BY DEF Woken, Knote

\* Registering a descriptor changes the knotes of no other; its own are active as far as they
\* have something to tell.
LEMMA RegisterFacts ==
  ASSUME TypeOK, NEW f \in Fd, NEW nd \in Node, NEW s, RegisterEvents(f, nd, s)
  PROVE  /\ knote' \in [Fd -> [Filter -> Trigger]]
         /\ knote'[f] = NeededFilters(nd)
         /\ \A g \in Fd : g # f => knote'[g] = knote[g]
         /\ active' \in SUBSET Knote
         /\ \A flt \in Filter : NeededFilters(nd)[flt] # "none" /\ Tells(s, flt)
                                  => <<f, flt>> \in active'
         /\ \A g \in Fd, flt \in Filter : g # f /\ <<g, flt>> \in active => <<g, flt>> \in active'
         /\ front' \in SUBSET Knote
<1>1. NeededFilters(nd) \in [Filter -> Trigger]
  BY NeededType
<1>2. knote' = [knote EXCEPT ![f] = NeededFilters(nd)]
  BY DEF RegisterEvents
<1>3. active' = (active \ KnotesOf(f)) \cup Woken(f, NeededFilters(nd), s, Filter)
  BY DEF RegisterEvents
<1>4. /\ knote' \in [Fd -> [Filter -> Trigger]]
      /\ knote'[f] = NeededFilters(nd)
      /\ \A g \in Fd : g # f => knote'[g] = knote[g]
  BY <1>1, <1>2 DEF TypeOK
<1>5. active' \in SUBSET Knote
  BY <1>3, WokenFacts DEF TypeOK
<1>6. \A flt \in Filter : NeededFilters(nd)[flt] # "none" /\ Tells(s, flt) => <<f, flt>> \in active'
  BY <1>3, WokenFacts
<1>7. ASSUME NEW g \in Fd, NEW flt \in Filter, g # f, <<g, flt>> \in active
      PROVE  <<g, flt>> \in active'
  BY <1>3, <1>7 DEF KnotesOf
<1>8. front' \in SUBSET Knote
  BY DEF RegisterEvents, TypeOK
<1>. QED
  BY <1>4, <1>5, <1>6, <1>7, <1>8

-----------------------------------------------------------------------------
(* The steps.                                                              *)

\* Nothing is registered at the start.
LEMMA InvInit == ASSUME Init PROVE Inv
<1>1. TypeOK
  BY DEF Init, TypeOK, FreshSocket, Socket, NoNode, Node, NoKnote, Trigger, Filter, Silent, Knote,
         Kevent, Event
<1>2. EofTrue /\ KevsTrue /\ Clean /\ GotAsked
  BY DEF Init, EofTrue, KevsTrue, Clean, GotAsked, NoNode
<1>3. LevelActive /\ ClearHeard
  BY DEF Init, LevelActive, ClearHeard, NoKnote
<1>4. Fits
  BY DEF Init, Fits, Registered, NoNode
<1>. QED
  BY <1>1, <1>2, <1>3, <1>4 DEF Inv

\* Whatever happens to a socket: ends do not go away, and what is new to tell wakes its filter.
LEMMA HappensInv ==
  ASSUME Inv, NEW f \in Fd, NEW s \in Socket, NEW flts \in SUBSET Filter, Happens(f, s, flts),
         \A flt \in Filter : Ends(sock[f], flt) => Ends(s, flt),
         \A flt \in Filter : Ends(s, flt) => Ends(sock[f], flt) \/ flt \in flts,
         \A flt \in Filter : Tells(s, flt) => Tells(sock[f], flt) \/ flt \in flts
  PROVE  Inv'
<1>1. /\ sock' = [sock EXCEPT ![f] = s]
      /\ active' = active \cup Woken(f, knote[f], s, flts)
      /\ UNCHANGED <<knote, front, node, phase, kevs, full, report, owed, late>>
  BY DEF Happens
<1>2. /\ sock' \in [Fd -> Socket] /\ sock'[f] = s
      /\ \A g \in Fd : g # f => sock'[g] = sock[g]
  BY <1>1 DEF Inv, TypeOK
<1>3. active' \in SUBSET Knote /\ active \subseteq active'
  BY <1>1, WokenFacts DEF Inv, TypeOK
<1>4. \A flt \in flts : knote[f][flt] # "none" /\ Tells(s, flt) => <<f, flt>> \in active'
  BY <1>1, WokenFacts
<1>5. \A g \in Fd, flt \in Filter : Ends(sock[g], flt) => Ends(sock'[g], flt)
  BY <1>2
<1>6. TypeOK'
  BY <1>1, <1>2, <1>3 DEF Inv, TypeOK
<1>7. EofTrue'
  BY <1>1, <1>5 DEF Inv, EofTrue, TypeOK, Node
<1>8. KevsTrue'
  BY <1>1, <1>5 DEF Inv, KevsTrue, TypeOK, Kevent
<1>9. Clean' /\ GotAsked'
  BY <1>1 DEF Inv, Clean, GotAsked
<1>10. Fits'
  BY <1>1 DEF Inv, Fits, Registered
<1>11. LevelActive'
  <2>. SUFFICES ASSUME NEW g \in Fd, NEW flt \in Filter, knote[g][flt] = "level",
                       Tells(sock'[g], flt)
                PROVE  <<g, flt>> \in active'
    BY <1>1 DEF LevelActive
  <2>1. CASE Tells(sock[g], flt)
    BY <2>1, <1>3 DEF Inv, LevelActive
  <2>2. CASE ~Tells(sock[g], flt)
    <3>1. g = f /\ Tells(s, flt) /\ flt \in flts
      BY <1>2, <2>2
    <3>. QED
      BY <3>1, <1>4
  <2>. QED
    BY <2>1, <2>2
<1>12. ClearHeard'
  <2>. SUFFICES ASSUME NEW g \in Fd, NEW flt \in Filter, knote[g][flt] = "clear",
                       Ends(sock'[g], flt), flt \notin node[g].eof
                PROVE  \/ <<g, flt>> \in active'
                       \/ \E kev \in kevs : kev.fd = g /\ kev.filter = flt /\ kev.eof
    BY <1>1 DEF ClearHeard
  <2>1. CASE Ends(sock[g], flt)
    BY <2>1, <1>3 DEF Inv, ClearHeard
  <2>2. CASE ~Ends(sock[g], flt)
    <3>1. g = f /\ Ends(s, flt) /\ flt \in flts
      BY <1>2, <2>2
    <3>2. Tells(s, flt)
      BY <3>1 DEF Tells
    <3>. QED
      BY <3>1, <3>2, <1>4
  <2>. QED
    BY <2>1, <2>2
<1>. QED
  BY <1>6, <1>7, <1>8, <1>9, <1>10, <1>11, <1>12 DEF Inv

\* The kernel.
LEMMA KernelInv == ASSUME Inv, NEW f \in Fd PROVE Arrives(f) \/ PeerFinishes(f) \/ Resets(f) \/ GetsRoom(f) => Inv'
<1>. sock[f] \in Socket
  BY DEF Inv, TypeOK
<1>1. ASSUME Arrives(f) PROVE Inv'
  <2>. DEFINE s == [sock[f] EXCEPT !.data = TRUE]
  <2>1. s \in Socket /\ Happens(f, s, {"read"})
    BY <1>1 DEF Arrives, Socket
  <2>2. \A flt \in Filter : /\ Ends(sock[f], flt) <=> Ends(s, flt)
                            /\ Tells(s, flt) => Tells(sock[f], flt) \/ flt \in {"read"}
    BY DEF Ends, Tells, Filter, Socket
  <2>. QED
    BY <2>1, <2>2, HappensInv DEF Filter
<1>2. ASSUME PeerFinishes(f) PROVE Inv'
  <2>. DEFINE s == [sock[f] EXCEPT !.fin = TRUE]
  <2>1. s \in Socket /\ Happens(f, s, {"read"})
    BY <1>2 DEF PeerFinishes, Socket
  <2>2. \A flt \in Filter : /\ Ends(sock[f], flt) => Ends(s, flt)
                            /\ Ends(s, flt) => Ends(sock[f], flt) \/ flt \in {"read"}
                            /\ Tells(s, flt) => Tells(sock[f], flt) \/ flt \in {"read"}
    BY DEF Ends, Tells, Filter, Socket
  <2>. QED
    BY <2>1, <2>2, HappensInv DEF Filter
<1>3. ASSUME Resets(f) PROVE Inv'
  <2>. DEFINE s == [sock[f] EXCEPT !.rst = TRUE]
  <2>1. s \in Socket /\ Happens(f, s, Filter)
    BY <1>3 DEF Resets, Socket
  <2>2. \A flt \in Filter : Ends(sock[f], flt) => Ends(s, flt)
    BY DEF Ends, Filter, Socket
  <2>. QED
    BY <2>1, <2>2, HappensInv
<1>4. ASSUME GetsRoom(f) PROVE Inv'
  <2>. DEFINE s == [sock[f] EXCEPT !.room = TRUE]
  <2>1. s \in Socket /\ Happens(f, s, {"write"})
    BY <1>4 DEF GetsRoom, Socket
  <2>2. \A flt \in Filter : /\ Ends(sock[f], flt) <=> Ends(s, flt)
                            /\ Tells(s, flt) => Tells(sock[f], flt) \/ flt \in {"write"}
    BY DEF Ends, Tells, Filter, Socket
  <2>. QED
    BY <2>1, <2>2, HappensInv DEF Filter
<1>. QED
  BY <1>1, <1>2, <1>3, <1>4

\* tpws reads, writes and shuts down.
LEMMA UseInv == ASSUME Inv, NEW f \in Fd PROVE Reads(f) \/ Writes(f) \/ Shuts(f) => Inv'
<1>. sock[f] \in Socket
  BY DEF Inv, TypeOK
<1>1. ASSUME Reads(f) PROVE Inv'
  <2>. DEFINE s == [sock[f] EXCEPT !.data = FALSE]
  <2>1. s \in Socket /\ Happens(f, s, {}) /\ {} \in SUBSET Filter
    BY <1>1 DEF Reads, Socket
  <2>2. \A flt \in Filter : /\ Ends(sock[f], flt) => Ends(s, flt)
                            /\ Ends(s, flt) => Ends(sock[f], flt) \/ flt \in {}
                            /\ Tells(s, flt) => Tells(sock[f], flt) \/ flt \in {}
    BY DEF Ends, Tells, Filter, Socket
  <2>. HIDE DEF s
  <2>. QED
    BY <2>1, <2>2, HappensInv
<1>2. ASSUME Writes(f) PROVE Inv'
  <2>. DEFINE s == [sock[f] EXCEPT !.room = FALSE]
  <2>1. s \in Socket /\ Happens(f, s, {}) /\ {} \in SUBSET Filter
    BY <1>2 DEF Writes, Socket
  <2>2. \A flt \in Filter : /\ Ends(sock[f], flt) => Ends(s, flt)
                            /\ Ends(s, flt) => Ends(sock[f], flt) \/ flt \in {}
                            /\ Tells(s, flt) => Tells(sock[f], flt) \/ flt \in {}
    BY DEF Ends, Tells, Filter, Socket
  <2>. HIDE DEF s
  <2>. QED
    BY <2>1, <2>2, HappensInv
<1>3. ASSUME Shuts(f) PROVE Inv'
  <2>. DEFINE s == [sock[f] EXCEPT !.shut = TRUE]
  <2>1. s \in Socket /\ Happens(f, s, {"write"})
    BY <1>3 DEF Shuts, Socket
  <2>2. \A flt \in Filter : /\ Ends(sock[f], flt) => Ends(s, flt)
                            /\ Ends(s, flt) => Ends(sock[f], flt) \/ flt \in {"write"}
                            /\ Tells(s, flt) => Tells(sock[f], flt) \/ flt \in {"write"}
    BY DEF Ends, Tells, Filter, Socket
  <2>. QED
    BY <2>1, <2>2, HappensInv DEF Filter
<1>. QED
  BY <1>1, <1>2, <1>3

\* Registering a socket, and registering it anew, fits the knotes to the node.
LEMMA RegisterInv ==
  ASSUME Inv, NEW f \in Fd, NEW nd \in Node, NEW s \in Socket,
         phase = "loop", UNCHANGED <<phase, kevs, full, report, owed, late>>,
         RegisterEvents(f, nd, s),
         sock' = [sock EXCEPT ![f] = s], node' = [node EXCEPT ![f] = nd],
         nd.revents = {}, nd.got = {}, \A flt \in nd.eof : Ends(s, flt)
  PROVE  Inv'
<1>1. kevs = {} /\ kevs' = {} /\ phase' = "loop"
  BY DEF Inv, Clean
<1>2. /\ sock' \in [Fd -> Socket] /\ sock'[f] = s /\ node' \in [Fd -> Node] /\ node'[f] = nd
      /\ \A g \in Fd : g # f => sock'[g] = sock[g] /\ node'[g] = node[g]
  BY DEF Inv, TypeOK
<1>3. /\ knote' \in [Fd -> [Filter -> Trigger]]
      /\ knote'[f] = NeededFilters(nd)
      /\ \A g \in Fd : g # f => knote'[g] = knote[g]
      /\ active' \in SUBSET Knote
      /\ \A flt \in Filter : NeededFilters(nd)[flt] # "none" /\ Tells(s, flt)
                               => <<f, flt>> \in active'
      /\ \A g \in Fd, flt \in Filter : g # f /\ <<g, flt>> \in active => <<g, flt>> \in active'
      /\ front' \in SUBSET Knote
  BY RegisterFacts DEF Inv
<1>4. TypeOK'
  BY <1>2, <1>3 DEF Inv, TypeOK
<1>5. EofTrue' /\ KevsTrue' /\ Clean'
  BY <1>1, <1>2 DEF Inv, EofTrue, KevsTrue, Clean
<1>6. GotAsked'
  BY <1>1, <1>2 DEF Inv, GotAsked
<1>7. LevelActive'
  BY <1>2, <1>3 DEF Inv, LevelActive
<1>8. ClearHeard'
  <2>. SUFFICES ASSUME NEW g \in Fd, NEW flt \in Filter, knote'[g][flt] = "clear",
                       Ends(sock'[g], flt), flt \notin node'[g].eof
                PROVE  <<g, flt>> \in active'
    BY DEF ClearHeard
  <2>1. Tells(sock'[g], flt)
    BY DEF Tells
  <2>2. CASE g = f
    BY <2>1, <2>2, <1>2, <1>3
  <2>3. CASE g # f
    BY <2>3, <1>1, <1>2, <1>3 DEF Inv, ClearHeard
  <2>. QED
    BY <2>2, <2>3
<1>9. Fits'
  BY <1>1, <1>2, <1>3 DEF Inv, Fits, Registered
<1>. QED
  BY <1>4, <1>5, <1>6, <1>7, <1>8, <1>9 DEF Inv

\* epoll_ctl.
LEMMA ControlInv == ASSUME Inv, NEW f \in Fd PROVE Add(f) \/ Modify(f) \/ Delete(f) => Inv'
<1>1. ASSUME Add(f) PROVE Inv'
  <2>1. PICK mask \in FirstMasks(f), s \in NewSocket(f) :
          /\ sock' = [sock EXCEPT ![f] = s]
          /\ node' = [node EXCEPT ![f] = [NoNode EXCEPT !.registered = TRUE, !.events = mask]]
          /\ RegisterEvents(f, [NoNode EXCEPT !.registered = TRUE, !.events = mask], s)
    BY <1>1 DEF Add
  <2>. DEFINE nd == [NoNode EXCEPT !.registered = TRUE, !.events = mask]
  <2>2. s \in Socket
    <3>1. FreshSocket \in Socket /\ [FreshSocket EXCEPT !.data = TRUE] \in Socket
      BY DEF FreshSocket, Socket
    <3>. QED
      BY <3>1 DEF NewSocket
  <2>3. mask \in SUBSET Event
    BY MaskAssumption DEF FirstMasks, Event
  <2>4. nd \in Node /\ nd.revents = {} /\ nd.got = {} /\ nd.eof = {}
    BY <2>3 DEF NoNode, Node, Filter
  <2>5. phase = "loop" /\ UNCHANGED <<phase, kevs, full, report, owed, late>>
    BY <1>1 DEF Add
  <2>. HIDE DEF nd
  <2>6. \A flt \in nd.eof : Ends(s, flt)
    BY <2>4
  <2>7. /\ sock' = [sock EXCEPT ![f] = s] /\ node' = [node EXCEPT ![f] = nd]
        /\ RegisterEvents(f, nd, s)
    BY <2>1 DEF nd
  <2>. QED
    BY <2>2, <2>4, <2>5, <2>6, <2>7, RegisterInv
<1>2. ASSUME Modify(f) PROVE Inv'
  <2>1. PICK mask \in NextMasks(f) \ {node[f].events} :
          /\ node' = [node EXCEPT ![f] = [node[f] EXCEPT !.events = mask]]
          /\ RegisterEvents(f, [node[f] EXCEPT !.events = mask], sock[f])
    BY <1>2 DEF Modify
  <2>. DEFINE nd == [node[f] EXCEPT !.events = mask]
  <2>2. node[f] \in Node /\ sock[f] \in Socket
    BY DEF Inv, TypeOK
  <2>3. mask \in SUBSET Event
    BY MaskAssumption DEF NextMasks, Event
  <2>4. nd \in Node /\ nd.revents = node[f].revents /\ nd.got = node[f].got /\ nd.eof = node[f].eof
    BY <2>2, <2>3 DEF Node
  <2>5. phase = "loop" /\ UNCHANGED <<sock, phase, kevs, full, report, owed, late>>
    BY <1>2 DEF Modify
  <2>6. nd.revents = {} /\ nd.got = {}
    BY <2>4, <2>5 DEF Inv, Clean
  <2>. HIDE DEF nd
  <2>7. \A flt \in nd.eof : Ends(sock[f], flt)
    BY <2>4 DEF Inv, EofTrue
  <2>8. sock' = [sock EXCEPT ![f] = sock[f]]
    BY <2>5 DEF Inv, TypeOK
  <2>9. node' = [node EXCEPT ![f] = nd] /\ RegisterEvents(f, nd, sock[f])
    BY <2>1 DEF nd
  <2>10. UNCHANGED <<phase, kevs, full, report, owed, late>>
    BY <2>5
  <2>. QED
    BY <2>2, <2>10, <2>4, <2>5, <2>6, <2>7, <2>8, <2>9, RegisterInv
<1>3. ASSUME Delete(f) PROVE Inv'
  <2>1. /\ phase = "loop" /\ kevs = {}
        /\ UNCHANGED <<phase, kevs, full, report, owed>>
        /\ sock' = [sock EXCEPT ![f] = FreshSocket]
        /\ node' = [node EXCEPT ![f] = NoNode]
        /\ knote' = [knote EXCEPT ![f] = NoKnote]
        /\ active' = active \ KnotesOf(f) /\ front' = front \ KnotesOf(f)
        /\ late' = late \ {f}
    BY <1>3 DEF Delete, Inv, Clean
  <2>2. FreshSocket \in Socket /\ NoNode \in Node /\ NoKnote \in [Filter -> Trigger]
    BY DEF FreshSocket, Socket, NoNode, Node, NoKnote, Trigger, Filter, Event
  <2>3. TypeOK'
    BY <2>1, <2>2 DEF Inv, TypeOK
  <2>4. /\ node'[f] = NoNode /\ knote'[f] = NoKnote
        /\ \A g \in Fd : g # f => sock'[g] = sock[g] /\ node'[g] = node[g] /\ knote'[g] = knote[g]
        /\ \A g \in Fd, flt \in Filter : g # f /\ <<g, flt>> \in active => <<g, flt>> \in active'
    BY <2>1 DEF Inv, TypeOK, KnotesOf
  <2>5. NoNode.eof = {} /\ NoNode.revents = {} /\ NoNode.got = {} /\ NoNode.registered = FALSE
    BY DEF NoNode
  <2>6. EofTrue' /\ KevsTrue' /\ Clean' /\ GotAsked'
    BY <2>1, <2>4, <2>5 DEF Inv, EofTrue, KevsTrue, Clean, GotAsked
  <2>7. \A flt \in Filter : knote'[f][flt] = "none"
    BY <2>4 DEF NoKnote
  <2>8. LevelActive'
    BY <2>4, <2>7 DEF Inv, LevelActive
  <2>9. ClearHeard'
    BY <2>1, <2>4, <2>7 DEF Inv, ClearHeard
  <2>10. Fits'
    BY <2>1, <2>4, <2>5 DEF Inv, Fits, Registered
  <2>. QED
    BY <2>3, <2>6, <2>8, <2>9, <2>10 DEF Inv
<1>. QED
  BY <1>1, <1>2, <1>3

\* tpws waits again when it has dealt with what it was told.
LEMMA EpollWaitInv == ASSUME Inv, EpollWait PROVE Inv'
<1>1. /\ phase = "loop" /\ phase' = "poll" /\ \A f \in Fd : Dealt(f)
      /\ report' = Silent /\ owed' = Silent
      /\ UNCHANGED <<sock, knote, active, front, node, kevs, full, late>>
  BY DEF EpollWait
<1>2. TypeOK'
  BY <1>1 DEF Inv, TypeOK, Silent
<1>3. EofTrue' /\ KevsTrue' /\ LevelActive' /\ ClearHeard' /\ GotAsked'
  BY <1>1 DEF Inv, EofTrue, KevsTrue, LevelActive, ClearHeard, GotAsked
<1>4. Clean'
  BY <1>1 DEF Inv, Clean
<1>5. Fits'
  BY <1>1 DEF Inv, Fits, Dealt, Registered
<1>. QED
  BY <1>2, <1>3, <1>4, <1>5 DEF Inv

\* kevent: what is taken is a kevent of the batch, what is left is active.
LEMMA RetrieveInv == ASSUME Inv, Retrieve PROVE Inv'
<1>1. PICK taken \in SUBSET Talking :
        /\ kevs' = {KeventOf(k[1], k[2]) : k \in taken}
        /\ full' = (Cardinality(taken) = Count)
        /\ active' = (Talking \ taken) \cup {k \in taken : IsLevel(k)}
        /\ front' = LET left == Talking \ taken
                    IN IF left \cap front = {} THEN left ELSE left \cap front
        /\ phase' = IF taken = {} THEN "poll" ELSE "feed"
  BY DEF Retrieve
<1>2. /\ phase = "poll" /\ kevs = {}
      /\ UNCHANGED <<sock, knote, node, report, late>>
  BY DEF Retrieve, Inv, Clean
<1>3. owed' \in [Fd -> SUBSET Event]
  <2>1. \A f \in Fd : Due(f) \in SUBSET Event
    BY DEF Due
  <2>2. owed' = [f \in Fd |-> Due(f)]
    BY DEF Retrieve
  <2>. QED
    BY <2>1, <2>2
<1>4. taken \subseteq Talking /\ Talking \subseteq active /\ active \subseteq Knote
  BY DEF Talking, Inv, TypeOK
<1>5. \A f \in Fd, flt \in Filter : <<f, flt>> \in active /\ Tells(sock[f], flt) => <<f, flt>> \in Talking
  BY DEF Talking
<1>6. \A f \in Fd, flt \in Filter : <<f, flt>> \in Talking => <<f, flt>> \in taken \/ <<f, flt>> \in active'
  BY <1>1
<1>7. \A f \in Fd, flt \in Filter :
        <<f, flt>> \in taken /\ knote[f][flt] = "level" => <<f, flt>> \in active'
  BY <1>1 DEF IsLevel
<1>8. \A kev \in kevs' :
        /\ kev.fd \in Fd /\ kev.filter \in Filter
        /\ kev = KeventOf(kev.fd, kev.filter) /\ kev \in Kevent
  <2>. SUFFICES ASSUME NEW k \in taken
                PROVE  LET kev == KeventOf(k[1], k[2])
                       IN /\ kev.fd \in Fd /\ kev.filter \in Filter
                          /\ kev = KeventOf(kev.fd, kev.filter) /\ kev \in Kevent
    BY <1>1
  <2>1. k[1] \in Fd /\ k[2] \in Filter
    BY <1>4 DEF Knote
  <2>. QED
    BY <2>1, KeventFacts DEF Inv, TypeOK
<1>9. \A f \in Fd, flt \in Filter : <<f, flt>> \in taken => KeventOf(f, flt) \in kevs'
  BY <1>1
<1>10. \A f \in Fd, flt \in Filter : KeventOf(f, flt).eof = Ends(sock[f], flt)
  BY KeventFacts DEF Inv, TypeOK
<1>11. TypeOK'
  <2>1. kevs' \in SUBSET Kevent
    BY <1>8
  <2>2. active' \in SUBSET Knote /\ front' \in SUBSET Knote
    BY <1>1, <1>4
  <2>3. full' \in BOOLEAN /\ phase' \in {"loop", "poll", "feed"}
    BY <1>1
  <2>. QED
    BY <1>2, <1>3, <2>1, <2>2, <2>3 DEF Inv, TypeOK
<1>12. EofTrue' /\ GotAsked'
  BY <1>2 DEF Inv, EofTrue, GotAsked
<1>13. KevsTrue'
  <2>1. \A kev \in kevs' : kev.eof => Ends(sock[kev.fd], kev.filter)
    BY <1>8, <1>10
  <2>2. \A kev \in kevs' : kev.filter \in node[kev.fd].eof => kev.eof
    BY <1>8, <1>10 DEF Inv, EofTrue
  <2>3. \A kev, other \in kevs' : kev.fd = other.fd /\ kev.filter = other.filter => kev = other
    BY <1>8
  <2>. QED
    BY <1>2, <2>1, <2>2, <2>3 DEF KevsTrue
<1>14. Clean'
  BY <1>1, <1>2 DEF Inv, Clean
<1>15. LevelActive'
  BY <1>2, <1>5, <1>6, <1>7 DEF Inv, LevelActive
<1>16. ClearHeard'
  <2>. SUFFICES ASSUME NEW f \in Fd, NEW flt \in Filter, knote[f][flt] = "clear",
                       Ends(sock[f], flt), flt \notin node[f].eof
                PROVE  \/ <<f, flt>> \in active'
                       \/ \E kev \in kevs' : kev.fd = f /\ kev.filter = flt /\ kev.eof
    BY <1>2 DEF ClearHeard
  <2>1. <<f, flt>> \in active
    BY <1>2 DEF Inv, ClearHeard
  <2>2. <<f, flt>> \in Talking
    BY <2>1, <1>5 DEF Tells
  <2>3. CASE <<f, flt>> \in taken
    <3>1. KeventOf(f, flt) \in kevs' /\ KeventOf(f, flt).eof
      BY <2>3, <1>9, <1>10
    <3>2. KeventOf(f, flt).fd = f /\ KeventOf(f, flt).filter = flt
      BY KeventFacts DEF Inv, TypeOK
    <3>. QED
      BY <3>1, <3>2
  <2>. QED
    BY <2>2, <2>3, <1>6
<1>17. Fits'
  BY <1>1, <1>2 DEF Inv, Fits, Registered
<1>. QED
  BY <1>11, <1>12, <1>13, <1>14, <1>15, <1>16, <1>17 DEF Inv

\* One kevent is fed to its node, which is registered anew if it needs other filters.
LEMMA FeedInv == ASSUME Inv, Feed PROVE Inv'
<1>1. PICK kev \in kevs :
        /\ node' = [node EXCEPT ![kev.fd] = FeedEvent(node[kev.fd], kev)]
        /\ IF NeededFilters(FeedEvent(node[kev.fd], kev)) # NeededFilters(node[kev.fd])
           THEN RegisterEvents(kev.fd, FeedEvent(node[kev.fd], kev), sock[kev.fd])
           ELSE UNCHANGED <<knote, active, front>>
        /\ kevs' = kevs \ {kev}
  BY DEF Feed
<1>. DEFINE f == kev.fd
            old == node[f]
            nd == FeedEvent(old, kev)
            again == NeededFilters(nd) # NeededFilters(old)
<1>2. /\ phase = "feed" /\ UNCHANGED <<sock, phase, full, report, owed, late>>
  BY DEF Feed
<1>3. kev \in Kevent /\ f \in Fd /\ kev.filter \in Filter /\ kev.eof \in BOOLEAN /\ old \in Node
  BY DEF Inv, TypeOK, Kevent
<1>4. /\ nd \in Node /\ nd.registered = old.registered /\ nd.events = old.events
      /\ nd.eof = EofAfter(old, kev)
      /\ nd.revents = (old.revents \cup Told(kev, EofAfter(old, kev))) \cap (old.events \cup {"hup"})
      /\ nd.got = IF nd.revents = {} THEN old.got ELSE old.got \cup {kev.filter}
  <2>. HIDE DEF old
  <2>. QED
    BY <1>3, FeedFacts
<1>5. nd.eof = IF kev.eof THEN old.eof \cup {kev.filter} ELSE old.eof
  <2>1. ~kev.eof => kev.filter \notin old.eof
    BY DEF Inv, KevsTrue
  <2>. QED
    BY <2>1, <1>3, <1>4 DEF EofAfter
<1>6. node' = [node EXCEPT ![f] = nd] /\ kevs' = kevs \ {kev}
  BY <1>1
<1>7. again => RegisterEvents(f, nd, sock[f])
  BY <1>1
<1>8. ~again => UNCHANGED <<knote, active, front>>
  BY <1>1
<1>. HIDE DEF nd
<1>9. /\ node' \in [Fd -> Node] /\ node'[f] = nd
      /\ \A g \in Fd : g # f => node'[g] = node[g]
  BY <1>3, <1>4, <1>6 DEF Inv, TypeOK
<1>10. again =>
      /\ knote' \in [Fd -> [Filter -> Trigger]]
      /\ knote'[f] = NeededFilters(nd)
      /\ \A g \in Fd : g # f => knote'[g] = knote[g]
      /\ active' \in SUBSET Knote
      /\ \A flt \in Filter : NeededFilters(nd)[flt] # "none" /\ Tells(sock[f], flt)
                               => <<f, flt>> \in active'
      /\ \A g \in Fd, flt \in Filter : g # f /\ <<g, flt>> \in active => <<g, flt>> \in active'
      /\ front' \in SUBSET Knote
  <2>. HIDE DEF again
  <2>. QED
    BY <1>3, <1>4, <1>7, RegisterFacts DEF Inv
<1>. HIDE DEF again
<1>11. TypeOK'
  <2>1. knote' \in [Fd -> [Filter -> Trigger]] /\ active' \in SUBSET Knote /\ front' \in SUBSET Knote
    BY <1>8, <1>10 DEF Inv, TypeOK
  <2>. QED
    BY <1>2, <1>6, <1>9, <2>1 DEF Inv, TypeOK
<1>12. EofTrue'
  <2>1. \A flt \in nd.eof : Ends(sock[f], flt)
    BY <1>3, <1>5 DEF Inv, EofTrue, KevsTrue
  <2>. QED
    BY <2>1, <1>2, <1>9 DEF Inv, EofTrue
<1>13. KevsTrue'
  <2>1. \A other \in kevs' : other \in kevs /\ other \in Kevent /\ other # kev
    BY <1>6 DEF Inv, TypeOK
  <2>2. ASSUME NEW other \in kevs', other.filter \in node'[other.fd].eof PROVE other.eof
    <3>1. CASE other.fd # f
      BY <3>1, <2>1, <2>2, <1>9 DEF Inv, KevsTrue, Kevent
    <3>2. CASE other.fd = f
      <4>1. other.filter # kev.filter
        BY <3>2, <2>1 DEF Inv, KevsTrue
      <4>2. other.filter \in old.eof
        BY <4>1, <3>2, <2>2, <1>5, <1>9
      <4>. QED
        BY <4>2, <3>2, <2>1 DEF Inv, KevsTrue
    <3>. QED
      BY <3>1, <3>2
  <2>. QED
    BY <2>1, <2>2, <1>2 DEF Inv, KevsTrue
<1>14. Clean'
  BY <1>2 DEF Clean
<1>15. LevelActive'
  <2>. SUFFICES ASSUME NEW g \in Fd, NEW flt \in Filter, knote'[g][flt] = "level",
                       Tells(sock[g], flt)
                PROVE  <<g, flt>> \in active'
    BY <1>2 DEF LevelActive
  <2>1. CASE again /\ g = f
    BY <2>1, <1>10
  <2>2. CASE again /\ g # f
    BY <2>2, <1>10 DEF Inv, LevelActive
  <2>3. CASE ~again
    BY <2>3, <1>8 DEF Inv, LevelActive
  <2>. QED
    BY <2>1, <2>2, <2>3
<1>16. ClearHeard'
  <2>. SUFFICES ASSUME NEW g \in Fd, NEW flt \in Filter, knote'[g][flt] = "clear",
                       Ends(sock[g], flt), flt \notin node'[g].eof
                PROVE  \/ <<g, flt>> \in active'
                       \/ \E other \in kevs' : other.fd = g /\ other.filter = flt /\ other.eof
    BY <1>2 DEF ClearHeard
  <2>1. CASE again /\ g = f
    BY <2>1, <1>10 DEF Tells
  <2>2. CASE ~(again /\ g = f)
    <3>1. knote'[g] = knote[g] /\ (<<g, flt>> \in active => <<g, flt>> \in active')
      BY <2>2, <1>8, <1>10
    <3>2. flt \notin node[g].eof
      BY <1>5, <1>9
    <3>3. \/ <<g, flt>> \in active
          \/ \E other \in kevs : other.fd = g /\ other.filter = flt /\ other.eof
      BY <3>1, <3>2 DEF Inv, ClearHeard
    <3>4. ASSUME NEW other \in kevs, other.fd = g, other.filter = flt, other.eof
          PROVE  other \in kevs'
      <4>1. other # kev
        BY <3>4, <1>5, <1>9
      <4>. QED
        BY <4>1, <1>6
    <3>. QED
      BY <3>1, <3>3, <3>4
  <2>. QED
    BY <2>1, <2>2
<1>17. Fits'
  <2>. SUFFICES ASSUME NEW g \in Fd, node'[g].registered PROVE knote'[g] = NeededFilters(node'[g])
    BY DEF Fits, Registered
  <2>1. node[g].registered
    BY <1>4, <1>9
  <2>2. knote[g] = NeededFilters(node[g])
    BY <2>1, <1>2 DEF Inv, Fits, Registered
  <2>3. CASE g = f
    BY <2>2, <2>3, <1>8, <1>9, <1>10 DEF again
  <2>4. CASE g # f
    BY <2>2, <2>4, <1>8, <1>9, <1>10
  <2>. QED
    BY <2>3, <2>4
<1>18. GotAsked'
  <2>. SUFFICES /\ nd.revents # {} => nd.got # {}
                /\ nd.eof = {} /\ nd.got = {"write"} => "out" \in nd.events
                /\ nd.eof = {} /\ nd.got = {"read"} => "in" \in nd.events
    BY <1>9 DEF Inv, GotAsked
  <2>1. nd.revents # {} => nd.got # {}
    BY <1>4
  <2>2. ASSUME nd.eof = {}
        PROVE  /\ nd.got = {"write"} => "out" \in nd.events
               /\ nd.got = {"read"} => "in" \in nd.events
    <3>1. old.eof = {} /\ ~kev.eof
      BY <2>2, <1>5
    <3>2. Told(kev, nd.eof) = {IF kev.filter = "read" THEN "in" ELSE "out"}
      BY <2>2, <3>1 DEF Told, BothEnds, Filter
    <3>3. CASE old.got = {}
      <4>1. old.revents = {}
        BY <3>3, <1>3 DEF Inv, GotAsked
      <4>. QED
        BY <4>1, <3>2, <3>3, <1>3, <1>4 DEF Filter
    <3>4. CASE old.got # {}
      <4>1. \/ nd.got = old.got
            \/ nd.got = old.got \cup {kev.filter}
        BY <1>4
      <4>2. old.got \subseteq Filter
        BY <1>3 DEF Node
      <4>3. /\ old.got = {"write"} => "out" \in old.events
            /\ old.got = {"read"} => "in" \in old.events
        BY <3>1, <1>3 DEF Inv, GotAsked
      <4>. QED
        BY <4>1, <4>2, <4>3, <3>4, <1>3, <1>4 DEF Filter
    <3>. QED
      BY <3>3, <3>4
  <2>. QED
    BY <2>1, <2>2
<1>. QED
  BY <1>11, <1>12, <1>13, <1>14, <1>15, <1>16, <1>17, <1>18 DEF Inv

\* Hearing a filter that was not heard yet.
LEMMA HearFacts ==
  ASSUME TypeOK, NEW f \in Fd, NEW flt \in Filter, NEW nd \in Node
  PROVE  LET h == Hear(nd, f, flt)
         IN /\ h \in Node /\ h.events = nd.events /\ h.registered = nd.registered
            /\ flt \notin Unheard(f) => h = nd
            /\ flt \in Unheard(f) =>
                 /\ h.eof = IF Ends(sock[f], flt) THEN nd.eof \cup {flt} ELSE nd.eof \ {flt}
                 /\ Told(KeventOf(f, flt), h.eof) \cap (nd.events \cup {"hup"}) \subseteq h.revents
<1>1. KeventOf(f, flt) \in Kevent /\ KeventOf(f, flt).filter = flt
      /\ KeventOf(f, flt).eof = Ends(sock[f], flt)
  BY KeventFacts DEF TypeOK
<1>. DEFINE kev == KeventOf(f, flt)
            fed == FeedEvent(nd, kev)
<1>2. /\ fed \in Node /\ fed.events = nd.events /\ fed.registered = nd.registered
      /\ fed.eof = EofAfter(nd, kev)
      /\ fed.revents = (nd.revents \cup Told(kev, EofAfter(nd, kev))) \cap (nd.events \cup {"hup"})
  BY <1>1, FeedFacts
<1>3. Hear(nd, f, flt) = IF flt \in Unheard(f) THEN fed ELSE nd
  BY DEF Hear
<1>4. EofAfter(nd, kev) = IF Ends(sock[f], flt) THEN nd.eof \cup {flt} ELSE nd.eof \ {flt}
  BY <1>1 DEF EofAfter
<1>. HIDE DEF fed, kev
<1>5. CASE flt \notin Unheard(f)
  BY <1>3, <1>5
<1>6. CASE flt \in Unheard(f)
  <2>1. Hear(nd, f, flt) = fed
    BY <1>3, <1>6
  <2>. QED
    BY <1>2, <1>4, <1>6, <2>1 DEF kev
<1>. QED
  BY <1>5, <1>6

\* The completion only learns of ends that have happened; if the node needs other filters after
\* it, a hangup or the end of the stream is reported to a caller who asked for that.
LEMMA CompleteFacts ==
  ASSUME Inv, phase = "feed", NEW f \in Fd
  PROVE  LET done == Complete(f)
         IN /\ done \in Node /\ done.events = node[f].events
            /\ done.registered = node[f].registered
            /\ node[f].eof \subseteq done.eof
            /\ \A flt \in done.eof : Ends(sock[f], flt)
            /\ done.registered =>
                 \/ NeededFilters(done) = NeededFilters(node[f])
                 \/ "hup" \in done.revents
                 \/ "rdhup" \in done.revents /\ "rdhup" \in done.events
<1>. DEFINE nd == node[f]
            one == Hear(nd, f, "read")
            two == Hear(one, f, "write")
            R == "read" \in Unheard(f)
            W == "write" \in Unheard(f)
<1>1. nd \in Node /\ nd.eof \in SUBSET Filter /\ nd.got \in SUBSET Filter
      /\ \A flt \in nd.eof : Ends(sock[f], flt)
  BY DEF Inv, TypeOK, Node, EofTrue
<1>2. /\ one \in Node /\ one.events = nd.events /\ one.registered = nd.registered
      /\ ~R => one = nd
      /\ R => /\ one.eof = IF Ends(sock[f], "read") THEN nd.eof \cup {"read"} ELSE nd.eof \ {"read"}
              /\ Told(KeventOf(f, "read"), one.eof) \cap (nd.events \cup {"hup"}) \subseteq one.revents
  BY <1>1, HearFacts DEF Inv, Filter
<1>3. /\ two \in Node /\ two.events = nd.events /\ two.registered = nd.registered
      /\ ~W => two = one
      /\ W => /\ two.eof = IF Ends(sock[f], "write") THEN one.eof \cup {"write"}
                           ELSE one.eof \ {"write"}
              /\ Told(KeventOf(f, "write"), two.eof) \cap (nd.events \cup {"hup"}) \subseteq two.revents
  <2>. HIDE DEF one
  <2>. QED
    BY <1>2, HearFacts DEF Inv, Filter
<1>4. Complete(f) = IF full /\ nd.revents # {} THEN two ELSE nd
  BY DEF Complete
<1>5. CASE ~(full /\ nd.revents # {})
  BY <1>1, <1>4, <1>5
<1>6. CASE full /\ nd.revents # {}
  <2>1. Complete(f) = two
    BY <1>4, <1>6
  <2>. HIDE DEF one, two
  <2>2. one.eof = IF R /\ Ends(sock[f], "read") THEN nd.eof \cup {"read"} ELSE nd.eof
    BY <1>1, <1>2
  <2>3. two.eof = IF W /\ Ends(sock[f], "write") THEN one.eof \cup {"write"} ELSE one.eof
    BY <1>1, <1>3, <2>2
  <2>4. nd.eof \subseteq two.eof /\ \A flt \in two.eof : Ends(sock[f], flt)
    BY <1>1, <2>2, <2>3
  <2>5. ~(R /\ W)
    <3>1. nd.got # {}
      BY <1>6 DEF Inv, GotAsked
    <3>2. nd.got \subseteq Filter
      BY <1>1
    <3>. QED
      BY <3>1, <3>2 DEF Unheard, Filter
  <2>6. ASSUME two.registered
        PROVE  \/ NeededFilters(two) = NeededFilters(nd)
               \/ "hup" \in two.revents
               \/ "rdhup" \in two.revents /\ "rdhup" \in two.events
    <3>1. CASE two.eof = nd.eof
      <4>1. NeededFilters(two) = NeededFilters(nd)
        BY <3>1, <1>3 DEF NeededFilters, AskedFilters
      <4>. QED
        BY <4>1
    <3>2. CASE two.eof # nd.eof /\ two.eof = BothEnds
      <4>1. CASE R
        <5>1. two = one
          BY <4>1, <2>5, <1>3
        <5>2. "hup" \in Told(KeventOf(f, "read"), two.eof)
          BY <3>2 DEF Told
        <5>. QED
          BY <4>1, <5>1, <5>2, <1>2
      <4>2. CASE W
        <5>1. "hup" \in Told(KeventOf(f, "write"), two.eof)
          BY <3>2 DEF Told
        <5>. QED
          BY <4>2, <5>1, <1>3
      <4>3. CASE ~R /\ ~W
        BY <4>3, <3>2, <2>2, <2>3
      <4>. QED
        BY <4>1, <4>2, <4>3
    <3>3. CASE two.eof # nd.eof /\ two.eof # BothEnds
      <4>1. nd.eof = {}
        BY <3>3, <2>2, <2>3, <1>1 DEF BothEnds, Filter
      <4>2. knote[f] = NeededFilters(nd)
        BY <2>6, <1>3 DEF Inv, Fits, Registered
      <4>3. NeededFilters(nd)
              = [flt \in Filter |->
                   IF AskedFilters(nd)[flt] # "none" THEN AskedFilters(nd)[flt]
                   ELSE IF flt = "read" /\ AskedFilters(nd)["write"] = "none" THEN "clear"
                   ELSE "none"]
        BY <4>1 DEF NeededFilters, BothEnds, Filter
      <4>4. nd.got # {} /\ nd.got \subseteq Filter
        BY <1>1, <1>6 DEF Inv, GotAsked
      <4>5. CASE R
        <5>1. nd.got = {"write"} /\ "out" \in nd.events
          BY <4>1, <4>4, <4>5 DEF Unheard, Filter, Inv, GotAsked
        <5>2. AskedFilters(nd)["write"] = "level"
          BY <5>1 DEF AskedFilters, Filter
        <5>3. AskedFilters(nd)["read"] # "none"
          BY <4>2, <4>3, <4>5, <5>2 DEF Unheard, Filter
        <5>4. two = one /\ two.eof = {"read"}
          BY <4>1, <4>5, <3>3, <2>2, <2>5, <1>3
        <5>5. CASE "rdhup" \in nd.events
          <6>1. "rdhup" \in Told(KeventOf(f, "read"), two.eof)
            BY <5>4 DEF Told
          <6>. QED
            BY <6>1, <5>4, <5>5, <4>5, <1>2
        <5>6. CASE "rdhup" \notin nd.events
          <6>1. "in" \in nd.events
            BY <5>3, <5>6 DEF AskedFilters, Filter
          <6>2. AskedFilters(two) = AskedFilters(nd)
            BY <6>1, <1>3 DEF AskedFilters
          <6>3. NeededFilters(two)
                  = [flt \in Filter |->
                       IF AskedFilters(nd)[flt] # "none" THEN AskedFilters(nd)[flt]
                       ELSE IF two.eof # {} /\ flt \notin two.eof THEN "clear"
                       ELSE "none"]
            BY <5>4, <6>2, <3>3 DEF NeededFilters
          <6>. QED
            BY <6>3, <4>3, <5>2, <5>3 DEF Filter
        <5>. QED
          BY <5>5, <5>6
      <4>6. CASE W
        <5>1. nd.got = {"read"} /\ "in" \in nd.events
          BY <4>1, <4>4, <4>6 DEF Unheard, Filter, Inv, GotAsked
        <5>2. AskedFilters(nd)["read"] = "level"
          BY <5>1 DEF AskedFilters, Filter
        <5>3. AskedFilters(nd)["write"] # "none"
          BY <4>2, <4>3, <4>6, <5>2 DEF Unheard, Filter
        <5>4. AskedFilters(two) = AskedFilters(nd)
          BY <5>1, <1>3 DEF AskedFilters
        <5>5. two.eof # {}
          BY <3>3, <4>1
        <5>6. NeededFilters(two)
                = [flt \in Filter |->
                     IF AskedFilters(nd)[flt] # "none" THEN AskedFilters(nd)[flt]
                     ELSE IF two.eof # {} /\ flt \notin two.eof THEN "clear"
                     ELSE "none"]
          BY <5>5, <5>4, <3>3 DEF NeededFilters
        <5>. QED
          BY <5>6, <4>3, <5>2, <5>3 DEF Filter
      <4>7. CASE ~R /\ ~W
        BY <4>7, <3>3, <2>2, <2>3
      <4>. QED
        BY <4>5, <4>6, <4>7
    <3>. QED
      BY <3>1, <3>2, <3>3
  <2>. QED
    BY <2>1, <2>4, <2>6, <1>3
<1>. QED
  BY <1>5, <1>6

\* The end of a batch.
LEMMA ReturnInv == ASSUME Inv, Return PROVE Inv'
<1>. DEFINE new == [f \in Fd |-> [Complete(f) EXCEPT !.revents = {}, !.got = {}]]
<1>1. /\ phase = "feed" /\ kevs = {}
      /\ UNCHANGED <<sock, knote, active, front, kevs, full, owed>>
      /\ node' = new
  BY DEF Return
<1>2. \/ /\ phase' = "loop" /\ report' = [f \in Fd |-> Complete(f).revents]
         /\ late' \in SUBSET Fd
      \/ /\ phase' = "poll" /\ \A f \in Fd : node[f].revents = {}
         /\ UNCHANGED <<report, late>>
  BY DEF Return, Inv, TypeOK
<1>3. \A f \in Fd :
        /\ Complete(f) \in Node /\ Complete(f).events = node[f].events
        /\ Complete(f).registered = node[f].registered
        /\ node[f].eof \subseteq Complete(f).eof
        /\ \A flt \in Complete(f).eof : Ends(sock[f], flt)
        /\ Complete(f).registered =>
             \/ NeededFilters(Complete(f)) = NeededFilters(node[f])
             \/ "hup" \in Complete(f).revents
             \/ "rdhup" \in Complete(f).revents /\ "rdhup" \in Complete(f).events
  BY <1>1, CompleteFacts
<1>4. \A f \in Fd :
        /\ node'[f] \in Node
        /\ node'[f].events = node[f].events /\ node'[f].registered = node[f].registered
        /\ node'[f].eof = Complete(f).eof /\ node'[f].revents = {} /\ node'[f].got = {}
  BY <1>1, <1>3 DEF Node, Filter
<1>5. TypeOK'
  <2>1. node' \in [Fd -> Node]
    BY <1>1, <1>4
  <2>2. report' \in [Fd -> SUBSET Event]
    BY <1>2, <1>3 DEF Inv, TypeOK, Node
  <2>. QED
    BY <1>1, <1>2, <2>1, <2>2 DEF Inv, TypeOK
<1>6. EofTrue' /\ GotAsked'
  BY <1>1, <1>3, <1>4 DEF EofTrue, GotAsked
<1>7. KevsTrue' /\ Clean'
  BY <1>1, <1>4 DEF KevsTrue, Clean
<1>8. LevelActive'
  BY <1>1 DEF Inv, LevelActive
<1>9. ClearHeard'
  BY <1>1, <1>3, <1>4 DEF Inv, ClearHeard
<1>10. Fits'
  <2>. SUFFICES ASSUME NEW f \in Fd, node[f].registered
                PROVE  \/ knote[f] = NeededFilters(node'[f])
                       \/ /\ phase' = "loop"
                          /\ \/ "hup" \in report'[f]
                             \/ "rdhup" \in report'[f] /\ "rdhup" \in node'[f].events
    BY <1>1, <1>4 DEF Fits, Registered
  <2>1. knote[f] = NeededFilters(node[f])
    BY <1>1 DEF Inv, Fits, Registered
  <2>2. NeededFilters(node'[f]) = NeededFilters(Complete(f))
    <3>1. node'[f].events = Complete(f).events /\ node'[f].eof = Complete(f).eof
      BY <1>3, <1>4
    <3>2. AskedFilters(node'[f]) = AskedFilters(Complete(f))
      BY <3>1 DEF AskedFilters
    <3>. QED
      BY <3>1, <3>2 DEF NeededFilters
  <2>3. CASE phase' = "loop"
    BY <2>1, <2>2, <2>3, <1>2, <1>3, <1>4
  <2>4. CASE phase' = "poll"
    <3>1. Complete(f) = node[f]
      BY <1>2, <2>4 DEF Complete
    <3>. QED
      BY <3>1, <2>1, <2>2
  <2>. QED
    BY <1>2, <2>3, <2>4
<1>. QED
  BY <1>5, <1>6, <1>7, <1>8, <1>9, <1>10 DEF Inv

\* A step, or none.
LEMMA NextInv == ASSUME Inv, [Next]_vars PROVE Inv'
<1>1. CASE Kernel
  BY <1>1, KernelInv DEF Kernel
<1>2. CASE Loop
  BY <1>2, UseInv, ControlInv DEF Loop
<1>3. CASE Shim
  BY <1>3, EpollWaitInv, RetrieveInv, FeedInv, ReturnInv DEF Shim
<1>4. CASE UNCHANGED vars
  BY <1>4 DEF vars, Inv, TypeOK, EofTrue, KevsTrue, Clean, LevelActive, ClearHeard, Fits, GotAsked,
              Registered
<1>. QED
  BY <1>1, <1>2, <1>3, <1>4 DEF Next

\* Hence the invariant holds in every reachable state.
LEMMA Invariance == Spec => []Inv
<1>1. Init => Inv
  BY InvInit
<1>2. Inv /\ [Next]_vars => Inv'
  BY NextInv
<1>. QED
  BY <1>1, <1>2, PTL DEF Spec

-----------------------------------------------------------------------------
(* The theorems.                                                           *)

\* The shim keeps knotes, kevents and nodes in their types, for any set of descriptors, any
\* size of the array and any masks (epollfd_ctx.c).
THEOREM TypeCorrect == Spec => []TypeOK
BY Invariance, PTL DEF Inv

\* While epoll_wait looks or sleeps the knotes fit the nodes, so every event that is due has an
\* active knote (get_needed_filters).
LEMMA InvNeverDeaf == Inv => NeverDeaf
<1>. SUFFICES ASSUME Inv, phase = "poll", NEW f \in Fd, NEW e \in Due(f)
              PROVE  active \cap KnotesOf(f) # {}
  BY DEF NeverDeaf
<1>. DEFINE nd == node[f]
            s == sock[f]
            asked == AskedFilters(nd)
            needed == NeededFilters(nd)
<1>1. nd \in Node /\ nd.eof \in SUBSET Filter /\ f \in Registered /\ s \in Socket
  BY DEF Due, Inv, TypeOK, Node
<1>2. knote[f] = needed
  BY <1>1 DEF Inv, Fits
<1>3. \A flt \in nd.eof : Ends(s, flt)
  BY DEF Inv, EofTrue
<1>4. \A flt \in Filter : needed[flt] = "level" /\ Tells(s, flt) => <<f, flt>> \in active
  BY <1>2 DEF Inv, LevelActive
<1>5. \A flt \in Filter : needed[flt] = "clear" /\ Ends(s, flt) /\ flt \notin nd.eof => <<f, flt>> \in active
  BY <1>2 DEF Inv, ClearHeard, Clean
<1>6. \A flt \in Filter : Ends(s, flt) => Tells(s, flt)
  BY DEF Tells
<1>7. SUFFICES \E flt \in Filter : <<f, flt>> \in active
  BY DEF KnotesOf
<1>8. \/ "in" \in nd.events /\ Tells(s, "read")
      \/ "rdhup" \in nd.events /\ Ends(s, "read")
      \/ "out" \in nd.events /\ Tells(s, "write")
      \/ Ends(s, "read") /\ Ends(s, "write")
  BY <1>1 DEF Due, Ends
<1>9. CASE nd.eof = BothEnds
  <2>1. \A flt \in Filter : Tells(s, flt)
    BY <1>3, <1>6, <1>9 DEF BothEnds
  <2>2. \E flt \in Filter : needed[flt] = "level"
    <3>1. asked["read"] \in {"none", "level"} /\ asked["write"] \in {"none", "level"}
      BY <1>9 DEF AskedFilters, BothEnds, Filter
    <3>2. needed = LET read == IF "level" \in {asked["read"], asked["write"]}
                               THEN asked["read"] ELSE "level"
                   IN [flt \in Filter |-> IF flt = "read" THEN read
                                          ELSE IF read = "none" THEN asked["write"] ELSE "none"]
      BY <1>9 DEF NeededFilters
    <3>. QED
      BY <3>1, <3>2 DEF Filter
  <2>. QED
    BY <2>1, <2>2, <1>4
<1>10. CASE nd.eof # BothEnds
  <2>1. needed = [flt \in Filter |->
                    IF asked[flt] # "none" THEN asked[flt]
                    ELSE IF nd.eof # {} /\ flt \notin nd.eof THEN "clear"
                    ELSE IF nd.eof = {} /\ flt = "read" /\ asked["write"] = "none" THEN "clear"
                    ELSE "none"]
    BY <1>10 DEF NeededFilters
  <2>2. asked \in [Filter -> Trigger]
    BY NeededType, <1>1
  <2>3. \A flt \in Filter :
          needed[flt] # "none" /\ Ends(s, flt) /\ flt \notin nd.eof => <<f, flt>> \in active
    BY <1>4, <1>5, <1>6, <2>1, <2>2 DEF Trigger
  <2>4. CASE "in" \in nd.events /\ Tells(s, "read")
    <3>1. needed["read"] = "level"
      BY <2>1, <2>4 DEF AskedFilters, Filter
    <3>. QED
      BY <3>1, <2>4, <1>4 DEF Filter
  <2>5. CASE "out" \in nd.events /\ Tells(s, "write")
    <3>1. needed["write"] = "level"
      BY <2>1, <2>5 DEF AskedFilters, Filter
    <3>. QED
      BY <3>1, <2>5, <1>4 DEF Filter
  <2>6. CASE "rdhup" \in nd.events /\ Ends(s, "read")
    <3>1. needed["read"] # "none" /\ ("read" \in nd.eof => needed["read"] = "level")
      BY <2>1, <2>6 DEF AskedFilters, Filter
    <3>. QED
      BY <3>1, <2>3, <2>6, <1>4, <1>6 DEF Filter
  <2>7. CASE Ends(s, "read") /\ Ends(s, "write")
    <3>1. \E flt \in Filter : needed[flt] # "none" /\ flt \notin nd.eof
      <4>1. CASE nd.eof = {}
        BY <2>1, <4>1 DEF Filter
      <4>2. CASE nd.eof # {}
        <5>1. PICK flt \in Filter : flt \notin nd.eof
          BY <1>1, <1>10 DEF BothEnds
        <5>. QED
          BY <5>1, <4>2, <2>1
      <4>. QED
        BY <4>1, <4>2
    <3>. QED
      BY <3>1, <2>3, <2>7 DEF Filter
  <2>. QED
    BY <1>8, <2>4, <2>5, <2>6, <2>7
<1>. QED
  BY <1>9, <1>10

\* epoll_wait never sleeps over an event, for any number of sockets.
THEOREM NothingIsMissed == Spec => []NeverDeaf
BY Invariance, InvNeverDeaf, PTL

-----------------------------------------------------------------------------
(* What a report says: the invariant that the refinement needs.            *)

\* What would be reported of a node whose socket is in state s.
DueOf(nd, s) ==
  IF ~nd.registered THEN {}
  ELSE {e \in Event :
          \/ e = "hup" /\ (s.rst \/ (s.fin /\ s.shut))
          \/ e \in nd.events /\ e = "in" /\ Tells(s, "read")
          \/ e \in nd.events /\ e = "rdhup" /\ Ends(s, "read")
          \/ e \in nd.events /\ e = "out" /\ Tells(s, "write")}

\* A hangup that was late was one of which the shim has heard an end since.
LateKnown == \A f \in late : f \in Registered /\ node[f].eof # {}

\* Only a registered descriptor has knotes, and only a knote is active.
OnlyAsked ==
  /\ \A f \in Fd : ~node[f].registered => \A flt \in Filter : knote[f][flt] = "none"
  /\ \A f \in Fd, flt \in Filter : <<f, flt>> \in active => knote[f][flt] # "none"

\* tpws asks for something of every socket of which it has not been told that the stream ends.
MaskKept ==
  \A f \in Fd :
    /\ "hup" \notin node[f].events
    /\ node[f].registered => node[f].events # {} \/ "read" \in node[f].eof

\* A kevent of the batch still tells something; it tells of the ends that were due.
KevsTell ==
  \A kev \in kevs :
    /\ node[kev.fd].registered /\ Tells(sock[kev.fd], kev.filter)
    /\ kev.error => sock[kev.fd].rst
    /\ "hup" \in owed[kev.fd] => kev.eof
    /\ "rdhup" \in owed[kev.fd] /\ kev.filter = "read" => kev.eof

\* Nothing is gathered that is not due, and what was due when kevent was called is due.
GatheredDue == \A f \in Fd : node[f].revents \subseteq DueOf(node[f], sock[f])
OwedDue == phase # "loop" => \A f \in Fd : owed[f] \subseteq DueOf(node[f], sock[f])

\* What a filter that was heard tells, as far as it was asked for, is gathered; all of it when
\* both ends have been seen.
HeardTold ==
  \A f \in Fd :
    /\ "read" \in node[f].got /\ "in" \in node[f].events => "in" \in node[f].revents
    /\ "read" \in node[f].got /\ "rdhup" \in owed[f] => "rdhup" \in node[f].revents
    /\ "write" \in node[f].got /\ "out" \in node[f].events => "out" \in node[f].revents
    /\ "hup" \in owed[f] => node[f].got \subseteq node[f].eof
    /\ node[f].eof = BothEnds /\ node[f].got # {}
         => node[f].events \cup {"hup"} \subseteq node[f].revents

\* A kevent of the filter flt of f is still to be fed.
Coming(f, flt) == \E kev \in kevs : kev.fd = f /\ kev.filter = flt

\* When kevent had room for all, what was due is gathered, or will be when the rest of the
\* batch is fed; or it is a hangup that comes with the next report.
AllComing ==
  phase = "feed" /\ ~full =>
    \A f \in Fd :
      /\ "in" \in owed[f] => "in" \in node[f].revents \/ Coming(f, "read")
      /\ "rdhup" \in owed[f] => "rdhup" \in node[f].revents \/ Coming(f, "read")
      /\ "out" \in owed[f] =>
           \/ "out" \in node[f].revents
           \/ Coming(f, "write")
           \/ Coming(f, "read") /\ node[f].eof = BothEnds
      /\ "hup" \in owed[f] =>
           \/ "hup" \in node[f].revents
           \/ \E flt \in Filter : Coming(f, flt) /\ Filter \subseteq node[f].eof \cup {flt}
           \/ f \notin late /\ owed[f] # {"hup"}

\* The room for kevents has been too small only if there are more descriptors than the caller
\* has room for.
FullCrowded == phase = "feed" /\ full => Cardinality(Registered) > MaxEvents

ReportInv ==
  /\ Inv /\ LateKnown /\ OnlyAsked /\ MaskKept /\ KevsTell
  /\ GatheredDue /\ OwedDue /\ HeardTold /\ AllComing /\ FullCrowded

\* (the definition of Due, node by node)
LEMMA DueIsOf == \A f \in Fd : Due(f) = DueOf(node[f], sock[f])
BY DEF Due, DueOf, Registered

LEMMA DueSame ==
  \A nd, other, s : nd.registered = other.registered /\ nd.events = other.events
                      => DueOf(nd, s) = DueOf(other, s)
<1>. TAKE nd, other, s
<1>. HAVE nd.registered = other.registered /\ nd.events = other.events
<1>. QED
  BY DEF DueOf

LEMMA DueMeans ==
  ASSUME NEW nd, NEW s
  PROVE  LET due == DueOf(nd, s)
         IN /\ "in" \in due => "in" \in nd.events /\ Tells(s, "read")
            /\ "rdhup" \in due => "rdhup" \in nd.events /\ Ends(s, "read")
            /\ "out" \in due => "out" \in nd.events /\ Tells(s, "write")
            /\ "hup" \in due => Ends(s, "read") /\ Ends(s, "write")
            /\ due # {} => nd.registered
            /\ due \subseteq Event
BY DEF DueOf, Ends

\* A socket to which something has happened.
Grows(s, t) ==
  /\ s.data => t.data
  /\ s.room => t.room
  /\ s.fin => t.fin
  /\ s.shut => t.shut
  /\ s.rst => t.rst

\* Then no less is due.
LEMMA DueGrows ==
  ASSUME NEW nd, NEW s \in Socket, NEW t \in Socket, Grows(s, t)
  PROVE  /\ DueOf(nd, s) \subseteq DueOf(nd, t)
         /\ \A flt \in Filter : /\ Ends(s, flt) => Ends(t, flt)
                                /\ Tells(s, flt) => Tells(t, flt)
<1>1. \A flt \in Filter : /\ Ends(s, flt) => Ends(t, flt)
                          /\ Tells(s, flt) => Tells(t, flt)
  BY DEF Grows, Ends, Tells
<1>. QED
  BY <1>1 DEF DueOf, Grows, Filter

\* A kevent that can be fed to nd: the kernel tells it of a socket in state s.
Feedable(nd, kev, s) ==
  /\ nd \in Node /\ kev \in Kevent /\ s \in Socket
  /\ nd.registered
  /\ "hup" \notin nd.events
  /\ nd.revents \subseteq DueOf(nd, s)
  /\ \A flt \in nd.eof : Ends(s, flt)
  /\ kev.filter \in nd.eof => kev.eof
  /\ kev.eof => Ends(s, kev.filter)
  /\ kev.error => s.rst
  /\ Tells(s, kev.filter)

\* What the node nd has become when kev has been fed to it.
FedBy(h, nd, kev, s) ==
  /\ h \in Node /\ h.registered = nd.registered /\ h.events = nd.events
  /\ h.eof = IF kev.eof THEN nd.eof \cup {kev.filter} ELSE nd.eof
  /\ \A flt \in h.eof : Ends(s, flt)
  /\ h.got = IF h.revents = {} THEN nd.got ELSE nd.got \cup {kev.filter}
  /\ nd.revents \subseteq h.revents /\ h.revents \subseteq DueOf(nd, s)
  /\ kev.filter = "read" /\ "in" \in nd.events => "in" \in h.revents
  /\ kev.filter = "read" /\ kev.eof /\ "rdhup" \in nd.events => "rdhup" \in h.revents
  /\ kev.filter = "write" /\ "out" \in nd.events => "out" \in h.revents
  /\ h.eof = BothEnds => nd.events \cup {"hup"} \subseteq h.revents

LEMMA FeedTells ==
  ASSUME NEW nd, NEW kev, NEW s, Feedable(nd, kev, s)
  PROVE  FedBy(FeedEvent(nd, kev), nd, kev, s)
<1>. DEFINE h == FeedEvent(nd, kev)
<1>1. /\ nd \in Node /\ nd.events \in SUBSET Event /\ nd.eof \in SUBSET Filter
      /\ nd.got \in SUBSET Filter /\ nd.revents \in SUBSET Event /\ nd.registered = TRUE
      /\ kev \in Kevent /\ kev.filter \in Filter /\ kev.eof \in BOOLEAN /\ kev.error \in BOOLEAN
  BY DEF Feedable, Node, Kevent
<1>2. /\ h \in Node /\ h.registered = nd.registered /\ h.events = nd.events
      /\ h.eof = EofAfter(nd, kev)
      /\ h.revents = (nd.revents \cup Told(kev, EofAfter(nd, kev))) \cap (nd.events \cup {"hup"})
      /\ h.got = IF h.revents = {} THEN nd.got ELSE nd.got \cup {kev.filter}
  BY <1>1, FeedFacts
<1>. HIDE DEF h
<1>3. h.eof = IF kev.eof THEN nd.eof \cup {kev.filter} ELSE nd.eof
  <2>1. kev.filter \in nd.eof => kev.eof
    BY DEF Feedable
  <2>. QED
    BY <2>1, <1>1, <1>2 DEF EofAfter
<1>4. \A flt \in h.eof : Ends(s, flt)
  BY <1>3 DEF Feedable
<1>5. h.revents = (nd.revents \cup Told(kev, h.eof)) \cap (nd.events \cup {"hup"})
  BY <1>2
<1>6. nd.revents \subseteq h.revents
  BY <1>5 DEF Feedable, DueOf
<1>7. \A flt \in Filter : Ends(s, flt) => Tells(s, flt)
  BY DEF Tells
<1>8. Ends(s, "read") /\ Ends(s, "write") => s.rst \/ (s.fin /\ s.shut)
  BY DEF Ends
<1>9. ASSUME NEW e \in Told(kev, h.eof), e \in nd.events \cup {"hup"} PROVE e \in DueOf(nd, s)
  <2>1. CASE e = "in"
    <3>1. Tells(s, "read")
      BY <2>1, <1>1, <1>4, <1>7 DEF Told, Filter, Feedable
    <3>. QED
      BY <3>1, <2>1, <1>1, <1>9 DEF DueOf, Event
  <2>2. CASE e = "rdhup"
    <3>1. Ends(s, "read")
      BY <2>2, <1>4 DEF Told
    <3>. QED
      BY <3>1, <2>2, <1>1, <1>9 DEF DueOf, Event
  <2>3. CASE e = "out"
    <3>1. Tells(s, "write")
      BY <2>3, <1>1, <1>4, <1>7 DEF Told, Filter, Feedable
    <3>. QED
      BY <3>1, <2>3, <1>1, <1>9 DEF DueOf, Event
  <2>4. CASE e = "hup"
    <3>1. s.rst \/ (s.fin /\ s.shut)
      <4>1. (kev.eof /\ kev.error) \/ h.eof = BothEnds
        BY <2>4 DEF Told
      <4>2. ASSUME h.eof = BothEnds PROVE Ends(s, "read") /\ Ends(s, "write")
        BY <4>2, <1>4 DEF BothEnds, Filter
      <4>. QED
        BY <4>1, <4>2, <1>8 DEF Feedable
    <3>. QED
      BY <3>1, <2>4, <1>1 DEF DueOf, Event
  <2>. QED
    BY <2>1, <2>2, <2>3, <2>4 DEF Told
<1>10. h.revents \subseteq DueOf(nd, s)
  BY <1>5, <1>9 DEF Feedable
<1>11. /\ kev.filter = "read" /\ "in" \in nd.events => "in" \in h.revents
       /\ kev.filter = "read" /\ kev.eof /\ "rdhup" \in nd.events => "rdhup" \in h.revents
       /\ kev.filter = "write" /\ "out" \in nd.events => "out" \in h.revents
  BY <1>3, <1>5 DEF Told
<1>12. h.eof = BothEnds => nd.events \cup {"hup"} \subseteq h.revents
  <2>. HAVE h.eof = BothEnds
  <2>1. Event \subseteq Told(kev, h.eof)
    BY DEF Told, Event, BothEnds, Filter
  <2>. QED
    BY <2>1, <1>1, <1>5 DEF Event
<1>. QED
  BY <1>2, <1>3, <1>4, <1>6, <1>10, <1>11, <1>12 DEF h, FedBy

\* The part of the invariant that is about a batch says nothing outside one.
LEMMA QuietNext ==
  ASSUME Inv', phase' # "feed"
  PROVE  KevsTell' /\ GatheredDue' /\ HeardTold' /\ AllComing' /\ FullCrowded'
<1>1. kevs' = {} /\ \A f \in Fd : node'[f].revents = {} /\ node'[f].got = {}
  BY DEF Inv, Clean
<1>. QED
  BY <1>1 DEF KevsTell, GatheredDue, HeardTold, AllComing, FullCrowded

LEMMA ReportInit == ASSUME Init PROVE ReportInv
<1>1. Inv
  BY InvInit
<1>2. phase = "loop" /\ kevs = {} /\ active = {} /\ late = {}
  BY DEF Init
<1>3. \A f \in Fd : /\ ~node[f].registered /\ node[f].events = {} /\ node[f].revents = {}
                    /\ node[f].got = {} /\ \A flt \in Filter : knote[f][flt] = "none"
  BY DEF Init, NoNode, NoKnote
<1>. QED
  BY <1>1, <1>2, <1>3 DEF ReportInv, LateKnown, OnlyAsked, MaskKept, KevsTell, GatheredDue, OwedDue,
                          HeardTold, AllComing, FullCrowded

\* Whatever happens to a socket while epoll_wait runs, it grows; tpws makes it shrink outside.
LEMMA HappensReport ==
  ASSUME ReportInv, Inv', NEW f \in Fd, NEW s \in Socket, NEW flts \in SUBSET Filter,
         Happens(f, s, flts), phase # "loop" => Grows(sock[f], s)
  PROVE  ReportInv'
<1>1. /\ sock' = [sock EXCEPT ![f] = s]
      /\ active' = active \cup Woken(f, knote[f], s, flts)
      /\ UNCHANGED <<knote, front, node, phase, kevs, full, report, owed, late>>
  BY DEF Happens
<1>2. TypeOK
  BY DEF ReportInv, Inv
<1>3. LateKnown' /\ MaskKept' /\ HeardTold'
  BY <1>1 DEF ReportInv, LateKnown, MaskKept, HeardTold, Registered
<1>4. AllComing' /\ FullCrowded'
  BY <1>1 DEF ReportInv, AllComing, FullCrowded, Registered, Coming
<1>5. OnlyAsked'
  <2>1. \A g \in Fd, flt \in Filter : <<g, flt>> \in active' => knote[g][flt] # "none"
    BY <1>1, WokenFacts DEF ReportInv, OnlyAsked
  <2>. QED
    BY <1>1, <2>1 DEF ReportInv, OnlyAsked
<1>6. CASE phase = "loop"
  <2>1. KevsTell' /\ GatheredDue'
    BY <1>1, <1>6, QuietNext
  <2>2. OwedDue'
    BY <1>1, <1>6 DEF OwedDue
  <2>. QED
    BY <2>1, <2>2, <1>3, <1>4, <1>5 DEF ReportInv
<1>7. CASE phase # "loop"
  <2>1. \A g \in Fd : /\ sock[g] \in Socket /\ sock'[g] \in Socket /\ Grows(sock[g], sock'[g])
    BY <1>1, <1>2, <1>7 DEF TypeOK, Grows
  <2>2. \A g \in Fd : /\ DueOf(node[g], sock[g]) \subseteq DueOf(node[g], sock'[g])
                      /\ \A flt \in Filter : Tells(sock[g], flt) => Tells(sock'[g], flt)
    BY <2>1, DueGrows
  <2>3. KevsTell'
    <3>1. \A kev \in kevs : kev.fd \in Fd /\ kev.filter \in Filter
      BY <1>2 DEF TypeOK, Kevent
    <3>. QED
      BY <3>1, <2>1, <2>2, <1>1 DEF ReportInv, KevsTell, Grows
  <2>4. GatheredDue' /\ OwedDue'
    BY <2>2, <1>1, <1>7 DEF ReportInv, GatheredDue, OwedDue
  <2>. QED
    BY <2>3, <2>4, <1>3, <1>4, <1>5 DEF ReportInv
<1>. QED
  BY <1>6, <1>7

\* The kernel and tpws use the sockets.
LEMMA SocketsReport ==
  ASSUME ReportInv, Inv', NEW f \in Fd,
         \/ Arrives(f) \/ PeerFinishes(f) \/ Resets(f) \/ GetsRoom(f)
         \/ Reads(f) \/ Writes(f) \/ Shuts(f)
  PROVE  \E s \in Socket, flts \in SUBSET Filter :
           Happens(f, s, flts) /\ (phase # "loop" => Grows(sock[f], s))
<1>. DEFINE old == sock[f]
<1>1. old \in Socket /\ {"read"} \in SUBSET Filter /\ {"write"} \in SUBSET Filter /\ {} \in SUBSET Filter
  BY DEF ReportInv, Inv, TypeOK, Filter
<1>2. CASE Arrives(f)
  <2>1. [old EXCEPT !.data = TRUE] \in Socket /\ Grows(old, [old EXCEPT !.data = TRUE])
    BY <1>1 DEF Socket, Grows
  <2>. QED
    BY <2>1, <1>1, <1>2 DEF Arrives
<1>3. CASE PeerFinishes(f)
  <2>1. [old EXCEPT !.fin = TRUE] \in Socket /\ Grows(old, [old EXCEPT !.fin = TRUE])
    BY <1>1 DEF Socket, Grows
  <2>. QED
    BY <2>1, <1>1, <1>3 DEF PeerFinishes
<1>4. CASE Resets(f)
  <2>1. [old EXCEPT !.rst = TRUE] \in Socket /\ Grows(old, [old EXCEPT !.rst = TRUE])
    BY <1>1 DEF Socket, Grows
  <2>. QED
    BY <2>1, <1>1, <1>4 DEF Resets
<1>5. CASE GetsRoom(f)
  <2>1. [old EXCEPT !.room = TRUE] \in Socket /\ Grows(old, [old EXCEPT !.room = TRUE])
    BY <1>1 DEF Socket, Grows
  <2>. QED
    BY <2>1, <1>1, <1>5 DEF GetsRoom
<1>6. CASE Reads(f)
  <2>1. [old EXCEPT !.data = FALSE] \in Socket
    BY <1>1 DEF Socket
  <2>. QED
    BY <2>1, <1>1, <1>6 DEF Reads
<1>7. CASE Writes(f)
  <2>1. [old EXCEPT !.room = FALSE] \in Socket
    BY <1>1 DEF Socket
  <2>. QED
    BY <2>1, <1>1, <1>7 DEF Writes
<1>8. CASE Shuts(f)
  <2>1. [old EXCEPT !.shut = TRUE] \in Socket
    BY <1>1 DEF Socket
  <2>. QED
    BY <2>1, <1>1, <1>8 DEF Shuts
<1>. QED
  BY <1>2, <1>3, <1>4, <1>5, <1>6, <1>7, <1>8

\* Between two calls no batch is under way: what is left is which descriptors are known, which
\* have knotes, and which are asked for.
LEMMA RegisterReport ==
  ASSUME ReportInv, Inv', NEW f \in Fd, NEW nd \in Node, NEW s,
         phase = "loop", phase' = "loop", late' = late,
         RegisterEvents(f, nd, s), node' = [node EXCEPT ![f] = nd],
         nd.registered, "hup" \notin nd.events, nd.events # {} \/ "read" \in nd.eof,
         f \in late => nd.eof # {}
  PROVE  ReportInv'
<1>1. TypeOK
  BY DEF ReportInv, Inv
<1>2. /\ node' \in [Fd -> Node] /\ node'[f] = nd
      /\ \A g \in Fd : g # f => node'[g] = node[g]
  BY <1>1 DEF TypeOK
<1>3. /\ knote' \in [Fd -> [Filter -> Trigger]]
      /\ knote'[f] = NeededFilters(nd)
      /\ \A g \in Fd : g # f => knote'[g] = knote[g]
  BY <1>1, RegisterFacts
<1>4. KevsTell' /\ GatheredDue' /\ HeardTold' /\ AllComing' /\ FullCrowded'
  BY QuietNext
<1>5. OwedDue'
  BY DEF OwedDue
<1>6. LateKnown'
  BY <1>2 DEF ReportInv, LateKnown, Registered
<1>7. MaskKept'
  BY <1>2 DEF ReportInv, MaskKept
<1>8. OnlyAsked'
  <2>1. \A g \in Fd, flt \in Filter :
          <<g, flt>> \in active' => \/ g = f /\ NeededFilters(nd)[flt] # "none"
                                    \/ g # f /\ <<g, flt>> \in active
    <3>1. active' = (active \ KnotesOf(f)) \cup Woken(f, NeededFilters(nd), s, Filter)
      BY DEF RegisterEvents
    <3>. QED
      BY <3>1, WokenFacts DEF KnotesOf
  <2>. QED
    BY <2>1, <1>2, <1>3 DEF ReportInv, OnlyAsked
<1>. QED
  BY <1>4, <1>5, <1>6, <1>7, <1>8 DEF ReportInv

LEMMA ControlReport ==
  ASSUME ReportInv, Inv', NEW f \in Fd, Add(f) \/ Modify(f) \/ Delete(f)
  PROVE  ReportInv'
<1>1. ASSUME Add(f) PROVE ReportInv'
  <2>1. PICK mask \in FirstMasks(f), s \in NewSocket(f) :
          /\ node' = [node EXCEPT ![f] = [NoNode EXCEPT !.registered = TRUE, !.events = mask]]
          /\ RegisterEvents(f, [NoNode EXCEPT !.registered = TRUE, !.events = mask], s)
    BY <1>1 DEF Add
  <2>. DEFINE nd == [NoNode EXCEPT !.registered = TRUE, !.events = mask]
  <2>2. mask \in SUBSET Event /\ "hup" \notin mask /\ mask # {}
    BY MaskAssumption DEF FirstMasks, Event
  <2>3. nd \in Node /\ nd.registered /\ nd.events = mask
    BY <2>2 DEF NoNode, Node, Filter
  <2>4. phase = "loop" /\ phase' = "loop" /\ late' = late /\ f \notin late
    BY <1>1 DEF Add, ReportInv, LateKnown
  <2>5. node' = [node EXCEPT ![f] = nd] /\ RegisterEvents(f, nd, s)
    BY <2>1
  <2>. HIDE DEF nd
  <2>. QED
    BY <2>2, <2>3, <2>4, <2>5, RegisterReport
<1>2. ASSUME Modify(f) PROVE ReportInv'
  <2>1. PICK mask \in NextMasks(f) \ {node[f].events} :
          /\ node' = [node EXCEPT ![f] = [node[f] EXCEPT !.events = mask]]
          /\ RegisterEvents(f, [node[f] EXCEPT !.events = mask], sock[f])
    BY <1>2 DEF Modify
  <2>. DEFINE nd == [node[f] EXCEPT !.events = mask]
  <2>2. mask \in SUBSET Event /\ "hup" \notin mask /\ ("rdhup" \in mask \/ "read" \in node[f].eof)
    BY MaskAssumption DEF NextMasks, Event
  <2>3. node[f] \in Node /\ node[f].registered
    BY <1>2 DEF ReportInv, Inv, TypeOK, Modify, Registered
  <2>4. nd \in Node /\ nd.registered /\ nd.events = mask /\ nd.eof = node[f].eof
    BY <2>2, <2>3 DEF Node
  <2>5. phase = "loop" /\ phase' = "loop" /\ late' = late
    BY <1>2 DEF Modify
  <2>6. f \in late => node[f].eof # {}
    BY DEF ReportInv, LateKnown
  <2>7. node' = [node EXCEPT ![f] = nd] /\ RegisterEvents(f, nd, sock[f])
    BY <2>1
  <2>. HIDE DEF nd
  <2>. QED
    BY <2>2, <2>4, <2>5, <2>6, <2>7, RegisterReport
<1>3. ASSUME Delete(f) PROVE ReportInv'
  <2>1. /\ phase' = "loop"
        /\ node' = [node EXCEPT ![f] = NoNode]
        /\ knote' = [knote EXCEPT ![f] = NoKnote]
        /\ active' = active \ KnotesOf(f)
        /\ late' = late \ {f}
    BY <1>3 DEF Delete
  <2>2. /\ node'[f] = NoNode /\ knote'[f] = NoKnote
        /\ \A g \in Fd : g # f => node'[g] = node[g] /\ knote'[g] = knote[g]
        /\ \A g \in Fd, flt \in Filter : <<g, flt>> \in active' => g # f /\ <<g, flt>> \in active
    BY <2>1 DEF ReportInv, Inv, TypeOK, KnotesOf
  <2>3. NoNode.registered = FALSE /\ NoNode.events = {} /\ \A flt \in Filter : NoKnote[flt] = "none"
    BY DEF NoNode, NoKnote
  <2>4. KevsTell' /\ GatheredDue' /\ HeardTold' /\ AllComing' /\ FullCrowded'
    BY <2>1, QuietNext
  <2>5. OwedDue'
    BY <2>1 DEF OwedDue
  <2>6. LateKnown'
    BY <2>1, <2>2 DEF ReportInv, LateKnown, Registered
  <2>7. MaskKept'
    BY <2>2, <2>3 DEF ReportInv, MaskKept
  <2>8. OnlyAsked'
    BY <2>2, <2>3 DEF ReportInv, OnlyAsked
  <2>. QED
    BY <2>4, <2>5, <2>6, <2>7, <2>8 DEF ReportInv
<1>. QED
  BY <1>1, <1>2, <1>3

LEMMA EpollWaitReport == ASSUME ReportInv, Inv', EpollWait PROVE ReportInv'
<1>1. /\ phase' = "poll" /\ owed' = Silent
      /\ UNCHANGED <<sock, knote, active, node, late>>
  BY DEF EpollWait
<1>2. KevsTell' /\ GatheredDue' /\ HeardTold' /\ AllComing' /\ FullCrowded'
  BY <1>1, QuietNext
<1>3. LateKnown' /\ OnlyAsked' /\ MaskKept'
  BY <1>1 DEF ReportInv, LateKnown, OnlyAsked, MaskKept, Registered
<1>4. OwedDue'
  BY <1>1 DEF OwedDue, Silent
<1>. QED
  BY <1>2, <1>3, <1>4 DEF ReportInv

\* What a node of which something is asked, or of which an end was seen, needs.
LEMMA NeededFacts ==
  ASSUME NEW nd \in Node
  PROVE  LET needed == NeededFilters(nd)
         IN /\ "in" \in nd.events => needed["read"] = "level"
            /\ "rdhup" \in nd.events =>
                 needed["read"] # "none" /\ ("read" \in nd.eof => needed["read"] = "level")
            /\ "out" \in nd.events =>
                 needed["write"] = "level" \/ (nd.eof = BothEnds /\ needed["read"] = "level")
            /\ nd.eof = BothEnds => \E flt \in Filter : needed[flt] = "level"
            /\ nd.eof # {} /\ nd.eof # BothEnds => \A flt \in Filter \ nd.eof : needed[flt] # "none"
<1>. DEFINE asked == AskedFilters(nd)
            needed == NeededFilters(nd)
            read == IF "level" \in {asked["read"], asked["write"]} THEN asked["read"] ELSE "level"
<1>1. /\ asked["write"] = IF "out" \in nd.events THEN "level" ELSE "none"
      /\ asked["read"] = IF "in" \in nd.events THEN "level"
                         ELSE IF "rdhup" \notin nd.events THEN "none"
                         ELSE IF "read" \in nd.eof THEN "level" ELSE "clear"
  BY DEF AskedFilters, Filter
<1>2. CASE nd.eof = BothEnds
  <2>1. needed = [flt \in Filter |->
                    IF flt = "read" THEN read ELSE IF read = "none" THEN asked["write"] ELSE "none"]
    BY <1>2 DEF NeededFilters
  <2>2. needed["read"] = read /\ needed["write"] = IF read = "none" THEN asked["write"] ELSE "none"
    BY <2>1 DEF Filter
  <2>3. "read" \in nd.eof
    BY <1>2 DEF BothEnds, Filter
  <2>. QED
    BY <1>1, <1>2, <2>2, <2>3 DEF Filter
<1>3. CASE nd.eof # BothEnds
  <2>1. needed = [flt \in Filter |->
                    IF asked[flt] # "none" THEN asked[flt]
                    ELSE IF nd.eof # {} /\ flt \notin nd.eof THEN "clear"
                    ELSE IF nd.eof = {} /\ flt = "read" /\ asked["write"] = "none" THEN "clear"
                    ELSE "none"]
    BY <1>3 DEF NeededFilters
  <2>2. \A flt \in Filter : asked[flt] # "none" => needed[flt] = asked[flt]
    BY <2>1
  <2>3. nd.eof # {} => \A flt \in Filter \ nd.eof : needed[flt] # "none"
    BY <2>1
  <2>. QED
    BY <1>1, <1>3, <2>2, <2>3 DEF Filter
<1>. QED
  BY <1>2, <1>3

\* What was due when kevent is called is told by a knote that is active.
LEMMA DueTalks ==
  ASSUME ReportInv, phase = "poll", NEW f \in Fd
  PROVE  LET nd == node[f]
             due == DueOf(node[f], sock[f])
         IN /\ "in" \in due => <<f, "read">> \in Talking
            /\ "rdhup" \in due => <<f, "read">> \in Talking
            /\ "out" \in due => \/ <<f, "write">> \in Talking
                                \/ <<f, "read">> \in Talking /\ nd.eof = BothEnds
            /\ "hup" \in due =>
                 \/ \E flt \in Filter : <<f, flt>> \in Talking /\ Filter \subseteq nd.eof \cup {flt}
                 \/ f \notin late /\ due # {"hup"}
<1>. DEFINE nd == node[f]
            s == sock[f]
            needed == NeededFilters(nd)
            due == DueOf(nd, s)
<1>1. nd \in Node /\ s \in Socket /\ nd.events \in SUBSET Event /\ nd.eof \in SUBSET Filter
  BY DEF ReportInv, Inv, TypeOK, Node
<1>2. CASE ~nd.registered
  BY <1>2 DEF DueOf
<1>3. CASE nd.registered
  <2>1. knote[f] = needed
    BY <1>3 DEF ReportInv, Inv, Fits, Registered
  <2>2. \A flt \in nd.eof : Ends(s, flt)
    BY DEF ReportInv, Inv, EofTrue
  <2>3. \A flt \in Filter : needed[flt] = "level" /\ Tells(s, flt) => <<f, flt>> \in Talking
    BY <2>1 DEF ReportInv, Inv, LevelActive, Talking
  <2>4. \A flt \in Filter : Ends(s, flt) => Tells(s, flt)
    BY DEF Tells
  <2>5. \A flt \in Filter :
          needed[flt] # "none" /\ Ends(s, flt) /\ flt \notin nd.eof => <<f, flt>> \in Talking
    <3>1. \A flt \in Filter : needed[flt] \in {"none", "level", "clear"}
      BY <1>1, NeededType DEF Trigger
    <3>2. \A flt \in Filter : needed[flt] = "clear" /\ Ends(s, flt) /\ flt \notin nd.eof
                                => <<f, flt>> \in Talking
      BY <2>1, <2>4 DEF ReportInv, Inv, ClearHeard, Clean, Talking
    <3>. QED
      BY <3>1, <3>2, <2>3, <2>4
  <2>6. /\ "in" \in nd.events => needed["read"] = "level"
        /\ "rdhup" \in nd.events =>
             needed["read"] # "none" /\ ("read" \in nd.eof => needed["read"] = "level")
        /\ "out" \in nd.events =>
             needed["write"] = "level" \/ (nd.eof = BothEnds /\ needed["read"] = "level")
        /\ nd.eof = BothEnds => \E flt \in Filter : needed[flt] = "level"
        /\ nd.eof # {} /\ nd.eof # BothEnds => \A flt \in Filter \ nd.eof : needed[flt] # "none"
    BY <1>1, NeededFacts
  <2>7. "in" \in due => "in" \in nd.events /\ Tells(s, "read")
    BY DueMeans
  <2>8. "rdhup" \in due => "rdhup" \in nd.events /\ Ends(s, "read")
    BY DueMeans
  <2>9. "out" \in due => "out" \in nd.events /\ Tells(s, "write")
    BY DueMeans
  <2>10. "hup" \in due => Ends(s, "read") /\ Ends(s, "write")
    BY DueMeans
  <2>11. ASSUME "out" \in due
         PROVE  \/ <<f, "write">> \in Talking
                \/ <<f, "read">> \in Talking /\ nd.eof = BothEnds
    <3>1. CASE needed["write"] = "level"
      BY <3>1, <2>3, <2>9, <2>11 DEF Filter
    <3>2. CASE nd.eof = BothEnds /\ needed["read"] = "level"
      BY <3>2, <2>2, <2>3, <2>4 DEF Filter, BothEnds
    <3>. QED
      BY <3>1, <3>2, <2>6, <2>9, <2>11
  <2>12. ASSUME "hup" \in due
         PROVE  \/ \E flt \in Filter : <<f, flt>> \in Talking /\ Filter \subseteq nd.eof \cup {flt}
                \/ f \notin late /\ due # {"hup"}
    <3>1. CASE nd.eof = BothEnds
      <4>1. PICK flt \in Filter : needed[flt] = "level"
        BY <3>1, <2>6
      <4>2. <<f, flt>> \in Talking
        BY <4>1, <3>1, <2>2, <2>3, <2>4 DEF BothEnds
      <4>. QED
        BY <4>2, <3>1 DEF BothEnds
    <3>2. CASE nd.eof # {} /\ nd.eof # BothEnds
      <4>1. PICK flt \in Filter : flt \notin nd.eof /\ Filter \subseteq nd.eof \cup {flt}
        BY <3>2, <1>1 DEF BothEnds, Filter
      <4>2. <<f, flt>> \in Talking
        BY <4>1, <3>2, <2>5, <2>6, <2>10, <2>12 DEF Filter
      <4>. QED
        BY <4>1, <4>2
    <3>3. CASE nd.eof = {}
      <4>1. f \notin late
        BY <3>3 DEF ReportInv, LateKnown
      <4>2. PICK e \in Event : e \in nd.events /\ e # "hup"
        BY <3>3, <1>1, <1>3 DEF ReportInv, MaskKept
      <4>3. e \in due
        BY <4>2, <2>4, <2>10, <2>12, <1>3 DEF DueOf, Event, Filter
      <4>. QED
        BY <4>1, <4>2, <4>3
    <3>. QED
      BY <3>1, <3>2, <3>3
  <2>. HIDE DEF nd, s, needed, due
  <2>13. ("in" \in due => <<f, "read">> \in Talking) /\ ("rdhup" \in due => <<f, "read">> \in Talking)
    BY <2>3, <2>4, <2>5, <2>6, <2>7, <2>8 DEF Filter
  <2>. QED
    BY <2>11, <2>12, <2>13 DEF nd, s, due
<1>. QED
  BY <1>2, <1>3

\* The knotes that talk are two for a descriptor at most.
LEMMA TalkingBound ==
  ASSUME ReportInv
  PROVE  /\ IsFiniteSet(Talking) /\ Cardinality(Talking) <= 2 * Cardinality(Registered)
         /\ Cardinality(Registered) \in Nat
<1>1. IsFiniteSet(Registered)
  BY ShimAssumption, FS_Subset DEF Registered
<1>2. IsFiniteSet(Filter) /\ Cardinality(Filter) = 2
  <2>1. IsFiniteSet({"write"}) /\ Cardinality({"write"}) = 1
    BY FS_Singleton
  <2>2. Filter = {"write"} \cup {"read"} /\ "read" \notin {"write"}
    BY DEF Filter
  <2>3. IsFiniteSet({"write"} \cup {"read"}) /\ Cardinality({"write"} \cup {"read"}) = 1 + 1
    BY <2>1, <2>2, FS_AddElement
  <2>. QED
    BY <2>2, <2>3
<1>3. /\ IsFiniteSet(Registered \X Filter)
      /\ Cardinality(Registered \X Filter) = Cardinality(Registered) * Cardinality(Filter)
  BY <1>1, <1>2, FS_Product
<1>4. Talking \in SUBSET (Registered \X Filter)
  BY DEF Talking, Registered, Knote, ReportInv, OnlyAsked, Inv, TypeOK
<1>5. /\ IsFiniteSet(Talking)
      /\ Cardinality(Talking) <= Cardinality(Registered \X Filter)
  BY <1>3, <1>4, FS_Subset
<1>6. Cardinality(Registered) \in Nat
  BY <1>1, FS_CardinalityType
<1>. QED
  BY <1>2, <1>3, <1>5, <1>6

LEMMA RetrieveReport == ASSUME ReportInv, Inv', Retrieve PROVE ReportInv'
<1>1. PICK taken \in SUBSET Talking :
        /\ Cardinality(taken) = IF Cardinality(Talking) < Count THEN Cardinality(Talking) ELSE Count
        /\ kevs' = {KeventOf(k[1], k[2]) : k \in taken}
        /\ full' = (Cardinality(taken) = Count)
        /\ active' = (Talking \ taken) \cup {k \in taken : IsLevel(k)}
  BY DEF Retrieve
<1>2. /\ phase = "poll" /\ owed' = [f \in Fd |-> Due(f)]
      /\ UNCHANGED <<sock, knote, node, late>>
  BY DEF Retrieve
<1>3. /\ TypeOK /\ \A f \in Fd : node[f].got = {} /\ node[f].revents = {}
  BY <1>2 DEF ReportInv, Inv, Clean
<1>4. \A f \in Fd : owed'[f] = DueOf(node[f], sock[f])
  BY <1>2, DueIsOf
<1>5. \A k \in Talking : /\ k[1] \in Fd /\ k[2] \in Filter /\ k = <<k[1], k[2]>>
                         /\ k \in active /\ Tells(sock[k[1]], k[2])
  BY <1>3 DEF Talking, TypeOK, Knote
<1>6. LateKnown' /\ MaskKept'
  BY <1>2 DEF ReportInv, LateKnown, MaskKept, Registered
<1>7. OnlyAsked'
  BY <1>1, <1>2, <1>5 DEF ReportInv, OnlyAsked
<1>8. GatheredDue' /\ OwedDue'
  BY <1>2, <1>3, <1>4 DEF GatheredDue, OwedDue
<1>9. HeardTold'
  BY <1>2, <1>3 DEF HeardTold
<1>10. \A k \in taken : LET kev == KeventOf(k[1], k[2])
                        IN /\ kev.fd = k[1] /\ kev.filter = k[2]
                           /\ kev.eof = Ends(sock[k[1]], k[2])
                           /\ kev.error = sock[k[1]].rst
  BY <1>3, <1>5, KeventFacts DEF TypeOK
<1>11. KevsTell'
  <2>. SUFFICES ASSUME NEW k \in taken
                PROVE  LET kev == KeventOf(k[1], k[2])
                       IN /\ node[kev.fd].registered /\ Tells(sock[kev.fd], kev.filter)
                          /\ kev.error => sock[kev.fd].rst
                          /\ "hup" \in owed'[kev.fd] => kev.eof
                          /\ "rdhup" \in owed'[kev.fd] /\ kev.filter = "read" => kev.eof
    BY <1>1, <1>2 DEF KevsTell
  <2>1. PICK f \in Fd, flt \in Filter :
          k = <<f, flt>> /\ k[1] = f /\ k[2] = flt /\ <<f, flt>> \in active /\ Tells(sock[f], flt)
    BY <1>5
  <2>2. node[f].registered
    <3>1. knote[f][flt] # "none"
      BY <2>1 DEF ReportInv, OnlyAsked
    <3>. QED
      BY <3>1 DEF ReportInv, OnlyAsked
  <2>3. owed'[f] = DueOf(node[f], sock[f])
    BY <2>1, <1>4
  <2>4. /\ "hup" \in owed'[f] => Ends(sock[f], flt)
        /\ "rdhup" \in owed'[f] /\ flt = "read" => Ends(sock[f], flt)
    BY <2>1, <2>3, DueMeans DEF Filter
  <2>5. LET kev == KeventOf(k[1], k[2])
        IN /\ kev.fd = f /\ kev.filter = flt /\ kev.eof = Ends(sock[f], flt)
           /\ kev.error = sock[f].rst
    BY <2>1, <1>10
  <2>. QED
    BY <2>1, <2>2, <2>3, <2>4, <2>5
<1>12. AllComing'
  <2>. SUFFICES ASSUME ~full', NEW f \in Fd
                PROVE  LET due == DueOf(node[f], sock[f])
                       IN /\ "in" \in due => Coming(f, "read")'
                          /\ "rdhup" \in due => Coming(f, "read")'
                          /\ "out" \in due => \/ Coming(f, "write")'
                                              \/ Coming(f, "read")' /\ node[f].eof = BothEnds
                          /\ "hup" \in due =>
                               \/ \E flt \in Filter : /\ Coming(f, flt)'
                                                      /\ Filter \subseteq node[f].eof \cup {flt}
                               \/ f \notin late /\ due # {"hup"}
    BY <1>2, <1>4 DEF AllComing
  <2>1. taken = Talking
    <3>1. Cardinality(taken) = Cardinality(Talking)
      BY <1>1
    <3>. QED
      BY <3>1, TalkingBound, FS_Subset
  <2>2. \A flt \in Filter : <<f, flt>> \in Talking => Coming(f, flt)'
    <3>. SUFFICES ASSUME NEW flt \in Filter, <<f, flt>> \in taken PROVE Coming(f, flt)'
      BY <2>1
    <3>1. KeventOf(f, flt) \in kevs' /\ KeventOf(f, flt).fd = f /\ KeventOf(f, flt).filter = flt
      BY <1>1, <1>3, KeventFacts DEF TypeOK
    <3>. QED
      BY <3>1 DEF Coming
  <2>. DEFINE due == DueOf(node[f], sock[f])
  <2>3. /\ "in" \in due => <<f, "read">> \in Talking
        /\ "rdhup" \in due => <<f, "read">> \in Talking
        /\ "out" \in due => \/ <<f, "write">> \in Talking
                            \/ <<f, "read">> \in Talking /\ node[f].eof = BothEnds
        /\ "hup" \in due =>
             \/ \E flt \in Filter : <<f, flt>> \in Talking /\ Filter \subseteq node[f].eof \cup {flt}
             \/ f \notin late /\ due # {"hup"}
    BY <1>2, DueTalks
  <2>. HIDE DEF due
  <2>4. "read" \in Filter /\ "write" \in Filter
    BY DEF Filter
  <2>. QED
    BY <2>2, <2>3, <2>4 DEF due
<1>13. FullCrowded'
  <2>. SUFFICES ASSUME Cardinality(taken) = Count PROVE Cardinality(Registered) > MaxEvents
    BY <1>1, <1>2 DEF FullCrowded, Registered
  <2>1. /\ Cardinality(taken) <= 2 * Cardinality(Registered)
        /\ Cardinality(Registered) \in Nat /\ Cardinality(taken) \in Nat
    <3>1. IsFiniteSet(taken) /\ Cardinality(taken) <= Cardinality(Talking)
      BY TalkingBound, FS_Subset
    <3>2. Cardinality(taken) \in Nat /\ Cardinality(Talking) \in Nat
      BY <3>1, TalkingBound, FS_CardinalityType
    <3>. QED
      BY <3>1, <3>2, TalkingBound
  <2>2. MaxEvents \in Nat
    BY ShimAssumption
  <2>. QED
    BY <2>1, <2>2 DEF Count
<1>. QED
  BY <1>6, <1>7, <1>8, <1>9, <1>11, <1>12, <1>13 DEF ReportInv

\* One kevent is fed: what it tells is gathered, the rest of the batch is still to come.
LEMMA FeedReport == ASSUME ReportInv, Inv', Feed PROVE ReportInv'
<1>1. PICK kev \in kevs :
        /\ node' = [node EXCEPT ![kev.fd] = FeedEvent(node[kev.fd], kev)]
        /\ IF NeededFilters(FeedEvent(node[kev.fd], kev)) # NeededFilters(node[kev.fd])
           THEN RegisterEvents(kev.fd, FeedEvent(node[kev.fd], kev), sock[kev.fd])
           ELSE UNCHANGED <<knote, active, front>>
        /\ kevs' = kevs \ {kev}
  BY DEF Feed
<1>2. /\ phase = "feed" /\ UNCHANGED <<sock, phase, full, owed, late>>
  BY DEF Feed
<1>3. TypeOK
  BY DEF ReportInv, Inv
<1>4. PICK f \in Fd : f = kev.fd
  BY <1>3 DEF TypeOK, Kevent
<1>5. PICK old \in Node : old = node[f]
  BY <1>3 DEF TypeOK
<1>6. PICK s \in Socket : s = sock[f]
  BY <1>3 DEF TypeOK
<1>7. /\ kev \in Kevent /\ kev.filter \in Filter /\ kev.eof \in BOOLEAN
      /\ old.eof \in SUBSET Filter /\ old.got \in SUBSET Filter
  BY <1>3, <1>5 DEF TypeOK, Kevent, Node
<1>8. Feedable(old, kev, s)
  <2>1. old.registered /\ Tells(s, kev.filter) /\ (kev.error => s.rst)
    BY <1>4, <1>5, <1>6 DEF ReportInv, KevsTell
  <2>2. "hup" \notin old.events /\ old.revents \subseteq DueOf(old, s)
    BY <1>5, <1>6 DEF ReportInv, MaskKept, GatheredDue
  <2>3. \A flt \in old.eof : Ends(s, flt)
    BY <1>5, <1>6 DEF ReportInv, Inv, EofTrue
  <2>4. (kev.filter \in old.eof => kev.eof) /\ (kev.eof => Ends(s, kev.filter))
    BY <1>4, <1>5, <1>6 DEF ReportInv, Inv, KevsTrue
  <2>. QED
    BY <1>7, <2>1, <2>2, <2>3, <2>4 DEF Feedable
<1>9. PICK nd \in Node : nd = FeedEvent(old, kev) /\ FedBy(nd, old, kev, s)
  BY <1>8, FeedTells DEF FedBy
<1>10. /\ node' \in [Fd -> Node] /\ node'[f] = nd
       /\ \A g \in Fd : g # f => node'[g] = node[g]
  BY <1>1, <1>3, <1>4, <1>5, <1>9 DEF TypeOK
<1>11. /\ nd.registered = old.registered /\ nd.events = old.events
       /\ nd.eof = IF kev.eof THEN old.eof \cup {kev.filter} ELSE old.eof
       /\ old.eof \subseteq nd.eof /\ old.revents \subseteq nd.revents
       /\ nd.got \subseteq old.got \cup {kev.filter}
       /\ nd.revents \subseteq DueOf(old, s)
       /\ kev.filter = "read" /\ "in" \in old.events => "in" \in nd.revents
       /\ kev.filter = "read" /\ kev.eof /\ "rdhup" \in old.events => "rdhup" \in nd.revents
       /\ kev.filter = "write" /\ "out" \in old.events => "out" \in nd.revents
       /\ nd.eof = BothEnds => old.events \cup {"hup"} \subseteq nd.revents
  BY <1>9 DEF FedBy
<1>12. \A g \in Fd : /\ node'[g].registered = node[g].registered
                     /\ node'[g].events = node[g].events
                     /\ node[g].eof \subseteq node'[g].eof
                     /\ node[g].revents \subseteq node'[g].revents
  BY <1>5, <1>10, <1>11
<1>13. Registered' = Registered
  BY <1>12 DEF Registered
<1>14. \A g \in Fd : DueOf(node'[g], sock'[g]) = DueOf(node[g], sock[g])
  <2>1. \A g \in Fd : DueOf(node'[g], sock[g]) = DueOf(node[g], sock[g])
    BY <1>12, DueSame
  <2>. QED
    BY <2>1, <1>2
<1>15. LateKnown' /\ MaskKept'
  <2>1. LateKnown'
    BY <1>2, <1>3, <1>12, <1>13 DEF ReportInv, LateKnown, TypeOK
  <2>2. MaskKept'
    BY <1>12 DEF ReportInv, MaskKept
  <2>. QED
    BY <2>1, <2>2
<1>16. OnlyAsked'
  <2>1. CASE NeededFilters(nd) # NeededFilters(old)
    <3>1. RegisterEvents(f, nd, s)
      BY <2>1, <1>1, <1>4, <1>5, <1>6, <1>9
    <3>2. /\ knote' \in [Fd -> [Filter -> Trigger]]
          /\ knote'[f] = NeededFilters(nd)
          /\ \A g \in Fd : g # f => knote'[g] = knote[g]
      BY <3>1, <1>3, RegisterFacts
    <3>3. \A g \in Fd, flt \in Filter :
            <<g, flt>> \in active' => \/ g = f /\ NeededFilters(nd)[flt] # "none"
                                      \/ g # f /\ <<g, flt>> \in active
      <4>1. active' = (active \ KnotesOf(f)) \cup Woken(f, NeededFilters(nd), s, Filter)
        BY <3>1 DEF RegisterEvents
      <4>. QED
        BY <4>1, WokenFacts DEF KnotesOf
    <3>4. node[f].registered
      BY <1>5, <1>8 DEF Feedable
    <3>. QED
      BY <3>2, <3>3, <3>4, <1>12 DEF ReportInv, OnlyAsked
  <2>2. CASE NeededFilters(nd) = NeededFilters(old)
    <3>1. UNCHANGED <<knote, active>>
      BY <2>2, <1>1, <1>4, <1>5, <1>9
    <3>. QED
      BY <3>1, <1>12 DEF ReportInv, OnlyAsked
  <2>. QED
    BY <2>1, <2>2
<1>17. KevsTell'
  <2>1. \A other \in kevs' : other \in kevs /\ other.fd \in Fd
    BY <1>1, <1>3 DEF TypeOK, Kevent
  <2>. QED
    BY <2>1, <1>2, <1>12 DEF ReportInv, KevsTell
<1>18. GatheredDue' /\ OwedDue'
  <2>1. \A g \in Fd : node'[g].revents \subseteq DueOf(node[g], sock[g])
    BY <1>5, <1>6, <1>10, <1>11 DEF ReportInv, GatheredDue
  <2>. QED
    BY <2>1, <1>2, <1>14 DEF ReportInv, GatheredDue, OwedDue
<1>19. /\ "in" \in owed[f] => "in" \in old.events
       /\ "rdhup" \in owed[f] => "rdhup" \in old.events
       /\ "out" \in owed[f] => "out" \in old.events
  <2>1. owed[f] \subseteq DueOf(old, s)
    BY <1>2, <1>5, <1>6 DEF ReportInv, OwedDue
  <2>. QED
    BY <2>1, DueMeans
<1>20. /\ "hup" \in owed[f] => kev.eof
       /\ "rdhup" \in owed[f] /\ kev.filter = "read" => kev.eof
  BY <1>4 DEF ReportInv, KevsTell
<1>21. HeardTold'
  <2>1. /\ "read" \in old.got /\ "in" \in old.events => "in" \in old.revents
        /\ "read" \in old.got /\ "rdhup" \in owed[f] => "rdhup" \in old.revents
        /\ "write" \in old.got /\ "out" \in old.events => "out" \in old.revents
        /\ "hup" \in owed[f] => old.got \subseteq old.eof
    BY <1>5 DEF ReportInv, HeardTold
  <2>2. "read" \in nd.got /\ "in" \in nd.events => "in" \in nd.revents
    BY <2>1, <1>11
  <2>3. "read" \in nd.got /\ "rdhup" \in owed[f] => "rdhup" \in nd.revents
    BY <2>1, <1>11, <1>19, <1>20
  <2>4. "write" \in nd.got /\ "out" \in nd.events => "out" \in nd.revents
    BY <2>1, <1>11
  <2>5. "hup" \in owed[f] => nd.got \subseteq nd.eof
    BY <2>1, <1>11, <1>20
  <2>6. nd.eof = BothEnds => nd.events \cup {"hup"} \subseteq nd.revents
    BY <1>11
  <2>7. owed' = owed
    BY <1>2
  <2>. QED
    BY <2>2, <2>3, <2>4, <2>5, <2>6, <2>7, <1>10 DEF ReportInv, HeardTold
<1>22. AllComing'
  <2>. SUFFICES ASSUME ~full, NEW g \in Fd
                PROVE  /\ "in" \in owed[g] => "in" \in node'[g].revents \/ Coming(g, "read")'
                       /\ "rdhup" \in owed[g] => "rdhup" \in node'[g].revents \/ Coming(g, "read")'
                       /\ "out" \in owed[g] =>
                            \/ "out" \in node'[g].revents
                            \/ Coming(g, "write")'
                            \/ Coming(g, "read")' /\ node'[g].eof = BothEnds
                       /\ "hup" \in owed[g] =>
                            \/ "hup" \in node'[g].revents
                            \/ \E flt \in Filter : /\ Coming(g, flt)'
                                                   /\ Filter \subseteq node'[g].eof \cup {flt}
                            \/ g \notin late /\ owed[g] # {"hup"}
    BY <1>2 DEF AllComing
  <2>1. /\ "in" \in owed[g] => "in" \in node[g].revents \/ Coming(g, "read")
        /\ "rdhup" \in owed[g] => "rdhup" \in node[g].revents \/ Coming(g, "read")
        /\ "out" \in owed[g] =>
             \/ "out" \in node[g].revents
             \/ Coming(g, "write")
             \/ Coming(g, "read") /\ node[g].eof = BothEnds
        /\ "hup" \in owed[g] =>
             \/ "hup" \in node[g].revents
             \/ \E flt \in Filter : Coming(g, flt) /\ Filter \subseteq node[g].eof \cup {flt}
             \/ g \notin late /\ owed[g] # {"hup"}
    BY <1>2 DEF ReportInv, AllComing
  <2>2. \A flt \in Filter : Coming(g, flt) => Coming(g, flt)' \/ (g = f /\ flt = kev.filter)
    BY <1>1, <1>4 DEF Coming
  <2>3. CASE g # f
    <3>1. \A flt \in Filter : Coming(g, flt) => Coming(g, flt)'
      BY <2>2, <2>3
    <3>2. node'[g] = node[g]
      BY <2>3, <1>10
    <3>. QED
      BY <2>1, <3>1, <3>2 DEF Filter
  <2>4. CASE g = f
    <3>1. \A flt \in Filter : Coming(f, flt) => Coming(f, flt)' \/ flt = kev.filter
      BY <2>2, <2>4
    <3>2. /\ "in" \in owed[f] => "in" \in old.revents \/ Coming(f, "read")
          /\ "rdhup" \in owed[f] => "rdhup" \in old.revents \/ Coming(f, "read")
          /\ "out" \in owed[f] =>
               \/ "out" \in old.revents
               \/ Coming(f, "write")
               \/ Coming(f, "read") /\ old.eof = BothEnds
          /\ "hup" \in owed[f] =>
               \/ "hup" \in old.revents
               \/ \E flt \in Filter : Coming(f, flt) /\ Filter \subseteq old.eof \cup {flt}
               \/ f \notin late /\ owed[f] # {"hup"}
      BY <2>1, <2>4, <1>5
    <3>3. nd.eof \subseteq Filter /\ BothEnds = Filter
      BY <1>7, <1>11 DEF BothEnds
    <3>4. "in" \in owed[f] => "in" \in nd.revents \/ Coming(f, "read")'
      BY <3>1, <3>2, <1>11, <1>19 DEF Filter
    <3>5. "rdhup" \in owed[f] => "rdhup" \in nd.revents \/ Coming(f, "read")'
      BY <3>1, <3>2, <1>11, <1>19, <1>20 DEF Filter
    <3>6. "out" \in owed[f] => \/ "out" \in nd.revents
                               \/ Coming(f, "write")'
                               \/ Coming(f, "read")' /\ nd.eof = BothEnds
      <4>. HAVE "out" \in owed[f]
      <4>1. CASE old.eof = BothEnds
        <5>1. nd.eof = BothEnds
          BY <4>1, <3>3, <1>11
        <5>. QED
          BY <5>1, <1>11, <1>19
      <4>2. CASE old.eof # BothEnds
        BY <4>2, <3>1, <3>2, <1>11, <1>19 DEF Filter
      <4>. QED
        BY <4>1, <4>2
    <3>7. "hup" \in owed[f] =>
            \/ "hup" \in nd.revents
            \/ \E flt \in Filter : Coming(f, flt)' /\ Filter \subseteq nd.eof \cup {flt}
            \/ f \notin late /\ owed[f] # {"hup"}
      <4>. SUFFICES ASSUME "hup" \in owed[f], NEW flt \in Filter, Coming(f, flt),
                           Filter \subseteq old.eof \cup {flt}
                    PROVE  "hup" \in nd.revents \/ Coming(f, flt)'
        BY <3>2, <1>11
      <4>1. CASE flt = kev.filter
        <5>1. nd.eof = BothEnds
          BY <4>1, <3>3, <1>11, <1>20
        <5>. QED
          BY <5>1, <1>11
      <4>2. CASE flt # kev.filter
        BY <4>2, <3>1
      <4>. QED
        BY <4>1, <4>2
    <3>. QED
      BY <3>4, <3>5, <3>6, <3>7, <2>4, <1>10
  <2>. QED
    BY <2>3, <2>4
<1>23. FullCrowded'
  BY <1>2, <1>13 DEF ReportInv, FullCrowded
<1>. QED
  BY <1>15, <1>16, <1>17, <1>18, <1>21, <1>22, <1>23 DEF ReportInv

\* A node of which the kernel can be asked again: its socket is in state s.
Askable(nd, s) ==
  /\ nd \in Node /\ nd.registered /\ "hup" \notin nd.events
  /\ nd.revents \subseteq DueOf(nd, s)
  /\ \A flt \in nd.eof : Ends(s, flt)

\* What a filter that was not heard tells is gathered.
LEMMA HearTells ==
  ASSUME ReportInv, NEW f \in Fd, NEW flt \in Filter, NEW nd, Askable(nd, sock[f])
  PROVE  LET h == Hear(nd, f, flt)
         IN /\ Askable(h, sock[f]) /\ h.events = nd.events
            /\ DueOf(h, sock[f]) = DueOf(nd, sock[f])
            /\ nd.eof \subseteq h.eof /\ nd.revents \subseteq h.revents
            /\ flt \in Unheard(f) =>
                 /\ flt = "read" /\ "in" \in nd.events => "in" \in h.revents
                 /\ flt = "read" /\ Ends(sock[f], "read") /\ "rdhup" \in nd.events
                      => "rdhup" \in h.revents
                 /\ flt = "write" /\ "out" \in nd.events => "out" \in h.revents
                 /\ Ends(sock[f], flt) => flt \in h.eof
                 /\ Ends(sock[f], flt) /\ h.eof = BothEnds => "hup" \in h.revents
<1>1. CASE flt \notin Unheard(f)
  BY <1>1 DEF Hear
<1>2. CASE flt \in Unheard(f)
  <2>1. PICK s \in Socket : s = sock[f]
    BY DEF ReportInv, Inv, TypeOK
  <2>2. PICK kev \in Kevent : /\ kev = KeventOf(f, flt) /\ kev.filter = flt
                              /\ kev.eof = Ends(s, flt) /\ kev.error = s.rst
    BY <2>1, KeventFacts DEF ReportInv, Inv, TypeOK
  <2>3. Tells(s, flt)
    BY <1>2, <2>1 DEF Unheard
  <2>4. Feedable(nd, kev, s)
    BY <2>1, <2>2, <2>3 DEF Feedable, Askable
  <2>5. PICK h : h = Hear(nd, f, flt)
    OBVIOUS
  <2>6. FedBy(h, nd, kev, s)
    BY <1>2, <2>2, <2>4, <2>5, FeedTells DEF Hear
  <2>7. DueOf(h, s) = DueOf(nd, s)
    BY <2>6, DueSame DEF FedBy
  <2>8. Askable(h, s)
    BY <2>1, <2>6, <2>7 DEF Askable, FedBy
  <2>9. /\ h.events = nd.events /\ nd.revents \subseteq h.revents
        /\ h.eof = IF kev.eof THEN nd.eof \cup {flt} ELSE nd.eof
        /\ flt = "read" /\ "in" \in nd.events => "in" \in h.revents
        /\ flt = "read" /\ kev.eof /\ "rdhup" \in nd.events => "rdhup" \in h.revents
        /\ flt = "write" /\ "out" \in nd.events => "out" \in h.revents
        /\ h.eof = BothEnds => "hup" \in h.revents
    BY <2>2, <2>6 DEF FedBy
  <2>. QED
    BY <2>1, <2>2, <2>5, <2>7, <2>8, <2>9
<1>. QED
  BY <1>1, <1>2

\* What is handed over of a descriptor is due, and is all that was due, a hangup that was not
\* late before excepted; only when there was no room for all kevents may a descriptor be left out.
LEMMA CompleteTells ==
  ASSUME ReportInv, phase = "feed", kevs = {}, NEW f \in Fd
  PROVE  LET done == Complete(f)
         IN /\ done.revents \subseteq DueOf(node[f], sock[f])
            /\ done.revents = {} <=> node[f].revents = {}
            /\ done.revents # {} \/ ~full =>
                 \A e \in owed[f] : \/ e \in done.revents
                                    \/ e = "hup" /\ f \notin late /\ done.revents # {}
            /\ done.revents # {} /\ "hup" \in owed[f] => done.eof # {}
<1>1. PICK nd \in Node : nd = node[f]
  BY DEF ReportInv, Inv, TypeOK
<1>2. PICK s \in Socket : s = sock[f]
  BY DEF ReportInv, Inv, TypeOK
<1>3. /\ nd.eof \in SUBSET Filter /\ nd.got \in SUBSET Filter /\ owed[f] \in SUBSET Event
  BY DEF ReportInv, Inv, TypeOK, Node
<1>4. nd.revents \subseteq DueOf(nd, s) /\ owed[f] \subseteq DueOf(nd, s)
  BY <1>1, <1>2 DEF ReportInv, GatheredDue, OwedDue
<1>5. /\ "read" \in nd.got /\ "in" \in nd.events => "in" \in nd.revents
      /\ "read" \in nd.got /\ "rdhup" \in owed[f] => "rdhup" \in nd.revents
      /\ "write" \in nd.got /\ "out" \in nd.events => "out" \in nd.revents
      /\ "hup" \in owed[f] => nd.got \subseteq nd.eof
      /\ nd.eof = BothEnds /\ nd.got # {} => nd.events \cup {"hup"} \subseteq nd.revents
  BY <1>1 DEF ReportInv, HeardTold
<1>6. nd.revents # {} => nd.got # {}
  BY <1>1 DEF ReportInv, Inv, GotAsked
<1>7. CASE ~(full /\ nd.revents # {})
  <2>1. Complete(f) = nd
    BY <1>1, <1>7 DEF Complete
  <2>2. ASSUME ~full
        PROVE  \A e \in owed[f] : e \in nd.revents \/ (e = "hup" /\ f \notin late /\ nd.revents # {})
    <3>1. \A flt : ~Coming(f, flt)
      BY DEF Coming
    <3>2. /\ "in" \in owed[f] => "in" \in nd.revents
          /\ "rdhup" \in owed[f] => "rdhup" \in nd.revents
          /\ "out" \in owed[f] => "out" \in nd.revents
          /\ "hup" \in owed[f] => "hup" \in nd.revents \/ (f \notin late /\ owed[f] # {"hup"})
      BY <3>1, <2>2, <1>1 DEF ReportInv, AllComing
    <3>. QED
      BY <3>2, <1>3 DEF Event
  <2>. QED
    BY <2>1, <2>2, <1>1, <1>2, <1>4, <1>5, <1>6, <1>7
<1>8. CASE full /\ nd.revents # {}
  <2>1. nd.registered /\ "hup" \notin nd.events
    <3>1. nd.registered
      BY <1>4, <1>8, DueMeans
    <3>. QED
      BY <3>1, <1>1 DEF ReportInv, MaskKept
  <2>2. Askable(nd, sock[f])
    BY <2>1, <1>1, <1>2, <1>4 DEF Askable, ReportInv, Inv, EofTrue
  <2>3. PICK one : one = Hear(nd, f, "read")
    OBVIOUS
  <2>4. /\ Askable(one, sock[f]) /\ one.events = nd.events
        /\ DueOf(one, s) = DueOf(nd, s)
        /\ nd.eof \subseteq one.eof /\ nd.revents \subseteq one.revents
        /\ "read" \in Unheard(f) =>
             /\ "in" \in nd.events => "in" \in one.revents
             /\ Ends(s, "read") /\ "rdhup" \in nd.events => "rdhup" \in one.revents
             /\ Ends(s, "read") => "read" \in one.eof
             /\ Ends(s, "read") /\ one.eof = BothEnds => "hup" \in one.revents
    BY <2>2, <2>3, <1>2, HearTells DEF Filter
  <2>5. PICK two : two = Hear(one, f, "write")
    OBVIOUS
  <2>6. /\ Askable(two, sock[f])
        /\ DueOf(two, s) = DueOf(one, s)
        /\ one.eof \subseteq two.eof /\ one.revents \subseteq two.revents
        /\ "write" \in Unheard(f) =>
             /\ "out" \in one.events => "out" \in two.revents
             /\ Ends(s, "write") => "write" \in two.eof
             /\ Ends(s, "write") /\ two.eof = BothEnds => "hup" \in two.revents
    BY <2>4, <2>5, <1>2, HearTells DEF Filter
  <2>7. Complete(f) = two
    BY <2>3, <2>5, <1>1, <1>8 DEF Complete
  <2>8. two.revents \subseteq DueOf(nd, s) /\ two.eof \in SUBSET Filter /\ one.eof \in SUBSET Filter
    BY <2>4, <2>6, <1>2 DEF Askable, Node
  <2>9. nd.got # {} /\ nd.revents \subseteq two.revents
    BY <2>4, <2>6, <1>6, <1>8
  <2>10. \A flt \in Filter : knote[f][flt] = NeededFilters(nd)[flt]
    BY <2>1, <1>1 DEF ReportInv, Inv, Fits, Registered
  <2>11. \A flt \in Filter :
           NeededFilters(nd)[flt] # "none" /\ Tells(s, flt) => flt \in nd.got \/ flt \in Unheard(f)
    BY <2>10, <1>1, <1>2 DEF Unheard
  <2>12. /\ "in" \in nd.events => NeededFilters(nd)["read"] = "level"
         /\ "rdhup" \in nd.events => NeededFilters(nd)["read"] # "none"
         /\ "out" \in nd.events => NeededFilters(nd)["write"] = "level" \/ nd.eof = BothEnds
         /\ nd.eof # {} /\ nd.eof # BothEnds =>
              \A flt \in Filter \ nd.eof : NeededFilters(nd)[flt] # "none"
    BY NeededFacts
  <2>13. \A flt \in Filter : Ends(s, flt) => Tells(s, flt)
    BY DEF Tells
  <2>14. "in" \in owed[f] => "in" \in two.revents
    <3>. HAVE "in" \in owed[f]
    <3>1. "in" \in nd.events /\ Tells(s, "read")
      BY <1>4, DueMeans
    <3>2. "read" \in nd.got \/ "read" \in Unheard(f)
      BY <3>1, <2>11, <2>12 DEF Filter
    <3>. QED
      BY <3>1, <3>2, <2>4, <2>6, <2>9, <1>5
  <2>15. "rdhup" \in owed[f] => "rdhup" \in two.revents
    <3>. HAVE "rdhup" \in owed[f]
    <3>1. "rdhup" \in nd.events /\ Ends(s, "read")
      BY <1>4, DueMeans
    <3>2. "read" \in nd.got \/ "read" \in Unheard(f)
      BY <3>1, <2>11, <2>12, <2>13 DEF Filter
    <3>. QED
      BY <3>1, <3>2, <2>4, <2>6, <2>9, <1>5
  <2>16. "out" \in owed[f] => "out" \in two.revents
    <3>. HAVE "out" \in owed[f]
    <3>1. "out" \in nd.events /\ Tells(s, "write")
      BY <1>4, DueMeans
    <3>2. nd.eof = BothEnds \/ "write" \in nd.got \/ "write" \in Unheard(f)
      BY <3>1, <2>11, <2>12 DEF Filter
    <3>. QED
      BY <3>1, <3>2, <2>4, <2>6, <2>9, <1>5
  <2>17. "hup" \in owed[f] => "hup" \in two.revents
    <3>. HAVE "hup" \in owed[f]
    <3>1. Ends(s, "read") /\ Ends(s, "write")
      BY <1>4, DueMeans
    <3>2. CASE nd.eof = BothEnds
      BY <3>2, <2>9, <1>5
    <3>3. CASE nd.eof # BothEnds
      <4>1. nd.eof # {}
        BY <2>9, <1>5
      <4>2. PICK flt \in Filter : flt \notin nd.eof /\ Filter \subseteq nd.eof \cup {flt}
        BY <4>1, <3>3, <1>3 DEF BothEnds, Filter
      <4>3. flt \notin nd.got /\ flt \in Unheard(f)
        BY <4>1, <4>2, <3>1, <3>3, <2>11, <2>12, <2>13, <1>5 DEF Filter
      <4>4. CASE flt = "read"
        <5>1. one.eof = BothEnds
          BY <4>2, <4>3, <4>4, <3>1, <2>4, <2>8 DEF BothEnds
        <5>. QED
          BY <5>1, <4>3, <4>4, <3>1, <2>4, <2>6
      <4>5. CASE flt = "write"
        <5>1. two.eof = BothEnds
          BY <4>2, <4>3, <4>5, <3>1, <2>4, <2>6, <2>8 DEF BothEnds
        <5>. QED
          BY <5>1, <4>3, <4>5, <3>1, <2>6
      <4>. QED
        BY <4>4, <4>5 DEF Filter
    <3>. QED
      BY <3>2, <3>3
  <2>18. "hup" \in owed[f] => two.eof # {}
    BY <2>4, <2>6, <2>9, <1>5
  <2>19. \A e \in owed[f] : e \in two.revents
    BY <2>14, <2>15, <2>16, <2>17, <1>3 DEF Event
  <2>20. two.revents # {}
    BY <2>9, <1>8
  <2>. QED
    BY <2>7, <2>8, <2>18, <2>19, <2>20, <1>1, <1>2, <1>8
<1>. QED
  BY <1>7, <1>8

LEMMA ReturnReport == ASSUME ReportInv, Inv', Return PROVE ReportInv'
<1>1. /\ phase = "feed" /\ kevs = {}
      /\ UNCHANGED <<sock, knote, active, owed>>
      /\ node' = [f \in Fd |-> [Complete(f) EXCEPT !.revents = {}, !.got = {}]]
  BY DEF Return
<1>2. \/ /\ phase' = "loop"
         /\ \A f \in Fd : report'[f] = Complete(f).revents
         /\ late' = late \cup {f \in Fd : report'[f] # {} /\ "hup" \in owed[f] \ report'[f]}
      \/ phase' = "poll" /\ late' = late
  BY DEF Return
<1>3. \A f \in Fd :
        /\ Complete(f) \in Node /\ Complete(f).events = node[f].events
        /\ Complete(f).registered = node[f].registered
        /\ node[f].eof \subseteq Complete(f).eof
  BY <1>1, CompleteFacts DEF ReportInv
<1>4. \A f \in Fd :
        /\ Complete(f).revents \subseteq DueOf(node[f], sock[f])
        /\ Complete(f).revents # {} /\ "hup" \in owed[f] => Complete(f).eof # {}
  BY <1>1, CompleteTells
<1>5. \A f \in Fd :
        /\ node'[f].events = node[f].events /\ node'[f].registered = node[f].registered
        /\ node'[f].eof = Complete(f).eof
  BY <1>1, <1>3 DEF Node
<1>6. KevsTell' /\ GatheredDue' /\ HeardTold' /\ AllComing' /\ FullCrowded'
  BY <1>2, QuietNext
<1>7. OnlyAsked' /\ MaskKept'
  BY <1>1, <1>3, <1>5 DEF ReportInv, OnlyAsked, MaskKept
<1>8. OwedDue'
  <2>1. phase = "feed" /\ sock' = sock /\ owed' = owed
    BY <1>1
  <2>2. \A f \in Fd : DueOf(node'[f], sock[f]) = DueOf(node[f], sock[f])
    BY <1>5, DueSame
  <2>. QED
    BY <2>1, <2>2 DEF ReportInv, OwedDue
<1>9. LateKnown'
  <2>. SUFFICES ASSUME NEW f \in late' PROVE f \in Fd /\ node'[f].registered /\ node'[f].eof # {}
    BY DEF LateKnown, Registered
  <2>1. CASE f \in late
    BY <2>1, <1>3, <1>5 DEF ReportInv, LateKnown, Registered
  <2>2. CASE f \notin late
    <3>1. f \in Fd /\ Complete(f).revents # {} /\ "hup" \in owed[f]
      BY <2>2, <1>2
    <3>2. node[f].registered
      BY <3>1, <1>4, DueMeans
    <3>. QED
      BY <3>1, <3>2, <1>4, <1>5
  <2>. QED
    BY <2>1, <2>2
<1>. QED
  BY <1>6, <1>7, <1>8, <1>9 DEF ReportInv

LEMMA NextReport == ASSUME ReportInv, [Next]_vars PROVE ReportInv'
<1>1. Inv'
  BY NextInv DEF ReportInv
<1>2. CASE Kernel
  <2>1. PICK f \in Fd : Arrives(f) \/ PeerFinishes(f) \/ Resets(f) \/ GetsRoom(f)
    BY <1>2 DEF Kernel
  <2>. QED
    BY <2>1, <1>1, SocketsReport, HappensReport
<1>3. CASE Loop
  <2>1. PICK f \in Fd : Add(f) \/ Modify(f) \/ Delete(f) \/ Reads(f) \/ Writes(f) \/ Shuts(f)
    BY <1>3 DEF Loop
  <2>2. CASE Reads(f) \/ Writes(f) \/ Shuts(f)
    BY <2>2, <1>1, SocketsReport, HappensReport
  <2>. QED
    BY <2>1, <2>2, <1>1, ControlReport
<1>4. CASE Shim
  BY <1>1, <1>4, EpollWaitReport, RetrieveReport, FeedReport, ReturnReport DEF Shim
<1>5. CASE UNCHANGED vars
  <2>1. /\ LateKnown' /\ OnlyAsked' /\ MaskKept' /\ KevsTell' /\ GatheredDue' /\ OwedDue'
        /\ HeardTold' /\ AllComing' /\ FullCrowded'
    BY <1>5 DEF vars, ReportInv, LateKnown, OnlyAsked, MaskKept, KevsTell, GatheredDue, OwedDue,
                HeardTold, AllComing, FullCrowded, Registered, Coming
  <2>. QED
    BY <2>1, <1>1 DEF ReportInv
<1>. QED
  BY <1>2, <1>3, <1>4, <1>5 DEF Next

LEMMA ReportInvariance == Spec => []ReportInv
<1>1. Init => ReportInv
  BY ReportInit
<1>2. ReportInv /\ [Next]_vars => ReportInv'
  BY NextReport
<1>. QED
  BY <1>1, <1>2, PTL DEF Spec

-----------------------------------------------------------------------------
(* The shim implements the epoll that tpws relies on.                      *)

DueNow == [f \in Fd |-> Due(f)]
Waits == phase # "loop"

LEMMA DueNowIs ==
  /\ DueNow \in [Fd -> SUBSET Event]
  /\ \A f \in Fd : DueNow[f] = DueOf(node[f], sock[f])
<1>1. \A f \in Fd : DueOf(node[f], sock[f]) \in SUBSET Event
  BY DueMeans
<1>. QED
  BY <1>1, DueIsOf DEF DueNow

LEMMA DueNextIs ==
  /\ DueNow' \in [Fd -> SUBSET Event]
  /\ \A f \in Fd : DueNow'[f] = DueOf(node'[f], sock'[f])
<1>1. \A f \in Fd : DueOf(node'[f], sock'[f]) \in SUBSET Event
  BY DueMeans
<1>2. \A f \in Fd : Due(f)' = DueOf(node'[f], sock'[f])
  BY DEF Due, DueOf, Registered
<1>. QED
  BY <1>1, <1>2 DEF DueNow

\* Nothing is due and nobody waits at the start.
LEMMA LevelInit == ASSUME Init PROVE Level!Init
<1>1. Registered = {} /\ ~Waits /\ owed = Silent /\ report = Silent /\ late = {}
  BY DEF Init, Registered, NoNode, Waits
<1>2. DueNow = Silent
  BY <1>1 DEF DueNow, Silent, Due
<1>. QED
  BY <1>1, <1>2 DEF Level!Init, Level!Nothing, Silent, DueNow, Waits

\* A step that neither calls, looks nor returns changes the world, if it takes back nothing while
\* epoll_wait runs.
LEMMA WorldStep ==
  ASSUME late' = late \cap Registered', UNCHANGED <<owed, report>>, Waits' = Waits,
         Waits => Registered' = Registered /\ \A f \in Fd : DueNow[f] \subseteq DueNow'[f]
  PROVE  Level!World
<1>1. DueNow' \in [Fd -> SUBSET Level!Event]
  BY DueNextIs DEF Level!Event, Event
<1>2. Registered' \in SUBSET Fd
  BY DEF Registered
<1>3. ASSUME NEW f \in Fd \ Registered' PROVE DueNow'[f] = {}
  <2>1. ~node'[f].registered
    BY DEF Registered
  <2>. QED
    BY <2>1, DueNextIs DEF DueOf
<1>. QED
  BY <1>1, <1>2, <1>3 DEF Level!World, DueNow, Waits

LEMMA SocketsLevel ==
  ASSUME ReportInv, NEW f \in Fd, NEW s \in Socket, NEW flts \in SUBSET Filter,
         Happens(f, s, flts), phase # "loop" => Grows(sock[f], s)
  PROVE  Level!World
<1>1. /\ sock' = [sock EXCEPT ![f] = s]
      /\ UNCHANGED <<node, phase, report, owed, late>>
  BY DEF Happens
<1>2. Registered' = Registered /\ Waits' = Waits
  BY <1>1 DEF Registered, Waits
<1>3. late' = late \cap Registered'
  BY <1>1, <1>2 DEF ReportInv, LateKnown
<1>4. ASSUME Waits, NEW g \in Fd PROVE DueNow[g] \subseteq DueNow'[g]
  <2>1. /\ sock[g] \in Socket /\ sock'[g] \in Socket /\ Grows(sock[g], sock'[g])
    BY <1>1, <1>4 DEF ReportInv, Inv, TypeOK, Grows, Waits
  <2>2. DueOf(node[g], sock[g]) \subseteq DueOf(node[g], sock'[g])
    BY <2>1, DueGrows
  <2>. QED
    BY <2>2, <1>1, DueNowIs, DueNextIs
<1>. QED
  BY <1>1, <1>2, <1>3, <1>4, WorldStep

LEMMA ControlLevel ==
  ASSUME ReportInv, NEW f \in Fd, Add(f) \/ Modify(f) \/ Delete(f)
  PROVE  Level!World
<1>1. TypeOK /\ \A g \in late : g \in Registered
  BY DEF ReportInv, Inv, LateKnown
<1>2. phase = "loop" /\ phase' = "loop" /\ UNCHANGED <<owed, report>>
  BY DEF Add, Modify, Delete
<1>3. late' = late \cap Registered'
  <2>1. CASE Add(f)
    <3>1. late' = late /\ \A g \in Registered : g \in Registered'
      BY <2>1, <1>1 DEF Add, Registered, TypeOK
    <3>. QED
      BY <3>1, <1>1
  <2>2. CASE Modify(f)
    <3>1. PICK mask : node' = [node EXCEPT ![f] = [node[f] EXCEPT !.events = mask]]
      BY <2>2 DEF Modify
    <3>2. \A g \in Fd : node'[g].registered = node[g].registered
      BY <3>1, <1>1 DEF TypeOK, Node
    <3>3. late' = late /\ Registered' = Registered
      BY <2>2, <3>2 DEF Modify, Registered
    <3>. QED
      BY <3>3, <1>1
  <2>3. CASE Delete(f)
    <3>1. late' = late \ {f} /\ Registered' = Registered \ {f}
      BY <2>3, <1>1 DEF Delete, Registered, TypeOK, NoNode
    <3>. QED
      BY <3>1, <1>1
  <2>. QED
    BY <2>1, <2>2, <2>3
<1>. QED
  BY <1>2, <1>3, WorldStep DEF Waits

\* A batch has no part in what is due.
LEMMA SameDue ==
  ASSUME sock' = sock,
         \A f \in Fd : /\ node'[f].registered = node[f].registered
                       /\ node'[f].events = node[f].events
  PROVE  Registered' = Registered /\ DueNow' = DueNow
<1>1. Registered' = Registered
  BY DEF Registered
<1>2. \A f \in Fd : Due(f)' = Due(f)
  BY <1>1 DEF Due
<1>. QED
  BY <1>1, <1>2 DEF DueNow

LEMMA CallLevel == ASSUME EpollWait PROVE Level!Call
<1>1. /\ ~Waits /\ Waits' /\ owed' = Silent /\ report' = Silent /\ late' = late
      /\ UNCHANGED <<sock, node>>
  BY DEF EpollWait, Waits
<1>2. Registered' = Registered /\ DueNow' = DueNow
  BY <1>1, SameDue
<1>. QED
  BY <1>1, <1>2 DEF Level!Call, Level!Nothing, Silent, DueNow, Waits

LEMMA LookLevel == ASSUME Retrieve PROVE Level!Look
<1>1. /\ Waits /\ Waits' /\ owed' = DueNow
      /\ UNCHANGED <<sock, node, report, late>>
  BY DEF Retrieve, Waits, DueNow
<1>2. Registered' = Registered /\ DueNow' = DueNow
  BY <1>1, SameDue
<1>. QED
  BY <1>1, <1>2 DEF Level!Look, DueNow, Waits

LEMMA FeedLevel == ASSUME ReportInv, Feed PROVE UNCHANGED Level!vars
<1>1. PICK kev \in kevs : node' = [node EXCEPT ![kev.fd] = FeedEvent(node[kev.fd], kev)]
  BY DEF Feed
<1>2. UNCHANGED <<sock, phase, report, owed, late>>
  BY DEF Feed
<1>3. TypeOK /\ kev \in Kevent /\ kev.fd \in Fd /\ node[kev.fd] \in Node
  BY DEF ReportInv, Inv, TypeOK, Kevent
<1>4. PICK nd \in Node : /\ nd = FeedEvent(node[kev.fd], kev)
                         /\ nd.registered = node[kev.fd].registered
                         /\ nd.events = node[kev.fd].events
  <2>1. PICK old \in Node : old = node[kev.fd]
    BY <1>3
  <2>2. /\ FeedEvent(old, kev) \in Node
        /\ FeedEvent(old, kev).registered = old.registered
        /\ FeedEvent(old, kev).events = old.events
    BY <1>3, FeedFacts
  <2>. QED
    BY <2>1, <2>2
<1>5. \A f \in Fd : /\ node'[f].registered = node[f].registered
                    /\ node'[f].events = node[f].events
  BY <1>1, <1>3, <1>4 DEF TypeOK
<1>6. Registered' = Registered /\ DueNow' = DueNow
  BY <1>2, <1>5, SameDue
<1>. QED
  BY <1>2, <1>6 DEF Level!vars, DueNow

LEMMA ReturnLevel == ASSUME ReportInv, Return PROVE Level!Return \/ UNCHANGED Level!vars
<1>1. /\ phase = "feed" /\ kevs = {}
      /\ UNCHANGED <<sock, owed>>
      /\ node' = [f \in Fd |-> [Complete(f) EXCEPT !.revents = {}, !.got = {}]]
  BY DEF Return
<1>2. \A f \in Fd :
        /\ Complete(f) \in Node /\ Complete(f).events = node[f].events
        /\ Complete(f).registered = node[f].registered
  BY <1>1, CompleteFacts DEF ReportInv
<1>3. \A f \in Fd :
        /\ Complete(f).revents \subseteq DueOf(node[f], sock[f])
        /\ Complete(f).revents = {} <=> node[f].revents = {}
        /\ Complete(f).revents # {} \/ ~full =>
             \A e \in owed[f] : \/ e \in Complete(f).revents
                                \/ e = "hup" /\ f \notin late /\ Complete(f).revents # {}
  BY <1>1, CompleteTells
<1>4. \A f \in Fd : /\ node'[f].events = node[f].events
                    /\ node'[f].registered = node[f].registered
  BY <1>1, <1>2 DEF Node
<1>5. Registered' = Registered /\ DueNow' = DueNow
  BY <1>1, <1>4, SameDue
<1>6. CASE \E f \in Fd : node[f].revents # {}
  <2>1. /\ phase' = "loop"
        /\ report' = [f \in Fd |-> Complete(f).revents]
        /\ late' = late \cup {f \in Fd : report'[f] # {} /\ "hup" \in owed[f] \ report'[f]}
    BY <1>1, <1>6 DEF Return
  <2>2. \A f \in Fd : report'[f] = Complete(f).revents
    BY <2>1
  <2>3. report' \in [Fd -> SUBSET Level!Event]
    BY <2>1, <1>2 DEF Level!Event, Event, Node
  <2>4. report' # Level!Nothing
    BY <2>2, <1>3, <1>6 DEF Level!Nothing
  <2>5. \A f \in Fd : report'[f] \subseteq DueNow[f]
    BY <2>2, <1>3, DueNowIs
  <2>6. Level!Whole(report')
    <3>. SUFFICES ASSUME NEW f \in Fd, report'[f] # {} \/ ~Level!Crowded, NEW e \in owed[f]
                  PROVE  e \in report'[f] \cup Level!MayBeLate(f, report')
      BY DEF Level!Whole
    <3>1. full => Level!Crowded
      <4>1. Level!Cardinality(Registered) = Cardinality(Registered)
        BY DEF Level!Cardinality, Cardinality
      <4>. QED
        BY <4>1, <1>1 DEF ReportInv, FullCrowded, Level!Crowded
    <3>2. Complete(f).revents # {} \/ ~full
      BY <3>1, <2>2
    <3>. QED
      BY <3>2, <2>2, <1>3 DEF Level!MayBeLate
  <2>7. Level!Return
    BY <2>1, <2>3, <2>4, <2>5, <2>6, <1>1, <1>5 DEF Level!Return, DueNow
  <2>. QED
    BY <2>7
<1>7. CASE ~\E f \in Fd : node[f].revents # {}
  <2>1. phase' = "poll" /\ UNCHANGED <<report, late>>
    BY <1>7 DEF Return
  <2>. QED
    BY <2>1, <1>1, <1>5 DEF Level!vars, DueNow
<1>. QED
  BY <1>6, <1>7

LEMMA LevelStep == ASSUME ReportInv, [Next]_vars PROVE [Level!Next]_(Level!vars)
<1>1. ASSUME NEW f \in Fd,
             \/ Arrives(f) \/ PeerFinishes(f) \/ Resets(f) \/ GetsRoom(f)
             \/ Reads(f) \/ Writes(f) \/ Shuts(f)
      PROVE  Level!World
  <2>1. Inv'
    BY NextInv DEF ReportInv
  <2>. QED
    BY <1>1, <2>1, SocketsReport, SocketsLevel
<1>2. CASE Kernel
  BY <1>1, <1>2 DEF Kernel, Level!Next
<1>3. CASE Loop
  BY <1>1, <1>3, ControlLevel DEF Loop, Level!Next
<1>4. CASE Shim
  BY <1>4, CallLevel, LookLevel, FeedLevel, ReturnLevel DEF Shim, Level!Next
<1>5. CASE UNCHANGED vars
  <2>1. Registered' = Registered /\ DueNow' = DueNow
    BY <1>5, SameDue DEF vars
  <2>. QED
    BY <2>1, <1>5 DEF vars, Level!vars, DueNow
<1>. QED
  BY <1>2, <1>3, <1>4, <1>5 DEF Next

\* The shim keeps the safety part of ImplementsEpoll, for any number of sockets and any size of
\* the array: epoll_wait reports nothing that is not due, and all that was due when it looked of
\* a descriptor it reports, a hangup excepted once (epollfd_ctx.c, feed_event, get_needed_filters
\* and the completion of a report after a full kevent).
THEOREM ReportsWhatIsDue == Spec => Level!SafeSpec
<1>1. Init => Level!Init
  BY LevelInit
<1>2. ReportInv /\ [Next]_vars => [Level!Next]_(Level!vars)
  BY LevelStep
<1>. QED
  BY <1>1, <1>2, ReportInvariance, PTL DEF Spec, Level!SafeSpec
=============================================================================
