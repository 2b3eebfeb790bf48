--------------------------- MODULE TpwsConnProofs ---------------------------
(***************************************************************************)
(* Proofs about TpwsConn, whatever the number of connections and of bytes. *)
(*                                                                         *)
(* First, no byte is lost, repeated or reordered, and no buffer is filled  *)
(* twice: NeverFatal and, when the profile does not split, RelayIntact.    *)
(* Neither is inductive.  A buffer may be filled because it is known to be *)
(* empty, and that follows from the state of the leg that is read: buffer  *)
(* 2 of a partner is filled only by the RDHUP of a leg, which happens once *)
(* because epoll is not asked for it any more (MaskInv), and buffer 3 only *)
(* by its closing.  A SOCKS client has relayed nothing when its remote leg *)
(* is created (Fresh).                                                     *)
(*                                                                         *)
(* Second, nothing that the event loop waits for fails to come:            *)
(* NoLostWakeup, FinForwarded and ReplyBeforeRelay; the memory of a        *)
(* connection is accounted for: LegsAccounted; and the loop keeps its side *)
(* of the contract with the resolver: KeepsResolution.  What is hard is a  *)
(* target that is being connected to.  Its leg is watched for EPOLLOUT     *)
(* only (Connecting), its first event makes it available, and the client   *)
(* is not read before that, but may end its stream, reset, or have sent    *)
(* data that is found at its end.  While check_connection_attempt has run  *)
(* and the rest of the handler has not, the leg may hold data that it is   *)
(* not watched for: the handler sets the flow of both legs afterwards or   *)
(* closes them.                                                            *)
(***************************************************************************)
EXTENDS TpwsConn, FiniteSetTheorems, TLAPS

-----------------------------------------------------------------------------
(* Type correctness, and the facts about the operators on legs and         *)
(* connections it rests on.                                                *)

\* An unsent part of a buffer is a span.
LEMMA TrimType ==
  ASSUME NEW b \in Span, NEW n \in Nat
  PROVE  Trim(b, n) \in Span
BY DEF Trim, Span, NoSpan

\* An empty buffer is a span.
LEMMA NoSpanType == NoSpan \in Span
BY DEF NoSpan, Span

\* The leg new_conn allocates is a leg.
LEMMA NoLegType == NoLeg \in Leg
BY NoSpanType DEF NoLeg, Leg, LegState, SocksState, Flow, Event

\* Filling a buffer gives a leg.
LEMMA BufferCreateType ==
  ASSUME NEW l \in Leg, NEW k \in BufferNumber, NEW b \in Span
  PROVE  BufferCreate(l, k, b) \in Leg
BY DEF BufferCreate, Leg, Full, Span

\* Sending from the buffers gives a leg.
LEMMA BuffersSendType ==
  ASSUME NEW l \in Leg, NEW n \in Nat
  PROVE  BuffersSend(l, n) \in Leg
<1> DEFINE n0 == Least(n, Size(l.buf[0]))
           n2 == Least(n - n0, Size(l.buf[2]))
           n3 == Least(n - n0 - n2, Size(l.buf[3]))
<1>1. \A k \in BufferNumber : l.buf[k] \in Span /\ Size(l.buf[k]) \in Nat
  BY DEF Leg, Span, Size
<1>2. n0 \in Nat /\ n2 \in Nat /\ n3 \in Nat
  BY <1>1 DEF BufferNumber, Least
<1> HIDE DEF n0, n2, n3
<1> DEFINE kept == [k \in BufferNumber |->
                      Trim(l.buf[k], IF k = 0 THEN n0 ELSE IF k = 2 THEN n2 ELSE n3)]
           wrote == l.twr + n0 + n2 + n3
<1>3. kept \in [BufferNumber -> Span]
  BY <1>1, <1>2, TrimType
<1>4. wrote \in Nat
  BY <1>2 DEF Leg
<1>5. BuffersSend(l, n) = [l EXCEPT !.buf = kept, !.twr = wrote]
  BY DEF BuffersSend, n0, n2, n3, Leg
<1> HIDE DEF kept, wrote
<1> QED BY <1>3, <1>4, <1>5 DEF Leg

\* The mask epoll_update_flow computes is a set of events.
LEMMA WantedMaskType ==
  ASSUME NEW l \in Leg
  PROVE  WantedMask(l) \in SUBSET Event
BY DEF WantedMask, Leg, Flow, Event

\* epoll_update_flow changes only the masks of a leg.
LEMMA EpollUpdateFlowType ==
  ASSUME NEW l \in Leg
  PROVE  EpollUpdateFlow(l) \in Leg
BY WantedMaskType DEF EpollUpdateFlow, Leg

\* epoll_set_flow sets flags of a leg, then its masks.
LEMMA EpollSetFlowType ==
  ASSUME NEW l \in Leg, NEW in \in BOOLEAN, NEW out \in BOOLEAN
  PROVE  EpollSetFlow(l, in, out) \in Leg
<1>1. FlowOf(in, out) \in SUBSET Flow
  BY DEF FlowOf, Flow
<1>2. [l EXCEPT !.flow = FlowOf(in, out)] \in Leg
  BY <1>1 DEF Leg
<1> QED BY <1>2, EpollUpdateFlowType DEF EpollSetFlow

\* epoll_set_flow_pair sets the flags of both legs.
LEMMA EpollSetFlowPairType ==
  ASSUME NEW p \in Connection, NEW s \in Side
  PROVE  EpollSetFlowPair(p, s) \in Connection
<1>1. Other(s) \in Side /\ p[s] \in Leg /\ p[Other(s)] \in Leg
  BY DEF Side, Other, Connection
<1>2. \A a, b \in BOOLEAN : \A l \in Leg : EpollSetFlow(l, a, b) \in Leg
  BY EpollSetFlowType
<1> QED BY <1>1, <1>2 DEF EpollSetFlowPair, Connection, PartnerAlive, HasUnsent

\* close_tcp_conn changes the state of a leg.
LEMMA CloseLegType ==
  ASSUME NEW l \in Leg
  PROVE  CloseLeg(l) \in Leg
BY DEF CloseLeg, Leg, LegState

\* The other side of a connection.
LEMMA OtherSide ==
  ASSUME NEW s \in Side
  PROVE  Other(s) \in Side /\ Other(s) # s /\ Other(Other(s)) = s
BY DEF Side, Other

\* Closing both legs, or one and perhaps its partner, leaves a connection.
LEMMA CloseType ==
  ASSUME NEW p \in Connection, NEW s \in Side
  PROVE  CloseBoth(p, s) \in Connection /\ CloseWithPartnerCheck(p, s) \in Connection
<1>1. \A l \in Leg : CloseLeg(l) \in Leg /\ [l EXCEPT !.orphan = TRUE] \in Leg
  BY CloseLegType DEF Leg
<1> QED BY <1>1, OtherSide DEF CloseBoth, CloseWithPartnerCheck, Connection

\* conn_shutdown marks one leg.
LEMMA ShutdownType ==
  ASSUME NEW p \in Connection, NEW s \in Side
  PROVE  Shutdown(p, s) \in Connection
<1>1. \A l \in Leg : [l EXCEPT !.shut = TRUE] \in Leg
  BY DEF Leg
<1> QED BY <1>1 DEF Shutdown, Connection

\* Watching for EPOLLOUT, or not for EPOLLIN, leaves a leg.
LEMMA WatchType ==
  ASSUME NEW l \in Leg
  PROVE  WatchOut(l) \in Leg /\ UnwatchIn(l) \in Leg
<1>1. [l EXCEPT !.flow = l.flow \cup {"out"}] \in Leg
  BY DEF Leg, Flow
<1>2. [l EXCEPT !.flow = l.flow \ {"in"}] \in Leg
  BY DEF Leg, Flow
<1> QED BY <1>1, <1>2, EpollUpdateFlowType DEF WatchOut, UnwatchIn

\* Counting bytes written leaves a leg.
LEMMA WroteType ==
  ASSUME NEW l \in Leg, NEW m \in Nat
  PROVE  Wrote(l, m) \in Leg
BY DEF Wrote, Leg

\* The handlers keep a connection a connection.
LEMMA ReadAllAndBufferType ==
  ASSUME NEW p \in Connection, NEW s \in Side, NEW k \in BufferNumber
  PROVE  ReadAllAndBuffer(p, s, k) \in Connection
<1> DEFINE b == [lo |-> p[s].trd, hi |-> p[s].got]
           o == Other(s)
<1> SUFFICES ASSUME ~(Unread(p[s]) <= 0)
             PROVE  ReadAllAndBuffer(p, s, k) \in Connection
  BY DEF ReadAllAndBuffer
<1>1. p[s] \in Leg /\ p[o] \in Leg
  BY OtherSide DEF Connection
<1>2. b \in Span
  BY <1>1 DEF Span, Leg, Unread
<1>3. WatchOut(BufferCreate(p[o], k, b)) \in Leg
  BY <1>1, <1>2, BufferCreateType, WatchType
<1>4. [p[s] EXCEPT !.trd = p[s].got] \in Leg
  BY <1>1 DEF Leg
<1> QED BY <1>3, <1>4, OtherSide DEF ReadAllAndBuffer, Connection

\* handle_unsent leaves a connection and answers yes or no.
LEMMA HandleUnsentType ==
  ASSUME NEW p \in Connection, NEW s \in Side, NEW n \in Nat
  PROVE  HandleUnsent(p, s, n).p \in Connection /\ HandleUnsent(p, s, n).ok \in BOOLEAN
<1> DEFINE sent == IF HasUnsent(p[s]) THEN [p EXCEPT ![s] = BuffersSend(@, n)] ELSE p
<1>1. sent \in Connection
  BY BuffersSendType DEF Connection
<1> HIDE DEF sent
<1>2. Shutdown(sent, s) \in Connection
  BY <1>1, ShutdownType
<1>3. EpollSetFlowPair(sent, s) \in Connection /\ EpollSetFlowPair(Shutdown(sent, s), s) \in Connection
  BY <1>1, <1>2, EpollSetFlowPairType
<1> QED BY <1>1, <1>2, <1>3 DEF HandleUnsent, Result, sent

\* Reading a block and buffering what the partner's socket refuses leaves a connection.
LEMMA RelayBlockType ==
  ASSUME NEW p \in Connection, NEW s \in Side, NEW r \in Nat, NEW m \in Nat,
         m <= r, NEW lost \in BOOLEAN
  PROVE  RelayBlock(p, s, r, m, lost) \in Connection
<1> DEFINE o == Other(s)
           b == [lo |-> p[s].trd + m, hi |-> p[s].trd + r]
           read == [p EXCEPT ![s].trd = @ + r]
<1>1. p[s] \in Leg /\ p[o] \in Leg
  BY OtherSide DEF Connection
<1>2. b \in Span
  BY <1>1 DEF Span, Leg
<1>3. [p[s] EXCEPT !.trd = @ + r] \in Leg
  BY <1>1 DEF Leg
<1>4. read \in Connection /\ read[o] = p[o]
  BY <1>1, <1>3, OtherSide DEF Connection
<1>5. Wrote(p[o], m) \in Leg /\ BufferCreate(Wrote(p[o], m), 0, b) \in Leg
  BY <1>1, <1>2, WroteType, BufferCreateType DEF BufferNumber
<1> HIDE DEF read
<1>6. \A l \in Leg : [read EXCEPT ![o] = l] \in Connection
  BY <1>4, OtherSide DEF Connection
<1> QED BY <1>4, <1>5, <1>6 DEF RelayBlock, read

\* handle_epoll in TCP mode leaves a connection.
LEMMA HandleEpollType ==
  ASSUME NEW p \in Connection, NEW s \in Side, NEW in \in BOOLEAN, NEW lost \in BOOLEAN,
         NEW n \in Nat, NEW r \in Nat, NEW m \in Nat, m <= r
  PROVE  HandleEpoll(p, s, in, n, r, m, lost).p \in Connection
<1> DEFINE u == HandleUnsent(p, s, n)
<1>1. u.p \in Connection
  BY HandleUnsentType
<1> HIDE DEF u
<1>2. [u.p EXCEPT ![s].trd = p[s].got] \in Connection
  <2>1. p[s].got \in Nat /\ u.p[s] \in Leg
    BY <1>1 DEF Connection, Leg
  <2>2. [u.p[s] EXCEPT !.trd = p[s].got] \in Leg
    BY <2>1 DEF Leg
  <2> QED BY <1>1, <2>2 DEF Connection
<1>3. EpollSetFlowPair(RelayBlock(u.p, s, r, m, lost), s) \in Connection
  BY <1>1, RelayBlockType, EpollSetFlowPairType
<1> QED BY <1>1, <1>2, <1>3 DEF HandleEpoll, Result, u

\* So does the tail of the EPOLLIN/EPOLLOUT branch.
LEMMA AfterHandleEpollType ==
  ASSUME NEW h, h.p \in Connection, NEW s \in Side
  PROVE  AfterHandleEpoll(h, s) \in Connection
<1>1. Shutdown(h.p, Other(s)) \in Connection
  BY OtherSide, ShutdownType
<1>2. CloseWithPartnerCheck(h.p, s) \in Connection
  BY CloseType
<1>3. CloseWithPartnerCheck(Shutdown(h.p, Other(s)), s) \in Connection
  BY <1>1, CloseType
<1> QED BY <1>1, <1>2, <1>3 DEF AfterHandleEpoll, ShutPartnerWhenDrained

\* The SOCKS reply moves the client to TCP mode.
LEMMA ProxyRemoteConnAckType ==
  ASSUME NEW p \in Connection, NEW s \in Side
  PROVE  ProxyRemoteConnAck(p, s) \in Connection
<1>1. \A l \in Leg : [l EXCEPT !.socks = "tcp"] \in Leg
  BY DEF Leg, SocksState
<1> QED BY <1>1 DEF ProxyRemoteConnAck, Connection, Side

\* check_connection_attempt makes the remote leg available or reports a failure.
LEMMA CheckConnectionAttemptType ==
  ASSUME NEW p \in Connection, NEW s \in Side
  PROVE  CheckConnectionAttempt(p, s).p \in Connection
<1> DEFINE q == [p EXCEPT
            !["remote"] = [EpollSetFlow(@, TRUE, FALSE) EXCEPT !.state = "available"],
            !["local"] = IF Alive(@) THEN EpollSetFlow(@, TRUE, FALSE) ELSE @]
<1>1. \A l \in Leg : EpollSetFlow(l, TRUE, FALSE) \in Leg
  BY EpollSetFlowType
<1>2. \A l \in Leg : [l EXCEPT !.state = "available"] \in Leg
  BY DEF Leg, LegState
<1>3. q \in Connection
  BY <1>1, <1>2 DEF Connection, Side
<1> HIDE DEF q
<1> QED BY <1>3, ProxyRemoteConnAckType DEF CheckConnectionAttempt, Result, q

\* The EPOLLHUP branch leaves a connection.
LEMMA HandleHupType ==
  ASSUME NEW p \in Connection, NEW s \in Side
  PROVE  HandleHup(p, s) \in Connection
<1> DEFINE read == ReadAllAndBuffer(ProxyRemoteConnAck(p, s), s, 3)
<1>1. read \in Connection
  BY ProxyRemoteConnAckType, ReadAllAndBufferType DEF BufferNumber
<1>2. \A l \in Leg : [l EXCEPT !.linger = TRUE] \in Leg
  BY DEF Leg
<1> HIDE DEF read
<1>3. [read EXCEPT ![Other(s)].linger = TRUE] \in Connection
  BY <1>1, <1>2, OtherSide DEF Connection
<1> QED BY <1>1, <1>3, CloseType DEF HandleHup, read

\* The EPOLLRDHUP branch leaves a connection.
LEMMA HandleRdhupType ==
  ASSUME NEW p \in Connection, NEW s \in Side
  PROVE  HandleRdhup(p, s) \in Connection
<1> DEFINE o == Other(s)
           read == [ReadAllAndBuffer(p, s, 2) EXCEPT ![s].state = "rdhup"]
           quiet == [read EXCEPT ![s] = UnwatchIn(@)]
<1>1. read \in Connection
  <2>1. \A l \in Leg : [l EXCEPT !.state = "rdhup"] \in Leg
    BY DEF Leg, LegState
  <2> QED BY <2>1, ReadAllAndBufferType DEF Connection, BufferNumber
<1> HIDE DEF read
<1>2. quiet \in Connection
  BY <1>1, WatchType DEF Connection
<1>3. [read EXCEPT ![s] = EpollSetFlow(@, FALSE, TRUE)] \in Connection
  BY <1>1, EpollSetFlowType DEF Connection
<1> HIDE DEF quiet
<1>4. [quiet EXCEPT ![s] = CloseLeg(@)] \in Connection
  BY <1>2, CloseLegType DEF Connection
<1>5. Shutdown(quiet, o) \in Connection /\ CloseWithPartnerCheck(Shutdown(quiet, o), s) \in Connection
  BY <1>2, OtherSide, ShutdownType, CloseType
<1> QED BY <1>2, <1>3, <1>4, <1>5 DEF HandleRdhup, read, quiet
\* add_tcp_connection and proxy_mode_connect_remote make connections.
LEMMA NewConnectionType ==
  /\ NewConnection \in Connection
  /\ \A p \in Connection : NewRemote(p) \in Connection /\ ProxyModeConnectRemote(p) \in Connection
<1>1. [NoLeg EXCEPT !.state = "unavailable", !.mask = {"out"}] \in Leg
  BY NoLegType DEF Leg, LegState, Event
<1>2. \A p \in Connection : NewRemote(p) \in Connection
  BY <1>1 DEF NewRemote, Connection, Side
<1>3. \A p \in Connection : ProxyModeConnectRemote(p) \in Connection
  <2>1. \A l \in Leg : [l EXCEPT !.socks = "connection"] \in Leg
    BY DEF Leg, SocksState
  <2> QED BY <1>2, <2>1 DEF ProxyModeConnectRemote, Connection, Side
<1>4. [NoLeg EXCEPT !.state = "available", !.up = TRUE,
                    !.mask = IF Socks THEN {"in", "rdhup"} ELSE {"rdhup"}] \in Leg
  BY NoLegType DEF Leg, LegState, Event
<1>5. NoConnection \in Connection
  BY NoLegType DEF NoConnection, Connection
<1>6. [NoConnection EXCEPT !["local"] =
         [NoLeg EXCEPT !.state = "available", !.up = TRUE,
                       !.mask = IF Socks THEN {"in", "rdhup"} ELSE {"rdhup"}]] \in Connection
  BY <1>4, <1>5 DEF Connection, Side
<1> QED BY <1>2, <1>3, <1>6 DEF NewConnection

\* handle_proxy_mode leaves a connection whatever its reply.
LEMMA HandleProxyModeType ==
  ASSUME NEW p \in Connection, NEW reply \in SocksReplies(p)
  PROVE  HandleProxyMode(p, reply).p \in Connection
<1> DEFINE read == [p EXCEPT !["local"].got = p["local"].trd]
<1>1. \A l \in Leg : /\ [l EXCEPT !.got = l.trd] \in Leg
                     /\ [l EXCEPT !.socks = "request"] \in Leg
                     /\ [l EXCEPT !.socks = "resolve", !.ri = TRUE] \in Leg
  BY DEF Leg, SocksState
<1>2. read \in Connection
  BY <1>1 DEF Connection, Side
<1> HIDE DEF read
<1>3. [read EXCEPT !["local"].socks = "request"] \in Connection
  BY <1>1, <1>2 DEF Connection, Side
<1>4. [read EXCEPT !["local"].socks = "resolve", !["local"].ri = TRUE] \in Connection
  <2>1. \A l \in Leg : [l EXCEPT !.ri = TRUE] \in Leg
    BY DEF Leg
  <2>2. \A l \in Leg : [l EXCEPT !.socks = "resolve"] \in Leg
    BY DEF Leg, SocksState
  <2>3. read["local"] \in Leg
    BY <1>2 DEF Connection, Side
  <2>4. [[read["local"] EXCEPT !.socks = "resolve"] EXCEPT !.ri = TRUE] \in Leg
    BY <2>1, <2>2, <2>3
  <2> QED BY <1>2, <2>4 DEF Connection, Side
<1>5. ProxyModeConnectRemote(read) \in Connection
  BY <1>2, NewConnectionType
<1>6. reply \in {"hangup", "request", "resolve", "connection"}
  BY DEF SocksReplies
<1> QED BY <1>2, <1>3, <1>4, <1>5, <1>6 DEF HandleProxyMode, Result, read

\* So does the answer of the resolver.
LEMMA ResolveCompleteType ==
  ASSUME NEW p \in Connection, NEW answer, NEW connect \in BOOLEAN
  PROVE  ResolveComplete(p, answer, connect) \in Connection
<1>1. [p EXCEPT !["local"] = CloseLeg(@)] \in Connection
  BY CloseLegType DEF Connection, Side
<1> QED BY <1>1, NewConnectionType DEF ResolveComplete

\* remove_closed_connections turns closed legs into absent ones.
LEMMA FreeClosedType ==
  ASSUME NEW p \in Connection
  PROVE  FreeClosed(p) \in Connection
BY NoLegType DEF FreeClosed, Connection

\* What the kernel or a peer changes in a leg leaves a leg.
LEMMA KernelLegType ==
  ASSUME NEW l \in Leg
  PROVE  /\ [l EXCEPT !.got = l.got + 1] \in Leg
         /\ [l EXCEPT !.fin = TRUE] \in Leg
         /\ \A kept \in Nat : [l EXCEPT !.broken = TRUE, !.got = kept] \in Leg
         /\ \A ok \in BOOLEAN : [l EXCEPT !.up = ok, !.broken = ~ok] \in Leg
<1>1. [l EXCEPT !.got = l.got + 1] \in Leg
  BY DEF Leg
<1>2. [l EXCEPT !.fin = TRUE] \in Leg
  BY DEF Leg
<1>3. ASSUME NEW kept \in Nat PROVE [l EXCEPT !.broken = TRUE, !.got = kept] \in Leg
  BY DEF Leg
<1>4. ASSUME NEW ok \in BOOLEAN PROVE [l EXCEPT !.up = ok, !.broken = ~ok] \in Leg
  BY DEF Leg
<1> QED BY <1>1, <1>2, <1>3, <1>4

\* The loop starts well typed.
LEMMA TypeInit == Init => TypeOK
<1> SUFFICES ASSUME Init PROVE TypeOK
  OBVIOUS
<1>1. NoConnection \in Connection
  BY NoLegType DEF NoConnection, Connection
<1> QED BY <1>1 DEF Init, TypeOK

\* Every step of the kernel, of a peer and of the loop keeps the state well typed.
LEMMA TypeStep == TypeOK /\ [Next]_vars => TypeOK'
<1> SUFFICES ASSUME TypeOK, [Next]_vars PROVE TypeOK'
  OBVIOUS
<1> USE DEF TypeOK
<1>1. CASE Kernel
  <2>1. ASSUME NEW c \in Conn, NEW s \in Side, NEW l \in Leg, KernelStep(c, s, l)
        PROVE  TypeOK'
    BY <2>1 DEF KernelStep, Connection
  <2>2. \A c \in Conn, s \in Side : pair[c][s] \in Leg
    BY DEF Connection
  <2>3. ASSUME NEW c \in Conn, NEW s \in Side, PeerSends(c, s)
        PROVE  TypeOK'
    BY <2>1, <2>2, <2>3, KernelLegType DEF PeerSends
  <2>4. ASSUME NEW c \in Conn, NEW s \in Side, PeerFinishes(c, s)
        PROVE  TypeOK'
    BY <2>1, <2>2, <2>4, KernelLegType DEF PeerFinishes
  <2>5. ASSUME NEW c \in Conn, NEW s \in Side, PeerResets(c, s)
        PROVE  TypeOK'
    <3>1. pair[c][s].trd \in Nat /\ pair[c][s].got \in Nat
      BY <2>2 DEF Leg
    <3> QED BY <2>1, <2>2, <2>5, <3>1, KernelLegType DEF PeerResets
  <2>6. ASSUME NEW c \in Conn, ConnectEnds(c)
        PROVE  TypeOK'
    BY <2>1, <2>2, <2>6, KernelLegType DEF ConnectEnds, Side
  <2>7. ASSUME NEW i \in items, ResolverAnswers(i)
        PROVE  TypeOK'
    <3>1. \A st \in {"ok", "failed"} : [i EXCEPT !.st = st] \in ResolveItem
      BY DEF ResolveItem
    <3> QED BY <2>7, <3>1 DEF ResolverAnswers
  <2> QED BY <1>1, <2>3, <2>4, <2>5, <2>6, <2>7 DEF Kernel
<1>2. CASE EpollWait
  <2>1. PICK writable, heard, late :
          batch' = Reported(writable, heard, late)
    BY <1>2 DEF EpollWait
  <2>2. batch' \in [Conn -> [Side -> SUBSET Event]]
    BY <2>1 DEF Reported, Ready
  <2>3. todo' \in SUBSET {"listen", "resolve"}
    BY <1>2 DEF EpollWait
  <2>4. phase' = "run" /\ UNCHANGED <<pair, items, legs>>
    BY <1>2 DEF EpollWait
  <2> QED BY <2>2, <2>3, <2>4
<1>3. ASSUME NEW c \in Conn, NEW s \in Side, NEW p \in Connection, HandleOnly(c, s, p)
      PROVE  TypeOK'
  BY <1>3 DEF HandleOnly, Handle
<1>4. \A c \in Conn : pair[c] \in Connection
  OBVIOUS
<1>5. ASSUME NEW c \in Conn, NEW s \in Side
      PROVE  Attempt(c, s).p \in Connection
  BY <1>4, CheckConnectionAttemptType DEF Attempt, Result
<1>6. ASSUME NEW c \in Conn, NEW s \in Side, EventStale(c, s)
      PROVE  TypeOK'
  BY <1>3, <1>4, <1>6 DEF EventStale
<1>7. ASSUME NEW c \in Conn, NEW s \in Side, EventHup(c, s)
      PROVE  TypeOK'
  BY <1>3, <1>4, <1>7, HandleHupType DEF EventHup
<1>8. ASSUME NEW c \in Conn, NEW s \in Side, EventConnectFailed(c, s)
      PROVE  TypeOK'
  BY <1>3, <1>5, <1>8, CloseType DEF EventConnectFailed
<1>9. ASSUME NEW c \in Conn, NEW s \in Side, EventRdhup(c, s)
      PROVE  TypeOK'
  BY <1>3, <1>5, <1>9, HandleRdhupType DEF EventRdhup
<1>10. ASSUME NEW c \in Conn, NEW s \in Side, EventInOut(c, s)
       PROVE  TypeOK'
  <2> DEFINE p == Attempt(c, s).p
             in == "in" \in batch[c][s]
  <2>1. PICK n, r, m \in 0 .. MaxBytes, lost \in BOOLEAN :
          m <= r /\ HandleOnly(c, s, AfterHandleEpoll(HandleEpoll(p, s, in, n, r, m, lost), s))
    BY <1>10 DEF EventInOut
  <2>2. p \in Connection /\ in \in BOOLEAN
    BY <1>5
  <2>3. n \in Nat /\ r \in Nat /\ m \in Nat
    BY BoundAssumption
  <2> HIDE DEF p, in
  <2>4. AfterHandleEpoll(HandleEpoll(p, s, in, n, r, m, lost), s) \in Connection
    BY <2>1, <2>2, <2>3, HandleEpollType, AfterHandleEpollType
  <2> QED BY <1>3, <2>1, <2>4
<1>11. ASSUME NEW c \in Conn, EventSocks(c)
       PROVE  TypeOK'
  <2>1. PICK reply \in SocksReplies(pair[c]) :
          /\ Handle(c, "local", AfterHandleEpoll(HandleProxyMode(pair[c], reply), "local"))
          /\ items' = items \cup {i \in ResolveItem :
                                    reply = "resolve" /\ i = [ptr |-> c, st |-> "queued"]}
          /\ legs' = [legs EXCEPT !["remote"] = @ + (IF reply = "connection" THEN 1 ELSE 0)]
    BY <1>11 DEF EventSocks
  <2>2. AfterHandleEpoll(HandleProxyMode(pair[c], reply), "local") \in Connection
    BY <1>4, HandleProxyModeType, AfterHandleEpollType DEF Side
  <2> QED BY <2>1, <2>2 DEF Handle, Side
<1>12. CASE EventAccept
  BY <1>12, NewConnectionType DEF EventAccept, Side
<1>13. CASE EventResolved
  <2>1. PICK i \in items :
          /\ items' = items \ {i}
          /\ IF i.ptr = NoConn THEN UNCHANGED <<pair, legs>>
             ELSE \E connect \in BOOLEAN :
                 LET p == ResolveComplete(pair[i.ptr], i.st, connect)
                 IN /\ pair' = [pair EXCEPT ![i.ptr] = [p EXCEPT !["local"].ri = FALSE]]
                    /\ legs' = [legs EXCEPT !["remote"] =
                                  @ + (IF p["remote"].state # pair[i.ptr]["remote"].state
                                       THEN 1 ELSE 0)]
    BY <1>13 DEF EventResolved
  <2>2. UNCHANGED <<batch, phase>> /\ todo' \in SUBSET {"listen", "resolve"}
    BY <1>13 DEF EventResolved
  <2>3. CASE i.ptr = NoConn
    BY <2>1, <2>2, <2>3
  <2>4. CASE i.ptr # NoConn
    <3>1. i.ptr \in Conn
      BY <2>4 DEF ResolveItem
    <3>2. PICK connect \in BOOLEAN :
            LET p == ResolveComplete(pair[i.ptr], i.st, connect)
            IN /\ pair' = [pair EXCEPT ![i.ptr] = [p EXCEPT !["local"].ri = FALSE]]
               /\ legs' = [legs EXCEPT !["remote"] =
                             @ + (IF p["remote"].state # pair[i.ptr]["remote"].state
                                  THEN 1 ELSE 0)]
      BY <2>1, <2>4
    <3> DEFINE p == ResolveComplete(pair[i.ptr], i.st, connect)
    <3>3. p \in Connection
      BY <1>4, <3>1, ResolveCompleteType
    <3> HIDE DEF p
    <3>4. [p EXCEPT !["local"].ri = FALSE] \in Connection
      <4>1. \A l \in Leg : [l EXCEPT !.ri = FALSE] \in Leg
        BY DEF Leg
      <4> QED BY <3>3, <4>1 DEF Connection, Side
    <3>5. pair' = [pair EXCEPT ![i.ptr] = [p EXCEPT !["local"].ri = FALSE]]
      BY <3>2 DEF p
    <3>6. legs' \in [Side -> Int]
      BY <3>2 DEF Side
    <3>7. items' \in SUBSET ResolveItem
      BY <2>1
    <3> QED BY <2>2, <3>1, <3>4, <3>5, <3>6, <3>7
  <2> QED BY <2>3, <2>4
<1>14. CASE BatchEnd
  <2>1. PICK expired \in SUBSET {c \in Conn : TimedOut(pair[c])} :
          LET after == [c \in Conn |-> IF c \in expired
                                       THEN [pair[c] EXCEPT !["remote"] = CloseLeg(@)]
                                       ELSE pair[c]]
          IN /\ pair' = [c \in Conn |-> FreeClosed(after[c])]
             /\ legs' = [s \in Side |-> legs[s] - ClosedLegs(after, s)]
    BY <1>14 DEF BatchEnd
  <2> DEFINE after == [c \in Conn |-> IF c \in expired
                                      THEN [pair[c] EXCEPT !["remote"] = CloseLeg(@)]
                                      ELSE pair[c]]
  <2>2. \A c \in Conn : after[c] \in Connection
    BY <1>4, CloseLegType DEF Connection, Side
  <2>3. pair' = [c \in Conn |-> FreeClosed(after[c])] /\ legs' = [s \in Side |-> legs[s] - ClosedLegs(after, s)]
    BY <2>1
  <2> HIDE DEF after
  <2>4. pair' \in [Conn -> Connection]
    BY <2>2, <2>3, FreeClosedType
  <2>5. \A s \in Side : ClosedLegs(after, s) \in Nat
    BY ConnAssumption, FS_Subset, FS_CardinalityType DEF ClosedLegs
  <2>6. legs' \in [Side -> Int]
    BY <2>3, <2>5
  <2>7. \A i \in items : Detach(i) \in ResolveItem
    BY DEF Detach, ResolveItem
  <2>8. items' \in SUBSET ResolveItem
    BY <1>14, <2>7 DEF BatchEnd
  <2>9. phase' = "wait" /\ UNCHANGED <<batch, todo>>
    BY <1>14 DEF BatchEnd
  <2> QED BY <2>4, <2>6, <2>8, <2>9
<1>15. CASE UNCHANGED vars
  BY <1>15 DEF vars
<1> QED
  BY <1>1, <1>2, <1>6, <1>7, <1>8, <1>9, <1>10, <1>11, <1>12, <1>13, <1>14, <1>15
  DEF Next, Loop

\* Type correctness: whatever the slots, the limits and the options, the event loop of
\* tpws_conn.c keeps legs, buffers, masks, batches and counters in their types.
THEOREM TypeCorrect == Spec => []TypeOK
BY TypeInit, TypeStep, PTL DEF Spec

-----------------------------------------------------------------------------
(* Buffers.                                                                *)

\* epoll does not report the RDHUP of a leg that saw it: its mask was updated, as the
\* cached mask of a leg not updated yet is known to contain RDHUP.
Quiet(l) == l.state = "rdhup" => "rdhup" \notin l.mask
Cached(l) == l.cached # l.mask => "rdhup" \in l.cached
MaskInv(l) == Quiet(l) /\ Cached(l)

\* Buffers 2 and 3 hold the end of the partner's stream.
LastBytes(p, s) ==
  LET l == p[s]  o == p[Other(s)]
  IN /\ ~l.fatal
     /\ Full(l.buf[2]) => ~Alive(o) \/ o.state = "rdhup"
     /\ Full(l.buf[3]) => ~Alive(o)
     /\ ~(Full(l.buf[2]) /\ Full(l.buf[3]))
     /\ l.state = "rdhup" /\ Alive(o) => l.fin /\ l.got <= l.trd

\* A client that negotiates has no remote leg, and nothing was relayed.
Negotiates(p) ==
  Socks /\ Alive(p["local"]) /\ p["local"].socks \in {"handshake", "request", "resolve"}
Fresh(p) ==
  /\ ~Socks => p["local"].socks = "handshake"
  /\ Negotiates(p) =>
       /\ p["remote"].state = "absent"
       /\ p["local"].state # "rdhup" /\ ~HasUnsent(p["local"])
       /\ p["local"].trd = 0 /\ p["local"].twr = 0

Intact(p) ==
  Connected(p) => \A s \in Side : ~SendFails(p[s]) => InOrder(p[s], p[Other(s)].trd)

DataInv(p) ==
  /\ \A s \in Side : LastBytes(p, s)
  /\ Fresh(p)
  /\ ~Split => Intact(p)

BatchInv(p, b) ==
  \A s \in Side :
    /\ b[s] # {} => p[s].state # "absent"
    /\ "rdhup" \in b[s] => p[s].state # "rdhup" /\ p[s].fin

ConnInv(p) == DataInv(p) /\ \A s \in Side : MaskInv(p[s])

Inv == \A c \in Conn : ConnInv(pair[c]) /\ BatchInv(pair[c], batch[c])

-----------------------------------------------------------------------------
(* Most operations leave the stream alone: they change masks, close legs,  *)
(* shut them down, or learn something from the kernel.                     *)

StateKept(l, k) ==
  \/ k.state = l.state
  \/ Alive(l) /\ k.state = "closed"
  \/ l.state = "unavailable" /\ k.state = "available"

\* what the events of the batch say of l holds of k
Settled(l, k) == StateKept(l, k) /\ (l.fin => k.fin)

Keeps(l, k) ==
  /\ k.buf = l.buf /\ k.trd = l.trd /\ k.twr = l.twr /\ k.fatal = l.fatal
  /\ SendFails(l) => SendFails(k)
  /\ Settled(l, k)
  /\ k.socks = l.socks \/ (l.socks = "connection" /\ k.socks = "tcp")
  /\ l.fin /\ l.got <= l.trd => k.got <= k.trd

Follows(p, q) ==
  /\ q \in Connection
  /\ \A s \in Side : Keeps(p[s], q[s]) /\ (MaskInv(p[s]) => MaskInv(q[s]))

\* Leaving the stream alone composes.
LEMMA KeepsTransitive ==
  ASSUME NEW l \in Leg, NEW k \in Leg, NEW j \in Leg, Keeps(l, k), Keeps(k, j)
  PROVE  Keeps(l, j)
BY DEF Keeps, Settled, StateKept, Alive, Leg

\* So it does for both legs.
LEMMA FollowsTransitive ==
  ASSUME NEW p \in Connection, NEW q, NEW r, Follows(p, q), Follows(q, r)
  PROVE  Follows(p, r)
BY KeepsTransitive DEF Follows, Connection

\* Doing nothing leaves the stream alone.
LEMMA FollowsReflexive ==
  ASSUME NEW p \in Connection
  PROVE  Follows(p, p)
BY DEF Follows, Connection, Keeps, Settled, StateKept

\* What such operations preserve.
LEMMA FollowsData ==
  ASSUME NEW p \in Connection, NEW q, Follows(p, q), DataInv(p)
  PROVE  DataInv(q)
<1>1. \A s \in Side : /\ p[s] \in Leg /\ q[s] \in Leg /\ Keeps(p[s], q[s])
                      /\ p[Other(s)] \in Leg /\ q[Other(s)] \in Leg
                      /\ Keeps(p[Other(s)], q[Other(s)])
  BY OtherSide DEF Follows, Connection
<1>2. ASSUME NEW s \in Side PROVE LastBytes(q, s)
  BY <1>1, <1>2 DEF DataInv, LastBytes, Keeps, Settled, StateKept, Alive
<1>3. Fresh(q)
  <2>1. "local" \in Side /\ "remote" \in Side
    BY DEF Side
  <2>2. Negotiates(q) => Negotiates(p)
    BY <1>1, <2>1 DEF Negotiates, Keeps, Settled, StateKept, Alive
  <2>3. HasUnsent(q["local"]) => HasUnsent(p["local"])
    BY <1>1, <2>1 DEF Keeps, HasUnsent
  <2> QED BY <1>1, <2>1, <2>2, <2>3 DEF DataInv, Fresh, Keeps, Settled, StateKept, Alive
<1>4. ASSUME ~Split PROVE Intact(q)
  <2>1. Connected(q) => Connected(p)
    BY <1>1 DEF Connected, Keeps, Settled, StateKept, Alive
  <2>2. ASSUME NEW s \in Side, InOrder(p[s], p[Other(s)].trd)
        PROVE  InOrder(q[s], q[Other(s)].trd)
    BY <1>1, <2>2 DEF InOrder, Keeps
  <2> QED BY <1>1, <1>4, <2>1, <2>2 DEF DataInv, Intact, Keeps
<1> QED BY <1>2, <1>3, <1>4 DEF DataInv

\* Nor do they disturb the masks, so the whole invariant of the connection stays.
LEMMA FollowsInv ==
  ASSUME NEW p \in Connection, NEW q, Follows(p, q), ConnInv(p)
  PROVE  ConnInv(q)
BY FollowsData DEF ConnInv, Follows
-----------------------------------------------------------------------------
(* The operations on one leg.                                              *)

\* epoll_update_flow: afterwards the mask of a leg that saw RDHUP is quiet.
LEMMA EpollUpdateFlowKeeps ==
  ASSUME NEW l \in Leg
  PROVE  /\ Keeps(l, EpollUpdateFlow(l))
         /\ Cached(l) => MaskInv(EpollUpdateFlow(l))
BY DEF EpollUpdateFlow, WantedMask, Keeps, Settled, StateKept, SendFails, MaskInv, Quiet, Cached,
       Leg, Flow

\* Setting the flags of a leg first changes nothing to that.
LEMMA FlowKeeps ==
  ASSUME NEW l \in Leg, NEW f \in SUBSET Flow
  PROVE  LET k == EpollUpdateFlow([l EXCEPT !.flow = f])
         IN k \in Leg /\ Keeps(l, k) /\ (Cached(l) => MaskInv(k))
<1> DEFINE j == [l EXCEPT !.flow = f]
<1>1. j \in Leg /\ Keeps(l, j) /\ (Cached(l) => Cached(j))
  BY DEF Keeps, Settled, StateKept, SendFails, Cached, Leg
<1> HIDE DEF j
<1>2. EpollUpdateFlow(j) \in Leg /\ Keeps(j, EpollUpdateFlow(j))
  BY <1>1, EpollUpdateFlowType, EpollUpdateFlowKeeps
<1> QED BY <1>1, <1>2, EpollUpdateFlowKeeps, KeepsTransitive DEF j

\* epoll_set_flow.
LEMMA EpollSetFlowKeeps ==
  ASSUME NEW l \in Leg, NEW in \in BOOLEAN, NEW out \in BOOLEAN
  PROVE  LET k == EpollSetFlow(l, in, out)
         IN k \in Leg /\ Keeps(l, k) /\ (Cached(l) => MaskInv(k))
<1>1. FlowOf(in, out) \in SUBSET Flow
  BY DEF FlowOf, Flow
<1> QED BY <1>1, FlowKeeps DEF EpollSetFlow

\* Setting or clearing one flag.
LEMMA WatchKeeps ==
  ASSUME NEW l \in Leg
  PROVE  /\ Keeps(l, WatchOut(l)) /\ (Cached(l) => MaskInv(WatchOut(l)))
         /\ Keeps(l, UnwatchIn(l)) /\ (Cached(l) => MaskInv(UnwatchIn(l)))
<1>1. l.flow \cup {"out"} \in SUBSET Flow /\ l.flow \ {"in"} \in SUBSET Flow
  BY DEF Leg, Flow
<1> QED BY <1>1, FlowKeeps DEF WatchOut, UnwatchIn

\* Doing nothing to a leg leaves its stream alone.
LEMMA KeepsReflexive ==
  ASSUME NEW l \in Leg
  PROVE  Keeps(l, l)
BY DEF Keeps, Settled, StateKept

\* close_tcp_conn keeps the buffers and counters of the leg.
LEMMA CloseLegKeeps ==
  ASSUME NEW l \in Leg
  PROVE  Keeps(l, CloseLeg(l)) /\ (MaskInv(l) => MaskInv(CloseLeg(l)))
BY DEF CloseLeg, Keeps, Settled, StateKept, SendFails, MaskInv, Quiet, Cached, Alive, Leg

\* Flags, the end of the SOCKS handshake and a made connection leave the stream alone.
LEMMA OptionKeeps ==
  ASSUME NEW l \in Leg
  PROVE  /\ \A k \in {[l EXCEPT !.shut = TRUE], [l EXCEPT !.linger = TRUE],
                      [l EXCEPT !.orphan = TRUE], [l EXCEPT !.ri = FALSE]} :
              k \in Leg /\ Keeps(l, k) /\ (MaskInv(l) => MaskInv(k))
         /\ LET k == [l EXCEPT !.socks = "tcp"]
            IN k \in Leg /\ (l.socks = "connection" => Keeps(l, k)) /\ (MaskInv(l) => MaskInv(k))
         /\ LET k == [l EXCEPT !.state = "available"]
            IN k \in Leg /\ (l.state = "unavailable" => Keeps(l, k)) /\ (MaskInv(l) => MaskInv(k))
<1> USE DEF Keeps, Settled, StateKept, SendFails, MaskInv, Quiet, Cached, Leg, SocksState, LegState
<1>1. ASSUME NEW k \in {[l EXCEPT !.shut = TRUE], [l EXCEPT !.linger = TRUE],
                        [l EXCEPT !.orphan = TRUE], [l EXCEPT !.ri = FALSE]}
      PROVE  k \in Leg /\ Keeps(l, k) /\ (MaskInv(l) => MaskInv(k))
  <2>1. CASE k = [l EXCEPT !.shut = TRUE]
    BY <2>1
  <2>2. CASE k = [l EXCEPT !.linger = TRUE]
    BY <2>2
  <2>3. CASE k = [l EXCEPT !.orphan = TRUE]
    BY <2>3
  <2>4. CASE k = [l EXCEPT !.ri = FALSE]
    BY <2>4
  <2> QED BY <1>1, <2>1, <2>2, <2>3, <2>4
<1>2. LET k == [l EXCEPT !.socks = "tcp"]
      IN k \in Leg /\ (l.socks = "connection" => Keeps(l, k)) /\ (MaskInv(l) => MaskInv(k))
  OBVIOUS
<1>3. LET k == [l EXCEPT !.state = "available"]
      IN k \in Leg /\ (l.state = "unavailable" => Keeps(l, k)) /\ (MaskInv(l) => MaskInv(k))
  OBVIOUS
<1> QED BY <1>1, <1>2, <1>3

-----------------------------------------------------------------------------
(* The operations on both legs that leave the stream alone.                *)

SameStream(l, k) ==
  k.state = l.state /\ k.socks = l.socks /\ k.buf = l.buf /\ k.trd = l.trd /\ k.got = l.got

\* epoll_set_flow_pair changes flags and masks only.
LEMMA EpollSetFlowPairFollows ==
  ASSUME NEW p \in Connection, NEW s \in Side
  PROVE  LET q == EpollSetFlowPair(p, s)
         IN Follows(p, q) /\ \A x \in Side : SameStream(p[x], q[x])
<1> DEFINE Kept(l, k) == Keeps(l, k) /\ (MaskInv(l) => MaskInv(k)) /\ SameStream(l, k)
<1>1. p[s] \in Leg /\ p[Other(s)] \in Leg /\ \A x \in Side : x = s \/ x = Other(s)
  BY DEF Connection, Side, Other
<1>2. \A l \in Leg : Kept(l, l)
  BY KeepsReflexive DEF SameStream
<1>3. \A a, b \in BOOLEAN : \A l \in Leg : Kept(l, EpollSetFlow(l, a, b))
  <2>1. \A a, b \in BOOLEAN : \A l \in Leg : SameStream(l, EpollSetFlow(l, a, b))
    BY DEF EpollSetFlow, EpollUpdateFlow, SameStream, Leg
  <2> QED BY <2>1, EpollSetFlowKeeps DEF MaskInv
<1> HIDE DEF Kept
<1>4. ASSUME NEW a \in BOOLEAN, NEW b \in BOOLEAN, NEW d \in BOOLEAN, NEW e \in BOOLEAN,
             NEW alive \in BOOLEAN
      PROVE  LET q == [p EXCEPT ![s] = EpollSetFlow(@, a, b),
                                ![Other(s)] = IF alive THEN EpollSetFlow(@, d, e) ELSE @]
             IN \A x \in Side : Kept(p[x], q[x])
  BY <1>1, <1>2, <1>3, OtherSide DEF Connection
<1>5. \A x \in Side : LET q == EpollSetFlowPair(p, s) IN Kept(p[x], q[x])
  BY <1>4 DEF EpollSetFlowPair, PartnerAlive, HasUnsent, Alive
<1> QED BY <1>5, EpollSetFlowPairType DEF Follows, Kept

\* conn_close_both and conn_close_with_partner_check close legs only.
LEMMA CloseFollows ==
  ASSUME NEW p \in Connection, NEW s \in Side
  PROVE  Follows(p, CloseBoth(p, s)) /\ Follows(p, CloseWithPartnerCheck(p, s))
<1>1. p[s] \in Leg /\ p[Other(s)] \in Leg /\ \A x \in Side : x = s \/ x = Other(s)
  BY DEF Connection, Side, Other
<1>2. \A l \in Leg : /\ Keeps(l, CloseLeg(l)) /\ (MaskInv(l) => MaskInv(CloseLeg(l)))
                     /\ LET k == [l EXCEPT !.orphan = TRUE] IN Keeps(l, k) /\ (MaskInv(l) => MaskInv(k))
  BY CloseLegKeeps, OptionKeeps
<1> DEFINE Kept(l, k) == Keeps(l, k) /\ (MaskInv(l) => MaskInv(k))
<1>3. \A l \in Leg : /\ Kept(l, l) /\ Kept(l, CloseLeg(l))
                     /\ Kept(l, [l EXCEPT !.orphan = TRUE])
  BY <1>2, KeepsReflexive
<1> HIDE DEF Kept
<1>4. \A x \in Side : Kept(p[x], CloseBoth(p, s)[x])
  BY <1>1, <1>3, OtherSide DEF CloseBoth, Connection
<1>5. \A x \in Side : Kept(p[x], CloseWithPartnerCheck(p, s)[x])
  BY <1>1, <1>3, OtherSide DEF CloseWithPartnerCheck, Connection
<1> QED BY <1>4, <1>5, CloseType DEF Follows, Kept

\* conn_shutdown makes send() fail, which weakens what is claimed of the leg.
LEMMA ShutdownFollows ==
  ASSUME NEW p \in Connection, NEW s \in Side
  PROVE  Follows(p, Shutdown(p, s))
<1>1. \A l \in Leg : LET k == [l EXCEPT !.shut = TRUE]
                     IN Keeps(l, k) /\ (MaskInv(l) => MaskInv(k))
  BY OptionKeeps
<1> QED BY <1>1, KeepsReflexive, ShutdownType DEF Shutdown, Follows, Connection

\* proxy_remote_conn_ack.
LEMMA ProxyRemoteConnAckFollows ==
  ASSUME NEW p \in Connection, NEW s \in Side
  PROVE  Follows(p, ProxyRemoteConnAck(p, s))
<1>1. \A l \in Leg : LET k == [l EXCEPT !.socks = "tcp"]
                     IN (l.socks = "connection" => Keeps(l, k)) /\ (MaskInv(l) => MaskInv(k))
  BY OptionKeeps
<1> QED
  BY <1>1, KeepsReflexive, ProxyRemoteConnAckType DEF ProxyRemoteConnAck, Follows, Connection, Side

\* check_connection_attempt.
LEMMA CheckConnectionAttemptFollows ==
  ASSUME NEW p \in Connection, NEW s \in Side
  PROVE  Follows(p, CheckConnectionAttempt(p, s).p)
<1> DEFINE q == [p EXCEPT
            !["remote"] = [EpollSetFlow(@, TRUE, FALSE) EXCEPT !.state = "available"],
            !["local"] = IF Alive(@) THEN EpollSetFlow(@, TRUE, FALSE) ELSE @]
           f(l) == EpollSetFlow(l, TRUE, FALSE)
<1>1. \A l \in Leg : f(l) \in Leg /\ Keeps(l, f(l)) /\ (MaskInv(l) => MaskInv(f(l)))
  BY EpollSetFlowKeeps DEF MaskInv
<1>2. ASSUME NEW l \in Leg, l.state = "unavailable"
      PROVE  LET k == [f(l) EXCEPT !.state = "available"]
             IN k \in Leg /\ Keeps(l, k) /\ (MaskInv(l) => MaskInv(k))
  <2> DEFINE k == [f(l) EXCEPT !.state = "available"]
  <2>1. f(l) \in Leg /\ Keeps(l, f(l)) /\ f(l).state = "unavailable"
    BY <1>1, <1>2 DEF EpollSetFlow, EpollUpdateFlow, Leg
  <2> HIDE DEF f
  <2>2. k \in Leg /\ Keeps(f(l), k) /\ (MaskInv(f(l)) => MaskInv(k))
    BY <2>1, OptionKeeps
  <2> QED BY <1>1, <2>1, <2>2, KeepsTransitive
<1> HIDE DEF f
<1>3. ASSUME p["remote"].state = "unavailable" PROVE Follows(p, q)
  BY <1>1, <1>2, <1>3, KeepsReflexive DEF Follows, Connection, Side, f
<1> HIDE DEF q
<1>4. ASSUME p["remote"].state = "unavailable" PROVE Follows(p, ProxyRemoteConnAck(q, s))
  <2>1. Follows(p, q) /\ q \in Connection
    BY <1>3, <1>4 DEF Follows
  <2> QED BY <2>1, ProxyRemoteConnAckFollows, FollowsTransitive
<1> QED
  BY <1>4, FollowsReflexive, ProxyRemoteConnAckFollows DEF CheckConnectionAttempt, Result, q

\* The tail of the EPOLLIN/EPOLLOUT branch.
LEMMA AfterHandleEpollFollows ==
  ASSUME NEW h, h.p \in Connection, NEW s \in Side
  PROVE  Follows(h.p, AfterHandleEpoll(h, s))
<1> DEFINE q == Shutdown(h.p, Other(s))
<1>1. Follows(h.p, q) /\ q \in Connection
  BY OtherSide, ShutdownFollows, ShutdownType
<1> HIDE DEF q
<1>2. Follows(h.p, CloseWithPartnerCheck(q, s))
  BY <1>1, CloseFollows, FollowsTransitive
<1> QED
  BY <1>1, <1>2, CloseFollows, FollowsReflexive DEF AfterHandleEpoll, ShutPartnerWhenDrained, q
-----------------------------------------------------------------------------
(* The operations on the stream.                                           *)

\* What leaves a leg's own reading, state and masks alone.
SameLeg(l, k) ==
  /\ k.state = l.state /\ k.shut = l.shut /\ k.socks = l.socks /\ k.broken = l.broken
  /\ k.trd = l.trd /\ k.got = l.got /\ k.fin = l.fin /\ k.cached = l.cached /\ k.mask = l.mask

\* Sending in the order of the buffers takes bytes from the front only.
LEMMA BuffersSendInOrder ==
  ASSUME NEW l \in Leg, NEW n \in Nat
  PROVE  LET k == BuffersSend(l, n)
         IN /\ SameLeg(l, k) /\ k.fatal = l.fatal
            /\ \A j \in BufferNumber : Full(k.buf[j]) => Full(l.buf[j])
            /\ \A end \in Nat : InOrder(l, end) => InOrder(k, end)
<1> DEFINE b0 == l.buf[0]  b2 == l.buf[2]  b3 == l.buf[3]
           n0 == Least(n, Size(b0))
           n2 == Least(n - n0, Size(b2))
           n3 == Least(n - n0 - n2, Size(b3))
           k == BuffersSend(l, n)
<1>1. b0 \in Span /\ b2 \in Span /\ b3 \in Span /\ l.twr \in Nat
  BY DEF Leg, BufferNumber
<1>a. l.buf[0] = b0 /\ l.buf[2] = b2 /\ l.buf[3] = b3
  OBVIOUS
<1> HIDE DEF b0, b2, b3
<1>b. /\ b0.lo \in Nat /\ b0.hi \in Nat /\ b2.lo \in Nat /\ b2.hi \in Nat
      /\ b3.lo \in Nat /\ b3.hi \in Nat
      /\ b0.lo <= b0.hi /\ b2.lo <= b2.hi /\ b3.lo <= b3.hi
  BY <1>1 DEF Span
<1>2. /\ n0 \in Nat /\ n2 \in Nat /\ n3 \in Nat
      /\ n0 <= b0.hi - b0.lo /\ n2 <= b2.hi - b2.lo /\ n3 <= b3.hi - b3.lo
      /\ n2 > 0 => n0 = b0.hi - b0.lo
      /\ n3 > 0 => n0 = b0.hi - b0.lo /\ n2 = b2.hi - b2.lo
  <2> DEFINE s0 == b0.hi - b0.lo  s2 == b2.hi - b2.lo  s3 == b3.hi - b3.lo
  <2>1. s0 \in Nat /\ s2 \in Nat /\ s3 \in Nat
    BY <1>b
  <2> HIDE DEF s0, s2, s3
  <2>2. \A x, y \in Nat : Least(x, y) \in Nat /\ Least(x, y) <= x /\ Least(x, y) <= y
                            /\ (x > Least(x, y) => Least(x, y) = y)
    BY DEF Least
  <2>3. n0 = Least(n, s0) /\ n2 = Least(n - n0, s2) /\ n3 = Least(n - n0 - n2, s3)
    BY DEF n0, n2, n3, s0, s2, s3, Size
  <2>4. n0 \in Nat /\ n0 <= n /\ n0 <= s0 /\ (n > n0 => n0 = s0)
    BY <2>1, <2>2, <2>3
  <2>5. n - n0 \in Nat
    BY <2>4
  <2>6. n2 \in Nat /\ n2 <= n - n0 /\ n2 <= s2 /\ (n - n0 > n2 => n2 = s2)
    BY <2>1, <2>2, <2>3, <2>5
  <2>7. n - n0 - n2 \in Nat
    BY <2>4, <2>6
  <2>8. n3 \in Nat /\ n3 <= n - n0 - n2 /\ n3 <= s3
    BY <2>1, <2>2, <2>3, <2>7
  <2> QED BY <2>4, <2>6, <2>8 DEF s0, s2, s3
<1> HIDE DEF n0, n2, n3
<1>3. /\ k.buf[0] = Trim(b0, n0) /\ k.buf[2] = Trim(b2, n2) /\ k.buf[3] = Trim(b3, n3)
      /\ k.twr = l.twr + n0 + n2 + n3
      /\ SameLeg(l, k) /\ k.fatal = l.fatal
  BY DEF BuffersSend, n0, n2, n3, b0, b2, b3, Leg, BufferNumber, SameLeg
<1> HIDE DEF k
<1> DEFINE t0 == Trim(b0, n0)  t2 == Trim(b2, n2)  t3 == Trim(b3, n3)
<1>4. /\ Full(t0) <=> b0.lo + n0 < b0.hi
      /\ Full(t0) => t0.lo = b0.lo + n0 /\ t0.hi = b0.hi
      /\ Full(t2) <=> b2.lo + n2 < b2.hi
      /\ Full(t2) => t2.lo = b2.lo + n2 /\ t2.hi = b2.hi
      /\ Full(t3) <=> b3.lo + n3 < b3.hi
      /\ Full(t3) => t3.lo = b3.lo + n3 /\ t3.hi = b3.hi
  <2>1. \A b \in Span, x \in Nat : x <= b.hi - b.lo =>
          LET t == Trim(b, x)
          IN /\ Full(t) <=> b.lo + x < b.hi
             /\ Full(t) => t.lo = b.lo + x /\ t.hi = b.hi
    BY DEF Trim, NoSpan, Full, Span
  <2> QED BY <1>1, <1>2, <2>1
<1> HIDE DEF t0, t2, t3
<1>5. k.buf[0] = t0 /\ k.buf[2] = t2 /\ k.buf[3] = t3
  BY <1>3 DEF t0, t2, t3
<1>6. \A j \in BufferNumber : Full(k.buf[j]) => Full(l.buf[j])
  <2>1. (Full(t0) => Full(b0)) /\ (Full(t2) => Full(b2)) /\ (Full(t3) => Full(b3))
    BY <1>b, <1>2, <1>4 DEF Full
  <2> QED BY <1>a, <1>5, <2>1 DEF BufferNumber
<1>7. ASSUME NEW end \in Nat, InOrder(l, end) PROVE InOrder(k, end)
  <2>1. LET next2 == IF b0.lo < b0.hi THEN b0.hi ELSE l.twr
            next3 == IF b2.lo < b2.hi THEN b2.hi ELSE next2
            next4 == IF b3.lo < b3.hi THEN b3.hi ELSE next3
        IN /\ b0.lo < b0.hi => b0.lo = l.twr
           /\ b2.lo < b2.hi => b2.lo = next2
           /\ b3.lo < b3.hi => b3.lo = next3
           /\ next4 = end
    BY <1>a, <1>7 DEF InOrder, Full
  <2>2. LET next2 == IF b0.lo + n0 < b0.hi THEN b0.hi ELSE k.twr
            next3 == IF b2.lo + n2 < b2.hi THEN b2.hi ELSE next2
            next4 == IF b3.lo + n3 < b3.hi THEN b3.hi ELSE next3
        IN /\ b0.lo + n0 < b0.hi => b0.lo + n0 = k.twr
           /\ b2.lo + n2 < b2.hi => b2.lo + n2 = next2
           /\ b3.lo + n3 < b3.hi => b3.lo + n3 = next3
           /\ next4 = end
    <3>1. k.twr = l.twr + n0 + n2 + n3 /\ l.twr \in Nat
      BY <1>1, <1>3
    <3>2. CASE n0 < b0.hi - b0.lo
      BY <1>b, <1>2, <2>1, <3>1, <3>2
    <3>3. CASE n0 = b0.hi - b0.lo /\ n2 < b2.hi - b2.lo
      BY <1>b, <1>2, <2>1, <3>1, <3>3
    <3>4. CASE n0 = b0.hi - b0.lo /\ n2 = b2.hi - b2.lo
      <4> DEFINE at == l.twr + n0 + n2
      <4>0. k.twr = at + n3 /\ at \in Nat
        BY <1>2, <3>1
      <4>1. (b0.lo < b0.hi => b0.hi = l.twr + n0) /\ (b0.lo = b0.hi => n0 = 0)
        BY <1>b, <2>1, <3>4
      <4>2. (b2.lo < b2.hi => b2.hi = at) /\ (b2.lo = b2.hi => n2 = 0)
        BY <1>b, <1>2, <2>1, <3>1, <3>4, <4>1
      <4>3. (b3.lo < b3.hi => b3.lo = at /\ b3.hi = end) /\ (b3.lo = b3.hi => at = end /\ n3 = 0)
        BY <1>b, <1>2, <2>1, <3>1, <4>1, <4>2
      <4>4. ~(b0.lo + n0 < b0.hi) /\ ~(b2.lo + n2 < b2.hi)
        BY <1>b, <3>4
      <4>5. /\ b3.lo + n3 < b3.hi => b3.lo + n3 = k.twr /\ b3.hi = end
            /\ ~(b3.lo + n3 < b3.hi) => k.twr = end
        <5> HIDE DEF at
        <5>1. n3 \in Nat /\ n3 <= b3.hi - b3.lo /\ (b3.lo < b3.hi \/ b3.lo = b3.hi)
          BY <1>b, <1>2
        <5>2. CASE b3.lo = b3.hi
          BY <1>b, <4>0, <4>3, <5>1, <5>2
        <5>3. CASE b3.lo < b3.hi
          BY <1>b, <4>0, <4>3, <5>1, <5>3
        <5> QED BY <5>1, <5>2, <5>3
      <4> QED BY <4>4, <4>5
    <3>5. (n0 < b0.hi - b0.lo \/ n0 = b0.hi - b0.lo) /\ (n2 < b2.hi - b2.lo \/ n2 = b2.hi - b2.lo)
      BY <1>b, <1>2
    <3> QED BY ONLY <3>2, <3>3, <3>4, <3>5
  <2> QED BY <1>4, <1>5, <2>2 DEF InOrder
<1> QED BY <1>3, <1>6, <1>7 DEF k
\* What a handler owes to the rest of the batch, and to its caller.
SettledPair(p, q) == \A s \in Side : Settled(p[s], q[s])

\* What leaves the stream alone owes nothing to the batch.
LEMMA FollowsSettled ==
  ASSUME NEW p \in Connection, NEW q, Follows(p, q)
  PROVE  SettledPair(p, q)
BY DEF Follows, SettledPair, Keeps

\* Two operations that settle, one after the other, settle.
LEMMA SettledTransitive ==
  ASSUME NEW p, NEW q, NEW r, SettledPair(p, q), SettledPair(q, r)
  PROVE  SettledPair(p, r)
BY DEF SettledPair, Settled, StateKept, Alive

\* A leg that sends from its buffers.
LEMMA SendingKeepsInv ==
  ASSUME NEW p \in Connection, NEW s \in Side, NEW n \in Nat, ConnInv(p), HasUnsent(p[s])
  PROVE  LET q == [p EXCEPT ![s] = BuffersSend(@, n)]
         IN q \in Connection /\ ConnInv(q)
<1> DEFINE o == Other(s)
           q == [p EXCEPT ![s] = BuffersSend(@, n)]
<1>1. /\ o \in Side /\ o # s /\ Other(o) = s /\ \A x \in Side : x = s \/ x = o
      /\ p[s] \in Leg /\ p[o] \in Leg /\ q[s] = BuffersSend(p[s], n) /\ q[o] = p[o]
  BY OtherSide DEF Connection, Side, Other
<1>2. q \in Connection
  BY <1>1, BuffersSendType DEF Connection
<1>3. /\ SameLeg(p[s], q[s]) /\ q[s].fatal = p[s].fatal
      /\ \A j \in BufferNumber : Full(q[s].buf[j]) => Full(p[s].buf[j])
      /\ \A end \in Nat : InOrder(p[s], end) => InOrder(q[s], end)
  BY <1>1, BuffersSendInOrder
<1> HIDE DEF q, o
<1>4. LastBytes(q, s) /\ LastBytes(q, o)
  BY <1>1, <1>3 DEF ConnInv, DataInv, LastBytes, SameLeg, Alive, BufferNumber, o
<1>5. Fresh(q)
  <2>1. "local" \in Side /\ "remote" \in Side
    BY DEF Side
  <2>2. /\ q["local"].state = p["local"].state /\ q["local"].socks = p["local"].socks
        /\ q["remote"].state = p["remote"].state /\ q["local"].trd = p["local"].trd
    BY <1>1, <1>3, <2>1 DEF SameLeg
  <2>3. Negotiates(q) <=> Negotiates(p)
    BY <2>2 DEF Negotiates, Alive
  <2>4. s = "local" => ~Negotiates(p)
    BY DEF ConnInv, DataInv, Fresh
  <2>5. s # "local" => q["local"] = p["local"]
    BY <1>1, <2>1
  <2> QED BY <2>2, <2>3, <2>4, <2>5 DEF ConnInv, DataInv, Fresh
<1>6. ASSUME ~Split PROVE Intact(q)
  <2>1. Connected(q) <=> Connected(p)
    BY <1>1, <1>3 DEF Connected, Alive, SameLeg
  <2>2. \A x \in Side : (SendFails(q[x]) <=> SendFails(p[x])) /\ q[x].trd = p[x].trd /\ p[x].trd \in Nat
    BY <1>1, <1>3 DEF SendFails, SameLeg, Leg
  <2>3. \A x \in Side : InOrder(p[x], p[Other(x)].trd) => InOrder(q[x], q[Other(x)].trd)
    <3>1. InOrder(p[s], p[o].trd) => InOrder(q[s], q[o].trd)
      BY <1>1, <1>3, <2>2
    <3>2. InOrder(p[o], p[s].trd) => InOrder(q[o], q[s].trd)
      BY <1>1, <2>2
    <3> QED BY <1>1, <3>1, <3>2 DEF o
  <2> QED BY <1>6, <2>1, <2>2, <2>3 DEF ConnInv, DataInv, Intact
<1>7. \A x \in Side : MaskInv(q[x])
  BY <1>1, <1>3 DEF ConnInv, MaskInv, Quiet, Cached, SameLeg
<1> QED BY <1>1, <1>2, <1>4, <1>5, <1>6, <1>7 DEF ConnInv, DataInv, q

\* Sending from the buffers touches neither the partner nor what was read.
LEMMA SendingSettled ==
  ASSUME NEW p \in Connection, NEW s \in Side, NEW n \in Nat
  PROVE  LET q == [p EXCEPT ![s] = BuffersSend(@, n)]
         IN SettledPair(p, q) /\ q[Other(s)] = p[Other(s)] /\ q[s].trd = p[s].trd /\ q[s].got = p[s].got
BY BuffersSendInOrder, OtherSide
   DEF SettledPair, Settled, StateKept, SameLeg, Connection

\* handle_unsent: the partner keeps its buffers, and a leg its stream.
LEMMA HandleUnsentKeepsInv ==
  ASSUME NEW p \in Connection, NEW s \in Side, NEW n \in Nat, ConnInv(p)
  PROVE  LET u == HandleUnsent(p, s, n).p
         IN /\ ConnInv(u) /\ u \in Connection /\ SettledPair(p, u)
            /\ u[s].state = p[s].state /\ u[Other(s)].state = p[Other(s)].state
            /\ u[Other(s)].buf = p[Other(s)].buf
            /\ u[s].trd = p[s].trd /\ u[s].got = p[s].got /\ u[s].socks = p[s].socks
<1> DEFINE o == Other(s)
           sent == IF HasUnsent(p[s]) THEN [p EXCEPT ![s] = BuffersSend(@, n)] ELSE p
           Good(q) == /\ ConnInv(q) /\ q \in Connection /\ SettledPair(p, q)
                      /\ q[s].state = p[s].state /\ q[o].state = p[o].state
                      /\ q[o].buf = p[o].buf
                      /\ q[s].trd = p[s].trd /\ q[s].got = p[s].got /\ q[s].socks = p[s].socks
<1>1. Good(p)
  BY DEF SettledPair, Settled, StateKept
<1>2. Good(sent)
  <2>1. CASE ~HasUnsent(p[s])
    BY <1>1, <2>1
  <2>2. CASE HasUnsent(p[s])
    <3>1. sent[s].state = p[s].state /\ sent[s].socks = p[s].socks
      BY <2>2, BuffersSendInOrder DEF SameLeg, Connection
    <3> QED BY <2>2, <3>1, SendingKeepsInv, SendingSettled
  <2> QED BY <2>1, <2>2
<1> HIDE DEF sent
<1>3. ASSUME NEW q, Good(q) PROVE Good(Shutdown(q, s))
  <2>1. /\ Shutdown(q, s)[s].state = q[s].state /\ Shutdown(q, s)[o].state = q[o].state
        /\ Shutdown(q, s)[o].buf = q[o].buf
        /\ Shutdown(q, s)[s].trd = q[s].trd /\ Shutdown(q, s)[s].got = q[s].got
        /\ Shutdown(q, s)[s].socks = q[s].socks
    BY <1>3, OtherSide DEF Shutdown, Connection, Leg
  <2>2. Follows(q, Shutdown(q, s))
    BY <1>3, ShutdownFollows
  <2> QED BY <1>3, <2>1, <2>2, FollowsInv, FollowsSettled, SettledTransitive DEF Follows
<1>4. ASSUME NEW q, Good(q) PROVE Good(EpollSetFlowPair(q, s))
  <2>1. LET r == EpollSetFlowPair(q, s)
        IN Follows(q, r) /\ \A x \in Side : SameStream(q[x], r[x])
    BY <1>4, EpollSetFlowPairFollows
  <2> QED BY <1>4, <2>1, OtherSide, FollowsInv, FollowsSettled, SettledTransitive DEF Follows, SameStream
<1> HIDE DEF Good
<1>5. /\ Good(Shutdown(sent, s)) /\ Good(EpollSetFlowPair(sent, s))
      /\ Good(EpollSetFlowPair(Shutdown(sent, s), s))
  BY <1>2, <1>3, <1>4
<1>6. Good(HandleUnsent(p, s, n).p)
  BY <1>1, <1>2, <1>5 DEF HandleUnsent, Result, sent
<1> QED BY <1>6 DEF Good
\* A block read from a leg and passed to its partner, which has nothing left to send.
LEMMA RelayBlockKeepsInv ==
  ASSUME NEW p \in Connection, NEW s \in Side, NEW r \in Nat, NEW m \in Nat, m <= r,
         NEW lost \in BOOLEAN, lost => Split,
         ConnInv(p), Alive(p[s]), PartnerAlive(p, s), ~HasUnsent(p[Other(s)]),
         r <= p[s].got - p[s].trd
  PROVE  LET q == RelayBlock(p, s, r, m, lost) IN ConnInv(q) /\ q \in Connection /\ SettledPair(p, q)
<1> DEFINE o == Other(s)
           q == RelayBlock(p, s, r, m, lost)
           b == [lo |-> p[s].trd + m, hi |-> p[s].trd + r]
           read == [p EXCEPT ![s].trd = @ + r]
<1>1. /\ o \in Side /\ o # s /\ Other(o) = s /\ \A x \in Side : x = s \/ x = o
      /\ p[s] \in Leg /\ p[o] \in Leg
  BY OtherSide DEF Connection, Side, Other
<1>2. q \in Connection /\ q[s] \in Leg /\ q[o] \in Leg
  BY <1>1, RelayBlockType DEF Connection
<1>3. \A k \in BufferNumber : p[o].buf[k] \in Span /\ ~Full(p[o].buf[k])
  BY <1>1 DEF HasUnsent, Leg
<1> DEFINE w == Wrote(p[o], m)
           f == BufferCreate(w, 0, b)
<1>4. /\ read[s] = [p[s] EXCEPT !.trd = p[s].trd + r] /\ read[o] = p[o]
      /\ \A l : [read EXCEPT ![o] = l][o] = l /\ [read EXCEPT ![o] = l][s] = read[s]
  BY <1>1 DEF Connection
<1>5. q[s] = [p[s] EXCEPT !.trd = p[s].trd + r]
  BY <1>4 DEF RelayBlock
<1>a. /\ SameLeg(p[o], w) /\ w.fatal = p[o].fatal /\ w.buf = p[o].buf /\ w.twr = p[o].twr + m
      /\ w \in Leg
  BY <1>1, WroteType DEF Wrote, SameLeg, Leg
<1>b. q[o] = IF SendFails(p[o]) THEN p[o] ELSE IF m = r \/ lost THEN w ELSE f
  BY <1>4 DEF RelayBlock
<1> HIDE DEF w
<1>c. /\ SameLeg(w, f) /\ f.fatal = w.fatal /\ f.twr = w.twr
      /\ f.buf[0] = b /\ f.buf[2] = w.buf[2] /\ f.buf[3] = w.buf[3]
  BY <1>3, <1>a DEF BufferCreate, SameLeg, Leg, BufferNumber
<1> HIDE DEF f, q
<1>6. SameLeg(p[o], q[o]) /\ q[o].fatal = p[o].fatal
  BY <1>a, <1>b, <1>c DEF SameLeg
<1>7. /\ \A k \in {2, 3} : ~Full(q[o].buf[k])
      /\ ~Split /\ ~SendFails(p[o]) =>
           /\ q[o].twr = p[o].twr + m
           /\ m # r => q[o].buf[0] = b
           /\ m = r => ~Full(q[o].buf[0])
  BY <1>3, <1>a, <1>b, <1>c DEF BufferNumber
<1> HIDE DEF read, o
<1>8. /\ q[s].trd = p[s].trd + r /\ q[s].buf = p[s].buf /\ q[s].fatal = p[s].fatal
      /\ q[s].state = p[s].state /\ q[s].shut = p[s].shut /\ q[s].broken = p[s].broken
      /\ q[s].got = p[s].got /\ q[s].fin = p[s].fin /\ q[s].twr = p[s].twr
      /\ q[s].cached = p[s].cached /\ q[s].mask = p[s].mask
      /\ q[s].socks = p[s].socks /\ p[s].trd \in Nat /\ p[s].got \in Nat /\ p[o].twr \in Nat
      /\ p[o].trd \in Nat
  BY <1>1, <1>5 DEF Leg
<1>9. LastBytes(q, s) /\ LastBytes(q, o)
  BY <1>1, <1>6, <1>7, <1>8 DEF ConnInv, DataInv, LastBytes, SameLeg, Alive, o
<1>10. Fresh(q)
  <2>1. ~Negotiates(p) /\ q["local"].socks = p["local"].socks
    BY <1>1, <1>6, <1>8 DEF ConnInv, DataInv, Fresh, Negotiates, Alive, PartnerAlive, SameLeg, Side, o, Other
  <2>2. ~Negotiates(q)
    BY <1>1, <1>6, <1>8, <2>1 DEF Negotiates, Alive, SameLeg, Side, o, Other
  <2> QED BY <2>1, <2>2 DEF ConnInv, DataInv, Fresh
<1>11. ASSUME ~Split PROVE Intact(q)
  <2>1. Connected(p)
    BY <1>1 DEF Connected, PartnerAlive, o
  <2>2. ASSUME ~SendFails(p[o]), InOrder(p[o], p[s].trd) PROVE InOrder(q[o], q[s].trd)
    <3>1. p[o].twr = p[s].trd
      BY <1>3, <2>2 DEF InOrder, BufferNumber
    <3>2. CASE m = r
      BY <1>7, <1>8, <1>11, <2>2, <3>1, <3>2 DEF InOrder
    <3>3. CASE m # r
      <4>1. m < r /\ q[o].buf[0] = b /\ q[o].twr = p[o].twr + m
        BY <1>7, <1>11, <2>2, <3>3
      <4>2. ~Full(q[o].buf[2]) /\ ~Full(q[o].buf[3]) /\ Full(b)
        BY <1>7, <1>8, <4>1 DEF Full
      <4> QED BY <1>8, <3>1, <4>1, <4>2 DEF InOrder
    <3> QED BY <3>2, <3>3
  <2>3. InOrder(p[s], p[o].trd) => InOrder(q[s], q[o].trd)
    BY <1>6, <1>8 DEF InOrder, SameLeg
  <2>4. (SendFails(q[o]) <=> SendFails(p[o])) /\ (SendFails(q[s]) <=> SendFails(p[s]))
    BY <1>6, <1>8 DEF SendFails, SameLeg
  <2>5. \A x \in Side : ~SendFails(p[x]) => InOrder(p[x], p[Other(x)].trd)
    BY <1>11, <2>1 DEF ConnInv, DataInv, Intact
  <2> QED BY <1>1, <2>2, <2>3, <2>4, <2>5 DEF Intact, o
<1>12. \A x \in Side : MaskInv(q[x])
  BY <1>1, <1>6, <1>8 DEF ConnInv, MaskInv, Quiet, Cached, SameLeg
<1>13. SettledPair(p, q)
  BY <1>1, <1>6, <1>8 DEF SettledPair, Settled, StateKept, SameLeg
<1> QED BY <1>1, <1>2, <1>9, <1>10, <1>11, <1>12, <1>13 DEF ConnInv, DataInv, q

\* handle_epoll.
LEMMA HandleEpollKeepsInv ==
  ASSUME NEW p \in Connection, NEW s \in Side, NEW in \in BOOLEAN, NEW n \in Nat,
         NEW r \in Nat, NEW m \in Nat, m <= r, NEW lost \in BOOLEAN, lost => Split,
         r <= Unread(p[s]) \/ Unread(p[s]) <= 0, ConnInv(p), Alive(p[s]), InTcpMode(p, s)
  PROVE  LET q == HandleEpoll(p, s, in, n, r, m, lost).p
         IN ConnInv(q) /\ q \in Connection /\ SettledPair(p, q)
<1> DEFINE o == Other(s)
           u == HandleUnsent(p, s, n)
           skipped == [u.p EXCEPT ![s].trd = p[s].got]
           relayed == RelayBlock(u.p, s, r, m, lost)
           Good(q) == ConnInv(q) /\ q \in Connection /\ SettledPair(p, q)
<1>1. /\ Good(u.p) /\ u.p[s].state = p[s].state /\ u.p[o].state = p[o].state
      /\ u.p[o].buf = p[o].buf /\ u.p[s].trd = p[s].trd /\ u.p[s].got = p[s].got
      /\ u.p[s].socks = p[s].socks
  BY HandleUnsentKeepsInv
<1> HIDE DEF u
<1>2. ASSUME ~PartnerAlive(p, s) PROVE Good(skipped)
  <2>1. u.p[s] \in Leg /\ u.p[o] \in Leg /\ o \in Side /\ o # s /\ Other(o) = s
        /\ p[s] \in Leg /\ \A x \in Side : x = s \/ x = o
    BY <1>1, OtherSide DEF Connection, Side, Other
  <2>2. skipped[s] = [u.p[s] EXCEPT !.trd = p[s].got] /\ skipped[o] = u.p[o]
    BY <1>1, <2>1 DEF Connection
  <2> HIDE DEF skipped
  <2>3. ~Alive(u.p[o]) /\ p[s].got \in Nat
    BY <1>1, <1>2, <2>1 DEF PartnerAlive, Alive, Leg
  <2>4. skipped \in Connection
    <3>1. skipped[s] \in Leg
      BY <2>1, <2>2, <2>3 DEF Leg
    <3> QED BY <1>1, <3>1 DEF skipped, Connection
  <2>5. /\ skipped[s].buf = u.p[s].buf /\ skipped[s].fatal = u.p[s].fatal
        /\ skipped[s].state = u.p[s].state /\ skipped[s].fin = u.p[s].fin
        /\ skipped[s].socks = u.p[s].socks /\ skipped[s].cached = u.p[s].cached
        /\ skipped[s].mask = u.p[s].mask /\ skipped[s].got = u.p[s].got
        /\ skipped[s].twr = u.p[s].twr
    BY <2>1, <2>2 DEF Leg
  <2>6. LastBytes(skipped, s) /\ LastBytes(skipped, o)
    BY <1>1, <2>1, <2>2, <2>3, <2>5 DEF ConnInv, DataInv, LastBytes, Alive
  <2>7. ~Connected(skipped)
    BY <2>1, <2>2, <2>3 DEF Connected
  <2>8. \A x \in Side : MaskInv(skipped[x])
    <3>1. MaskInv(u.p[s]) /\ MaskInv(u.p[o])
      BY <1>1, <2>1 DEF ConnInv
    <3>2. MaskInv(skipped[s])
      BY <2>5, <3>1 DEF MaskInv, Quiet, Cached
    <3> QED BY <2>1, <2>2, <3>1, <3>2
  <2>9. SettledPair(u.p, skipped)
    BY <2>1, <2>2, <2>5 DEF SettledPair, Settled, StateKept
  <2>10. Fresh(skipped)
    <3>1. s = "local" => ~Negotiates(skipped)
      BY <1>1, <2>5 DEF Negotiates, InTcpMode
    <3>2. s # "local" => skipped["local"] = u.p["local"] /\ skipped["remote"].state = u.p["remote"].state
      BY <2>1, <2>2, <2>5 DEF Side
    <3>3. skipped["local"].socks = u.p["local"].socks
      BY <2>1, <2>2, <2>5 DEF Side
    <3> QED BY <1>1, <3>1, <3>2, <3>3 DEF ConnInv, DataInv, Fresh, Negotiates
  <2> QED BY <1>1, <2>1, <2>4, <2>6, <2>7, <2>8, <2>9, <2>10, SettledTransitive
          DEF ConnInv, DataInv, Intact
<1>3. ASSUME PartnerAlive(p, s), ~HasUnsent(p[o]), ~(Unread(p[s]) <= 0)
      PROVE  Good(EpollSetFlowPair(relayed, s))
  <2>1. Alive(u.p[s]) /\ PartnerAlive(u.p, s) /\ ~HasUnsent(u.p[o]) /\ r <= u.p[s].got - u.p[s].trd
    BY <1>1, <1>3 DEF Alive, PartnerAlive, HasUnsent, Unread
  <2>2. ConnInv(relayed) /\ relayed \in Connection /\ SettledPair(u.p, relayed)
    BY <1>1, <2>1, RelayBlockKeepsInv
  <2> HIDE DEF relayed
  <2>3. Follows(relayed, EpollSetFlowPair(relayed, s))
    BY <2>2, EpollSetFlowPairFollows
  <2> QED BY <1>1, <2>2, <2>3, FollowsInv, FollowsSettled, SettledTransitive DEF Follows
<1> QED BY <1>1, <1>2, <1>3 DEF HandleEpoll, Result, u
-----------------------------------------------------------------------------
(* The end of a stream.                                                    *)

\* What reading the rest of the stream of leg l, now l2, into buffer k of its partner o,
\* now o2, changes.
ReadEffect(l, l2, o, o2, k) ==
  /\ l2.state = l.state /\ l2.shut = l.shut /\ l2.socks = l.socks
  /\ l2.broken = l.broken /\ l2.got = l.got /\ l2.fin = l.fin /\ l2.buf = l.buf
  /\ l2.twr = l.twr /\ l2.fatal = l.fatal /\ l2.cached = l.cached /\ l2.mask = l.mask
  /\ o2.state = o.state /\ o2.shut = o.shut /\ o2.socks = o.socks
  /\ o2.broken = o.broken /\ o2.got = o.got /\ o2.fin = o.fin /\ o2.trd = o.trd
  /\ o2.twr = o.twr /\ o2.fatal = o.fatal /\ (MaskInv(o) => MaskInv(o2))
  /\ \A j \in BufferNumber \ {k} : o2.buf[j] = o.buf[j]
  /\ Alive(o) => l2.got <= l2.trd
  /\ \/ l2.trd = l.trd /\ o2.buf = o.buf
     \/ Alive(o) /\ l2.trd = l.got /\ l.trd < l.got /\ o2.buf[k] = [lo |-> l.trd, hi |-> l.got]

\* read_all_and_buffer, when buffer k of the partner is empty.
LEMMA ReadAllAndBufferEffect ==
  ASSUME NEW p \in Connection, NEW s \in Side, NEW k \in {2, 3}, ~Full(p[Other(s)].buf[k])
  PROVE  LET q == ReadAllAndBuffer(p, s, k)
         IN ReadEffect(p[s], q[s], p[Other(s)], q[Other(s)], k)
<1> DEFINE q == ReadAllAndBuffer(p, s, k)
           o == Other(s)
           b == [lo |-> p[s].trd, hi |-> p[s].got]
<1>1. /\ o \in Side /\ o # s /\ p[s] \in Leg /\ p[o] \in Leg /\ k \in BufferNumber
      /\ p[s].trd \in Nat /\ p[s].got \in Nat
  BY OtherSide DEF Connection, BufferNumber, Leg
<1>2. CASE ~PartnerAlive(p, s) \/ Unread(p[s]) <= 0
  <2>1. q = p
    BY <1>2 DEF ReadAllAndBuffer
  <2>2. Alive(p[o]) => p[s].got <= p[s].trd
    BY <1>1, <1>2 DEF PartnerAlive, Unread
  <2> QED BY <2>1, <2>2 DEF ReadEffect
<1>3. CASE PartnerAlive(p, s) /\ ~(Unread(p[s]) <= 0)
  <2> DEFINE f == BufferCreate(p[o], k, b)
             w == WatchOut(f)
  <2>1. p[s].trd < p[s].got /\ b \in Span /\ Alive(p[o])
    BY <1>1, <1>3 DEF Unread, Span, PartnerAlive
  <2>2. q[s] = [p[s] EXCEPT !.trd = p[s].got] /\ q[o] = w
    BY <1>1, <1>3 DEF ReadAllAndBuffer, Connection, PartnerAlive
  <2>3. /\ SameLeg(p[o], f) /\ f.fatal = p[o].fatal /\ f.twr = p[o].twr /\ f.buf[k] = b
        /\ \A j \in BufferNumber \ {k} : f.buf[j] = p[o].buf[j]
    BY <1>1 DEF BufferCreate, SameLeg, Leg
  <2>4. f \in Leg
    BY <1>1, <2>1, BufferCreateType
  <2> HIDE DEF f
  <2>5. /\ w.state = f.state /\ w.shut = f.shut /\ w.socks = f.socks /\ w.broken = f.broken
        /\ w.got = f.got /\ w.fin = f.fin /\ w.trd = f.trd /\ w.twr = f.twr /\ w.fatal = f.fatal
        /\ w.buf = f.buf
    BY <2>4 DEF WatchOut, EpollUpdateFlow, Leg
  <2>6. MaskInv(f) => MaskInv(w)
    BY <2>4, WatchKeeps DEF MaskInv
  <2>7. MaskInv(p[o]) => MaskInv(f)
    BY <2>3 DEF SameLeg, MaskInv, Quiet, Cached
  <2> HIDE DEF w, q, b
  <2>8. /\ q[s].state = p[s].state /\ q[s].shut = p[s].shut /\ q[s].socks = p[s].socks
        /\ q[s].broken = p[s].broken /\ q[s].got = p[s].got /\ q[s].fin = p[s].fin
        /\ q[s].buf = p[s].buf /\ q[s].twr = p[s].twr /\ q[s].fatal = p[s].fatal
        /\ q[s].cached = p[s].cached /\ q[s].mask = p[s].mask /\ q[s].trd = p[s].got
    BY <1>1, <2>2 DEF Leg
  <2>9. q[s].got <= q[s].trd
    BY <1>1, <2>8
  <2>10. /\ q[o].state = p[o].state /\ q[o].shut = p[o].shut /\ q[o].socks = p[o].socks
         /\ q[o].broken = p[o].broken /\ q[o].got = p[o].got /\ q[o].fin = p[o].fin
         /\ q[o].trd = p[o].trd /\ q[o].twr = p[o].twr /\ q[o].fatal = p[o].fatal
         /\ (MaskInv(p[o]) => MaskInv(q[o])) /\ q[o].buf[k] = [lo |-> p[s].trd, hi |-> p[s].got]
         /\ \A j \in BufferNumber \ {k} : q[o].buf[j] = p[o].buf[j]
    BY <2>2, <2>3, <2>5, <2>6, <2>7 DEF SameLeg, b
  <2> HIDE DEF o
  <2> QED BY <2>1, <2>8, <2>9, <2>10 DEF q, o, ReadEffect
<1> QED BY <1>2, <1>3

\* EPOLLHUP, EPOLLERR.
LEMMA HandleHupKeepsInv ==
  ASSUME NEW p \in Connection, NEW s \in Side, ConnInv(p), Alive(p[s])
  PROVE  LET q == HandleHup(p, s) IN ConnInv(q) /\ SettledPair(p, q)
<1> DEFINE o == Other(s)
           a == ProxyRemoteConnAck(p, s)
           read == ReadAllAndBuffer(a, s, 3)
           shown == IF p[s].broken /\ p[s].up /\ PartnerAlive(p, s)
                    THEN [read EXCEPT ![o].linger = TRUE] ELSE read
           ended == [read EXCEPT ![s] = CloseLeg(@)]
           q == CloseWithPartnerCheck(shown, s)
<1>0. q = HandleHup(p, s)
  BY DEF HandleHup
<1>1. /\ o \in Side /\ o # s /\ Other(o) = s /\ \A x \in Side : x = s \/ x = o
  BY OtherSide DEF Side, Other
<1>2. Follows(p, a) /\ a \in Connection /\ ConnInv(a) /\ Alive(a[s]) /\ SettledPair(p, a)
  <2>1. a[s].state = p[s].state
    BY DEF ProxyRemoteConnAck, Connection, Leg, Side
  <2> QED BY <2>1, ProxyRemoteConnAckFollows, ProxyRemoteConnAckType, FollowsInv, FollowsSettled DEF Alive
<1> HIDE DEF a, o
<1>3. read \in Connection
  BY <1>2, ReadAllAndBufferType DEF BufferNumber
<1>4. a[s] \in Leg /\ a[o] \in Leg /\ read[s] \in Leg /\ read[o] \in Leg
  BY <1>1, <1>2, <1>3 DEF Connection
<1>5. ~Full(a[o].buf[3])
  BY <1>1, <1>2 DEF ConnInv, DataInv, LastBytes
<1>6. LET l == a[s]  l2 == read[s]  o1 == a[o]  o2 == read[o]
      IN /\ l2.state = l.state /\ l2.socks = l.socks /\ l2.got = l.got /\ l2.fin = l.fin
         /\ l2.buf = l.buf /\ l2.twr = l.twr /\ l2.fatal = l.fatal
         /\ l2.cached = l.cached /\ l2.mask = l.mask
         /\ o2.state = o1.state /\ o2.socks = o1.socks /\ o2.got = o1.got /\ o2.fin = o1.fin
         /\ o2.trd = o1.trd /\ o2.twr = o1.twr /\ o2.fatal = o1.fatal
         /\ (MaskInv(o1) => MaskInv(o2))
         /\ o2.buf[0] = o1.buf[0] /\ o2.buf[2] = o1.buf[2]
         /\ \/ l2.trd = l.trd /\ o2.buf = o1.buf
            \/ Alive(o1) /\ l.trd < l.got
  <2>1. ReadEffect(a[s], read[s], a[o], read[o], 3)
    BY <1>2, <1>5, ReadAllAndBufferEffect DEF o
  <2> QED BY <2>1 DEF ReadEffect, BufferNumber
<1> HIDE DEF read
<1>7. ended \in Connection /\ ended[s] = CloseLeg(read[s]) /\ ended[o] = read[o]
  BY <1>1, <1>3, <1>4, CloseLegType DEF Connection
<1>8. /\ ended[s].state = "closed" /\ ended[s].buf = read[s].buf /\ ended[s].fatal = read[s].fatal
      /\ ended[s].fin = read[s].fin /\ ended[s].socks = read[s].socks
      /\ MaskInv(ended[s])
  <2>1. Alive(read[s]) /\ MaskInv(read[s])
    BY <1>1, <1>2, <1>6 DEF Alive, ConnInv, MaskInv, Quiet, Cached
  <2>2. MaskInv(ended[s])
    BY <1>4, <1>7, <2>1, CloseLegKeeps
  <2> QED BY <1>4, <1>7, <2>1, <2>2 DEF CloseLeg, Leg
<1> HIDE DEF ended
<1>9. LastBytes(ended, s) /\ LastBytes(ended, o)
  <2>1. LastBytes(a, s) /\ LastBytes(a, o)
    BY <1>1, <1>2 DEF ConnInv, DataInv
  <2>2. LastBytes(ended, s)
    BY <1>1, <1>6, <1>7, <1>8, <2>1 DEF LastBytes, Alive, o
  <2>3. ASSUME Full(ended[o].buf[3]) PROVE ~Full(ended[o].buf[2])
    <3>1. a[s].trd < a[s].got /\ Alive(a[o])
      BY <1>5, <1>6, <1>7, <2>3
    <3>2. a[s].state # "rdhup"
      BY <1>4, <2>1, <3>1 DEF LastBytes, o, Leg
    <3> QED BY <1>1, <1>2, <1>6, <1>7, <2>1, <3>2 DEF LastBytes
  <2>4. LastBytes(ended, o)
    BY <1>1, <1>6, <1>7, <1>8, <2>1, <2>3 DEF LastBytes, Alive
  <2> QED BY <2>2, <2>4
<1>10. Fresh(ended)
  <2>1. ~Negotiates(ended)
    BY <1>1, <1>2, <1>6, <1>7, <1>8 DEF ConnInv, DataInv, Fresh, Negotiates, Alive, Side
  <2>2. ended["local"].socks = a["local"].socks
    BY <1>1, <1>6, <1>7, <1>8 DEF Side
  <2> QED BY <1>2, <2>1, <2>2 DEF ConnInv, DataInv, Fresh
<1>11. ConnInv(ended)
  <2>1. ~Connected(ended)
    BY <1>8 DEF Connected, Alive
  <2>2. MaskInv(ended[o])
    BY <1>1, <1>2, <1>6, <1>7 DEF ConnInv
  <2> QED BY <1>1, <1>8, <1>9, <1>10, <2>1, <2>2 DEF ConnInv, DataInv, Intact
<1>12. SettledPair(a, ended)
  BY <1>1, <1>2, <1>6, <1>7, <1>8 DEF SettledPair, Settled, StateKept, Alive
<1>13. Follows(ended, q)
  <2> DEFINE sh == [read[o] EXCEPT !.linger = TRUE]
  <2>1. sh \in Leg /\ Keeps(read[o], sh) /\ (MaskInv(read[o]) => MaskInv(sh))
    BY <1>4, OptionKeeps
  <2>2. shown[o] \in {read[o], sh} /\ shown[s] = read[s] /\ shown \in Connection
    BY <1>1, <1>3, <1>4, <2>1 DEF Connection
  <2>3. shown[o] \in Leg /\ Keeps(read[o], shown[o]) /\ (MaskInv(read[o]) => MaskInv(shown[o]))
    BY <1>4, <2>1, <2>2, KeepsReflexive
  <2> HIDE DEF shown, sh
  <2>4. q[s] = ended[s]
    BY <1>1, <1>7, <2>2 DEF CloseWithPartnerCheck, Connection, o
  <2>5. q \in Connection /\ Follows(shown, q)
    BY <2>2, CloseFollows, CloseType
  <2>6. Keeps(shown[o], q[o]) /\ (MaskInv(shown[o]) => MaskInv(q[o])) /\ q[o] \in Leg /\ q[s] \in Leg
    BY <1>1, <2>5 DEF Follows, Connection
  <2> HIDE DEF q
  <2>7. Keeps(ended[o], q[o]) /\ (MaskInv(ended[o]) => MaskInv(q[o]))
    BY <1>4, <1>7, <2>3, <2>6, KeepsTransitive
  <2>8. Keeps(ended[s], q[s])
    BY <2>4, <2>6, KeepsReflexive
  <2> QED BY <1>1, <2>4, <2>5, <2>7, <2>8 DEF Follows
<1>14. ConnInv(q) /\ SettledPair(ended, q)
  BY <1>7, <1>11, <1>13, FollowsInv, FollowsSettled
<1> QED BY <1>0, <1>2, <1>12, <1>14, SettledTransitive
\* EPOLLRDHUP.
LEMMA HandleRdhupKeepsInv ==
  ASSUME NEW p \in Connection, NEW s \in Side, ConnInv(p), Alive(p[s]),
         p[s].state # "rdhup", p[s].fin
  PROVE  LET q == HandleRdhup(p, s)
         IN /\ ConnInv(q) /\ q \in Connection
            /\ Settled(p[Other(s)], q[Other(s)]) /\ q[s].state # "absent"
<1> DEFINE o == Other(s)
           a == ReadAllAndBuffer(p, s, 2)
           read == [a EXCEPT ![s].state = "rdhup"]
           quiet == [read EXCEPT ![s] = UnwatchIn(@)]
           busy == [read EXCEPT ![s] = EpollSetFlow(@, FALSE, TRUE)]
           gone == [quiet EXCEPT ![s] = CloseLeg(@)]
           shut == Shutdown(quiet, o)
           closed == CloseWithPartnerCheck(shut, s)
           Good(q) == /\ ConnInv(q) /\ q \in Connection
                      /\ Settled(p[o], q[o]) /\ q[s].state # "absent"
<1>1. /\ o \in Side /\ o # s /\ Other(o) = s /\ \A x \in Side : x = s \/ x = o
      /\ p[s] \in Leg /\ p[o] \in Leg
  BY OtherSide DEF Side, Other, Connection
<1>2. a \in Connection
  BY ReadAllAndBufferType DEF BufferNumber
<1>3. LastBytes(p, s) /\ LastBytes(p, o) /\ MaskInv(p[s]) /\ MaskInv(p[o]) /\ Fresh(p)
  BY <1>1 DEF ConnInv, DataInv
<1>4. ~Full(p[o].buf[2]) /\ ~Full(p[o].buf[3])
  BY <1>1, <1>3 DEF LastBytes
<1>5. ReadEffect(p[s], a[s], p[o], a[o], 2)
  BY <1>4, ReadAllAndBufferEffect
<1> HIDE DEF a
<1>6. /\ read \in Connection /\ read[o] = a[o] /\ read[s].state = "rdhup"
      /\ read[s].shut = a[s].shut /\ read[s].socks = a[s].socks /\ read[s].broken = a[s].broken
      /\ read[s].got = a[s].got /\ read[s].fin = a[s].fin /\ read[s].buf = a[s].buf
      /\ read[s].twr = a[s].twr /\ read[s].trd = a[s].trd /\ read[s].fatal = a[s].fatal
      /\ read[s].cached = a[s].cached /\ read[s].mask = a[s].mask
  <2>1. a[s] \in Leg
    BY <1>2 DEF Connection
  <2>2. [a[s] EXCEPT !.state = "rdhup"] \in Leg
    BY <2>1 DEF Leg, LegState
  <2> QED BY <1>1, <1>2, <2>1, <2>2 DEF Connection, Leg
<1>7. read[s] \in Leg /\ read[o] \in Leg
  BY <1>1, <1>6 DEF Connection
<1> HIDE DEF read, o
<1>8. LastBytes(read, s) /\ LastBytes(read, o)
  <2>1. LastBytes(read, s)
    BY <1>1, <1>3, <1>5, <1>6 DEF LastBytes, ReadEffect, Alive, o
  <2>2. ~Full(read[o].buf[3])
    BY <1>4, <1>5, <1>6 DEF ReadEffect, BufferNumber
  <2>3. LastBytes(read, o)
    BY <1>1, <1>3, <1>5, <1>6, <2>2 DEF LastBytes, ReadEffect, Alive
  <2> QED BY <2>1, <2>3
<1>9. ASSUME ~Split PROVE Intact(read)
  <2>1. Connected(read) => Connected(p)
    BY <1>1, <1>5, <1>6 DEF Connected, ReadEffect, Alive
  <2>2. ASSUME InOrder(p[o], p[s].trd) PROVE InOrder(read[o], read[s].trd)
    <3>1. read[o].twr = p[o].twr /\ read[o].buf[0] = p[o].buf[0] /\ read[o].buf[3] = p[o].buf[3]
      BY <1>5, <1>6 DEF ReadEffect, BufferNumber
    <3>2. p[s].trd = IF Full(p[o].buf[0]) THEN p[o].buf[0].hi ELSE p[o].twr
      BY <1>4, <2>2 DEF InOrder
    <3>3. CASE read[s].trd = p[s].trd /\ read[o].buf = p[o].buf
      BY <2>2, <3>1, <3>3 DEF InOrder
    <3>4. CASE read[s].trd = p[s].got /\ read[o].buf[2] = [lo |-> p[s].trd, hi |-> p[s].got]
                 /\ p[s].trd < p[s].got
      BY <1>4, <2>2, <3>1, <3>2, <3>4 DEF InOrder, Full
    <3> QED BY <1>5, <1>6, <3>3, <3>4 DEF ReadEffect
  <2>3. InOrder(p[s], p[o].trd) => InOrder(read[s], read[o].trd)
    BY <1>5, <1>6 DEF InOrder, ReadEffect
  <2>4. (SendFails(read[o]) <=> SendFails(p[o])) /\ (SendFails(read[s]) <=> SendFails(p[s]))
    BY <1>5, <1>6 DEF SendFails, ReadEffect
  <2>5. Connected(p) => \A x \in Side : ~SendFails(p[x]) => InOrder(p[x], p[Other(x)].trd)
    BY <1>9 DEF ConnInv, DataInv, Intact
  <2> QED BY <1>1, <2>1, <2>2, <2>3, <2>4, <2>5 DEF Intact, o
<1>10. Cached(read[s]) /\ MaskInv(read[o]) /\ Settled(p[o], read[o])
  BY <1>3, <1>5, <1>6 DEF ReadEffect, MaskInv, Cached, Settled, StateKept
<1>11. /\ quiet \in Connection /\ quiet[s] = UnwatchIn(read[s]) /\ quiet[o] = read[o]
       /\ busy \in Connection /\ busy[s] = EpollSetFlow(read[s], FALSE, TRUE) /\ busy[o] = read[o]
       /\ UnwatchIn(read[s]) \in Leg
  BY <1>1, <1>6, <1>7, WatchType, EpollSetFlowType DEF Connection
<1>12. /\ Keeps(read[s], quiet[s]) /\ MaskInv(quiet[s])
       /\ Keeps(read[s], busy[s]) /\ MaskInv(busy[s])
  BY <1>7, <1>10, <1>11, WatchKeeps, EpollSetFlowKeeps
<1>13. CASE ~PartnerAlive(p, s) /\ ~HasUnsent(p[s])
  <2> DEFINE ended == [p EXCEPT ![s] = CloseLeg(@)]
  <2>1. ended \in Connection /\ ended[s] = CloseLeg(p[s]) /\ ended[o] = p[o] /\ ended[s] \in Leg
    BY <1>1, CloseLegType DEF Connection
  <2>2. Follows(p, ended)
    BY <1>1, <2>1, CloseLegKeeps, KeepsReflexive DEF Follows
  <2>3. gone \in Connection /\ gone[s] = CloseLeg(UnwatchIn(read[s])) /\ gone[o] = read[o] /\ gone[s] \in Leg
    BY <1>1, <1>11, CloseLegType DEF Connection
  <2>4. Keeps(UnwatchIn(read[s]), gone[s]) /\ MaskInv(gone[s])
    BY <1>11, <1>12, <2>3, CloseLegKeeps
  <2>5. Keeps(read[s], gone[s]) /\ gone[s].state = "closed"
    <3>1. UnwatchIn(read[s]).state = "rdhup"
      BY <1>6, <1>7 DEF UnwatchIn, EpollUpdateFlow, Leg
    <3>2. gone[s].state = "closed"
      BY <1>11, <2>3, <3>1 DEF CloseLeg, Alive, Leg
    <3> QED BY <1>7, <1>11, <1>12, <2>3, <2>4, <3>2, KeepsTransitive
  <2>6. /\ ended[s].buf = p[s].buf /\ ended[s].trd = p[s].trd /\ ended[s].twr = p[s].twr
        /\ ended[s].fatal = p[s].fatal /\ ended[s].socks = p[s].socks /\ ended[s].fin = p[s].fin
        /\ ended[s].got = p[s].got /\ ended[s].state = "closed"
        /\ ended[s].shut = p[s].shut /\ ended[s].broken = p[s].broken
    <3>1. ended[s] = [p[s] EXCEPT !.state = "closed"]
      BY <2>1 DEF CloseLeg
    <3> HIDE DEF ended
    <3> QED BY <1>1, <3>1 DEF Leg
  <2>7. a = p
    BY <1>13 DEF a, ReadAllAndBuffer
  <2> HIDE DEF ended, gone
  <2>8. Keeps(ended[s], gone[s])
    BY <1>6, <2>5, <2>6, <2>7 DEF Keeps, Settled, StateKept, SendFails
  <2>9. gone[o] = ended[o]
    BY <1>6, <2>1, <2>3, <2>7
  <2>10. Follows(ended, gone)
    BY <1>1, <2>1, <2>3, <2>4, <2>8, <2>9, KeepsReflexive DEF Follows
  <2>11. Good(gone)
    BY <1>1, <2>1, <2>2, <2>3, <2>5, <2>9, <2>10, FollowsInv DEF Settled, StateKept
  <2>12. HandleRdhup(p, s) = gone
    BY <1>6, <1>13, <2>7 DEF HandleRdhup, gone, quiet, read, a, HasUnsent
  <2> QED BY <2>11, <2>12 DEF o
<1>14. CASE PartnerAlive(p, s) \/ HasUnsent(p[s])
  <2>1. Fresh(read)
    <3>1. ~Negotiates(p)
      BY <1>1, <1>3, <1>14 DEF Fresh, Negotiates, PartnerAlive, Alive, Side, Other
    <3>2. read["local"].socks = p["local"].socks
      BY <1>1, <1>5, <1>6 DEF ReadEffect, Side
    <3>3. Alive(read["local"]) => Alive(p["local"])
      BY <1>1, <1>5, <1>6 DEF ReadEffect, Side, Alive
    <3> QED BY <1>3, <3>1, <3>2, <3>3 DEF Fresh, Negotiates
  <2>2. DataInv(read)
    BY <1>1, <1>8, <1>9, <2>1 DEF DataInv
  <2>3. Follows(read, quiet) /\ Follows(read, busy)
    BY <1>1, <1>7, <1>11, <1>12, KeepsReflexive DEF Follows
  <2>4. quiet[s].state # "absent" /\ busy[s].state # "absent"
    BY <1>6, <2>3, <1>1 DEF Follows, Keeps, Settled, StateKept
  <2>5. Good(quiet) /\ Good(busy)
    BY <1>1, <1>6, <1>10, <1>11, <1>12, <2>2, <2>3, <2>4, FollowsData DEF ConnInv
  <2> HIDE DEF quiet, busy
  <2>6. ASSUME NEW q, Good(q), NEW r, Follows(q, r) PROVE Good(r)
    BY <1>1, <2>6, FollowsInv DEF Follows, Keeps, Settled, StateKept, Alive
  <2>7. Good(shut)
    BY <1>1, <2>5, <2>6, ShutdownFollows
  <2> HIDE DEF shut
  <2>8. Good(closed)
    BY <2>6, <2>7, CloseFollows
  <2>9. HandleRdhup(p, s) \in {quiet, busy, shut, closed}
    <3>1. HasUnsent(read[s]) <=> HasUnsent(p[s])
      BY <1>5, <1>6 DEF ReadEffect, HasUnsent
    <3> QED BY <1>14, <3>1 DEF HandleRdhup, a, read, quiet, busy, shut, closed, o
  <2> QED BY <2>5, <2>7, <2>8, <2>9 DEF o
<1> QED BY <1>13, <1>14
-----------------------------------------------------------------------------
(* New connections, and the steps outside the handlers.                    *)

\* A fresh leg holds nothing.
LEMMA NoLegFacts ==
  /\ \A k \in BufferNumber : ~Full(NoLeg.buf[k])
  /\ ~HasUnsent(NoLeg) /\ ~NoLeg.fatal /\ NoLeg.state = "absent"
  /\ NoLeg.trd = 0 /\ NoLeg.twr = 0 /\ NoLeg.socks = "handshake" /\ MaskInv(NoLeg)
  /\ InOrder(NoLeg, 0)
BY DEF NoLeg, NoSpan, Full, HasUnsent, MaskInv, Quiet, Cached, BufferNumber, InOrder

\* A new remote leg joins a client that has relayed nothing.
LEMMA NewRemoteInv ==
  ASSUME NEW p \in Connection, ConnInv(p),
         p["local"].state # "rdhup" /\ ~HasUnsent(p["local"]),
         p["local"].trd = 0, p["local"].twr = 0, ~Socks \/ p["local"].socks \notin {"handshake", "request", "resolve"}
  PROVE  ConnInv(NewRemote(p))
<1> DEFINE q == NewRemote(p)
           new == [NoLeg EXCEPT !.state = "unavailable", !.mask = {"out"}]
<1>1. /\ new.state = "unavailable" /\ new.buf = NoLeg.buf /\ new.fatal = NoLeg.fatal
      /\ new.trd = 0 /\ new.twr = 0 /\ MaskInv(new) /\ new \in Leg
  BY NoLegType, NoLegFacts DEF Leg, LegState, Event, MaskInv, Quiet, Cached, NoLeg
<1>2. q["remote"] = new /\ q["local"] = p["local"] /\ p["local"] \in Leg
  BY DEF NewRemote, Connection, Side
<1> HIDE DEF q, new
<1>3. \A k \in BufferNumber : ~Full(new.buf[k]) /\ ~Full(p["local"].buf[k])
  BY <1>1, NoLegFacts DEF HasUnsent
<1>4. /\ Other("local") = "remote" /\ Other("remote") = "local" /\ "local" \in Side
      /\ \A s \in Side : s = "local" \/ s = "remote"
  BY DEF Side, Other
<1>5. LastBytes(p, "local") /\ MaskInv(p["local"])
  BY <1>4 DEF ConnInv, DataInv
<1>6. LastBytes(q, "local") /\ LastBytes(q, "remote")
  BY <1>1, <1>2, <1>3, <1>4, <1>5, NoLegFacts DEF LastBytes, BufferNumber
<1>7. Fresh(q)
  BY <1>2 DEF ConnInv, DataInv, Fresh, Negotiates
<1>8. Intact(q)
  <2>1. InOrder(new, 0) /\ InOrder(p["local"], 0)
    BY <1>1, <1>3, NoLegFacts DEF InOrder, BufferNumber
  <2> QED BY <1>1, <1>2, <1>4, <2>1 DEF Intact
<1> QED BY <1>1, <1>2, <1>4, <1>5, <1>6, <1>7, <1>8 DEF ConnInv, DataInv, q

\* The client's own message changes what the leg has read, not what it has relayed.
LEMMA ChangeLocalInv ==
  ASSUME NEW p \in Connection, ConnInv(p), NEW l \in Leg,
         l.buf = p["local"].buf, l.trd = p["local"].trd, l.twr = p["local"].twr,
         l.fatal = p["local"].fatal, l.state = p["local"].state, l.fin = p["local"].fin,
         l.mask = p["local"].mask, l.cached = p["local"].cached,
         l.shut = p["local"].shut, l.broken = p["local"].broken,
         l.got <= l.trd \/ l.got = p["local"].got,
         ~Socks => l.socks = "handshake",
         l.socks \in {"handshake", "request", "resolve"} =>
           p["local"].socks \in {"handshake", "request", "resolve"}
  PROVE  LET q == [p EXCEPT !["local"] = l] IN ConnInv(q) /\ q \in Connection /\ SettledPair(p, q)
<1> DEFINE q == [p EXCEPT !["local"] = l]
<1>1. q["local"] = l /\ q["remote"] = p["remote"] /\ q \in Connection
  BY DEF Connection, Side
<1>2. /\ Other("local") = "remote" /\ Other("remote") = "local" /\ "local" \in Side /\ "remote" \in Side
      /\ \A s \in Side : s = "local" \/ s = "remote"
  BY DEF Side, Other
<1> HIDE DEF q
<1>3. /\ LastBytes(p, "local") /\ LastBytes(p, "remote") /\ MaskInv(p["local"])
      /\ MaskInv(p["remote"]) /\ Fresh(p) /\ (~Split => Intact(p))
  BY <1>2 DEF ConnInv, DataInv
<1>4. LastBytes(q, "local") /\ LastBytes(q, "remote")
  BY <1>1, <1>2, <1>3 DEF LastBytes, Alive
<1>5. Fresh(q)
  <2>1. Negotiates(q) => Negotiates(p)
    BY <1>1 DEF Negotiates, Alive
  <2> QED BY <1>1, <1>3, <2>1 DEF Fresh, HasUnsent
<1>6. ASSUME ~Split PROVE Intact(q)
  <2>1. Connected(q) => Connected(p)
    BY <1>1, <1>2 DEF Connected, Alive
  <2>2. InOrder(p["local"], p["remote"].trd) => InOrder(l, p["remote"].trd)
    BY DEF InOrder
  <2> QED BY <1>1, <1>2, <1>3, <1>6, <2>1, <2>2 DEF Intact, SendFails
<1>7. MaskInv(l)
  BY <1>3 DEF MaskInv, Quiet, Cached
<1>8. SettledPair(p, q)
  BY <1>1, <1>2 DEF SettledPair, Settled, StateKept
<1> QED BY <1>1, <1>2, <1>3, <1>4, <1>5, <1>6, <1>7, <1>8 DEF ConnInv, DataInv, q
\* proxy_mode_connect_remote.
LEMMA ConnectRemoteInv ==
  ASSUME NEW p \in Connection, ConnInv(p), Negotiates(p)
  PROVE  LET q == ProxyModeConnectRemote(p)
         IN ConnInv(q) /\ q \in Connection /\ Settled(p["local"], q["local"])
<1> DEFINE l == [p["local"] EXCEPT !.socks = "connection"]
           a == [p EXCEPT !["local"] = l]
           q == ProxyModeConnectRemote(p)
<1>1. p["local"] \in Leg /\ l \in Leg
  BY DEF Connection, Side, Leg, SocksState
<1>2. /\ l.buf = p["local"].buf /\ l.trd = p["local"].trd /\ l.twr = p["local"].twr
      /\ l.fatal = p["local"].fatal /\ l.state = p["local"].state /\ l.fin = p["local"].fin
      /\ l.mask = p["local"].mask /\ l.cached = p["local"].cached
      /\ l.shut = p["local"].shut /\ l.broken = p["local"].broken
      /\ l.got = p["local"].got /\ l.socks = "connection"
  BY <1>1 DEF Leg
<1>3. a["local"] = l
  BY DEF Connection, Side
<1>4. q = NewRemote(a) /\ q["local"] = a["local"]
  BY DEF ProxyModeConnectRemote, NewRemote, Connection, Side
<1> HIDE DEF l
<1>5. ConnInv(a) /\ a \in Connection
  BY <1>1, <1>2, ChangeLocalInv DEF Negotiates
<1> HIDE DEF a
<1>6. /\ l.state # "rdhup" /\ ~HasUnsent(l) /\ l.trd = 0 /\ l.twr = 0
  BY <1>2 DEF ConnInv, DataInv, Fresh, HasUnsent
<1>7. ConnInv(NewRemote(a))
  BY <1>2, <1>3, <1>5, <1>6, NewRemoteInv
<1> QED BY <1>2, <1>3, <1>4, <1>7, NewConnectionType DEF Settled, StateKept

\* handle_proxy_mode: every message of the client, and every reply.
LEMMA HandleProxyModeInv ==
  ASSUME NEW p \in Connection, NEW reply \in SocksReplies(p), ConnInv(p), Alive(p["local"]),
         ~InTcpMode(p, "local")
  PROVE  LET q == HandleProxyMode(p, reply).p
         IN ConnInv(q) /\ (Settled(p["remote"], q["remote"]) \/ p["remote"].state = "absent")
<1> DEFINE l == [p["local"] EXCEPT !.got = p["local"].trd]
           read == [p EXCEPT !["local"] = l]
           Settles(q) == Settled(p["remote"], q["remote"]) \/ p["remote"].state = "absent"
<1>1. /\ "local" \in Side /\ "remote" \in Side /\ p["local"] \in Leg /\ l \in Leg /\ p["local"].trd \in Nat
  BY DEF Connection, Side, Leg
<1>2. /\ l.buf = p["local"].buf /\ l.trd = p["local"].trd /\ l.twr = p["local"].twr
      /\ l.fatal = p["local"].fatal /\ l.state = p["local"].state /\ l.fin = p["local"].fin
      /\ l.mask = p["local"].mask /\ l.cached = p["local"].cached
      /\ l.shut = p["local"].shut /\ l.broken = p["local"].broken
      /\ l.got <= l.trd /\ l.socks = p["local"].socks
  BY <1>1 DEF Leg
<1>3. read["local"] = l /\ read["remote"] = p["remote"]
  BY DEF Connection, Side
<1>4. /\ Socks /\ reply \in {"hangup", "request", "resolve", "connection"}
      /\ reply # "hangup" => p["local"].socks \in {"handshake", "request"}
  BY DEF SocksReplies, InTcpMode
<1> HIDE DEF l
<1>5. ConnInv(read) /\ read \in Connection
  BY <1>1, <1>2, <1>4, ChangeLocalInv
<1> HIDE DEF read
<1>6. ASSUME NEW k \in Leg, reply # "hangup", k.socks \in {"request", "resolve"},
             k.buf = l.buf, k.trd = l.trd, k.twr = l.twr, k.fatal = l.fatal, k.state = l.state,
             k.fin = l.fin, k.mask = l.mask, k.cached = l.cached, k.shut = l.shut,
             k.broken = l.broken, k.got = l.got
      PROVE  ConnInv([read EXCEPT !["local"] = k]) /\ Settles([read EXCEPT !["local"] = k])
  <2>1. ConnInv([read EXCEPT !["local"] = k])
    BY <1>2, <1>3, <1>4, <1>5, <1>6, ChangeLocalInv
  <2>2. [read EXCEPT !["local"] = k]["remote"] = p["remote"]
    BY <1>3, <1>5 DEF Connection, Side
  <2> QED BY <2>1, <2>2 DEF Settled, StateKept
<1>7. CASE reply = "hangup"
  BY <1>3, <1>5, <1>7 DEF HandleProxyMode, Result, read, l, Settled, StateKept
<1>8. CASE reply = "request"
  <2> DEFINE k == [l EXCEPT !.socks = "request"]
  <2>1. /\ k \in Leg /\ k.socks = "request" /\ k.buf = l.buf /\ k.trd = l.trd /\ k.twr = l.twr
        /\ k.fatal = l.fatal /\ k.state = l.state /\ k.fin = l.fin /\ k.mask = l.mask
        /\ k.cached = l.cached /\ k.shut = l.shut /\ k.broken = l.broken /\ k.got = l.got
    BY <1>1 DEF Leg, SocksState
  <2>2. HandleProxyMode(p, reply).p = [read EXCEPT !["local"] = k]
    <3>1. HandleProxyMode(p, reply).p = [read EXCEPT !["local"].socks = "request"]
      BY <1>8 DEF HandleProxyMode, Result, read, l
    <3> QED BY <1>3, <3>1
  <2> HIDE DEF k
  <2> QED BY <1>6, <1>8, <2>1, <2>2
<1>9. CASE reply = "resolve"
  <2> DEFINE k == [l EXCEPT !.socks = "resolve", !.ri = TRUE]
  <2>1. /\ k \in Leg /\ k.socks = "resolve" /\ k.buf = l.buf /\ k.trd = l.trd /\ k.twr = l.twr
        /\ k.fatal = l.fatal /\ k.state = l.state /\ k.fin = l.fin /\ k.mask = l.mask
        /\ k.cached = l.cached /\ k.shut = l.shut /\ k.broken = l.broken /\ k.got = l.got
    BY <1>1 DEF Leg, SocksState
  <2>2. HandleProxyMode(p, reply).p = [read EXCEPT !["local"] = k]
    <3>1. HandleProxyMode(p, reply).p = [read EXCEPT !["local"].socks = "resolve", !["local"].ri = TRUE]
      BY <1>9 DEF HandleProxyMode, Result, read, l
    <3> QED BY <1>3, <1>5, <3>1 DEF Connection, Side
  <2> HIDE DEF k
  <2> QED BY <1>6, <1>9, <2>1, <2>2
<1>10. CASE reply = "connection"
  <2>1. Negotiates(read) /\ read["remote"].state = "absent"
    <3>1. Negotiates(read)
      BY <1>2, <1>3, <1>4, <1>10 DEF Negotiates, Alive
    <3> QED BY <1>5, <3>1 DEF ConnInv, DataInv, Fresh
  <2>2. HandleProxyMode(p, reply).p = ProxyModeConnectRemote(read)
    BY <1>10 DEF HandleProxyMode, Result, read, l
  <2> QED BY <1>3, <1>5, <2>1, <2>2, ConnectRemoteInv
<1> QED BY <1>4, <1>7, <1>8, <1>9, <1>10

\* resolve_complete, for a connection in any state.
LEMMA ResolveCompleteInv ==
  ASSUME NEW p \in Connection, NEW answer, NEW connect \in BOOLEAN, ConnInv(p)
  PROVE  LET q == [ResolveComplete(p, answer, connect) EXCEPT !["local"].ri = FALSE]
         IN /\ ConnInv(q) /\ Settled(p["local"], q["local"])
            /\ Settled(p["remote"], q["remote"]) \/ p["remote"].state = "absent"
<1> DEFINE a == ResolveComplete(p, answer, connect)
           Good(q) == /\ ConnInv(q) /\ q \in Connection /\ Settled(p["local"], q["local"])
                      /\ Settled(p["remote"], q["remote"]) \/ p["remote"].state = "absent"
<1>1. "local" \in Side /\ "remote" \in Side
  BY DEF Side
<1>2. ASSUME NEW q, Good(q), NEW r, Follows(q, r) PROVE Good(r)
  BY <1>1, <1>2, FollowsInv DEF Follows, Keeps, Settled, StateKept, Alive
<1>3. Good(p)
  BY DEF Settled, StateKept
<1>4. ASSUME NEW q \in Connection, NEW l \in Leg, Keeps(q["local"], l), MaskInv(q["local"]) => MaskInv(l)
      PROVE  Follows(q, [q EXCEPT !["local"] = l])
  BY <1>1, <1>4, KeepsReflexive DEF Follows, Connection
<1> HIDE DEF Good
<1>5. Good([p EXCEPT !["local"] = CloseLeg(@)])
  <2>1. p["local"] \in Leg
    BY <1>1 DEF Connection
  <2> QED BY <1>2, <1>3, <1>4, <2>1, CloseLegType, CloseLegKeeps
<1>6. ASSUME Alive(p["local"]), p["local"].socks = "resolve"
      PROVE  Good(ProxyModeConnectRemote(p))
  <2>1. Negotiates(p) /\ p["remote"].state = "absent"
    BY <1>6 DEF ConnInv, DataInv, Fresh, Negotiates
  <2> QED BY <2>1, ConnectRemoteInv DEF Good
<1>7. Good(a)
  BY <1>3, <1>5, <1>6 DEF ResolveComplete
<1> HIDE DEF a
<1>8. a \in Connection /\ a["local"] \in Leg
  BY <1>1, <1>7 DEF Good, Connection
<1>9. Follows(a, [a EXCEPT !["local"] = [a["local"] EXCEPT !.ri = FALSE]])
  BY <1>4, <1>8, OptionKeeps
<1> QED BY <1>2, <1>7, <1>9 DEF Good, a

\* remove_closed_connections: a freed leg had a partner that is gone or flushes alone.
LEMMA FreeClosedInv ==
  ASSUME NEW p \in Connection, ConnInv(p)
  PROVE  ConnInv(FreeClosed(p))
<1> DEFINE q == FreeClosed(p)
<1>1. /\ Other("local") = "remote" /\ Other("remote") = "local" /\ "local" \in Side /\ "remote" \in Side
      /\ \A s \in Side : s = "local" \/ s = "remote"
  BY DEF Side, Other
<1>2. \A s \in Side : q[s] = IF p[s].state = "closed" THEN NoLeg ELSE p[s]
  BY DEF FreeClosed
<1> HIDE DEF q
<1>3. \A s \in Side : LastBytes(p, s) /\ MaskInv(p[s])
  BY DEF ConnInv, DataInv
<1>4. \A s \in Side : Alive(q[s]) => q[s] = p[s]
  BY <1>2, NoLegFacts DEF Alive
<1>5. \A s \in Side : ~Alive(p[s]) => ~Alive(q[s])
  BY <1>2, NoLegFacts DEF Alive
<1>6. ASSUME NEW s \in Side PROVE LastBytes(q, s) /\ MaskInv(q[s])
  <2>1. CASE p[s].state = "closed"
    BY <1>2, <2>1, NoLegFacts DEF LastBytes, BufferNumber
  <2>2. CASE p[s].state # "closed"
    <3>1. q[s] = p[s] /\ Other(s) \in Side
      BY <1>2, <2>2, OtherSide
    <3>2. Alive(q[Other(s)]) => q[Other(s)] = p[Other(s)]
      BY <1>4, <3>1
    <3>3. ~Alive(q[Other(s)]) => ~Alive(p[Other(s)])
      BY <1>2, <3>1 DEF Alive
    <3> QED BY <1>3, <3>1, <3>2, <3>3 DEF LastBytes
  <2> QED BY <2>1, <2>2
<1>7. Fresh(q)
  <2>1. Negotiates(q) => Negotiates(p) /\ q["local"] = p["local"]
    BY <1>1, <1>4 DEF Negotiates
  <2>2. p["remote"].state = "absent" => q["remote"].state = "absent"
    BY <1>1, <1>2
  <2>3. q["local"].socks \in {p["local"].socks, "handshake"}
    BY <1>1, <1>2, NoLegFacts
  <2> QED BY <2>1, <2>2, <2>3 DEF ConnInv, DataInv, Fresh
<1>8. ASSUME ~Split PROVE Intact(q)
  BY <1>1, <1>4, <1>8 DEF ConnInv, DataInv, Intact, Connected
<1> QED BY <1>6, <1>7, <1>8 DEF ConnInv, DataInv, q
\* add_tcp_connection.
LEMMA NewConnectionInv ==
  ConnInv(NewConnection) /\ ConnInv(NoConnection)
<1> DEFINE l == [NoLeg EXCEPT !.state = "available", !.up = TRUE,
                              !.mask = IF Socks THEN {"in", "rdhup"} ELSE {"rdhup"}]
           a == [NoConnection EXCEPT !["local"] = l]
<1>1. /\ Other("local") = "remote" /\ Other("remote") = "local" /\ "local" \in Side /\ "remote" \in Side
      /\ \A s \in Side : s = "local" \/ s = "remote"
  BY DEF Side, Other
<1>2. \A s \in Side : NoConnection[s] = NoLeg
  BY DEF NoConnection
<1>3. NoConnection \in Connection
  BY NoLegType DEF NoConnection, Connection
<1>4. ConnInv(NoConnection)
  BY <1>1, <1>2, NoLegFacts
  DEF ConnInv, DataInv, LastBytes, Fresh, Negotiates, Intact, Connected, Alive, BufferNumber
<1>5. /\ l.state = "available" /\ l.buf = NoLeg.buf /\ l.fatal = NoLeg.fatal /\ MaskInv(l)
      /\ l.trd = 0 /\ l.twr = 0 /\ l.socks = "handshake" /\ l \in Leg
  <2>1. l \in Leg
    BY NoLegType DEF Leg, LegState, Event
  <2>2. /\ l.state = "available" /\ l.buf = NoLeg.buf /\ l.fatal = NoLeg.fatal
        /\ l.trd = NoLeg.trd /\ l.twr = NoLeg.twr /\ l.socks = NoLeg.socks
        /\ l.cached = NoLeg.cached
    BY NoLegType DEF Leg
  <2>3. NoLeg.trd = 0 /\ NoLeg.twr = 0 /\ NoLeg.socks = "handshake" /\ "rdhup" \in NoLeg.cached
    BY DEF NoLeg
  <2> HIDE DEF l
  <2> QED BY <2>1, <2>2, <2>3 DEF MaskInv, Quiet, Cached
<1>6. a["local"] = l /\ a["remote"] = NoLeg /\ a \in Connection
  BY <1>2, <1>3, <1>5 DEF Connection, Side
<1> HIDE DEF l
<1>7. ~HasUnsent(l)
  BY <1>5, NoLegFacts DEF HasUnsent
<1>a. NewConnection = IF Socks THEN a ELSE NewRemote(a)
  BY DEF NewConnection, l
<1> HIDE DEF a
<1>8. ConnInv(a)
  <2>1. LastBytes(a, "local") /\ LastBytes(a, "remote")
    BY <1>1, <1>5, <1>6, NoLegFacts DEF LastBytes, BufferNumber
  <2>2. Fresh(a)
    BY <1>5, <1>6, <1>7, NoLegFacts DEF Fresh
  <2>3. ~Connected(a)
    BY <1>1, <1>6, NoLegFacts DEF Connected, Alive
  <2> QED BY <1>1, <1>5, <1>6, <2>1, <2>2, <2>3, NoLegFacts DEF ConnInv, DataInv, Intact
<1>9. ASSUME ~Socks PROVE ConnInv(NewRemote(a))
  BY <1>5, <1>6, <1>7, <1>8, <1>9, NewRemoteInv
<1> QED BY <1>4, <1>8, <1>9, <1>a

\* check_connection_attempt does not close the leg that is handled.
LEMMA AttemptFacts ==
  ASSUME TypeOK, NEW c \in Conn, NEW s \in Side, Alive(pair[c][s])
  PROVE  LET q == Attempt(c, s).p
         IN q \in Connection /\ Follows(pair[c], q) /\ Alive(q[s])
<1>1. pair[c] \in Connection
  BY DEF TypeOK
<1> DEFINE p == pair[c]
           f(l) == EpollSetFlow(l, TRUE, FALSE)
<1>2. \A l \in Leg : f(l) \in Leg
  BY EpollSetFlowType
<1>3. Alive(CheckConnectionAttempt(p, s).p[s])
  <2>1. ASSUME NEW q \in Connection, Alive(q[s]) PROVE Alive(ProxyRemoteConnAck(q, s)[s])
    BY <2>1 DEF ProxyRemoteConnAck, Connection, Leg, Side, Alive
  <2> DEFINE q == [p EXCEPT !["remote"] = [f(@) EXCEPT !.state = "available"],
                            !["local"] = IF Alive(@) THEN f(@) ELSE @]
  <2> HIDE DEF f
  <2>2. q \in Connection
    <3>1. \A l \in Leg : [l EXCEPT !.state = "available"] \in Leg
      BY DEF Leg, LegState
    <3> QED BY <1>1, <1>2, <3>1 DEF Connection, Side
  <2>3. s = "remote" => Alive(q[s])
    BY <1>1, <1>2 DEF Connection, Side, Alive, Leg
  <2> HIDE DEF q
  <2> QED BY <1>1, <2>1, <2>2, <2>3 DEF CheckConnectionAttempt, Result, q, f
<1> QED BY <1>1, <1>3, CheckConnectionAttemptFollows, FollowsReflexive DEF Attempt, Result, Follows

-----------------------------------------------------------------------------
\* No connection exists at the start.
LEMMA InvInit == Init => Inv
BY NewConnectionInv, NoLegFacts DEF Init, Inv, BatchInv

\* One connection changes.
LEMMA OneConnection ==
  ASSUME TypeOK, Inv, NEW c \in Conn, NEW q, ConnInv(q),
         pair' = [pair EXCEPT ![c] = q],
         batch' \in [Conn -> [Side -> SUBSET Event]],
         \A x \in Conn \ {c} : batch'[x] = batch[x],
         \A s \in Side : batch'[c][s] \subseteq batch[c][s],
         \A s \in Side : Settled(pair[c][s], q[s]) \/ batch'[c][s] = {}
  PROVE  Inv'
<1>1. ConnInv(q) /\ BatchInv(q, batch'[c])
  <2>1. batch[c] \in [Side -> SUBSET Event] /\ batch'[c] \in [Side -> SUBSET Event]
    BY DEF TypeOK
  <2>2. BatchInv(pair[c], batch[c])
    BY DEF Inv
  <2>3. BatchInv(q, batch'[c])
    BY <2>1, <2>2 DEF BatchInv, Settled, StateKept, Alive
  <2> QED BY <2>3
<1>2. pair'[c] = q /\ \A x \in Conn \ {c} : pair'[x] = pair[x]
  BY DEF TypeOK
<1> QED BY <1>1, <1>2 DEF Inv

\* One event of the batch is handled.
LEMMA OneEvent ==
  ASSUME TypeOK, Inv, NEW c \in Conn, NEW s \in Side, NEW q, ConnInv(q), Handle(c, s, q),
         Settled(pair[c][Other(s)], q[Other(s)]) \/ batch[c][Other(s)] = {}
  PROVE  Inv'
<1>1. /\ \A x \in Side : x = s \/ x = Other(s)
      /\ Other(s) \in Side /\ Other(s) # s
  BY DEF Side, Other
<1>2. /\ batch' \in [Conn -> [Side -> SUBSET Event]]
      /\ \A x \in Conn \ {c} : batch'[x] = batch[x]
      /\ batch'[c][s] = {} /\ batch'[c][Other(s)] = batch[c][Other(s)]
  BY <1>1 DEF Handle, TypeOK
<1>3. \A x \in Side : batch'[c][x] \subseteq batch[c][x]
  BY <1>1, <1>2
<1>4. \A x \in Side : Settled(pair[c][x], q[x]) \/ batch'[c][x] = {}
  BY <1>1, <1>2
<1>5. pair' = [pair EXCEPT ![c] = q]
  BY DEF Handle
<1> QED BY <1>2, <1>3, <1>4, <1>5, OneConnection

\* Peers and the kernel change what a leg has received, not what the proxy holds.
LEMMA KernelInv ==
  ASSUME TypeOK, Inv, Kernel
  PROVE  Inv'
<1>1. ASSUME NEW c \in Conn, NEW s \in Side, NEW l \in Leg, KernelStep(c, s, l),
             Keeps(pair[c][s], l), MaskInv(pair[c][s]) => MaskInv(l)
      PROVE  Inv'
  <2> DEFINE q == [pair[c] EXCEPT ![s] = l]
  <2>1. pair[c] \in Connection /\ ConnInv(pair[c])
    BY DEF TypeOK, Inv
  <2>2. Follows(pair[c], q)
    BY <1>1, <2>1, KeepsReflexive DEF Follows, Connection
  <2>3. ConnInv(q) /\ SettledPair(pair[c], q)
    BY <2>1, <2>2, FollowsInv, FollowsSettled
  <2>4. pair' = [pair EXCEPT ![c] = q]
    BY <1>1 DEF KernelStep
  <2>5. batch' = batch
    BY <1>1 DEF KernelStep
  <2> HIDE DEF q
  <2>6. batch' \in [Conn -> [Side -> SUBSET Event]]
    BY <2>5 DEF TypeOK
  <2> QED BY <2>3, <2>4, <2>5, <2>6, OneConnection DEF SettledPair
<1>2. \A c \in Conn, s \in Side : pair[c][s] \in Leg
  BY DEF TypeOK, Connection
<1> DEFINE Same(l, k) ==
             /\ k.buf = l.buf /\ k.trd = l.trd /\ k.twr = l.twr /\ k.fatal = l.fatal
             /\ k.state = l.state /\ k.socks = l.socks /\ k.shut = l.shut
             /\ k.cached = l.cached /\ k.mask = l.mask
<1>3. ASSUME NEW l \in Leg, NEW k, Same(l, k), l.broken => k.broken, l.fin => k.fin,
             l.fin /\ l.got <= l.trd => k.got <= k.trd
      PROVE  Keeps(l, k) /\ (MaskInv(l) => MaskInv(k))
  BY <1>3 DEF Keeps, Settled, StateKept, SendFails, MaskInv, Quiet, Cached
<1>4. ASSUME NEW c \in Conn, NEW s \in Side, PeerSends(c, s)
      PROVE  Inv'
  <2> DEFINE l == pair[c][s]
             k == [l EXCEPT !.got = l.got + 1]
  <2>1. k \in Leg /\ KernelStep(c, s, k) /\ ~l.fin
    BY <1>2, <1>4, KernelLegType DEF PeerSends
  <2>2. Same(l, k) /\ k.broken = l.broken /\ k.fin = l.fin
    BY <1>2 DEF Leg
  <2> QED BY <1>1, <1>2, <1>3, <2>1, <2>2
<1>5. ASSUME NEW c \in Conn, NEW s \in Side, PeerFinishes(c, s)
      PROVE  Inv'
  <2> DEFINE l == pair[c][s]
             k == [l EXCEPT !.fin = TRUE]
  <2>1. k \in Leg /\ KernelStep(c, s, k)
    BY <1>2, <1>5, KernelLegType DEF PeerFinishes
  <2>2. Same(l, k) /\ k.broken = l.broken /\ k.fin /\ k.got = l.got
    BY <1>2 DEF Leg
  <2> QED BY <1>1, <1>2, <1>3, <2>1, <2>2
<1>6. ASSUME NEW c \in Conn, NEW s \in Side, PeerResets(c, s)
      PROVE  Inv'
  <2> DEFINE l == pair[c][s]
             k(kept) == [l EXCEPT !.broken = TRUE, !.got = kept]
  <2>1. PICK kept \in {l.trd, l.got} : KernelStep(c, s, k(kept))
    BY <1>6 DEF PeerResets
  <2>2. l \in Leg /\ l.trd \in Nat /\ l.got \in Nat
    BY <1>2 DEF Leg
  <2>3. k(kept) \in Leg
    BY <2>2, KernelLegType
  <2>4. Same(l, k(kept)) /\ k(kept).broken /\ k(kept).fin = l.fin /\ k(kept).got = kept
    BY <2>2 DEF Leg
  <2>5. l.got <= l.trd => kept <= l.trd
    BY <2>2
  <2> HIDE DEF l, k
  <2> QED BY <1>1, <1>3, <2>1, <2>2, <2>3, <2>4, <2>5 DEF l
<1>7. ASSUME NEW c \in Conn, ConnectEnds(c)
      PROVE  Inv'
  <2> DEFINE l == pair[c]["remote"]
             k(ok) == [l EXCEPT !.up = ok, !.broken = ~ok]
  <2>1. PICK ok \in BOOLEAN : KernelStep(c, "remote", k(ok))
    BY <1>7 DEF ConnectEnds
  <2>2. l \in Leg /\ ~l.broken
    BY <1>2, <1>7 DEF ConnectEnds, Side
  <2>3. k(ok) \in Leg
    BY <2>2, KernelLegType
  <2>4. Same(l, k(ok)) /\ k(ok).fin = l.fin /\ k(ok).got = l.got
    BY <2>2 DEF Leg
  <2>5. "remote" \in Side
    BY DEF Side
  <2> HIDE DEF l, k
  <2> QED BY <1>1, <1>3, <2>1, <2>2, <2>3, <2>4, <2>5 DEF l
<1>8. ASSUME NEW i \in items, ResolverAnswers(i)
      PROVE  Inv'
  BY <1>8 DEF ResolverAnswers, Inv
<1> QED BY <1>4, <1>5, <1>6, <1>7, <1>8 DEF Kernel
\* epoll_wait reports RDHUP only of legs that have not seen it.
LEMMA EpollWaitInv ==
  ASSUME TypeOK, Inv, EpollWait
  PROVE  Inv'
<1>1. PICK writable, heard, late :
        batch' = Reported(writable, heard, late)
  BY DEF EpollWait
<1>2. ASSUME NEW c \in Conn, NEW s \in Side
      PROVE  /\ batch'[c][s] # {} => pair[c][s].state # "absent"
             /\ "rdhup" \in batch'[c][s] => pair[c][s].state # "rdhup" /\ pair[c][s].fin
  <2>1. Quiet(pair[c][s])
    BY DEF Inv, ConnInv, MaskInv
  <2>2. batch'[c][s] \subseteq Ready(pair[c][s], <<c, s>> \in writable)
    BY <1>1 DEF Reported
  <2> QED BY <2>1, <2>2 DEF Ready, Alive, Quiet, Event
<1>3. pair' = pair
  BY DEF EpollWait
<1> QED BY <1>2, <1>3 DEF Inv, BatchInv

\* The events of the legs.
LEMMA EventInv ==
  ASSUME TypeOK, Inv, NEW c \in Conn, NEW s \in Side,
         EventStale(c, s) \/ EventHup(c, s) \/ EventConnectFailed(c, s)
           \/ EventRdhup(c, s) \/ EventInOut(c, s)
  PROVE  Inv'
<1> DEFINE p == pair[c]
           a == Attempt(c, s).p
<1>1. p \in Connection /\ ConnInv(p) /\ BatchInv(p, batch[c]) /\ Other(s) \in Side
  BY OtherSide DEF TypeOK, Inv
<1>2. ASSUME NEW q, ConnInv(q), HandleOnly(c, s, q), Settled(p[Other(s)], q[Other(s)])
      PROVE  Inv'
  BY <1>2, OneEvent DEF HandleOnly
<1>3. ASSUME Alive(p[s])
      PROVE  a \in Connection /\ ConnInv(a) /\ Alive(a[s]) /\ SettledPair(p, a) /\ Follows(p, a)
  BY <1>1, <1>3, AttemptFacts, FollowsInv, FollowsSettled
<1> HIDE DEF a
<1>4. CASE EventStale(c, s)
  BY <1>1, <1>2, <1>4 DEF EventStale, Settled, StateKept
<1>5. CASE EventHup(c, s)
  BY <1>1, <1>2, <1>5, HandleHupKeepsInv DEF EventHup, SettledPair
<1>6. CASE EventConnectFailed(c, s)
  <2>1. a \in Connection /\ ConnInv(a) /\ SettledPair(p, a)
    BY <1>3, <1>6 DEF EventConnectFailed
  <2>2. Follows(a, CloseBoth(a, s))
    BY <2>1, CloseFollows
  <2>3. ConnInv(CloseBoth(a, s)) /\ SettledPair(p, CloseBoth(a, s))
    BY <2>1, <2>2, FollowsInv, FollowsSettled, SettledTransitive
  <2>4. HandleOnly(c, s, CloseBoth(a, s))
    BY <1>6 DEF EventConnectFailed, a
  <2> QED BY <1>1, <1>2, <2>3, <2>4 DEF SettledPair
<1>7. CASE EventRdhup(c, s)
  <2>1. Alive(p[s]) /\ "rdhup" \in batch[c][s] /\ HandleOnly(c, s, HandleRdhup(a, s))
    BY <1>7 DEF EventRdhup, a
  <2>2. p[s].state # "rdhup" /\ p[s].fin
    BY <1>1, <2>1 DEF BatchInv
  <2>3. a[s].state # "rdhup" /\ a[s].fin
    BY <1>3, <2>1, <2>2 DEF SettledPair, Settled, StateKept
  <2>4. ConnInv(HandleRdhup(a, s)) /\ Settled(a[Other(s)], HandleRdhup(a, s)[Other(s)])
    BY <1>3, <2>1, <2>3, HandleRdhupKeepsInv
  <2>5. Settled(p[Other(s)], HandleRdhup(a, s)[Other(s)])
    BY <1>1, <1>3, <2>1, <2>4 DEF SettledPair, Settled, StateKept, Alive
  <2> QED BY <1>2, <2>1, <2>4, <2>5
<1>8. CASE EventInOut(c, s)
  <2> DEFINE in == "in" \in batch[c][s]
             h(n, r, m, lost) == HandleEpoll(a, s, in, n, r, m, lost)
  <2>1. Alive(p[s]) /\ InTcpMode(a, s)
    BY <1>8 DEF EventInOut, ReadyForIO, a
  <2>2. PICK n, r, m \in 0 .. MaxBytes, lost \in BOOLEAN :
          /\ r <= Unread(a[s]) /\ m <= r
          /\ lost => Split
          /\ HandleOnly(c, s, AfterHandleEpoll(h(n, r, m, lost), s))
    BY <1>8 DEF EventInOut, a
  <2>3. n \in Nat /\ r \in Nat /\ m \in Nat /\ in \in BOOLEAN
    BY BoundAssumption
  <2> DEFINE u == h(n, r, m, lost)
             q == AfterHandleEpoll(u, s)
  <2>4. ConnInv(u.p) /\ u.p \in Connection /\ SettledPair(a, u.p)
    BY <1>3, <2>1, <2>2, <2>3, HandleEpollKeepsInv
  <2> HIDE DEF u, in
  <2>5. Follows(u.p, q)
    BY <2>4, AfterHandleEpollFollows
  <2>6. ConnInv(q) /\ SettledPair(a, q)
    BY <2>4, <2>5, FollowsInv, FollowsSettled, SettledTransitive
  <2>7. SettledPair(p, q)
    BY <1>3, <2>1, <2>6, SettledTransitive
  <2>8. HandleOnly(c, s, q)
    BY <2>2 DEF u, q
  <2> QED BY <1>1, <1>2, <2>6, <2>7, <2>8 DEF SettledPair
<1> QED BY <1>4, <1>5, <1>6, <1>7, <1>8

\* A message of a SOCKS client.
LEMMA EventSocksInv ==
  ASSUME TypeOK, Inv, NEW c \in Conn, EventSocks(c)
  PROVE  Inv'
<1> DEFINE p == pair[c]
<1>1. /\ p \in Connection /\ ConnInv(p) /\ BatchInv(p, batch[c])
      /\ "local" \in Side /\ "remote" \in Side /\ Other("local") = "remote"
  BY DEF TypeOK, Inv, Side, Other
<1>2. Alive(p["local"]) /\ ~InTcpMode(p, "local")
  BY DEF EventSocks, ReadyForIO
<1>3. PICK reply \in SocksReplies(p) :
        Handle(c, "local", AfterHandleEpoll(HandleProxyMode(p, reply), "local"))
  BY DEF EventSocks
<1> DEFINE h == HandleProxyMode(p, reply)
           q == AfterHandleEpoll(h, "local")
<1>4. ConnInv(h.p) /\ (Settled(p["remote"], h.p["remote"]) \/ p["remote"].state = "absent")
  BY <1>1, <1>2, HandleProxyModeInv
<1>5. h.p \in Connection
  BY <1>1, HandleProxyModeType
<1> HIDE DEF h
<1>6. Follows(h.p, q)
  BY <1>1, <1>5, AfterHandleEpollFollows
<1>7. ConnInv(q) /\ Settled(h.p["remote"], q["remote"])
  BY <1>1, <1>4, <1>5, <1>6, FollowsInv DEF Follows, Keeps
<1>8. Settled(p["remote"], q["remote"]) \/ batch[c]["remote"] = {}
  <2>1. p["remote"].state = "absent" => batch[c]["remote"] = {}
    BY <1>1 DEF BatchInv
  <2> QED BY <1>4, <1>7, <2>1 DEF Settled, StateKept, Alive
<1>9. Handle(c, "local", q)
  BY <1>3 DEF q, h
<1> QED BY <1>1, <1>7, <1>8, <1>9, OneEvent

\* The listening socket.
LEMMA EventAcceptInv ==
  ASSUME TypeOK, Inv, EventAccept
  PROVE  Inv'
<1>1. CASE UNCHANGED pair
  BY <1>1 DEF EventAccept, Inv
<1>2. CASE \E c \in Conn : /\ \A s \in Side : pair[c][s].state = "absent"
                           /\ pair' = [pair EXCEPT ![c] = NewConnection]
  <2>1. PICK c \in Conn : /\ \A s \in Side : pair[c][s].state = "absent"
                          /\ pair' = [pair EXCEPT ![c] = NewConnection]
    BY <1>2
  <2>2. \A s \in Side : batch'[c][s] = {}
    BY <2>1 DEF EventAccept, Inv, BatchInv
  <2>3. batch' \in [Conn -> [Side -> SUBSET Event]] /\ batch' = batch
    BY DEF EventAccept, TypeOK
  <2> QED BY <2>1, <2>2, <2>3, OneConnection, NewConnectionInv
<1> QED BY <1>1, <1>2 DEF EventAccept

\* The resolver pipe.
LEMMA EventResolvedInv ==
  ASSUME TypeOK, Inv, EventResolved
  PROVE  Inv'
<1>1. PICK i \in items :
        IF i.ptr = NoConn THEN UNCHANGED <<pair, legs>>
        ELSE \E connect \in BOOLEAN :
               LET p == ResolveComplete(pair[i.ptr], i.st, connect)
               IN pair' = [pair EXCEPT ![i.ptr] = [p EXCEPT !["local"].ri = FALSE]]
  BY DEF EventResolved
<1>2. batch' \in [Conn -> [Side -> SUBSET Event]] /\ batch' = batch
  BY DEF EventResolved, TypeOK
<1>3. CASE i.ptr = NoConn
  BY <1>1, <1>2, <1>3 DEF Inv
<1>4. CASE i.ptr # NoConn
  <2> DEFINE c == i.ptr
  <2>1. c \in Conn
    BY <1>4 DEF TypeOK, ResolveItem
  <2>2. PICK connect \in BOOLEAN :
          pair' = [pair EXCEPT ![c] =
                     [ResolveComplete(pair[c], i.st, connect) EXCEPT !["local"].ri = FALSE]]
    BY <1>1, <1>4
  <2> DEFINE q == [ResolveComplete(pair[c], i.st, connect) EXCEPT !["local"].ri = FALSE]
  <2> HIDE DEF c
  <2>3. pair[c] \in Connection /\ ConnInv(pair[c]) /\ BatchInv(pair[c], batch[c])
    BY <2>1 DEF TypeOK, Inv
  <2>4. /\ ConnInv(q) /\ Settled(pair[c]["local"], q["local"])
        /\ Settled(pair[c]["remote"], q["remote"]) \/ pair[c]["remote"].state = "absent"
    BY <2>3, ResolveCompleteInv
  <2>5. pair' = [pair EXCEPT ![c] = q]
    BY <2>2
  <2> HIDE DEF q
  <2>6. \A s \in Side : Settled(pair[c][s], q[s]) \/ batch'[c][s] = {}
    BY <1>2, <2>3, <2>4 DEF Side, BatchInv
  <2> QED BY <1>2, <2>1, <2>4, <2>5, <2>6, OneConnection
<1> QED BY <1>3, <1>4

\* The end of a batch.
LEMMA BatchEndInv ==
  ASSUME TypeOK, Inv, BatchEnd
  PROVE  Inv'
<1>1. PICK expired \in SUBSET {c \in Conn : TimedOut(pair[c])} :
        LET after == [c \in Conn |-> IF c \in expired
                                     THEN [pair[c] EXCEPT !["remote"] = CloseLeg(@)]
                                     ELSE pair[c]]
        IN pair' = [c \in Conn |-> FreeClosed(after[c])]
  BY DEF BatchEnd
<1>2. ASSUME NEW c \in Conn PROVE ConnInv(pair'[c])
  <2> DEFINE a == [pair[c] EXCEPT !["remote"] = CloseLeg(@)]
  <2>1. pair[c] \in Connection /\ ConnInv(pair[c])
    BY DEF TypeOK, Inv
  <2>2. a \in Connection /\ Follows(pair[c], a)
    <3>1. \A l \in Leg : CloseLeg(l) \in Leg /\ Keeps(l, CloseLeg(l)) /\ (MaskInv(l) => MaskInv(CloseLeg(l)))
      BY CloseLegType, CloseLegKeeps
    <3>2. a \in Connection
      BY <2>1, <3>1 DEF Connection, Side
    <3> QED BY <2>1, <3>1, <3>2, KeepsReflexive DEF Follows, Connection, Side
  <2>3. ConnInv(a)
    BY <2>1, <2>2, FollowsInv
  <2>4. pair'[c] \in {FreeClosed(a), FreeClosed(pair[c])}
    BY <1>1
  <2> HIDE DEF a
  <2> QED BY <2>1, <2>2, <2>3, <2>4, FreeClosedInv
<1>3. \A c \in Conn, s \in Side : batch'[c][s] = {}
  BY DEF BatchEnd
<1> QED BY <1>2, <1>3 DEF Inv, BatchInv

\* The invariant is inductive.
LEMMA InvStep == TypeOK /\ Inv /\ [Next]_vars => Inv'
<1>1. CASE UNCHANGED vars
  BY <1>1 DEF vars, Inv
<1> QED
  BY <1>1, KernelInv, EpollWaitInv, EventInv, EventSocksInv, EventAcceptInv,
     EventResolvedInv, BatchEndInv
  DEF Next, Loop

\* Hence the invariant holds in every reachable state.
LEMMA Invariance == Spec => []Inv
BY TypeCorrect, InvInit, InvStep, PTL DEF Spec

\* No buffer of a leg is ever filled while it still holds bytes (send_buffer_create calls
\* that fatal and the process exits), and buffers 2 and 3 never hold bytes together, for
\* any number of connections and bytes, whether or not the proxy is SOCKS or splits.
THEOREM NoFatalBuffer == Spec => []NeverFatal
<1>1. Inv => NeverFatal
  BY DEF Inv, ConnInv, DataInv, LastBytes, NeverFatal
<1> QED BY <1>1, Invariance, PTL

\* With a profile that does not split, what a leg that can be written to still has to send
\* is exactly what was read from its partner and not written yet: the relay of
\* tpws_conn.c loses, repeats and reorders nothing.
THEOREM RelayStaysIntact == ~Split => (Spec => []RelayIntact)
<1> SUFFICES ASSUME ~Split PROVE Spec => []RelayIntact
  OBVIOUS
<1>1. Inv => RelayIntact
  BY DEF Inv, ConnInv, DataInv, Intact, RelayIntact
<1> QED BY <1>1, Invariance, PTL

-----------------------------------------------------------------------------
(* Progress: wakeups, half-closes, memory and the contract with the resolver *)

\* The cached mask is that in the kernel, or that of a leg never updated, which a leg
\* that is to be watched for EPOLLOUT does not want.
CachedInv(l) == l.cached = l.mask \/ l.cached = {"rdhup"}

\* NoLostWakeup and FinForwarded, of one leg.
Waited(l) == Alive(l) /\ HasUnsent(l) => "out" \in l.mask
Kept(p, s) == Alive(p[s]) /\ p[Other(s)].state = "closed" => HasUnsent(p[s])
Forwarded(p, s) ==
  Connected(p) /\ p[s].state = "rdhup" /\ ~HasUnsent(p[Other(s)])
    => p[Other(s)].shut \/ HasUnsent(p[s])

\* Until the target has answered, the client has got nothing and is not read; the first
\* event of the target tells that it has answered.
Connecting(p, b) ==
  p["remote"].state = "unavailable" =>
    /\ ~HasUnsent(p["local"]) /\ p["local"].twr = 0
    /\ "out" \in p["remote"].mask
    /\ p["remote"].fin \/ p["remote"].got > 0 => p["remote"].up
    /\ b["remote"] \cap {"in", "rdhup"} # {} => b["remote"] \cap {"out", "hup"} # {}
    /\ Alive(p["local"]) =>
         IF Socks THEN p["local"].socks = "connection"
         ELSE /\ p["local"].flow = {} /\ p["local"].mask \subseteq {"rdhup"}
              /\ b["local"] \cap {"in", "out"} = {}

\* ReplyBeforeRelay, of one connection.
Silent(p) ==
  Socks /\ p["local"].socks # "tcp" => p["local"].twr = 0 /\ ~HasUnsent(p["local"])
Replied(p) ==
  /\ Silent(p)
  /\ Socks /\ p["local"].socks = "connection" /\ Connected(p) => p["remote"].state = "unavailable"

LiveInv(p, b) ==
  /\ \A s \in Side : CachedInv(p[s]) /\ Waited(p[s]) /\ Kept(p, s) /\ Forwarded(p, s)
  /\ Connecting(p, b) /\ Replied(p)

ProgressInv == \A c \in Conn : LiveInv(pair[c], batch[c])

-----------------------------------------------------------------------------
(* What operations on legs leave alone.                                    *)

SameData(l, k) ==
  /\ k.socks = l.socks /\ k.ri = l.ri /\ k.buf = l.buf /\ k.twr = l.twr
  /\ k.up = l.up /\ k.got = l.got /\ k.fin = l.fin /\ k.broken = l.broken /\ k.shut = l.shut

SameMask(l, k) == k.flow = l.flow /\ k.cached = l.cached /\ k.mask = l.mask

\* A new choice of flags reaches the mask in the kernel.
LEMMA FlowProgress ==
  ASSUME NEW l \in Leg, NEW f \in SUBSET Flow
  PROVE  LET k == EpollUpdateFlow([l EXCEPT !.flow = f])
         IN /\ SameData(l, k) /\ k.state = l.state /\ k.flow = f
            /\ CachedInv(l) => /\ CachedInv(k)
                               /\ "out" \in f => "out" \in k.mask
                               /\ f = {} /\ l.mask \subseteq {"rdhup"} => k.mask \subseteq {"rdhup"}
<1> DEFINE j == [l EXCEPT !.flow = f]
           k == EpollUpdateFlow(j)
<1>1. /\ SameData(l, j) /\ j.state = l.state /\ j.flow = f /\ j.cached = l.cached /\ j.mask = l.mask
      /\ j \in Leg
  BY DEF SameData, Leg
<1> HIDE DEF j
<1>2. /\ SameData(j, k) /\ k.state = j.state /\ k.flow = j.flow
      /\ \/ k = j /\ j.cached = WantedMask(j)
         \/ k.cached = WantedMask(j) /\ k.mask = WantedMask(j)
  BY <1>1 DEF EpollUpdateFlow, SameData, Leg
<1> HIDE DEF k
<1>3. WantedMask(j) \in {f, f \cup {"rdhup"}}
  BY <1>1 DEF WantedMask
<1>4. SameData(l, k)
  BY <1>1, <1>2 DEF SameData
<1>5. ASSUME CachedInv(l)
      PROVE  /\ CachedInv(k)
             /\ "out" \in f => "out" \in k.mask
             /\ f = {} /\ l.mask \subseteq {"rdhup"} => k.mask \subseteq {"rdhup"}
  <2>1. CASE k = j /\ j.cached = WantedMask(j)
    BY <1>1, <1>3, <1>5, <2>1 DEF CachedInv
  <2>2. CASE k.cached = WantedMask(j) /\ k.mask = WantedMask(j)
    BY <1>3, <2>2 DEF CachedInv
  <2> QED BY <1>2, <2>1, <2>2
<1> QED BY <1>1, <1>2, <1>4, <1>5 DEF k, j

\* epoll_set_flow.
LEMMA SetFlowProgress ==
  ASSUME NEW l \in Leg, NEW in \in BOOLEAN, NEW out \in BOOLEAN
  PROVE  LET k == EpollSetFlow(l, in, out)
         IN /\ k \in Leg /\ SameData(l, k) /\ k.state = l.state
            /\ CachedInv(l) => CachedInv(k) /\ (out => "out" \in k.mask)
<1>1. FlowOf(in, out) \in SUBSET Flow /\ (out => "out" \in FlowOf(in, out))
  BY DEF FlowOf, Flow
<1> QED BY <1>1, FlowProgress, EpollSetFlowType DEF EpollSetFlow

\* Setting or clearing one flag.
LEMMA WatchProgress ==
  ASSUME NEW l \in Leg
  PROVE  /\ LET k == WatchOut(l)
            IN /\ k \in Leg /\ SameData(l, k) /\ k.state = l.state
               /\ CachedInv(l) => CachedInv(k) /\ "out" \in k.mask
         /\ LET k == UnwatchIn(l)
            IN /\ k \in Leg /\ SameData(l, k) /\ k.state = l.state
               /\ CachedInv(l) => CachedInv(k)
               /\ l.flow = {} => k.flow = {}
               /\ CachedInv(l) /\ l.flow = {} /\ l.mask \subseteq {"rdhup"} => k.mask \subseteq {"rdhup"}
<1>1. l.flow \cup {"out"} \in SUBSET Flow /\ l.flow \ {"in"} \in SUBSET Flow
  BY DEF Leg, Flow
<1>2. l.flow = {} => l.flow \ {"in"} = {}
  OBVIOUS
<1> QED BY <1>1, <1>2, FlowProgress, WatchType DEF WatchOut, UnwatchIn

\* epoll_set_flow_pair: afterwards both legs are watched for what they hold.
LEMMA SetFlowPairProgress ==
  ASSUME NEW p \in Connection, NEW s \in Side, \A x \in Side : CachedInv(p[x])
  PROVE  LET q == EpollSetFlowPair(p, s)
         IN \A x \in Side : /\ SameData(p[x], q[x]) /\ q[x].state = p[x].state
                            /\ CachedInv(q[x]) /\ Waited(q[x])
                            /\ ~Alive(p[x]) => x = s \/ q[x] = p[x]
<1> DEFINE o == Other(s)
           q == EpollSetFlowPair(p, s)
           Done(l, k, out) == /\ SameData(l, k) /\ k.state = l.state
                              /\ CachedInv(k) /\ (out => "out" \in k.mask)
<1>1. /\ o \in Side /\ o # s /\ \A x \in Side : x = s \/ x = o
      /\ p[s] \in Leg /\ p[o] \in Leg /\ CachedInv(p[s]) /\ CachedInv(p[o])
  BY OtherSide DEF Connection, Side, Other
<1>2. \A l \in Leg, a, b \in BOOLEAN : CachedInv(l) => Done(l, EpollSetFlow(l, a, b), b)
  BY SetFlowProgress
<1> HIDE DEF Done
<1>3. q[s] = EpollSetFlow(p[s], ~(PartnerAlive(p, s) /\ HasUnsent(p[o])) /\ p[s].state # "rdhup", HasUnsent(p[s]))
  BY <1>1 DEF EpollSetFlowPair, Connection
<1>4. q[o] = IF PartnerAlive(p, s)
             THEN EpollSetFlow(p[o], ~HasUnsent(p[s]) /\ p[o].state # "rdhup",
                               PartnerAlive(p, s) /\ HasUnsent(p[o]))
             ELSE p[o]
  BY <1>1 DEF EpollSetFlowPair, Connection
<1> HIDE DEF q
<1>5. HasUnsent(p[s]) \in BOOLEAN /\ HasUnsent(p[o]) \in BOOLEAN /\ PartnerAlive(p, s) \in BOOLEAN
  BY DEF HasUnsent, PartnerAlive, Alive
<1>6. Done(p[s], q[s], HasUnsent(p[s]))
  BY <1>1, <1>2, <1>3, <1>5
<1>7. IF PartnerAlive(p, s) THEN Done(p[o], q[o], HasUnsent(p[o])) ELSE q[o] = p[o]
  BY <1>1, <1>2, <1>4, <1>5
<1>8. SameData(p[s], q[s]) /\ q[s].state = p[s].state /\ CachedInv(q[s]) /\ Waited(q[s])
  BY <1>6 DEF Done, Waited, HasUnsent, SameData
<1>9. /\ SameData(p[o], q[o]) /\ q[o].state = p[o].state /\ CachedInv(q[o]) /\ Waited(q[o])
      /\ ~Alive(p[o]) => q[o] = p[o]
  <2>1. CASE PartnerAlive(p, s)
    BY <1>7, <2>1 DEF Done, Waited, HasUnsent, SameData, PartnerAlive
  <2>2. CASE ~PartnerAlive(p, s)
    BY <1>1, <1>7, <2>2 DEF Waited, SameData, PartnerAlive
  <2> QED BY <2>1, <2>2
<1> QED BY <1>1, <1>8, <1>9 DEF q
\* What closing does to a leg.
ClosedOrSame(l, k) ==
  SameData(l, k) /\ SameMask(l, k) /\ (k.state = l.state \/ (Alive(l) /\ k.state = "closed"))

\* conn_close_with_partner_check and conn_close_both: the leg is closed, and the other one
\* too unless it has something to send.
LEMMA CloseProgress ==
  ASSUME NEW p \in Connection, NEW s \in Side
  PROVE  /\ LET q == CloseWithPartnerCheck(p, s)
            IN /\ \A x \in Side : ClosedOrSame(p[x], q[x])
               /\ ~Alive(q[s])
               /\ Alive(q[Other(s)]) => HasUnsent(q[Other(s)])
         /\ LET q == CloseBoth(p, s)
            IN \A x \in Side : ClosedOrSame(p[x], q[x]) /\ ~Alive(q[x])
<1> DEFINE o == Other(s)
           q == CloseWithPartnerCheck(p, s)
           r == CloseBoth(p, s)
<1>1. /\ o \in Side /\ o # s /\ \A x \in Side : x = s \/ x = o
      /\ p[s] \in Leg /\ p[o] \in Leg
  BY OtherSide DEF Connection, Side, Other
<1>2. \A l \in Leg : ClosedOrSame(l, CloseLeg(l)) /\ ~Alive(CloseLeg(l))
  BY DEF CloseLeg, ClosedOrSame, SameData, SameMask, Alive, Leg
<1>3. \A l \in Leg : ClosedOrSame(l, l) /\ ClosedOrSame(l, [l EXCEPT !.orphan = TRUE])
                       /\ [l EXCEPT !.orphan = TRUE].state = l.state
                       /\ [l EXCEPT !.orphan = TRUE].buf = l.buf
  BY DEF ClosedOrSame, SameData, SameMask, Leg
<1>4. r[s] = CloseLeg(p[s]) /\ r[o] = CloseLeg(p[o])
  BY <1>1 DEF CloseBoth, Connection
<1>5. q[s] = CloseLeg(p[s])
  BY <1>1 DEF CloseWithPartnerCheck, Connection
<1>6. q[o] = IF ~(PartnerAlive(p, s) /\ HasUnsent(p[o])) THEN CloseLeg(p[o])
             ELSE IF o = "remote" /\ p[o].state = "unavailable" /\ OrphanTimeout
             THEN [p[o] EXCEPT !.orphan = TRUE] ELSE p[o]
  BY <1>1 DEF CloseWithPartnerCheck, Connection
<1> HIDE DEF q, r
<1>7. ClosedOrSame(p[o], q[o])
  BY <1>1, <1>2, <1>3, <1>6
<1>8. Alive(q[o]) => HasUnsent(q[o])
  BY <1>1, <1>2, <1>3, <1>6 DEF HasUnsent
<1> QED BY <1>1, <1>2, <1>4, <1>5, <1>7, <1>8 DEF q, r

\* conn_shutdown.
LEMMA ShutdownProgress ==
  ASSUME NEW p \in Connection, NEW s \in Side
  PROVE  LET q == Shutdown(p, s)
         IN /\ q[Other(s)] = p[Other(s)] /\ q[s].shut /\ q[s].state = p[s].state
            /\ q[s].socks = p[s].socks /\ q[s].ri = p[s].ri /\ q[s].buf = p[s].buf
            /\ q[s].twr = p[s].twr /\ q[s].up = p[s].up /\ q[s].got = p[s].got
            /\ q[s].fin = p[s].fin /\ q[s].broken = p[s].broken /\ SameMask(p[s], q[s])
<1>1. p[s] \in Leg /\ Other(s) # s /\ Shutdown(p, s)[s] = [p[s] EXCEPT !.shut = TRUE]
      /\ Shutdown(p, s)[Other(s)] = p[Other(s)]
  BY OtherSide DEF Shutdown, Connection
<1> HIDE DEF Shutdown
<1> QED BY <1>1 DEF SameMask, Leg

\* What a handler of leg s keeps of the invariant until it closes the leg or has set its flow.
Half(p, s, b) ==
  /\ \A x \in Side : CachedInv(p[x])
  /\ Waited(p[Other(s)])
  /\ s = "local" => Connecting(p, b)
  /\ Silent(p)

\* That is enough to close leg s and perhaps its partner.
LEMMA CloseLive ==
  ASSUME NEW p \in Connection, NEW s \in Side, NEW b, Half(p, s, b)
  PROVE  LiveInv(CloseWithPartnerCheck(p, s), b)
<1> DEFINE o == Other(s)
           q == CloseWithPartnerCheck(p, s)
<1>1. /\ o \in Side /\ o # s /\ Other(o) = s /\ \A x \in Side : x = s \/ x = o
      /\ "local" \in Side /\ "remote" \in Side
  BY OtherSide DEF Side, Other
<1>2. /\ \A x \in Side : ClosedOrSame(p[x], q[x])
      /\ ~Alive(q[s]) /\ (Alive(q[o]) => HasUnsent(q[o]))
  BY CloseProgress
<1> HIDE DEF q, o
<1>3. \A x \in Side : CachedInv(q[x])
  BY <1>2 DEF Half, CachedInv, ClosedOrSame, SameMask
<1>4. Waited(q[s]) /\ Waited(q[o])
  BY <1>1, <1>2 DEF Half, Waited, ClosedOrSame, SameMask, SameData, HasUnsent, Alive, o
<1>5. Kept(q, s) /\ Kept(q, o) /\ ~Connected(q)
  BY <1>1, <1>2 DEF Kept, Connected, o
<1>6. Connecting(q, b)
  <2>1. CASE s = "local"
    BY <1>1, <1>2, <2>1 DEF Half, Connecting, ClosedOrSame, SameMask, SameData, HasUnsent, Alive
  <2>2. CASE s # "local"
    BY <1>1, <1>2, <2>2 DEF Connecting, Alive, Side
  <2> QED BY <2>1, <2>2
<1>7. Replied(q)
  BY <1>1, <1>2, <1>5 DEF Half, Replied, Silent, ClosedOrSame, SameData, HasUnsent
<1> QED BY <1>1, <1>3, <1>4, <1>5, <1>6, <1>7 DEF LiveInv, Forwarded, q

\* The invariant of the connection is enough for it.
LEMMA LiveHalf ==
  ASSUME NEW p, NEW s \in Side, NEW b, LiveInv(p, b)
  PROVE  Half(p, s, b)
BY OtherSide DEF LiveInv, Half, Replied

\* proxy_remote_conn_ack gives a client that waits for it its reply, and changes nothing else.
LEMMA AckProgress ==
  ASSUME NEW p \in Connection, NEW s \in Side
  PROVE  LET q == ProxyRemoteConnAck(p, s)
         IN /\ q["remote"] = p["remote"]
            /\ LET l == p["local"]  k == q["local"]
               IN /\ k.ri = l.ri /\ k.buf = l.buf /\ k.twr = l.twr /\ k.up = l.up /\ k.got = l.got
                  /\ k.fin = l.fin /\ k.broken = l.broken /\ k.shut = l.shut /\ k.state = l.state
                  /\ k.trd = l.trd /\ SameMask(l, k)
                  /\ k.socks = IF s = "remote" /\ Alive(l) /\ l.socks = "connection"
                               THEN "tcp" ELSE l.socks
<1>1. "local" \in Side /\ "remote" \in Side /\ p["local"] \in Leg /\ Other("remote") = "local"
  BY DEF Side, Connection, Other
<1>2. CASE s = "remote" /\ PartnerAlive(p, s) /\ p["local"].socks = "connection"
  <2> DEFINE q == ProxyRemoteConnAck(p, s)
  <2>1. q["remote"] = p["remote"] /\ q["local"] = [p["local"] EXCEPT !.socks = "tcp"]
    BY <1>1, <1>2 DEF ProxyRemoteConnAck, Connection
  <2> HIDE DEF q
  <2> QED BY <1>1, <1>2, <2>1 DEF SameMask, Leg, PartnerAlive, q
<1>3. CASE ~(s = "remote" /\ PartnerAlive(p, s) /\ p["local"].socks = "connection")
  <2>1. ProxyRemoteConnAck(p, s) = p
    BY <1>3 DEF ProxyRemoteConnAck
  <2> QED BY <1>1, <1>3, <2>1 DEF SameMask, PartnerAlive
<1> QED BY <1>2, <1>3

\* A client that the target's leg relays to has had its reply.
Told(p, s) == Socks /\ s = "remote" /\ Alive(p["local"]) => p["local"].socks = "tcp"

\* References to resolve items: who has one goes on waiting for its answer.
SameRef(p, q) ==
  /\ q["local"].ri = p["local"].ri
  /\ p["local"].socks = "resolve" => q["local"].socks = "resolve"

\* check_connection_attempt, when the target has answered.
LEMMA ConnectedProgress ==
  ASSUME NEW p \in Connection, NEW b, LiveInv(p, b), p["remote"].state = "unavailable",
         ~p["remote"].broken
  PROVE  LET a == CheckConnectionAttempt(p, "remote").p
         IN /\ Half(a, "remote", b) /\ Replied(a) /\ Forwarded(a, "local") /\ Told(a, "remote")
            /\ SameRef(p, a) /\ a["remote"].state = "available"
<1> DEFINE f(l) == EpollSetFlow(l, TRUE, FALSE)
           m == [p EXCEPT !["remote"] = [f(@) EXCEPT !.state = "available"],
                          !["local"] = IF Alive(@) THEN f(@) ELSE @]
           a == ProxyRemoteConnAck(m, "remote")
<1>1. /\ "local" \in Side /\ "remote" \in Side /\ Other("local") = "remote"
      /\ Other("remote") = "local" /\ \A x \in Side : x = "local" \/ x = "remote"
      /\ p["local"] \in Leg /\ p["remote"] \in Leg
  BY DEF Side, Connection, Other
<1>2. CheckConnectionAttempt(p, "remote").p = a
  BY DEF CheckConnectionAttempt, Result
<1>3. \A l \in Leg : f(l) \in Leg /\ SameData(l, f(l)) /\ f(l).state = l.state
                       /\ (CachedInv(l) => CachedInv(f(l)))
  BY SetFlowProgress
<1> HIDE DEF f
<1>4. m["remote"] = [f(p["remote"]) EXCEPT !.state = "available"]
      /\ m["local"] = IF Alive(p["local"]) THEN f(p["local"]) ELSE p["local"]
  BY <1>1 DEF Connection
<1>5. m \in Connection
  <2>1. \A l \in Leg : [l EXCEPT !.state = "available"] \in Leg
    BY DEF Leg, LegState
  <2> QED BY <1>1, <1>3, <1>4, <2>1 DEF Connection
<1> HIDE DEF m
<1>6. CachedInv(p["remote"]) /\ CachedInv(p["local"])
  BY <1>1 DEF LiveInv
<1>7. m["remote"].state = "available" /\ SameData(p["remote"], m["remote"]) /\ CachedInv(m["remote"])
  <2>1. f(p["remote"]) \in Leg
    BY <1>1, <1>3
  <2> QED BY <1>1, <1>3, <1>4, <1>6, <2>1 DEF SameData, CachedInv, Leg
<1>8. SameData(p["local"], m["local"]) /\ m["local"].state = p["local"].state /\ CachedInv(m["local"])
  BY <1>1, <1>3, <1>4, <1>6 DEF SameData
<1>9. /\ a["remote"] = m["remote"]
      /\ a["local"].ri = m["local"].ri /\ a["local"].buf = m["local"].buf
      /\ a["local"].twr = m["local"].twr /\ a["local"].shut = m["local"].shut
      /\ a["local"].state = m["local"].state
      /\ SameMask(m["local"], a["local"])
      /\ a["local"].socks = IF Alive(m["local"]) /\ m["local"].socks = "connection"
                            THEN "tcp" ELSE m["local"].socks
  BY <1>1, <1>5, AckProgress
<1> HIDE DEF a
<1>10. ~HasUnsent(a["local"]) /\ a["local"].twr = 0
  BY <1>8, <1>9 DEF LiveInv, Connecting, SameData, HasUnsent
<1>11. Told(a, "remote")
  BY <1>8, <1>9 DEF Told, LiveInv, Connecting, SameData, Alive
<1>12. CachedInv(a["local"]) /\ CachedInv(a["remote"])
  BY <1>7, <1>8, <1>9 DEF CachedInv, SameMask
<1>13. Replied(a)
  BY <1>1, <1>10, <1>11 DEF Replied, Silent, Told, Connected
<1>14. Half(a, "remote", b)
  BY <1>1, <1>10, <1>12, <1>13 DEF Half, Waited, Replied
<1>15. Forwarded(a, "local")
  <2>1. Forwarded(p, "local")
    BY <1>1 DEF LiveInv
  <2>2. /\ a["local"].state = p["local"].state /\ a["local"].buf = p["local"].buf
        /\ a["remote"].shut = p["remote"].shut /\ a["remote"].buf = p["remote"].buf
    BY <1>7, <1>8, <1>9 DEF SameData
  <2>3. Connected(a) => Connected(p)
    BY <1>1, <2>2 DEF Connected, Alive
  <2>4. /\ HasUnsent(a["local"]) <=> HasUnsent(p["local"])
        /\ HasUnsent(a["remote"]) <=> HasUnsent(p["remote"])
    BY <2>2 DEF HasUnsent
  <2> QED BY <1>1, <2>1, <2>2, <2>3, <2>4 DEF Forwarded
<1>16. SameRef(p, a)
  BY <1>8, <1>9 DEF SameRef, SameData
<1> QED BY <1>2, <1>7, <1>9, <1>11, <1>13, <1>14, <1>15, <1>16

\* The first part of every handler but that of EPOLLHUP.  A target that is being connected to
\* has answered, as its leg is watched for EPOLLOUT and EPOLLOUT is reported first.
LEMMA AttemptProgress ==
  ASSUME TypeOK, Inv, ProgressInv, NEW c \in Conn, NEW s \in Side, Pending(c, s), Alive(pair[c][s]),
         "hup" \notin batch[c][s], Attempt(c, s).ok
  PROVE  LET a == Attempt(c, s).p
         IN /\ Half(a, s, batch[c]) /\ Replied(a) /\ Forwarded(a, Other(s)) /\ Told(a, s)
            /\ SameRef(pair[c], a)
            /\ s = "remote" => a["remote"].state # "unavailable"
            /\ s = "local" => a = pair[c]
<1> DEFINE p == pair[c]
<1>1. /\ p \in Connection /\ LiveInv(p, batch[c]) /\ ConnInv(p)
      /\ batch[c][s] \subseteq Event /\ batch[c][s] # {}
      /\ Other(s) \in Side
  BY OtherSide DEF TypeOK, ProgressInv, Inv, Pending
<1>2. CASE s = "remote" /\ p[s].state = "unavailable"
  <2>1. "out" \in batch[c][s]
    BY <1>1, <1>2 DEF LiveInv, Connecting, Event
  <2>2. Attempt(c, s) = CheckConnectionAttempt(p, "remote")
    BY <1>2, <2>1 DEF Attempt
  <2>3. ~p["remote"].broken
    BY <1>2, <2>2 DEF CheckConnectionAttempt, Result
  <2> QED BY <1>1, <1>2, <2>2, <2>3, ConnectedProgress DEF Other
<1>3. CASE ~(s = "remote" /\ p[s].state = "unavailable")
  <2>1. Attempt(c, s).p = p
    BY <1>3 DEF Attempt, CheckConnectionAttempt, Result
  <2>2. Half(p, s, batch[c]) /\ Replied(p) /\ Forwarded(p, Other(s))
    BY <1>1, LiveHalf DEF LiveInv
  <2>3. SameRef(p, p)
    BY DEF SameRef
  <2>4. Told(p, s)
    <3>1. SUFFICES ASSUME Socks, s = "remote", Alive(p["local"]) PROVE p["local"].socks = "tcp"
      BY DEF Told
    <3>2. Connected(p) /\ p["remote"].state # "absent"
      BY <3>1 DEF Connected, Side, Alive
    <3>3. ~Negotiates(p)
      BY <1>1, <3>2 DEF ConnInv, DataInv, Fresh
    <3>4. p["local"].socks # "connection"
      BY <1>1, <1>3, <3>1, <3>2 DEF LiveInv, Replied
    <3>5. p["local"].socks \in SocksState
      BY <1>1 DEF Connection, Side, Leg
    <3> QED BY <3>1, <3>3, <3>4, <3>5 DEF Negotiates, SocksState
  <2> QED BY <1>3, <2>1, <2>2, <2>3, <2>4
<1> QED BY <1>2, <1>3
-----------------------------------------------------------------------------
(* The end of a stream.                                                    *)

\* read_all_and_buffer: the partner is watched for EPOLLOUT when it is given anything.
LEMMA ReadAllProgress ==
  ASSUME NEW p \in Connection, NEW s \in Side, NEW k \in {2, 3}, CachedInv(p[Other(s)])
  PROVE  LET q == ReadAllAndBuffer(p, s, k)
             o == Other(s)
         IN /\ q \in Connection
            /\ SameData(p[s], q[s]) /\ SameMask(p[s], q[s]) /\ q[s].state = p[s].state
            /\ q[o].state = p[o].state /\ q[o].shut = p[o].shut /\ q[o].socks = p[o].socks
            /\ q[o].ri = p[o].ri /\ q[o].twr = p[o].twr /\ q[o].up = p[o].up
            /\ q[o].got = p[o].got /\ q[o].fin = p[o].fin
            /\ CachedInv(q[o])
            /\ q[o] = p[o] \/ (Alive(p[o]) /\ "out" \in q[o].mask)
            /\ HasUnsent(p[o]) => HasUnsent(q[o])
<1> DEFINE q == ReadAllAndBuffer(p, s, k)
           o == Other(s)
           b == [lo |-> p[s].trd, hi |-> p[s].got]
<1>1. /\ o \in Side /\ o # s /\ p[s] \in Leg /\ p[o] \in Leg /\ k \in BufferNumber
      /\ p[s].trd \in Nat /\ p[s].got \in Nat
  BY OtherSide DEF Connection, BufferNumber, Leg
<1>2. q \in Connection
  BY <1>1, ReadAllAndBufferType
<1>3. CASE ~PartnerAlive(p, s) \/ Unread(p[s]) <= 0
  <2>1. q = p
    BY <1>3 DEF ReadAllAndBuffer
  <2> QED BY <1>2, <2>1 DEF SameData, SameMask
<1>4. CASE PartnerAlive(p, s) /\ ~(Unread(p[s]) <= 0)
  <2> DEFINE f == BufferCreate(p[o], k, b)
             w == WatchOut(f)
  <2>1. p[s].trd < p[s].got /\ b \in Span /\ Full(b) /\ Alive(p[o])
    BY <1>1, <1>4 DEF Unread, Span, PartnerAlive, Full
  <2>2. q[s] = [p[s] EXCEPT !.trd = p[s].got] /\ q[o] = w
    BY <1>1, <1>4 DEF ReadAllAndBuffer, Connection, PartnerAlive
  <2>3. f \in Leg
    BY <1>1, <2>1, BufferCreateType
  <2>4. /\ f.state = p[o].state /\ f.shut = p[o].shut /\ f.socks = p[o].socks /\ f.ri = p[o].ri
        /\ f.twr = p[o].twr /\ f.up = p[o].up /\ f.got = p[o].got /\ f.fin = p[o].fin
        /\ f.cached = p[o].cached /\ f.mask = p[o].mask /\ f.buf[k] = b
    BY <1>1 DEF BufferCreate, Leg
  <2> HIDE DEF f
  <2>5. SameData(f, w) /\ w.state = f.state /\ CachedInv(w) /\ "out" \in w.mask
    BY <2>3, <2>4, WatchProgress DEF CachedInv
  <2>6. HasUnsent(w)
    BY <1>1, <2>1, <2>4, <2>5 DEF HasUnsent, SameData
  <2> HIDE DEF w, q
  <2>7. SameData(p[s], q[s]) /\ SameMask(p[s], q[s]) /\ q[s].state = p[s].state
    BY <1>1, <2>2 DEF SameData, SameMask, Leg
  <2> QED BY <1>2, <2>1, <2>2, <2>4, <2>5, <2>6, <2>7 DEF SameData, q
<1> QED BY <1>3, <1>4

\* So a leg may still be closed after it.
LEMMA ReadAllHalf ==
  ASSUME NEW p \in Connection, NEW s \in Side, NEW k \in {2, 3}, NEW b, Half(p, s, b), Told(p, s)
  PROVE  Half(ReadAllAndBuffer(p, s, k), s, b)
<1> DEFINE q == ReadAllAndBuffer(p, s, k)
           o == Other(s)
<1>1. /\ o \in Side /\ o # s /\ Other(o) = s /\ \A x \in Side : x = s \/ x = o
      /\ s = "local" => o = "remote"
      /\ s = "remote" => o = "local"
      /\ s = "local" \/ s = "remote"
  BY OtherSide DEF Side, Other
<1>2. CachedInv(p[s]) /\ CachedInv(p[o]) /\ Waited(p[o]) /\ Silent(p)
  BY <1>1 DEF Half
<1>3. /\ SameData(p[s], q[s]) /\ SameMask(p[s], q[s]) /\ q[s].state = p[s].state
      /\ q[o].state = p[o].state /\ q[o].socks = p[o].socks /\ q[o].twr = p[o].twr
      /\ q[o].up = p[o].up /\ q[o].got = p[o].got /\ q[o].fin = p[o].fin
      /\ CachedInv(q[o])
      /\ q[o] = p[o] \/ (Alive(p[o]) /\ "out" \in q[o].mask)
  BY <1>2, ReadAllProgress
<1> HIDE DEF q, o
<1>4. CachedInv(q[s]) /\ Waited(q[o])
  BY <1>2, <1>3 DEF CachedInv, SameMask, Waited
<1>5. ASSUME s = "local" PROVE Connecting(q, b)
  BY <1>1, <1>3, <1>5 DEF Half, Connecting, SameData, SameMask, HasUnsent, Alive
<1>6. Silent(q)
  <2>1. CASE s = "local"
    BY <1>1, <1>2, <1>3, <2>1 DEF Silent, SameData, HasUnsent
  <2>2. CASE s = "remote"
    BY <1>1, <1>2, <1>3, <2>2 DEF Silent, Told
  <2> QED BY <1>1, <2>1, <2>2
<1> QED BY <1>1, <1>3, <1>4, <1>5, <1>6 DEF Half, q, o

\* SameRef composes, and what touches neither ri nor socks has it.
LEMMA SameRefTransitive ==
  ASSUME NEW p, NEW q, NEW r, SameRef(p, q), SameRef(q, r)
  PROVE  SameRef(p, r)
BY DEF SameRef

\* EPOLLHUP, EPOLLERR.
LEMMA HupProgress ==
  ASSUME NEW p \in Connection, NEW s \in Side, NEW b, ConnInv(p), LiveInv(p, b), Alive(p[s])
  PROVE  LET q == HandleHup(p, s) IN LiveInv(q, b) /\ SameRef(p, q)
<1> DEFINE o == Other(s)
           a == ProxyRemoteConnAck(p, s)
           read == ReadAllAndBuffer(a, s, 3)
           shown == IF p[s].broken /\ p[s].up /\ PartnerAlive(p, s)
                    THEN [read EXCEPT ![o].linger = TRUE] ELSE read
           q == CloseWithPartnerCheck(shown, s)
<1>0. q = HandleHup(p, s)
  BY DEF HandleHup
<1>1. /\ o \in Side /\ o # s /\ Other(o) = s /\ \A x \in Side : x = s \/ x = o
      /\ "local" \in Side /\ "remote" \in Side
      /\ s = "local" \/ s = "remote"
  BY OtherSide DEF Side, Other
<1>2. a \in Connection
  BY ProxyRemoteConnAckType
<1>3. /\ a["remote"] = p["remote"]
      /\ LET l == p["local"]  k == a["local"]
         IN /\ k.ri = l.ri /\ k.buf = l.buf /\ k.twr = l.twr /\ k.state = l.state
            /\ SameMask(l, k)
            /\ k.socks = IF s = "remote" /\ Alive(l) /\ l.socks = "connection"
                         THEN "tcp" ELSE l.socks
  BY AckProgress
<1> HIDE DEF a
<1>4. SameRef(p, a)
  BY <1>3 DEF SameRef
<1>5. Told(a, s)
  <2>1. SUFFICES ASSUME Socks, s = "remote", Alive(a["local"]) PROVE a["local"].socks = "tcp"
    BY DEF Told
  <2>2. ~Negotiates(p)
    BY <2>1 DEF ConnInv, DataInv, Fresh, Alive
  <2>3. p["local"].socks \in SocksState /\ Alive(p["local"])
    BY <1>1, <1>3, <2>1 DEF Connection, Leg, Alive
  <2> QED BY <1>3, <2>1, <2>2, <2>3 DEF Negotiates, SocksState
<1>6. Half(a, s, b)
  <2>1. Half(p, s, b)
    BY LiveHalf
  <2>2. \A x \in Side : CachedInv(a[x])
    BY <1>3, <2>1 DEF Half, CachedInv, SameMask, Side
  <2>3. Waited(a[o])
    BY <1>1, <1>3, <2>1 DEF Half, Waited, SameMask, HasUnsent, Alive, Side
  <2>4. ASSUME s = "local" PROVE Connecting(a, b)
    BY <1>3, <2>1, <2>4 DEF Half, Connecting, SameMask, HasUnsent, Alive
  <2>5. Silent(a)
    BY <1>3, <2>1 DEF Half, Silent, HasUnsent
  <2> QED BY <2>2, <2>3, <2>4, <2>5 DEF Half
<1>7. Half(read, s, b) /\ read \in Connection
  <2>1. CachedInv(a[o])
    BY <1>1, <1>6 DEF Half
  <2> QED BY <1>2, <1>5, <1>6, <2>1, ReadAllHalf, ReadAllProgress
<1>8. SameRef(a, read)
  <2>1. CachedInv(a[o])
    BY <1>1, <1>6 DEF Half
  <2>2. /\ read[s].ri = a[s].ri /\ read[s].socks = a[s].socks
        /\ read[o].ri = a[o].ri /\ read[o].socks = a[o].socks
    BY <1>2, <2>1, ReadAllProgress DEF SameData
  <2> QED BY <1>1, <2>2 DEF SameRef
<1> HIDE DEF read
<1>9. /\ shown \in Connection
      /\ \A x \in Side : SameData(read[x], shown[x]) /\ SameMask(read[x], shown[x])
                         /\ shown[x].state = read[x].state
  <2>1. \A l \in Leg : LET k == [l EXCEPT !.linger = TRUE]
                       IN k \in Leg /\ SameData(l, k) /\ SameMask(l, k) /\ k.state = l.state
    BY DEF SameData, SameMask, Leg
  <2>2. \A l \in Leg : SameData(l, l) /\ SameMask(l, l)
    BY DEF SameData, SameMask
  <2> QED BY <1>1, <1>7, <2>1, <2>2 DEF Connection
<1> HIDE DEF shown
<1>10. Half(shown, s, b)
  <2>1. \A x \in Side : CachedInv(shown[x])
    BY <1>7, <1>9 DEF Half, CachedInv, SameMask
  <2>2. Waited(shown[o])
    BY <1>1, <1>7, <1>9 DEF Half, Waited, SameMask, SameData, HasUnsent, Alive
  <2>3. ASSUME s = "local" PROVE Connecting(shown, b)
    BY <1>1, <1>7, <1>9, <2>3 DEF Half, Connecting, SameMask, SameData, HasUnsent, Alive
  <2>4. Silent(shown)
    BY <1>1, <1>7, <1>9 DEF Half, Silent, SameData, HasUnsent
  <2> QED BY <2>1, <2>2, <2>3, <2>4 DEF Half
<1>11. LiveInv(q, b)
  BY <1>9, <1>10, CloseLive
<1>12. SameRef(read, q)
  <2>1. \A x \in Side : ClosedOrSame(shown[x], q[x])
    BY <1>9, CloseProgress
  <2> QED BY <1>1, <1>9, <2>1 DEF SameRef, ClosedOrSame, SameData
<1>13. SameRef(p, q)
  BY <1>4, <1>8, <1>12 DEF SameRef
<1> HIDE DEF q
<1> QED BY <1>0, <1>11, <1>13

\* EPOLLRDHUP, once the connection is made.
LEMMA RdhupProgress ==
  ASSUME NEW p \in Connection, NEW s \in Side, NEW b, b[s] = {}, Alive(p[s]),
         Half(p, s, b), Told(p, s), Replied(p), Forwarded(p, Other(s)),
         s = "remote" => p["remote"].state # "unavailable"
  PROVE  LET q == HandleRdhup(p, s) IN LiveInv(q, b) /\ SameRef(p, q)
<1> DEFINE o == Other(s)
           a == ReadAllAndBuffer(p, s, 2)
           read == [a EXCEPT ![s].state = "rdhup"]
           quiet == [read EXCEPT ![s] = UnwatchIn(@)]
           busy == [read EXCEPT ![s] = EpollSetFlow(@, FALSE, TRUE)]
           gone == [quiet EXCEPT ![s] = CloseLeg(@)]
           shut == Shutdown(quiet, o)
           closed == CloseWithPartnerCheck(shut, s)
           Good(q) == LiveInv(q, b) /\ SameRef(p, q)
<1>0. HandleRdhup(p, s) =
        IF HasUnsent(read[s]) THEN busy
        ELSE IF ~PartnerAlive(p, s) THEN gone
        ELSE IF HasUnsent(quiet[o]) THEN quiet
        ELSE IF ShutdownFails(p[o]) \/ p[o].state = "rdhup" THEN closed
        ELSE shut
  BY DEF HandleRdhup
<1>1. /\ o \in Side /\ o # s /\ Other(o) = s /\ \A x \in Side : x = s \/ x = o
      /\ "local" \in Side /\ "remote" \in Side /\ p[s] \in Leg /\ p[o] \in Leg
      /\ (s = "local" /\ o = "remote") \/ (s = "remote" /\ o = "local")
  BY OtherSide DEF Side, Other, Connection
<1>2. CachedInv(p[s]) /\ CachedInv(p[o]) /\ Half(a, s, b)
  BY <1>1, ReadAllHalf DEF Half
<1>3. /\ a \in Connection
      /\ SameData(p[s], a[s]) /\ SameMask(p[s], a[s]) /\ a[s].state = p[s].state
      /\ a[o].state = p[o].state /\ a[o].shut = p[o].shut /\ a[o].socks = p[o].socks
      /\ a[o].ri = p[o].ri /\ a[o].twr = p[o].twr
      /\ HasUnsent(p[o]) => HasUnsent(a[o])
  BY <1>2, ReadAllProgress
<1> HIDE DEF a, o
<1>4. a[s] \in Leg /\ a[o] \in Leg
  BY <1>1, <1>3 DEF Connection
<1>5. /\ read \in Connection /\ read[o] = a[o] /\ read[s] \in Leg /\ read[s].state = "rdhup"
      /\ SameData(a[s], read[s]) /\ SameMask(a[s], read[s])
  <2> DEFINE k == [a[s] EXCEPT !.state = "rdhup"]
  <2>1. k \in Leg /\ k.state = "rdhup" /\ SameData(a[s], k) /\ SameMask(a[s], k)
    BY <1>4 DEF Leg, LegState, SameData, SameMask
  <2>2. read[o] = a[o] /\ read[s] = k
    BY <1>1, <1>3 DEF Connection
  <2> HIDE DEF k
  <2>3. read \in Connection
    <3>1. read = [a EXCEPT ![s] = k]
      BY <2>2, <1>1, <1>3 DEF Connection, k
    <3> HIDE DEF read
    <3> QED BY <1>1, <1>3, <2>1, <3>1 DEF Connection
  <2> QED BY <2>1, <2>2, <2>3
<1> HIDE DEF read
<1>6. /\ CachedInv(read[s]) /\ CachedInv(read[o]) /\ Waited(read[o]) /\ Silent(read)
      /\ s = "local" => Connecting(read, b)
  <2>1. CachedInv(read[s]) /\ CachedInv(read[o])
    BY <1>1, <1>2, <1>5 DEF Half, CachedInv, SameMask
  <2>2. Waited(read[o]) /\ Silent(read)
    <3>1. Waited(a[o]) /\ Silent(a)
      BY <1>2 DEF Half, o
    <3> QED BY <1>1, <1>5, <3>1 DEF Silent, SameData, HasUnsent
  <2>3. ASSUME s = "local" PROVE Connecting(read, b)
    <3>1. Connecting(a, b) /\ Alive(a["local"])
      BY <1>2, <1>3, <2>3 DEF Half, Alive
    <3> QED BY <1>1, <1>5, <2>3, <3>1 DEF Connecting, SameMask, SameData, HasUnsent
  <2> QED BY <2>1, <2>2, <2>3
<1>7. SameRef(p, read)
  BY <1>1, <1>3, <1>5 DEF SameRef, SameData
<1>8. Socks /\ read["local"].socks = "connection" /\ Connected(read)
         => s = "local" /\ read["remote"].state = "unavailable"
  <2>1. Connected(read) => Connected(p)
    BY <1>1, <1>3, <1>5 DEF Connected, Alive
  <2>2. read["local"].socks = p["local"].socks
    BY <1>1, <1>3, <1>5 DEF SameData
  <2>3. s = "local" => read["remote"].state = p["remote"].state
    BY <1>1, <1>3, <1>5
  <2> QED BY <1>1, <2>1, <2>2, <2>3 DEF Told, Replied, Connected
<1>9. ASSUME NEW q, NEW k, \A x \in Side : q[x] = IF x = s THEN k ELSE read[x],
             SameData(read[s], k), k.state = "rdhup", CachedInv(k)
      PROVE  /\ \A x \in Side : CachedInv(q[x])
             /\ Silent(q) /\ Waited(q[o]) /\ q[o] = read[o] /\ SameRef(p, q)
             /\ Kept(q, o)
             /\ Replied(q)
             /\ s = "remote" => Connecting(q, b)
  <2>1. q[s] = k /\ q[o] = read[o]
    BY <1>1, <1>9
  <2>2. Silent(q) /\ SameRef(p, q)
    BY <1>1, <1>6, <1>7, <1>9, <2>1 DEF Silent, SameRef, SameData, HasUnsent
  <2>3. Replied(q)
    <3>1. Connected(q) => Connected(read)
      BY <1>1, <1>5, <2>1 DEF Connected, Alive
    <3>2. q["local"].socks = read["local"].socks
      BY <1>1, <1>9, <2>1 DEF SameData
    <3>3. s = "local" => q["remote"].state = read["remote"].state
      BY <1>1, <2>1
    <3> QED BY <1>8, <2>2, <3>1, <3>2, <3>3 DEF Replied
  <2> QED BY <1>1, <1>6, <1>9, <2>1, <2>2, <2>3 DEF Kept, Connecting
<1>10. ASSUME HasUnsent(read[s]) PROVE Good(busy)
  <2> DEFINE k == EpollSetFlow(read[s], FALSE, TRUE)
  <2>1. SameData(read[s], k) /\ k.state = "rdhup" /\ CachedInv(k) /\ "out" \in k.mask
    BY <1>5, <1>6, SetFlowProgress
  <2>2. \A x \in Side : busy[x] = IF x = s THEN k ELSE read[x]
    BY <1>1, <1>5 DEF Connection
  <2> HIDE DEF k, busy
  <2>3. /\ \A x \in Side : CachedInv(busy[x])
        /\ Waited(busy[o]) /\ busy[o] = read[o] /\ SameRef(p, busy) /\ Kept(busy, o) /\ Replied(busy)
        /\ s = "remote" => Connecting(busy, b)
    BY <1>9, <2>1, <2>2
  <2>4. busy[s] = k /\ HasUnsent(busy[s])
    BY <1>1, <1>10, <2>1, <2>2 DEF SameData, HasUnsent
  <2>5. Waited(busy[s]) /\ Kept(busy, s) /\ Forwarded(busy, s) /\ Forwarded(busy, o)
    BY <1>1, <2>1, <2>4 DEF Waited, Kept, Forwarded
  <2>6. s = "local" => Connecting(busy, b)
    BY <1>1, <1>6, <1>10, <2>3 DEF Connecting
  <2> QED BY <1>1, <2>3, <2>5, <2>6 DEF LiveInv
<1>11. ASSUME ~HasUnsent(read[s])
       PROVE  /\ quiet \in Connection /\ quiet[o] = read[o] /\ quiet[s].state = "rdhup"
              /\ SameData(read[s], quiet[s])
              /\ \A x \in Side : CachedInv(quiet[x]) /\ Waited(quiet[x])
              /\ ~HasUnsent(quiet[s])
              /\ SameRef(p, quiet) /\ Kept(quiet, o) /\ Replied(quiet) /\ Connecting(quiet, b)
  <2> DEFINE k == UnwatchIn(read[s])
  <2>1. /\ k \in Leg /\ SameData(read[s], k) /\ k.state = "rdhup" /\ CachedInv(k)
        /\ read[s].flow = {} => k.flow = {}
        /\ read[s].flow = {} /\ read[s].mask \subseteq {"rdhup"} => k.mask \subseteq {"rdhup"}
    BY <1>5, <1>6, WatchProgress
  <2>2. quiet = [read EXCEPT ![s] = k]
    BY <1>1, <1>5 DEF Connection
  <2> HIDE DEF k
  <2>3. (\A x \in Side : quiet[x] = IF x = s THEN k ELSE read[x]) /\ quiet \in Connection
    BY <1>1, <1>5, <2>1, <2>2 DEF Connection
  <2> HIDE DEF quiet
  <2>4. /\ \A x \in Side : CachedInv(quiet[x])
        /\ Waited(quiet[o]) /\ quiet[o] = read[o] /\ SameRef(p, quiet) /\ Kept(quiet, o)
        /\ Replied(quiet)
        /\ s = "remote" => Connecting(quiet, b)
    BY <1>9, <2>1, <2>3
  <2>5. quiet[s] = k /\ ~HasUnsent(quiet[s])
    BY <1>1, <1>11, <2>1, <2>3 DEF SameData, HasUnsent
  <2>6. s = "local" => Connecting(quiet, b)
    <3> SUFFICES ASSUME s = "local" PROVE Connecting(quiet, b)
      OBVIOUS
    <3>1. quiet["local"] = k /\ quiet["remote"] = read["remote"] /\ Connecting(read, b)
          /\ Alive(read["local"])
      BY <1>1, <1>5, <1>6, <2>4, <2>5 DEF Alive
    <3> QED BY <2>1, <3>1 DEF Connecting, SameData, HasUnsent
  <2> QED BY <1>1, <2>1, <2>3, <2>4, <2>5, <2>6 DEF Waited
<1>12. ASSUME ~HasUnsent(read[s]), ~PartnerAlive(p, s) PROVE Good(gone)
  <2>1. quiet[s] \in Leg /\ ~Alive(quiet[o]) /\ quiet \in Connection
    BY <1>1, <1>3, <1>5, <1>11, <1>12 DEF Connection, PartnerAlive, Alive, o
  <2> HIDE DEF quiet
  <2>2. gone[s] = CloseLeg(quiet[s]) /\ gone[o] = quiet[o]
    BY <1>1, <2>1 DEF Connection
  <2>3. SameData(quiet[s], gone[s]) /\ SameMask(quiet[s], gone[s]) /\ ~Alive(gone[s])
    BY <2>1, <2>2 DEF CloseLeg, SameData, SameMask, Alive, Leg
  <2> HIDE DEF gone
  <2>4. \A x \in Side : CachedInv(gone[x]) /\ ~Alive(gone[x])
    BY <1>1, <1>11, <1>12, <2>1, <2>2, <2>3 DEF CachedInv, SameMask
  <2>5. Connecting(gone, b) /\ ~Connected(gone)
    BY <1>1, <2>4 DEF Connecting, Alive, Connected
  <2>6. Silent(gone) /\ SameRef(p, gone)
    BY <1>1, <1>11, <1>12, <2>2, <2>3 DEF Replied, Silent, SameRef, SameData, HasUnsent
  <2> QED BY <1>1, <2>4, <2>5, <2>6 DEF LiveInv, Waited, Kept, Forwarded, Replied
<1>13. ASSUME ~HasUnsent(read[s]), PartnerAlive(p, s), HasUnsent(quiet[o]) PROVE Good(quiet)
  <2>1. Kept(quiet, s) /\ Forwarded(quiet, s) /\ Forwarded(quiet, o)
    BY <1>1, <1>3, <1>5, <1>11, <1>13 DEF Kept, Forwarded, PartnerAlive, Alive, o
  <2> QED BY <1>1, <1>11, <1>13, <2>1 DEF LiveInv
<1>14. ASSUME ~HasUnsent(read[s]), PartnerAlive(p, s), ~HasUnsent(quiet[o])
       PROVE  Good(closed) /\ (p[o].state # "rdhup" => Good(shut))
  <2>1. quiet \in Connection
    BY <1>11, <1>14
  <2> HIDE DEF quiet
  <2>2. /\ shut[s] = quiet[s] /\ shut[o].shut /\ shut[o].state = quiet[o].state
        /\ shut[o].socks = quiet[o].socks /\ shut[o].ri = quiet[o].ri /\ shut[o].buf = quiet[o].buf
        /\ shut[o].twr = quiet[o].twr /\ shut[o].up = quiet[o].up /\ shut[o].got = quiet[o].got
        /\ shut[o].fin = quiet[o].fin /\ SameMask(quiet[o], shut[o])
    BY <1>1, <2>1, ShutdownProgress
  <2>3. shut \in Connection
    BY <1>1, <2>1, ShutdownType
  <2> HIDE DEF shut
  <2>4. \A x \in Side : CachedInv(shut[x]) /\ Waited(shut[x])
    BY <1>1, <1>11, <1>14, <2>2 DEF CachedInv, Waited, SameMask, HasUnsent, Alive
  <2>5. Connecting(shut, b)
    BY <1>1, <1>11, <1>14, <2>2 DEF Connecting, SameMask, HasUnsent, Alive
  <2>6. Replied(shut)
    BY <1>1, <1>11, <1>14, <2>2 DEF Replied, Silent, Connected, HasUnsent, Alive
  <2>7. SameRef(p, shut)
    BY <1>1, <1>11, <1>14, <2>2 DEF SameRef
  <2>8. Half(shut, s, b)
    BY <1>1, <2>4, <2>5, <2>6 DEF Half, Replied, o
  <2>9. Good(closed)
    <3>1. \A x \in Side : ClosedOrSame(shut[x], closed[x])
      BY <2>3, CloseProgress
    <3>2. SameRef(shut, closed)
      BY <1>1, <3>1 DEF SameRef, ClosedOrSame, SameData
    <3> QED BY <2>3, <2>7, <2>8, <3>2, CloseLive, SameRefTransitive
  <2>10. ASSUME p[o].state # "rdhup" PROVE Good(shut)
    <3>1. shut[o].state = p[o].state /\ shut[s].state = "rdhup" /\ Alive(shut[o])
      BY <1>3, <1>5, <1>11, <1>14, <2>2 DEF PartnerAlive, Alive, o
    <3>2. Kept(shut, s) /\ Kept(shut, o) /\ Forwarded(shut, s) /\ Forwarded(shut, o)
      <4>1. Kept(shut, s) /\ Kept(shut, o)
        BY <1>1, <3>1 DEF Kept, Alive, o
      <4>2. Forwarded(shut, s)
        BY <2>2 DEF Forwarded, o
      <4>3. Forwarded(shut, o)
        BY <2>10, <3>1 DEF Forwarded
      <4> QED BY <4>1, <4>2, <4>3
    <3> QED BY <1>1, <2>4, <2>5, <2>6, <2>7, <3>2 DEF LiveInv
  <2> QED BY <2>9, <2>10
<1> HIDE DEF Good, busy, gone, quiet, shut, closed
<1> QED BY <1>0, <1>10, <1>12, <1>13, <1>14 DEF Good
-----------------------------------------------------------------------------
(* EPOLLIN and EPOLLOUT, once the connection is made.                      *)

\* What handle_epoll keeps of a leg.
SameOwner(l, k) == k.state = l.state /\ k.socks = l.socks /\ k.ri = l.ri

\* handle_unsent: when it goes on, both legs are watched for what they hold, and a leg whose
\* partner has ended its stream is shut down once it has sent everything.
LEMMA UnsentProgress ==
  ASSUME NEW p \in Connection, NEW s \in Side, NEW n \in Nat, \A x \in Side : CachedInv(p[x]),
         Waited(p[Other(s)])
  PROVE  LET u == HandleUnsent(p, s, n)  q == u.p  o == Other(s)
         IN /\ \A x \in Side : SameOwner(p[x], q[x]) /\ CachedInv(q[x])
            /\ q[o].buf = p[o].buf /\ q[o].twr = p[o].twr /\ q[o].shut = p[o].shut
            /\ Waited(q[o])
            /\ u.ok => /\ Waited(q[s])
                       /\ PartnerAlive(p, s) /\ p[o].state = "rdhup" /\ ~HasUnsent(q[s]) => q[s].shut
<1> DEFINE o == Other(s)
           sent == IF HasUnsent(p[s]) THEN [p EXCEPT ![s] = BuffersSend(@, n)] ELSE p
           drained == ~HasUnsent(sent[s]) /\ PartnerAlive(p, s) /\ p[o].state = "rdhup"
           shutNow == drained /\ ~p[s].shut
           after == IF shutNow THEN Shutdown(sent, s) ELSE sent
           set == EpollSetFlowPair(after, s)
           Fine(q) == /\ \A x \in Side : SameOwner(p[x], q[x]) /\ CachedInv(q[x])
                      /\ q[o].buf = p[o].buf /\ q[o].twr = p[o].twr /\ q[o].shut = p[o].shut
                      /\ Waited(q[o])
           Done(q) == drained => q[s].shut
<1>1. /\ o \in Side /\ o # s /\ \A x \in Side : x = s \/ x = o
      /\ p[s] \in Leg /\ p[o] \in Leg
  BY OtherSide DEF Connection, Side, Other
<1>2. Fine(p)
  BY DEF SameOwner
<1>3. sent \in Connection /\ Fine(sent) /\ sent[s].shut = p[s].shut
  <2> DEFINE k == BuffersSend(p[s], n)
             q == [p EXCEPT ![s] = k]
  <2>1. k \in Leg
    BY <1>1, BuffersSendType
  <2>2. SameOwner(p[s], k) /\ SameMask(p[s], k) /\ k.shut = p[s].shut
    BY <1>1 DEF BuffersSend, SameOwner, SameMask, Leg
  <2> HIDE DEF k
  <2>3. q[s] = k /\ q[o] = p[o] /\ q \in Connection
    BY <1>1, <2>1 DEF Connection
  <2> HIDE DEF q
  <2>4. CachedInv(k)
    BY <2>2 DEF CachedInv, SameMask
  <2>5. Fine(q)
    BY <1>1, <2>2, <2>3, <2>4 DEF SameOwner
  <2> QED BY <1>2, <2>2, <2>3, <2>5 DEF q, k
<1> HIDE DEF sent
<1>4. after \in Connection /\ Fine(after) /\ Done(after) /\ after[s].buf = sent[s].buf
  <2> DEFINE q == Shutdown(sent, s)
  <2>1. /\ q \in Connection /\ q[o] = sent[o] /\ q[s].shut /\ q[s].state = sent[s].state
        /\ q[s].socks = sent[s].socks /\ q[s].ri = sent[s].ri /\ q[s].buf = sent[s].buf
        /\ SameMask(sent[s], q[s])
    BY <1>3, ShutdownType, ShutdownProgress
  <2> HIDE DEF q
  <2>2. Fine(q)
    BY <1>1, <1>3, <2>1 DEF SameOwner, SameMask, CachedInv
  <2>3. CASE shutNow
    BY <2>1, <2>2, <2>3 DEF q
  <2>4. CASE ~shutNow
    BY <1>3, <2>4
  <2> QED BY <2>3, <2>4
<1> HIDE DEF after
<1>5. /\ \A x \in Side : SameData(after[x], set[x]) /\ set[x].state = after[x].state
                         /\ CachedInv(set[x]) /\ Waited(set[x])
  BY <1>4, SetFlowPairProgress
<1> HIDE DEF set
<1>6. Fine(set) /\ Waited(set[s]) /\ Done(set)
  BY <1>1, <1>4, <1>5 DEF SameOwner, SameData
<1>7. HasUnsent(set[s]) <=> HasUnsent(sent[s])
  BY <1>1, <1>4, <1>5 DEF HasUnsent, SameData
<1>8. HandleUnsent(p, s, n) \in {Result(FALSE, p), Result(FALSE, after), Result(TRUE, set)}
  BY DEF HandleUnsent, sent, after, set
<1> HIDE DEF Fine, Done
<1>9. CASE HandleUnsent(p, s, n) = Result(TRUE, set)
  <2>1. PartnerAlive(p, s) /\ p[o].state = "rdhup" /\ ~HasUnsent(set[s]) => set[s].shut
    BY <1>6, <1>7 DEF Done
  <2> QED BY <1>6, <1>9, <2>1 DEF Fine, Result
<1>10. CASE HandleUnsent(p, s, n) = Result(FALSE, p)
  BY <1>2, <1>10 DEF Fine, Result
<1>11. CASE HandleUnsent(p, s, n) = Result(FALSE, after)
  BY <1>4, <1>11 DEF Fine, Result
<1> QED BY <1>8, <1>9, <1>10, <1>11

\* A block relayed to the partner leaves the rest of both legs alone.
LEMMA BlockProgress ==
  ASSUME NEW p \in Connection, NEW s \in Side, NEW r \in Nat, NEW m \in Nat, m <= r,
         NEW lost \in BOOLEAN, \A x \in Side : CachedInv(p[x])
  PROVE  LET q == RelayBlock(p, s, r, m, lost)  o == Other(s)
         IN /\ q \in Connection
            /\ \A x \in Side : SameOwner(p[x], q[x]) /\ CachedInv(q[x]) /\ q[x].shut = p[x].shut
            /\ q[s].buf = p[s].buf
<1> DEFINE o == Other(s)
           q == RelayBlock(p, s, r, m, lost)
           from == p[s].trd
           k == [p[s] EXCEPT !.trd = @ + r]
           b == [lo |-> from + m, hi |-> from + r]
           w == Wrote(p[o], m)
           c == BufferCreate(w, 0, b)
           Same(l, j) == SameOwner(l, j) /\ SameMask(l, j) /\ j.shut = l.shut
<1>1. /\ o \in Side /\ o # s /\ \A x \in Side : x = s \/ x = o
      /\ p[s] \in Leg /\ p[o] \in Leg
  BY OtherSide DEF Connection, Side, Other
<1>2. q \in Connection
  BY RelayBlockType
<1>3. Same(p[s], k) /\ k.buf = p[s].buf
  BY <1>1 DEF SameOwner, SameMask, Leg
<1>4. Same(p[o], w) /\ w \in Leg
  BY <1>1, WroteType DEF Wrote, SameOwner, SameMask, Leg
<1>5. Same(p[o], p[o])
  BY DEF SameOwner, SameMask
<1>6. q[s] = k /\ q[o] \in {p[o], w, c}
  BY <1>1 DEF RelayBlock, Connection
<1> HIDE DEF q, k, w
<1>7. Same(p[o], c)
  BY <1>4 DEF BufferCreate, SameOwner, SameMask, Leg
<1> HIDE DEF c
<1>8. Same(p[s], q[s]) /\ Same(p[o], q[o]) /\ q[s].buf = p[s].buf
  BY <1>3, <1>4, <1>5, <1>6, <1>7
<1> QED BY <1>1, <1>2, <1>8 DEF SameMask, CachedInv, q


\* What the event loop needs of a leg that goes on after handle_epoll.
Going(q, s) ==
  /\ \A x \in Side : CachedInv(q[x]) /\ Waited(q[x])
  /\ Alive(q[s]) /\ (q[Other(s)].state = "closed" => HasUnsent(q[s]))
  /\ Forwarded(q, Other(s)) /\ Replied(q)

\* handle_epoll in TCP mode.
LEMMA HandleEpollProgress ==
  ASSUME NEW p \in Connection, NEW s \in Side, NEW in \in BOOLEAN, NEW n \in Nat,
         NEW r \in Nat, NEW m \in Nat, m <= r, NEW lost \in BOOLEAN, NEW b,
         Alive(p[s]), InTcpMode(p, s), Half(p, s, b), Told(p, s), Replied(p),
         p["remote"].state # "unavailable"
  PROVE  LET h == HandleEpoll(p, s, in, n, r, m, lost)
         IN /\ \A x \in Side : SameOwner(p[x], h.p[x])
            /\ IF h.ok THEN Going(h.p, s) ELSE Half(h.p, s, b)
<1> DEFINE o == Other(s)
           u == HandleUnsent(p, s, n)
           v == u.p
           skipped == [v EXCEPT ![s].trd = p[s].got]
           relayed == RelayBlock(v, s, r, m, lost)
           set == EpollSetFlowPair(relayed, s)
           Same(q) == \A x \in Side : SameOwner(p[x], q[x])
           Alone(q) == ~Alive(p[o]) => q[o].buf = p[o].buf /\ q[o].twr = p[o].twr
           Shuts(q) == PartnerAlive(p, s) /\ p[o].state = "rdhup" /\ ~HasUnsent(q[s]) => q[s].shut
           Good(h) == Same(h.p) /\ (IF h.ok THEN Going(h.p, s) ELSE Half(h.p, s, b))
<1>1. /\ o \in Side /\ o # s /\ Other(o) = s /\ \A x \in Side : x = s \/ x = o
      /\ "local" \in Side /\ "remote" \in Side
      /\ (s = "local" /\ o = "remote") \/ (s = "remote" /\ o = "local")
      /\ p[s] \in Leg /\ p[o] \in Leg
  BY OtherSide DEF Connection, Side, Other
<1>2. (\A x \in Side : CachedInv(p[x])) /\ Waited(p[o])
  BY DEF Half
<1>3. v \in Connection /\ u.ok \in BOOLEAN
  BY HandleUnsentType
<1>4. /\ \A x \in Side : SameOwner(p[x], v[x]) /\ CachedInv(v[x])
      /\ v[o].buf = p[o].buf /\ v[o].twr = p[o].twr /\ Waited(v[o])
      /\ u.ok => Waited(v[s]) /\ Shuts(v)
  BY <1>2, UnsentProgress
<1> HIDE DEF u
\* what the client has got, and its state, do not change for the worse
<1>5. ASSUME NEW q, Same(q), Alone(q) PROVE Replied(q)
  <2>1. q["local"].socks = p["local"].socks /\ q["local"].state = p["local"].state
        /\ q["remote"].state = p["remote"].state
    BY <1>1, <1>5 DEF SameOwner
  <2>2. Silent(q)
    <3>1. CASE s = "local"
      BY <2>1, <3>1 DEF Silent, InTcpMode
    <3>2. CASE s = "remote" /\ Alive(p["local"])
      BY <2>1, <3>2 DEF Silent, Told
    <3>3. CASE s = "remote" /\ ~Alive(p["local"])
      <4>1. q["local"].buf = p["local"].buf /\ q["local"].twr = p["local"].twr
        BY <1>1, <1>5, <3>3
      <4> QED BY <2>1, <4>1 DEF Replied, Silent, HasUnsent
    <3> QED BY <1>1, <3>1, <3>2, <3>3
  <2>3. Connected(q) => Connected(p)
    BY <1>1, <2>1 DEF Connected, Alive, Side
  <2> QED BY <2>1, <2>2, <2>3 DEF Replied
<1>6. ASSUME NEW q, Same(q), Alone(q), \A x \in Side : CachedInv(q[x]), Waited(q[o])
      PROVE  Half(q, s, b)
  <2>1. q["remote"].state # "unavailable"
    BY <1>1, <1>6 DEF SameOwner
  <2>2. Connecting(q, b)
    BY <2>1 DEF Connecting
  <2>3. Silent(q)
    BY <1>5, <1>6 DEF Replied
  <2> QED BY <1>6, <2>2, <2>3 DEF Half
<1>7. ASSUME NEW q, Same(q), Alone(q), \A x \in Side : CachedInv(q[x]) /\ Waited(q[x]), Shuts(q),
             ~Alive(p[o]) => HasUnsent(q[s])
      PROVE  Going(q, s)
  <2>1. /\ q[s].state = p[s].state /\ q[o].state = p[o].state
    BY <1>1, <1>7 DEF SameOwner
  <2>2. Alive(q[s]) /\ (Alive(q[o]) <=> Alive(p[o])) /\ (Connected(q) => Alive(p[o]))
    BY <1>1, <2>1 DEF Alive, Connected
  <2>3. Forwarded(q, o)
    BY <1>1, <1>7, <2>1, <2>2 DEF Forwarded, PartnerAlive
  <2>4. Replied(q)
    BY <1>5, <1>7
  <2>5. q[o].state = "closed" => HasUnsent(q[s])
    BY <1>7, <2>1 DEF Alive
  <2> QED BY <1>7, <2>2, <2>3, <2>4, <2>5 DEF Going
<1>8. Same(v) /\ Alone(v)
  BY <1>4
<1>9. Half(v, s, b)
  BY <1>4, <1>6, <1>8
<1>10. ASSUME u.ok, ~(~PartnerAlive(p, s) /\ ~HasUnsent(v[s])) PROVE Going(v, s)
  BY <1>1, <1>4, <1>7, <1>8, <1>10 DEF PartnerAlive
<1>11. ASSUME u.ok, ~PartnerAlive(p, s), HasUnsent(v[s]) PROVE Same(skipped) /\ Going(skipped, s)
  <2> DEFINE k == [v[s] EXCEPT !.trd = p[s].got]
  <2>1. v[s] \in Leg
    BY <1>1, <1>3 DEF Connection
  <2>2. SameOwner(v[s], k) /\ SameMask(v[s], k) /\ k.buf = v[s].buf /\ k.shut = v[s].shut
    BY <2>1 DEF SameOwner, SameMask, Leg
  <2>3. skipped[s] = k /\ skipped[o] = v[o]
    BY <1>1, <1>3 DEF Connection
  <2> HIDE DEF k, skipped
  <2>4. Same(skipped) /\ Alone(skipped)
    BY <1>1, <1>4, <2>2, <2>3 DEF SameOwner
  <2>5. CachedInv(k) /\ Waited(k) /\ HasUnsent(k)
    BY <1>1, <1>4, <1>11, <2>2 DEF CachedInv, Waited, SameOwner, SameMask, HasUnsent, Alive
  <2>6. \A x \in Side : CachedInv(skipped[x]) /\ Waited(skipped[x])
    BY <1>1, <1>4, <2>3, <2>5
  <2>7. Shuts(skipped)
    BY <1>11
  <2> QED BY <1>7, <2>3, <2>4, <2>5, <2>6, <2>7
<1>12. ASSUME u.ok, PartnerAlive(p, s) PROVE Same(set) /\ Going(set, s)
  <2>1. /\ relayed \in Connection
        /\ \A x \in Side : SameOwner(v[x], relayed[x]) /\ CachedInv(relayed[x])
                           /\ relayed[x].shut = v[x].shut
        /\ relayed[s].buf = v[s].buf
    BY <1>3, <1>4, BlockProgress
  <2> HIDE DEF relayed
  <2>2. \A x \in Side : SameData(relayed[x], set[x]) /\ set[x].state = relayed[x].state
                        /\ CachedInv(set[x]) /\ Waited(set[x])
    BY <2>1, SetFlowPairProgress
  <2> HIDE DEF set
  <2>3. Same(set)
    BY <1>4, <2>1, <2>2 DEF SameOwner, SameData
  <2>4. set[s].buf = v[s].buf /\ set[s].shut = v[s].shut
    BY <1>1, <2>1, <2>2 DEF SameData
  <2>5. Shuts(set)
    BY <1>4, <1>12, <2>4 DEF HasUnsent
  <2> QED BY <1>7, <1>12, <2>2, <2>3, <2>5 DEF PartnerAlive
<1>13. HandleEpoll(p, s, in, n, r, m, lost) =
         IF ~u.ok THEN u
         ELSE IF ~PartnerAlive(p, s) /\ ~HasUnsent(v[s]) THEN Result(FALSE, v)
         ELSE IF ~in THEN u
         ELSE IF ~PartnerAlive(p, s) THEN Result(TRUE, skipped)
         ELSE IF HasUnsent(p[o]) \/ Unread(p[s]) <= 0 THEN u
         ELSE Result(TRUE, set)
  BY DEF HandleEpoll, u
<1> HIDE DEF v, skipped, set, Same
<1>14. v = u.p
  BY DEF v
<1>15. Good(Result(FALSE, v)) /\ (~u.ok => Good(u))
  BY <1>8, <1>9, <1>14 DEF Result
<1>16. u.ok /\ ~(~PartnerAlive(p, s) /\ ~HasUnsent(v[s])) => Good(u)
  BY <1>8, <1>10, <1>14
<1>17. /\ u.ok /\ ~PartnerAlive(p, s) /\ HasUnsent(v[s]) => Good(Result(TRUE, skipped))
       /\ u.ok /\ PartnerAlive(p, s) => Good(Result(TRUE, set))
  BY <1>11, <1>12 DEF Result
<1> HIDE DEF Good
<1>18. Good(HandleEpoll(p, s, in, n, r, m, lost))
  BY <1>13, <1>15, <1>16, <1>17
<1> QED BY <1>18 DEF Good, Same
\* The tail of event_loop after handle_epoll: the end of the leg's stream is passed on.
LEMMA AfterHandleEpollProgress ==
  ASSUME NEW h, h.p \in Connection, NEW s \in Side, NEW b, NEW p,
         \A x \in Side : SameOwner(p[x], h.p[x]),
         IF h.ok THEN Going(h.p, s) /\ Connecting(h.p, b) ELSE Half(h.p, s, b)
  PROVE  LET q == AfterHandleEpoll(h, s) IN LiveInv(q, b) /\ SameRef(p, q)
<1> DEFINE o == Other(s)
           v == h.p
           shut == Shutdown(v, o)
           Closed(q) == CloseWithPartnerCheck(q, s)
           Good(q) == LiveInv(q, b) /\ SameRef(p, q)
<1>1. /\ o \in Side /\ o # s /\ Other(o) = s /\ \A x \in Side : x = s \/ x = o
      /\ "local" \in Side /\ "remote" \in Side
      /\ (s = "local" /\ o = "remote") \/ (s = "remote" /\ o = "local")
  BY OtherSide DEF Side, Other
<1>2. SameRef(p, v)
  BY <1>1 DEF SameRef, SameOwner
<1>3. ASSUME NEW q \in Connection, SameRef(p, q), Half(q, s, b) PROVE Good(Closed(q))
  <2>1. LiveInv(Closed(q), b)
    BY <1>3, CloseLive
  <2>2. \A x \in Side : ClosedOrSame(q[x], Closed(q)[x])
    BY <1>3, CloseProgress
  <2> HIDE DEF Closed
  <2>3. SameRef(p, Closed(q))
    BY <1>1, <1>3, <2>2 DEF SameRef, ClosedOrSame, SameData
  <2> QED BY <2>1, <2>3
<1>4. CASE ~h.ok
  <2>1. AfterHandleEpoll(h, s) = Closed(v)
    BY <1>4 DEF AfterHandleEpoll
  <2>2. Half(v, s, b)
    BY <1>4
  <2> HIDE DEF Closed, v
  <2>3. v \in Connection
    BY DEF v
  <2> QED BY <1>2, <1>3, <2>1, <2>2, <2>3
<1>5. CASE h.ok
  <2> DEFINE ends == v[s].state = "rdhup" /\ PartnerAlive(v, s) /\ ~v[o].shut /\ ~HasUnsent(v[s])
  <2>1. AfterHandleEpoll(h, s) = IF ends THEN IF ShutdownFails(v[o]) THEN Closed(shut) ELSE shut ELSE v
    BY <1>5 DEF AfterHandleEpoll, ShutPartnerWhenDrained
  <2>2. /\ \A x \in Side : CachedInv(v[x]) /\ Waited(v[x])
        /\ Alive(v[s]) /\ (v[o].state = "closed" => HasUnsent(v[s]))
        /\ Forwarded(v, o) /\ Replied(v) /\ Connecting(v, b)
    BY <1>5 DEF Going
  <2>3. v \in Connection
    OBVIOUS
  <2> HIDE DEF v
  <2>4. Kept(v, s) /\ Kept(v, o)
    BY <1>1, <2>2 DEF Kept, Alive, o
  <2>5. ASSUME ~ends PROVE Good(v)
    <3>1. Forwarded(v, s)
      BY <1>1, <2>5 DEF Forwarded, Connected, PartnerAlive
    <3> QED BY <1>1, <1>2, <2>2, <2>4, <3>1 DEF LiveInv
  <2>6. /\ shut[s] = v[s] /\ shut[o].shut /\ shut[o].state = v[o].state
        /\ shut[o].socks = v[o].socks /\ shut[o].ri = v[o].ri /\ shut[o].buf = v[o].buf
        /\ shut[o].twr = v[o].twr /\ shut[o].up = v[o].up /\ shut[o].got = v[o].got
        /\ shut[o].fin = v[o].fin /\ SameMask(v[o], shut[o])
    BY <1>1, <2>3, ShutdownProgress
  <2>7. shut \in Connection
    BY <1>1, <2>3, ShutdownType
  <2> HIDE DEF shut, o
  <2>8. /\ \A x \in Side : (HasUnsent(shut[x]) <=> HasUnsent(v[x])) /\ (Alive(shut[x]) <=> Alive(v[x]))
        /\ Connected(shut) <=> Connected(v)
    <3>1. \A x \in Side : shut[x].buf = v[x].buf /\ shut[x].state = v[x].state
      BY <1>1, <2>6
    <3> QED BY <3>1 DEF HasUnsent, Alive, Connected
  <2>9. \A x \in Side : CachedInv(shut[x]) /\ Waited(shut[x])
    BY <1>1, <2>2, <2>6, <2>8 DEF CachedInv, Waited, SameMask
  <2>10. Kept(shut, s) /\ Kept(shut, o) /\ Forwarded(shut, s)
    BY <1>1, <2>4, <2>6, <2>8 DEF Kept, Forwarded, o
  <2>11. Forwarded(shut, o)
    BY <1>1, <2>2, <2>6, <2>8 DEF Forwarded
  <2>12. Connecting(shut, b)
    BY <1>1, <2>2, <2>6, <2>8 DEF Connecting, SameMask
  <2>13. Replied(shut)
    BY <1>1, <2>2, <2>6, <2>8 DEF Replied, Silent
  <2>14. SameRef(p, shut)
    BY <1>1, <1>2, <2>6 DEF SameRef
  <2>15. Good(shut)
    BY <1>1, <2>9, <2>10, <2>11, <2>12, <2>13, <2>14 DEF LiveInv
  <2>16. Half(shut, s, b)
    BY <1>1, <2>9, <2>12, <2>13 DEF Half, Replied, o
  <2>17. Good(Closed(shut))
    BY <1>3, <2>7, <2>14, <2>16
  <2> HIDE DEF Good, Closed
  <2> QED BY <2>1, <2>5, <2>15, <2>17 DEF Good
<1> QED BY <1>4, <1>5 DEF Good
-----------------------------------------------------------------------------
(* The steps of the event loop and of the kernel.                          *)

\* Events that have been handled are missed by nobody.
LEMMA FewerEvents ==
  ASSUME NEW p, NEW b, NEW d, \A x \in Side : d[x] \in {b[x], {}}
  PROVE  /\ LiveInv(p, b) => LiveInv(p, d)
         /\ \A s \in Side : Half(p, s, b) => Half(p, s, d)
<1>1. d["local"] \in {b["local"], {}} /\ d["remote"] \in {b["remote"], {}}
  BY DEF Side
<1>2. Connecting(p, b) => Connecting(p, d)
  BY <1>1 DEF Connecting
<1> QED BY <1>2 DEF LiveInv, Half

\* Nothing is asked of a connection whose legs are gone.
LEMMA DeadLive ==
  ASSUME NEW p, NEW b, \A x \in Side : CachedInv(p[x]) /\ ~Alive(p[x]), Silent(p)
  PROVE  LiveInv(p, b)
<1>1. ~Alive(p["remote"]) /\ ~Connected(p)
  BY DEF Connected, Side
<1>2. Connecting(p, b)
  BY <1>1 DEF Connecting, Alive
<1> QED BY <1>1, <1>2 DEF LiveInv, Waited, Kept, Forwarded, Replied

\* One connection changes.
LEMMA OneLive ==
  ASSUME TypeOK, ProgressInv, NEW c \in Conn, NEW q, LiveInv(q, batch'[c]),
         pair' = [pair EXCEPT ![c] = q], \A x \in Conn \ {c} : batch'[x] = batch[x]
  PROVE  ProgressInv'
<1>1. pair'[c] = q /\ \A x \in Conn \ {c} : pair'[x] = pair[x]
  BY DEF TypeOK
<1> QED BY <1>1 DEF ProgressInv

\* One event of the batch is handled.
LEMMA EventLive ==
  ASSUME TypeOK, ProgressInv, NEW c \in Conn, NEW s \in Side, NEW q, Handle(c, s, q),
         LiveInv(q, batch'[c])
  PROVE  ProgressInv'
<1>1. pair' = [pair EXCEPT ![c] = q] /\ \A x \in Conn \ {c} : batch'[x] = batch[x]
  BY DEF Handle, TypeOK
<1> QED BY <1>1, OneLive

\* The events of the batch that are left.
LEMMA EventsLeft ==
  ASSUME TypeOK, NEW c \in Conn, NEW s \in Side, NEW q, Handle(c, s, q)
  PROVE  /\ \A x \in Side : batch'[c][x] \in {batch[c][x], {}}
         /\ batch'[c][s] = {} /\ batch'[c][Other(s)] = batch[c][Other(s)]
         /\ pair'[c] = q
BY OtherSide DEF Handle, TypeOK

\* The events of the legs.
LEMMA EventProgress ==
  ASSUME TypeOK, Inv, ProgressInv, NEW c \in Conn, NEW s \in Side,
         EventStale(c, s) \/ EventHup(c, s) \/ EventConnectFailed(c, s)
           \/ EventRdhup(c, s) \/ EventInOut(c, s)
  PROVE  ProgressInv' /\ SameRef(pair[c], pair'[c])
<1> DEFINE p == pair[c]
           a == Attempt(c, s).p
           b == batch[c]
           d == batch'[c]
<1>1. /\ p \in Connection /\ ConnInv(p) /\ LiveInv(p, b) /\ Other(s) \in Side
      /\ b \in [Side -> SUBSET Event]
  BY OtherSide DEF TypeOK, Inv, ProgressInv
<1>2. /\ \A x \in Side : d[x] \in {b[x], {}}
      /\ d[s] = {}
  BY EventsLeft DEF HandleOnly, EventStale, EventHup, EventConnectFailed, EventRdhup, EventInOut
<1>3. LiveInv(p, d) /\ (\A q \in Connection : Half(q, s, b) => Half(q, s, d))
  BY <1>1, <1>2, FewerEvents
<1>4. ASSUME NEW q, HandleOnly(c, s, q), LiveInv(q, d), SameRef(p, q)
      PROVE  ProgressInv' /\ SameRef(pair[c], pair'[c])
  BY <1>4, EventLive, EventsLeft DEF HandleOnly
<1>5. ASSUME Pending(c, s), Alive(p[s]), "hup" \notin b[s], Attempt(c, s).ok
      PROVE  /\ a \in Connection /\ Alive(a[s]) /\ Half(a, s, d) /\ Replied(a)
             /\ Forwarded(a, Other(s)) /\ Told(a, s) /\ SameRef(p, a)
             /\ s = "remote" => a["remote"].state # "unavailable"
             /\ s = "local" => a = p
  BY <1>1, <1>3, <1>5, AttemptFacts, AttemptProgress
<1>6. CASE EventStale(c, s)
  <2>1. SameRef(p, p)
    BY DEF SameRef
  <2> QED BY <1>3, <1>4, <1>6, <2>1 DEF EventStale
<1>7. CASE EventHup(c, s)
  <2>1. Alive(p[s]) /\ HandleOnly(c, s, HandleHup(p, s))
    BY <1>7 DEF EventHup
  <2>2. LiveInv(HandleHup(p, s), d) /\ SameRef(p, HandleHup(p, s))
    BY <1>1, <1>3, <2>1, HupProgress
  <2> QED BY <1>4, <2>1, <2>2
<1>8. CASE EventConnectFailed(c, s)
  <2> DEFINE q == CloseBoth(a, s)
  <2>1. a = ProxyRemoteConnAck(p, s) /\ HandleOnly(c, s, q)
    BY <1>8 DEF EventConnectFailed, Attempt, CheckConnectionAttempt, Result
  <2> HIDE DEF a
  <2>2. /\ a \in Connection /\ a["remote"] = p["remote"]
        /\ LET l == p["local"]  k == a["local"]
           IN /\ k.ri = l.ri /\ k.buf = l.buf /\ k.twr = l.twr /\ SameMask(l, k)
              /\ k.socks = IF s = "remote" /\ Alive(l) /\ l.socks = "connection"
                           THEN "tcp" ELSE l.socks
    BY <1>1, <2>1, ProxyRemoteConnAckType, AckProgress
  <2>3. (\A x \in Side : CachedInv(a[x])) /\ Silent(a) /\ SameRef(p, a)
    <3>1. CachedInv(p["local"]) /\ CachedInv(p["remote"]) /\ Silent(p)
      BY <1>1 DEF LiveInv, Side, Replied
    <3>2. CachedInv(a["local"]) /\ CachedInv(a["remote"])
      BY <2>2, <3>1 DEF CachedInv, SameMask
    <3>3. Silent(a) /\ SameRef(p, a)
      BY <2>2, <3>1 DEF Silent, SameRef, HasUnsent
    <3> QED BY <3>2, <3>3 DEF Side
  <2>4. \A x \in Side : ClosedOrSame(a[x], q[x]) /\ ~Alive(q[x])
    BY <2>2, CloseProgress
  <2> HIDE DEF q
  <2>5. \A x \in Side : CachedInv(q[x])
    BY <2>3, <2>4 DEF CachedInv, ClosedOrSame, SameMask
  <2>6. Silent(q) /\ SameRef(p, q)
    BY <2>3, <2>4 DEF Silent, SameRef, ClosedOrSame, SameData, HasUnsent, Side
  <2> QED BY <1>4, <2>1, <2>4, <2>5, <2>6, DeadLive
<1>9. CASE EventRdhup(c, s)
  <2>1. /\ Pending(c, s) /\ Alive(p[s]) /\ "hup" \notin b[s] /\ Attempt(c, s).ok
        /\ HandleOnly(c, s, HandleRdhup(a, s))
    BY <1>9 DEF EventRdhup
  <2> HIDE DEF a, d, p
  <2>2. LiveInv(HandleRdhup(a, s), d) /\ SameRef(a, HandleRdhup(a, s))
    BY <1>2, <1>5, <2>1, RdhupProgress
  <2>3. SameRef(p, HandleRdhup(a, s))
    BY <1>5, <2>1, <2>2, SameRefTransitive
  <2> QED BY <1>4, <2>1, <2>2, <2>3
<1>10. CASE EventInOut(c, s)
  <2> DEFINE in == "in" \in b[s]
             h(n, r, m, lost) == HandleEpoll(a, s, in, n, r, m, lost)
  <2>1. /\ Pending(c, s) /\ Alive(p[s]) /\ b[s] \cap {"hup", "rdhup"} = {} /\ Attempt(c, s).ok
        /\ InTcpMode(a, s)
    BY <1>10 DEF EventInOut, ReadyForIO
  <2>2. a["remote"].state # "unavailable"
    <3>1. CASE s = "remote"
      BY <1>5, <2>1, <3>1
    <3>2. CASE s = "local"
      <4>1. a = p /\ b["local"] # {} /\ b["local"] \subseteq Event /\ Connecting(p, b)
        BY <1>1, <1>5, <2>1, <3>2 DEF Pending, LiveInv
      <4>2. b["local"] \cap {"in", "out"} # {}
        BY <2>1, <3>2, <4>1 DEF Event
      <4> QED BY <2>1, <3>2, <4>1, <4>2 DEF Connecting, InTcpMode
    <3> QED BY <3>1, <3>2 DEF Side
  <2>3. PICK n, r, m \in 0 .. MaxBytes, lost \in BOOLEAN :
          m <= r /\ HandleOnly(c, s, AfterHandleEpoll(h(n, r, m, lost), s))
    BY <1>10 DEF EventInOut
  <2>4. n \in Nat /\ r \in Nat /\ m \in Nat /\ in \in BOOLEAN
    BY BoundAssumption
  <2> DEFINE u == h(n, r, m, lost)
             q == AfterHandleEpoll(u, s)
  <2> HIDE DEF a, d, p, in
  <2>5. /\ \A x \in Side : SameOwner(a[x], u.p[x])
        /\ IF u.ok THEN Going(u.p, s) ELSE Half(u.p, s, d)
    BY <1>5, <2>1, <2>2, <2>3, <2>4, HandleEpollProgress
  <2>6. u.p \in Connection
    BY <1>5, <2>1, <2>3, <2>4, HandleEpollType
  <2> HIDE DEF u
  <2>7. Connecting(u.p, d)
    BY <2>2, <2>5 DEF SameOwner, Connecting, Side
  <2>8. LiveInv(q, d) /\ SameRef(a, q)
    BY <2>5, <2>6, <2>7, AfterHandleEpollProgress
  <2>9. HandleOnly(c, s, q)
    BY <2>3 DEF u
  <2> HIDE DEF q
  <2>10. SameRef(p, q)
    BY <1>5, <2>1, <2>8, SameRefTransitive
  <2> QED BY <1>4, <2>8, <2>9, <2>10
<1> QED BY <1>6, <1>7, <1>8, <1>9, <1>10

\* A leg that has just been allocated.
LEMMA NoLegProgress ==
  LET new == [NoLeg EXCEPT !.state = "unavailable", !.mask = {"out"}]
  IN /\ CachedInv(NoLeg) /\ ~HasUnsent(NoLeg) /\ NoLeg.twr = 0 /\ ~Alive(NoLeg)
     /\ NoLeg.state = "absent"
     /\ new.state = "unavailable" /\ CachedInv(new) /\ ~HasUnsent(new) /\ "out" \in new.mask
     /\ ~new.fin /\ new.got = 0
<1> DEFINE new == [NoLeg EXCEPT !.state = "unavailable", !.mask = {"out"}]
<1>1. NoLeg.cached = {"rdhup"} /\ NoLeg.twr = 0 /\ ~NoLeg.fin /\ NoLeg.got = 0 /\ NoLeg.state = "absent"
  BY DEF NoLeg
<1>2. /\ new.state = "unavailable" /\ new.mask = {"out"} /\ new.cached = NoLeg.cached
      /\ new.buf = NoLeg.buf /\ new.fin = NoLeg.fin /\ new.got = NoLeg.got
  BY NoLegType DEF Leg
<1> HIDE DEF new
<1>3. ~HasUnsent(NoLeg) /\ ~HasUnsent(new)
  BY <1>2, NoLegFacts DEF HasUnsent
<1> QED BY <1>1, <1>2, <1>3 DEF CachedInv, Alive, new

\* A target that starts being connected to, for a client that has relayed nothing.
LEMMA JoinProgress ==
  ASSUME NEW p \in Connection, NEW b, CachedInv(p["local"]), Alive(p["local"]),
         p["local"].state # "rdhup", ~HasUnsent(p["local"]), p["local"].twr = 0,
         b["remote"] = {},
         IF Socks THEN p["local"].socks = "connection"
         ELSE /\ p["local"].flow = {} /\ p["local"].mask \subseteq {"rdhup"}
              /\ b["local"] \cap {"in", "out"} = {}
  PROVE  LET q == NewRemote(p)
         IN /\ q["local"] = p["local"] /\ q["remote"].state = "unavailable"
            /\ LiveInv(q, b) /\ Going(q, "local") /\ Connecting(q, b)
<1> DEFINE q == NewRemote(p)
           new == [NoLeg EXCEPT !.state = "unavailable", !.mask = {"out"}]
<1>1. q["local"] = p["local"] /\ q["remote"] = new
  BY DEF NewRemote, Connection, Side
<1>2. /\ new.state = "unavailable" /\ CachedInv(new) /\ ~HasUnsent(new) /\ "out" \in new.mask
      /\ ~new.fin /\ new.got = 0
  BY NoLegProgress
<1> HIDE DEF q, new
<1>3. Other("local") = "remote" /\ Other("remote") = "local" /\ "local" \in Side /\ "remote" \in Side
      /\ \A x \in Side : x = "local" \/ x = "remote"
  BY DEF Side, Other
<1>4. \A x \in Side : CachedInv(q[x]) /\ Waited(q[x]) /\ q[x].state \notin {"rdhup", "closed"}
  BY <1>1, <1>2, <1>3 DEF Waited, Alive
<1>5. \A x \in Side : Kept(q, x) /\ Forwarded(q, x)
  BY <1>3, <1>4 DEF Kept, Forwarded
<1>6. Connecting(q, b)
  BY <1>1, <1>2 DEF Connecting
<1>7. Replied(q)
  BY <1>1, <1>2 DEF Replied, Silent
<1> QED BY <1>1, <1>2, <1>3, <1>4, <1>5, <1>6, <1>7 DEF LiveInv, Going, q

\* proxy_mode_connect_remote, for a client that negotiates.
LEMMA ConnectProgress ==
  ASSUME NEW p \in Connection, NEW b, ConnInv(p), Negotiates(p), LiveInv(p, b), b["remote"] = {}
  PROVE  LET q == ProxyModeConnectRemote(p)
         IN /\ LiveInv(q, b) /\ Going(q, "local") /\ Connecting(q, b)
            /\ q["local"].ri = p["local"].ri /\ q["local"].socks = "connection"
            /\ q["local"].state = p["local"].state
            /\ q["remote"].state # "absent"
            /\ q \in Connection
<1> DEFINE l == [p["local"] EXCEPT !.socks = "connection"]
           a == [p EXCEPT !["local"] = l]
           q == ProxyModeConnectRemote(p)
<1>1. p["local"] \in Leg /\ l \in Leg
  BY DEF Connection, Side, Leg, SocksState
<1>2. /\ l.socks = "connection" /\ l.ri = p["local"].ri /\ l.buf = p["local"].buf
      /\ l.twr = p["local"].twr /\ l.state = p["local"].state /\ SameMask(p["local"], l)
  BY <1>1 DEF Leg, SameMask
<1>3. a \in Connection /\ a["local"] = l
  BY <1>1 DEF Connection, Side
<1>4. q = NewRemote(a) /\ q \in Connection
  BY NewConnectionType DEF ProxyModeConnectRemote, NewRemote, Connection, Side
<1> HIDE DEF q, a, l
<1>5. /\ p["local"].state # "rdhup" /\ ~HasUnsent(p["local"]) /\ p["local"].twr = 0
      /\ Alive(p["local"]) /\ Socks
  BY DEF ConnInv, DataInv, Fresh, Negotiates
<1>6. CachedInv(p["local"])
  BY DEF LiveInv, Side
<1>7. CachedInv(l) /\ Alive(l) /\ ~HasUnsent(l)
  BY <1>2, <1>5, <1>6 DEF CachedInv, SameMask, Alive, HasUnsent
<1>8. q["local"] = l /\ q["remote"].state = "unavailable"
      /\ LiveInv(q, b) /\ Going(q, "local") /\ Connecting(q, b)
  BY <1>2, <1>3, <1>4, <1>5, <1>7, JoinProgress
<1> QED BY <1>2, <1>4, <1>8 DEF q

\* A client that negotiates: its leg changes, but not what it has sent and got.
LEMMA NegotiateProgress ==
  ASSUME NEW p \in Connection, NEW l \in Leg, NEW b, LiveInv(p, b),
         p["remote"].state = "absent", Alive(p["local"]),
         p["local"].state # "rdhup", ~HasUnsent(p["local"]), p["local"].twr = 0,
         l.buf = p["local"].buf, l.twr = p["local"].twr, l.state = p["local"].state,
         SameMask(p["local"], l)
  PROVE  LET q == [p EXCEPT !["local"] = l]
         IN /\ q \in Connection /\ q["local"] = l /\ q["remote"] = p["remote"]
            /\ LiveInv(q, b) /\ Going(q, "local") /\ Connecting(q, b)
<1> DEFINE q == [p EXCEPT !["local"] = l]
<1>1. q \in Connection /\ q["local"] = l /\ q["remote"] = p["remote"]
  BY DEF Connection, Side
<1> HIDE DEF q
<1>2. Other("local") = "remote" /\ Other("remote") = "local" /\ "local" \in Side /\ "remote" \in Side
      /\ \A x \in Side : x = "local" \/ x = "remote"
  BY DEF Side, Other
<1>3. CachedInv(p["local"]) /\ CachedInv(p["remote"])
  BY <1>2 DEF LiveInv
<1>4. CachedInv(l) /\ ~HasUnsent(l) /\ Alive(l)
  BY <1>3 DEF CachedInv, SameMask, HasUnsent, Alive
<1>5. /\ \A x \in Side : CachedInv(q[x]) /\ Waited(q[x]) /\ Kept(q, x)
      /\ ~Connected(q)
  BY <1>1, <1>2, <1>3, <1>4 DEF Waited, Kept, Connected, Alive
<1>6. Connecting(q, b) /\ Replied(q)
  BY <1>1, <1>4, <1>5 DEF Connecting, Replied, Silent
<1> QED BY <1>1, <1>2, <1>4, <1>5, <1>6 DEF LiveInv, Going, Forwarded, q

\* handle_proxy_mode.
LEMMA ProxyModeProgress ==
  ASSUME NEW p \in Connection, NEW reply \in SocksReplies(p), NEW b, ConnInv(p), LiveInv(p, b),
         Alive(p["local"]), ~InTcpMode(p, "local"), p["remote"].state = "absent" => b["remote"] = {}
  PROVE  LET h == HandleProxyMode(p, reply)
         IN /\ IF h.ok THEN Going(h.p, "local") /\ Connecting(h.p, b) ELSE Half(h.p, "local", b)
            /\ IF reply = "resolve"
               THEN h.p["local"].ri /\ h.p["local"].socks = "resolve" /\ p["local"].socks # "resolve"
               ELSE SameRef(p, h.p)
            /\ h.p["local"].state = p["local"].state
            /\ IF reply = "connection"
               THEN p["remote"].state = "absent" /\ h.p["remote"].state # "absent"
               ELSE h.p["remote"].state = p["remote"].state
<1> DEFINE l == [p["local"] EXCEPT !.got = p["local"].trd]
           read == [p EXCEPT !["local"] = l]
           h == HandleProxyMode(p, reply)
           asked == [l EXCEPT !.socks = "request"]
           looks == [l EXCEPT !.socks = "resolve", !.ri = TRUE]
           hangup == Result(FALSE, read)
           request == Result(TRUE, [read EXCEPT !["local"] = asked])
           resolve == Result(TRUE, [read EXCEPT !["local"] = looks])
           connection == Result(TRUE, ProxyModeConnectRemote(read))
<1>1. /\ p["local"] \in Leg /\ l \in Leg /\ "local" \in Side /\ "remote" \in Side
      /\ read \in Connection /\ read["local"] = l /\ read["remote"] = p["remote"]
  BY DEF Connection, Side, Leg
<1>2. /\ SameMask(p["local"], l) /\ l.buf = p["local"].buf /\ l.twr = p["local"].twr
      /\ l.state = p["local"].state /\ l.socks = p["local"].socks /\ l.ri = p["local"].ri
      /\ l.fin = p["local"].fin /\ l.trd = p["local"].trd /\ l.got = l.trd
      /\ l.mask = p["local"].mask /\ l.cached = p["local"].cached
      /\ l.fatal = p["local"].fatal /\ l.shut = p["local"].shut /\ l.broken = p["local"].broken
  BY <1>1 DEF Leg, SameMask
<1>3. h = CASE reply = "hangup" -> hangup [] reply = "request" -> request
            [] reply = "resolve" -> resolve [] reply = "connection" -> connection
  BY <1>1 DEF HandleProxyMode, Connection, Side
<1>4. /\ asked \in Leg /\ asked.buf = l.buf /\ asked.twr = l.twr /\ asked.state = l.state
      /\ SameMask(l, asked) /\ asked.ri = l.ri /\ asked.socks = "request"
      /\ looks \in Leg /\ looks.buf = l.buf /\ looks.twr = l.twr /\ looks.state = l.state
      /\ SameMask(l, looks) /\ looks.ri /\ looks.socks = "resolve"
  BY <1>1 DEF Leg, SocksState, SameMask
<1>5. reply \in {"hangup", "request", "resolve", "connection"}
      /\ (reply # "hangup" => p["local"].socks \in {"handshake", "request"})
  BY DEF SocksReplies
<1> HIDE DEF h, asked, looks
<1>6. ASSUME reply # "hangup"
      PROVE  /\ Negotiates(p) /\ p["remote"].state = "absent" /\ p["local"].state # "rdhup"
             /\ ~HasUnsent(p["local"]) /\ p["local"].twr = 0 /\ b["remote"] = {}
             /\ LiveInv(read, b) /\ ConnInv(read) /\ Negotiates(read)
  <2>1. Negotiates(p)
    BY <1>5, <1>6 DEF Negotiates, InTcpMode
  <2>2. p["remote"].state = "absent" /\ p["local"].state # "rdhup" /\ ~HasUnsent(p["local"])
        /\ p["local"].twr = 0
    BY <2>1 DEF ConnInv, DataInv, Fresh
  <2> HIDE DEF l
  <2>3. LiveInv(read, b)
    BY <1>1, <1>2, <2>2, NegotiateProgress
  <2>4. Negotiates(read)
    BY <1>1, <1>2, <2>1 DEF Negotiates, Alive
  <2>5. ~Socks => l.socks = "handshake"
    BY <1>2 DEF ConnInv, DataInv, Fresh
  <2>6. l.got <= l.trd
    BY <1>1, <1>2 DEF Leg
  <2>7. ConnInv(read)
    BY <1>1, <1>2, <2>5, <2>6, ChangeLocalInv
  <2> QED BY <2>1, <2>2, <2>3, <2>4, <2>7
<1> HIDE DEF read
<1>7. CASE reply = "hangup"
  <2>1. h = hangup
    BY <1>3, <1>7
  <2>2. Half(p, "local", b)
    BY <1>1, LiveHalf
  <2> HIDE DEF l
  <2>3. /\ CachedInv(l) /\ (HasUnsent(l) <=> HasUnsent(p["local"])) /\ (Alive(l) <=> Alive(p["local"]))
    BY <1>1, <1>2, <2>2 DEF CachedInv, SameMask, HasUnsent, Alive, Half
  <2>4. (\A x \in Side : CachedInv(read[x])) /\ Waited(read[Other("local")])
    BY <1>1, <2>2, <2>3 DEF Half, Side, Other
  <2>5. Connecting(read, b)
    BY <1>1, <1>2, <2>2, <2>3 DEF Connecting, SameMask, Half
  <2>6. Silent(read)
    BY <1>1, <1>2, <2>2, <2>3 DEF Silent, Half
  <2>7. SameRef(p, read)
    BY <1>1, <1>2 DEF SameRef
  <2> QED BY <1>1, <1>2, <1>7, <2>1, <2>4, <2>5, <2>6, <2>7 DEF Half, Result, h
<1>8. ASSUME NEW k \in Leg, k.buf = l.buf, k.twr = l.twr, k.state = l.state, SameMask(l, k),
             reply # "hangup"
      PROVE  LET q == [read EXCEPT !["local"] = k]
             IN /\ Going(q, "local") /\ Connecting(q, b) /\ q["local"] = k
                /\ q["remote"] = p["remote"]
  <2> HIDE DEF l
  <2>1. /\ Alive(read["local"]) /\ read["local"].state # "rdhup" /\ ~HasUnsent(read["local"])
        /\ read["local"].twr = 0 /\ read["remote"].state = "absent"
    BY <1>1, <1>2, <1>6, <1>8 DEF Alive, HasUnsent
  <2> QED BY <1>1, <1>6, <1>8, <2>1, NegotiateProgress
<1>9. CASE reply = "request"
  <2> DEFINE q == [read EXCEPT !["local"] = asked]
  <2>1. /\ Going(q, "local") /\ Connecting(q, b) /\ q["local"] = asked
        /\ q["remote"] = p["remote"]
    BY <1>4, <1>8, <1>9
  <2>2. h = Result(TRUE, q)
    BY <1>3, <1>9
  <2> HIDE DEF q, l
  <2>3. SameRef(p, q)
    BY <1>2, <1>4, <1>5, <1>9, <2>1 DEF SameRef
  <2> QED BY <1>2, <1>4, <1>9, <2>1, <2>2, <2>3 DEF Result, h
<1>10. CASE reply = "resolve"
  <2> DEFINE q == [read EXCEPT !["local"] = looks]
  <2>1. /\ Going(q, "local") /\ Connecting(q, b) /\ q["local"] = looks
        /\ q["remote"] = p["remote"]
    BY <1>4, <1>8, <1>10
  <2>2. h = Result(TRUE, q)
    BY <1>3, <1>10
  <2> HIDE DEF q, l
  <2> QED BY <1>2, <1>4, <1>5, <1>10, <2>1, <2>2 DEF Result, h
<1>11. CASE reply = "connection"
  <2> DEFINE q == ProxyModeConnectRemote(read)
  <2>1. /\ Going(q, "local") /\ Connecting(q, b)
        /\ q["local"].ri = read["local"].ri /\ q["local"].socks = "connection"
        /\ q["local"].state = read["local"].state /\ q["remote"].state # "absent"
    BY <1>1, <1>6, <1>11, ConnectProgress
  <2>2. h = Result(TRUE, q)
    BY <1>3, <1>11
  <2> HIDE DEF q, l
  <2>3. SameRef(p, q)
    BY <1>1, <1>2, <1>5, <1>11, <2>1 DEF SameRef
  <2> QED BY <1>1, <1>2, <1>6, <1>11, <2>1, <2>2, <2>3 DEF Result, h
<1> QED BY <1>5, <1>7, <1>9, <1>10, <1>11

\* A message of a SOCKS client.
LEMMA SocksProgress ==
  ASSUME TypeOK, Inv, ProgressInv, NEW c \in Conn, EventSocks(c)
  PROVE  ProgressInv'
<1> DEFINE p == pair[c]
           b == batch[c]
           d == batch'[c]
<1>1. /\ p \in Connection /\ ConnInv(p) /\ BatchInv(p, b) /\ LiveInv(p, b)
      /\ "local" \in Side /\ "remote" \in Side
  BY DEF TypeOK, Inv, ProgressInv, Side
<1>2. Alive(p["local"]) /\ ~InTcpMode(p, "local")
  BY DEF EventSocks, ReadyForIO
<1>3. PICK reply \in SocksReplies(p) :
        Handle(c, "local", AfterHandleEpoll(HandleProxyMode(p, reply), "local"))
  BY DEF EventSocks
<1> DEFINE h == HandleProxyMode(p, reply)
           q == AfterHandleEpoll(h, "local")
<1>4. Handle(c, "local", q)
  BY <1>3
<1>5. \A x \in Side : d[x] \in {b[x], {}}
  BY <1>1, <1>4, EventsLeft
<1> HIDE DEF q
<1>6. LiveInv(p, d) /\ (p["remote"].state = "absent" => d["remote"] = {})
  BY <1>1, <1>5, FewerEvents DEF BatchInv
<1> HIDE DEF d
<1>7. IF h.ok THEN Going(h.p, "local") /\ Connecting(h.p, d) ELSE Half(h.p, "local", d)
  BY <1>1, <1>2, <1>6, ProxyModeProgress
<1>8. h.p \in Connection
  BY <1>1, HandleProxyModeType
<1> HIDE DEF h
<1>9. \A x \in Side : SameOwner(h.p[x], h.p[x])
  BY DEF SameOwner
<1>10. LiveInv(q, d)
  BY <1>1, <1>7, <1>8, <1>9, AfterHandleEpollProgress DEF q
<1> QED BY <1>1, <1>4, <1>10, EventLive DEF d

\* A connection that has just been accepted.
LEMMA NewConnectionProgress ==
  ASSUME NEW b, \A x \in Side : b[x] = {}
  PROVE  LiveInv(NewConnection, b) /\ LiveInv(NoConnection, b)
<1> DEFINE l == [NoLeg EXCEPT !.state = "available", !.up = TRUE,
                              !.mask = IF Socks THEN {"in", "rdhup"} ELSE {"rdhup"}]
           a == [NoConnection EXCEPT !["local"] = l]
<1>1. /\ Other("local") = "remote" /\ Other("remote") = "local" /\ "local" \in Side /\ "remote" \in Side
      /\ \A s \in Side : s = "local" \/ s = "remote"
  BY DEF Side, Other
<1>2. /\ CachedInv(NoLeg) /\ ~HasUnsent(NoLeg) /\ NoLeg.twr = 0 /\ ~Alive(NoLeg)
      /\ NoLeg.state = "absent"
  BY NoLegProgress
<1>3. \A x \in Side : NoConnection[x] = NoLeg
  BY DEF NoConnection
<1>4. LiveInv(NoConnection, b)
  BY <1>1, <1>2, <1>3, DeadLive DEF Silent
<1>5. l \in Leg /\ a["local"] = l /\ a["remote"] = NoLeg /\ a \in Connection
  <2>1. l \in Leg
    BY NoLegType DEF Leg, LegState, Event
  <2>2. NoConnection \in Connection
    BY <1>3, NoLegType DEF NoConnection, Connection
  <2> HIDE DEF l
  <2> QED BY <1>1, <1>3, <2>1, <2>2 DEF Connection
<1>6. /\ l.state = "available" /\ l.cached = {"rdhup"} /\ l.flow = {} /\ l.buf = NoLeg.buf
      /\ l.twr = 0 /\ (~Socks => l.mask = {"rdhup"})
  <2>1. NoLeg.cached = {"rdhup"} /\ NoLeg.flow = {} /\ NoLeg.twr = 0
    BY DEF NoLeg
  <2> QED BY <2>1, NoLegType DEF Leg
<1>7. NewConnection = IF Socks THEN a ELSE NewRemote(a)
  BY DEF NewConnection
<1> HIDE DEF l, a
<1>8. CachedInv(l) /\ ~HasUnsent(l) /\ Alive(l)
  BY <1>2, <1>6 DEF CachedInv, HasUnsent, Alive
<1>9. LiveInv(a, b)
  <2>1. /\ \A x \in Side : CachedInv(a[x]) /\ Waited(a[x]) /\ Kept(a, x)
        /\ ~Connected(a)
    BY <1>1, <1>2, <1>5, <1>6, <1>8 DEF Waited, Kept, Connected
  <2>2. Connecting(a, b) /\ Replied(a)
    BY <1>2, <1>5, <1>6, <1>8, <2>1 DEF Connecting, Replied, Silent
  <2> QED BY <1>1, <2>1, <2>2 DEF LiveInv, Forwarded
<1>10. ASSUME ~Socks PROVE LiveInv(NewRemote(a), b)
  BY <1>1, <1>5, <1>6, <1>8, <1>10, JoinProgress
<1> QED BY <1>4, <1>7, <1>9, <1>10

\* The listening socket.
LEMMA AcceptProgress ==
  ASSUME TypeOK, Inv, ProgressInv, EventAccept
  PROVE  ProgressInv'
<1>1. batch' = batch
  BY DEF EventAccept
<1>2. CASE UNCHANGED pair
  BY <1>1, <1>2 DEF ProgressInv
<1>3. CASE \E c \in Conn : /\ \A s \in Side : pair[c][s].state = "absent"
                           /\ pair' = [pair EXCEPT ![c] = NewConnection]
  <2>1. PICK c \in Conn : /\ \A s \in Side : pair[c][s].state = "absent"
                          /\ pair' = [pair EXCEPT ![c] = NewConnection]
    BY <1>3
  <2>2. \A s \in Side : batch'[c][s] = {}
    BY <1>1, <2>1 DEF Inv, BatchInv
  <2>3. LiveInv(NewConnection, batch'[c])
    BY <2>2, NewConnectionProgress
  <2> QED BY <1>1, <2>1, <2>3, OneLive
<1> QED BY <1>2, <1>3 DEF EventAccept

\* The memory of the answer is nothing to the rest.
LEMMA ForgetProgress ==
  ASSUME NEW p \in Connection, NEW b, LiveInv(p, b)
  PROVE  LET q == [p EXCEPT !["local"].ri = FALSE]
         IN /\ LiveInv(q, b) /\ q["remote"] = p["remote"] /\ ~q["local"].ri
            /\ q["local"].state = p["local"].state /\ q["local"].socks = p["local"].socks
<1> DEFINE q == [p EXCEPT !["local"].ri = FALSE]
           l == p["local"]
           k == q["local"]
<1>1. p["local"] \in Leg /\ Other("local") = "remote" /\ Other("remote") = "local"
      /\ "local" \in Side /\ "remote" \in Side /\ \A x \in Side : x = "local" \/ x = "remote"
  BY DEF Connection, Side, Other
<1>2. q["remote"] = p["remote"] /\ q["local"] = [p["local"] EXCEPT !.ri = FALSE]
  BY <1>1 DEF Connection
<1> HIDE DEF q
<1>3. /\ k.state = l.state /\ k.socks = l.socks /\ k.buf = l.buf /\ k.twr = l.twr
      /\ k.shut = l.shut /\ ~k.ri /\ SameMask(l, k)
  BY <1>1, <1>2 DEF Leg, SameMask
<1>4. /\ \A x \in Side : /\ Alive(q[x]) <=> Alive(p[x])
                         /\ HasUnsent(q[x]) <=> HasUnsent(p[x])
                         /\ q[x].state = p[x].state /\ q[x].shut = p[x].shut
                         /\ q[x].mask = p[x].mask /\ q[x].cached = p[x].cached
      /\ Connected(q) <=> Connected(p)
  BY <1>1, <1>2, <1>3 DEF Alive, HasUnsent, SameMask, Connected
<1>5. \A s \in Side : CachedInv(q[s]) /\ Waited(q[s])
  BY <1>4 DEF LiveInv, CachedInv, Waited
<1>6. \A s \in Side : Kept(q, s) /\ Forwarded(q, s)
  BY <1>1, <1>4 DEF LiveInv, Kept, Forwarded
<1>7. Connecting(q, b)
  BY <1>2, <1>3, <1>4, <1>1 DEF LiveInv, Connecting, SameMask
<1>8. Replied(q)
  BY <1>2, <1>3, <1>4, <1>1 DEF LiveInv, Replied, Silent
<1> QED BY <1>2, <1>3, <1>5, <1>6, <1>7, <1>8 DEF LiveInv, q

\* resolve_complete, for a connection in any state.
LEMMA ResolveProgress ==
  ASSUME NEW p \in Connection, NEW answer, NEW connect \in BOOLEAN, NEW b, ConnInv(p), LiveInv(p, b),
         p["remote"].state = "absent" => b["remote"] = {}
  PROVE  LET r == ResolveComplete(p, answer, connect)
             q == [r EXCEPT !["local"].ri = FALSE]
         IN /\ LiveInv(q, b) /\ ~q["local"].ri
            /\ q["local"].state = "absent" <=> p["local"].state = "absent"
            /\ Alive(q["local"]) => Alive(p["local"])
            /\ r["remote"].state = q["remote"].state
            /\ \/ r["remote"].state = p["remote"].state
               \/ p["remote"].state = "absent" /\ r["remote"].state # "absent"
<1> DEFINE r == ResolveComplete(p, answer, connect)
           closed == [p EXCEPT !["local"] = CloseLeg(@)]
           joined == ProxyModeConnectRemote(p)
           Good(x) == /\ x \in Connection /\ LiveInv(x, b)
                      /\ x["local"].state = "absent" <=> p["local"].state = "absent"
                      /\ Alive(x["local"]) => Alive(p["local"])
                      /\ \/ x["remote"].state = p["remote"].state
                         \/ p["remote"].state = "absent" /\ x["remote"].state # "absent"
<1>1. Good(p)
  OBVIOUS
<1>2. ASSUME Alive(p["local"]), p["local"].socks = "resolve" PROVE Good(closed) /\ Good(joined)
  <2>1. Negotiates(p)
    BY <1>2 DEF ConnInv, DataInv, Fresh, Negotiates
  <2>2. p["remote"].state = "absent" /\ b["remote"] = {}
    BY <2>1 DEF ConnInv, DataInv, Fresh
  <2>3. Good(joined)
    <3>1. /\ LiveInv(joined, b) /\ joined["local"].state = p["local"].state
          /\ joined["remote"].state # "absent" /\ joined \in Connection
      BY <2>1, <2>2, ConnectProgress
    <3> HIDE DEF joined
    <3> QED BY <2>2, <3>1 DEF Alive
  <2>4. Good(closed)
    <3> DEFINE l == CloseLeg(p["local"])
    <3>1. p["local"] \in Leg
      BY DEF Connection, Side
    <3>2. /\ l \in Leg /\ SameData(p["local"], l) /\ SameMask(p["local"], l) /\ l.state = "closed"
      BY <1>2, <3>1, CloseLegType DEF CloseLeg, SameData, SameMask, Leg
    <3> HIDE DEF l
    <3>3. closed \in Connection /\ closed["local"] = l /\ closed["remote"] = p["remote"]
      BY <3>2 DEF Connection, Side, l
    <3> HIDE DEF closed
    <3>4. CachedInv(p["local"]) /\ CachedInv(p["remote"])
      BY DEF LiveInv, Side
    <3>5. \A x \in Side : CachedInv(closed[x]) /\ ~Alive(closed[x])
      BY <2>2, <3>2, <3>3, <3>4 DEF CachedInv, SameMask, Alive, Side
    <3>6. Silent(closed)
      BY <3>2, <3>3 DEF LiveInv, Replied, Silent, SameData, HasUnsent
    <3> QED BY <1>2, <3>2, <3>3, <3>5, <3>6, DeadLive DEF Alive
  <2> QED BY <2>3, <2>4
<1>3. r \in {p, joined, closed} /\ (r # p => Alive(p["local"]) /\ p["local"].socks = "resolve")
  BY DEF ResolveComplete
<1>4. Good(r)
  BY <1>1, <1>2, <1>3
<1> HIDE DEF r
<1> QED BY <1>4, ForgetProgress DEF r, Alive

\* The resolver pipe.
LEMMA ResolvedProgress ==
  ASSUME TypeOK, Inv, ProgressInv, EventResolved
  PROVE  ProgressInv'
<1>1. PICK i \in items :
        IF i.ptr = NoConn THEN UNCHANGED <<pair, legs>>
        ELSE \E connect \in BOOLEAN :
               LET p == ResolveComplete(pair[i.ptr], i.st, connect)
               IN pair' = [pair EXCEPT ![i.ptr] = [p EXCEPT !["local"].ri = FALSE]]
  BY DEF EventResolved
<1>2. batch' = batch
  BY DEF EventResolved
<1>3. CASE i.ptr = NoConn
  BY <1>1, <1>2, <1>3 DEF ProgressInv
<1>4. CASE i.ptr # NoConn
  <2> DEFINE c == i.ptr
  <2>1. c \in Conn
    BY <1>4 DEF TypeOK, ResolveItem
  <2>2. PICK connect \in BOOLEAN :
          pair' = [pair EXCEPT ![c] =
                     [ResolveComplete(pair[c], i.st, connect) EXCEPT !["local"].ri = FALSE]]
    BY <1>1, <1>4
  <2> DEFINE q == [ResolveComplete(pair[c], i.st, connect) EXCEPT !["local"].ri = FALSE]
  <2> HIDE DEF c
  <2>3. /\ pair[c] \in Connection /\ ConnInv(pair[c]) /\ BatchInv(pair[c], batch[c])
        /\ LiveInv(pair[c], batch[c]) /\ "remote" \in Side
    BY <2>1 DEF TypeOK, Inv, ProgressInv, Side
  <2>4. LiveInv(q, batch[c])
    BY <2>3, ResolveProgress DEF BatchInv
  <2>5. pair' = [pair EXCEPT ![c] = q]
    BY <2>2
  <2> HIDE DEF q
  <2> QED BY <1>2, <2>1, <2>4, <2>5, OneLive
<1> QED BY <1>3, <1>4

\* remove_closed_connections frees legs and leaves the others as they are.
LEMMA FreeProgress ==
  ASSUME NEW p \in Connection, NEW b, LiveInv(p, b), NEW q,
         \A x \in Side : q[x] = NoLeg \/ (q[x] = p[x] /\ p[x].state # "closed")
  PROVE  LiveInv(q, b)
<1>1. /\ Other("local") = "remote" /\ Other("remote") = "local" /\ "local" \in Side /\ "remote" \in Side
      /\ \A s \in Side : (s = "local" \/ s = "remote") /\ Other(s) \in Side
  BY DEF Side, Other
<1>2. /\ CachedInv(NoLeg) /\ ~HasUnsent(NoLeg) /\ NoLeg.twr = 0 /\ ~Alive(NoLeg)
      /\ NoLeg.state = "absent"
  BY NoLegProgress
<1>3. \A x \in Side : CachedInv(q[x]) /\ Waited(q[x]) /\ q[x].state # "closed"
  BY <1>2 DEF LiveInv, Waited
<1>4. Connected(q) => \A x \in Side : q[x] = p[x]
  BY <1>2 DEF Connected
<1>5. \A x \in Side : Kept(q, x) /\ Forwarded(q, x)
  <2>1. Connected(q) => Connected(p)
    BY <1>4 DEF Connected
  <2> QED BY <1>1, <1>3, <1>4, <2>1 DEF LiveInv, Kept, Forwarded
<1>6. Connecting(q, b)
  BY <1>1, <1>2 DEF LiveInv, Connecting
<1>7. Replied(q)
  <2>1. Connected(q) => Connected(p)
    BY <1>4 DEF Connected
  <2> QED BY <1>1, <1>2, <1>4, <2>1 DEF LiveInv, Replied, Silent
<1> QED BY <1>3, <1>5, <1>6, <1>7 DEF LiveInv

\* What the end of a batch does to a connection.
LEMMA BatchEndLegs ==
  ASSUME TypeOK, BatchEnd, NEW c \in Conn, NEW x \in Side
  PROVE  \/ pair'[c][x] = NoLeg
         \/ pair'[c][x] = pair[c][x] /\ pair[c][x].state # "closed"
<1>1. PICK expired \in SUBSET {d \in Conn : TimedOut(pair[d])} :
        LET after == [d \in Conn |-> IF d \in expired
                                     THEN [pair[d] EXCEPT !["remote"] = CloseLeg(@)]
                                     ELSE pair[d]]
        IN pair' = [d \in Conn |-> FreeClosed(after[d])]
  BY DEF BatchEnd
<1> DEFINE p == pair[c]
           a == IF c \in expired THEN [p EXCEPT !["remote"] = CloseLeg(@)] ELSE p
<1>2. p \in Connection /\ p[x] \in Leg
  BY DEF TypeOK, Connection
<1>3. pair'[c] = FreeClosed(a)
  BY <1>1
<1>4. a[x] \in {p[x], CloseLeg(p[x])}
  BY <1>2 DEF Connection
<1> HIDE DEF a
<1>5. pair'[c][x] = IF a[x].state = "closed" THEN NoLeg ELSE a[x]
  BY <1>3 DEF FreeClosed
<1>6. CloseLeg(p[x]) = p[x] \/ CloseLeg(p[x]).state = "closed"
  BY <1>2 DEF CloseLeg, Leg
<1> QED BY <1>4, <1>5, <1>6

\* The end of a batch.
LEMMA BatchEndProgress ==
  ASSUME TypeOK, ProgressInv, BatchEnd
  PROVE  ProgressInv'
<1>1. ASSUME NEW c \in Conn PROVE LiveInv(pair'[c], batch'[c])
  <2>1. pair[c] \in Connection /\ LiveInv(pair[c], batch'[c])
    BY DEF TypeOK, ProgressInv, BatchEnd
  <2>2. \A x \in Side : pair'[c][x] = NoLeg
                          \/ (pair'[c][x] = pair[c][x] /\ pair[c][x].state # "closed")
    BY BatchEndLegs
  <2> QED BY <2>1, <2>2, FreeProgress
<1> QED BY <1>1 DEF ProgressInv

\* epoll_wait reports EPOLLOUT with whatever else tells that a target has answered.
LEMMA EpollWaitProgress ==
  ASSUME TypeOK, ProgressInv, EpollWait
  PROVE  ProgressInv'
<1>1. PICK writable, heard, late : batch' = Reported(writable, heard, late)
  BY DEF EpollWait
<1>2. pair' = pair
  BY DEF EpollWait
<1>3. ASSUME NEW c \in Conn PROVE Connecting(pair[c], batch'[c])
  <2> DEFINE p == pair[c]
             l == p["remote"]
             d == batch'[c]
  <2>1. Connecting(p, batch[c]) /\ l.trd \in Nat /\ l.got \in Nat
    BY DEF ProgressInv, LiveInv, TypeOK, Connection, Side, Leg
  <2>2. /\ d["remote"] = {e \in Ready(l, <<c, "remote">> \in writable) :
                            <<c, "remote">> \in heard /\ (e = "hup" => <<c, "remote">> \notin late)}
        /\ d["local"] \subseteq Ready(p["local"], <<c, "local">> \in writable)
    BY <1>1 DEF Reported, Side
  <2>3. ASSUME l.state = "unavailable", d["remote"] \cap {"in", "rdhup"} # {}
        PROVE  "out" \in d["remote"]
    <3>1. Alive(l) /\ "out" \in l.mask /\ <<c, "remote">> \in heard
      BY <2>1, <2>2, <2>3 DEF Connecting, Alive
    <3>2. l.fin \/ l.got > 0
      BY <2>1, <2>2, <2>3 DEF Ready, Unread
    <3>3. "out" \in Ready(l, <<c, "remote">> \in writable)
      BY <2>1, <2>3, <3>1, <3>2 DEF Ready, Event, Connecting
    <3> QED BY <2>2, <3>1, <3>3
  <2>4. ASSUME l.state = "unavailable", Alive(p["local"]), ~Socks PROVE d["local"] \cap {"in", "out"} = {}
    BY <2>1, <2>2, <2>4 DEF Ready, Connecting
  <2> QED BY <2>1, <2>3, <2>4 DEF Connecting
<1> QED BY <1>2, <1>3 DEF ProgressInv, LiveInv

\* The kernel and the peers change what a leg has received and whether it is connected.
LEMMA KernelProgress ==
  ASSUME TypeOK, ProgressInv, Kernel
  PROVE  ProgressInv'
<1> DEFINE Heard(l) == l.fin \/ l.got > 0 => l.up
           Same(l, k) ==
             /\ k.state = l.state /\ k.socks = l.socks /\ k.buf = l.buf /\ k.twr = l.twr
             /\ k.shut = l.shut /\ SameMask(l, k) /\ (Heard(l) => Heard(k))
<1>1. ASSUME NEW c \in Conn, NEW s \in Side, NEW l \in Leg, KernelStep(c, s, l), Same(pair[c][s], l)
      PROVE  ProgressInv'
  <2> DEFINE p == pair[c]
             q == [p EXCEPT ![s] = l]
             b == batch[c]
  <2>1. p \in Connection /\ LiveInv(p, b)
    BY DEF TypeOK, ProgressInv
  <2>2. \A x \in Side : Same(p[x], q[x])
    BY <1>1, <2>1 DEF Connection, SameMask
  <2>3. pair' = [pair EXCEPT ![c] = q] /\ batch' = batch
    BY <1>1 DEF KernelStep
  <2> HIDE DEF q
  <2>4. /\ Other("local") = "remote" /\ Other("remote") = "local"
        /\ "local" \in Side /\ "remote" \in Side /\ \A x \in Side : Other(x) \in Side
    BY DEF Side, Other
  <2>5. /\ \A x \in Side : /\ Alive(q[x]) <=> Alive(p[x])
                           /\ HasUnsent(q[x]) <=> HasUnsent(p[x])
                           /\ q[x].state = p[x].state /\ q[x].shut = p[x].shut
                           /\ q[x].mask = p[x].mask /\ q[x].cached = p[x].cached
        /\ Connected(q) <=> Connected(p)
    BY <2>2 DEF Alive, HasUnsent, SameMask, Connected
  <2>6. \A x \in Side : CachedInv(q[x]) /\ Waited(q[x])
    BY <2>1, <2>5 DEF LiveInv, CachedInv, Waited
  <2>7. \A x \in Side : Kept(q, x) /\ Forwarded(q, x)
    BY <2>1, <2>4, <2>5 DEF LiveInv, Kept, Forwarded
  <2>8. Connecting(q, b)
    <3>1. Connecting(p, b)
      BY <2>1 DEF LiveInv
    <3> QED BY <2>2, <2>4, <2>5, <3>1 DEF Connecting, SameMask
  <2>9. Replied(q)
    BY <2>1, <2>2, <2>4, <2>5 DEF LiveInv, Replied, Silent
  <2>10. LiveInv(q, batch'[c])
    BY <2>3, <2>6, <2>7, <2>8, <2>9 DEF LiveInv
  <2> QED BY <2>3, <2>10, OneLive
<1>2. \A c \in Conn, s \in Side : pair[c][s] \in Leg
  BY DEF TypeOK, Connection
<1>3. ASSUME NEW c \in Conn, NEW s \in Side, PeerSends(c, s)
      PROVE  ProgressInv'
  <2> DEFINE l == pair[c][s]
             k == [l EXCEPT !.got = l.got + 1]
  <2>1. k \in Leg /\ KernelStep(c, s, k) /\ l.up
    BY <1>2, <1>3, KernelLegType DEF PeerSends, Established
  <2>2. Same(l, k)
    BY <1>2, <2>1 DEF Leg, SameMask
  <2> QED BY <1>1, <2>1, <2>2
<1>4. ASSUME NEW c \in Conn, NEW s \in Side, PeerFinishes(c, s)
      PROVE  ProgressInv'
  <2> DEFINE l == pair[c][s]
             k == [l EXCEPT !.fin = TRUE]
  <2>1. k \in Leg /\ KernelStep(c, s, k) /\ l.up
    BY <1>2, <1>4, KernelLegType DEF PeerFinishes, Established
  <2>2. Same(l, k)
    BY <1>2, <2>1 DEF Leg, SameMask
  <2> QED BY <1>1, <2>1, <2>2
<1>5. ASSUME NEW c \in Conn, NEW s \in Side, PeerResets(c, s)
      PROVE  ProgressInv'
  <2> DEFINE l == pair[c][s]
             k(kept) == [l EXCEPT !.broken = TRUE, !.got = kept]
  <2>1. PICK kept \in {l.trd, l.got} : KernelStep(c, s, k(kept))
    BY <1>5 DEF PeerResets
  <2>2. l \in Leg /\ l.trd \in Nat /\ l.got \in Nat /\ l.up
    BY <1>2, <1>5 DEF Leg, PeerResets, Established
  <2>3. k(kept) \in Leg
    BY <2>2, KernelLegType
  <2>4. Same(l, k(kept))
    BY <2>2 DEF Leg, SameMask
  <2> HIDE DEF l, k, Same
  <2> QED BY <1>1, <2>1, <2>3, <2>4 DEF l
<1>6. ASSUME NEW c \in Conn, ConnectEnds(c)
      PROVE  ProgressInv'
  <2> DEFINE l == pair[c]["remote"]
             k(ok) == [l EXCEPT !.up = ok, !.broken = ~ok]
  <2>1. PICK ok \in BOOLEAN : KernelStep(c, "remote", k(ok))
    BY <1>6 DEF ConnectEnds
  <2>2. l \in Leg /\ ~l.up /\ "remote" \in Side
    BY <1>2, <1>6 DEF ConnectEnds, Side
  <2>3. k(ok) \in Leg
    BY <2>2, KernelLegType
  <2>4. Same(l, k(ok))
    BY <2>2 DEF Leg, SameMask
  <2> HIDE DEF l, k, Same
  <2> QED BY <1>1, <2>1, <2>2, <2>3, <2>4 DEF l
<1>7. ASSUME NEW i \in items, ResolverAnswers(i)
      PROVE  ProgressInv'
  BY <1>7 DEF ResolverAnswers, ProgressInv
<1> QED BY <1>3, <1>4, <1>5, <1>6, <1>7 DEF Kernel

-----------------------------------------------------------------------------
\* No connection exists at the start.
LEMMA ProgressInit == Init => ProgressInv
BY NewConnectionProgress DEF Init, ProgressInv

\* With Inv, the invariant is inductive.
LEMMA ProgressStep == TypeOK /\ Inv /\ ProgressInv /\ [Next]_vars => ProgressInv'
<1>1. CASE UNCHANGED vars
  BY <1>1 DEF vars, ProgressInv
<1> QED
  BY <1>1, KernelProgress, EpollWaitProgress, EventProgress, SocksProgress, AcceptProgress,
     ResolvedProgress, BatchEndProgress
  DEF Next, Loop

\* Hence it holds in every reachable state.
LEMMA Progress == Spec => []ProgressInv
BY TypeCorrect, Invariance, ProgressInit, ProgressStep, PTL DEF Spec

\* What a leg has to send is waited for with EPOLLOUT, and a leg left alone has something to
\* send: no handler of tpws_conn.c leaves data in a buffer, or a leg in memory, that no event
\* will ever touch again, for any number of connections and bytes, with or without SOCKS.
THEOREM NothingIsStuck == Spec => []NoLostWakeup
<1>1. ProgressInv => NoLostWakeup
  BY DEF ProgressInv, LiveInv, Waited, Kept, NoLostWakeup
<1> QED BY <1>1, Progress, PTL

\* When a peer has ended its stream and the proxy has sent all it read of it, the other peer
\* is told (shutdown), unless the leg of the first still has to send: no half-close is lost.
THEOREM HalfCloseIsPassedOn == Spec => []FinForwarded
<1>1. ProgressInv => FinForwarded
  BY DEF ProgressInv, LiveInv, Forwarded, FinForwarded
<1> QED BY <1>1, Progress, PTL

\* A SOCKS client gets the reply to its request before any byte of the target, and it is left
\* without one only while the target is being connected to.
THEOREM RepliedFirst == Spec => []ReplyBeforeRelay
<1>1. ProgressInv => ReplyBeforeRelay
  BY DEF ProgressInv, LiveInv, Replied, Silent, ReplyBeforeRelay
<1> QED BY <1>1, Progress, PTL
-----------------------------------------------------------------------------
(* The memory of connections: who points to whom, and how many there are.  *)

\* A local leg that waits for an answer is there, and exactly one resolve item points to it;
\* an item points only to such a leg.
Asker(l) == l.ri => l.state # "absent" /\ l.socks = "resolve"
OneItem(c) == pair[c]["local"].ri => \E i \in items : \A j \in items : j.ptr = c <=> j = i
PointsBack == \A i \in items : i.ptr # NoConn => pair[i.ptr]["local"].ri
RefInv ==
  /\ \A c \in Conn : Asker(pair[c]["local"]) /\ OneItem(c)
  /\ PointsBack

\* No leg comes to be or is freed, and none comes to life.
Ages(p, q) ==
  \A x \in Side : /\ (q[x].state = "absent" <=> p[x].state = "absent")
                  /\ (Alive(q[x]) => Alive(p[x]))

\* That is so of whatever settles.
LEMMA SettledAges ==
  ASSUME NEW p, NEW q, SettledPair(p, q)
  PROVE  Ages(p, q)
BY DEF SettledPair, Settled, StateKept, Ages, Alive

\* The events of the legs allocate and free nothing.
LEMMA EventAges ==
  ASSUME TypeOK, Inv, NEW c \in Conn, NEW s \in Side,
         EventStale(c, s) \/ EventHup(c, s) \/ EventConnectFailed(c, s)
           \/ EventRdhup(c, s) \/ EventInOut(c, s)
  PROVE  /\ Ages(pair[c], pair'[c]) /\ UNCHANGED <<items, legs>>
         /\ \A d \in Conn \ {c} : pair'[d] = pair[d]
<1> DEFINE p == pair[c]
           a == Attempt(c, s).p
<1>1. p \in Connection /\ ConnInv(p) /\ BatchInv(p, batch[c])
      /\ (\A x \in Side : x = s \/ x = Other(s)) /\ Other(s) \in Side
  BY OtherSide DEF TypeOK, Inv, Side, Other
<1>2. ASSUME NEW q, HandleOnly(c, s, q), Ages(p, q)
      PROVE  /\ Ages(pair[c], pair'[c]) /\ UNCHANGED <<items, legs>>
             /\ \A d \in Conn \ {c} : pair'[d] = pair[d]
  BY <1>2 DEF HandleOnly, Handle, TypeOK
<1>3. ASSUME Alive(p[s])
      PROVE  a \in Connection /\ ConnInv(a) /\ Alive(a[s]) /\ SettledPair(p, a)
  BY <1>1, <1>3, AttemptFacts, FollowsInv, FollowsSettled
<1> HIDE DEF a
<1>4. CASE EventStale(c, s)
  BY <1>2, <1>4 DEF EventStale, Ages
<1>5. CASE EventHup(c, s)
  BY <1>1, <1>2, <1>5, HandleHupKeepsInv, SettledAges DEF EventHup
<1>6. CASE EventConnectFailed(c, s)
  <2>1. a \in Connection /\ SettledPair(p, a)
    BY <1>3, <1>6 DEF EventConnectFailed
  <2>2. SettledPair(p, CloseBoth(a, s))
    BY <1>1, <2>1, CloseFollows, FollowsSettled, SettledTransitive
  <2>3. HandleOnly(c, s, CloseBoth(a, s))
    BY <1>6 DEF EventConnectFailed, a
  <2> QED BY <1>2, <2>2, <2>3, SettledAges
<1>7. CASE EventRdhup(c, s)
  <2> DEFINE q == HandleRdhup(a, s)
  <2>1. Alive(p[s]) /\ "rdhup" \in batch[c][s] /\ HandleOnly(c, s, q)
    BY <1>7 DEF EventRdhup, a
  <2>2. p[s].state # "rdhup" /\ p[s].fin
    BY <1>1, <2>1 DEF BatchInv
  <2>3. a[s].state # "rdhup" /\ a[s].fin
    BY <1>3, <2>1, <2>2 DEF SettledPair, Settled, StateKept
  <2>4. Settled(a[Other(s)], q[Other(s)]) /\ q[s].state # "absent"
    BY <1>3, <2>1, <2>3, HandleRdhupKeepsInv
  <2> HIDE DEF q
  <2>5. Ages(p, q)
    BY <1>1, <1>3, <2>1, <2>4 DEF Ages, SettledPair, Settled, StateKept, Alive
  <2> QED BY <1>2, <2>1, <2>5
<1>8. CASE EventInOut(c, s)
  <2> DEFINE in == "in" \in batch[c][s]
             h(n, r, m, lost) == HandleEpoll(a, s, in, n, r, m, lost)
  <2>1. Alive(p[s]) /\ InTcpMode(a, s)
    BY <1>8 DEF EventInOut, ReadyForIO, a
  <2>2. PICK n, r, m \in 0 .. MaxBytes, lost \in BOOLEAN :
          /\ r <= Unread(a[s]) /\ m <= r
          /\ lost => Split
          /\ HandleOnly(c, s, AfterHandleEpoll(h(n, r, m, lost), s))
    BY <1>8 DEF EventInOut, a
  <2>3. n \in Nat /\ r \in Nat /\ m \in Nat /\ in \in BOOLEAN
    BY BoundAssumption
  <2> DEFINE u == h(n, r, m, lost)
             q == AfterHandleEpoll(u, s)
  <2>4. u.p \in Connection /\ SettledPair(a, u.p)
    BY <1>3, <2>1, <2>2, <2>3, HandleEpollKeepsInv
  <2>5. HandleOnly(c, s, q)
    BY <2>2
  <2> HIDE DEF u, in
  <2>6. SettledPair(u.p, q)
    BY <2>4, AfterHandleEpollFollows, FollowsSettled
  <2>7. SettledPair(p, q)
    BY <1>3, <2>1, <2>4, <2>6, SettledTransitive
  <2> HIDE DEF q
  <2> QED BY <1>2, <2>5, <2>7, SettledAges
<1> QED BY <1>4, <1>5, <1>6, <1>7, <1>8

\* A message of a SOCKS client makes it ask the resolver, gives it a remote leg, or neither.
LEMMA SocksAges ==
  ASSUME TypeOK, Inv, ProgressInv, NEW c \in Conn, EventSocks(c)
  PROVE  LET p == pair[c]  q == pair'[c]
         IN /\ \A d \in Conn \ {c} : pair'[d] = pair[d]
            /\ p["local"].state # "absent" /\ q["local"].state # "absent" /\ Alive(p["local"])
            /\ \/ /\ items' = items \cup {[ptr |-> c, st |-> "queued"]}
                  /\ q["local"].ri /\ q["local"].socks = "resolve" /\ p["local"].socks # "resolve"
                  /\ Alive(q["local"])
               \/ items' = items /\ SameRef(p, q)
            /\ legs'["local"] = legs["local"]
            /\ \/ /\ (q["remote"].state = "absent" <=> p["remote"].state = "absent")
                  /\ legs'["remote"] = legs["remote"]
               \/ /\ p["remote"].state = "absent" /\ q["remote"].state # "absent"
                  /\ legs'["remote"] = legs["remote"] + 1
<1> DEFINE p == pair[c]
           b == batch[c]
<1>1. /\ p \in Connection /\ ConnInv(p) /\ LiveInv(p, b) /\ BatchInv(p, b)
      /\ "local" \in Side /\ "remote" \in Side
  BY DEF TypeOK, Inv, ProgressInv, Side
<1>2. Alive(p["local"]) /\ ~InTcpMode(p, "local") /\ (p["remote"].state = "absent" => b["remote"] = {})
  BY <1>1 DEF EventSocks, ReadyForIO, BatchInv
<1>3. PICK reply \in SocksReplies(p) :
        /\ Handle(c, "local", AfterHandleEpoll(HandleProxyMode(p, reply), "local"))
        /\ items' = items \cup {i \in ResolveItem :
                                  reply = "resolve" /\ i = [ptr |-> c, st |-> "queued"]}
        /\ legs' = [legs EXCEPT !["remote"] = @ + (IF reply = "connection" THEN 1 ELSE 0)]
  BY DEF EventSocks
<1> DEFINE h == HandleProxyMode(p, reply)
           q == AfterHandleEpoll(h, "local")
<1>4. pair'[c] = q /\ \A d \in Conn \ {c} : pair'[d] = pair[d]
  BY <1>3 DEF Handle, TypeOK
<1>5. /\ IF h.ok THEN Going(h.p, "local") /\ Connecting(h.p, b) ELSE Half(h.p, "local", b)
      /\ IF reply = "resolve"
         THEN h.p["local"].ri /\ h.p["local"].socks = "resolve" /\ p["local"].socks # "resolve"
         ELSE SameRef(p, h.p)
      /\ h.p["local"].state = p["local"].state
      /\ IF reply = "connection"
         THEN p["remote"].state = "absent" /\ h.p["remote"].state # "absent"
         ELSE h.p["remote"].state = p["remote"].state
  BY <1>1, <1>2, ProxyModeProgress
<1>6. h.p \in Connection
  BY <1>1, HandleProxyModeType
<1>7. reply = "resolve" => h.ok /\ p["local"].state # "rdhup"
  <2>1. SUFFICES ASSUME reply = "resolve" PROVE h.ok /\ p["local"].state # "rdhup"
    OBVIOUS
  <2>2. h.ok
    BY <2>1 DEF HandleProxyMode, Result
  <2>3. Negotiates(p)
    BY <1>2, <1>3, <2>1 DEF Negotiates, InTcpMode, SocksReplies
  <2> QED BY <1>1, <2>2, <2>3 DEF ConnInv, DataInv, Fresh
<1>8. reply = "resolve" => q = h.p
  BY <1>5, <1>7 DEF AfterHandleEpoll, ShutPartnerWhenDrained
<1> HIDE DEF h
<1>9. SameRef(h.p, q)
  <2>1. \A x \in Side : SameOwner(h.p[x], h.p[x])
    BY DEF SameOwner
  <2> QED BY <1>1, <1>5, <1>6, <2>1, AfterHandleEpollProgress
<1>10. Ages(h.p, q)
  BY <1>1, <1>6, AfterHandleEpollFollows, FollowsSettled, SettledAges
<1> HIDE DEF q
<1>11. /\ p["local"].state # "absent" /\ q["local"].state # "absent"
       /\ (q["remote"].state = "absent" <=> h.p["remote"].state = "absent")
  BY <1>1, <1>2, <1>5, <1>10 DEF Ages, Alive
<1>12. IF reply = "connection" THEN legs'["remote"] = legs["remote"] + 1 ELSE legs'["remote"] = legs["remote"]
  <2>1. legs["remote"] \in Int
    BY <1>1 DEF TypeOK
  <2> QED BY <1>1, <1>3, <2>1 DEF TypeOK
<1>13. legs'["local"] = legs["local"]
  BY <1>1, <1>3 DEF TypeOK
<1>14. \/ /\ (q["remote"].state = "absent" <=> p["remote"].state = "absent")
          /\ legs'["remote"] = legs["remote"]
       \/ /\ p["remote"].state = "absent" /\ q["remote"].state # "absent"
          /\ legs'["remote"] = legs["remote"] + 1
  BY <1>5, <1>11, <1>12
<1>15. CASE reply = "resolve"
  <2>1. items' = items \cup {[ptr |-> c, st |-> "queued"]}
    BY <1>3, <1>15 DEF ResolveItem
  <2>2. q["local"].ri /\ q["local"].socks = "resolve" /\ p["local"].socks # "resolve" /\ Alive(q["local"])
    BY <1>2, <1>5, <1>8, <1>15 DEF Alive
  <2> QED BY <1>2, <1>4, <1>11, <1>13, <1>14, <2>1, <2>2
<1>16. CASE reply # "resolve"
  <2>1. items' = items
    BY <1>3, <1>16
  <2>2. SameRef(p, q)
    BY <1>5, <1>9, <1>16 DEF SameRef
  <2> QED BY <1>2, <1>4, <1>11, <1>13, <1>14, <2>1, <2>2
<1> QED BY <1>15, <1>16

\* Steps that create and take no answer.
LEMMA RefKept ==
  ASSUME TypeOK, RefInv, items' = items,
         \A d \in Conn : /\ pair'[d]["local"].ri = pair[d]["local"].ri
                         /\ pair[d]["local"].ri => Asker(pair'[d]["local"])
  PROVE  RefInv'
<1>1. \A c \in Conn : Asker(pair'[c]["local"])
  BY DEF Asker
<1>2. \A c \in Conn : OneItem(c)'
  BY DEF RefInv, OneItem
<1>3. PointsBack'
  BY DEF RefInv, PointsBack, TypeOK, ResolveItem
<1> QED BY <1>1, <1>2, <1>3 DEF RefInv

\* The kernel and the peers.
LEMMA KernelRef ==
  ASSUME TypeOK, RefInv, Kernel
  PROVE  RefInv'
<1> DEFINE Same(l, k) == k.ri = l.ri /\ k.state = l.state /\ k.socks = l.socks
<1>1. ASSUME NEW c \in Conn, NEW s \in Side, NEW l, KernelStep(c, s, l), Same(pair[c][s], l)
      PROVE  RefInv'
  <2>1. items' = items /\ pair' = [pair EXCEPT ![c][s] = l] /\ pair[c] \in Connection /\ "local" \in Side
    BY <1>1 DEF KernelStep, TypeOK, Side
  <2>2. \A d \in Conn : Same(pair[d]["local"], pair'[d]["local"])
    BY <1>1, <2>1 DEF TypeOK, Connection
  <2> QED BY <2>1, <2>2, RefKept DEF RefInv, Asker
<1>2. \A c \in Conn, s \in Side : pair[c][s] \in Leg
  BY DEF TypeOK, Connection
<1>3. ASSUME NEW c \in Conn, NEW s \in Side, PeerSends(c, s) \/ PeerFinishes(c, s) \/ PeerResets(c, s)
      PROVE  RefInv'
  <2> DEFINE l == pair[c][s]
  <2>1. CASE PeerSends(c, s)
    <3>1. Same(l, [l EXCEPT !.got = @ + 1])
      BY <1>2 DEF Leg
    <3> QED BY <1>1, <2>1, <3>1 DEF PeerSends
  <2>2. CASE PeerFinishes(c, s)
    <3>1. Same(l, [l EXCEPT !.fin = TRUE])
      BY <1>2 DEF Leg
    <3> QED BY <1>1, <2>2, <3>1 DEF PeerFinishes
  <2>3. CASE PeerResets(c, s)
    <3>1. PICK kept \in {l.trd, l.got} : KernelStep(c, s, [l EXCEPT !.broken = TRUE, !.got = kept])
      BY <2>3 DEF PeerResets
    <3>2. Same(l, [l EXCEPT !.broken = TRUE, !.got = kept])
      BY <1>2 DEF Leg
    <3> QED BY <1>1, <3>1, <3>2
  <2> QED BY <1>3, <2>1, <2>2, <2>3
<1>4. ASSUME NEW c \in Conn, ConnectEnds(c)
      PROVE  RefInv'
  <2> DEFINE l == pair[c]["remote"]
  <2>1. PICK ok \in BOOLEAN : KernelStep(c, "remote", [l EXCEPT !.up = ok, !.broken = ~ok])
    BY <1>4 DEF ConnectEnds
  <2>2. Same(l, [l EXCEPT !.up = ok, !.broken = ~ok]) /\ "remote" \in Side
    BY <1>2 DEF Leg, Side
  <2> QED BY <1>1, <2>1, <2>2
<1>5. ASSUME NEW i \in items, ResolverAnswers(i)
      PROVE  RefInv'
  <2>1. PICK st \in {"ok", "failed"} : items' = (items \ {i}) \cup {[i EXCEPT !.st = st]}
    BY <1>5 DEF ResolverAnswers
  <2> DEFINE k == [i EXCEPT !.st = st]
  <2>2. k.ptr = i.ptr /\ items' = (items \ {i}) \cup {k} /\ pair' = pair
    BY <1>5, <2>1 DEF TypeOK, ResolveItem, ResolverAnswers
  <2> HIDE DEF k
  <2>3. ASSUME NEW c \in Conn, pair[c]["local"].ri
        PROVE  \E x \in items' : \A j \in items' : j.ptr = c <=> j = x
    <3>1. PICK x \in items : \A j \in items : j.ptr = c <=> j = x
      BY <2>3 DEF RefInv, OneItem
    <3>2. CASE x = i
      BY <2>2, <3>1, <3>2
    <3>3. CASE x # i
      BY <2>2, <3>1, <3>3
    <3> QED BY <3>2, <3>3
  <2>4. PointsBack'
    BY <2>2 DEF RefInv, PointsBack
  <2> QED BY <2>2, <2>3, <2>4 DEF RefInv, OneItem
<1> QED BY <1>3, <1>4, <1>5 DEF Kernel

\* The events of the legs, and of the SOCKS clients.
LEMMA EventRef ==
  ASSUME TypeOK, Inv, ProgressInv, RefInv, NEW c \in Conn, NEW s \in Side,
         EventStale(c, s) \/ EventHup(c, s) \/ EventConnectFailed(c, s)
           \/ EventRdhup(c, s) \/ EventInOut(c, s)
  PROVE  RefInv'
<1>1. SameRef(pair[c], pair'[c])
  BY EventProgress
<1>2. Ages(pair[c], pair'[c]) /\ items' = items /\ \A d \in Conn \ {c} : pair'[d] = pair[d]
  BY EventAges
<1>3. \A d \in Conn : /\ pair'[d]["local"].ri = pair[d]["local"].ri
                      /\ pair[d]["local"].ri => Asker(pair'[d]["local"])
  BY <1>1, <1>2 DEF SameRef, Ages, Side, RefInv, Asker
<1> QED BY <1>2, <1>3, RefKept

\* A client asks for a name, or not.
LEMMA SocksRef ==
  ASSUME TypeOK, Inv, ProgressInv, RefInv, NEW c \in Conn, EventSocks(c)
  PROVE  RefInv'
<1> DEFINE p == pair[c]
           q == pair'[c]
           i == [ptr |-> c, st |-> "queued"]
<1>1. /\ \A d \in Conn \ {c} : pair'[d] = pair[d]
      /\ p["local"].state # "absent" /\ q["local"].state # "absent"
      /\ \/ /\ items' = items \cup {i}
            /\ q["local"].ri /\ q["local"].socks = "resolve" /\ p["local"].socks # "resolve"
         \/ items' = items /\ SameRef(p, q)
  BY SocksAges
<1>2. CASE items' = items /\ SameRef(p, q)
  <2>1. \A d \in Conn : /\ pair'[d]["local"].ri = pair[d]["local"].ri
                        /\ pair[d]["local"].ri => Asker(pair'[d]["local"])
    BY <1>1, <1>2 DEF SameRef, RefInv, Asker
  <2> QED BY <1>2, <2>1, RefKept
<1>3. CASE /\ items' = items \cup {i}
           /\ q["local"].ri /\ q["local"].socks = "resolve" /\ p["local"].socks # "resolve"
  <2>1. ~p["local"].ri
    BY <1>3 DEF RefInv, Asker
  <2>2. \A j \in items : j.ptr # c
    BY <2>1, ConnAssumption DEF RefInv, PointsBack
  <2>3. \A d \in Conn : Asker(pair'[d]["local"])
    BY <1>1, <1>3 DEF RefInv, Asker
  <2>4. i.ptr = c
    OBVIOUS
  <2> HIDE DEF i
  <2>5. ASSUME NEW d \in Conn, pair'[d]["local"].ri
        PROVE  \E x \in items' : \A j \in items' : j.ptr = d <=> j = x
    <3>1. CASE d = c
      BY <1>3, <2>2, <2>4, <3>1
    <3>2. CASE d # c
      <4>1. PICK x \in items : \A j \in items : j.ptr = d <=> j = x
        BY <1>1, <2>5, <3>2 DEF RefInv, OneItem
      <4> QED BY <1>3, <2>4, <3>2, <4>1
    <3> QED BY <3>1, <3>2
  <2>6. PointsBack'
    <3>1. ASSUME NEW j \in items', j.ptr # NoConn PROVE pair'[j.ptr]["local"].ri
      <4>1. CASE j \in items
        <5>1. j.ptr \in Conn /\ pair[j.ptr]["local"].ri
          BY <3>1, <4>1 DEF TypeOK, ResolveItem, RefInv, PointsBack
        <5> QED BY <1>1, <1>3, <5>1
      <4>2. CASE j = i
        BY <1>3, <2>4, <4>2
      <4> QED BY <1>3, <3>1, <4>1, <4>2
    <3> QED BY <3>1 DEF PointsBack
  <2> QED BY <2>3, <2>5, <2>6 DEF RefInv, OneItem
<1> QED BY <1>1, <1>2, <1>3

\* A new client has asked for nothing.
LEMMA NewConnectionLegs ==
  LET q == NewConnection
  IN /\ ~q["local"].ri /\ Alive(q["local"])
     /\ q["remote"].state = "absent" <=> Socks
<1> DEFINE l == [NoLeg EXCEPT !.state = "available", !.up = TRUE,
                              !.mask = IF Socks THEN {"in", "rdhup"} ELSE {"rdhup"}]
           new == [NoLeg EXCEPT !.state = "unavailable", !.mask = {"out"}]
           a == [NoConnection EXCEPT !["local"] = l]
<1>1. a["local"] = l /\ a["remote"] = NoLeg /\ a \in [Side -> {l, NoLeg}]
  BY DEF NoConnection, Side
<1>2. l.ri = NoLeg.ri /\ l.state = "available"
  BY NoLegType DEF Leg
<1>3. NoLeg.ri = FALSE /\ NoLeg.state = "absent"
  BY DEF NoLeg
<1>4. new.state = "unavailable"
  BY NoLegProgress
<1>5. NewConnection = IF Socks THEN a ELSE NewRemote(a)
  BY DEF NewConnection
<1> HIDE DEF l, a
<1>6. NewRemote(a)["local"] = a["local"] /\ NewRemote(a)["remote"] = new
  BY <1>1 DEF NewRemote, Side
<1> HIDE DEF new
<1> QED BY <1>1, <1>2, <1>3, <1>4, <1>5, <1>6 DEF Alive

\* The listening socket.
LEMMA AcceptRef ==
  ASSUME TypeOK, RefInv, EventAccept
  PROVE  RefInv'
<1>1. items' = items
  BY DEF EventAccept
<1>2. CASE UNCHANGED pair
  BY <1>1, <1>2, RefKept DEF RefInv
<1>3. CASE \E c \in Conn : /\ \A s \in Side : pair[c][s].state = "absent"
                           /\ pair' = [pair EXCEPT ![c] = NewConnection]
  <2>1. PICK c \in Conn : /\ \A s \in Side : pair[c][s].state = "absent"
                          /\ pair' = [pair EXCEPT ![c] = NewConnection]
    BY <1>3
  <2>2. ~pair[c]["local"].ri /\ pair[c]["local"].ri \in BOOLEAN
    BY <2>1 DEF RefInv, Asker, Side, TypeOK, Connection, Leg
  <2>3. pair'[c] = NewConnection /\ \A d \in Conn \ {c} : pair'[d] = pair[d]
    BY <2>1 DEF TypeOK
  <2>4. ~pair'[c]["local"].ri /\ pair'[c]["local"].ri \in BOOLEAN
    BY <2>3, NewConnectionLegs, NewConnectionType DEF Connection, Leg, Side
  <2>5. \A d \in Conn : pair'[d]["local"].ri = pair[d]["local"].ri
    BY <2>2, <2>3, <2>4
  <2>6. \A d \in Conn : pair[d]["local"].ri => Asker(pair'[d]["local"])
    BY <2>2, <2>3 DEF RefInv
  <2> QED BY <1>1, <2>5, <2>6, RefKept
<1> QED BY <1>2, <1>3 DEF EventAccept

\* The answer that is taken from the pipe, and whom it belongs to.
LEMMA ResolvedEffect ==
  ASSUME TypeOK, Inv, ProgressInv, EventResolved
  PROVE  \E i \in items :
           /\ i.st # "queued" /\ items' = items \ {i}
           /\ \/ i.ptr = NoConn /\ UNCHANGED <<pair, legs>>
              \/ /\ i.ptr \in Conn
                 /\ \A d \in Conn \ {i.ptr} : pair'[d] = pair[d]
                 /\ ~pair'[i.ptr]["local"].ri
                 /\ (pair'[i.ptr]["local"].state = "absent" <=> pair[i.ptr]["local"].state = "absent")
                 /\ (Alive(pair'[i.ptr]["local"]) => Alive(pair[i.ptr]["local"]))
                 /\ legs'["local"] = legs["local"]
                 /\ LET p == pair[i.ptr]  q == pair'[i.ptr]
                    IN \/ /\ (q["remote"].state = "absent" <=> p["remote"].state = "absent")
                          /\ legs'["remote"] = legs["remote"]
                       \/ /\ p["remote"].state = "absent" /\ q["remote"].state # "absent"
                          /\ legs'["remote"] = legs["remote"] + 1
<1>1. PICK i \in items :
        /\ i.st # "queued" /\ items' = items \ {i}
        /\ IF i.ptr = NoConn THEN UNCHANGED <<pair, legs>>
           ELSE \E connect \in BOOLEAN :
                  LET p == ResolveComplete(pair[i.ptr], i.st, connect)
                  IN /\ pair' = [pair EXCEPT ![i.ptr] = [p EXCEPT !["local"].ri = FALSE]]
                     /\ legs' = [legs EXCEPT !["remote"] =
                                   @ + (IF p["remote"].state # pair[i.ptr]["remote"].state
                                        THEN 1 ELSE 0)]
  BY DEF EventResolved
<1>2. CASE i.ptr = NoConn
  BY <1>1, <1>2
<1>3. CASE i.ptr # NoConn
  <2> DEFINE c == i.ptr
             r(connect) == ResolveComplete(pair[c], i.st, connect)
             q(connect) == [r(connect) EXCEPT !["local"].ri = FALSE]
  <2>1. c \in Conn
    BY <1>3 DEF TypeOK, ResolveItem
  <2>2. PICK connect \in BOOLEAN :
          /\ pair' = [pair EXCEPT ![c] = q(connect)]
          /\ legs' = [legs EXCEPT !["remote"] =
                        @ + (IF r(connect)["remote"].state # pair[c]["remote"].state THEN 1 ELSE 0)]
    BY <1>1, <1>3
  <2>3. /\ pair[c] \in Connection /\ ConnInv(pair[c]) /\ BatchInv(pair[c], batch[c])
        /\ LiveInv(pair[c], batch[c]) /\ "remote" \in Side /\ "local" \in Side
    BY <2>1 DEF TypeOK, Inv, ProgressInv, Side
  <2>4. pair[c]["remote"].state = "absent" => batch[c]["remote"] = {}
    BY <2>3 DEF BatchInv
  <2> HIDE DEF c
  <2>5. /\ ~q(connect)["local"].ri
        /\ q(connect)["local"].state = "absent" <=> pair[c]["local"].state = "absent"
        /\ Alive(q(connect)["local"]) => Alive(pair[c]["local"])
        /\ r(connect)["remote"].state = q(connect)["remote"].state
        /\ \/ r(connect)["remote"].state = pair[c]["remote"].state
           \/ pair[c]["remote"].state = "absent" /\ r(connect)["remote"].state # "absent"
    <3> DEFINE p == pair[c]
               b == batch[c]
    <3>1. /\ p \in Connection /\ ConnInv(p) /\ LiveInv(p, b)
          /\ p["remote"].state = "absent" => b["remote"] = {}
      BY <2>3, <2>4
    <3> HIDE DEF p, b
    <3>2. LET x == ResolveComplete(p, i.st, connect)
              y == [x EXCEPT !["local"].ri = FALSE]
          IN /\ ~y["local"].ri
             /\ y["local"].state = "absent" <=> p["local"].state = "absent"
             /\ Alive(y["local"]) => Alive(p["local"])
             /\ x["remote"].state = y["remote"].state
             /\ \/ x["remote"].state = p["remote"].state
                \/ p["remote"].state = "absent" /\ x["remote"].state # "absent"
      BY <3>1, ResolveProgress
    <3> QED
      BY <3>2 DEF p
  <2> HIDE DEF r, q
  <2>6. pair'[c] = q(connect) /\ \A d \in Conn \ {c} : pair'[d] = pair[d]
    BY <2>1, <2>2 DEF TypeOK
  <2>7. /\ legs'["local"] = legs["local"]
        /\ legs'["remote"] = legs["remote"] +
             (IF r(connect)["remote"].state # pair[c]["remote"].state THEN 1 ELSE 0)
        /\ legs["remote"] \in Int
    BY <2>2, <2>3 DEF TypeOK
  <2>8. \/ /\ (pair'[c]["remote"].state = "absent" <=> pair[c]["remote"].state = "absent")
           /\ legs'["remote"] = legs["remote"]
        \/ /\ pair[c]["remote"].state = "absent" /\ pair'[c]["remote"].state # "absent"
           /\ legs'["remote"] = legs["remote"] + 1
    BY <2>5, <2>6, <2>7
  <2> QED BY <1>1, <2>1, <2>5, <2>6, <2>7, <2>8 DEF c
<1> QED BY <1>2, <1>3

\* The resolver pipe.
LEMMA ResolvedRef ==
  ASSUME TypeOK, Inv, ProgressInv, RefInv, EventResolved
  PROVE  RefInv'
<1>1. PICK i \in items :
        /\ items' = items \ {i}
        /\ \/ i.ptr = NoConn /\ UNCHANGED <<pair, legs>>
           \/ /\ i.ptr \in Conn
              /\ \A d \in Conn \ {i.ptr} : pair'[d] = pair[d]
              /\ ~pair'[i.ptr]["local"].ri
  BY ResolvedEffect
<1>2. ASSUME NEW c \in Conn
      PROVE  \/ c # i.ptr /\ pair'[c] = pair[c]
             \/ ~pair'[c]["local"].ri
  BY <1>1, ConnAssumption
<1>3. \A c \in Conn : Asker(pair'[c]["local"])
  BY <1>2 DEF RefInv, Asker
<1>4. ASSUME NEW c \in Conn, pair'[c]["local"].ri
      PROVE  \E x \in items' : \A j \in items' : j.ptr = c <=> j = x
  <2>1. c # i.ptr /\ pair'[c] = pair[c]
    BY <1>2, <1>4
  <2>2. PICK x \in items : \A j \in items : j.ptr = c <=> j = x
    BY <1>4, <2>1 DEF RefInv, OneItem
  <2> QED BY <1>1, <2>1, <2>2
<1>5. ASSUME NEW j \in items', j.ptr # NoConn PROVE pair'[j.ptr]["local"].ri
  <2>1. j \in items /\ j # i /\ j.ptr \in Conn /\ pair[j.ptr]["local"].ri
    BY <1>1, <1>5 DEF TypeOK, ResolveItem, RefInv, PointsBack
  <2>2. j.ptr # i.ptr
    BY <2>1 DEF RefInv, OneItem
  <2> QED BY <1>1, <2>1, <2>2
<1> QED BY <1>3, <1>4, <1>5 DEF RefInv, OneItem, PointsBack

\* Freeing a leg detaches the item that points to it.
LEMMA BatchEndRef ==
  ASSUME TypeOK, RefInv, BatchEnd
  PROVE  RefInv'
<1>1. "local" \in Side /\ items' = {Detach(i) : i \in items}
  BY DEF Side, BatchEnd
<1>2. \A c \in Conn : \/ pair'[c]["local"] = NoLeg
                      \/ pair'[c]["local"] = pair[c]["local"]
  BY <1>1, BatchEndLegs
<1>3. NoLeg.ri = FALSE /\ NoLeg.state = "absent"
  BY DEF NoLeg
<1>4. \A i \in items : i \in ResolveItem
  BY DEF TypeOK
<1>5. ASSUME NEW i \in items
      PROVE  \/ Detach(i) = i /\ (i.ptr \in Conn => pair'[i.ptr]["local"].state # "absent")
             \/ Detach(i).ptr = NoConn /\ i.ptr \in Conn /\ pair'[i.ptr]["local"].state = "absent"
  BY <1>4 DEF Detach, ResolveItem
<1>6. \A c \in Conn : Asker(pair'[c]["local"])
  BY <1>2, <1>3 DEF RefInv, Asker
<1>7. ASSUME NEW c \in Conn, pair'[c]["local"].ri
      PROVE  \E x \in items' : \A j \in items' : j.ptr = c <=> j = x
  <2>1. pair'[c]["local"] = pair[c]["local"] /\ pair'[c]["local"].state # "absent"
    BY <1>2, <1>3, <1>6, <1>7 DEF Asker
  <2>2. PICK x \in items : \A j \in items : j.ptr = c <=> j = x
    BY <1>7, <2>1 DEF RefInv, OneItem
  <2>3. Detach(x) = x
    BY <1>5, <2>1, <2>2
  <2>4. \A j \in items : Detach(j).ptr = c <=> Detach(j) = x
    BY <1>5, <2>1, <2>2, <2>3, ConnAssumption
  <2> QED BY <1>1, <2>2, <2>3, <2>4
<1>8. ASSUME NEW k \in items', k.ptr # NoConn PROVE pair'[k.ptr]["local"].ri
  <2>1. PICK i \in items : k = Detach(i)
    BY <1>1
  <2>2. k = i /\ i.ptr \in Conn /\ pair'[i.ptr]["local"].state # "absent" /\ pair[i.ptr]["local"].ri
    BY <1>4, <1>5, <1>8, <2>1 DEF ResolveItem, RefInv, PointsBack
  <2> QED BY <1>2, <1>3, <2>2
<1> QED BY <1>6, <1>7, <1>8 DEF RefInv, OneItem, PointsBack

\* No item exists at the start.
LEMMA RefInit == Init => RefInv
<1>1. NoLeg.ri = FALSE
  BY DEF NoLeg
<1> QED BY <1>1 DEF Init, RefInv, Asker, OneItem, PointsBack, NoConnection, Side

\* With the invariants above, RefInv is inductive.
LEMMA RefStep == TypeOK /\ Inv /\ ProgressInv /\ RefInv /\ [Next]_vars => RefInv'
<1>1. CASE UNCHANGED vars
  BY <1>1, RefKept DEF vars, RefInv
<1>2. CASE EpollWait
  BY <1>2, RefKept DEF EpollWait, RefInv
<1> QED
  BY <1>1, <1>2, KernelRef, EventRef, SocksRef, AcceptRef, ResolvedRef, BatchEndRef
  DEF Next, Loop

\* Hence it holds in every reachable state.
LEMMA References == Spec => []RefInv
BY TypeCorrect, Invariance, Progress, RefInit, RefStep, PTL DEF Spec

\* The connections that have a leg on side s.
Allocated(ps, s) == {c \in Conn : ps[c][s].state # "absent"}
CountInv ==
  /\ \A s \in Side : legs[s] = Cardinality(Allocated(pair, s))
  /\ legs["local"] <= MaxConn

\* They are finitely many.
LEMMA AllocatedFinite ==
  ASSUME NEW ps, NEW s
  PROVE  IsFiniteSet(Allocated(ps, s)) /\ Cardinality(Allocated(ps, s)) \in Nat
<1>1. Allocated(ps, s) \in SUBSET Conn
  BY DEF Allocated
<1>2. IsFiniteSet(Allocated(ps, s))
  BY <1>1, ConnAssumption, FS_Subset
<1> QED BY <1>2, FS_CardinalityType

\* A leg that comes to be is counted, and when none does the count stays.
LEMMA OneAllocated ==
  ASSUME TypeOK, CountInv, NEW c \in Conn, NEW s \in Side,
         \A d \in Conn \ {c} : pair'[d] = pair[d],
         \/ /\ (pair'[c][s].state = "absent" <=> pair[c][s].state = "absent")
            /\ legs'[s] = legs[s]
         \/ /\ pair[c][s].state = "absent" /\ pair'[c][s].state # "absent"
            /\ legs'[s] = legs[s] + 1
  PROVE  legs'[s] = Cardinality(Allocated(pair, s)')
<1>1. IsFiniteSet(Allocated(pair, s))
  BY AllocatedFinite
<1>2. legs[s] = Cardinality(Allocated(pair, s))
  BY DEF CountInv
<1>3. CASE (pair'[c][s].state = "absent" <=> pair[c][s].state = "absent") /\ legs'[s] = legs[s]
  <2>1. Allocated(pair, s)' = Allocated(pair, s)
    BY <1>3 DEF Allocated
  <2> QED BY <1>2, <1>3, <2>1
<1>4. CASE /\ pair[c][s].state = "absent" /\ pair'[c][s].state # "absent"
           /\ legs'[s] = legs[s] + 1
  <2>1. Allocated(pair, s)' = Allocated(pair, s) \cup {c} /\ c \notin Allocated(pair, s)
    BY <1>4 DEF Allocated
  <2> QED BY <1>1, <1>2, <1>4, <2>1, FS_AddElement
<1> QED BY <1>3, <1>4

\* Steps that leave the legs where they are.
LEMMA SameAllocated ==
  ASSUME TypeOK, CountInv, legs' = legs,
         \A d \in Conn, s \in Side : pair'[d][s].state = "absent" <=> pair[d][s].state = "absent"
  PROVE  CountInv'
<1>1. \A s \in Side : Allocated(pair, s)' = Allocated(pair, s)
  BY DEF Allocated
<1> QED BY <1>1 DEF CountInv

\* The kernel and the peers allocate nothing.
LEMMA KernelCount ==
  ASSUME TypeOK, CountInv, Kernel
  PROVE  CountInv'
<1>1. ASSUME NEW c \in Conn, NEW s \in Side, NEW l, KernelStep(c, s, l), l.state = pair[c][s].state
      PROVE  CountInv'
  <2>1. legs' = legs /\ pair' = [pair EXCEPT ![c][s] = l] /\ pair[c] \in Connection
    BY <1>1 DEF KernelStep, TypeOK
  <2>2. \A d \in Conn, x \in Side : pair'[d][x].state = pair[d][x].state
    BY <1>1, <2>1 DEF TypeOK, Connection
  <2> QED BY <2>1, <2>2, SameAllocated
<1>2. \A c \in Conn, s \in Side : pair[c][s] \in Leg
  BY DEF TypeOK, Connection
<1>3. ASSUME NEW c \in Conn, NEW s \in Side, PeerSends(c, s) \/ PeerFinishes(c, s) \/ PeerResets(c, s)
      PROVE  CountInv'
  <2> DEFINE l == pair[c][s]
  <2>1. CASE PeerSends(c, s)
    <3>1. [l EXCEPT !.got = @ + 1].state = l.state
      BY <1>2 DEF Leg
    <3> QED BY <1>1, <2>1, <3>1 DEF PeerSends
  <2>2. CASE PeerFinishes(c, s)
    <3>1. [l EXCEPT !.fin = TRUE].state = l.state
      BY <1>2 DEF Leg
    <3> QED BY <1>1, <2>2, <3>1 DEF PeerFinishes
  <2>3. CASE PeerResets(c, s)
    <3>1. PICK kept \in {l.trd, l.got} : KernelStep(c, s, [l EXCEPT !.broken = TRUE, !.got = kept])
      BY <2>3 DEF PeerResets
    <3>2. [l EXCEPT !.broken = TRUE, !.got = kept].state = l.state
      BY <1>2 DEF Leg
    <3> QED BY <1>1, <3>1, <3>2
  <2> QED BY <1>3, <2>1, <2>2, <2>3
<1>4. ASSUME NEW c \in Conn, ConnectEnds(c)
      PROVE  CountInv'
  <2> DEFINE l == pair[c]["remote"]
  <2>1. PICK ok \in BOOLEAN : KernelStep(c, "remote", [l EXCEPT !.up = ok, !.broken = ~ok])
    BY <1>4 DEF ConnectEnds
  <2>2. [l EXCEPT !.up = ok, !.broken = ~ok].state = l.state /\ "remote" \in Side
    BY <1>2 DEF Leg, Side
  <2> QED BY <1>1, <2>1, <2>2
<1>5. ASSUME NEW i \in items, ResolverAnswers(i)
      PROVE  CountInv'
  BY <1>5, SameAllocated DEF ResolverAnswers
<1> QED BY <1>3, <1>4, <1>5 DEF Kernel

\* Events that allocate at most a remote leg.
LEMMA RemoteCount ==
  ASSUME TypeOK, CountInv, NEW c \in Conn,
         \A d \in Conn \ {c} : pair'[d] = pair[d],
         pair'[c]["local"].state = "absent" <=> pair[c]["local"].state = "absent",
         legs'["local"] = legs["local"],
         \/ /\ (pair'[c]["remote"].state = "absent" <=> pair[c]["remote"].state = "absent")
            /\ legs'["remote"] = legs["remote"]
         \/ /\ pair[c]["remote"].state = "absent" /\ pair'[c]["remote"].state # "absent"
            /\ legs'["remote"] = legs["remote"] + 1
  PROVE  CountInv'
<1>1. legs'["remote"] = Cardinality(Allocated(pair, "remote")')
  BY OneAllocated DEF Side
<1>2. legs'["local"] = Cardinality(Allocated(pair, "local")')
  BY OneAllocated DEF Side
<1> QED BY <1>1, <1>2 DEF CountInv, Side

\* A client that is accepted is counted, unless there are too many.
LEMMA AcceptCount ==
  ASSUME TypeOK, CountInv, EventAccept
  PROVE  CountInv'
<1>1. CASE UNCHANGED <<pair, legs>>
  BY <1>1, SameAllocated
<1>2. CASE /\ AcceptsMore
           /\ \E c \in Conn :
                /\ \A s \in Side : pair[c][s].state = "absent"
                /\ pair' = [pair EXCEPT ![c] = NewConnection]
           /\ legs' = [legs EXCEPT !["local"] = @ + 1,
                                   !["remote"] = @ + (IF Socks THEN 0 ELSE 1)]
  <2>1. PICK c \in Conn : /\ \A s \in Side : pair[c][s].state = "absent"
                          /\ pair' = [pair EXCEPT ![c] = NewConnection]
    BY <1>2
  <2>2. /\ pair'[c] = NewConnection /\ \A d \in Conn \ {c} : pair'[d] = pair[d]
        /\ legs["local"] \in Int /\ legs["remote"] \in Int
        /\ "local" \in Side /\ "remote" \in Side /\ \A s \in Side : s = "local" \/ s = "remote"
    BY <2>1 DEF TypeOK, Side
  <2>3. legs'["local"] = legs["local"] + 1 /\ legs'["remote"] = legs["remote"] + (IF Socks THEN 0 ELSE 1)
    BY <1>2, <2>2 DEF TypeOK
  <2>4. pair'[c]["local"].state # "absent" /\ (pair'[c]["remote"].state = "absent" <=> Socks)
    BY <2>2, NewConnectionLegs DEF Alive
  <2>5. legs'["local"] = Cardinality(Allocated(pair, "local")')
    BY <2>1, <2>2, <2>3, <2>4, OneAllocated
  <2>6. legs'["remote"] = Cardinality(Allocated(pair, "remote")')
    <3>1. pair[c]["remote"].state = "absent"
      BY <2>1, <2>2
    <3>2. CASE Socks
      <4>1. legs'["remote"] = legs["remote"]
        BY <2>2, <2>3, <3>2
      <4> QED BY <2>2, <2>4, <3>1, <3>2, <4>1, OneAllocated
    <3>3. CASE ~Socks
      BY <2>2, <2>3, <2>4, <3>1, <3>3, OneAllocated
    <3> QED BY <3>2, <3>3
  <2>7. legs'["local"] <= MaxConn
    BY <1>2, <2>2, <2>3, BoundAssumption DEF AcceptsMore
  <2> QED BY <2>2, <2>5, <2>6, <2>7 DEF CountInv
<1> QED BY <1>1, <1>2 DEF EventAccept

\* The legs that are freed are taken off the count.
LEMMA BatchEndCount ==
  ASSUME TypeOK, CountInv, BatchEnd
  PROVE  CountInv'
<1>1. PICK expired \in SUBSET {c \in Conn : TimedOut(pair[c])} :
        LET after == [c \in Conn |-> IF c \in expired
                                     THEN [pair[c] EXCEPT !["remote"] = CloseLeg(@)]
                                     ELSE pair[c]]
        IN /\ pair' = [c \in Conn |-> FreeClosed(after[c])]
           /\ legs' = [s \in Side |-> legs[s] - ClosedLegs(after, s)]
  BY DEF BatchEnd
<1> DEFINE after == [c \in Conn |-> IF c \in expired
                                    THEN [pair[c] EXCEPT !["remote"] = CloseLeg(@)]
                                    ELSE pair[c]]
           Closed(s) == {c \in Conn : after[c][s].state = "closed"}
<1>2. /\ \A c \in Conn : pair'[c] = FreeClosed(after[c])
      /\ \A s \in Side : legs'[s] = legs[s] - Cardinality(Closed(s))
  BY <1>1 DEF ClosedLegs
<1>3. ASSUME NEW c \in Conn, NEW s \in Side
      PROVE  after[c][s].state = "absent" <=> pair[c][s].state = "absent"
  <2>1. pair[c] \in Connection /\ pair[c][s] \in Leg
    BY DEF TypeOK, Connection
  <2>2. after[c][s] \in {pair[c][s], CloseLeg(pair[c][s])}
    BY <2>1 DEF Connection
  <2>3. CloseLeg(pair[c][s]).state = "absent" <=> pair[c][s].state = "absent"
    BY <2>1 DEF CloseLeg, Leg, Alive
  <2> QED BY <2>2, <2>3
<1> HIDE DEF after
<1>4. NoLeg.state = "absent"
  BY DEF NoLeg
<1>5. ASSUME NEW s \in Side
      PROVE  legs'[s] = Cardinality(Allocated(pair, s)') /\ legs'[s] <= legs[s]
  <2>1. \A c \in Conn : pair'[c][s] = IF after[c][s].state = "closed" THEN NoLeg ELSE after[c][s]
    BY <1>2 DEF FreeClosed
  <2>2. /\ Allocated(pair, s)' = Allocated(pair, s) \ Closed(s)
        /\ Allocated(pair, s) \cap Closed(s) = Closed(s)
    BY <1>3, <1>4, <2>1 DEF Allocated
  <2>3. /\ IsFiniteSet(Allocated(pair, s)) /\ Cardinality(Allocated(pair, s)) \in Nat
        /\ legs[s] = Cardinality(Allocated(pair, s))
    BY AllocatedFinite DEF CountInv
  <2> HIDE DEF Closed
  <2>4. /\ Cardinality(Allocated(pair, s) \ Closed(s))
             = Cardinality(Allocated(pair, s)) - Cardinality(Closed(s))
        /\ IsFiniteSet(Closed(s))
    <3>1. PICK A, C : A = Allocated(pair, s) /\ C = Closed(s)
      OBVIOUS
    <3>2. IsFiniteSet(A) /\ A \cap C = C
      BY <2>2, <2>3, <3>1
    <3>3. Cardinality(A \ C) = Cardinality(A) - Cardinality(A \cap C)
      BY <3>2, FS_Difference
    <3>4. IsFiniteSet(A \cap C)
      BY <3>2, FS_Intersection
    <3> QED BY <3>1, <3>2, <3>3, <3>4
  <2>5. Cardinality(Closed(s)) \in Nat
    BY <2>4, FS_CardinalityType
  <2> QED BY <1>2, <2>2, <2>3, <2>4, <2>5
<1>6. legs'["local"] <= MaxConn
  <2>1. legs["local"] \in Int /\ legs'["local"] \in Int /\ "local" \in Side
    BY <1>5, AllocatedFinite DEF TypeOK, Side
  <2> QED BY <1>5, <2>1, BoundAssumption DEF CountInv
<1> QED BY <1>5, <1>6 DEF CountInv

\* No leg exists at the start.
LEMMA CountInit == Init => CountInv
<1> SUFFICES ASSUME Init PROVE CountInv
  OBVIOUS
<1>1. \A s \in Side : Allocated(pair, s) = {}
  BY DEF Init, Allocated, NoConnection, NoLeg
<1> QED BY <1>1, FS_EmptySet, BoundAssumption DEF Init, CountInv, Side

\* With the invariants above, CountInv is inductive.
LEMMA CountStep == TypeOK /\ Inv /\ ProgressInv /\ CountInv /\ [Next]_vars => CountInv'
<1> SUFFICES ASSUME TypeOK, Inv, ProgressInv, CountInv, [Next]_vars PROVE CountInv'
  OBVIOUS
<1>1. CASE UNCHANGED vars
  BY <1>1, SameAllocated DEF vars
<1>2. CASE EpollWait
  BY <1>2, SameAllocated DEF EpollWait
<1>3. ASSUME NEW c \in Conn, NEW s \in Side,
             EventStale(c, s) \/ EventHup(c, s) \/ EventConnectFailed(c, s)
               \/ EventRdhup(c, s) \/ EventInOut(c, s)
      PROVE  CountInv'
  <2>1. /\ Ages(pair[c], pair'[c]) /\ legs' = legs
        /\ \A d \in Conn \ {c} : pair'[d] = pair[d]
    BY <1>3, EventAges
  <2> QED BY <2>1, SameAllocated DEF Ages
<1>4. ASSUME NEW c \in Conn, EventSocks(c) PROVE CountInv'
  BY <1>4, SocksAges, RemoteCount
<1>5. CASE EventResolved
  <2>1. PICK i \in items :
          \/ i.ptr = NoConn /\ UNCHANGED <<pair, legs>>
          \/ /\ i.ptr \in Conn
             /\ \A d \in Conn \ {i.ptr} : pair'[d] = pair[d]
             /\ (pair'[i.ptr]["local"].state = "absent" <=> pair[i.ptr]["local"].state = "absent")
             /\ legs'["local"] = legs["local"]
             /\ LET p == pair[i.ptr]  q == pair'[i.ptr]
                IN \/ /\ (q["remote"].state = "absent" <=> p["remote"].state = "absent")
                      /\ legs'["remote"] = legs["remote"]
                   \/ /\ p["remote"].state = "absent" /\ q["remote"].state # "absent"
                      /\ legs'["remote"] = legs["remote"] + 1
    BY <1>5, ResolvedEffect
  <2>2. CASE i.ptr = NoConn /\ UNCHANGED <<pair, legs>>
    BY <2>2, SameAllocated
  <2>3. CASE i.ptr \in Conn /\ ~UNCHANGED <<pair, legs>>
    BY <2>1, <2>3, RemoteCount
  <2>4. CASE UNCHANGED <<pair, legs>>
    BY <2>4, SameAllocated
  <2> QED BY <2>1, <2>2, <2>3, <2>4
<1> QED
  BY <1>1, <1>2, <1>3, <1>4, <1>5, KernelCount, AcceptCount, BatchEndCount DEF Next, Loop

\* Hence it holds in every reachable state.
LEMMA Count == Spec => []CountInv
BY TypeCorrect, Invariance, Progress, CountInit, CountStep, PTL DEF Spec

\* The memory of every connection is accounted for, whatever the clients, the targets and the
\* resolver do: legs_local and legs_remote are the numbers of legs allocated, --maxconn bounds
\* the first, no event of a batch belongs to a leg that has been freed, and a resolve item
\* points to a leg that waits for it and for no other, until the leg is freed.
THEOREM MemoryIsAccounted == Spec => []LegsAccounted
<1>1. TypeOK /\ Inv /\ RefInv /\ CountInv => LegsAccounted
  <2> SUFFICES ASSUME TypeOK, Inv, RefInv, CountInv PROVE LegsAccounted
    OBVIOUS
  <2>1. LegsCounted
    BY DEF CountInv, LegsCounted, Allocated
  <2>2. ASSUME NEW c \in Conn, pair[c]["local"].ri PROVE Cardinality({i \in items : i.ptr = c}) = 1
    <3>1. PICK x \in items : \A j \in items : j.ptr = c <=> j = x
      BY <2>2 DEF RefInv, OneItem
    <3>2. {i \in items : i.ptr = c} = {x}
      BY <3>1
    <3> QED BY <3>2, FS_Singleton
  <2>3. NoDanglingPointer
    BY <2>2 DEF Inv, BatchInv, RefInv, Asker, PointsBack, NoDanglingPointer
  <2> QED BY <2>1, <2>3 DEF LegsAccounted
<1> QED BY <1>1, TypeCorrect, Invariance, References, Count, PTL
-----------------------------------------------------------------------------
(* The event loop keeps its side of Resolution.  Living and Lookup are what *)
(* Lookups puts for the variables of that module.                           *)

Living == {c \in Conn : Alive(pair[c]["local"])}
Asked(c) == [ptr |-> c, st |-> "queued"] \in items
Lookup ==
  [c \in Conn |-> IF ~pair[c]["local"].ri THEN "none" ELSE IF Asked(c) THEN "asked" ELSE "answered"]

\* The variables of Resolution, in the terms of TpwsConn.
LEMMA LookupVars ==
  ASSUME Living' = Living, Lookup' = Lookup
  PROVE  UNCHANGED Lookups!vars
BY DEF Lookups!vars, Living, Lookup, Asked

\* Each step of a connection is a step of Resolution.
LEMMA LookupOpen ==
  ASSUME NEW c \in Conn, c \notin Living, Lookup[c] = "none",
         Living' = Living \cup {c}, Lookup' = Lookup
  PROVE  Lookups!Next
BY DEF Lookups!Next, Lookups!Open, Living, Lookup, Asked

LEMMA LookupAsk ==
  ASSUME NEW c \in Conn, c \in Living, Lookup[c] = "none",
         Living' = Living, Lookup' = [Lookup EXCEPT ![c] = "asked"]
  PROVE  Lookups!Next
BY DEF Lookups!Next, Lookups!Ask, Living, Lookup, Asked

LEMMA LookupAnswer ==
  ASSUME NEW c \in Conn, Lookup[c] = "asked",
         Living' = Living, Lookup' = [Lookup EXCEPT ![c] = "answered"]
  PROVE  Lookups!Next
BY DEF Lookups!Next, Lookups!Answer, Living, Lookup, Asked

LEMMA LookupDeliver ==
  ASSUME NEW c \in Conn, c \in Living, Lookup[c] = "answered",
         Living' \in {Living, Living \ {c}}, Lookup' = [Lookup EXCEPT ![c] = "none"]
  PROVE  Lookups!Next
BY DEF Lookups!Next, Lookups!Deliver, Living, Lookup, Asked

LEMMA LookupClose ==
  ASSUME NEW c \in Conn, c \in Living, Living' = Living \ {c}, Lookup' = Lookup
  PROVE  Lookups!Next
BY DEF Lookups!Next, Lookups!Close, Living, Lookup, Asked

LEMMA LookupForget ==
  ASSUME NEW cs \in SUBSET Conn, cs \cap Living = {}, Living' = Living,
         Lookup' = [c \in Conn |-> IF c \in cs THEN "none" ELSE Lookup[c]]
  PROVE  Lookups!Next
BY DEF Lookups!Next, Lookups!Forget, Living, Lookup, Asked

\* No connection exists at the start.
LEMMA LookupInit == Init => Lookups!Init
<1> SUFFICES ASSUME Init PROVE Lookups!Init
  OBVIOUS
<1>1. ~NoLeg.ri /\ ~Alive(NoLeg)
  BY DEF NoLeg, Alive
<1>2. \A c \in Conn : pair[c]["local"] = NoLeg
  BY DEF Init, NoConnection, Side
<1>3. Living = {} /\ Lookup = [c \in Conn |-> "none"]
  BY <1>1, <1>2 DEF Living, Lookup
<1> QED BY <1>3 DEF Lookups!Init, Living, Lookup, Asked

\* A connection that neither asks nor is answered goes on, or it is closed.
LEMMA LookupKept ==
  ASSUME items' = items, NEW c \in Conn, pair'[c]["local"].ri = pair[c]["local"].ri,
         Alive(pair'[c]["local"]) => Alive(pair[c]["local"]),
         \A d \in Conn \ {c} : /\ pair'[d]["local"].ri = pair[d]["local"].ri
                               /\ (Alive(pair'[d]["local"]) <=> Alive(pair[d]["local"]))
  PROVE  [Lookups!Next]_(Lookups!vars)
<1>1. Lookup' = Lookup
  BY DEF Lookup, Asked
<1>2. CASE c \in Living /\ c \notin Living'
  <2>1. Living' = Living \ {c}
    BY <1>2 DEF Living
  <2> QED BY <1>1, <1>2, <2>1, LookupClose
<1>3. CASE ~(c \in Living /\ c \notin Living')
  <2>1. Living' = Living
    BY <1>3 DEF Living
  <2> QED BY <1>1, <2>1, LookupVars
<1> QED BY <1>2, <1>3
\* The kernel and the peers change neither; the resolver answers one question, or one that
\* nobody asks any more.
LEMMA KernelLookup ==
  ASSUME TypeOK, RefInv, Kernel
  PROVE  [Lookups!Next]_(Lookups!vars)
<1> DEFINE Same(l, k) == k.ri = l.ri /\ k.state = l.state
<1>1. ASSUME NEW c \in Conn, NEW s \in Side, NEW l, KernelStep(c, s, l), Same(pair[c][s], l)
      PROVE  [Lookups!Next]_(Lookups!vars)
  <2>1. items' = items /\ pair' = [pair EXCEPT ![c][s] = l] /\ pair[c] \in Connection /\ "local" \in Side
    BY <1>1 DEF KernelStep, TypeOK, Side
  <2>2. \A d \in Conn : Same(pair[d]["local"], pair'[d]["local"])
    BY <1>1, <2>1 DEF TypeOK, Connection
  <2> QED BY <2>1, <2>2, LookupKept DEF Alive
<1>2. \A c \in Conn, s \in Side : pair[c][s] \in Leg
  BY DEF TypeOK, Connection
<1>3. ASSUME NEW c \in Conn, NEW s \in Side, PeerSends(c, s) \/ PeerFinishes(c, s) \/ PeerResets(c, s)
      PROVE  [Lookups!Next]_(Lookups!vars)
  <2> DEFINE l == pair[c][s]
  <2>1. CASE PeerSends(c, s)
    <3>1. Same(l, [l EXCEPT !.got = @ + 1])
      BY <1>2 DEF Leg
    <3> QED BY <1>1, <2>1, <3>1 DEF PeerSends
  <2>2. CASE PeerFinishes(c, s)
    <3>1. Same(l, [l EXCEPT !.fin = TRUE])
      BY <1>2 DEF Leg
    <3> QED BY <1>1, <2>2, <3>1 DEF PeerFinishes
  <2>3. CASE PeerResets(c, s)
    <3>1. PICK kept \in {l.trd, l.got} : KernelStep(c, s, [l EXCEPT !.broken = TRUE, !.got = kept])
      BY <2>3 DEF PeerResets
    <3>2. Same(l, [l EXCEPT !.broken = TRUE, !.got = kept])
      BY <1>2 DEF Leg
    <3> QED BY <1>1, <3>1, <3>2
  <2> QED BY <1>3, <2>1, <2>2, <2>3
<1>4. ASSUME NEW c \in Conn, ConnectEnds(c)
      PROVE  [Lookups!Next]_(Lookups!vars)
  <2> DEFINE l == pair[c]["remote"]
  <2>1. PICK ok \in BOOLEAN : KernelStep(c, "remote", [l EXCEPT !.up = ok, !.broken = ~ok])
    BY <1>4 DEF ConnectEnds
  <2>2. Same(l, [l EXCEPT !.up = ok, !.broken = ~ok]) /\ "remote" \in Side
    BY <1>2 DEF Leg, Side
  <2> QED BY <1>1, <2>1, <2>2
<1>5. ASSUME NEW i \in items, ResolverAnswers(i)
      PROVE  [Lookups!Next]_(Lookups!vars)
  <2>1. PICK st \in {"ok", "failed"} : items' = (items \ {i}) \cup {[i EXCEPT !.st = st]}
    BY <1>5 DEF ResolverAnswers
  <2> DEFINE k == [i EXCEPT !.st = st]
  <2>2. /\ k.ptr = i.ptr /\ k.st # "queued" /\ i.st = "queued"
        /\ items' = (items \ {i}) \cup {k} /\ pair' = pair
        /\ i = [ptr |-> i.ptr, st |-> "queued"] /\ i.ptr \in Conn \cup {NoConn}
    BY <1>5, <2>1 DEF TypeOK, ResolveItem, ResolverAnswers
  <2> HIDE DEF k
  <2>3. ASSUME NEW d \in Conn PROVE Asked(d)' <=> Asked(d) /\ d # i.ptr
    <3> DEFINE q == [ptr |-> d, st |-> "queued"]
    <3>1. q.ptr = d /\ q.st = "queued"
      OBVIOUS
    <3>2. q = i <=> d = i.ptr
      BY <2>2, <3>1
    <3> HIDE DEF q
    <3>3. q \in items' <=> q \in items /\ d # i.ptr
      BY <2>2, <3>1, <3>2
    <3> QED BY <3>3 DEF Asked, q
  <2>4. Living' = Living
    BY <2>2 DEF Living
  <2>5. CASE i.ptr = NoConn
    <3>1. Lookup' = Lookup
      BY <2>2, <2>3, <2>5, ConnAssumption DEF Lookup
    <3> QED BY <2>4, <3>1, LookupVars
  <2>6. CASE i.ptr # NoConn
    <3>1. PICK c \in Conn : c = i.ptr
      BY <2>2, <2>6
    <3>2. pair[c]["local"].ri /\ Asked(c)
      BY <2>2, <2>6, <3>1 DEF RefInv, PointsBack, Asked
    <3>3. Lookup[c] = "asked"
      BY <3>2 DEF Lookup
    <3>4. Lookup' = [Lookup EXCEPT ![c] = "answered"]
      BY <2>2, <2>3, <3>1, <3>2 DEF Lookup
    <3> QED BY <2>4, <3>3, <3>4, LookupAnswer
  <2> QED BY <2>5, <2>6
<1> QED BY <1>3, <1>4, <1>5 DEF Kernel

\* An event of a leg closes the connection or does not.
LEMMA EventLookup ==
  ASSUME TypeOK, Inv, ProgressInv, NEW c \in Conn, NEW s \in Side,
         EventStale(c, s) \/ EventHup(c, s) \/ EventConnectFailed(c, s)
           \/ EventRdhup(c, s) \/ EventInOut(c, s)
  PROVE  [Lookups!Next]_(Lookups!vars)
<1>1. SameRef(pair[c], pair'[c])
  BY EventProgress
<1>2. Ages(pair[c], pair'[c]) /\ items' = items /\ \A d \in Conn \ {c} : pair'[d] = pair[d]
  BY EventAges
<1> QED BY <1>1, <1>2, LookupKept DEF SameRef, Ages, Side

\* A message of a SOCKS client asks, or it does not.
LEMMA SocksLookup ==
  ASSUME TypeOK, Inv, ProgressInv, RefInv, NEW c \in Conn, EventSocks(c)
  PROVE  [Lookups!Next]_(Lookups!vars)
<1> DEFINE p == pair[c]
           q == pair'[c]
           i == [ptr |-> c, st |-> "queued"]
<1>1. /\ \A d \in Conn \ {c} : pair'[d] = pair[d]
      /\ Alive(p["local"])
      /\ \/ /\ items' = items \cup {i}
            /\ q["local"].ri /\ p["local"].socks # "resolve" /\ Alive(q["local"])
         \/ items' = items /\ SameRef(p, q)
  BY SocksAges
<1>2. CASE items' = items /\ SameRef(p, q)
  BY <1>1, <1>2, LookupKept DEF SameRef
<1>3. CASE items' = items \cup {i} /\ q["local"].ri /\ p["local"].socks # "resolve" /\ Alive(q["local"])
  <2>1. ~p["local"].ri
    BY <1>3 DEF RefInv, Asker
  <2>2. Asked(c)' /\ \A d \in Conn \ {c} : Asked(d)' <=> Asked(d)
    BY <1>3 DEF Asked
  <2>3. Lookup[c] = "none" /\ c \in Living
    BY <1>1, <2>1 DEF Lookup, Living
  <2>4. Living' = Living
    BY <1>1, <1>3 DEF Living
  <2>5. Lookup' = [Lookup EXCEPT ![c] = "asked"]
    BY <1>1, <1>3, <2>2 DEF Lookup
  <2> QED BY <2>3, <2>4, <2>5, LookupAsk
<1> QED BY <1>1, <1>2, <1>3

\* A client is accepted, or turned away.
LEMMA AcceptLookup ==
  ASSUME TypeOK, RefInv, EventAccept
  PROVE  [Lookups!Next]_(Lookups!vars)
<1>1. items' = items
  BY DEF EventAccept
<1>2. CASE UNCHANGED pair
  BY <1>1, <1>2, LookupVars DEF Living, Lookup, Asked
<1>3. CASE \E c \in Conn : /\ \A s \in Side : pair[c][s].state = "absent"
                           /\ pair' = [pair EXCEPT ![c] = NewConnection]
  <2>1. PICK c \in Conn : /\ \A s \in Side : pair[c][s].state = "absent"
                          /\ pair' = [pair EXCEPT ![c] = NewConnection]
    BY <1>3
  <2>2. ~pair[c]["local"].ri /\ ~Alive(pair[c]["local"])
    BY <2>1 DEF RefInv, Asker, Side, Alive
  <2>3. pair'[c] = NewConnection /\ \A d \in Conn \ {c} : pair'[d] = pair[d]
    BY <2>1 DEF TypeOK
  <2>4. ~pair'[c]["local"].ri /\ Alive(pair'[c]["local"])
    BY <2>3, NewConnectionLegs
  <2>5. c \notin Living /\ Lookup[c] = "none" /\ Living' = Living \cup {c}
    BY <2>2, <2>3, <2>4 DEF Living, Lookup
  <2>6. Lookup' = Lookup
    BY <1>1, <2>2, <2>3, <2>4 DEF Lookup, Asked
  <2> QED BY <2>5, <2>6, LookupOpen
<1> QED BY <1>2, <1>3 DEF EventAccept

\* The answer that is taken from the pipe goes to the connection that asked, or it is forgotten.
LEMMA ResolvedLookup ==
  ASSUME TypeOK, Inv, ProgressInv, RefInv, EventResolved
  PROVE  [Lookups!Next]_(Lookups!vars)
<1>1. PICK i \in items :
        /\ i.st # "queued" /\ items' = items \ {i}
        /\ \/ i.ptr = NoConn /\ UNCHANGED <<pair, legs>>
           \/ /\ i.ptr \in Conn
              /\ \A d \in Conn \ {i.ptr} : pair'[d] = pair[d]
              /\ ~pair'[i.ptr]["local"].ri
              /\ (Alive(pair'[i.ptr]["local"]) => Alive(pair[i.ptr]["local"]))
  BY ResolvedEffect
<1>2. \A d \in Conn : Asked(d)' <=> Asked(d)
  BY <1>1 DEF Asked
<1>3. CASE UNCHANGED <<pair, legs>>
  BY <1>2, <1>3, LookupVars DEF Living, Lookup
<1>4. CASE i.ptr \in Conn /\ ~UNCHANGED <<pair, legs>>
  <2>1. PICK c \in Conn : c = i.ptr
    BY <1>4
  <2>2. /\ \A d \in Conn \ {c} : pair'[d] = pair[d]
        /\ ~pair'[c]["local"].ri
        /\ (Alive(pair'[c]["local"]) => Alive(pair[c]["local"]))
    BY <1>1, <1>4, <2>1
  <2>3. pair[c]["local"].ri
    BY <2>1, ConnAssumption DEF RefInv, PointsBack
  <2>4. ~Asked(c)
    <3>1. PICK x \in items : \A j \in items : j.ptr = c <=> j = x
      BY <2>3 DEF RefInv, OneItem
    <3>2. x = i
      BY <2>1, <3>1
    <3> QED BY <1>1, <3>1, <3>2 DEF Asked
  <2>5. Lookup[c] = "answered"
    BY <2>3, <2>4 DEF Lookup
  <2>6. Lookup' = [Lookup EXCEPT ![c] = "none"]
    BY <1>2, <2>2 DEF Lookup
  <2>7. CASE c \in Living
    <3>1. Living' \in {Living, Living \ {c}}
      <4>1. Alive(pair'[c]["local"]) => Living' = Living
        BY <2>2, <2>7 DEF Living
      <4>2. ~Alive(pair'[c]["local"]) => Living' = Living \ {c}
        BY <2>2, <2>7 DEF Living
      <4> QED BY <4>1, <4>2
    <3> QED BY <2>5, <2>6, <2>7, <3>1, LookupDeliver
  <2>8. CASE c \notin Living
    <3>1. Living' = Living /\ {c} \cap Living = {} /\ {c} \in SUBSET Conn
      BY <2>2, <2>8 DEF Living
    <3>2. Lookup' = [d \in Conn |-> IF d \in {c} THEN "none" ELSE Lookup[d]]
      BY <2>6 DEF Lookup
    <3> QED BY <3>1, <3>2, LookupForget
  <2> QED BY <2>7, <2>8
<1> QED BY <1>1, <1>3, <1>4

\* What freed connections have asked is forgotten.
LEMMA BatchEndLookup ==
  ASSUME TypeOK, RefInv, BatchEnd
  PROVE  [Lookups!Next]_(Lookups!vars)
<1> DEFINE cs == {c \in Conn : pair'[c]["local"] = NoLeg}
<1>1. "local" \in Side /\ items' = {Detach(i) : i \in items} /\ ~NoLeg.ri /\ NoLeg.state = "absent"
  BY DEF Side, BatchEnd, NoLeg
<1>2. \A c \in Conn : \/ pair'[c]["local"] = NoLeg
                      \/ pair'[c]["local"] = pair[c]["local"] /\ pair[c]["local"].state # "closed"
  BY <1>1, BatchEndLegs
<1>3. RefInv'
  BY BatchEndRef
<1>4. ASSUME NEW c \in Conn, c \notin cs, pair[c]["local"].ri
      PROVE  Asked(c)' <=> Asked(c)
  <2>1. pair'[c]["local"] = pair[c]["local"] /\ pair[c]["local"].state # "absent"
    BY <1>2, <1>4 DEF RefInv, Asker
  <2>2. PICK x \in items : \A j \in items : j.ptr = c <=> j = x
    BY <1>4 DEF RefInv, OneItem
  <2>3. Detach(x) = x
    BY <2>1, <2>2 DEF Detach
  <2>4. \A j \in items : Detach(j) = j \/ Detach(j).ptr = NoConn
    BY DEF TypeOK, ResolveItem, Detach
  <2> DEFINE q == [ptr |-> c, st |-> "queued"]
  <2>5. q.ptr = c /\ c # NoConn
    BY ConnAssumption
  <2> HIDE DEF q
  <2>6. q \in items' <=> q \in items
    <3>1. ASSUME q \in items PROVE q \in items'
      BY <1>1, <2>2, <2>3, <2>5, <3>1
    <3>2. ASSUME q \in items' PROVE q \in items
      BY <1>1, <2>4, <2>5, <3>2
    <3> QED BY <3>1, <3>2
  <2> QED BY <2>6 DEF Asked, q
<1>5. cs \in SUBSET Conn
  OBVIOUS
<1>6. Lookup' = [c \in Conn |-> IF c \in cs THEN "none" ELSE Lookup[c]]
  BY <1>1, <1>2, <1>4 DEF Lookup
<1>7. \A c \in Conn : Alive(pair[c]["local"]) => pair'[c]["local"] = pair[c]["local"]
  <2>1. PICK expired \in SUBSET {d \in Conn : TimedOut(pair[d])} :
          LET after == [d \in Conn |-> IF d \in expired
                                       THEN [pair[d] EXCEPT !["remote"] = CloseLeg(@)]
                                       ELSE pair[d]]
          IN pair' = [d \in Conn |-> FreeClosed(after[d])]
    BY DEF BatchEnd
  <2>2. ASSUME NEW c \in Conn, Alive(pair[c]["local"])
        PROVE  pair'[c]["local"] = pair[c]["local"]
    <3> DEFINE a == IF c \in expired THEN [pair[c] EXCEPT !["remote"] = CloseLeg(@)] ELSE pair[c]
    <3>1. pair'[c] = FreeClosed(a)
      BY <2>1
    <3>2. a["local"] = pair[c]["local"]
      BY DEF TypeOK, Connection
    <3> HIDE DEF a
    <3> QED BY <1>1, <2>2, <3>1, <3>2 DEF FreeClosed, Alive
  <2> QED BY <2>2
<1>8. cs \cap Living = {}
  BY <1>1, <1>7 DEF Living, Alive
<1>9. Living' = Living
  BY <1>1, <1>2, <1>7 DEF Living, Alive
<1> HIDE DEF cs
<1> QED BY <1>5, <1>6, <1>8, <1>9, LookupForget

\* Every step of the loop, of the kernel and of the resolver is one of Resolution, or unseen.
LEMMA LookupStep ==
  TypeOK /\ Inv /\ ProgressInv /\ RefInv /\ [Next]_vars => [Lookups!Next]_(Lookups!vars)
<1> SUFFICES ASSUME TypeOK, Inv, ProgressInv, RefInv, [Next]_vars
             PROVE  [Lookups!Next]_(Lookups!vars)
  OBVIOUS
<1>1. CASE UNCHANGED vars
  BY <1>1, LookupVars DEF vars, Living, Lookup, Asked
<1>2. CASE EpollWait
  BY <1>2, LookupVars DEF EpollWait, Living, Lookup, Asked
<1> QED
  BY <1>1, <1>2, KernelLookup, EventLookup, SocksLookup, AcceptLookup, ResolvedLookup,
     BatchEndLookup
  DEF Next, Loop

\* The event loop keeps its side of the contract with the resolver (Resolution): a connection
\* has at most one question open, takes the answer to it and to no other, once; the question of
\* a connection that was closed is forgotten, when its answer comes or its memory is freed, so
\* that the next one with that memory never gets it (tpws_conn.c:537, 1037, 1071, 1476).
THEOREM AnswersFindTheirAsker == Spec => KeepsResolution
BY TypeCorrect, Invariance, Progress, References, LookupInit, LookupStep, PTL
DEF Spec, KeepsResolution, Lookups!SafeSpec
=============================================================================
