------------------------------ MODULE TpwsConn ------------------------------
(***************************************************************************)
(* The connection engine of tpws, upstream/tpws/tpws_conn.c: one thread,   *)
(* one epoll instance.  A connection has two legs: the local one, accepted *)
(* from the client, and the remote one, connected to the target.  The loop *)
(* waits for a batch of events, handles each of them in turn (a handler    *)
(* may change the other leg too, whose own event of the batch is then      *)
(* stale), and frees the legs it closed only when the batch is over.       *)
(*                                                                         *)
(* A handler is sequential C, so it is an operator from a connection (both *)
(* legs) to a connection; what the kernel answers is a parameter.  Bytes   *)
(* are positions in the stream their sender produced, so a send buffer is  *)
(* an interval; the bytes tamper.c adds or changes count with the position *)
(* they are attached to.  Allocation and epoll_ctl are taken to succeed.   *)
(* The build is the one without splice(), so wr_unsent is 0 and wr_buf[1]  *)
(* is never filled.                                                        *)
(***************************************************************************)
EXTENDS Integers, FiniteSets

CONSTANTS
  Conn,           \* connection slots: bounds the connections alive at once
  NoConn,         \* the NULL ptr of a detached resolve item
  MaxConn,        \* params.maxconn
  MaxEvents,      \* MAX_EPOLL_EVENTS less the listening sockets and the resolver's pipe
  MaxBytes,       \* bound: bytes a peer sends in one connection
  Socks,          \* params.proxy_type is CONN_TYPE_SOCKS, else transparent
  Split,          \* the profile splits client blocks (multisplit_count > 0)
  OrphanTimeout   \* params.max_orphan_time is not 0

ASSUME ConnAssumption == IsFiniteSet(Conn) /\ NoConn \notin Conn
ASSUME BoundAssumption == MaxConn \in Nat /\ MaxEvents \in Nat /\ MaxBytes \in Nat
ASSUME OptionAssumption ==
  Socks \in BOOLEAN /\ Split \in BOOLEAN /\ OrphanTimeout \in BOOLEAN

Side == {"local", "remote"}
Other(s) == IF s = "local" THEN "remote" ELSE "local"

\* "absent" stands for the NULL pointer: not allocated yet, or freed.
LegState == {"absent", "unavailable", "available", "rdhup", "closed"}
SocksState == {"handshake", "request", "resolve", "connection", "tcp"}
Event == {"in", "out", "rdhup", "hup"}
Flow == {"in", "out"}

\* the unsent bytes lo, ..., hi - 1 of a send buffer
Span == {b \in [lo : Nat, hi : Nat] : b.lo <= b.hi}
NoSpan == [lo |-> 0, hi |-> 0]
BufferNumber == {0, 2, 3}

Leg == [ state  : LegState,
         shut   : BOOLEAN,             \* bShutdown
         linger : BOOLEAN,             \* SO_LINGER 0 is set: close sends RST
         orphan : BOOLEAN,             \* orphan_since is set
         socks  : SocksState,          \* socks_state
         ri     : BOOLEAN,             \* socks_ri is not NULL
         flow   : SUBSET Flow,         \* bFlowIn, bFlowOut
         cached : SUBSET Event,        \* the mask of bFlowInPrev, bFlowOutPrev, bPrevRdhup
         mask   : SUBSET Event,        \* what epoll watches for
         buf    : [BufferNumber -> Span],   \* wr_buf
         trd    : Nat,                 \* bytes read from this leg's peer
         twr    : Nat,                 \* bytes written to this leg's peer
         fatal  : BOOLEAN,             \* exit(1): a filled buffer was created again
         up     : BOOLEAN,             \* kernel: the TCP connection is established
         got    : Nat,                 \* kernel: bytes received from the peer
         fin    : BOOLEAN,             \* kernel: the peer has sent FIN
         broken : BOOLEAN ]            \* kernel: reset or refused

Connection == [Side -> Leg]
ResolveItem == [ptr : Conn \cup {NoConn}, st : {"queued", "ok", "failed"}]

VARIABLES
  pair,     \* the connections
  batch,    \* events of the batch not handled yet, per leg
  todo,     \* the same for the listening socket and the resolver pipe
  phase,    \* "wait" in epoll_wait, "run" while a batch is handled
  items,    \* resolve items handed to the resolver
  legs      \* legs_local and legs_remote

vars == <<pair, batch, todo, phase, items, legs>>

NoLeg ==
  [ state |-> "absent", shut |-> FALSE, linger |-> FALSE, orphan |-> FALSE,
    socks |-> "handshake", ri |-> FALSE, flow |-> {}, cached |-> {"rdhup"}, mask |-> {},
    buf |-> [k \in BufferNumber |-> NoSpan],
    trd |-> 0, twr |-> 0, fatal |-> FALSE, up |-> FALSE, got |-> 0, fin |-> FALSE, broken |-> FALSE ]

NoConnection == [s \in Side |-> NoLeg]

TypeOK ==
  /\ pair \in [Conn -> Connection]
  /\ batch \in [Conn -> [Side -> SUBSET Event]]
  /\ todo \in SUBSET {"listen", "resolve"}
  /\ phase \in {"wait", "run"}
  /\ items \in SUBSET ResolveItem
  /\ legs \in [Side -> Int]

Init ==
  /\ pair = [c \in Conn |-> NoConnection]
  /\ batch = [c \in Conn |-> [s \in Side |-> {}]]
  /\ todo = {}
  /\ phase = "wait"
  /\ items = {}
  /\ legs = [s \in Side |-> 0]

-----------------------------------------------------------------------------
(* Legs and their buffers.                                                 *)

Alive(l) == l.state \notin {"absent", "closed"}
PartnerAlive(p, s) == Alive(p[Other(s)])
Full(b) == b.lo < b.hi
HasUnsent(l) == \E k \in BufferNumber : Full(l.buf[k])
Unread(l) == l.got - l.trd

\* send() fails on a broken socket and after SHUT_WR; shutdown() needs a connection.
SendFails(l) == l.broken \/ l.shut
ShutdownFails(l) == l.broken \/ ~l.up

Least(a, b) == IF a < b THEN a ELSE b
Size(b) == b.hi - b.lo
Trim(b, n) == IF b.lo + n < b.hi THEN [b EXCEPT !.lo = @ + n] ELSE NoSpan

\* The kernel takes n bytes in all: a buffer is sent only once the lower ones are empty.
BuffersSend(l, n) ==
  LET n0 == Least(n, Size(l.buf[0]))
      n2 == Least(n - n0, Size(l.buf[2]))
      n3 == Least(n - n0 - n2, Size(l.buf[3]))
  IN [l EXCEPT !.buf = [k \in BufferNumber |->
                          Trim(@[k], IF k = 0 THEN n0 ELSE IF k = 2 THEN n2 ELSE n3)],
               !.twr = @ + n0 + n2 + n3]

\* Filling a buffer that is not empty is FATAL.
BufferCreate(l, k, b) ==
  [l EXCEPT !.buf[k] = b, !.fatal = @ \/ Full(l.buf[k])]

Wrote(l, m) == [l EXCEPT !.twr = @ + m]

-----------------------------------------------------------------------------
(* The epoll mask of a leg.                                                *)

\* (mutant) EPOLLRDHUP is not asked for
WantedMask_NoRdhup(l) == l.flow

WantedMask(l) == l.flow \cup (IF l.state = "rdhup" THEN {} ELSE {"rdhup"})

EpollUpdateFlow(l) ==
  IF l.cached = WantedMask(l) THEN l
  ELSE [l EXCEPT !.cached = WantedMask(l), !.mask = WantedMask(l)]

FlowOf(in, out) == (IF in THEN {"in"} ELSE {}) \cup (IF out THEN {"out"} ELSE {})
EpollSetFlow(l, in, out) == EpollUpdateFlow([l EXCEPT !.flow = FlowOf(in, out)])
WatchOut(l) == EpollUpdateFlow([l EXCEPT !.flow = @ \cup {"out"}])
UnwatchIn(l) == EpollUpdateFlow([l EXCEPT !.flow = @ \ {"in"}])

\* (mutant) reading of the partner, turned off once, is not turned on again
EpollSetFlowPair_StaysOff(p, s) ==
  LET o == Other(s)
      unsent == HasUnsent(p[s])
      unsentPartner == PartnerAlive(p, s) /\ HasUnsent(p[o])
  IN [p EXCEPT
        ![s] = EpollSetFlow(@, ~unsentPartner /\ p[s].state # "rdhup", unsent),
        ![o] = IF PartnerAlive(p, s)
               THEN EpollSetFlow(@, ~unsent /\ "in" \in p[o].flow, unsentPartner)
               ELSE @]

\* A leg is read only while the other one has nothing left to send.
EpollSetFlowPair(p, s) ==
  LET o == Other(s)
      unsent == HasUnsent(p[s])
      unsentPartner == PartnerAlive(p, s) /\ HasUnsent(p[o])
  IN [p EXCEPT
        ![s] = EpollSetFlow(@, ~unsentPartner /\ p[s].state # "rdhup", unsent),
        ![o] = IF PartnerAlive(p, s)
               THEN EpollSetFlow(@, ~unsent /\ p[o].state # "rdhup", unsentPartner)
               ELSE @]

-----------------------------------------------------------------------------
(* Closing.                                                                *)

CloseLeg(l) == IF Alive(l) THEN [l EXCEPT !.state = "closed"] ELSE l

CloseBoth(p, s) ==
  [p EXCEPT ![s] = CloseLeg(@), ![Other(s)] = CloseLeg(@)]

\* (mutant) the partner is left to its own events
CloseWithPartnerCheck_Leg(p, s) == [p EXCEPT ![s] = CloseLeg(@)]

\* The other leg survives only while it has something left to send.
CloseWithPartnerCheck(p, s) ==
  LET o == Other(s)
      waits == PartnerAlive(p, s) /\ HasUnsent(p[o])
  IN [p EXCEPT
        ![s] = CloseLeg(@),
        ![o] = IF ~waits THEN CloseLeg(@)
               ELSE IF o = "remote" /\ @.state = "unavailable" /\ OrphanTimeout
               THEN [@ EXCEPT !.orphan = TRUE]
               ELSE @]

Shutdown(p, s) == [p EXCEPT ![s].shut = TRUE]
Result(ok, p) == [ok |-> ok, p |-> p]

-----------------------------------------------------------------------------
(* The handlers.                                                           *)

\* (mutant) the partner is not told to wait for EPOLLOUT
ReadAllAndBuffer_NoFlow(p, s, k) ==
  IF ~PartnerAlive(p, s) \/ Unread(p[s]) <= 0 THEN p
  ELSE [p EXCEPT
          ![s].trd = p[s].got,
          ![Other(s)] = BufferCreate(@, k, [lo |-> p[s].trd, hi |-> p[s].got])]

\* Reads whatever the leg still holds into buffer k of its partner.
ReadAllAndBuffer(p, s, k) ==
  LET o == Other(s)
  IN IF ~PartnerAlive(p, s) \/ Unread(p[s]) <= 0 THEN p
     ELSE [p EXCEPT
             ![s].trd = p[s].got,
             ![o] = WatchOut(BufferCreate(@, k, [lo |-> p[s].trd, hi |-> p[s].got]))]

\* n: bytes the kernel takes from the leg's buffers
HandleUnsent(p, s, n) ==
  LET o == Other(s)
      sent == IF HasUnsent(p[s]) THEN [p EXCEPT ![s] = BuffersSend(@, n)] ELSE p
      drained == ~HasUnsent(sent[s]) /\ PartnerAlive(p, s) /\ p[o].state = "rdhup"
      shutNow == drained /\ ~p[s].shut
      after == IF shutNow THEN Shutdown(sent, s) ELSE sent
  IN IF HasUnsent(p[s]) /\ SendFails(p[s]) THEN Result(FALSE, p)
     ELSE IF shutNow /\ ShutdownFails(p[s]) THEN Result(FALSE, after)
     ELSE IF drained /\ p[s].state = "rdhup" /\ ~HasUnsent(p[o]) THEN Result(FALSE, after)
     ELSE Result(TRUE, EpollSetFlowPair(after, s))

\* (mutant) the rest of a partial write is buffered from the start of the block
RelayBlock_Restart(p, s, r, m, lost) ==
  LET o == Other(s)
      from == p[s].trd
      read == [p EXCEPT ![s].trd = @ + r]
  IN IF SendFails(p[o]) \/ m = r THEN [read EXCEPT ![o] = Wrote(@, m)]
     ELSE [read EXCEPT ![o] = BufferCreate(Wrote(@, m), 0, [lo |-> from, hi |-> from + r])]

\* A block of r bytes goes to the partner: the kernel takes m of them and the rest
\* is buffered.  A split part that meets EAGAIN ends the loop (send_oob keeps the
\* error): then the rest is "lost".  If the partner's socket fails, nothing is buffered.
RelayBlock(p, s, r, m, lost) ==
  LET o == Other(s)
      from == p[s].trd
      read == [p EXCEPT ![s].trd = @ + r]
  IN IF SendFails(p[o]) THEN read
     ELSE [read EXCEPT ![o] =
             IF m = r \/ lost THEN Wrote(@, m)
             ELSE BufferCreate(Wrote(@, m), 0, [lo |-> from + m, hi |-> from + r])]

\* (mutant) a leg without partner is kept after it has sent everything
HandleEpoll_KeepOrphan(p, s, in, n, r, m, lost) ==
  LET u == HandleUnsent(p, s, n)
  IN IF ~u.ok \/ ~in THEN u
     ELSE IF ~PartnerAlive(p, s) THEN Result(TRUE, [u.p EXCEPT ![s].trd = p[s].got])
     ELSE IF HasUnsent(p[Other(s)]) \/ Unread(p[s]) <= 0 THEN u
     ELSE Result(TRUE, EpollSetFlowPair(RelayBlock(u.p, s, r, m, lost), s))

\* handle_epoll in TCP mode, for an event with or without EPOLLIN
HandleEpoll(p, s, in, n, r, m, lost) ==
  LET o == Other(s)
      u == HandleUnsent(p, s, n)
  IN IF ~u.ok THEN u
     ELSE IF ~PartnerAlive(p, s) /\ ~HasUnsent(u.p[s]) THEN Result(FALSE, u.p)
     ELSE IF ~in THEN u
     ELSE IF ~PartnerAlive(p, s) THEN Result(TRUE, [u.p EXCEPT ![s].trd = p[s].got])
     ELSE IF HasUnsent(p[o]) \/ Unread(p[s]) <= 0 THEN u
     ELSE Result(TRUE, EpollSetFlowPair(RelayBlock(u.p, s, r, m, lost), s))

\* (mutant) only handle_unsent shuts a partner down
ShutPartnerWhenDrained_Never(p, s) == p

\* The tail of the EPOLLIN/EPOLLOUT branch of event_loop.
ShutPartnerWhenDrained(p, s) ==
  LET o == Other(s)
  IN IF p[s].state = "rdhup" /\ PartnerAlive(p, s) /\ ~p[o].shut /\ ~HasUnsent(p[s])
     THEN IF ShutdownFails(p[o]) THEN CloseWithPartnerCheck(Shutdown(p, o), s)
          ELSE Shutdown(p, o)
     ELSE p

AfterHandleEpoll(h, s) ==
  IF h.ok THEN ShutPartnerWhenDrained(h.p, s) ELSE CloseWithPartnerCheck(h.p, s)

\* (mutant) the client is never told that the connection is made
ProxyRemoteConnAck_Never(p, s) == p

\* The client gets its SOCKS reply, whatever the outcome of the connection.
ProxyRemoteConnAck(p, s) ==
  IF s = "remote" /\ PartnerAlive(p, s) /\ p["local"].socks = "connection"
  THEN [p EXCEPT !["local"].socks = "tcp"] ELSE p

CheckConnectionAttempt(p, s) ==
  IF p[s].state # "unavailable" \/ s # "remote" THEN Result(TRUE, p)
  ELSE IF p[s].broken THEN Result(FALSE, ProxyRemoteConnAck(p, s))
  ELSE Result(TRUE, ProxyRemoteConnAck(
         [p EXCEPT
            !["remote"] = [EpollSetFlow(@, TRUE, FALSE) EXCEPT !.state = "available"],
            !["local"] = IF Alive(@) THEN EpollSetFlow(@, TRUE, FALSE) ELSE @], s))

\* (mutant) the rest of the stream goes to the buffer of partial writes
HandleHup_FirstBuffer(p, s) ==
  CloseWithPartnerCheck(ReadAllAndBuffer(ProxyRemoteConnAck(p, s), s, 0), s)

HandleHup(p, s) ==
  LET o == Other(s)
      read == ReadAllAndBuffer(ProxyRemoteConnAck(p, s), s, 3)
      mirror == p[s].broken /\ p[s].up /\ PartnerAlive(p, s)
  IN CloseWithPartnerCheck(IF mirror THEN [read EXCEPT ![o].linger = TRUE] ELSE read, s)

HandleRdhup(p, s) ==
  LET o == Other(s)
      read == [ReadAllAndBuffer(p, s, 2) EXCEPT ![s].state = "rdhup"]
      quiet == [read EXCEPT ![s] = UnwatchIn(@)]
      shut == Shutdown(quiet, o)
  IN IF HasUnsent(read[s]) THEN [read EXCEPT ![s] = EpollSetFlow(@, FALSE, TRUE)]
     ELSE IF ~PartnerAlive(p, s) THEN [quiet EXCEPT ![s] = CloseLeg(@)]
     ELSE IF HasUnsent(quiet[o]) THEN quiet
     ELSE IF ShutdownFails(p[o]) \/ p[o].state = "rdhup" THEN CloseWithPartnerCheck(shut, s)
     ELSE shut

-----------------------------------------------------------------------------
(* New connections.                                                        *)

NewRemote(p) ==
  [p EXCEPT !["remote"] = [NoLeg EXCEPT !.state = "unavailable", !.mask = {"out"}]]

\* transparent proxy: the target is known and connect() starts at once
NewConnection ==
  LET p == [NoConnection EXCEPT !["local"] =
              [NoLeg EXCEPT !.state = "available", !.up = TRUE,
                            !.mask = IF Socks THEN {"in", "rdhup"} ELSE {"rdhup"}]]
  IN IF Socks THEN p ELSE NewRemote(p)

ProxyModeConnectRemote(p) == [NewRemote(p) EXCEPT !["local"].socks = "connection"]

\* What handle_proxy_mode makes of a message: it hangs up on anything invalid,
\* unexpected or refused (a resolve that cannot be queued, connect() failing at once).
SocksReplies(p) ==
  IF Unread(p["local"]) = 0 THEN {"hangup"}
  ELSE CASE p["local"].socks = "handshake" -> {"hangup", "request", "connection"}
         [] p["local"].socks = "request"   -> {"hangup", "resolve", "connection"}
         [] OTHER                          -> {"hangup"}

HandleProxyMode(p, reply) ==
  LET read == [p EXCEPT !["local"].got = p["local"].trd]  \* the message is consumed
  IN CASE reply = "hangup"     -> Result(FALSE, read)
       [] reply = "request"    -> Result(TRUE, [read EXCEPT !["local"].socks = "request"])
       [] reply = "resolve"    -> Result(TRUE, [read EXCEPT !["local"].socks = "resolve",
                                                            !["local"].ri = TRUE])
       [] reply = "connection" -> Result(TRUE, ProxyModeConnectRemote(read))

-----------------------------------------------------------------------------
(* The kernel and the peers: one step for each thing that may happen to a  *)
(* socket at any time, between two events of a batch included.             *)

Established(l) == Alive(l) /\ l.up /\ ~l.broken

KernelStep(c, s, l) ==
  /\ pair' = [pair EXCEPT ![c][s] = l]
  /\ UNCHANGED <<batch, todo, phase, items, legs>>

PeerSends(c, s) ==
  LET l == pair[c][s]
  IN /\ Established(l) /\ ~l.fin
     /\ l.got < MaxBytes
     /\ KernelStep(c, s, [l EXCEPT !.got = @ + 1])

PeerFinishes(c, s) ==
  LET l == pair[c][s]
  IN /\ Established(l) /\ ~l.fin
     /\ KernelStep(c, s, [l EXCEPT !.fin = TRUE])

\* A reset may or may not discard what was received and not read yet.
PeerResets(c, s) ==
  LET l == pair[c][s]
  IN /\ Established(l)
     /\ \E kept \in {l.trd, l.got} :
          KernelStep(c, s, [l EXCEPT !.broken = TRUE, !.got = kept])

ConnectEnds(c) ==
  LET l == pair[c]["remote"]
  IN /\ l.state = "unavailable" /\ ~l.up /\ ~l.broken
     /\ \E ok \in BOOLEAN : KernelStep(c, "remote", [l EXCEPT !.up = ok, !.broken = ~ok])

\* A resolver thread answers: external to this module.
ResolverAnswers(i) ==
  /\ i.st = "queued"
  /\ \E st \in {"ok", "failed"} : items' = (items \ {i}) \cup {[i EXCEPT !.st = st]}
  /\ UNCHANGED <<pair, batch, todo, phase, legs>>

-----------------------------------------------------------------------------
(* The event loop.                                                         *)

HangsUp(l) == l.broken \/ (l.fin /\ l.shut)

\* writable: whether the socket buffer of the leg has room; that of a socket which has
\* just connected is empty
Ready(l, writable) ==
  {e \in Event :
     /\ Alive(l)
     /\ \/ e = "in" /\ "in" \in l.mask /\ (Unread(l) > 0 \/ l.fin)
        \/ e = "out" /\ "out" \in l.mask /\ l.up /\ (writable \/ l.state = "unavailable")
        \/ e = "rdhup" /\ "rdhup" \in l.mask /\ l.fin
        \/ e = "hup" /\ HangsUp(l)}

\* The epoll of macOS (see Epoll) may hold back the events of some legs when there are more
\* legs than the array of events has room for, and once the hangup of a leg whose other
\* events tell that something has happened to it.
LiveLegs == {l \in Conn \X Side : Alive(pair[l[1]][l[2]])}
Crowded == Cardinality(LiveLegs) > MaxEvents
HangupMayBeLate(l) ==
  l.fin /\ l.shut /\ ~l.broken /\ (l.mask \cap {"in", "rdhup"} # {} \/ l.state = "unavailable")

Reported(writable, heard, late) ==
  [c \in Conn |-> [s \in Side |->
     {e \in Ready(pair[c][s], <<c, s>> \in writable) :
        <<c, s>> \in heard /\ (e = "hup" => <<c, s>> \notin late)}]]

EpollWait ==
  /\ phase = "wait"
  /\ \E writable \in SUBSET {l \in LiveLegs : "out" \in pair[l[1]][l[2]].mask},
        heard \in IF Crowded THEN SUBSET LiveLegs ELSE {LiveLegs} :
     \E late \in SUBSET {l \in heard : HangupMayBeLate(pair[l[1]][l[2]])} :
       batch' = Reported(writable, heard, late)
  /\ \E listen \in SUBSET {"listen"} :
       todo' = listen \cup {x \in {"resolve"} : \E i \in items : i.st # "queued"}
  /\ todo' # {} \/ \E c \in Conn, s \in Side : batch'[c][s] # {}
  /\ phase' = "run"
  /\ UNCHANGED <<pair, items, legs>>

\* One event of the batch: the connection it belongs to becomes p.
Handle(c, s, p) ==
  /\ pair' = [pair EXCEPT ![c] = p]
  /\ batch' = [batch EXCEPT ![c][s] = {}]
  /\ UNCHANGED <<todo, phase>>

\* Sockets and resolve items are created only by the SOCKS handlers.
HandleOnly(c, s, p) == Handle(c, s, p) /\ UNCHANGED <<items, legs>>

Pending(c, s) == phase = "run" /\ batch[c][s] # {}

\* The event of a leg that an earlier event of the batch has closed.
EventStale(c, s) ==
  /\ Pending(c, s)
  /\ ~Alive(pair[c][s])
  /\ HandleOnly(c, s, pair[c])

EventHup(c, s) ==
  /\ Pending(c, s)
  /\ Alive(pair[c][s])
  /\ "hup" \in batch[c][s]
  /\ HandleOnly(c, s, HandleHup(pair[c], s))

Attempt(c, s) ==
  IF "out" \in batch[c][s] THEN CheckConnectionAttempt(pair[c], s)
  ELSE Result(TRUE, pair[c])

EventConnectFailed(c, s) ==
  /\ Pending(c, s)
  /\ Alive(pair[c][s])
  /\ "hup" \notin batch[c][s]
  /\ ~Attempt(c, s).ok
  /\ HandleOnly(c, s, CloseBoth(Attempt(c, s).p, s))

EventRdhup(c, s) ==
  /\ Pending(c, s)
  /\ Alive(pair[c][s])
  /\ "hup" \notin batch[c][s] /\ "rdhup" \in batch[c][s]
  /\ Attempt(c, s).ok
  /\ HandleOnly(c, s, HandleRdhup(Attempt(c, s).p, s))

\* only the local leg has a proxy type
InTcpMode(p, s) == ~(Socks /\ s = "local" /\ p[s].socks # "tcp")

ReadyForIO(c, s) ==
  /\ Pending(c, s)
  /\ Alive(pair[c][s])
  /\ batch[c][s] \cap {"hup", "rdhup"} = {}
  /\ Attempt(c, s).ok

\* n: bytes of the leg's buffers the kernel takes; r: bytes received, m of them sent
\* on at once; lost: see RelayBlock
EventInOut(c, s) ==
  /\ ReadyForIO(c, s)
  /\ InTcpMode(Attempt(c, s).p, s)
  /\ LET p == Attempt(c, s).p
         in == "in" \in batch[c][s]
     IN \E n, r, m \in 0 .. MaxBytes, lost \in BOOLEAN :
          /\ r <= Unread(p[s]) /\ (r = 0 <=> Unread(p[s]) = 0)
          /\ m <= r
          /\ lost => Split /\ s = "local" /\ m < r
          /\ HandleOnly(c, s, AfterHandleEpoll(HandleEpoll(p, s, in, n, r, m, lost), s))

EventSocks(c) ==
  /\ ReadyForIO(c, "local")
  /\ ~InTcpMode(pair[c], "local")
  /\ "in" \in batch[c]["local"]
  /\ \E reply \in SocksReplies(pair[c]) :
       /\ Handle(c, "local", AfterHandleEpoll(HandleProxyMode(pair[c], reply), "local"))
       /\ items' = items \cup {i \in ResolveItem :
                                 reply = "resolve" /\ i = [ptr |-> c, st |-> "queued"]}
       /\ legs' = [legs EXCEPT !["remote"] = @ + (IF reply = "connection" THEN 1 ELSE 0)]

\* (mutant) one client too many
AcceptsMore_OneMore == legs["local"] <= MaxConn

\* with maxconn local legs the client is turned away
AcceptsMore == legs["local"] < MaxConn

\* The listening socket; add_tcp_connection may fail (no target address, connect() refused at once).
EventAccept ==
  /\ phase = "run" /\ "listen" \in todo
  /\ todo' = todo \ {"listen"}
  /\ \/ UNCHANGED <<pair, legs>>
     \/ /\ AcceptsMore
        /\ \E c \in Conn :
             /\ \A s \in Side : pair[c][s].state = "absent"
             /\ pair' = [pair EXCEPT ![c] = NewConnection]
        /\ legs' = [legs EXCEPT !["local"] = @ + 1,
                                !["remote"] = @ + (IF Socks THEN 0 ELSE 1)]
  /\ UNCHANGED <<batch, phase, items>>

\* resolve_complete: the local leg may have been closed in the same batch (the item is
\* then ignored), or freed (the item was detached); connect: proxy_mode_connect_remote
ResolveComplete(p, answer, connect) ==
  IF ~Alive(p["local"]) \/ p["local"].socks # "resolve" THEN p
  ELSE IF answer = "ok" /\ connect THEN ProxyModeConnectRemote(p)
  ELSE [p EXCEPT !["local"] = CloseLeg(@)]

EventResolved ==
  /\ phase = "run" /\ "resolve" \in todo
  /\ todo' = todo \ {"resolve"}
  /\ \E i \in items :
       /\ i.st # "queued"
       /\ items' = items \ {i}
       /\ IF i.ptr = NoConn THEN UNCHANGED <<pair, legs>>
          ELSE \E connect \in BOOLEAN :
                 LET p == ResolveComplete(pair[i.ptr], i.st, connect)
                 IN /\ pair' = [pair EXCEPT ![i.ptr] = [p EXCEPT !["local"].ri = FALSE]]
                    /\ legs' = [legs EXCEPT !["remote"] =
                                  @ + (IF p["remote"].state # pair[i.ptr]["remote"].state
                                       THEN 1 ELSE 0)]
  /\ UNCHANGED <<batch, phase>>

\* The end of a batch: conn_close_timed_out, then remove_closed_connections.
TimedOut(p) == p["remote"].orphan /\ p["remote"].state = "unavailable"

FreeClosed(p) == [s \in Side |-> IF p[s].state = "closed" THEN NoLeg ELSE p[s]]

\* (mutant) the item keeps its pointer
Detach_Never(i) == i

\* free_conn detaches the resolve item of the leg it frees
Detach(i) ==
  IF i.ptr \in Conn /\ pair'[i.ptr]["local"].state = "absent" THEN [i EXCEPT !.ptr = NoConn]
  ELSE i

ClosedLegs(ps, s) == Cardinality({c \in Conn : ps[c][s].state = "closed"})

BatchEnd ==
  /\ phase = "run" /\ todo = {}
  /\ \A c \in Conn, s \in Side : batch[c][s] = {}
  /\ \E expired \in SUBSET {c \in Conn : TimedOut(pair[c])} :
       LET after == [c \in Conn |-> IF c \in expired
                                    THEN [pair[c] EXCEPT !["remote"] = CloseLeg(@)]
                                    ELSE pair[c]]
       IN /\ pair' = [c \in Conn |-> FreeClosed(after[c])]
          /\ legs' = [s \in Side |-> legs[s] - ClosedLegs(after, s)]
  /\ items' = {Detach(i) : i \in items}
  /\ phase' = "wait"
  /\ UNCHANGED <<batch, todo>>

-----------------------------------------------------------------------------
Kernel ==
  \/ \E c \in Conn, s \in Side : PeerSends(c, s) \/ PeerFinishes(c, s) \/ PeerResets(c, s)
  \/ \E c \in Conn : ConnectEnds(c)
  \/ \E i \in items : ResolverAnswers(i)

Loop ==
  \/ EpollWait
  \/ \E c \in Conn, s \in Side :
       EventStale(c, s) \/ EventHup(c, s) \/ EventConnectFailed(c, s)
         \/ EventRdhup(c, s) \/ EventInOut(c, s)
  \/ \E c \in Conn : EventSocks(c)
  \/ EventAccept
  \/ EventResolved
  \/ BatchEnd

Next == Kernel \/ Loop

Spec == Init /\ [][Next]_vars

\* What the liveness properties assume.  The loop never stops: a batch is handled to its
\* end, and epoll_wait returns when there is an event.  An attempt to connect ends: the
\* kernel gives up on it.  A peer keeps reading: the socket of a leg that epoll watches
\* for EPOLLOUT has room again and again, and when it has it takes something.
ReportsRoom(c, s) == EpollWait /\ "out" \in batch'[c][s]
Takes(c, s) == pair'[c][s].twr # pair[c][s].twr
HasRoom(c, s) ==
  /\ batch[c][s] \cap {"out", "rdhup", "hup"} = {"out"}
  /\ Alive(pair[c][s]) /\ HasUnsent(pair[c][s]) /\ ~SendFails(pair[c][s])

Fairness ==
  /\ []<>(phase = "wait")
  /\ WF_vars(EpollWait)
  /\ \A c \in Conn : WF_vars(ConnectEnds(c))
  /\ \A c \in Conn, s \in Side :
       /\ SF_vars(ReportsRoom(c, s))
       /\ []<>HasRoom(c, s) => []<><<Takes(c, s)>>_vars

FairSpec == Spec /\ Fairness

-----------------------------------------------------------------------------
(* Properties.                                                             *)

Connected(p) == \A s \in Side : Alive(p[s])

\* The unsent bytes of leg l are exactly those read from its partner (up to position
\* end) and not written yet, in order: no byte is lost, repeated or reordered in the
\* buffers of the leg.
InOrder(l, end) ==
  LET next2 == IF Full(l.buf[0]) THEN l.buf[0].hi ELSE l.twr
      next3 == IF Full(l.buf[2]) THEN l.buf[2].hi ELSE next2
      next4 == IF Full(l.buf[3]) THEN l.buf[3].hi ELSE next3
  IN /\ Full(l.buf[0]) => l.buf[0].lo = l.twr
     /\ Full(l.buf[2]) => l.buf[2].lo = next2
     /\ Full(l.buf[3]) => l.buf[3].lo = next3
     /\ next4 = end

\* A leg that can still be written to holds the rest of its partner's stream.
RelayIntact ==
  \A c \in Conn : Connected(pair[c]) =>
    \A s \in Side : LET l == pair[c][s]
                    IN ~SendFails(l) => InOrder(l, pair[c][Other(s)].trd)

\* tpws_conn.h:91: a buffer that has to be refilled while it is not empty is FATAL,
\* and buffers 2 and 3 should not be filled simultaneously.
NeverFatal ==
  \A c \in Conn, s \in Side :
    LET l == pair[c][s] IN ~l.fatal /\ ~(Full(l.buf[2]) /\ Full(l.buf[3]))

\* Nothing waits for an event that does not come.  What a leg has to send is waited for:
\* epoll watches the leg for EPOLLOUT, so the data is not stuck in the buffer.  And a leg
\* left alone is kept only to flush what it holds: one with nothing to send would never be
\* closed.
NoLostWakeup ==
  \A c \in Conn, s \in Side : LET l == pair[c][s] IN
    /\ Alive(l) /\ HasUnsent(l) => "out" \in l.mask
    /\ Alive(l) /\ pair[c][Other(s)].state = "closed" => HasUnsent(l)

\* The end of one stream is passed on: when a leg saw RDHUP and its partner has sent
\* everything, the partner is shut down, unless the leg still has to send itself.
FinForwarded ==
  \A c \in Conn : Connected(pair[c]) =>
    \A s \in Side : LET l == pair[c][s]  o == pair[c][Other(s)]
                    IN l.state = "rdhup" /\ ~HasUnsent(o) => o.shut \/ HasUnsent(l)

\* An event in the batch, or a resolve item, never points to a connection already freed;
\* the item a local leg points to exists, and it is the only one that points back.
NoDanglingPointer ==
  /\ \A c \in Conn, s \in Side : batch[c][s] # {} => pair[c][s].state # "absent"
  /\ \A i \in items : i.ptr # NoConn => pair[i.ptr]["local"].ri
  /\ \A c \in Conn : pair[c]["local"].ri =>
       /\ pair[c]["local"].state # "absent"
       /\ Cardinality({i \in items : i.ptr = c}) = 1

\* legs_local and legs_remote count the legs that are allocated, and maxconn holds.
LegsCounted ==
  /\ \A s \in Side : legs[s] = Cardinality({c \in Conn : pair[c][s].state # "absent"})
  /\ legs["local"] <= MaxConn

\* The memory of a connection is counted while it is there, and nothing points to it after.
LegsAccounted == LegsCounted /\ NoDanglingPointer

\* A SOCKS client has its reply before any byte of the target reaches it, and it waits
\* for one only while the target is being connected to.
ReplyBeforeRelay ==
  \A c \in Conn :
    LET local == pair[c]["local"]
    IN Socks =>
         /\ local.socks # "tcp" => local.twr = 0 /\ ~HasUnsent(local)
         /\ local.socks = "connection" /\ Connected(pair[c])
              => pair[c]["remote"].state = "unavailable"

\* "partner has unset. partner shutdown delayed" (tpws_conn.c:1703): the stream to a
\* peer is ended only after everything held for it has been sent.
ShutdownDelayed ==
  \A c \in Conn, s \in Side :
    Alive(pair[c][s]) /\ pair[c][s].shut => ~HasUnsent(pair[c][s])

\* Once both peers have ended their streams the connection is freed, and a leg whose partner
\* is gone is freed too.
EndedIsFreed ==
  \A c \in Conn :
    /\ (\A s \in Side : pair[c][s].fin) ~> (\E s \in Side : pair[c][s].state = "absent")
    /\ \A s \in Side :
         (Alive(pair[c][s]) /\ pair[c][Other(s)].state = "closed")
           ~> (pair[c][s].state = "absent")

\* What a peer sends reaches the other one, or the connection ends: from the kernel, which
\* holds it until reading the leg is turned on, through the buffers, until it is written.
Relayed ==
  \A c \in Conn, s \in Side : \A k \in 1 .. MaxBytes :
    (Connected(pair[c]) /\ pair[c][s].got >= k)
      ~> (pair[c][Other(s)].twr >= k \/ ~Connected(pair[c]))

\* What the event loop has to do with the resolver, as Resolution sees it.
Lookups ==
  INSTANCE Resolution WITH
    alive  <- {c \in Conn : Alive(pair[c]["local"])},
    lookup <- [c \in Conn |->
                 IF ~pair[c]["local"].ri THEN "none"
                 ELSE IF [ptr |-> c, st |-> "queued"] \in items THEN "asked" ELSE "answered"],
    up     <- TRUE

\* The event loop keeps its side of Resolution: a connection asks once, takes its own answer,
\* and what it has asked is forgotten when its memory is freed (tpws_conn.c:537, 1037, 1071,
\* 1476); no answer that comes after an event of the same batch has closed it is lost or
\* given to the connection that is next at its place.
KeepsResolution == Lookups!SafeSpec
=============================================================================
