------------------------------ MODULE NfqConn ------------------------------
(***************************************************************************)
(* One connection through nfqws, the packet engine that upstream builds    *)
(* for Linux, FreeBSD and Windows: upstream/nfq/desync.c with its          *)
(* connection tracking (conntrack.c) and packet queue (packet_queue.c).    *)
(* Every packet of the connection passes through dpi_desync_packet in one  *)
(* thread.  A TLS or QUIC ClientHello that arrives in pieces is held back  *)
(* until it is whole, and then every piece is treated as the whole hello   *)
(* is.  What the client sends, loses on its way, repeats and reorders is   *)
(* left open, and so is what the server answers.                           *)
(*                                                                         *)
(* Payload is counted in units.  Unit 0 carries what identifies the        *)
(* protocol, the first SniAt units carry the host name, and HelloLen units *)
(* are the whole request.  Module NfqDesync says which segments a desynced *)
(* packet leaves in.  Rewriting of window, TTL and IP id is left out.      *)
(***************************************************************************)
EXTENDS NfqDesync

CONSTANTS
  Modulus,        \* 2^32: TCP sequence numbers are modulo this
  Grace,          \* 0x1000000: how far behind the request no repeat is expected
  HelloLen,       \* units of the request
  SniAt,          \* units that carry its host name
  Length,         \* units the client sends on a TCP connection
  Window,         \* units it may send beyond what is acknowledged
  Room,           \* UDP_MAX_REASM, in datagrams
  Pieces,         \* what of the hello a QUIC Initial may carry
  Threshold,      \* hostlist_auto_retrans_threshold
  FailThreshold,  \* hostlist_auto_fail_threshold
  Configs,        \* profiles and connections looked at
  MaxBreaks       \* bound: losses of the entry and connections on the same
                  \* ports, together

Units == 0 .. HelloLen - 1

ASSUME SizeAssumption ==
  /\ HelloLen \in Nat \ {0} /\ SniAt \in 1 .. HelloLen
  /\ Length \in Nat /\ Length >= HelloLen /\ Window \in Nat \ {0} /\ Room \in Nat \ {0}
  /\ Modulus \in Nat /\ Modulus > 2 * Length /\ Grace \in 1 .. Modulus \div 2
ASSUME PiecesAssumption ==
  Pieces \subseteq SUBSET Units /\ UNION Pieces = Units
ASSUME ThresholdAssumption == Threshold \in 1 .. 255 /\ FailThreshold \in 1 .. 20
ASSUME BoundAssumption == MaxBreaks \in Nat

VARIABLES
  cfg,      \* the first profile's options, the host and the application
  t,        \* the connection's entry in the conntrack pool
  fails,    \* its host's counter in hostlist_auto_fail_counters
  learned,  \* whether the host was added to the automatic list
  io,       \* the step: packet in, packets out, and a failure it counted
  una,      \* first unit the client has no acknowledgement of
  got,      \* units that have left nfqws
  gone,     \* units the client has sent
  again,    \* packets that repeat what was sent
  clean,    \* whether the client's packets came in order and were all tracked
  losses,   \* times the entry was purged or begun anew by a SYN,ACK
  reuses    \* new connections on the same ports so far

vars == <<cfg, t, fails, learned, io, una, got, gone, again, clean, losses, reuses>>

\* The first profile may have a hostlist or an automatic one, a filter by
\* protocol, a cutoff in packets, desync-any-protocol and a strategy.  The
\* default profile that nfqws appends matches everything and has none.
Config == [l4 : {"tcp", "udp"}, app : {"tls", "huge", "http", "other", "quic"},
           host : {"none", "listed", "unlisted", "excluded"},
           lists : {"none", "list", "auto"}, byProto : BOOLEAN, cutoff : Nat,
           anyProto : BOOLEAN, isn : 0 .. Modulus - 1, how : Strategy]
ASSUME ConfigAssumption == Configs \subseteq Config

\* RETRANS_COUNTER_STOP
Stop == 255

NoReasm == [size |-> 0, present |-> 0, seq |-> 0, crypto |-> {}]
NoRequest == [present |-> FALSE, final |-> FALSE, abandoned |-> FALSE, from |-> 0, to |-> 0]
NoTrack ==
  [tracked |-> FALSE, syn |-> TRUE, n |-> 0, dp |-> "none", cut |-> FALSE,
   l7 |-> FALSE, l7Found |-> FALSE, host |-> FALSE, hostFound |-> FALSE, checked |-> FALSE,
   ah |-> FALSE, retrans |-> 0, req |-> NoRequest, reasm |-> NoReasm, delayed |-> <<>>]
NewTrack == [NoTrack EXCEPT !.tracked = TRUE]

\* A packet of the client: TCP data carries len units from at on, a QUIC
\* Initial the units of crypto.  An "odd" datagram is an Initial that cannot
\* be decrypted, "data" is any datagram that is no Initial.
Packet == [kind : {"syn", "ack", "data", "initial", "odd"}, at : 0 .. Length, len : 0 .. Length,
           crypto : SUBSET Units]
Bare(kind) == [kind |-> kind, at |-> 0, len |-> 0, crypto |-> {}]
Segment(o, n) == [kind |-> "data", at |-> o, len |-> n, crypto |-> {}]
Datagram(c) == [kind |-> "initial", at |-> 0, len |-> 1, crypto |-> c]

Tcp == cfg.l4 = "tcp"
Carried(p) == IF Tcp THEN p.at .. p.at + p.len - 1 ELSE p.crypto
IsSyn(p) == p.kind = "syn"
SeqNum(p) == (cfg.isn + 1 + p.at) % Modulus
PosNum(p) == (SeqNum(p) + p.len) % Modulus

-----------------------------------------------------------------------------
(* What a handler works on: the entry, the profile in use and the host list *)

Handling == [t |-> t, dp |-> "none", checked |-> FALSE, fails |-> fails, learned |-> learned,
             out |-> <<>>, failed |-> FALSE, replay |-> FALSE, off |-> 0]

Plain(p) == [pkt |-> p, how |-> "plain", segs |-> Unsplit(Piece(0, p.len, p.len))]

\* In replay, markers are looked for in the whole hello.
Desynced(s, p) ==
  LET q == Piece(s.off, p.len, IF s.replay THEN s.t.reasm.present ELSE p.len)
  IN [pkt |-> p, how |-> "desynced", segs |-> IF Tcp THEN Segments(cfg.how, q) ELSE Unsplit(q)]

SendOrig(s, p) == [s EXCEPT !.out = Append(@, Plain(p))]

\* rawsend_queue of the held packets.  A replayed packet has no entry to
\* hold anything back for: ctrack is NULL there, and ctrack_replay is set.
SendDelayed(s) ==
  [s EXCEPT !.out = @ \o [i \in DOMAIN s.t.delayed |-> Plain(s.t.delayed[i])], !.t.delayed = <<>>]
\* (mutant) what is held is destroyed
Cancel_Drops(s) == IF s.replay THEN s ELSE [s EXCEPT !.t.reasm = NoReasm, !.t.delayed = <<>>]
Cancel(s) == IF s.replay THEN s ELSE SendDelayed([s EXCEPT !.t.reasm = NoReasm])
\* (mutant) the packet overtakes those held
CancelAndSend_Overtakes(s, p) == SendOrig(s, p)
CancelAndSend(s, p) == SendOrig(Cancel(s), p)

-----------------------------------------------------------------------------
(* Profiles, cutoffs and the automatic hostlist                            *)

InList(isLearned) == cfg.host = "listed" \/ isLearned
AnyProto(dp) == dp = "first" /\ cfg.anyProto

DpMatch(known, l7, isLearned) ==
  /\ cfg.byProto => l7
  /\ cfg.lists = "list" => known /\ InList(isLearned)

DpFind(known, l7, isLearned) == IF DpMatch(known, l7, isLearned) THEN "first" ELSE "default"

\* The profile of an earlier packet is kept; an unknown one is searched for.
Profiled(s) ==
  LET dp == IF s.t.dp # "none" THEN s.t.dp ELSE DpFind(s.t.host, s.t.l7, s.learned)
  IN [s EXCEPT !.dp = dp, !.t.dp = IF s.t.tracked THEN dp ELSE @]

MaybeCutoff(s) ==
  [s EXCEPT !.t.cut = @ \/ /\ s.t.tracked /\ s.t.dp = "first"
                           /\ cfg.cutoff # 0 /\ s.t.n >= cfg.cutoff]

CheckDesyncInterval(s) == s.dp = "first" /\ cfg.cutoff # 0 => s.t.tracked /\ ~s.t.cut

StopRetransCounter(s) ==
  IF s.t.ah THEN MaybeCutoff([s EXCEPT !.t.retrans = Stop]) ELSE s

AutoHostlistFailed(s) ==
  IF s.fails + 1 < FailThreshold THEN [s EXCEPT !.fails = @ + 1]
  ELSE [s EXCEPT !.fails = 0, !.learned = @ \/ cfg.host = "unlisted"]

SeqWithin(s, s1, s2) ==
  \/ s2 >= s1 /\ s >= s1 /\ s <= s2
  \/ s2 < s1 /\ (s <= s2 \/ s >= s1)

InRequest(s, p) == s.t.req.final /\ SeqWithin(SeqNum(p), s.t.req.from, s.t.req.to)

\* (mutant) one repeat too early
CountRetrans_Early(s) ==
  IF s.t.retrans + 2 < Threshold THEN [s EXCEPT !.t.retrans = @ + 1]
  ELSE [AutoHostlistFailed(StopRetransCounter(s)) EXCEPT !.failed = TRUE]

CountRetrans(s) ==
  IF s.t.retrans + 1 < Threshold THEN [s EXCEPT !.t.retrans = @ + 1]
  ELSE [AutoHostlistFailed(StopRetransCounter(s)) EXCEPT !.failed = TRUE]

\* Repeats are counted while the host is watched and, of TCP, the request
\* is whole and not long past.
Watches(s) ==
  /\ s.t.host /\ s.t.ah /\ s.t.retrans # Stop
  /\ Tcp => s.t.req.final /\ ~s.t.req.abandoned

ProcessRetransFail(s, p) ==
  CASE ~Watches(s) -> s
    [] Watches(s) /\ Tcp /\ ~InRequest(s, p) -> [StopRetransCounter(s) EXCEPT !.fails = 0]
    [] OTHER -> CountRetrans(s)

-----------------------------------------------------------------------------
(* From the discovery of protocol and host to the desync of a packet       *)

Desync(s, p) ==
  IF s.dp = "default" THEN CancelAndSend(s, p)
  ELSE [s EXCEPT !.out = Append(@, Desynced(s, p))]

\* The host is in no list: an automatic list starts to watch it.
Refuse(s, p, newHost) ==
  LET s1 == IF s.t.tracked
            THEN [s EXCEPT !.t.ah = cfg.lists = "auto" /\ cfg.host # "excluded"] ELSE s
  IN IF Tcp THEN CancelAndSend(s1, p)
     ELSE SendOrig(IF s1.t.ah /\ ~newHost /\ s.off = 0 THEN ProcessRetransFail(s1, p) ELSE s1, p)

Judge(s, p, l7, have, newHost) ==
  LET checks == have /\ s.dp = "first" /\ cfg.lists # "none"
  IN CASE checks /\ ~(s.checked \/ InList(s.learned)) -> Refuse(s, p, newHost)
       [] checks /\ (s.checked \/ InList(s.learned)) -> Desync(StopRetransCounter(s), p)
       [] ~checks /\ Tcp /\ ~l7 /\ ~AnyProto(s.dp) -> CancelAndSend(s, p)
       [] OTHER -> Desync(s, p)

Reveal(s, newL7, newHost) ==
  IF s.t.tracked THEN [s EXCEPT !.t.l7Found = @ \/ newL7, !.t.host = @ \/ newHost,
                                !.t.hostFound = @ \/ newHost]
  ELSE s

Reprofile(s, dp) ==
  [s EXCEPT !.dp = dp, !.checked = dp = "first" /\ cfg.lists = "list",
            !.t.dp = IF s.t.tracked THEN dp ELSE @,
            !.t.checked = IF s.t.tracked THEN dp = "first" /\ cfg.lists = "list" ELSE @]

\* The cutoff of another profile is looked at, but in replay.
Recut(s, moved) == IF moved /\ ~s.replay THEN MaybeCutoff(s) ELSE s

DesyncUnlessCut(s, moved, p, l7, have, newHost) ==
  IF moved /\ ~s.replay /\ ~CheckDesyncInterval(s) THEN CancelAndSend(s, p)
  ELSE Judge(s, p, l7, have, newHost)

\* Protocol and host that are new to the entry may reveal another profile.
Discover(s, p, l7, have) ==
  LET newL7 == IF s.t.tracked THEN s.t.l7 /\ ~s.t.l7Found ELSE l7
      newHost == have /\ ~s.t.hostFound
      host == IF s.t.tracked THEN s.t.host \/ newHost ELSE have
      dp == DpFind(host, IF s.t.tracked THEN s.t.l7 ELSE l7, s.learned)
      found == newL7 \/ newHost
      s1 == IF found THEN Recut(Reprofile(Reveal(s, newL7, newHost), dp), dp # s.dp)
            ELSE [s EXCEPT !.checked = s.t.checked]
  IN DesyncUnlessCut(s1, found /\ dp # s.dp, p, l7, have, newHost)

-----------------------------------------------------------------------------
(* Reassembly                                                              *)

ReasmIsEmpty(s) == s.t.reasm.size = 0
ReasmIsFull(s) == ~ReasmIsEmpty(s) /\ s.t.reasm.size = s.t.reasm.present
ReasmHasSpace(s, len) == s.t.reasm.present + len <= s.t.reasm.size

\* ReasmFeed of a packet whose number is the one that is expected
Stored(reasm, p) ==
  LET free == reasm.size - reasm.present
      n == IF p.len < free THEN p.len ELSE free
  IN [reasm EXCEPT !.present = @ + n, !.seq = (@ + n) % Modulus,
                   !.crypto = IF n = 0 THEN @ ELSE @ \cup p.crypto]

ReasmStart(s, p, size) ==
  [s EXCEPT !.t.reasm = Stored([NoReasm EXCEPT !.size = size,
                                               !.seq = IF Tcp THEN SeqNum(p) ELSE 0], p)]

Expected(s, p) == ~ReasmIsEmpty(s) /\ (Tcp => s.t.reasm.seq = SeqNum(p))

\* A number that is not expected ends the reassembly, and all goes out.
ReasmFeed(s, p) ==
  CASE Expected(s, p) -> [s EXCEPT !.t.reasm = Stored(@, p)]
    [] ~Expected(s, p) /\ ~ReasmIsEmpty(s) -> Cancel(s)
    [] OTHER -> s

Hold(s, p) == [s EXCEPT !.t.delayed = Append(@, p)]

HasHost(len) == cfg.host # "none" /\ len >= SniAt

\* A hello without a host name goes out as it is (desync_skip_nosni).
HelloDesync(s, p, have) == IF have THEN Discover(s, p, TRUE, TRUE) ELSE CancelAndSend(s, p)

\* (mutant) every piece is taken for the first
ReplayOne_NoOffset(s, p) == HelloDesync([s EXCEPT !.dp = s.t.dp], p, HasHost(HelloLen))

\* Every held piece is treated as the whole hello is, at its offset.
ReplayOne(s, p) ==
  LET r == HelloDesync([s EXCEPT !.dp = s.t.dp], p, HasHost(HelloLen))
  IN [r EXCEPT !.off = @ + p.len]
ReplayQueue(s) ==
  LET start == [s EXCEPT !.replay = TRUE, !.t.delayed = <<>>]
      r == FoldLeft(ReplayOne, start, s.t.delayed)
  IN [r EXCEPT !.replay = FALSE, !.off = 0, !.t.reasm = NoReasm]

-----------------------------------------------------------------------------
(* TCP                                                                     *)

\* A connection is tracked from its SYN on.  A SYN of another connection on
\* the same ports begins the entry anew, without the packet that does so.
FeedTcp(track, p) ==
  CASE ~track.tracked /\ IsSyn(p) -> [NewTrack EXCEPT !.n = IF cfg.cutoff > 0 THEN 1 ELSE 0]
    [] ~track.tracked /\ ~IsSyn(p) -> NoTrack
    [] track.tracked /\ IsSyn(p) /\ ~track.syn -> NewTrack
    [] OTHER -> [track EXCEPT !.n = IF @ < cfg.cutoff THEN @ + 1 ELSE @,
                              !.syn = @ /\ IsSyn(p)]

Abandon(s, p) ==
  LET dseq == (SeqNum(p) - s.t.req.to) % Modulus
  IN IF s.t.req.final /\ dseq >= Grace /\ dseq < Modulus \div 2
     THEN [s EXCEPT !.t.req.abandoned = TRUE] ELSE s

KnownL7(s) == [s EXCEPT !.t.l7 = @ \/ s.t.tracked]

WholeRequest(s, p) ==
  IF s.t.tracked /\ ~s.t.req.present
  THEN [s EXCEPT !.t.req = [@ EXCEPT !.present = TRUE, !.final = TRUE,
                              !.from = SeqNum(p), !.to = (PosNum(p) - 1) % Modulus]]
  ELSE s

\* A request without Host goes out before its interval is noted.
HttpRequest(s, p) ==
  IF HasHost(p.len) THEN Discover(Abandon(WholeRequest(s, p), p), p, TRUE, TRUE)
  ELSE SendOrig(s, p)

\* The interval of the request grows with its pieces until it is whole.
RequestInterval(s, p, full) ==
  IF ~s.t.tracked \/ s.t.req.final THEN s
  ELSE [s EXCEPT !.t.req = [present |-> TRUE, final |-> full, abandoned |-> @.abandoned,
                            from |-> IF @.present THEN @.from ELSE SeqNum(p),
                            to |-> (PosNum(p) - 1) % Modulus]]

\* have units of the hello are known: those of the packet, or with those
\* that were held.  Repeats of a request that was seen whole are not held.
HelloBegins(s, p, full) ==
  s.t.tracked /\ ~full /\ ReasmIsEmpty(s) /\ ~s.t.req.abandoned /\ ~InRequest(s, p)

ReplayIfFull(s) == IF ReasmIsFull(s) THEN ReplayQueue(s) ELSE s

HoldOrTreat(s, p, have) ==
  IF ReasmIsEmpty(s) THEN HelloDesync(IF HasHost(have) THEN Abandon(s, p) ELSE s, p, HasHost(have))
  ELSE ReplayIfFull(Hold(s, p))

\* A hello that is too long to be put together goes as it came.
TlsHello(s, p, have) ==
  LET begins == HelloBegins(s, p, have >= HelloLen)
  IN IF begins /\ cfg.app = "huge" THEN CancelAndSend(s, p)
     ELSE HoldOrTreat(RequestInterval(IF begins THEN ReasmStart(s, p, HelloLen) ELSE s,
                                      p, have >= HelloLen), p, have)

TcpPayload(s, p) ==
  LET begins == p.at = 0 \/ ~ReasmIsEmpty(s)
  IN CASE begins /\ cfg.app = "http" -> HttpRequest(Cancel(KnownL7(s)), p)
       [] begins /\ cfg.app \in {"tls", "huge"} ->
            TlsHello(KnownL7(s), p, IF ReasmIsEmpty(s) THEN p.len ELSE s.t.reasm.present)
       [] OTHER -> Discover(Abandon(s, p), p, FALSE, FALSE)

TcpDesync(s, p) ==
  CASE ~CheckDesyncInterval(s) -> CancelAndSend(s, p)
    [] CheckDesyncInterval(s) /\ p.len = 0 -> SendOrig(s, p)
    [] OTHER -> TcpPayload(ProcessRetransFail(ReasmFeed(s, p), p), p)

TcpPacket(track, p) ==
  TcpDesync(MaybeCutoff(Profiled([Handling EXCEPT !.t = FeedTcp(track, p)])), p)

-----------------------------------------------------------------------------
(* QUIC                                                                    *)

FeedUdp(track) ==
  LET known == IF track.tracked THEN track ELSE NewTrack
  IN [known EXCEPT !.n = IF @ < cfg.cutoff THEN @ + 1 ELSE @]

\* Without a hello the packet is treated only if any protocol is.
QuicReasmCancel(s, p) ==
  IF AnyProto(s.t.dp) THEN Discover(Cancel(s), p, TRUE, FALSE) ELSE CancelAndSend(s, p)

ReplayIf(whole, s) == IF whole THEN ReplayQueue(s) ELSE s

\* crypto is what is known of the hello, with this datagram.
QuicTreat(s, p, crypto) ==
  CASE crypto = {} -> QuicReasmCancel(s, p)
    [] crypto # {} /\ (crypto # Units \/ ~ReasmIsEmpty(s)) ->
         ReplayIf(crypto = Units, Hold(IF ReasmIsEmpty(s) THEN ReasmStart(s, p, Room) ELSE s, p))
    [] OTHER -> HelloDesync(s, p, HasHost(HelloLen))

QuicInitial(s, p) ==
  CASE ReasmIsEmpty(s) -> QuicTreat(s, p, p.crypto)
    [] ~ReasmIsEmpty(s) /\ ReasmHasSpace(s, p.len) ->
         QuicTreat(ReasmFeed(s, p), p, s.t.reasm.crypto \cup p.crypto)
    [] OTHER -> CancelAndSend(s, p)

UdpData(s, p) == IF AnyProto(s.dp) THEN Discover(s, p, FALSE, FALSE) ELSE SendOrig(s, p)

UdpPayload(s, p) ==
  CASE p.kind = "initial" -> QuicInitial(KnownL7(s), p)
    [] p.kind = "odd" -> QuicReasmCancel(KnownL7(s), p)
    [] OTHER -> UdpData(Cancel(StopRetransCounter(s)), p)

UdpDesync(s, p) == IF CheckDesyncInterval(s) THEN UdpPayload(s, p) ELSE CancelAndSend(s, p)
UdpPacket(track, p) ==
  UdpDesync(MaybeCutoff(Profiled([Handling EXCEPT !.t = FeedUdp(track)])), p)

-----------------------------------------------------------------------------
(* Packets arrive                                                          *)

\* First of all idle entries are purged; what they hold back goes with them.
Purged(idle) == IF idle THEN NoTrack ELSE t
MayPurge(idle) == idle => t.tracked /\ losses + reuses < MaxBreaks

Nothing == [in |-> <<>>, out |-> <<>>, failed |-> FALSE]
Output(s, in) ==
  /\ t' = s.t /\ fails' = s.fails /\ learned' = s.learned
  /\ io' = [in |-> in, out |-> s.out, failed |-> s.failed]

LeftWith(s) == UNION {Carried(s.out[i].pkt) : i \in DOMAIN s.out}

\* (ghost) in order: TCP data that goes on where the last ended, a QUIC
\* Initial that brings more of the hello and finds room
GoesOn(p) ==
  IF Tcp THEN p.kind # "data" \/ (t.tracked /\ gone = 0 .. p.at - 1)
  ELSE p.kind = "initial" /\ p.crypto \ gone # {} /\ Len(t.delayed) < Room

\* dpi_desync_packet of a packet of the client
FromClient(p, idle) ==
  /\ MayPurge(idle)
  /\ LET s == IF Tcp THEN TcpPacket(Purged(idle), p) ELSE UdpPacket(Purged(idle), p)
     IN Output(s, <<p>>) /\ got' = got \cup LeftWith(s)
  /\ gone' = gone \cup Carried(p)
  /\ again' = IF again < Threshold /\ Carried(p) \cap gone # {} THEN again + 1 ELSE again
  /\ clean' = (clean /\ ~idle /\ GoesOn(p))
  /\ losses' = IF idle THEN losses + 1 ELSE losses
  /\ UNCHANGED <<cfg, una, reuses>>

\* The client repeats its SYN until it sends, and what is not acknowledged;
\* what it sent before may have been lost on its way to nfqws, or overtaken.
TcpSends ==
  {Bare("ack")} \cup {Bare("syn") : x \in {gone} \cap {{}}}
    \cup {Segment(o, n) : o \in una .. Length - 1, n \in 1 .. Length}
UdpSends ==
  {Datagram(c) : c \in Pieces \cup {{}}} \cup {[Bare(k) EXCEPT !.len = 1] : k \in {"odd", "data"}}
Fitting(p) == p.at + p.len <= Length /\ (Tcp => p.at + p.len <= una + Window)
Sends(p, idle) == Fitting(p) /\ FromClient(p, idle)

\* A SYN of a new connection on the same ports
Reopens ==
  /\ Tcp /\ losses + reuses < MaxBreaks /\ gone # {}
  /\ Output(TcpPacket(t, Bare("syn")), <<Bare("syn")>>)
  /\ una' = 0 /\ got' = {} /\ gone' = {} /\ again' = 0 /\ clean' = TRUE
  /\ reuses' = reuses + 1 /\ UNCHANGED <<cfg, losses>>

\* An acknowledgement of all that has arrived reaches the client.
Acked == CHOOSE k \in 0 .. Length : 0 .. k - 1 \subseteq got /\ k \notin got
Hears ==
  /\ Tcp /\ una # Acked /\ una' = Acked /\ io' = Nothing
  /\ UNCHANGED <<cfg, t, fails, learned, got, gone, again, clean, losses, reuses>>

\* The failure that a reply shows: only the first of the server's data and
\* an RST in its place are looked at, while the host is watched.
ReplyFeed(s, kind, first) ==
  LET watched == s.t.host /\ s.t.ah /\ first
      bad == kind = "rst" \/ (kind = "redirect" /\ s.t.l7 /\ cfg.app = "http")
      s1 == CASE watched /\ bad -> AutoHostlistFailed(s)
              [] watched /\ ~bad /\ kind \in {"data", "redirect"} -> [s EXCEPT !.fails = 0]
              [] OTHER -> s
  IN IF watched /\ kind = "rst" THEN [s1 EXCEPT !.t.host = FALSE] ELSE s1

\* A SYN,ACK makes an entry that there is none of.  One that acknowledges
\* another SYN than the entry's begins an established entry anew: what it
\* holds back is destroyed.
SynAcks == {"synack", "other synack"}
BeginsAnew(track, kind) == kind = "other synack" /\ track.tracked /\ ~track.syn
FeedReply(track, kind) ==
  CASE BeginsAnew(track, kind) \/ (kind \in SynAcks /\ ~track.tracked) -> NewTrack
    [] kind \notin SynAcks /\ track.tracked -> [track EXCEPT !.syn = FALSE]
    [] OTHER -> track

\* dpi_desync_packet of a packet of the server.  Those of UDP do not come to
\* nfqws (config.default:87).
Replies(kind, first, idle) ==
  LET anew == BeginsAnew(Purged(idle), kind)
      s == MaybeCutoff(Profiled([Handling EXCEPT !.t = FeedReply(Purged(idle), kind)]))
  IN /\ Tcp /\ MayPurge(idle) /\ (anew => losses + reuses < MaxBreaks)
     /\ kind = "redirect" => cfg.app = "http"
     /\ Output(IF s.t.tracked THEN ReplyFeed(s, kind, first) ELSE s, <<>>)
     /\ clean' = (clean /\ ~idle /\ ~anew)
     /\ losses' = IF idle \/ anew THEN losses + 1 ELSE losses
     /\ UNCHANGED <<cfg, una, got, gone, again, reuses>>

Init ==
  /\ cfg \in Configs
  /\ t = NoTrack /\ fails = 0 /\ learned = FALSE
  /\ io = Nothing
  /\ una = 0 /\ got = {} /\ gone = {} /\ again = 0 /\ clean = TRUE
  /\ losses = 0 /\ reuses = 0

Next ==
  \/ \E idle \in BOOLEAN :
       \/ \E p \in IF Tcp THEN TcpSends ELSE UdpSends : Sends(p, idle)
       \/ \E kind \in SynAcks \cup {"data", "redirect", "rst"}, first \in BOOLEAN :
            Replies(kind, first, idle)
  \/ Hears
  \/ Reopens

Spec == Init /\ [][Next]_vars

\* The client hears acknowledgements, and as long as some of the hello has
\* not arrived it repeats what is not acknowledged (of QUIC, what has not
\* arrived), at times of its own.
Repeats == /\ io'.in # <<>>
           /\ LET p == io'.in[1]
              IN IF Tcp THEN p.kind = "data" /\ p.at = una ELSE ~(p.crypto \subseteq got)
Fairness ==
  /\ WF_vars(Hears)
  /\ []<>(Units \subseteq got) \/ []<><<Repeats>>_vars

FairSpec == Spec /\ Fairness

-----------------------------------------------------------------------------
\* Holding pieces of a hello back keeps all payload, once, and in order:
\* what leaves in a step and what is held after it are what was held before
\* it and the packet that came, but that an ACK without payload overtakes.
\* Only an entry that is purged, or begun anew by a SYN or by a SYN,ACK for
\* another one, takes with it what it holds (conntrack.c:31, 142, 150, 308).
KeepsPayload ==
  LET lost == losses' # losses \/ reuses' # reuses
      left == [i \in DOMAIN io'.out |-> io'.out[i].pkt]
      overtakes == \A i \in DOMAIN io'.in : io'.in[i].len = 0
  IN \/ lost
     \/ left \o t'.delayed = t.delayed \o io'.in
     \/ overtakes /\ left = io'.in /\ t'.delayed = t.delayed
Conserved == [][KeepsPayload]_vars

\* The profile that should treat the hello, judged by all of it
Wanted ==
  /\ cfg.host # "none" /\ cfg.app # "huge"
  /\ cfg.lists # "none" => InList(learned)
InTime == cfg.cutoff = 0 \/ t'.n < cfg.cutoff
Completes ==
  /\ clean' /\ io'.in # <<>> /\ io'.in[1].kind \in {"data", "initial"}
  /\ cfg.app \in {"tls", "quic"} /\ Units \subseteq gone' /\ ~(Units \subseteq gone)

\* The places where the strategy cuts a hello, and a piece of one
HelloCuts ==
  CASE cfg.how.second \in {"multisplit", "multidisorder"} -> cfg.how.splits
    [] cfg.how.second \in {"fakedsplit", "fakeddisorder"} ->
         {IF cfg.how.split = 0 THEN 1 ELSE cfg.how.split}
    [] cfg.how.second = "hostfakesplit" -> {cfg.how.host, cfg.how.midhost, cfg.how.endhost} \ {0}
    [] OTHER -> {}
Inside(p) == {c \in HelloCuts : c > p.at /\ c < p.at + p.len}
CutsOf(p) ==
  IF cfg.how.second = "hostfakesplit" /\ ~({cfg.how.host, cfg.how.endhost} \subseteq Inside(p))
  THEN {} ELSE Inside(p)

\* A hello that arrives in order, whole or in pieces, is treated as one:
\* every packet of it is desynced if its host is one the profile is for,
\* none otherwise; the packets are cut where the whole hello would be, and
\* fakes for all of it go out once (desync.c:1540-1592, 1670, 1966, 3480).
HelloTreatedWhole ==
  [][Completes /\ InTime =>
       /\ Len(io'.out) = Len(t.delayed) + 1
       /\ \A i \in DOMAIN io'.out :
            LET o == io'.out[i]
                real == SelectSeq(o.segs, LAMBDA g : g.real)
            IN /\ o.how = IF Wanted THEN "desynced" ELSE "plain"
               /\ Wanted /\ Tcp =>
                    {o.pkt.at + real[k].from : k \in DOMAIN real} = CutsOf(o.pkt) \cup {o.pkt.at}]_vars

\* What leaves in place of the packet o when its segment k cannot be sent
\* (0: all can), numbered from the beginning of the stream
Leaves(o, k) ==
  LET segs == IF k = 0 THEN o.segs ELSE SendFails(o.segs, k, Piece(0, o.pkt.len, o.pkt.len))
  IN [i \in DOMAIN segs |-> [segs[i] EXCEPT !.from = @ + o.pkt.at, !.to = @ + o.pkt.at]]

Follow(out) == \A i \in 1 .. Len(out) - 1 : out[i + 1].pkt.at = out[i].pkt.at + out[i].pkt.len

\* A server that has read all before them reads of packets that follow one
\* another exactly what the client sent, junk of seqovl never (desync.c:2304,
\* 2411, 2555), in whatever order segments leave, and also if one of them
\* cannot be sent and its packet goes as it came.
HelloIsRead ==
  [][LET out == SelectSeq(io'.out, LAMBDA o : o.pkt.len > 0)
         whole == [i \in DOMAIN out |-> Leaves(out[i], 0)]
     IN Tcp /\ out # <<>> /\ Follow(out) /\ (\E j \in DOMAIN out : out[j].how = "desynced") =>
          \A j \in DOMAIN out : \A k \in 0 .. Len(out[j].segs) :
            LET r == Read(out[1].pkt.at, FlattenSeq([whole EXCEPT ![j] = Leaves(out[j], k)]))
                last == out[Len(out)].pkt
            IN ~r.junk /\ r.next = last.at + last.len]_vars

\* A failure is counted for want of an answer only when the client has
\* really repeated its request often enough (desync.c:378-407).
FailureIsRepeated == io.failed => again = Threshold

\* Holding pieces back never keeps the hello from the server for good.
Delivered == <>[](Units \subseteq got)
=============================================================================
