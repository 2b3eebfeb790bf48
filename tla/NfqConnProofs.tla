--------------------------- MODULE NfqConnProofs ---------------------------
(***************************************************************************)
(* Proofs about NfqConn, for any sizes, profiles and strategies: types,    *)
(* that no failure is counted without repeats (FailureIsRepeated), and     *)
(* that holding a hello back loses, doubles and reorders nothing           *)
(* (Conserved).                                                            *)
(*                                                                         *)
(* A packet is followed through its handler.  What judges it (Discover and *)
(* what it calls) only moves what is known of the connection and sends the *)
(* packet (Treats); what holds pieces back keeps the request and those     *)
(* pieces at the beginning of the stream (RequestOk, ReasmOk).  The replay *)
(* of what was held is a fold, and is followed by induction over the held  *)
(* packets (SetInduction, FoldIs).                                         *)
(***************************************************************************)
EXTENDS NfqConn, TLAPS, WellFoundedInduction

-----------------------------------------------------------------------------
(* Induction and the fold                                                  *)

\* Induction over the numbers, with a set in place of a predicate
LEMMA SetInduction ==
  ASSUME NEW S, 0 \in S, \A n \in Nat : n \in S => n + 1 \in S
  PROVE  Nat \subseteq S
<1> DEFINE T == Nat \ S
<1> DEFINE R == {rr \in Nat \X Nat : rr[1] < rr[2]}
<1>0. R = OpToRel(<, Nat)
  BY DEF OpToRel
<1>1. IsWellFoundedOn(R, Nat)
  <2> HIDE DEF R
  <2> QED BY <1>0, NatLessThanWellFounded
<1>2. SUFFICES ASSUME T # {} PROVE FALSE
  OBVIOUS
<1>3. PICK x \in T : \A y \in T : ~ (<<y, x>> \in R)
  <2> HIDE DEF T, R
  <2>1. T \subseteq Nat
    BY DEF T
  <2> QED BY <1>1, <1>2, <2>1, WFMin
<1>4. x \in Nat /\ x # 0 /\ x - 1 \in Nat
  OBVIOUS
<1>5. <<x - 1, x>> \in R
  BY <1>4
<1>6. x - 1 \notin T
  <2> HIDE DEF T, R
  <2> QED BY <1>3, <1>5
<1>7. x - 1 \in S /\ x = (x - 1) + 1
  BY <1>4, <1>6
<1>8. x \in S
  BY <1>4, <1>7
<1> QED BY <1>8

LEMMA MaxOf ==
  ASSUME NEW n \in Nat, NEW s \in SUBSET (1 .. n), n \in s
  PROVE  Max(s) = n
<1>1. \A y \in s : n >= y
  OBVIOUS
<1>2. \A x \in s : (\A y \in s : x >= y) => x = n
  OBVIOUS
<1> QED BY <1>1, <1>2 DEF Max

\* The function that FoldLeft computes, over the sets of indices: the index
\* that is folded last is the largest.
Folds(g, b, d, n) ==
  g = [s \in SUBSET (1 .. n) |-> IF s = {} THEN b ELSE ReplayOne(g[s \ {Max(s)}], d[Max(s)])]

LEMMA FoldExists ==
  ASSUME NEW b, NEW d, NEW m \in Nat
  PROVE  \E g : Folds(g, b, d, m)
<1> DEFINE S == {n \in Nat : \E g : Folds(g, b, d, n)}
<1>1. 0 \in S
  <2>1. Folds([s \in SUBSET (1 .. 0) |-> b], b, d, 0)
    BY DEF Folds
  <2> QED BY <2>1
<1>2. ASSUME NEW n \in Nat, n \in S PROVE n + 1 \in S
  <2>1. PICK r : Folds(r, b, d, n)
    BY <1>2
  <2> DEFINE q == [s \in SUBSET (1 .. n + 1) |->
                     IF n + 1 \in s THEN ReplayOne(r[s \ {n + 1}], d[n + 1]) ELSE r[s]]
  <2>2. \A s \in SUBSET (1 .. n) : q[s] = r[s]
    OBVIOUS
  <2>3. ASSUME NEW s \in SUBSET (1 .. n + 1)
        PROVE  q[s] = IF s = {} THEN b ELSE ReplayOne(q[s \ {Max(s)}], d[Max(s)])
    <3>1. CASE n + 1 \in s
      <4>1. Max(s) = n + 1
        BY <3>1, MaxOf
      <4>2. s \ {n + 1} \in SUBSET (1 .. n)
        OBVIOUS
      <4>3. q[s \ {n + 1}] = r[s \ {n + 1}]
        BY <4>2, <2>2
      <4> HIDE DEF q
      <4> QED BY <3>1, <4>1, <4>2, <4>3 DEF q
    <3>2. CASE n + 1 \notin s
      <4>1. s \in SUBSET (1 .. n)
        BY <3>2
      <4>2. q[s] = r[s]
        BY <4>1, <2>2
      <4>3. s # {} => s \ {Max(s)} \in SUBSET (1 .. n)
        BY <4>1
      <4>4. s # {} => q[s \ {Max(s)}] = r[s \ {Max(s)}]
        BY <4>3, <2>2
      <4>5. r[s] = IF s = {} THEN b ELSE ReplayOne(r[s \ {Max(s)}], d[Max(s)])
        BY <2>1, <4>1 DEF Folds
      <4> HIDE DEF q
      <4> QED BY <4>2, <4>4, <4>5
    <3> QED BY <3>1, <3>2
  <2>4. Folds(q, b, d, n + 1)
    <3>1. q = [s \in SUBSET (1 .. n + 1) |-> q[s]]
      OBVIOUS
    <3> HIDE DEF q
    <3> QED BY <3>1, <2>3 DEF Folds
  <2> QED BY <2>4
<1>3. Nat \subseteq S
  <2> HIDE DEF S
  <2> QED BY <1>1, <1>2, SetInduction
<1> QED BY <1>3

LEMMA FoldIs ==
  ASSUME NEW b, NEW d \in Seq(Packet)
  PROVE  \E g : Folds(g, b, d, Len(d)) /\ FoldLeft(ReplayOne, b, d) = g[1 .. Len(d)]
<1>1. DOMAIN d = 1 .. Len(d) /\ Len(d) \in Nat
  OBVIOUS
<1>2. PICK g : Folds(g, b, d, Len(d))
  BY <1>1, FoldExists
<1> DEFINE it == CHOOSE i : i = [s \in SUBSET (1 .. Len(d)) |->
                                   IF s = {} THEN b ELSE ReplayOne(i[s \ {Max(s)}], d[Max(s)])]
<1>3. it = [s \in SUBSET (1 .. Len(d)) |->
              IF s = {} THEN b ELSE ReplayOne(it[s \ {Max(s)}], d[Max(s)])]
  BY <1>2 DEF Folds
<1>4. FoldLeft(ReplayOne, b, d) = it[1 .. Len(d)]
  BY <1>1 DEF FoldLeft, MapThenFoldSet
<1> QED BY <1>3, <1>4 DEF Folds

\* The fold, from its first state to its last
Replay(b, d) == FoldLeft(ReplayOne, b, d)

LEMMA FoldSteps ==
  ASSUME NEW b, NEW d \in Seq(Packet)
  PROVE  \E r : /\ r[0] = b /\ Replay(b, d) = r[Len(d)]
                /\ \A k \in 1 .. Len(d) : r[k] = ReplayOne(r[k - 1], d[k])
<1>1. PICK g : Folds(g, b, d, Len(d)) /\ FoldLeft(ReplayOne, b, d) = g[1 .. Len(d)]
  BY FoldIs
<1>2. Len(d) \in Nat
  OBVIOUS
<1> DEFINE r == [k \in 0 .. Len(d) |-> g[1 .. k]]
<1>3. r[0] = b
  <2>1. 1 .. 0 = {} /\ {} \in SUBSET (1 .. Len(d))
    OBVIOUS
  <2> QED BY <1>1, <1>2, <2>1 DEF Folds
<1>4. ASSUME NEW k \in 1 .. Len(d) PROVE r[k] = ReplayOne(r[k - 1], d[k])
  <2>1. Max(1 .. k) = k
    BY MaxOf
  <2>2. (1 .. k) \ {k} = 1 .. k - 1 /\ 1 .. k # {} /\ 1 .. k \in SUBSET (1 .. Len(d))
    OBVIOUS
  <2>3. g[1 .. k] = ReplayOne(g[1 .. k - 1], d[k])
    BY <1>1, <2>1, <2>2 DEF Folds
  <2> QED BY <1>2, <2>3
<1>5. Replay(b, d) = r[Len(d)]
  BY <1>1, <1>2 DEF Replay
<1> HIDE DEF r
<1> QED BY <1>3, <1>4, <1>5

-----------------------------------------------------------------------------
(* Sequence numbers                                                        *)

LEMMA ModIs ==
  ASSUME NEW M \in Nat, M > 0, NEW x \in (-1) .. (2 * M - 1)
  PROVE  x % M = IF x < 0 THEN x + M ELSE IF x < M THEN x ELSE x - M
OBVIOUS

\* The number of unit k of the stream
Num(k) == (cfg.isn + 1 + k) % Modulus

LEMMA NumIs ==
  ASSUME cfg.isn \in 0 .. Modulus - 1, NEW k \in 0 .. Length
  PROVE  /\ Num(k) = IF cfg.isn + 1 + k < Modulus THEN cfg.isn + 1 + k
                     ELSE cfg.isn + 1 + k - Modulus
         /\ Num(k) \in 0 .. Modulus - 1
BY ModIs, SizeAssumption DEF Num

LEMMA NumOnce ==
  ASSUME cfg.isn \in 0 .. Modulus - 1, NEW k \in 0 .. Length, NEW j \in 0 .. Length,
         Num(k) = Num(j)
  PROVE  k = j
BY NumIs, SizeAssumption

LEMMA NumNext ==
  ASSUME cfg.isn \in 0 .. Modulus - 1, NEW k \in 0 .. Length, NEW n \in 0 .. Length,
         k + n <= Length
  PROVE  (Num(k) + n) % Modulus = Num(k + n)
<1>1. Num(k) + n \in -1 .. 2 * Modulus - 1
  BY NumIs, SizeAssumption
<1> QED BY <1>1, NumIs, ModIs, SizeAssumption

\* What a packet of the client may be: it lies within the stream.
Sent == {p \in Packet : p.at + p.len <= Length}
Data == {p \in Sent : p.len > 0}

LEMMA SeqNumIs ==
  ASSUME NEW p \in Sent
  PROVE  SeqNum(p) = Num(p.at) /\ p.at \in 0 .. Length
BY DEF Sent, Packet, SeqNum, Num

LEMMA ModPrev ==
  ASSUME NEW M \in Nat, M > 0, NEW y \in 0 .. M - 1
  PROVE  (y - 1) % M = IF y = 0 THEN M - 1 ELSE y - 1
BY ModIs

LEMMA NumPrev ==
  ASSUME cfg.isn \in 0 .. Modulus - 1, NEW j \in 0 .. Length, NEW k \in 0 .. Length, k = j + 1
  PROVE  (Num(k) - 1) % Modulus = Num(j)
<1>1. Num(k) \in 0 .. Modulus - 1 /\ Modulus \in Nat /\ Modulus > 0
  BY NumIs, SizeAssumption
<1>2. (Num(k) - 1) % Modulus = IF Num(k) = 0 THEN Modulus - 1 ELSE Num(k) - 1
  BY <1>1, ModPrev
<1> QED BY <1>2, NumIs, SizeAssumption

LEMMA LastNum ==
  ASSUME cfg.isn \in 0 .. Modulus - 1, NEW p \in Data, NEW j \in 0 .. Length,
         j + 1 = p.at + p.len
  PROVE  (PosNum(p) - 1) % Modulus = Num(j)
<1>1. p.at \in 0 .. Length /\ p.len \in 1 .. Length /\ p.at + p.len <= Length
  BY DEF Data, Sent, Packet
<1>2. PosNum(p) = Num(p.at + p.len)
  BY <1>1, SeqNumIs, NumNext DEF Data, PosNum
<1>3. PICK k \in 0 .. Length : k = p.at + p.len /\ k = j + 1
  BY <1>1, SizeAssumption
<1>4. PosNum(p) = Num(k)
  BY <1>2, <1>3
<1> QED BY <1>3, <1>4, NumPrev

\* A number in the interval of the first units is one of theirs, wherever
\* the numbers wrap.
LEMMA WithinIs ==
  ASSUME cfg.isn \in 0 .. Modulus - 1, NEW a \in 0 .. Length, NEW j \in 0 .. Length,
         SeqWithin(Num(a), Num(0), Num(j))
  PROVE  a <= j
<1>1. 0 \in 0 .. Length
  BY SizeAssumption
<1> QED BY <1>1, NumIs, SizeAssumption DEF SeqWithin

-----------------------------------------------------------------------------
(* Types                                                                   *)

Profile == {"none", "first", "default"}
Request == [present : BOOLEAN, final : BOOLEAN, abandoned : BOOLEAN,
            from : 0 .. Modulus - 1, to : 0 .. Modulus - 1]
Reasm == [size : Nat, present : Nat, seq : 0 .. Modulus - 1, crypto : SUBSET Units]
Track ==
  [tracked : BOOLEAN, syn : BOOLEAN, n : Nat, dp : Profile, cut : BOOLEAN,
   l7 : BOOLEAN, l7Found : BOOLEAN, host : BOOLEAN, hostFound : BOOLEAN, checked : BOOLEAN,
   ah : BOOLEAN, retrans : 0 .. Stop, req : Request, reasm : Reasm, delayed : Seq(Data)]

\* A packet that leaves: as it came, or in the segments of the strategy
Out ==
  {Plain(p) : p \in Sent}
    \cup {[pkt |-> p, how |-> "desynced",
           segs |-> IF Tcp THEN Segments(cfg.how, Piece(o, p.len, z))
                    ELSE Unsplit(Piece(o, p.len, z))] :
          p \in Sent, o \in Nat, z \in Nat}

Handler ==
  [t : Track, dp : Profile, checked : BOOLEAN, fails : Nat, learned : BOOLEAN, out : Seq(Out),
   failed : BOOLEAN, replay : BOOLEAN, off : Nat]

\* The type invariant, of what is between two packets
TypeOK ==
  /\ cfg \in Config
  /\ t \in Track /\ fails \in Nat /\ learned \in BOOLEAN
  /\ io \in [in : Seq(Sent), out : Seq(Out), failed : BOOLEAN]
  /\ una \in 0 .. Length
  /\ gone \in SUBSET (IF Tcp THEN 0 .. Length - 1 ELSE Units)
  /\ got \in SUBSET (IF Tcp THEN 0 .. Length - 1 ELSE Units)
  /\ again \in 0 .. Threshold /\ clean \in BOOLEAN /\ losses \in Nat /\ reuses \in Nat

LEMMA PlainIs ==
  ASSUME NEW p \in Sent
  PROVE  Plain(p) \in Out /\ Plain(p).pkt = p
BY DEF Plain, Out

LEMMA DesyncedIs ==
  ASSUME NEW s \in Handler, NEW p \in Sent
  PROVE  Desynced(s, p) \in Out /\ Desynced(s, p).pkt = p
<1> DEFINE z == IF s.replay THEN s.t.reasm.present ELSE p.len
<1>1. s.off \in Nat /\ z \in Nat
  BY DEF Handler, Track, Reasm, Sent, Packet
<1>2. Desynced(s, p) =
        [pkt |-> p, how |-> "desynced",
         segs |-> IF Tcp THEN Segments(cfg.how, Piece(s.off, p.len, z))
                  ELSE Unsplit(Piece(s.off, p.len, z))]
  BY DEF Desynced
<1>3. Desynced(s, p) \in Out
  <2> HIDE DEF z
  <2> QED BY <1>1, <1>2 DEF Out
<1> QED BY <1>2, <1>3

\* The packets that some outputs stand for
Packets(out) == [i \in DOMAIN out |-> out[i].pkt]

LEMMA OutPkt ==
  ASSUME NEW o \in Out
  PROVE  o.pkt \in Sent
BY DEF Out, Plain

LEMMA PacketsType ==
  ASSUME NEW out \in Seq(Out)
  PROVE  Packets(out) \in Seq(Sent) /\ Len(Packets(out)) = Len(out)
BY OutPkt DEF Packets

LEMMA PacketsAppend ==
  ASSUME NEW out \in Seq(Out), NEW o \in Out
  PROVE  Packets(Append(out, o)) = Append(Packets(out), o.pkt)
BY OutPkt DEF Packets

LEMMA PlainAll ==
  ASSUME NEW d \in Seq(Data)
  PROVE  LET o == [i \in DOMAIN d |-> Plain(d[i])]
         IN o \in Seq(Out) /\ Packets(o) = d
<1> DEFINE o == [i \in DOMAIN d |-> Plain(d[i])]
<1>1. \A i \in DOMAIN d : Plain(d[i]) \in Out /\ Plain(d[i]).pkt = d[i]
  BY PlainIs DEF Data
<1>2. o \in Seq(Out)
  BY <1>1
<1>3. Packets(o) = d
  BY <1>1 DEF Packets
<1> QED BY <1>2, <1>3

LEMMA PacketsConcat ==
  ASSUME NEW a \in Seq(Out), NEW b \in Seq(Out)
  PROVE  Packets(a \o b) = Packets(a) \o Packets(b)
<1>0. a \o b \in Seq(Out) /\ Len(a \o b) = Len(a) + Len(b)
  OBVIOUS
<1>1. Packets(a) \in Seq(Sent) /\ Packets(b) \in Seq(Sent) /\ Packets(a \o b) \in Seq(Sent)
  BY <1>0, PacketsType
<1>2. /\ Len(Packets(a)) = Len(a) /\ Len(Packets(b)) = Len(b)
      /\ Len(Packets(a \o b)) = Len(a) + Len(b)
  BY <1>0, PacketsType
<1>3. ASSUME NEW i \in 1 .. Len(a) + Len(b)
      PROVE  Packets(a \o b)[i] = (Packets(a) \o Packets(b))[i]
  BY <1>1, <1>2 DEF Packets
<1>4. \A u, v \in Seq(Sent) : Len(u) = Len(v) /\ (\A i \in 1 .. Len(u) : u[i] = v[i]) => u = v
  OBVIOUS
<1>5. /\ Packets(a) \o Packets(b) \in Seq(Sent)
      /\ Len(Packets(a) \o Packets(b)) = Len(a) + Len(b)
  <2>1. \A u, v \in Seq(Sent) : u \o v \in Seq(Sent) /\ Len(u \o v) = Len(u) + Len(v)
    OBVIOUS
  <2> QED BY <1>1, <1>2, <2>1
<1> QED BY <1>1, <1>2, <1>3, <1>4, <1>5

-----------------------------------------------------------------------------
(* What a handler knows of the connection                                  *)

\* The counter of repeats: it stands still or is stopped, or counts one if
\* more is true; with that a failure may be counted.
Counts(s, r, more) ==
  /\ \/ r.t.retrans \in {s.t.retrans, Stop}
     \/ more /\ s.t.retrans + 1 < Threshold /\ r.t.retrans = s.t.retrans + 1
  /\ r.failed => s.failed \/ (more /\ s.t.retrans # Stop /\ s.t.retrans + 1 >= Threshold)

\* Protocol, host, profile, lists and counters may change, nothing else, and
\* of an entry that is not tracked nothing at all; a host is one that was
\* found, now only if have.
Learns(s, r, have, more) ==
  /\ r \in Handler /\ r.replay = s.replay
  /\ r.t.tracked = s.t.tracked /\ r.t.syn = s.t.syn /\ r.t.n = s.t.n /\ r.t.l7 = s.t.l7
  /\ r.t.req = s.t.req /\ r.t.reasm = s.t.reasm /\ r.t.delayed = s.t.delayed
  /\ ~s.t.tracked => r.t = s.t
  /\ r.t.hostFound => s.t.hostFound \/ have
  /\ (s.t.host => s.t.hostFound) => (r.t.host => r.t.hostFound)
  /\ Counts(s, r, more)

Moves(s, r, have, more) == Learns(s, r, have, more) /\ r.out = s.out /\ r.off = s.off

\* It may be sent besides, once.
Treats(s, r, p, have, more) ==
  \E q \in Handler, o \in Out :
    Moves(s, q, have, more) /\ o.pkt = p /\ r = [q EXCEPT !.out = Append(@, o)]

\* The counter never gets near the value that stops it.
Counting(s) == s.t.retrans = Stop \/ s.t.retrans < Threshold

LEMMA ThresholdBelow == Threshold \in 1 .. 255 /\ Stop = 255
BY ThresholdAssumption DEF Stop

LEMMA RetransIs ==
  ASSUME NEW s \in Handler
  PROVE  s.t.retrans \in 0 .. 255
BY ThresholdBelow DEF Handler, Track

LEMMA MovesStays ==
  ASSUME NEW s \in Handler, NEW have, NEW more
  PROVE  Moves(s, s, have, more)
BY DEF Moves, Learns, Counts

LEMMA LearnsOn ==
  ASSUME NEW s \in Handler, NEW q, NEW r, NEW have, NEW more,
         Learns(s, q, have, FALSE), Learns(q, r, have, more)
  PROVE  Learns(s, r, have, more)
<1>1. q \in Handler /\ q.t \in Track /\ s.t \in Track /\ s.t.retrans \in 0 .. Stop
  BY DEF Learns, Handler, Track
<1>2. Counts(s, r, more)
  BY <1>1, ThresholdBelow DEF Learns, Counts
<1> QED BY <1>1, <1>2 DEF Learns

LEMMA LearnsThen ==
  ASSUME NEW s \in Handler, NEW q, NEW r, NEW have, NEW more,
         Learns(s, q, have, more), Learns(q, r, have, FALSE)
  PROVE  Learns(s, r, have, more)
<1>1. q \in Handler /\ q.t \in Track /\ s.t \in Track /\ s.t.retrans \in 0 .. Stop
  BY DEF Learns, Handler, Track
<1>2. Counts(s, r, more)
  BY <1>1, ThresholdBelow DEF Learns, Counts
<1> QED BY <1>1, <1>2 DEF Learns

LEMMA LearnsCounting ==
  ASSUME NEW s \in Handler, NEW r, NEW have, NEW more, Counting(s), Learns(s, r, have, more)
  PROVE  Counting(r)
BY ThresholdBelow DEF Learns, Counts, Counting, Handler, Track

LEMMA MovesOn ==
  ASSUME NEW s \in Handler, NEW q, NEW r, NEW have, NEW more,
         Moves(s, q, have, FALSE), Moves(q, r, have, more)
  PROVE  Moves(s, r, have, more)
BY LearnsOn DEF Moves

LEMMA MovesThen ==
  ASSUME NEW s \in Handler, NEW q, NEW r, NEW have, NEW more,
         Moves(s, q, have, more), Moves(q, r, have, FALSE)
  PROVE  Moves(s, r, have, more)
BY LearnsThen DEF Moves

LEMMA MovesCounting ==
  ASSUME NEW s \in Handler, NEW r, NEW have, NEW more,
         Counting(s), Moves(s, r, have, more)
  PROVE  Counting(r)
BY ThresholdBelow DEF Moves, Learns, Counts, Counting, Handler, Track

\* What may be found, or counted, may be so under a weaker premise.
LEMMA MovesWeaker ==
  ASSUME NEW s \in Handler, NEW r, NEW h, NEW m,
         NEW have, NEW more,
         Moves(s, r, h, m), h => have, m => more
  PROVE  Moves(s, r, have, more)
BY DEF Moves, Learns, Counts

LEMMA MaybeCutoffMoves ==
  ASSUME cfg \in Config, NEW s \in Handler
  PROVE  Moves(s, MaybeCutoff(s), FALSE, FALSE)
<1> DEFINE c == \/ s.t.cut
                \/ /\ s.t.tracked /\ s.t.dp = "first"
                   /\ cfg.cutoff # 0 /\ s.t.n >= cfg.cutoff
<1>1. c \in BOOLEAN /\ (~s.t.tracked => c = s.t.cut)
  BY DEF Handler, Track
<1>2. MaybeCutoff(s) = [s EXCEPT !.t = [@ EXCEPT !.cut = c]]
  BY DEF MaybeCutoff, Handler
<1> HIDE DEF c
<1> DEFINE b == [s.t EXCEPT !.cut = c]
<1> DEFINE r == [s EXCEPT !.t = b]
<1>3. /\ b \in Track /\ b.tracked = s.t.tracked /\ b.syn = s.t.syn /\ b.n = s.t.n /\ b.l7 = s.t.l7
      /\ b.req = s.t.req /\ b.reasm = s.t.reasm /\ b.delayed = s.t.delayed
      /\ b.host = s.t.host /\ b.hostFound = s.t.hostFound /\ b.retrans = s.t.retrans
  BY <1>1 DEF Handler, Track
<1>4. ~s.t.tracked => b = s.t
  BY <1>1 DEF Handler, Track
<1> HIDE DEF b
<1>5. /\ r \in Handler /\ r.t = b /\ r.out = s.out /\ r.replay = s.replay /\ r.off = s.off
      /\ r.failed = s.failed
  BY <1>3 DEF Handler
<1>6. MaybeCutoff(s) = r
  BY <1>2 DEF b, Handler
<1> HIDE DEF r
<1> QED BY <1>3, <1>4, <1>5, <1>6 DEF Moves, Learns, Counts

\* Only a tracked connection is watched.
Watched(s) == s.t.ah => s.t.tracked

LEMMA StopRetransCounterMoves ==
  ASSUME cfg \in Config, NEW s \in Handler, Watched(s)
  PROVE  Moves(s, StopRetransCounter(s), FALSE, FALSE)
<1> DEFINE q == [s EXCEPT !.t = [@ EXCEPT !.retrans = Stop]]
<1>1. CASE s.t.ah /\ s.t.tracked
  <2>0. Stop \in 0 .. Stop
    BY DEF Stop
  <2>1. Moves(s, q, FALSE, FALSE)
    BY <1>1, <2>0 DEF Moves, Learns, Counts, Handler, Track
  <2>2. Moves(q, MaybeCutoff(q), FALSE, FALSE)
    BY <2>1, MaybeCutoffMoves DEF Moves, Learns
  <2>3. Moves(s, MaybeCutoff(q), FALSE, FALSE)
    <3> HIDE DEF q
    <3> QED BY <2>1, <2>2, MovesOn
  <2>4. StopRetransCounter(s) = MaybeCutoff(q)
    BY <1>1 DEF StopRetransCounter
  <2> QED BY <2>3, <2>4
<1>2. CASE ~s.t.ah
  BY <1>2, MovesStays DEF StopRetransCounter
<1> QED BY <1>1, <1>2 DEF Watched, Handler, Track

LEMMA AutoHostlistFailedMoves ==
  ASSUME cfg \in Config, NEW s \in Handler
  PROVE  Moves(s, AutoHostlistFailed(s), FALSE, FALSE)
<1>1. CASE s.fails + 1 < FailThreshold
  BY <1>1 DEF AutoHostlistFailed, Moves, Learns, Counts, Handler
<1>2. CASE ~(s.fails + 1 < FailThreshold)
  <2> DEFINE l == s.learned \/ cfg.host = "unlisted"
  <2>1. AutoHostlistFailed(s) = [s EXCEPT !.fails = 0, !.learned = l]
    BY <1>2 DEF AutoHostlistFailed, Handler
  <2>2. l \in BOOLEAN
    BY DEF Handler
  <2> DEFINE r == [s EXCEPT !.fails = 0, !.learned = l]
  <2>3. r \in Handler
    <3> HIDE DEF l
    <3> QED BY <2>2 DEF Handler
  <2>4. r.t = s.t /\ r.out = s.out /\ r.replay = s.replay /\ r.off = s.off /\ r.failed = s.failed
    <3> HIDE DEF l
    <3> QED BY DEF Handler
  <2> HIDE DEF r
  <2> QED BY <2>1, <2>3, <2>4 DEF Moves, Learns, Counts, r
<1> QED BY <1>1, <1>2

\* A repeat is counted; when there have been enough a failure is.
LEMMA CountRetransMoves ==
  ASSUME cfg \in Config, NEW s \in Handler, s.t.ah, s.t.tracked, Counting(s), s.t.retrans # Stop
  PROVE  Moves(s, CountRetrans(s), FALSE, TRUE)
<1>1. CASE s.t.retrans + 1 < Threshold
  <2> DEFINE q == [s EXCEPT !.t = [@ EXCEPT !.retrans = s.t.retrans + 1]]
  <2>1. s.t.retrans \in 0 .. Stop /\ s.t.retrans + 1 \in 0 .. Stop
    BY <1>1, RetransIs, ThresholdBelow
  <2>2. Moves(s, q, FALSE, TRUE)
    BY <1>1, <2>1 DEF Moves, Learns, Counts, Handler, Track
  <2> QED BY <1>1, <2>2 DEF CountRetrans
<1>2. CASE ~(s.t.retrans + 1 < Threshold)
  <2> DEFINE a == StopRetransCounter(s)
  <2> DEFINE b == AutoHostlistFailed(a)
  <2>1. Moves(s, a, FALSE, FALSE)
    BY StopRetransCounterMoves DEF Watched
  <2>2. a \in Handler /\ Moves(a, b, FALSE, FALSE)
    <3> HIDE DEF a
    <3> QED BY <2>1, AutoHostlistFailedMoves DEF Moves, Learns
  <2>3. Moves(s, b, FALSE, FALSE)
    BY <2>1, <2>2, MovesOn
  <2> DEFINE r == [b EXCEPT !.failed = TRUE]
  <2>4. CountRetrans(s) = r
    BY <1>2 DEF CountRetrans
  <2>5. s.t.retrans + 1 >= Threshold
    <3> DEFINE n == s.t.retrans
    <3>1. n \in 0 .. 255
      BY RetransIs
    <3>2. ~(n + 1 < Threshold)
      BY <1>2
    <3> HIDE DEF n
    <3>3. n + 1 >= Threshold
      BY <3>1, <3>2, ThresholdBelow
    <3> QED BY <3>3 DEF n
  <2> HIDE DEF b
  <2>6. Moves(s, r, FALSE, TRUE)
    BY <2>3, <2>5 DEF Moves, Learns, Counts, Handler
  <2> QED BY <2>4, <2>6
<1> QED BY <1>1, <1>2

\* Of TCP only a packet within the request is a repeat.
IsRepeat(s, p) == s.t.host /\ (Tcp => InRequest(s, p))

LEMMA ProcessRetransFailMoves ==
  ASSUME cfg \in Config, NEW s \in Handler, NEW p \in Sent, Watched(s), Counting(s)
  PROVE  Moves(s, ProcessRetransFail(s, p), FALSE, IsRepeat(s, p))
<1>1. IsRepeat(s, p) \in BOOLEAN
  BY DEF IsRepeat, Handler, Track, InRequest
<1>2. CASE ~Watches(s)
  <2>1. Moves(s, s, FALSE, IsRepeat(s, p))
    BY <1>1, MovesStays
  <2>2. ProcessRetransFail(s, p) = s
    BY <1>2 DEF ProcessRetransFail
  <2> QED BY <2>1, <2>2
<1>3. CASE Watches(s) /\ Tcp /\ ~InRequest(s, p)
  <2> DEFINE a == StopRetransCounter(s)
  <2>1. Moves(s, a, FALSE, FALSE)
    BY StopRetransCounterMoves
  <2>2. Moves(s, [a EXCEPT !.fails = 0], FALSE, FALSE)
    <3> HIDE DEF a
    <3> QED BY <2>1 DEF Moves, Learns, Counts, Handler
  <2>3. ProcessRetransFail(s, p) = [a EXCEPT !.fails = 0]
    BY <1>3 DEF ProcessRetransFail
  <2> HIDE DEF a
  <2> QED BY <1>1, <2>2, <2>3, MovesWeaker
<1>4. CASE Watches(s) /\ ~(Tcp /\ ~InRequest(s, p))
  <2>1. ProcessRetransFail(s, p) = CountRetrans(s)
    BY <1>4 DEF ProcessRetransFail
  <2>2. Moves(s, CountRetrans(s), FALSE, TRUE)
    BY <1>4, CountRetransMoves DEF Watched, Watches
  <2>3. IsRepeat(s, p)
    BY <1>4 DEF IsRepeat, Watches
  <2>4. IsRepeat(s, p) = TRUE
    BY <1>1, <2>3
  <2> QED BY <2>1, <2>2, <2>4
<1> QED BY <1>2, <1>3, <1>4

-----------------------------------------------------------------------------
(* What becomes of a packet once protocol and host are known               *)

\* Nothing is held but what is being replayed.
Ready(s) == s.t.delayed = <<>> /\ (s.replay \/ s.t.reasm = NoReasm)

LEMMA MovesReady ==
  ASSUME NEW s \in Handler, NEW r, NEW have, NEW more,
         Moves(s, r, have, more), Ready(s)
  PROVE  Ready(r)
BY DEF Moves, Learns, Ready

LEMMA MovesWatched ==
  ASSUME NEW s \in Handler, NEW r, NEW have, NEW more,
         Moves(s, r, have, more), Watched(s)
  PROVE  Watched(r)
BY DEF Moves, Learns, Watched

LEMMA TreatsOn ==
  ASSUME NEW s \in Handler, NEW q, NEW r, NEW p \in Sent,
         NEW have, NEW more,
         Moves(s, q, have, FALSE), Treats(q, r, p, have, more)
  PROVE  Treats(s, r, p, have, more)
<1>1. PICK x \in Handler, o \in Out :
        Moves(q, x, have, more) /\ o.pkt = p /\ r = [x EXCEPT !.out = Append(@, o)]
  BY DEF Treats
<1>2. Moves(s, x, have, more)
  BY <1>1, MovesOn
<1> QED BY <1>1, <1>2 DEF Treats

LEMMA TreatsThen ==
  ASSUME NEW s \in Handler, NEW q, NEW r, NEW p \in Sent,
         NEW have, NEW more,
         Moves(s, q, have, more), Treats(q, r, p, have, FALSE)
  PROVE  Treats(s, r, p, have, more)
<1>1. PICK x \in Handler, o \in Out :
        Moves(q, x, have, FALSE) /\ o.pkt = p /\ r = [x EXCEPT !.out = Append(@, o)]
  BY DEF Treats
<1>2. Moves(s, x, have, more)
  BY <1>1, MovesThen
<1> QED BY <1>1, <1>2 DEF Treats

LEMMA TreatsWeaker ==
  ASSUME NEW s \in Handler, NEW r, NEW p \in Sent, NEW h, NEW m,
         NEW have, NEW more,
         Treats(s, r, p, h, m), h => have, m => more
  PROVE  Treats(s, r, p, have, more)
<1>1. PICK x \in Handler, o \in Out :
        Moves(s, x, h, m) /\ o.pkt = p /\ r = [x EXCEPT !.out = Append(@, o)]
  BY DEF Treats
<1>2. Moves(s, x, have, more)
  BY <1>1, MovesWeaker
<1> QED BY <1>1, <1>2 DEF Treats

LEMMA SendsTreats ==
  ASSUME NEW s \in Handler, NEW p \in Sent, NEW o \in Out, o.pkt = p,
         NEW have, NEW more
  PROVE  Treats(s, [s EXCEPT !.out = Append(@, o)], p, have, more)
<1>1. Moves(s, s, have, more)
  BY MovesStays
<1> QED BY <1>1 DEF Treats

LEMMA SendOrigTreats ==
  ASSUME NEW s \in Handler, NEW p \in Sent, NEW have, NEW more
  PROVE  Treats(s, SendOrig(s, p), p, have, more)
BY PlainIs, SendsTreats DEF SendOrig

LEMMA NoReasmType == NoReasm \in Reasm
BY SizeAssumption DEF NoReasm, Reasm

\* What Cancel does: all that is held goes out.
LEMMA CancelIs ==
  ASSUME NEW s \in Handler, ~s.replay
  PROVE  LET r == Cancel(s)
         IN /\ r \in Handler
            /\ r.t = [s.t EXCEPT !.reasm = NoReasm, !.delayed = <<>>]
            /\ Packets(r.out) = Packets(s.out) \o s.t.delayed
            /\ r.replay = s.replay /\ r.off = s.off /\ r.failed = s.failed /\ r.dp = s.dp
            /\ r.checked = s.checked /\ r.fails = s.fails /\ r.learned = s.learned
<1> DEFINE o == [i \in DOMAIN s.t.delayed |-> Plain(s.t.delayed[i])]
<1>1. s.t.delayed \in Seq(Data) /\ s.out \in Seq(Out) /\ s.t \in Track
  BY DEF Handler, Track
<1>2. o \in Seq(Out) /\ Packets(o) = s.t.delayed
  BY <1>1, PlainAll
<1> DEFINE r == [s EXCEPT !.out = s.out \o o, !.t = [s.t EXCEPT !.reasm = NoReasm, !.delayed = <<>>]]
<1>3. Cancel(s) = r
  BY DEF Cancel, SendDelayed, Handler, Track
<1> HIDE DEF o
<1>4. s.out \o o \in Seq(Out) /\ Packets(s.out \o o) = Packets(s.out) \o s.t.delayed
  <2>1. \A a, b \in Seq(Out) : a \o b \in Seq(Out)
    OBVIOUS
  <2> QED BY <1>1, <1>2, <2>1, PacketsConcat
<1>5. <<>> \in Seq(Data)
  OBVIOUS
<1>6. r \in Handler
  BY <1>1, <1>4, <1>5, NoReasmType DEF Handler, Track
<1> QED BY <1>3, <1>4, <1>6 DEF Handler

LEMMA CancelReady ==
  ASSUME NEW s \in Handler, Ready(s)
  PROVE  Cancel(s) = s
<1>1. CASE s.replay
  BY <1>1 DEF Cancel
<1>2. CASE ~s.replay
  <2>1. s.t.delayed = <<>> /\ s.t.reasm = NoReasm
    BY <1>2 DEF Ready
  <2> DEFINE o == [i \in DOMAIN s.t.delayed |-> Plain(s.t.delayed[i])]
  <2>2. o = <<>>
    BY <2>1
  <2> HIDE DEF o
  <2>3. s.out \in Seq(Out) /\ s.out \o o = s.out
    BY <2>2 DEF Handler
  <2> DEFINE b == [s.t EXCEPT !.reasm = NoReasm, !.delayed = <<>>]
  <2>4. b = s.t
    BY <2>1 DEF Handler, Track
  <2>5. Cancel(s) = [s EXCEPT !.out = s.out \o o, !.t = b]
    BY <1>2 DEF Cancel, SendDelayed, Handler, Track, o
  <2> HIDE DEF b
  <2>6. [s EXCEPT !.out = s.out, !.t = s.t] = s
    BY DEF Handler
  <2> QED BY <2>3, <2>4, <2>5, <2>6
<1> QED BY <1>1, <1>2

LEMMA CancelAndSendTreats ==
  ASSUME NEW s \in Handler, NEW p \in Sent, Ready(s), NEW have, NEW more
  PROVE  Treats(s, CancelAndSend(s, p), p, have, more)
BY CancelReady, SendOrigTreats DEF CancelAndSend

LEMMA DesyncTreats ==
  ASSUME NEW s \in Handler, NEW p \in Sent, Ready(s)
  PROVE  Treats(s, Desync(s, p), p, FALSE, FALSE)
BY CancelAndSendTreats, DesyncedIs, SendsTreats DEF Desync

LEMMA RefuseTreats ==
  ASSUME cfg \in Config, NEW s \in Handler, NEW p \in Sent, NEW newHost \in BOOLEAN,
         Ready(s), Watched(s), Counting(s)
  PROVE  Treats(s, Refuse(s, p, newHost), p, FALSE, ~Tcp /\ ~newHost /\ s.off = 0)
<1> DEFINE a == cfg.lists = "auto" /\ cfg.host # "excluded"
<1> DEFINE s1 == IF s.t.tracked THEN [s EXCEPT !.t.ah = a] ELSE s
<1> DEFINE more == ~Tcp /\ ~newHost /\ s.off = 0
<1>1. Moves(s, s1, FALSE, FALSE)
  <2>1. CASE s.t.tracked
    <3>1. s1 = [s EXCEPT !.t = [s.t EXCEPT !.ah = a]]
      BY <2>1
    <3>2. a \in BOOLEAN
      OBVIOUS
    <3> HIDE DEF a, s1
    <3> QED BY <2>1, <3>1, <3>2 DEF Moves, Learns, Counts, Handler, Track
  <2>2. CASE ~s.t.tracked
    BY <2>2, MovesStays
  <2> QED BY <2>1, <2>2 DEF Handler, Track
<1>2. s1 \in Handler /\ s1.off = s.off /\ Ready(s1) /\ Watched(s1) /\ Counting(s1)
  <2> HIDE DEF s1
  <2> QED BY <1>1, MovesReady, MovesWatched, MovesCounting DEF Moves, Learns
<1>3. more \in BOOLEAN
  BY DEF Tcp
<1>4. CASE Tcp
  <2>1. Refuse(s, p, newHost) = CancelAndSend(s1, p)
    BY <1>4 DEF Refuse
  <2> HIDE DEF s1, more
  <2> QED BY <1>1, <1>2, <1>3, <2>1, CancelAndSendTreats, TreatsOn DEF more
<1>5. CASE ~Tcp /\ s1.t.ah /\ ~newHost /\ s.off = 0
  <2> DEFINE q == ProcessRetransFail(s1, p)
  <2>1. Refuse(s, p, newHost) = SendOrig(q, p)
    BY <1>5 DEF Refuse
  <2>2. Moves(s1, q, FALSE, IsRepeat(s1, p)) /\ IsRepeat(s1, p) \in BOOLEAN
    <3> HIDE DEF s1
    <3> QED BY <1>2, ProcessRetransFailMoves DEF IsRepeat, InRequest, Handler, Track
  <2>3. more
    BY <1>5
  <2> HIDE DEF s1, more, q
  <2>4. Moves(s1, q, FALSE, more) /\ q \in Handler
    BY <1>2, <1>3, <2>2, <2>3, MovesWeaker DEF Moves, Learns
  <2>5. Moves(s, q, FALSE, more)
    BY <1>1, <1>3, <2>4, MovesOn
  <2>6. Treats(q, SendOrig(q, p), p, FALSE, FALSE)
    BY <2>4, SendOrigTreats
  <2> QED BY <1>3, <2>1, <2>5, <2>6, TreatsThen DEF more
<1>6. CASE ~Tcp /\ ~(s1.t.ah /\ ~newHost /\ s.off = 0)
  <2>1. Refuse(s, p, newHost) = SendOrig(s1, p)
    BY <1>6 DEF Refuse
  <2> HIDE DEF s1, more
  <2>2. Treats(s1, SendOrig(s1, p), p, FALSE, more)
    BY <1>2, <1>3, SendOrigTreats
  <2> QED BY <1>1, <1>3, <2>1, <2>2, TreatsOn DEF more
<1> QED BY <1>4, <1>5, <1>6

\* The host may be watched: a repeat may be counted, of QUIC only and only
\* for the first of the packets that are replayed.
LEMMA JudgeTreats ==
  ASSUME cfg \in Config, NEW s \in Handler, NEW p \in Sent, NEW l7, NEW have, NEW newHost \in BOOLEAN,
         Ready(s), Watched(s), Counting(s)
  PROVE  Treats(s, Judge(s, p, l7, have, newHost), p, FALSE,
                ~Tcp /\ have /\ ~newHost /\ s.off = 0)
<1> DEFINE more == ~Tcp /\ have /\ ~newHost /\ s.off = 0
<1> DEFINE checks == have /\ s.dp = "first" /\ cfg.lists # "none"
<1> DEFINE listed == s.checked \/ InList(s.learned)
<1>1. CASE checks /\ ~listed
  <2>1. Judge(s, p, l7, have, newHost) = Refuse(s, p, newHost)
    BY <1>1 DEF Judge
  <2>2. Treats(s, Refuse(s, p, newHost), p, FALSE, ~Tcp /\ ~newHost /\ s.off = 0)
    BY RefuseTreats
  <2>3. ~Tcp /\ ~newHost /\ s.off = 0 => more
    BY <1>1
  <2> HIDE DEF more, checks
  <2>4. Treats(s, Refuse(s, p, newHost), p, FALSE, more)
    BY <2>2, <2>3, TreatsWeaker
  <2> QED BY <2>1, <2>4 DEF more
<1>2. CASE checks /\ listed
  <2> DEFINE q == StopRetransCounter(s)
  <2>1. Judge(s, p, l7, have, newHost) = Desync(q, p)
    BY <1>2 DEF Judge
  <2> HIDE DEF more, checks
  <2>2. Moves(s, q, FALSE, FALSE)
    BY StopRetransCounterMoves
  <2> HIDE DEF q
  <2>3. q \in Handler /\ Ready(q)
    BY <2>2, MovesReady DEF Moves, Learns
  <2>4. Treats(q, Desync(q, p), p, FALSE, FALSE)
    BY <2>3, DesyncTreats
  <2>5. Treats(s, Desync(q, p), p, FALSE, FALSE)
    BY <2>2, <2>4, TreatsOn
  <2>6. Treats(s, Desync(q, p), p, FALSE, more)
    BY <2>5, TreatsWeaker
  <2> QED BY <2>1, <2>6 DEF more
<1>3. CASE ~checks /\ Tcp /\ ~l7 /\ ~AnyProto(s.dp)
  <2>1. Judge(s, p, l7, have, newHost) = CancelAndSend(s, p)
    BY <1>3 DEF Judge
  <2> QED BY <2>1, CancelAndSendTreats
<1>4. CASE ~checks /\ ~(Tcp /\ ~l7 /\ ~AnyProto(s.dp))
  <2>1. Judge(s, p, l7, have, newHost) = Desync(s, p)
    BY <1>4 DEF Judge
  <2> HIDE DEF more, checks
  <2>2. Treats(s, Desync(s, p), p, FALSE, more)
    BY DesyncTreats, TreatsWeaker
  <2> QED BY <2>1, <2>2 DEF more
<1> QED BY <1>1, <1>2, <1>3, <1>4

\* A host is one that was found.
Hosted(s) == s.t.host => s.t.hostFound

LEMMA RevealMoves ==
  ASSUME NEW s \in Handler, NEW newL7 \in BOOLEAN, NEW newHost \in BOOLEAN
  PROVE  Moves(s, Reveal(s, newL7, newHost), newHost, FALSE)
<1>1. CASE s.t.tracked
  <2> DEFINE a == s.t.l7Found \/ newL7
  <2> DEFINE b == s.t.host \/ newHost
  <2> DEFINE c == s.t.hostFound \/ newHost
  <2> DEFINE q == [s EXCEPT !.t = [s.t EXCEPT !.l7Found = a, !.host = b, !.hostFound = c]]
  <2>1. Reveal(s, newL7, newHost) = q
    BY <1>1 DEF Reveal, Handler, Track
  <2>2. a \in BOOLEAN /\ b \in BOOLEAN /\ c \in BOOLEAN
    BY DEF Handler, Track
  <2>3. q \in Handler
    <3> HIDE DEF a, b, c
    <3> QED BY <2>2 DEF Handler, Track
  <2>4. /\ q.out = s.out /\ q.replay = s.replay /\ q.off = s.off /\ q.failed = s.failed
        /\ q.t = [s.t EXCEPT !.l7Found = a, !.host = b, !.hostFound = c]
    <3> HIDE DEF a, b, c
    <3> QED BY DEF Handler
  <2>5. /\ q.t.tracked = s.t.tracked /\ q.t.syn = s.t.syn /\ q.t.n = s.t.n /\ q.t.l7 = s.t.l7
        /\ q.t.req = s.t.req /\ q.t.reasm = s.t.reasm /\ q.t.delayed = s.t.delayed
        /\ q.t.host = b /\ q.t.hostFound = c /\ q.t.retrans = s.t.retrans
    <3> HIDE DEF a, b, c, q
    <3> QED BY <2>4 DEF Handler, Track
  <2> HIDE DEF q
  <2> QED BY <1>1, <2>1, <2>3, <2>4, <2>5 DEF Moves, Learns, Counts
<1>2. CASE ~s.t.tracked
  BY <1>2, MovesStays DEF Reveal
<1> QED BY <1>1, <1>2 DEF Handler, Track

LEMMA ReprofileMoves ==
  ASSUME NEW s \in Handler, NEW dp \in Profile
  PROVE  Moves(s, Reprofile(s, dp), FALSE, FALSE)
<1> DEFINE c == dp = "first" /\ cfg.lists = "list"
<1> DEFINE a == IF s.t.tracked THEN dp ELSE s.t.dp
<1> DEFINE b == IF s.t.tracked THEN c ELSE s.t.checked
<1> DEFINE q == [s EXCEPT !.dp = dp, !.checked = c, !.t = [s.t EXCEPT !.dp = a, !.checked = b]]
<1>1. Reprofile(s, dp) = q
  BY DEF Reprofile, Handler, Track
<1>2. a \in Profile /\ b \in BOOLEAN /\ c \in BOOLEAN
  BY DEF Handler, Track
<1>3. ~s.t.tracked => [s.t EXCEPT !.dp = a, !.checked = b] = s.t
  BY DEF Handler, Track
<1>4. q \in Handler
  <2> HIDE DEF a, b, c
  <2> QED BY <1>2 DEF Handler, Track
<1>5. /\ q.out = s.out /\ q.replay = s.replay /\ q.off = s.off /\ q.failed = s.failed
      /\ q.t = [s.t EXCEPT !.dp = a, !.checked = b]
  <2> HIDE DEF a, b, c
  <2> QED BY DEF Handler
<1>6. /\ q.t.tracked = s.t.tracked /\ q.t.syn = s.t.syn /\ q.t.n = s.t.n /\ q.t.l7 = s.t.l7
      /\ q.t.req = s.t.req /\ q.t.reasm = s.t.reasm /\ q.t.delayed = s.t.delayed
      /\ q.t.host = s.t.host /\ q.t.hostFound = s.t.hostFound /\ q.t.retrans = s.t.retrans
  <2> HIDE DEF a, b, c, q
  <2> QED BY <1>5 DEF Handler, Track
<1> HIDE DEF q, a, b
<1> QED BY <1>1, <1>3, <1>4, <1>5, <1>6 DEF Moves, Learns, Counts

LEMMA DpFindType ==
  ASSUME NEW a, NEW b, NEW c
  PROVE  DpFind(a, b, c) \in {"first", "default"}
BY DEF DpFind

LEMMA RecutMoves ==
  ASSUME cfg \in Config, NEW s \in Handler, NEW moved
  PROVE  Moves(s, Recut(s, moved), FALSE, FALSE)
BY MaybeCutoffMoves, MovesStays DEF Recut

\* Whatever is found, the packet is treated.
LEMMA DiscoverTreats ==
  ASSUME cfg \in Config, NEW s \in Handler, NEW p \in Sent, NEW l7 \in BOOLEAN, NEW have \in BOOLEAN,
         Ready(s), Watched(s), Counting(s)
  PROVE  Treats(s, Discover(s, p, l7, have), p, have,
                ~Tcp /\ have /\ s.t.hostFound /\ s.off = 0)
<1> DEFINE more == ~Tcp /\ have /\ s.t.hostFound /\ s.off = 0
<1> DEFINE newL7 == IF s.t.tracked THEN s.t.l7 /\ ~s.t.l7Found ELSE l7
<1> DEFINE newHost == have /\ ~s.t.hostFound
<1> DEFINE host == IF s.t.tracked THEN s.t.host \/ newHost ELSE have
<1> DEFINE dp == DpFind(host, IF s.t.tracked THEN s.t.l7 ELSE l7, s.learned)
<1> DEFINE found == newL7 \/ newHost
<1> DEFINE moved == dp # s.dp
<1> DEFINE a == Reveal(s, newL7, newHost)
<1> DEFINE b == Reprofile(a, dp)
<1> DEFINE c == [s EXCEPT !.checked = s.t.checked]
<1> DEFINE s1 == IF found THEN Recut(b, moved) ELSE c
<1>1. newL7 \in BOOLEAN /\ newHost \in BOOLEAN /\ dp \in Profile /\ (newHost => have)
  <2>1. newL7 \in BOOLEAN /\ newHost \in BOOLEAN /\ (newHost => have)
    BY DEF Handler, Track
  <2> HIDE DEF host
  <2>2. dp \in {"first", "default"}
    BY DpFindType
  <2> HIDE DEF newL7, newHost, dp
  <2> QED BY <2>1, <2>2 DEF Profile
<1>2. Discover(s, p, l7, have) = DesyncUnlessCut(s1, found /\ moved, p, l7, have, newHost)
  BY DEF Discover
<1>3. more => ~newHost
  OBVIOUS
<1>4. have /\ ~newHost => s.t.hostFound
  OBVIOUS
<1>5. Moves(s, s1, have, FALSE)
  <2>1. CASE found
    <3>1. Moves(s, a, newHost, FALSE)
      <4> HIDE DEF newL7, newHost
      <4> QED BY <1>1, RevealMoves
    <3>2. Moves(s, a, have, FALSE) /\ a \in Handler
      <4> HIDE DEF a
      <4> QED BY <1>1, <3>1, MovesWeaker DEF Moves, Learns
    <3>3. Moves(a, b, FALSE, FALSE) /\ b \in Handler
      <4> HIDE DEF a, dp
      <4>1. Moves(a, b, FALSE, FALSE)
        BY <1>1, <3>2, ReprofileMoves
      <4> HIDE DEF b
      <4> QED BY <4>1 DEF Moves, Learns
    <3>4. Moves(b, Recut(b, moved), FALSE, FALSE)
      <4> HIDE DEF b
      <4> QED BY <3>3, RecutMoves
    <3>5. Moves(a, Recut(b, moved), FALSE, FALSE)
      <4> HIDE DEF a, b, moved
      <4> QED BY <3>2, <3>3, <3>4, MovesOn
    <3>6. Moves(a, Recut(b, moved), have, FALSE)
      <4> HIDE DEF a, b, moved
      <4> QED BY <3>2, <3>5, MovesWeaker
    <3>7. Moves(s, Recut(b, moved), have, FALSE)
      <4> HIDE DEF a, b, moved
      <4> QED BY <3>2, <3>6, MovesOn
    <3> QED BY <2>1, <3>7
  <2>2. CASE ~found
    <3>1. s.t.checked \in BOOLEAN
      BY DEF Handler, Track
    <3>2. Moves(s, c, have, FALSE)
      BY <3>1 DEF Moves, Learns, Counts, Handler
    <3> QED BY <2>2, <3>2
  <2> QED BY <2>1, <2>2
<1> HIDE DEF s1, newHost, newL7, found, moved, dp, host
<1>6. s1 \in Handler /\ s1.off = s.off /\ Ready(s1) /\ Watched(s1) /\ Counting(s1)
  BY <1>5, MovesReady, MovesWatched, MovesCounting DEF Moves, Learns
<1> DEFINE r == DesyncUnlessCut(s1, found /\ moved, p, l7, have, newHost)
<1>7. Treats(s1, r, p, have, more)
  <2>1. CASE r = CancelAndSend(s1, p)
    <3>1. Treats(s1, CancelAndSend(s1, p), p, have, more)
      <4> HIDE DEF more
      <4> QED BY <1>6, CancelAndSendTreats
    <3> QED BY <2>1, <3>1
  <2>2. CASE r = Judge(s1, p, l7, have, newHost)
    <3> DEFINE m == ~Tcp /\ have /\ ~newHost /\ s1.off = 0
    <3>1. Treats(s1, Judge(s1, p, l7, have, newHost), p, FALSE, m)
      BY <1>1, <1>6, JudgeTreats
    <3>2. m => more
      BY <1>4, <1>6
    <3> HIDE DEF m, more
    <3>3. Treats(s1, Judge(s1, p, l7, have, newHost), p, have, more)
      BY <1>6, <3>1, <3>2, TreatsWeaker
    <3> HIDE DEF r
    <3> QED BY <2>2, <3>3
  <2> QED BY <2>1, <2>2 DEF DesyncUnlessCut
<1> HIDE DEF r, more
<1>8. Treats(s, r, p, have, more)
  BY <1>5, <1>7, TreatsOn
<1> QED BY <1>2, <1>8 DEF r, more

LEMMA HelloDesyncTreats ==
  ASSUME cfg \in Config, NEW s \in Handler, NEW p \in Sent, NEW have \in BOOLEAN,
         Ready(s), Watched(s), Counting(s)
  PROVE  Treats(s, HelloDesync(s, p, have), p, have, ~Tcp /\ s.t.hostFound /\ s.off = 0)
<1> DEFINE m == ~Tcp /\ have /\ s.t.hostFound /\ s.off = 0
<1> DEFINE more == ~Tcp /\ s.t.hostFound /\ s.off = 0
<1>1. CASE have
  <2>1. HelloDesync(s, p, have) = Discover(s, p, TRUE, have)
    BY <1>1 DEF HelloDesync
  <2>2. Treats(s, Discover(s, p, TRUE, have), p, have, m)
    BY DiscoverTreats
  <2>3. m => more
    OBVIOUS
  <2> HIDE DEF m, more
  <2> DEFINE d == Discover(s, p, TRUE, have)
  <2> HIDE DEF d
  <2>4. \A h : Treats(s, d, p, h, m) => Treats(s, d, p, h, more)
    BY <2>3, TreatsWeaker
  <2>5. Treats(s, d, p, have, m)
    BY <2>2 DEF d
  <2>6. Treats(s, d, p, have, more)
    BY <2>4, <2>5
  <2> QED BY <2>1, <2>6 DEF more, d
<1>2. CASE ~have
  BY <1>2, CancelAndSendTreats DEF HelloDesync
<1> QED BY <1>1, <1>2

-----------------------------------------------------------------------------
(* The replay of what was held                                             *)

LEMMA TreatsIs ==
  ASSUME NEW s \in Handler, NEW r, NEW p \in Sent, NEW have, NEW more,
         Treats(s, r, p, have, more)
  PROVE  /\ Learns(s, r, have, more) /\ r.off = s.off
         /\ r.out \in Seq(Out) /\ Packets(r.out) = Append(Packets(s.out), p)
<1>1. PICK q \in Handler, o \in Out :
        Moves(s, q, have, more) /\ o.pkt = p /\ r = [q EXCEPT !.out = Append(@, o)]
  BY DEF Treats
<1>2. q.out = s.out /\ q.out \in Seq(Out) /\ Append(q.out, o) \in Seq(Out)
  BY <1>1 DEF Moves, Handler
<1>3. r \in Handler /\ r.out = Append(q.out, o) /\ r.t = q.t /\ r.replay = q.replay
      /\ r.off = q.off /\ r.failed = q.failed
  BY <1>1, <1>2 DEF Handler
<1>4. Learns(s, r, have, more)
  BY <1>1, <1>3 DEF Moves, Learns, Counts
<1>5. Packets(r.out) = Append(Packets(s.out), p)
  BY <1>1, <1>2, <1>3, PacketsAppend
<1> QED BY <1>1, <1>2, <1>3, <1>4, <1>5 DEF Moves

\* One held packet is treated. A repeat is counted for the first of them only.
LEMMA ReplayOneIs ==
  ASSUME cfg \in Config, NEW s \in Handler, NEW p \in Data,
         s.replay, s.t.delayed = <<>>, Watched(s), Counting(s)
  PROVE  LET r == ReplayOne(s, p)
         IN /\ Learns(s, r, HasHost(HelloLen), ~Tcp /\ s.t.hostFound /\ s.off = 0)
            /\ r.off = s.off + p.len
            /\ r.out \in Seq(Out) /\ Packets(r.out) = Append(Packets(s.out), p)
<1> DEFINE have == HasHost(HelloLen)
<1> DEFINE more == ~Tcp /\ s.t.hostFound /\ s.off = 0
<1> DEFINE a == [s EXCEPT !.dp = s.t.dp]
<1> DEFINE q == HelloDesync(a, p, have)
<1> DEFINE r == [q EXCEPT !.off = @ + p.len]
<1>1. have \in BOOLEAN
  BY DEF HasHost
<1>2. a \in Handler /\ a.t = s.t /\ a.off = s.off /\ a.out = s.out /\ a.replay = s.replay
      /\ a.failed = s.failed
  BY DEF Handler, Track
<1>3. Ready(a) /\ Watched(a) /\ Counting(a) /\ p \in Sent
  BY <1>2 DEF Ready, Watched, Counting, Data
<1>4. Treats(a, q, p, have, ~Tcp /\ a.t.hostFound /\ a.off = 0)
  <2> HIDE DEF a, have
  <2> QED BY <1>1, <1>2, <1>3, HelloDesyncTreats
<1>5. Treats(a, q, p, have, more)
  BY <1>2, <1>4
<1> HIDE DEF a, q, have, more
<1>6. Learns(a, q, have, more) /\ q.off = a.off /\ q.out \in Seq(Out)
      /\ Packets(q.out) = Append(Packets(a.out), p)
  BY <1>2, <1>3, <1>5, TreatsIs
<1>7. q \in Handler
  BY <1>6 DEF Learns
<1>8. q.off + p.len \in Nat
  BY <1>7 DEF Handler, Data, Sent, Packet
<1>9. r \in Handler /\ r.t = q.t /\ r.replay = q.replay /\ r.out = q.out /\ r.failed = q.failed
      /\ r.off = s.off + p.len
  BY <1>2, <1>6, <1>7, <1>8 DEF Handler
<1>10. Learns(s, r, have, more)
  BY <1>2, <1>6, <1>9 DEF Learns, Counts
<1>11. ReplayOne(s, p) = r
  BY DEF ReplayOne, a, q, have
<1> HIDE DEF r
<1> QED BY <1>2, <1>6, <1>9, <1>10, <1>11 DEF have, more

\* What holds after k packets of the replay
Replayed(b, r, d, k) ==
  /\ Learns(b, r, HasHost(HelloLen), ~Tcp /\ b.t.hostFound)
  /\ k = 0 => r = b
  /\ k > 0 => r.off > 0
  /\ Packets(r.out) = Packets(b.out) \o SubSeq(d, 1, k)

LEMMA LearnsWeaker ==
  ASSUME NEW s \in Handler, NEW r, NEW h, NEW m, NEW have, NEW more,
         Learns(s, r, h, m), h => have, m => more
  PROVE  Learns(s, r, have, more)
BY DEF Learns, Counts

LEMMA LearnsStays ==
  ASSUME NEW s \in Handler, NEW have, NEW more
  PROVE  Learns(s, s, have, more)
BY DEF Learns, Counts

LEMMA AppendConcat ==
  ASSUME NEW u \in Seq(Sent), NEW v \in Seq(Sent), NEW e \in Sent
  PROVE  Append(u \o v, e) = u \o Append(v, e)
OBVIOUS

LEMMA DataIs ==
  ASSUME NEW p \in Data
  PROVE  p.len \in Nat /\ p.len > 0
<1>1. p \in Packet /\ p.len > 0
  BY DEF Data, Sent
<1>2. p.len \in 0 .. Length
  BY <1>1 DEF Packet
<1> QED BY <1>1, <1>2

LEMMA DataAt ==
  ASSUME NEW d \in Seq(Data), NEW k \in 1 .. Len(d)
  PROVE  d[k] \in Data /\ d[k].len \in Nat /\ d[k].len > 0
<1>1. PICK p \in Data : p = d[k]
  OBVIOUS
<1> QED BY <1>1, DataIs

LEMMA ReplayedNext ==
  ASSUME cfg \in Config, NEW b \in Handler, NEW d \in Seq(Data), NEW k \in 1 .. Len(d), NEW r,
         b.replay, b.t.delayed = <<>>, b.off = 0, Watched(b), Counting(b),
         Replayed(b, r, d, k - 1)
  PROVE  Replayed(b, ReplayOne(r, d[k]), d, k)
<1> DEFINE have == HasHost(HelloLen)
<1> DEFINE more == ~Tcp /\ b.t.hostFound
<1> DEFINE m == ~Tcp /\ r.t.hostFound /\ r.off = 0
<1> DEFINE p == d[k]
<1> DEFINE q == ReplayOne(r, p)
<1>1. Learns(b, r, have, more) /\ r \in Handler
  BY DEF Replayed, Learns
<1>2. p \in Data /\ p.len \in Nat /\ p.len > 0
  BY DataAt
<1>3. r.replay /\ r.t.delayed = <<>> /\ Watched(r) /\ Counting(r)
  <2> HIDE DEF have, more
  <2> QED BY <1>1, LearnsCounting DEF Learns, Watched
<1> HIDE DEF p
<1>4. /\ Learns(r, q, have, m) /\ q.off = r.off + p.len
      /\ q.out \in Seq(Out) /\ Packets(q.out) = Append(Packets(r.out), p)
  BY <1>1, <1>2, <1>3, ReplayOneIs
<1>5. Learns(b, q, have, more)
  <2>1. CASE k = 1
    <3>1. r = b
      BY <2>1 DEF Replayed
    <3>2. m => more
      BY <3>1
    <3> HIDE DEF q, have, more, m
    <3> QED BY <1>4, <3>1, <3>2, LearnsWeaker
  <2>2. CASE k # 1
    <3>1. r.off > 0
      BY <2>2 DEF Replayed
    <3>2. ~m
      BY <3>1, <1>1 DEF Handler
    <3> HIDE DEF q, have, more, m
    <3>3. Learns(r, q, have, FALSE)
      BY <1>4, <3>2 DEF Learns, Counts
    <3> QED BY <1>1, <3>3, LearnsThen
  <2> QED BY <2>1, <2>2
<1>6. q.off > 0
  BY <1>1, <1>2, <1>4 DEF Handler
<1>7. Packets(q.out) = Packets(b.out) \o SubSeq(d, 1, k)
  <2>1. Packets(b.out) \in Seq(Sent)
    BY PacketsType DEF Handler
  <2>2. d \in Seq(Sent) /\ p = d[k]
    BY DEF Data, p
  <2>3. Packets(r.out) = Packets(b.out) \o SubSeq(d, 1, k - 1)
    BY DEF Replayed
  <2>4. SubSeq(d, 1, k) = Append(SubSeq(d, 1, k - 1), d[k]) /\ SubSeq(d, 1, k - 1) \in Seq(Sent)
    BY <2>2
  <2> HIDE DEF q
  <2>6. p \in Sent
    BY <1>2 DEF Data
  <2>7. Append(Packets(b.out) \o SubSeq(d, 1, k - 1), p)
          = Packets(b.out) \o Append(SubSeq(d, 1, k - 1), p)
    BY <2>1, <2>4, <2>6, AppendConcat
  <2> QED BY <1>4, <2>2, <2>3, <2>4, <2>7
<1> HIDE DEF q
<1>8. Replayed(b, q, d, k)
  BY <1>5, <1>6, <1>7 DEF Replayed
<1> QED BY <1>8 DEF q, p

LEMMA ReplayedAll ==
  ASSUME cfg \in Config, NEW b \in Handler, NEW d \in Seq(Data),
         b.replay, b.t.delayed = <<>>, b.off = 0, Watched(b), Counting(b)
  PROVE  Replayed(b, Replay(b, d), d, Len(d))
<1>1. d \in Seq(Packet)
  BY DEF Data, Sent
<1>2. PICK r : /\ r[0] = b /\ Replay(b, d) = r[Len(d)]
               /\ \A k \in 1 .. Len(d) : r[k] = ReplayOne(r[k - 1], d[k])
  BY <1>1, FoldSteps
<1> DEFINE S == {k \in Nat : k <= Len(d) => Replayed(b, r[k], d, k)}
<1>3. 0 \in S
  <2>1. Learns(b, b, HasHost(HelloLen), ~Tcp /\ b.t.hostFound)
    BY LearnsStays
  <2>2. Packets(b.out) \in Seq(Sent) /\ SubSeq(d, 1, 0) = <<>>
    BY PacketsType DEF Handler
  <2>3. Packets(b.out) = Packets(b.out) \o SubSeq(d, 1, 0)
    BY <2>2
  <2>4. Replayed(b, r[0], d, 0)
    BY <1>2, <2>1, <2>3 DEF Replayed
  <2> QED BY <2>4
<1>4. ASSUME NEW n \in Nat, n \in S PROVE n + 1 \in S
  <2>1. SUFFICES ASSUME n + 1 <= Len(d) PROVE Replayed(b, r[n + 1], d, n + 1)
    OBVIOUS
  <2>2. Len(d) \in Nat /\ n <= Len(d) /\ n + 1 \in 1 .. Len(d)
    BY <2>1
  <2>3. Replayed(b, r[n], d, n)
    BY <1>4, <2>2
  <2>4. PICK k \in 1 .. Len(d) : k = n + 1 /\ k - 1 = n
    BY <2>2
  <2>5. Replayed(b, r[k - 1], d, k - 1)
    BY <2>3, <2>4
  <2>6. Replayed(b, ReplayOne(r[k - 1], d[k]), d, k)
    BY <2>5, ReplayedNext
  <2>7. Replayed(b, r[k], d, k)
    BY <1>2, <2>6
  <2> QED BY <2>4, <2>7
<1>5. Nat \subseteq S
  <2> HIDE DEF S
  <2> QED BY <1>3, <1>4, SetInduction
<1>6. Replayed(b, r[Len(d)], d, Len(d))
  BY <1>5
<1> QED BY <1>2, <1>6

\* All that is held goes out, treated, in order; the reassembly is over.
LEMMA ReplayQueueIs ==
  ASSUME cfg \in Config, NEW s \in Handler, ~s.replay, s.off = 0, Watched(s), Counting(s)
  PROVE  LET r == ReplayQueue(s)
         IN /\ r \in Handler /\ ~r.replay /\ r.off = 0
            /\ r.t.tracked = s.t.tracked /\ r.t.syn = s.t.syn /\ r.t.req = s.t.req
            /\ r.t.reasm = NoReasm /\ r.t.delayed = <<>>
            /\ ~s.t.tracked => r.t = [s.t EXCEPT !.reasm = NoReasm, !.delayed = <<>>]
            /\ r.t.hostFound => s.t.hostFound \/ HasHost(HelloLen)
            /\ Hosted(s) => Hosted(r)
            /\ Counts(s, r, ~Tcp /\ s.t.hostFound)
            /\ Packets(r.out) = Packets(s.out) \o s.t.delayed
<1> DEFINE d == s.t.delayed
<1> DEFINE b == [s EXCEPT !.replay = TRUE, !.t = [s.t EXCEPT !.delayed = <<>>]]
<1> DEFINE q == Replay(b, d)
<1> DEFINE r == [q EXCEPT !.replay = FALSE, !.off = 0, !.t = [q.t EXCEPT !.reasm = NoReasm]]
<1>1. d \in Seq(Data) /\ <<>> \in Seq(Data) /\ s.t \in Track
  BY DEF Handler, Track
<1>2. b \in Handler /\ b.replay /\ b.off = 0 /\ b.out = s.out /\ b.failed = s.failed
      /\ b.t = [s.t EXCEPT !.delayed = <<>>]
  BY <1>1 DEF Handler, Track
<1>3. b.t.delayed = <<>> /\ Watched(b) /\ Counting(b)
  BY <1>1, <1>2 DEF Watched, Counting, Track
<1>4. Replayed(b, q, d, Len(d))
  <2> HIDE DEF b, d
  <2> QED BY <1>1, <1>2, <1>3, ReplayedAll
<1>5. ReplayQueue(s) = r
  <2>1. b = [s EXCEPT !.replay = TRUE, !.t.delayed = <<>>]
    BY DEF Handler, Track
  <2>2. FoldLeft(ReplayOne, [s EXCEPT !.replay = TRUE, !.t.delayed = <<>>], s.t.delayed) = q
    BY <2>1 DEF Replay
  <2>3. q \in Handler
    BY <1>4 DEF Replayed, Learns
  <2> HIDE DEF q
  <2> QED BY <2>2, <2>3 DEF ReplayQueue, Handler, Track
<1> HIDE DEF q, b
<1>6. Learns(b, q, HasHost(HelloLen), ~Tcp /\ b.t.hostFound) /\ q \in Handler
      /\ Packets(q.out) = Packets(b.out) \o SubSeq(d, 1, Len(d))
  BY <1>4 DEF Replayed, Learns
<1>7. SubSeq(d, 1, Len(d)) = d
  BY <1>1
<1>8. r \in Handler /\ ~r.replay /\ r.off = 0 /\ r.out = q.out /\ r.failed = q.failed
      /\ r.t = [q.t EXCEPT !.reasm = NoReasm]
  <2> DEFINE c == [q.t EXCEPT !.reasm = NoReasm]
  <2>1. c \in Track
    BY <1>6, NoReasmType DEF Handler, Track
  <2>2. r = [q EXCEPT !.replay = FALSE, !.off = 0, !.t = c]
    OBVIOUS
  <2> HIDE DEF c, r
  <2> QED BY <1>6, <2>1, <2>2 DEF Handler, c
<1>9. q.t \in Track /\ s.t \in Track
  BY <1>6 DEF Handler
<1>10. r.t.tracked = s.t.tracked /\ r.t.syn = s.t.syn /\ r.t.req = s.t.req
       /\ r.t.reasm = NoReasm /\ r.t.delayed = <<>> /\ r.t.retrans = q.t.retrans
       /\ r.t.host = q.t.host /\ r.t.hostFound = q.t.hostFound
       /\ b.t.retrans = s.t.retrans /\ b.t.host = s.t.host /\ b.t.hostFound = s.t.hostFound
       /\ b.t.tracked = s.t.tracked
  BY <1>2, <1>6, <1>8, <1>9 DEF Learns, Track
<1>11. ~s.t.tracked => r.t = [s.t EXCEPT !.reasm = NoReasm, !.delayed = <<>>]
  <2>1. ~s.t.tracked => q.t = b.t
    BY <1>6, <1>10 DEF Learns
  <2>2. ~s.t.tracked => r.t = [[s.t EXCEPT !.delayed = <<>>] EXCEPT !.reasm = NoReasm]
    BY <1>2, <1>8, <2>1
  <2>3. [[s.t EXCEPT !.delayed = <<>>] EXCEPT !.reasm = NoReasm]
          = [s.t EXCEPT !.reasm = NoReasm, !.delayed = <<>>]
    BY <1>9 DEF Track
  <2> HIDE DEF r
  <2> QED BY <2>2, <2>3
<1> HIDE DEF r
<1>12. Counts(s, r, ~Tcp /\ s.t.hostFound)
  BY <1>2, <1>6, <1>8, <1>10 DEF Learns, Counts
<1>13. (r.t.hostFound => s.t.hostFound \/ HasHost(HelloLen)) /\ (Hosted(s) => Hosted(r))
  BY <1>6, <1>10 DEF Learns, Hosted
<1>14. Packets(r.out) = Packets(s.out) \o s.t.delayed
  BY <1>2, <1>6, <1>7, <1>8
<1> QED BY <1>5, <1>8, <1>10, <1>11, <1>12, <1>13, <1>14

-----------------------------------------------------------------------------
(* What is held, and what was requested                                    *)

\* The request is the beginning of the stream, and was sent.
RequestOk(tr, sent) ==
  /\ tr.req.final => tr.req.present
  /\ tr.req.present =>
       /\ tr.req.from = Num(0)
       /\ \E j \in 0 .. Length - 1 : tr.req.to = Num(j) /\ 0 .. j \subseteq sent

\* So are the pieces of a hello, and the next is expected to go on where they end.
ReasmOk(tr, sent) ==
  IF tr.reasm.size = 0 THEN tr.reasm = NoReasm /\ tr.delayed = <<>>
  ELSE /\ cfg.app = "tls" /\ tr.req.present
       /\ tr.reasm.size = HelloLen /\ tr.reasm.present \in 1 .. HelloLen
       /\ tr.reasm.seq = Num(tr.reasm.present) /\ 0 .. tr.reasm.present - 1 \subseteq sent

\* Of QUIC a host is known only from all of the hello, and all that is known
\* of it was sent.
QuicOk(tr, sent) ==
  /\ tr.hostFound => Units \subseteq sent
  /\ IF tr.reasm.size = 0 THEN tr.reasm = NoReasm /\ tr.delayed = <<>>
     ELSE tr.reasm.crypto \subseteq sent

\* Of a connection that is not tracked nothing is known, and a host is one
\* that was found.
TrackOk(tr, sent) ==
  /\ ~tr.tracked => tr = [NoTrack EXCEPT !.syn = tr.syn]
  /\ tr.host => tr.hostFound
  /\ IF Tcp THEN RequestOk(tr, sent) /\ ReasmOk(tr, sent) ELSE QuicOk(tr, sent)

\* What left and what is held, in order
Line(s) == Packets(s.out) \o s.t.delayed

\* A handler between two of its parts; a part of it after which the packet is
\* still in hand; and one that has done with it
Begun(s, sent) ==
  s \in Handler /\ ~s.replay /\ s.off = 0 /\ TrackOk(s.t, sent) /\ Counting(s)

Goes(s, r, sent, more) ==
  /\ Begun(r, sent) /\ r.t.syn = s.t.syn /\ r.t.tracked = s.t.tracked
  /\ Line(r) = Line(s) /\ Counts(s, r, more)

Done(s, r, p, sent, more) ==
  /\ Begun(r, sent) /\ r.t.syn = s.t.syn /\ r.t.tracked = s.t.tracked
  /\ Line(r) = Append(Line(s), p) /\ Counts(s, r, more)

LEMMA BegunIs ==
  ASSUME NEW s, NEW sent, Begun(s, sent)
  PROVE  /\ s \in Handler /\ s.t \in Track /\ s.out \in Seq(Out) /\ s.t.delayed \in Seq(Data)
         /\ s.t.delayed \in Seq(Sent) /\ Packets(s.out) \in Seq(Sent) /\ Line(s) \in Seq(Sent)
         /\ Watched(s) /\ Counting(s) /\ ~s.replay /\ s.off = 0 /\ Hosted(s)
<1>1. s \in Handler /\ s.t \in Track /\ s.out \in Seq(Out) /\ s.t.delayed \in Seq(Data)
  BY DEF Begun, Handler, Track
<1>2. s.t.delayed \in Seq(Sent) /\ Packets(s.out) \in Seq(Sent)
  BY <1>1, PacketsType DEF Data
<1>3. Line(s) \in Seq(Sent)
  BY <1>2 DEF Line
<1>4. Watched(s)
  BY DEF Begun, TrackOk, Watched, NoTrack
<1> QED BY <1>1, <1>2, <1>3, <1>4 DEF Begun, TrackOk, Hosted

LEMMA CountsOn ==
  ASSUME NEW s \in Handler, NEW q \in Handler, NEW r \in Handler, NEW more,
         Counts(s, q, FALSE), Counts(q, r, more)
  PROVE  Counts(s, r, more)
BY RetransIs, ThresholdBelow DEF Counts

LEMMA CountsThen ==
  ASSUME NEW s \in Handler, NEW q \in Handler, NEW r \in Handler, NEW more,
         Counts(s, q, more), Counts(q, r, FALSE)
  PROVE  Counts(s, r, more)
BY RetransIs, ThresholdBelow DEF Counts

LEMMA CountsCounting ==
  ASSUME NEW s \in Handler, NEW r \in Handler, NEW more, Counting(s), Counts(s, r, more)
  PROVE  Counting(r)
BY RetransIs, ThresholdBelow DEF Counts, Counting

LEMMA GoesOnwards ==
  ASSUME NEW s \in Handler, NEW q, NEW r, NEW sent, NEW u, NEW more,
         Goes(s, q, u, FALSE), Goes(q, r, sent, more)
  PROVE  Goes(s, r, sent, more)
BY CountsOn DEF Goes, Begun

LEMMA GoesThen ==
  ASSUME NEW s \in Handler, NEW q, NEW r, NEW sent, NEW u, NEW more,
         Goes(s, q, u, more), Goes(q, r, sent, FALSE)
  PROVE  Goes(s, r, sent, more)
BY CountsThen DEF Goes, Begun

LEMMA DoneOn ==
  ASSUME NEW s \in Handler, NEW q, NEW r, NEW p, NEW sent, NEW u, NEW more,
         Goes(s, q, u, FALSE), Done(q, r, p, sent, more)
  PROVE  Done(s, r, p, sent, more)
BY CountsOn DEF Goes, Done, Begun

LEMMA DoneThen ==
  ASSUME NEW s \in Handler, NEW q, NEW r, NEW p, NEW sent, NEW u, NEW more,
         Goes(s, q, u, more), Done(q, r, p, sent, FALSE)
  PROVE  Done(s, r, p, sent, more)
BY CountsThen DEF Goes, Done, Begun

LEMMA TrackKeeps ==
  ASSUME NEW a, NEW b, NEW sent, TrackOk(a, sent),
         ~a.tracked => b = a, b.tracked = a.tracked, b.host => b.hostFound,
         b.hostFound => a.hostFound \/ Tcp \/ Units \subseteq sent,
         b.req = a.req, b.reasm = a.reasm, b.delayed = a.delayed
  PROVE  TrackOk(b, sent)
BY DEF TrackOk, RequestOk, ReasmOk, QuicOk

LEMMA TrackGrows ==
  ASSUME NEW a, NEW u, NEW sent, TrackOk(a, u), u \subseteq sent
  PROVE  TrackOk(a, sent)
<1>1. RequestOk(a, u) => RequestOk(a, sent)
  BY DEF RequestOk
<1>2. ReasmOk(a, u) => ReasmOk(a, sent)
  BY DEF ReasmOk
<1>3. QuicOk(a, u) => QuicOk(a, sent)
  BY DEF QuicOk
<1> QED BY <1>1, <1>2, <1>3 DEF TrackOk

LEMMA BegunGrows ==
  ASSUME NEW s, NEW u, NEW sent, Begun(s, u), u \subseteq sent
  PROVE  Begun(s, sent)
BY TrackGrows DEF Begun

LEMMA GoesByMoves ==
  ASSUME NEW s, NEW r, NEW sent, NEW have, NEW more,
         Begun(s, sent), Moves(s, r, have, more), have => Tcp \/ Units \subseteq sent
  PROVE  Goes(s, r, sent, more) /\ r.t.req = s.t.req /\ r.t.reasm = s.t.reasm
<1>1. s \in Handler /\ Hosted(s) /\ Counting(s)
  BY BegunIs
<1>2. Learns(s, r, have, more) /\ r.out = s.out /\ r.off = s.off
  BY DEF Moves
<1>3. TrackOk(r.t, sent)
  <2>1. /\ ~s.t.tracked => r.t = s.t
        /\ r.t.tracked = s.t.tracked /\ r.t.req = s.t.req /\ r.t.reasm = s.t.reasm
        /\ r.t.delayed = s.t.delayed /\ (r.t.host => r.t.hostFound)
        /\ (r.t.hostFound => s.t.hostFound \/ Tcp \/ Units \subseteq sent)
    BY <1>1, <1>2 DEF Learns, Hosted
  <2>2. TrackOk(s.t, sent)
    BY DEF Begun
  <2> QED BY <2>1, <2>2, TrackKeeps
<1>4. Counting(r)
  BY <1>1, <1>2, LearnsCounting
<1>5. Line(r) = Line(s)
  BY <1>2 DEF Learns, Line
<1> QED BY <1>2, <1>3, <1>4, <1>5 DEF Goes, Begun, Learns

LEMMA ConcatNone ==
  ASSUME NEW u \in Seq(Sent)
  PROVE  u \o <<>> = u
OBVIOUS

LEMMA DoneByTreats ==
  ASSUME NEW s, NEW r, NEW p \in Sent, NEW sent, NEW have, NEW more,
         Begun(s, sent), Ready(s), Treats(s, r, p, have, more), have => Tcp \/ Units \subseteq sent
  PROVE  Done(s, r, p, sent, more) /\ r.t.reasm = NoReasm
<1>1. s \in Handler /\ Hosted(s) /\ Counting(s) /\ ~s.replay
  BY BegunIs
<1>2. /\ Learns(s, r, have, more) /\ r.off = s.off
      /\ r.out \in Seq(Out) /\ Packets(r.out) = Append(Packets(s.out), p)
  BY <1>1, TreatsIs
<1>3. TrackOk(r.t, sent)
  <2>1. /\ ~s.t.tracked => r.t = s.t
        /\ r.t.tracked = s.t.tracked /\ r.t.req = s.t.req /\ r.t.reasm = s.t.reasm
        /\ r.t.delayed = s.t.delayed /\ (r.t.host => r.t.hostFound)
        /\ (r.t.hostFound => s.t.hostFound \/ Tcp \/ Units \subseteq sent)
    BY <1>1, <1>2 DEF Learns, Hosted
  <2>2. TrackOk(s.t, sent)
    BY DEF Begun
  <2> QED BY <2>1, <2>2, TrackKeeps
<1>4. Counting(r)
  BY <1>1, <1>2, LearnsCounting
<1>5. Line(r) = Append(Line(s), p)
  <2>1. s.t.delayed = <<>> /\ r.t.delayed = <<>>
    BY <1>2 DEF Ready, Learns
  <2>2. Packets(r.out) \in Seq(Sent) /\ Packets(s.out) \in Seq(Sent)
    BY <1>2, PacketsType, BegunIs
  <2> QED BY <1>2, <2>1, <2>2, ConcatNone DEF Line
<1>6. r.t.reasm = NoReasm
  BY <1>1, <1>2 DEF Ready, Learns
<1> QED BY <1>1, <1>2, <1>3, <1>4, <1>5, <1>6 DEF Done, Begun, Learns

LEMMA ReadyIs ==
  ASSUME NEW s, NEW sent, Begun(s, sent), ReasmIsEmpty(s)
  PROVE  Ready(s)
BY DEF Begun, TrackOk, ReasmOk, QuicOk, ReasmIsEmpty, Ready

LEMMA CancelGoes ==
  ASSUME NEW s, NEW sent, Begun(s, sent)
  PROVE  Goes(s, Cancel(s), sent, FALSE) /\ Ready(Cancel(s)) /\ Cancel(s).t.req = s.t.req
<1> DEFINE r == Cancel(s)
<1>1. /\ s \in Handler /\ s.t \in Track /\ ~s.replay /\ s.off = 0
      /\ Packets(s.out) \in Seq(Sent) /\ s.t.delayed \in Seq(Sent)
  BY BegunIs
<1>2. /\ r \in Handler
      /\ r.t = [s.t EXCEPT !.reasm = NoReasm, !.delayed = <<>>]
      /\ Packets(r.out) = Packets(s.out) \o s.t.delayed
      /\ r.replay = s.replay /\ r.off = s.off /\ r.failed = s.failed
  BY <1>1, CancelIs
<1> HIDE DEF r
<1>3. /\ r.t.reasm = NoReasm /\ r.t.delayed = <<>> /\ r.t.req = s.t.req
      /\ r.t.syn = s.t.syn /\ r.t.tracked = s.t.tracked /\ r.t.retrans = s.t.retrans
      /\ r.t.host = s.t.host /\ r.t.hostFound = s.t.hostFound
  BY <1>1, <1>2 DEF Track
<1>4. TrackOk(r.t, sent)
  <2>1. ~s.t.tracked => r.t = s.t
    <3>1. ~s.t.tracked => s.t.reasm = NoReasm /\ s.t.delayed = <<>>
      BY DEF Begun, TrackOk, NoTrack
    <3> QED BY <1>1, <1>2, <3>1 DEF Track
  <2>2. TrackOk(s.t, sent)
    BY DEF Begun
  <2>3. RequestOk(s.t, sent) => RequestOk(r.t, sent)
    BY <1>3 DEF RequestOk
  <2>4. ReasmOk(r.t, sent)
    BY <1>3 DEF ReasmOk, NoReasm
  <2>5. QuicOk(s.t, sent) => QuicOk(r.t, sent)
    BY <1>3 DEF QuicOk, NoReasm
  <2>6. ~r.t.tracked => r.t = [NoTrack EXCEPT !.syn = r.t.syn]
    BY <2>1, <2>2, <1>3 DEF TrackOk
  <2> QED BY <1>3, <2>2, <2>3, <2>4, <2>5, <2>6 DEF TrackOk
<1>5. Line(r) = Line(s)
  <2>1. Packets(s.out) \o s.t.delayed \in Seq(Sent)
    BY BegunIs DEF Line
  <2> QED BY <1>2, <1>3, <2>1, ConcatNone DEF Line
<1>6. Counting(r) /\ Counts(s, r, FALSE)
  BY <1>2, <1>3 DEF Counting, Counts, Begun
<1>7. Ready(r)
  BY <1>3 DEF Ready
<1> QED BY <1>1, <1>2, <1>3, <1>4, <1>5, <1>6, <1>7 DEF Goes, Begun, r

LEMMA CancelAndSendDone ==
  ASSUME NEW s, NEW p \in Sent, NEW sent, NEW more, Begun(s, sent)
  PROVE  Done(s, CancelAndSend(s, p), p, sent, more) /\ CancelAndSend(s, p).t.reasm = NoReasm
<1> DEFINE q == Cancel(s)
<1>1. Goes(s, q, sent, FALSE) /\ Ready(q)
  BY CancelGoes
<1> HIDE DEF q
<1>2. Begun(q, sent) /\ q \in Handler /\ s \in Handler
  BY <1>1 DEF Goes, Begun
<1>3. Treats(q, SendOrig(q, p), p, FALSE, more)
  BY <1>2, SendOrigTreats
<1>4. Done(q, SendOrig(q, p), p, sent, more) /\ SendOrig(q, p).t.reasm = NoReasm
  BY <1>1, <1>2, <1>3, DoneByTreats
<1>5. Done(s, SendOrig(q, p), p, sent, more)
  BY <1>1, <1>2, <1>4, DoneOn
<1> QED BY <1>4, <1>5 DEF CancelAndSend, q

-----------------------------------------------------------------------------
(* A handler's parts, of TCP                                               *)

\* A change of what is known of the request or of the reassembly only
LEMMA GoesByTrack ==
  ASSUME NEW s, NEW sent, NEW b \in Track, Begun(s, sent), TrackOk(b, sent),
         b.tracked = s.t.tracked, b.syn = s.t.syn, b.delayed = s.t.delayed,
         b.retrans = s.t.retrans
  PROVE  Goes(s, [s EXCEPT !.t = b], sent, FALSE)
<1> DEFINE r == [s EXCEPT !.t = b]
<1>1. s \in Handler
  BY DEF Begun
<1>2. r \in Handler /\ r.t = b /\ r.replay = s.replay /\ r.off = s.off /\ r.out = s.out
      /\ r.failed = s.failed
  BY <1>1 DEF Handler
<1> HIDE DEF r
<1>3. Counting(r) /\ Counts(s, r, FALSE) /\ Line(r) = Line(s)
  BY <1>2 DEF Counting, Counts, Begun, Line
<1> QED BY <1>2, <1>3 DEF Goes, Begun, r

LEMMA KnownL7Goes ==
  ASSUME NEW s, NEW sent, Begun(s, sent)
  PROVE  /\ Goes(s, KnownL7(s), sent, FALSE)
         /\ KnownL7(s).t.reasm = s.t.reasm /\ KnownL7(s).t.hostFound = s.t.hostFound
<1> DEFINE l == s.t.l7 \/ s.t.tracked
<1> DEFINE b == [s.t EXCEPT !.l7 = l]
<1>1. s \in Handler /\ s.t \in Track /\ Hosted(s) /\ TrackOk(s.t, sent)
  BY BegunIs DEF Begun
<1>2. KnownL7(s) = [s EXCEPT !.t = b]
  BY <1>1 DEF KnownL7, Handler, Track
<1>3. l \in BOOLEAN /\ (~s.t.tracked => l = s.t.l7)
  BY <1>1 DEF Track
<1> HIDE DEF l
<1>4. /\ b \in Track /\ b.tracked = s.t.tracked /\ b.syn = s.t.syn /\ b.delayed = s.t.delayed
      /\ b.retrans = s.t.retrans /\ b.req = s.t.req /\ b.reasm = s.t.reasm
      /\ b.host = s.t.host /\ b.hostFound = s.t.hostFound
  BY <1>1, <1>3 DEF Track
<1>5. ~s.t.tracked => b = s.t
  BY <1>1, <1>3 DEF Track
<1> HIDE DEF b
<1>6. TrackOk(b, sent)
  BY <1>1, <1>4, <1>5, TrackKeeps DEF Hosted
<1>7. Goes(s, [s EXCEPT !.t = b], sent, FALSE)
  BY <1>4, <1>6, GoesByTrack
<1>8. [s EXCEPT !.t = b].t = b
  BY <1>1 DEF Handler
<1> QED BY <1>2, <1>4, <1>7, <1>8

\* The entry with another request, which is in order
LEMMA GoesByRequest ==
  ASSUME NEW s, NEW sent, NEW q \in Request, Begun(s, sent), Tcp, s.t.tracked,
         RequestOk([s.t EXCEPT !.req = q], sent), s.t.req.present => q.present
  PROVE  /\ Goes(s, [s EXCEPT !.t = [s.t EXCEPT !.req = q]], sent, FALSE)
         /\ [s EXCEPT !.t = [s.t EXCEPT !.req = q]].t.reasm = s.t.reasm
<1> DEFINE b == [s.t EXCEPT !.req = q]
<1>1. s \in Handler /\ s.t \in Track /\ Hosted(s) /\ TrackOk(s.t, sent)
  BY BegunIs DEF Begun
<1>4. /\ b \in Track /\ b.tracked = s.t.tracked /\ b.syn = s.t.syn /\ b.delayed = s.t.delayed
      /\ b.retrans = s.t.retrans /\ b.req = q /\ b.reasm = s.t.reasm
      /\ b.host = s.t.host /\ b.hostFound = s.t.hostFound
  BY <1>1 DEF Track
<1>5. RequestOk(b, sent)
  OBVIOUS
<1> HIDE DEF b
<1>6. ReasmOk(b, sent)
  BY <1>1, <1>4 DEF TrackOk, ReasmOk
<1>7. TrackOk(b, sent)
  BY <1>1, <1>4, <1>5, <1>6 DEF TrackOk
<1>8. Goes(s, [s EXCEPT !.t = b], sent, FALSE)
  BY <1>4, <1>7, GoesByTrack
<1>9. [s EXCEPT !.t = b].t = b
  BY <1>1 DEF Handler
<1> QED BY <1>4, <1>8, <1>9 DEF b

LEMMA AbandonGoes ==
  ASSUME NEW s, NEW p \in Sent, NEW sent, Begun(s, sent), Tcp
  PROVE  Goes(s, Abandon(s, p), sent, FALSE) /\ Abandon(s, p).t.reasm = s.t.reasm
<1>1. s \in Handler /\ s.t \in Track /\ TrackOk(s.t, sent) /\ s.t.req \in Request
  BY BegunIs DEF Begun, Track
<1>2. CASE Abandon(s, p) = s
  <2>1. Goes(s, s, sent, FALSE)
    BY DEF Goes, Counts
  <2> QED BY <1>2, <2>1
<1>3. CASE Abandon(s, p) # s
  <2> DEFINE q == [s.t.req EXCEPT !.abandoned = TRUE]
  <2>1. s.t.req.final /\ Abandon(s, p) = [s EXCEPT !.t.req.abandoned = TRUE]
    BY <1>3 DEF Abandon
  <2>2. Abandon(s, p) = [s EXCEPT !.t = [s.t EXCEPT !.req = q]]
    BY <1>1, <2>1 DEF Handler, Track
  <2>3. /\ q \in Request /\ q.present = s.t.req.present /\ q.final = s.t.req.final
        /\ q.from = s.t.req.from /\ q.to = s.t.req.to
    BY <1>1 DEF Request
  <2>4. s.t.tracked
    BY <1>1, <2>1 DEF TrackOk, NoTrack, NoRequest
  <2> HIDE DEF q
  <2>5. RequestOk([s.t EXCEPT !.req = q], sent)
    <3>1. [s.t EXCEPT !.req = q].req = q
      BY <1>1 DEF Track
    <3> QED BY <1>1, <2>3, <3>1 DEF TrackOk, RequestOk
  <2> QED BY <2>2, <2>3, <2>4, <2>5, GoesByRequest
<1> QED BY <1>2, <1>3

\* The request of a packet, with what was known of it
LEMMA RequestIs ==
  ASSUME cfg.isn \in 0 .. Modulus - 1, NEW sent, NEW p \in Data, NEW tr \in Track, NEW q \in Request,
         RequestOk(tr, sent), q.present, q.to = (PosNum(p) - 1) % Modulus,
         0 .. p.at + p.len - 1 \subseteq sent,
         q.from = Num(0)
  PROVE  RequestOk([tr EXCEPT !.req = q], sent)
<1>1. p.at \in 0 .. Length /\ p.len \in 1 .. Length /\ p.at + p.len <= Length
  BY DEF Data, Sent, Packet
<1>2. PICK j \in 0 .. Length - 1 : j = p.at + p.len - 1
  BY <1>1, SizeAssumption
<1>3. j \in 0 .. Length /\ j + 1 = p.at + p.len
  BY <1>1, <1>2, SizeAssumption
<1>4. q.to = Num(j) /\ 0 .. j \subseteq sent
  BY <1>2, <1>3, LastNum
<1>5. [tr EXCEPT !.req = q].req = q
  BY DEF Track
<1> QED BY <1>4, <1>5 DEF RequestOk

LEMMA FirstNum ==
  ASSUME NEW p \in Data, p.at = 0
  PROVE  SeqNum(p) = Num(0)
BY SeqNumIs DEF Data

LEMMA NumsType ==
  ASSUME cfg.isn \in 0 .. Modulus - 1, NEW p \in Data
  PROVE  SeqNum(p) \in 0 .. Modulus - 1 /\ (PosNum(p) - 1) % Modulus \in 0 .. Modulus - 1
<1>1. p.at \in 0 .. Length /\ p.len \in 1 .. Length /\ p.at + p.len <= Length
  BY DEF Data, Sent, Packet
<1>2. PICK j \in 0 .. Length - 1 : j = p.at + p.len - 1
  BY <1>1, SizeAssumption
<1>3. j \in 0 .. Length /\ j + 1 = p.at + p.len
  BY <1>1, <1>2, SizeAssumption
<1>4. SeqNum(p) = Num(p.at) /\ (PosNum(p) - 1) % Modulus = Num(j)
  BY <1>3, SeqNumIs, LastNum DEF Data
<1> QED BY <1>1, <1>3, <1>4, NumIs

LEMMA WholeRequestGoes ==
  ASSUME cfg \in Config, NEW s, NEW p \in Data, NEW sent, Begun(s, sent), Tcp,
         p.at = 0, Carried(p) \subseteq sent
  PROVE  Goes(s, WholeRequest(s, p), sent, FALSE) /\ WholeRequest(s, p).t.reasm = s.t.reasm
<1>1. s \in Handler /\ s.t \in Track /\ TrackOk(s.t, sent) /\ s.t.req \in Request
  BY BegunIs DEF Begun, Track
<1>2. CASE ~(s.t.tracked /\ ~s.t.req.present)
  <2>1. Goes(s, s, sent, FALSE) /\ WholeRequest(s, p) = s
    BY <1>2 DEF Goes, Counts, WholeRequest
  <2> QED BY <2>1
<1>3. CASE s.t.tracked /\ ~s.t.req.present
  <2> DEFINE q == [s.t.req EXCEPT !.present = TRUE, !.final = TRUE,
                                  !.from = SeqNum(p), !.to = (PosNum(p) - 1) % Modulus]
  <2>1. WholeRequest(s, p) = [s EXCEPT !.t = [s.t EXCEPT !.req = q]]
    BY <1>1, <1>3 DEF WholeRequest, Handler, Track
  <2>0. cfg.isn \in 0 .. Modulus - 1
    BY DEF Config
  <2>2. SeqNum(p) = Num(0) /\ SeqNum(p) \in 0 .. Modulus - 1
        /\ (PosNum(p) - 1) % Modulus \in 0 .. Modulus - 1
    BY <2>0, FirstNum, NumsType
  <2>3. q \in Request /\ q.present /\ q.from = Num(0) /\ q.to = (PosNum(p) - 1) % Modulus
    BY <1>1, <2>2 DEF Request
  <2>4. 0 .. p.at + p.len - 1 \subseteq sent
    BY DEF Carried
  <2> HIDE DEF q
  <2>5. RequestOk([s.t EXCEPT !.req = q], sent)
    BY <1>1, <2>0, <2>3, <2>4, RequestIs DEF TrackOk
  <2> QED BY <1>3, <2>1, <2>3, <2>5, GoesByRequest
<1> QED BY <1>2, <1>3

LEMMA RequestIntervalGoes ==
  ASSUME cfg \in Config, NEW s, NEW p \in Data, NEW sent, NEW full \in BOOLEAN, Begun(s, sent), Tcp,
         p.at = 0 \/ s.t.req.present, 0 .. p.at + p.len - 1 \subseteq sent
  PROVE  /\ Goes(s, RequestInterval(s, p, full), sent, FALSE)
         /\ RequestInterval(s, p, full).t.reasm = s.t.reasm
         /\ s.t.tracked => RequestInterval(s, p, full).t.req.present
<1>1. s \in Handler /\ s.t \in Track /\ TrackOk(s.t, sent) /\ s.t.req \in Request
  BY BegunIs DEF Begun, Track
<1>2. CASE ~s.t.tracked \/ s.t.req.final
  <2>1. Goes(s, s, sent, FALSE) /\ RequestInterval(s, p, full) = s
    BY <1>2 DEF Goes, Counts, RequestInterval
  <2>2. s.t.tracked => s.t.req.present
    BY <1>1, <1>2 DEF TrackOk, RequestOk
  <2> QED BY <2>1, <2>2
<1>3. CASE s.t.tracked /\ ~s.t.req.final
  <2> DEFINE q == [present |-> TRUE, final |-> full, abandoned |-> s.t.req.abandoned,
                   from |-> IF s.t.req.present THEN s.t.req.from ELSE SeqNum(p),
                   to |-> (PosNum(p) - 1) % Modulus]
  <2>1. RequestInterval(s, p, full) = [s EXCEPT !.t = [s.t EXCEPT !.req = q]]
    BY <1>1, <1>3 DEF RequestInterval, Handler, Track
  <2>0. cfg.isn \in 0 .. Modulus - 1
    BY DEF Config
  <2>2. SeqNum(p) \in 0 .. Modulus - 1 /\ (PosNum(p) - 1) % Modulus \in 0 .. Modulus - 1
    BY <2>0, NumsType
  <2>3. q \in Request /\ q.present /\ q.to = (PosNum(p) - 1) % Modulus
    BY <1>1, <2>2 DEF Request
  <2>4. q.from = Num(0)
    <3>1. CASE s.t.req.present
      BY <1>1, <3>1 DEF TrackOk, RequestOk
    <3>2. CASE ~s.t.req.present
      BY <3>2, FirstNum
    <3> QED BY <3>1, <3>2
  <2> HIDE DEF q
  <2>5. RequestOk([s.t EXCEPT !.req = q], sent)
    BY <1>1, <2>0, <2>3, <2>4, RequestIs DEF TrackOk
  <2>6. [s EXCEPT !.t = [s.t EXCEPT !.req = q]].t.req = q
    BY <1>1 DEF Handler, Track
  <2> DEFINE r == [s EXCEPT !.t = [s.t EXCEPT !.req = q]]
  <2>7. Goes(s, r, sent, FALSE) /\ r.t.reasm = s.t.reasm
    BY <1>1, <1>3, <2>3, <2>5, GoesByRequest
  <2>8. RequestInterval(s, p, full) = r
    BY <2>1
  <2>9. r.t.req = q
    BY <2>6
  <2> HIDE DEF r
  <2> QED BY <2>3, <2>7, <2>8, <2>9
<1> QED BY <1>2, <1>3

LEMMA ModType ==
  ASSUME NEW M \in Nat, M > 0, NEW x \in Int
  PROVE  x % M \in 0 .. M - 1
OBVIOUS

\* What is stored of a packet
LEMMA StoredIs ==
  ASSUME NEW reasm \in Reasm, NEW p \in Data
  PROVE  LET free == reasm.size - reasm.present
             n == IF p.len < free THEN p.len ELSE free
             r == Stored(reasm, p)
         IN /\ r.size = reasm.size /\ r.present = reasm.present + n
            /\ r.seq = (reasm.seq + n) % Modulus
            /\ r.crypto = (IF n = 0 THEN reasm.crypto ELSE reasm.crypto \cup p.crypto)
            /\ r \in Reasm
<1> DEFINE free == reasm.size - reasm.present
<1> DEFINE n == IF p.len < free THEN p.len ELSE free
<1> DEFINE r == Stored(reasm, p)
<1>1. reasm.size \in Nat /\ reasm.present \in Nat /\ p.len \in Nat /\ reasm.seq \in 0 .. Modulus - 1
      /\ reasm.crypto \in SUBSET Units /\ p.crypto \in SUBSET Units
  BY DEF Reasm, Data, Sent, Packet
<1>2. n \in Int /\ reasm.present + n \in Nat /\ reasm.seq + n \in Int
  BY <1>1, SizeAssumption
<1>3. (reasm.seq + n) % Modulus \in 0 .. Modulus - 1
  <2> HIDE DEF n
  <2> QED BY <1>2, ModType, SizeAssumption
<1> DEFINE c == IF n = 0 THEN reasm.crypto ELSE reasm.crypto \cup p.crypto
<1>4. c \in SUBSET Units
  BY <1>1
<1>5. r = [reasm EXCEPT !.present = reasm.present + n, !.seq = (reasm.seq + n) % Modulus, !.crypto = c]
  BY DEF Stored, Reasm
<1> HIDE DEF n, r, c
<1>6. /\ r.size = reasm.size /\ r.present = reasm.present + n
      /\ r.seq = (reasm.seq + n) % Modulus /\ r.crypto = c /\ r \in Reasm
  BY <1>1, <1>2, <1>3, <1>4, <1>5 DEF Reasm
<1> QED BY <1>6 DEF n, r, c

\* Of TCP: k units are there, and the packet is the next one.
LEMMA StoredNext ==
  ASSUME cfg.isn \in 0 .. Modulus - 1, NEW reasm \in Reasm, NEW p \in Data, NEW k \in 0 .. HelloLen,
         reasm.size = HelloLen, reasm.present = k, reasm.seq = Num(k), p.at = k
  PROVE  LET r == Stored(reasm, p)
         IN /\ r \in Reasm /\ r.size = HelloLen /\ r.present \in k .. HelloLen
            /\ k < HelloLen => r.present > k
            /\ r.present <= p.at + p.len
            /\ r.seq = Num(r.present)
<1> DEFINE free == reasm.size - reasm.present
<1> DEFINE n == IF p.len < free THEN p.len ELSE free
<1> DEFINE r == Stored(reasm, p)
<1>1. /\ r.size = reasm.size /\ r.present = reasm.present + n
      /\ r.seq = (reasm.seq + n) % Modulus /\ r \in Reasm
  BY StoredIs
<1>2. p.at \in 0 .. Length /\ p.len \in 1 .. Length /\ p.at + p.len <= Length
  BY DEF Data, Sent, Packet
<1>3. n \in 0 .. Length /\ k + n <= HelloLen /\ k + n <= Length /\ k \in 0 .. Length
      /\ k + n <= p.at + p.len /\ (k < HelloLen => n > 0)
  BY <1>2, SizeAssumption
<1> HIDE DEF n, r
<1>4. (Num(k) + n) % Modulus = Num(k + n)
  BY <1>3, NumNext
<1>5. r.present = k + n /\ r.seq = Num(k + n)
  BY <1>1, <1>4
<1> QED BY <1>1, <1>3, <1>5, SizeAssumption DEF r

\* The entry with other pieces, which are in order
LEMMA GoesByReasm ==
  ASSUME NEW s, NEW sent, NEW q \in Reasm, Begun(s, sent), Tcp, s.t.tracked,
         ReasmOk([s.t EXCEPT !.reasm = q], sent)
  PROVE  /\ Goes(s, [s EXCEPT !.t = [s.t EXCEPT !.reasm = q]], sent, FALSE)
         /\ [s EXCEPT !.t = [s.t EXCEPT !.reasm = q]].t.req = s.t.req
<1> DEFINE b == [s.t EXCEPT !.reasm = q]
<1>1. s \in Handler /\ s.t \in Track /\ Hosted(s) /\ TrackOk(s.t, sent)
  BY BegunIs DEF Begun
<1>4. /\ b \in Track /\ b.tracked = s.t.tracked /\ b.syn = s.t.syn /\ b.delayed = s.t.delayed
      /\ b.retrans = s.t.retrans /\ b.reasm = q /\ b.req = s.t.req
      /\ b.host = s.t.host /\ b.hostFound = s.t.hostFound
  BY <1>1 DEF Track
<1>5. ReasmOk(b, sent)
  OBVIOUS
<1> HIDE DEF b
<1>6. RequestOk(b, sent)
  BY <1>1, <1>4 DEF TrackOk, RequestOk
<1>7. TrackOk(b, sent)
  BY <1>1, <1>4, <1>5, <1>6 DEF TrackOk
<1>8. Goes(s, [s EXCEPT !.t = b], sent, FALSE)
  BY <1>4, <1>7, GoesByTrack
<1>9. [s EXCEPT !.t = b].t = b
  BY <1>1 DEF Handler
<1> QED BY <1>4, <1>8, <1>9 DEF b

LEMMA GoesStays ==
  ASSUME NEW s, NEW sent, NEW more, Begun(s, sent)
  PROVE  Goes(s, s, sent, more)
BY DEF Goes, Counts

LEMMA ReasmFeedGoes ==
  ASSUME cfg \in Config, NEW s, NEW p \in Data, NEW u, Begun(s, u), Tcp
  PROVE  LET r == ReasmFeed(s, p)
             sent == u \cup Carried(p)
         IN /\ Goes(s, r, sent, FALSE) /\ r.t.req = s.t.req
            /\ ~ReasmIsEmpty(r) => 0 .. p.at + p.len - 1 \subseteq sent
<1> DEFINE r == ReasmFeed(s, p)
<1> DEFINE sent == u \cup Carried(p)
<1>1. Begun(s, sent)
  BY BegunGrows
<1>2. s \in Handler /\ s.t \in Track /\ TrackOk(s.t, u) /\ s.t.reasm \in Reasm /\ Hosted(s)
  BY BegunIs DEF Begun, Track
<1>0. cfg.isn \in 0 .. Modulus - 1
  BY DEF Config
<1>3. CASE Expected(s, p)
  <2> DEFINE k == s.t.reasm.present
  <2> DEFINE q == Stored(s.t.reasm, p)
  <2>1. r = [s EXCEPT !.t = [s.t EXCEPT !.reasm = q]]
    BY <1>2, <1>3 DEF ReasmFeed, Handler, Track
  <2>2. /\ s.t.reasm.size # 0 /\ s.t.reasm.seq = SeqNum(p)
        /\ s.t.reasm.size = HelloLen /\ k \in 1 .. HelloLen
        /\ s.t.reasm.seq = Num(k) /\ 0 .. k - 1 \subseteq u
        /\ cfg.app = "tls" /\ s.t.req.present
    BY <1>2, <1>3 DEF Expected, ReasmIsEmpty, TrackOk, ReasmOk
  <2>3. k \in 0 .. Length /\ k \in 0 .. HelloLen /\ p.at \in 0 .. Length /\ p.len \in 1 .. Length
    BY <2>2, SizeAssumption DEF Data, Sent, Packet
  <2>4. p.at = k
    <3> HIDE DEF k
    <3>1. Num(p.at) = Num(k)
      BY <2>2, SeqNumIs DEF Data
    <3> QED BY <1>0, <2>3, <3>1, NumOnce
  <2>5. /\ q \in Reasm /\ q.size = HelloLen /\ q.present \in k .. HelloLen
        /\ q.present <= p.at + p.len /\ q.seq = Num(q.present)
    BY <1>0, <1>2, <2>2, <2>3, <2>4, StoredNext
  <2> HIDE DEF k, q
  <2>6. 0 .. p.at + p.len - 1 \subseteq sent
    BY <2>2, <2>3, <2>4 DEF Carried
  <2>7. 0 .. q.present - 1 \subseteq sent /\ q.present \in 1 .. HelloLen
    BY <2>2, <2>3, <2>5, <2>6
  <2>8. s.t.tracked
    BY <1>2, <2>2 DEF TrackOk, NoTrack, NoReasm
  <2>9. ReasmOk([s.t EXCEPT !.reasm = q], sent)
    <3>1. [s.t EXCEPT !.reasm = q].reasm = q /\ [s.t EXCEPT !.reasm = q].req = s.t.req
      BY <1>2 DEF Track
    <3>2. HelloLen # 0
      BY SizeAssumption
    <3> QED BY <2>2, <2>5, <2>7, <3>1, <3>2 DEF ReasmOk
  <2> HIDE DEF sent
  <2> DEFINE w == [s EXCEPT !.t = [s.t EXCEPT !.reasm = q]]
  <2>10. Goes(s, r, sent, FALSE) /\ r.t.req = s.t.req
    <3>1. q \in Reasm
      BY <2>5
    <3>2. Goes(s, w, sent, FALSE) /\ w.t.req = s.t.req
      BY <1>1, <2>8, <2>9, <3>1, GoesByReasm
    <3>3. r = w
      BY <2>1
    <3> HIDE DEF w, r
    <3> QED BY <3>2, <3>3
  <2> QED BY <2>6, <2>10 DEF sent
<1>4. CASE ~Expected(s, p) /\ ~ReasmIsEmpty(s)
  <2>1. r = Cancel(s)
    BY <1>4 DEF ReasmFeed
  <2> HIDE DEF sent, r
  <2>2. Goes(s, r, sent, FALSE) /\ Ready(r) /\ r.t.req = s.t.req
    BY <1>1, <2>1, CancelGoes
  <2>3. ReasmIsEmpty(r)
    BY <2>2 DEF Ready, Goes, Begun, ReasmIsEmpty, NoReasm
  <2> QED BY <2>2, <2>3 DEF sent, r
<1>5. CASE ~Expected(s, p) /\ ReasmIsEmpty(s)
  <2>1. r = s
    BY <1>5 DEF ReasmFeed
  <2> HIDE DEF sent
  <2>2. Goes(s, s, sent, FALSE)
    BY <1>1, GoesStays
  <2>3. ReasmIsEmpty(r)
    BY <1>5, <2>1
  <2> HIDE DEF r
  <2> QED BY <2>1, <2>2, <2>3 DEF sent, r
<1> QED BY <1>3, <1>4, <1>5

\* Repeats of the request are of what was sent.
LEMMA RepeatIs ==
  ASSUME cfg \in Config, NEW s \in Handler, NEW p \in Data, NEW u, Tcp, RequestOk(s.t, u),
         IsRepeat(s, p)
  PROVE  Carried(p) \cap u # {}
<1>1. s.t.req.final /\ SeqWithin(SeqNum(p), s.t.req.from, s.t.req.to)
  BY DEF IsRepeat, InRequest
<1>2. PICK j \in 0 .. Length - 1 :
        s.t.req.from = Num(0) /\ s.t.req.to = Num(j) /\ 0 .. j \subseteq u
  BY <1>1 DEF RequestOk
<1>3. SeqNum(p) = Num(p.at) /\ p.at \in 0 .. Length /\ p.len \in 1 .. Length
  BY SeqNumIs DEF Data, Sent, Packet
<1>4. cfg.isn \in 0 .. Modulus - 1 /\ j \in 0 .. Length
  BY SizeAssumption DEF Config
<1>5. p.at <= j
  BY <1>1, <1>2, <1>3, <1>4, WithinIs
<1>6. p.at \in u /\ p.at \in Carried(p)
  BY <1>2, <1>3, <1>5 DEF Carried
<1> QED BY <1>6

LEMMA ProcessRetransFailGoes ==
  ASSUME cfg \in Config, NEW s, NEW p \in Data, NEW u, NEW sent, Begun(s, sent), Tcp,
         RequestOk(s.t, u)
  PROVE  LET r == ProcessRetransFail(s, p)
         IN /\ Goes(s, r, sent, Carried(p) \cap u # {})
            /\ r.t.req = s.t.req /\ r.t.reasm = s.t.reasm
<1> DEFINE r == ProcessRetransFail(s, p)
<1> DEFINE more == Carried(p) \cap u # {}
<1>1. s \in Handler /\ Watched(s) /\ Counting(s) /\ p \in Sent
  BY BegunIs DEF Data
<1>2. Moves(s, r, FALSE, IsRepeat(s, p))
  BY <1>1, ProcessRetransFailMoves
<1>3. IsRepeat(s, p) => more
  BY <1>1, RepeatIs
<1> HIDE DEF r, more
<1>4. Moves(s, r, FALSE, more)
  BY <1>2, <1>3 DEF Moves, Learns, Counts
<1>5. Goes(s, r, sent, more) /\ r.t.req = s.t.req /\ r.t.reasm = s.t.reasm
  BY <1>4, GoesByMoves
<1> QED BY <1>5 DEF r, more

\* A piece is held: it is in line behind the others.
LEMMA HoldDone ==
  ASSUME NEW s, NEW p \in Data, NEW sent, NEW more, Begun(s, sent), ~ReasmIsEmpty(s)
  PROVE  LET r == Hold(s, p)
         IN /\ Done(s, r, p, sent, more)
            /\ r.t.reasm = s.t.reasm /\ r.t.hostFound = s.t.hostFound
<1> DEFINE b == [s.t EXCEPT !.delayed = Append(s.t.delayed, p)]
<1> DEFINE r == [s EXCEPT !.t = b]
<1>1. s \in Handler /\ s.t \in Track /\ s.t.delayed \in Seq(Data) /\ TrackOk(s.t, sent)
  BY BegunIs DEF Begun
<1>2. Hold(s, p) = r
  BY <1>1 DEF Hold, Handler, Track
<1>3. Append(s.t.delayed, p) \in Seq(Data)
  BY <1>1
<1>4. /\ b \in Track /\ b.tracked = s.t.tracked /\ b.syn = s.t.syn
      /\ b.delayed = Append(s.t.delayed, p) /\ b.retrans = s.t.retrans
      /\ b.req = s.t.req /\ b.reasm = s.t.reasm
      /\ b.host = s.t.host /\ b.hostFound = s.t.hostFound
  BY <1>1, <1>3 DEF Track
<1> HIDE DEF b
<1>5. s.t.tracked /\ s.t.reasm.size # 0
  BY <1>1 DEF TrackOk, NoTrack, NoReasm, ReasmIsEmpty
<1>6. TrackOk(b, sent)
  BY <1>1, <1>4, <1>5 DEF TrackOk, RequestOk, ReasmOk, QuicOk
<1>7. r \in Handler /\ r.t = b /\ r.out = s.out /\ r.failed = s.failed
      /\ r.off = s.off /\ r.replay = s.replay
  BY <1>1, <1>4 DEF Handler
<1> HIDE DEF r
<1>8. Line(r) = Append(Line(s), p)
  <2>1. Packets(s.out) \in Seq(Sent) /\ s.t.delayed \in Seq(Sent) /\ p \in Sent
    BY BegunIs DEF Data
  <2> QED BY <1>4, <1>7, <2>1, AppendConcat DEF Line
<1>9. Counting(r) /\ Counts(s, r, more)
  BY <1>4, <1>7 DEF Counting, Counts, Begun
<1> QED BY <1>2, <1>4, <1>6, <1>7, <1>8, <1>9 DEF Done, Begun

\* The replay: nothing is held, and all that was is out.
LEMMA ReplayQueueGoes ==
  ASSUME cfg \in Config, NEW s, NEW u, NEW sent, NEW more, Begun(s, u), u \subseteq sent,
         Tcp \/ Units \subseteq sent, ~Tcp /\ s.t.hostFound => more
  PROVE  Goes(s, ReplayQueue(s), sent, more) /\ ReplayQueue(s).t.reasm = NoReasm
<1> DEFINE r == ReplayQueue(s)
<1>1. /\ s \in Handler /\ ~s.replay /\ s.off = 0 /\ Watched(s) /\ Counting(s) /\ Hosted(s)
      /\ Packets(s.out) \in Seq(Sent) /\ s.t \in Track
  BY BegunIs
<1>2. /\ r \in Handler /\ ~r.replay /\ r.off = 0
      /\ r.t.tracked = s.t.tracked /\ r.t.syn = s.t.syn /\ r.t.req = s.t.req
      /\ r.t.reasm = NoReasm /\ r.t.delayed = <<>>
      /\ ~s.t.tracked => r.t = [s.t EXCEPT !.reasm = NoReasm, !.delayed = <<>>]
      /\ Hosted(r)
      /\ Counts(s, r, ~Tcp /\ s.t.hostFound)
      /\ Packets(r.out) = Packets(s.out) \o s.t.delayed
  BY <1>1, ReplayQueueIs
<1> HIDE DEF r
<1>3. TrackOk(s.t, sent)
  BY TrackGrows DEF Begun
<1>4. ~r.t.tracked => r.t = [NoTrack EXCEPT !.syn = r.t.syn]
  <2>1. SUFFICES ASSUME ~s.t.tracked PROVE r.t = s.t
    BY <1>2, <1>3 DEF TrackOk
  <2>2. s.t.reasm = NoReasm /\ s.t.delayed = <<>>
    BY <1>3, <2>1 DEF TrackOk, NoTrack
  <2>3. s.t = [s.t EXCEPT !.reasm = NoReasm, !.delayed = <<>>]
    <3>1. s.t \in Track
      BY <1>1
    <3> QED BY <3>1, <2>2 DEF Track
  <2> QED BY <1>2, <2>1, <2>3
<1>5. TrackOk(r.t, sent)
  <2>1. RequestOk(s.t, sent) => RequestOk(r.t, sent)
    BY <1>2 DEF RequestOk
  <2>2. ReasmOk(r.t, sent)
    BY <1>2 DEF ReasmOk, NoReasm
  <2>3. ~Tcp => QuicOk(r.t, sent)
    BY <1>2 DEF QuicOk, NoReasm
  <2> QED BY <1>2, <1>3, <1>4, <2>1, <2>2, <2>3 DEF TrackOk, Hosted
<1>6. Counts(s, r, more)
  BY <1>2 DEF Counts
<1>7. Counting(r)
  BY <1>1, <1>2, <1>6, CountsCounting
<1>8. Line(r) = Line(s)
  <2>1. Packets(s.out) \o s.t.delayed \in Seq(Sent)
    BY BegunIs DEF Line
  <2> QED BY <1>2, <2>1, ConcatNone DEF Line
<1> QED BY <1>2, <1>5, <1>6, <1>7, <1>8 DEF Goes, Begun, r

LEMMA DoneGoes ==
  ASSUME NEW s \in Handler, NEW q, NEW r, NEW p, NEW sent, NEW u, NEW more,
         Done(s, q, p, u, FALSE), Goes(q, r, sent, more)
  PROVE  Done(s, r, p, sent, more)
BY CountsOn DEF Goes, Done, Begun

LEMMA HelloDesyncDone ==
  ASSUME cfg \in Config, NEW s, NEW p \in Sent, NEW have \in BOOLEAN, NEW sent, Begun(s, sent),
         ReasmIsEmpty(s), Tcp \/ Units \subseteq sent
  PROVE  /\ Done(s, HelloDesync(s, p, have), p, sent, ~Tcp /\ s.t.hostFound)
         /\ HelloDesync(s, p, have).t.reasm = NoReasm
<1> DEFINE m == ~Tcp /\ s.t.hostFound
<1> DEFINE r == HelloDesync(s, p, have)
<1>1. s \in Handler /\ Watched(s) /\ Counting(s) /\ s.off = 0 /\ Ready(s)
  BY BegunIs, ReadyIs
<1>2. Treats(s, r, p, have, ~Tcp /\ s.t.hostFound /\ s.off = 0)
  BY <1>1, HelloDesyncTreats
<1>3. Treats(s, r, p, have, m)
  BY <1>1, <1>2
<1> HIDE DEF r, m
<1>4. Done(s, r, p, sent, m) /\ r.t.reasm = NoReasm
  BY <1>1, <1>3, DoneByTreats
<1> QED BY <1>4 DEF r, m

LEMMA DiscoverDone ==
  ASSUME cfg \in Config, NEW s, NEW p \in Sent, NEW l7 \in BOOLEAN, NEW have \in BOOLEAN, NEW sent,
         Begun(s, sent), Ready(s), have => Tcp
  PROVE  Done(s, Discover(s, p, l7, have), p, sent, FALSE) /\ Discover(s, p, l7, have).t.reasm = NoReasm
<1> DEFINE m == ~Tcp /\ have /\ s.t.hostFound /\ s.off = 0
<1> DEFINE r == Discover(s, p, l7, have)
<1>1. s \in Handler /\ Watched(s) /\ Counting(s)
  BY BegunIs
<1>2. Treats(s, r, p, have, m)
  BY <1>1, DiscoverTreats
<1>3. m = FALSE
  OBVIOUS
<1> HIDE DEF r, m
<1>4. Treats(s, r, p, have, FALSE)
  BY <1>2, <1>3
<1>5. Done(s, r, p, sent, FALSE) /\ r.t.reasm = NoReasm
  BY <1>4, DoneByTreats
<1> QED BY <1>5 DEF r

LEMMA HasHostType == ASSUME NEW n PROVE HasHost(n) \in BOOLEAN
BY DEF HasHost

LEMMA HoldOrTreatDone ==
  ASSUME cfg \in Config, NEW s, NEW p \in Data, NEW have, NEW sent, Begun(s, sent), Tcp
  PROVE  Done(s, HoldOrTreat(s, p, have), p, sent, FALSE)
<1>0. s \in Handler /\ p \in Sent
  BY BegunIs DEF Data
<1>1. CASE ReasmIsEmpty(s)
  <2> DEFINE a == IF HasHost(have) THEN Abandon(s, p) ELSE s
  <2>1. Goes(s, a, sent, FALSE) /\ a.t.reasm = s.t.reasm
    BY <1>0, AbandonGoes, GoesStays
  <2>2. HoldOrTreat(s, p, have) = HelloDesync(a, p, HasHost(have))
    BY <1>1 DEF HoldOrTreat
  <2> HIDE DEF a
  <2>3. Begun(a, sent) /\ ReasmIsEmpty(a)
    BY <1>1, <2>1 DEF Goes, ReasmIsEmpty
  <2> DEFINE h == HasHost(have)
  <2>4. h \in BOOLEAN
    BY HasHostType
  <2> HIDE DEF h
  <2>5. Done(a, HelloDesync(a, p, h), p, sent, ~Tcp /\ a.t.hostFound)
    BY <1>0, <2>3, <2>4, HelloDesyncDone
  <2>6. Done(a, HelloDesync(a, p, h), p, sent, FALSE)
    BY <2>5
  <2>7. Done(s, HelloDesync(a, p, h), p, sent, FALSE)
    BY <1>0, <2>1, <2>6, DoneOn
  <2> QED BY <2>2, <2>7 DEF h
<1>2. CASE ~ReasmIsEmpty(s)
  <2> DEFINE q == Hold(s, p)
  <2>1. Done(s, q, p, sent, FALSE)
    BY <1>2, HoldDone
  <2>2. HoldOrTreat(s, p, have) = ReplayIfFull(q)
    BY <1>2 DEF HoldOrTreat
  <2> HIDE DEF q
  <2>3. Begun(q, sent)
    BY <2>1 DEF Done
  <2>4. CASE ReasmIsFull(q)
    <3>1. Goes(q, ReplayQueue(q), sent, FALSE)
      BY <2>3, ReplayQueueGoes
    <3>2. Done(s, ReplayQueue(q), p, sent, FALSE)
      BY <1>0, <2>1, <3>1, DoneGoes
    <3> QED BY <2>2, <2>4, <3>2 DEF ReplayIfFull
  <2>5. CASE ~ReasmIsFull(q)
    BY <2>1, <2>2, <2>5 DEF ReplayIfFull
  <2> QED BY <2>4, <2>5
<1> QED BY <1>1, <1>2

\* The reassembly of a hello begins with its first piece.
LEMMA ReasmStartGoes ==
  ASSUME cfg \in Config, NEW s, NEW p \in Data, NEW sent, Begun(s, sent), Tcp, cfg.app = "tls",
         s.t.tracked, s.t.req.present, p.at = 0, ReasmIsEmpty(s), Carried(p) \subseteq sent
  PROVE  Goes(s, ReasmStart(s, p, HelloLen), sent, FALSE)
<1> DEFINE e == [NoReasm EXCEPT !.size = HelloLen, !.seq = SeqNum(p)]
<1> DEFINE q == Stored(e, p)
<1>0. cfg.isn \in 0 .. Modulus - 1
  BY DEF Config
<1>1. s \in Handler /\ s.t \in Track
  BY BegunIs
<1>2. SeqNum(p) = Num(0) /\ SeqNum(p) \in 0 .. Modulus - 1
  BY <1>0, FirstNum, NumsType
<1>3. e \in Reasm /\ e.size = HelloLen /\ e.present = 0 /\ e.seq = Num(0)
  BY <1>2, SizeAssumption DEF NoReasm, Reasm
<1>4. ReasmStart(s, p, HelloLen) = [s EXCEPT !.t = [s.t EXCEPT !.reasm = q]]
  BY <1>1 DEF ReasmStart, Handler, Track
<1> HIDE DEF e
<1>5. 0 \in 0 .. HelloLen /\ HelloLen > 0
  BY SizeAssumption
<1>6. /\ q \in Reasm /\ q.size = HelloLen /\ q.present \in 0 .. HelloLen /\ q.present > 0
      /\ q.present <= p.at + p.len /\ q.seq = Num(q.present)
  BY <1>0, <1>3, <1>5, StoredNext
<1> HIDE DEF q
<1>7. 0 .. q.present - 1 \subseteq sent /\ q.present \in 1 .. HelloLen
  BY <1>6 DEF Carried, Data, Sent, Packet
<1>8. ReasmOk([s.t EXCEPT !.reasm = q], sent)
  <2>1. [s.t EXCEPT !.reasm = q].reasm = q /\ [s.t EXCEPT !.reasm = q].req = s.t.req
    BY <1>1 DEF Track
  <2> QED BY <1>5, <1>6, <1>7, <2>1 DEF ReasmOk
<1> DEFINE r == [s EXCEPT !.t = [s.t EXCEPT !.reasm = q]]
<1>9. q \in Reasm
  BY <1>6
<1>10. Goes(s, r, sent, FALSE)
  BY <1>8, <1>9, GoesByReasm
<1> HIDE DEF r
<1> QED BY <1>4, <1>10 DEF r

\* It begins before the request is noted, which makes no difference.
LEMMA StartAndInterval ==
  ASSUME NEW s \in Handler, NEW p, NEW full \in BOOLEAN
  PROVE  RequestInterval(ReasmStart(s, p, HelloLen), p, full)
           = ReasmStart(RequestInterval(s, p, full), p, HelloLen)
<1> DEFINE e == Stored([NoReasm EXCEPT !.size = HelloLen, !.seq = IF Tcp THEN SeqNum(p) ELSE 0], p)
<1> DEFINE q == [present |-> TRUE, final |-> full, abandoned |-> s.t.req.abandoned,
                 from |-> IF s.t.req.present THEN s.t.req.from ELSE SeqNum(p),
                 to |-> (PosNum(p) - 1) % Modulus]
<1>1. \A x : ReasmStart(x, p, HelloLen) = [x EXCEPT !.t = [x.t EXCEPT !.reasm = e]]
  BY DEF ReasmStart
<1>2. \A x : ~x.t.tracked \/ x.t.req.final => RequestInterval(x, p, full) = x
  BY DEF RequestInterval
<1>3. ASSUME NEW x, x.t.req = s.t.req, x.t.tracked, ~x.t.req.final
      PROVE  RequestInterval(x, p, full) = [x EXCEPT !.t = [x.t EXCEPT !.req = q]]
  BY <1>3 DEF RequestInterval
<1> HIDE DEF e, q
<1> DEFINE a == [s EXCEPT !.t = [s.t EXCEPT !.reasm = e]]
<1> DEFINE b == [s EXCEPT !.t = [s.t EXCEPT !.req = q]]
<1>4. a.t.tracked = s.t.tracked /\ a.t.req = s.t.req /\ ReasmStart(s, p, HelloLen) = a
  BY <1>1 DEF Handler, Track
<1>5. CASE ~s.t.tracked \/ s.t.req.final
  <2> HIDE DEF a
  <2> QED BY <1>2, <1>4, <1>5
<1>6. CASE s.t.tracked /\ ~s.t.req.final
  <2>1. RequestInterval(a, p, full) = [a EXCEPT !.t = [a.t EXCEPT !.req = q]]
    <3> HIDE DEF a
    <3> QED BY <1>3, <1>4, <1>6
  <2>2. RequestInterval(s, p, full) = b
    BY <1>3, <1>6
  <2>3. ReasmStart(b, p, HelloLen) = [b EXCEPT !.t = [b.t EXCEPT !.reasm = e]]
    <3> HIDE DEF b
    <3> QED BY <1>1
  <2>4. [a EXCEPT !.t = [a.t EXCEPT !.req = q]] = [b EXCEPT !.t = [b.t EXCEPT !.reasm = e]]
    BY DEF Handler, Track
  <2> HIDE DEF a, b
  <2> QED BY <1>4, <2>1, <2>2, <2>3, <2>4
<1> QED BY <1>5, <1>6

LEMMA TlsHelloDone ==
  ASSUME cfg \in Config, NEW s, NEW p \in Data, NEW have, NEW sent, Begun(s, sent), Tcp,
         cfg.app \in {"tls", "huge"}, ReasmIsEmpty(s) => p.at = 0,
         Carried(p) \subseteq sent, 0 .. p.at + p.len - 1 \subseteq sent
  PROVE  Done(s, TlsHello(s, p, have), p, sent, FALSE)
<1> DEFINE full == have >= HelloLen
<1> DEFINE begins == HelloBegins(s, p, full)
<1>0. s \in Handler /\ p \in Sent /\ full \in BOOLEAN /\ TrackOk(s.t, sent)
  BY BegunIs DEF Data, Begun
<1>1. p.at = 0 \/ s.t.req.present
  BY <1>0 DEF TrackOk, ReasmOk, ReasmIsEmpty
<1> DEFINE a == RequestInterval(s, p, full)
<1>2. /\ Goes(s, a, sent, FALSE) /\ a.t.reasm = s.t.reasm
      /\ s.t.tracked => a.t.req.present
  BY <1>0, <1>1, RequestIntervalGoes
<1>3. Begun(a, sent)
  BY <1>2 DEF Goes
<1>4. CASE begins /\ cfg.app = "huge"
  <2>1. TlsHello(s, p, have) = CancelAndSend(s, p)
    BY <1>4 DEF TlsHello
  <2> QED BY <1>0, <2>1, CancelAndSendDone
<1>5. CASE begins /\ cfg.app # "huge"
  <2> DEFINE b == ReasmStart(a, p, HelloLen)
  <2>1. TlsHello(s, p, have) = HoldOrTreat(RequestInterval(ReasmStart(s, p, HelloLen), p, full), p, have)
    BY <1>5 DEF TlsHello
  <2>2. RequestInterval(ReasmStart(s, p, HelloLen), p, full) = b
    <3> HIDE DEF full
    <3> QED BY <1>0, StartAndInterval
  <2>3. s.t.tracked /\ ReasmIsEmpty(s)
    BY <1>5 DEF HelloBegins
  <2> HIDE DEF a
  <2>4. a.t.tracked /\ a.t.req.present /\ ReasmIsEmpty(a) /\ p.at = 0
    BY <1>2, <2>3 DEF Goes, ReasmIsEmpty
  <2>5. Goes(a, b, sent, FALSE)
    BY <1>3, <1>5, <2>4, ReasmStartGoes
  <2> HIDE DEF b
  <2>6. Goes(s, b, sent, FALSE)
    BY <1>0, <1>2, <2>5, GoesOnwards
  <2>7. Done(b, HoldOrTreat(b, p, have), p, sent, FALSE)
    BY <2>6, HoldOrTreatDone DEF Goes
  <2>8. Done(s, HoldOrTreat(b, p, have), p, sent, FALSE)
    BY <1>0, <2>6, <2>7, DoneOn
  <2> QED BY <2>1, <2>2, <2>8
<1>6. CASE ~begins
  <2>1. TlsHello(s, p, have) = HoldOrTreat(a, p, have)
    BY <1>6 DEF TlsHello
  <2> HIDE DEF a
  <2>2. Done(a, HoldOrTreat(a, p, have), p, sent, FALSE)
    BY <1>3, HoldOrTreatDone
  <2>3. Done(s, HoldOrTreat(a, p, have), p, sent, FALSE)
    BY <1>0, <1>2, <2>2, DoneOn
  <2> QED BY <2>1, <2>3
<1> QED BY <1>4, <1>5, <1>6

LEMMA HttpRequestDone ==
  ASSUME cfg \in Config, NEW s, NEW p \in Data, NEW sent, Begun(s, sent), Tcp,
         Ready(s), p.at = 0, Carried(p) \subseteq sent
  PROVE  Done(s, HttpRequest(s, p), p, sent, FALSE)
<1> DEFINE a == WholeRequest(s, p)
<1> DEFINE b == Abandon(a, p)
<1>0. s \in Handler /\ p \in Sent /\ s.t.reasm = NoReasm
  BY BegunIs DEF Data, Ready
<1>1. Goes(s, a, sent, FALSE) /\ a.t.reasm = s.t.reasm
  BY WholeRequestGoes
<1>2. CASE HasHost(p.len)
  <2>1. HttpRequest(s, p) = Discover(b, p, TRUE, TRUE)
    BY <1>2 DEF HttpRequest
  <2> HIDE DEF a
  <2>2. Goes(a, b, sent, FALSE) /\ b.t.reasm = a.t.reasm
    BY <1>0, <1>1, AbandonGoes DEF Goes
  <2> HIDE DEF b
  <2>3. Goes(s, b, sent, FALSE)
    BY <1>0, <1>1, <2>2, GoesOnwards
  <2>4. Begun(b, sent) /\ ReasmIsEmpty(b)
    BY <1>0, <1>1, <2>2 DEF Goes, ReasmIsEmpty, NoReasm
  <2>5. Done(b, Discover(b, p, TRUE, TRUE), p, sent, FALSE)
    BY <1>0, <2>4, ReadyIs, DiscoverDone
  <2>6. Done(s, Discover(b, p, TRUE, TRUE), p, sent, FALSE)
    BY <1>0, <2>3, <2>5, DoneOn
  <2> QED BY <2>1, <2>6
<1>3. CASE ~HasHost(p.len)
  <2>1. HttpRequest(s, p) = SendOrig(s, p)
    BY <1>3 DEF HttpRequest
  <2>2. ReasmIsEmpty(s)
    BY <1>0 DEF ReasmIsEmpty, NoReasm
  <2>3. Treats(s, SendOrig(s, p), p, FALSE, FALSE)
    BY <1>0, SendOrigTreats
  <2>4. Done(s, SendOrig(s, p), p, sent, FALSE)
    BY <1>0, <2>2, <2>3, ReadyIs, DoneByTreats
  <2> QED BY <2>1, <2>4
<1> QED BY <1>2, <1>3

LEMMA TcpPayloadDone ==
  ASSUME cfg \in Config, NEW s, NEW p \in Data, NEW sent, Begun(s, sent), Tcp,
         Carried(p) \subseteq sent, ~ReasmIsEmpty(s) => 0 .. p.at + p.len - 1 \subseteq sent
  PROVE  Done(s, TcpPayload(s, p), p, sent, FALSE)
<1> DEFINE begins == p.at = 0 \/ ~ReasmIsEmpty(s)
<1> DEFINE a == KnownL7(s)
<1>0. s \in Handler /\ p \in Sent /\ TrackOk(s.t, sent)
  BY BegunIs DEF Data, Begun
<1>1. Goes(s, a, sent, FALSE) /\ a.t.reasm = s.t.reasm /\ Begun(a, sent)
  BY KnownL7Goes DEF Goes
<1>2. CASE begins /\ cfg.app = "http"
  <2>1. TcpPayload(s, p) = HttpRequest(Cancel(a), p)
    BY <1>2 DEF TcpPayload
  <2>2. p.at = 0
    BY <1>0, <1>2 DEF TrackOk, ReasmOk, ReasmIsEmpty
  <2> HIDE DEF a
  <2> DEFINE b == Cancel(a)
  <2>3. Goes(a, b, sent, FALSE) /\ Ready(b)
    BY <1>1, CancelGoes
  <2> HIDE DEF b
  <2>4. Goes(s, b, sent, FALSE)
    BY <1>0, <1>1, <2>3, GoesOnwards
  <2>5. Done(b, HttpRequest(b, p), p, sent, FALSE)
    BY <2>2, <2>3, HttpRequestDone DEF Goes
  <2>6. Done(s, HttpRequest(b, p), p, sent, FALSE)
    BY <1>0, <2>4, <2>5, DoneOn
  <2> QED BY <2>1, <2>6 DEF b
<1>3. CASE begins /\ cfg.app \in {"tls", "huge"}
  <2> DEFINE have == IF ReasmIsEmpty(s) THEN p.len ELSE s.t.reasm.present
  <2>1. TcpPayload(s, p) = TlsHello(a, p, have)
    BY <1>3 DEF TcpPayload
  <2> HIDE DEF a, have
  <2>2. (ReasmIsEmpty(a) => p.at = 0) /\ 0 .. p.at + p.len - 1 \subseteq sent
    BY <1>1, <1>3 DEF ReasmIsEmpty, Carried
  <2>3. Done(a, TlsHello(a, p, have), p, sent, FALSE)
    BY <1>1, <1>3, <2>2, TlsHelloDone
  <2>4. Done(s, TlsHello(a, p, have), p, sent, FALSE)
    BY <1>0, <1>1, <2>3, DoneOn
  <2> QED BY <2>1, <2>4
<1>4. CASE ~(begins /\ cfg.app = "http") /\ ~(begins /\ cfg.app \in {"tls", "huge"})
  <2> DEFINE b == Abandon(s, p)
  <2>1. TcpPayload(s, p) = Discover(b, p, FALSE, FALSE)
    BY <1>4 DEF TcpPayload
  <2>2. ReasmIsEmpty(s)
    BY <1>0, <1>4 DEF TrackOk, ReasmOk, ReasmIsEmpty
  <2>3. Goes(s, b, sent, FALSE) /\ b.t.reasm = s.t.reasm
    BY <1>0, AbandonGoes
  <2> HIDE DEF b
  <2>4. Begun(b, sent) /\ ReasmIsEmpty(b)
    BY <2>2, <2>3 DEF Goes, ReasmIsEmpty
  <2>5. Done(b, Discover(b, p, FALSE, FALSE), p, sent, FALSE)
    BY <1>0, <2>4, ReadyIs, DiscoverDone
  <2>6. Done(s, Discover(b, p, FALSE, FALSE), p, sent, FALSE)
    BY <1>0, <2>3, <2>5, DoneOn
  <2> QED BY <2>1, <2>6
<1> QED BY <1>2, <1>3, <1>4

\* A packet with payload, from the entry to the end
LEMMA TcpDataDone ==
  ASSUME cfg \in Config, NEW s, NEW p \in Data, NEW u, Begun(s, u), Tcp
  PROVE  Done(s, TcpDesync(s, p), p, u \cup Carried(p), Carried(p) \cap u # {})
<1> DEFINE sent == u \cup Carried(p)
<1> DEFINE more == Carried(p) \cap u # {}
<1>0. s \in Handler /\ p \in Sent /\ RequestOk(s.t, u) /\ Begun(s, sent)
  BY BegunIs, BegunGrows DEF Data, Begun, TrackOk
<1>1. CASE ~CheckDesyncInterval(s)
  <2>1. TcpDesync(s, p) = CancelAndSend(s, p)
    BY <1>1 DEF TcpDesync
  <2> HIDE DEF sent, more
  <2>2. Done(s, CancelAndSend(s, p), p, sent, more)
    BY <1>0, CancelAndSendDone
  <2> QED BY <2>1, <2>2 DEF sent, more
<1>2. CASE CheckDesyncInterval(s)
  <2> DEFINE a == ReasmFeed(s, p)
  <2> DEFINE b == ProcessRetransFail(a, p)
  <2> DEFINE c == TcpPayload(b, p)
  <2>0. p.len # 0
    BY DEF Data, Sent, Packet
  <2>1. TcpDesync(s, p) = c
    BY <1>2, <2>0 DEF TcpDesync
  <2>2. /\ Goes(s, a, sent, FALSE) /\ a.t.req = s.t.req
        /\ ~ReasmIsEmpty(a) => 0 .. p.at + p.len - 1 \subseteq sent
    BY ReasmFeedGoes
  <2>8. Carried(p) \subseteq sent
    OBVIOUS
  <2> HIDE DEF a, sent
  <2>3. Begun(a, sent) /\ RequestOk(a.t, u)
    BY <1>0, <2>2 DEF Goes, RequestOk
  <2>4. Goes(a, b, sent, more) /\ b.t.reasm = a.t.reasm
    BY <2>3, ProcessRetransFailGoes
  <2> HIDE DEF b, more
  <2>5. Goes(s, b, sent, more)
    BY <1>0, <2>2, <2>4, GoesOnwards
  <2>6. Done(b, c, p, sent, FALSE)
    <3>1. ~ReasmIsEmpty(b) => 0 .. p.at + p.len - 1 \subseteq sent
      BY <2>2, <2>4 DEF ReasmIsEmpty
    <3>2. Begun(b, sent)
      BY <2>5 DEF Goes
    <3> QED BY <2>8, <3>1, <3>2, TcpPayloadDone
  <2> HIDE DEF c
  <2>7. Done(s, c, p, sent, more)
    BY <1>0, <2>5, <2>6, DoneThen
  <2> QED BY <2>1, <2>7 DEF sent, more
<1> QED BY <1>1, <1>2

\* A packet without payload changes nothing of what is known; it leaves, and
\* overtakes what is held or is sent behind it.
LEMMA TcpBareDone ==
  ASSUME cfg \in Config, NEW s, NEW p \in Sent, NEW u, Begun(s, u), Tcp, p.len = 0
  PROVE  LET r == TcpDesync(s, p)
         IN /\ Begun(r, u) /\ Counts(s, r, FALSE)
            /\ r.t = s.t \/ r.t = [s.t EXCEPT !.reasm = NoReasm, !.delayed = <<>>]
            /\ \/ Line(r) = Append(Line(s), p)
               \/ Packets(r.out) = Append(Packets(s.out), p) /\ r.t.delayed = s.t.delayed
<1> DEFINE r == TcpDesync(s, p)
<1>0. s \in Handler /\ s.t \in Track /\ ~s.replay
  BY BegunIs
<1>1. CASE ~CheckDesyncInterval(s)
  <2>1. r = CancelAndSend(s, p)
    BY <1>1 DEF TcpDesync
  <2>2. Done(s, CancelAndSend(s, p), p, u, FALSE)
    BY CancelAndSendDone
  <2>3. r.t = [s.t EXCEPT !.reasm = NoReasm, !.delayed = <<>>]
    <3>1. Cancel(s) \in Handler /\ Cancel(s).t = [s.t EXCEPT !.reasm = NoReasm, !.delayed = <<>>]
      BY <1>0, CancelIs
    <3>2. SendOrig(Cancel(s), p).t = Cancel(s).t
      BY <3>1 DEF SendOrig, Handler
    <3> QED BY <2>1, <3>1, <3>2 DEF CancelAndSend
  <2> QED BY <2>1, <2>2, <2>3 DEF Done
<1>2. CASE CheckDesyncInterval(s)
  <2>1. r = SendOrig(s, p)
    BY <1>2 DEF TcpDesync
  <2> HIDE DEF r
  <2>2. r = [s EXCEPT !.out = Append(s.out, Plain(p))]
    BY <2>1, <1>0 DEF SendOrig
  <2>3. Plain(p) \in Out /\ Plain(p).pkt = p /\ s.out \in Seq(Out)
    BY <1>0, PlainIs DEF Handler
  <2>4. Append(s.out, Plain(p)) \in Seq(Out)
    BY <2>3
  <2>5. r \in Handler /\ r.t = s.t /\ r.replay = s.replay /\ r.off = s.off /\ r.failed = s.failed
        /\ r.out = Append(s.out, Plain(p))
    BY <1>0, <2>2, <2>4 DEF Handler
  <2>6. Packets(r.out) = Append(Packets(s.out), p)
    BY <2>3, <2>5, PacketsAppend
  <2>7. Begun(r, u) /\ Counts(s, r, FALSE)
    BY <2>5 DEF Begun, Counting, Counts
  <2> QED BY <2>5, <2>6, <2>7 DEF r
<1> QED BY <1>1, <1>2

-----------------------------------------------------------------------------
(* QUIC                                                                    *)

\* Of what is held something is missing.
Missing(tr) == tr.reasm.size # 0 => tr.reasm.crypto # Units

LEMMA GoesByPieces ==
  ASSUME NEW s, NEW sent, NEW q \in Reasm, Begun(s, sent), ~Tcp, s.t.tracked,
         q.size # 0, q.crypto \subseteq sent
  PROVE  LET r == [s EXCEPT !.t = [s.t EXCEPT !.reasm = q]]
         IN Goes(s, r, sent, FALSE) /\ r.t.reasm = q /\ r.t.hostFound = s.t.hostFound
<1> DEFINE b == [s.t EXCEPT !.reasm = q]
<1>1. s \in Handler /\ s.t \in Track /\ Hosted(s) /\ TrackOk(s.t, sent)
  BY BegunIs DEF Begun
<1>2. /\ b \in Track /\ b.tracked = s.t.tracked /\ b.syn = s.t.syn /\ b.delayed = s.t.delayed
      /\ b.retrans = s.t.retrans /\ b.reasm = q
      /\ b.host = s.t.host /\ b.hostFound = s.t.hostFound
  BY <1>1 DEF Track
<1> HIDE DEF b
<1>3. TrackOk(b, sent)
  BY <1>1, <1>2 DEF TrackOk, QuicOk
<1>4. Goes(s, [s EXCEPT !.t = b], sent, FALSE)
  BY <1>2, <1>3, GoesByTrack
<1>5. [s EXCEPT !.t = b].t = b
  BY <1>1 DEF Handler
<1> QED BY <1>2, <1>4, <1>5 DEF b

LEMMA QuicStartGoes ==
  ASSUME NEW s, NEW p \in Data, NEW sent, Begun(s, sent), ~Tcp, s.t.tracked,
         p.crypto \subseteq sent
  PROVE  LET r == ReasmStart(s, p, Room)
         IN /\ Goes(s, r, sent, FALSE) /\ r.t.hostFound = s.t.hostFound
            /\ r.t.reasm.size # 0 /\ r.t.reasm.crypto = p.crypto
<1> DEFINE e == [NoReasm EXCEPT !.size = Room, !.seq = 0]
<1> DEFINE q == Stored(e, p)
<1>1. s \in Handler
  BY BegunIs
<1>2. e \in Reasm /\ e.size = Room /\ e.present = 0 /\ e.crypto = {} /\ Room \in Nat /\ Room > 0
  <2>1. Room \in Nat /\ Room > 0 /\ 0 \in 0 .. Modulus - 1 /\ {} \in SUBSET Units
    BY SizeAssumption
  <2>2. e.size = Room /\ e.present = 0 /\ e.crypto = {}
    BY DEF NoReasm
  <2>3. e \in Reasm
    BY <2>1, NoReasmType DEF Reasm
  <2> QED BY <2>1, <2>2, <2>3
<1>3. ReasmStart(s, p, Room) = [s EXCEPT !.t = [s.t EXCEPT !.reasm = q]]
  BY <1>1 DEF ReasmStart, Handler, Track
<1>4. p.len \in Nat /\ p.len > 0
  BY DEF Data, Sent, Packet
<1> HIDE DEF e
<1> DEFINE free == e.size - e.present
<1> DEFINE n == IF p.len < free THEN p.len ELSE free
<1>5. q \in Reasm /\ q.size = Room /\ q.crypto = p.crypto
  <2>1. /\ q \in Reasm /\ q.size = e.size
        /\ q.crypto = (IF n = 0 THEN e.crypto ELSE e.crypto \cup p.crypto)
    BY <1>2, StoredIs
  <2>2. n # 0
    BY <1>2, <1>4
  <2> HIDE DEF q, n
  <2> QED BY <1>2, <2>1, <2>2
<1> HIDE DEF q
<1>6. q.size # 0 /\ q.crypto \subseteq sent
  BY <1>2, <1>5
<1> DEFINE r == [s EXCEPT !.t = [s.t EXCEPT !.reasm = q]]
<1>7. Goes(s, r, sent, FALSE) /\ r.t.reasm = q /\ r.t.hostFound = s.t.hostFound
  BY <1>5, <1>6, GoesByPieces
<1> QED
  <2> HIDE DEF r
  <2>1. ReasmStart(s, p, Room) = r
    BY <1>3 DEF r
  <2> QED BY <1>5, <1>6, <1>7, <2>1

LEMMA QuicFeedGoes ==
  ASSUME NEW s, NEW p \in Data, NEW sent, Begun(s, sent), ~Tcp, s.t.tracked,
         p.crypto \subseteq sent, ~ReasmIsEmpty(s), NEW n, n = p.len, ReasmHasSpace(s, n)
  PROVE  LET r == ReasmFeed(s, p)
         IN /\ Goes(s, r, sent, FALSE) /\ r.t.hostFound = s.t.hostFound
            /\ r.t.reasm.size # 0 /\ r.t.reasm.crypto = s.t.reasm.crypto \cup p.crypto
<1> DEFINE e == s.t.reasm
<1> DEFINE q == Stored(e, p)
<1>1. s \in Handler /\ s.t \in Track /\ TrackOk(s.t, sent) /\ e \in Reasm
  BY BegunIs DEF Begun, Track
<1>2. ReasmFeed(s, p) = [s EXCEPT !.t = [s.t EXCEPT !.reasm = q]]
  BY <1>1 DEF ReasmFeed, Expected, Handler, Track
<1>3. p.len \in Nat /\ p.len > 0 /\ e.size \in Nat /\ e.present \in Nat
      /\ e.present + p.len <= e.size /\ e.size # 0
  BY <1>1 DEF Data, Sent, Packet, Reasm, ReasmHasSpace, ReasmIsEmpty
<1>4. e.crypto \subseteq sent
  BY <1>1, <1>3 DEF TrackOk, QuicOk
<1> HIDE DEF e
<1> DEFINE free == e.size - e.present
<1> DEFINE m == IF p.len < free THEN p.len ELSE free
<1>5. q \in Reasm /\ q.size = e.size /\ q.crypto = e.crypto \cup p.crypto
  <2>1. /\ q \in Reasm /\ q.size = e.size
        /\ q.crypto = (IF m = 0 THEN e.crypto ELSE e.crypto \cup p.crypto)
    BY <1>1, StoredIs DEF e
  <2>2. m # 0
    BY <1>3
  <2> HIDE DEF q, m
  <2> QED BY <2>1, <2>2
<1> HIDE DEF q
<1>6. q.size # 0 /\ q.crypto \subseteq sent
  BY <1>3, <1>4, <1>5
<1> DEFINE r == [s EXCEPT !.t = [s.t EXCEPT !.reasm = q]]
<1>7. Goes(s, r, sent, FALSE) /\ r.t.reasm = q /\ r.t.hostFound = s.t.hostFound
  BY <1>5, <1>6, GoesByPieces
<1> QED
  <2> HIDE DEF r
  <2>1. ReasmFeed(s, p) = r
    BY <1>2 DEF r
  <2> QED BY <1>5, <1>6, <1>7, <2>1 DEF e

LEMMA NoReasmMissing ==
  ASSUME NEW tr, tr.reasm = NoReasm
  PROVE  Missing(tr)
BY DEF Missing, NoReasm

LEMMA DoneMore ==
  ASSUME NEW s, NEW r, NEW p, NEW sent, NEW more, Done(s, r, p, sent, FALSE)
  PROVE  Done(s, r, p, sent, more)
BY DEF Done, Counts

LEMMA QuicReasmCancelDone ==
  ASSUME cfg \in Config, NEW s, NEW p \in Data, NEW sent, NEW more, Begun(s, sent), ~Tcp
  PROVE  LET r == QuicReasmCancel(s, p)
         IN Done(s, r, p, sent, more) /\ Missing(r.t)
<1> DEFINE r == QuicReasmCancel(s, p)
<1>0. s \in Handler /\ p \in Sent
  BY BegunIs DEF Data
<1>1. CASE AnyProto(s.t.dp)
  <2> DEFINE q == Cancel(s)
  <2>1. r = Discover(q, p, TRUE, FALSE)
    BY <1>1 DEF QuicReasmCancel
  <2>2. Goes(s, q, sent, FALSE) /\ Ready(q)
    BY CancelGoes
  <2> HIDE DEF q, r
  <2>3. Done(q, r, p, sent, FALSE) /\ r.t.reasm = NoReasm
    BY <1>0, <2>1, <2>2, DiscoverDone DEF Goes
  <2>4. Done(s, r, p, sent, FALSE)
    BY <1>0, <2>2, <2>3, DoneOn
  <2> QED BY <2>3, <2>4, DoneMore, NoReasmMissing DEF r
<1>2. CASE ~AnyProto(s.t.dp)
  <2>1. r = CancelAndSend(s, p)
    BY <1>2 DEF QuicReasmCancel
  <2> QED BY <1>0, <2>1, CancelAndSendDone, NoReasmMissing
<1> QED BY <1>1, <1>2

LEMMA QuicTreatDone ==
  ASSUME cfg \in Config, NEW s, NEW p \in Data, NEW sent, NEW crypto \in SUBSET Units, NEW more,
         Begun(s, sent), ~Tcp, s.t.tracked, crypto \subseteq sent,
         IF ReasmIsEmpty(s) THEN crypto = p.crypto ELSE crypto = s.t.reasm.crypto,
         s.t.hostFound /\ crypto = Units => more
  PROVE  LET r == QuicTreat(s, p, crypto)
         IN Done(s, r, p, sent, more) /\ Missing(r.t)
<1> DEFINE r == QuicTreat(s, p, crypto)
<1>0. s \in Handler /\ p \in Sent
  BY BegunIs DEF Data
<1>1. CASE crypto = {}
  <2>1. r = QuicReasmCancel(s, p)
    BY <1>1 DEF QuicTreat
  <2> QED BY <2>1, QuicReasmCancelDone
<1>2. CASE crypto # {} /\ (crypto # Units \/ ~ReasmIsEmpty(s))
  <2> DEFINE a == IF ReasmIsEmpty(s) THEN ReasmStart(s, p, Room) ELSE s
  <2> DEFINE b == Hold(a, p)
  <2>1. r = ReplayIf(crypto = Units, b)
    BY <1>2 DEF QuicTreat
  <2>2. Goes(s, a, sent, FALSE) /\ a.t.hostFound = s.t.hostFound
        /\ a.t.reasm.size # 0 /\ a.t.reasm.crypto = crypto
    BY QuicStartGoes, GoesStays DEF ReasmIsEmpty
  <2> HIDE DEF a
  <2>3. Done(a, b, p, sent, FALSE) /\ b.t.reasm = a.t.reasm /\ b.t.hostFound = a.t.hostFound
    BY <2>2, HoldDone DEF Goes, ReasmIsEmpty
  <2> HIDE DEF b
  <2>4. Done(s, b, p, sent, FALSE)
    BY <1>0, <2>2, <2>3, DoneOn
  <2>5. CASE crypto = Units
    <3>1. r = ReplayQueue(b)
      BY <2>1, <2>5 DEF ReplayIf
    <3>2. Begun(b, sent) /\ Units \subseteq sent /\ (b.t.hostFound => more)
      BY <2>2, <2>3, <2>5 DEF Done
    <3> HIDE DEF r
    <3>3. Goes(b, r, sent, more) /\ r.t.reasm = NoReasm
      BY <3>1, <3>2, ReplayQueueGoes
    <3>4. Done(s, r, p, sent, more)
      BY <1>0, <2>4, <3>3, DoneGoes
    <3> QED BY <3>3, <3>4, NoReasmMissing DEF r
  <2>6. CASE crypto # Units
    <3>1. r = b
      BY <2>1, <2>6 DEF ReplayIf
    <3> QED BY <2>2, <2>3, <2>4, <2>6, <3>1, DoneMore DEF Missing
  <2> QED BY <2>5, <2>6
<1>3. CASE crypto = Units /\ crypto # {} /\ ReasmIsEmpty(s)
  <2> DEFINE h == HasHost(HelloLen)
  <2>1. r = HelloDesync(s, p, h)
    BY <1>3 DEF QuicTreat
  <2>2. h \in BOOLEAN
    BY HasHostType
  <2> HIDE DEF h, r
  <2>3. Done(s, r, p, sent, ~Tcp /\ s.t.hostFound) /\ r.t.reasm = NoReasm
    BY <1>0, <1>3, <2>1, <2>2, HelloDesyncDone
  <2>4. Done(s, r, p, sent, more)
    BY <1>3, <2>3 DEF Done, Counts
  <2> QED BY <2>3, <2>4, NoReasmMissing DEF r
<1> QED BY <1>1, <1>2, <1>3

LEMMA QuicInitialDone ==
  ASSUME cfg \in Config, NEW s, NEW p \in Data, NEW u, NEW sent, NEW more,
         Begun(s, sent), ~Tcp, s.t.tracked, p.crypto \subseteq sent, Missing(s.t),
         s.t.hostFound /\ p.crypto # {} => more
  PROVE  LET r == QuicInitial(s, p)
         IN Done(s, r, p, sent, more) /\ Missing(r.t)
<1> DEFINE r == QuicInitial(s, p)
<1>0. s \in Handler /\ p \in Sent /\ p.crypto \in SUBSET Units /\ s.t.reasm.crypto \in SUBSET Units
      /\ TrackOk(s.t, sent)
  BY BegunIs DEF Data, Sent, Packet, Track, Reasm, Begun
<1>1. CASE ReasmIsEmpty(s)
  <2> DEFINE c == p.crypto
  <2>1. r = QuicTreat(s, p, c)
    BY <1>1 DEF QuicInitial
  <2>2. c \in SUBSET Units /\ (c = Units => c # {})
    <3>1. 0 \in Units
      BY SizeAssumption DEF Units
    <3> QED BY <1>0, <3>1
  <2>3. s.t.hostFound /\ c = Units => more
    BY <2>2
  <2>4. c = p.crypto /\ c \subseteq sent
    OBVIOUS
  <2> HIDE DEF c
  <2>5. LET q == QuicTreat(s, p, c) IN Done(s, q, p, sent, more) /\ Missing(q.t)
    BY <1>1, <2>2, <2>3, <2>4, QuicTreatDone
  <2> QED BY <2>1, <2>5
<1>2. CASE ~ReasmIsEmpty(s) /\ ReasmHasSpace(s, p.len)
  <2> DEFINE c == s.t.reasm.crypto \cup p.crypto
  <2> DEFINE a == ReasmFeed(s, p)
  <2>1. r = QuicTreat(a, p, c)
    BY <1>2 DEF QuicInitial
  <2>2. c \in SUBSET Units /\ c \subseteq sent
    BY <1>0, <1>2 DEF TrackOk, QuicOk, ReasmIsEmpty
  <2>3. /\ Goes(s, a, sent, FALSE) /\ a.t.hostFound = s.t.hostFound
        /\ a.t.reasm.size # 0 /\ a.t.reasm.crypto = c
    <3> HIDE DEF r
    <3> DEFINE n == p.len
    <3>1. n = p.len /\ ReasmHasSpace(s, n)
      BY <1>2
    <3>2. \A x : LET y == ReasmFeed(s, p)
                IN ReasmHasSpace(s, x) /\ x = p.len =>
                     /\ Goes(s, y, sent, FALSE) /\ y.t.hostFound = s.t.hostFound
                     /\ y.t.reasm.size # 0 /\ y.t.reasm.crypto = s.t.reasm.crypto \cup p.crypto
      <4> HIDE DEF n, c, a
      <4> QED BY <1>2, QuicFeedGoes
    <3> QED BY <3>1, <3>2
  <2>4. c = Units => p.crypto # {}
    BY <1>2 DEF Missing, ReasmIsEmpty
  <2> HIDE DEF c, a
  <2>5. Begun(a, sent) /\ a.t.tracked /\ ~ReasmIsEmpty(a) /\ (a.t.hostFound /\ c = Units => more)
    BY <2>3, <2>4 DEF Goes, ReasmIsEmpty
  <2>6. LET q == QuicTreat(a, p, c) IN Done(a, q, p, sent, more) /\ Missing(q.t)
    BY <2>2, <2>3, <2>5, QuicTreatDone
  <2> HIDE DEF r
  <2>7. Done(a, r, p, sent, more) /\ Missing(r.t)
    BY <2>1, <2>6
  <2>8. Done(s, r, p, sent, more)
    BY <1>0, <2>3, <2>7, DoneOn
  <2> QED BY <2>7, <2>8 DEF r
<1>3. CASE ~ReasmIsEmpty(s) /\ ~ReasmHasSpace(s, p.len)
  <2>1. r = CancelAndSend(s, p)
    BY <1>3 DEF QuicInitial
  <2> QED BY <1>0, <2>1, CancelAndSendDone, NoReasmMissing
<1> QED BY <1>1, <1>2, <1>3

LEMMA UdpDataDone ==
  ASSUME cfg \in Config, NEW s, NEW p \in Data, NEW sent, NEW more, Begun(s, sent), ~Tcp, Ready(s)
  PROVE  LET r == UdpData(s, p)
         IN Done(s, r, p, sent, more) /\ Missing(r.t)
<1> DEFINE r == UdpData(s, p)
<1>0. s \in Handler /\ p \in Sent
  BY BegunIs DEF Data
<1>1. CASE AnyProto(s.dp)
  <2>1. r = Discover(s, p, FALSE, FALSE)
    BY <1>1 DEF UdpData
  <2> HIDE DEF r
  <2>2. Done(s, r, p, sent, FALSE) /\ r.t.reasm = NoReasm
    BY <1>0, <2>1, DiscoverDone
  <2> QED BY <2>2, DoneMore, NoReasmMissing DEF r
<1>2. CASE ~AnyProto(s.dp)
  <2>1. r = SendOrig(s, p)
    BY <1>2 DEF UdpData
  <2> HIDE DEF r
  <2>2. Treats(s, r, p, FALSE, more)
    BY <1>0, <2>1, SendOrigTreats
  <2>3. Done(s, r, p, sent, more) /\ r.t.reasm = NoReasm
    BY <1>0, <2>2, DoneByTreats
  <2> QED BY <2>3, NoReasmMissing DEF r
<1> QED BY <1>1, <1>2

LEMMA UdpPayloadDone ==
  ASSUME cfg \in Config, NEW s, NEW p \in Data, NEW sent, NEW more,
         Begun(s, sent), ~Tcp, s.t.tracked, p.crypto \subseteq sent, Missing(s.t),
         s.t.hostFound /\ p.crypto # {} => more
  PROVE  LET r == UdpPayload(s, p)
         IN Done(s, r, p, sent, more) /\ Missing(r.t)
<1> DEFINE r == UdpPayload(s, p)
<1> DEFINE a == KnownL7(s)
<1>0. s \in Handler
  BY BegunIs
<1>1. Goes(s, a, sent, FALSE) /\ a.t.reasm = s.t.reasm /\ a.t.hostFound = s.t.hostFound
  BY KnownL7Goes
<1>2. CASE p.kind = "initial"
  <2>1. r = QuicInitial(a, p)
    BY <1>2 DEF UdpPayload
  <2> HIDE DEF a, r
  <2>2. Begun(a, sent) /\ a.t.tracked /\ Missing(a.t) /\ (a.t.hostFound /\ p.crypto # {} => more)
    BY <1>1 DEF Goes, Missing
  <2>3. Done(a, r, p, sent, more) /\ Missing(r.t)
    BY <2>1, <2>2, QuicInitialDone
  <2>4. Done(s, r, p, sent, more)
    BY <1>0, <1>1, <2>3, DoneOn
  <2> QED BY <2>3, <2>4 DEF r
<1>3. CASE p.kind = "odd"
  <2>1. r = QuicReasmCancel(a, p)
    BY <1>3 DEF UdpPayload
  <2> HIDE DEF a, r
  <2>3. Done(a, r, p, sent, more) /\ Missing(r.t)
    BY <1>1, <2>1, QuicReasmCancelDone DEF Goes
  <2>4. Done(s, r, p, sent, more)
    BY <1>0, <1>1, <2>3, DoneOn
  <2> QED BY <2>3, <2>4 DEF r
<1>4. CASE ~(p.kind = "initial") /\ ~(p.kind = "odd")
  <2> DEFINE b == StopRetransCounter(s)
  <2> DEFINE c == Cancel(b)
  <2>1. r = UdpData(c, p)
    BY <1>4 DEF UdpPayload
  <2>2. Moves(s, b, FALSE, FALSE)
    BY BegunIs, StopRetransCounterMoves
  <2> HIDE DEF b, r
  <2>3. Goes(s, b, sent, FALSE)
    BY <2>2, GoesByMoves
  <2>4. Goes(b, c, sent, FALSE) /\ Ready(c)
    BY <2>3, CancelGoes DEF Goes
  <2> HIDE DEF c
  <2>5. Goes(s, c, sent, FALSE) /\ Begun(c, sent)
    BY <1>0, <2>3, <2>4, GoesOnwards DEF Goes
  <2>6. Done(c, r, p, sent, more) /\ Missing(r.t)
    BY <2>1, <2>4, <2>5, UdpDataDone
  <2>7. Done(s, r, p, sent, more)
    BY <1>0, <2>5, <2>6, DoneOn
  <2> QED BY <2>6, <2>7 DEF r
<1> QED BY <1>2, <1>3, <1>4

\* A datagram, from the entry to the end
LEMMA UdpDone ==
  ASSUME cfg \in Config, NEW s, NEW p \in Data, NEW u, Begun(s, u), ~Tcp, s.t.tracked, Missing(s.t)
  PROVE  LET r == UdpDesync(s, p)
         IN Done(s, r, p, u \cup Carried(p), Carried(p) \cap u # {}) /\ Missing(r.t)
<1> DEFINE sent == u \cup Carried(p)
<1> DEFINE more == Carried(p) \cap u # {}
<1> DEFINE r == UdpDesync(s, p)
<1>1. p \in Sent /\ Begun(s, sent) /\ TrackOk(s.t, u) /\ p.crypto \in SUBSET Units
  BY BegunGrows DEF Data, Sent, Packet, Begun
<1>2. Carried(p) = p.crypto
  BY DEF Carried
<1>3. (s.t.hostFound /\ p.crypto # {} => more) /\ p.crypto \subseteq sent
  BY <1>1, <1>2 DEF TrackOk, QuicOk
<1>4. CASE CheckDesyncInterval(s)
  <2>1. r = UdpPayload(s, p)
    BY <1>4 DEF UdpDesync
  <2> HIDE DEF sent, more, r
  <2>2. Done(s, r, p, sent, more) /\ Missing(r.t)
    BY <1>1, <1>3, <2>1, UdpPayloadDone
  <2> QED BY <2>2 DEF sent, more, r
<1>5. CASE ~CheckDesyncInterval(s)
  <2>1. r = CancelAndSend(s, p)
    BY <1>5 DEF UdpDesync
  <2> HIDE DEF sent, more, r
  <2>2. Done(s, r, p, sent, more) /\ r.t.reasm = NoReasm
    BY <1>1, <2>1, CancelAndSendDone
  <2> QED BY <2>2, NoReasmMissing DEF sent, more, r
<1> QED BY <1>4, <1>5

-----------------------------------------------------------------------------
(* From the entry on                                                       *)

LEMMA ProfiledMoves ==
  ASSUME NEW s \in Handler
  PROVE  Moves(s, Profiled(s), FALSE, FALSE)
<1> DEFINE dp == IF s.t.dp # "none" THEN s.t.dp ELSE DpFind(s.t.host, s.t.l7, s.learned)
<1> DEFINE a == IF s.t.tracked THEN dp ELSE s.t.dp
<1> DEFINE b == [s.t EXCEPT !.dp = a]
<1>1. s.t \in Track /\ s.t.dp \in Profile
  BY DEF Handler, Track
<1>2. DpFind(s.t.host, s.t.l7, s.learned) \in Profile
  BY DpFindType DEF Profile
<1>3. dp \in Profile /\ a \in Profile /\ (~s.t.tracked => a = s.t.dp)
  BY <1>1, <1>2
<1>4. Profiled(s) = [s EXCEPT !.dp = dp, !.t = b]
  BY DEF Profiled, Handler, Track
<1> HIDE DEF dp, a
<1>5. /\ b \in Track /\ b.tracked = s.t.tracked /\ b.syn = s.t.syn /\ b.n = s.t.n /\ b.l7 = s.t.l7
      /\ b.req = s.t.req /\ b.reasm = s.t.reasm /\ b.delayed = s.t.delayed
      /\ b.host = s.t.host /\ b.hostFound = s.t.hostFound /\ b.retrans = s.t.retrans
  BY <1>1, <1>3 DEF Track
<1>6. ~s.t.tracked => b = s.t
  BY <1>1, <1>3 DEF Track
<1> HIDE DEF b
<1> DEFINE r == [s EXCEPT !.dp = dp, !.t = b]
<1>7. /\ r \in Handler /\ r.t = b /\ r.out = s.out /\ r.replay = s.replay /\ r.off = s.off
      /\ r.failed = s.failed
  BY <1>3, <1>5 DEF Handler
<1> HIDE DEF r
<1>8. Profiled(s) = r
  BY <1>4 DEF r
<1> QED BY <1>5, <1>6, <1>7, <1>8 DEF Moves, Learns, Counts

\* The handler of a packet, once its profile is known
Entry(track) == [Handling EXCEPT !.t = track]
Start(track) == MaybeCutoff(Profiled(Entry(track)))

CountingTrack(track) == track.retrans = Stop \/ track.retrans < Threshold

LEMMA EntryBegun ==
  ASSUME NEW track \in Track, NEW u, fails \in Nat, learned \in BOOLEAN,
         TrackOk(track, u), CountingTrack(track)
  PROVE  /\ Begun(Entry(track), u) /\ Line(Entry(track)) = track.delayed
         /\ Packets(Entry(track).out) = <<>> /\ ~Entry(track).failed /\ Entry(track).t = track
<1> DEFINE s == Entry(track)
<1>1. <<>> \in Seq(Out)
  OBVIOUS
<1>3. s \in Handler
  BY <1>1 DEF Entry, Handling, Handler, Profile
<1>4. s.t = track /\ s.out = <<>> /\ ~s.failed /\ ~s.replay /\ s.off = 0
  BY DEF Entry, Handling
<1> HIDE DEF s
<1>5. Packets(s.out) = <<>>
  BY <1>4 DEF Packets
<1>6. <<>> \o track.delayed = track.delayed
  <2>1. track.delayed \in Seq(Data)
    BY DEF Track
  <2> QED BY <2>1
<1>7. Begun(s, u)
  BY <1>3, <1>4 DEF Begun, Counting, CountingTrack
<1> QED BY <1>4, <1>5, <1>6, <1>7 DEF s, Line

LEMMA StartGoes ==
  ASSUME cfg \in Config, NEW track \in Track, NEW u, fails \in Nat, learned \in BOOLEAN,
         TrackOk(track, u), CountingTrack(track)
  PROVE  LET s == Entry(track)
             r == Start(track)
         IN /\ Moves(s, r, FALSE, FALSE) /\ Goes(s, r, u, FALSE)
            /\ r.t.req = track.req /\ r.t.reasm = track.reasm
            /\ r.t.delayed = track.delayed /\ Packets(r.out) = <<>>
<1> DEFINE s == Entry(track)
<1> DEFINE q == Profiled(s)
<1> DEFINE r == MaybeCutoff(q)
<1>1. Begun(s, u) /\ s.t = track /\ Packets(s.out) = <<>>
  BY EntryBegun
<1> HIDE DEF s
<1>2. s \in Handler
  BY <1>1 DEF Begun
<1>3. Moves(s, q, FALSE, FALSE) /\ q \in Handler
  BY <1>2, ProfiledMoves DEF Moves, Learns
<1> HIDE DEF q
<1>4. Moves(q, r, FALSE, FALSE)
  BY <1>3, MaybeCutoffMoves
<1> HIDE DEF r
<1>5. Moves(s, r, FALSE, FALSE)
  BY <1>2, <1>3, <1>4, MovesOn
<1>6. Goes(s, r, u, FALSE) /\ r.t.req = s.t.req /\ r.t.reasm = s.t.reasm
  BY <1>1, <1>5, GoesByMoves
<1>7. r.t.delayed = s.t.delayed /\ r.out = s.out
  BY <1>5 DEF Moves, Learns
<1>8. Start(track) = r /\ Entry(track) = s
  BY DEF Start, r, q, s
<1> QED BY <1>1, <1>5, <1>6, <1>7, <1>8

\* What a SYN leaves of the entry
Fresh(tr) ==
  /\ tr.retrans \in {0, Stop} /\ tr.req = NoRequest /\ tr.reasm = NoReasm /\ tr.delayed = <<>>
SynOk(tr) == Tcp /\ tr.tracked /\ tr.syn => Fresh(tr)

LEMMA NoTrackOk ==
  ASSUME NEW u
  PROVE  /\ NoTrack \in Track /\ NewTrack \in Track
         /\ TrackOk(NoTrack, u) /\ TrackOk(NewTrack, u) /\ Missing(NoTrack) /\ Missing(NewTrack)
         /\ Fresh(NoTrack) /\ Fresh(NewTrack)
         /\ CountingTrack(NoTrack) /\ CountingTrack(NewTrack)
<1>1. NoReasm \in Reasm /\ NoRequest \in Request /\ <<>> \in Seq(Data) /\ 0 \in 0 .. Stop
  BY NoReasmType, SizeAssumption DEF NoRequest, Request, Stop
<1>2. NoTrack \in Track
  BY <1>1 DEF NoTrack, Track, Profile
<1>3. NewTrack \in Track
  BY <1>2 DEF NewTrack, Track
<1>4. /\ NoTrack.retrans = 0 /\ NoTrack.req = NoRequest /\ NoTrack.reasm = NoReasm
      /\ NoTrack.delayed = <<>> /\ ~NoTrack.host /\ ~NoTrack.hostFound
      /\ NoTrack = [NoTrack EXCEPT !.syn = NoTrack.syn]
  BY DEF NoTrack
<1>5. /\ NewTrack.retrans = 0 /\ NewTrack.req = NoRequest /\ NewTrack.reasm = NoReasm
      /\ NewTrack.delayed = <<>> /\ ~NewTrack.host /\ ~NewTrack.hostFound /\ NewTrack.tracked
  BY DEF NewTrack, NoTrack
<1>6. TrackOk(NoTrack, u) /\ TrackOk(NewTrack, u)
  <2>1. RequestOk(NoTrack, u) /\ ReasmOk(NoTrack, u) /\ QuicOk(NoTrack, u)
    BY <1>4 DEF RequestOk, ReasmOk, QuicOk, NoRequest, NoReasm
  <2>2. RequestOk(NewTrack, u) /\ ReasmOk(NewTrack, u) /\ QuicOk(NewTrack, u)
    BY <1>5 DEF RequestOk, ReasmOk, QuicOk, NoRequest, NoReasm
  <2> QED BY <1>4, <1>5, <2>1, <2>2 DEF TrackOk
<1>7. CountingTrack(NoTrack) /\ CountingTrack(NewTrack)
  <2>1. 0 < Threshold
    BY ThresholdBelow
  <2> QED BY <1>4, <1>5, <2>1 DEF CountingTrack
<1> QED BY <1>2, <1>3, <1>4, <1>5, <1>6, <1>7, NoReasmMissing DEF Fresh

LEMMA UntrackedIs ==
  ASSUME NEW tr, NEW u, TrackOk(tr, u), ~tr.tracked
  PROVE  tr.delayed = <<>> /\ tr.reasm = NoReasm /\ tr.req = NoRequest /\ tr.retrans = 0
BY DEF TrackOk, NoTrack

LEMMA FeedTcpIs ==
  ASSUME cfg \in Config, Tcp, NEW track \in Track, NEW u, NEW p, TrackOk(track, u),
         CountingTrack(track), SynOk(track)
  PROVE  LET b == FeedTcp(track, p)
         IN /\ b \in Track /\ TrackOk(b, u) /\ CountingTrack(b)
            /\ b.retrans \in {0, track.retrans}
            /\ b.tracked /\ b.syn => IsSyn(p)
            /\ IsSyn(p) => Fresh(b)
            /\ ~IsSyn(p) => b.delayed = track.delayed
<1> DEFINE b == FeedTcp(track, p)
<1>0. /\ NoTrack \in Track /\ NewTrack \in Track /\ TrackOk(NoTrack, u) /\ TrackOk(NewTrack, u)
      /\ Fresh(NoTrack) /\ Fresh(NewTrack) /\ CountingTrack(NoTrack) /\ CountingTrack(NewTrack)
      /\ NoTrack.retrans = 0 /\ NewTrack.retrans = 0 /\ ~NoTrack.tracked /\ NewTrack.tracked
      /\ NoTrack.delayed = <<>>
  BY NoTrackOk DEF NoTrack, NewTrack
<1>1. CASE ~track.tracked /\ IsSyn(p)
  <2> DEFINE n == IF cfg.cutoff > 0 THEN 1 ELSE 0
  <2>1. b = [NewTrack EXCEPT !.n = n]
    BY <1>1 DEF FeedTcp
  <2>2. n \in Nat
    OBVIOUS
  <2> HIDE DEF n, b
  <2>3. b \in Track
    BY <1>0, <2>1, <2>2 DEF Track
  <2>4. /\ b.tracked /\ b.retrans = NewTrack.retrans /\ b.req = NewTrack.req
        /\ b.reasm = NewTrack.reasm /\ b.delayed = NewTrack.delayed
        /\ b.host = NewTrack.host /\ b.hostFound = NewTrack.hostFound
    BY <1>0, <2>1 DEF Track
  <2>5. TrackOk(b, u)
    BY <1>0, <2>4, TrackKeeps DEF TrackOk
  <2>6. Fresh(b) /\ CountingTrack(b)
    BY <1>0, <2>4 DEF Fresh, CountingTrack
  <2> QED BY <1>0, <1>1, <2>3, <2>4, <2>5, <2>6 DEF b
<1>2. CASE ~track.tracked /\ ~IsSyn(p)
  <2>1. b = NoTrack
    BY <1>2 DEF FeedTcp
  <2> HIDE DEF b
  <2> QED BY <1>0, <1>2, <2>1, UntrackedIs DEF b
<1>3. CASE track.tracked /\ IsSyn(p) /\ ~track.syn
  <2>1. b = NewTrack
    BY <1>3 DEF FeedTcp
  <2> HIDE DEF b
  <2> QED BY <1>0, <1>3, <2>1 DEF b
<1>4. CASE track.tracked /\ ~(IsSyn(p) /\ ~track.syn)
  <2> DEFINE n == IF track.n < cfg.cutoff THEN track.n + 1 ELSE track.n
  <2> DEFINE y == track.syn /\ IsSyn(p)
  <2>1. b = [track EXCEPT !.n = n, !.syn = y]
    BY <1>4 DEF FeedTcp
  <2>2. n \in Nat /\ y \in BOOLEAN
    BY DEF Track, Config
  <2> HIDE DEF n, y, b
  <2>3. b \in Track
    BY <2>1, <2>2 DEF Track
  <2>4. /\ b.tracked /\ b.retrans = track.retrans /\ b.req = track.req /\ b.syn = y
        /\ b.reasm = track.reasm /\ b.delayed = track.delayed
        /\ b.host = track.host /\ b.hostFound = track.hostFound
    BY <1>4, <2>1 DEF Track
  <2>5. TrackOk(b, u)
    BY <1>4, <2>4, TrackKeeps DEF TrackOk
  <2>6. CountingTrack(b)
    BY <2>4 DEF CountingTrack
  <2>7. IsSyn(p) => Fresh(b)
    BY <1>4, <2>4 DEF SynOk, Fresh
  <2> QED BY <1>4, <2>3, <2>4, <2>5, <2>6, <2>7 DEF b, y
<1> QED BY <1>1, <1>2, <1>3, <1>4

\* The counter of the entry after the packet, and a failure that was counted
Tallies(track, r, more) ==
  /\ \/ r.t.retrans \in {0, track.retrans, Stop}
     \/ more /\ track.retrans + 1 < Threshold /\ r.t.retrans = track.retrans + 1
  /\ r.failed => more /\ track.retrans # Stop /\ track.retrans + 1 >= Threshold

\* What the handler of a packet of the client leaves
Handled(track, r, p, u) ==
  /\ Begun(r, u \cup Carried(p)) /\ SynOk(r.t) /\ (~Tcp => Missing(r.t))
  /\ Tallies(track, r, Carried(p) \cap u # {})

LEMMA TalliesBy ==
  ASSUME NEW track \in Track, NEW b \in Track, NEW s \in Handler, NEW r \in Handler, NEW more,
         b.retrans = track.retrans, Counts(Entry(b), s, FALSE), Counts(s, r, more),
         Entry(b) \in Handler, ~Entry(b).failed, Entry(b).t = b
  PROVE  Tallies(track, r, more)
<1>1. Counts(Entry(b), r, more)
  BY CountsOn
<1> QED BY <1>1 DEF Counts, Tallies

LEMMA TcpDataIs ==
  ASSUME cfg \in Config, Tcp, fails \in Nat, learned \in BOOLEAN,
         NEW track \in Track, NEW u, NEW p \in Data, ~IsSyn(p),
         TrackOk(track, u), CountingTrack(track), SynOk(track)
  PROVE  LET r == TcpPacket(track, p)
         IN Handled(track, r, p, u) /\ Line(r) = Append(track.delayed, p)
<1> DEFINE b == FeedTcp(track, p)
<1> DEFINE s == Start(b)
<1> DEFINE r == TcpDesync(s, p)
<1> DEFINE sent == u \cup Carried(p)
<1> DEFINE more == Carried(p) \cap u # {}
<1>1. /\ b \in Track /\ TrackOk(b, u) /\ CountingTrack(b)
      /\ b.retrans \in {0, track.retrans}
      /\ ~(b.tracked /\ b.syn) /\ b.delayed = track.delayed
  BY FeedTcpIs
<1>2. b.retrans = track.retrans
  <2>1. ~track.tracked => track.retrans = 0 /\ b = NoTrack
    BY UntrackedIs DEF FeedTcp
  <2>2. track.tracked => b.retrans = track.retrans
    BY DEF FeedTcp, Track
  <2> QED BY <2>1, <2>2 DEF NoTrack
<1> HIDE DEF b
<1>3. Begun(Entry(b), u) /\ Line(Entry(b)) = b.delayed /\ ~Entry(b).failed /\ Entry(b).t = b
  BY <1>1, EntryBegun
<1>4. Goes(Entry(b), s, u, FALSE)
  BY <1>1, StartGoes
<1> HIDE DEF s
<1>5. Begun(s, u) /\ s \in Handler /\ Entry(b) \in Handler
  BY <1>3, <1>4 DEF Goes, Begun
<1>6. Done(s, r, p, sent, more)
  BY <1>5, TcpDataDone
<1>7. TcpPacket(track, p) = r
  BY DEF TcpPacket, r, s, b, Start, Entry
<1> HIDE DEF r
<1>8. Tallies(track, r, more)
  <2> HIDE DEF more
  <2> QED BY <1>1, <1>2, <1>3, <1>4, <1>5, <1>6, TalliesBy DEF Goes, Done, Begun
<1>9. SynOk(r.t)
  BY <1>1, <1>3, <1>4, <1>6 DEF SynOk, Goes, Done
<1>10. Line(r) = Append(track.delayed, p)
  BY <1>1, <1>3, <1>4, <1>6 DEF Goes, Done
<1> QED BY <1>6, <1>7, <1>8, <1>9, <1>10 DEF Handled, Done

\* A packet without payload: a SYN may begin the entry anew.
LEMMA TcpBareIs ==
  ASSUME cfg \in Config, Tcp, fails \in Nat, learned \in BOOLEAN,
         NEW track \in Track, NEW u, NEW p \in Sent, p.len = 0,
         TrackOk(track, u), CountingTrack(track), SynOk(track)
  PROVE  LET r == TcpPacket(track, p)
             b == FeedTcp(track, p)
         IN /\ Begun(r, u) /\ SynOk(r.t) /\ Tallies(track, r, FALSE)
            /\ IsSyn(p) => Fresh(r.t) /\ Fresh(b)
            /\ ~IsSyn(p) => b.delayed = track.delayed
            /\ \/ Line(r) = Append(b.delayed, p)
               \/ Packets(r.out) = <<p>> /\ r.t.delayed = b.delayed
<1> DEFINE b == FeedTcp(track, p)
<1> DEFINE s == Start(b)
<1> DEFINE r == TcpDesync(s, p)
<1>1. /\ b \in Track /\ TrackOk(b, u) /\ CountingTrack(b)
      /\ b.retrans \in {0, track.retrans}
      /\ (b.tracked /\ b.syn => IsSyn(p)) /\ (IsSyn(p) => Fresh(b))
      /\ (~IsSyn(p) => b.delayed = track.delayed)
  BY FeedTcpIs
<1>7. TcpPacket(track, p) = r
  BY DEF TcpPacket, Start, Entry
<1> HIDE DEF b
<1>3. /\ Begun(Entry(b), u) /\ Line(Entry(b)) = b.delayed /\ ~Entry(b).failed /\ Entry(b).t = b
  BY <1>1, EntryBegun
<1>4. /\ Goes(Entry(b), s, u, FALSE) /\ Packets(s.out) = <<>> /\ s.t.delayed = b.delayed
      /\ s.t.req = b.req /\ s.t.reasm = b.reasm
  BY <1>1, StartGoes
<1> HIDE DEF s
<1>5. Begun(s, u) /\ s \in Handler /\ s.t \in Track /\ Entry(b) \in Handler
  BY <1>3, <1>4 DEF Goes, Begun, Handler
<1>6. /\ Begun(r, u) /\ Counts(s, r, FALSE)
      /\ r.t = s.t \/ r.t = [s.t EXCEPT !.reasm = NoReasm, !.delayed = <<>>]
      /\ \/ Line(r) = Append(Line(s), p)
         \/ Packets(r.out) = Append(Packets(s.out), p) /\ r.t.delayed = s.t.delayed
  BY <1>5, TcpBareDone
<1> HIDE DEF r
<1>8. r \in Handler
  BY <1>6 DEF Begun
<1>9. Tallies(track, r, FALSE)
  <2>1. Counts(Entry(b), r, FALSE)
    BY <1>4, <1>5, <1>6, <1>8, CountsOn DEF Goes
  <2> QED BY <1>1, <1>3, <2>1 DEF Counts, Tallies
<1>10. /\ r.t.req = s.t.req /\ r.t.tracked = s.t.tracked /\ r.t.syn = s.t.syn
       /\ r.t.reasm \in {s.t.reasm, NoReasm} /\ r.t.delayed \in {s.t.delayed, <<>>}
  <2>1. r.t = s.t \/ r.t = [s.t EXCEPT !.reasm = NoReasm, !.delayed = <<>>]
    BY <1>6
  <2>2. s.t \in Track
    BY <1>5
  <2> QED BY <2>1, <2>2 DEF Track
<1>11. Fresh(b) => Fresh(r.t)
  <2> SUFFICES ASSUME Fresh(b) PROVE Fresh(r.t)
    OBVIOUS
  <2>1. r.t.req = NoRequest /\ r.t.reasm = NoReasm /\ r.t.delayed = <<>>
    BY <1>4, <1>10 DEF Fresh
  <2>2. r.t.retrans \in {0, Stop}
    <3>1. Counts(Entry(b), r, FALSE)
      BY <1>4, <1>5, <1>6, <1>8, CountsOn DEF Goes
    <3> QED BY <1>3, <3>1 DEF Counts, Fresh
  <2> QED BY <2>1, <2>2 DEF Fresh
<1>12. SynOk(r.t)
  BY <1>1, <1>3, <1>4, <1>10, <1>11 DEF SynOk, Goes
<1>13. Line(s) = b.delayed
  BY <1>3, <1>4 DEF Goes
<1>14. Append(<<>>, p) = <<p>>
  OBVIOUS
<1> QED BY <1>1, <1>4, <1>6, <1>7, <1>9, <1>11, <1>12, <1>13, <1>14 DEF b

LEMMA FeedUdpIs ==
  ASSUME cfg \in Config, ~Tcp, NEW track \in Track, NEW u, TrackOk(track, u),
         CountingTrack(track), Missing(track)
  PROVE  LET b == FeedUdp(track)
         IN /\ b \in Track /\ TrackOk(b, u) /\ CountingTrack(b) /\ Missing(b)
            /\ b.tracked /\ b.retrans = track.retrans /\ b.delayed = track.delayed
<1> DEFINE known == IF track.tracked THEN track ELSE NewTrack
<1> DEFINE n == IF known.n < cfg.cutoff THEN known.n + 1 ELSE known.n
<1> DEFINE b == [known EXCEPT !.n = n]
<1>1. /\ NewTrack \in Track /\ TrackOk(NewTrack, u) /\ Missing(NewTrack) /\ Fresh(NewTrack)
      /\ CountingTrack(NewTrack) /\ NewTrack.tracked /\ NewTrack.retrans = 0
  BY NoTrackOk DEF NewTrack, NoTrack
<1>2. /\ known \in Track /\ TrackOk(known, u) /\ CountingTrack(known) /\ Missing(known)
      /\ known.tracked /\ known.retrans = track.retrans /\ known.delayed = track.delayed
  <2>1. CASE track.tracked
    BY <2>1
  <2>2. CASE ~track.tracked
    BY <1>1, <2>2, UntrackedIs DEF Fresh
  <2> QED BY <2>1, <2>2
<1>3. FeedUdp(track) = b
  BY DEF FeedUdp
<1> HIDE DEF known
<1>4. n \in Nat
  BY <1>2 DEF Track, Config
<1> HIDE DEF n
<1>5. /\ b \in Track /\ b.tracked = known.tracked /\ b.req = known.req
      /\ b.reasm = known.reasm /\ b.delayed = known.delayed /\ b.retrans = known.retrans
      /\ b.host = known.host /\ b.hostFound = known.hostFound
  BY <1>2, <1>4 DEF Track
<1> HIDE DEF b
<1>6. TrackOk(b, u)
  BY <1>2, <1>5, TrackKeeps DEF TrackOk
<1>7. CountingTrack(b) /\ Missing(b)
  BY <1>2, <1>5 DEF CountingTrack, Missing
<1> QED BY <1>2, <1>3, <1>5, <1>6, <1>7

LEMMA UdpIs ==
  ASSUME cfg \in Config, ~Tcp, fails \in Nat, learned \in BOOLEAN,
         NEW track \in Track, NEW u, NEW p \in Data,
         TrackOk(track, u), CountingTrack(track), Missing(track)
  PROVE  LET r == UdpPacket(track, p)
         IN Handled(track, r, p, u) /\ Line(r) = Append(track.delayed, p)
<1> DEFINE b == FeedUdp(track)
<1> DEFINE s == Start(b)
<1> DEFINE r == UdpDesync(s, p)
<1> DEFINE sent == u \cup Carried(p)
<1> DEFINE more == Carried(p) \cap u # {}
<1>1. /\ b \in Track /\ TrackOk(b, u) /\ CountingTrack(b) /\ Missing(b)
      /\ b.tracked /\ b.retrans = track.retrans /\ b.delayed = track.delayed
  BY FeedUdpIs
<1>7. UdpPacket(track, p) = r
  BY DEF UdpPacket, Start, Entry
<1> HIDE DEF b
<1>3. Begun(Entry(b), u) /\ Line(Entry(b)) = b.delayed /\ ~Entry(b).failed /\ Entry(b).t = b
  BY <1>1, EntryBegun
<1>4. Goes(Entry(b), s, u, FALSE) /\ s.t.reasm = b.reasm
  BY <1>1, StartGoes
<1> HIDE DEF s
<1>5. Begun(s, u) /\ s \in Handler /\ Entry(b) \in Handler /\ s.t.tracked /\ Missing(s.t)
  BY <1>1, <1>3, <1>4 DEF Goes, Begun, Missing
<1>6. Done(s, r, p, sent, more) /\ Missing(r.t)
  BY <1>5, UdpDone
<1> HIDE DEF r
<1>8. Tallies(track, r, more)
  <2> HIDE DEF more
  <2> QED BY <1>1, <1>3, <1>4, <1>5, <1>6, TalliesBy DEF Goes, Done, Begun
<1>9. Line(r) = Append(track.delayed, p)
  BY <1>1, <1>3, <1>4, <1>6 DEF Goes, Done
<1> QED BY <1>6, <1>7, <1>8, <1>9 DEF Handled, Done, SynOk

-----------------------------------------------------------------------------
(* The invariant                                                           *)

\* The counter of repeats, unless stopped, is below its threshold and counts
\* none that was not sent again.
Counted(tr, n) == tr.retrans = Stop \/ (tr.retrans < Threshold /\ tr.retrans <= n)

\* The inductive invariant: what is held and requested is of the stream, in
\* order; after a SYN nothing is; a QUIC hello that is held is not whole; and
\* the counter of the entry never runs ahead of the repeats.
Inv ==
  /\ TypeOK
  /\ TrackOk(t, gone) /\ SynOk(t) /\ (~Tcp => Missing(t))
  /\ Counted(t, again)
  /\ FailureIsRepeated

\* Units of payload, by the protocol of the connection
Stream == IF Tcp THEN 0 .. Length - 1 ELSE Units

LEMMA SameConfig ==
  ASSUME cfg' = cfg
  PROVE  /\ Tcp' = Tcp /\ Stream' = Stream /\ Out' = Out
         /\ TrackOk(t, gone)' = TrackOk(t', gone') /\ SynOk(t)' = SynOk(t')
         /\ Missing(t)' = Missing(t') /\ Counted(t, again)' = Counted(t', again')
<1>1. Tcp' = Tcp
  BY DEF Tcp
<1>2. Stream' = Stream
  BY <1>1 DEF Stream
<1>3. Out' = Out
  BY <1>1 DEF Out
<1>4. TrackOk(t, gone)' = TrackOk(t', gone')
  BY <1>1 DEF TrackOk, RequestOk, ReasmOk, QuicOk, Num
<1>5. SynOk(t)' = SynOk(t')
  BY <1>1 DEF SynOk
<1>6. Missing(t)' = Missing(t') /\ Counted(t, again)' = Counted(t', again')
  BY DEF Missing, Counted
<1> QED BY <1>1, <1>2, <1>3, <1>4, <1>5, <1>6

LEMMA InitInv == Init => Inv
<1> SUFFICES ASSUME Init PROVE Inv
  OBVIOUS
<1>1. t = NoTrack /\ gone = {} /\ again = 0 /\ cfg \in Config /\ io = Nothing
  BY ConfigAssumption DEF Init
<1>2. /\ NoTrack \in Track /\ TrackOk(NoTrack, gone) /\ Missing(NoTrack) /\ Fresh(NoTrack)
      /\ NoTrack.retrans = 0
  BY NoTrackOk DEF NoTrack
<1>3. io \in [in : Seq(Sent), out : Seq(Out), failed : BOOLEAN] /\ ~io.failed
  <2>1. <<>> \in Seq(Sent) /\ <<>> \in Seq(Out)
    OBVIOUS
  <2> QED BY <1>1, <2>1 DEF Nothing
<1>4. 0 \in 0 .. Length /\ 0 \in 0 .. Threshold /\ 0 < Threshold
  BY SizeAssumption, ThresholdBelow
<1>5. TypeOK
  BY <1>1, <1>2, <1>3, <1>4 DEF TypeOK, Init
<1>6. Counted(t, again)
  BY <1>1, <1>2, <1>4 DEF Counted
<1> QED BY <1>1, <1>2, <1>3, <1>5, <1>6 DEF Inv, FailureIsRepeated, SynOk

LEMMA CarriedType ==
  ASSUME NEW p \in Sent
  PROVE  Carried(p) \subseteq Stream
BY SizeAssumption DEF Sent, Packet, Carried, Stream

LEMMA LeftType ==
  ASSUME NEW r \in Handler
  PROVE  LeftWith(r) \subseteq Stream
<1>1. r.out \in Seq(Out)
  BY DEF Handler
<1>2. \A i \in DOMAIN r.out : r.out[i].pkt \in Sent
  BY <1>1, OutPkt
<1>3. \A i \in DOMAIN r.out : Carried(r.out[i].pkt) \subseteq Stream
  BY <1>2, CarriedType
<1> QED BY <1>3 DEF LeftWith

\* What the client may send
LEMMA ClientSends ==
  ASSUME TypeOK, NEW p \in IF Tcp THEN TcpSends ELSE UdpSends, Fitting(p)
  PROVE  /\ p \in Sent
         /\ Tcp => IF p.len = 0 THEN IsSyn(p) => gone = {} ELSE p \in Data /\ ~IsSyn(p)
         /\ ~Tcp => p \in Data
<1>1. CASE Tcp /\ p = Bare("ack")
  BY <1>1, SizeAssumption DEF Bare, Sent, Packet, IsSyn
<1>2. CASE Tcp /\ p = Bare("syn") /\ gone = {}
  BY <1>2, SizeAssumption DEF Bare, Sent, Packet, IsSyn
<1>3. ASSUME Tcp, NEW o \in una .. Length - 1, NEW n \in 1 .. Length, p = Segment(o, n)
      PROVE  p \in Data /\ ~IsSyn(p) /\ p.len # 0
  <2>1. o \in 0 .. Length
    BY SizeAssumption DEF TypeOK
  <2>2. p.at = o /\ p.len = n /\ p.kind = "data" /\ p.crypto = {}
    BY <1>3 DEF Segment
  <2>3. p \in Packet
    <3>1. {} \in SUBSET Units
      OBVIOUS
    <3> QED BY <1>3, <2>1, <3>1 DEF Segment, Packet
  <2> QED BY <2>2, <2>3 DEF Fitting, Sent, Data, IsSyn
<1>4. ASSUME ~Tcp, NEW c \in Pieces \cup {{}}, p = Datagram(c) PROVE p \in Data
  <2>1. c \in SUBSET Units
    BY <1>4, PiecesAssumption
  <2> QED BY <1>4, <2>1, SizeAssumption DEF Datagram, Fitting, Sent, Data, Packet
<1>5. ASSUME ~Tcp, NEW k \in {"odd", "data"}, p = [Bare(k) EXCEPT !.len = 1] PROVE p \in Data
  BY <1>5, SizeAssumption DEF Bare, Fitting, Sent, Data, Packet
<1>6. CASE Tcp
  <2>1. \/ p = Bare("ack")
        \/ p = Bare("syn") /\ gone = {}
        \/ \E o \in una .. Length - 1, n \in 1 .. Length : p = Segment(o, n)
    BY <1>6 DEF TcpSends
  <2> QED BY <1>1, <1>2, <1>3, <1>6, <2>1 DEF Data
<1>7. CASE ~Tcp
  <2>1. \/ \E c \in Pieces \cup {{}} : p = Datagram(c)
        \/ \E k \in {"odd", "data"} : p = [Bare(k) EXCEPT !.len = 1]
    BY <1>7 DEF UdpSends
  <2> QED BY <1>4, <1>5, <1>7, <2>1 DEF Data
<1> QED BY <1>6, <1>7

\* The entry a packet meets
LEMMA PurgedIs ==
  ASSUME Inv, NEW idle \in BOOLEAN
  PROVE  LET track == Purged(idle)
         IN /\ track \in Track /\ TrackOk(track, gone) /\ SynOk(track) /\ (~Tcp => Missing(track))
            /\ Counted(track, again) /\ CountingTrack(track)
            /\ ~idle => track = t
<1>1. /\ NoTrack \in Track /\ TrackOk(NoTrack, gone) /\ Missing(NoTrack) /\ Fresh(NoTrack)
      /\ NoTrack.retrans = 0
  BY NoTrackOk DEF NoTrack
<1>2. Counted(NoTrack, again)
  BY <1>1, ThresholdBelow DEF Counted, Inv, TypeOK
<1>3. \A x : Counted(x, again) => CountingTrack(x)
  BY DEF Counted, CountingTrack
<1> QED BY <1>1, <1>2, <1>3 DEF Inv, TypeOK, Purged, SynOk

\* A step of a handler, on the variables
LEMMA OutputType ==
  ASSUME NEW r \in Handler, NEW in \in Seq(Sent), Output(r, in)
  PROVE  /\ t' \in Track /\ fails' \in Nat /\ learned' \in BOOLEAN
         /\ io' \in [in : Seq(Sent), out : Seq(Out), failed : BOOLEAN]
         /\ io'.failed = r.failed /\ io'.in = in /\ io'.out = r.out
         /\ t' = r.t
BY DEF Output, Handler

\* The counters after a packet that repeats, or does not, what was sent
LEMMA TalliesIs ==
  ASSUME NEW track \in Track, NEW r \in Handler, NEW n \in 0 .. Threshold, NEW m, NEW more,
         Counted(track, n), Tallies(track, r, more),
         m = IF n < Threshold /\ more THEN n + 1 ELSE n
  PROVE  m \in 0 .. Threshold /\ Counted(r.t, m) /\ (r.failed => m = Threshold)
<1>1. Threshold \in 1 .. 255 /\ Stop = 255 /\ track.retrans \in 0 .. 255
  BY ThresholdBelow DEF Track
<1>2. m \in 0 .. Threshold /\ n <= m /\ (more => n < m \/ m = Threshold)
  BY <1>1
<1>3. Counted(r.t, m)
  <2>1. CASE r.t.retrans = Stop
    BY <2>1 DEF Counted
  <2>2. CASE r.t.retrans = 0
    BY <1>1, <1>2, <2>2 DEF Counted
  <2>3. CASE r.t.retrans = track.retrans
    BY <1>1, <1>2, <2>3 DEF Counted
  <2>4. CASE more /\ track.retrans + 1 < Threshold /\ r.t.retrans = track.retrans + 1
    <3> DEFINE q == track.retrans
    <3> DEFINE z == r.t.retrans
    <3>1. q \in 0 .. 255 /\ q + 1 < Threshold /\ z = q + 1 /\ (n < m \/ m = Threshold)
      BY <1>1, <1>2, <2>4
    <3>2. q = Stop \/ q <= n
      BY DEF Counted
    <3> HIDE DEF q, z
    <3>3. z < Threshold /\ z <= m
      BY <1>1, <1>2, <3>1, <3>2
    <3> QED BY <3>3 DEF Counted, z
  <2> QED BY <2>1, <2>2, <2>3, <2>4 DEF Tallies
<1>4. r.failed => m = Threshold
  BY <1>1, <1>2 DEF Counted, Tallies
<1> QED BY <1>2, <1>3, <1>4

LEMMA FromClientIs ==
  ASSUME Inv, NEW idle \in BOOLEAN, NEW p \in IF Tcp THEN TcpSends ELSE UdpSends, Sends(p, idle)
  PROVE  LET r == IF Tcp THEN TcpPacket(Purged(idle), p) ELSE UdpPacket(Purged(idle), p)
         IN /\ Handled(Purged(idle), r, p, gone)
            /\ ~idle => \/ Line(r) = Append(t.delayed, p)
                        \/ p.len = 0 /\ Packets(r.out) = <<p>> /\ r.t.delayed = t.delayed
<1> DEFINE track == Purged(idle)
<1>1. /\ track \in Track /\ TrackOk(track, gone) /\ SynOk(track) /\ (~Tcp => Missing(track))
      /\ CountingTrack(track) /\ (~idle => track = t)
  BY PurgedIs
<1>2. Fitting(p) /\ cfg \in Config /\ fails \in Nat /\ learned \in BOOLEAN
  BY DEF Sends, Inv, TypeOK
<1>3. /\ p \in Sent
      /\ Tcp => IF p.len = 0 THEN IsSyn(p) => gone = {} ELSE p \in Data /\ ~IsSyn(p)
      /\ ~Tcp => p \in Data
  BY <1>2, ClientSends DEF Inv
<1> HIDE DEF track
<1>4. CASE Tcp /\ p.len # 0
  <2> DEFINE r == TcpPacket(track, p)
  <2>1. Handled(track, r, p, gone) /\ Line(r) = Append(track.delayed, p)
    BY <1>1, <1>2, <1>3, <1>4, TcpDataIs
  <2> HIDE DEF r
  <2> QED BY <1>1, <1>4, <2>1 DEF r, track
<1>5. CASE Tcp /\ p.len = 0
  <2> DEFINE r == TcpPacket(track, p)
  <2> DEFINE b == FeedTcp(track, p)
  <2>1. /\ Begun(r, gone) /\ SynOk(r.t) /\ Tallies(track, r, FALSE)
        /\ IsSyn(p) => Fresh(r.t) /\ Fresh(b)
        /\ ~IsSyn(p) => b.delayed = track.delayed
        /\ \/ Line(r) = Append(b.delayed, p)
           \/ Packets(r.out) = <<p>> /\ r.t.delayed = b.delayed
    BY <1>1, <1>2, <1>3, <1>5, TcpBareIs
  <2> HIDE DEF r, b
  <2>2. Begun(r, gone \cup Carried(p))
    BY <2>1, BegunGrows
  <2>3. Tallies(track, r, Carried(p) \cap gone # {})
    BY <2>1 DEF Tallies
  <2>4. b.delayed = track.delayed
    <3>1. CASE IsSyn(p)
      <4>1. gone = {} /\ b.delayed = <<>>
        BY <1>3, <1>5, <2>1, <3>1 DEF Fresh
      <4>2. ReasmOk(track, {})
        BY <1>1, <1>5, <4>1 DEF TrackOk
      <4>3. track.reasm.size = 0
        <5>1. track.reasm.size # 0 => 0 \in 0 .. track.reasm.present - 1
          BY <4>2, SizeAssumption DEF ReasmOk
        <5> QED BY <4>2, <5>1 DEF ReasmOk
      <4>4. track.delayed = <<>>
        BY <4>2, <4>3 DEF ReasmOk
      <4> QED BY <4>1, <4>4
    <3> QED BY <2>1, <3>1
  <2>5. Handled(track, r, p, gone)
    BY <1>5, <2>1, <2>2, <2>3 DEF Handled
  <2> QED BY <1>1, <1>5, <2>1, <2>4, <2>5 DEF r, track
<1>6. CASE ~Tcp
  <2> DEFINE r == UdpPacket(track, p)
  <2>1. Handled(track, r, p, gone) /\ Line(r) = Append(track.delayed, p)
    BY <1>1, <1>2, <1>3, <1>6, UdpIs
  <2> HIDE DEF r
  <2> QED BY <1>1, <1>6, <2>1 DEF r, track
<1> QED BY <1>4, <1>5, <1>6

LEMMA FromClientKeeps ==
  ASSUME Inv, NEW idle \in BOOLEAN, NEW p \in IF Tcp THEN TcpSends ELSE UdpSends, Sends(p, idle)
  PROVE  Inv' /\ KeepsPayload
<1> DEFINE r == IF Tcp THEN TcpPacket(Purged(idle), p) ELSE UdpPacket(Purged(idle), p)
<1> DEFINE more == Carried(p) \cap gone # {}
<1>1. /\ Handled(Purged(idle), r, p, gone)
      /\ ~idle => \/ Line(r) = Append(t.delayed, p)
                  \/ p.len = 0 /\ Packets(r.out) = <<p>> /\ r.t.delayed = t.delayed
  BY FromClientIs
<1>2. /\ Output(r, <<p>>) /\ got' = got \cup LeftWith(r)
      /\ gone' = gone \cup Carried(p) /\ cfg' = cfg /\ una' = una /\ reuses' = reuses
      /\ again' = (IF again < Threshold /\ more THEN again + 1 ELSE again)
      /\ clean' = (clean /\ ~idle /\ GoesOn(p))
      /\ losses' = IF idle THEN losses + 1 ELSE losses
  BY DEF Sends, FromClient
<1>3. Fitting(p)
  BY DEF Sends
<1>4. p \in Sent /\ Purged(idle) \in Track /\ Counted(Purged(idle), again)
  BY <1>3, ClientSends, PurgedIs DEF Inv
<1> HIDE DEF r
<1>5. r \in Handler /\ TrackOk(r.t, gone') /\ SynOk(r.t) /\ (~Tcp => Missing(r.t))
      /\ Tallies(Purged(idle), r, more)
  BY <1>1, <1>2 DEF Handled, Begun
<1>6. <<p>> \in Seq(Sent)
  BY <1>4
<1>7. /\ t' \in Track /\ fails' \in Nat /\ learned' \in BOOLEAN
      /\ io' \in [in : Seq(Sent), out : Seq(Out), failed : BOOLEAN]
      /\ io'.failed = r.failed /\ io'.in = <<p>> /\ io'.out = r.out /\ t' = r.t
  BY <1>2, <1>5, <1>6, OutputType
<1> HIDE DEF more
<1>8. again' \in 0 .. Threshold /\ Counted(t', again') /\ (io'.failed => again' = Threshold)
  BY <1>2, <1>4, <1>5, <1>7, TalliesIs DEF Inv, TypeOK
<1>9. /\ Tcp' = Tcp /\ Stream' = Stream /\ Out' = Out
      /\ TrackOk(t, gone)' = TrackOk(t', gone') /\ SynOk(t)' = SynOk(t')
      /\ Missing(t)' = Missing(t') /\ Counted(t, again)' = Counted(t', again')
  BY <1>2, SameConfig
<1>10. gone' \subseteq Stream /\ got' \subseteq Stream
  BY <1>2, <1>4, <1>5, CarriedType, LeftType DEF Inv, TypeOK, Stream
<1>11. clean' \in BOOLEAN /\ losses' \in Nat
  BY <1>2 DEF Inv, TypeOK, GoesOn
<1>12. TypeOK'
  BY <1>2, <1>7, <1>8, <1>9, <1>10, <1>11 DEF Inv, TypeOK, Stream
<1>13. Inv'
  BY <1>5, <1>7, <1>8, <1>9, <1>12 DEF Inv, FailureIsRepeated
<1>14. KeepsPayload
  <2>1. CASE idle
    <3>1. losses' # losses
      BY <1>2, <2>1 DEF Inv, TypeOK
    <3> QED BY <3>1 DEF KeepsPayload
  <2>2. CASE ~idle
    <3> DEFINE left == [i \in DOMAIN io'.out |-> io'.out[i].pkt]
    <3>1. left = Packets(r.out)
      BY <1>7 DEF Packets
    <3>2. CASE Line(r) = Append(t.delayed, p)
      <4>1. t.delayed \o <<p>> = Append(t.delayed, p)
        <5>1. t.delayed \in Seq(Sent)
          BY DEF Inv, TypeOK, Track, Data
        <5> QED BY <1>4, <5>1
      <4>2. left \o t'.delayed = t.delayed \o io'.in
        BY <1>7, <3>1, <3>2, <4>1 DEF Line
      <4> QED BY <4>2 DEF KeepsPayload
    <3>3. CASE p.len = 0 /\ Packets(r.out) = <<p>> /\ r.t.delayed = t.delayed
      <4>1. \A i \in DOMAIN io'.in : io'.in[i].len = 0
        BY <1>7, <3>3
      <4>2. left = io'.in /\ t'.delayed = t.delayed
        BY <1>7, <3>1, <3>3
      <4> QED BY <4>1, <4>2 DEF KeepsPayload
    <3> QED BY <1>1, <2>2, <3>2, <3>3
  <2> QED BY <2>1, <2>2
<1> QED BY <1>13, <1>14

-----------------------------------------------------------------------------
(* What the server sends, and the rest                                     *)

\* What reaches the client acknowledges the stream up to what has not arrived.
LEMMA AckedIs ==
  ASSUME Tcp, TypeOK
  PROVE  Acked \in 0 .. Length
<1>1. got \subseteq 0 .. Length - 1 /\ Length \in Nat
  BY SizeAssumption DEF TypeOK
<1>2. \E k \in 0 .. Length : 0 .. k - 1 \subseteq got /\ k \notin got
  <2> SUFFICES ASSUME \A k \in 0 .. Length : 0 .. k - 1 \subseteq got => k \in got PROVE FALSE
    OBVIOUS
  <2> DEFINE S == {k \in Nat : k <= Length + 1 => 0 .. k - 1 \subseteq got}
  <2>1. 0 \in S
    OBVIOUS
  <2>2. ASSUME NEW n \in Nat, n \in S PROVE n + 1 \in S
    <3> SUFFICES ASSUME n + 1 <= Length + 1 PROVE 0 .. n \subseteq got
      OBVIOUS
    <3>1. n \in 0 .. Length /\ 0 .. n - 1 \subseteq got
      BY <1>1, <2>2
    <3>2. n \in got
      BY <3>1
    <3>3. 0 .. n = (0 .. n - 1) \cup {n}
      OBVIOUS
    <3> QED BY <3>1, <3>2, <3>3
  <2> HIDE DEF S
  <2>3. Nat \subseteq S
    BY <2>1, <2>2, SetInduction
  <2>4. 0 .. Length \subseteq got
    BY <1>1, <2>3 DEF S
  <2> QED BY <1>1, <2>4
<1> QED BY <1>2 DEF Acked

LEMMA HearsKeeps ==
  ASSUME Inv, Hears
  PROVE  Inv' /\ KeepsPayload
<1>1. /\ cfg' = cfg /\ t' = t /\ gone' = gone /\ got' = got /\ again' = again /\ io' = Nothing
      /\ fails' = fails /\ learned' = learned /\ clean' = clean /\ losses' = losses
      /\ reuses' = reuses /\ una' = Acked /\ Tcp
  BY DEF Hears
<1>2. Tcp' = Tcp /\ Out' = Out
  BY <1>1, SameConfig
<1>3. una' \in 0 .. Length
  BY <1>1, AckedIs DEF Inv
<1>4. io' \in [in : Seq(Sent), out : Seq(Out), failed : BOOLEAN] /\ ~io'.failed
  <2>1. <<>> \in Seq(Sent) /\ <<>> \in Seq(Out)
    OBVIOUS
  <2> QED BY <1>1, <2>1 DEF Nothing
<1>5. TypeOK'
  BY <1>1, <1>2, <1>3, <1>4 DEF Inv, TypeOK
<1>6. Inv'
  BY <1>1, <1>4, <1>5, SameConfig DEF Inv, FailureIsRepeated
<1>7. KeepsPayload
  <2>1. [i \in DOMAIN io'.out |-> io'.out[i].pkt] = <<>> /\ io'.in = <<>>
    BY <1>1 DEF Nothing
  <2>2. t.delayed \in Seq(Data)
    BY DEF Inv, TypeOK, Track
  <2>3. <<>> \o t.delayed = t.delayed \o <<>>
    BY <2>2
  <2> QED BY <1>1, <2>1, <2>3 DEF KeepsPayload
<1> QED BY <1>6, <1>7

\* A reply may clear or count failures of the host, and an RST has it forgotten.
LEMMA ReplyFeedIs ==
  ASSUME cfg \in Config, NEW s, NEW u, Begun(s, u), NEW kind, NEW first \in BOOLEAN
  PROVE  LET r == ReplyFeed(s, kind, first)
         IN /\ Goes(s, r, u, FALSE) /\ r.out = s.out /\ r.t.delayed = s.t.delayed
            /\ r.t.req = s.t.req /\ r.t.reasm = s.t.reasm
<1> DEFINE watched == s.t.host /\ s.t.ah /\ first
<1> DEFINE bad == kind = "rst" \/ (kind = "redirect" /\ s.t.l7 /\ cfg.app = "http")
<1> DEFINE q == CASE watched /\ bad -> AutoHostlistFailed(s)
                  [] watched /\ ~bad /\ kind \in {"data", "redirect"} -> [s EXCEPT !.fails = 0]
                  [] OTHER -> s
<1>0. s \in Handler /\ s.t \in Track /\ Watched(s)
  BY BegunIs
<1>1. Moves(s, q, FALSE, FALSE)
  <2>1. Moves(s, AutoHostlistFailed(s), FALSE, FALSE)
    BY <1>0, AutoHostlistFailedMoves
  <2>2. Moves(s, [s EXCEPT !.fails = 0], FALSE, FALSE)
    BY <1>0 DEF Moves, Learns, Counts, Handler
  <2>3. Moves(s, s, FALSE, FALSE)
    BY <1>0, MovesStays
  <2>4. q \in {AutoHostlistFailed(s), [s EXCEPT !.fails = 0], s}
    BY DEF q
  <2> HIDE DEF q
  <2> QED BY <2>1, <2>2, <2>3, <2>4
<1>2. ReplyFeed(s, kind, first)
        = IF watched /\ kind = "rst" THEN [q EXCEPT !.t.host = FALSE] ELSE q
  BY DEF ReplyFeed
<1> HIDE DEF q
<1>3. /\ Goes(s, q, u, FALSE) /\ q.out = s.out /\ q.t.delayed = s.t.delayed
      /\ q.t.req = s.t.req /\ q.t.reasm = s.t.reasm /\ q \in Handler /\ q.t \in Track
  BY <1>1, GoesByMoves DEF Moves, Learns, Handler
<1>4. CASE watched /\ kind = "rst"
  <2> DEFINE b == [q.t EXCEPT !.host = FALSE]
  <2> DEFINE r == [q EXCEPT !.t = b]
  <2>1. /\ b \in Track /\ b.tracked = q.t.tracked /\ b.syn = q.t.syn /\ b.req = q.t.req
        /\ b.reasm = q.t.reasm /\ b.delayed = q.t.delayed /\ b.retrans = q.t.retrans
        /\ ~b.host /\ b.hostFound = q.t.hostFound
    BY <1>3 DEF Track
  <2>2. q.t.tracked
    BY <1>0, <1>1, <1>4 DEF Watched, Moves, Learns
  <2>3. Begun(q, u) /\ TrackOk(q.t, u)
    BY <1>3 DEF Goes, Begun
  <2>4. ReplyFeed(s, kind, first) = r
    BY <1>2, <1>3, <1>4 DEF Handler
  <2> HIDE DEF b
  <2>5. TrackOk(b, u)
    BY <2>1, <2>2, <2>3, TrackKeeps
  <2>6. Goes(q, r, u, FALSE)
    BY <2>1, <2>3, <2>5, GoesByTrack
  <2>7. r.t = b /\ r.out = q.out
    BY <1>3 DEF Handler
  <2> HIDE DEF r
  <2>8. Goes(s, r, u, FALSE)
    BY <1>0, <1>3, <2>6, GoesOnwards
  <2> QED BY <1>3, <2>1, <2>4, <2>7, <2>8
<1>5. CASE ~(watched /\ kind = "rst")
  BY <1>2, <1>3, <1>5
<1> QED BY <1>4, <1>5

\* The entry after a reply is fed to it
LEMMA FeedReplyIs ==
  ASSUME Inv, NEW idle \in BOOLEAN, NEW kind, NEW track, track = Purged(idle),
         NEW a, a = FeedReply(track, kind)
  PROVE  /\ a \in Track /\ TrackOk(a, gone) /\ SynOk(a) /\ (~Tcp => Missing(a))
         /\ Counted(a, again) /\ CountingTrack(a)
         /\ ~idle /\ ~BeginsAnew(track, kind) => a.delayed = t.delayed
<1> DEFINE b == [track EXCEPT !.syn = FALSE]
<1>1. /\ track \in Track /\ TrackOk(track, gone) /\ SynOk(track) /\ (~Tcp => Missing(track))
      /\ Counted(track, again) /\ CountingTrack(track) /\ (~idle => track = t)
  BY PurgedIs
<1>2. CASE a = NewTrack /\ (BeginsAnew(track, kind) \/ ~track.tracked)
  <2>1. /\ NewTrack \in Track /\ TrackOk(NewTrack, gone) /\ Missing(NewTrack) /\ Fresh(NewTrack)
        /\ CountingTrack(NewTrack) /\ NewTrack.retrans = 0 /\ NewTrack.delayed = <<>>
    BY NoTrackOk DEF NewTrack, NoTrack
  <2>2. Counted(NewTrack, again)
    <3>1. 0 < Threshold /\ 0 <= again
      BY ThresholdBelow DEF Inv, TypeOK
    <3>2. NewTrack.retrans = 0
      BY <2>1
    <3> QED BY <3>1, <3>2 DEF Counted
  <2>3. ~track.tracked => track.delayed = <<>>
    <3>1. ~track.tracked => track.delayed = NoTrack.delayed
      BY <1>1, NoTrackOk DEF TrackOk, Track
    <3> QED BY <3>1 DEF NoTrack
  <2> QED BY <1>1, <1>2, <2>1, <2>2, <2>3 DEF SynOk
<1>3. CASE a = track
  BY <1>1, <1>3
<1>4. CASE a = b /\ track.tracked
  <2>1. /\ b \in Track /\ b.tracked = track.tracked /\ ~b.syn /\ b.req = track.req
        /\ b.reasm = track.reasm /\ b.delayed = track.delayed /\ b.retrans = track.retrans
        /\ b.host = track.host /\ b.hostFound = track.hostFound
    BY <1>1 DEF Track
  <2> HIDE DEF b
  <2>2. TrackOk(b, gone)
    BY <1>1, <1>4, <2>1 DEF TrackOk, RequestOk, ReasmOk, QuicOk
  <2>3. SynOk(b) /\ (~Tcp => Missing(b)) /\ Counted(b, again) /\ CountingTrack(b)
    BY <1>1, <2>1 DEF SynOk, Fresh, Missing, Counted, CountingTrack
  <2> QED BY <1>1, <1>4, <2>1, <2>2, <2>3
<1>5. \/ a = NewTrack /\ (BeginsAnew(track, kind) \/ ~track.tracked)
      \/ a = track
      \/ a = b /\ track.tracked
  BY DEF FeedReply
<1> QED BY <1>2, <1>3, <1>4, <1>5

LEMMA RepliesKeeps ==
  ASSUME Inv, NEW kind, NEW first \in BOOLEAN, NEW idle \in BOOLEAN, Replies(kind, first, idle)
  PROVE  Inv' /\ KeepsPayload
<1> DEFINE anew == BeginsAnew(Purged(idle), kind)
<1> DEFINE a == FeedReply(Purged(idle), kind)
<1> DEFINE s == Start(a)
<1> DEFINE r == IF s.t.tracked THEN ReplyFeed(s, kind, first) ELSE s
<1>1. /\ a \in Track /\ TrackOk(a, gone) /\ SynOk(a) /\ (~Tcp => Missing(a))
      /\ Counted(a, again) /\ CountingTrack(a) /\ (~idle /\ ~anew => a.delayed = t.delayed)
  BY FeedReplyIs
<1>2. /\ Output(r, <<>>) /\ cfg' = cfg /\ una' = una /\ got' = got /\ gone' = gone
      /\ again' = again /\ reuses' = reuses /\ clean' = (clean /\ ~idle /\ ~anew)
      /\ losses' = IF idle \/ anew THEN losses + 1 ELSE losses
  BY DEF Replies, Start, Entry
<1>3. cfg \in Config /\ fails \in Nat /\ learned \in BOOLEAN
  BY DEF Inv, TypeOK
<1>0. anew \in BOOLEAN
  BY DEF BeginsAnew
<1> HIDE DEF a, anew
<1>4. Begun(Entry(a), gone) /\ Entry(a).t = a /\ ~Entry(a).failed
  BY <1>1, <1>3, EntryBegun
<1>5. /\ Goes(Entry(a), s, gone, FALSE) /\ s.t.req = a.req /\ s.t.reasm = a.reasm
      /\ s.t.delayed = a.delayed /\ Packets(s.out) = <<>>
  BY <1>1, <1>3, StartGoes
<1> HIDE DEF s
<1>6. Begun(s, gone) /\ Entry(a) \in Handler
  BY <1>4, <1>5 DEF Goes, Begun
<1>7. Goes(s, s, gone, FALSE)
  BY <1>6, GoesStays
<1>8. /\ Goes(s, r, gone, FALSE) /\ r.out = s.out /\ r.t.delayed = s.t.delayed
      /\ r.t.req = s.t.req /\ r.t.reasm = s.t.reasm
  <2>1. CASE s.t.tracked
    <3> DEFINE q == ReplyFeed(s, kind, first)
    <3>1. /\ Goes(s, q, gone, FALSE) /\ q.out = s.out /\ q.t.delayed = s.t.delayed
          /\ q.t.req = s.t.req /\ q.t.reasm = s.t.reasm
      BY <1>3, <1>6, ReplyFeedIs
    <3>2. r = q
      BY <2>1
    <3> HIDE DEF q, r
    <3> QED BY <3>1, <3>2
  <2>2. CASE ~s.t.tracked
    <3>1. r = s
      BY <2>2
    <3> HIDE DEF r
    <3> QED BY <1>7, <3>1
  <2> QED BY <2>1, <2>2
<1> HIDE DEF r
<1>9. Goes(Entry(a), r, gone, FALSE) /\ r \in Handler
  BY <1>5, <1>6, <1>8, GoesOnwards DEF Goes, Begun
<1>10. /\ r.t.req = a.req /\ r.t.reasm = a.reasm /\ r.t.delayed = a.delayed
       /\ r.t.syn = a.syn /\ r.t.tracked = a.tracked /\ r.t.retrans \in {a.retrans, Stop}
       /\ ~r.failed /\ TrackOk(r.t, gone)
  BY <1>4, <1>5, <1>8, <1>9 DEF Goes, Begun, Counts
<1>11. SynOk(r.t) /\ (~Tcp => Missing(r.t)) /\ Counted(r.t, again)
  BY <1>1, <1>10 DEF SynOk, Fresh, Missing, Counted
<1>12. <<>> \in Seq(Sent)
  OBVIOUS
<1>13. /\ t' \in Track /\ fails' \in Nat /\ learned' \in BOOLEAN
       /\ io' \in [in : Seq(Sent), out : Seq(Out), failed : BOOLEAN]
       /\ io'.failed = r.failed /\ io'.in = <<>> /\ io'.out = r.out /\ t' = r.t
  BY <1>2, <1>9, <1>12, OutputType
<1>14. /\ Tcp' = Tcp /\ Stream' = Stream /\ Out' = Out
       /\ TrackOk(t, gone)' = TrackOk(t', gone') /\ SynOk(t)' = SynOk(t')
       /\ Missing(t)' = Missing(t') /\ Counted(t, again)' = Counted(t', again')
  BY <1>2, SameConfig
<1>15. clean' \in BOOLEAN /\ losses' \in Nat
  BY <1>0, <1>2 DEF Inv, TypeOK
<1>16. TypeOK'
  BY <1>2, <1>13, <1>14, <1>15 DEF Inv, TypeOK, Stream
<1>17. Inv'
  BY <1>2, <1>10, <1>11, <1>13, <1>14, <1>16 DEF Inv, FailureIsRepeated
<1>18. KeepsPayload
  <2>1. CASE idle \/ anew
    <3>1. losses' # losses
      BY <1>2, <2>1 DEF Inv, TypeOK
    <3> QED BY <3>1 DEF KeepsPayload
  <2>2. CASE ~idle /\ ~anew
    <3>1. [i \in DOMAIN io'.out |-> io'.out[i].pkt] = <<>>
      BY <1>5, <1>8, <1>13 DEF Packets
    <3>2. t'.delayed = t.delayed /\ t.delayed \in Seq(Data)
      BY <1>1, <1>10, <1>13, <2>2 DEF Inv, TypeOK, Track
    <3>3. <<>> \o t'.delayed = t.delayed \o io'.in
      BY <1>13, <3>2
    <3> QED BY <3>1, <3>3 DEF KeepsPayload
  <2> QED BY <2>1, <2>2
<1> QED BY <1>17, <1>18

\* A connection begins anew on the same ports.
LEMMA ReopensKeeps ==
  ASSUME Inv, Reopens
  PROVE  Inv' /\ KeepsPayload
<1> DEFINE p == Bare("syn")
<1> DEFINE r == TcpPacket(t, p)
<1>1. /\ Tcp /\ Output(r, <<p>>) /\ una' = 0 /\ got' = {} /\ gone' = {} /\ again' = 0
      /\ clean' = TRUE /\ reuses' = reuses + 1 /\ cfg' = cfg /\ losses' = losses
  BY DEF Reopens
<1>2. p \in Sent /\ IsSyn(p) /\ p.len = 0
  BY SizeAssumption DEF Bare, Sent, Packet, IsSyn
<1>3. /\ cfg \in Config /\ fails \in Nat /\ learned \in BOOLEAN /\ t \in Track
      /\ TrackOk(t, gone) /\ SynOk(t) /\ CountingTrack(t)
  BY DEF Inv, TypeOK, Counted, CountingTrack
<1> HIDE DEF p
<1>4. Begun(r, gone) /\ SynOk(r.t) /\ Tallies(t, r, FALSE) /\ Fresh(r.t)
  BY <1>1, <1>2, <1>3, TcpBareIs
<1> HIDE DEF r
<1>5. r \in Handler /\ ~r.failed
  BY <1>4 DEF Begun, Tallies
<1>6. TrackOk(r.t, {})
  <2>1. NoReasm.size = 0 /\ ~NoRequest.present /\ ~NoRequest.final
    BY DEF NoReasm, NoRequest
  <2> QED BY <1>1, <1>4, <2>1 DEF Begun, TrackOk, RequestOk, ReasmOk, Fresh
<1>7. Counted(r.t, 0)
  BY <1>4, ThresholdBelow DEF Counted, Fresh
<1>8. <<p>> \in Seq(Sent)
  BY <1>2
<1>9. /\ t' \in Track /\ fails' \in Nat /\ learned' \in BOOLEAN
      /\ io' \in [in : Seq(Sent), out : Seq(Out), failed : BOOLEAN]
      /\ io'.failed = r.failed /\ t' = r.t
  BY <1>1, <1>5, <1>8, OutputType
<1>10. /\ Tcp' = Tcp /\ Stream' = Stream /\ Out' = Out
       /\ TrackOk(t, gone)' = TrackOk(t', gone') /\ SynOk(t)' = SynOk(t')
       /\ Missing(t)' = Missing(t') /\ Counted(t, again)' = Counted(t', again')
  BY <1>1, SameConfig
<1>11. 0 \in 0 .. Length /\ 0 \in 0 .. Threshold
  BY SizeAssumption, ThresholdBelow
<1>12. TypeOK'
  BY <1>1, <1>9, <1>10, <1>11 DEF Inv, TypeOK
<1>13. Inv'
  BY <1>1, <1>4, <1>5, <1>6, <1>7, <1>9, <1>10, <1>12 DEF Inv, FailureIsRepeated
<1>14. KeepsPayload
  <2>1. reuses' # reuses
    BY <1>1 DEF Inv, TypeOK
  <2> QED BY <2>1 DEF KeepsPayload
<1> QED BY <1>13, <1>14

LEMMA NextKeeps ==
  ASSUME Inv, Next
  PROVE  Inv' /\ KeepsPayload
<1>1. ASSUME NEW idle \in BOOLEAN, NEW p \in IF Tcp THEN TcpSends ELSE UdpSends, Sends(p, idle)
      PROVE  Inv' /\ KeepsPayload
  BY <1>1, FromClientKeeps
<1>2. ASSUME NEW idle \in BOOLEAN, NEW kind \in SynAcks \cup {"data", "redirect", "rst"},
             NEW first \in BOOLEAN, Replies(kind, first, idle)
      PROVE  Inv' /\ KeepsPayload
  BY <1>2, RepliesKeeps
<1>3. CASE Hears
  BY <1>3, HearsKeeps
<1>4. CASE Reopens
  BY <1>4, ReopensKeeps
<1> QED BY <1>1, <1>2, <1>3, <1>4 DEF Next

LEMMA StutterKeeps ==
  ASSUME Inv, UNCHANGED vars
  PROVE  Inv'
<1>1. /\ cfg' = cfg /\ t' = t /\ gone' = gone /\ got' = got /\ again' = again /\ io' = io
      /\ fails' = fails /\ learned' = learned /\ clean' = clean /\ losses' = losses
      /\ reuses' = reuses /\ una' = una
  BY DEF vars
<1>2. Tcp' = Tcp /\ Out' = Out
  BY <1>1, SameConfig
<1>3. TypeOK'
  BY <1>1, <1>2 DEF Inv, TypeOK
<1> QED BY <1>1, <1>3, SameConfig DEF Inv, FailureIsRepeated

-----------------------------------------------------------------------------
(* The theorems                                                            *)

\* Every packet, of either side, and every purge keeps the invariant.
THEOREM Invariance == Spec => []Inv
<1>1. Inv /\ [Next]_vars => Inv'
  BY NextKeeps, StutterKeeps
<1> QED BY <1>1, InitInv, PTL DEF Spec

\* What nfqws knows of a connection keeps its shape (desync.c, conntrack.c):
\* the counter of repeats stays within its byte and wraps nowhere, numbers
\* stay within 32 bits, and packets that are held have payload of the stream.
THEOREM TypeCorrect == Spec => []TypeOK
<1>1. Inv => TypeOK
  BY DEF Inv
<1> QED BY <1>1, Invariance, PTL

\* No failure is counted for want of an answer before the client has repeated
\* its request as often as the threshold says, whatever was purged, replayed
\* or begun anew in between (process_retrans_fail, desync.c:378-407).
THEOREM FailureRepeated == Spec => []FailureIsRepeated
<1>1. Inv => FailureIsRepeated
  BY DEF Inv
<1> QED BY <1>1, Invariance, PTL

\* Whatever is held of a hello leaves later, once and in the order in which
\* it came, but for what goes with an entry that is purged, or begun anew by
\* a SYN or by a SYN,ACK for another one: no way out of a handler drops,
\* doubles or reorders a packet.
THEOREM PayloadConserved == Spec => Conserved
<1>1. Inv /\ [Next]_vars => [KeepsPayload]_vars
  BY NextKeeps
<1> QED BY <1>1, Invariance, PTL DEF Spec, Conserved
=============================================================================
