----------------------------- MODULE NfqDesync -----------------------------
(***************************************************************************)
(* What dpi_desync_tcp_packet_play (upstream/nfq/desync.c) sends in place  *)
(* of one packet with payload: the segments of each strategy, in order,    *)
(* real ones and fakes, and what a server makes of them.                   *)
(*                                                                         *)
(* A piece q of a hello is len units that begin at offset off of it, when  *)
(* sz units of it are known.  A strategy st holds where its markers lie in *)
(* the hello, 0 if they are not found, and the orders it was given.  Flags,*)
(* TTL, fooling and IP ids of the segments, the contents of fakes and the  *)
(* number of their repeats are left out; fakes are meant not to be taken   *)
(* by the server.  The extension headers of IPv6 and ipfrag2 change what   *)
(* IP carries, and the payload arrives as it was.                          *)
(***************************************************************************)
EXTENDS Integers, Sequences, FiniteSets, SequencesExt

Strategy ==
  [first : {"none", "fake", "rst"},
   second : {"none", "multisplit", "multidisorder", "fakedsplit", "fakeddisorder", "hostfakesplit"},
   splits : SUBSET Nat,  \* --dpi-desync-split-pos
   split : Nat,          \* the one of them that fakedsplit takes
   host : Nat, endhost : Nat, midhost : Nat,
   seqovl : Nat,         \* units of junk, or the position of --dpi-desync-split-seqovl
   order : 0 .. 3,       \* altorder
   alone : 0 .. 2]       \* and the one for a packet that is not split

Piece(off, len, sz) == [off |-> off, len |-> len, sz |-> sz]

\* A segment carries the units from, .., to - 1 of the piece, behind
\* seqovl units of junk that overlap what comes before them.
Real(a, b, seqovl) == [from |-> a, to |-> b, seqovl |-> seqovl, real |-> TRUE]
Fake(a, b) == [from |-> a, to |-> b, seqovl |-> 0, real |-> FALSE]
If(c, g) == IF c THEN <<g>> ELSE <<>>

CheckPos(pos, sz) == IF pos < sz THEN pos ELSE 0

PosNormalize(pos, off, len) == IF pos > off /\ pos - off < len THEN pos - off ELSE 0

Pos(pos, q) == PosNormalize(CheckPos(pos, q.sz), q.off, q.len)

\* The split positions that fall inside the piece
Cuts(st, q) == {Pos(pos, q) : pos \in st.splits} \ {0}
Parts(cuts, len) ==
  LET ends == Append(SetToSortSeq(cuts, <), len)
  IN [i \in DOMAIN ends |-> [from |-> IF i = 1 THEN 0 ELSE ends[i - 1], to |-> ends[i]]]

\* Only the first segment of a hello may have junk before it.
Multisplit(st, q) ==
  LET parts == Parts(Cuts(st, q), q.len)
  IN [i \in DOMAIN parts |->
        Real(parts[i].from, parts[i].to, IF i = 1 /\ q.off = 0 THEN st.seqovl ELSE 0)]

\* The last first; the junk before the second never reaches where the
\* piece begins.
Multidisorder(st, q) ==
  LET parts == Parts(Cuts(st, q), q.len)
      seqovl == Pos(st.seqovl, q)
  IN Reverse([i \in DOMAIN parts |->
       Real(parts[i].from, parts[i].to, IF i = 2 /\ seqovl < parts[i].from THEN seqovl ELSE 0)])

SplitPos(st, q) ==
  LET pos == CheckPos(st.split, q.sz) IN PosNormalize(IF pos = 0 THEN 1 ELSE pos, q.off, q.len)

FakedSplit(st, q) ==
  LET found == SplitPos(st, q) # 0
      pos == IF found THEN SplitPos(st, q) ELSE q.len
      order == IF found THEN st.order ELSE st.alone
      seqovl == IF q.off = 0 /\ pos < q.len THEN st.seqovl ELSE 0
      second == <<Fake(pos, q.len), Real(pos, q.len, 0)>> \o If(order <= 2, Fake(pos, q.len))
  IN If(order = 0, Fake(0, pos)) \o <<Real(0, pos, seqovl)>> \o If(order <= 1, Fake(0, pos))
       \o IF pos < q.len THEN second ELSE <<>>

\* (mutant) junk up to where the piece begins
FakedDisorder_AllJunk(st, q) ==
  LET pos == SplitPos(st, q)
  IN <<Real(pos, q.len, Pos(st.seqovl, q)), Fake(0, pos), Real(0, pos, 0)>>

FakedDisorder(st, q) ==
  LET pos == SplitPos(st, q)
      order == IF pos # 0 THEN st.order ELSE st.alone
      seqovl == IF Pos(st.seqovl, q) < pos THEN Pos(st.seqovl, q) ELSE 0
      first == <<Fake(0, pos), Real(0, pos, 0)>> \o If(order <= 2, Fake(0, pos))
  IN If(order = 0, Fake(pos, q.len)) \o <<Real(pos, q.len, seqovl)>>
       \o If(order <= 1, Fake(pos, q.len)) \o IF pos > 0 THEN first ELSE <<>>

\* Both ends of the host name must lie inside the piece.
HostIn(st, q) == Pos(st.host, q) # 0 /\ Pos(st.endhost, q) # 0
HostFakeSplit(st, q) ==
  LET h == Pos(st.host, q)  e == Pos(st.endhost, q)  m == Pos(st.midhost, q)
      host == IF m > h /\ m < e THEN <<Real(h, m, 0), Real(m, e, 0)>> ELSE <<Real(h, e, 0)>>
      after == Real(e, q.len, 0)
  IN <<Real(0, h, 0), Fake(h, e)>>
       \o If(st.order = 1, after) \o host
       \o IF st.order = 0 THEN <<Fake(h, e), after>> ELSE <<>>

Unsplit(q) == <<Real(0, q.len, 0)>>

\* Fakes and resets go before the first piece of a hello only.
FirstStage(st, q) ==
  IF q.off # 0 \/ st.first = "none" THEN <<>>
  ELSE <<Fake(0, IF st.first = "fake" THEN q.len ELSE 0)>>

SecondStage(st, q) ==
  CASE st.second = "multisplit" /\ Cuts(st, q) # {} -> Multisplit(st, q)
    [] st.second = "multidisorder" /\ Cuts(st, q) # {} -> Multidisorder(st, q)
    [] st.second = "fakedsplit" -> FakedSplit(st, q)
    [] st.second = "fakeddisorder" -> FakedDisorder(st, q)
    [] st.second = "hostfakesplit" /\ HostIn(st, q) -> HostFakeSplit(st, q)
    [] OTHER -> Unsplit(q)

Segments(st, q) == FirstStage(st, q) \o SecondStage(st, q)

\* After a segment that cannot be sent the packet goes as it came.
SendFails(segs, k, q) == SubSeq(segs, 1, k - 1) \o Unsplit(q)

-----------------------------------------------------------------------------
(* The server's TCP: r.next is the next unit it reads, r.later what arrived *)
(* too early.  What it has read stays read.                                 *)

Listening(next) == [next |-> next, junk |-> FALSE, later |-> {}]
Begins(g) == g.from - g.seqovl
Take(r, g) ==
  IF Begins(g) <= r.next /\ g.to > r.next
  THEN [r EXCEPT !.next = g.to, !.junk = @ \/ r.next < g.from] ELSE r
Receive(r, g) ==
  IF Begins(g) > r.next THEN [r EXCEPT !.later = @ \cup {g}]
  ELSE FoldLeft(Take, Take(r, g), SetToSortSeq(r.later, LAMBDA x, y : Begins(x) < Begins(y)))

Read(next, segs) == FoldLeft(Receive, Listening(next), SelectSeq(segs, LAMBDA g : g.real))
=============================================================================
