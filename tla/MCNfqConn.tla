----------------------------- MODULE MCNfqConn -----------------------------
(* Values for the constants of NfqConn.                                     *)
EXTENDS NfqConn

\* The host name is units 1 and 2 of a hello of four.  Of fakeddisorder the
\* junk would reach the beginning of the packet and is left out.
Split == [first |-> "fake", second |-> "multisplit", splits |-> {1, 3}, split |-> 2,
          host |-> 1, endhost |-> 3, midhost |-> 2, seqovl |-> 2, order |-> 0, alone |-> 0]
Disorder == [Split EXCEPT !.first = "none", !.second = "multidisorder", !.splits = {2, 3},
                          !.seqovl = 1]

\* A connection whose profile has a list with its host, near the end of the
\* sequence numbers: the hello spans the wrap to zero.
Tls == [l4 |-> "tcp", app |-> "tls", host |-> "listed", lists |-> "list", byProto |-> TRUE,
        cutoff |-> 0, anyProto |-> FALSE, isn |-> Modulus - 3, how |-> Split]
Auto == [Tls EXCEPT !.lists = "auto", !.host = "unlisted", !.how = Disorder]
Quic == [Tls EXCEPT !.l4 = "udp", !.app = "quic", !.isn = 0]

MCConfigs ==
  {Tls, Auto,
   [Auto EXCEPT !.isn = 0, !.host = "excluded", !.how.second = "none"],
   [Tls EXCEPT !.lists = "none", !.byProto = FALSE, !.cutoff = 4, !.how.second = "fakeddisorder",
               !.how.first = "rst"],
   [Tls EXCEPT !.app = "huge"],
   [Auto EXCEPT !.app = "http", !.isn = 5, !.how.second = "fakedsplit", !.how.order = 1],
   [Tls EXCEPT !.app = "other", !.lists = "none", !.byProto = FALSE, !.anyProto = TRUE],
   [Tls EXCEPT !.isn = 0, !.lists = "none", !.how.second = "hostfakesplit"],
   [Quic EXCEPT !.lists = "auto", !.host = "unlisted"],
   [Quic EXCEPT !.host = "none", !.byProto = FALSE, !.anyProto = TRUE, !.cutoff = 4]}
MCPieces == {{0}, {1, 2, 3}, {0, 1, 2, 3}}
=============================================================================
