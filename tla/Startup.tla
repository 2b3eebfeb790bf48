------------------------------ MODULE Startup -------------------------------
(***************************************************************************)
(* tpws and nfqws from the first option of their command line to the loop  *)
(* that serves: the line is read option by option, what it describes is    *)
(* completed and tested, and the program starts as the line says.          *)
(***************************************************************************)
EXTENDS TpwsStart, NfqwsStart

all == <<vars, running, searching>>

Params(s) == IF s.name = "tpws" THEN TpwsParams ELSE NfqwsParams
Fields0(s) == IF s.name = "tpws" THEN TpwsFields ELSE NfqwsFields
Steps(s) == IF s.name = "tpws" THEN TpwsSteps ELSE NfqwsSteps[s.os]

Init ==
  /\ written \in Lines /\ disk = written.disk
  /\ argv = <<>> /\ phase = "options"
  /\ profiles = <<Fresh(1, Fields0(system))>> /\ count = 1
  /\ skip = FALSE /\ dry = FALSE
  /\ anon = [c \in Collections |-> 0] /\ files = <<>>
  /\ params = Params(system) /\ binds = <<>>
  /\ todo = Steps(system)
  /\ ProcessInit /\ TpwsStartInit

NextOptions == IF Len(argv) < Len(written.given) THEN {written.given[Len(argv) + 1]} ELSE written.options
Read ==
  /\ phase = "options" /\ Len(argv) < Len(written.given) + written.more
  /\ \E t \in NextOptions :
        /\ argv' = Append(argv, t)
        /\ IF system.name = "tpws" THEN TpwsOption(t) ELSE NfqwsOption(t)
  /\ UNCHANGED <<written, running, searching>>

Parsed ==
  /\ phase = "options" /\ Len(argv) >= Len(written.given)
  /\ IF system.name = "tpws" THEN TpwsParsed ELSE NfqwsParsed
  /\ UNCHANGED <<written, argv, running, searching>>

Next ==
  \/ Read
  \/ Parsed
  \/ ProcessStep /\ UNCHANGED searching
  \/ TpwsStep
  \/ NetChange
  \/ NfqwsStep /\ UNCHANGED searching

\* The program takes its next step while it starts; nothing else is sure to happen,
\* and the logical network Windows waits for may never come.
Advance == ~Serving /\ (TpwsStep \/ ((ProcessStep \/ OpenQueue) /\ UNCHANGED searching))
Spec == Init /\ [][Next]_all /\ WF_all(Advance)

-----------------------------------------------------------------------------
(* What a line asks for, told from the line alone. *)

\* The options between two --new; a part with --skip describes no profile.
NewsBefore(j) == Cardinality({i \in 1 .. j - 1 : argv[i].o = "new"})
Segment(k) == {j \in DOMAIN argv : NewsBefore(j) = k /\ argv[j].o # "new"}
Segments == {k \in 0 .. NewsBefore(Len(argv) + 1) : \A j \in Segment(k) : argv[j].o # "skip"}

\* Files and items given for a collection, and the ranges of ports but for all ports
\* and for none, which * and 0 stand for.
AllOrNone == {<<1, MaxPort>>, <<0, 0>>}
Names(k, c) == {argv[j].a[1].w : j \in {i \in Segment(k) : argv[i].o \in DOMAIN NamedList /\ NamedList[argv[i].o] = c}}
               \cup {argv[j].a[1].w : j \in {i \in Segment(k) : c = "hl" /\ argv[i].o = "hostlist_auto"}}
Inline(k, c) == UNION {Words(argv[j].a) \ {""} : j \in {i \in Segment(k) : argv[i].o \in DOMAIN InlineList /\ InlineList[argv[i].o] = c}}
Given(k, o) == {j \in Segment(k) : argv[j].o = o}
ItemsOfArgs(js) == UNION {{argv[j].a[n] : n \in DOMAIN argv[j].a} : j \in js}
Ports(k, o) == {<<i.k[1], i.k[Len(i.k)]>> : i \in {x \in ItemsOfArgs(Given(k, o)) : x.w # "*"}} \ AllOrNone

FilesOf(p, c) == {files[i].file : i \in p.on[c]} \ {""}
ItemsOf(p, c) == UNION {files[i].items : i \in {j \in p.on[c] : files[j].file = ""}}
Ranges(filters) == {<<f.from, f.to>> : f \in filters} \ AllOrNone

\* Each profile has the lists, the ports and the number of splits its own part of
\* the line gives it and nothing of another part, however parts are skipped and
\* whatever lists they share; profile 0 comes last and takes everything else.
ProfilesAsWritten ==
  phase = "start" =>
    /\ Len(profiles) = Cardinality(Segments) + 1
    /\ profiles[Len(profiles)].n = 0 /\ profiles[Len(profiles)].tcp = {}
    /\ \A k \in Segments :
         LET p == profiles[Cardinality({r \in Segments : r <= k})]
             given == {j \in Segment(k) : argv[j].o \in {"split_pos", "split_http_req", "split_tls"}}
         IN  /\ p.n = Cardinality({r \in Segments : r <= k})
             /\ \A c \in Collections : FilesOf(p, c) = Names(k, c) /\ ItemsOf(p, c) = Inline(k, c)
             /\ Ranges(p.tcp) = Ports(k, "filter_tcp") /\ Ranges(p.udp) = Ports(k, "filter_udp")
             /\ given # {} => Len(p.splits) >= Cardinality(given)
             /\ \A i \in ItemsOfArgs(Given(k, "split_pos")) :
                  \E n \in DOMAIN p.splits : p.splits[n] \in SplitPos(i)
             /\ given = {} /\ system.name = "tpws" => p.splits = <<>>

\* The TLS hellos sent as fakes are ones a server could read: each length in them
\* fits the bytes it counts after a name was written over another and a padding
\* was added; and each fake is changed as the last --fake-tls-mod before the next
\* fake of its profile says.
TlsFakes(k) == Given(k, "fake_tls")
ModAt(k, j) == {i \in Given(k, "fake_tls_mod") : \A n \in TlsFakes(k) : n > j => i < n}
HellosConsistent ==
  phase = "start" =>
    \A x \in DOMAIN profiles : LET fakes == profiles[x].fakes IN
      /\ \A i \in DOMAIN fakes : \A h \in fakes[i].hello : NestedLengths(h) /\ fakes[i].offset < h.size
      /\ \A k \in Segments : x = Cardinality({r \in Segments : r <= k}) =>
           \A j \in TlsFakes(k) :
             LET tls  == {i \in DOMAIN fakes : fakes[i].kind = "tls"}
                 last == {i \in ModAt(k, j) : \A n \in ModAt(k, j) : n <= i}
             IN  \E i \in tls :
                   /\ Cardinality({n \in tls : n <= i}) = Cardinality({n \in TlsFakes(k) : n <= j})
                   /\ fakes[i].mod \ {"set", "custom"} = UNION {Words(argv[m].a) \ {"none"} : m \in last}

\* A program that serves listens on what was asked for: one address for each
\* bind, the one named or one of the interface named, in the version of IP asked
\* for, never a link local one where that is excluded, only such ones where it is
\* demanded, and a second choice only after the time for the first has passed.
ListensAsAsked ==
  Serving /\ system.name = "tpws" =>
    /\ Len(sockets) = Len(binds)
    /\ \A i \in DOMAIN binds : LET b == binds[i] s == sockets[i] IN
         /\ b.addr # "" => s.kind = b.addr
         /\ b.addr = "" /\ b.iface # "" => s.iface = b.iface /\ (s.kind = "ip4") = ~b.v6
         /\ b.addr = "" /\ s.kind \in Kinds6 =>
              /\ b.ll = "force" => s.kind = "ll6"
              /\ b.ll = "no" => s.kind # "ll6"
              /\ (b.ll = "prefer" /\ s.kind # "ll6") \/ (b.ll = "unwanted" /\ s.kind = "ll6") =>
                   b.wait_ip - s.left >= b.wait_ip_ll

\* A program that serves has the rights it was to have, and with these, from
\* where it works, it can read each of its lists again; of a daemon, which works
\* in / (sec.c:349), only those named in full.  The pid file names the process
\* that serves; its caller is told of success by a daemon only when the traffic
\* has its way into the program (on Windows, which becomes a daemon first, it is
\* told before).
ServesAsAsked ==
  /\ Serving =>
       /\ params.droproot => ~asRoot
       /\ \A i \in DOMAIN files : LET f == files[i].file IN
            f # "" /\ ~(params.daemon /\ f \in written.relative) => Found[f] \notin Shut(asRoot)
       /\ params.pidfile # "" => pidfile = process
  /\ pidfile \in {"first", "second"} => pidfile = process
  /\ status = 0 /\ params.daemon /\ todo # <<>> /\ ~On({"windows"}) => sockets # <<>>

\* Whatever appears or disappears while it waits, a program that starts comes to
\* serve or ends; on Windows it may wait for its network.
Settles == (phase = "start") ~> (Serving \/ todo = <<>> \/ Step("network"))
=============================================================================
