----------------------------- MODULE MCStartup ------------------------------
(* Small command lines for Startup: each set of options is made of those that *)
(* meet in one part of the code, and a profile or a bind is given first where *)
(* the options need one.                                                      *)
EXTENDS Startup

N(n) == <<Item("", <<n>>)>>
W(w) == <<Item(w, <<>>)>>
WK(w, k) == <<Item(w, k)>>
F(o) == Opt(o, <<>>)
Plain0 == [a |-> "plain", b |-> "plain"]
L(name, os, r, d, given, options, n) ==
  [system |-> [name |-> name, os |-> os], root |-> r, disk |-> d, relative |-> {}, given |-> given, options |-> options, more |-> n]
T(os, given, options, n) == L("tpws", os, FALSE, Plain0, <<Opt("port", N(988))>> \o given, options, n)
Q(os, given, options, n) ==
  L("nfqws", os, TRUE, Plain0,
    (IF os = "linux" THEN <<Opt("qnum", N(200))>> ELSE IF os = "bsd" THEN <<Opt("port", N(989))>>
     ELSE <<Opt("wf_tcp", N(443))>>) \o given, options, n)

MCMaxSplits == [tpws |-> 3, nfqws |-> 3]

\* tpws: profiles with their lists and filters; splits; urgent data; the rest
ProfileOptions ==
  {F("new"), F("skip"), Opt("hostlist", W("a")), Opt("hostlist_domains", W("x.com")),
   Opt("ipset_exclude_ip", W("10.0.0.0")), Opt("filter_tcp", <<Item("", <<80>>), Item("~", <<443, 445>>)>>)}
SplitOptions ==
  {F("new"), Opt("split_pos", <<Item("", <<2>>), Item("midsld", <<>>)>>), Opt("split_http_req", W("method")),
   Opt("split_tls", W("sniext")), Opt("split_pos", N(0)), F("skip_nodelay"), F("split_any_protocol")}
FileOptions ==
  {F("new"), F("skip"), Opt("hostlist_auto", W("a")), Opt("hostlist", W("a")), Opt("hostlist_exclude", W("b")),
   Opt("ipset", W("b")), F("dry_run"), Opt("user", W("daemon"))}
TamperOptions ==
  {F("hostcase"), Opt("hostspell", WK("HoSt", <<4>>)), Opt("hostspell", WK("Hos", <<3>>)), Opt("hostpad", N(8)),
   F("methodeol"), Opt("tlsrec", W("sni")), Opt("tlsrec_pos", N(1)), Opt("filter_l3", W("ipv4")),
   Opt("filter_l7", W("tls")), Opt("tamper_start", WK("n", <<1>>)), Opt("tamper_cutoff", N(1)), Opt("mss", N(88))}
UrgentOptions ==
  {F("oob"), F("disorder"), Opt("oob", W("http")), Opt("disorder", W("tls")), Opt("oob_data", WK("0x", <<1>>)),
   Opt("connect_bind_addr", W("ip4")), Opt("connect_bind_addr", W("ip6")), Opt("connect_bind_addr", W("bad"))}
ServerOptions ==
  {F("daemon"), Opt("pidfile", W("pid")), Opt("uid", N(1)), Opt("maxconn", N(10001)), Opt("max_orphan_time", N(0)),
   Opt("ipcache_lifetime", N(-1)), Opt("ipcache_hostname", <<>>), Opt("resolver_threads", N(1)), F("version")}
LogOptions ==
  {F("debug"), Opt("debug", N(3)), Opt("debug", W("syslog")), Opt("debug", WK("@", <<1>>)), Opt("debug_level", N(2)),
   F("comment"), Opt("hostlist_auto_debug", W("a")), Opt("hostlist_auto_fail_threshold", N(21)),
   Opt("hostlist_auto_fail_time", N(0)), Opt("local_rcvbuf", N(1)), F("help")}
SystemOptions ==
  {F("enable_pf"), Opt("local_timeout", N(1)), F("fix_seg"), F("nosplice"), F("no_resolve"), F("socks")}

\* tpws: binds
BindOptions ==
  {Opt("bind_linklocal", W("prefer")), Opt("bind_linklocal", W("force")), Opt("bind_linklocal", W("no")),
   Opt("wait_ip", N(2)), Opt("wait_ip_ll", N(1)), Opt("wait_ifup", N(1)), F("bind_wait_only")}
BindLines ==
  {T(os, given, BindOptions, 3) :
     os \in {"mac", "linux"},
     given \in {<<F("socks"), Opt("bind_iface6", W("en"))>>, <<F("socks"), Opt("bind_addr", <<Item("ll6", <<>>), Item("en", <<>>)>>)>>}}
  \cup {T("bsd", <<Opt("bind_iface4", W("en"))>>, {Opt("wait_ip", N(1)), Opt("bind_addr", W("bad")), Opt("bind_addr", W("global6"))}, 2),
        T("linux", <<Opt("bind_addr", W("ip4")), Opt("bind_linklocal", W("force"))>>,
          {Opt("bind_addr", W("")), Opt("bind_linklocal", W("prefer")), Opt("wait_ip", N(1)), F("daemon")}, 2)}
En == [iface |-> "en", up |-> TRUE, addrs |-> <<"ll6">>]
MCNets ==
  {<<>>, <<[En EXCEPT !.up = FALSE]>>, <<En>>, <<[En EXCEPT !.addrs = <<"ip4", "global6", "private6", "ll6">>]>>,
   <<[En EXCEPT !.addrs = <<"global6">>], [En EXCEPT !.iface = "vpn"]>>}

TpwsLines ==
  {T(os, <<>>, UrgentOptions, 2) : os \in {"mac", "linux"}}
  \cup {T(os, <<>>, SystemOptions, 1) : os \in {"mac", "linux", "bsd"}}
  \cup {T("mac", <<>>, o, 1) : o \in {TamperOptions, LogOptions}}
  \cup {T("mac", <<>>, SplitOptions, 3), T("mac", <<>>, ProfileOptions, 4)}
  \cup {T("linux", <<Opt("hostlist_domains", W("y.com")), F("new"), Opt("filter_tcp", W("*"))>>, ProfileOptions, 2)}
  \cup {L("tpws", "mac", r, Plain0, <<Opt("port", N(988)), Opt("pidfile", W("pid"))>>, ServerOptions, 2) : r \in BOOLEAN}
  \cup {L("tpws", "linux", TRUE, [a |-> x, b |-> y], <<Opt("port", N(988))>>, FileOptions, 3) :
          x \in {"missing", "rootonly", "gzip"}, y \in {"plain", "rootonly", "corrupt"}}

\* nfqws
ProgramOptions ==
  {F("debug"), Opt("debug", N(2)), Opt("port", N(0)), Opt("qnum", N(70000)), F("daemon"), Opt("pidfile", W("pid")),
   Opt("uid", N(1)), F("dry_run"), F("bind_fix4"), F("comment"), F("version")}
TrackOptions ==
  {Opt("ctrack_timeouts", WK("", <<1, 2, 3>>)), Opt("ctrack_timeouts", WK("", <<1, 2>>)), Opt("ctrack_disable", N(0)),
   Opt("wsize", WK("", <<64, 256>>)), Opt("wssize", WK("", <<1, 6>>)), Opt("wssize_forced_cutoff", N(0)),
   Opt("synack_split", W("acksyn")), Opt("wssize_cutoff", WK("d", <<2>>)), Opt("ip_id", W("seq")),
   Opt("fwmark", N(0)), Opt("ipcache_lifetime", N(1)), F("ipcache_hostname")}
RequestOptions ==
  {F("hostcase"), F("hostnospace"), F("methodeol"), Opt("hostspell", WK("hoSt", <<4>>)), F("domcase"),
   Opt("dpi_desync", <<Item("syndata", <<>>), Item("fake", <<>>), Item("multisplit", <<>>)>>),
   Opt("dpi_desync", <<Item("multisplit", <<>>), Item("fake", <<>>)>>), Opt("dpi_desync", W("fakedsplit")),
   Opt("dpi_desync", W("ipfrag2"))}
DupOptions ==
  {Opt("dup", N(2)), Opt("dup_ttl", N(3)), Opt("dup_ttl6", N(4)), F("dup_autottl"), Opt("dup_tcp_flags_set", W("urg")),
   Opt("dup_replace", N(1)), Opt("dup_fooling", <<Item("badseq", <<>>), Item("ts", <<>>)>>), Opt("dup_ts_increment", N(1)),
   Opt("dup_cutoff", WK("s", <<1>>)), Opt("dup_ip_id", W("rnd"))}
FakeOptions ==
  {Opt("orig_ttl", N(5)), Opt("orig_autottl", WK("", <<3, 2, 1>>)), Opt("orig_tcp_flags_set", N(4096)),
   Opt("orig_mod_start", WK("x", <<1>>)), Opt("ttl", N(5)), Opt("autottl", W("-")), Opt("tcp_flags_unset", N(1)),
   Opt("fooling", W("md5sig")), Opt("repeats", N(0)), Opt("skip_nosni", N(0)), Opt("desync_start", N(2))}
SplitDesyncOptions ==
  {Opt("split_pos", <<Item("sld", <<1>>), Item("", <<-1>>)>>), Opt("split_seqovl", N(0)), Opt("split_seqovl", WK("sniext", <<1>>)),
   Opt("dpi_desync", W("multisplit")), Opt("split_http_req", W("host")), Opt("seqovl_pattern", WK("h", <<1>>)),
   Opt("fakedsplit_mod", WK("altorder", <<9>>)), Opt("hostfakesplit_mod", WK("host", <<1>>)),
   Opt("hostfakesplit_midhost", W("midsld")), F("new")}
FragmentOptions ==
  {Opt("ipfrag_pos_tcp", N(8)), Opt("ipfrag_pos_udp", N(9)), Opt("badseq_increment", N(-1)), Opt("ts_increment", W("x")),
   F("any_protocol"), Opt("fake_tcp_mod", W("seq")), Opt("fake_http", W("h")), Opt("fake_syndata", WK("h", <<70>>)),
   Opt("udplen_increment", N(40000)), Opt("udplen_pattern", W("h")), Opt("desync_cutoff", N(1))}
TlsOptions ==
  {F("new"), Opt("fake_tls", WK("!", <<>>)), Opt("fake_tls", W("h")), Opt("fake_tls", W("junk")),
   Opt("fake_tls_mod", <<Item("sni", <<7>>), Item("padencap", <<>>)>>), Opt("fake_tls_mod", <<Item("rnd", <<>>), Item("dupsid", <<>>)>>),
   Opt("fake_tls_mod", W("none")), Opt("fake_tls_mod", W("rndsni"))}
ListOptions ==
  {F("new"), F("skip"), Opt("hostlist", W("a")), Opt("hostlist_domains", W("x.com")), Opt("hostlist_auto", W("b")),
   Opt("ipset", W("a")), Opt("ipset_ip", W("10.0.0.0")), Opt("filter_udp", N(443)), Opt("filter_tcp", WK("~", <<80>>))}
LimitOptions ==
  {Opt("hostlist_auto_fail_threshold", N(1)), Opt("hostlist_auto_fail_time", N(1)), Opt("hostlist_auto_retrans_threshold", N(1)),
   Opt("hostlist_auto_debug", W("a")), Opt("filter_l3", W("ipv7")), Opt("filter_l7", W("quic")), F("help")}
WinOptions ==
  {Opt("wf_iface", N(1)), Opt("wf_l3", W("ipv6")), Opt("wf_udp", N(443)), Opt("wf_raw", W("true")), Opt("wf_raw_part", W("ip")),
   Opt("ssid_filter", W("net")), Opt("nlm_filter", W("home")), Opt("wf_filter_lan", N(0)), Opt("wf_save", W("out")),
   F("nlm_list"), F("daemon"), Opt("pidfile", W("pid"))}

Hello(size, others, name, pad) ==
  {[size |-> size, rec |-> size - 5, hs |-> size - 9, others |-> others, sni |-> name + 5, list |-> name + 3,
    name |-> name, pad |-> pad, padding |-> 0,
    exts |-> others + (IF name >= 0 THEN name + 9 ELSE 0) + (IF pad = "none" THEN 0 ELSE 4)]}
MCBlobs ==
  [f \in {"!", "h", "junk"} |->
     CASE f = "!" -> [size |-> 70, hello |-> Hello(70, 6, 3, "none")]
       [] f = "h" -> [size |-> 60, hello |-> Hello(60, 4, -1, "end")]
       [] f = "junk" -> [size |-> 9, hello |-> {}]]

NfqwsLines ==
  {Q(os, <<>>, ProgramOptions, 2) : os \in {"linux", "bsd", "windows"}}
  \cup {Q(os, <<>>, RequestOptions, 2) : os \in {"linux", "bsd"}}
  \cup {Q("linux", <<>>, o, 1) : o \in {TrackOptions, DupOptions, FakeOptions, FragmentOptions, LimitOptions}}
  \cup {Q("linux", <<>>, o, 2) : o \in {SplitDesyncOptions, ListOptions}}
  \cup {Q("linux", <<>>, ListOptions, 3), Q("linux", <<>>, TlsOptions, 3),
        Q("windows", <<>>, WinOptions, 2), Q("linux", <<Opt("fake_tls", W("!"))>>, TlsOptions, 3)}

\* Daemons with lists, the first of them under a relative name
DaemonOptions == {F("daemon"), Opt("user", W("daemon")), Opt("ipset", W("b"))}
Relative(l) == [l EXCEPT !.relative = {"a"}, !.disk.b = "rootonly"]
DaemonLines ==
  {Relative([T(os, <<Opt("hostlist", W("a"))>>, DaemonOptions, 3) EXCEPT !.root = TRUE]) : os \in {"mac", "linux"}}
  \cup {Relative(Q(os, <<Opt("hostlist", W("a"))>>, DaemonOptions, 2)) : os \in {"linux", "bsd", "windows"}}

MCLines == BindLines \cup TpwsLines \cup NfqwsLines \cup DaemonLines
=============================================================================
