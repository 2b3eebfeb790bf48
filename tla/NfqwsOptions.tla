---------------------------- MODULE NfqwsOptions ---------------------------
(***************************************************************************)
(* The options of nfqws, read by main: one action for each group, the      *)
(* fakes a profile sends and how --dpi-desync-fake-tls-mod changes them,   *)
(* and what main completes when the last option is read.                   *)
(***************************************************************************)
EXTENDS Options

CONSTANT
  Blobs        \* the files of fakes: name -> size and, of a TLS hello, its parts

Cutoffs == {"wssize_cutoff", "desync_start", "desync_cutoff", "dup_start", "dup_cutoff",
            "orig_mod_start", "orig_mod_cutoff"}

\* dp_init
NfqwsFields ==
  [hostspell |-> "host", skip_nosni |-> TRUE, ipfrag_pos_udp |-> 8, ipfrag_pos_tcp |-> 32,
   repeats |-> 1, wscale |-> -1, ttl6 |-> 255, dup_ttl6 |-> 255, orig_ttl6 |-> 255,
   udplen_increment |-> 2, hostlist_auto_fail_threshold |-> 3, hostlist_auto_fail_time |-> 60,
   hostlist_auto_retrans_threshold |-> 3, filter_ipv4 |-> TRUE, filter_ipv6 |-> TRUE,
   dup_ip_id |-> "same"]
  @@ [c \in Cutoffs |-> [mode |-> "n", at |-> 0]]
  @@ [i \in {"ts_increment", "dup_ts_increment"} |-> -600000]
  @@ [i \in {"badseq_increment", "dup_badseq_increment"} |-> -10000]
  @@ [i \in {"badack_increment", "dup_badack_increment"} |-> -66000]

NfqwsParams ==
  [qnum |-> -1, port |-> 0, fwmark |-> "default", ctrack_timeouts |-> <<60, 300, 60, 60>>,
   droproot |-> root /\ ~On({"windows"}), pidfile |-> "", daemon |-> FALSE, ctrack_disable |-> FALSE,
   autottl_present |-> FALSE, debug |-> 0]

\* The value of a setting that may not be there.
Set(f, otherwise) == IF f \in DOMAIN Here.set THEN Here.set[f] ELSE otherwise
Fields(parsed) ==
  \/ parsed = {} /\ Refuse
  \/ \E v \in parsed : Update(With(v), params)

-----------------------------------------------------------------------------
(* Readings of arguments *)

\* parse_ws_scale_factor: a window and, after a colon, its scale.
WindowScale(a, w, s) ==
  {IF Len(a[1].k) > 1 THEN w :> a[1].k[1] @@ s :> a[1].k[2] ELSE w :> Atoi(a) :
     ok \in {TRUE} \cap {/\ Atoi(a) \in 0 .. MaxPort
                         /\ IsNumber(a[1]) /\ Len(a[1].k) > 1 => a[1].k[2] \in 0 .. 255}}

\* parse_cutoff: packets, data packets or a relative sequence number.
Cutoff(a) ==
  {[mode |-> IF a[1].w = "" THEN "n" ELSE a[1].w, at |-> v] :
     v \in {u \in Unsigned(<<Item("", a[1].k)>>) : a[1].k # <<>> /\ a[1].w \in {"", "n", "d", "s"}}}

\* parse_net32_signed
Net32(a) == {v \in {Atoi(a)} : IsNumber(a[1])}

\* parse_autottl: delta, or delta:min, or delta:min-max; "-" switches it off.
\* A delta without a sign is taken to be negative; here delta has its sign.
NoAutoTtl == [delta |-> 0, min |-> 0, max |-> 0]
AutoTtl(a, default) ==
  IF a = <<>> THEN {default}
  ELSE IF Is(a, "-") THEN {NoAutoTtl}
  ELSE {t \in {[delta |-> IF a[1].k = <<>> THEN 1000 ELSE a[1].k[1],
                min |-> IF Len(a[1].k) > 1 THEN a[1].k[2] ELSE default.min,
                max |-> IF Len(a[1].k) > 2 THEN a[1].k[3] ELSE default.max]} :
          /\ t.delta \in -127 .. 127
          /\ Len(a[1].k) > 1 => t.min \in 0 .. 255 /\ t.min <= t.max /\ (t.delta = 0 \/ t.min # 0)
          /\ Len(a[1].k) > 2 => t.max <= 255 /\ (t.delta = 0 \/ t.max # 0)}

\* parse_tcpflags: a number of twelve bits or the names of flags.
TcpFlagNames == {"fin", "syn", "rst", "psh", "ack", "urg", "ece", "cwr", "ae", "r1", "r2", "r3"}
TcpFlags(a) ==
  IF IsNumber(a[1]) THEN {f \in {[number |-> Atoi(a)]} : Atoi(a) \in 0 .. 4095}
  ELSE {f \in {[names |-> Words(a)]} : AllWords(a, TcpFlagNames)}

\* parse_fooling adds to what the profile has.
Foolings == {"md5sig", "ts", "badsum", "badseq", "datanoack", "hopbyhop", "hopbyhop2"}
Fooling(a, f) == {Set(f, {}) \cup (Words(a) \ {"none"}) : ok \in {TRUE} \cap {AllWords(a, Foolings \cup {"none"})}}

\* load_file_or_exit: a file, or bytes in hexadecimal, from an offset in it; the
\* file is read as far as there is room.
Loaded(a, room) ==
  {[file |-> a[1].w, offset |-> o] :
     o \in {v \in {IF a[1].k = <<>> THEN 0 ELSE a[1].k[1]} :
              a[1].w \in DOMAIN Blobs /\ v < Blobs[a[1].w].size /\ v < room}}

\* A change named by word=value.
Named(a, known) ==
  \A i \in DOMAIN a : a[i].w \in DOMAIN known /\
     IF known[a[i].w] = {} THEN TRUE ELSE a[i].k # <<>> /\ a[i].k[1] \in known[a[i].w]
ModValues(a, old) ==
  [w \in (Words(a) \ {"none"}) \cup DOMAIN old |->
     IF w \in Words(a) THEN a[CHOOSE i \in DOMAIN a : a[i].w = w /\ \A j \in DOMAIN a : a[j].w = w => j <= i].k
     ELSE old[w]]
None == [x \in {} |-> 0]
Mod(a, f, known) == {ModValues(a, Set(f, None)) : ok \in {TRUE} \cap {Named(a, known)}}

\* parse_hostfakesplit_mod, parse_fakedsplit_mod (bits 0-1 and 3-4, the last
\* two not both), parse_tcpmod; a host is a number here, that is not zero.
HostfakeMods == [none |-> {}, host |-> 1 .. 999, altorder |-> 0 .. 1]
FakedsplitMods == [none |-> {}, altorder |-> {x + 8 * y : x \in 0 .. 3, y \in 0 .. 2}]
TcpMods == [none |-> {}, seq |-> {}]

-----------------------------------------------------------------------------
(* Options of the program *)

ProgramOption(t) ==
  \/ /\ t.o = "debug"
     /\ CASE t.a = <<>> \/ Is(t.a, "syslog") -> Param({1}, t.o)
          [] t.a # <<>> /\ t.a[1].w = "@" /\ t.a[1].k = <<1>> -> Param({1}, t.o)
          [] OTHER -> Param({v \in 0 .. 1 : t.a = <<Item("", <<v>>)>>}, t.o)
  \/ t.o = "dry_run" /\ dry' = TRUE /\ UNCHANGED <<phase, profiles, count, skip, lists, params, binds>>
  \/ /\ t.o = "version" /\ phase' = "done"
     /\ UNCHANGED <<profiles, count, skip, dry, lists, params, binds>>
  \/ t.o = "comment" /\ Update(Here, params)
  \/ t.o = "qnum" /\ On({"linux"}) /\ Param(Number(t.a, 0 .. MaxPort), t.o)
  \/ t.o = "port" /\ On({"bsd"}) /\ Param(Number(t.a, 1 .. MaxPort), t.o)
  \/ t.o = "daemon" /\ Param({TRUE}, t.o)
  \/ t.o = "pidfile" /\ Param(Words(t.a), t.o)

RunAsOption(t) == ~On({"windows"}) /\ UserOption(t)

WindowOption(t) ==
  \/ t.o = "wsize" /\ Fields(WindowScale(t.a, "wsize", "wscale"))
  \/ t.o = "wssize" /\ Fields(WindowScale(t.a, "wssize", "wsscale"))
  \/ t.o = "wssize_forced_cutoff" /\ Field({Atoi(t.a) = 0}, "wssize_no_forced_cutoff")
  \/ /\ t.o = "synack_split"
     /\ Field(IF t.a = <<>> THEN {"syn"} ELSE {w \in {"syn", "synack", "acksyn"} : Is(t.a, w)}, t.o)

\* conntrack: three timeouts or four
TrackOption(t) ==
  \/ /\ t.o = "ctrack_timeouts"
     /\ LET k == t.a[1].k
        IN  IF t.a[1].w # "" \/ Len(k) < 3 THEN Refuse
            ELSE Param({[i \in 1 .. 4 |-> IF i <= Len(k) THEN k[i] ELSE params.ctrack_timeouts[i]]}, t.o)
  \/ t.o = "ctrack_disable" /\ Param({Switch(t.a)}, t.o)
  \/ t.o = "ipcache_lifetime" /\ Param(Unsigned(t.a), t.o)
  \/ t.o = "ipcache_hostname" /\ Param({Switch(t.a)}, t.o)

\* The changes of a request; two of them exclude each other.
RequestOption(t) ==
  \/ t.o \in {"hostcase", "domcase"} /\ Field({TRUE}, t.o)
  \/ /\ t.o = "hostspell"   \* k is the length of the spelling
     /\ Fields({"hostcase" :> TRUE @@ "hostspell" :> w : w \in {v \in Words(t.a) : t.a[1].k = <<4>>}})
  \/ t.o = "hostnospace" /\ Field({TRUE} \ {Set("methodeol", FALSE)}, t.o)
  \/ t.o = "methodeol" /\ Field({TRUE} \ {Set("hostnospace", FALSE)}, t.o)
  \/ t.o = "ip_id" /\ Field({w \in {"zero", "seq", "seqgroup", "rnd"} : Is(t.a, w)}, t.o)

\* desync_mode_from_string and the stages the modes belong to
ZeroStage   == {"synack", "syndata"}
FirstStage  == {"fake", "fakeknown", "rst", "rstack", "hopbyhop", "destopt", "ipfrag1"}
SecondStage == {"fakeddisorder", "fakedsplit", "multisplit", "multidisorder", "hostfakesplit",
                "ipfrag2", "udplen", "tamper"}

\* --dpi-desync takes up to three modes: one for the handshake, and either one
\* mode or a first and a second one.
Modes(a) ==
  LET hasZero == a[1].w \in ZeroStage
      m == [i \in 1 .. 3 |-> LET j == IF hasZero THEN i + 1 ELSE i
                             IN  IF j \in DOMAIN a THEN a[j].w ELSE "none"]
  IN  {[zero |-> IF hasZero THEN a[1].w ELSE "none", first |-> m[1], second |-> m[2]] :
         ok \in {TRUE} \cap
           {/\ AllWords(a, ZeroStage \cup FirstStage \cup SecondStage)
            /\ m[3] = "none"
            /\ m[2] # "none" => m[1] \in FirstStage /\ m[2] \in SecondStage
            /\ On({"linux", "windows"}) \/ "ipfrag2" \notin {m[1], m[2]}}}

ModeOption(t) ==
  \/ t.o = "dpi_desync" /\ Field(Modes(t.a), "mode")
  \/ t.o = "fwmark" /\ Param(Unsigned(t.a) \ {0}, t.o)

-----------------------------------------------------------------------------
(* Options of the copies that are sent twice, of the original packets and of *)
(* the fakes: the same settings with a name of their own each.               *)

AutoTtlDefault ==
  [autottl |-> [delta |-> -1, min |-> 3, max |-> 20], autottl6 |-> [delta |-> -1, min |-> 3, max |-> 20],
   dup_autottl |-> [delta |-> -1, min |-> 3, max |-> 64], dup_autottl6 |-> [delta |-> -1, min |-> 3, max |-> 64],
   orig_autottl |-> [delta |-> 5, min |-> 3, max |-> 64], orig_autottl6 |-> [delta |-> 5, min |-> 3, max |-> 64]]

AutoTtlOption(t) ==
  \/ AutoTtl(t.a, AutoTtlDefault[t.o]) = {} /\ Refuse
  \/ \E v \in AutoTtl(t.a, AutoTtlDefault[t.o]) :
        Update(With(t.o :> v), [params EXCEPT !.autottl_present = TRUE])

DupOption(t) ==
  \/ t.o = "dup" /\ Field(Unsigned(t.a) \cap 0 .. 1024, "dup_repeats")
  \/ t.o \in {"dup_ttl", "dup_ttl6"} /\ Field({Atoi(t.a) % 256}, t.o)
  \/ t.o \in {"dup_autottl", "dup_autottl6"} /\ AutoTtlOption(t)
  \/ t.o \in {"dup_tcp_flags_set", "dup_tcp_flags_unset"} /\ Field(TcpFlags(t.a), t.o)
  \/ t.o = "dup_replace" /\ Field({Switch(t.a)}, t.o)
  \/ t.o = "dup_fooling" /\ Field(Fooling(t.a, t.o), t.o)
  \/ t.o \in {"dup_ts_increment", "dup_badseq_increment", "dup_badack_increment"} /\ Field(Net32(t.a), t.o)
  \/ t.o \in {"dup_cutoff", "dup_start"} /\ Field(Cutoff(t.a), t.o)
  \/ t.o = "dup_ip_id" /\ Field({w \in {"zero", "same", "seq", "rnd"} : Is(t.a, w)}, t.o)

OrigOption(t) ==
  \/ t.o \in {"orig_ttl", "orig_ttl6"} /\ Field({Atoi(t.a) % 256}, t.o)
  \/ t.o \in {"orig_autottl", "orig_autottl6"} /\ AutoTtlOption(t)
  \/ t.o \in {"orig_tcp_flags_set", "orig_tcp_flags_unset"} /\ Field(TcpFlags(t.a), t.o)
  \/ t.o \in {"orig_mod_cutoff", "orig_mod_start"} /\ Field(Cutoff(t.a), t.o)

FakeOption(t) ==
  \/ t.o \in {"ttl", "ttl6"} /\ Field({Atoi(t.a) % 256}, t.o)
  \/ t.o \in {"autottl", "autottl6"} /\ AutoTtlOption(t)
  \/ t.o \in {"tcp_flags_set", "tcp_flags_unset"} /\ Field(TcpFlags(t.a), t.o)
  \/ t.o = "fooling" /\ Field(Fooling(t.a, t.o), t.o)
  \/ t.o = "repeats" /\ Field(Unsigned(t.a) \cap 1 .. 1024, t.o)
  \/ t.o = "skip_nosni" /\ Field({Switch(t.a)}, t.o)

\* A position, or 0 for none.
PosOrZero(a) == IF a = <<Item("", <<0>>)>> THEN {[marker |-> "abs", pos |-> 0]} ELSE SplitPos(a[1])

FakeMax == 1460      \* FAKE_MAX_TCP; a fake for UDP has room for 1472
PatternMax == 32768  \* fsplit_pattern_size
DesyncSplitOption(t) ==
  \/ /\ t.o \in {"split_pos", "split_http_req", "split_tls"}
     /\ \/ Splits(t) = {} /\ Refuse
        \/ \E s \in Splits(t) : Update([Here EXCEPT !.splits = s], params)
  \/ t.o = "split_seqovl" /\ Field(PosOrZero(t.a), t.o)
  \/ t.o = "seqovl_pattern" /\ Field(Loaded(t.a, FakeMax), t.o)
  \/ t.o = "fsplit_pattern" /\ Field(Loaded(t.a, PatternMax), t.o)
  \/ t.o = "fakedsplit_mod" /\ Field(Mod(t.a, t.o, FakedsplitMods), t.o)
  \/ t.o = "hostfakesplit_midhost" /\ Field(PosOrZero(t.a), t.o)
  \/ t.o = "hostfakesplit_mod" /\ Field(Mod(t.a, t.o, HostfakeMods), t.o)

MaxFakeLen == 9216   \* DPI_DESYNC_MAX_FAKE_LEN
FragmentOption(t) ==
  \/ /\ t.o \in {"ipfrag_pos_tcp", "ipfrag_pos_udp"}
     /\ Field({v \in Unsigned(t.a) \cap 1 .. MaxFakeLen : v % 8 = 0}, t.o)
  \/ t.o \in {"ts_increment", "badseq_increment", "badack_increment"} /\ Field(Net32(t.a), t.o)
  \/ t.o = "any_protocol" /\ Field({Switch(t.a)}, t.o)
  \/ t.o = "fake_tcp_mod" /\ Field(Mod(t.a, t.o, TcpMods), t.o)

-----------------------------------------------------------------------------
(* Fakes *)

\* A fake of a profile: its kind, file and offset; of a TLS hello the changes
\* to make once, of which "set" says --fake-tls-mod was given and "custom" that
\* the hello is not the one built in.
Fake(kind, b, mod, sni) == [kind |-> kind, file |-> b.file, offset |-> b.offset, mod |-> mod, sni |-> sni]

\* load_blob_to_collection: fakes of one kind keep the order of the line.
AddFake(kind, a) ==
  \/ Loaded(a, FakeMax) = {} /\ Refuse
  \/ \E b \in Loaded(a, FakeMax) :
        Update([Here EXCEPT !.fakes = Append(@, Fake(kind, b, {}, 0))], params)

TlsModLast == Here.tls_mod

\* --dpi-desync-fake-tls: a file, or ! for the hello built in; it gets the
\* changes given before it.
AddTlsFake(a) ==
  \/ Loaded(a, FakeMax) = {} /\ Refuse
  \/ \E b \in Loaded(a, FakeMax) :
        Update([Here EXCEPT
                  !.fakes = Append(@, Fake("tls", b, TlsModLast.mod \cup {"custom"}, TlsModLast.sni))],
               params)

\* parse_tlsmod_list: the changes given before are forgotten, "set" and
\* "custom" and the name of sni= are not.
TlsMods == [rnd |-> {}, rndsni |-> {}, sni |-> 1 .. 63, padencap |-> {}, dupsid |-> {}, none |-> {}]
TlsMod(a) ==
  {[mod |-> (TlsModLast.mod \cap {"set", "custom"}) \cup {"set"} \cup (Words(a) \ {"none"}),
    sni |-> IF "sni" \in Words(a) THEN ModValues(a, None)["sni"][1] ELSE TlsModLast.sni] :
     ok \in {TRUE} \cap {Named(a, TlsMods)}}

\* --dpi-desync-fake-tls-mod is for the fakes after it, and takes the place of
\* what the last fake before it had.
LastTlsFake == {i \in DOMAIN Here.fakes : Here.fakes[i].kind = "tls"
                  /\ \A j \in DOMAIN Here.fakes : Here.fakes[j].kind = "tls" => j <= i}
ModTlsFakes(a) ==
  \/ TlsMod(a) = {} /\ Refuse
  \/ \E m \in TlsMod(a) :
        Update([Here EXCEPT
                  !.tls_mod = m,
                  !.fakes = [i \in DOMAIN @ |->
                               IF i \in LastTlsFake THEN Fake("tls", @[i], m.mod, m.sni) ELSE @[i]]],
               params)

FakeKinds == [fake_http |-> "http", fake_unknown |-> "unknown", fake_quic |-> "quic",
              fake_wireguard |-> "wireguard", fake_dht |-> "dht", fake_discord |-> "discord",
              fake_stun |-> "stun", fake_unknown_udp |-> "unknown_udp"]

BlobOption(t) ==
  \/ t.o \in DOMAIN FakeKinds /\ AddFake(FakeKinds[t.o], t.a)
  \/ t.o = "fake_tls" /\ AddTlsFake(t.a)
  \/ t.o = "fake_tls_mod" /\ ModTlsFakes(t.a)
  \/ t.o = "fake_syndata" /\ Field(Loaded(t.a, FakeMax), t.o)
  \/ t.o = "udplen_increment" /\ Field({v \in Net32(t.a) : v \in Int16}, t.o)
  \/ t.o = "udplen_pattern" /\ Field(Loaded(t.a, FakeMax), t.o)
  \/ t.o \in {"desync_cutoff", "desync_start", "wssize_cutoff"} /\ Field(Cutoff(t.a), t.o)

-----------------------------------------------------------------------------
(* Lists, profiles and filters *)

NfqwsHostlistOption(t) ==
  \/ t.o \in {"hostlist", "hostlist_exclude"} /\ NameList(NamedList[t.o], t.a[1].w) /\ params' = params
  \/ /\ t.o \in {"hostlist_domains", "hostlist_exclude_domains"}
     /\ AddItems(InlineList[t.o], t.a) /\ params' = params
  \/ t.o = "hostlist_auto" /\ AutoList(t.a[1].w) /\ params' = params

NfqwsAutoLimit(t) ==
  \/ t.o = "hostlist_auto_fail_threshold" /\ Field(Number(t.a, 1 .. 20), t.o)
  \/ t.o = "hostlist_auto_fail_time" /\ Field(Number(t.a, Nat \ {0}), t.o)
  \/ t.o = "hostlist_auto_retrans_threshold" /\ Field(Number(t.a, 2 .. 10), t.o)
  \/ t.o = "hostlist_auto_debug" /\ Param({w \in Words(t.a) : disk[w] # "closed"}, t.o)

\* A filter of ports for one of TCP and UDP closes the other, unless it has a
\* filter: pf_parse("0") is the filter of no port.
NoPort == [from |-> 0, to |-> 0, neg |-> TRUE]
DenyIfEmpty(filters) == IF filters = {} THEN {NoPort} ELSE filters
PortOption(t) ==
  \/ PortFilters(t.a) = {} /\ Refuse
  \/ \E f \in PortFilters(t.a) :
        LET added == {f[i] : i \in DOMAIN f}
        IN  Update(IF t.o = "filter_tcp"
                   THEN [Here EXCEPT !.tcp = @ \cup added, !.udp = DenyIfEmpty(@)]
                   ELSE [Here EXCEPT !.udp = @ \cup added, !.tcp = DenyIfEmpty(@)], params)

NfqwsProfileOption(t) ==
  \/ t.o = "new" /\ New(NfqwsFields)
  \/ t.o = "skip" /\ Skip
  \/ t.o = "filter_l3" /\ Fields({"filter_ipv4" :> f.ipv4 @@ "filter_ipv6" :> f.ipv6 : f \in L3Filter(t.a)})
  \/ t.o \in {"filter_tcp", "filter_udp"} /\ PortOption(t)
  \/ /\ t.o = "filter_l7"
     /\ Field(L7Filter(t.a, {"http", "tls", "quic", "wireguard", "dht", "discord", "stun", "unknown"}), t.o)

NfqwsNetListOption(t) ==
  \/ t.o \in {"ipset", "ipset_exclude"} /\ NameList(NamedList[t.o], t.a[1].w) /\ params' = params
  \/ t.o \in {"ipset_ip", "ipset_exclude_ip"} /\ AddItems(InlineList[t.o], t.a) /\ params' = params

NfqwsSystemsOf(o) ==
  CASE o \in {"qnum", "bind_fix4", "bind_fix6"} -> {"linux"}
    [] o = "port" -> {"bsd"}
    [] o = "fwmark" -> {"linux", "bsd"}
    [] o \in {"user", "uid"} -> {"linux", "bsd"}
    [] o \in {"wf_l3", "wf_tcp", "wf_udp", "wf_raw", "wf_raw_part", "wf_filter_lan", "wf_save"} -> {"windows"}
    [] OTHER -> {"linux", "bsd", "windows"}
NfqwsUnknownOption(t) == (t.o \in {"help", "unknown"} \/ ~On(NfqwsSystemsOf(t.o))) /\ Refuse

-----------------------------------------------------------------------------
(* Options of Windows: the filter of WinDivert and the network it works in *)

WinOption(t) ==
  /\ On({"windows"})
  /\ \/ t.o = "wf_iface" /\ Param(Unsigned(t.a), t.o)
     \/ t.o = "wf_l3" /\ Param(L3Filter(t.a), t.o)
     \/ t.o \in {"wf_tcp", "wf_udp"} /\ Param(PortFilters(t.a), t.o)
     \/ t.o = "wf_raw" /\ Param(Words(t.a), t.o)
     \/ t.o \in {"wf_raw_part", "ssid_filter", "nlm_filter"}
        /\ Param({(IF t.o \in DOMAIN params THEN params[t.o] ELSE {}) \cup Words(t.a)}, t.o)
     \/ t.o = "wf_filter_lan" /\ Param({Atoi(t.a) # 0}, t.o)
     \/ t.o = "wf_save" /\ Param(Words(t.a), t.o)
     \/ /\ t.o = "nlm_list" /\ phase' \in {"done", "failed"}
        /\ UNCHANGED <<profiles, count, skip, dry, lists, params, binds>>

BindFixOption(t) == On({"linux"}) /\ t.o \in {"bind_fix4", "bind_fix6"} /\ Param({TRUE}, t.o)

NfqwsOption(t) ==
  \/ ProgramOption(t) \/ RunAsOption(t) \/ WindowOption(t) \/ TrackOption(t) \/ RequestOption(t)
  \/ ModeOption(t) \/ DupOption(t) \/ OrigOption(t) \/ FakeOption(t) \/ DesyncSplitOption(t)
  \/ FragmentOption(t) \/ BlobOption(t) \/ NfqwsHostlistOption(t) \/ NfqwsAutoLimit(t)
  \/ NfqwsProfileOption(t) \/ NfqwsNetListOption(t) \/ WinOption(t) \/ BindFixOption(t)
  \/ NfqwsUnknownOption(t)

-----------------------------------------------------------------------------
(* The hellos that are sent as fakes: the lengths TLS nests in one another. *)
(* size counts the bytes of the file, rec the record, hs the handshake,     *)
(* exts all extensions, sni that of the name, list and name what is in it;  *)
(* name is -1 without one.  pad is where the padding extension lies.        *)

NestedLengths(h) ==
  /\ h.rec = h.size - 5 /\ h.hs = h.size - 9
  /\ h.name >= 0 => h.sni = h.list + 2 /\ h.list = h.name + 3
  /\ h.exts = h.others + (IF h.name >= 0 THEN h.sni + 4 ELSE 0)
                + (IF h.pad = "none" THEN 0 ELSE h.padding + 4)

\* A file is no hello or one whose lengths fit; the hello built in is one.
Hellos == [size : Nat, rec : Int, hs : Int, exts : Int, others : Int, sni : Int, list : Int, name : Int,
           pad : {"none", "inside", "end"}, padding : Int]
ASSUME BlobsAssumption ==
  /\ "!" \in DOMAIN Blobs /\ Blobs["!"].size > 0
  /\ \A f \in DOMAIN Blobs : \A h \in Blobs[f].hello :
        h \in Hellos /\ NestedLengths(h) /\ h.size = Blobs[f].size

\* (mutant) The list of names keeps the length it had.
RenamedInside(h, n) ==
  LET d == n - h.name
  IN  [h EXCEPT !.size = @ + d, !.rec = @ + d, !.hs = @ + d, !.exts = @ + d, !.sni = @ + d, !.name = n]

\* The part of onetime_tls_mod_blob that writes another name: every length
\* around the name grows with it.
Renamed(h, n) ==
  LET d == n - h.name
  IN  [h EXCEPT !.size = @ + d, !.rec = @ + d, !.hs = @ + d, !.exts = @ + d,
                !.sni = @ + d, !.list = @ + d, !.name = n]

\* and the part that adds an empty padding extension at the end.
Padded(h) ==
  [h EXCEPT !.size = @ + 4, !.rec = @ + 4, !.hs = @ + 4, !.exts = @ + 4, !.pad = "end", !.padding = 0]

\* onetime_tls_mod_blob: no result when the hello lacks what a change needs or
\* room has run out.
Remade(h, mod, n, room) ==
  LET named == IF "sni" \in mod THEN Renamed(h, n) ELSE h
      padded == IF "padencap" \in mod /\ named.pad = "none" THEN Padded(named) ELSE named
  IN  {r \in {padded} :
         /\ mod \cap {"sni", "rndsni"} # {} => h.name >= 0
         /\ named.size <= room /\ padded.size <= room
         /\ "rndsni" \in mod => named.name # 0
         /\ "padencap" \in mod => named.pad # "inside"}

Plain(f) == f.mod \ {"set", "custom"} = {}

\* onetime_tls_mod: the changes of each fake hello; a profile of the user whose
\* hello is built in and not changed gets the changes of old.
Changes(p, f) ==
  IF p.n # 0 /\ f.mod \cap {"set", "custom"} = {} THEN f.mod \cup {"rnd", "rndsni", "dupsid"} ELSE f.mod
SniRoom == 4 + 128   \* what load_blob_to_collection leaves for a name and a padding
OnceChanged(p, f) ==
  LET g == [f EXCEPT !.mod = Changes(p, f)]
      b == Blobs[f.file]
  IN  IF f.kind # "tls" \/ Plain(g) THEN {Put(g, "hello", b.hello)}
      ELSE IF b.hello = {} THEN {}
      ELSE {Put(g, "hello", {h}) :
              h \in {r \in UNION {Remade(x, g.mod, g.sni, x.size + SniRoom) : x \in b.hello} :
                       f.offset < r.size}}

\* dp_fake_defaults: a kind of fake that was not given gets the one built in.
Kinds == {"tls"} \cup {FakeKinds[o] : o \in DOMAIN FakeKinds}
BuiltIn(p) ==
  LET absent == {k \in Kinds : \A i \in DOMAIN p.fakes : p.fakes[i].kind # k}
      made   == IF "tls" \in absent THEN <<Fake("tls", [file |-> "!", offset |-> 0], p.tls_mod.mod, p.tls_mod.sni)>> ELSE <<>>
  IN  [p EXCEPT !.fakes = @ \o made, !.set = ("built in" :> absent) @@ @]

-----------------------------------------------------------------------------
(* After the last option *)

Value(p, f, otherwise) == IF f \in DOMAIN p.set THEN p.set[f] ELSE otherwise

\* IPv6 takes the settings of IPv4 it was not given, a profile without a
\* position splits at 2.
SixLikeFour(p) ==
  LET ttl(f, six) == IF Value(p, six, 0) = 255 THEN six :> Value(p, f, 0) ELSE None
      auto(f, six) == IF Value(p, six, NoAutoTtl) = NoAutoTtl THEN six :> Value(p, f, NoAutoTtl) ELSE None
  IN  [p EXCEPT !.set = ttl("ttl", "ttl6") @@ ttl("dup_ttl", "dup_ttl6") @@ ttl("orig_ttl", "orig_ttl6")
                        @@ auto("autottl", "autottl6") @@ auto("orig_autottl", "orig_autottl6")
                        @@ auto("dup_autottl", "dup_autottl6") @@ @,
                !.splits = IF @ = <<>> THEN <<[marker |-> "abs", pos |-> 2]>> ELSE @]

\* split_compat: these two modes overlap by an absolute number of bytes only.
Compatible(p) ==
  LET m == Value(p, "mode", [zero |-> "none", first |-> "none", second |-> "none"])
      o == Value(p, "split_seqovl", [marker |-> "abs", pos |-> 0])
  IN  {m.first, m.second} \cap {"fakedsplit", "multisplit"} # {} => o.marker = "abs" /\ o.pos >= 0

CompletedFakes(p) ==
  LET made == [i \in DOMAIN p.fakes |-> OnceChanged(p, p.fakes[i])]
  IN  {[p EXCEPT !.fakes = [i \in DOMAIN made |-> CHOOSE f \in made[i] : TRUE]] :
         ok \in {TRUE} \cap {\A i \in DOMAIN made : made[i] # {}}}
Completed(p) == IF Compatible(p) THEN CompletedFakes(BuiltIn(SixLikeFour(p))) ELSE {}

\* winws needs a filter, and may only save it and leave; a second winws with the
\* same filter is refused by a mutex, which may be held.
HasFilter == DOMAIN params \cap {"wf_raw", "wf_tcp", "wf_udp", "wf_raw_part"} # {}
WindowsReady ==
  CASE ~HasFilter -> {"failed"}
    [] HasFilter /\ "wf_save" \in DOMAIN params -> {"done", "failed"}
    [] OTHER -> {"start", "failed"}

\* The order of main: the queue or port, the profiles, the files of the lists,
\* the filter, and the dry run, which drops the rights of root.
NfqwsAfterOptions(ps) ==
  IF \/ On({"linux"}) /\ params.qnum < 0
     \/ On({"bsd"}) /\ params.port = 0
     \/ \E i \in DOMAIN ps : Completed(ps[i]) = {}
     \/ ~Readable(Owned(ps), root) \/ ~Loadable(Owned(ps), root)
  THEN {"failed"}
  ELSE LET next == IF On({"windows"}) THEN WindowsReady ELSE {"start"}
       IN  (next \ {"start"}) \cup
           (IF "start" \notin next THEN {}
            ELSE IF ~dry THEN {"start"}
            ELSE IF ~params.droproot THEN {"done"}
            ELSE {"failed"} \cup (IF root /\ Readable(Owned(ps), FALSE) THEN {"done"} ELSE {}))

NfqwsParsed ==
  LET ps == Append(Kept, Fresh(0, NfqwsFields))
  IN  /\ phase' \in NfqwsAfterOptions(ps)
      /\ profiles' = [i \in DOMAIN ps |->
                        IF Completed(ps[i]) = {} THEN ps[i] ELSE CHOOSE p \in Completed(ps[i]) : TRUE]
      /\ count' = IF skip THEN count - 1 ELSE count
      /\ disk' = Owned(ps)
      /\ UNCHANGED <<skip, dry, anon, files, binds, params>>
=============================================================================
