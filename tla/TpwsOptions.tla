---------------------------- MODULE TpwsOptions ----------------------------
(***************************************************************************)
(* parse_params of tpws: one action for each group of options, the checks  *)
(* after the last one, and the dry run.  An option that a system does not  *)
(* have is one getopt does not know there.                                 *)
(***************************************************************************)
EXTENDS Options

CONSTANT
  MaxBinds     \* MAX_BINDS, 32

ASSUME TpwsOptionsAssumption == MaxBinds \in Nat \ {0}

\* dp_init; memset has made every other setting zero.
TpwsFields == [hostspell |-> "host", filter_ipv4 |-> TRUE, filter_ipv6 |-> TRUE,
               hostlist_auto_fail_threshold |-> 3, hostlist_auto_fail_time |-> 60]

TpwsParams ==
  [maxconn |-> 512, max_orphan_time |-> 5, resolver_threads |-> 0, port |-> 0,
   droproot |-> root, proxy |-> "transparent", tamper |-> FALSE, pidfile |-> "", daemon |-> FALSE,
   bind_wait_only |-> FALSE, skip_nodelay |-> FALSE, pf_enable |-> On({"mac"}), debug |-> 0,
   local_timeout |-> IF On({"mac", "linux"}) THEN 10 ELSE 0,
   remote_timeout |-> IF On({"mac", "linux"}) THEN 20 ELSE 0]

\* A setting of the profile that makes tpws look into what it relays.
Tampers(fields) == Update(With(fields), [params EXCEPT !.tamper = TRUE])
Tampering(parsed, f) ==
  \/ parsed = {} /\ Refuse
  \/ \E v \in parsed : Tampers(f :> v)

\* --bind-addr and --bind-iface4/6 begin a bind, the others describe the last one.
NewBind(b) ==
  IF Len(binds) >= MaxBinds THEN Refuse
  ELSE binds' = Append(binds, b) /\ UNCHANGED <<phase, profiles, count, skip, dry, lists, params>>

NoBind == [addr |-> "", iface |-> "", v6 |-> FALSE, ll |-> "unwanted",
           wait_ifup |-> 0, wait_ip |-> 0, wait_ip_ll |-> 0]

DescribeBind(f, parsed) ==
  \/ (binds = <<>> \/ parsed = {}) /\ Refuse
  \/ /\ binds # <<>>
     /\ \E v \in parsed : binds' = [binds EXCEPT ![Len(binds)][f] = v]
     /\ UNCHANGED <<phase, profiles, count, skip, dry, lists, params>>

BindOption(t) ==
  \/ /\ t.o = "bind_addr"   \* the interface after % is a second item here
     /\ NewBind([NoBind EXCEPT !.addr = t.a[1].w, !.iface = IF Len(t.a) = 2 THEN t.a[2].w ELSE ""])
  \/ /\ t.o \in {"bind_iface4", "bind_iface6"}
     /\ NewBind([NoBind EXCEPT !.iface = t.a[1].w, !.v6 = t.o = "bind_iface6"])
  \/ t.o = "bind_linklocal" /\ DescribeBind("ll", Words(t.a) \cap {"no", "prefer", "force", "unwanted"})
  \/ t.o \in {"wait_ifup", "wait_ip", "wait_ip_ll"} /\ DescribeBind(t.o, {Atoi(t.a)})
  \/ t.o = "bind_wait_only" /\ Param({TRUE}, t.o)

ServerRanges == [port |-> 1 .. MaxPort, maxconn |-> 1 .. 10000, maxfiles |-> Nat, max_orphan_time |-> Nat]

ServerOption(t) ==
  \/ t.o \in DOMAIN ServerRanges /\ Param(Number(t.a, ServerRanges[t.o]), t.o)
  \/ t.o = "daemon" /\ Param({TRUE}, t.o)
  \/ UserOption(t)
  \/ t.o = "ipcache_lifetime" /\ Param(Unsigned(t.a), t.o)
  \/ t.o = "ipcache_hostname" /\ Param({Switch(t.a)}, t.o)

TamperOption(t) ==
  \/ t.o \in {"hostcase", "hostdot", "hostnospace", "domcase"} /\ Tampers(t.o :> TRUE)
  \/ /\ t.o = "hostspell"   \* k is the length of the spelling
     /\ IF t.a[1].k # <<4>> THEN Refuse
        ELSE Tampers("hostcase" :> TRUE @@ "hostspell" :> t.a[1].w)
  \/ t.o = "hostpad" /\ Tampers("hostpad" :> Atoi(t.a))

SplitOption(t) ==
  \/ /\ t.o \in {"split_http_req", "split_tls", "split_pos"}
     /\ \/ Splits(t) = {} /\ Refuse
        \/ \E s \in Splits(t) :
              Update([Here EXCEPT !.splits = s], [params EXCEPT !.tamper = TRUE])
  \/ t.o = "split_any_protocol" /\ Field({TRUE}, t.o)

\* check_oob_disorder: urgent data and disorder of the same payloads work
\* together on Linux only.
Protocols == {"any", "http", "tls"}
ByProtocol(set, o) == IF o \in DOMAIN set THEN set[o] ELSE {}
Clash(set) ==
  \E x \in ByProtocol(set, "oob"), y \in ByProtocol(set, "disorder") : x = y \/ "any" \in {x, y}

DisorderOption(t) ==
  \/ /\ t.o \in {"disorder", "oob"}
     /\ LET x   == IF t.a = <<>> THEN "any" ELSE IF t.a[1].w = "any" THEN "" ELSE t.a[1].w
            set == t.o :> ByProtocol(Here.set, t.o) \cup {x}
        IN  IF x \notin Protocols \/ (~On({"linux"}) /\ Clash(set @@ Here.set)) THEN Refuse
            ELSE Update(With(set), params)
  \/ /\ t.o = "oob_data"   \* a character, or a byte in hexadecimal
     /\ Field({v \in {t.a[1]} : v.w = "char" \/ (v.w = "0x" /\ v.k # <<>>)}, t.o)

\* --tlsrec takes a position or a name of --split-tls.
TlsRec(a) == IF SplitPos(a[1]) # {} THEN SplitPos(a[1]) ELSE TlsPos(a)

TextOption(t) ==
  \/ t.o \in {"methodspace", "methodeol", "hosttab", "unixeol"} /\ Tampers(t.o :> TRUE)
  \/ t.o = "tlsrec" /\ Tampering(TlsRec(t.a), "tlsrec")
  \/ t.o = "tlsrec_pos" /\ Tampering({[marker |-> "abs", pos |-> p] : p \in Number(t.a, Int16 \ {0})}, "tlsrec")

\* An option about a list makes tpws look into what it relays, unless the
\* profile is skipped.
LooksInto == params' = IF skip \/ phase' = "failed" THEN params ELSE [params EXCEPT !.tamper = TRUE]

HostlistOption(t) ==
  \/ t.o \in {"hostlist", "hostlist_exclude"} /\ NameList(NamedList[t.o], t.a[1].w) /\ LooksInto
  \/ /\ t.o \in {"hostlist_domains", "hostlist_exclude_domains"}
     /\ AddItems(InlineList[t.o], t.a) /\ LooksInto
  \/ t.o = "hostlist_auto" /\ AutoList(t.a[1].w) /\ LooksInto

\* --hostlist-auto-debug makes the file it will append to.
AutoListLimit(t) ==
  \/ t.o = "hostlist_auto_fail_threshold" /\ Field(Number(t.a, 1 .. 20), t.o)
  \/ t.o = "hostlist_auto_fail_time" /\ Field(Number(t.a, Nat \ {0}), t.o)
  \/ t.o = "hostlist_auto_debug" /\ Param({w \in Words(t.a) : disk[w] # "closed"}, t.o)

\* --debug takes a file after @, syslog, a level 0 to 2, or nothing.
LogOption(t) ==
  \/ t.o = "pidfile" /\ Param(Words(t.a), t.o)
  \/ /\ t.o = "debug"
     /\ CASE t.a = <<>> -> Param({1}, t.o)
          [] t.a # <<>> /\ t.a[1].w = "@" /\ t.a[1].k = <<1>> -> Param({params.debug, 1} \ {0}, t.o)
          [] Is(t.a, "syslog") -> Param({params.debug, 1} \ {0}, t.o)
          [] OTHER -> Param({v \in 0 .. 2 : t.a = <<Item("", <<v>>)>>}, t.o)
  \/ t.o = "debug_level" /\ Param({Atoi(t.a)}, "debug")
  \/ t.o = "dry_run" /\ dry' = TRUE /\ UNCHANGED <<phase, profiles, count, skip, lists, params, binds>>
  \/ /\ t.o = "version" /\ phase' = "done"
     /\ UNCHANGED <<profiles, count, skip, dry, lists, params, binds>>
  \/ t.o = "comment" /\ Update(Here, params)

\* The kernel of Linux doubles what a buffer is given.
SocketOption(t) ==
  \/ /\ t.o \in {"local_rcvbuf", "local_sndbuf", "remote_rcvbuf", "remote_sndbuf"}
     /\ Param({IF On({"linux"}) THEN Atoi(t.a) \div 2 ELSE Atoi(t.a)}, t.o)
  \/ t.o = "socks" /\ Param({"socks"}, "proxy")
  \/ t.o \in {"no_resolve", "skip_nodelay"} /\ Param({TRUE}, t.o)
  \/ t.o = "resolver_threads" /\ Param(Number(t.a, 1 .. 300), t.o)

\* --tamper-start and --tamper-cutoff count bytes, or packets after n.
TamperRange(t) ==
  /\ t.o \in {"tamper_start", "tamper_cutoff"}
  /\ LET n == t.a[1].w = "n"
         v == IF t.a[1].w \in {"n", ""} /\ t.a[1].k # <<>> THEN t.a[1].k[1] ELSE 0
     IN  Update(With(t.o :> [packets |-> n, at |-> v]), Put(params, "tamper_lim", TRUE))

\* --connect-bind-addr: one source address for each version of IP.
ConnectBind(t) ==
  /\ t.o = "connect_bind_addr"
  /\ CASE t.a[1].w = "ip4" -> Param({t.a[1].w}, "connect_bind4")
       [] t.a[1].w = "ip6" -> Param({t.a}, "connect_bind6")
       [] OTHER -> Refuse

ProfileOption(t) ==
  \/ t.o = "new" /\ New(TpwsFields)
  \/ t.o = "skip" /\ Skip
  \/ /\ t.o = "filter_l3"
     /\ \/ L3Filter(t.a) = {} /\ Refuse
        \/ \E f \in L3Filter(t.a) :
              Update(With("filter_ipv4" :> f.ipv4 @@ "filter_ipv6" :> f.ipv6), params)
  \/ /\ t.o = "filter_tcp"
     /\ \/ PortFilters(t.a) = {} /\ Refuse
        \/ \E f \in PortFilters(t.a) :
              Update([Here EXCEPT !.tcp = @ \cup {f[i] : i \in DOMAIN f}], params)
  \/ t.o = "filter_l7" /\ Field(L7Filter(t.a, {"http", "tls", "unknown"}), t.o)

NetListOption(t) ==
  \/ t.o \in {"ipset", "ipset_exclude"} /\ NameList(NamedList[t.o], t.a[1].w) /\ LooksInto
  \/ t.o \in {"ipset_ip", "ipset_exclude_ip"} /\ AddItems(InlineList[t.o], t.a) /\ LooksInto

OneDay == 86400   \* seconds
\* What some systems have: PF on the BSDs, a limit for unanswered data on
\* Linux and the Mac, the size of segments on Linux.
SystemOption(t) ==
  \/ t.o = "enable_pf" /\ On({"bsd"}) /\ Param({TRUE}, "pf_enable")
  \/ /\ t.o \in {"local_timeout", "remote_timeout"} /\ On({"mac", "linux"})
     /\ Param(Number(t.a, 0 .. OneDay), t.o)
  \/ t.o = "mss" /\ On({"linux"}) /\ Field(Number(t.a, {n \in Int16 : n >= 88}), t.o)
  \/ /\ t.o = "fix_seg" /\ On({"linux"})
     /\ Param(IF t.a = <<>> THEN {50} ELSE Number(t.a, 0 .. 1000), t.o)
  \/ t.o = "nosplice" /\ On({"linux"}) /\ Param({TRUE}, t.o)

SystemsOf(o) ==
  CASE o = "enable_pf" -> {"bsd"}
    [] o \in {"local_timeout", "remote_timeout"} -> {"mac", "linux"}
    [] o \in {"mss", "fix_seg", "nosplice"} -> {"linux"}
    [] OTHER -> {"mac", "linux", "bsd"}

\* getopt does not know the option, or it is --help: the usage and exit 1.
UnknownOption(t) == (t.o \in {"help", "unknown"} \/ ~On(SystemsOf(t.o))) /\ Refuse

TpwsOption(t) ==
  \/ BindOption(t) \/ ServerOption(t) \/ TamperOption(t) \/ SplitOption(t) \/ DisorderOption(t)
  \/ TextOption(t) \/ HostlistOption(t) \/ AutoListLimit(t) \/ LogOption(t) \/ SocketOption(t)
  \/ TamperRange(t) \/ ConnectBind(t) \/ ProfileOption(t) \/ NetListOption(t) \/ SystemOption(t)
  \/ UnknownOption(t)

-----------------------------------------------------------------------------
(* After the last option *)

\* A splitting profile needs each part sent at once, and the files of all the
\* lists must be there and be readable.
Complete(ps) ==
  /\ params.bind_wait_only \/ params.port # 0
  /\ ~(params.skip_nodelay /\ \E i \in DOMAIN ps : ps[i].splits # <<>>)
  /\ Readable(Owned(ps), root) /\ Loadable(Owned(ps), root)

\* A dry run drops the rights of root too and tests the files again.
AfterOptions(ps) ==
  CASE ~Complete(ps) -> {"failed"}
    [] Complete(ps) /\ ~dry -> {"start"}
    [] Complete(ps) /\ dry /\ params.droproot ->
         {"failed"} \cup (IF Readable(Owned(ps), FALSE) /\ root THEN {"done"} ELSE {})
    [] OTHER -> {"done"}

TpwsParsed ==
  /\ phase' \in AfterOptions(Kept)
  /\ profiles' = Append(Kept, Fresh(0, TpwsFields))
  /\ count' = IF skip THEN count - 1 ELSE count
  /\ disk' = Owned(Kept)
  /\ binds' = IF binds = <<>> THEN <<NoBind>> ELSE binds
  /\ params' = IF params.resolver_threads # 0 THEN params
               ELSE [params EXCEPT !.resolver_threads = 5 + params.maxconn \div 50]
  /\ UNCHANGED <<skip, dry, anon, files>>
=============================================================================
