--------------------------- MODULE StartupProofs ---------------------------
(***************************************************************************)
(* Proofs about the start of a process and about the thread pool that tpws *)
(* starts with it.  Startup: what each option of a command line changes,   *)
(* that the options are the line in order, that the steps are those of the *)
(* program in order, and from these that a process that serves has the     *)
(* profiles, hellos and sockets of its line and is who it was told to be.  *)
(* Resolver: its types, that every item is accounted for, and that every   *)
(* step of the threads and of the loop is a step of Resolution.            *)
(***************************************************************************)
EXTENDS Resolver, Startup, FiniteSetTheorems, WellFoundedInduction, TLAPS

(* Sequences whose elements have no common type, records of which one field  *)
(* changes, and settings that are given a value.                             *)

IsSeq(s) == s \in Seq({s[i] : i \in DOMAIN s})

LEMMA SeqIsSeq ==
  ASSUME NEW S, NEW s \in Seq(S)
  PROVE  IsSeq(s)
BY DEF IsSeq

LEMMA AppendIsSeq ==
  ASSUME NEW s, NEW x, IsSeq(s)
  PROVE  /\ IsSeq(Append(s, x)) /\ Len(Append(s, x)) = Len(s) + 1 /\ Len(s) \in Nat
         /\ DOMAIN s = 1 .. Len(s) /\ DOMAIN Append(s, x) = 1 .. Len(s) + 1
         /\ \A i \in 1 .. Len(s) : Append(s, x)[i] = s[i]
         /\ Append(s, x)[Len(s) + 1] = x
<1> DEFINE S == {s[i] : i \in DOMAIN s} \cup {x}
<1>1. s \in Seq({s[i] : i \in DOMAIN s}) /\ {s[i] : i \in DOMAIN s} \subseteq S /\ x \in S
  BY DEF IsSeq
<1> HIDE DEF S
<1>2. s \in Seq(S)
  BY <1>1
<1>3. /\ Append(s, x) \in Seq(S) /\ Len(Append(s, x)) = Len(s) + 1 /\ Len(s) \in Nat
      /\ DOMAIN s = 1 .. Len(s) /\ DOMAIN Append(s, x) = 1 .. Len(s) + 1
      /\ \A i \in 1 .. Len(s) : Append(s, x)[i] = s[i]
      /\ Append(s, x)[Len(s) + 1] = x
  BY <1>1, <1>2
<1>4. IsSeq(Append(s, x))
  BY <1>3, SeqIsSeq
<1> QED BY <1>3, <1>4

LEMMA LastIsSeq ==
  ASSUME NEW s, NEW x, IsSeq(s), s # <<>>
  PROVE  LET u == [s EXCEPT ![Len(s)] = x] IN
         /\ IsSeq(u) /\ Len(u) = Len(s) /\ Len(s) \in Nat \ {0}
         /\ DOMAIN u = 1 .. Len(s) /\ DOMAIN s = 1 .. Len(s)
         /\ \A i \in 1 .. Len(s) : u[i] = IF i = Len(s) THEN x ELSE s[i]
<1> DEFINE S == {s[i] : i \in DOMAIN s} \cup {x}
           u == [s EXCEPT ![Len(s)] = x]
<1>1. s \in Seq({s[i] : i \in DOMAIN s}) /\ {s[i] : i \in DOMAIN s} \subseteq S /\ x \in S
  BY DEF IsSeq
<1> HIDE DEF S
<1>2. s \in Seq(S)
  BY <1>1
<1>3. u \in Seq(S) /\ Len(u) = Len(s) /\ Len(s) \in Nat \ {0}
      /\ DOMAIN u = 1 .. Len(s) /\ DOMAIN s = 1 .. Len(s)
      /\ \A i \in 1 .. Len(s) : u[i] = IF i = Len(s) THEN x ELSE s[i]
  BY <1>1, <1>2
<1> HIDE DEF u
<1>4. IsSeq(u)
  BY <1>3, SeqIsSeq
<1> QED BY <1>3, <1>4 DEF u

LEMMA PutFacts ==
  ASSUME NEW q, NEW f, NEW v, NEW g, g # f, g \in DOMAIN q
  PROVE  g \in DOMAIN Put(q, f, v) /\ Put(q, f, v)[g] = q[g]
BY DEF Put

-----------------------------------------------------------------------------
(* What one option does.  Most options change settings of the profile that   *)
(* is described, or settings of the program; lists, binds and the order of   *)
(* profiles have options of their own.                                       *)

ProfileFields == {"n", "set", "auto", "splits", "tcp", "udp", "fakes", "tls_mod", "on"}

\* Whoever drops the rights of root is not on Windows.
RightsKnown(q) == "droproot" \in DOMAIN q /\ (On({"windows"}) => ~q.droproot)

LEMMA PutRights ==
  ASSUME NEW q, NEW f, NEW v, f # "droproot", RightsKnown(q)
  PROVE  RightsKnown(Put(q, f, v))
BY PutFacts DEF RightsKnown

Stops == phase' \in {"failed", "done"} /\ UNCHANGED <<files, disk, binds>>
Keeps == phase' = phase /\ UNCHANGED <<count, skip, anon, files, disk, binds>>
Redescribes(F) ==
  \/ profiles' = profiles
  \/ \E p : /\ profiles' = [profiles EXCEPT ![Len(profiles)] = p]
            /\ DOMAIN p = DOMAIN Here /\ \A f \in DOMAIN Here \ F : p[f] = Here[f]

\* The options that do more than that.
BindNames == {"bind_addr", "bind_iface4", "bind_iface6", "bind_linklocal", "wait_ifup", "wait_ip", "wait_ip_ll"}
SplitNames == {"split_pos", "split_http_req", "split_tls"}
Special == BindNames \cup SplitNames \cup DOMAIN NamedList \cup DOMAIN InlineList
           \cup {"hostlist_auto", "new", "skip", "filter_tcp", "filter_udp", "fake_tls", "fake_tls_mod"}

LEMMA SpecialNames ==
  Special = {"bind_addr", "bind_iface4", "bind_iface6", "bind_linklocal", "wait_ifup", "wait_ip", "wait_ip_ll",
             "split_pos", "split_http_req", "split_tls", "hostlist", "hostlist_exclude", "ipset", "ipset_exclude",
             "hostlist_domains", "hostlist_exclude_domains", "ipset_ip", "ipset_exclude_ip",
             "hostlist_auto", "new", "skip", "filter_tcp", "filter_udp", "fake_tls", "fake_tls_mod"}
<1>1. DOMAIN NamedList = {"hostlist", "hostlist_exclude", "ipset", "ipset_exclude"}
  BY DEF NamedList
<1>2. DOMAIN InlineList = {"hostlist_domains", "hostlist_exclude_domains", "ipset_ip", "ipset_exclude_ip"}
  BY DEF InlineList
<1> QED BY <1>1, <1>2 DEF Special, BindNames, SplitNames

Ordinary(t) == t.o \notin Special /\ Keeps /\ Redescribes({"set"})
Effect(t) == RightsKnown(params') /\ (Stops \/ Ordinary(t))

LEMMA RefuseStops ==
  ASSUME Refuse
  PROVE  Stops /\ params' = params
BY DEF Refuse, Stops, lists

LEMMA HereFacts ==
  ASSUME NEW x
  PROVE  /\ DOMAIN [Here EXCEPT !.set = x] = DOMAIN Here
         /\ \A f \in DOMAIN Here \ {"set"} : [Here EXCEPT !.set = x][f] = Here[f]
OBVIOUS

\* The profile as it is, or with settings of its own.
LEMMA UpdateKeeps ==
  ASSUME NEW p, NEW q, Update(p, q), NEW F, DOMAIN p = DOMAIN Here, \A f \in DOMAIN Here \ F : p[f] = Here[f]
  PROVE  Keeps /\ Redescribes(F) /\ params' = q
BY DEF Update, Keeps, Redescribes, lists

LEMMA FieldEffect ==
  ASSUME NEW parsed, NEW f, Field(parsed, f), phase = "options"
  PROVE  /\ params' = params
         /\ Stops \/ (Keeps /\ Redescribes({"set"}))
<1>1. CASE parsed = {} /\ Refuse
  BY <1>1, RefuseStops
<1>2. ASSUME NEW v \in parsed, Update(With(f :> v), params) PROVE Keeps /\ Redescribes({"set"}) /\ params' = params
  <2>1. PICK x : With(f :> v) = [Here EXCEPT !.set = x]
    BY DEF With
  <2> QED BY <1>2, <2>1, HereFacts, UpdateKeeps
<1> QED BY <1>1, <1>2 DEF Field

LEMMA ParamEffect ==
  ASSUME NEW parsed, NEW f, Param(parsed, f), phase = "options", f # "droproot", RightsKnown(params)
  PROVE  /\ RightsKnown(params')
         /\ Stops \/ (Keeps /\ Redescribes({"set"}))
<1>1. CASE parsed = {} /\ Refuse
  BY <1>1, RefuseStops
<1>2. ASSUME NEW v \in parsed, Update(Here, Put(params, f, v)) PROVE Keeps /\ Redescribes({"set"}) /\ params' = Put(params, f, v)
  BY <1>2, UpdateKeeps
<1> QED BY <1>1, <1>2, PutFacts DEF Param, RightsKnown

\* An option of one of the two forms does what most options do.
LEMMA OneField ==
  ASSUME NEW t, NEW parsed, NEW f, Field(parsed, f), t.o \notin Special, phase = "options", RightsKnown(params)
  PROVE  Effect(t)
BY FieldEffect DEF Effect, Ordinary

LEMMA OneParam ==
  ASSUME NEW t, NEW parsed, NEW f, Param(parsed, f), f # "droproot", t.o \notin Special,
         phase = "options", RightsKnown(params)
  PROVE  Effect(t)
BY ParamEffect DEF Effect, Ordinary

LEMMA OneRefusal ==
  ASSUME NEW t, Refuse, RightsKnown(params)
  PROVE  Effect(t)
BY RefuseStops DEF Effect

\* Settings of the profile and of the program at once.
LEMMA OneUpdate ==
  ASSUME NEW t, NEW x, NEW q, Update([Here EXCEPT !.set = x], q), t.o \notin Special, RightsKnown(q)
  PROVE  Effect(t)
<1>1. Keeps /\ Redescribes({"set"}) /\ params' = q
  BY HereFacts, UpdateKeeps
<1> QED BY <1>1 DEF Effect, Ordinary

LEMMA WithIs ==
  ASSUME NEW fields
  PROVE  \E x : With(fields) = [Here EXCEPT !.set = x]
BY DEF With

LEMMA OneTamper ==
  ASSUME NEW t, NEW fields, Tampers(fields), t.o \notin Special, RightsKnown(params)
  PROVE  Effect(t)
<1>1. PICK x : With(fields) = [Here EXCEPT !.set = x]
  BY WithIs
<1>2. RightsKnown([params EXCEPT !.tamper = TRUE])
  BY DEF RightsKnown
<1> QED BY <1>1, <1>2, OneUpdate DEF Tampers

LEMMA OneComment ==
  ASSUME NEW t, NEW q, Update(Here, q), t.o \notin Special, RightsKnown(q)
  PROVE  Effect(t)
<1>1. Keeps /\ Redescribes({"set"}) /\ params' = q
  BY UpdateKeeps
<1> QED BY <1>1 DEF Effect, Ordinary

LEMMA OneExit ==
  ASSUME NEW t, phase' \in {"failed", "done"}, UNCHANGED <<lists, params, binds>>, RightsKnown(params)
  PROVE  Effect(t)
BY DEF Effect, Stops, lists

\* --user and --uid are not for Windows.
LEMMA UserEffect ==
  ASSUME NEW t, UserOption(t), ~On({"windows"}), phase = "options", RightsKnown(params)
  PROVE  Effect(t)
<1> DEFINE q == [params EXCEPT !.droproot = TRUE]
<1>1. "droproot" \in DOMAIN q
  BY DEF RightsKnown
<1> HIDE DEF q
<1>2. ASSUME NEW v PROVE RightsKnown(Put(q, "user", v))
  BY <1>1, PutFacts DEF RightsKnown
<1>3. t.o \in {"user", "uid"}
  BY DEF UserOption
<1>4. t.o \notin Special
  BY <1>3, SpecialNames
<1>5. Refuse \/ \E v : Update(Here, Put(q, "user", v))
  BY DEF UserOption, q
<1> QED BY <1>2, <1>4, <1>5, OneRefusal, OneComment

LEMMA TpwsServerEffect ==
  ASSUME NEW t, ServerOption(t), ~On({"windows"}), phase = "options", RightsKnown(params)
  PROVE  Effect(t)
<1>1. CASE t.o \in DOMAIN ServerRanges /\ Param(Number(t.a, ServerRanges[t.o]), t.o)
  <2>1. DOMAIN ServerRanges = {"port", "maxconn", "maxfiles", "max_orphan_time"}
    BY DEF ServerRanges
  <2>2. t.o \notin Special /\ t.o # "droproot"
    BY <1>1, <2>1, SpecialNames
  <2> QED BY <1>1, <2>2, OneParam
<1>2. CASE UserOption(t)
  BY <1>2, UserEffect
<1>3. CASE /\ t.o \in {"daemon", "ipcache_lifetime", "ipcache_hostname"}
           /\ \E parsed : Param(parsed, t.o)
  <2>1. t.o \notin Special /\ t.o # "droproot"
    BY <1>3, SpecialNames
  <2> QED BY <1>3, <2>1, OneParam
<1> QED BY <1>1, <1>2, <1>3 DEF ServerOption

LEMMA TpwsTamperEffect ==
  ASSUME NEW t, TamperOption(t) \/ TextOption(t), phase = "options", RightsKnown(params)
  PROVE  Effect(t)
<1>1. t.o \notin Special
  <2>1. t.o \in {"hostcase", "hostdot", "hostnospace", "domcase", "hostspell", "hostpad",
                 "methodspace", "methodeol", "hosttab", "unixeol", "tlsrec", "tlsrec_pos"}
    BY DEF TamperOption, TextOption
  <2> QED BY <2>1, SpecialNames
<1>2. CASE \E fields : Tampers(fields)
  BY <1>1, <1>2, OneTamper
<1>3. CASE Refuse
  BY <1>3, OneRefusal
<1> QED BY <1>2, <1>3 DEF TamperOption, TextOption, Tampering

LEMMA TpwsDisorderEffect ==
  ASSUME NEW t, DisorderOption(t) \/ AutoListLimit(t), phase = "options", RightsKnown(params)
  PROVE  Effect(t)
<1>1. /\ t.o \in {"disorder", "oob", "oob_data", "hostlist_auto_fail_threshold", "hostlist_auto_fail_time",
                  "hostlist_auto_debug"}
      /\ Refuse \/ (\E fields : Update(With(fields), params)) \/ (\E parsed : Field(parsed, t.o))
           \/ (\E parsed : Param(parsed, t.o))
  BY DEF DisorderOption, AutoListLimit
<1>2. t.o \notin Special /\ t.o # "droproot"
  BY <1>1, SpecialNames
<1>3. ASSUME NEW fields, Update(With(fields), params) PROVE Effect(t)
  <2>1. PICK x : With(fields) = [Here EXCEPT !.set = x]
    BY WithIs
  <2> QED BY <1>2, <1>3, <2>1, OneUpdate
<1> QED BY <1>1, <1>2, <1>3, OneRefusal, OneField, OneParam

LEMMA TpwsLogEffect ==
  ASSUME NEW t, LogOption(t) \/ SocketOption(t), phase = "options", RightsKnown(params)
  PROVE  Effect(t)
<1>1. CASE \E parsed : Param(parsed, t.o) /\ t.o \in {"pidfile", "debug", "no_resolve", "skip_nodelay",
             "resolver_threads", "local_rcvbuf", "local_sndbuf", "remote_rcvbuf", "remote_sndbuf"}
  <2>1. t.o \notin Special /\ t.o # "droproot"
    BY <1>1, SpecialNames
  <2> QED BY <1>1, <2>1, OneParam
<1>2. CASE \E parsed, f : Param(parsed, f) /\ t.o \in {"debug_level", "socks"} /\ f \in {"debug", "proxy"}
  <2>1. t.o \notin Special
    BY <1>2, SpecialNames
  <2> QED BY <1>2, <2>1, OneParam
<1>3. CASE t.o = "dry_run" /\ dry' = TRUE /\ UNCHANGED <<phase, profiles, count, skip, lists, params, binds>>
  <2>1. t.o \notin Special
    BY <1>3, SpecialNames
  <2>2. Keeps /\ profiles' = profiles /\ RightsKnown(params')
    BY <1>3 DEF Keeps, lists
  <2> QED BY <2>1, <2>2 DEF Effect, Ordinary, Redescribes
<1>4. CASE t.o = "version" /\ phase' = "done" /\ UNCHANGED <<profiles, count, skip, dry, lists, params, binds>>
  BY <1>4, OneExit
<1>5. CASE t.o = "comment" /\ Update(Here, params)
  <2>1. t.o \notin Special
    BY <1>5, SpecialNames
  <2> QED BY <1>5, <2>1, OneComment
<1>6. CASE LogOption(t)
  <2>1. CASE t.o = "debug" /\ \E parsed : Param(parsed, t.o)
    BY <1>1, <2>1
  <2> QED BY <1>1, <1>2, <1>3, <1>4, <1>5, <1>6, <2>1 DEF LogOption
<1> QED BY <1>1, <1>2, <1>6 DEF SocketOption

LEMMA TpwsRangeEffect ==
  ASSUME NEW t, TamperRange(t), phase = "options", RightsKnown(params)
  PROVE  Effect(t)
<1>1. t.o \notin Special
  BY SpecialNames DEF TamperRange
<1>2. PICK fields : Update(With(fields), Put(params, "tamper_lim", TRUE))
  BY DEF TamperRange
<1>3. PICK x : With(fields) = [Here EXCEPT !.set = x]
  BY WithIs
<1>4. RightsKnown(Put(params, "tamper_lim", TRUE))
  BY PutRights
<1> QED BY <1>1, <1>2, <1>3, <1>4, OneUpdate

LEMMA TpwsSystemEffect ==
  ASSUME NEW t, SystemOption(t) \/ ConnectBind(t), phase = "options", RightsKnown(params)
  PROVE  Effect(t)
<1>1. /\ t.o \in {"enable_pf", "local_timeout", "remote_timeout", "mss", "fix_seg", "nosplice", "connect_bind_addr"}
      /\ \/ Refuse \/ \E parsed : Field(parsed, t.o)
         \/ \E parsed, f : Param(parsed, f) /\ f \in {t.o, "pf_enable", "connect_bind4", "connect_bind6"}
  <2>1. CASE SystemOption(t)
    BY <2>1 DEF SystemOption
  <2>2. CASE ConnectBind(t)
    <3>1. CASE t.a[1].w = "ip4"
      BY <2>2, <3>1 DEF ConnectBind
    <3>2. CASE t.a[1].w = "ip6"
      BY <2>2, <3>2 DEF ConnectBind
    <3>3. CASE t.a[1].w \notin {"ip4", "ip6"}
      BY <2>2, <3>3 DEF ConnectBind
    <3> QED BY <3>1, <3>2, <3>3
  <2> QED BY <2>1, <2>2
<1>2. t.o \notin Special /\ t.o # "droproot"
  BY <1>1, SpecialNames
<1> QED BY <1>1, <1>2, OneRefusal, OneField, OneParam

LEMMA FilterEffect ==
  ASSUME NEW t, phase = "options", RightsKnown(params),
         \/ /\ t.o = "filter_l3"
            /\ \/ L3Filter(t.a) = {} /\ Refuse
               \/ \E fields : Update(With(fields), params)
         \/ t.o = "filter_l7" /\ \E parsed : Field(parsed, t.o)
  PROVE  Effect(t)
<1>1. t.o \notin Special
  BY SpecialNames
<1>2. ASSUME NEW fields, Update(With(fields), params) PROVE Effect(t)
  <2>1. PICK x : With(fields) = [Here EXCEPT !.set = x]
    BY WithIs
  <2> QED BY <1>1, <1>2, <2>1, OneUpdate
<1> QED BY <1>1, <1>2, OneRefusal, OneField

LEMMA OneFields ==
  ASSUME NEW t, NEW parsed, Fields(parsed), t.o \notin Special, RightsKnown(params)
  PROVE  Effect(t)
<1>1. ASSUME NEW v, Update(With(v), params) PROVE Effect(t)
  <2>1. PICK x : With(v) = [Here EXCEPT !.set = x]
    BY WithIs
  <2> QED BY <1>1, <2>1, OneUpdate
<1> QED BY <1>1, OneRefusal DEF Fields

LEMMA NfqwsProgramEffect ==
  ASSUME NEW t, ProgramOption(t), phase = "options", RightsKnown(params)
  PROVE  Effect(t)
<1>1. CASE t.o \in {"debug", "qnum", "port", "daemon", "pidfile"} /\ \E parsed : Param(parsed, t.o)
  <2>1. t.o \notin Special /\ t.o # "droproot"
    BY <1>1, SpecialNames
  <2> QED BY <1>1, <2>1, OneParam
<1>2. CASE t.o = "dry_run" /\ dry' = TRUE /\ UNCHANGED <<phase, profiles, count, skip, lists, params, binds>>
  <2>1. t.o \notin Special
    BY <1>2, SpecialNames
  <2>2. Keeps /\ profiles' = profiles /\ RightsKnown(params')
    BY <1>2 DEF Keeps, lists
  <2> QED BY <2>1, <2>2 DEF Effect, Ordinary, Redescribes
<1>3. CASE t.o = "version" /\ phase' = "done" /\ UNCHANGED <<profiles, count, skip, dry, lists, params, binds>>
  BY <1>3, OneExit
<1>4. CASE t.o = "comment" /\ Update(Here, params)
  <2>1. t.o \notin Special
    BY <1>4, SpecialNames
  <2> QED BY <1>4, <2>1, OneComment
<1> QED BY <1>1, <1>2, <1>3, <1>4 DEF ProgramOption

LEMMA NfqwsPacketEffect ==
  ASSUME NEW t, phase = "options", RightsKnown(params),
         WindowOption(t) \/ TrackOption(t) \/ RequestOption(t) \/ ModeOption(t) \/ BindFixOption(t)
           \/ FragmentOption(t) \/ NfqwsAutoLimit(t)
  PROVE  Effect(t)
<1>1. /\ t.o \in {"wsize", "wssize", "wssize_forced_cutoff", "synack_split",
                  "ctrack_timeouts", "ctrack_disable", "ipcache_lifetime", "ipcache_hostname",
                  "hostcase", "domcase", "hostspell", "hostnospace", "methodeol", "ip_id",
                  "dpi_desync", "fwmark", "bind_fix4", "bind_fix6",
                  "ipfrag_pos_tcp", "ipfrag_pos_udp", "ts_increment", "badseq_increment", "badack_increment",
                  "any_protocol", "fake_tcp_mod", "hostlist_auto_fail_threshold", "hostlist_auto_fail_time",
                  "hostlist_auto_retrans_threshold", "hostlist_auto_debug"}
      /\ \/ Refuse \/ (\E parsed : Fields(parsed)) \/ (\E parsed : Param(parsed, t.o))
         \/ \E parsed, f : Field(parsed, f)
  <2>1. CASE WindowOption(t)
    BY <2>1 DEF WindowOption
  <2>2. CASE TrackOption(t)
    BY <2>2 DEF TrackOption
  <2>3. CASE RequestOption(t)
    BY <2>3 DEF RequestOption
  <2>4. CASE ModeOption(t)
    BY <2>4 DEF ModeOption
  <2>5. CASE BindFixOption(t)
    BY <2>5 DEF BindFixOption
  <2>6. CASE FragmentOption(t)
    BY <2>6 DEF FragmentOption
  <2>7. CASE NfqwsAutoLimit(t)
    BY <2>7 DEF NfqwsAutoLimit
  <2> QED BY <2>1, <2>2, <2>3, <2>4, <2>5, <2>6, <2>7
<1>2. t.o \notin Special /\ t.o # "droproot"
  BY <1>1, SpecialNames
<1> QED BY <1>1, <1>2, OneRefusal, OneField, OneParam, OneFields

LEMMA AutoTtlEffect ==
  ASSUME NEW t, AutoTtlOption(t), t.o \notin Special, RightsKnown(params)
  PROVE  Effect(t)
<1>1. ASSUME NEW fields, Update(With(fields), [params EXCEPT !.autottl_present = TRUE]) PROVE Effect(t)
  <2>1. PICK x : With(fields) = [Here EXCEPT !.set = x]
    BY WithIs
  <2>2. RightsKnown([params EXCEPT !.autottl_present = TRUE])
    BY DEF RightsKnown
  <2> QED BY <1>1, <2>1, <2>2, OneUpdate
<1> QED BY <1>1, OneRefusal DEF AutoTtlOption

LEMMA NfqwsCopyEffect ==
  ASSUME NEW t, phase = "options", RightsKnown(params), DupOption(t) \/ OrigOption(t) \/ FakeOption(t)
  PROVE  Effect(t)
<1>1. /\ t.o \in {"dup", "dup_ttl", "dup_ttl6", "dup_autottl", "dup_autottl6", "dup_tcp_flags_set",
                  "dup_tcp_flags_unset", "dup_replace", "dup_fooling", "dup_ts_increment", "dup_badseq_increment",
                  "dup_badack_increment", "dup_cutoff", "dup_start", "dup_ip_id",
                  "orig_ttl", "orig_ttl6", "orig_autottl", "orig_autottl6", "orig_tcp_flags_set",
                  "orig_tcp_flags_unset", "orig_mod_cutoff", "orig_mod_start",
                  "ttl", "ttl6", "autottl", "autottl6", "tcp_flags_set", "tcp_flags_unset", "fooling", "repeats",
                  "skip_nosni"}
      /\ AutoTtlOption(t) \/ \E parsed, f : Field(parsed, f)
  <2>1. CASE DupOption(t)
    BY <2>1 DEF DupOption
  <2>2. CASE OrigOption(t)
    BY <2>2 DEF OrigOption
  <2>3. CASE FakeOption(t)
    BY <2>3 DEF FakeOption
  <2> QED BY <2>1, <2>2, <2>3
<1>2. t.o \notin Special
  BY <1>1, SpecialNames
<1> QED BY <1>1, <1>2, AutoTtlEffect, OneField

LEMMA NfqwsWinEffect ==
  ASSUME NEW t, phase = "options", RightsKnown(params), WinOption(t)
  PROVE  Effect(t)
<1>1. CASE /\ t.o \in {"wf_iface", "wf_l3", "wf_tcp", "wf_udp", "wf_raw", "wf_raw_part", "ssid_filter", "nlm_filter",
                       "wf_filter_lan", "wf_save"}
           /\ \E parsed : Param(parsed, t.o)
  <2>1. t.o \notin Special /\ t.o # "droproot"
    BY <1>1, SpecialNames
  <2> QED BY <1>1, <2>1, OneParam
<1>2. CASE phase' \in {"done", "failed"} /\ UNCHANGED <<profiles, count, skip, dry, lists, params, binds>>
  BY <1>2, OneExit
<1> QED BY <1>1, <1>2 DEF WinOption

-----------------------------------------------------------------------------
(* The options that do more, and all options of a program together.          *)

PortsAdded(t, f) ==
  LET added == {f[i] : i \in DOMAIN f}
  IN  IF system.name = "tpws" THEN [Here EXCEPT !.tcp = @ \cup added]
      ELSE IF t.o = "filter_tcp" THEN [Here EXCEPT !.tcp = @ \cup added, !.udp = DenyIfEmpty(@)]
      ELSE [Here EXCEPT !.udp = @ \cup added, !.tcp = DenyIfEmpty(@)]

Splitting(t) ==
  /\ t.o \in SplitNames /\ Keeps
  /\ \E s \in Splits(t) : profiles' = [profiles EXCEPT ![Len(profiles)] = [Here EXCEPT !.splits = s]]
Filtering(t) ==
  /\ t.o \in {"filter_tcp", "filter_udp"} /\ (system.name = "tpws" => t.o = "filter_tcp") /\ Keeps
  /\ \E f \in PortFilters(t.a) : profiles' = [profiles EXCEPT ![Len(profiles)] = PortsAdded(t, f)]
Listing(t) ==
  \/ t.o \in DOMAIN NamedList /\ NameList(NamedList[t.o], t.a[1].w)
  \/ t.o \in DOMAIN InlineList /\ AddItems(InlineList[t.o], t.a)
  \/ t.o = "hostlist_auto" /\ AutoList(t.a[1].w)
Parting(t) ==
  \/ t.o = "new" /\ New(Fields0(system))
  \/ t.o = "skip" /\ Skip
Binding(t) ==
  /\ t.o \in BindNames /\ BindOption(t)
  /\ UNCHANGED <<profiles, count, skip, anon, files, disk>> /\ phase' \in {phase, "failed"}

\* Fakes are added to the profile, or the last one for TLS is changed.
FakeAdded(f) == [Here EXCEPT !.fakes = Append(@, f)]
FakesModded(m) ==
  [Here EXCEPT !.tls_mod = m,
               !.fakes = [i \in DOMAIN @ |->
                            IF i \in LastTlsFake THEN Fake("tls", @[i], m.mod, m.sni) ELSE @[i]]]
FakeGiven(t, q) ==
  \/ /\ t.o \notin Special
     /\ \E kind \in Kinds \ {"tls"}, b \in Loaded(t.a, FakeMax) : q = FakeAdded(Fake(kind, b, {}, 0))
  \/ /\ t.o = "fake_tls"
     /\ \E b \in Loaded(t.a, FakeMax) : q = FakeAdded(Fake("tls", b, TlsModLast.mod \cup {"custom"}, TlsModLast.sni))
  \/ /\ t.o = "fake_tls_mod"
     /\ \E m \in TlsMod(t.a) : q = FakesModded(m)
Faking(t) ==
  /\ system.name = "nfqws" /\ Keeps
  /\ \E q : FakeGiven(t, q) /\ profiles' = [profiles EXCEPT ![Len(profiles)] = q]

Reading(t) ==
  \/ Effect(t)
  \/ RightsKnown(params') /\ (Splitting(t) \/ Filtering(t) \/ Listing(t) \/ Parting(t) \/ Binding(t) \/ Faking(t))

LEMMA TamperRights ==
  ASSUME RightsKnown(params)
  PROVE  RightsKnown([params EXCEPT !.tamper = TRUE])
BY DEF RightsKnown

LEMMA SplitReading ==
  ASSUME NEW t, NEW q, RightsKnown(q), RightsKnown(params), t.o \in SplitNames,
         \/ Splits(t) = {} /\ Refuse
         \/ \E s \in Splits(t) : Update([Here EXCEPT !.splits = s], q)
  PROVE  Reading(t)
<1>1. CASE Refuse
  BY <1>1, OneRefusal DEF Reading
<1>2. ASSUME NEW s \in Splits(t), Update([Here EXCEPT !.splits = s], q) PROVE Reading(t)
  <2>1. Keeps /\ profiles' = [profiles EXCEPT ![Len(profiles)] = [Here EXCEPT !.splits = s]] /\ params' = q
    BY <1>2 DEF Update, Keeps, lists
  <2> QED BY <2>1 DEF Reading, Splitting
<1> QED BY <1>1, <1>2

LEMMA FakeReading ==
  ASSUME NEW t, BlobOption(t), RightsKnown(params), phase = "options", system.name = "nfqws"
  PROVE  Reading(t)
<1>1. DOMAIN FakeKinds = {"fake_http", "fake_unknown", "fake_quic", "fake_wireguard", "fake_dht", "fake_discord",
                          "fake_stun", "fake_unknown_udp"}
      /\ \A o \in DOMAIN FakeKinds : FakeKinds[o] \in Kinds \ {"tls"}
  BY DEF FakeKinds, Kinds
<1>2. ASSUME NEW q, FakeGiven(t, q), Update(q, params) PROVE Reading(t)
  <2>1. Keeps /\ profiles' = [profiles EXCEPT ![Len(profiles)] = q] /\ params' = params
    BY <1>2 DEF Update, Keeps, lists
  <2> QED BY <1>2, <2>1 DEF Reading, Faking
<1>3. CASE t.o \in DOMAIN FakeKinds /\ AddFake(FakeKinds[t.o], t.a)
  <2>1. CASE Refuse
    BY <2>1, OneRefusal DEF Reading
  <2>2. ASSUME NEW b \in Loaded(t.a, FakeMax), Update(FakeAdded(Fake(FakeKinds[t.o], b, {}, 0)), params) PROVE Reading(t)
    <3>1. t.o \notin Special
      BY <1>1, <1>3, SpecialNames
    <3>2. FakeKinds[t.o] \in Kinds \ {"tls"}
      BY <1>1, <1>3
    <3>3. FakeGiven(t, FakeAdded(Fake(FakeKinds[t.o], b, {}, 0)))
      BY <3>1, <3>2 DEF FakeGiven
    <3> QED BY <1>2, <2>2, <3>3
  <2> QED BY <1>3, <2>1, <2>2 DEF AddFake, FakeAdded
<1>4. CASE t.o = "fake_tls" /\ AddTlsFake(t.a)
  <2>1. CASE Refuse
    BY <2>1, OneRefusal DEF Reading
  <2>2. ASSUME NEW b \in Loaded(t.a, FakeMax),
               Update(FakeAdded(Fake("tls", b, TlsModLast.mod \cup {"custom"}, TlsModLast.sni)), params)
        PROVE  Reading(t)
    <3>1. FakeGiven(t, FakeAdded(Fake("tls", b, TlsModLast.mod \cup {"custom"}, TlsModLast.sni)))
      BY <1>4 DEF FakeGiven
    <3> QED BY <1>2, <2>2, <3>1
  <2> QED BY <1>4, <2>1, <2>2 DEF AddTlsFake, FakeAdded
<1>5. CASE t.o = "fake_tls_mod" /\ ModTlsFakes(t.a)
  <2>1. CASE Refuse
    BY <2>1, OneRefusal DEF Reading
  <2>2. ASSUME NEW m \in TlsMod(t.a), Update(FakesModded(m), params) PROVE Reading(t)
    <3>1. FakeGiven(t, FakesModded(m))
      BY <1>5 DEF FakeGiven
    <3> QED BY <1>2, <2>2, <3>1
  <2> QED BY <1>5, <2>1, <2>2 DEF ModTlsFakes, FakesModded
<1>6. CASE /\ t.o \in {"fake_syndata", "udplen_increment", "udplen_pattern", "desync_cutoff", "desync_start", "wssize_cutoff"}
           /\ \E parsed : Field(parsed, t.o)
  <2>1. t.o \notin Special
    BY <1>6, SpecialNames
  <2> QED BY <1>6, <2>1, OneField DEF Reading
<1>7. \/ t.o \in DOMAIN FakeKinds /\ AddFake(FakeKinds[t.o], t.a)
      \/ t.o = "fake_tls" /\ AddTlsFake(t.a)
      \/ t.o = "fake_tls_mod" /\ ModTlsFakes(t.a)
      \/ /\ t.o \in {"fake_syndata", "udplen_increment", "udplen_pattern", "desync_cutoff", "desync_start", "wssize_cutoff"}
         /\ \E parsed : Field(parsed, t.o)
  BY DEF BlobOption
<1> QED BY <1>3, <1>4, <1>5, <1>6, <1>7

LEMMA TpwsListReading ==
  ASSUME NEW t, HostlistOption(t) \/ NetListOption(t), RightsKnown(params)
  PROVE  Reading(t)
<1>1. Listing(t) /\ LooksInto
  <2>1. DOMAIN NamedList = {"hostlist", "hostlist_exclude", "ipset", "ipset_exclude"}
    BY DEF NamedList
  <2>2. DOMAIN InlineList = {"hostlist_domains", "hostlist_exclude_domains", "ipset_ip", "ipset_exclude_ip"}
    BY DEF InlineList
  <2> QED BY <2>1, <2>2 DEF HostlistOption, NetListOption, Listing
<1>2. RightsKnown(params')
  BY <1>1, TamperRights DEF LooksInto
<1> QED BY <1>1, <1>2 DEF Reading

LEMMA NfqwsListReading ==
  ASSUME NEW t, NfqwsHostlistOption(t) \/ NfqwsNetListOption(t), RightsKnown(params)
  PROVE  Reading(t)
<1>1. Listing(t) /\ params' = params
  <2>1. DOMAIN NamedList = {"hostlist", "hostlist_exclude", "ipset", "ipset_exclude"}
    BY DEF NamedList
  <2>2. DOMAIN InlineList = {"hostlist_domains", "hostlist_exclude_domains", "ipset_ip", "ipset_exclude_ip"}
    BY DEF InlineList
  <2> QED BY <2>1, <2>2 DEF NfqwsHostlistOption, NfqwsNetListOption, Listing
<1> QED BY <1>1 DEF Reading

LEMMA BindReading ==
  ASSUME NEW t, BindOption(t), RightsKnown(params), phase = "options"
  PROVE  Reading(t)
<1>1. CASE t.o = "bind_wait_only" /\ Param({TRUE}, t.o)
  <2>1. t.o \notin Special /\ t.o # "droproot"
    BY <1>1, SpecialNames
  <2> QED BY <1>1, <2>1, OneParam DEF Reading
<1>2. CASE /\ t.o \in BindNames
           /\ (\E b : NewBind(b)) \/ \E f, parsed : DescribeBind(f, parsed)
  <2>1. UNCHANGED <<profiles, count, skip, anon, files, disk, params>> /\ phase' \in {phase, "failed"}
    BY <1>2 DEF NewBind, DescribeBind, Refuse, lists
  <2> QED BY <1>2, <2>1 DEF Reading, Binding
<1> QED BY <1>1, <1>2 DEF BindOption, BindNames

LEMMA TpwsProfileReading ==
  ASSUME NEW t, ProfileOption(t), RightsKnown(params), phase = "options", system.name = "tpws"
  PROVE  Reading(t)
<1>1. CASE t.o = "new" /\ New(TpwsFields)
  <2>1. Fields0(system) = TpwsFields /\ params' = params
    BY <1>1 DEF Fields0, New
  <2> QED BY <1>1, <2>1 DEF Reading, Parting
<1>2. CASE t.o = "skip" /\ Skip
  <2>1. params' = params
    BY <1>2 DEF Skip
  <2> QED BY <1>2, <2>1 DEF Reading, Parting
<1>3. CASE /\ t.o = "filter_tcp"
           /\ \/ PortFilters(t.a) = {} /\ Refuse
              \/ \E f \in PortFilters(t.a) : Update([Here EXCEPT !.tcp = @ \cup {f[i] : i \in DOMAIN f}], params)
  <2>1. CASE Refuse
    BY <2>1, OneRefusal DEF Reading
  <2>2. ASSUME NEW f \in PortFilters(t.a), Update([Here EXCEPT !.tcp = @ \cup {f[i] : i \in DOMAIN f}], params)
        PROVE  Reading(t)
    <3>1. PortsAdded(t, f) = [Here EXCEPT !.tcp = @ \cup {f[i] : i \in DOMAIN f}]
      BY DEF PortsAdded
    <3>2. Keeps /\ profiles' = [profiles EXCEPT ![Len(profiles)] = PortsAdded(t, f)] /\ params' = params
      BY <2>2, <3>1 DEF Update, Keeps, lists
    <3> QED BY <1>3, <3>2 DEF Reading, Filtering
  <2> QED BY <1>3, <2>1, <2>2
<1>4. CASE \/ /\ t.o = "filter_l3"
              /\ \/ L3Filter(t.a) = {} /\ Refuse
                 \/ \E f \in L3Filter(t.a) :
                       Update(With("filter_ipv4" :> f.ipv4 @@ "filter_ipv6" :> f.ipv6), params)
           \/ t.o = "filter_l7" /\ Field(L7Filter(t.a, {"http", "tls", "unknown"}), t.o)
  BY <1>4, FilterEffect DEF Reading
<1> QED BY <1>1, <1>2, <1>3, <1>4 DEF ProfileOption

LEMMA NfqwsProfileReading ==
  ASSUME NEW t, NfqwsProfileOption(t), RightsKnown(params), phase = "options", system.name = "nfqws"
  PROVE  Reading(t)
<1>1. CASE t.o = "new" /\ New(NfqwsFields)
  <2>1. Fields0(system) = NfqwsFields /\ params' = params
    BY <1>1 DEF Fields0, New
  <2> QED BY <1>1, <2>1 DEF Reading, Parting
<1>2. CASE t.o = "skip" /\ Skip
  <2>1. params' = params
    BY <1>2 DEF Skip
  <2> QED BY <1>2, <2>1 DEF Reading, Parting
<1>3. CASE t.o \in {"filter_tcp", "filter_udp"} /\ PortOption(t)
  <2>1. CASE Refuse
    BY <2>1, OneRefusal DEF Reading
  <2>2. ASSUME NEW f \in PortFilters(t.a), NEW added, added = {f[i] : i \in DOMAIN f},
               Update(IF t.o = "filter_tcp"
                      THEN [Here EXCEPT !.tcp = @ \cup added, !.udp = DenyIfEmpty(@)]
                      ELSE [Here EXCEPT !.udp = @ \cup added, !.tcp = DenyIfEmpty(@)], params)
        PROVE  Reading(t)
    <3>1. PortsAdded(t, f) = IF t.o = "filter_tcp"
                      THEN [Here EXCEPT !.tcp = @ \cup added, !.udp = DenyIfEmpty(@)]
                      ELSE [Here EXCEPT !.udp = @ \cup added, !.tcp = DenyIfEmpty(@)]
      BY <2>2 DEF PortsAdded
    <3>2. Keeps /\ profiles' = [profiles EXCEPT ![Len(profiles)] = PortsAdded(t, f)] /\ params' = params
      BY <2>2, <3>1 DEF Update, Keeps, lists
    <3> QED BY <1>3, <3>2 DEF Reading, Filtering
  <2> QED BY <1>3, <2>1, <2>2 DEF PortOption
<1>4. CASE t.o = "filter_l3" /\ Fields({"filter_ipv4" :> f.ipv4 @@ "filter_ipv6" :> f.ipv6 : f \in L3Filter(t.a)})
  <2>1. t.o \notin Special
    BY <1>4, SpecialNames
  <2> QED BY <1>4, <2>1, OneFields DEF Reading
<1>5. CASE t.o = "filter_l7" /\ \E parsed : Field(parsed, t.o)
  BY <1>5, FilterEffect DEF Reading
<1>6. CASE t.o = "filter_l7" /\ NfqwsProfileOption(t)
  <2>1. \E parsed : Field(parsed, t.o)
    BY <1>6 DEF NfqwsProfileOption
  <2> QED BY <1>5, <1>6, <2>1
<1> QED BY <1>1, <1>2, <1>3, <1>4, <1>6 DEF NfqwsProfileOption

\* The options of both programs: settings, or one of the five kinds that do more.
LEMMA TpwsReading ==
  ASSUME NEW t, TpwsOption(t), RightsKnown(params), phase = "options",
         system.name = "tpws", ~On({"windows"})
  PROVE  Reading(t)
<1>1. CASE SplitOption(t)
  <2>1. CASE /\ t.o \in {"split_http_req", "split_tls", "split_pos"}
             /\ \/ Splits(t) = {} /\ Refuse
                \/ \E s \in Splits(t) : Update([Here EXCEPT !.splits = s], [params EXCEPT !.tamper = TRUE])
    BY <2>1, SplitReading, TamperRights DEF SplitNames
  <2>2. CASE t.o = "split_any_protocol" /\ Field({TRUE}, t.o)
    <3>1. t.o \notin Special
      BY <2>2, SpecialNames
    <3> QED BY <2>2, <3>1, OneField DEF Reading
  <2> QED BY <1>1, <2>1, <2>2 DEF SplitOption
<1>2. CASE UnknownOption(t)
  BY <1>2, OneRefusal DEF UnknownOption, Reading
<1>3. CASE BindOption(t)
  BY <1>3, BindReading
<1>4. CASE ServerOption(t)
  BY <1>4, TpwsServerEffect DEF Reading
<1>5. CASE TamperOption(t) \/ TextOption(t)
  BY <1>5, TpwsTamperEffect DEF Reading
<1>6. CASE DisorderOption(t) \/ AutoListLimit(t)
  BY <1>6, TpwsDisorderEffect DEF Reading
<1>7. CASE LogOption(t) \/ SocketOption(t)
  BY <1>7, TpwsLogEffect DEF Reading
<1>8. CASE TamperRange(t)
  BY <1>8, TpwsRangeEffect DEF Reading
<1>9. CASE SystemOption(t) \/ ConnectBind(t)
  BY <1>9, TpwsSystemEffect DEF Reading
<1>10. CASE HostlistOption(t) \/ NetListOption(t)
  BY <1>10, TpwsListReading
<1>11. CASE ProfileOption(t)
  BY <1>11, TpwsProfileReading
<1> QED BY <1>1, <1>2, <1>3, <1>4, <1>5, <1>6, <1>7, <1>8, <1>9, <1>10, <1>11 DEF TpwsOption

LEMMA NfqwsReading ==
  ASSUME NEW t, NfqwsOption(t), RightsKnown(params), phase = "options", system.name = "nfqws"
  PROVE  Reading(t)
<1>1. CASE DesyncSplitOption(t)
  <2>1. CASE /\ t.o \in {"split_pos", "split_http_req", "split_tls"}
             /\ \/ Splits(t) = {} /\ Refuse
                \/ \E s \in Splits(t) : Update([Here EXCEPT !.splits = s], params)
    BY <2>1, SplitReading DEF SplitNames
  <2>2. CASE /\ t.o \in {"split_seqovl", "seqovl_pattern", "fsplit_pattern", "fakedsplit_mod",
                         "hostfakesplit_midhost", "hostfakesplit_mod"}
             /\ \E parsed : Field(parsed, t.o)
    <3>1. t.o \notin Special
      BY <2>2, SpecialNames
    <3> QED BY <2>2, <3>1, OneField DEF Reading
  <2>3. DesyncSplitOption(t) =>
          \/ /\ t.o \in {"split_pos", "split_http_req", "split_tls"}
             /\ \/ Splits(t) = {} /\ Refuse
                \/ \E s \in Splits(t) : Update([Here EXCEPT !.splits = s], params)
          \/ /\ t.o \in {"split_seqovl", "seqovl_pattern", "fsplit_pattern", "fakedsplit_mod",
                         "hostfakesplit_midhost", "hostfakesplit_mod"}
             /\ \E parsed : Field(parsed, t.o)
    BY DEF DesyncSplitOption
  <2> QED BY <1>1, <2>1, <2>2, <2>3
<1>2. CASE NfqwsUnknownOption(t)
  BY <1>2, OneRefusal DEF NfqwsUnknownOption, Reading
<1>3. CASE RunAsOption(t)
  BY <1>3, UserEffect DEF RunAsOption, Reading
<1>4. CASE ProgramOption(t)
  BY <1>4, NfqwsProgramEffect DEF Reading
<1>5. CASE WindowOption(t) \/ TrackOption(t) \/ RequestOption(t) \/ ModeOption(t) \/ BindFixOption(t)
             \/ FragmentOption(t) \/ NfqwsAutoLimit(t)
  BY <1>5, NfqwsPacketEffect DEF Reading
<1>6. CASE DupOption(t) \/ OrigOption(t) \/ FakeOption(t)
  BY <1>6, NfqwsCopyEffect DEF Reading
<1>7. CASE BlobOption(t)
  BY <1>7, FakeReading
<1>8. CASE WinOption(t)
  BY <1>8, NfqwsWinEffect DEF Reading
<1>9. CASE NfqwsHostlistOption(t) \/ NfqwsNetListOption(t)
  BY <1>9, NfqwsListReading
<1>10. CASE NfqwsProfileOption(t)
  BY <1>10, NfqwsProfileReading
<1> QED BY <1>1, <1>2, <1>3, <1>4, <1>5, <1>6, <1>7, <1>8, <1>9, <1>10 DEF NfqwsOption

-----------------------------------------------------------------------------
(* The types of what is read: the line, the registered files and how they    *)
(* can be read, and the binds.                                               *)

Wishes == {"no", "prefer", "force", "unwanted"}
Text == STRING \cup {""}   \* the provers do not know that "" is a string
BindRec == [addr : Text, iface : Text, v6 : BOOLEAN, ll : Wishes,
            wait_ifup : Int, wait_ip : Int, wait_ip_ll : Int]
FileRec == [file : DOMAIN written.disk \cup {""}, kind : {"hosts", "nets"}, items : SUBSET STRING]

FilesRead == files \in Seq(FileRec) /\ disk \in [DOMAIN written.disk -> Readings]

LineRead ==
  /\ written \in Lines /\ argv \in Seq(LineOption(written))
  /\ FilesRead
  /\ binds \in Seq(BindRec)
  /\ RightsKnown(params)
  /\ phase = "start" /\ system.name = "tpws" => binds # <<>>
  /\ phase = "start" => Readable(disk, root)

LEMMA ElementOf ==
  ASSUME NEW S, NEW s \in Seq(S), NEW i \in DOMAIN s
  PROVE  s[i] \in S /\ i \in 1 .. Len(s) /\ Len(s) \in Nat /\ DOMAIN s = 1 .. Len(s)
OBVIOUS

LEMMA AppendOf ==
  ASSUME NEW S, NEW s \in Seq(S), NEW x \in S
  PROVE  Append(s, x) \in Seq(S)
OBVIOUS

LEMMA FirstOf ==
  ASSUME NEW S, NEW s \in Seq(S), s # <<>>
  PROVE  1 \in DOMAIN s /\ Len(s) \in DOMAIN s /\ s[1] \in S /\ s[Len(s)] \in S /\ Len(s) \in Nat \ {0}
         /\ DOMAIN s = 1 .. Len(s)
OBVIOUS

LEMMA Systems ==
  ASSUME written \in Lines
  PROVE  /\ system.name \in {"tpws", "nfqws"}
         /\ system.name = "tpws" => system.os \in {"mac", "linux", "bsd"}
         /\ system.name = "nfqws" => system.os \in {"linux", "bsd", "windows"}
         /\ system.name = "tpws" => ~On({"windows"})
<1>1. <<system.name, system.os>> \in Programs
  BY OptionsAssumption DEF system
<1> QED BY <1>1 DEF Programs, On

\* A step of the program after its options leaves alone what the line has built;
\* only somebody else changes a file.
line == <<written, argv, phase, profiles, count, skip, dry, anon, files, params, binds>>

LEMMA StepsKeepLine ==
  ASSUME (ProcessStep \/ TpwsStep \/ NetChange \/ NfqwsStep)
  PROVE  phase = "start" /\ UNCHANGED line /\ (UNCHANGED disk \/ Spoil)
<1>1. CASE ProcessStep
  <2>1. CASE Spoil
    BY <2>1 DEF Spoil, Step, line
  <2>2. CASE OpenPid \/ DropRights \/ TestLists
    BY <2>2 DEF OpenPid, DropRights, TestLists, Step, Then, Exit, vars, line
  <2>3. CASE Daemonize \/ WritePid \/ HangUp \/ Reload
    BY <2>3 DEF Daemonize, WritePid, HangUp, Reload, Step, Then, Exit, vars, line
  <2> QED BY <1>1, <2>1, <2>2, <2>3 DEF ProcessStep
<1>2. CASE TpwsStep
  <2>1. ASSUME NEW a, NEW b, NEW c, Listed(a, b, c) PROVE UNCHANGED vars
    BY <2>1 DEF Listed, Then, Exit
  <2>2. CASE IfUp
    BY <2>2 DEF IfUp, Step, GiveUp, Sleep, Exit, vars, line
  <2>3. CASE AddressOfLine \/ AddressOfIface \/ AnyAddress
    <3>1. phase = "start" /\ UNCHANGED vars
      BY <2>1, <2>3 DEF AddressOfLine, AddressOfIface, AnyAddress, Step, GiveUp, Sleep, Exit
    <3> QED BY <3>1 DEF vars, line
  <2>4. CASE Redirector \/ Listen
    <3>1. phase = "start" /\ UNCHANGED vars
      BY <2>4 DEF Redirector, Listen, Step, GiveUp, Sleep, Exit, Then
    <3> QED BY <3>1 DEF vars, line
  <2> QED BY <1>2, <2>2, <2>3, <2>4 DEF TpwsStep
<1>3. CASE NetChange
  BY <1>3 DEF NetChange, Step, vars, line
<1>4. CASE NfqwsStep
  BY <1>4 DEF NfqwsStep, OpenQueue, AwaitNetwork, ReceiveError, LostNetwork, Step, Then, Exit, vars, line
<1> QED BY <1>1, <1>2, <1>3, <1>4

LEMMA OptionFacts ==
  ASSUME NEW t \in LineOption(written)
  PROVE  /\ t.o \in STRING /\ t.a \in Seq([w : STRING, k : Seq(Int)])
         /\ t.o \in Naming \cup {"bind_addr", "bind_iface4", "bind_iface6"} => t.a # <<>>
         /\ t.o \in Naming => t.a[1].w \in DOMAIN written.disk
         /\ Words(t.a) \subseteq STRING
         /\ \A i \in DOMAIN t.a : t.a[i].w \in STRING /\ t.a[i].k \in Seq(Int)
<1>1. t \in [o : STRING, a : Seq([w : STRING, k : Seq(Int)])]
  BY DEF LineOption
<1>2. t.o \in STRING /\ t.a \in Seq([w : STRING, k : Seq(Int)])
  BY <1>1
<1>3. ASSUME NEW i \in DOMAIN t.a PROVE t.a[i].w \in STRING /\ t.a[i].k \in Seq(Int)
  <2>1. t.a[i] \in [w : STRING, k : Seq(Int)]
    BY <1>2, ElementOf
  <2> QED BY <2>1
<1> QED BY <1>2, <1>3 DEF LineOption, Words

LEMMA JoiningFiles ==
  ASSUME FilesRead, NEW c, NEW f \in DOMAIN written.disk \cup {""}
  PROVE  FilesWith(c, f) \in Seq(FileRec)
<1> DEFINE r == [file |-> f, kind |-> KindOf(c), items |-> {}]
<1>1. r \in FileRec
  BY DEF FileRec, KindOf
<1>2. files \in Seq(FileRec)
  BY DEF FilesRead
<1>3. FilesWith(c, f) \in {files, Append(files, r)}
  BY DEF FilesWith
<1> HIDE DEF r
<1>4. Append(files, r) \in Seq(FileRec)
  BY <1>1, <1>2, AppendOf
<1> QED BY <1>2, <1>3, <1>4

LEMMA ListingFiles ==
  ASSUME NEW t \in LineOption(written), Listing(t), FilesRead, written' = written
  PROVE  FilesRead' /\ UNCHANGED binds
<1>1. FileRec' = FileRec
  BY DEF FileRec
<1>2. t.o \in Naming => t.a # <<>> /\ t.a[1].w \in DOMAIN written.disk
  BY OptionFacts
<1>3. DOMAIN NamedList = {"hostlist", "hostlist_exclude", "ipset", "ipset_exclude"}
  BY DEF NamedList
<1>4. ASSUME NEW c, NEW f \in DOMAIN written.disk, NameList(c, f) PROVE FilesRead' /\ UNCHANGED binds
  <2>1. files' \in {files, FilesWith(c, f)} /\ disk' = disk /\ UNCHANGED binds
    BY <1>4 DEF NameList, Refuse, lists
  <2>2. FilesWith(c, f) \in Seq(FileRec)
    BY JoiningFiles
  <2> QED BY <1>1, <2>1, <2>2 DEF FilesRead
<1>5. ASSUME NEW c, AddItems(c, t.a) PROVE FilesRead' /\ UNCHANGED binds
  <2> DEFINE whole == IF anon[c] = 0 THEN FilesWith(c, "") ELSE files
  <2>1. whole \in Seq(FileRec)
    BY JoiningFiles DEF FilesRead
  <2>2. Words(t.a) \subseteq STRING
    BY OptionFacts
  <2>3. ASSUME NEW i PROVE [whole EXCEPT ![i].items = @ \cup (Words(t.a) \ {""})] \in Seq(FileRec)
    <3>1. CASE i \in DOMAIN whole
      <4>1. whole[i] \in FileRec
        BY <2>1, <3>1, ElementOf
      <4> DEFINE r == [whole[i] EXCEPT !.items = @ \cup (Words(t.a) \ {""})]
      <4>2. r \in FileRec
        BY <2>2, <4>1 DEF FileRec
      <4>3. [whole EXCEPT ![i].items = @ \cup (Words(t.a) \ {""})] = [whole EXCEPT ![i] = r]
        OBVIOUS
      <4> HIDE DEF whole, r
      <4>4. [whole EXCEPT ![i] = r] \in Seq(FileRec)
        BY <2>1, <3>1, <4>2
      <4> QED BY <4>3, <4>4
    <3>2. CASE i \notin DOMAIN whole
      <4>1. [whole EXCEPT ![i].items = @ \cup (Words(t.a) \ {""})] = whole
        <5> HIDE DEF whole
        <5>1. whole = [j \in DOMAIN whole |-> whole[j]]
          BY <2>1
        <5> QED BY <3>2, <5>1
      <4> QED BY <2>1, <4>1
    <3> QED BY <3>1, <3>2
  <2>4. \/ files' = files
        \/ files' = [whole EXCEPT ![AnonOf(c)].items = @ \cup (Words(t.a) \ {""})]
    BY <1>5 DEF AddItems, lists
  <2>5. files' \in Seq(FileRec)
    <3> HIDE DEF whole
    <3> QED BY <2>3, <2>4 DEF FilesRead
  <2>6. disk' = disk /\ UNCHANGED binds
    BY <1>5 DEF AddItems, lists
  <2> QED BY <1>1, <2>5, <2>6 DEF FilesRead
<1>6. ASSUME NEW f \in DOMAIN written.disk, AutoList(f) PROVE FilesRead' /\ UNCHANGED binds
  <2>1. /\ files' \in {files, FilesWith("hl", f)} /\ UNCHANGED binds
        /\ disk' \in {disk, [disk EXCEPT ![f] = IF @ = "missing" THEN "plain" ELSE @]}
    BY <1>6 DEF AutoList, Refuse, lists
  <2>2. FilesWith("hl", f) \in Seq(FileRec)
    BY JoiningFiles
  <2>3. disk' \in [DOMAIN written.disk -> Readings]
    BY <2>1 DEF FilesRead, Readings
  <2> QED BY <1>1, <2>1, <2>2, <2>3 DEF FilesRead
<1> QED BY <1>2, <1>3, <1>4, <1>5, <1>6 DEF Listing, Naming

LEMMA BindingBinds ==
  ASSUME NEW t \in LineOption(written), Binding(t), binds \in Seq(BindRec)
  PROVE  binds' \in Seq(BindRec)
<1>1. t.o \in STRING /\ t.a \in Seq([w : STRING, k : Seq(Int)]) /\ Words(t.a) \subseteq STRING
      /\ (t.o \in {"bind_addr", "bind_iface4", "bind_iface6"} => t.a # <<>>)
      /\ \A i \in DOMAIN t.a : t.a[i].w \in STRING /\ t.a[i].k \in Seq(Int)
  BY OptionFacts
<1>2. NoBind \in BindRec
  <2>1. "" \in Text /\ FALSE \in BOOLEAN /\ "unwanted" \in Wishes /\ 0 \in Int
    BY DEF Text, Wishes
  <2> QED BY <2>1, Zenon DEF NoBind, BindRec
<1>3. ASSUME NEW b \in BindRec, NewBind(b) PROVE binds' \in Seq(BindRec)
  <2> QED BY <1>3 DEF NewBind, Refuse
<1>4. ASSUME NEW f, NEW parsed, DescribeBind(f, parsed),
             \A b \in BindRec, v \in parsed : [b EXCEPT ![f] = v] \in BindRec
      PROVE  binds' \in Seq(BindRec)
  <2>1. CASE Refuse
    BY <2>1 DEF Refuse
  <2>2. CASE binds # <<>> /\ \E v \in parsed : binds' = [binds EXCEPT ![Len(binds)][f] = v]
    <3>1. PICK v \in parsed : binds' = [binds EXCEPT ![Len(binds)][f] = v]
      BY <2>2
    <3> DEFINE last == binds[Len(binds)]
    <3>2. Len(binds) \in DOMAIN binds /\ last \in BindRec
      <4> QED BY <2>2
    <3>3. [last EXCEPT ![f] = v] \in BindRec
      BY <1>4, <3>2
    <3>4. binds' = [binds EXCEPT ![Len(binds)] = [last EXCEPT ![f] = v]]
      BY <3>1, <3>2
    <3> QED BY <3>2, <3>3, <3>4
  <2> QED BY <1>4, <2>1, <2>2 DEF DescribeBind
<1>5. CASE /\ t.o = "bind_addr"
           /\ NewBind([NoBind EXCEPT !.addr = t.a[1].w, !.iface = IF Len(t.a) = 2 THEN t.a[2].w ELSE ""])
  <2>1. t.a[1].w \in STRING /\ (Len(t.a) = 2 => t.a[2].w \in STRING)
    BY <1>1, <1>5, FirstOf
  <2>2. [NoBind EXCEPT !.addr = t.a[1].w, !.iface = IF Len(t.a) = 2 THEN t.a[2].w ELSE ""] \in BindRec
    BY <1>2, <2>1 DEF BindRec, Text
  <2> QED BY <1>3, <1>5, <2>2
<1>6. CASE /\ t.o \in {"bind_iface4", "bind_iface6"}
           /\ NewBind([NoBind EXCEPT !.iface = t.a[1].w, !.v6 = t.o = "bind_iface6"])
  <2>1. t.a[1].w \in STRING
    BY <1>1, <1>6, FirstOf
  <2>2. [NoBind EXCEPT !.iface = t.a[1].w, !.v6 = t.o = "bind_iface6"] \in BindRec
    BY <1>2, <2>1 DEF BindRec, Text
  <2> QED BY <1>3, <1>6, <2>2
<1>7. CASE t.o = "bind_linklocal" /\ DescribeBind("ll", Words(t.a) \cap {"no", "prefer", "force", "unwanted"})
  <2>1. \A b \in BindRec, v \in Words(t.a) \cap {"no", "prefer", "force", "unwanted"} : [b EXCEPT !["ll"] = v] \in BindRec
    BY DEF BindRec, Wishes
  <2> QED BY <1>4, <1>7, <2>1
<1>8. CASE t.o \in {"wait_ifup", "wait_ip", "wait_ip_ll"} /\ DescribeBind(t.o, {Atoi(t.a)})
  <2>1. Atoi(t.a) \in Int
    <3>1. CASE t.a # <<>> /\ IsNumber(t.a[1])
      <4>1. t.a[1].k \in Seq(Int) /\ t.a[1].k # <<>>
        BY <1>1, <3>1, FirstOf DEF IsNumber
      <4>2. t.a[1].k[1] \in Int
        BY <4>1, FirstOf
      <4> QED BY <3>1, <4>2 DEF Atoi
    <3> QED BY <3>1 DEF Atoi
  <2>2. \A b \in BindRec, v \in {Atoi(t.a)} : [b EXCEPT ![t.o] = v] \in BindRec
    BY <1>8, <2>1 DEF BindRec
  <2> QED BY <1>4, <1>8, <2>2
<1> QED BY <1>5, <1>6, <1>7, <1>8 DEF Binding, BindOption, BindNames

LEMMA ReadingKeeps ==
  ASSUME NEW t \in LineOption(written), Reading(t), LineRead, written' = written, phase = "options",
         argv' = Append(argv, t), phase' # "start"
  PROVE  LineRead'
<1>1. FileRec' = FileRec /\ LineOption(written)' = LineOption(written)
  BY DEF FileRec, LineOption
<1>2. argv' \in Seq(LineOption(written))
  BY AppendOf DEF LineRead
<1>3. RightsKnown(params')
  BY DEF Reading, Effect
<1>4. RightsKnown(params)'
  BY <1>3 DEF RightsKnown, On, system
<1>5. FilesRead' /\ binds' \in Seq(BindRec)
  <2>1. CASE UNCHANGED <<files, disk, binds>>
    BY <1>1, <2>1 DEF LineRead, FilesRead
  <2>2. CASE Stops \/ Keeps
    BY <2>1, <2>2 DEF Stops, Keeps
  <2>3. CASE Listing(t)
    BY <2>3, ListingFiles DEF LineRead
  <2>4. CASE Parting(t)
    BY <2>1, <2>4 DEF Parting, New, Skip, lists
  <2>5. CASE Binding(t)
    <3>1. binds' \in Seq(BindRec)
      BY <2>5, BindingBinds DEF LineRead
    <3>2. UNCHANGED <<files, disk>>
      BY <2>5 DEF Binding
    <3> QED BY <1>1, <3>1, <3>2 DEF LineRead, FilesRead
  <2> QED BY <2>2, <2>3, <2>4, <2>5 DEF Reading, Effect, Ordinary, Splitting, Filtering, Faking
<1> QED BY <1>1, <1>2, <1>4, <1>5 DEF LineRead

LEMMA OwnedDisk ==
  ASSUME NEW ps, FilesRead
  PROVE  Owned(ps) \in [DOMAIN written.disk -> Readings]
<1>1. disk \in [DOMAIN written.disk -> Readings] /\ "plain" \in Readings
  BY DEF FilesRead, Readings
<1> QED BY <1>1 DEF Owned

\* That lists can be read depends on their names, the files and the rights.
LEMMA ReadableLater ==
  ASSUME UNCHANGED <<files, written>>
  PROVE  Readable(disk', root) => Readable(disk, root)'
BY DEF Readable, Shut, root

LEMMA ParsedKeeps ==
  ASSUME LineRead, Parsed
  PROVE  LineRead'
<1>1. FileRec' = FileRec /\ LineOption(written)' = LineOption(written) /\ UNCHANGED <<written, argv, files>>
  <2>1. UNCHANGED <<written, argv, files>>
    BY DEF Parsed, TpwsParsed, NfqwsParsed
  <2> QED BY <2>1 DEF FileRec, LineOption
<1>2. disk' = Owned(Kept) \/ disk' = Owned(Append(Kept, Fresh(0, NfqwsFields)))
  BY DEF Parsed, TpwsParsed, NfqwsParsed
<1>3. FilesRead'
  BY <1>1, <1>2, OwnedDisk DEF LineRead, FilesRead
<1>4. /\ binds' \in Seq(BindRec)
      /\ system.name = "tpws" => binds' # <<>>
  <2>1. NoBind \in BindRec
    <3>1. "" \in Text /\ FALSE \in BOOLEAN /\ "unwanted" \in Wishes /\ 0 \in Int
      BY DEF Text, Wishes
    <3> QED BY <3>1, Zenon DEF NoBind, BindRec
  <2>2. binds \in Seq(BindRec)
    BY DEF LineRead
  <2>3. <<NoBind>> \in Seq(BindRec) /\ <<NoBind>> # <<>>
    BY <2>1
  <2>4. binds' \in {binds, <<NoBind>>} /\ (system.name = "tpws" => binds' # <<>>)
    BY <2>3 DEF Parsed, TpwsParsed, NfqwsParsed
  <2> QED BY <2>2, <2>3, <2>4
<1>5. RightsKnown(params')
  BY DEF Parsed, TpwsParsed, NfqwsParsed, LineRead, RightsKnown
<1>6. RightsKnown(params)'
  BY <1>1, <1>5 DEF RightsKnown, On, system
<1>7. ASSUME phase' = "start" PROVE Readable(disk, root)'
  <2>1. phase' \in AfterOptions(Kept) => Readable(Owned(Kept), root)
    BY <1>7 DEF AfterOptions, Complete
  <2>2. phase' \in NfqwsAfterOptions(Append(Kept, Fresh(0, NfqwsFields)))
          => Readable(Owned(Append(Kept, Fresh(0, NfqwsFields))), root)
    BY <1>7, Zenon DEF NfqwsAfterOptions
  <2>3. Readable(disk', root)
    BY <2>1, <2>2 DEF Parsed, TpwsParsed, NfqwsParsed
  <2> QED BY <1>1, <2>3, ReadableLater
<1> QED BY <1>1, <1>3, <1>4, <1>6, <1>7 DEF LineRead, system

LEMMA SpoilKeeps ==
  ASSUME Spoil, FilesRead
  PROVE  FilesRead' /\ (\A r : Readable(disk, r) => Readable(disk', r))
<1>1. FileRec' = FileRec /\ files' = files
  BY DEF Spoil, FileRec
<1>2. disk' \in [DOMAIN written.disk -> Readings]
  BY DEF Spoil, FilesRead, Readings
<1>3. ASSUME NEW r, Readable(disk, r) PROVE Readable(disk', r)
  <2>1. disk \in [DOMAIN written.disk -> Readings] /\ files \in Seq(FileRec)
    BY DEF FilesRead
  <2>2. \A i \in DOMAIN files : files[i].file # "" => files[i].file \in DOMAIN disk
    <3>1. \A i \in DOMAIN files : files[i] \in FileRec
      BY <2>1, ElementOf
    <3> QED BY <2>1, <3>1 DEF FileRec
  <2>3. \A f \in DOMAIN disk : disk'[f] \in {disk[f], "corrupt"}
    BY <2>1 DEF Spoil
  <2> QED BY <1>3, <2>2, <2>3 DEF Readable, Shut
<1> QED BY <1>1, <1>2, <1>3 DEF FilesRead, Spoil

LEMMA StepsKeepRead ==
  ASSUME LineRead, phase = "start", UNCHANGED line, UNCHANGED disk \/ Spoil
  PROVE  LineRead'
<1>1. FileRec' = FileRec /\ LineOption(written)' = LineOption(written) /\ (RightsKnown(params)' <=> RightsKnown(params))
  BY DEF line, FileRec, LineOption, RightsKnown, On, system
<1>2. FilesRead'
  BY <1>1, SpoilKeeps DEF LineRead, FilesRead, line
<1>3. Readable(disk', root) /\ UNCHANGED <<files, written>>
  BY SpoilKeeps DEF LineRead, line
<1>4. Readable(disk, root)'
  BY <1>3, ReadableLater
<1> QED BY <1>1, <1>2, <1>4 DEF LineRead, line, system

\* What the next option of a line is.
LEMMA NextIsOption ==
  ASSUME LineRead, Read
  PROVE  /\ phase = "options" /\ UNCHANGED <<written, running, searching>> /\ phase' # "start"
         /\ \E t \in LineOption(written) : argv' = Append(argv, t) /\ Reading(t)
<1>1. PICK t \in NextOptions : argv' = Append(argv, t) /\ IF system.name = "tpws" THEN TpwsOption(t) ELSE NfqwsOption(t)
  BY DEF Read
<1>2. phase = "options" /\ UNCHANGED <<written, running, searching>>
  BY DEF Read
<1>3. written \in Lines
  BY DEF LineRead
<1>4. t \in LineOption(written)
  <2>1. written.given \in Seq(LineOption(written)) /\ written.options \subseteq LineOption(written)
    BY <1>3, OptionsAssumption
  <2>2. Len(argv) \in Nat
    BY DEF LineRead
  <2>3. CASE Len(argv) < Len(written.given)
    <3>1. Len(argv) + 1 \in DOMAIN written.given
      BY <2>1, <2>2, <2>3
    <3> QED BY <1>1, <2>1, <2>3, <3>1, ElementOf DEF NextOptions
  <2> QED BY <1>1, <2>1, <2>3 DEF NextOptions
<1>5. Reading(t)
  <2>1. RightsKnown(params)
    BY DEF LineRead
  <2> QED BY <1>1, <1>2, <1>3, <2>1, Systems, TpwsReading, NfqwsReading
<1>6. phase' # "start"
  <2>1. Listing(t) => phase' \in {phase, "failed"}
    BY DEF Listing, NameList, AddItems, AutoList, Refuse
  <2>2. Parting(t) => phase' = phase
    BY DEF Parting, New, Skip
  <2>3. Stops => phase' # "start"
    BY DEF Stops
  <2>4. Keeps => phase' = phase
    BY DEF Keeps
  <2> QED BY <1>2, <1>5, <2>1, <2>2, <2>3, <2>4 DEF Reading, Effect, Ordinary, Splitting, Filtering, Binding, Faking
<1> QED BY <1>1, <1>2, <1>4, <1>5, <1>6

-----------------------------------------------------------------------------
(* The order of the steps.  What is left of them is an end of the sequence   *)
(* the program began with, so a step that is no longer in it was taken.      *)

StepNames == {"prepare", "redirector", "listen", "pidfile", "rights", "lists", "daemon", "pid", "serve",
              "network", "queue"}

LeftFrom(n) ==
  /\ Len(todo) = Len(Steps(system)) + 1 - n
  /\ \A i \in 1 .. Len(todo) : todo[i] = Steps(system)[n + i - 1]
TodoOK == todo \in Seq(StepNames) /\ \E n \in 1 .. Len(Steps(system)) + 1 : LeftFrom(n)

Past(s) == todo # <<>> /\ \A i \in DOMAIN todo : todo[i] # s

LEMMA StepsAre ==
  ASSUME written \in Lines
  PROVE  LET S == Steps(system) IN
         /\ S \in Seq(StepNames)
         /\ \/ /\ system.name = "tpws" /\ Len(S) = 9 /\ ~On({"windows"})
               /\ S[1] = "prepare" /\ S[2] = "redirector" /\ S[3] = "listen" /\ S[4] = "pidfile" /\ S[5] = "rights"
               /\ S[6] = "lists" /\ S[7] = "daemon" /\ S[8] = "pid" /\ S[9] = "serve"
            \/ /\ system.name = "nfqws" /\ On({"linux"}) /\ Len(S) = 7 /\ ~On({"windows"})
               /\ S[1] = "pidfile" /\ S[2] = "rights" /\ S[3] = "lists" /\ S[4] = "queue" /\ S[5] = "daemon"
               /\ S[6] = "pid" /\ S[7] = "serve"
            \/ /\ system.name = "nfqws" /\ ~On({"linux"}) /\ Len(S) = 7 /\ ~On({"windows"})
               /\ S[1] = "pidfile" /\ S[2] = "queue" /\ S[3] = "rights" /\ S[4] = "lists" /\ S[5] = "daemon"
               /\ S[6] = "pid" /\ S[7] = "serve"
            \/ /\ system.name = "nfqws" /\ On({"windows"}) /\ Len(S) = 5
               /\ S[1] = "daemon" /\ S[2] = "pid" /\ S[3] = "network" /\ S[4] = "queue" /\ S[5] = "serve"
<1>1. CASE system.name = "tpws"
  BY <1>1, Systems DEF Steps, TpwsSteps, StepNames
<1>2. CASE system.name = "nfqws" /\ system.os = "linux"
  <2>1. Steps(system) = NfqwsSteps.linux
    BY <1>2 DEF Steps
  <2> QED BY <1>2, <2>1 DEF NfqwsSteps, StepNames, On
<1>3. CASE system.name = "nfqws" /\ system.os = "bsd"
  <2>1. Steps(system) = NfqwsSteps.bsd
    BY <1>3 DEF Steps
  <2> QED BY <1>3, <2>1 DEF NfqwsSteps, StepNames, On
<1>4. CASE system.name = "nfqws" /\ system.os = "windows"
  <2>1. Steps(system) = NfqwsSteps.windows
    BY <1>4 DEF Steps
  <2> QED BY <1>4, <2>1 DEF NfqwsSteps, StepNames, On
<1> QED BY <1>1, <1>2, <1>3, <1>4, Systems

LEMMA StepsDiffer ==
  ASSUME written \in Lines
  PROVE  \A i, j \in 1 .. Len(Steps(system)) : Steps(system)[i] = Steps(system)[j] => i = j
<1> DEFINE S == Steps(system)
<1>0. SUFFICES ASSUME NEW i \in 1 .. Len(S), NEW j \in 1 .. Len(S), S[i] = S[j] PROVE i = j
  OBVIOUS
<1> HIDE DEF S
<1>1. CASE /\ Len(S) = 9
           /\ S[1] = "prepare" /\ S[2] = "redirector" /\ S[3] = "listen" /\ S[4] = "pidfile" /\ S[5] = "rights"
           /\ S[6] = "lists" /\ S[7] = "daemon" /\ S[8] = "pid" /\ S[9] = "serve"
  BY <1>0, <1>1
<1>2. CASE /\ Len(S) = 7
           /\ S[1] = "pidfile" /\ S[2] = "rights" /\ S[3] = "lists" /\ S[4] = "queue" /\ S[5] = "daemon"
           /\ S[6] = "pid" /\ S[7] = "serve"
  BY <1>0, <1>2
<1>3. CASE /\ Len(S) = 7
           /\ S[1] = "pidfile" /\ S[2] = "queue" /\ S[3] = "rights" /\ S[4] = "lists" /\ S[5] = "daemon"
           /\ S[6] = "pid" /\ S[7] = "serve"
  BY <1>0, <1>3
<1>4. CASE /\ Len(S) = 5
           /\ S[1] = "daemon" /\ S[2] = "pid" /\ S[3] = "network" /\ S[4] = "queue" /\ S[5] = "serve"
  BY <1>0, <1>4
<1> QED BY <1>1, <1>2, <1>3, <1>4, StepsAre DEF S

LEMMA PastAt ==
  ASSUME todo \in Seq(StepNames), Steps(system) \in Seq(StepNames),
         NEW n \in 1 .. Len(Steps(system)) + 1, LeftFrom(n)
  PROVE  /\ todo = <<>> <=> n = Len(Steps(system)) + 1
         /\ todo # <<>> => Head(todo) = Steps(system)[n]
         /\ \A s : Past(s) <=> n <= Len(Steps(system)) /\ \A j \in n .. Len(Steps(system)) : Steps(system)[j] # s
<1> DEFINE S == Steps(system)
<1>1. Len(S) \in Nat /\ Len(todo) = Len(S) + 1 - n /\ DOMAIN todo = 1 .. Len(todo) /\ Len(todo) \in Nat
  BY DEF LeftFrom
<1>2. todo = <<>> <=> n = Len(S) + 1
  BY <1>1
<1>3. \A i \in 1 .. Len(todo) : todo[i] = S[n + i - 1]
  BY DEF LeftFrom
<1>4. todo # <<>> => Head(todo) = S[n]
  BY <1>1, <1>3
<1>5. ASSUME NEW s PROVE Past(s) <=> n <= Len(S) /\ \A j \in n .. Len(S) : S[j] # s
  <2>1. ASSUME Past(s) PROVE n <= Len(S) /\ \A j \in n .. Len(S) : S[j] # s
    <3>1. n <= Len(S)
      BY <1>1, <1>2, <2>1 DEF Past
    <3>2. ASSUME NEW j \in n .. Len(S) PROVE S[j] # s
      <4>1. j + 1 - n \in 1 .. Len(todo) /\ todo[j + 1 - n] = S[j]
        <5> HIDE DEF S
        <5>1. j + 1 - n \in 1 .. Len(todo) /\ n + (j + 1 - n) - 1 = j
          BY <1>1
        <5> QED BY <1>3, <5>1
      <4> QED BY <1>1, <2>1, <4>1 DEF Past
    <3> QED BY <3>1, <3>2
  <2>2. ASSUME n <= Len(S), \A j \in n .. Len(S) : S[j] # s PROVE Past(s)
    <3>1. \A i \in 1 .. Len(todo) : n + i - 1 \in n .. Len(S)
      BY <1>1
    <3> QED BY <1>1, <1>2, <1>3, <2>2, <3>1 DEF Past
  <2> QED BY <2>1, <2>2
<1> QED BY <1>2, <1>4, <1>5

\* The order of each program and system, as far as it matters.
LEMMA Order ==
  ASSUME written \in Lines, TodoOK, todo # <<>>
  PROVE  /\ Head(todo) = "rights" => ~Past("lists")
         /\ Head(todo) = "pidfile" => ~Past("pid")
         /\ Head(todo) = "daemon" => ~Past("pid")
         /\ Head(todo) = "serve" => \A s \in StepNames \ {"serve"} : Past(s)
         /\ Past("daemon") /\ system.name = "tpws" => Past("listen")
         /\ Past("daemon") /\ system.name = "nfqws" /\ ~On({"windows"}) => Past("queue")
         /\ system.name = "tpws" => Head(todo) \notin {"network", "queue"}
         /\ system.name = "nfqws" => Head(todo) \notin {"prepare", "redirector", "listen"}
         /\ Head(todo) = "prepare" => ~Past("redirector") /\ ~Past("listen") /\ ~Past("prepare")
         /\ Head(todo) = "redirector" => Past("prepare") /\ ~Past("listen")
         /\ Head(todo) = "listen" => Past("prepare") /\ ~Past("listen")
         /\ system.name = "tpws" /\ Head(todo) \in {"pidfile", "rights", "lists", "daemon", "pid", "serve"} => Past("listen")
<1>1. PICK n \in 1 .. Len(Steps(system)) + 1 : LeftFrom(n)
  BY DEF TodoOK
<1> DEFINE S == Steps(system)
<1>2. S \in Seq(StepNames)
  BY StepsAre
<1>3. /\ n <= Len(S) /\ Head(todo) = S[n] /\ n \in Nat \ {0}
      /\ \A s : Past(s) <=> \A j \in n .. Len(S) : S[j] # s
  BY <1>1, <1>2, PastAt DEF TodoOK
<1> HIDE DEF S
<1>4. CASE /\ system.name = "tpws" /\ Len(S) = 9 /\ ~On({"windows"})
           /\ S[1] = "prepare" /\ S[2] = "redirector" /\ S[3] = "listen" /\ S[4] = "pidfile" /\ S[5] = "rights"
           /\ S[6] = "lists" /\ S[7] = "daemon" /\ S[8] = "pid" /\ S[9] = "serve"
  BY <1>3, <1>4 DEF StepNames
<1>5. CASE /\ system.name = "nfqws" /\ On({"linux"}) /\ Len(S) = 7 /\ ~On({"windows"})
           /\ S[1] = "pidfile" /\ S[2] = "rights" /\ S[3] = "lists" /\ S[4] = "queue" /\ S[5] = "daemon"
           /\ S[6] = "pid" /\ S[7] = "serve"
  BY <1>3, <1>5 DEF StepNames
<1>6. CASE /\ system.name = "nfqws" /\ ~On({"linux"}) /\ Len(S) = 7 /\ ~On({"windows"})
           /\ S[1] = "pidfile" /\ S[2] = "queue" /\ S[3] = "rights" /\ S[4] = "lists" /\ S[5] = "daemon"
           /\ S[6] = "pid" /\ S[7] = "serve"
  BY <1>3, <1>6 DEF StepNames
<1>7. CASE /\ system.name = "nfqws" /\ On({"windows"}) /\ Len(S) = 5
           /\ S[1] = "daemon" /\ S[2] = "pid" /\ S[3] = "network" /\ S[4] = "queue" /\ S[5] = "serve"
  BY <1>3, <1>7 DEF StepNames
<1> QED BY <1>4, <1>5, <1>6, <1>7, StepsAre DEF S

\* What a step done leaves behind.
LEMMA OneStepLess ==
  ASSUME TodoOK, written \in Lines, todo # <<>>, todo' = Tail(todo), written' = written
  PROVE  /\ TodoOK'
         /\ \A s : Past(s)' => Past(s) \/ s = Head(todo)
         /\ todo' # <<>> => \A s : Past(s) \/ s = Head(todo) => Past(s)'
<1> DEFINE S == Steps(system)
<1>1. PICK n \in 1 .. Len(S) + 1 : LeftFrom(n)
  BY DEF TodoOK
<1>2. S' = S
  BY DEF Steps, system, TpwsSteps, NfqwsSteps
<1>3. todo \in Seq(StepNames) /\ S \in Seq(StepNames)
  BY StepsAre DEF TodoOK
<1> HIDE DEF S
<1>4. Len(S) \in Nat /\ Len(todo) = Len(S) + 1 - n /\ \A i \in 1 .. Len(todo) : todo[i] = S[n + i - 1]
  BY <1>1, <1>3 DEF LeftFrom, S
<1>5. /\ todo' \in Seq(StepNames) /\ Len(todo') = Len(todo) - 1 /\ Len(todo) \in Nat \ {0} /\ Head(todo) = todo[1]
      /\ DOMAIN todo = 1 .. Len(todo) /\ DOMAIN todo' = 1 .. Len(todo')
      /\ \A i \in 1 .. Len(todo') : todo'[i] = todo[i + 1]
  BY <1>3
<1>6. n + 1 \in 1 .. Len(S) + 1 /\ Len(todo') = Len(S) + 1 - (n + 1)
  BY <1>4, <1>5
<1>7. ASSUME NEW i \in 1 .. Len(todo') PROVE todo'[i] = S[(n + 1) + i - 1]
  <2>1. i + 1 \in 1 .. Len(todo) /\ n + (i + 1) - 1 = (n + 1) + i - 1
    BY <1>5
  <2> QED BY <1>4, <1>5, <2>1
<1>8. TodoOK'
  <2>1. Steps(system)' = S
    BY <1>2 DEF S
  <2>2. LeftFrom(n + 1)'
    BY <1>6, <1>7, <2>1 DEF LeftFrom
  <2> QED BY <1>5, <1>6, <2>1, <2>2 DEF TodoOK
<1>9. ASSUME NEW s, Past(s)' PROVE Past(s) \/ s = Head(todo)
  <2>1. \A i \in 1 .. Len(todo') : todo'[i] # s
    BY <1>5, <1>9 DEF Past
  <2>2. ASSUME s # Head(todo), NEW i \in 1 .. Len(todo) PROVE todo[i] # s
    <3>1. CASE i = 1
      BY <1>5, <2>2, <3>1
    <3>2. CASE i # 1
      <4>1. i - 1 \in 1 .. Len(todo') /\ (i - 1) + 1 = i
        BY <1>5, <2>2, <3>2
      <4> QED BY <1>5, <2>1, <4>1
    <3> QED BY <3>1, <3>2
  <2> QED BY <1>5, <2>2 DEF Past
<1>10. ASSUME todo' # <<>>, NEW s, Past(s) \/ s = Head(todo), NEW i \in 1 .. Len(todo') PROVE todo'[i] # s
  <2>1. i + 1 \in 1 .. Len(todo) /\ todo'[i] = todo[i + 1]
    BY <1>5, <1>10
  <2>2. CASE Past(s)
    BY <1>5, <2>1, <2>2 DEF Past
  <2>3. CASE s = Head(todo)
    <3>1. todo[1] = S[n] /\ todo[i + 1] = S[n + i] /\ n \in 1 .. Len(S) /\ n + i \in 1 .. Len(S) /\ n + i # n
      BY <1>4, <1>5, <1>10, <2>1
    <3>2. S[n + i] # S[n]
      BY <3>1, StepsDiffer DEF S
    <3> QED BY <1>5, <2>1, <2>3, <3>1, <3>2
  <2> QED BY <1>10, <2>2, <2>3
<1>11. todo' # <<>> => \A s : Past(s) \/ s = Head(todo) => Past(s)'
  BY <1>5, <1>10 DEF Past
<1> QED BY <1>8, <1>9, <1>11

-----------------------------------------------------------------------------
(* What holds between the steps of a program that starts.                    *)

Opened == IF system.name = "tpws" THEN Past("listen") ELSE Past("queue")

NotStarted ==
  /\ todo = Steps(system) /\ process = "first" /\ status = -1 /\ pidfile = "none" /\ sockets = <<>>
  /\ ifup = "wait" /\ sec = 0 /\ list = <<>> /\ asRoot = root

RunsOK ==
  /\ process \in {"first", "second"} /\ pidfile \in {"none", "empty", "first", "second"}
  /\ Past("rights") /\ params.droproot => ~asRoot
  /\ Past("lists") /\ params.droproot => Readable(disk, asRoot)
  /\ ~params.droproot => asRoot = root
  /\ process = "second" => params.daemon
  /\ Past("pid") /\ params.pidfile # "" => pidfile = process
  /\ pidfile \in {"first", "second"} => pidfile = process
  /\ todo # <<>> /\ ~Past("pid") => pidfile \in {"none", "empty"}
  /\ status = 0 /\ todo # <<>> => Past("daemon")
  /\ IsSeq(sockets) /\ (Opened => sockets # <<>>)

Begun == written \in Lines /\ FilesRead /\ TodoOK /\ RightsKnown(params) /\ RunsOK

LEMMA ReadableSame ==
  ASSUME UNCHANGED <<files, disk, asRoot>>
  PROVE  Readable(disk, asRoot)' <=> Readable(disk, asRoot)
BY DEF Readable, Shut

LEMMA NothingLeft ==
  ASSUME written \in Lines, written' = written, todo' = <<>>
  PROVE  TodoOK'
<1>1. Steps(system)' = Steps(system) /\ Steps(system) \in Seq(StepNames)
  BY StepsAre DEF Steps, system, TpwsSteps, NfqwsSteps
<1>2. Len(<<>>) = 0 /\ <<>> \in Seq(StepNames) /\ Len(Steps(system)) \in Nat
  BY <1>1
<1>3. LeftFrom(Len(Steps(system)) + 1)'
  BY <1>1, <1>2 DEF LeftFrom
<1> QED BY <1>1, <1>2, <1>3 DEF TodoOK

LEMMA ExitKeeps ==
  ASSUME Begun, NEW code, Exit(code)
  PROVE  TodoOK' /\ RunsOK'
<1>1. todo' = <<>> /\ sockets' = <<>> /\ UNCHANGED <<process, asRoot, pidfile>> /\ UNCHANGED vars
  BY DEF Exit
<1>3. TodoOK'
  BY <1>1, NothingLeft DEF vars, Begun
<1>4. \A s : ~Past(s)'
  BY <1>1 DEF Past
<1>5. IsSeq(sockets)'
  BY <1>1 DEF IsSeq
<1> QED BY <1>1, <1>3, <1>4, <1>5 DEF Begun, RunsOK, Opened, vars, root

\* The program stays at its step; it keeps what it has, or opens another socket.
LEMMA WaitKeeps ==
  ASSUME Begun, UNCHANGED <<vars, todo, process, status, asRoot, pidfile>>,
         IsSeq(sockets'), sockets' = sockets \/ sockets' # <<>>
  PROVE  TodoOK' /\ RunsOK'
<1>1. TodoOK' <=> TodoOK
  BY DEF TodoOK, LeftFrom, vars, Steps, system, TpwsSteps, NfqwsSteps
<1>2. \A s : Past(s)' <=> Past(s)
  BY DEF Past
<1>3. Readable(disk, asRoot)' <=> Readable(disk, asRoot)
  BY ReadableSame DEF vars
<1>4. IsSeq(sockets)'
  BY DEF IsSeq
<1> QED BY <1>1, <1>2, <1>3, <1>4 DEF Begun, RunsOK, Opened, vars, system, root

\* A step is done, and what it had to do for the invariant is done.
LEMMA ThenKeeps ==
  ASSUME Begun, todo # <<>>, Then,
         process' \in {"first", "second"}, process' = process \/ (Head(todo) = "daemon" /\ params.daemon),
         asRoot' = asRoot \/ (Head(todo) = "rights" /\ params.droproot),
         Head(todo) = "rights" /\ params.droproot => ~asRoot',
         Head(todo) = "lists" /\ params.droproot => Readable(disk, asRoot),
         status' = status \/ Head(todo) = "daemon",
         \/ pidfile' = pidfile /\ (Head(todo) = "pid" => params.pidfile = "")
         \/ pidfile' = "empty" /\ Head(todo) = "pidfile"
         \/ pidfile' = process /\ Head(todo) = "pid",
         IsSeq(sockets'), sockets' = sockets \/ sockets' # <<>>, Head(todo) \in {"listen", "queue"} => sockets' # <<>>
  PROVE  TodoOK' /\ RunsOK'
<1> DEFINE h == Head(todo)
<1> USE DEF Begun
<1>1. TodoOK' /\ UNCHANGED vars /\ written' = written /\ params' = params
      /\ \A s : Past(s)' => Past(s) \/ s = h
  BY OneStepLess DEF Then, vars
<1>2. todo' # <<>> => \A s : Past(s) \/ s = h => Past(s)'
  BY OneStepLess DEF Then, vars
<1>3. /\ h = "rights" => ~Past("lists")
      /\ h \in {"pidfile", "daemon"} => ~Past("pid")
  BY Order
<1> HIDE DEF h
<1>4. Past("rights")' /\ params.droproot => ~asRoot'
  BY <1>1 DEF RunsOK, h
<1>5. Past("lists")' /\ params.droproot => Readable(disk, asRoot)'
  <2>1. CASE h = "rights"
    BY <1>1, <1>3, <2>1
  <2>2. CASE h # "rights"
    <3>1. Readable(disk, asRoot)' <=> Readable(disk, asRoot)
      BY <1>1, <2>2, ReadableSame DEF vars, h
    <3> QED BY <1>1, <3>1 DEF RunsOK, h
  <2> QED BY <2>1, <2>2
<1>6. Past("pid")' /\ params.pidfile # "" => pidfile' = process'
  BY <1>1, <1>3 DEF RunsOK, h
<1>7. pidfile' \in {"first", "second"} => pidfile' = process'
  <2>1. todo # <<>> /\ ~Past("pid") => pidfile \in {"none", "empty"}
    BY DEF RunsOK
  <2>2. pidfile \in {"first", "second"} => pidfile = process
    BY DEF RunsOK
  <2> QED BY <1>3, <2>1, <2>2 DEF h
<1>8. todo' # <<>> /\ ~Past("pid")' => pidfile' \in {"none", "empty"}
  BY <1>2 DEF RunsOK, h
<1>9. status' = 0 /\ todo' # <<>> => Past("daemon")'
  BY <1>2 DEF RunsOK, h
<1>10. Opened' => sockets' # <<>>
  BY <1>1 DEF RunsOK, Opened, h, system
<1>11. IsSeq(sockets)' /\ pidfile' \in {"none", "empty", "first", "second"}
  BY DEF IsSeq, RunsOK
<1>12. /\ ~params.droproot => asRoot' = root
       /\ process' = "second" => params.daemon
  BY DEF RunsOK
<1>13. root' = root
  BY <1>1 DEF root
<1> QED BY <1>1, <1>4, <1>5, <1>6, <1>7, <1>8, <1>9, <1>10, <1>11, <1>12, <1>13 DEF RunsOK

LEMMA FoundReadable ==
  ASSUME FilesRead, NEW r, Readable(Found, r)
  PROVE  Readable(disk, r)
<1>1. disk \in [DOMAIN written.disk -> Readings] /\ files \in Seq(FileRec)
  BY DEF FilesRead
<1>2. \A i \in DOMAIN files : files[i].file # "" => files[i].file \in DOMAIN disk
  <2>1. \A i \in DOMAIN files : files[i] \in FileRec
    BY <1>1, ElementOf
  <2> QED BY <1>1, <2>1 DEF FileRec
<1>3. \A f \in DOMAIN disk : Found[f] \in {disk[f], "missing"}
  BY DEF Found
<1> QED BY <1>2, <1>3 DEF Readable, Shut

LEMMA ProcessRuns ==
  ASSUME Begun, ProcessStep
  PROVE  TodoOK' /\ RunsOK'
<1> USE DEF Begun
<1>1. process \in {"first", "second"} /\ IsSeq(sockets)
  BY DEF RunsOK
<1>2. todo # <<>> /\ phase = "start"
  BY DEF ProcessStep, OpenPid, DropRights, TestLists, Daemonize, WritePid, HangUp, Reload, Spoil, Step
<1>3. ASSUME \E code : Exit(code) PROVE TodoOK' /\ RunsOK'
  BY <1>3, ExitKeeps
<1>4. CASE OpenPid
  BY <1>1, <1>2, <1>3, <1>4, ThenKeeps DEF OpenPid, Step
<1>5. CASE DropRights
  BY <1>1, <1>2, <1>3, <1>5, ThenKeeps DEF DropRights, Step
<1>6. CASE TestLists
  <2>1. Readable(Found, asRoot) => Readable(disk, asRoot)
    BY FoundReadable
  <2> QED BY <1>1, <1>2, <1>3, <1>6, <2>1, ThenKeeps DEF TestLists, Step
<1>7. CASE Daemonize
  <2>1. CASE todo' = <<>> /\ sockets' = <<>> /\ UNCHANGED <<vars, asRoot, pidfile, hup>> /\ process' = "second"
    <3>1. ~Past("pid")
      BY <1>2, <1>7, Order DEF Daemonize, Step
    <3>2. pidfile \in {"none", "empty"}
      BY <1>2, <3>1 DEF RunsOK
    <3>3. \A s : ~Past(s)'
      BY <2>1 DEF Past
    <3>4. TodoOK' /\ IsSeq(sockets')
      BY <2>1, NothingLeft DEF vars, IsSeq
    <3>5. IsSeq(sockets)'
      BY <3>4 DEF IsSeq
    <3>6. (~params.droproot => asRoot = root)' /\ params'.daemon
      BY <1>7, <2>1 DEF RunsOK, Daemonize, Step, vars, root
    <3> QED BY <2>1, <3>2, <3>3, <3>4, <3>5, <3>6 DEF RunsOK, Opened
  <2> QED BY <1>1, <1>2, <1>3, <1>7, <2>1, ThenKeeps DEF Daemonize, Step
<1>8. CASE WritePid
  BY <1>1, <1>2, <1>3, <1>8, ThenKeeps DEF WritePid, Step
<1>9. CASE HangUp \/ Reload
  BY <1>1, <1>3, <1>9, WaitKeeps DEF HangUp, Reload, Step
<1>10. CASE Spoil
  <2>1. UNCHANGED <<written, phase, files, params, running>>
    BY <1>10 DEF Spoil
  <2>2. Readable(disk, asRoot) => Readable(disk, asRoot)'
    <3>1. files' = files /\ asRoot' = asRoot
      BY <2>1 DEF running
    <3>2. Readable(disk, asRoot) => Readable(disk', asRoot)
      BY <1>10, SpoilKeeps
    <3> QED BY <3>1, <3>2 DEF Readable, Shut
  <2>3. \A s : Past(s)' <=> Past(s)
    BY <2>1 DEF Past, running
  <2>4. TodoOK' <=> TodoOK
    BY <2>1 DEF TodoOK, LeftFrom, running, Steps, system, TpwsSteps, NfqwsSteps
  <2>5. IsSeq(sockets)' <=> IsSeq(sockets)
    BY <2>1 DEF IsSeq, running
  <2> QED BY <2>1, <2>2, <2>3, <2>4, <2>5 DEF RunsOK, Opened, running, system, root
<1> QED BY <1>4, <1>5, <1>6, <1>7, <1>8, <1>9, <1>10 DEF ProcessStep

LEMMA TpwsRuns ==
  ASSUME Begun, TpwsStep
  PROVE  TodoOK' /\ RunsOK'
<1> USE DEF Begun
<1>1. process \in {"first", "second"} /\ IsSeq(sockets)
  BY DEF RunsOK
<1>2. ASSUME \E code : Exit(code) PROVE TodoOK' /\ RunsOK'
  BY <1>2, ExitKeeps
<1>3. CASE UNCHANGED <<vars, running>>
  BY <1>1, <1>3, WaitKeeps DEF running
<1>4. ASSUME NEW a, NEW v, NEW left, Listed(a, v, left), Step("prepare") PROVE TodoOK' /\ RunsOK'
  BY <1>1, <1>2, <1>3, <1>4, ThenKeeps DEF Listed, Same, Step
<1>5. CASE IfUp
  BY <1>2, <1>3, <1>5 DEF IfUp, GiveUp, Sleep
<1>6. CASE AddressOfLine \/ AddressOfIface \/ AnyAddress
  BY <1>2, <1>3, <1>4, <1>6 DEF AddressOfLine, AddressOfIface, AnyAddress, GiveUp, Sleep
<1>7. CASE Redirector
  BY <1>1, <1>2, <1>7, ThenKeeps DEF Redirector, Same, Step
<1>8. CASE Listen
  <2>1. CASE (\E code : Exit(code)) \/ UNCHANGED <<vars, running>>
    BY <1>2, <1>3, <2>1
  <2>2. ASSUME NEW a, sockets' = Append(sockets, a), todo' \in {todo, Tail(todo)},
               UNCHANGED <<vars, process, status, asRoot, pidfile, hup>>
        PROVE  TodoOK' /\ RunsOK'
    <3>1. IsSeq(sockets') /\ sockets' # <<>>
      <4>1. IsSeq(Append(sockets, a)) /\ Len(Append(sockets, a)) = Len(sockets) + 1 /\ Len(sockets) \in Nat
        BY <1>1, AppendIsSeq
      <4> QED BY <2>2, <4>1
    <3>2. CASE todo' = todo
      BY <2>2, <3>1, <3>2, WaitKeeps
    <3>3. CASE todo' = Tail(todo)
      BY <1>1, <1>8, <2>2, <3>1, <3>3, ThenKeeps DEF Listen, Step, Then
    <3> QED BY <2>2, <3>2, <3>3
  <2> QED BY <1>8, <2>1, <2>2 DEF Listen, GiveUp, Sleep
<1> QED BY <1>5, <1>6, <1>7, <1>8 DEF TpwsStep

LEMMA LostNetworkRuns ==
  ASSUME Begun, LostNetwork, Step("serve"), system.name = "nfqws"
  PROVE  TodoOK' /\ RunsOK'
<1> USE DEF Begun
<1>1. /\ On({"windows"}) /\ todo' = <<"network", "queue", "serve">> /\ sockets' = <<>>
      /\ UNCHANGED <<vars, process, status, asRoot, pidfile>> /\ todo # <<>> /\ Head(todo) = "serve"
  BY DEF LostNetwork, Step
<1>2. ~params.droproot
  BY <1>1 DEF RightsKnown
<1>3. Past("pid") /\ Past("daemon")
  <2>1. "pid" \in StepNames \ {"serve"} /\ "daemon" \in StepNames \ {"serve"}
    BY DEF StepNames
  <2> QED BY <1>1, <2>1, Order
<1>4. Past("pid")' /\ Past("daemon")' /\ ~Past("queue")'
  BY <1>1 DEF Past
<1>5. TodoOK'
  <2> DEFINE S == Steps(system)
  <2>1. Steps(system)' = S
    BY <1>1 DEF vars, Steps, system, TpwsSteps, NfqwsSteps
  <2>2. Len(S) = 5 /\ S[3] = "network" /\ S[4] = "queue" /\ S[5] = "serve"
    BY <1>1, StepsAre
  <2> HIDE DEF S
  <2>3. todo' \in Seq(StepNames) /\ Len(todo') = 3
    BY <1>1 DEF StepNames
  <2>4. \A i \in 1 .. 3 : todo'[i] = S[3 + i - 1]
    BY <1>1, <2>2
  <2>5. LeftFrom(3)'
    BY <2>1, <2>2, <2>3, <2>4 DEF LeftFrom
  <2>6. 3 \in 1 .. Len(S) + 1
    BY <2>2
  <2> QED BY <2>1, <2>3, <2>5, <2>6 DEF TodoOK
<1>6. IsSeq(sockets)'
  BY <1>1 DEF IsSeq
<1> QED BY <1>1, <1>2, <1>3, <1>4, <1>5, <1>6 DEF RunsOK, Opened, vars, system, root

LEMMA NfqwsRuns ==
  ASSUME Begun, NfqwsStep
  PROVE  TodoOK' /\ RunsOK'
<1> USE DEF Begun
<1>1. process \in {"first", "second"} /\ IsSeq(sockets)
  BY DEF RunsOK
<1>2. ASSUME \E code : Exit(code) PROVE TodoOK' /\ RunsOK'
  BY <1>2, ExitKeeps
<1>3. CASE OpenQueue
  <2>1. IsSeq(<<"queue">>) /\ <<"queue">> # <<>>
    <3>1. <<"queue">> \in Seq({"queue"})
      OBVIOUS
    <3> QED BY <3>1, SeqIsSeq
  <2> QED BY <1>1, <1>2, <1>3, <2>1, ThenKeeps DEF OpenQueue, Step
<1>4. CASE AwaitNetwork
  BY <1>1, <1>2, <1>4, ThenKeeps DEF AwaitNetwork, Step
<1>5. CASE ReceiveError
  BY <1>2, <1>5, LostNetworkRuns DEF ReceiveError
<1> QED BY <1>3, <1>4, <1>5 DEF NfqwsStep

LEMMA NetChangeRuns ==
  ASSUME Begun, NetChange
  PROVE  TodoOK' /\ RunsOK'
<1>1. UNCHANGED <<vars, running>>
  BY DEF NetChange
<1>2. IsSeq(sockets')
  BY <1>1 DEF running, Begun, RunsOK
<1> QED BY <1>1, <1>2, WaitKeeps DEF running

-----------------------------------------------------------------------------
(* The invariant of both programs, and what they promise when they serve.    *)

Inv ==
  /\ LineRead /\ TodoOK
  /\ phase # "start" => NotStarted
  /\ phase = "start" => RunsOK

LEMMA InitTodo ==
  ASSUME written \in Lines, todo = Steps(system)
  PROVE  TodoOK
<1>1. Steps(system) \in Seq(StepNames)
  BY StepsAre
<1>2. 1 \in 1 .. Len(Steps(system)) + 1 /\ Len(Steps(system)) = Len(Steps(system)) + 1 - 1
  BY <1>1
<1>3. \A i \in 1 .. Len(todo) : todo[i] = Steps(system)[1 + i - 1]
  BY <1>1
<1> QED BY <1>1, <1>2, <1>3 DEF TodoOK, LeftFrom

LEMMA InitInv ==
  ASSUME Init
  PROVE  Inv
<1>1. written \in Lines /\ argv = <<>> /\ files = <<>> /\ disk = written.disk /\ binds = <<>>
      /\ phase = "options" /\ todo = Steps(system) /\ params = Params(system)
  BY DEF Init
<1>2. FilesRead
  <2>1. written.disk \in [DOMAIN written.disk -> Readings]
    BY <1>1, OptionsAssumption
  <2>2. files \in Seq(FileRec)
    BY <1>1
  <2> QED BY <1>1, <2>1, <2>2 DEF FilesRead
<1>3. RightsKnown(params)
  <2>1. CASE system.name = "tpws"
    BY <1>1, <2>1, Systems DEF Params, TpwsParams, RightsKnown
  <2>2. CASE system.name = "nfqws"
    BY <1>1, <2>2 DEF Params, NfqwsParams, RightsKnown
  <2> QED BY <1>1, <2>1, <2>2, Systems
<1>4. argv \in Seq(LineOption(written)) /\ binds \in Seq(BindRec)
  BY <1>1
<1>5. LineRead
  BY <1>1, <1>2, <1>3, <1>4 DEF LineRead
<1>6. NotStarted
  BY <1>1 DEF Init, ProcessInit, TpwsStartInit, NotStarted
<1> QED BY <1>1, <1>5, <1>6, InitTodo DEF Inv

\* A program that is about to start has done nothing yet.
LEMMA NotStartedRuns ==
  ASSUME written \in Lines, RightsKnown(params), NotStarted
  PROVE  RunsOK
<1>1. todo = Steps(system) /\ process = "first" /\ status = -1 /\ pidfile = "none" /\ sockets = <<>>
  BY DEF NotStarted
<1>2. todo \in Seq(StepNames) /\ Steps(system) \in Seq(StepNames) /\ 1 \in 1 .. Len(Steps(system)) + 1 /\ LeftFrom(1)
  <2>1. Steps(system) \in Seq(StepNames)
    BY StepsAre
  <2> QED BY <1>1, <2>1 DEF LeftFrom
<1> DEFINE S == Steps(system)
<1>3. \A s : Past(s) => \A j \in 1 .. Len(S) : S[j] # s
  BY <1>2, PastAt
<1> HIDE DEF S
<1>4. /\ ~Past("pid") /\ ~Opened
      /\ On({"windows"}) \/ ~(Past("rights") \/ Past("lists"))
  <2>1. CASE /\ system.name = "tpws" /\ Len(S) = 9
             /\ S[3] = "listen" /\ S[5] = "rights" /\ S[6] = "lists" /\ S[8] = "pid"
    BY <1>3, <2>1 DEF Opened
  <2>2. CASE /\ system.name = "nfqws" /\ Len(S) = 7
             /\ S[2] = "rights" /\ S[3] = "lists" /\ S[4] = "queue" /\ S[6] = "pid"
    BY <1>3, <2>2 DEF Opened
  <2>3. CASE /\ system.name = "nfqws" /\ Len(S) = 7
             /\ S[2] = "queue" /\ S[3] = "rights" /\ S[4] = "lists" /\ S[6] = "pid"
    BY <1>3, <2>3 DEF Opened
  <2>4. CASE /\ system.name = "nfqws" /\ On({"windows"}) /\ Len(S) = 5 /\ S[2] = "pid" /\ S[4] = "queue"
    BY <1>3, <2>4 DEF Opened
  <2> QED BY <2>1, <2>2, <2>3, <2>4, StepsAre DEF S
<1>5. IsSeq(sockets)
  BY <1>1 DEF IsSeq
<1>6. ~((Past("rights") \/ Past("lists")) /\ params.droproot)
  BY <1>4 DEF RightsKnown
<1>7. status # 0 /\ pidfile \notin {"first", "second"} /\ process # "second"
  BY <1>1
<1>8. asRoot = root
  BY DEF NotStarted
<1> QED BY <1>1, <1>4, <1>5, <1>6, <1>7, <1>8 DEF RunsOK

LEMMA NotStartedImplies == written \in Lines /\ RightsKnown(params) /\ NotStarted => RunsOK
BY NotStartedRuns

\* Reading the line starts nothing.
LEMMA IdleKeeps ==
  ASSUME NotStarted, TodoOK, UNCHANGED <<written, running, searching>>
  PROVE  NotStarted' /\ TodoOK'
<1>1. Steps(system)' = Steps(system) /\ root' = root
  BY DEF Steps, system, root, TpwsSteps, NfqwsSteps
<1> QED BY <1>1 DEF NotStarted, TodoOK, LeftFrom, running, searching

LEMMA StutterRead ==
  ASSUME LineRead, UNCHANGED line, disk' = disk
  PROVE  LineRead'
<1>1. FileRec' = FileRec /\ LineOption(written)' = LineOption(written) /\ (RightsKnown(params)' <=> RightsKnown(params))
  BY DEF line, FileRec, LineOption, RightsKnown, On, system
<1>2. Readable(disk, root) => Readable(disk, root)'
  BY ReadableLater DEF line
<1> QED BY <1>1, <1>2 DEF LineRead, FilesRead, line, system

LEMMA StartRuns ==
  ASSUME LineRead', NotStarted'
  PROVE  RunsOK'
<1>1. (written \in Lines /\ RightsKnown(params) /\ NotStarted => RunsOK)'
  BY NotStartedImplies, PTL
<1> QED BY <1>1 DEF LineRead

LEMMA StutterInv ==
  ASSUME Inv, UNCHANGED all
  PROVE  Inv'
<1>1. UNCHANGED vars /\ UNCHANGED running /\ UNCHANGED searching
  BY DEF all
<1>2. UNCHANGED line /\ disk' = disk
  BY <1>1 DEF vars, line
<1>3. LineRead'
  BY <1>2, StutterRead DEF Inv
<1>4. ASSUME phase = "start" PROVE TodoOK' /\ RunsOK'
  <2>1. sockets' = sockets
    BY <1>1 DEF running
  <2>2. IsSeq(sockets')
    BY <1>4, <2>1 DEF Inv, RunsOK
  <2> QED BY <1>1, <1>4, <2>1, <2>2, WaitKeeps DEF Inv, Begun, LineRead, running
<1>5. phase # "start" => TodoOK' /\ NotStarted'
  BY <1>1, <1>2, IdleKeeps DEF Inv, line
<1> QED BY <1>2, <1>3, <1>4, <1>5 DEF Inv, line

LEMMA NextInv ==
  ASSUME Inv, [Next]_all
  PROVE  Inv'
<1>1. LineRead /\ TodoOK
  BY DEF Inv
<1>2. CASE Read
  <2>1. phase = "options" /\ UNCHANGED <<written, running, searching>> /\ phase' # "start"
    BY <1>1, <1>2, NextIsOption
  <2>2. LineRead'
    BY <1>1, <1>2, <2>1, NextIsOption, ReadingKeeps
  <2>3. TodoOK' /\ NotStarted'
    BY <2>1, IdleKeeps DEF Inv
  <2> QED BY <2>1, <2>2, <2>3 DEF Inv
<1>3. CASE Parsed
  <2>1. phase = "options" /\ UNCHANGED <<written, running, searching>>
    BY <1>3 DEF Parsed
  <2>2. LineRead'
    BY <1>1, <1>3, ParsedKeeps
  <2>3. TodoOK' /\ NotStarted'
    BY <2>1, IdleKeeps DEF Inv
  <2>4. RunsOK'
    BY <2>2, <2>3, StartRuns
  <2> QED BY <2>2, <2>3, <2>4 DEF Inv
<1>4. CASE ProcessStep \/ TpwsStep \/ NetChange \/ NfqwsStep
  <2>1. phase = "start" /\ UNCHANGED line /\ (UNCHANGED disk \/ Spoil)
    BY <1>4, StepsKeepLine
  <2>2. LineRead'
    BY <1>1, <2>1, StepsKeepRead
  <2>3. TodoOK' /\ RunsOK'
    BY <1>1, <1>4, <2>1, ProcessRuns, TpwsRuns, NetChangeRuns, NfqwsRuns DEF Inv, Begun, LineRead
  <2> QED BY <2>1, <2>2, <2>3 DEF Inv, line
<1>5. CASE UNCHANGED all
  BY <1>5, StutterInv
<1> QED BY <1>2, <1>3, <1>4, <1>5 DEF Next

\* Type correctness of what is read and the order of the start, for both programs
\* on every system.
THEOREM SpecInv == Spec => []Inv
<1>1. Init => Inv
  BY InitInv
<1>2. Inv /\ [Next]_all => Inv'
  BY NextInv
<1> QED BY <1>1, <1>2, PTL DEF Spec

\* Where the rights of root are not dropped, the process still has what the lists
\* were tested with; where they are, the lists were tested again without them.
LEMMA ListsReadable ==
  ASSUME LineRead, RunsOK, phase = "start", Past("lists")
  PROVE  Readable(disk, asRoot)
<1>1. Readable(disk, root)
  BY DEF LineRead
<1>2. ~params.droproot => asRoot = root
  BY DEF RunsOK
<1>3. params.droproot => Readable(disk, asRoot)
  BY DEF RunsOK
<1> QED BY <1>1, <1>2, <1>3

\* Only a daemon works in /.
LEMMA ListsFound ==
  ASSUME LineRead, RunsOK, Readable(disk, asRoot), NEW i \in DOMAIN files, files[i].file # "",
         ~(params.daemon /\ files[i].file \in written.relative)
  PROVE  Found[files[i].file] \notin Shut(asRoot)
<1>1. files[i].file \in DOMAIN disk
  <2>1. files \in Seq(FileRec) /\ DOMAIN disk = DOMAIN written.disk
    BY DEF LineRead, FilesRead
  <2>2. files[i] \in FileRec
    BY <2>1, ElementOf
  <2> QED BY <2>1, <2>2 DEF FileRec
<1>2. process = "second" => params.daemon
  BY DEF RunsOK
<1>3. Found[files[i].file] = disk[files[i].file]
  BY <1>1, <1>2 DEF Found
<1> QED BY <1>3 DEF Readable

LEMMA InvServes ==
  ASSUME Inv
  PROVE  ServesAsAsked
<1>1. CASE phase # "start"
  <2>1. ~Serving /\ pidfile = "none" /\ status = -1
    BY <1>1 DEF Inv, NotStarted, Serving, Step
  <2>2. status # 0 /\ pidfile \notin {"first", "second"}
    BY <2>1
  <2> QED BY <2>1, <2>2 DEF ServesAsAsked
<1>2. CASE phase = "start"
  <2>1. RunsOK /\ written \in Lines /\ TodoOK
    BY <1>2 DEF Inv, LineRead
  <2>2. Serving => Past("rights") /\ Past("lists") /\ Past("pid")
    <3>1. {"rights", "lists", "pid"} \subseteq StepNames \ {"serve"}
      BY DEF StepNames
    <3> QED BY <2>1, <3>1, Order DEF Serving, Step
  <2>3. status = 0 /\ todo # <<>> /\ ~On({"windows"}) => Opened
    BY <2>1, Order, Systems DEF RunsOK, Opened
  <2>4. ASSUME Serving, NEW i \in DOMAIN files, files[i].file # "",
               ~(params.daemon /\ files[i].file \in written.relative)
        PROVE  Found[files[i].file] \notin Shut(asRoot)
    <3>1. LineRead /\ RunsOK
      BY <1>2 DEF Inv
    <3> QED BY <1>2, <2>2, <2>4, <3>1, ListsReadable, ListsFound
  <2> QED BY <2>1, <2>2, <2>3, <2>4 DEF RunsOK, ServesAsAsked
<1> QED BY <1>1, <1>2

\* A program that serves has dropped the rights it was to drop and, with those it
\* has and from where it works, can read its lists again, but for relative names a
\* daemon was given; the pid file names the process that serves, and a caller told of a
\* daemon finds its sockets open.
THEOREM SpecServes == Spec => []ServesAsAsked
<1>1. Inv => ServesAsAsked
  BY InvServes
<1> QED BY <1>1, SpecInv, PTL

-----------------------------------------------------------------------------
(* The addresses tpws finds for its binds, and the sockets it opens on them. *)

AsAsked(b, s) ==
  /\ b.addr # "" => s.kind = b.addr
  /\ b.addr = "" /\ b.iface # "" => s.iface = b.iface /\ (s.kind = "ip4") = ~b.v6
  /\ b.addr = "" /\ s.kind \in Kinds6 =>
       /\ b.ll = "force" => s.kind = "ll6"
       /\ b.ll = "no" => s.kind # "ll6"
       /\ (b.ll = "prefer" /\ s.kind # "ll6") \/ (b.ll = "unwanted" /\ s.kind = "ll6") =>
            b.wait_ip - s.left >= b.wait_ip_ll

Stage ==
  \/ Head(todo) = "prepare" /\ Len(list) < Len(binds) /\ sockets = <<>>
  \/ /\ Past("prepare") /\ ~Past("listen")
     /\ Len(list) = Len(binds) /\ Len(sockets) < Len(list)
  \/ Past("listen") /\ Len(list) = Len(binds) /\ Len(sockets) = Len(list)

Listed0 ==
  /\ sec \in Nat /\ IsSeq(list) /\ IsSeq(sockets)
  /\ Len(list) <= Len(binds)
  /\ \A i \in DOMAIN list : AsAsked(binds[i], list[i])
  /\ \A i \in DOMAIN sockets : i \in DOMAIN list /\ sockets[i] = list[i]
ListOK == Listed0 /\ Stage

Tpws == phase = "start" /\ system.name = "tpws" /\ todo # <<>>
ListInv == Inv /\ (Tpws => ListOK)

LEMMA LeftOver == \A x \in Int, n \in Nat : x - (x - n) = n
OBVIOUS

LEMMA NextAfter == \A x, y \in Nat : x < y /\ ~(x + 1 < y) => x + 1 = y
OBVIOUS

\* An address that suits a bind at this second is one that was asked for.
LEMMA SuitsAsked ==
  ASSUME NEW b \in BindRec, NEW n \in Nat, b.addr = "", NEW a, NEW p \in 0 .. 2, Suits(a, b, WishAt(b, n), p),
         NEW s, s.kind = a.kind, s.iface = a.iface, s.left = b.wait_ip - n
  PROVE  AsAsked(b, s)
<1>1. b.v6 \in BOOLEAN /\ b.ll \in Wishes /\ b.wait_ip \in Int /\ b.wait_ip_ll \in Int
  BY DEF BindRec
<1>2. b.wait_ip - s.left = n
  BY <1>1, LeftOver
<1>3. b.iface # "" => s.iface = b.iface /\ (s.kind = "ip4") = ~b.v6
  BY <1>1 DEF Suits
<1>4. ASSUME s.kind \in Kinds6 PROVE Accepts(WishAt(b, n), p, s.kind)
  BY <1>4 DEF Suits, Kinds6
<1>5. \A ll : Accepts("force", p, s.kind) => s.kind = "ll6"
  BY DEF Accepts
<1>6. \A ll : Accepts("no", p, s.kind) => s.kind # "ll6"
  BY DEF Accepts
<1>7. b.ll = "force" => WishAt(b, n) = "force"
  BY DEF WishAt
<1>8. b.ll = "no" => WishAt(b, n) = "no"
  BY DEF WishAt
<1>9. b.ll = "prefer" /\ ~(n >= b.wait_ip_ll) => WishAt(b, n) = "force"
  BY DEF WishAt
<1>10. b.ll = "unwanted" /\ ~(n >= b.wait_ip_ll) => WishAt(b, n) = "no"
  BY DEF WishAt
<1> QED BY <1>2, <1>3, <1>4, <1>5, <1>6, <1>7, <1>8, <1>9, <1>10 DEF AsAsked

LEMMA FoundSuits ==
  ASSUME NEW b, NEW ll, NEW a \in FindListenAddr(b, ll)
  PROVE  \E p \in 0 .. 2 : Suits(a, b, ll, p)
BY DEF FindListenAddr

LEMMA StageSame ==
  ASSUME UNCHANGED <<todo, binds, list, sockets>>
  PROVE  Stage' <=> Stage
BY DEF Stage, Past

LEMMA ListSame ==
  ASSUME ListOK, UNCHANGED <<todo, binds, list, sockets>>, sec' \in Nat
  PROVE  ListOK'
<1>1. Stage' /\ (IsSeq(list)' <=> IsSeq(list)) /\ (IsSeq(sockets)' <=> IsSeq(sockets))
  BY StageSame DEF ListOK, IsSeq
<1> QED BY <1>1 DEF ListOK, Listed0

\* The steps after the last socket is open.
LEMMA ProcessLists ==
  ASSUME Inv, Tpws, ListOK, ProcessStep, UNCHANGED searching, todo' # <<>>
  PROVE  ListOK'
<1>1. written \in Lines /\ TodoOK /\ UNCHANGED line
  BY StepsKeepLine DEF Inv, LineRead
<1>2. /\ Head(todo) \in {"pidfile", "rights", "lists", "daemon", "pid", "serve"}
      /\ sockets' = sockets /\ todo' \in {todo, Tail(todo)}
  BY DEF ProcessStep, OpenPid, DropRights, TestLists, Daemonize, WritePid, HangUp, Reload, Spoil, Step, Then, Exit, running
<1>3. Past("listen")
  BY <1>1, <1>2, Order DEF Tpws
<1>4. Past("listen")'
  <2>1. CASE todo' = todo
    BY <1>3, <2>1 DEF Past
  <2>2. CASE todo' = Tail(todo)
    BY <1>1, <1>3, <2>2, OneStepLess DEF Tpws, line
  <2> QED BY <1>2, <2>1, <2>2
<1>5. Len(list) = Len(binds) /\ Len(sockets) = Len(list)
  <2>1. Head(todo) # "prepare"
    BY <1>2
  <2> QED BY <1>3, <2>1 DEF ListOK, Stage
<1>6. UNCHANGED <<binds, list, sockets, sec>>
  BY <1>1, <1>2 DEF line, searching
<1>7. (IsSeq(list)' <=> IsSeq(list)) /\ (IsSeq(sockets)' <=> IsSeq(sockets))
  BY <1>6 DEF IsSeq
<1> QED BY <1>4, <1>5, <1>6, <1>7 DEF ListOK, Listed0, Stage

\* The next address is found: one step less to prepare, or the next bind.
LEMMA ListedLists ==
  ASSUME Inv, Tpws, ListOK, Step("prepare"), NEW a, NEW v, NEW left, Listed(a, v, left), todo' # <<>>,
         AsAsked(Bind, [iface |-> a.iface, kind |-> a.kind, v6only |-> v, left |-> left])
  PROVE  ListOK'
<1> DEFINE s == [iface |-> a.iface, kind |-> a.kind, v6only |-> v, left |-> left]
<1>1. /\ list' = Append(list, s) /\ sec' = 0 /\ UNCHANGED vars /\ sockets' = sockets
      /\ IF Len(list) + 1 < Len(binds) THEN todo' = todo ELSE todo' = Tail(todo)
  BY DEF Listed, Same, Then, Exit, running
<1>2. written \in Lines /\ TodoOK /\ todo # <<>> /\ Head(todo) = "prepare" /\ binds \in Seq(BindRec)
  BY DEF Inv, LineRead, Step
<1>3. AsAsked(binds[Len(list) + 1], s)
  BY DEF Bind
<1> HIDE DEF s
<1>4. ~Past("prepare") /\ ~Past("listen")
  BY <1>2, Order
<1>5. Len(list) < Len(binds) /\ sockets = <<>> /\ IsSeq(list) /\ IsSeq(sockets)
  BY <1>4 DEF ListOK, Stage, Listed0
<1>6. /\ IsSeq(list') /\ Len(list') = Len(list) + 1 /\ Len(list) \in Nat /\ DOMAIN list = 1 .. Len(list)
      /\ DOMAIN list' = 1 .. Len(list) + 1 /\ list'[Len(list) + 1] = s /\ \A i \in 1 .. Len(list) : list'[i] = list[i]
  BY <1>1, <1>5, AppendIsSeq
<1>7. binds' = binds /\ Len(binds) \in Nat
  BY <1>1, <1>2 DEF vars
<1>8. \A i \in DOMAIN list' : AsAsked(binds'[i], list'[i])
  BY <1>3, <1>6, <1>7 DEF ListOK, Listed0
<1>9. Len(list') <= Len(binds')
  BY <1>5, <1>6, <1>7
<1>10. Stage'
  <2>1. CASE Len(list) + 1 < Len(binds)
    BY <1>1, <1>2, <1>5, <1>6, <1>7, <2>1 DEF Stage
  <2>2. CASE ~(Len(list) + 1 < Len(binds))
    <3>1. todo' = Tail(todo) /\ Len(list') = Len(binds') /\ Len(list') > 0
      BY <1>1, <1>5, <1>6, <1>7, <2>2
    <3>2. Past("prepare")' /\ ~Past("listen")'
      BY <1>1, <1>2, <1>4, <3>1, OneStepLess DEF vars
    <3>3. Len(sockets') = 0
      BY <1>1, <1>5
    <3> QED BY <3>1, <3>2, <3>3 DEF Stage
  <2> QED BY <2>1, <2>2
<1>11. IsSeq(list)' /\ IsSeq(sockets)' /\ \A i \in DOMAIN sockets' : i \in DOMAIN list' /\ sockets'[i] = list'[i]
  BY <1>1, <1>5, <1>6 DEF IsSeq
<1> QED BY <1>1, <1>8, <1>9, <1>10, <1>11 DEF ListOK, Listed0

\* The bind whose turn it is.
LEMMA BindOfTurn ==
  ASSUME Inv, Tpws, ListOK, Step("prepare")
  PROVE  Bind \in BindRec
<1>1. written \in Lines /\ TodoOK /\ todo # <<>> /\ Head(todo) = "prepare" /\ binds \in Seq(BindRec)
  BY DEF Inv, LineRead, Step
<1>2. ~Past("prepare") /\ ~Past("listen")
  BY <1>1, Order
<1>3. Len(list) < Len(binds) /\ Len(list) \in Nat
  <2>1. IsSeq(list)
    BY DEF ListOK, Listed0
  <2> QED BY <1>2, <2>1 DEF ListOK, Stage, IsSeq
<1>4. Len(list) + 1 \in DOMAIN binds
  BY <1>1, <1>3
<1> QED BY <1>1, <1>4, ElementOf DEF Bind

LEMMA PrepareLists ==
  ASSUME Inv, Tpws, ListOK, IfUp \/ AddressOfLine \/ AddressOfIface \/ AnyAddress, todo' # <<>>
  PROVE  ListOK'
<1>1. sec \in Nat /\ Step("prepare")
  BY DEF ListOK, Listed0, IfUp, AddressOfLine, AddressOfIface, AnyAddress
<1>2. Bind \in BindRec
  BY <1>1, BindOfTurn
<1>3. CASE UNCHANGED <<vars, running, list>> /\ sec' \in {0, sec + 1}
  BY <1>1, <1>3, ListSame DEF vars, running
<1>4. CASE IfUp
  BY <1>3, <1>4 DEF IfUp, GiveUp, Sleep, Exit
<1>5. CASE AddressOfLine
  <2>1. PICK a : a.kind = Bind.addr /\ Listed(a, Bind.addr # "ip4", Bind.wait_ip) /\ Bind.addr # ""
    <3> DEFINE a == [iface |-> IF ifup = "found" THEN Bind.iface ELSE "", kind |-> Bind.addr]
    <3>1. a.kind = Bind.addr
      OBVIOUS
    <3>2. Listed(a, Bind.addr # "ip4", Bind.wait_ip) /\ Bind.addr # ""
      BY <1>5 DEF AddressOfLine, GiveUp, Exit
    <3> HIDE DEF a
    <3> QED BY <3>1, <3>2
  <2>2. AsAsked(Bind, [iface |-> a.iface, kind |-> a.kind, v6only |-> Bind.addr # "ip4", left |-> Bind.wait_ip])
    BY <2>1 DEF AsAsked
  <2> QED BY <1>1, <2>1, <2>2, ListedLists
<1>6. CASE AddressOfIface
  <2>1. CASE Sleep
    BY <1>3, <2>1 DEF Sleep
  <2>2. ASSUME NEW a \in FindListenAddr(Bind, WishAt(Bind, sec)), Listed(a, TRUE, Bind.wait_ip - sec), Bind.addr = ""
        PROVE  ListOK'
    <3>1. PICK p \in 0 .. 2 : Suits(a, Bind, WishAt(Bind, sec), p)
      BY <2>2, FoundSuits
    <3> DEFINE s == [iface |-> a.iface, kind |-> a.kind, v6only |-> TRUE, left |-> Bind.wait_ip - sec]
    <3>2. s.kind = a.kind /\ s.iface = a.iface /\ s.left = Bind.wait_ip - sec
      OBVIOUS
    <3> HIDE DEF s
    <3>3. AsAsked(Bind, s)
      BY <1>1, <1>2, <2>2, <3>1, <3>2, SuitsAsked
    <3> QED BY <1>1, <2>2, <3>3, ListedLists DEF s
  <2> QED BY <1>6, <2>1, <2>2 DEF AddressOfIface, GiveUp, Exit, Search
<1>7. CASE AnyAddress
  <2>1. Listed([iface |-> "", kind |-> "any"], FALSE, Bind.wait_ip) /\ Bind.addr = "" /\ Bind.iface = ""
    BY <1>7 DEF AnyAddress, Search
  <2> DEFINE a == [iface |-> "", kind |-> "any"]
             s == [iface |-> a.iface, kind |-> a.kind, v6only |-> FALSE, left |-> Bind.wait_ip]
  <2>2. s.kind = "any"
    OBVIOUS
  <2>3. AsAsked(Bind, s)
    <3> HIDE DEF s
    <3> QED BY <2>1, <2>2 DEF AsAsked, Kinds6
  <2>4. Listed(a, FALSE, Bind.wait_ip)
    BY <2>1
  <2> HIDE DEF a
  <2> QED BY <1>1, <2>3, <2>4, ListedLists
<1> QED BY <1>4, <1>5, <1>6, <1>7

LEMMA ListenLists ==
  ASSUME Inv, Tpws, ListOK, Redirector \/ Listen, todo' # <<>>
  PROVE  ListOK'
<1>1. written \in Lines /\ TodoOK /\ todo # <<>> /\ Head(todo) \in {"redirector", "listen"} /\ binds \in Seq(BindRec)
  BY DEF Inv, LineRead, Redirector, Listen, Step
<1>2. Past("prepare") /\ ~Past("listen")
  BY <1>1, Order
<1>3. /\ Len(list) = Len(binds) /\ Len(sockets) < Len(list) /\ IsSeq(list) /\ IsSeq(sockets) /\ sec \in Nat
  BY <1>1, <1>2 DEF ListOK, Stage, Listed0
<1>4. CASE Sleep
  <2>1. sec' \in Nat /\ UNCHANGED <<todo, binds, list, sockets>>
    BY <1>3, <1>4 DEF Sleep, vars, running
  <2> QED BY <2>1, ListSame
<1>5. CASE Head(todo) = "redirector" /\ Then /\ Same /\ UNCHANGED searching
  <2>1. UNCHANGED <<written, binds, list, sockets, sec>> /\ todo' = Tail(todo)
    BY <1>5 DEF Then, Same, vars, searching
  <2>2. Past("prepare")' /\ ~Past("listen")'
    BY <1>1, <1>2, <1>5, <2>1, OneStepLess
  <2>3. Stage'
    BY <1>3, <2>1, <2>2 DEF Stage
  <2>4. (IsSeq(list)' <=> IsSeq(list)) /\ (IsSeq(sockets)' <=> IsSeq(sockets))
    BY <2>1 DEF IsSeq
  <2> QED BY <2>1, <2>3, <2>4 DEF ListOK, Listed0
<1>6. CASE /\ Head(todo) = "listen"
           /\ sockets' = Append(sockets, list[Len(sockets) + 1])
           /\ todo' = IF Len(sockets) + 1 < Len(list) THEN todo ELSE Tail(todo)
           /\ sec' = 0 /\ UNCHANGED <<vars, list>>
  <2>1. UNCHANGED <<written, binds, list>>
    BY <1>6 DEF vars
  <2>2. /\ IsSeq(sockets') /\ Len(sockets') = Len(sockets) + 1 /\ Len(sockets) \in Nat
        /\ DOMAIN sockets = 1 .. Len(sockets) /\ DOMAIN sockets' = 1 .. Len(sockets) + 1
        /\ sockets'[Len(sockets) + 1] = list[Len(sockets) + 1]
        /\ \A i \in 1 .. Len(sockets) : sockets'[i] = sockets[i]
    BY <1>3, <1>6, AppendIsSeq
  <2>3. Len(list) \in Nat /\ DOMAIN list = 1 .. Len(list)
    BY <1>3 DEF IsSeq
  <2>4. \A i \in DOMAIN sockets' : i \in DOMAIN list' /\ sockets'[i] = list'[i]
    BY <1>3, <2>1, <2>2, <2>3 DEF ListOK, Listed0
  <2>5. Stage'
    <3>1. CASE Len(sockets) + 1 < Len(list)
      <4>1. todo' = todo
        BY <1>6, <3>1
      <4>2. Past("prepare")' /\ ~Past("listen")'
        BY <1>2, <4>1 DEF Past
      <4> QED BY <1>3, <2>1, <2>2, <3>1, <4>2 DEF Stage
    <3>2. CASE ~(Len(sockets) + 1 < Len(list))
      <4>1. todo' = Tail(todo) /\ Len(sockets') = Len(list)
        <5>1. todo' = Tail(todo)
          BY <1>6, <3>2
        <5>2. Len(sockets) + 1 = Len(list)
          BY <1>3, <2>2, <2>3, <3>2, NextAfter
        <5> QED BY <2>2, <5>1, <5>2
      <4>2. Past("listen")'
        BY <1>1, <1>6, <2>1, <4>1, OneStepLess
      <4> QED BY <1>3, <2>1, <4>1, <4>2 DEF Stage
    <3> QED BY <3>1, <3>2
  <2>6. IsSeq(list)' /\ IsSeq(sockets)'
    BY <1>3, <2>1, <2>2 DEF IsSeq
  <2> QED BY <1>6, <2>1, <2>4, <2>5, <2>6 DEF ListOK, Listed0
<1>7. CASE Redirector
  BY <1>5, <1>7 DEF Redirector, Step, Exit
<1>8. CASE Listen
  BY <1>4, <1>6, <1>8 DEF Listen, Step, GiveUp, Exit
<1> QED BY <1>7, <1>8

\* When the options are read nothing is listed yet.
LEMMA StartLists ==
  ASSUME Inv, Tpws, NotStarted
  PROVE  ListOK
<1>1. written \in Lines /\ todo = Steps(system) /\ sockets = <<>> /\ list = <<>> /\ sec = 0
      /\ binds \in Seq(BindRec) /\ binds # <<>>
  BY DEF Inv, LineRead, NotStarted, Tpws
<1>2. Head(todo) = "prepare"
  <2>1. Steps(system) \in Seq(StepNames) /\ Steps(system)[1] = "prepare"
    BY <1>1, StepsAre DEF Tpws
  <2> QED BY <1>1, <2>1
<1>3. Len(list) < Len(binds)
  BY <1>1
<1>4. IsSeq(list) /\ IsSeq(sockets) /\ DOMAIN list = {} /\ DOMAIN sockets = {}
  BY <1>1 DEF IsSeq
<1> QED BY <1>1, <1>2, <1>3, <1>4 DEF ListOK, Listed0, Stage

LEMMA StartListsImplies == Inv /\ Tpws /\ NotStarted => ListOK
BY StartLists

LEMMA NextLists ==
  ASSUME ListInv, [Next]_all, Inv'
  PROVE  ListInv'
<1>1. SUFFICES ASSUME Tpws' PROVE ListOK'
  BY DEF ListInv
<1>2. written \in Lines /\ TodoOK
  BY DEF ListInv, Inv, LineRead
<1>3. CASE Read
  <2>1. phase' # "start"
    BY <1>3, NextIsOption DEF ListInv, Inv
  <2> QED BY <1>1, <2>1 DEF Tpws
<1>4. CASE Parsed
  <2>1. phase = "options" /\ UNCHANGED <<written, running, searching>>
    BY <1>4 DEF Parsed
  <2>2. NotStarted'
    BY <2>1, IdleKeeps DEF ListInv, Inv
  <2>3. (Inv /\ Tpws /\ NotStarted => ListOK)'
    BY StartListsImplies, PTL
  <2> QED BY <1>1, <2>2, <2>3
<1>5. CASE (ProcessStep /\ UNCHANGED searching) \/ TpwsStep \/ NetChange \/ NfqwsStep
  <2>1. phase = "start" /\ UNCHANGED line
    BY <1>5, StepsKeepLine
  <2>2. todo' # <<>> /\ system.name = "tpws"
    BY <1>1, <2>1 DEF Tpws, line, system
  <2>3. todo # <<>>
    BY <1>5 DEF ProcessStep, OpenPid, DropRights, TestLists, Daemonize, WritePid, HangUp, Reload, Spoil,
       TpwsStep, IfUp, AddressOfLine, AddressOfIface, AnyAddress, Redirector, Listen, NetChange,
       NfqwsStep, OpenQueue, AwaitNetwork, ReceiveError, Step
  <2>4. Inv /\ Tpws /\ ListOK
    BY <2>1, <2>2, <2>3 DEF ListInv, Tpws
  <2>5. CASE ProcessStep /\ UNCHANGED searching
    BY <2>2, <2>4, <2>5, ProcessLists
  <2>6. CASE TpwsStep
    BY <2>2, <2>4, <2>6, PrepareLists, ListenLists DEF TpwsStep
  <2>7. CASE NetChange
    BY <2>1, <2>4, <2>7, ListSame DEF NetChange, running, line, ListOK, Listed0
  <2>8. ~NfqwsStep
    <3>1. Head(todo) \notin {"network", "queue"}
      BY <1>2, <2>2, <2>3, Order
    <3> QED BY <2>2, <3>1 DEF NfqwsStep, OpenQueue, AwaitNetwork, ReceiveError, Step
  <2> QED BY <1>5, <2>5, <2>6, <2>7, <2>8
<1>6. CASE UNCHANGED all
  <2>1. UNCHANGED <<phase, written, todo, binds, list, sockets, sec>>
    BY <1>6 DEF all, vars, running, searching
  <2>2. Tpws
    BY <1>1, <2>1 DEF Tpws, system
  <2> QED BY <2>1, <2>2, ListSame DEF ListInv, ListOK, Listed0
<1> QED BY <1>3, <1>4, <1>5, <1>6 DEF Next

LEMMA SpecLists == Spec => []ListInv
<1>1. Init => ListInv
  <2>1. Init => phase # "start"
    BY DEF Init
  <2> QED BY <2>1, InitInv DEF ListInv, Tpws
<1>2. ListInv /\ [Next]_all /\ Inv' => ListInv'
  BY NextLists
<1> QED BY <1>1, <1>2, SpecInv, PTL DEF Spec

LEMMA InvListens ==
  ASSUME ListInv
  PROVE  ListensAsAsked
<1>1. SUFFICES ASSUME Serving, system.name = "tpws"
               PROVE  /\ Len(sockets) = Len(binds)
                      /\ \A i \in DOMAIN binds : AsAsked(binds[i], sockets[i])
  BY DEF ListensAsAsked, AsAsked
<1>2. written \in Lines /\ TodoOK /\ Tpws /\ ListOK /\ binds \in Seq(BindRec) /\ Head(todo) = "serve"
  BY <1>1 DEF ListInv, Inv, LineRead, Serving, Step, Tpws
<1>3. Past("listen") /\ Head(todo) # "prepare"
  BY <1>1, <1>2, Order DEF Tpws
<1>4. Len(list) = Len(binds) /\ Len(sockets) = Len(list)
  BY <1>2, <1>3 DEF ListOK, Stage
<1>5. DOMAIN sockets = DOMAIN binds /\ DOMAIN list = DOMAIN binds
  BY <1>2, <1>4 DEF ListOK, Listed0, IsSeq
<1> QED BY <1>2, <1>4, <1>5 DEF ListOK, Listed0

\* tpws serves on one address for each bind of its line, and each is one the line
\* asks for at that second, whatever the interfaces did while it waited.
THEOREM SpecListens == Spec => []ListensAsAsked
<1>1. ListInv => ListensAsAsked
  BY InvListens
<1> QED BY <1>1, SpecLists, PTL

-----------------------------------------------------------------------------
(* The profiles a line describes.  What a part of the line asks for is told  *)
(* from a sequence of options alone, so that one more option can be added.   *)

NewsIn(s, j) == Cardinality({i \in 1 .. j - 1 : s[i].o = "new"})
Part(s, k) == {j \in DOMAIN s : NewsIn(s, j) = k /\ s[j].o # "new"}
Reached(s) == NewsIn(s, Len(s) + 1)
Skips(s, k) == \E j \in Part(s, k) : s[j].o = "skip"
Ended(s) == {k \in 0 .. Reached(s) - 1 : ~Skips(s, k)}
Rank(s, k) == Cardinality({r \in Ended(s) : r <= k})

\* The options of a part that are among names; what they give.
Among(s, k, names) == {j \in Part(s, k) : s[j].o \in names}
Namers(c) == {o \in DOMAIN NamedList : NamedList[o] = c} \cup {o \in {"hostlist_auto"} : c = "hl"}
Inliners(c) == {o \in DOMAIN InlineList : InlineList[o] = c}
NamesIn(s, k, c) == {s[j].a[1].w : j \in Among(s, k, Namers(c))}
ItemsGiven(t) == Words(t.a) \ {""}
InlineIn(s, k, c) == UNION {ItemsGiven(s[j]) : j \in Among(s, k, Inliners(c))}
ItemsIn(s, k, o) == UNION {{s[j].a[n] : n \in DOMAIN s[j].a} : j \in Among(s, k, {o})}
Span(i) == <<i.k[1], i.k[Len(i.k)]>>
PortsIn(s, k, o) == {Span(i) : i \in {x \in ItemsIn(s, k, o) : x.w # "*"}} \ AllOrNone

FilesAre(p, fs, c) == {fs[i].file : i \in p.on[c]} \ {""}
ItemsAre(p, fs, c) == UNION {fs[i].items : i \in {j \in p.on[c] : fs[j].file = ""}}

\* The profile p has what part k of the line s gives it, with the registered files fs.
Lists(p, fs, s, k) ==
  \A c \in Collections : FilesAre(p, fs, c) = NamesIn(s, k, c) /\ ItemsAre(p, fs, c) = InlineIn(s, k, c)
Opens(p, s, k) == Ranges(p.tcp) = PortsIn(s, k, "filter_tcp") /\ Ranges(p.udp) = PortsIn(s, k, "filter_udp")
Divides(p, s, k) ==
  /\ IsSeq(p.splits) /\ Cardinality(Among(s, k, SplitNames)) <= Len(p.splits)
  /\ Among(s, k, SplitNames) = {} => p.splits = <<>>
  /\ \A i \in ItemsIn(s, k, "split_pos") : \E n \in DOMAIN p.splits : p.splits[n] \in SplitPos(i)
Described(p, fs, s, k) == Lists(p, fs, s, k) /\ Opens(p, s, k) /\ Divides(p, s, k)

\* Every profile that was ended, and the one that is described unless it is skipped, has
\* what its part gives it.
Parts(ps, fs, s, sk) ==
  /\ Len(ps) = Cardinality(Ended(s)) + 1
  /\ sk <=> Skips(s, Reached(s))
  /\ \A k \in Ended(s) : Described(ps[Rank(s, k)], fs, s, k)
  /\ ~sk => Described(ps[Len(ps)], fs, s, Reached(s))

\* A list without a file has the name ""; the registered lists on are the same in gs.
Blank(y) == y = ""
Unchanged(on, fs, gs) == \A i \in on : gs[i].file = fs[i].file /\ (Blank(fs[i].file) => gs[i].items = fs[i].items)

\* A list without a file is in the collection of the profile that began it, and in no other.
Shape(p, x, fs) == DOMAIN p = ProfileFields /\ p.n = x /\ p.on \in [Collections -> SUBSET DOMAIN fs]
Owners(ps, fs, an) ==
  /\ \A x \in DOMAIN ps : Shape(ps[x], x, fs)
  /\ an \in [Collections -> Nat]
  /\ \A c \in Collections : an[c] # 0 => an[c] \in ps[Len(ps)].on[c] /\ Blank(fs[an[c]].file)
  /\ \A x \in DOMAIN ps : \A c, d \in Collections :
        an[d] # 0 /\ an[d] \in ps[x].on[c] => x = Len(ps) /\ c = d

ProfilesOK ==
  /\ IsSeq(profiles) /\ count = Len(profiles)
  /\ Owners(profiles, files, anon) /\ Parts(profiles, files, argv, skip)

-----------------------------------------------------------------------------
(* One more option.  It belongs to the part that is described, or begins the *)
(* next one; the parts before stay as they are.                              *)

LEMMA NewsFinite ==
  ASSUME NEW s, NEW j \in Nat
  PROVE  /\ IsFiniteSet({i \in 1 .. j - 1 : s[i].o = "new"}) /\ NewsIn(s, j) \in Nat
         /\ \A i \in 0 .. j : NewsIn(s, i) <= NewsIn(s, j)
<1>1. ASSUME NEW i \in Int PROVE IsFiniteSet({n \in 1 .. i - 1 : s[n].o = "new"})
  <2>1. IsFiniteSet(1 .. i - 1)
    BY FS_Interval
  <2> QED BY <2>1, FS_Subset
<1>2. NewsIn(s, j) \in Nat
  BY <1>1, FS_CardinalityType DEF NewsIn
<1>3. ASSUME NEW i \in 0 .. j PROVE NewsIn(s, i) <= NewsIn(s, j)
  <2>1. {n \in 1 .. i - 1 : s[n].o = "new"} \subseteq {n \in 1 .. j - 1 : s[n].o = "new"}
    OBVIOUS
  <2> QED BY <1>1, <2>1, FS_Subset DEF NewsIn
<1> QED BY <1>1, <1>2, <1>3

LEMMA NewsAppend ==
  ASSUME NEW s, IsSeq(s), NEW t
  PROVE  LET u == Append(s, t) IN
         /\ Len(s) \in Nat /\ Len(u) = Len(s) + 1 /\ DOMAIN s = 1 .. Len(s) /\ DOMAIN u = 1 .. Len(s) + 1
         /\ u[Len(s) + 1] = t /\ \A j \in DOMAIN s : u[j] = s[j]
         /\ \A j \in 1 .. Len(s) + 1 : NewsIn(u, j) = NewsIn(s, j)
         /\ Reached(s) \in Nat /\ \A j \in 1 .. Len(s) + 1 : NewsIn(s, j) \in 0 .. Reached(s)
         /\ Reached(u) = Reached(s) + IF t.o = "new" THEN 1 ELSE 0
<1> DEFINE u == Append(s, t)
<1>1. /\ Len(s) \in Nat /\ Len(u) = Len(s) + 1 /\ DOMAIN s = 1 .. Len(s) /\ DOMAIN u = 1 .. Len(s) + 1
      /\ u[Len(s) + 1] = t /\ \A j \in DOMAIN s : u[j] = s[j]
  BY AppendIsSeq
<1> HIDE DEF u
<1>2. ASSUME NEW j \in 1 .. Len(s) + 1 PROVE NewsIn(u, j) = NewsIn(s, j)
  <2>1. {i \in 1 .. j - 1 : u[i].o = "new"} = {i \in 1 .. j - 1 : s[i].o = "new"}
    BY <1>1
  <2> QED BY <2>1 DEF NewsIn
<1>3. Reached(s) \in Nat /\ \A j \in 1 .. Len(s) + 1 : NewsIn(s, j) \in 0 .. Reached(s)
  <2>1. ASSUME NEW j \in 1 .. Len(s) + 1 PROVE NewsIn(s, j) \in Nat /\ NewsIn(s, j) <= NewsIn(s, Len(s) + 1)
    <3>1. j \in Nat /\ Len(s) + 1 \in Nat /\ j \in 0 .. Len(s) + 1
      BY <1>1
    <3> QED BY <3>1, NewsFinite
  <2>2. Len(s) + 1 \in 1 .. Len(s) + 1
    BY <1>1
  <2> QED BY <2>1, <2>2 DEF Reached
<1>4. Reached(u) = Reached(s) + IF t.o = "new" THEN 1 ELSE 0
  <2> DEFINE A == {i \in 1 .. Len(s) : s[i].o = "new"}
  <2>1. IsFiniteSet(A) /\ Cardinality(A) = Reached(s)
    <3>1. Len(s) + 1 \in Nat /\ Len(s) + 1 - 1 = Len(s)
      BY <1>1
    <3> QED BY <3>1, NewsFinite DEF Reached, NewsIn
  <2>2. {i \in 1 .. Len(u) + 1 - 1 : u[i].o = "new"} = A \cup IF t.o = "new" THEN {Len(s) + 1} ELSE {}
    BY <1>1
  <2>3. Len(s) + 1 \notin A
    BY <1>1
  <2> HIDE DEF A
  <2>4. Cardinality(A \cup {Len(s) + 1}) = Cardinality(A) + 1
    BY <2>1, <2>3, FS_AddElement
  <2>5. Reached(u) = Cardinality({i \in 1 .. Len(u) + 1 - 1 : u[i].o = "new"})
    BY DEF Reached, NewsIn
  <2>6. CASE t.o = "new"
    <3>1. Reached(u) = Cardinality(A \cup {Len(s) + 1})
      BY <2>2, <2>5, <2>6
    <3> QED BY <2>1, <2>4, <2>6, <3>1
  <2>7. CASE t.o # "new"
    <3>1. Reached(u) = Cardinality(A)
      BY <2>2, <2>5, <2>7
    <3> QED BY <1>3, <2>1, <2>7, <3>1
  <2> QED BY <2>6, <2>7
<1> QED BY <1>1, <1>2, <1>3, <1>4 DEF u

LEMMA PartAppend ==
  ASSUME NEW s, IsSeq(s), NEW t
  PROVE  LET u == Append(s, t) IN
         /\ \A k : t.o = "new" \/ k # Reached(s) => Part(u, k) = Part(s, k)
         /\ t.o # "new" => Part(u, Reached(s)) = Part(s, Reached(s)) \cup {Len(s) + 1}
         /\ Part(s, Reached(s) + 1) = {}
         /\ \A k : \A j \in Part(s, k) : j \in 1 .. Len(s) /\ u[j] = s[j]
<1> DEFINE u == Append(s, t)
<1>1. /\ Len(s) \in Nat /\ Len(u) = Len(s) + 1 /\ DOMAIN s = 1 .. Len(s) /\ DOMAIN u = 1 .. Len(s) + 1
      /\ u[Len(s) + 1] = t /\ \A j \in DOMAIN s : u[j] = s[j]
      /\ \A j \in 1 .. Len(s) + 1 : NewsIn(u, j) = NewsIn(s, j)
      /\ Reached(s) \in Nat /\ \A j \in 1 .. Len(s) + 1 : NewsIn(s, j) \in 0 .. Reached(s)
  BY NewsAppend
<1> HIDE DEF u
<1>2. NewsIn(u, Len(s) + 1) = Reached(s) /\ DOMAIN u = DOMAIN s \cup {Len(s) + 1}
  BY <1>1 DEF Reached
<1>3. ASSUME NEW k, t.o = "new" \/ k # Reached(s) PROVE Part(u, k) = Part(s, k)
  BY <1>1, <1>2, <1>3 DEF Part
<1>4. ASSUME t.o # "new" PROVE Part(u, Reached(s)) = Part(s, Reached(s)) \cup {Len(s) + 1}
  BY <1>1, <1>2, <1>4 DEF Part
<1>5. Part(s, Reached(s) + 1) = {}
  BY <1>1 DEF Part
<1>6. \A k : \A j \in Part(s, k) : j \in 1 .. Len(s) /\ u[j] = s[j]
  BY <1>1 DEF Part
<1> QED BY <1>3, <1>4, <1>5, <1>6 DEF u

\* What a part gives stays the same, but for the part that is described.
LEMMA SamePart ==
  ASSUME NEW s, IsSeq(s), NEW t, NEW k, t.o = "new" \/ k # Reached(s)
  PROVE  LET u == Append(s, t) IN
         /\ \A c : NamesIn(u, k, c) = NamesIn(s, k, c) /\ InlineIn(u, k, c) = InlineIn(s, k, c)
         /\ \A o : ItemsIn(u, k, o) = ItemsIn(s, k, o) /\ PortsIn(u, k, o) = PortsIn(s, k, o)
         /\ \A names : Among(u, k, names) = Among(s, k, names)
         /\ Skips(u, k) <=> Skips(s, k)
<1> DEFINE u == Append(s, t)
<1>1. Part(u, k) = Part(s, k) /\ \A j \in Part(s, k) : u[j] = s[j]
  BY PartAppend
<1> HIDE DEF u
<1>2. ASSUME NEW names PROVE Among(u, k, names) = Among(s, k, names) /\ \A j \in Among(s, k, names) : u[j] = s[j]
  BY <1>1 DEF Among
<1>3. ASSUME NEW c PROVE NamesIn(u, k, c) = NamesIn(s, k, c) /\ InlineIn(u, k, c) = InlineIn(s, k, c)
  <2>1. NamesIn(u, k, c) = NamesIn(s, k, c)
    <3> DEFINE names == Namers(c)
    <3> HIDE DEF names
    <3>1. Among(u, k, names) = Among(s, k, names) /\ \A j \in Among(s, k, names) : u[j] = s[j]
      BY <1>2
    <3> DEFINE A == Among(s, k, names)
    <3>2. NamesIn(u, k, c) = {u[j].a[1].w : j \in A} /\ NamesIn(s, k, c) = {s[j].a[1].w : j \in A}
      BY <3>1 DEF NamesIn, names
    <3> HIDE DEF A
    <3>3. \A j \in A : u[j] = s[j]
      BY <3>1 DEF A
    <3> QED BY <3>2, <3>3
  <2>2. InlineIn(u, k, c) = InlineIn(s, k, c)
    <3> DEFINE names == Inliners(c)
    <3> HIDE DEF names
    <3>1. Among(u, k, names) = Among(s, k, names) /\ \A j \in Among(s, k, names) : u[j] = s[j]
      BY <1>2
    <3> DEFINE A == Among(s, k, names)
    <3>2. /\ InlineIn(u, k, c) = UNION {ItemsGiven(u[j]) : j \in A}
          /\ InlineIn(s, k, c) = UNION {ItemsGiven(s[j]) : j \in A}
      BY <3>1 DEF InlineIn, names
    <3> HIDE DEF A
    <3>3. \A j \in A : u[j] = s[j]
      BY <3>1 DEF A
    <3> QED BY <3>2, <3>3
  <2> QED BY <2>1, <2>2
<1>4. ASSUME NEW o PROVE ItemsIn(u, k, o) = ItemsIn(s, k, o)
  BY <1>2 DEF ItemsIn
<1>5. ASSUME NEW o PROVE PortsIn(u, k, o) = PortsIn(s, k, o)
  BY <1>4 DEF PortsIn
<1>6. Skips(u, k) <=> Skips(s, k)
  BY <1>1 DEF Skips
<1> QED BY <1>2, <1>3, <1>4, <1>5, <1>6 DEF u

\* The part that is described gets what the option gives.
Grows(s, t, names) ==
  LET u == Append(s, t) K == Reached(s) new == Len(s) + 1 IN
  /\ t.o \in names => Among(u, K, names) = Among(s, K, names) \cup {new}
  /\ t.o \notin names => Among(u, K, names) = Among(s, K, names)
  /\ u[new] = t /\ new \notin Among(s, K, names) /\ \A j \in Among(s, K, names) : u[j] = s[j]
  /\ IsFiniteSet(Among(s, K, names)) /\ Cardinality(Among(s, K, names)) \in Nat

LEMMA AmongAppend ==
  ASSUME NEW s, IsSeq(s), NEW t, t.o # "new", NEW names
  PROVE  Grows(s, t, names)
<1> DEFINE u == Append(s, t)
           K == Reached(s)
           new == Len(s) + 1
<1>1. /\ Part(u, K) = Part(s, K) \cup {new}
      /\ \A j \in Part(s, K) : j \in 1 .. Len(s) /\ u[j] = s[j]
  BY PartAppend
<1>2. u[new] = t /\ Len(s) \in Nat
  BY NewsAppend
<1>3. IsFiniteSet(Among(s, K, names)) /\ Cardinality(Among(s, K, names)) \in Nat
  <2>1. Among(s, K, names) \subseteq 1 .. Len(s)
    BY <1>1 DEF Among
  <2>2. IsFiniteSet(1 .. Len(s))
    BY <1>2, FS_Interval
  <2> QED BY <2>1, <2>2, FS_Subset, FS_CardinalityType
<1> HIDE DEF u, K
<1>4. new \notin Part(s, K)
  BY <1>1, <1>2
<1> HIDE DEF new
<1>5. /\ t.o \in names => Among(u, K, names) = Among(s, K, names) \cup {new}
      /\ t.o \notin names => Among(u, K, names) = Among(s, K, names)
  BY <1>1, <1>2 DEF Among
<1>6. new \notin Among(s, K, names) /\ \A j \in Among(s, K, names) : u[j] = s[j]
  BY <1>1, <1>4 DEF Among
<1> QED BY <1>2, <1>3, <1>5, <1>6 DEF u, K, new, Grows

\* Unions over a set of options that grows, or over options that have not changed.
LEMMA UnionMore ==
  ASSUME NEW A, NEW B, NEW x, NEW f, NEW g, \A j \in A : f[j] = g[j]
  PROVE  /\ B = A => UNION {f[j] : j \in B} = UNION {g[j] : j \in A}
         /\ B = A \cup {x} => UNION {f[j] : j \in B} = (UNION {g[j] : j \in A}) \cup f[x]
<1>1. \A y : y \in UNION {f[j] : j \in B} <=> \E j \in B : y \in f[j]
  OBVIOUS
<1>2. \A y : y \in UNION {g[j] : j \in A} <=> \E j \in A : y \in g[j]
  OBVIOUS
<1> DEFINE U == UNION {f[j] : j \in B}
           V == UNION {g[j] : j \in A}
<1> HIDE DEF U, V
<1>3. (\A y : y \in U <=> \E j \in B : y \in f[j]) /\ (\A y : y \in V <=> \E j \in A : y \in g[j])
  BY <1>1, <1>2 DEF U, V
<1>4. ASSUME B = A PROVE U = V
  BY <1>3, <1>4
<1>5. ASSUME B = A \cup {x} PROVE U = V \cup f[x]
  <2>1. \A y : y \in U <=> y \in V \/ y \in f[x]
    BY <1>3, <1>5
  <2> QED BY <2>1
<1> QED BY <1>4, <1>5 DEF U, V

LEMMA NamesAppend ==
  ASSUME NEW s, IsSeq(s), NEW t, t.o # "new", NEW c
  PROVE  LET u == Append(s, t) K == Reached(s) IN
         /\ t.o \in Namers(c) => NamesIn(u, K, c) = NamesIn(s, K, c) \cup {t.a[1].w}
         /\ t.o \notin Namers(c) => NamesIn(u, K, c) = NamesIn(s, K, c)
         /\ t.o \in Inliners(c) => InlineIn(u, K, c) = InlineIn(s, K, c) \cup ItemsGiven(t)
         /\ t.o \notin Inliners(c) => InlineIn(u, K, c) = InlineIn(s, K, c)
<1> DEFINE u == Append(s, t)
           K == Reached(s)
           new == Len(s) + 1
           N == Namers(c)
           I == Inliners(c)
<1>0. Grows(s, t, N) /\ Grows(s, t, I)
  BY AmongAppend
<1>2. /\ t.o \in N => NamesIn(u, K, c) = NamesIn(s, K, c) \cup {t.a[1].w}
      /\ t.o \notin N => NamesIn(u, K, c) = NamesIn(s, K, c)
  <2> DEFINE A == Among(s, K, N)
             B == Among(u, K, N)
  <2>1. (t.o \in N => B = A \cup {new}) /\ (t.o \notin N => B = A) /\ u[new] = t /\ \A j \in A : u[j] = s[j]
    BY <1>0 DEF Grows
  <2>2. NamesIn(u, K, c) = {u[j].a[1].w : j \in B} /\ NamesIn(s, K, c) = {s[j].a[1].w : j \in A}
    BY DEF NamesIn
  <2> HIDE DEF A, B, u, K, new, N
  <2> QED BY <2>1, <2>2
<1>3. /\ t.o \in I => InlineIn(u, K, c) = InlineIn(s, K, c) \cup ItemsGiven(t)
      /\ t.o \notin I => InlineIn(u, K, c) = InlineIn(s, K, c)
  <2> DEFINE A == Among(s, K, I)
             B == Among(u, K, I)
  <2>1. (t.o \in I => B = A \cup {new}) /\ (t.o \notin I => B = A) /\ u[new] = t /\ \A j \in A : u[j] = s[j]
    BY <1>0 DEF Grows
  <2>2. /\ InlineIn(u, K, c) = UNION {ItemsGiven(u[j]) : j \in B}
        /\ InlineIn(s, K, c) = UNION {ItemsGiven(s[j]) : j \in A}
    <3>1. /\ InlineIn(u, K, c) = UNION {ItemsGiven(u[j]) : j \in Among(u, K, Inliners(c))}
          /\ InlineIn(s, K, c) = UNION {ItemsGiven(s[j]) : j \in Among(s, K, Inliners(c))}
      <4> HIDE DEF A, B, u, K, new, I
      <4> QED BY DEF InlineIn
    <3> QED BY <3>1
  <2> HIDE DEF A, B, u, K, new, I
  <2> DEFINE f == [j \in A \cup B |-> ItemsGiven(u[j])]
             g == [j \in A |-> ItemsGiven(s[j])]
  <2>3. {ItemsGiven(u[j]) : j \in B} = {f[j] : j \in B} /\ {ItemsGiven(s[j]) : j \in A} = {g[j] : j \in A}
    OBVIOUS
  <2>4. new \in B => f[new] = ItemsGiven(t)
    BY <2>1
  <2>a. \A j \in A : f[j] = g[j]
    BY <2>1
  <2> HIDE DEF f, g
  <2>5. /\ B = A => UNION {f[j] : j \in B} = UNION {g[j] : j \in A}
        /\ B = A \cup {new} => UNION {f[j] : j \in B} = (UNION {g[j] : j \in A}) \cup f[new]
    BY <2>a, UnionMore
  <2>6. B = A \cup {new} => new \in B
    OBVIOUS
  <2> QED BY <2>1, <2>2, <2>3, <2>4, <2>5, <2>6
<1> QED BY <1>2, <1>3

LEMMA ItemsAppend ==
  ASSUME NEW s, IsSeq(s), NEW t, t.o # "new", NEW o
  PROVE  LET u == Append(s, t) K == Reached(s) IN
         /\ t.o # o => ItemsIn(u, K, o) = ItemsIn(s, K, o) /\ PortsIn(u, K, o) = PortsIn(s, K, o)
         /\ t.o = o => /\ ItemsIn(u, K, o) = ItemsIn(s, K, o) \cup {t.a[n] : n \in DOMAIN t.a}
                       /\ PortsIn(u, K, o) = PortsIn(s, K, o)
                            \cup ({Span(i) : i \in {x \in {t.a[n] : n \in DOMAIN t.a} : x.w # "*"}} \ AllOrNone)
<1> DEFINE u == Append(s, t)
           K == Reached(s)
           new == Len(s) + 1
           more == {t.a[n] : n \in DOMAIN t.a}
           A == Among(s, K, {o})
           B == Among(u, K, {o})
<1>0. Grows(s, t, {o})
  BY AmongAppend
<1>1. (t.o = o => B = A \cup {new}) /\ (t.o # o => B = A) /\ u[new] = t /\ \A j \in A : u[j] = s[j]
  BY <1>0 DEF Grows
<1> DEFINE f == [j \in A \cup B |-> {u[j].a[n] : n \in DOMAIN u[j].a}]
           g == [j \in A |-> {s[j].a[n] : n \in DOMAIN s[j].a}]
<1>2. ItemsIn(u, K, o) = UNION {f[j] : j \in B} /\ ItemsIn(s, K, o) = UNION {g[j] : j \in A}
  <2>1. /\ ItemsIn(u, K, o) = UNION {{u[j].a[n] : n \in DOMAIN u[j].a} : j \in B}
        /\ ItemsIn(s, K, o) = UNION {{s[j].a[n] : n \in DOMAIN s[j].a} : j \in A}
    BY DEF ItemsIn
  <2> HIDE DEF A, B, u, K
  <2>2. {{u[j].a[n] : n \in DOMAIN u[j].a} : j \in B} = {f[j] : j \in B}
    OBVIOUS
  <2>3. {{s[j].a[n] : n \in DOMAIN s[j].a} : j \in A} = {g[j] : j \in A}
    OBVIOUS
  <2> HIDE DEF f, g
  <2> QED BY <2>1, <2>2, <2>3
<1>3. (\A j \in A : f[j] = g[j]) /\ (new \in B => f[new] = more)
  <2> HIDE DEF A, B, u, new
  <2> QED BY <1>1
<1> HIDE DEF f, g, A, B, u, K, new, more
<1>4. /\ B = A => UNION {f[j] : j \in B} = UNION {g[j] : j \in A}
      /\ B = A \cup {new} => UNION {f[j] : j \in B} = (UNION {g[j] : j \in A}) \cup f[new]
  <2>1. \A j \in A : f[j] = g[j]
    BY <1>3
  <2> QED BY <2>1, UnionMore
<1>5. B = A \cup {new} => new \in B
  OBVIOUS
<1>6. (t.o # o => ItemsIn(u, K, o) = ItemsIn(s, K, o)) /\ (t.o = o => ItemsIn(u, K, o) = ItemsIn(s, K, o) \cup more)
  BY <1>1, <1>2, <1>3, <1>4, <1>5
<1>7. t.o # o => PortsIn(u, K, o) = PortsIn(s, K, o)
  BY <1>6 DEF PortsIn
<1>8. t.o = o => PortsIn(u, K, o) = PortsIn(s, K, o) \cup ({Span(i) : i \in {x \in more : x.w # "*"}} \ AllOrNone)
  BY <1>6 DEF PortsIn
<1> QED BY <1>6, <1>7, <1>8 DEF u, K, more

LEMMA SkipsAppend ==
  ASSUME NEW s, IsSeq(s), NEW t, t.o # "new"
  PROVE  Skips(Append(s, t), Reached(s)) <=> Skips(s, Reached(s)) \/ t.o = "skip"
<1> DEFINE u == Append(s, t)
           K == Reached(s)
           new == Len(s) + 1
<1>1. Part(u, K) = Part(s, K) \cup {new} /\ u[new] = t /\ \A j \in Part(s, K) : u[j] = s[j]
  BY PartAppend, NewsAppend
<1> HIDE DEF u, K, new
<1> QED BY <1>1 DEF Skips, u, K

\* The parts that have ended, in their order.
LEMMA EndedFacts ==
  ASSUME NEW s, IsSeq(s)
  PROVE  /\ IsFiniteSet(Ended(s)) /\ Cardinality(Ended(s)) \in Nat
         /\ \A k \in Ended(s) : k \in Nat /\ k < Reached(s) /\ Rank(s, k) \in 1 .. Cardinality(Ended(s))
<1>1. Reached(s) \in Nat
  BY NewsAppend
<1>2. IsFiniteSet(Ended(s)) /\ Cardinality(Ended(s)) \in Nat
  <2>1. IsFiniteSet(0 .. Reached(s) - 1)
    BY <1>1, FS_Interval
  <2> QED BY <2>1, FS_Subset, FS_CardinalityType DEF Ended
<1>3. ASSUME NEW k \in Ended(s) PROVE k \in Nat /\ k < Reached(s) /\ Rank(s, k) \in 1 .. Cardinality(Ended(s))
  <2>1. k \in Nat /\ k < Reached(s)
    BY <1>1 DEF Ended
  <2> DEFINE B == {r \in Ended(s) : r <= k}
  <2>2. B \subseteq Ended(s) /\ k \in B
    BY <2>1
  <2> HIDE DEF B
  <2>3. IsFiniteSet(B) /\ Cardinality(B) \in Nat /\ Cardinality(B) <= Cardinality(Ended(s))
    BY <1>2, <2>2, FS_Subset, FS_CardinalityType
  <2>4. Cardinality(B) # 0
    BY <2>2, <2>3, FS_EmptySet
  <2> QED BY <1>2, <2>1, <2>3, <2>4 DEF Rank, B
<1> QED BY <1>2, <1>3

LEMMA EndedSame ==
  ASSUME NEW s, IsSeq(s), NEW t, t.o # "new"
  PROVE  LET u == Append(s, t) IN
         Reached(u) = Reached(s) /\ Ended(u) = Ended(s) /\ \A k : Rank(u, k) = Rank(s, k)
<1> DEFINE u == Append(s, t)
<1>1. Reached(u) = Reached(s) /\ Reached(s) \in Nat
  BY NewsAppend
<1>2. \A k \in 0 .. Reached(s) - 1 : k # Reached(s)
  BY <1>1
<1>3. \A k \in 0 .. Reached(s) - 1 : Skips(u, k) <=> Skips(s, k)
  BY <1>2, SamePart
<1> HIDE DEF u
<1>4. Ended(u) = Ended(s)
  BY <1>1, <1>3 DEF Ended
<1> QED BY <1>1, <1>4 DEF Rank, u

LEMMA EndedMore ==
  ASSUME NEW s, IsSeq(s), NEW t, t.o = "new"
  PROVE  LET u == Append(s, t) K == Reached(s) IN
         /\ Reached(u) = K + 1 /\ \A k : Skips(u, k) <=> Skips(s, k)
         /\ Ended(u) = Ended(s) \cup IF Skips(s, K) THEN {} ELSE {K}
         /\ \A k \in Ended(s) : Rank(u, k) = Rank(s, k)
         /\ Cardinality(Ended(u)) = Cardinality(Ended(s)) + IF Skips(s, K) THEN 0 ELSE 1
         /\ ~Skips(s, K) => Rank(u, K) = Cardinality(Ended(s)) + 1
<1> DEFINE u == Append(s, t)
           K == Reached(s)
<1>1. Reached(u) = K + 1 /\ K \in Nat
  BY NewsAppend
<1>2. \A k : Skips(u, k) <=> Skips(s, k)
  BY SamePart
<1>3. IsFiniteSet(Ended(s)) /\ \A k \in Ended(s) : k \in Nat /\ k < K
  BY EndedFacts
<1> HIDE DEF u, K
<1>4. Ended(u) = Ended(s) \cup IF Skips(s, K) THEN {} ELSE {K}
  <2>1. 0 .. K + 1 - 1 = (0 .. K - 1) \cup {K}
    BY <1>1
  <2> QED BY <1>1, <1>2, <2>1 DEF Ended, K
<1>5. ASSUME NEW k \in Ended(s) PROVE Rank(u, k) = Rank(s, k)
  <2>1. k \in Nat /\ ~(K <= k)
    BY <1>1, <1>3
  <2>2. {r \in Ended(u) : r <= k} = {r \in Ended(s) : r <= k}
    BY <1>4, <2>1
  <2> QED BY <2>2 DEF Rank
<1>6. K \notin Ended(s)
  BY <1>1, <1>3
<1>7. Cardinality(Ended(s) \cup {K}) = Cardinality(Ended(s)) + 1 /\ Ended(s) \cup {} = Ended(s)
      /\ Cardinality(Ended(s)) \in Nat
  BY <1>3, <1>6, FS_AddElement, FS_CardinalityType
<1>8. ASSUME ~Skips(s, K) PROVE Rank(u, K) = Cardinality(Ended(s)) + 1
  <2>1. {r \in Ended(u) : r <= K} = Ended(s) \cup {K}
    BY <1>1, <1>3, <1>4, <1>8
  <2> QED BY <1>7, <2>1 DEF Rank
<1> QED BY <1>1, <1>2, <1>4, <1>5, <1>7, <1>8 DEF u, K

-----------------------------------------------------------------------------
(* Lists, ports and splits of a profile, with one more option.               *)

LEMMA ItemsAreIn ==
  ASSUME NEW p, NEW fs, NEW c
  PROVE  \A y : y \in ItemsAre(p, fs, c) <=> \E i \in p.on[c] : Blank(fs[i].file) /\ y \in fs[i].items
<1> DEFINE J == {i \in p.on[c] : fs[i].file = ""}
<1>1. \A i : i \in J <=> i \in p.on[c] /\ Blank(fs[i].file)
  BY Zenon DEF Blank
<1>2. ItemsAre(p, fs, c) = UNION {fs[i].items : i \in J}
  BY DEF ItemsAre
<1> HIDE DEF J
<1> QED BY <1>1, <1>2

LEMMA FilesAreIn ==
  ASSUME NEW p, NEW fs, NEW c
  PROVE  \A y : y \in FilesAre(p, fs, c) <=> ~Blank(y) /\ \E i \in p.on[c] : y = fs[i].file
<1>1. FilesAre(p, fs, c) = {y \in {fs[i].file : i \in p.on[c]} : ~Blank(y)}
  <2>1. \A y : y \in {""} <=> Blank(y)
    BY Zenon DEF Blank
  <2>2. FilesAre(p, fs, c) = {fs[i].file : i \in p.on[c]} \ {""}
    BY DEF FilesAre
  <2> DEFINE X == {fs[i].file : i \in p.on[c]}
             E == {""}
  <2>3. \A y : y \in E <=> Blank(y)
    BY <2>1 DEF E
  <2> HIDE DEF X, E
  <2>4. X \ E = {y \in X : ~Blank(y)}
    BY <2>3
  <2> QED BY <2>2, <2>4 DEF X, E
<1> QED BY <1>1

LEMMA SameHeld ==
  ASSUME NEW p, NEW q, NEW fs, NEW gs, NEW c, q.on[c] = p.on[c], Unchanged(p.on[c], fs, gs)
  PROVE  FilesAre(q, gs, c) = FilesAre(p, fs, c) /\ ItemsAre(q, gs, c) = ItemsAre(p, fs, c)
<1>a. \A y : y \in ItemsAre(p, fs, c) <=> \E n \in p.on[c] : Blank(fs[n].file) /\ y \in fs[n].items
  BY ItemsAreIn
<1>b. \A y : y \in ItemsAre(q, gs, c) <=> \E n \in q.on[c] : Blank(gs[n].file) /\ y \in gs[n].items
  BY ItemsAreIn
<1>c. \A y : y \in FilesAre(p, fs, c) <=> ~Blank(y) /\ \E n \in p.on[c] : y = fs[n].file
  BY FilesAreIn
<1>d. \A y : y \in FilesAre(q, gs, c) <=> ~Blank(y) /\ \E n \in q.on[c] : y = gs[n].file
  BY FilesAreIn
<1>1. \A y : y \in ItemsAre(q, gs, c) <=> y \in ItemsAre(p, fs, c)
  BY <1>a, <1>b DEF Unchanged
<1>2. \A y : y \in FilesAre(q, gs, c) <=> y \in FilesAre(p, fs, c)
  BY <1>c, <1>d DEF Unchanged
<1> QED BY <1>1, <1>2

\* The list i joins the collection c, which gives it the name of the list or the items W.
TakesFile(p, q, fs, gs, c, i) ==
  q.on[c] = p.on[c] \cup {i} /\ Unchanged(p.on[c], fs, gs) /\ ~Blank(gs[i].file)
Filled(p, q, fs, gs, c, i, W) ==
  /\ q.on[c] = p.on[c] \cup {i} /\ Unchanged(p.on[c] \ {i}, fs, gs) /\ Blank(gs[i].file)
  /\ (i \notin p.on[c] /\ gs[i].items = W) \/ (Blank(fs[i].file) /\ i \in p.on[c] /\ gs[i].items = fs[i].items \cup W)

GainsFile(p, q, fs, gs, c, i) ==
  FilesAre(q, gs, c) = FilesAre(p, fs, c) \cup {gs[i].file} /\ ItemsAre(q, gs, c) = ItemsAre(p, fs, c)
GainsItems(p, q, fs, gs, c, W) ==
  FilesAre(q, gs, c) = FilesAre(p, fs, c) /\ ItemsAre(q, gs, c) = ItemsAre(p, fs, c) \cup W

LEMMA NamedLists ==
  ASSUME NEW p, NEW q, NEW fs, NEW gs, NEW c, NEW i, TakesFile(p, q, fs, gs, c, i)
  PROVE  GainsFile(p, q, fs, gs, c, i)
<1>0. q.on[c] = p.on[c] \cup {i} /\ Unchanged(p.on[c], fs, gs) /\ ~Blank(gs[i].file)
  BY DEF TakesFile
<1>a. \A y : y \in ItemsAre(p, fs, c) <=> \E n \in p.on[c] : Blank(fs[n].file) /\ y \in fs[n].items
  BY ItemsAreIn
<1>b. \A y : y \in ItemsAre(q, gs, c) <=> \E n \in q.on[c] : Blank(gs[n].file) /\ y \in gs[n].items
  BY ItemsAreIn
<1>c. \A y : y \in FilesAre(p, fs, c) <=> ~Blank(y) /\ \E n \in p.on[c] : y = fs[n].file
  BY FilesAreIn
<1>d. \A y : y \in FilesAre(q, gs, c) <=> ~Blank(y) /\ \E n \in q.on[c] : y = gs[n].file
  BY FilesAreIn
<1>1. \A y : y \in ItemsAre(q, gs, c) <=> y \in ItemsAre(p, fs, c)
  BY <1>0, <1>a, <1>b DEF Unchanged
<1>2. \A y : y \in FilesAre(q, gs, c) <=> y \in FilesAre(p, fs, c) \/ y = gs[i].file
  BY <1>0, <1>c, <1>d DEF Unchanged
<1>3. FilesAre(q, gs, c) = FilesAre(p, fs, c) \cup {gs[i].file} /\ ItemsAre(q, gs, c) = ItemsAre(p, fs, c)
  BY <1>1, <1>2
<1> QED BY <1>3 DEF GainsFile

\* A list without a file that grows: it is new, or the profile has it.
LEMMA FilledLists ==
  ASSUME NEW p, NEW q, NEW fs, NEW gs, NEW c, NEW i, NEW W, Filled(p, q, fs, gs, c, i, W)
  PROVE  GainsItems(p, q, fs, gs, c, W)
<1>0. /\ q.on[c] = p.on[c] \cup {i} /\ Unchanged(p.on[c] \ {i}, fs, gs) /\ Blank(gs[i].file)
      /\ (i \notin p.on[c] /\ gs[i].items = W) \/ (Blank(fs[i].file) /\ i \in p.on[c] /\ gs[i].items = fs[i].items \cup W)
  BY DEF Filled
<1>a. \A y : y \in ItemsAre(p, fs, c) <=> \E n \in p.on[c] : Blank(fs[n].file) /\ y \in fs[n].items
  BY ItemsAreIn
<1>b. \A y : y \in ItemsAre(q, gs, c) <=> \E n \in q.on[c] : Blank(gs[n].file) /\ y \in gs[n].items
  BY ItemsAreIn
<1>c. \A y : y \in FilesAre(p, fs, c) <=> ~Blank(y) /\ \E n \in p.on[c] : y = fs[n].file
  BY FilesAreIn
<1>d. \A y : y \in FilesAre(q, gs, c) <=> ~Blank(y) /\ \E n \in q.on[c] : y = gs[n].file
  BY FilesAreIn
<1>1. \A y : y \in ItemsAre(q, gs, c) <=> y \in ItemsAre(p, fs, c) \/ y \in W
  <2>1. CASE i \notin p.on[c] /\ gs[i].items = W
    BY <1>0, <2>1, <1>a, <1>b DEF Unchanged
  <2>2. CASE Blank(fs[i].file) /\ i \in p.on[c] /\ gs[i].items = fs[i].items \cup W
    BY <1>0, <2>2, <1>a, <1>b DEF Unchanged
  <2> QED BY <1>0, <2>1, <2>2
<1>2. \A y : y \in FilesAre(q, gs, c) <=> y \in FilesAre(p, fs, c)
  <2>1. CASE i \notin p.on[c]
    BY <1>0, <2>1, <1>c, <1>d DEF Unchanged
  <2>2. CASE Blank(fs[i].file)
    BY <1>0, <2>2, <1>c, <1>d DEF Unchanged
  <2> QED BY <1>0, <2>1, <2>2
<1>3. FilesAre(q, gs, c) = FilesAre(p, fs, c) /\ ItemsAre(q, gs, c) = ItemsAre(p, fs, c) \cup W
  BY <1>1, <1>2
<1> QED BY <1>3 DEF GainsItems

ListNames == DOMAIN NamedList \cup DOMAIN InlineList \cup {"hostlist_auto"}

LEMMA ListNamesAre ==
  /\ DOMAIN NamedList = {"hostlist", "hostlist_exclude", "ipset", "ipset_exclude"}
  /\ DOMAIN InlineList = {"hostlist_domains", "hostlist_exclude_domains", "ipset_ip", "ipset_exclude_ip"}
  /\ \A o \in DOMAIN NamedList : NamedList[o] \in Collections
  /\ \A o \in DOMAIN InlineList : InlineList[o] \in Collections
  /\ {"new", "skip", "fake_tls", "fake_tls_mod"} \cap ListNames = {}
  /\ \A o \in ListNames : o \notin SplitNames /\ o \notin {"filter_tcp", "filter_udp"}
BY DEF NamedList, InlineList, Collections, ListNames, SplitNames

LEMMA WhichList ==
  ASSUME NEW o
  PROVE  /\ o \in DOMAIN NamedList => \A c : (o \in Namers(c) <=> c = NamedList[o]) /\ o \notin Inliners(c)
         /\ o \in DOMAIN InlineList => \A c : o \notin Namers(c) /\ (o \in Inliners(c) <=> c = InlineList[o])
         /\ o = "hostlist_auto" => \A c : (o \in Namers(c) <=> c = "hl") /\ o \notin Inliners(c)
         /\ o \notin ListNames => \A c : o \notin Namers(c) /\ o \notin Inliners(c)
<1>1. \A c : o \in Namers(c) <=> (o \in DOMAIN NamedList /\ NamedList[o] = c) \/ (o = "hostlist_auto" /\ c = "hl")
  BY DEF Namers
<1>2. \A c : o \in Inliners(c) <=> o \in DOMAIN InlineList /\ InlineList[o] = c
  BY DEF Inliners
<1>3. o \in DOMAIN NamedList => o \notin DOMAIN InlineList /\ o # "hostlist_auto"
  BY ListNamesAre
<1>4. o = "hostlist_auto" => o \notin DOMAIN InlineList /\ o \notin DOMAIN NamedList
  BY ListNamesAre
<1>5. o \notin ListNames => o \notin DOMAIN InlineList /\ o \notin DOMAIN NamedList /\ o # "hostlist_auto"
  BY DEF ListNames
<1> QED BY <1>1, <1>2, <1>3, <1>4, <1>5

LEMMA SameLists ==
  ASSUME NEW s, IsSeq(s), NEW t, t.o # "new", t.o \notin ListNames,
         NEW p, NEW q, NEW fs, q.on = p.on, Lists(p, fs, s, Reached(s))
  PROVE  Lists(q, fs, Append(s, t), Reached(s))
<1> DEFINE u == Append(s, t)
           K == Reached(s)
<1>1. ASSUME NEW c \in Collections PROVE FilesAre(q, fs, c) = NamesIn(u, K, c) /\ ItemsAre(q, fs, c) = InlineIn(u, K, c)
  <2>1. NamesIn(u, K, c) = NamesIn(s, K, c) /\ InlineIn(u, K, c) = InlineIn(s, K, c)
    <3>1. t.o \notin Namers(c) /\ t.o \notin Inliners(c)
      BY WhichList
    <3> QED BY <3>1, NamesAppend
  <2>2. FilesAre(q, fs, c) = FilesAre(p, fs, c) /\ ItemsAre(q, fs, c) = ItemsAre(p, fs, c)
    BY SameHeld DEF Unchanged
  <2> HIDE DEF u, K
  <2> QED BY <2>1, <2>2 DEF Lists, K
<1> QED BY <1>1 DEF Lists

LEMMA SamePorts ==
  ASSUME NEW s, IsSeq(s), NEW t, t.o # "new", t.o \notin {"filter_tcp", "filter_udp"},
         NEW p, NEW q, q.tcp = p.tcp, q.udp = p.udp, Opens(p, s, Reached(s))
  PROVE  Opens(q, Append(s, t), Reached(s))
BY ItemsAppend DEF Opens

LEMMA SameSplits ==
  ASSUME NEW s, IsSeq(s), NEW t, t.o # "new", t.o \notin SplitNames,
         NEW p, NEW q, q.splits = p.splits, Divides(p, s, Reached(s))
  PROVE  Divides(q, Append(s, t), Reached(s))
<1> DEFINE u == Append(s, t)
           K == Reached(s)
<1>1. Among(u, K, SplitNames) = Among(s, K, SplitNames)
  <2>1. Grows(s, t, SplitNames)
    BY AmongAppend
  <2> QED BY <2>1 DEF Grows
<1>2. ItemsIn(u, K, "split_pos") = ItemsIn(s, K, "split_pos")
  BY ItemsAppend DEF SplitNames
<1> HIDE DEF u, K
<1>3. Divides(p, s, K)
  BY DEF K
<1>4. Divides(q, u, K)
  BY <1>1, <1>2, <1>3 DEF Divides
<1> QED BY <1>4 DEF u, K

LEMMA ConcatIsSeq ==
  ASSUME NEW s, NEW r, IsSeq(s), IsSeq(r)
  PROVE  /\ IsSeq(s \o r) /\ Len(s \o r) = Len(s) + Len(r) /\ Len(s) \in Nat /\ Len(r) \in Nat
         /\ DOMAIN s = 1 .. Len(s) /\ DOMAIN r = 1 .. Len(r) /\ DOMAIN (s \o r) = 1 .. Len(s) + Len(r)
         /\ \A i \in 1 .. Len(s) : (s \o r)[i] = s[i]
         /\ \A i \in 1 .. Len(r) : (s \o r)[Len(s) + i] = r[i]
<1> DEFINE S == {s[i] : i \in DOMAIN s} \cup {r[i] : i \in DOMAIN r}
<1>1. /\ s \in Seq({s[i] : i \in DOMAIN s}) /\ {s[i] : i \in DOMAIN s} \subseteq S
      /\ r \in Seq({r[i] : i \in DOMAIN r}) /\ {r[i] : i \in DOMAIN r} \subseteq S
  BY DEF IsSeq
<1> HIDE DEF S
<1>2. s \in Seq(S) /\ r \in Seq(S)
  BY <1>1
<1>3. /\ s \o r \in Seq(S) /\ Len(s \o r) = Len(s) + Len(r) /\ Len(s) \in Nat /\ Len(r) \in Nat
      /\ DOMAIN s = 1 .. Len(s) /\ DOMAIN r = 1 .. Len(r) /\ DOMAIN (s \o r) = 1 .. Len(s) + Len(r)
      /\ \A i \in 1 .. Len(s) : (s \o r)[i] = s[i]
      /\ \A i \in 1 .. Len(r) : (s \o r)[Len(s) + i] = r[i]
  BY <1>2
<1>4. IsSeq(s \o r)
  BY <1>3, SeqIsSeq
<1> QED BY <1>3, <1>4

\* What the positions of an option become: they follow those the profile has.
Extended(old, new, items) ==
  /\ IsSeq(new) /\ Len(old) \in Nat /\ Len(new) \in Nat /\ Len(old) + 1 <= Len(new)
  /\ \A n \in DOMAIN old : n \in DOMAIN new /\ new[n] = old[n]
  /\ \A i \in items : \E n \in DOMAIN new : new[n] \in SplitPos(i)

LEMMA SplitsExtend ==
  ASSUME NEW t \in LineOption(written), t.o \in SplitNames, IsSeq(Here.splits), NEW new \in Splits(t)
  PROVE  Extended(Here.splits, new, IF t.o = "split_pos" THEN {t.a[n] : n \in DOMAIN t.a} ELSE {})
<1> DEFINE old == Here.splits
<1>1. CASE t.o = "split_pos"
  <2> DEFINE a == t.a
             r == [i \in DOMAIN a |-> CHOOSE p \in SplitPos(a[i]) : TRUE]
             room == MaxSplits[system.name]
  <2>1. new \in SplitPosList(a, old, room)
    BY <1>1 DEF Splits
  <2>2. new = old \o r /\ a # <<>> /\ \A i \in DOMAIN a : SplitPos(a[i]) # {}
    BY <2>1 DEF SplitPosList
  <2>3. a \in Seq([w : STRING, k : Seq(Int)])
    BY OptionFacts
  <2>4. IsSeq(r) /\ Len(r) = Len(a) /\ DOMAIN r = DOMAIN a /\ DOMAIN a = 1 .. Len(a) /\ Len(a) \in Nat \ {0}
    <3> HIDE DEF a
    <3>1. DOMAIN a = 1 .. Len(a) /\ Len(a) \in Nat \ {0}
      BY <2>2, <2>3
    <3>2. r \in Seq({r[i] : i \in DOMAIN r})
      <4>1. r \in [1 .. Len(a) -> {r[i] : i \in DOMAIN r}]
        BY <3>1
      <4> HIDE DEF r
      <4> QED BY <3>1, <4>1
    <3>3. DOMAIN r = 1 .. Len(a)
      BY <3>1
    <3> HIDE DEF r
    <3> QED BY <3>1, <3>2, <3>3 DEF IsSeq
  <2>5. \A i \in DOMAIN a : r[i] \in SplitPos(a[i])
    BY <2>2
  <2> HIDE DEF a, r, old
  <2>6. /\ IsSeq(new) /\ Len(new) = Len(old) + Len(r) /\ Len(old) \in Nat /\ Len(r) \in Nat
        /\ DOMAIN old = 1 .. Len(old) /\ DOMAIN new = 1 .. Len(old) + Len(r)
        /\ \A i \in 1 .. Len(old) : new[i] = old[i]
        /\ \A i \in 1 .. Len(r) : new[Len(old) + i] = r[i]
    <3>1. IsSeq(old) /\ IsSeq(r) /\ new = old \o r
      BY <2>2, <2>4 DEF old
    <3> QED BY <3>1, ConcatIsSeq
  <2>7. Len(new) \in Nat /\ Len(old) + 1 <= Len(new) /\ \A n \in DOMAIN old : n \in DOMAIN new /\ new[n] = old[n]
    BY <2>4, <2>6
  <2>8. ASSUME NEW i \in DOMAIN a PROVE \E n \in DOMAIN new : new[n] \in SplitPos(a[i])
    <3>1. Len(old) + i \in DOMAIN new /\ new[Len(old) + i] = r[i]
      BY <2>4, <2>6
    <3> QED BY <2>5, <3>1
  <2> QED BY <1>1, <2>6, <2>7, <2>8 DEF Extended, a, old
<1>2. CASE t.o # "split_pos"
  <2>1. \E v : new = Append(old, v)
    <3>1. \A p : new \in OneMore(p) => \E v : new = Append(old, v)
      BY DEF OneMore
    <3>2. new \in OneMore(HttpReqPos(t.a)) \/ new \in OneMore(TlsPos(t.a))
      BY <1>2 DEF Splits, SplitNames
    <3> QED BY <3>1, <3>2
  <2>2. PICK v : new = Append(old, v)
    BY <2>1
  <2>3. /\ IsSeq(new) /\ Len(new) = Len(old) + 1 /\ Len(old) \in Nat
        /\ DOMAIN old = 1 .. Len(old) /\ DOMAIN new = 1 .. Len(old) + 1
        /\ \A i \in 1 .. Len(old) : new[i] = old[i]
    BY <2>2, AppendIsSeq
  <2> HIDE DEF old
  <2>4. Len(new) \in Nat /\ Len(old) + 1 <= Len(new) /\ \A n \in DOMAIN old : n \in DOMAIN new /\ new[n] = old[n]
    BY <2>3
  <2> QED BY <1>2, <2>3, <2>4 DEF Extended, old
<1> QED BY <1>1, <1>2

LEMMA MoreSplits ==
  ASSUME NEW s, IsSeq(s), NEW t, t.o \in SplitNames,
         NEW p, NEW q, Divides(p, s, Reached(s)),
         Extended(p.splits, q.splits, IF t.o = "split_pos" THEN {t.a[n] : n \in DOMAIN t.a} ELSE {})
  PROVE  Divides(q, Append(s, t), Reached(s))
<1> DEFINE u == Append(s, t)
           K == Reached(s)
           new == Len(s) + 1
           A == Among(s, K, SplitNames)
           B == Among(u, K, SplitNames)
           more == IF t.o = "split_pos" THEN {t.a[n] : n \in DOMAIN t.a} ELSE {}
<1>0. t.o # "new"
  BY DEF SplitNames
<1>1. B = A \cup {new} /\ new \notin A /\ IsFiniteSet(A) /\ Cardinality(A) \in Nat
  <2>1. Grows(s, t, SplitNames)
    BY <1>0, AmongAppend
  <2> QED BY <2>1 DEF Grows
<1>2. /\ t.o = "split_pos" => ItemsIn(u, K, "split_pos") = ItemsIn(s, K, "split_pos") \cup {t.a[n] : n \in DOMAIN t.a}
      /\ t.o # "split_pos" => ItemsIn(u, K, "split_pos") = ItemsIn(s, K, "split_pos")
  BY <1>0, ItemsAppend
<1>3. \A i \in ItemsIn(u, K, "split_pos") : i \in ItemsIn(s, K, "split_pos") \/ i \in more
  BY <1>2
<1>4. Divides(p, s, K) /\ Extended(p.splits, q.splits, more)
  OBVIOUS
<1> HIDE DEF u, K, new, A, more
<1>5. Cardinality(B) = Cardinality(A) + 1 /\ B # {}
  <2> HIDE DEF B
  <2> QED BY <1>1, FS_AddElement
<1>6. Cardinality(A) <= Len(p.splits)
  BY <1>4 DEF Divides, A
<1>7. Cardinality(B) <= Len(q.splits) /\ IsSeq(q.splits)
  <2>1. Len(p.splits) \in Nat /\ Len(q.splits) \in Nat /\ Len(p.splits) + 1 <= Len(q.splits) /\ IsSeq(q.splits)
    BY <1>4 DEF Extended
  <2> QED BY <1>1, <1>5, <1>6, <2>1
<1>8. ASSUME NEW i \in ItemsIn(u, K, "split_pos") PROVE \E n \in DOMAIN q.splits : q.splits[n] \in SplitPos(i)
  <2>1. CASE i \in more
    BY <1>4, <2>1 DEF Extended
  <2>2. CASE i \in ItemsIn(s, K, "split_pos")
    <3>1. PICK n \in DOMAIN p.splits : p.splits[n] \in SplitPos(i)
      BY <1>4, <2>2 DEF Divides
    <3> QED BY <1>4, <3>1 DEF Extended
  <2> QED BY <1>3, <2>1, <2>2
<1> QED BY <1>5, <1>7, <1>8 DEF Divides, u, K

\* The ranges of a filter are those of its argument; closing the other protocol adds none.
LEMMA RangesRead ==
  ASSUME NEW a, NEW f \in PortFilters(a)
  PROVE  Ranges({f[i] : i \in DOMAIN f}) = {Span(i) : i \in {x \in {a[n] : n \in DOMAIN a} : x.w # "*"}} \ AllOrNone
<1>1. DOMAIN f = DOMAIN a /\ \A n \in DOMAIN a : \E before : f[n] \in PortFilter(a[n], before)
  BY DEF PortFilters
<1>2. ASSUME NEW n \in DOMAIN a
      PROVE  /\ a[n].w = "*" => <<f[n].from, f[n].to>> \in AllOrNone
             /\ a[n].w # "*" => <<f[n].from, f[n].to>> = Span(a[n])
  <2>1. PICK before : f[n] \in PortFilter(a[n], before)
    BY <1>1
  <2>2. a[n].w = "*" => f[n].from = 1 /\ f[n].to = MaxPort
    BY <2>1 DEF PortFilter
  <2>3. ASSUME a[n].w # "*" PROVE f[n].from = a[n].k[1] /\ f[n].to = a[n].k[Len(a[n].k)]
    <3>1. f[n] \in PortRange(a[n])
      BY <2>1, <2>3, Zenon DEF PortFilter
    <3> DEFINE N(x, y) == a[n].w = "~" \/ (x = 0 /\ y = 0)
               A == {a[n].k[1]} \cap 0 .. a[n].k[Len(a[n].k)]
               B == {a[n].k[Len(a[n].k)]} \cap 0 .. MaxPort
    <3>2. PICK x \in A, y \in B : f[n] = [from |-> x, to |-> y, neg |-> N(x, y)]
      BY <3>1 DEF PortRange
    <3>3. x = a[n].k[1] /\ y = a[n].k[Len(a[n].k)]
      BY DEF A, B
    <3> HIDE DEF N
    <3> QED BY <3>2, <3>3
  <2> QED BY <2>2, <2>3 DEF AllOrNone, Span
<1> DEFINE R(n) == <<f[n].from, f[n].to>>
           D == DOMAIN a
           Star(n) == a[n].w = "*"
           P(n) == Span(a[n])
<1>3. Ranges({f[i] : i \in DOMAIN f}) = {R(n) : n \in D} \ AllOrNone
  BY <1>1 DEF Ranges
<1>4. {Span(i) : i \in {x \in {a[n] : n \in DOMAIN a} : x.w # "*"}} = {P(n) : n \in {m \in D : ~Star(m)}}
  OBVIOUS
<1>5. \A n \in D : (Star(n) => R(n) \in AllOrNone) /\ (~Star(n) => R(n) = P(n))
  BY <1>2
<1> HIDE DEF R, D, Star, P
<1>6. {R(n) : n \in D} \ AllOrNone = {P(n) : n \in {m \in D : ~Star(m)}} \ AllOrNone
  BY <1>5
<1> QED BY <1>3, <1>4, <1>6

LEMMA RangesJoin ==
  ASSUME NEW x, NEW y
  PROVE  Ranges(x \cup y) = Ranges(x) \cup Ranges(y) /\ Ranges(DenyIfEmpty(x)) = Ranges(x)
<1>1. Ranges(x \cup y) = Ranges(x) \cup Ranges(y)
  BY DEF Ranges
<1>2. Ranges({NoPort}) = {} /\ Ranges({}) = {}
  BY DEF Ranges, NoPort, AllOrNone
<1> QED BY <1>1, <1>2 DEF DenyIfEmpty

LEMMA MorePorts ==
  ASSUME NEW s, IsSeq(s), NEW t, t.o \in {"filter_tcp", "filter_udp"}, system.name = "tpws" => t.o = "filter_tcp",
         NEW f \in PortFilters(t.a), DOMAIN Here = ProfileFields, Opens(Here, s, Reached(s))
  PROVE  Opens(PortsAdded(t, f), Append(s, t), Reached(s))
<1> DEFINE u == Append(s, t)
           K == Reached(s)
           added == {f[i] : i \in DOMAIN f}
           spans == {Span(i) : i \in {x \in {t.a[n] : n \in DOMAIN t.a} : x.w # "*"}} \ AllOrNone
           q == PortsAdded(t, f)
<1>1. Ranges(added) = spans
  BY RangesRead
<1>2. /\ t.o = "filter_tcp" => /\ PortsIn(u, K, "filter_tcp") = PortsIn(s, K, "filter_tcp") \cup spans
                               /\ PortsIn(u, K, "filter_udp") = PortsIn(s, K, "filter_udp")
      /\ t.o = "filter_udp" => /\ PortsIn(u, K, "filter_udp") = PortsIn(s, K, "filter_udp") \cup spans
                               /\ PortsIn(u, K, "filter_tcp") = PortsIn(s, K, "filter_tcp")
  BY ItemsAppend
<1>3. /\ t.o = "filter_tcp" => q.tcp = Here.tcp \cup added /\ q.udp \in {Here.udp, DenyIfEmpty(Here.udp)}
      /\ t.o = "filter_udp" => q.udp = Here.udp \cup added /\ q.tcp \in {Here.tcp, DenyIfEmpty(Here.tcp)}
  BY DEF PortsAdded, ProfileFields
<1>4. Opens(Here, s, K)
  OBVIOUS
<1> HIDE DEF u, K, added, spans, q
<1>5. /\ t.o = "filter_tcp" => Ranges(q.tcp) = Ranges(Here.tcp) \cup spans /\ Ranges(q.udp) = Ranges(Here.udp)
      /\ t.o = "filter_udp" => Ranges(q.udp) = Ranges(Here.udp) \cup spans /\ Ranges(q.tcp) = Ranges(Here.tcp)
  <2>1. /\ Ranges(Here.tcp \cup added) = Ranges(Here.tcp) \cup spans
        /\ Ranges(DenyIfEmpty(Here.tcp)) = Ranges(Here.tcp)
    BY <1>1, RangesJoin
  <2>2. /\ Ranges(Here.udp \cup added) = Ranges(Here.udp) \cup spans
        /\ Ranges(DenyIfEmpty(Here.udp)) = Ranges(Here.udp)
    BY <1>1, RangesJoin
  <2> QED BY <1>3, <2>1, <2>2, Zenon
<1> QED BY <1>2, <1>4, <1>5 DEF Opens, u, K, q

-----------------------------------------------------------------------------
(* All profiles, with one more option.                                       *)

LEMMA OwnersSame ==
  ASSUME NEW ps, NEW qs, NEW fs, NEW an, IsSeq(ps), IsSeq(qs), Len(qs) = Len(ps), Owners(ps, fs, an),
         \A x \in DOMAIN ps : DOMAIN qs[x] = DOMAIN ps[x] /\ qs[x].n = ps[x].n /\ qs[x].on = ps[x].on,
         ps # <<>>
  PROVE  Owners(qs, fs, an)
<1>1. DOMAIN ps = 1 .. Len(ps) /\ DOMAIN qs = DOMAIN ps /\ Len(ps) \in DOMAIN ps
  BY DEF IsSeq
<1>2. \A x \in DOMAIN qs : Shape(qs[x], x, fs)
  BY <1>1 DEF Owners, Shape
<1> QED BY <1>1, <1>2 DEF Owners

LEMMA DescribedBefore ==
  ASSUME NEW s, IsSeq(s), NEW t, NEW k, t.o = "new" \/ k # Reached(s), NEW p, NEW fs, NEW gs,
         Described(p, fs, s, k), \A c \in Collections : Unchanged(p.on[c], fs, gs)
  PROVE  Described(p, gs, Append(s, t), k)
<1> DEFINE u == Append(s, t)
<1>1. /\ \A c : NamesIn(u, k, c) = NamesIn(s, k, c) /\ InlineIn(u, k, c) = InlineIn(s, k, c)
      /\ \A o : ItemsIn(u, k, o) = ItemsIn(s, k, o) /\ PortsIn(u, k, o) = PortsIn(s, k, o)
      /\ \A names : Among(u, k, names) = Among(s, k, names)
  BY SamePart
<1>2. \A c \in Collections : FilesAre(p, gs, c) = FilesAre(p, fs, c) /\ ItemsAre(p, gs, c) = ItemsAre(p, fs, c)
  BY SameHeld
<1> HIDE DEF u
<1>3. Lists(p, gs, u, k)
  BY <1>1, <1>2 DEF Described, Lists
<1>4. Opens(p, u, k)
  BY <1>1 DEF Described, Opens
<1>5. Divides(p, u, k)
  <2>1. /\ Among(u, k, SplitNames) = Among(s, k, SplitNames)
        /\ ItemsIn(u, k, "split_pos") = ItemsIn(s, k, "split_pos")
    BY <1>1
  <2> QED BY <2>1 DEF Described, Divides
<1> QED BY <1>3, <1>4, <1>5 DEF Described, u

LEMMA PartsStep ==
  ASSUME NEW ps, NEW qs, NEW fs, NEW gs, NEW s, NEW t, NEW sk, NEW tk, IsSeq(s), t.o # "new",
         Parts(ps, fs, s, sk), Len(qs) = Len(ps), tk <=> sk \/ t.o = "skip",
         \A x \in 1 .. Len(ps) - 1 : qs[x] = ps[x] /\ \A c \in Collections : Unchanged(ps[x].on[c], fs, gs),
         ~tk => Described(qs[Len(qs)], gs, Append(s, t), Reached(s))
  PROVE  Parts(qs, gs, Append(s, t), tk)
<1> DEFINE u == Append(s, t)
<1>1. Reached(u) = Reached(s) /\ Ended(u) = Ended(s) /\ \A k : Rank(u, k) = Rank(s, k)
  BY EndedSame
<1>2. Skips(u, Reached(s)) <=> Skips(s, Reached(s)) \/ t.o = "skip"
  BY SkipsAppend
<1>3. /\ Cardinality(Ended(s)) \in Nat
      /\ \A k \in Ended(s) : k \in Nat /\ k < Reached(s) /\ Rank(s, k) \in 1 .. Cardinality(Ended(s))
  BY EndedFacts
<1>4. ASSUME NEW k \in Ended(s) PROVE Described(qs[Rank(u, k)], gs, u, k)
  <2> DEFINE x == Rank(s, k)
  <2>1. x \in 1 .. Len(ps) - 1 /\ k # Reached(s)
    <3>1. Reached(s) \in Nat
      BY NewsAppend
    <3> QED BY <1>3, <3>1 DEF Parts
  <2>2. Described(ps[x], fs, s, k)
    BY DEF Parts
  <2>3. qs[x] = ps[x] /\ \A c \in Collections : Unchanged(ps[x].on[c], fs, gs)
    BY <2>1
  <2> HIDE DEF x
  <2>4. Described(ps[x], gs, u, k)
    BY <2>1, <2>2, <2>3, DescribedBefore
  <2> QED BY <1>1, <2>3, <2>4 DEF x
<1>5. sk <=> Skips(s, Reached(s))
  BY DEF Parts
<1>6. Len(qs) = Cardinality(Ended(s)) + 1
  BY DEF Parts
<1> HIDE DEF u
<1>7. ~tk => Described(qs[Len(qs)], gs, u, Reached(s))
  BY DEF u
<1> QED BY <1>1, <1>2, <1>4, <1>5, <1>6, <1>7 DEF Parts, u

\* A profile that has nothing yet.
Blanked(p) == p.splits = <<>> /\ p.tcp = {} /\ p.udp = {} /\ \A c \in Collections : p.on[c] = {}

LEMMA NothingGiven ==
  ASSUME NEW s, NEW k, Part(s, k) = {}, NEW p, NEW fs, Blanked(p)
  PROVE  Described(p, fs, s, k)
<1>1. \A names : Among(s, k, names) = {}
  BY DEF Among
<1>2. \A c : NamesIn(s, k, c) = {} /\ InlineIn(s, k, c) = {}
  BY <1>1 DEF NamesIn, InlineIn
<1>3. \A o : ItemsIn(s, k, o) = {}
  BY <1>1 DEF ItemsIn
<1>4. \A o : PortsIn(s, k, o) = {}
  BY <1>3 DEF PortsIn
<1>5. \A c \in Collections : FilesAre(p, fs, c) = {} /\ ItemsAre(p, fs, c) = {}
  BY DEF FilesAre, ItemsAre, Blanked
<1>6. Lists(p, fs, s, k)
  BY <1>2, <1>5 DEF Lists
<1>7. Opens(p, s, k)
  <2>1. Ranges({}) = {}
    BY DEF Ranges
  <2> QED BY <1>4, <2>1 DEF Opens, Blanked
<1>8. Divides(p, s, k)
  <2>1. IsSeq(<<>>) /\ Len(<<>>) = 0 /\ Cardinality({}) = 0
    BY FS_EmptySet DEF IsSeq
  <2>2. p.splits = <<>> /\ ItemsIn(s, k, "split_pos") = {} /\ Among(s, k, SplitNames) = {}
    BY <1>1, <1>3 DEF Blanked
  <2>3. Cardinality(Among(s, k, SplitNames)) = 0 /\ Len(p.splits) = 0
    BY <2>1, <2>2
  <2> QED BY <2>1, <2>2, <2>3 DEF Divides
<1> QED BY <1>6, <1>7, <1>8 DEF Described

LEMMA PartsNew ==
  ASSUME NEW ps, NEW qs, NEW fs, NEW s, NEW t, NEW sk, IsSeq(s), t.o = "new", Parts(ps, fs, s, sk),
         sk => Len(qs) = Len(ps), ~sk => Len(qs) = Len(ps) + 1,
         \A x \in 1 .. Len(ps) : x # Len(qs) => qs[x] = ps[x],
         Blanked(qs[Len(qs)])
  PROVE  Parts(qs, fs, Append(s, t), FALSE)
<1> DEFINE u == Append(s, t)
           K == Reached(s)
<1>1. /\ Reached(u) = K + 1 /\ \A k : Skips(u, k) <=> Skips(s, k)
      /\ Ended(u) = Ended(s) \cup IF Skips(s, K) THEN {} ELSE {K}
      /\ \A k \in Ended(s) : Rank(u, k) = Rank(s, k)
      /\ Cardinality(Ended(u)) = Cardinality(Ended(s)) + IF Skips(s, K) THEN 0 ELSE 1
      /\ ~Skips(s, K) => Rank(u, K) = Cardinality(Ended(s)) + 1
  BY EndedMore
<1>2. /\ Cardinality(Ended(s)) \in Nat
      /\ \A k \in Ended(s) : k \in Nat /\ k < K /\ Rank(s, k) \in 1 .. Cardinality(Ended(s))
  BY EndedFacts
<1>3. Part(u, K + 1) = {}
  BY PartAppend
<1>4. /\ Len(ps) = Cardinality(Ended(s)) + 1 /\ (sk <=> Skips(s, K))
      /\ \A k \in Ended(s) : Described(ps[Rank(s, k)], fs, s, k)
      /\ ~sk => Described(ps[Len(ps)], fs, s, K)
  BY DEF Parts
<1>5. \A p, k : Described(p, fs, s, k) => Described(p, fs, u, k)
  <2>1. \A p : \A c \in Collections : Unchanged(p.on[c], fs, fs)
    BY DEF Unchanged
  <2> QED BY <2>1, DescribedBefore
<1> HIDE DEF u, K
<1>6. Len(qs) = Cardinality(Ended(u)) + 1
  BY <1>1, <1>2, <1>4
<1>7. ~Skips(u, K + 1)
  BY <1>3 DEF Skips
<1>8. ASSUME NEW k \in Ended(u) PROVE Described(qs[Rank(u, k)], fs, u, k)
  <2>1. CASE k \in Ended(s)
    <3> DEFINE x == Rank(s, k)
    <3>1. x \in 1 .. Len(ps) /\ x # Len(qs) /\ Rank(u, k) = x
      <4>1. x \in 1 .. Len(ps) - 1 /\ Rank(u, k) = x /\ Len(ps) \in Nat
        BY <1>1, <1>2, <1>4, <2>1
      <4>2. Len(qs) = Len(ps) \/ Len(qs) = Len(ps) + 1
        OBVIOUS
      <4> HIDE DEF x
      <4> QED BY <4>1, <4>2
    <3>2. Described(ps[x], fs, s, k)
      BY <1>4, <2>1
    <3> HIDE DEF x
    <3>3. qs[x] = ps[x]
      BY <3>1
    <3> QED BY <1>5, <3>1, <3>2, <3>3
  <2>2. CASE k \notin Ended(s)
    <3>1. k = K /\ ~sk /\ Rank(u, k) = Len(ps) /\ Len(ps) \in 1 .. Len(ps)
      BY <1>1, <1>2, <1>4, <2>2
    <3>2. qs[Len(ps)] = ps[Len(ps)]
      <4>1. Len(qs) = Len(ps) + 1 /\ Len(qs) # Len(ps)
        BY <1>2, <1>4, <3>1
      <4> QED BY <3>1, <4>1
    <3> QED BY <1>4, <1>5, <3>1, <3>2
  <2> QED BY <2>1, <2>2
<1>9. Described(qs[Len(qs)], fs, u, K + 1)
  BY <1>3, NothingGiven
<1> QED BY <1>1, <1>6, <1>7, <1>8, <1>9 DEF Parts, u

-----------------------------------------------------------------------------
(* The options that change the profile that is described, and --new.         *)

LEMMA LastPut ==
  ASSUME NEW s, NEW x, NEW u, IsSeq(s), s # <<>>, u = [s EXCEPT ![Len(s)] = x]
  PROVE  /\ IsSeq(u) /\ Len(u) = Len(s) /\ Len(s) \in Nat \ {0}
         /\ DOMAIN u = 1 .. Len(s) /\ DOMAIN s = 1 .. Len(s)
         /\ \A i \in 1 .. Len(s) : u[i] = IF i = Len(s) THEN x ELSE s[i]
BY LastIsSeq

LEMMA Numbers ==
  ASSUME NEW m \in Nat
  PROVE  /\ \A i \in 1 .. m + 1 : i = m + 1 \/ i \in 1 .. m
         /\ \A i \in 1 .. m - 1 : i \in 1 .. m /\ i # m
         /\ \A i \in 1 .. m : i # m + 1
         /\ m + 1 \in Nat \ {0} /\ m + 1 # m
OBVIOUS

LEMMA NewLast ==
  ASSUME NEW s, NEW x, NEW u, NEW n, IsSeq(s), s # <<>>,
         (n = Len(s) /\ u = [s EXCEPT ![Len(s)] = x]) \/ (n = Len(s) + 1 /\ u = Append(s, x))
  PROVE  /\ IsSeq(u) /\ Len(u) = n /\ Len(s) \in Nat \ {0} /\ n \in Nat \ {0}
         /\ DOMAIN s = 1 .. Len(s) /\ DOMAIN u = 1 .. n /\ u[n] = x
         /\ \A i \in 1 .. Len(s) : i # n => u[i] = s[i]
         /\ \A i \in 1 .. n : i = n \/ i \in 1 .. Len(s)
<1>1. DOMAIN s = 1 .. Len(s) /\ Len(s) \in Nat \ {0}
  <2>1. DOMAIN s = 1 .. Len(s) /\ Len(s) \in Nat
    BY DEF IsSeq
  <2>2. Len(s) # 0
    BY DEF IsSeq
  <2> QED BY <2>1, <2>2
<1>2. CASE n = Len(s) /\ u = [s EXCEPT ![Len(s)] = x]
  <2>1. /\ IsSeq(u) /\ Len(u) = Len(s) /\ DOMAIN u = 1 .. Len(s)
        /\ \A i \in 1 .. Len(s) : u[i] = IF i = Len(s) THEN x ELSE s[i]
    BY <1>2, LastPut
  <2>2. n = Len(s) /\ Len(s) \in 1 .. Len(s)
    BY <1>1, <1>2
  <2>3. u[n] = x /\ \A i \in 1 .. Len(s) : i # Len(s) => u[i] = s[i]
    BY <2>1, <2>2
  <2> QED BY <1>1, <1>2, <2>1, <2>2, <2>3
<1>3. CASE n = Len(s) + 1 /\ u = Append(s, x)
  <2>1. /\ IsSeq(u) /\ Len(u) = Len(s) + 1 /\ DOMAIN u = 1 .. Len(s) + 1
        /\ \A i \in 1 .. Len(s) : u[i] = s[i]
        /\ u[Len(s) + 1] = x
    BY <1>3, AppendIsSeq
  <2>2. (\A i \in 1 .. n : i = n \/ i \in 1 .. Len(s)) /\ n \in Nat \ {0}
    BY <1>1, <1>3, Numbers
  <2> QED BY <1>1, <1>3, <2>1, <2>2
<1> QED BY <1>2, <1>3

LEMMA NoneChanged ==
  ASSUME NEW on, NEW fs
  PROVE  Unchanged(on, fs, fs)
BY DEF Unchanged

LEMMA LastFacts ==
  ASSUME ProfilesOK, IsSeq(argv)
  PROVE  /\ profiles # <<>> /\ Len(profiles) \in Nat \ {0} /\ DOMAIN profiles = 1 .. Len(profiles)
         /\ DOMAIN Here = ProfileFields /\ Here.n = Len(profiles) /\ Here.on \in [Collections -> SUBSET DOMAIN files]
         /\ \A x \in DOMAIN profiles : /\ DOMAIN profiles[x] = ProfileFields /\ profiles[x].n = x
                                       /\ profiles[x].on \in [Collections -> SUBSET DOMAIN files]
         /\ [profiles EXCEPT ![Len(profiles)] = Here] = profiles
         /\ anon \in [Collections -> Nat]
<1>1. IsSeq(profiles) /\ Owners(profiles, files, anon) /\ Parts(profiles, files, argv, skip)
  BY DEF ProfilesOK
<1>2. DOMAIN profiles = 1 .. Len(profiles) /\ Len(profiles) \in Nat
  BY <1>1 DEF IsSeq
<1>3. Len(profiles) # 0
  <2>1. Cardinality(Ended(argv)) + 1 = Len(profiles)
    BY <1>1 DEF Parts
  <2>2. Cardinality(Ended(argv)) \in Nat
    BY EndedFacts
  <2> QED BY <2>1, <2>2
<1>4. \A x \in DOMAIN profiles : Shape(profiles[x], x, files)
  BY <1>1 DEF Owners
<1>5. Len(profiles) \in DOMAIN profiles
  BY <1>2, <1>3
<1>6. [profiles EXCEPT ![Len(profiles)] = Here] = profiles
  <2>1. profiles = [x \in DOMAIN profiles |-> profiles[x]]
    BY <1>1 DEF IsSeq
  <2> QED BY <2>1 DEF Here
<1>7. anon \in [Collections -> Nat]
  BY <1>1 DEF Owners
<1>8. /\ DOMAIN Here = ProfileFields /\ Here.n = Len(profiles) /\ Here.on \in [Collections -> SUBSET DOMAIN files]
      /\ \A x \in DOMAIN profiles : /\ DOMAIN profiles[x] = ProfileFields /\ profiles[x].n = x
                                    /\ profiles[x].on \in [Collections -> SUBSET DOMAIN files]
  BY <1>4, <1>5 DEF Shape, Here
<1>9. profiles # <<>>
  BY <1>2, <1>3
<1> QED BY <1>2, <1>3, <1>6, <1>7, <1>8, <1>9

LEMMA LastStep ==
  ASSUME ProfilesOK, IsSeq(argv), NEW t, t.o \notin {"new", "skip"}, t.o \notin ListNames, NEW q,
         profiles' = [profiles EXCEPT ![Len(profiles)] = q],
         DOMAIN q = ProfileFields, q.n = Here.n, q.on = Here.on,
         argv' = Append(argv, t), UNCHANGED <<count, skip, anon, files>>,
         ~skip => Opens(q, Append(argv, t), Reached(argv)) /\ Divides(q, Append(argv, t), Reached(argv))
  PROVE  ProfilesOK'
<1>1. IsSeq(profiles) /\ profiles # <<>> /\ Owners(profiles, files, anon) /\ Parts(profiles, files, argv, skip)
  BY LastFacts DEF ProfilesOK
<1>2. /\ IsSeq(profiles') /\ Len(profiles') = Len(profiles) /\ Len(profiles) \in Nat \ {0}
      /\ DOMAIN profiles' = 1 .. Len(profiles) /\ DOMAIN profiles = 1 .. Len(profiles)
      /\ \A i \in 1 .. Len(profiles) : profiles'[i] = IF i = Len(profiles) THEN q ELSE profiles[i]
  BY <1>1, LastIsSeq
<1>3. Len(profiles) \in 1 .. Len(profiles)
  BY <1>2
<1>4. profiles'[Len(profiles)] = q
  BY <1>2, <1>3
<1>5. Owners(profiles', files, anon)
  <2>1. \A x \in DOMAIN profiles : DOMAIN profiles'[x] = DOMAIN profiles[x] /\ profiles'[x].n = profiles[x].n
                                     /\ profiles'[x].on = profiles[x].on
    BY <1>2, LastFacts DEF Here
  <2> QED BY <1>1, <1>2, <2>1, OwnersSame
<1>6. Parts(profiles', files, Append(argv, t), skip)
  <2>1. ASSUME ~skip PROVE Described(q, files, Append(argv, t), Reached(argv))
    <3>1. Lists(Here, files, argv, Reached(argv))
      BY <1>1, <2>1 DEF Parts, Described, Here
    <3>2. Lists(q, files, Append(argv, t), Reached(argv))
      <4>1. t.o # "new" /\ t.o \notin ListNames /\ q.on = Here.on
        OBVIOUS
      <4> QED BY <3>1, <4>1, SameLists
    <3> QED BY <2>1, <3>2 DEF Described
  <2>2. \A x \in 1 .. Len(profiles) - 1 :
           profiles'[x] = profiles[x] /\ \A c \in Collections : Unchanged(profiles[x].on[c], files, files)
    <3>1. \A x \in 1 .. Len(profiles) - 1 : profiles'[x] = profiles[x]
      <4>1. \A x \in 1 .. Len(profiles) - 1 : x \in 1 .. Len(profiles) /\ x # Len(profiles)
        BY <1>2, Numbers
      <4> QED BY <1>2, <4>1, Zenon
    <3> QED BY <3>1, NoneChanged
  <2>3. ~skip => Described(profiles'[Len(profiles')], files, Append(argv, t), Reached(argv))
    BY <1>2, <1>4, <2>1
  <2>4. skip <=> skip \/ t.o = "skip"
    OBVIOUS
  <2> QED BY <1>1, <1>2, <2>2, <2>3, <2>4, PartsStep
<1> QED BY <1>2, <1>5, <1>6 DEF ProfilesOK

LEMMA SettingStep ==
  ASSUME ProfilesOK, IsSeq(argv), NEW t, Redescribes({"set", "fakes", "tls_mod"}), t.o \notin {"new", "skip"}, t.o \notin ListNames,
         t.o \notin SplitNames, t.o \notin {"filter_tcp", "filter_udp"},
         argv' = Append(argv, t), UNCHANGED <<count, skip, anon, files>>
  PROVE  ProfilesOK'
<1>1. PICK q : /\ profiles' = [profiles EXCEPT ![Len(profiles)] = q] /\ DOMAIN q = ProfileFields
               /\ \A f \in ProfileFields \ {"set", "fakes", "tls_mod"} : q[f] = Here[f]
  BY LastFacts DEF Redescribes
<1>2. q.n = Here.n /\ q.on = Here.on /\ q.tcp = Here.tcp /\ q.udp = Here.udp /\ q.splits = Here.splits
  BY <1>1 DEF ProfileFields
<1>3. ASSUME ~skip PROVE Opens(q, Append(argv, t), Reached(argv)) /\ Divides(q, Append(argv, t), Reached(argv))
  <2>1. Opens(Here, argv, Reached(argv)) /\ Divides(Here, argv, Reached(argv))
    BY <1>3 DEF ProfilesOK, Parts, Described, Here
  <2> QED BY <1>2, <2>1, SamePorts, SameSplits
<1> QED BY <1>1, <1>2, <1>3, LastStep

LEMMA SplittingStep ==
  ASSUME ProfilesOK, IsSeq(argv), NEW t \in LineOption(written), Splitting(t), argv' = Append(argv, t)
  PROVE  ProfilesOK'
<1>1. PICK new \in Splits(t) : profiles' = [profiles EXCEPT ![Len(profiles)] = [Here EXCEPT !.splits = new]]
  BY DEF Splitting
<1> DEFINE q == [Here EXCEPT !.splits = new]
<1>2. /\ DOMAIN q = ProfileFields /\ q.n = Here.n /\ q.on = Here.on /\ q.tcp = Here.tcp /\ q.udp = Here.udp
      /\ q.splits = new
  BY LastFacts DEF ProfileFields
<1>3. /\ t.o \in SplitNames /\ UNCHANGED <<count, skip, anon, files>>
      /\ t.o \notin {"new", "skip"} /\ t.o \notin ListNames /\ t.o \notin {"filter_tcp", "filter_udp"}
  <2>1. t.o \in SplitNames
    BY DEF Splitting
  <2>2. t.o \notin ListNames
    BY <2>1, ListNamesAre
  <2> QED BY <2>1, <2>2 DEF Splitting, Keeps, SplitNames
<1> HIDE DEF q
<1>4. ASSUME ~skip PROVE Opens(q, Append(argv, t), Reached(argv)) /\ Divides(q, Append(argv, t), Reached(argv))
  <2>1. Opens(Here, argv, Reached(argv)) /\ Divides(Here, argv, Reached(argv))
    BY <1>4 DEF ProfilesOK, Parts, Described, Here
  <2>2. Opens(q, Append(argv, t), Reached(argv))
    BY <1>2, <1>3, <2>1, SamePorts
  <2>3. Extended(Here.splits, q.splits, IF t.o = "split_pos" THEN {t.a[n] : n \in DOMAIN t.a} ELSE {})
    <3>1. IsSeq(Here.splits)
      BY <2>1 DEF Divides
    <3> QED BY <1>2, <1>3, <3>1, SplitsExtend
  <2>4. Divides(q, Append(argv, t), Reached(argv))
    BY <1>3, <2>1, <2>3, MoreSplits
  <2> QED BY <2>2, <2>4
<1>5. profiles' = [profiles EXCEPT ![Len(profiles)] = q]
  BY <1>1 DEF q
<1> QED BY <1>2, <1>3, <1>4, <1>5, LastStep

LEMMA FilteringStep ==
  ASSUME ProfilesOK, IsSeq(argv), NEW t, Filtering(t), argv' = Append(argv, t)
  PROVE  ProfilesOK'
<1>1. PICK f \in PortFilters(t.a) : profiles' = [profiles EXCEPT ![Len(profiles)] = PortsAdded(t, f)]
  BY DEF Filtering
<1> DEFINE q == PortsAdded(t, f)
<1>2. DOMAIN q = ProfileFields /\ q.n = Here.n /\ q.on = Here.on /\ q.splits = Here.splits
  BY LastFacts DEF ProfileFields, PortsAdded
<1>3. /\ t.o \in {"filter_tcp", "filter_udp"} /\ (system.name = "tpws" => t.o = "filter_tcp")
      /\ t.o \notin {"new", "skip"} /\ t.o \notin ListNames /\ t.o \notin SplitNames
      /\ UNCHANGED <<count, skip, anon, files>>
  <2>1. t.o \in {"filter_tcp", "filter_udp"}
    BY DEF Filtering
  <2>2. t.o \notin ListNames
    BY <2>1, ListNamesAre
  <2> QED BY <2>1, <2>2 DEF Filtering, Keeps, SplitNames
<1> HIDE DEF q
<1>4. ASSUME ~skip PROVE Opens(q, Append(argv, t), Reached(argv)) /\ Divides(q, Append(argv, t), Reached(argv))
  <2>1. Opens(Here, argv, Reached(argv)) /\ Divides(Here, argv, Reached(argv))
    BY <1>4 DEF ProfilesOK, Parts, Described, Here
  <2>2. Opens(q, Append(argv, t), Reached(argv))
    BY <1>3, <2>1, LastFacts, MorePorts DEF q
  <2>3. Divides(q, Append(argv, t), Reached(argv))
    <3>1. t.o # "new"
      BY <1>3
    <3> QED BY <1>2, <1>3, <2>1, <3>1, SameSplits
  <2> QED BY <2>2, <2>3
<1>5. profiles' = [profiles EXCEPT ![Len(profiles)] = q]
  BY <1>1 DEF q
<1> QED BY <1>2, <1>3, <1>4, <1>5, LastStep

LEMMA PartingStep ==
  ASSUME ProfilesOK, IsSeq(argv), NEW t, Parting(t), argv' = Append(argv, t)
  PROVE  ProfilesOK'
<1>1. IsSeq(profiles) /\ profiles # <<>> /\ Owners(profiles, files, anon) /\ Parts(profiles, files, argv, skip)
      /\ count = Len(profiles)
  BY LastFacts DEF ProfilesOK
<1>2. CASE t.o = "skip" /\ Skip
  <2>1. skip' = TRUE /\ UNCHANGED <<profiles, count, anon, files>>
    BY <1>2 DEF Skip, lists
  <2>2. Parts(profiles, files, Append(argv, t), TRUE)
    <3>1. \A x \in 1 .. Len(profiles) - 1 :
             profiles[x] = profiles[x] /\ \A c \in Collections : Unchanged(profiles[x].on[c], files, files)
      BY NoneChanged
    <3>2. /\ t.o # "new" /\ (TRUE <=> skip \/ t.o = "skip")
          /\ (~TRUE => Described(profiles[Len(profiles)], files, Append(argv, t), Reached(argv)))
      BY <1>2
    <3>3. Len(profiles) = Len(profiles)
      OBVIOUS
    <3> QED BY <1>1, <3>1, <3>2, <3>3, PartsStep
  <2> QED BY <1>1, <2>1, <2>2 DEF ProfilesOK
<1>3. CASE t.o = "new" /\ New(Fields0(system))
  <2> DEFINE n == IF skip THEN count ELSE count + 1
             r == Fresh(n, Fields0(system))
  <2>1. /\ DOMAIN r = ProfileFields /\ r.n = n /\ r.on = [c \in Collections |-> {}] /\ Blanked(r)
    BY DEF Fresh, ProfileFields, Blanked
  <2> HIDE DEF r
  <2>2. /\ skip => profiles' = [profiles EXCEPT ![Len(profiles)] = r]
        /\ ~skip => profiles' = Append(profiles, r)
        /\ count' = n /\ skip' = FALSE /\ anon' = [c \in Collections |-> 0] /\ files' = files
    BY <1>3 DEF New, r
  <2>3. /\ IsSeq(profiles') /\ Len(profiles') = n /\ Len(profiles) \in Nat \ {0} /\ n \in Nat \ {0}
        /\ DOMAIN profiles = 1 .. Len(profiles) /\ DOMAIN profiles' = 1 .. n /\ profiles'[n] = r
        /\ \A x \in 1 .. Len(profiles) : x # n => profiles'[x] = profiles[x]
        /\ \A x \in 1 .. n : x = n \/ x \in 1 .. Len(profiles)
    <3>1. IsSeq(profiles) /\ profiles # <<>>
      BY <1>1
    <3>2. \/ n = Len(profiles) /\ profiles' = [profiles EXCEPT ![Len(profiles)] = r]
          \/ n = Len(profiles) + 1 /\ profiles' = Append(profiles, r)
      BY <1>1, <2>2
    <3> HIDE DEF n
    <3> QED BY <3>1, <3>2, NewLast
  <2>4. Parts(profiles', files, Append(argv, t), FALSE)
    <3>1. (skip => Len(profiles') = Len(profiles)) /\ (~skip => Len(profiles') = Len(profiles) + 1)
      BY <1>1, <2>3
    <3>2. Blanked(profiles'[Len(profiles')])
      BY <2>1, <2>3
    <3>3. \A x \in 1 .. Len(profiles) : x # Len(profiles') => profiles'[x] = profiles[x]
      BY <2>3
    <3> QED BY <1>1, <1>3, <3>1, <3>2, <3>3, PartsNew
  <2>5. Owners(profiles', files, anon')
    <3>1. ASSUME NEW x \in DOMAIN profiles' PROVE Shape(profiles'[x], x, files)
      <4>1. CASE x = n
        <5>1. r.on \in [Collections -> SUBSET DOMAIN files]
          BY <2>1
        <5> QED BY <2>1, <2>3, <4>1, <5>1 DEF Shape
      <4>2. CASE x # n
        <5>1. profiles'[x] = profiles[x] /\ x \in DOMAIN profiles
          BY <2>3, <4>2
        <5> QED BY <1>1, <5>1 DEF Owners
      <4> QED BY <4>1, <4>2
    <3>2. anon' \in [Collections -> Nat] /\ \A c \in Collections : anon'[c] = 0
      BY <2>2
    <3> QED BY <3>1, <3>2 DEF Owners
  <2> QED BY <2>2, <2>3, <2>4, <2>5 DEF ProfilesOK
<1> QED BY <1>2, <1>3 DEF Parting

-----------------------------------------------------------------------------
(* The options that name a list or give items of one.                        *)

LEMMA ListedStep ==
  ASSUME ProfilesOK, IsSeq(argv), ~skip, NEW t, t.o \in ListNames, NEW q,
         profiles' = [profiles EXCEPT ![Len(profiles)] = q],
         q.tcp = Here.tcp, q.udp = Here.udp, q.splits = Here.splits,
         argv' = Append(argv, t), UNCHANGED <<count, skip>>,
         Owners(profiles', files', anon'), Lists(q, files', Append(argv, t), Reached(argv)),
         \A x \in 1 .. Len(profiles) - 1 : \A c \in Collections : Unchanged(profiles[x].on[c], files, files')
  PROVE  ProfilesOK'
<1>1. IsSeq(profiles) /\ profiles # <<>> /\ Parts(profiles, files, argv, skip) /\ count = Len(profiles)
  BY LastFacts DEF ProfilesOK
<1>2. /\ IsSeq(profiles') /\ Len(profiles') = Len(profiles) /\ Len(profiles) \in Nat \ {0}
      /\ \A i \in 1 .. Len(profiles) : profiles'[i] = IF i = Len(profiles) THEN q ELSE profiles[i]
  BY <1>1, LastIsSeq
<1>3. profiles'[Len(profiles)] = q
  <2>1. Len(profiles) \in 1 .. Len(profiles)
    BY <1>2
  <2> QED BY <1>2, <2>1
<1>4. \A x \in 1 .. Len(profiles) - 1 : profiles'[x] = profiles[x]
  <2>1. \A x \in 1 .. Len(profiles) - 1 : x \in 1 .. Len(profiles) /\ x # Len(profiles)
    BY <1>2, Numbers
  <2> QED BY <1>2, <2>1, Zenon
<1>5. t.o # "new" /\ t.o # "skip" /\ t.o \notin SplitNames /\ t.o \notin {"filter_tcp", "filter_udp"}
  BY ListNamesAre
<1>6. Opens(q, Append(argv, t), Reached(argv)) /\ Divides(q, Append(argv, t), Reached(argv))
  <2>1. Opens(Here, argv, Reached(argv)) /\ Divides(Here, argv, Reached(argv))
    BY <1>1 DEF Parts, Described, Here
  <2>2. Opens(q, Append(argv, t), Reached(argv))
    BY <1>5, <2>1, SamePorts
  <2>3. Divides(q, Append(argv, t), Reached(argv))
    BY <1>5, <2>1, SameSplits
  <2> QED BY <2>2, <2>3
<1>7. Described(q, files', Append(argv, t), Reached(argv))
  BY <1>6 DEF Described
<1>8. Parts(profiles', files', Append(argv, t), skip)
  <2>1. skip <=> skip \/ t.o = "skip"
    BY <1>5
  <2>2. ~skip => Described(profiles'[Len(profiles')], files', Append(argv, t), Reached(argv))
    BY <1>2, <1>3, <1>7
  <2>3. \A x \in 1 .. Len(profiles) - 1 :
           profiles'[x] = profiles[x] /\ \A c \in Collections : Unchanged(profiles[x].on[c], files, files')
    BY <1>4
  <2> QED BY <1>1, <1>2, <1>5, <2>1, <2>2, <2>3, PartsStep
<1> QED BY <1>1, <1>2, <1>8 DEF ProfilesOK

\* The list i joins the collection c of the last profile.
Enlisted(ps, qs, c, i) ==
  /\ Len(qs) = Len(ps) /\ DOMAIN qs = DOMAIN ps /\ Len(ps) \in DOMAIN ps
  /\ qs[Len(ps)].on[c] = ps[Len(ps)].on[c] \cup {i}
  /\ \A x \in DOMAIN ps : \A d \in Collections : x # Len(ps) \/ d # c => qs[x].on[d] = ps[x].on[d]

Shaped(ps, fs) == \A x \in DOMAIN ps : Shape(ps[x], x, fs)
Joining(ps, qs, q, c, i, fs, gs) ==
  /\ IsSeq(ps) /\ ps # <<>> /\ Shaped(ps, fs) /\ i \in DOMAIN gs /\ DOMAIN fs \subseteq DOMAIN gs
  /\ DOMAIN q = ProfileFields /\ q.n = ps[Len(ps)].n /\ q.on = [ps[Len(ps)].on EXCEPT ![c] = @ \cup {i}]
  /\ c \in Collections /\ qs = [ps EXCEPT ![Len(ps)] = q]

LEMMA JoinsLast ==
  ASSUME NEW ps, NEW qs, NEW q, NEW c, NEW i, NEW fs, NEW gs, Joining(ps, qs, q, c, i, fs, gs)
  PROVE  Enlisted(ps, qs, c, i) /\ Shaped(qs, gs)
<1>0. /\ IsSeq(ps) /\ ps # <<>> /\ (\A x \in DOMAIN ps : Shape(ps[x], x, fs)) /\ i \in DOMAIN gs /\ DOMAIN fs \subseteq DOMAIN gs
      /\ DOMAIN q = ProfileFields /\ q.n = ps[Len(ps)].n /\ q.on = [ps[Len(ps)].on EXCEPT ![c] = @ \cup {i}]
      /\ c \in Collections /\ qs = [ps EXCEPT ![Len(ps)] = q]
  BY DEF Joining, Shaped
<1>1. /\ Len(qs) = Len(ps) /\ Len(ps) \in Nat \ {0} /\ DOMAIN qs = 1 .. Len(ps) /\ DOMAIN ps = 1 .. Len(ps)
      /\ \A x \in 1 .. Len(ps) : qs[x] = IF x = Len(ps) THEN q ELSE ps[x]
  BY <1>0, LastPut
<1>2. Len(ps) \in DOMAIN ps
  <2>1. Len(ps) \in Nat \ {0} /\ DOMAIN ps = 1 .. Len(ps)
    BY <1>1
  <2> QED BY <2>1
<1>3. qs[Len(ps)] = q /\ \A x \in DOMAIN ps : x # Len(ps) => qs[x] = ps[x]
  BY <1>1, <1>2
<1> DEFINE on == ps[Len(ps)].on
<1>4. on \in [Collections -> SUBSET DOMAIN fs]
  BY <1>0, <1>2 DEF Shape
<1>5. /\ q.on \in [Collections -> SUBSET DOMAIN gs] /\ q.on[c] = on[c] \cup {i}
      /\ \A d \in Collections : d # c => q.on[d] = on[d]
  <2> HIDE DEF on
  <2>1. q.on = [on EXCEPT ![c] = on[c] \cup {i}]
    BY <1>0 DEF on
  <2>2. c \in Collections /\ i \in DOMAIN gs /\ DOMAIN fs \subseteq DOMAIN gs
    BY <1>0
  <2>3. on \in [Collections -> SUBSET DOMAIN gs]
    BY <1>4, <2>2
  <2> QED BY <2>1, <2>2, <2>3
<1>6. Enlisted(ps, qs, c, i)
  BY <1>1, <1>2, <1>3, <1>5 DEF Enlisted
<1>7. Shape(q, Len(ps), gs)
  BY <1>0, <1>2, <1>5 DEF Shape
<1>8. ASSUME NEW x \in DOMAIN qs PROVE Shape(qs[x], x, gs)
  <2>1. CASE x = Len(ps)
    BY <1>3, <1>7, <2>1
  <2>2. CASE x # Len(ps)
    <3>1. qs[x] = ps[x] /\ Shape(ps[x], x, fs)
      BY <1>0, <1>1, <1>3, <2>2
    <3>2. ps[x].on \in [Collections -> SUBSET DOMAIN gs]
      BY <1>0, <3>1 DEF Shape
    <3> QED BY <3>1, <3>2 DEF Shape
  <2> QED BY <2>1, <2>2
<1> QED BY <1>6, <1>8 DEF Shaped

\* What Owners says of the profiles and the lists without a file.
LEMMA OwnersFacts ==
  ASSUME NEW ps, NEW fs, NEW an, Owners(ps, fs, an), Len(ps) \in DOMAIN ps
  PROVE  /\ \A x \in DOMAIN ps : Shape(ps[x], x, fs)
         /\ \A x \in DOMAIN ps : \A d \in Collections : ps[x].on[d] \subseteq DOMAIN fs
         /\ an \in [Collections -> Nat]
         /\ \A d \in Collections : an[d] # 0 => an[d] \in ps[Len(ps)].on[d] /\ Blank(fs[an[d]].file) /\ an[d] \in DOMAIN fs
         /\ \A x \in DOMAIN ps : \A d, e \in Collections :
               an[e] # 0 /\ an[e] \in ps[x].on[d] => x = Len(ps) /\ d = e
<1>1. \A x \in DOMAIN ps : Shape(ps[x], x, fs)
  BY DEF Owners
<1>2. \A x \in DOMAIN ps : \A d \in Collections : ps[x].on[d] \subseteq DOMAIN fs
  BY <1>1 DEF Shape
<1> QED BY <1>1, <1>2 DEF Owners

LEMMA OwnersFile ==
  ASSUME NEW ps, NEW qs, NEW fs, NEW gs, NEW an, NEW c \in Collections, NEW i, Enlisted(ps, qs, c, i),
         Owners(ps, fs, an), Shaped(qs, gs),
         \A j \in DOMAIN fs : gs[j] = fs[j], ~Blank(gs[i].file)
  PROVE  Owners(qs, gs, an) /\ \A x \in DOMAIN ps : \A d \in Collections : Unchanged(ps[x].on[d], fs, gs)
<1>1. /\ Len(qs) = Len(ps) /\ DOMAIN qs = DOMAIN ps /\ Len(ps) \in DOMAIN ps
      /\ qs[Len(ps)].on[c] = ps[Len(ps)].on[c] \cup {i}
      /\ \A x \in DOMAIN ps : \A d \in Collections : x # Len(ps) \/ d # c => qs[x].on[d] = ps[x].on[d]
  BY DEF Enlisted
<1>2. /\ \A x \in DOMAIN ps : \A d \in Collections : ps[x].on[d] \subseteq DOMAIN fs
      /\ an \in [Collections -> Nat]
      /\ \A d \in Collections : an[d] # 0 => an[d] \in ps[Len(ps)].on[d] /\ Blank(fs[an[d]].file) /\ an[d] \in DOMAIN fs
      /\ \A x \in DOMAIN ps : \A d, e \in Collections :
            an[e] # 0 /\ an[e] \in ps[x].on[d] => x = Len(ps) /\ d = e
  BY <1>1, OwnersFacts
<1>3. \A d \in Collections : an[d] # 0 => gs[an[d]] = fs[an[d]] /\ an[d] # i
  BY <1>2
<1>4. \A d \in Collections : an[d] # 0 => an[d] \in qs[Len(qs)].on[d] /\ Blank(gs[an[d]].file)
  <2>1. \A d \in Collections : ps[Len(ps)].on[d] \subseteq qs[Len(qs)].on[d]
    BY <1>1
  <2> QED BY <1>2, <1>3, <2>1
<1>5. ASSUME NEW x \in DOMAIN qs, NEW d \in Collections, NEW e \in Collections, an[e] # 0, an[e] \in qs[x].on[d]
      PROVE  x = Len(qs) /\ d = e
  <2>1. an[e] \in ps[x].on[d]
    BY <1>1, <1>3, <1>5
  <2> QED BY <1>1, <1>2, <1>5, <2>1
<1>6. \A x \in DOMAIN ps : \A d \in Collections : Unchanged(ps[x].on[d], fs, gs)
  BY <1>2 DEF Unchanged
<1> QED BY <1>2, <1>4, <1>5, <1>6 DEF Owners, Shaped

\* The list i without a file joins the collection c: it is new, or c has it.
Gives(ps, qs, c, i, fs, gs, an, bn) ==
  /\ c \in Collections /\ i \in Nat /\ Enlisted(ps, qs, c, i) /\ Owners(ps, fs, an) /\ Shaped(qs, gs)
  /\ (\A j \in DOMAIN fs : j # i => gs[j] = fs[j]) /\ Blank(gs[i].file) /\ bn = [an EXCEPT ![c] = i]
  /\ (an[c] = 0 /\ i \notin DOMAIN fs) \/ (an[c] = i /\ i # 0)
Gave(ps, qs, c, i, fs, gs, an, bn) ==
  /\ Owners(qs, gs, bn)
  /\ \A x \in DOMAIN ps : \A d \in Collections : x # Len(ps) \/ d # c => Unchanged(ps[x].on[d], fs, gs)
  /\ Unchanged(ps[Len(ps)].on[c] \ {i}, fs, gs)
  /\ an[c] = 0 => i \notin ps[Len(ps)].on[c]
  /\ an[c] # 0 => i \in ps[Len(ps)].on[c] /\ Blank(fs[i].file)

LEMMA OwnersItems ==
  ASSUME NEW ps, NEW qs, NEW fs, NEW gs, NEW an, NEW bn, NEW c, NEW i, Gives(ps, qs, c, i, fs, gs, an, bn)
  PROVE  Gave(ps, qs, c, i, fs, gs, an, bn)
<1>0. /\ c \in Collections /\ i \in Nat /\ Enlisted(ps, qs, c, i) /\ Owners(ps, fs, an) /\ Shaped(qs, gs)
      /\ (\A j \in DOMAIN fs : j # i => gs[j] = fs[j]) /\ Blank(gs[i].file) /\ bn = [an EXCEPT ![c] = i]
      /\ (an[c] = 0 /\ i \notin DOMAIN fs) \/ (an[c] = i /\ i # 0)
  BY DEF Gives
<1>1. /\ Len(qs) = Len(ps) /\ DOMAIN qs = DOMAIN ps /\ Len(ps) \in DOMAIN ps
      /\ qs[Len(ps)].on[c] = ps[Len(ps)].on[c] \cup {i}
      /\ \A x \in DOMAIN ps : \A d \in Collections : x # Len(ps) \/ d # c => qs[x].on[d] = ps[x].on[d]
  BY <1>0 DEF Enlisted
<1>2. /\ \A x \in DOMAIN ps : \A d \in Collections : ps[x].on[d] \subseteq DOMAIN fs
      /\ an \in [Collections -> Nat]
      /\ \A d \in Collections : an[d] # 0 => an[d] \in ps[Len(ps)].on[d] /\ Blank(fs[an[d]].file) /\ an[d] \in DOMAIN fs
      /\ \A x \in DOMAIN ps : \A d, e \in Collections :
            an[e] # 0 /\ an[e] \in ps[x].on[d] => x = Len(ps) /\ d = e
  BY <1>0, <1>1, OwnersFacts
<1>3. bn \in [Collections -> Nat] /\ bn[c] = i /\ \A d \in Collections : d # c => bn[d] = an[d]
  BY <1>0, <1>2
<1>4. \A x \in DOMAIN ps : \A d \in Collections : i \in ps[x].on[d] => x = Len(ps) /\ d = c /\ an[c] = i
  <2>1. CASE i \notin DOMAIN fs
    BY <1>0, <1>2, <2>1
  <2>2. CASE an[c] = i /\ i # 0
    BY <1>0, <1>2, <2>2
  <2> QED BY <1>0, <2>1, <2>2
<1>5. \A d \in Collections : d # c /\ an[d] # 0 => gs[an[d]] = fs[an[d]] /\ an[d] # i
  <2>1. \A d \in Collections : d # c /\ an[d] # 0 => an[d] # i
    BY <1>0, <1>1, <1>2, <1>4
  <2> QED BY <1>0, <1>2, <2>1
<1>6. \A d \in Collections : bn[d] # 0 => bn[d] \in qs[Len(qs)].on[d] /\ Blank(gs[bn[d]].file)
  <2>1. \A d \in Collections : ps[Len(ps)].on[d] \subseteq qs[Len(qs)].on[d]
    BY <1>0, <1>1
  <2>2. i \in qs[Len(qs)].on[c]
    BY <1>0, <1>1
  <2>3. ASSUME NEW d \in Collections, d # c, bn[d] # 0 PROVE bn[d] \in qs[Len(qs)].on[d] /\ Blank(gs[bn[d]].file)
    BY <1>0, <1>2, <1>3, <1>5, <2>1, <2>3
  <2> QED BY <1>0, <1>3, <2>2, <2>3
<1>7. ASSUME NEW x \in DOMAIN qs, NEW d \in Collections, NEW e \in Collections, bn[e] # 0, bn[e] \in qs[x].on[d]
      PROVE  x = Len(qs) /\ d = e
  <2>1. CASE e = c /\ (x # Len(ps) \/ d # c)
    <3>1. i \in ps[x].on[d] /\ x \in DOMAIN ps
      BY <1>0, <1>1, <1>3, <1>7, <2>1
    <3> QED BY <1>0, <1>4, <2>1, <3>1
  <2>2. CASE e = c /\ x = Len(ps) /\ d = c
    BY <1>0, <1>1, <2>2
  <2>3. CASE e # c
    <3>1. an[e] # 0 /\ an[e] # i /\ an[e] \in qs[x].on[d]
      BY <1>0, <1>3, <1>5, <1>7, <2>3
    <3>2. an[e] \in ps[x].on[d] /\ x \in DOMAIN ps
      BY <1>0, <1>1, <3>1
    <3> QED BY <1>0, <1>1, <1>2, <3>1, <3>2
  <2> QED BY <1>0, <2>1, <2>2, <2>3
<1>8. ASSUME NEW x \in DOMAIN ps, NEW d \in Collections, x # Len(ps) \/ d # c PROVE Unchanged(ps[x].on[d], fs, gs)
  <2>1. i \notin ps[x].on[d] /\ ps[x].on[d] \subseteq DOMAIN fs
    BY <1>0, <1>2, <1>4, <1>8
  <2> QED BY <1>0, <2>1 DEF Unchanged
<1>9. Unchanged(ps[Len(ps)].on[c] \ {i}, fs, gs)
  <2>1. ps[Len(ps)].on[c] \subseteq DOMAIN fs
    BY <1>0, <1>1, <1>2
  <2> QED BY <1>0, <2>1 DEF Unchanged
<1>10. /\ an[c] = 0 => i \notin ps[Len(ps)].on[c]
       /\ an[c] # 0 => i \in ps[Len(ps)].on[c] /\ Blank(fs[i].file)
  <2>1. ps[Len(ps)].on[c] \subseteq DOMAIN fs
    BY <1>0, <1>1, <1>2
  <2> QED BY <1>0, <1>2, <2>1
<1>11. Owners(qs, gs, bn)
  BY <1>0, <1>3, <1>6, <1>7 DEF Owners, Shaped
<1> QED BY <1>8, <1>9, <1>10, <1>11 DEF Gave

\* What the options that name a list or give items of one add to a part.
NamesOne(t, c) == \A d : t.o \notin Inliners(d) /\ (t.o \in Namers(d) <=> d = c)
GivesOne(t, c) == \A d : t.o \notin Namers(d) /\ (t.o \in Inliners(d) <=> d = c)
Apart(p, q, fs, gs, c) == \A d \in Collections : d # c => q.on[d] = p.on[d] /\ Unchanged(p.on[d], fs, gs)

LEMMA OneName ==
  ASSUME NEW s, IsSeq(s), NEW t, t.o # "new", NEW c, \A d : t.o \notin Inliners(d) /\ (t.o \in Namers(d) <=> d = c),
         NEW d
  PROVE  /\ InlineIn(Append(s, t), Reached(s), d) = InlineIn(s, Reached(s), d)
         /\ d = c => NamesIn(Append(s, t), Reached(s), d) = NamesIn(s, Reached(s), d) \cup {t.a[1].w}
         /\ d # c => NamesIn(Append(s, t), Reached(s), d) = NamesIn(s, Reached(s), d)
<1>1. t.o \notin Inliners(d) /\ (t.o \in Namers(d) <=> d = c)
  OBVIOUS
<1>2. /\ t.o \in Namers(d) => NamesIn(Append(s, t), Reached(s), d) = NamesIn(s, Reached(s), d) \cup {t.a[1].w}
      /\ t.o \notin Namers(d) => NamesIn(Append(s, t), Reached(s), d) = NamesIn(s, Reached(s), d)
      /\ t.o \notin Inliners(d) => InlineIn(Append(s, t), Reached(s), d) = InlineIn(s, Reached(s), d)
  BY NamesAppend
<1> QED BY <1>1, <1>2, Zenon

LEMMA MoreItems ==
  ASSUME NEW s, IsSeq(s), NEW t, t.o # "new", NEW c, \A d : t.o \notin Namers(d) /\ (t.o \in Inliners(d) <=> d = c),
         NEW d
  PROVE  /\ NamesIn(Append(s, t), Reached(s), d) = NamesIn(s, Reached(s), d)
         /\ d = c => InlineIn(Append(s, t), Reached(s), d) = InlineIn(s, Reached(s), d) \cup ItemsGiven(t)
         /\ d # c => InlineIn(Append(s, t), Reached(s), d) = InlineIn(s, Reached(s), d)
<1>1. t.o \notin Namers(d) /\ (t.o \in Inliners(d) <=> d = c)
  OBVIOUS
<1>2. /\ t.o \notin Namers(d) => NamesIn(Append(s, t), Reached(s), d) = NamesIn(s, Reached(s), d)
      /\ t.o \in Inliners(d) => InlineIn(Append(s, t), Reached(s), d) = InlineIn(s, Reached(s), d) \cup ItemsGiven(t)
      /\ t.o \notin Inliners(d) => InlineIn(Append(s, t), Reached(s), d) = InlineIn(s, Reached(s), d)
  BY NamesAppend
<1> QED BY <1>1, <1>2, Zenon

LEMMA ListsFile ==
  ASSUME NEW s, IsSeq(s), NEW t, t.o # "new", NEW c, NamesOne(t, c),
         NEW p, NEW q, NEW fs, NEW gs, NEW i, TakesFile(p, q, fs, gs, c, i), Apart(p, q, fs, gs, c),
         gs[i].file = t.a[1].w, Lists(p, fs, s, Reached(s))
  PROVE  Lists(q, gs, Append(s, t), Reached(s))
<1> DEFINE u == Append(s, t)
           K == Reached(s)
<1>1. \A d \in Collections : /\ InlineIn(u, K, d) = InlineIn(s, K, d)
                             /\ d = c => NamesIn(u, K, d) = NamesIn(s, K, d) \cup {gs[i].file}
                             /\ d # c => NamesIn(u, K, d) = NamesIn(s, K, d)
  <2>1. \A d : t.o \notin Inliners(d) /\ (t.o \in Namers(d) <=> d = c)
    BY DEF NamesOne
  <2>2. \A d : /\ InlineIn(u, K, d) = InlineIn(s, K, d)
               /\ d = c => NamesIn(u, K, d) = NamesIn(s, K, d) \cup {t.a[1].w}
               /\ d # c => NamesIn(u, K, d) = NamesIn(s, K, d)
    BY <2>1, OneName
  <2> HIDE DEF u, K
  <2> QED BY <2>2, Zenon
<1>2. \A d \in Collections : FilesAre(p, fs, d) = NamesIn(s, K, d) /\ ItemsAre(p, fs, d) = InlineIn(s, K, d)
  BY DEF Lists
<1> HIDE DEF u, K
<1>3. ASSUME NEW d \in Collections
      PROVE  FilesAre(q, gs, d) = NamesIn(u, K, d) /\ ItemsAre(q, gs, d) = InlineIn(u, K, d)
  <2>1. CASE d = c
    <3>2. FilesAre(q, gs, c) = FilesAre(p, fs, c) \cup {gs[i].file} /\ ItemsAre(q, gs, c) = ItemsAre(p, fs, c)
      BY NamedLists DEF GainsFile
    <3> QED BY <1>1, <1>2, <2>1, <3>2, Zenon
  <2>2. CASE d # c
    <3>1. q.on[d] = p.on[d] /\ Unchanged(p.on[d], fs, gs)
      BY <2>2 DEF Apart
    <3>2. FilesAre(q, gs, d) = FilesAre(p, fs, d) /\ ItemsAre(q, gs, d) = ItemsAre(p, fs, d)
      BY <3>1, SameHeld
    <3> QED BY <1>1, <1>2, <2>2, <3>2, Zenon
  <2> QED BY <2>1, <2>2
<1> QED BY <1>3 DEF Lists, u, K

LEMMA ListsItems ==
  ASSUME NEW s, IsSeq(s), NEW t, t.o # "new", NEW c, GivesOne(t, c),
         NEW p, NEW q, NEW fs, NEW gs, NEW i, Filled(p, q, fs, gs, c, i, ItemsGiven(t)),
         Apart(p, q, fs, gs, c),
         Lists(p, fs, s, Reached(s))
  PROVE  Lists(q, gs, Append(s, t), Reached(s))
<1> DEFINE u == Append(s, t)
           K == Reached(s)
           W == ItemsGiven(t)
<1>1. \A d \in Collections : /\ NamesIn(u, K, d) = NamesIn(s, K, d)
                             /\ d = c => InlineIn(u, K, d) = InlineIn(s, K, d) \cup W
                             /\ d # c => InlineIn(u, K, d) = InlineIn(s, K, d)
  <2>1. \A d : t.o \notin Namers(d) /\ (t.o \in Inliners(d) <=> d = c)
    BY DEF GivesOne
  <2>2. \A d : /\ NamesIn(u, K, d) = NamesIn(s, K, d)
               /\ d = c => InlineIn(u, K, d) = InlineIn(s, K, d) \cup W
               /\ d # c => InlineIn(u, K, d) = InlineIn(s, K, d)
    BY <2>1, MoreItems
  <2> QED BY <2>2
<1>2. \A d \in Collections : FilesAre(p, fs, d) = NamesIn(s, K, d) /\ ItemsAre(p, fs, d) = InlineIn(s, K, d)
  BY DEF Lists
<1> HIDE DEF u, K, W
<1>3. FilesAre(q, gs, c) = FilesAre(p, fs, c) /\ ItemsAre(q, gs, c) = ItemsAre(p, fs, c) \cup W
  BY FilledLists DEF GainsItems, W
<1>4. ASSUME NEW d \in Collections
      PROVE  FilesAre(q, gs, d) = NamesIn(u, K, d) /\ ItemsAre(q, gs, d) = InlineIn(u, K, d)
  <2>1. CASE d = c
    BY <1>1, <1>2, <1>3, <2>1, Zenon
  <2>2. CASE d # c
    <3>1. q.on[d] = p.on[d] /\ Unchanged(p.on[d], fs, gs)
      BY <2>2 DEF Apart
    <3>2. FilesAre(q, gs, d) = FilesAre(p, fs, d) /\ ItemsAre(q, gs, d) = ItemsAre(p, fs, d)
      BY <3>1, SameHeld
    <3> QED BY <1>1, <1>2, <2>2, <3>2, Zenon
  <2> QED BY <2>1, <2>2
<1> QED BY <1>4 DEF Lists, u, K, W

\* A list of a file, or one without a file, joins the profile that is described.
JoinsHere(q, qs, gs, c, i) ==
  /\ c \in Collections /\ i \in DOMAIN gs /\ DOMAIN files \subseteq DOMAIN gs
  /\ DOMAIN q = ProfileFields /\ q.n = Here.n /\ q.on = [Here.on EXCEPT ![c] = @ \cup {i}]
  /\ q.tcp = Here.tcp /\ q.udp = Here.udp /\ q.splits = Here.splits
  /\ qs = [profiles EXCEPT ![Len(profiles)] = q]

LEMMA JoiningHere ==
  ASSUME ProfilesOK, IsSeq(argv), NEW c, NEW i, NEW gs, NEW q, NEW qs, JoinsHere(q, qs, gs, c, i)
  PROVE  /\ Enlisted(profiles, qs, c, i) /\ Shaped(qs, gs) /\ q.on[c] = Here.on[c] \cup {i}
         /\ \A d \in Collections : d # c => q.on[d] = Here.on[d]
<1>0. /\ c \in Collections /\ i \in DOMAIN gs /\ DOMAIN files \subseteq DOMAIN gs
      /\ DOMAIN q = ProfileFields /\ q.n = Here.n /\ q.on = [Here.on EXCEPT ![c] = @ \cup {i}]
      /\ qs = [profiles EXCEPT ![Len(profiles)] = q]
  BY DEF JoinsHere
<1>1. Here.on \in [Collections -> SUBSET DOMAIN files]
  BY LastFacts
<1>2. q.on[c] = Here.on[c] \cup {i} /\ \A d \in Collections : d # c => q.on[d] = Here.on[d]
  <2> DEFINE on == Here.on
  <2>1. on \in [Collections -> SUBSET DOMAIN files] /\ q.on = [on EXCEPT ![c] = on[c] \cup {i}]
    BY <1>0, <1>1
  <2> HIDE DEF on
  <2>2. q.on[c] = on[c] \cup {i} /\ \A d \in Collections : d # c => q.on[d] = on[d]
    BY <1>0, <2>1
  <2> QED BY <2>2 DEF on
<1>3. Joining(profiles, qs, q, c, i, files, gs)
  <2>1. IsSeq(profiles) /\ profiles # <<>> /\ Shaped(profiles, files)
    BY LastFacts DEF ProfilesOK, Owners, Shaped
  <2> QED BY <1>0, <2>1 DEF Joining, Here
<1>4. Enlisted(profiles, qs, c, i) /\ Shaped(qs, gs)
  BY <1>3, JoinsLast
<1> QED BY <1>2, <1>4

LEMMA FileStep ==
  ASSUME ProfilesOK, IsSeq(argv), ~skip, NEW t, NEW c \in Collections, t.o \in ListNames,
         NamesOne(t, c),
         NEW i, NEW gs, gs = files',
         \A j \in DOMAIN files : gs[j] = files[j], gs[i].file = t.a[1].w, ~Blank(t.a[1].w),
         NEW q, NEW qs, qs = profiles', JoinsHere(q, qs, gs, c, i),
         argv' = Append(argv, t), UNCHANGED <<count, skip, anon>>
  PROVE  ProfilesOK'
<1>1. /\ Enlisted(profiles, qs, c, i) /\ Shaped(qs, gs) /\ q.on[c] = Here.on[c] \cup {i}
      /\ \A d \in Collections : d # c => q.on[d] = Here.on[d]
  BY JoiningHere
<1>2. Owners(profiles, files, anon) /\ Parts(profiles, files, argv, skip)
  BY DEF ProfilesOK
<1>3. Owners(qs, gs, anon) /\ \A x \in DOMAIN profiles : \A d \in Collections : Unchanged(profiles[x].on[d], files, gs)
  BY <1>1, <1>2, OwnersFile
<1>4. Lists(q, gs, Append(argv, t), Reached(argv))
  <2>1. Lists(Here, files, argv, Reached(argv))
    BY <1>2 DEF Parts, Described, Here
  <2>2. t.o # "new"
    BY ListNamesAre
  <2>3. \A d \in Collections : Unchanged(Here.on[d], files, gs)
    BY <1>3, LastFacts DEF Here
  <2>4. TakesFile(Here, q, files, gs, c, i)
    BY <1>1, <2>3 DEF TakesFile
  <2>5. Apart(Here, q, files, gs, c)
    BY <1>1, <2>3 DEF Apart
  <2> QED BY <2>1, <2>2, <2>4, <2>5, ListsFile
<1>5. \A x \in 1 .. Len(profiles) - 1 : \A d \in Collections : Unchanged(profiles[x].on[d], files, gs)
  <2>1. \A x \in 1 .. Len(profiles) - 1 : x \in DOMAIN profiles
    BY LastFacts
  <2> QED BY <1>3, <2>1
<1>6. /\ Owners(profiles', files', anon') /\ Lists(q, files', Append(argv, t), Reached(argv))
      /\ \A x \in 1 .. Len(profiles) - 1 : \A d \in Collections : Unchanged(profiles[x].on[d], files, files')
      /\ profiles' = [profiles EXCEPT ![Len(profiles)] = q]
      /\ q.tcp = Here.tcp /\ q.udp = Here.udp /\ q.splits = Here.splits
  BY <1>3, <1>4, <1>5 DEF JoinsHere
<1> QED BY <1>6, ListedStep

LEMMA ItemStep ==
  ASSUME ProfilesOK, IsSeq(argv), ~skip, NEW t, NEW c \in Collections, t.o \in ListNames,
         GivesOne(t, c),
         NEW i \in Nat, NEW gs, gs = files',
         \A j \in DOMAIN files : j # i => gs[j] = files[j], Blank(gs[i].file),
         \/ anon[c] = 0 /\ i \notin DOMAIN files /\ gs[i].items = ItemsGiven(t)
         \/ anon[c] = i /\ i # 0 /\ gs[i].items = files[i].items \cup ItemsGiven(t),
         NEW q, NEW qs, qs = profiles', JoinsHere(q, qs, gs, c, i),
         NEW bn, bn = anon', bn = [anon EXCEPT ![c] = i],
         argv' = Append(argv, t), UNCHANGED <<count, skip>>
  PROVE  ProfilesOK'
<1>1. /\ Enlisted(profiles, qs, c, i) /\ Shaped(qs, gs) /\ q.on[c] = Here.on[c] \cup {i}
      /\ \A d \in Collections : d # c => q.on[d] = Here.on[d]
  BY JoiningHere
<1>2. Owners(profiles, files, anon) /\ Parts(profiles, files, argv, skip)
  BY DEF ProfilesOK
<1>3. Gives(profiles, qs, c, i, files, gs, anon, bn)
  BY <1>1, <1>2 DEF Gives
<1>4. Gave(profiles, qs, c, i, files, gs, anon, bn)
  BY <1>3, OwnersItems
<1>5. /\ Owners(qs, gs, bn)
      /\ \A x \in DOMAIN profiles : \A d \in Collections :
            x # Len(profiles) \/ d # c => Unchanged(profiles[x].on[d], files, gs)
      /\ Unchanged(profiles[Len(profiles)].on[c] \ {i}, files, gs)
      /\ anon[c] = 0 => i \notin profiles[Len(profiles)].on[c]
      /\ anon[c] # 0 => i \in profiles[Len(profiles)].on[c] /\ Blank(files[i].file)
  BY <1>4 DEF Gave
<1>6. Lists(q, gs, Append(argv, t), Reached(argv))
  <2>1. Lists(Here, files, argv, Reached(argv))
    BY <1>2 DEF Parts, Described, Here
  <2>2. t.o # "new"
    BY ListNamesAre
  <2>3. Apart(Here, q, files, gs, c)
    BY <1>1, <1>5, LastFacts DEF Here, Apart
  <2>4. Filled(Here, q, files, gs, c, i, ItemsGiven(t))
    <3>1. q.on[c] = Here.on[c] \cup {i} /\ Unchanged(Here.on[c] \ {i}, files, gs)
      BY <1>1, <1>5 DEF Here
    <3>2. \/ i \notin Here.on[c] /\ gs[i].items = ItemsGiven(t)
          \/ Blank(files[i].file) /\ i \in Here.on[c] /\ gs[i].items = files[i].items \cup ItemsGiven(t)
      <4>1. CASE anon[c] = 0 /\ gs[i].items = ItemsGiven(t)
        BY <1>5, <4>1 DEF Here
      <4>2. CASE anon[c] # 0 /\ gs[i].items = files[i].items \cup ItemsGiven(t)
        BY <1>5, <4>2 DEF Here
      <4> QED BY <4>1, <4>2
    <3> QED BY <3>1, <3>2 DEF Filled
  <2> QED BY <2>1, <2>2, <2>3, <2>4, ListsItems
<1>7. \A x \in 1 .. Len(profiles) - 1 : \A d \in Collections : Unchanged(profiles[x].on[d], files, gs)
  <2>1. \A x \in 1 .. Len(profiles) - 1 : x \in DOMAIN profiles /\ x # Len(profiles)
    <3>1. Len(profiles) \in Nat \ {0} /\ DOMAIN profiles = 1 .. Len(profiles)
      BY LastFacts
    <3> QED BY <3>1
  <2> QED BY <1>5, <2>1
<1>8. /\ Owners(profiles', files', anon') /\ Lists(q, files', Append(argv, t), Reached(argv))
      /\ \A x \in 1 .. Len(profiles) - 1 : \A d \in Collections : Unchanged(profiles[x].on[d], files, files')
      /\ profiles' = [profiles EXCEPT ![Len(profiles)] = q]
      /\ q.tcp = Here.tcp /\ q.udp = Here.udp /\ q.splits = Here.splits
  BY <1>5, <1>6, <1>7 DEF JoinsHere
<1> QED BY <1>8, ListedStep

LEMMA SkippedStep ==
  ASSUME ProfilesOK, IsSeq(argv), skip, NEW t, t.o # "new",
         argv' = Append(argv, t), UNCHANGED <<profiles, count, skip, anon, files>>
  PROVE  ProfilesOK'
<1>1. IsSeq(profiles) /\ count = Len(profiles) /\ Owners(profiles, files, anon) /\ Parts(profiles, files, argv, skip)
  BY DEF ProfilesOK
<1>2. Parts(profiles, files, Append(argv, t), skip)
  <2>1. \A x \in 1 .. Len(profiles) - 1 :
           profiles[x] = profiles[x] /\ \A c \in Collections : Unchanged(profiles[x].on[c], files, files)
    BY NoneChanged
  <2>2. (skip <=> skip \/ t.o = "skip") /\ (~skip => Described(profiles[Len(profiles)], files, Append(argv, t), Reached(argv)))
    OBVIOUS
  <2>3. Len(profiles) = Len(profiles)
    OBVIOUS
  <2> QED BY <1>1, <2>1, <2>2, <2>3, PartsStep
<1> QED BY <1>1, <1>2 DEF ProfilesOK

LEMMA FileRegistered ==
  ASSUME FilesRead, NEW c, NEW f, ~Blank(f), NEW i, i = ListOf(c, f), NEW gs, gs = FilesWith(c, f)
  PROVE  /\ i \in DOMAIN gs /\ DOMAIN files \subseteq DOMAIN gs
         /\ \A j \in DOMAIN files : gs[j] = files[j]
         /\ gs[i].file = f
<1>1. IsSeq(files)
  BY SeqIsSeq DEF FilesRead
<1>2. CASE Registered(c, f) # {}
  <2>1. gs = files /\ i \in Registered(c, f)
    BY <1>2 DEF ListOf, FilesWith
  <2>2. i \in DOMAIN files /\ files[i].file = f
    BY <2>1 DEF Registered
  <2> QED BY <2>1, <2>2
<1>3. CASE Registered(c, f) = {}
  <2> DEFINE r == [file |-> f, kind |-> KindOf(c), items |-> {}]
  <2>1. gs = Append(files, r) /\ i = Len(files) + 1 /\ r.file = f
    BY <1>3 DEF ListOf, FilesWith
  <2> HIDE DEF r
  <2>2. /\ DOMAIN files = 1 .. Len(files) /\ DOMAIN gs = 1 .. Len(files) + 1 /\ Len(files) \in Nat
        /\ \A j \in 1 .. Len(files) : gs[j] = files[j]
        /\ gs[Len(files) + 1] = r
    BY <1>1, <2>1, AppendIsSeq
  <2>3. Len(files) + 1 \in 1 .. Len(files) + 1 /\ 1 .. Len(files) \subseteq 1 .. Len(files) + 1
    BY <2>2
  <2> QED BY <2>1, <2>2, <2>3
<1> QED BY <1>2, <1>3

LEMMA NamesFile ==
  ASSUME ProfilesOK, LineRead, ~skip, NEW t \in LineOption(written), NEW c \in Collections, t.o \in ListNames,
         t.o \in Naming, NamesOne(t, c),
         NEW i, i = ListOf(c, t.a[1].w), files' = FilesWith(c, t.a[1].w),
         NEW q, DOMAIN q = ProfileFields, q.n = Here.n, q.on = [Here.on EXCEPT ![c] = @ \cup {i}],
         q.tcp = Here.tcp, q.udp = Here.udp, q.splits = Here.splits,
         profiles' = [profiles EXCEPT ![Len(profiles)] = q],
         argv' = Append(argv, t), UNCHANGED <<count, skip, anon>>
  PROVE  ProfilesOK'
<1> DEFINE f == t.a[1].w
           gs == files'
           qs == profiles'
<1>1. ~Blank(f)
  <2>1. f \in DOMAIN written.disk
    BY OptionFacts
  <2>2. DOMAIN written.disk \subseteq STRING \ {""}
    BY OptionsAssumption DEF LineRead
  <2>3. f \notin {""}
    BY <2>1, <2>2
  <2> HIDE DEF f
  <2> QED BY <2>3, Zenon DEF Blank
<1>2. /\ i \in DOMAIN gs /\ DOMAIN files \subseteq DOMAIN gs
      /\ \A j \in DOMAIN files : gs[j] = files[j]
      /\ gs[i].file = f
  <2>1. FilesRead
    BY DEF LineRead
  <2> HIDE DEF f, gs
  <2>2. i = ListOf(c, f) /\ gs = FilesWith(c, f)
    BY DEF f, gs
  <2> QED BY <1>1, <2>1, <2>2, FileRegistered
<1>3. gs = files' /\ qs = profiles'
  OBVIOUS
<1>4. IsSeq(argv)
  BY SeqIsSeq DEF LineRead
<1>5. JoinsHere(q, qs, gs, c, i)
  BY <1>2 DEF JoinsHere
<1> HIDE DEF gs, qs
<1> QED BY <1>1, <1>2, <1>3, <1>4, <1>5, FileStep DEF f

LEMMA NamingStep ==
  ASSUME ProfilesOK, LineRead, NEW t \in LineOption(written), t.o \in DOMAIN NamedList, NameList(NamedList[t.o], t.a[1].w),
         argv' = Append(argv, t), phase = "options", phase' = "options"
  PROVE  ProfilesOK'
<1> DEFINE c == NamedList[t.o]
           i == ListOf(c, t.a[1].w)
           q == Joins(Here, c, i)
<1>1. c \in Collections /\ t.o \in ListNames /\ t.o \in Naming /\ t.o # "new"
  BY ListNamesAre DEF ListNames, Naming
<1>2. NamesOne(t, c)
  BY WhichList DEF NamesOne
<1>3. IsSeq(argv)
  BY SeqIsSeq DEF LineRead
<1>4. CASE skip
  <2>1. UNCHANGED <<profiles, count, skip, anon, files>>
    BY <1>4 DEF NameList, lists
  <2> QED BY <1>1, <1>3, <1>4, <2>1, SkippedStep
<1>5. CASE ~skip
  <2>1. /\ profiles' = [profiles EXCEPT ![Len(profiles)] = Joins(@, c, i)]
        /\ files' = FilesWith(c, t.a[1].w) /\ UNCHANGED <<count, skip, anon>>
    BY <1>5 DEF NameList, Refuse
  <2>2. profiles' = [profiles EXCEPT ![Len(profiles)] = q]
    BY <2>1 DEF Here
  <2>3. /\ DOMAIN q = ProfileFields /\ q.n = Here.n /\ q.on = [Here.on EXCEPT ![c] = @ \cup {i}]
        /\ q.tcp = Here.tcp /\ q.udp = Here.udp /\ q.splits = Here.splits
    BY <1>3, LastFacts DEF Joins, ProfileFields
  <2>4. i = ListOf(c, t.a[1].w)
    OBVIOUS
  <2> HIDE DEF c, i, q
  <2> QED BY <1>1, <1>2, <1>5, <2>1, <2>2, <2>3, <2>4, NamesFile
<1> QED BY <1>4, <1>5

LEMMA AutoStep ==
  ASSUME ProfilesOK, LineRead, NEW t \in LineOption(written), t.o = "hostlist_auto", AutoList(t.a[1].w),
         argv' = Append(argv, t), phase = "options", phase' = "options"
  PROVE  ProfilesOK'
<1> DEFINE c == "hl"
           i == ListOf(c, t.a[1].w)
           p == Joins(Here, c, i)
           q == [p EXCEPT !.auto = i]
<1>1. c \in Collections /\ t.o \in ListNames /\ t.o \in Naming /\ t.o # "new"
  BY DEF Collections, ListNames, Naming
<1>2. NamesOne(t, c)
  BY WhichList DEF NamesOne
<1>3. IsSeq(argv)
  BY SeqIsSeq DEF LineRead
<1>4. CASE skip
  <2>1. UNCHANGED <<profiles, count, skip, anon, files>>
    BY <1>4 DEF AutoList, lists
  <2> QED BY <1>1, <1>3, <1>4, <2>1, SkippedStep
<1>5. CASE ~skip
  <2>1. /\ profiles' = [profiles EXCEPT ![Len(profiles)] = [Joins(@, c, i) EXCEPT !.auto = i]]
        /\ files' = FilesWith(c, t.a[1].w) /\ UNCHANGED <<count, skip, anon>>
    BY <1>5 DEF AutoList, Refuse
  <2>2. profiles' = [profiles EXCEPT ![Len(profiles)] = q]
    BY <2>1 DEF Here
  <2>3. /\ DOMAIN p = ProfileFields /\ p.n = Here.n /\ p.on = [Here.on EXCEPT ![c] = @ \cup {i}]
        /\ p.tcp = Here.tcp /\ p.udp = Here.udp /\ p.splits = Here.splits
    BY <1>3, LastFacts DEF Joins, ProfileFields
  <2>4. i = ListOf(c, t.a[1].w)
    OBVIOUS
  <2> HIDE DEF c, i, p
  <2>5. /\ DOMAIN q = ProfileFields /\ q.n = Here.n /\ q.on = [Here.on EXCEPT ![c] = @ \cup {i}]
        /\ q.tcp = Here.tcp /\ q.udp = Here.udp /\ q.splits = Here.splits
    BY <2>3
  <2> HIDE DEF q
  <2> QED BY <1>1, <1>2, <1>5, <2>1, <2>2, <2>4, <2>5, NamesFile
<1> QED BY <1>4, <1>5

LEMMA GivingStep ==
  ASSUME ProfilesOK, LineRead, NEW t \in LineOption(written), t.o \in DOMAIN InlineList, AddItems(InlineList[t.o], t.a),
         argv' = Append(argv, t)
  PROVE  ProfilesOK'
<1> DEFINE c == InlineList[t.o]
           i == AnonOf(c)
           q == Joins(Here, c, i)
           more == IF anon[c] = 0 THEN FilesWith(c, "") ELSE files
           W == ItemsGiven(t)
<1>1. c \in Collections /\ t.o \in ListNames /\ t.o # "new"
  BY ListNamesAre DEF ListNames
<1>2. GivesOne(t, c)
  BY WhichList DEF GivesOne
<1>3. IsSeq(argv) /\ IsSeq(files)
  BY SeqIsSeq DEF LineRead, FilesRead
<1>4. CASE skip
  <2>1. UNCHANGED <<profiles, count, skip, anon, files>>
    BY <1>4 DEF AddItems, lists
  <2> QED BY <1>1, <1>3, <1>4, <2>1, SkippedStep
<1>5. CASE ~skip
  <2>1. /\ profiles' = [profiles EXCEPT ![Len(profiles)] = Joins(@, c, i)]
        /\ anon' = [anon EXCEPT ![c] = i] /\ UNCHANGED <<count, skip>>
        /\ files' = [more EXCEPT ![i].items = @ \cup (Words(t.a) \ {""})]
    <3> HIDE DEF c
    <3> QED BY <1>5 DEF AddItems, c
  <2>2. files' = [more EXCEPT ![i].items = @ \cup W]
    BY <2>1, Zenon DEF ItemsGiven
  <2>3. profiles' = [profiles EXCEPT ![Len(profiles)] = q]
    BY <2>1 DEF Here
  <2>4. /\ DOMAIN q = ProfileFields /\ q.n = Here.n /\ q.on = [Here.on EXCEPT ![c] = @ \cup {i}]
        /\ q.tcp = Here.tcp /\ q.udp = Here.udp /\ q.splits = Here.splits
    BY <1>3, LastFacts DEF Joins, ProfileFields
  <2>5. anon \in [Collections -> Nat] /\ (anon[c] # 0 => anon[c] \in DOMAIN files /\ Blank(files[anon[c]].file))
    <3>1. Owners(profiles, files, anon) /\ Len(profiles) \in DOMAIN profiles
      BY <1>3, LastFacts DEF ProfilesOK
    <3> HIDE DEF c
    <3> QED BY <1>1, <3>1, OwnersFacts
  <2>6. /\ i \in Nat /\ i \in DOMAIN more /\ DOMAIN files \subseteq DOMAIN more
        /\ \A j \in DOMAIN files : j # i => more[j] = files[j]
        /\ Blank(more[i].file) /\ DOMAIN more[i] = {"file", "kind", "items"}
        /\ \/ anon[c] = 0 /\ i \notin DOMAIN files /\ more[i].items = {}
           \/ anon[c] = i /\ i # 0 /\ more[i].items = files[i].items
    <3>1. CASE anon[c] = 0
      <4> DEFINE r == [file |-> "", kind |-> KindOf(c), items |-> {}]
      <4>1. Registered(c, "") = {}
        BY Zenon DEF Registered
      <4>2. more = Append(files, r) /\ i = Len(files) + 1
        <5> HIDE DEF c
        <5> QED BY <3>1, <4>1 DEF FilesWith, AnonOf
      <4>3. r.items = {} /\ DOMAIN r = {"file", "kind", "items"} /\ r.file = ""
        <5> HIDE DEF c
        <5> QED OBVIOUS
      <4>4. Blank(r.file)
        BY <4>3, Zenon DEF Blank
      <4> HIDE DEF r, more, i, c
      <4>5. /\ DOMAIN files = 1 .. Len(files) /\ DOMAIN more = 1 .. Len(files) + 1 /\ Len(files) \in Nat
            /\ \A j \in 1 .. Len(files) : more[j] = files[j]
            /\ more[Len(files) + 1] = r
        BY <1>3, <4>2, AppendIsSeq
      <4>6. i \in Nat /\ i \in 1 .. Len(files) + 1 /\ i \notin 1 .. Len(files) /\ 1 .. Len(files) \subseteq 1 .. Len(files) + 1
        BY <4>2, <4>5
      <4>7. more[i] = r
        BY <4>2, <4>5
      <4> QED BY <3>1, <4>3, <4>4, <4>5, <4>6, <4>7
    <3>2. CASE anon[c] # 0
      <4>1. more = files /\ i = anon[c]
        BY <3>2 DEF AnonOf
      <4>2. i \in Nat /\ i \in DOMAIN files
        <5> HIDE DEF c, i
        <5> QED BY <1>1, <2>5, <3>2, <4>1
      <4>3. files[i] \in FileRec
        <5> HIDE DEF i
        <5> QED BY <4>2, ElementOf DEF LineRead, FilesRead
      <4>4. DOMAIN files[i] = {"file", "kind", "items"}
        <5> HIDE DEF i
        <5> QED BY <4>3 DEF FileRec
      <4> HIDE DEF c, i, more
      <4> QED BY <2>5, <3>2, <4>1, <4>2, <4>4
    <3> QED BY <3>1, <3>2
  <2> DEFINE gs == files'
             qs == profiles'
             bn == anon'
  <2> HIDE DEF c, i, q, more, W
  <2>7. /\ i \in DOMAIN gs /\ DOMAIN files \subseteq DOMAIN gs
        /\ \A j \in DOMAIN files : j # i => gs[j] = files[j]
        /\ Blank(gs[i].file)
        /\ \/ anon[c] = 0 /\ i \notin DOMAIN files /\ gs[i].items = ItemsGiven(t)
           \/ anon[c] = i /\ i # 0 /\ gs[i].items = files[i].items \cup ItemsGiven(t)
    <3>1. /\ DOMAIN gs = DOMAIN more /\ \A j \in DOMAIN more : j # i => gs[j] = more[j]
      BY <2>2
    <3>2. gs[i] = [more[i] EXCEPT !.items = @ \cup W]
      BY <2>2, <2>6
    <3>3. gs[i].file = more[i].file /\ gs[i].items = more[i].items \cup W
      BY <2>6, <3>2
    <3> HIDE DEF gs
    <3> QED BY <2>6, <3>1, <3>3 DEF W
  <2>8. gs = files' /\ qs = profiles' /\ bn = anon' /\ bn = [anon EXCEPT ![c] = i]
    BY <2>1
  <2>9. JoinsHere(q, qs, gs, c, i)
    BY <1>1, <2>3, <2>4, <2>7 DEF JoinsHere
  <2> HIDE DEF gs, qs, bn
  <2> QED BY <1>1, <1>2, <1>3, <1>5, <2>1, <2>6, <2>7, <2>8, <2>9, ItemStep
<1> QED BY <1>4, <1>5

LEMMA ListingStep ==
  ASSUME ProfilesOK, LineRead, NEW t \in LineOption(written), Listing(t),
         argv' = Append(argv, t), phase = "options", phase' = "options"
  PROVE  ProfilesOK'
BY NamingStep, AutoStep, GivingStep DEF Listing

\* One more option of the line.
LEMMA ReadParts ==
  ASSUME LineRead, ProfilesOK, Read, phase' = "options"
  PROVE  ProfilesOK'
<1>1. phase = "options"
  BY NextIsOption
<1>2. PICK t \in LineOption(written) : argv' = Append(argv, t) /\ Reading(t)
  BY NextIsOption
<1>3. IsSeq(argv)
  BY SeqIsSeq DEF LineRead
<1>4. Special = ListNames \cup BindNames \cup SplitNames
                  \cup {"new", "skip", "filter_tcp", "filter_udp", "fake_tls", "fake_tls_mod"}
  BY DEF Special, ListNames
<1>5. CASE Ordinary(t)
  <2>1. t.o \notin Special /\ UNCHANGED <<count, skip, anon, files>> /\ Redescribes({"set", "fakes", "tls_mod"})
    BY <1>5 DEF Ordinary, Keeps, Redescribes
  <2> QED BY <1>2, <1>3, <1>4, <2>1, SettingStep
<1>6. CASE Binding(t)
  <2>1. t.o \in BindNames /\ UNCHANGED <<profiles, count, skip, anon, files>>
    BY <1>6 DEF Binding
  <2>2. Redescribes({"set", "fakes", "tls_mod"})
    BY <2>1 DEF Redescribes
  <2>3. t.o \notin {"new", "skip"} /\ t.o \notin ListNames /\ t.o \notin SplitNames /\ t.o \notin {"filter_tcp", "filter_udp"}
    BY <2>1 DEF BindNames, ListNames, SplitNames, NamedList, InlineList
  <2> QED BY <1>2, <1>3, <2>1, <2>2, <2>3, SettingStep
<1>7. ~Stops
  BY DEF Stops
<1>8. CASE Faking(t)
  <2>1. UNCHANGED <<count, skip, anon, files>> /\ \E q : FakeGiven(t, q) /\ profiles' = [profiles EXCEPT ![Len(profiles)] = q]
    BY <1>8 DEF Faking, Keeps
  <2>2. t.o \notin {"new", "skip"} /\ t.o \notin ListNames /\ t.o \notin SplitNames /\ t.o \notin {"filter_tcp", "filter_udp"}
    <3>1. t.o \notin Special \/ t.o \in {"fake_tls", "fake_tls_mod"}
      BY <2>1 DEF FakeGiven
    <3>2. CASE t.o \in {"fake_tls", "fake_tls_mod"}
      BY <3>2, ListNamesAre DEF SplitNames
    <3> QED BY <1>4, <3>1, <3>2
  <2>3. Redescribes({"set", "fakes", "tls_mod"})
    BY <2>1 DEF Redescribes, FakeGiven, FakeAdded, FakesModded
  <2> QED BY <1>2, <1>3, <2>1, <2>2, <2>3, SettingStep
<1> QED BY <1>1, <1>2, <1>3, <1>5, <1>6, <1>7, <1>8, SplittingStep, FilteringStep, ListingStep, PartingStep
     DEF Reading, Effect

LEMMA InitParts ==
  ASSUME Init
  PROVE  ProfilesOK
<1> DEFINE p == Fresh(1, Fields0(system))
<1>1. /\ DOMAIN p = ProfileFields /\ p.n = 1 /\ p.on = [c \in Collections |-> {}] /\ Blanked(p)
  BY DEF Fresh, ProfileFields, Blanked
<1> HIDE DEF p
<1>2. /\ profiles = <<p>> /\ count = 1 /\ skip = FALSE /\ anon = [c \in Collections |-> 0] /\ files = <<>> /\ argv = <<>>
  BY DEF Init, p
<1>3. IsSeq(profiles) /\ Len(profiles) = 1 /\ DOMAIN profiles = {1} /\ profiles[1] = p
  BY <1>2 DEF IsSeq
<1>4. Owners(profiles, files, anon)
  <2>1. Shape(p, 1, files)
    BY <1>1 DEF Shape
  <2>2. anon \in [Collections -> Nat] /\ \A c \in Collections : anon[c] = 0
    BY <1>2
  <2> QED BY <1>3, <2>1, <2>2 DEF Owners
<1>5. Parts(profiles, files, argv, skip)
  <2>1. Reached(argv) = 0
    <3>1. Len(argv) + 1 - 1 = 0
      BY <1>2
    <3>2. {i \in 1 .. Len(argv) + 1 - 1 : argv[i].o = "new"} = {}
      BY <3>1
    <3> QED BY <3>2, FS_EmptySet DEF Reached, NewsIn
  <2>2. Part(argv, 0) = {}
    BY <1>2 DEF Part
  <2>3. Ended(argv) = {} /\ ~Skips(argv, 0)
    BY <2>1, <2>2 DEF Ended, Skips
  <2>4. Cardinality(Ended(argv)) = 0
    BY <2>3, FS_EmptySet
  <2>5. Described(p, files, argv, 0)
    BY <1>1, <2>2, NothingGiven
  <2> QED BY <1>2, <1>3, <2>1, <2>3, <2>4, <2>5 DEF Parts
<1> QED BY <1>2, <1>3, <1>4, <1>5 DEF ProfilesOK

-----------------------------------------------------------------------------
(* The profiles when the whole line is read.                                 *)

Segs(s) == {k \in 0 .. Reached(s) : ~Skips(s, k)}
Place(s, k) == Cardinality({r \in Segs(s) : r <= k})

\* The parts of a line are those that end when one more --new is read.
LEMMA SegsFacts ==
  ASSUME NEW s, IsSeq(s)
  PROVE  LET K == Reached(s) IN
         /\ Segs(s) = Ended(s) \cup IF Skips(s, K) THEN {} ELSE {K}
         /\ Cardinality(Segs(s)) = Cardinality(Ended(s)) + IF Skips(s, K) THEN 0 ELSE 1
         /\ \A k \in Ended(s) : Place(s, k) = Rank(s, k)
         /\ ~Skips(s, K) => Place(s, K) = Cardinality(Ended(s)) + 1
         /\ \A k \in Segs(s) : Place(s, k) \in 1 .. Cardinality(Segs(s))
<1> DEFINE t == [o |-> "new"]
           u == Append(s, t)
           K == Reached(s)
<1>1. t.o = "new"
  OBVIOUS
<1> HIDE DEF t
<1>2. /\ Reached(u) = K + 1 /\ \A k : Skips(u, k) <=> Skips(s, k)
      /\ Ended(u) = Ended(s) \cup IF Skips(s, K) THEN {} ELSE {K}
      /\ \A k \in Ended(s) : Rank(u, k) = Rank(s, k)
      /\ Cardinality(Ended(u)) = Cardinality(Ended(s)) + IF Skips(s, K) THEN 0 ELSE 1
      /\ ~Skips(s, K) => Rank(u, K) = Cardinality(Ended(s)) + 1
  BY <1>1, EndedMore
<1>3. IsSeq(u) /\ K \in Nat
  BY AppendIsSeq, NewsAppend
<1>4. \A k \in Ended(u) : Rank(u, k) \in 1 .. Cardinality(Ended(u))
  BY <1>3, EndedFacts
<1> HIDE DEF u
<1>5. Segs(s) = Ended(u)
  <2>1. Reached(u) - 1 = K
    BY <1>2, <1>3
  <2>2. Ended(u) = {k \in 0 .. K : ~Skips(u, k)} /\ Segs(s) = {k \in 0 .. K : ~Skips(s, k)}
    BY <2>1 DEF Segs, Ended, K
  <2> QED BY <1>2, <2>2
<1>6. \A k : Place(s, k) = Rank(u, k)
  BY <1>5 DEF Place, Rank
<1> QED BY <1>2, <1>4, <1>5, <1>6 DEF K

LEMMA FrontIsSeq ==
  ASSUME NEW s, IsSeq(s), Len(s) \in Nat \ {0}, NEW u, u = SubSeq(s, 1, Len(s) - 1)
  PROVE  /\ IsSeq(u) /\ Len(u) = Len(s) - 1 /\ DOMAIN u = 1 .. Len(s) - 1
         /\ \A x \in 1 .. Len(s) - 1 : u[x] = s[x]
<1> DEFINE S == {s[i] : i \in DOMAIN s}
           m == Len(s) - 1
<1>1. m \in Nat /\ m <= Len(s) /\ s \in Seq(S)
  BY DEF IsSeq
<1> HIDE DEF S, m
<1>2. u = SubSeq(s, 1, m)
  BY DEF m
<1>3. u \in Seq(S) /\ Len(u) = m /\ \A x \in 1 .. m : u[x] = s[x]
  BY <1>1, <1>2
<1>4. DOMAIN u = 1 .. m
  BY <1>3
<1> QED BY <1>3, <1>4, SeqIsSeq DEF m

LEMMA KeptIs ==
  ASSUME ProfilesOK, IsSeq(argv)
  PROVE  LET L == Len(profiles) IN
         /\ IsSeq(Kept) /\ Len(Kept) = (IF skip THEN L - 1 ELSE L) /\ DOMAIN Kept = 1 .. Len(Kept) /\ Len(Kept) \in Nat
         /\ \A x \in 1 .. Len(Kept) : Kept[x] = profiles[x] /\ x \in DOMAIN profiles
<1> DEFINE L == Len(profiles)
<1>1. IsSeq(profiles)
  BY DEF ProfilesOK
<1>2. L \in Nat \ {0} /\ DOMAIN profiles = 1 .. L
  BY LastFacts
<1>3. CASE skip
  <2>1. Kept = SubSeq(profiles, 1, L - 1)
    BY <1>3 DEF Kept
  <2>2. /\ IsSeq(Kept) /\ Len(Kept) = L - 1 /\ DOMAIN Kept = 1 .. L - 1
        /\ \A x \in 1 .. L - 1 : Kept[x] = profiles[x]
    BY <1>1, <1>2, <2>1, FrontIsSeq
  <2>3. L - 1 \in Nat /\ 1 .. L - 1 \subseteq 1 .. L
    BY <1>2
  <2> QED BY <1>2, <1>3, <2>2, <2>3
<1>4. CASE ~skip
  BY <1>1, <1>2, <1>4 DEF Kept
<1> QED BY <1>3, <1>4

LEMMA KeptFacts ==
  ASSUME ProfilesOK, IsSeq(argv)
  PROVE  /\ IsSeq(Kept) /\ Len(Kept) = Cardinality(Segs(argv)) /\ Len(Kept) \in Nat /\ DOMAIN Kept = 1 .. Len(Kept)
         /\ \A k \in Segs(argv) : /\ Place(argv, k) \in 1 .. Len(Kept)
                                  /\ Described(Kept[Place(argv, k)], files, argv, k)
                                  /\ Kept[Place(argv, k)].n = Place(argv, k)
<1> DEFINE K == Reached(argv)
           L == Len(profiles)
<1>1. IsSeq(profiles) /\ Parts(profiles, files, argv, skip)
  BY DEF ProfilesOK
<1>2. /\ L \in Nat \ {0} /\ DOMAIN profiles = 1 .. L /\ \A x \in DOMAIN profiles : profiles[x].n = x
  BY LastFacts
<1>3. /\ Segs(argv) = Ended(argv) \cup IF Skips(argv, K) THEN {} ELSE {K}
      /\ Cardinality(Segs(argv)) = Cardinality(Ended(argv)) + IF Skips(argv, K) THEN 0 ELSE 1
      /\ \A k \in Ended(argv) : Place(argv, k) = Rank(argv, k)
      /\ ~Skips(argv, K) => Place(argv, K) = Cardinality(Ended(argv)) + 1
      /\ \A k \in Segs(argv) : Place(argv, k) \in 1 .. Cardinality(Segs(argv))
  BY SegsFacts
<1>4. /\ L = Cardinality(Ended(argv)) + 1 /\ (skip <=> Skips(argv, K))
      /\ \A k \in Ended(argv) : Described(profiles[Rank(argv, k)], files, argv, k)
      /\ ~skip => Described(profiles[L], files, argv, K)
  BY <1>1 DEF Parts
<1>5. Cardinality(Ended(argv)) \in Nat
  BY EndedFacts
<1>6. /\ IsSeq(Kept) /\ Len(Kept) = (IF skip THEN L - 1 ELSE L) /\ DOMAIN Kept = 1 .. Len(Kept) /\ Len(Kept) \in Nat
      /\ \A x \in 1 .. Len(Kept) : Kept[x] = profiles[x] /\ x \in DOMAIN profiles
  BY KeptIs
<1>7. Len(Kept) = Cardinality(Segs(argv))
  BY <1>3, <1>4, <1>5, <1>6
<1> HIDE DEF K, L
<1>8. ASSUME NEW k \in Segs(argv)
      PROVE  /\ Place(argv, k) \in 1 .. Len(Kept)
             /\ Described(Kept[Place(argv, k)], files, argv, k)
             /\ Kept[Place(argv, k)].n = Place(argv, k)
  <2>1. Place(argv, k) \in 1 .. Len(Kept)
    BY <1>3, <1>7
  <2>2. Kept[Place(argv, k)] = profiles[Place(argv, k)] /\ profiles[Place(argv, k)].n = Place(argv, k)
    BY <1>2, <1>6, <2>1
  <2>3. Described(profiles[Place(argv, k)], files, argv, k)
    <3>1. CASE k \in Ended(argv)
      BY <1>3, <1>4, <3>1
    <3>2. CASE k \notin Ended(argv)
      <4>1. k = K /\ ~Skips(argv, K)
        BY <1>3, <3>2
      <4> QED BY <1>3, <1>4, <4>1
    <3> QED BY <3>1, <3>2
  <2> QED BY <2>1, <2>2, <2>3
<1> QED BY <1>6, <1>7, <1>8

\* What completing a profile does not change.
Finished(q, p, name) ==
  /\ q.n = p.n /\ q.on = p.on /\ q.tcp = p.tcp /\ q.udp = p.udp
  /\ p.splits # <<>> \/ name = "tpws" => q.splits = p.splits

LEMMA CompletedFinished ==
  ASSUME NEW p, DOMAIN p = ProfileFields, NEW q \in Completed(p)
  PROVE  Finished(q, p, "nfqws")
<1> DEFINE a == SixLikeFour(p)
           b == BuiltIn(a)
<1>1. /\ DOMAIN a = ProfileFields /\ a.n = p.n /\ a.on = p.on /\ a.tcp = p.tcp /\ a.udp = p.udp
      /\ p.splits # <<>> => a.splits = p.splits
  BY DEF SixLikeFour, ProfileFields
<1> HIDE DEF a
<1>2. /\ DOMAIN b = ProfileFields /\ b.n = a.n /\ b.on = a.on /\ b.tcp = a.tcp /\ b.udp = a.udp
      /\ b.splits = a.splits
  BY <1>1 DEF BuiltIn, ProfileFields
<1> HIDE DEF b
<1>3. q \in CompletedFakes(b)
  BY DEF Completed, a, b
<1>4. PICK f : q = [b EXCEPT !.fakes = f]
  BY <1>3 DEF CompletedFakes
<1>5. /\ q.n = b.n /\ q.on = b.on /\ q.tcp = b.tcp /\ q.udp = b.udp /\ q.splits = b.splits
  BY <1>2, <1>4 DEF ProfileFields
<1> QED BY <1>1, <1>2, <1>5 DEF Finished

\* The profiles of the line with the one that takes everything else behind them.
Cut(p, s, k, name) ==
  /\ Among(s, k, SplitNames) # {} => Len(p.splits) >= Cardinality(Among(s, k, SplitNames))
  /\ \A i \in ItemsIn(s, k, "split_pos") : \E n \in DOMAIN p.splits : p.splits[n] \in SplitPos(i)
  /\ Among(s, k, SplitNames) = {} /\ name = "tpws" => p.splits = <<>>
Whole(ps, fs, s, name) ==
  /\ Len(ps) = Cardinality(Segs(s)) + 1
  /\ ps[Len(ps)].n = 0 /\ ps[Len(ps)].tcp = {}
  /\ \A k \in Segs(s) :
       /\ ps[Place(s, k)].n = Place(s, k)
       /\ Lists(ps[Place(s, k)], fs, s, k) /\ Opens(ps[Place(s, k)], s, k) /\ Cut(ps[Place(s, k)], s, k, name)

LEMMA FinishedDescribed ==
  ASSUME NEW p, NEW q, NEW fs, NEW s, NEW k, NEW name, IsSeq(s), Described(p, fs, s, k), Finished(q, p, name)
  PROVE  Lists(q, fs, s, k) /\ Opens(q, s, k) /\ Cut(q, s, k, name)
<1>1. Lists(q, fs, s, k) /\ Opens(q, s, k)
  <2>1. q.on = p.on /\ q.tcp = p.tcp /\ q.udp = p.udp
    BY DEF Finished
  <2>2. Lists(p, fs, s, k) /\ Opens(p, s, k)
    BY DEF Described
  <2>3. \A c : FilesAre(q, fs, c) = FilesAre(p, fs, c) /\ ItemsAre(q, fs, c) = ItemsAre(p, fs, c)
    BY <2>1 DEF FilesAre, ItemsAre
  <2> QED BY <2>1, <2>2, <2>3 DEF Lists, Opens
<1>2. Divides(p, s, k)
  BY DEF Described
<1> DEFINE A == Among(s, k, SplitNames)
<1>0. IsFiniteSet(A) /\ Cardinality(A) \in Nat
  <2>1. DOMAIN s = 1 .. Len(s) /\ Len(s) \in Nat
    BY DEF IsSeq
  <2>2. IsFiniteSet(DOMAIN s)
    BY <2>1, FS_Interval
  <2>3. A \subseteq DOMAIN s
    BY DEF Among, Part
  <2> QED BY <2>2, <2>3, FS_Subset, FS_CardinalityType
<1> HIDE DEF A
<1>3. CASE q.splits = p.splits
  <2>1. Len(p.splits) \in Nat
    BY <1>2 DEF Divides, IsSeq
  <2>2. Len(p.splits) >= Cardinality(A)
    BY <1>0, <1>2, <2>1 DEF Divides, A
  <2> QED BY <1>1, <1>2, <1>3, <2>2 DEF Divides, Cut, A
<1>4. CASE p.splits = <<>> /\ name # "tpws"
  <2>1. ItemsIn(s, k, "split_pos") = {}
    BY <1>2, <1>4 DEF Divides
  <2>2. A = {}
    <3>1. Cardinality(A) <= Len(<<>>) /\ Len(<<>>) = 0
      BY <1>2, <1>4 DEF Divides, A
    <3>2. Cardinality(A) = 0
      BY <1>0, <3>1
    <3> QED BY <1>0, <3>2, FS_EmptySet
  <2> QED BY <1>1, <1>4, <2>1, <2>2 DEF Cut, A
<1>5. q.splits = p.splits \/ (p.splits = <<>> /\ name # "tpws")
  BY DEF Finished
<1> QED BY <1>1, <1>3, <1>4, <1>5

LEMMA FinishedWhole ==
  ASSUME ProfilesOK, IsSeq(argv), NEW qs, NEW name, Len(qs) = Len(Kept) + 1, qs[Len(qs)].n = 0, qs[Len(qs)].tcp = {},
         \A x \in 1 .. Len(Kept) : Finished(qs[x], Kept[x], name)
  PROVE  Whole(qs, files, argv, name)
<1>1. /\ Len(Kept) = Cardinality(Segs(argv))
      /\ \A k \in Segs(argv) : /\ Place(argv, k) \in 1 .. Len(Kept)
                               /\ Described(Kept[Place(argv, k)], files, argv, k)
                               /\ Kept[Place(argv, k)].n = Place(argv, k)
  BY KeptFacts
<1>2. ASSUME NEW k \in Segs(argv), NEW x, x = Place(argv, k)
      PROVE  /\ qs[x].n = x /\ Lists(qs[x], files, argv, k) /\ Opens(qs[x], argv, k)
             /\ Cut(qs[x], argv, k, name)
  <2>1. Described(Kept[x], files, argv, k) /\ Kept[x].n = x /\ Finished(qs[x], Kept[x], name)
    BY <1>1, <1>2
  <2>2. qs[x].n = x
    BY <2>1 DEF Finished
  <2> QED BY <2>1, <2>2, FinishedDescribed
<1> QED BY <1>1, <1>2 DEF Whole

\* The words of the property for a part of the line.
LEMMA SegmentIs ==
  /\ \A k : Segment(k) = Part(argv, k)
  /\ Segments = Segs(argv)
<1>1. \A j : NewsBefore(j) = NewsIn(argv, j)
  BY DEF NewsBefore, NewsIn
<1>2. \A k : Segment(k) = Part(argv, k)
  BY <1>1 DEF Segment, Part
<1>3. Segments = Segs(argv)
  BY <1>1, <1>2 DEF Segments, Segs, Skips, Reached
<1> QED BY <1>2, <1>3

LEMMA GivenIs ==
  /\ \A k, o : Given(k, o) = Among(argv, k, {o}) /\ ItemsOfArgs(Given(k, o)) = ItemsIn(argv, k, o)
  /\ \A k, o : Ports(k, o) = PortsIn(argv, k, o)
  /\ \A k : {j \in Segment(k) : argv[j].o \in {"split_pos", "split_http_req", "split_tls"}} = Among(argv, k, SplitNames)
<1>1. \A k, o : Given(k, o) = Among(argv, k, {o})
  BY SegmentIs DEF Given, Among
<1>2. \A k, o : ItemsOfArgs(Given(k, o)) = ItemsIn(argv, k, o)
  BY <1>1 DEF ItemsOfArgs, ItemsIn
<1>3. \A k, o : Ports(k, o) = PortsIn(argv, k, o)
  BY <1>2 DEF Ports, PortsIn, Span
<1>4. \A k : {j \in Segment(k) : argv[j].o \in {"split_pos", "split_http_req", "split_tls"}} = Among(argv, k, SplitNames)
  BY SegmentIs DEF Among, SplitNames
<1> QED BY <1>1, <1>2, <1>3, <1>4

LEMMA NamesAre ==
  \A k, c : Names(k, c) = NamesIn(argv, k, c) /\ Inline(k, c) = InlineIn(argv, k, c)
<1> TAKE k, c
<1>1. Segment(k) = Part(argv, k)
  BY SegmentIs
<1>2. Names(k, c) = NamesIn(argv, k, c)
  <2> DEFINE N == {i \in Segment(k) : argv[i].o \in DOMAIN NamedList /\ NamedList[argv[i].o] = c}
             A == {i \in Segment(k) : c = "hl" /\ argv[i].o = "hostlist_auto"}
  <2>1. Among(argv, k, Namers(c)) = N \cup A
    BY <1>1 DEF Among, Namers
  <2> HIDE DEF N, A
  <2>2. NamesIn(argv, k, c) = {argv[j].a[1].w : j \in N} \cup {argv[j].a[1].w : j \in A}
    BY <2>1 DEF NamesIn
  <2> QED BY <2>2 DEF Names, N, A
<1>3. Inline(k, c) = InlineIn(argv, k, c)
  <2> DEFINE N == {i \in Segment(k) : argv[i].o \in DOMAIN InlineList /\ InlineList[argv[i].o] = c}
  <2>1. Among(argv, k, Inliners(c)) = N
    BY <1>1 DEF Among, Inliners
  <2> HIDE DEF N
  <2>2. InlineIn(argv, k, c) = UNION {ItemsGiven(argv[j]) : j \in N}
    BY <2>1 DEF InlineIn
  <2> QED BY <2>2, Zenon DEF Inline, ItemsGiven, N
<1> QED BY <1>2, <1>3

LEMMA WholeIsWritten == Whole(profiles, files, argv, system.name) => ProfilesAsWritten
<1> SUFFICES ASSUME Whole(profiles, files, argv, system.name) PROVE ProfilesAsWritten
  OBVIOUS
<1>1. \A k : Place(argv, k) = Cardinality({r \in Segments : r <= k})
  BY SegmentIs DEF Place
<1>2. \A p, c : FilesOf(p, c) = FilesAre(p, files, c)
  BY DEF FilesOf, FilesAre
<1>3. \A p, c : ItemsOf(p, c) = ItemsAre(p, files, c)
  BY Zenon DEF ItemsOf, ItemsAre
<1>4. ASSUME NEW k \in Segments, NEW p, p = profiles[Place(argv, k)],
             NEW given, given = {j \in Segment(k) : argv[j].o \in {"split_pos", "split_http_req", "split_tls"}}
      PROVE  /\ p.n = Place(argv, k)
             /\ \A c \in Collections : FilesOf(p, c) = Names(k, c) /\ ItemsOf(p, c) = Inline(k, c)
             /\ Ranges(p.tcp) = Ports(k, "filter_tcp") /\ Ranges(p.udp) = Ports(k, "filter_udp")
             /\ given # {} => Len(p.splits) >= Cardinality(given)
             /\ \A i \in ItemsOfArgs(Given(k, "split_pos")) :
                  \E n \in DOMAIN p.splits : p.splits[n] \in SplitPos(i)
             /\ given = {} /\ system.name = "tpws" => p.splits = <<>>
  <2>1. p.n = Place(argv, k) /\ Lists(p, files, argv, k) /\ Opens(p, argv, k) /\ Cut(p, argv, k, system.name)
    BY <1>4, SegmentIs DEF Whole
  <2>2. given = Among(argv, k, SplitNames)
    BY <1>4, GivenIs
  <2>3. \A c \in Collections : FilesOf(p, c) = Names(k, c) /\ ItemsOf(p, c) = Inline(k, c)
    BY <1>2, <1>3, <2>1, NamesAre DEF Lists
  <2>4. Ranges(p.tcp) = Ports(k, "filter_tcp") /\ Ranges(p.udp) = Ports(k, "filter_udp")
    BY <2>1, GivenIs DEF Opens
  <2>5. ItemsOfArgs(Given(k, "split_pos")) = ItemsIn(argv, k, "split_pos")
    BY GivenIs
  <2> QED BY <2>1, <2>2, <2>3, <2>4, <2>5 DEF Cut
<1>5. Len(profiles) = Cardinality(Segments) + 1 /\ profiles[Len(profiles)].n = 0 /\ profiles[Len(profiles)].tcp = {}
  BY SegmentIs DEF Whole
<1> QED BY <1>1, <1>4, <1>5 DEF ProfilesAsWritten

LEMMA ParsedWhole ==
  ASSUME LineRead, ProfilesOK, Parsed, phase' = "start"
  PROVE  Whole(profiles', files', argv', system'.name)
<1>1. IsSeq(argv)
  BY SeqIsSeq DEF LineRead
<1>2. IsSeq(Kept) /\ Len(Kept) \in Nat /\ DOMAIN Kept = 1 .. Len(Kept)
  BY <1>1, KeptFacts
<1>3. UNCHANGED <<files, argv, written>> /\ system' = system
  BY DEF Parsed, TpwsParsed, NfqwsParsed, system
<1> DEFINE K == Kept
           L == Len(K)
           last == Fresh(0, Fields0(system))
           ps == Append(K, last)
<1>4. /\ DOMAIN last = ProfileFields /\ last.n = 0 /\ last.tcp = {}
  BY DEF Fresh, ProfileFields
<1>5. \A x \in 1 .. L : DOMAIN K[x] = ProfileFields
  <2>1. \A x \in 1 .. L : K[x] = profiles[x] /\ x \in DOMAIN profiles
    BY <1>1, KeptIs
  <2> QED BY <1>1, <2>1, LastFacts
<1> HIDE DEF K, last
<1>6. /\ Len(ps) = L + 1 /\ DOMAIN ps = 1 .. L + 1 /\ ps[L + 1] = last
      /\ \A x \in 1 .. L : ps[x] = K[x]
      /\ L + 1 \in 1 .. L + 1 /\ \A x \in 1 .. L : x \in 1 .. L + 1
  <2>1. IsSeq(K) /\ L \in Nat
    BY <1>2 DEF K
  <2> QED BY <2>1, AppendIsSeq
<1>7. CASE system.name = "tpws"
  <2>1. profiles' = ps
    BY <1>7 DEF Parsed, TpwsParsed, Fields0, last, K
  <2> HIDE DEF ps
  <2>2. \A x \in 1 .. L : Finished(profiles'[x], K[x], "tpws")
    BY <1>6, <2>1 DEF Finished
  <2>3. Len(profiles') = L + 1 /\ profiles'[L + 1].n = 0 /\ profiles'[L + 1].tcp = {}
    BY <1>4, <1>6, <2>1
  <2> DEFINE qs == profiles'
  <2>4. Whole(qs, files, argv, "tpws")
    <3> HIDE DEF qs
    <3>1. Len(qs) = Len(Kept) + 1 /\ qs[Len(qs)].n = 0 /\ qs[Len(qs)].tcp = {}
      BY <2>3 DEF K, qs
    <3> QED BY <1>1, <2>2, <3>1, FinishedWhole DEF K, qs
  <2> QED BY <1>3, <1>7, <2>4
<1>8. CASE system.name = "nfqws"
  <2>1. /\ profiles' = [i \in DOMAIN ps |-> IF Completed(ps[i]) = {} THEN ps[i] ELSE CHOOSE p \in Completed(ps[i]) : TRUE]
        /\ phase' \in NfqwsAfterOptions(ps)
    BY <1>8 DEF Parsed, NfqwsParsed, Fields0, last, K
  <2> HIDE DEF ps
  <2>2. \A i \in DOMAIN ps : Completed(ps[i]) # {}
    BY <2>1 DEF NfqwsAfterOptions
  <2>3. \A i \in DOMAIN ps : profiles'[i] \in Completed(ps[i])
    BY <2>1, <2>2
  <2>4. \A i \in DOMAIN ps : DOMAIN ps[i] = ProfileFields
    BY <1>4, <1>5, <1>6
  <2>5. \A i \in DOMAIN ps : Finished(profiles'[i], ps[i], "nfqws")
    BY <2>3, <2>4, CompletedFinished
  <2>6. Len(profiles') = L + 1
    <3>1. L + 1 \in Nat
      BY <1>2 DEF K
    <3> QED BY <1>6, <2>1, <3>1
  <2>7. profiles'[L + 1].n = 0 /\ profiles'[L + 1].tcp = {}
    BY <1>4, <1>6, <2>5 DEF Finished
  <2>8. \A x \in 1 .. L : Finished(profiles'[x], K[x], "nfqws")
    BY <1>6, <2>5
  <2> DEFINE qs == profiles'
  <2>9. Whole(qs, files, argv, "nfqws")
    <3> HIDE DEF qs
    <3>1. Len(qs) = Len(Kept) + 1 /\ qs[Len(qs)].n = 0 /\ qs[Len(qs)].tcp = {}
      BY <2>6, <2>7 DEF K, qs
    <3> QED BY <1>1, <2>8, <3>1, FinishedWhole DEF K, qs
  <2> QED BY <1>3, <1>8, <2>9
<1> QED BY <1>7, <1>8, Systems DEF LineRead

PartsInv ==
  /\ Inv /\ (phase = "options" => ProfilesOK)
  /\ phase = "start" => Whole(profiles, files, argv, system.name)

LEMMA PartsInit == Init => PartsInv
<1> SUFFICES ASSUME Init PROVE PartsInv
  OBVIOUS
<1>1. phase = "options"
  BY DEF Init
<1> QED BY <1>1, InitInv, InitParts DEF PartsInv

LEMMA PartsNext == PartsInv /\ [Next]_all => PartsInv'
<1> SUFFICES ASSUME PartsInv, [Next]_all PROVE PartsInv'
  OBVIOUS
<1>1. /\ Inv /\ LineRead /\ (phase = "options" => ProfilesOK)
      /\ phase = "start" => Whole(profiles, files, argv, system.name)
  BY DEF PartsInv, Inv
<1>2. Inv'
  BY <1>1, NextInv
<1>3. CASE Read
  <2>1. phase = "options" /\ phase' # "start"
    BY <1>1, <1>3, NextIsOption
  <2>2. phase' = "options" => ProfilesOK'
    BY <1>1, <1>3, <2>1, ReadParts
  <2> QED BY <1>2, <2>1, <2>2 DEF PartsInv
<1>4. CASE Parsed
  <2>1. phase = "options" /\ phase' # "options"
    BY <1>4 DEF Parsed, TpwsParsed, AfterOptions, NfqwsParsed, NfqwsAfterOptions, WindowsReady
  <2>2. phase' = "start" => Whole(profiles', files', argv', system'.name)
    BY <1>1, <1>4, <2>1, ParsedWhole
  <2> QED BY <1>2, <2>1, <2>2 DEF PartsInv
<1>5. CASE ProcessStep \/ TpwsStep \/ NetChange \/ NfqwsStep
  <2>1. phase = "start" /\ UNCHANGED line
    BY <1>5, StepsKeepLine
  <2>2. UNCHANGED <<phase, profiles, files, argv, system>>
    BY <2>1 DEF line, system
  <2> QED BY <1>1, <1>2, <2>1, <2>2 DEF PartsInv
<1>6. CASE UNCHANGED all
  <2>1. UNCHANGED line
    BY <1>6 DEF all, vars, line
  <2>2. UNCHANGED <<phase, profiles, count, files, anon, argv, skip, system>>
    BY <2>1 DEF line, system
  <2>3. ProfilesOK => ProfilesOK'
    BY <2>2 DEF ProfilesOK
  <2> QED BY <1>1, <1>2, <2>2, <2>3 DEF PartsInv
<1> QED BY <1>3, <1>4, <1>5, <1>6 DEF Next

\* Every profile of a program that starts is the one its own part of the line
\* describes, for every line, however parts are skipped and lists are shared.
THEOREM SpecProfiles == Spec => []ProfilesAsWritten
<1>1. PartsInv => ProfilesAsWritten
  BY WholeIsWritten DEF PartsInv, ProfilesAsWritten
<1> QED BY <1>1, PartsInit, PartsNext, PTL DEF Spec

-----------------------------------------------------------------------------
(* The fakes of a profile.  A fake TLS hello and the changes given for it are *)
(* found by counting: the hellos of the profile are the options that asked    *)
(* for one, in their order.                                                   *)

TlsOf(fakes) == {i \in DOMAIN fakes : fakes[i].kind = "tls"}
UpTo(S, i) == {n \in S : n <= i}
Latest(S) == {i \in S : \A n \in S : n <= i}
Unset(mod) == mod \ {"set", "custom"}
Mods(t) == Words(t.a) \ {"none"}
ModsOf(s, is) == UNION {Mods(s[i]) : i \in is}

\* The options of a part that ask for a hello, those that change one, and of these
\* the ones that may change the hello that option j asks for.
FakesIn(s, k) == Among(s, k, {"fake_tls"})
ModsIn(s, k) == Among(s, k, {"fake_tls_mod"})
ModsAt(s, k, j) == {i \in ModsIn(s, k) : \A n \in FakesIn(s, k) : n > j => i < n}

\* A fake that can be completed: its file is there, it begins inside of it, a new
\* name has a length, and a hello was asked for.
FakeFields == {"kind", "file", "offset", "mod", "sni"}
Sayable(m) == "sni" \in m.mod => m.sni \in Nat
Sendable(f) ==
  /\ DOMAIN f = FakeFields /\ f.file \in DOMAIN Blobs /\ f.offset < Blobs[f.file].size /\ Sayable(f)
  /\ f.kind = "tls" => f.mod \cap {"set", "custom"} # {}
Sendables(p, name) ==
  /\ IsSeq(p.fakes) /\ (name = "tpws" => p.fakes = <<>>) /\ Sayable(p.tls_mod)
  /\ \A i \in DOMAIN p.fakes : Sendable(p.fakes[i])

\* The profile p has the hellos that part k of the line s asks for, each changed as
\* it says, and keeps the changes for the next one.
Asked(p, s, k, j) ==
  \E i \in TlsOf(p.fakes) : /\ Cardinality(UpTo(TlsOf(p.fakes), i)) = Cardinality(UpTo(FakesIn(s, k), j))
                            /\ Unset(p.fakes[i].mod) = ModsOf(s, Latest(ModsAt(s, k, j)))
Follows(p, s, k) ==
  /\ Unset(p.tls_mod.mod) = ModsOf(s, Latest(ModsIn(s, k)))
  /\ Cardinality(TlsOf(p.fakes)) = Cardinality(FakesIn(s, k))
  /\ \A j \in FakesIn(s, k) : Asked(p, s, k, j)

FakeParts(ps, s, sk, name) ==
  /\ \A x \in DOMAIN ps : Sendables(ps[x], name)
  /\ \A k \in Ended(s) : Follows(ps[Rank(s, k)], s, k)
  /\ ~sk => Follows(ps[Len(ps)], s, Reached(s))

\* One more number that is larger than the others; the largest one.
More(S, x, T) == IsFiniteSet(S) /\ S \subseteq Nat /\ x \in Nat /\ (\A n \in S : n < x) /\ T = S \cup {x}

LEMMA CountMore ==
  ASSUME NEW S, NEW x, NEW T, More(S, x, T)
  PROVE  /\ Cardinality(T) = Cardinality(S) + 1 /\ IsFiniteSet(T)
         /\ \A n \in S : UpTo(T, n) = UpTo(S, n)
         /\ UpTo(T, x) = T /\ Latest(T) = {x}
<1>0. IsFiniteSet(S) /\ S \subseteq Nat /\ x \in Nat /\ (\A n \in S : n < x) /\ T = S \cup {x}
  BY DEF More
<1>1. x \notin S
  BY <1>0
<1>2. Cardinality(T) = Cardinality(S) + 1 /\ IsFiniteSet(T)
  BY <1>0, <1>1, FS_AddElement
<1>3. \A n \in S : UpTo(T, n) = UpTo(S, n)
  BY <1>0 DEF UpTo
<1>4. \A n : n \in T <=> n \in S \/ n = x
  BY <1>0
<1>5. \A n \in S : n \in Nat /\ n < x /\ n <= x /\ ~(x <= n)
  BY <1>0
<1>6. x <= x
  BY <1>0
<1>7. UpTo(T, x) = T
  BY <1>4, <1>5, <1>6, Zenon DEF UpTo
<1>8. Latest(T) = {x}
  BY <1>4, <1>5, <1>6, Zenon DEF Latest
<1> QED BY <1>2, <1>3, <1>7, <1>8

LEMMA LatestCount ==
  ASSUME NEW S, IsFiniteSet(S), NEW i \in S
  PROVE  /\ Cardinality(UpTo(S, i)) = Cardinality(S) => i \in Latest(S)
         /\ i \in Latest(S) => UpTo(S, i) = S
<1>1. UpTo(S, i) \subseteq S
  BY DEF UpTo
<1>2. Cardinality(UpTo(S, i)) = Cardinality(S) => UpTo(S, i) = S
  BY <1>1, FS_Subset
<1>3. UpTo(S, i) = S <=> i \in Latest(S)
  BY DEF UpTo, Latest
<1> QED BY <1>2, <1>3

\* The hellos of a profile and the options of a part are some of the numbers there are.
LEMMA TlsBounded ==
  ASSUME NEW f, IsSeq(f)
  PROVE  /\ IsFiniteSet(TlsOf(f)) /\ Cardinality(TlsOf(f)) \in Nat /\ TlsOf(f) \subseteq Nat
         /\ TlsOf(f) \subseteq DOMAIN f /\ \A n \in TlsOf(f) : n < Len(f) + 1
<1>1. DOMAIN f = 1 .. Len(f) /\ Len(f) \in Nat
  BY DEF IsSeq
<1>2. IsFiniteSet(1 .. Len(f))
  BY <1>1, FS_Interval
<1>3. TlsOf(f) \subseteq 1 .. Len(f)
  BY <1>1 DEF TlsOf
<1>4. \A n \in TlsOf(f) : n \in Nat /\ n < Len(f) + 1
  BY <1>1, <1>3
<1> QED BY <1>1, <1>2, <1>3, <1>4, FS_Subset, FS_CardinalityType

LEMMA AmongBounded ==
  ASSUME NEW s, IsSeq(s), NEW k, NEW names
  PROVE  LET A == Among(s, k, names) IN
         IsFiniteSet(A) /\ Cardinality(A) \in Nat /\ A \subseteq Nat /\ \A n \in A : n < Len(s) + 1
<1> DEFINE A == Among(s, k, names)
<1>1. DOMAIN s = 1 .. Len(s) /\ Len(s) \in Nat
  BY DEF IsSeq
<1>2. IsFiniteSet(1 .. Len(s))
  BY <1>1, FS_Interval
<1>3. A \subseteq 1 .. Len(s)
  BY <1>1 DEF Among, Part
<1> HIDE DEF A
<1>4. \A n \in A : n \in Nat /\ n < Len(s) + 1
  BY <1>1, <1>3
<1> QED BY <1>2, <1>3, <1>4, FS_Subset, FS_CardinalityType DEF A

-----------------------------------------------------------------------------
(* One more option that is not about hellos.                                 *)

LEMMA ModsSame ==
  ASSUME NEW s, NEW u, NEW A, \A i \in A : u[i] = s[i]
  PROVE  ModsOf(u, A) = ModsOf(s, A)
BY DEF ModsOf

LEMMA AskedSame ==
  ASSUME NEW p, NEW q, NEW s, NEW u, NEW k, NEW j, FakesIn(u, k) = FakesIn(s, k),
         NEW A, A = Latest(ModsAt(s, k, j)), Latest(ModsAt(u, k, j)) = A, \A i \in A : u[i] = s[i],
         TlsOf(q.fakes) = TlsOf(p.fakes), \A i \in TlsOf(p.fakes) : q.fakes[i].mod = p.fakes[i].mod,
         Asked(p, s, k, j)
  PROVE  Asked(q, u, k, j)
<1>1. ModsOf(u, A) = ModsOf(s, A)
  BY ModsSame
<1> QED BY <1>1 DEF Asked

LEMMA FollowsSame ==
  ASSUME NEW p, NEW q, NEW s, NEW u, NEW k, FakesIn(u, k) = FakesIn(s, k), ModsIn(u, k) = ModsIn(s, k),
         \A i \in ModsIn(s, k) : u[i] = s[i], q.tls_mod = p.tls_mod,
         TlsOf(q.fakes) = TlsOf(p.fakes), \A i \in TlsOf(p.fakes) : q.fakes[i].mod = p.fakes[i].mod,
         Follows(p, s, k)
  PROVE  Follows(q, u, k)
<1>1. \A A : A \subseteq ModsIn(s, k) => ModsOf(u, A) = ModsOf(s, A)
  BY ModsSame
<1>2. ASSUME NEW j \in FakesIn(s, k) PROVE Asked(q, u, k, j)
  <2> DEFINE A == Latest(ModsAt(s, k, j))
  <2>1. ModsAt(u, k, j) = ModsAt(s, k, j) /\ A \subseteq ModsIn(s, k)
    BY DEF ModsAt, Latest
  <2>2. Asked(p, s, k, j)
    BY DEF Follows
  <2>3. Latest(ModsAt(u, k, j)) = A /\ \A i \in A : u[i] = s[i]
    BY <2>1
  <2> HIDE DEF A
  <2> QED BY <2>2, <2>3, AskedSame DEF A
<1>3. Latest(ModsIn(s, k)) \subseteq ModsIn(s, k)
  BY DEF Latest
<1> QED BY <1>1, <1>2, <1>3 DEF Follows

\* The parts before the one that is described stay as they are.
LEMMA FollowsBefore ==
  ASSUME NEW s, IsSeq(s), NEW t, NEW k, t.o = "new" \/ k # Reached(s), NEW p, NEW q,
         q.fakes = p.fakes, q.tls_mod = p.tls_mod, Follows(p, s, k)
  PROVE  Follows(q, Append(s, t), k)
<1> DEFINE u == Append(s, t)
<1>1. \A names : Among(u, k, names) = Among(s, k, names)
  BY SamePart
<1>2. \A i \in Part(s, k) : u[i] = s[i]
  BY PartAppend
<1> HIDE DEF u
<1>3. FakesIn(u, k) = FakesIn(s, k) /\ ModsIn(u, k) = ModsIn(s, k) /\ \A i \in ModsIn(s, k) : u[i] = s[i]
  BY <1>1, <1>2 DEF FakesIn, ModsIn, Among
<1>4. TlsOf(q.fakes) = TlsOf(p.fakes) /\ \A i \in TlsOf(p.fakes) : q.fakes[i].mod = p.fakes[i].mod
  OBVIOUS
<1> QED BY <1>3, <1>4, FollowsSame DEF u

\* The part that is described, when the option gives it no hello and no change of one.
LEMMA FollowsHere ==
  ASSUME NEW s, IsSeq(s), NEW t, t.o \notin {"new", "fake_tls", "fake_tls_mod"}, NEW p, NEW q,
         q.tls_mod = p.tls_mod, TlsOf(q.fakes) = TlsOf(p.fakes),
         \A i \in TlsOf(p.fakes) : q.fakes[i].mod = p.fakes[i].mod,
         Follows(p, s, Reached(s))
  PROVE  Follows(q, Append(s, t), Reached(s))
<1> DEFINE u == Append(s, t)
           K == Reached(s)
<1>1. Grows(s, t, {"fake_tls"}) /\ Grows(s, t, {"fake_tls_mod"})
  BY AmongAppend
<1>2. FakesIn(u, K) = FakesIn(s, K) /\ ModsIn(u, K) = ModsIn(s, K) /\ \A i \in ModsIn(s, K) : u[i] = s[i]
  BY <1>1 DEF Grows, FakesIn, ModsIn
<1> HIDE DEF u, K
<1> QED BY <1>2, FollowsSame DEF u, K

-----------------------------------------------------------------------------
(* One more hello, and one more change.                                      *)

LEMMA HelloAsked ==
  ASSUME NEW s, IsSeq(s), NEW t, t.o = "fake_tls", NEW p, NEW q, NEW f, IsSeq(p.fakes),
         f.kind = "tls", Unset(f.mod) = Unset(p.tls_mod.mod),
         q.fakes = Append(p.fakes, f), q.tls_mod = p.tls_mod, Follows(p, s, Reached(s))
  PROVE  Follows(q, Append(s, t), Reached(s))
<1> DEFINE u == Append(s, t)
           K == Reached(s)
           new == Len(s) + 1
           F == FakesIn(s, K)
           G == FakesIn(u, K)
           M == ModsIn(s, K)
           T == TlsOf(p.fakes)
           x == Len(p.fakes) + 1
           R == TlsOf(q.fakes)
<1>1. Grows(s, t, {"fake_tls"}) /\ Grows(s, t, {"fake_tls_mod"})
  BY AmongAppend
<1>2. /\ G = F \cup {new} /\ ModsIn(u, K) = M /\ \A i \in M : u[i] = s[i]
  BY <1>1 DEF Grows, FakesIn, ModsIn
<1>3. /\ IsFiniteSet(F) /\ F \subseteq Nat /\ (\A n \in F : n < new)
      /\ M \subseteq Nat /\ (\A n \in M : n < new) /\ new \in Nat
  <2>1. Len(s) \in Nat
    BY DEF IsSeq
  <2> QED BY <2>1, AmongBounded DEF FakesIn, ModsIn
<1>4. /\ IsFiniteSet(T) /\ T \subseteq Nat /\ T \subseteq DOMAIN p.fakes /\ \A n \in T : n < x
  BY TlsBounded
<1>5. /\ x \in Nat /\ DOMAIN q.fakes = DOMAIN p.fakes \cup {x} /\ x \notin DOMAIN p.fakes
      /\ q.fakes[x] = f /\ \A i \in DOMAIN p.fakes : q.fakes[i] = p.fakes[i]
  <2> DEFINE a == p.fakes
             b == q.fakes
  <2>1. IsSeq(a) /\ b = Append(a, f)
    OBVIOUS
  <2> HIDE DEF a, b
  <2>2. /\ Len(a) \in Nat /\ DOMAIN a = 1 .. Len(a) /\ DOMAIN b = 1 .. Len(a) + 1
        /\ \A i \in 1 .. Len(a) : b[i] = a[i]
        /\ b[Len(a) + 1] = f
    BY <2>1, AppendIsSeq
  <2> QED BY <2>2 DEF a, b
<1>6. R = T \cup {x}
  BY <1>5 DEF TlsOf
<1> HIDE DEF u, K, new, T, R, x, F, G, M
<1>7. /\ Cardinality(G) = Cardinality(F) + 1 /\ (\A n \in F : UpTo(G, n) = UpTo(F, n)) /\ UpTo(G, new) = G
  <2>1. More(F, new, G)
    BY <1>2, <1>3 DEF More
  <2> QED BY <2>1, CountMore
<1>8. /\ Cardinality(R) = Cardinality(T) + 1 /\ (\A n \in T : UpTo(R, n) = UpTo(T, n)) /\ UpTo(R, x) = R
  <2>1. More(T, x, R)
    BY <1>4, <1>5, <1>6 DEF More
  <2> QED BY <2>1, CountMore
<1>9. /\ Unset(p.tls_mod.mod) = ModsOf(s, Latest(M)) /\ Cardinality(T) = Cardinality(F)
      /\ \A j \in F : Asked(p, s, K, j)
  BY DEF Follows, T, F, K, M
<1>10. \A A : A \subseteq M => ModsOf(u, A) = ModsOf(s, A)
  BY <1>2, ModsSame
<1>11. Latest(M) \subseteq M
  BY DEF Latest
<1>12. Unset(q.tls_mod.mod) = ModsOf(u, Latest(M))
  BY <1>9, <1>10, <1>11
<1>13. ASSUME NEW j \in F PROVE Asked(q, u, K, j)
  <2> DEFINE A == Latest(ModsAt(s, K, j))
  <2>1. ModsAt(u, K, j) = {i \in M : \A n \in G : n > j => i < n} /\ ModsAt(s, K, j) = {i \in M : \A n \in F : n > j => i < n}
    BY <1>2 DEF ModsAt, F, G, M
  <2>2. ModsAt(u, K, j) = ModsAt(s, K, j)
    BY <1>2, <1>3, <2>1
  <2>3. A \subseteq M
    BY DEF Latest, ModsAt, M
  <2> HIDE DEF A
  <2>4. PICK i \in T : Cardinality(UpTo(T, i)) = Cardinality(UpTo(F, j)) /\ Unset(p.fakes[i].mod) = ModsOf(s, A)
    BY <1>9 DEF Asked, T, F, A
  <2>5. /\ i \in R /\ Cardinality(UpTo(R, i)) = Cardinality(UpTo(G, j)) /\ q.fakes[i] = p.fakes[i]
    BY <1>4, <1>5, <1>6, <1>7, <1>8, <2>4
  <2>6. Unset(q.fakes[i].mod) = ModsOf(u, Latest(ModsAt(u, K, j)))
    BY <1>10, <2>2, <2>3, <2>4, <2>5 DEF A
  <2> QED BY <2>5, <2>6 DEF Asked, R, G
<1>14. Asked(q, u, K, new)
  <2>1. ModsAt(u, K, new) = {i \in M : \A n \in G : n > new => i < n}
    BY <1>2 DEF ModsAt, G
  <2>2. ModsAt(u, K, new) = M
    BY <1>2, <1>3, <2>1
  <2>3. Unset(q.fakes[x].mod) = ModsOf(u, Latest(ModsAt(u, K, new)))
    BY <1>5, <1>12, <2>2
  <2>4. x \in R /\ Cardinality(UpTo(R, x)) = Cardinality(UpTo(G, new))
    BY <1>6, <1>7, <1>8, <1>9
  <2> QED BY <2>3, <2>4 DEF Asked, R, G
<1>15. Cardinality(R) = Cardinality(G) /\ \A j \in G : Asked(q, u, K, j)
  BY <1>2, <1>7, <1>8, <1>9, <1>13, <1>14
<1> QED BY <1>2, <1>12, <1>15 DEF Follows, R, G, u, K

LEMMA HelloChanged ==
  ASSUME NEW s, IsSeq(s), NEW t, t.o = "fake_tls_mod", NEW p, NEW q, NEW m, IsSeq(p.fakes),
         Unset(m.mod) = Mods(t), q.tls_mod = m, TlsOf(q.fakes) = TlsOf(p.fakes),
         \A i \in TlsOf(p.fakes) :
            q.fakes[i].mod = IF i \in Latest(TlsOf(p.fakes)) THEN m.mod ELSE p.fakes[i].mod,
         Follows(p, s, Reached(s))
  PROVE  Follows(q, Append(s, t), Reached(s))
<1> DEFINE u == Append(s, t)
           K == Reached(s)
           new == Len(s) + 1
           F == FakesIn(s, K)
           M == ModsIn(s, K)
           N == ModsIn(u, K)
           T == TlsOf(p.fakes)
<1>1. Grows(s, t, {"fake_tls"}) /\ Grows(s, t, {"fake_tls_mod"})
  BY AmongAppend
<1>2. /\ FakesIn(u, K) = F /\ N = M \cup {new} /\ (\A i \in M : u[i] = s[i]) /\ u[new] = t
  BY <1>1 DEF Grows, FakesIn, ModsIn
<1>3. /\ IsFiniteSet(F) /\ F \subseteq Nat /\ (\A n \in F : n < new)
      /\ IsFiniteSet(M) /\ M \subseteq Nat /\ (\A n \in M : n < new) /\ new \in Nat
  <2>1. Len(s) \in Nat
    BY DEF IsSeq
  <2> QED BY <2>1, AmongBounded DEF FakesIn, ModsIn
<1>4. IsFiniteSet(T)
  BY TlsBounded
<1>5. /\ Cardinality(T) = Cardinality(F) /\ \A j \in F : Asked(p, s, K, j)
  BY DEF Follows, T, F, K
<1>6. \A i \in T : q.fakes[i].mod = IF i \in Latest(T) THEN m.mod ELSE p.fakes[i].mod
  BY DEF T
<1>7. TlsOf(q.fakes) = T
  BY DEF T
<1> HIDE DEF u, K, new, T, F, M, N
<1>8. Latest(N) = {new}
  <2>1. More(M, new, N)
    BY <1>2, <1>3 DEF More
  <2> QED BY <2>1, CountMore
<1>9. ModsOf(u, {new}) = Mods(t)
  BY <1>2 DEF ModsOf
<1>10. ASSUME NEW j \in F PROVE Asked(q, u, K, j)
  <2> DEFINE A == ModsAt(s, K, j)
             B == ModsAt(u, K, j)
  <2>1. /\ A = {i \in M : \A n \in F : n > j => i < n} /\ A \subseteq M
        /\ B = {i \in N : \A n \in F : n > j => i < n}
    BY <1>2 DEF ModsAt, F, M, N
  <2>2. PICK i \in T : Cardinality(UpTo(T, i)) = Cardinality(UpTo(F, j)) /\ Unset(p.fakes[i].mod) = ModsOf(s, Latest(A))
    BY <1>5 DEF Asked, T, F
  <2>3. /\ Cardinality(UpTo(F, j)) = Cardinality(F) => j \in Latest(F)
        /\ j \in Latest(F) => UpTo(F, j) = F
    BY <1>3, LatestCount
  <2>4. /\ Cardinality(UpTo(T, i)) = Cardinality(T) => i \in Latest(T)
        /\ i \in Latest(T) => UpTo(T, i) = T
    BY <1>4, LatestCount
  <2>5. i \in Latest(T) <=> j \in Latest(F)
    BY <1>5, <2>2, <2>3, <2>4
  <2> HIDE DEF A, B
  <2>6. CASE j \in Latest(F)
    <3>1. \A n \in F : n <= j
      BY <2>6 DEF Latest
    <3>2. \A n \in F : ~(n > j)
      BY <1>3, <3>1
    <3>3. B = N
      BY <2>1, <3>2
    <3>4. Unset(q.fakes[i].mod) = ModsOf(u, Latest(B))
      BY <1>6, <1>8, <1>9, <2>5, <2>6, <3>3
    <3> QED BY <1>2, <1>7, <2>2, <3>4 DEF Asked, B, F
  <2>7. CASE j \notin Latest(F)
    <3>1. PICK n \in F : ~(n <= j)
      BY <2>7 DEF Latest
    <3>2. n > j /\ ~(new < n)
      BY <1>3, <3>1
    <3>3. new \notin B
      BY <2>1, <3>2
    <3>4. B = A
      BY <1>2, <2>1, <3>3
    <3>5. Latest(A) \subseteq M
      BY <2>1 DEF Latest
    <3>6. ModsOf(u, Latest(A)) = ModsOf(s, Latest(A))
      BY <1>2, <3>5, ModsSame
    <3>7. Unset(q.fakes[i].mod) = ModsOf(u, Latest(B))
      BY <1>6, <2>2, <2>5, <2>7, <3>4, <3>6
    <3> QED BY <1>2, <1>7, <2>2, <3>7 DEF Asked, B, F
  <2> QED BY <2>6, <2>7
<1>11. Unset(q.tls_mod.mod) = ModsOf(u, Latest(N))
  BY <1>8, <1>9
<1> QED BY <1>2, <1>5, <1>7, <1>10, <1>11 DEF Follows, N, u, K, F

-----------------------------------------------------------------------------
(* What the options for fakes add.                                           *)

\* Some numbers up to a bound have a largest one.
LEMMA LatestThere ==
  ASSUME NEW L \in Nat, NEW S, S \subseteq 1 .. L, S # {}
  PROVE  Latest(S) # {}
<1> DEFINE R == {rr \in Nat \X Nat : rr[1] < rr[2]}
           T == {L - i : i \in S}
<1>1. IsWellFoundedOn(R, Nat)
  <2>1. R = OpToRel(<, Nat)
    BY DEF OpToRel
  <2> HIDE DEF R
  <2> QED BY <2>1, NatLessThanWellFounded
<1>2. T \subseteq Nat /\ T # {}
  <2>1. \A i \in S : L - i \in Nat
    OBVIOUS
  <2> QED BY <2>1
<1>3. PICK x \in T : \A y \in T : ~ (<<y, x>> \in R)
  <2> HIDE DEF T, R
  <2> QED BY <1>1, <1>2, WFMin
<1>4. PICK i \in S : x = L - i
  OBVIOUS
<1>5. ASSUME NEW n \in S PROVE n <= i
  <2> DEFINE y == L - n
  <2>1. y \in T /\ y \in Nat /\ x \in Nat
    BY <1>2
  <2>2. ~(y < x)
    <3>1. ~ (<<y, x>> \in R)
      <4> HIDE DEF T, R, y
      <4> QED BY <1>3, <2>1
    <3> HIDE DEF T, y
    <3> QED BY <2>1, <3>1
  <2> QED BY <1>4, <2>2
<1> QED BY <1>5 DEF Latest

LEMMA LoadedFacts ==
  ASSUME NEW a, NEW room, NEW b \in Loaded(a, room)
  PROVE  b.file \in DOMAIN Blobs /\ b.offset < Blobs[b.file].size
BY DEF Loaded

LEMMA ChangeFacts ==
  ASSUME NEW a, IsSeq(a), NEW m \in TlsMod(a)
  PROVE  Unset(m.mod) = Words(a) \ {"none"} /\ "set" \in m.mod /\ Sayable(m)
<1>1. Named(a, TlsMods) /\ m.mod = (TlsModLast.mod \cap {"set", "custom"}) \cup {"set"} \cup (Words(a) \ {"none"})
      /\ m.sni = IF "sni" \in Words(a) THEN ModValues(a, None)["sni"][1] ELSE TlsModLast.sni
  BY DEF TlsMod
<1>2. DOMAIN TlsMods = {"rnd", "rndsni", "sni", "padencap", "dupsid", "none"} /\ TlsMods["sni"] = 1 .. 63
  BY DEF TlsMods
<1>3. /\ \A i \in DOMAIN a : a[i].w \in DOMAIN TlsMods
      /\ \A i \in DOMAIN a : a[i].w = "sni" => a[i].k[1] \in 1 .. 63
  <2>1. 1 .. 63 # {}
    OBVIOUS
  <2> QED BY <1>1, <1>2, <2>1 DEF Named
<1>4. Words(a) \subseteq {"rnd", "rndsni", "sni", "padencap", "dupsid", "none"}
  BY <1>2, <1>3 DEF Words
<1>5. Unset(m.mod) = Words(a) \ {"none"} /\ "set" \in m.mod
  BY <1>1, <1>4 DEF Unset
<1>6. ASSUME "sni" \in m.mod PROVE m.sni \in Nat
  <2> DEFINE S == {i \in DOMAIN a : a[i].w = "sni"}
             i == CHOOSE i \in DOMAIN a : a[i].w = "sni" /\ \A j \in DOMAIN a : a[j].w = "sni" => j <= i
  <2>1. "sni" \in Words(a) /\ "sni" # "none"
    BY <1>5, <1>6 DEF Unset
  <2>2. S # {}
    BY <2>1 DEF Words
  <2>3. Latest(S) # {}
    <3>1. DOMAIN a = 1 .. Len(a) /\ Len(a) \in Nat
      BY DEF IsSeq
    <3>2. S \subseteq 1 .. Len(a)
      BY <3>1
    <3> HIDE DEF S
    <3> QED BY <2>2, <3>1, <3>2, LatestThere
  <2>4. \E n \in DOMAIN a : a[n].w = "sni" /\ \A j \in DOMAIN a : a[j].w = "sni" => j <= n
    BY <2>3 DEF Latest
  <2>5. i \in DOMAIN a /\ a[i].w = "sni"
    BY <2>4
  <2>6. ModValues(a, None)["sni"] = a[i].k
    <3>1. "sni" \in (Words(a) \ {"none"}) \cup DOMAIN None
      BY <2>1
    <3> QED BY <2>1, <3>1 DEF ModValues
  <2> HIDE DEF i
  <2>7. a[i].k[1] \in 1 .. 63
    BY <1>3, <2>5
  <2> QED BY <1>1, <2>1, <2>6, <2>7
<1> QED BY <1>5, <1>6 DEF Sayable

LEMMA SendablesMore ==
  ASSUME NEW p, NEW q, NEW f, Sendables(p, "nfqws"), Sendable(f), q.fakes = Append(p.fakes, f), q.tls_mod = p.tls_mod
  PROVE  Sendables(q, "nfqws")
<1> DEFINE a == p.fakes
           b == q.fakes
<1>1. IsSeq(a) /\ b = Append(a, f) /\ Sayable(q.tls_mod) /\ \A i \in DOMAIN a : Sendable(a[i])
  BY DEF Sendables
<1> HIDE DEF a, b
<1>2. /\ IsSeq(b) /\ Len(a) \in Nat /\ DOMAIN a = 1 .. Len(a) /\ DOMAIN b = 1 .. Len(a) + 1
      /\ \A i \in 1 .. Len(a) : b[i] = a[i]
      /\ b[Len(a) + 1] = f
  BY <1>1, AppendIsSeq
<1>3. \A i \in 1 .. Len(a) + 1 : i \in 1 .. Len(a) \/ i = Len(a) + 1
  BY <1>2
<1>4. \A i \in DOMAIN b : Sendable(b[i])
  BY <1>1, <1>2, <1>3
<1> QED BY <1>1, <1>2, <1>4 DEF Sendables, b

\* A fake that is no hello.
LEMMA OtherFake ==
  ASSUME NEW a, IsSeq(a), NEW f, f.kind # "tls"
  PROVE  TlsOf(Append(a, f)) = TlsOf(a) /\ \A i \in TlsOf(a) : Append(a, f)[i].mod = a[i].mod
<1> DEFINE b == Append(a, f)
<1>1. /\ Len(a) \in Nat /\ DOMAIN a = 1 .. Len(a) /\ DOMAIN b = 1 .. Len(a) + 1
      /\ \A i \in 1 .. Len(a) : b[i] = a[i]
      /\ b[Len(a) + 1] = f
  BY AppendIsSeq
<1> HIDE DEF b
<1>2. DOMAIN b = DOMAIN a \cup {Len(a) + 1}
  BY <1>1
<1>3. TlsOf(b) = TlsOf(a) /\ \A i \in TlsOf(a) : b[i].mod = a[i].mod
  BY <1>1, <1>2 DEF TlsOf
<1> QED BY <1>3 DEF b

LEMMA FakeAddedIs ==
  ASSUME ProfilesOK, IsSeq(argv), NEW f, NEW q, q = FakeAdded(f)
  PROVE  q.fakes = Append(Here.fakes, f) /\ q.tls_mod = Here.tls_mod
BY LastFacts DEF FakeAdded, ProfileFields

LEMMA FakesModdedIs ==
  ASSUME ProfilesOK, IsSeq(argv), NEW m, NEW q, q = FakesModded(m), IsSeq(Here.fakes)
  PROVE  /\ q.tls_mod = m /\ IsSeq(q.fakes) /\ DOMAIN q.fakes = DOMAIN Here.fakes
         /\ \A i \in DOMAIN Here.fakes :
              q.fakes[i] = IF i \in Latest(TlsOf(Here.fakes)) THEN Fake("tls", Here.fakes[i], m.mod, m.sni) ELSE Here.fakes[i]
<1> DEFINE a == Here.fakes
           b == [i \in DOMAIN a |-> IF i \in LastTlsFake THEN Fake("tls", a[i], m.mod, m.sni) ELSE a[i]]
<1>1. DOMAIN Here = ProfileFields
  BY LastFacts
<1>2. q.tls_mod = m /\ q.fakes = b
  BY <1>1 DEF FakesModded, ProfileFields
<1>3. LastTlsFake = Latest(TlsOf(a))
  BY DEF LastTlsFake, Latest, TlsOf
<1>4. DOMAIN a = 1 .. Len(a) /\ Len(a) \in Nat
  BY DEF IsSeq
<1> HIDE DEF a
<1>5. DOMAIN b = DOMAIN a /\ \A i \in DOMAIN a : b[i] = IF i \in Latest(TlsOf(a)) THEN Fake("tls", a[i], m.mod, m.sni) ELSE a[i]
  BY <1>3
<1>6. IsSeq(b)
  <2> DEFINE e(i) == IF i \in LastTlsFake THEN Fake("tls", a[i], m.mod, m.sni) ELSE a[i]
             S == {e(i) : i \in DOMAIN a}
  <2>1. b = [i \in 1 .. Len(a) |-> e(i)] /\ \A i \in 1 .. Len(a) : e(i) \in S
    BY <1>4
  <2> HIDE DEF e, S, b
  <2>2. b \in Seq(S)
    BY <1>4, <2>1
  <2> QED BY <2>2, SeqIsSeq
<1> HIDE DEF b
<1> QED BY <1>2, <1>5, <1>6 DEF a

FakesFollow(t, q) ==
  /\ Sendables(q, "nfqws")
  /\ Follows(Here, argv, Reached(argv)) => Follows(q, Append(argv, t), Reached(argv))

LEMMA OtherFakeStep ==
  ASSUME ProfilesOK, IsSeq(argv), NEW t, t.o \notin Special, NEW kind \in Kinds \ {"tls"}, NEW b \in Loaded(t.a, FakeMax),
         NEW q, q = FakeAdded(Fake(kind, b, {}, 0)), Sendables(Here, "nfqws")
  PROVE  FakesFollow(t, q)
<1> DEFINE f == Fake(kind, b, {}, 0)
<1>1. DOMAIN f = FakeFields /\ f.kind = kind /\ f.file = b.file /\ f.offset = b.offset /\ f.mod = {} /\ kind # "tls"
  BY DEF Fake, FakeFields
<1> HIDE DEF f
<1>2. q.fakes = Append(Here.fakes, f) /\ q.tls_mod = Here.tls_mod
  BY FakeAddedIs DEF f
<1>3. b.file \in DOMAIN Blobs /\ b.offset < Blobs[b.file].size
  BY LoadedFacts
<1>4. Sendable(f)
  BY <1>1, <1>3 DEF Sendable, Sayable
<1>5. Sendables(q, "nfqws")
  BY <1>2, <1>4, SendablesMore
<1>6. ASSUME Follows(Here, argv, Reached(argv)) PROVE Follows(q, Append(argv, t), Reached(argv))
  <2>1. t.o \notin {"new", "fake_tls", "fake_tls_mod"}
    BY DEF Special
  <2>2. TlsOf(q.fakes) = TlsOf(Here.fakes) /\ \A i \in TlsOf(Here.fakes) : q.fakes[i].mod = Here.fakes[i].mod
    <3> DEFINE x == Here.fakes
               y == q.fakes
    <3>1. IsSeq(x) /\ f.kind # "tls" /\ y = Append(x, f)
      BY <1>1, <1>2 DEF Sendables
    <3> HIDE DEF x, y
    <3>2. TlsOf(Append(x, f)) = TlsOf(x) /\ \A i \in TlsOf(x) : Append(x, f)[i].mod = x[i].mod
      BY <3>1, OtherFake
    <3> QED BY <3>1, <3>2 DEF x, y
  <2> QED BY <1>2, <1>6, <2>1, <2>2, FollowsHere
<1> QED BY <1>5, <1>6 DEF FakesFollow

LEMMA HelloStep ==
  ASSUME ProfilesOK, IsSeq(argv), NEW t, t.o = "fake_tls", NEW b \in Loaded(t.a, FakeMax),
         NEW q, q = FakeAdded(Fake("tls", b, TlsModLast.mod \cup {"custom"}, TlsModLast.sni)), Sendables(Here, "nfqws")
  PROVE  FakesFollow(t, q)
<1> DEFINE mod == TlsModLast.mod \cup {"custom"}
           f == Fake("tls", b, mod, TlsModLast.sni)
<1>1. /\ DOMAIN f = FakeFields /\ f.kind = "tls" /\ f.file = b.file /\ f.offset = b.offset
      /\ f.mod = Here.tls_mod.mod \cup {"custom"} /\ f.sni = Here.tls_mod.sni
  BY DEF Fake, FakeFields, TlsModLast
<1> HIDE DEF f
<1>2. q.fakes = Append(Here.fakes, f) /\ q.tls_mod = Here.tls_mod
  BY FakeAddedIs DEF f
<1>3. b.file \in DOMAIN Blobs /\ b.offset < Blobs[b.file].size
  BY LoadedFacts
<1>4. Sayable(f)
  BY <1>1 DEF Sendables, Sayable
<1>5. Sendable(f)
  BY <1>1, <1>3, <1>4 DEF Sendable
<1>6. Sendables(q, "nfqws")
  BY <1>2, <1>5, SendablesMore
<1>7. ASSUME Follows(Here, argv, Reached(argv)) PROVE Follows(q, Append(argv, t), Reached(argv))
  <2>1. IsSeq(Here.fakes) /\ Unset(f.mod) = Unset(Here.tls_mod.mod)
    BY <1>1 DEF Sendables, Unset
  <2> QED BY <1>1, <1>2, <1>7, <2>1, HelloAsked
<1> QED BY <1>6, <1>7 DEF FakesFollow

LEMMA ChangeStep ==
  ASSUME ProfilesOK, IsSeq(argv), NEW t, t.o = "fake_tls_mod", IsSeq(t.a), NEW m \in TlsMod(t.a),
         NEW q, q = FakesModded(m), Sendables(Here, "nfqws")
  PROVE  FakesFollow(t, q)
<1> DEFINE a == Here.fakes
<1>1. IsSeq(a) /\ \A i \in DOMAIN a : Sendable(a[i])
  BY DEF Sendables
<1>2. Unset(m.mod) = Mods(t) /\ "set" \in m.mod /\ Sayable(m)
  BY ChangeFacts DEF Mods
<1>3. /\ q.tls_mod = m /\ IsSeq(q.fakes) /\ DOMAIN q.fakes = DOMAIN a
      /\ \A i \in DOMAIN a : q.fakes[i] = IF i \in Latest(TlsOf(a)) THEN Fake("tls", a[i], m.mod, m.sni) ELSE a[i]
  BY <1>1, FakesModdedIs
<1> HIDE DEF a
<1>4. ASSUME NEW i \in DOMAIN a
      PROVE  /\ Sendable(q.fakes[i]) /\ q.fakes[i].kind = a[i].kind
             /\ q.fakes[i].mod = IF i \in Latest(TlsOf(a)) THEN m.mod ELSE a[i].mod
  <2>1. CASE i \in Latest(TlsOf(a))
    <3> DEFINE f == Fake("tls", a[i], m.mod, m.sni)
    <3>1. q.fakes[i] = f
      BY <1>3, <2>1
    <3>2. /\ DOMAIN f = FakeFields /\ f.kind = "tls" /\ f.file = a[i].file /\ f.offset = a[i].offset
          /\ f.mod = m.mod /\ f.sni = m.sni
      BY DEF Fake, FakeFields
    <3> HIDE DEF f
    <3>3. a[i].kind = "tls"
      BY <2>1 DEF Latest, TlsOf
    <3>4. Sendable(f)
      BY <1>1, <1>2, <3>2 DEF Sendable, Sayable
    <3> QED BY <2>1, <3>1, <3>2, <3>3, <3>4
  <2>2. CASE i \notin Latest(TlsOf(a))
    BY <1>1, <1>3, <2>2
  <2> QED BY <2>1, <2>2
<1>5. Sendables(q, "nfqws")
  BY <1>2, <1>3, <1>4 DEF Sendables
<1>6. TlsOf(q.fakes) = TlsOf(a) /\ \A i \in TlsOf(a) : q.fakes[i].mod = IF i \in Latest(TlsOf(a)) THEN m.mod ELSE a[i].mod
  BY <1>3, <1>4 DEF TlsOf
<1>7. ASSUME Follows(Here, argv, Reached(argv)) PROVE Follows(q, Append(argv, t), Reached(argv))
  BY <1>1, <1>2, <1>3, <1>6, <1>7, HelloChanged DEF a
<1> QED BY <1>5, <1>7 DEF FakesFollow

LEMMA GivenFakes ==
  ASSUME ProfilesOK, LineRead, NEW t \in LineOption(written), NEW q, FakeGiven(t, q), Sendables(Here, "nfqws")
  PROVE  FakesFollow(t, q)
<1>1. IsSeq(argv)
  BY SeqIsSeq DEF LineRead
<1>2. IsSeq(t.a)
  BY OptionFacts, SeqIsSeq
<1> QED BY <1>1, <1>2, OtherFakeStep, HelloStep, ChangeStep DEF FakeGiven

-----------------------------------------------------------------------------
(* The fakes of all profiles, with one more option.                          *)

SameFakes(p, q) == q.fakes = p.fakes /\ q.tls_mod = p.tls_mod

LEMMA SendablesSame ==
  ASSUME NEW p, NEW q, NEW name, SameFakes(p, q), Sendables(p, name)
  PROVE  Sendables(q, name)
BY DEF SameFakes, Sendables

LEMMA FakePartsStep ==
  ASSUME NEW ps, NEW qs, NEW s, NEW t, NEW sk, NEW tk, NEW name, IsSeq(s), t.o # "new",
         FakeParts(ps, s, sk, name), DOMAIN qs = DOMAIN ps, DOMAIN ps = 1 .. Len(ps), Len(qs) = Len(ps),
         Len(ps) = Cardinality(Ended(s)) + 1,
         \A x \in 1 .. Len(ps) - 1 : SameFakes(ps[x], qs[x]),
         Sendables(qs[Len(qs)], name), ~tk => Follows(qs[Len(qs)], Append(s, t), Reached(s))
  PROVE  FakeParts(qs, Append(s, t), tk, name)
<1> DEFINE u == Append(s, t)
<1>1. Reached(u) = Reached(s) /\ Ended(u) = Ended(s) /\ \A k : Rank(u, k) = Rank(s, k)
  BY EndedSame
<1>2. /\ Cardinality(Ended(s)) \in Nat
      /\ \A k \in Ended(s) : k \in Nat /\ k < Reached(s) /\ Rank(s, k) \in 1 .. Cardinality(Ended(s))
  BY EndedFacts
<1>3. Reached(s) \in Nat
  BY NewsAppend
<1>4. ASSUME NEW k \in Ended(s) PROVE Follows(qs[Rank(u, k)], u, k)
  <2> DEFINE x == Rank(s, k)
  <2>1. x \in 1 .. Len(ps) - 1 /\ k # Reached(s)
    BY <1>2, <1>3
  <2>2. Follows(ps[x], s, k)
    BY DEF FakeParts
  <2>3. SameFakes(ps[x], qs[x])
    BY <2>1
  <2> HIDE DEF x, u
  <2>4. Follows(qs[x], u, k)
    BY <2>1, <2>2, <2>3, FollowsBefore DEF SameFakes, u
  <2> QED BY <1>1, <2>4 DEF x
<1>5. ASSUME NEW x \in DOMAIN qs PROVE Sendables(qs[x], name)
  <2>1. CASE x = Len(ps)
    BY <2>1
  <2>2. CASE x # Len(ps)
    <3>1. x \in 1 .. Len(ps) - 1
      BY <1>2, <2>2
    <3>2. Sendables(ps[x], name)
      BY DEF FakeParts
    <3> QED BY <3>1, <3>2, SendablesSame
  <2> QED BY <2>1, <2>2
<1> HIDE DEF u
<1>6. ~tk => Follows(qs[Len(qs)], u, Reached(u))
  BY <1>1 DEF u
<1> QED BY <1>1, <1>4, <1>5, <1>6 DEF FakeParts, u

FakesOK == FakeParts(profiles, argv, skip, system.name)

\* The profile that is described becomes q, or none is described.
Becomes(q) == profiles' = [profiles EXCEPT ![Len(profiles)] = q]
KeepsFakes == profiles' = profiles \/ \E q : Becomes(q) /\ SameFakes(Here, q)

LEMMA OneDescribed ==
  ASSUME ProfilesOK, IsSeq(argv)
  PROVE  /\ IsSeq(profiles) /\ profiles # <<>> /\ DOMAIN profiles = 1 .. Len(profiles) /\ Len(profiles) \in Nat \ {0}
         /\ Len(profiles) = Cardinality(Ended(argv)) + 1 /\ Len(profiles) \in DOMAIN profiles
<1>1. Len(profiles) = Cardinality(Ended(argv)) + 1
  BY DEF ProfilesOK, Parts
<1>2. profiles # <<>> /\ Len(profiles) \in Nat \ {0} /\ DOMAIN profiles = 1 .. Len(profiles)
  BY LastFacts
<1>3. Len(profiles) \in DOMAIN profiles
  BY <1>2
<1> QED BY <1>1, <1>2, <1>3 DEF ProfilesOK

LEMMA BecomingStep ==
  ASSUME ProfilesOK, IsSeq(argv), NEW t, t.o \notin {"new", "skip"}, NEW q, Becomes(q),
         Sendables(q, system.name), ~skip => Follows(q, Append(argv, t), Reached(argv)), FakesOK, NEW tk, tk <=> skip
  PROVE  FakeParts(profiles', Append(argv, t), tk, system.name)
<1> DEFINE ps == profiles
           qs == profiles'
<1>1. /\ IsSeq(ps) /\ ps # <<>> /\ DOMAIN ps = 1 .. Len(ps) /\ Len(ps) \in Nat \ {0}
      /\ Len(ps) = Cardinality(Ended(argv)) + 1 /\ Len(ps) \in DOMAIN ps
  BY OneDescribed
<1>2. qs = [ps EXCEPT ![Len(ps)] = q]
  BY DEF Becomes
<1>3. FakeParts(ps, argv, skip, system.name)
  BY DEF FakesOK
<1> HIDE DEF ps, qs
<1>4. /\ Len(qs) = Len(ps) /\ DOMAIN qs = 1 .. Len(ps)
      /\ \A i \in 1 .. Len(ps) : qs[i] = IF i = Len(ps) THEN q ELSE ps[i]
  BY <1>1, <1>2, LastPut
<1>5. qs[Len(qs)] = q
  BY <1>1, <1>4
<1>6. \A x \in 1 .. Len(ps) - 1 : SameFakes(ps[x], qs[x])
  <2>1. \A x \in 1 .. Len(ps) - 1 : x \in 1 .. Len(ps) /\ x # Len(ps)
    BY <1>1
  <2> QED BY <1>4, <2>1 DEF SameFakes
<1>7. /\ t.o # "new" /\ DOMAIN qs = DOMAIN ps /\ Sendables(qs[Len(qs)], system.name)
      /\ ~tk => Follows(qs[Len(qs)], Append(argv, t), Reached(argv))
  BY <1>1, <1>4, <1>5
<1> QED BY <1>1, <1>3, <1>4, <1>6, <1>7, FakePartsStep DEF qs

LEMMA KeepingStep ==
  ASSUME ProfilesOK, IsSeq(argv), NEW t, t.o \notin {"new", "fake_tls", "fake_tls_mod"}, KeepsFakes, FakesOK,
         NEW tk, tk <=> skip \/ t.o = "skip", t.o = "skip" => profiles' = profiles
  PROVE  FakeParts(profiles', Append(argv, t), tk, system.name)
<1>1. /\ IsSeq(profiles) /\ DOMAIN profiles = 1 .. Len(profiles) /\ Len(profiles) \in Nat \ {0}
      /\ Len(profiles) = Cardinality(Ended(argv)) + 1 /\ Len(profiles) \in DOMAIN profiles
  BY OneDescribed
<1>2. Sendables(Here, system.name) /\ (~skip => Follows(Here, argv, Reached(argv)))
  BY <1>1 DEF FakesOK, FakeParts, Here
<1>3. ASSUME NEW q, SameFakes(Here, q)
      PROVE  Sendables(q, system.name) /\ (~skip => Follows(q, Append(argv, t), Reached(argv)))
  <2>1. /\ q.tls_mod = Here.tls_mod /\ TlsOf(q.fakes) = TlsOf(Here.fakes)
        /\ \A i \in TlsOf(Here.fakes) : q.fakes[i].mod = Here.fakes[i].mod
    BY <1>3 DEF SameFakes
  <2> QED BY <1>2, <1>3, <2>1, SendablesSame, FollowsHere
<1>4. CASE profiles' = profiles
  <2>1. \A x \in 1 .. Len(profiles) - 1 : SameFakes(profiles[x], profiles[x])
    BY DEF SameFakes
  <2>2. SameFakes(Here, Here)
    BY DEF SameFakes
  <2>3. /\ Sendables(profiles[Len(profiles)], system.name)
        /\ ~tk => Follows(profiles[Len(profiles)], Append(argv, t), Reached(argv))
    BY <1>3, <2>2 DEF Here
  <2>4. /\ t.o # "new" /\ FakeParts(profiles, argv, skip, system.name) /\ DOMAIN profiles = DOMAIN profiles
        /\ Len(profiles) = Len(profiles)
    BY DEF FakesOK
  <2>5. FakeParts(profiles, Append(argv, t), tk, system.name)
    BY <1>1, <2>1, <2>3, <2>4, FakePartsStep
  <2> QED BY <1>4, <2>5
<1>5. CASE profiles' # profiles
  <2>1. PICK q : Becomes(q) /\ SameFakes(Here, q)
    BY <1>5 DEF KeepsFakes
  <2>2. Sendables(q, system.name) /\ (~skip => Follows(q, Append(argv, t), Reached(argv)))
    BY <1>3, <2>1
  <2>3. t.o \notin {"new", "skip"} /\ (tk <=> skip)
    BY <1>5
  <2> QED BY <2>1, <2>2, <2>3, BecomingStep
<1> QED BY <1>4, <1>5

\* A profile that has no fake yet.
NoFakes(p) == p.fakes = <<>> /\ p.tls_mod.mod = {}

LEMMA NoFakesSendable ==
  ASSUME NEW p, NoFakes(p), NEW name
  PROVE  Sendables(p, name)
<1>1. IsSeq(<<>>) /\ DOMAIN <<>> = {}
  BY DEF IsSeq
<1>2. IsSeq(p.fakes) /\ DOMAIN p.fakes = {}
  BY <1>1 DEF NoFakes
<1> QED BY <1>2 DEF NoFakes, Sendables, Sayable

LEMMA NoFakesFollow ==
  ASSUME NEW p, NoFakes(p), NEW s, NEW k, Part(s, k) = {}
  PROVE  Follows(p, s, k)
<1>1. FakesIn(s, k) = {} /\ ModsIn(s, k) = {}
  BY DEF FakesIn, ModsIn, Among
<1>2. ModsOf(s, Latest(ModsIn(s, k))) = {}
  BY <1>1 DEF ModsOf, Latest
<1>3. TlsOf(p.fakes) = {} /\ Unset(p.tls_mod.mod) = {}
  BY DEF NoFakes, TlsOf, Unset
<1> QED BY <1>1, <1>2, <1>3 DEF Follows

\* The profiles qs are ps with a new one at the end, or in place of one that is skipped.
NewBegun(ps, qs, s, sk) ==
  /\ sk <=> Skips(s, Reached(s))
  /\ Len(ps) = Cardinality(Ended(s)) + 1 /\ Len(qs) = (IF sk THEN Len(ps) ELSE Len(ps) + 1)
  /\ DOMAIN ps = 1 .. Len(ps) /\ DOMAIN qs = 1 .. Len(qs)
  /\ \A x \in 1 .. Len(ps) : x # Len(qs) => qs[x] = ps[x]
  /\ NoFakes(qs[Len(qs)])

LEMMA FakePartsNew ==
  ASSUME NEW ps, NEW qs, NEW s, NEW t, NEW sk, NEW name, IsSeq(s), t.o = "new",
         FakeParts(ps, s, sk, name), NewBegun(ps, qs, s, sk)
  PROVE  FakeParts(qs, Append(s, t), FALSE, name)
<1> DEFINE u == Append(s, t)
           K == Reached(s)
<1>a. /\ sk <=> Skips(s, K)
      /\ Len(ps) = Cardinality(Ended(s)) + 1 /\ Len(qs) = (IF sk THEN Len(ps) ELSE Len(ps) + 1)
      /\ Cardinality(Ended(s)) \in Nat
  BY EndedFacts DEF NewBegun
<1>b. DOMAIN ps = 1 .. Len(ps)
  BY DEF NewBegun
<1>c. \A x \in DOMAIN qs : x \in 1 .. Len(qs)
  BY DEF NewBegun
<1>d. (\A x \in 1 .. Len(ps) : x # Len(qs) => qs[x] = ps[x]) /\ NoFakes(qs[Len(qs)])
  BY DEF NewBegun
<1>1. /\ Reached(u) = K + 1
      /\ Ended(u) = Ended(s) \cup IF Skips(s, K) THEN {} ELSE {K}
      /\ \A k \in Ended(s) : Rank(u, k) = Rank(s, k)
      /\ ~Skips(s, K) => Rank(u, K) = Cardinality(Ended(s)) + 1
  BY EndedMore
<1>2. /\ Cardinality(Ended(s)) \in Nat
      /\ \A k \in Ended(s) : k \in Nat /\ k < K /\ Rank(s, k) \in 1 .. Cardinality(Ended(s))
  BY EndedFacts
<1>3. Part(u, K + 1) = {}
  BY PartAppend
<1>4. /\ \A x \in DOMAIN ps : Sendables(ps[x], name)
      /\ \A k \in Ended(s) : Follows(ps[Rank(s, k)], s, k)
      /\ ~sk => Follows(ps[Len(ps)], s, K)
  BY DEF FakeParts
<1>5. \A p, k : Follows(p, s, k) => Follows(p, u, k)
  BY FollowsBefore
<1> HIDE DEF u, K
<1>6. ASSUME NEW x \in DOMAIN qs PROVE Sendables(qs[x], name)
  <2>1. CASE x = Len(qs)
    BY <1>d, <2>1, NoFakesSendable
  <2>2. CASE x # Len(qs)
    <3>1. x \in 1 .. Len(qs)
      BY <1>c
    <3>2. x \in 1 .. Len(ps)
      BY <1>a, <2>2, <3>1
    <3>3. x \in DOMAIN ps /\ qs[x] = ps[x]
      BY <1>b, <1>d, <2>2, <3>2
    <3> QED BY <1>4, <3>3
  <2> QED BY <2>1, <2>2
<1>7. ASSUME NEW k \in Ended(u) PROVE Follows(qs[Rank(u, k)], u, k)
  <2>1. CASE k \in Ended(s)
    <3> DEFINE x == Rank(s, k)
    <3>1. x \in 1 .. Len(ps) /\ x # Len(qs) /\ Rank(u, k) = x
      <4>1. x \in 1 .. Len(ps) - 1 /\ Rank(u, k) = x /\ Len(ps) \in Nat
        BY <1>a, <1>1, <1>2, <2>1
      <4>2. Len(qs) = Len(ps) \/ Len(qs) = Len(ps) + 1
        BY <1>a
      <4> HIDE DEF x
      <4> QED BY <4>1, <4>2
    <3>2. Follows(ps[x], s, k)
      BY <1>4, <2>1
    <3> HIDE DEF x
    <3>3. qs[x] = ps[x]
      BY <1>d, <3>1
    <3> QED BY <1>5, <3>1, <3>2, <3>3
  <2>2. CASE k \notin Ended(s)
    <3>1. k = K /\ ~sk /\ Rank(u, k) = Len(ps) /\ Len(ps) \in 1 .. Len(ps)
      BY <1>a, <1>1, <1>2, <2>2
    <3>2. qs[Len(ps)] = ps[Len(ps)]
      <4>1. Len(qs) = Len(ps) + 1 /\ Len(qs) # Len(ps)
        BY <1>a, <3>1
      <4> QED BY <1>d, <3>1, <4>1
    <3> QED BY <1>4, <1>5, <3>1, <3>2
  <2> QED BY <2>1, <2>2
<1>8. Follows(qs[Len(qs)], u, K + 1)
  BY <1>d, <1>3, NoFakesFollow
<1> QED BY <1>1, <1>6, <1>7, <1>8 DEF FakeParts, u

LEMMA NewFakes ==
  ASSUME ProfilesOK, IsSeq(argv), FakesOK, NEW t, t.o = "new", New(Fields0(system))
  PROVE  FakeParts(profiles', Append(argv, t), FALSE, system.name)
<1> DEFINE n == IF skip THEN count ELSE count + 1
           r == Fresh(n, Fields0(system))
           ps == profiles
           qs == profiles'
<1>1. /\ IsSeq(ps) /\ ps # <<>> /\ DOMAIN ps = 1 .. Len(ps) /\ count = Len(ps) /\ Len(ps) = Cardinality(Ended(argv)) + 1
      /\ skip <=> Skips(argv, Reached(argv))
  BY OneDescribed DEF ProfilesOK, Parts
<1>2. NoFakes(r)
  BY DEF Fresh, NoFakes
<1> HIDE DEF r
<1>3. \/ n = Len(ps) /\ qs = [ps EXCEPT ![Len(ps)] = r]
      \/ n = Len(ps) + 1 /\ qs = Append(ps, r)
  BY <1>1 DEF New, r
<1>4. (skip => n = Len(ps)) /\ (~skip => n = Len(ps) + 1) /\ FakeParts(ps, argv, skip, system.name)
  BY <1>1 DEF FakesOK
<1> HIDE DEF ps, qs, n
<1>5. /\ Len(qs) = n /\ DOMAIN qs = 1 .. n /\ qs[n] = r
      /\ \A i \in 1 .. Len(ps) : i # n => qs[i] = ps[i]
  BY <1>1, <1>3, NewLast
<1>6. NoFakes(qs[Len(qs)]) /\ DOMAIN qs = 1 .. Len(qs) /\ \A x \in 1 .. Len(ps) : x # Len(qs) => qs[x] = ps[x]
  BY <1>2, <1>5
<1>7. (skip => Len(qs) = Len(ps)) /\ (~skip => Len(qs) = Len(ps) + 1)
  BY <1>4, <1>5
<1>8. NewBegun(ps, qs, argv, skip)
  BY <1>1, <1>6, <1>7 DEF NewBegun
<1> QED BY <1>1, <1>4, <1>8, FakePartsNew DEF qs

\* Lists, ports and splits are no fakes.
LEMMA ListingKeeps ==
  ASSUME ProfilesOK, IsSeq(argv), NEW t, Listing(t), phase = "options", phase' = "options"
  PROVE  KeepsFakes /\ skip' = skip
<1>1. DOMAIN Here = ProfileFields
  BY LastFacts
<1>2. ASSUME NEW c, NEW i PROVE SameFakes(Here, Joins(Here, c, i))
  BY <1>1 DEF SameFakes, Joins, ProfileFields
<1>3. ASSUME NEW c, NEW f, NameList(c, f) PROVE KeepsFakes /\ skip' = skip
  <2>1. CASE skip
    BY <1>3, <2>1 DEF NameList, KeepsFakes
  <2>2. CASE ~skip
    <3>1. profiles' = [profiles EXCEPT ![Len(profiles)] = Joins(@, c, ListOf(c, f))] /\ skip' = skip
      BY <1>3, <2>2 DEF NameList, Refuse
    <3>2. Becomes(Joins(Here, c, ListOf(c, f)))
      BY <3>1 DEF Becomes, Here
    <3> QED BY <1>2, <3>1, <3>2 DEF KeepsFakes
  <2> QED BY <2>1, <2>2
<1>4. ASSUME NEW c, NEW a, AddItems(c, a) PROVE KeepsFakes /\ skip' = skip
  <2>1. CASE skip
    BY <1>4, <2>1 DEF AddItems, KeepsFakes
  <2>2. CASE ~skip
    <3>1. profiles' = [profiles EXCEPT ![Len(profiles)] = Joins(@, c, AnonOf(c))] /\ skip' = skip
      BY <1>4, <2>2 DEF AddItems
    <3>2. Becomes(Joins(Here, c, AnonOf(c)))
      BY <3>1 DEF Becomes, Here
    <3> QED BY <1>2, <3>1, <3>2 DEF KeepsFakes
  <2> QED BY <2>1, <2>2
<1>5. ASSUME NEW f, AutoList(f) PROVE KeepsFakes /\ skip' = skip
  <2>1. CASE skip
    BY <1>5, <2>1 DEF AutoList, KeepsFakes
  <2>2. CASE ~skip
    <3> DEFINE i == ListOf("hl", f)
               q == [Joins(Here, "hl", i) EXCEPT !.auto = i]
    <3>1. profiles' = [profiles EXCEPT ![Len(profiles)] = [Joins(@, "hl", i) EXCEPT !.auto = i]] /\ skip' = skip
      BY <1>5, <2>2 DEF AutoList, Refuse
    <3>2. Becomes(q)
      BY <3>1 DEF Becomes, Here
    <3>3. SameFakes(Here, q)
      <4> HIDE DEF i
      <4>1. DOMAIN Joins(Here, "hl", i) = ProfileFields
        BY <1>1 DEF Joins
      <4>2. SameFakes(Here, Joins(Here, "hl", i))
        BY <1>2
      <4> QED BY <4>1, <4>2 DEF SameFakes, ProfileFields
    <3> QED BY <3>1, <3>2, <3>3 DEF KeepsFakes
  <2> QED BY <2>1, <2>2
<1> QED BY <1>3, <1>4, <1>5 DEF Listing

LEMMA PortsKeep ==
  ASSUME DOMAIN Here = ProfileFields, NEW t, NEW f
  PROVE  SameFakes(Here, PortsAdded(t, f))
BY DEF SameFakes, PortsAdded, ProfileFields

\* One more option of the line.
LEMMA ReadFakes ==
  ASSUME LineRead, ProfilesOK, FakesOK, Read, phase' = "options"
  PROVE  FakesOK'
<1>1. phase = "options" /\ UNCHANGED written
  BY NextIsOption
<1>2. PICK t \in LineOption(written) : argv' = Append(argv, t) /\ Reading(t)
  BY NextIsOption
<1>3. IsSeq(argv)
  BY SeqIsSeq DEF LineRead
<1>4. system' = system
  BY <1>1 DEF system
<1>5. DOMAIN Here = ProfileFields
  BY <1>3, LastFacts
<1>6. ~Stops
  BY DEF Stops
<1>7. ASSUME FakeParts(profiles', Append(argv, t), skip', system.name) PROVE FakesOK'
  BY <1>2, <1>4, <1>7 DEF FakesOK
<1>8. ASSUME KeepsFakes, t.o \notin {"new", "skip", "fake_tls", "fake_tls_mod"}, skip' = skip PROVE FakesOK'
  <2>1. /\ t.o \notin {"new", "fake_tls", "fake_tls_mod"} /\ (skip' <=> skip \/ t.o = "skip")
        /\ t.o = "skip" => profiles' = profiles
    BY <1>8
  <2> DEFINE tk == skip'
  <2>2. tk <=> skip \/ t.o = "skip"
    BY <2>1
  <2> HIDE DEF tk
  <2>3. FakeParts(profiles', Append(argv, t), tk, system.name)
    BY <1>3, <1>8, <2>1, <2>2, KeepingStep
  <2> QED BY <1>7, <2>3 DEF tk
<1>9. CASE Ordinary(t)
  <2>1. t.o \notin Special /\ skip' = skip /\ Redescribes({"set"})
    BY <1>9 DEF Ordinary, Keeps
  <2>2. KeepsFakes
    BY <1>5, <2>1 DEF Redescribes, KeepsFakes, Becomes, SameFakes, ProfileFields
  <2>3. t.o \notin {"new", "skip", "fake_tls", "fake_tls_mod"}
    BY <2>1 DEF Special
  <2> QED BY <1>8, <2>1, <2>2, <2>3
<1>10. CASE Splitting(t)
  <2>1. t.o \in SplitNames /\ skip' = skip
        /\ \E x \in Splits(t) : profiles' = [profiles EXCEPT ![Len(profiles)] = [Here EXCEPT !.splits = x]]
    BY <1>10 DEF Splitting, Keeps
  <2>2. \A x : SameFakes(Here, [Here EXCEPT !.splits = x])
    BY <1>5 DEF SameFakes, ProfileFields
  <2>3. KeepsFakes
    BY <2>1, <2>2 DEF KeepsFakes, Becomes
  <2> QED BY <1>8, <2>1, <2>3 DEF SplitNames
<1>11. CASE Filtering(t)
  <2>1. t.o \in {"filter_tcp", "filter_udp"} /\ skip' = skip
        /\ \E f \in PortFilters(t.a) : profiles' = [profiles EXCEPT ![Len(profiles)] = PortsAdded(t, f)]
    BY <1>11 DEF Filtering, Keeps
  <2>2. KeepsFakes
    BY <1>5, <2>1, PortsKeep DEF KeepsFakes, Becomes
  <2> QED BY <1>8, <2>1, <2>2
<1>12. CASE Listing(t)
  <2>1. t.o \in ListNames
    BY <1>12 DEF Listing, ListNames
  <2>2. t.o \notin {"new", "skip", "fake_tls", "fake_tls_mod"}
    BY <2>1, ListNamesAre
  <2> QED BY <1>1, <1>3, <1>8, <1>12, <2>2, ListingKeeps
<1>13. CASE Binding(t)
  <2>1. t.o \in BindNames /\ UNCHANGED <<profiles, skip>>
    BY <1>13 DEF Binding
  <2> QED BY <1>8, <2>1 DEF BindNames, KeepsFakes
<1>14. CASE t.o = "skip" /\ Skip
  <2>1. skip' = TRUE /\ profiles' = profiles
    BY <1>14 DEF Skip
  <2>2. t.o \notin {"new", "fake_tls", "fake_tls_mod"} /\ (TRUE <=> skip \/ t.o = "skip") /\ KeepsFakes
    BY <1>14, <2>1 DEF KeepsFakes
  <2>3. FakeParts(profiles', Append(argv, t), TRUE, system.name)
    BY <1>3, <2>1, <2>2, KeepingStep
  <2> QED BY <1>7, <2>1, <2>3
<1>15. CASE t.o = "new" /\ New(Fields0(system))
  <2>1. skip' = FALSE
    BY <1>15 DEF New
  <2>2. FakeParts(profiles', Append(argv, t), FALSE, system.name)
    BY <1>3, <1>15, NewFakes
  <2> QED BY <1>7, <2>1, <2>2
<1>16. CASE Faking(t)
  <2>1. PICK q : FakeGiven(t, q) /\ Becomes(q)
    BY <1>16 DEF Faking, Becomes
  <2>2. system.name = "nfqws" /\ skip' = skip
    BY <1>16 DEF Faking, Keeps
  <2>3. Sendables(Here, "nfqws") /\ (~skip => Follows(Here, argv, Reached(argv)))
    BY <1>3, <2>2, OneDescribed DEF FakesOK, FakeParts, Here
  <2>4. FakesFollow(t, q)
    BY <2>1, <2>3, GivenFakes
  <2>5. t.o \notin {"new", "skip"}
    <3>1. t.o \notin Special \/ t.o \in {"fake_tls", "fake_tls_mod"}
      BY <2>1 DEF FakeGiven
    <3> QED BY <3>1 DEF Special
  <2>6. Sendables(q, system.name) /\ (~skip => Follows(q, Append(argv, t), Reached(argv)))
    BY <2>2, <2>3, <2>4 DEF FakesFollow
  <2> DEFINE tk == skip'
  <2>7. tk <=> skip
    BY <2>2
  <2> HIDE DEF tk
  <2>8. FakeParts(profiles', Append(argv, t), tk, system.name)
    BY <1>3, <2>1, <2>5, <2>6, <2>7, BecomingStep
  <2> QED BY <1>7, <2>8 DEF tk
<1> QED BY <1>2, <1>6, <1>9, <1>10, <1>11, <1>12, <1>13, <1>14, <1>15, <1>16 DEF Reading, Effect, Parting

LEMMA InitFakes ==
  ASSUME Init
  PROVE  FakesOK
<1> DEFINE p == Fresh(1, Fields0(system))
<1>1. NoFakes(p)
  BY DEF Fresh, NoFakes
<1> HIDE DEF p
<1>2. profiles = <<p>> /\ skip = FALSE /\ argv = <<>>
  BY DEF Init, p
<1>3. Len(profiles) = 1 /\ DOMAIN profiles = {1} /\ profiles[1] = p
  BY <1>2
<1>4. Reached(argv) = 0
  <2>1. Len(argv) + 1 - 1 = 0
    BY <1>2
  <2>2. {i \in 1 .. Len(argv) + 1 - 1 : argv[i].o = "new"} = {}
    BY <2>1
  <2> QED BY <2>2, FS_EmptySet DEF Reached, NewsIn
<1>5. Part(argv, 0) = {} /\ Ended(argv) = {}
  BY <1>2, <1>4 DEF Part, Ended
<1>6. Follows(p, argv, 0) /\ Sendables(p, system.name)
  BY <1>1, <1>5, NoFakesFollow, NoFakesSendable
<1> QED BY <1>2, <1>3, <1>4, <1>5, <1>6 DEF FakesOK, FakeParts

-----------------------------------------------------------------------------
(* The fakes when they are completed.                                        *)

Unfinished(f) ==
  DOMAIN f = FakeFields /\ f.file \in DOMAIN Blobs /\ f.offset < Blobs[f.file].size /\ Sayable(f)
HelloFine(f) == \A h \in f.hello : NestedLengths(h) /\ f.offset < h.size

LEMMA RemadeNested ==
  ASSUME NEW h \in Hellos, NestedLengths(h), NEW mod, NEW n, "sni" \in mod => n \in Nat, NEW room,
         NEW r \in Remade(h, mod, n, room)
  PROVE  NestedLengths(r)
<1> DEFINE d     == n - h.name
           a     == IF "sni" \in mod THEN Renamed(h, n) ELSE h
<1>1. /\ DOMAIN h = {"size", "rec", "hs", "exts", "others", "sni", "list", "name", "pad", "padding"}
      /\ h.size \in Int /\ h.rec \in Int /\ h.hs \in Int /\ h.exts \in Int /\ h.others \in Int /\ h.sni \in Int
      /\ h.list \in Int /\ h.name \in Int /\ h.padding \in Int
  BY DEF Hellos
<1>2. /\ h.rec = h.size - 5 /\ h.hs = h.size - 9
      /\ h.name >= 0 => h.sni = h.list + 2 /\ h.list = h.name + 3
      /\ h.exts = h.others + (IF h.name >= 0 THEN h.sni + 4 ELSE 0)
                + (IF h.pad = "none" THEN 0 ELSE h.padding + 4)
  BY DEF NestedLengths
<1>3. /\ r = IF "padencap" \in mod /\ a.pad = "none" THEN Padded(a) ELSE a
      /\ mod \cap {"sni", "rndsni"} # {} => h.name >= 0
  BY DEF Remade, a
<1>4. /\ NestedLengths(a)
      /\ DOMAIN a = DOMAIN h
      /\ a.size \in Int /\ a.rec \in Int /\ a.hs \in Int /\ a.exts \in Int /\ a.others \in Int /\ a.sni \in Int
      /\ a.list \in Int /\ a.name \in Int /\ a.padding \in Int
  <2>1. CASE "sni" \in mod
    <3>1. h.name >= 0 /\ n \in Nat
      BY <1>3, <2>1
    <3>2. a = Renamed(h, n)
      BY <2>1
    <3> HIDE DEF a
    <3>3. /\ DOMAIN a = DOMAIN h /\ a.size = h.size + (n - h.name) /\ a.rec = h.rec + (n - h.name)
          /\ a.hs = h.hs + (n - h.name) /\ a.exts = h.exts + (n - h.name) /\ a.sni = h.sni + (n - h.name)
          /\ a.list = h.list + (n - h.name) /\ a.name = n /\ a.others = h.others /\ a.pad = h.pad
          /\ a.padding = h.padding
      BY <1>1, <3>2 DEF Renamed
    <3>4. NestedLengths(a)
      BY <1>1, <1>2, <3>1, <3>3 DEF NestedLengths
    <3> QED BY <1>1, <3>1, <3>3, <3>4
  <2>2. CASE "sni" \notin mod
    BY <1>1, <2>2
  <2> QED BY <2>1, <2>2
<1> HIDE DEF a
<1>5. CASE r = a
  BY <1>4, <1>5
<1>6. CASE r = Padded(a) /\ a.pad = "none"
  <2>1. /\ r.size = a.size + 4 /\ r.rec = a.rec + 4 /\ r.hs = a.hs + 4 /\ r.exts = a.exts + 4
        /\ r.pad = "end" /\ r.padding = 0 /\ r.name = a.name /\ r.sni = a.sni /\ r.list = a.list /\ r.others = a.others
    BY <1>1, <1>4, <1>6 DEF Padded
  <2> QED BY <1>4, <1>6, <2>1 DEF NestedLengths
<1> QED BY <1>3, <1>5, <1>6

LEMMA OnceIs ==
  ASSUME NEW p, NEW f, Unfinished(f), NEW q \in OnceChanged(p, f)
  PROVE  /\ HelloFine(q) /\ q.kind = f.kind
         /\ f.mod \cap {"set", "custom"} # {} => q.mod = f.mod
<1> DEFINE g == [f EXCEPT !.mod = Changes(p, f)]
           b == Blobs[f.file]
<1>1. /\ DOMAIN f = FakeFields /\ f.file \in DOMAIN Blobs /\ f.offset < b.size
      /\ "sni" \in f.mod => f.sni \in Nat
  BY DEF Unfinished, Sayable
<1>2. \A h \in b.hello : h \in Hellos /\ NestedLengths(h) /\ h.size = b.size
  BY <1>1, BlobsAssumption
<1>3. /\ DOMAIN g = FakeFields /\ g.kind = f.kind /\ g.sni = f.sni /\ g.offset = f.offset
      /\ g.mod = Changes(p, f)
  BY <1>1 DEF FakeFields
<1>4. /\ f.mod \cap {"set", "custom"} # {} => g.mod = f.mod
      /\ "sni" \in g.mod => "sni" \in f.mod
  BY <1>3 DEF Changes
<1>5. \/ q = Put(g, "hello", b.hello)
      \/ \E h \in UNION {Remade(x, g.mod, g.sni, x.size + SniRoom) : x \in b.hello} :
            f.offset < h.size /\ q = Put(g, "hello", {h})
  BY DEF OnceChanged
<1> HIDE DEF g, b
<1>6. ASSUME NEW v, q = Put(g, "hello", v)
      PROVE  q.hello = v /\ q.kind = f.kind /\ q.mod = g.mod /\ q.offset = f.offset
  BY <1>3, <1>6 DEF Put, FakeFields
<1>7. CASE q = Put(g, "hello", b.hello)
  BY <1>1, <1>2, <1>4, <1>6, <1>7 DEF HelloFine
<1>8. CASE \E h \in UNION {Remade(x, g.mod, g.sni, x.size + SniRoom) : x \in b.hello} :
            f.offset < h.size /\ q = Put(g, "hello", {h})
  <2>1. PICK x \in b.hello : \E h \in Remade(x, g.mod, g.sni, x.size + SniRoom) :
            f.offset < h.size /\ q = Put(g, "hello", {h})
    BY <1>8
  <2>2. PICK h \in Remade(x, g.mod, g.sni, x.size + SniRoom) : f.offset < h.size /\ q = Put(g, "hello", {h})
    BY <2>1
  <2>3. x \in Hellos /\ NestedLengths(x) /\ ("sni" \in g.mod => g.sni \in Nat)
    BY <1>1, <1>2, <1>3, <1>4
  <2>4. NestedLengths(h)
    BY <2>2, <2>3, RemadeNested
  <2> QED BY <1>4, <1>6, <2>2, <2>4 DEF HelloFine
<1> QED BY <1>5, <1>7, <1>8


\* A fake of each kind is there: one that is built in when the line gave none.
LEMMA WithBuiltIn ==
  ASSUME NEW p, DOMAIN p = ProfileFields, NEW name, Sendables(p, name)
  PROVE  LET b == BuiltIn(p) IN
         /\ DOMAIN b = ProfileFields
         /\ \A i \in DOMAIN b.fakes : Unfinished(b.fakes[i])
         /\ TlsOf(p.fakes) # {} => b.fakes = p.fakes
<1> DEFINE absent == {k \in Kinds : \A i \in DOMAIN p.fakes : p.fakes[i].kind # k}
           m      == Fake("tls", [file |-> "!", offset |-> 0], p.tls_mod.mod, p.tls_mod.sni)
           made   == IF "tls" \in absent THEN <<m>> ELSE <<>>
           b      == BuiltIn(p)
           s      == p.fakes
<1>1. DOMAIN b = ProfileFields /\ b.fakes = s \o made
  BY DEF BuiltIn, ProfileFields
<1>2. IsSeq(s) /\ Sayable(p.tls_mod) /\ \A i \in DOMAIN s : Sendable(s[i])
  BY DEF Sendables
<1>3. \A i \in DOMAIN s : Unfinished(s[i])
  BY <1>2 DEF Sendable, Unfinished
<1>4. Unfinished(m)
  <2>1. DOMAIN m = FakeFields /\ m.file = "!" /\ m.offset = 0 /\ m.mod = p.tls_mod.mod /\ m.sni = p.tls_mod.sni
    BY DEF Fake, FakeFields
  <2>2. "!" \in DOMAIN Blobs /\ 0 < Blobs["!"].size
    BY BlobsAssumption
  <2> QED BY <1>2, <2>1, <2>2 DEF Unfinished, Sayable
<1>5. "tls" \in absent <=> TlsOf(s) = {}
  <2>1. "tls" \in Kinds
    BY DEF Kinds
  <2> QED BY <2>1 DEF TlsOf
<1> HIDE DEF absent, m, b, s
<1>6. CASE TlsOf(s) # {}
  <2>1. made = <<>>
    BY <1>5, <1>6
  <2>2. s \o <<>> = s
    BY <1>2 DEF IsSeq
  <2> QED BY <1>1, <1>3, <2>1, <2>2 DEF b, s
<1>7. CASE TlsOf(s) = {}
  <2>1. made = <<m>>
    BY <1>5, <1>7
  <2>2. s \o <<m>> = Append(s, m)
    BY <1>2 DEF IsSeq
  <2>3. \A i \in DOMAIN Append(s, m) : Append(s, m)[i] = m \/ (i \in DOMAIN s /\ Append(s, m)[i] = s[i])
    BY <1>2, AppendIsSeq
  <2> QED BY <1>1, <1>3, <1>4, <1>7, <2>1, <2>2, <2>3 DEF b, s
<1> QED BY <1>6, <1>7

LEMMA CompletedHellos ==
  ASSUME NEW p, DOMAIN p = ProfileFields, NEW name, Sendables(p, name), NEW q \in Completed(p)
  PROVE  /\ \A i \in DOMAIN q.fakes : HelloFine(q.fakes[i])
         /\ TlsOf(p.fakes) # {} => /\ TlsOf(q.fakes) = TlsOf(p.fakes)
                                   /\ \A i \in TlsOf(p.fakes) : q.fakes[i].mod = p.fakes[i].mod
<1> DEFINE a == SixLikeFour(p)
           b == BuiltIn(a)
<1>1. DOMAIN a = ProfileFields /\ a.fakes = p.fakes /\ a.tls_mod = p.tls_mod
  BY DEF SixLikeFour, ProfileFields
<1>2. q \in CompletedFakes(b)
  BY DEF Completed
<1>3. \A i \in DOMAIN p.fakes : Sendable(p.fakes[i])
  BY DEF Sendables
<1> HIDE DEF a
<1>4. Sendables(a, name)
  BY <1>1 DEF Sendables
<1>5. /\ DOMAIN b = ProfileFields /\ \A i \in DOMAIN b.fakes : Unfinished(b.fakes[i])
      /\ TlsOf(p.fakes) # {} => b.fakes = p.fakes
  BY <1>1, <1>4, WithBuiltIn
<1> HIDE DEF b
<1> DEFINE made == [i \in DOMAIN b.fakes |-> OnceChanged(b, b.fakes[i])]
<1>6. /\ \A i \in DOMAIN made : made[i] # {}
      /\ q = [b EXCEPT !.fakes = [i \in DOMAIN made |-> CHOOSE f \in made[i] : TRUE]]
  BY <1>2 DEF CompletedFakes
<1>7. /\ DOMAIN q.fakes = DOMAIN b.fakes
      /\ \A i \in DOMAIN b.fakes : q.fakes[i] \in OnceChanged(b, b.fakes[i])
  BY <1>5, <1>6 DEF ProfileFields
<1>8. \A i \in DOMAIN b.fakes : /\ HelloFine(q.fakes[i]) /\ q.fakes[i].kind = b.fakes[i].kind
                                /\ b.fakes[i].mod \cap {"set", "custom"} # {} => q.fakes[i].mod = b.fakes[i].mod
  BY <1>5, <1>7, OnceIs
<1>9. ASSUME TlsOf(p.fakes) # {}
      PROVE  TlsOf(q.fakes) = TlsOf(p.fakes) /\ \A i \in TlsOf(p.fakes) : q.fakes[i].mod = p.fakes[i].mod
  <2>1. b.fakes = p.fakes
    BY <1>5, <1>9
  <2>2. TlsOf(q.fakes) = TlsOf(p.fakes)
    BY <1>7, <1>8, <2>1 DEF TlsOf
  <2>3. \A i \in TlsOf(p.fakes) : i \in DOMAIN b.fakes /\ p.fakes[i].mod \cap {"set", "custom"} # {}
    BY <1>3, <2>1 DEF TlsOf, Sendable
  <2> QED BY <1>8, <2>1, <2>2, <2>3
<1> QED BY <1>7, <1>8, <1>9


-----------------------------------------------------------------------------
(* The hellos when the whole line is read.                                   *)

HellosAre(ps, s) ==
  /\ \A x \in DOMAIN ps : \A i \in DOMAIN ps[x].fakes : HelloFine(ps[x].fakes[i])
  /\ \A k \in Segs(s) : \A j \in FakesIn(s, k) : Asked(ps[Place(s, k)], s, k, j)

\* What completing a profile does to its hellos.
HellosMade(q, p) ==
  /\ \A i \in DOMAIN q.fakes : HelloFine(q.fakes[i])
  /\ TlsOf(p.fakes) # {} => TlsOf(q.fakes) = TlsOf(p.fakes) /\ \A i \in TlsOf(p.fakes) : q.fakes[i].mod = p.fakes[i].mod

LEMMA MadeAsked ==
  ASSUME NEW p, NEW q, NEW s, NEW k, IsSeq(s), Follows(p, s, k), HellosMade(q, p), NEW j \in FakesIn(s, k)
  PROVE  Asked(q, s, k, j)
<1>1. IsFiniteSet(FakesIn(s, k))
  BY AmongBounded DEF FakesIn
<1>2. Cardinality(FakesIn(s, k)) # 0
  BY <1>1, FS_EmptySet
<1>3. TlsOf(p.fakes) # {}
  <2>1. Cardinality(TlsOf(p.fakes)) # 0
    BY <1>2 DEF Follows
  <2> QED BY <2>1, FS_EmptySet
<1>4. TlsOf(q.fakes) = TlsOf(p.fakes) /\ \A i \in TlsOf(p.fakes) : q.fakes[i].mod = p.fakes[i].mod
  BY <1>3 DEF HellosMade
<1>5. Asked(p, s, k, j)
  BY DEF Follows
<1> QED BY <1>4, <1>5 DEF Asked

LEMMA KeptFakes ==
  ASSUME ProfilesOK, FakesOK, IsSeq(argv)
  PROVE  /\ \A x \in 1 .. Len(Kept) : Sendables(Kept[x], system.name)
         /\ \A k \in Segs(argv) : Place(argv, k) \in 1 .. Len(Kept) /\ Follows(Kept[Place(argv, k)], argv, k)
<1> DEFINE K == Reached(argv)
           L == Len(profiles)
<1>1. /\ Segs(argv) = Ended(argv) \cup IF Skips(argv, K) THEN {} ELSE {K}
      /\ \A k \in Ended(argv) : Place(argv, k) = Rank(argv, k)
      /\ ~Skips(argv, K) => Place(argv, K) = Cardinality(Ended(argv)) + 1
  BY SegsFacts
<1>2. L = Cardinality(Ended(argv)) + 1 /\ (skip <=> Skips(argv, K))
  BY DEF ProfilesOK, Parts
<1>3. /\ \A x \in DOMAIN profiles : Sendables(profiles[x], system.name)
      /\ \A k \in Ended(argv) : Follows(profiles[Rank(argv, k)], argv, k)
      /\ ~skip => Follows(profiles[L], argv, K)
  BY DEF FakesOK, FakeParts
<1>4. \A x \in 1 .. Len(Kept) : Kept[x] = profiles[x] /\ x \in DOMAIN profiles
  BY KeptIs
<1>5. \A k \in Segs(argv) : Place(argv, k) \in 1 .. Len(Kept)
  BY KeptFacts
<1> HIDE DEF K, L
<1>6. ASSUME NEW k \in Segs(argv) PROVE Follows(profiles[Place(argv, k)], argv, k)
  <2>1. CASE k \in Ended(argv)
    BY <1>1, <1>3, <2>1
  <2>2. CASE k \notin Ended(argv)
    <3>1. k = K /\ ~Skips(argv, K)
      BY <1>1, <2>2
    <3> QED BY <1>1, <1>2, <1>3, <3>1
  <2> QED BY <2>1, <2>2
<1> QED BY <1>3, <1>4, <1>5, <1>6

LEMMA MadeHellos ==
  ASSUME ProfilesOK, FakesOK, IsSeq(argv), NEW qs, DOMAIN qs = 1 .. Len(Kept) + 1,
         \A x \in 1 .. Len(Kept) : HellosMade(qs[x], Kept[x]),
         NEW p, HellosMade(qs[Len(Kept) + 1], p)
  PROVE  HellosAre(qs, argv)
<1>1. Len(Kept) \in Nat
  BY KeptFacts
<1>2. \A x \in DOMAIN qs : x \in 1 .. Len(Kept) \/ x = Len(Kept) + 1
  BY <1>1
<1>3. \A x \in DOMAIN qs : \A i \in DOMAIN qs[x].fakes : HelloFine(qs[x].fakes[i])
  BY <1>2 DEF HellosMade
<1>4. ASSUME NEW k \in Segs(argv), NEW j \in FakesIn(argv, k) PROVE Asked(qs[Place(argv, k)], argv, k, j)
  <2> DEFINE x == Place(argv, k)
  <2>1. x \in 1 .. Len(Kept) /\ Follows(Kept[x], argv, k)
    BY KeptFakes
  <2> HIDE DEF x
  <2>2. Asked(qs[x], argv, k, j)
    BY <2>1, MadeAsked
  <2> QED BY <2>2 DEF x
<1> QED BY <1>3, <1>4 DEF HellosAre

LEMMA ParsedHellos ==
  ASSUME LineRead, ProfilesOK, FakesOK, Parsed, phase' = "start"
  PROVE  HellosAre(profiles', argv')
<1>1. IsSeq(argv)
  BY SeqIsSeq DEF LineRead
<1>2. IsSeq(Kept) /\ Len(Kept) \in Nat /\ DOMAIN Kept = 1 .. Len(Kept)
  BY <1>1, KeptFacts
<1>3. argv' = argv
  BY DEF Parsed
<1> DEFINE K == Kept
           L == Len(K)
           last == Fresh(0, Fields0(system))
           ps == Append(K, last)
<1>4. DOMAIN last = ProfileFields /\ NoFakes(last)
  BY DEF Fresh, ProfileFields, NoFakes
<1>5. \A x \in 1 .. L : DOMAIN K[x] = ProfileFields
  <2>1. \A x \in 1 .. L : K[x] = profiles[x] /\ x \in DOMAIN profiles
    BY <1>1, KeptIs
  <2> QED BY <1>1, <2>1, LastFacts
<1>6. \A x \in 1 .. L : Sendables(K[x], system.name)
  BY <1>1, KeptFakes
<1>7. Sendables(last, system.name)
  BY <1>4, NoFakesSendable
<1> HIDE DEF K, last
<1>8. /\ DOMAIN ps = 1 .. L + 1 /\ ps[L + 1] = last /\ L \in Nat
      /\ \A x \in 1 .. L : ps[x] = K[x]
      /\ L + 1 \in 1 .. L + 1 /\ \A x \in 1 .. L : x \in 1 .. L + 1
      /\ \A x \in 1 .. L + 1 : x \in 1 .. L \/ x = L + 1
  <2>1. IsSeq(K) /\ L \in Nat
    BY <1>2 DEF K
  <2> QED BY <2>1, AppendIsSeq
<1>9. \A x \in DOMAIN ps : DOMAIN ps[x] = ProfileFields /\ Sendables(ps[x], system.name)
  BY <1>4, <1>5, <1>6, <1>7, <1>8
<1> DEFINE qs == profiles'
<1>10. ASSUME DOMAIN qs = DOMAIN ps, \A x \in DOMAIN ps : HellosMade(qs[x], ps[x])
       PROVE  HellosAre(qs, argv)
  <2> HIDE DEF qs, ps
  <2>1. /\ DOMAIN qs = 1 .. Len(Kept) + 1 /\ \A x \in 1 .. Len(Kept) : HellosMade(qs[x], Kept[x])
        /\ HellosMade(qs[Len(Kept) + 1], last)
    BY <1>8, <1>10 DEF K
  <2> QED BY <1>1, <2>1, MadeHellos
<1>11. CASE system.name = "tpws"
  <2>1. profiles' = ps
    BY <1>11 DEF Parsed, TpwsParsed, Fields0, last, K
  <2> HIDE DEF ps
  <2>2. \A x \in DOMAIN ps : ps[x].fakes = <<>>
    BY <1>9, <1>11 DEF Sendables
  <2>3. \A x \in DOMAIN ps : HellosMade(ps[x], ps[x])
    BY <2>2 DEF HellosMade
  <2> QED BY <1>3, <1>10, <2>1, <2>3
<1>12. CASE system.name = "nfqws"
  <2>1. /\ profiles' = [i \in DOMAIN ps |-> IF Completed(ps[i]) = {} THEN ps[i] ELSE CHOOSE p \in Completed(ps[i]) : TRUE]
        /\ phase' \in NfqwsAfterOptions(ps)
    BY <1>12 DEF Parsed, NfqwsParsed, Fields0, last, K
  <2> HIDE DEF ps
  <2>2. \A i \in DOMAIN ps : Completed(ps[i]) # {}
    BY <2>1 DEF NfqwsAfterOptions
  <2>3. \A i \in DOMAIN ps : profiles'[i] \in Completed(ps[i])
    BY <2>1, <2>2
  <2>4. \A i \in DOMAIN ps : HellosMade(profiles'[i], ps[i])
    BY <1>9, <2>3, CompletedHellos DEF HellosMade
  <2>5. DOMAIN profiles' = DOMAIN ps
    BY <2>1
  <2> QED BY <1>3, <1>10, <2>4, <2>5
<1> QED BY <1>11, <1>12, Systems DEF LineRead

\* The words of the property.
LEMMA HellosAreConsistent == HellosAre(profiles, argv) => HellosConsistent
<1> SUFFICES ASSUME HellosAre(profiles, argv) PROVE HellosConsistent
  OBVIOUS
<1>1. \A k : TlsFakes(k) = FakesIn(argv, k) /\ Given(k, "fake_tls_mod") = ModsIn(argv, k)
  BY GivenIs DEF TlsFakes, FakesIn, ModsIn
<1>2. \A k, j : ModAt(k, j) = ModsAt(argv, k, j)
  BY <1>1 DEF ModAt, ModsAt
<1>3. \A k : Place(argv, k) = Cardinality({r \in Segments : r <= k})
  BY SegmentIs DEF Place
<1>4. ASSUME NEW x \in DOMAIN profiles, NEW i \in DOMAIN profiles[x].fakes, NEW h \in profiles[x].fakes[i].hello
      PROVE  NestedLengths(h) /\ profiles[x].fakes[i].offset < h.size
  BY DEF HellosAre, HelloFine
<1>5. ASSUME NEW x \in DOMAIN profiles, NEW k \in Segments, x = Cardinality({r \in Segments : r <= k}),
             NEW j \in TlsFakes(k)
      PROVE  LET fakes == profiles[x].fakes
                 tls  == {i \in DOMAIN fakes : fakes[i].kind = "tls"}
                 last == {i \in ModAt(k, j) : \A n \in ModAt(k, j) : n <= i}
             IN  \E i \in tls :
                   /\ Cardinality({n \in tls : n <= i}) = Cardinality({n \in TlsFakes(k) : n <= j})
                   /\ fakes[i].mod \ {"set", "custom"} = UNION {Words(argv[m].a) \ {"none"} : m \in last}
  <2> DEFINE fakes == profiles[x].fakes
             tls   == TlsOf(fakes)
             last  == Latest(ModsAt(argv, k, j))
  <2>1. Asked(profiles[x], argv, k, j)
    <3>1. k \in Segs(argv) /\ j \in FakesIn(argv, k) /\ x = Place(argv, k)
      BY <1>1, <1>3, <1>5, SegmentIs
    <3> QED BY <3>1 DEF HellosAre
  <2>2. last = {i \in ModAt(k, j) : \A n \in ModAt(k, j) : n <= i}
    BY <1>2 DEF Latest
  <2>3. tls = {i \in DOMAIN fakes : fakes[i].kind = "tls"}
    BY DEF TlsOf
  <2>4. UNION {Words(argv[m].a) \ {"none"} : m \in last} = ModsOf(argv, last)
    BY DEF ModsOf, Mods
  <2>5. PICK i \in tls : /\ Cardinality(UpTo(tls, i)) = Cardinality(UpTo(FakesIn(argv, k), j))
                         /\ Unset(fakes[i].mod) = ModsOf(argv, last)
    BY <2>1 DEF Asked
  <2>6. /\ Cardinality({n \in tls : n <= i}) = Cardinality({n \in TlsFakes(k) : n <= j})
        /\ fakes[i].mod \ {"set", "custom"} = UNION {Words(argv[m].a) \ {"none"} : m \in last}
    BY <1>1, <2>4, <2>5 DEF UpTo, Unset
  <2> HIDE DEF fakes, tls, last
  <2>7. \E n \in {m \in DOMAIN fakes : fakes[m].kind = "tls"} :
             /\ Cardinality({m \in tls : m <= n}) = Cardinality({m \in TlsFakes(k) : m <= j})
             /\ fakes[n].mod \ {"set", "custom"} = UNION {Words(argv[m].a) \ {"none"} : m \in last}
    BY <2>3, <2>5, <2>6
  <2> QED BY <2>2, <2>3, <2>7 DEF fakes
<1>6. ASSUME NEW x \in DOMAIN profiles
      PROVE  LET fakes == profiles[x].fakes IN
        /\ \A i \in DOMAIN fakes : \A h \in fakes[i].hello : NestedLengths(h) /\ fakes[i].offset < h.size
        /\ \A k \in Segments : x = Cardinality({r \in Segments : r <= k}) =>
             \A j \in TlsFakes(k) :
               LET tls  == {i \in DOMAIN fakes : fakes[i].kind = "tls"}
                   last == {i \in ModAt(k, j) : \A n \in ModAt(k, j) : n <= i}
               IN  \E i \in tls :
                     /\ Cardinality({n \in tls : n <= i}) = Cardinality({n \in TlsFakes(k) : n <= j})
                     /\ fakes[i].mod \ {"set", "custom"} = UNION {Words(argv[m].a) \ {"none"} : m \in last}
  <2>1. \A i \in DOMAIN profiles[x].fakes : \A h \in profiles[x].fakes[i].hello :
           NestedLengths(h) /\ profiles[x].fakes[i].offset < h.size
    BY <1>4
  <2> QED BY <1>5, <2>1, Zenon
<1> QED BY <1>6, Zenon DEF HellosConsistent

FakesInv ==
  /\ PartsInv /\ (phase = "options" => FakesOK)
  /\ phase = "start" => HellosAre(profiles, argv)

LEMMA FakesInit == Init => FakesInv
<1> SUFFICES ASSUME Init PROVE FakesInv
  OBVIOUS
<1>1. phase = "options"
  BY DEF Init
<1> QED BY <1>1, PartsInit, InitFakes DEF FakesInv

LEMMA FakesNext == FakesInv /\ [Next]_all => FakesInv'
<1> SUFFICES ASSUME FakesInv, [Next]_all PROVE FakesInv'
  OBVIOUS
<1>1. /\ PartsInv /\ LineRead /\ (phase = "options" => ProfilesOK /\ FakesOK)
      /\ phase = "start" => HellosAre(profiles, argv)
  BY DEF FakesInv, PartsInv, Inv
<1>2. PartsInv'
  BY <1>1, PartsNext
<1>3. CASE Read
  <2>1. phase = "options" /\ phase' # "start"
    BY <1>1, <1>3, NextIsOption
  <2>2. phase' = "options" => FakesOK'
    BY <1>1, <1>3, <2>1, ReadFakes
  <2> QED BY <1>2, <2>1, <2>2 DEF FakesInv
<1>4. CASE Parsed
  <2>1. phase = "options" /\ phase' # "options"
    BY <1>4 DEF Parsed, TpwsParsed, AfterOptions, NfqwsParsed, NfqwsAfterOptions, WindowsReady
  <2>2. phase' = "start" => HellosAre(profiles', argv')
    BY <1>1, <1>4, <2>1, ParsedHellos
  <2> QED BY <1>2, <2>1, <2>2 DEF FakesInv
<1>5. CASE ProcessStep \/ TpwsStep \/ NetChange \/ NfqwsStep
  <2>1. phase = "start" /\ UNCHANGED line
    BY <1>5, StepsKeepLine
  <2>2. UNCHANGED <<phase, profiles, argv>>
    BY <2>1 DEF line
  <2> QED BY <1>1, <1>2, <2>1, <2>2 DEF FakesInv
<1>6. CASE UNCHANGED all
  <2>1. UNCHANGED line
    BY <1>6 DEF all, vars, line
  <2>2. UNCHANGED <<phase, profiles, argv, skip, system>>
    BY <2>1 DEF line, system
  <2>3. FakesOK => FakesOK'
    BY <2>2 DEF FakesOK
  <2> QED BY <1>1, <1>2, <2>2, <2>3 DEF FakesInv
<1> QED BY <1>3, <1>4, <1>5, <1>6 DEF Next

\* Every hello a program sends as a fake could be read by a server, and is changed
\* as the last --fake-tls-mod before the next fake of its profile says, for every
\* line and whatever files there are.
THEOREM SpecHellos == Spec => []HellosConsistent
<1>1. FakesInv => HellosConsistent
  BY HellosAreConsistent DEF FakesInv, HellosConsistent
<1> QED BY <1>1, FakesInit, FakesNext, PTL DEF Spec

-----------------------------------------------------------------------------
(* The resolver.  The counts of its properties are replaced by facts about *)
(* sets: where an item is, that it is there once, what its pointers say.   *)

Takers(f) == {t \in Thread : f[t] = "take"}
Posts == IF posting = Null THEN 0 ELSE 1

\* A thread has an item between taking it and writing it to the pipe.
Carried == \A t \in Thread : hand[t] # Null <=> pc[t] \in {"resolve", "write"}

\* No more tokens than items, even after calls have failed; as many as items before.
Tokens ==
  /\ bStop => posting = Null
  /\ ~bStop => Len(resolve_list) >= sem + Cardinality(Takers(pc)) + Posts
  /\ ~bStop /\ faults = 0 => Len(resolve_list) = sem + Cardinality(Takers(pc)) + Posts

Basic == TypeOK /\ Carried /\ Tokens

Once(s) == \A j, k \in DOMAIN s : s[j] = s[k] => j = k
Hands == {hand[t] : t \in Thread} \ {Null}

\* What is allocated is in one place.
Placed ==
  /\ Once(resolve_list) /\ Once(pipe)
  /\ \A t, u \in Thread : hand[t] = hand[u] /\ hand[t] # Null => t = u
  /\ ToSet(resolve_list) \cap ToSet(pipe) = {}
  /\ Hands \cap (ToSet(resolve_list) \cup ToSet(pipe)) = {}
  /\ used = ToSet(resolve_list) \cup ToSet(pipe) \cup Hands

\* The pointers agree; the connection that is being posted is at the end of the list.
Linked ==
  /\ posting # Null => ptr[Last(resolve_list)] = posting /\ state[posting] = "request"
  /\ \A c \in Conn : ri[c] # Null =>
       ri[c] \in used /\ ptr[ri[c]] = c /\ state[c] \in {"resolve", "closed"}
  /\ \A i \in used : ptr[i] # Null =>
       ri[ptr[i]] = i \/ (posting = ptr[i] /\ i = Last(resolve_list))

Sound == faults = 0 => ~corrupt /\ Placed /\ (~bStop => Linked)

ItemInv == Basic /\ Sound

-----------------------------------------------------------------------------
(* Sequences and sets.                                                     *)

\* Appending adds one element to what a sequence holds.
LEMMA AppendFacts ==
  ASSUME NEW S, NEW s \in Seq(S), NEW e \in S
  PROVE  /\ Append(s, e) \in Seq(S) /\ Append(s, e) # <<>>
         /\ Len(Append(s, e)) = Len(s) + 1
         /\ ToSet(Append(s, e)) = ToSet(s) \cup {e}
         /\ Last(Append(s, e)) = e
         /\ Once(s) /\ e \notin ToSet(s) => Once(Append(s, e))
<1> DEFINE a == Append(s, e)
<1>1. a \in Seq(S) /\ Len(a) = Len(s) + 1 /\ Len(s) \in Nat
  OBVIOUS
<1>2. DOMAIN a = 1 .. Len(s) + 1 /\ DOMAIN s = 1 .. Len(s)
  OBVIOUS
<1>3. a[Len(s) + 1] = e /\ \A k \in 1 .. Len(s) : a[k] = s[k]
  OBVIOUS
<1> HIDE DEF a
<1>4. ToSet(a) = ToSet(s) \cup {e}
  BY <1>1, <1>2, <1>3 DEF ToSet
<1>5. Once(s) /\ e \notin ToSet(s) => Once(a)
  BY <1>1, <1>2, <1>3 DEF ToSet, Once
<1>6. Last(a) = e /\ a # <<>>
  BY <1>1, <1>3 DEF Last
<1> QED BY <1>1, <1>4, <1>5, <1>6 DEF a

\* Taking the first element of a sequence without repetitions removes it from what it holds.
LEMMA TailFacts ==
  ASSUME NEW S, NEW s \in Seq(S), s # <<>>
  PROVE  /\ Head(s) \in S /\ Head(s) \in ToSet(s) /\ Tail(s) \in Seq(S)
         /\ Len(Tail(s)) = Len(s) - 1 /\ Len(s) \in Nat \ {0}
         /\ Len(s) > 1 => Last(Tail(s)) = Last(s) /\ s[2] \in ToSet(s)
         /\ Last(s) \in ToSet(s) /\ Last(s) \in S
         /\ Once(s) => ToSet(Tail(s)) = ToSet(s) \ {Head(s)} /\ Once(Tail(s))
<1> DEFINE u == Tail(s)
<1>1. /\ u \in Seq(S) /\ Len(u) = Len(s) - 1 /\ Len(s) \in Nat \ {0}
      /\ Head(s) = s[1] /\ s[1] \in S /\ s[Len(s)] \in S
  OBVIOUS
<1>2. DOMAIN s = 1 .. Len(s) /\ DOMAIN u = 1 .. Len(s) - 1
  BY <1>1
<1>3. \A k \in 1 .. Len(s) - 1 : u[k] = s[k + 1]
  OBVIOUS
<1> HIDE DEF u
<1>4. Len(s) > 1 => Last(u) = Last(s) /\ s[2] \in ToSet(s)
  BY <1>1, <1>2, <1>3 DEF Last, ToSet
<1>5. Last(s) \in ToSet(s) /\ s[1] \in ToSet(s)
  BY <1>1, <1>2 DEF Last, ToSet
<1>6. ASSUME Once(s) PROVE ToSet(u) = ToSet(s) \ {s[1]} /\ Once(u)
  <2>0. \A k \in 1 .. Len(s) - 1 : k + 1 \in 1 .. Len(s) /\ k + 1 # 1
    BY <1>1
  <2>1. Once(u)
    <3> SUFFICES ASSUME NEW j \in DOMAIN u, NEW k \in DOMAIN u, u[j] = u[k] PROVE j = k
      BY DEF Once
    <3>1. s[j + 1] = s[k + 1] /\ j \in Int /\ k \in Int
      BY <1>1, <1>2, <1>3
    <3> QED BY <1>2, <1>6, <2>0, <3>1 DEF Once
  <2>2. \A x \in ToSet(u) : x \in ToSet(s) /\ x # s[1]
    BY <1>1, <1>2, <1>3, <1>6, <2>0 DEF Once, ToSet
  <2>3. ASSUME NEW x \in ToSet(s), x # s[1] PROVE x \in ToSet(u)
    <3>1. PICK k \in 1 .. Len(s) : x = s[k]
      BY <1>2 DEF ToSet
    <3>2. k - 1 \in 1 .. Len(s) - 1 /\ u[k - 1] = x
      BY <1>1, <1>3, <2>3, <3>1
    <3> QED BY <1>2, <3>2 DEF ToSet
  <2> QED BY <2>1, <2>2, <2>3
<1> QED BY <1>1, <1>4, <1>5, <1>6 DEF u, Last

LEMMA ThreadsFinite == IsFiniteSet(Thread) /\ NThreads \in Nat \ {0}
BY FS_Interval, ThreadAssumption DEF Thread

LEMMA TakersCount ==
  ASSUME NEW f
  PROVE  IsFiniteSet(Takers(f)) /\ Cardinality(Takers(f)) \in Nat
<1>1. IsFiniteSet(Takers(f))
  BY ThreadsFinite, FS_Subset DEF Takers
<1> QED BY <1>1, FS_CardinalityType

\* A thread that moves joins or leaves those that hold a token.
LEMMA MoveTakers ==
  ASSUME TypeOK, NEW t \in Thread, NEW s \in ThreadState, pc' = [pc EXCEPT ![t] = s]
  PROVE  /\ pc[t] # "take" /\ s # "take" => Takers(pc') = Takers(pc)
         /\ pc[t] # "take" /\ s = "take" =>
              Cardinality(Takers(pc')) = Cardinality(Takers(pc)) + 1
         /\ pc[t] = "take" /\ s # "take" =>
              Cardinality(Takers(pc')) = Cardinality(Takers(pc)) - 1
<1>1. pc \in [Thread -> ThreadState]
  BY DEF TypeOK
<1>2. pc[t] # "take" /\ s # "take" => Takers(pc') = Takers(pc)
  BY <1>1 DEF Takers
<1>3. pc[t] # "take" /\ s = "take" => Takers(pc') = Takers(pc) \cup {t} /\ t \notin Takers(pc)
  BY <1>1 DEF Takers
<1>4. pc[t] = "take" /\ s # "take" => Takers(pc') = Takers(pc) \ {t} /\ t \in Takers(pc)
  BY <1>1 DEF Takers
<1>5. IsFiniteSet(Takers(pc))
  BY TakersCount
<1>6. pc[t] # "take" /\ s = "take" => Cardinality(Takers(pc')) = Cardinality(Takers(pc)) + 1
  BY <1>3, <1>5, FS_AddElement
<1>7. pc[t] = "take" /\ s # "take" => Cardinality(Takers(pc')) = Cardinality(Takers(pc)) - 1
  BY <1>4, <1>5, FS_RemoveElement
<1> QED BY <1>2, <1>6, <1>7

-----------------------------------------------------------------------------
(* Types, tokens and what the threads carry.                               *)

LEMMA BasicInit == ResolverInit => Basic
<1> SUFFICES ASSUME ResolverInit PROVE Basic
  OBVIOUS
<1>1. Takers(pc) = {}
  BY DEF ResolverInit, Takers
<1>2. TypeOK
  <2>1. kills \in -1 .. 2 * NThreads
    BY ThreadsFinite DEF ResolverInit
  <2>2. /\ state \in [Conn -> ConnState] /\ ri \in [Conn -> ResolveItem \cup {Null}]
        /\ pc \in [Thread -> ThreadState] /\ hand \in [Thread -> ResolveItem \cup {Null}]
        /\ ptr \in [ResolveItem -> Conn \cup {Null}]
    BY DEF ResolverInit, ConnState, ThreadState
  <2>3. /\ used \in SUBSET ResolveItem /\ resolve_list \in Seq(ResolveItem) /\ pipe \in Seq(ResolveItem)
        /\ sem \in Nat /\ faults \in Nat /\ posting \in Conn \cup {Null}
    BY DEF ResolverInit
  <2>4. corrupt \in BOOLEAN
    BY DEF ResolverInit
  <2> QED BY <2>1, <2>2, <2>3, <2>4 DEF TypeOK
<1>3. Carried
  BY DEF ResolverInit, Carried
<1>4. Tokens
  <2>1. Cardinality(Takers(pc)) = 0 /\ Posts = 0 /\ ~bStop
    BY <1>1, FS_EmptySet DEF ResolverInit, Posts, bStop
  <2>2. Len(resolve_list) = 0 /\ sem = 0
    BY DEF ResolverInit
  <2> QED BY <2>1, <2>2 DEF Tokens
<1> QED BY <1>2, <1>3, <1>4 DEF Basic

\* The loop's own steps leave the threads alone.
LEMMA LoopBasic ==
  ASSUME Basic, Loop
  PROVE  Basic'
<1> USE DEF Basic
<1>a. Cardinality(Takers(pc)) \in Nat /\ Len(resolve_list) \in Nat
  BY TakersCount DEF TypeOK
<1>b. Null \notin Conn
  BY SlotAssumption
<1>1. ASSUME NEW c \in Conn, Accept(c) \/ CloseConn(c) \/ FreeConn(c) PROVE Basic'
  <2>1. TypeOK'
    BY <1>1 DEF Accept, CloseConn, FreeConn, TypeOK, ConnState, threads, LoopRuns
  <2> QED BY <1>1, <2>1 DEF Accept, CloseConn, FreeConn, threads, Carried, Tokens, bStop, Posts
<1>2. ASSUME NEW c \in Conn, NEW i \in ResolveItem, QueueItem(c, i) PROVE Basic'
  <2>1. resolve_list' \in Seq(ResolveItem) /\ Len(resolve_list') = Len(resolve_list) + 1
    BY <1>2, AppendFacts DEF QueueItem, TypeOK
  <2>2. TypeOK'
    BY <1>2, <2>1 DEF QueueItem, TypeOK, threads, conns, LoopRuns
  <2>3. Posts = 0 /\ Posts' = 1 /\ ~bStop /\ UNCHANGED <<kills, sem, pc, faults, hand>>
    BY <1>2, <1>b DEF QueueItem, Posts, LoopRuns, threads
  <2>4. Tokens'
    BY <1>a, <2>1, <2>3 DEF Tokens, bStop, TypeOK
  <2> QED BY <2>2, <2>3, <2>4 DEF Carried
<1>3. CASE PostItem \/ PostFails
  <2>0. posting # Null /\ posting' = Null /\ ~bStop /\ UNCHANGED <<kills, pc, hand, resolve_list>>
    BY <1>3 DEF PostItem, PostFails, threads, Tokens
  <2>1. resolve_list # <<>>
    BY <1>a, <2>0 DEF Tokens, Posts, TypeOK
  <2>2. Last(resolve_list) \in ResolveItem /\ posting \in Conn
    BY <2>0, <2>1, TailFacts DEF TypeOK
  <2>3. CASE PostItem
    <3>1. TypeOK'
      BY <2>2, <2>3 DEF PostItem, TypeOK, ConnState, threads
    <3>2. sem' = sem + 1 /\ faults' = faults
      BY <2>3 DEF PostItem
    <3>3. Tokens'
      BY <1>a, <2>0, <3>2 DEF Tokens, Posts, bStop, TypeOK
    <3> QED BY <2>0, <3>1, <3>3 DEF Carried
  <2>4. CASE PostFails
    <3>1. TypeOK'
      BY <2>2, <2>4 DEF PostFails, Free, TypeOK, ConnState, threads
    <3>2. sem' = sem /\ faults' = faults + 1
      BY <2>4 DEF PostFails
    <3>3. Tokens'
      BY <1>a, <2>0, <3>2 DEF Tokens, Posts, bStop, TypeOK
    <3> QED BY <2>0, <3>1, <3>3 DEF Carried
  <2> QED BY <1>3, <2>3, <2>4
<1>4. CASE ReadPipe
  <2>1. UNCHANGED <<resolve_list, sem, posting, pc, hand, kills, faults>>
    BY <1>4 DEF ReadPipe, threads
  <2>2. TypeOK'
    <3>1. Head(pipe) \in ResolveItem /\ pipe' \in Seq(ResolveItem)
      BY <1>4, TailFacts DEF ReadPipe, TypeOK
    <3>2. state' \in [Conn -> ConnState] /\ ri' \in [Conn -> ResolveItem \cup {Null}]
      BY <1>4, <3>1 DEF ReadPipe, ResolveComplete, conns, TypeOK, ConnState
    <3> QED BY <1>4, <2>1, <3>1, <3>2 DEF ReadPipe, Free, TypeOK
  <2> QED BY <2>1, <2>2 DEF Tokens, Posts, bStop, Carried
<1>5. CASE Deinit
  <2>1. TypeOK'
    BY <1>5, ThreadsFinite DEF Deinit, TypeOK, conns, threads
  <2> QED BY <1>5, <2>1 DEF Deinit, LoopRuns, Tokens, bStop, Carried, threads
<1>6. CASE KillThread
  <2>1. NextKill \in Thread /\ kills + 1 \in 0 .. 2 * NThreads
    BY <1>6, ThreadsFinite DEF KillThread, bStop, NextKill, Thread, TypeOK
  <2>2. TypeOK'
    BY <1>6, <2>1 DEF KillThread, Kill, TypeOK, ThreadState, conns
  <2>3. Carried'
    BY <1>6, <2>1 DEF KillThread, Kill, Carried, TypeOK
  <2>4. Tokens'
    BY <1>6, <2>1 DEF KillThread, Tokens, bStop
  <2> QED BY <2>2, <2>3, <2>4
<1>7. CASE ClearList
  <2>1. kills = 2 * NThreads /\ bStop
    BY <1>7, ThreadsFinite DEF ClearList, Joined, bStop
  <2>2. TypeOK'
    BY <1>7 DEF ClearList, TypeOK, conns, threads
  <2> QED BY <1>7, <2>1, <2>2 DEF ClearList, Tokens, bStop, Carried, threads
<1> QED BY <1>1, <1>2, <1>3, <1>4, <1>5, <1>6, <1>7, Loop DEF Loop

\* A thread's step changes its own place, and the tokens and items with it.
LEMMA StepBasic ==
  ASSUME Basic, NEW t \in Thread, ThreadStep(t)
  PROVE  Basic'
<1> USE DEF Basic
<1>a. Cardinality(Takers(pc)) \in Nat /\ Len(resolve_list) \in Nat /\ Null \notin ResolveItem
  BY TakersCount, SlotAssumption DEF TypeOK
<1>1. CASE CheckStop(t) \/ EnterWait(t) \/ Resolve(t)
  <2>1. UNCHANGED <<conns, used, ptr, resolve_list, sem, posting, hand, pipe, kills, faults, corrupt>>
    BY <1>1 DEF CheckStop, EnterWait, Resolve
  <2>2. \E s \in ThreadState : /\ s # "take" /\ pc' = [pc EXCEPT ![t] = s]
                               /\ s \in {"resolve", "write"} <=> pc[t] \in {"resolve", "write"}
    BY <1>1 DEF CheckStop, EnterWait, Resolve, Move, ThreadState
  <2>3. pc[t] # "take"
    BY <1>1 DEF CheckStop, EnterWait, Resolve, Move
  <2>4. TypeOK' /\ Carried'
    BY <2>1, <2>2 DEF TypeOK, Carried, conns
  <2>5. Cardinality(Takers(pc')) = Cardinality(Takers(pc))
    BY <2>2, <2>3, MoveTakers
  <2> QED BY <2>1, <2>4, <2>5 DEF Tokens, Posts, bStop
<1>2. CASE SemWait(t)
  <2>1. UNCHANGED <<conns, used, ptr, resolve_list, posting, hand, pipe, kills, faults, corrupt>>
        /\ sem' = sem - 1 /\ sem > 0 /\ pc[t] = "wait"
    BY <1>2 DEF SemWait, Move
  <2>2. pc' = [pc EXCEPT ![t] = IF bStop THEN "exit" ELSE "take"]
    BY <1>2 DEF SemWait, Move
  <2>3. TypeOK' /\ Carried'
    BY <2>1, <2>2 DEF TypeOK, Carried, conns, ThreadState
  <2>4. ~bStop => Cardinality(Takers(pc')) = Cardinality(Takers(pc)) + 1
    BY <2>1, <2>2, MoveTakers DEF ThreadState
  <2> QED BY <1>a, <2>1, <2>3, <2>4 DEF Tokens, Posts, bStop, TypeOK
<1>3. CASE TakeItem(t)
  <2>1. UNCHANGED <<conns, used, ptr, sem, posting, pipe, kills, faults>> /\ pc[t] = "take"
    BY <1>3 DEF TakeItem, Move
  <2>2. CASE resolve_list = <<>>
    <3>1. pc' = [pc EXCEPT ![t] = "top"] /\ UNCHANGED <<hand, resolve_list, corrupt>>
      BY <1>3, <2>2 DEF TakeItem, Move
    <3>2. TypeOK' /\ Carried'
      BY <2>1, <3>1 DEF TypeOK, Carried, conns, ThreadState
    <3>3. Cardinality(Takers(pc')) = Cardinality(Takers(pc)) - 1
          /\ Cardinality(Takers(pc')) \in Nat
      BY <2>1, <3>1, MoveTakers, TakersCount DEF ThreadState
    <3>4. bStop
      BY <1>a, <2>2, <3>3 DEF Tokens, Posts, TypeOK
    <3> QED BY <2>1, <3>2, <3>4 DEF Tokens, bStop
  <2>3. CASE resolve_list # <<>>
    <3>1. /\ pc' = [pc EXCEPT ![t] = "resolve"]
          /\ hand' = [hand EXCEPT ![t] = Head(resolve_list)] /\ resolve_list' = Tail(resolve_list)
          /\ corrupt' \in BOOLEAN
      BY <1>3, <2>3 DEF TakeItem, Move
    <3>2. /\ Head(resolve_list) \in ResolveItem /\ Tail(resolve_list) \in Seq(ResolveItem)
          /\ Len(Tail(resolve_list)) = Len(resolve_list) - 1
      BY <2>3, TailFacts DEF TypeOK
    <3>3. TypeOK' /\ Carried'
      BY <1>a, <2>1, <3>1, <3>2 DEF TypeOK, Carried, conns, ThreadState
    <3>4. Cardinality(Takers(pc')) = Cardinality(Takers(pc)) - 1
      BY <2>1, <3>1, MoveTakers DEF ThreadState
    <3>5. /\ Len(resolve_list') = Len(resolve_list) - 1 /\ sem' = sem /\ Posts' = Posts /\ bStop' = bStop
          /\ posting' = posting /\ faults' = faults
      BY <2>1, <3>1, <3>2 DEF Posts, bStop
    <3>6. Posts \in Nat /\ sem \in Nat
      BY DEF Posts, TypeOK
    <3>7. Tokens'
      BY <1>a, <3>4, <3>5, <3>6 DEF Tokens
    <3> QED BY <3>3, <3>7
  <2> QED BY <2>2, <2>3
<1>4. CASE WriteAnswer(t) \/ WriteFails(t)
  <2>1. UNCHANGED <<conns, resolve_list, sem, posting, kills>> /\ pc[t] = "write"
    BY <1>4 DEF WriteAnswer, WriteFails, Move
  <2>2. pc' = [pc EXCEPT ![t] = "top"] /\ hand' = [hand EXCEPT ![t] = Null]
    BY <1>4 DEF WriteAnswer, WriteFails, Move
  <2>3. hand[t] \in ResolveItem
    BY <2>1 DEF Carried, TypeOK
  <2>4. Carried'
    BY <2>2 DEF Carried, TypeOK
  <2>5. TypeOK'
    <3>1. CASE WriteAnswer(t)
      <4>1. pipe' \in Seq(ResolveItem)
        BY <2>3, <3>1, AppendFacts DEF WriteAnswer, TypeOK
      <4> QED BY <2>1, <2>2, <3>1, <4>1 DEF WriteAnswer, TypeOK, ThreadState, conns
    <3>2. CASE WriteFails(t)
      BY <2>1, <2>2, <2>3, <3>2 DEF WriteFails, Free, TypeOK, ThreadState, conns
    <3> QED BY <1>4, <3>1, <3>2
  <2>6. Cardinality(Takers(pc')) = Cardinality(Takers(pc))
    BY <2>1, <2>2, MoveTakers DEF ThreadState
  <2>7. faults' = 0 => faults = 0
    BY <1>4 DEF WriteAnswer, WriteFails, TypeOK
  <2> QED BY <2>1, <2>4, <2>5, <2>6, <2>7 DEF Tokens, Posts, bStop
<1> QED BY <1>1, <1>2, <1>3, <1>4 DEF ThreadStep

LEMMA BasicStep == Basic /\ [ResolverNext]_resolverVars => Basic'
<1> SUFFICES ASSUME Basic, [ResolverNext]_resolverVars PROVE Basic'
  OBVIOUS
<1>1. CASE Loop
  BY <1>1, LoopBasic
<1>2. ASSUME NEW t \in Thread, ThreadStep(t) PROVE Basic'
  BY <1>2, StepBasic
<1>3. CASE UNCHANGED resolverVars
  BY <1>3 DEF resolverVars, conns, threads, Basic, TypeOK, Carried, Tokens, Posts, bStop, Takers
<1> QED BY <1>1, <1>2, <1>3 DEF ResolverNext

-----------------------------------------------------------------------------
(* Where the items are, and what points where.                             *)

\* A thread that takes an item adds it to those in the threads' hands.
LEMMA HandsTake ==
  ASSUME TypeOK, Placed, NEW t \in Thread, NEW i \in ResolveItem,
         hand[t] = Null, i \notin Hands, hand' = [hand EXCEPT ![t] = i]
  PROVE  /\ Hands' = Hands \cup {i}
         /\ \A u, v \in Thread : hand'[u] = hand'[v] /\ hand'[u] # Null => u = v
<1>1. hand \in [Thread -> ResolveItem \cup {Null}] /\ i # Null
  BY SlotAssumption DEF TypeOK
<1>2. Hands' = Hands \cup {i}
  BY <1>1 DEF Hands
<1> QED BY <1>1, <1>2 DEF Hands, Placed

\* A thread that gives its item away removes it.
LEMMA HandsGive ==
  ASSUME TypeOK, Placed, NEW t \in Thread, hand[t] # Null, hand' = [hand EXCEPT ![t] = Null]
  PROVE  /\ hand[t] \in ResolveItem /\ hand[t] \in Hands
         /\ Hands' = Hands \ {hand[t]}
         /\ \A u, v \in Thread : hand'[u] = hand'[v] /\ hand'[u] # Null => u = v
<1>1. hand \in [Thread -> ResolveItem \cup {Null}]
  BY DEF TypeOK
<1>2. Hands' = Hands \ {hand[t]}
  BY <1>1 DEF Hands, Placed
<1> QED BY <1>1, <1>2 DEF Hands, Placed

\* What is with the threads, in the list or in the pipe does not move.
LEMMA StillPlaced ==
  ASSUME Placed, UNCHANGED <<used, resolve_list, hand, pipe>>
  PROVE  Placed'
BY DEF Placed, Hands, Once, ToSet

LEMMA StillLinked ==
  ASSUME Linked, UNCHANGED <<state, ri, used, ptr, resolve_list, posting>>
  PROVE  Linked'
BY DEF Linked, Last

\* What a step finds while no call has failed.
LEMMA Finds ==
  ASSUME ItemInv, faults = 0
  PROVE  /\ ~corrupt /\ Placed /\ TypeOK /\ Carried /\ Tokens
         /\ ~bStop => Linked
         /\ posting # Null => resolve_list # <<>> /\ ~bStop /\ posting \in Conn
         /\ resolve_list # <<>> => Last(resolve_list) \in used /\ Head(resolve_list) \in used
         /\ pipe # <<>> => Head(pipe) \in used
         /\ Null \notin ResolveItem /\ Null \notin Conn
<1>1. ~corrupt /\ Placed /\ TypeOK /\ Carried /\ Tokens /\ (~bStop => Linked)
  BY DEF ItemInv, Basic, Sound
<1>2. posting # Null => resolve_list # <<>> /\ ~bStop /\ posting \in Conn
  <2>1. Cardinality(Takers(pc)) \in Nat /\ sem \in Nat
    BY <1>1, TakersCount DEF TypeOK
  <2> QED BY <1>1, <2>1 DEF Tokens, Posts, TypeOK
<1>3. resolve_list # <<>> => Last(resolve_list) \in used /\ Head(resolve_list) \in used
  BY <1>1, TailFacts DEF Placed, TypeOK
<1>4. pipe # <<>> => Head(pipe) \in used
  BY <1>1, TailFacts DEF Placed, TypeOK
<1> QED BY <1>1, <1>2, <1>3, <1>4, SlotAssumption

\* Linking an item that is not in use, and posting it.
LEMMA QueueSound ==
  ASSUME ItemInv, faults = 0, NEW c \in Conn, NEW i \in ResolveItem, QueueItem(c, i)
  PROVE  Sound'
<1>1. /\ resolve_list' = Append(resolve_list, i) /\ used' = used \cup {i} /\ ptr' = [ptr EXCEPT ![i] = c]
      /\ posting' = c /\ posting = Null /\ ~bStop /\ state[c] = "request" /\ i \notin used
      /\ UNCHANGED <<state, ri, hand, pipe>>
  BY DEF QueueItem, LoopRuns, conns, threads
<1>2. i \notin ToSet(resolve_list) /\ i \notin ToSet(pipe) /\ i \notin Hands
  BY <1>1, Finds DEF Placed
<1>3. /\ ToSet(resolve_list') = ToSet(resolve_list) \cup {i}
      /\ Once(resolve_list') /\ Last(resolve_list') = i
  BY <1>1, <1>2, Finds, AppendFacts DEF TypeOK, Placed
<1>4. Hands' = Hands /\ Once(pipe)' /\ ToSet(pipe)' = ToSet(pipe)
  BY <1>1, Finds DEF Hands, Once, ToSet, Placed
<1>5. Placed'
  BY <1>1, <1>2, <1>3, <1>4, Finds DEF Placed
<1>6. corrupt' = FALSE
  BY <1>2, Finds DEF QueueItem
<1>7. Linked'
  BY <1>1, <1>3, Finds DEF Linked, TypeOK
<1> QED BY <1>5, <1>6, <1>7 DEF Sound

LEMMA PostSound ==
  ASSUME ItemInv, faults = 0, PostItem
  PROVE  Sound'
<1>1. /\ ri' = [ri EXCEPT ![posting] = Last(resolve_list)]
      /\ state' = [state EXCEPT ![posting] = "resolve"]
      /\ posting' = Null /\ posting # Null
      /\ UNCHANGED <<used, ptr, resolve_list, hand, pipe, kills, faults, corrupt>>
  BY DEF PostItem, threads
<1>2. Placed'
  BY <1>1, Finds, StillPlaced
<1>3. Linked'
  <2>1. Last(resolve_list') = Last(resolve_list) /\ posting \in Conn /\ Linked
    BY <1>1, Finds
  <2>2. Last(resolve_list) \in used /\ ptr[Last(resolve_list)] = posting /\ state[posting] = "request"
    BY <1>1, <2>1, Finds DEF Linked
  <2>3. \A c \in Conn : ri'[c] # Null =>
          ri'[c] \in used /\ ptr[ri'[c]] = c /\ state'[c] \in {"resolve", "closed"}
    BY <1>1, <2>1, <2>2, Finds DEF Linked, TypeOK
  <2>4. \A i \in used : ptr[i] # Null => ri'[ptr[i]] = i
    BY <1>1, <2>1, <2>2, Finds DEF Linked, TypeOK
  <2> QED BY <1>1, <2>3, <2>4 DEF Linked
<1> QED BY <1>1, <1>2, <1>3, Finds DEF Sound

\* Accepting, closing and freeing a connection.
LEMMA ConnSound ==
  ASSUME ItemInv, faults = 0, NEW c \in Conn, Accept(c) \/ CloseConn(c) \/ FreeConn(c)
  PROVE  Sound'
<1>1. UNCHANGED <<used, resolve_list, posting, hand, pipe, kills>> /\ posting = Null /\ ~bStop
  BY DEF Accept, CloseConn, FreeConn, LoopRuns, threads
<1>2. Placed'
  BY <1>1, Finds, StillPlaced
<1>3. CASE Accept(c) \/ CloseConn(c)
  <2>1. UNCHANGED <<ri, ptr, corrupt>> /\ state[c] # "closed"
        /\ \/ state' = [state EXCEPT ![c] = "request"] /\ state[c] = "absent"
           \/ state' = [state EXCEPT ![c] = "closed"]
    BY <1>3 DEF Accept, CloseConn
  <2>2. Linked'
    BY <1>1, <2>1, Finds DEF Linked, TypeOK
  <2> QED BY <1>2, <2>1, <2>2, Finds DEF Sound
<1>4. CASE FreeConn(c)
  <2>1. /\ state' = [state EXCEPT ![c] = "absent"] /\ ri' = [ri EXCEPT ![c] = Null]
        /\ ptr' = IF ri[c] = Null THEN ptr ELSE [ptr EXCEPT ![ri[c]] = Null]
    BY <1>4 DEF FreeConn
  <2>2. corrupt' = FALSE
    BY <1>1, <1>4, Finds DEF FreeConn, Linked
  <2>3. Linked'
    BY <1>1, <2>1, Finds DEF Linked, TypeOK
  <2> QED BY <1>2, <2>2, <2>3 DEF Sound
<1> QED BY <1>3, <1>4

\* The answer at the head of the pipe is completed and freed.
LEMMA ReadSound ==
  ASSUME ItemInv, faults = 0, ReadPipe
  PROVE  Sound'
<1> DEFINE i == Head(pipe)
<1>1. /\ pipe # <<>> /\ pipe' = Tail(pipe) /\ posting = Null /\ ~bStop
      /\ used' = used \ {i} /\ ptr' = [ptr EXCEPT ![i] = Null]
      /\ UNCHANGED <<resolve_list, posting, hand, kills>>
  BY DEF ReadPipe, LoopRuns, Free, threads
<1>2. i \in used /\ i \in ResolveItem /\ i \in ToSet(pipe)
  BY <1>1, Finds, TailFacts DEF TypeOK
<1>3. ToSet(pipe') = ToSet(pipe) \ {i} /\ Once(pipe')
  BY <1>1, Finds, TailFacts DEF TypeOK, Placed
<1>4. Hands' = Hands /\ Once(resolve_list)' /\ ToSet(resolve_list)' = ToSet(resolve_list)
  BY <1>1, Finds DEF Hands, Once, ToSet, Placed
<1>5. Placed'
  BY <1>1, <1>2, <1>3, <1>4, Finds DEF Placed
<1>6. Linked
  BY <1>1, Finds
<1>7. corrupt' = FALSE
  <2>1. ASSUME ptr[i] # Null PROVE state[ptr[i]] # "absent"
    <3>1. ri[ptr[i]] = i /\ ptr[i] \in Conn /\ i # Null
      BY <1>1, <1>2, <1>6, <2>1, Finds DEF Linked, TypeOK
    <3>2. state[ptr[i]] \in {"resolve", "closed"}
      BY <1>6, <3>1 DEF Linked
    <3> QED BY <3>2
  <2> QED BY <1>2, <2>1 DEF ReadPipe
<1>8. CASE ptr[i] = Null
  <2>1. UNCHANGED <<state, ri>>
    BY <1>8 DEF ReadPipe, conns
  <2>2. Linked'
    BY <1>1, <1>2, <1>6, <1>8, <2>1, Finds DEF Linked, TypeOK
  <2> QED BY <1>5, <1>7, <2>2 DEF Sound
<1>9. CASE ptr[i] # Null
  <2> DEFINE c == ptr[i]
  <2>1. c \in Conn /\ ri[c] = i /\ ri' = [ri EXCEPT ![c] = Null]
    BY <1>1, <1>2, <1>6, <1>9, Finds DEF Linked, TypeOK, ReadPipe, ResolveComplete
  <2>2. \A d \in Conn : d # c => state'[d] = state[d]
    BY <1>9, <2>1, Finds DEF ReadPipe, ResolveComplete, TypeOK
  <2>3. \A d \in Conn : ri'[d] # Null => d # c /\ ri'[d] = ri[d] /\ ri[d] # i
    BY <1>6, <2>1, Finds DEF Linked, TypeOK
  <2>4. \A j \in used' : ptr'[j] = ptr[j] /\ j # i
    BY <1>1, Finds DEF TypeOK
  <2>5. \A j \in used' : ptr'[j] # Null => ri'[ptr'[j]] = j
    BY <1>1, <1>6, <2>1, <2>4, Finds DEF Linked, TypeOK
  <2>6. \A d \in Conn : ri'[d] # Null =>
          ri'[d] \in used' /\ ptr'[ri'[d]] = d /\ state'[d] \in {"resolve", "closed"}
    BY <1>1, <1>6, <2>2, <2>3, <2>4 DEF Linked
  <2>7. Linked'
    BY <1>1, <2>5, <2>6 DEF Linked
  <2> QED BY <1>5, <1>7, <2>7 DEF Sound
<1> QED BY <1>8, <1>9

\* resolver_deinit frees what is in the list once the threads have ended.
LEMMA DeinitSound ==
  ASSUME ItemInv, faults = 0, Deinit \/ KillThread \/ ClearList
  PROVE  Sound'
<1>1. bStop'
  BY ThreadsFinite, Finds DEF Deinit, KillThread, ClearList, bStop, Joined, TypeOK
<1>2. CASE Deinit \/ KillThread
  <2>1. UNCHANGED <<used, resolve_list, hand, pipe, corrupt>>
    BY <1>2 DEF Deinit, KillThread, threads
  <2> QED BY <1>1, <2>1, Finds, StillPlaced DEF Sound
<1>3. CASE ClearList
  <2>1. used' = used \ ToSet(resolve_list) /\ resolve_list' = <<>> /\ UNCHANGED <<hand, pipe, corrupt>>
    BY <1>3 DEF ClearList, ToSet, threads
  <2>2. ToSet(<<>>) = {} /\ Once(<<>>)
    BY DEF ToSet, Once
  <2>3. Hands' = Hands /\ Once(pipe)' /\ ToSet(pipe)' = ToSet(pipe)
    BY <2>1, Finds DEF Hands, Once, ToSet, Placed
  <2>4. Placed'
    BY <2>1, <2>2, <2>3, Finds DEF Placed
  <2> QED BY <1>1, <2>1, <2>4, Finds DEF Sound
<1> QED BY <1>2, <1>3

\* A thread moves an item from the list to its hand, and from there to the pipe.
LEMMA StepSound ==
  ASSUME ItemInv, faults = 0, NEW t \in Thread, ThreadStep(t), faults' = 0
  PROVE  Sound'
<1>0. ThreadStep(t) => UNCHANGED <<state, ri, posting, kills>>
  BY DEF ThreadStep, CheckStop, EnterWait, SemWait, TakeItem, Resolve, WriteAnswer, WriteFails, conns
<1>1. CASE CheckStop(t) \/ EnterWait(t) \/ SemWait(t) \/ Resolve(t)
  <2>1. UNCHANGED <<used, ptr, resolve_list, hand, pipe, corrupt>>
    BY <1>1 DEF CheckStop, EnterWait, SemWait, Resolve
  <2> QED BY <1>0, <2>1, Finds, StillPlaced, StillLinked DEF Sound, bStop
<1>2. CASE TakeItem(t)
  <2>1. UNCHANGED <<used, ptr, pipe>> /\ pc[t] = "take"
    BY <1>2 DEF TakeItem, Move
  <2>2. CASE resolve_list = <<>>
    <3>1. UNCHANGED <<resolve_list, hand, corrupt>>
      BY <1>2, <2>2 DEF TakeItem
    <3> QED BY <1>0, <2>1, <3>1, Finds, StillPlaced, StillLinked DEF Sound, bStop
  <2>3. CASE resolve_list # <<>>
    <3> DEFINE i == Head(resolve_list)
    <3>1. /\ pc' = [pc EXCEPT ![t] = "resolve"] /\ hand' = [hand EXCEPT ![t] = i]
          /\ resolve_list' = Tail(resolve_list)
          /\ corrupt' = (i \notin used \/ (Len(resolve_list) > 1 /\ resolve_list[2] \notin used))
      BY <1>2, <2>3 DEF TakeItem, Move
    <3>2. /\ i \in ResolveItem /\ i \in ToSet(resolve_list) /\ Once(resolve_list')
          /\ ToSet(resolve_list') = ToSet(resolve_list) \ {i} /\ Len(resolve_list) \in Nat
          /\ Len(resolve_list) > 1 =>
               Last(resolve_list') = Last(resolve_list) /\ resolve_list[2] \in ToSet(resolve_list)
      BY <2>3, <3>1, Finds, TailFacts DEF TypeOK, Placed
    <3>3. corrupt' = FALSE
      BY <3>1, <3>2, Finds DEF Placed
    <3>4. hand[t] = Null /\ i \notin Hands
      BY <2>1, <3>2, Finds DEF Carried, Placed
    <3>5. Hands' = Hands \cup {i}
          /\ \A u, v \in Thread : hand'[u] = hand'[v] /\ hand'[u] # Null => u = v
      BY <3>1, <3>2, <3>4, Finds, HandsTake
    <3>6. Once(pipe)' /\ ToSet(pipe)' = ToSet(pipe)
      BY <2>1, Finds DEF Once, ToSet, Placed
    <3>7. Placed'
      BY <2>1, <3>2, <3>5, <3>6, Finds DEF Placed
    <3>8. ~bStop /\ posting # Null => Len(resolve_list) > 1
      <4>1. Cardinality(Takers(pc)) = Cardinality(Takers(pc')) + 1
            /\ Cardinality(Takers(pc')) \in Nat /\ Cardinality(Takers(pc)) \in Nat
        <5>1. TypeOK /\ "resolve" \in ThreadState
          BY Finds DEF ThreadState
        <5>2. Cardinality(Takers(pc')) = Cardinality(Takers(pc)) - 1
          BY <2>1, <3>1, <5>1, MoveTakers
        <5> QED BY <5>2, TakersCount
      <4> QED BY <3>2, <4>1, Finds DEF Tokens, Posts, TypeOK
    <3>9. ~bStop => Linked'
      <4> SUFFICES ASSUME ~bStop PROVE Linked'
        OBVIOUS
      <4>1. posting' # Null => Last(resolve_list') = Last(resolve_list)
        BY <1>0, <3>2, <3>8
      <4> QED BY <1>0, <2>1, <4>1, Finds DEF Linked
    <3> QED BY <1>0, <3>3, <3>7, <3>9 DEF Sound, bStop
  <2> QED BY <2>2, <2>3
<1>3. CASE WriteAnswer(t)
  <2>1. /\ UNCHANGED <<used, ptr, resolve_list, corrupt>> /\ pc[t] = "write"
        /\ pipe' = Append(pipe, hand[t]) /\ hand' = [hand EXCEPT ![t] = Null]
    BY <1>3 DEF WriteAnswer, Move
  <2>2. hand[t] # Null
    BY <2>1, Finds DEF Carried
  <2>3. /\ hand[t] \in ResolveItem /\ hand[t] \in Hands /\ Hands' = Hands \ {hand[t]}
        /\ \A u, v \in Thread : hand'[u] = hand'[v] /\ hand'[u] # Null => u = v
    BY <2>1, <2>2, Finds, HandsGive
  <2>4. ToSet(pipe') = ToSet(pipe) \cup {hand[t]} /\ Once(pipe')
    BY <2>1, <2>3, Finds, AppendFacts DEF Placed, TypeOK
  <2>5. Once(resolve_list)' /\ ToSet(resolve_list)' = ToSet(resolve_list)
    BY <2>1, Finds DEF Once, ToSet, Placed
  <2>6. Placed'
    BY <2>1, <2>3, <2>4, <2>5, Finds DEF Placed
  <2> QED BY <1>0, <2>1, <2>6, Finds, StillLinked DEF Sound, bStop
<1>4. CASE WriteFails(t)
  <2>1. faults' # 0
    BY <1>4, Finds DEF WriteFails, TypeOK
  <2> QED BY <2>1
<1> QED BY <1>1, <1>2, <1>3, <1>4 DEF ThreadStep

LEMMA ItemInvInit == ResolverInit => ItemInv
<1> SUFFICES ASSUME ResolverInit PROVE ItemInv
  OBVIOUS
<1>1. Basic
  BY BasicInit
<1>2. ToSet(resolve_list) = {} /\ ToSet(pipe) = {} /\ Once(resolve_list) /\ Once(pipe) /\ Hands = {}
  BY DEF ResolverInit, ToSet, Once, Hands
<1>3. Placed
  BY <1>2 DEF ResolverInit, Placed
<1>4. Linked
  BY DEF ResolverInit, Linked
<1> QED BY <1>1, <1>3, <1>4 DEF ResolverInit, ItemInv, Sound

LEMMA ItemInvStep == ItemInv /\ [ResolverNext]_resolverVars => ItemInv'
<1> SUFFICES ASSUME ItemInv, [ResolverNext]_resolverVars PROVE ItemInv'
  OBVIOUS
<1>1. Basic'
  BY BasicStep DEF ItemInv
<1>2. Sound'
  <2>1. faults \in Nat
    BY DEF ItemInv, Basic, TypeOK
  <2>2. faults' = 0 => faults = 0
    <3>1. CASE Loop
      <4>1. ASSUME NEW c \in Conn, Accept(c) \/ CloseConn(c) \/ FreeConn(c)
            PROVE  faults' = faults
        BY <4>1 DEF Accept, CloseConn, FreeConn
      <4>2. ASSUME NEW c \in Conn, NEW i \in ResolveItem, QueueItem(c, i) PROVE faults' = faults
        BY <4>2 DEF QueueItem
      <4>3. PostItem \/ ReadPipe \/ Deinit \/ KillThread \/ ClearList => faults' = faults
        BY DEF PostItem, ReadPipe, Deinit, KillThread, ClearList
      <4>4. PostFails => faults' = faults + 1
        BY DEF PostFails
      <4> QED BY <2>1, <3>1, <4>1, <4>2, <4>3, <4>4 DEF Loop
    <3>2. ASSUME NEW t \in Thread, ThreadStep(t) PROVE faults' = faults \/ faults' = faults + 1
      BY <3>2 DEF ThreadStep, CheckStop, EnterWait, SemWait, TakeItem, Resolve, WriteAnswer,
           WriteFails
    <3>3. CASE UNCHANGED resolverVars
      BY <3>3 DEF resolverVars
    <3> QED BY <2>1, <3>1, <3>2, <3>3 DEF ResolverNext
  <2> SUFFICES ASSUME faults = 0, faults' = 0 PROVE Sound'
    BY <2>2 DEF Sound
  <2>3. ASSUME NEW c \in Conn, Accept(c) \/ CloseConn(c) \/ FreeConn(c) PROVE Sound'
    BY <2>3, ConnSound
  <2>4. ASSUME NEW c \in Conn, NEW i \in ResolveItem, QueueItem(c, i) PROVE Sound'
    BY <2>4, QueueSound
  <2>5. ~PostFails
    BY <2>1 DEF PostFails
  <2>6. ASSUME NEW t \in Thread, ThreadStep(t) PROVE Sound'
    BY <2>6, StepSound
  <2>7. CASE UNCHANGED resolverVars
    BY <2>7, Finds, StillPlaced, StillLinked DEF resolverVars, conns, threads, Sound, bStop
  <2> QED BY <2>3, <2>4, <2>5, <2>6, <2>7, PostSound, ReadSound, DeinitSound DEF ResolverNext, Loop
<1> QED BY <1>1, <1>2 DEF ItemInv

LEMMA ItemInvariance == ResolverSpec => []ItemInv
BY ItemInvInit, ItemInvStep, PTL DEF ResolverSpec

\* Every variable keeps its type: the threads never take from an empty list, the semaphore
\* does not go below zero, and no thread writes a NULL pointer to the pipe.
THEOREM ResolverTypeCorrect == ResolverSpec => []TypeOK
<1>1. ItemInv => TypeOK
  BY DEF ItemInv, Basic
<1> QED BY <1>1, ItemInvariance, PTL

-----------------------------------------------------------------------------
(* The counts of the properties.                                           *)

\* A sequence without repetitions holds an element once or not at all.
LEMMA CountOnce ==
  ASSUME NEW s, Once(s), NEW i
  PROVE  Count(s, i) = IF i \in ToSet(s) THEN 1 ELSE 0
<1> DEFINE at == {k \in DOMAIN s : s[k] = i}
<1>1. CASE i \in ToSet(s)
  <2>1. PICK k \in DOMAIN s : s[k] = i
    BY <1>1 DEF ToSet
  <2>2. at = {k}
    BY <2>1 DEF Once
  <2> QED BY <1>1, <2>2, FS_Singleton DEF Count
<1>2. CASE i \notin ToSet(s)
  <2>1. at = {}
    BY <1>2 DEF ToSet
  <2> QED BY <1>2, <2>1, FS_EmptySet DEF Count
<1> QED BY <1>1, <1>2

LEMMA HandOnce ==
  ASSUME Placed, NEW i, i # Null
  PROVE  Cardinality({t \in Thread : hand[t] = i}) = IF i \in Hands THEN 1 ELSE 0
<1> DEFINE by == {t \in Thread : hand[t] = i}
<1>1. CASE i \in Hands
  <2>1. PICK t \in Thread : hand[t] = i
    BY <1>1 DEF Hands
  <2>2. by = {t}
    BY <2>1 DEF Placed
  <2> QED BY <1>1, <2>2, FS_Singleton
<1>2. CASE i \notin Hands
  <2>1. by = {}
    BY <1>2 DEF Hands
  <2> QED BY <1>2, <2>1, FS_EmptySet
<1> QED BY <1>1, <1>2

LEMMA InvAccounts == ItemInv => ItemsAccounted
<1> SUFFICES ASSUME ItemInv PROVE ItemsAccounted
  OBVIOUS
<1>1. OneHolder
  <2> SUFFICES ASSUME faults = 0, NEW i \in ResolveItem
               PROVE  Holders(i) = IF i \in used THEN 1 ELSE 0
    BY DEF OneHolder
  <2>1. Placed /\ i # Null
    BY Finds
  <2>2. Count(resolve_list, i) = IF i \in ToSet(resolve_list) THEN 1 ELSE 0
    BY <2>1, CountOnce DEF Placed
  <2>3. Count(pipe, i) = IF i \in ToSet(pipe) THEN 1 ELSE 0
    BY <2>1, CountOnce DEF Placed
  <2>4. Cardinality({t \in Thread : hand[t] = i}) = IF i \in Hands THEN 1 ELSE 0
    BY <2>1, HandOnce
  <2> QED BY <2>1, <2>2, <2>3, <2>4 DEF Holders, Placed
<1>2. TokenPerItem
  <2>1. {t \in Thread : pc[t] = "take"} = Takers(pc)
    BY DEF Takers
  <2> QED BY <2>1, Finds DEF TokenPerItem, Tokens, Posts
<1>3. PointersAgree
  <2> SUFFICES ASSUME faults = 0, ~bStop PROVE PointersAgree
    BY DEF PointersAgree
  <2> QED BY Finds DEF PointersAgree, Linked
<1>4. NoUseAfterFree
  BY Finds DEF NoUseAfterFree
<1> QED BY <1>1, <1>2, <1>3, <1>4 DEF ItemsAccounted

\* However many threads there are and however they interleave with the loop: while no call
\* has failed, every item is with one holder, waits with its token, agrees with its
\* connection, and is not used once it is freed (resolver.c:88-91, 261-263,
\* tpws_conn.c:537, 1474-1477).
THEOREM EveryItemAccounted == ResolverSpec => []ItemsAccounted
BY ItemInvariance, InvAccounts, PTL

-----------------------------------------------------------------------------
(* The refinement of Resolution.                                           *)

Working == faults = 0 /\ ~bStop /\ ~corrupt
Alive == {c \in Conn : state[c] \in {"request", "resolve", "connection"}}
Lookup == [c \in Conn |-> IF ri[c] = Null THEN "none"
                          ELSE IF ri[c] \in ToSet(pipe) THEN "answered" ELSE "asked"]

\* The abstract variables are these.
LEMMA PromiseInit == ResolverInit => Promise!Init
<1> SUFFICES ASSUME ResolverInit PROVE Promise!Init
  OBVIOUS
<1>1. Alive = {}
  BY DEF ResolverInit, Alive
<1>2. Lookup = [c \in Conn |-> "none"]
  BY DEF ResolverInit, Lookup
<1>3. Working = TRUE
  BY DEF ResolverInit, Working, bStop
<1> QED BY <1>1, <1>2, <1>3 DEF Promise!Init, Alive, Lookup, Working

\* What was misused, failed or stopped stays so.
LEMMA WorksNoMore ==
  ASSUME ItemInv, [ResolverNext]_resolverVars, Working'
  PROVE  Working /\ faults' = faults /\ UNCHANGED kills
<1>1. faults \in Nat /\ kills \in -1 .. 2 * NThreads
  BY DEF ItemInv, Basic, TypeOK
<1>2. CASE Loop
  <2>1. ASSUME NEW c \in Conn, Accept(c) \/ CloseConn(c) \/ FreeConn(c)
        PROVE  Working /\ faults' = faults /\ UNCHANGED kills
    BY <2>1 DEF Working, bStop, Accept, CloseConn, FreeConn, LoopRuns
  <2>2. ASSUME NEW c \in Conn, NEW i \in ResolveItem, QueueItem(c, i)
        PROVE  Working /\ faults' = faults /\ UNCHANGED kills
    BY <2>2 DEF Working, bStop, QueueItem, LoopRuns
  <2>3. CASE PostItem
    BY <2>3 DEF Working, bStop, PostItem
  <2>4. CASE ReadPipe
    BY <2>4 DEF Working, bStop, ReadPipe, LoopRuns
  <2>5. ~PostFails /\ ~Deinit /\ ~KillThread /\ ~ClearList
    BY <1>1, ThreadsFinite DEF Working, bStop, PostFails, Deinit, KillThread, ClearList, Joined
  <2> QED BY <1>2, <2>1, <2>2, <2>3, <2>4, <2>5 DEF Loop
<1>3. ASSUME NEW t \in Thread, ThreadStep(t) PROVE Working /\ faults' = faults /\ UNCHANGED kills
  <2>1. kills' = kills /\ ~corrupt /\ (faults' = faults \/ faults' = faults + 1)
    BY <1>3 DEF ThreadStep, CheckStop, EnterWait, SemWait, TakeItem, Resolve, WriteAnswer, WriteFails
  <2> QED BY <1>1, <2>1 DEF Working, bStop
<1>4. CASE UNCHANGED resolverVars
  BY <1>4 DEF resolverVars, Working, bStop
<1> QED BY <1>2, <1>3, <1>4 DEF ResolverNext

\* The steps that leave what Resolution sees alone.
LEMMA Unseen ==
  ASSUME UNCHANGED <<Alive, Lookup, Working>>
  PROVE  UNCHANGED Promise!vars
BY DEF Promise!vars, Alive, Lookup, Working

\* The steps that it sees.
LEMMA Seen ==
  ASSUME Working, NEW c \in Conn,
         \/ Promise!Open(c) \/ Promise!Ask(c) \/ Promise!Answer(c) \/ Promise!Deliver(c)
         \/ Promise!Close(c) \/ Promise!Forget({c})
  PROVE  Promise!Next
<1>1. {c} \in SUBSET Conn
  OBVIOUS
<1> QED BY <1>1 DEF Promise!Next, Working

LEMMA LoopPromise ==
  ASSUME ItemInv, Working, Working', Loop
  PROVE  [Promise!Next]_(Promise!vars)
<1> USE DEF Alive, Lookup, Working
<1>a. faults = 0 /\ Linked /\ TypeOK /\ Null \notin Conn /\ Null \notin ResolveItem
  BY Finds
<1>b. \A c \in Conn : ri[c] # Null => state[c] \in {"resolve", "closed"}
  BY <1>a DEF Linked
<1>1. ASSUME NEW c \in Conn, Accept(c) PROVE Promise!Open(c)
  <2>1. /\ state' = [state EXCEPT ![c] = "request"] /\ state[c] = "absent"
        /\ UNCHANGED <<ri, pipe>>
    BY <1>1 DEF Accept
  <2>2. c \notin Alive /\ Alive' = Alive \cup {c}
    BY <1>a, <2>1 DEF TypeOK
  <2>3. Lookup[c] = "none" /\ Lookup' = Lookup
    BY <1>b, <2>1
  <2> QED BY <2>2, <2>3 DEF Promise!Open
<1>2. ASSUME NEW c \in Conn, CloseConn(c) PROVE Promise!Close(c)
  <2>1. /\ state' = [state EXCEPT ![c] = "closed"]
        /\ state[c] \in {"request", "resolve", "connection"}
        /\ UNCHANGED <<ri, pipe>>
    BY <1>2 DEF CloseConn
  <2>2. c \in Alive /\ Alive' = Alive \ {c}
    BY <1>a, <2>1 DEF TypeOK
  <2>3. Lookup' = Lookup
    BY <2>1
  <2> QED BY <2>2, <2>3 DEF Promise!Close
<1>3. ASSUME NEW c \in Conn, FreeConn(c) PROVE Promise!Forget({c})
  <2>1. /\ state' = [state EXCEPT ![c] = "absent"] /\ ri' = [ri EXCEPT ![c] = Null]
        /\ state[c] = "closed" /\ UNCHANGED pipe
    BY <1>3 DEF FreeConn
  <2>2. {c} \cap Alive = {} /\ Alive' = Alive
    BY <1>a, <2>1 DEF TypeOK
  <2>3. Lookup' = [d \in Conn |-> IF d \in {c} THEN "none" ELSE Lookup[d]]
    BY <1>a, <2>1 DEF TypeOK
  <2> QED BY <2>2, <2>3 DEF Promise!Forget
<1>4. ASSUME NEW c \in Conn, NEW i \in ResolveItem, QueueItem(c, i) PROVE UNCHANGED Promise!vars
  <2>1. UNCHANGED <<state, ri, pipe>>
    BY <1>4 DEF QueueItem, conns
  <2> QED BY <2>1, Unseen
<1>5. CASE PostItem
  <2>0. PICK c \in Conn : c = posting
    BY <1>5, Finds DEF PostItem
  <2> DEFINE i == Last(resolve_list)
  <2>1. /\ i \in ResolveItem /\ state[c] = "request"
        /\ i \in ToSet(resolve_list) /\ i \notin ToSet(pipe)
    BY <1>5, Finds, TailFacts, <2>0 DEF PostItem, Linked, TypeOK, Placed
  <2>2. /\ ri' = [ri EXCEPT ![c] = i] /\ state' = [state EXCEPT ![c] = "resolve"]
        /\ UNCHANGED pipe
    BY <1>5, <2>0 DEF PostItem
  <2>3. c \in Alive /\ Alive' = Alive
    BY <1>a, <2>1, <2>2 DEF TypeOK
  <2>4. Lookup[c] = "none" /\ Lookup' = [Lookup EXCEPT ![c] = "asked"]
    BY <1>a, <1>b, <2>1, <2>2 DEF TypeOK
  <2>5. Promise!Ask(c)
    BY <2>3, <2>4 DEF Promise!Ask
  <2> QED BY <2>5, Seen
<1>6. CASE ReadPipe
  <2> DEFINE i == Head(pipe)
  <2>1. /\ pipe # <<>> /\ i \in used /\ i \in ResolveItem /\ i \in ToSet(pipe)
        /\ ToSet(pipe') = ToSet(pipe) \ {i} /\ posting = Null
    BY <1>6, Finds, TailFacts DEF ReadPipe, TypeOK, Placed, LoopRuns
  <2>2. CASE ptr[i] = Null
    <3>1. UNCHANGED <<state, ri>>
      BY <1>6, <2>2 DEF ReadPipe, conns
    <3>2. \A d \in Conn : ri[d] # i
      BY <1>a, <2>1, <2>2 DEF Linked
    <3>3. Lookup' = Lookup
      BY <2>1, <3>1, <3>2
    <3> QED BY <3>1, <3>3, Unseen
  <2>3. CASE ptr[i] # Null
    <3>0. PICK c \in Conn : c = ptr[i]
      BY <1>a, <2>1, <2>3 DEF TypeOK
    <3>1. ri[c] = i /\ ResolveComplete(c)
      BY <1>6, <1>a, <2>1, <2>3, <3>0 DEF Linked, TypeOK, ReadPipe
    <3>2. state[c] \in {"resolve", "closed"} /\ Lookup[c] = "answered"
      BY <1>a, <1>b, <2>1, <3>1
    <3>3. \A d \in Conn : d # c => ri[d] # i
      BY <1>a, <2>1, <3>1 DEF Linked
    <3>4. Lookup' = [Lookup EXCEPT ![c] = "none"]
      <4>1. ri' = [ri EXCEPT ![c] = Null]
        BY <3>1 DEF ResolveComplete
      <4> QED BY <1>a, <2>1, <3>1, <3>3, <4>1 DEF TypeOK
    <3>5. CASE state[c] = "resolve"
      <4>1. PICK s \in {"connection", "closed"} : state' = [state EXCEPT ![c] = s]
        BY <3>1, <3>5 DEF ResolveComplete
      <4>2. c \in Alive /\ Alive' \in {Alive, Alive \ {c}}
        <5>1. s = "connection" => Alive' = Alive
          BY <1>a, <3>1, <3>5, <4>1 DEF TypeOK
        <5>2. s = "closed" => Alive' = Alive \ {c}
          BY <1>a, <3>1, <3>5, <4>1 DEF TypeOK
        <5> QED BY <3>1, <3>5, <4>1, <5>1, <5>2
      <4>3. Promise!Deliver(c)
        BY <3>2, <3>4, <4>2 DEF Promise!Deliver
      <4> QED BY <4>3, Seen
    <3>6. CASE state[c] = "closed"
      <4>1. state' = state
        BY <1>a, <3>1, <3>6 DEF ResolveComplete, TypeOK
      <4>2. Alive' = Alive /\ {c} \cap Alive = {}
        BY <3>6, <4>1
      <4>3. Lookup' = [d \in Conn |-> IF d \in {c} THEN "none" ELSE Lookup[d]]
        BY <3>1, <3>4
      <4>4. Promise!Forget({c})
        BY <4>2, <4>3 DEF Promise!Forget
      <4> QED BY <4>4, Seen
    <3> QED BY <3>2, <3>5, <3>6
  <2> QED BY <2>2, <2>3
<1>7. ~PostFails
  BY <1>a DEF PostFails
<1>8. ~Deinit /\ ~KillThread /\ ~ClearList
  BY ThreadsFinite DEF Deinit, KillThread, ClearList, Joined, bStop
<1> QED BY <1>1, <1>2, <1>3, <1>4, <1>5, <1>6, <1>7, <1>8, Seen DEF Loop

LEMMA StepPromise ==
  ASSUME ItemInv, Working, Working', NEW t \in Thread, ThreadStep(t)
  PROVE  [Promise!Next]_(Promise!vars)
<1> USE DEF Alive, Lookup, Working
<1>a. faults = 0 /\ Linked /\ TypeOK /\ Null \notin ResolveItem
  BY Finds
<1>0. UNCHANGED <<state, ri>>
  BY DEF ThreadStep, CheckStop, EnterWait, SemWait, TakeItem, Resolve, WriteAnswer, WriteFails, conns
<1>1. CASE UNCHANGED pipe
  <2>1. Alive' = Alive /\ Lookup' = Lookup
    BY <1>0, <1>1
  <2> QED BY <2>1, Unseen
<1>2. CASE WriteAnswer(t)
  <2> DEFINE i == hand[t]
  <2>1. pc[t] = "write" /\ pipe' = Append(pipe, i)
    BY <1>2 DEF WriteAnswer, Move
  <2>2. i \in ResolveItem /\ i \notin ToSet(pipe)
    BY <2>1, Finds DEF Carried, TypeOK, Placed, Hands
  <2>3. ToSet(pipe') = ToSet(pipe) \cup {i}
    BY <1>a, <2>1, <2>2, AppendFacts DEF TypeOK
  <2>4. ASSUME NEW c \in Conn, ri[c] = i PROVE Promise!Answer(c)
    <3>1. Lookup[c] = "asked"
      BY <1>a, <2>2, <2>4
    <3>2. \A d \in Conn : d # c => ri[d] # i
      BY <1>a, <2>2, <2>4 DEF Linked
    <3>3. Lookup' = [Lookup EXCEPT ![c] = "answered"]
      BY <1>0, <1>a, <2>2, <2>3, <2>4, <3>2
    <3>4. Alive' = Alive
      BY <1>0
    <3> QED BY <3>1, <3>3, <3>4 DEF Promise!Answer
  <2>5. CASE \A c \in Conn : ri[c] # i
    <3>1. Lookup' = Lookup /\ Alive' = Alive
      BY <1>0, <2>3, <2>5
    <3> QED BY <3>1, Unseen
  <2> QED BY <2>4, <2>5, Seen
<1>3. ~WriteFails(t)
  BY <1>a DEF WriteFails
<1> QED BY <1>1, <1>2, <1>3 DEF ThreadStep, CheckStop, EnterWait, SemWait, TakeItem, Resolve

LEMMA PromiseStep == ItemInv /\ [ResolverNext]_resolverVars => [Promise!Next]_(Promise!vars)
<1> SUFFICES ASSUME ItemInv, [ResolverNext]_resolverVars PROVE [Promise!Next]_(Promise!vars)
  OBVIOUS
<1>1. CASE ~Working'
  BY <1>1 DEF Promise!Next, Promise!Fail, Working
<1>2. CASE Working'
  <2>1. Working
    BY <1>2, WorksNoMore
  <2>2. CASE UNCHANGED resolverVars
    <3>1. UNCHANGED <<Alive, Lookup, Working>>
      BY <2>2 DEF resolverVars, conns, Alive, Lookup, Working, bStop, ToSet
    <3> QED BY <3>1, Unseen
  <2> QED BY <1>2, <2>1, <2>2, LoopPromise, StepPromise DEF ResolverNext
<1> QED BY <1>1, <1>2

\* The resolver keeps the safety part of ImplementsResolution: every step of the loop and of
\* the threads is a step of Resolution, or one it does not see.  A connection gets an answer
\* only to a question it has asked, once, and never one that was asked by the connection that
\* had its memory before (tpws_conn.c:1098, 1476).
THEOREM KeepsPromise == ResolverSpec => Promise!SafeSpec
BY PromiseInit, PromiseStep, ItemInvariance, PTL DEF ResolverSpec, Promise!SafeSpec

=============================================================================
