------------------------------ MODULE Options ------------------------------
(***************************************************************************)
(* What the command lines of tpws and nfqws have in common: a list of      *)
(* strategy profiles that is built while the options are read, the lists   *)
(* of hosts and of networks the profiles name, the switches --new and      *)
(* --skip, and the readings of an argument that both programs use.         *)
(* TpwsOptions and NfqwsOptions add the options of the two programs.       *)
(*                                                                         *)
(* An option is a record of its name and its argument.  An argument is the *)
(* sequence of its comma separated items, and an item is a word followed   *)
(* by numbers: http is <<w |-> "http">>, 80-90 the numbers 80 and 90,      *)
(* host+1 the word host and the number 1.  An option without an argument   *)
(* has the empty sequence.                                                 *)
(***************************************************************************)
EXTENDS Integers, Sequences, FiniteSets, TLC

CONSTANTS
  Lines,        \* the command lines: the program and system that reads them, whether
                \* it runs as root, the files there are and which have relative names,
                \* the options given first, those the rest of the line is made of, and
                \* how many more (a bound)
  MaxSplits     \* program name -> MAX_SPLITS: 16 in tpws, 64 in nfqws

Programs == {<<"tpws", "mac">>, <<"tpws", "linux">>, <<"tpws", "bsd">>,
             <<"nfqws", "linux">>, <<"nfqws", "bsd">>, <<"nfqws", "windows">>}
Readings == {"plain", "gzip", "corrupt", "rootonly", "missing", "closed"}

Naming == {"hostlist", "hostlist_exclude", "ipset", "ipset_exclude", "hostlist_auto"}

\* What getopt hands over: these options have an argument, and a list lies in a
\* file of the disk.
LineOption(v) ==
  {t \in [o : STRING, a : Seq([w : STRING, k : Seq(Int)])] :
     /\ t.o \in Naming \cup {"bind_addr", "bind_iface4", "bind_iface6"} => t.a # <<>>
     /\ t.o \in Naming => t.a[1].w \in DOMAIN v.disk}

ASSUME OptionsAssumption ==
  /\ \A v \in Lines : /\ <<v.system.name, v.system.os>> \in Programs
                      /\ v.root \in BOOLEAN /\ v.more \in Nat
                      /\ v.disk \in [DOMAIN v.disk -> Readings] /\ DOMAIN v.disk \subseteq STRING \ {""}
                      /\ v.relative \subseteq DOMAIN v.disk
                      /\ v.given \in Seq(LineOption(v)) /\ v.options \subseteq LineOption(v)
  /\ MaxSplits \in [{"tpws", "nfqws"} -> Nat]

VARIABLES
  written,     \* the line of Lines that is read
  argv,        \* the options read so far
  phase,       \* "options", "failed" (exit 1), "done" (exit 0) or "start"
  profiles,    \* params.desync_profiles; the last one is being described
  count,       \* desync_profile_count
  skip,        \* bSkip
  dry,         \* bDry
  anon,        \* collection -> its list without a file, or 0
  files,       \* params.hostlists and params.ipsets, in the order of registration
  disk,        \* file -> how it can be read
  params,      \* the settings that belong to no profile
  binds        \* params.binds up to binds_last

lists == <<anon, files, disk>>
vars  == <<written, argv, phase, profiles, count, skip, dry, anon, files, disk, params, binds>>

system == written.system
root   == written.root

On(names) == system.os \in names

-----------------------------------------------------------------------------
(* Arguments *)

Item(w, k) == [w |-> w, k |-> k]
Opt(o, a)  == [o |-> o, a |-> a]

IsNumber(i) == i.w = "" /\ i.k # <<>>

\* atoi: what is not a number is zero.
Atoi(a) == IF a # <<>> /\ IsNumber(a[1]) THEN a[1].k[1] ELSE 0

\* sscanf with %u: no reading of a word, and a negative number wraps to a large
\* one (2^30 stands for 2^32).
Unsigned(a) == IF a # <<>> /\ IsNumber(a[1]) THEN {a[1].k[1] % 2^30} ELSE {}

\* !optarg || atoi(optarg)
Switch(a) == a = <<>> \/ Atoi(a) # 0

\* strcmp against whole words; a list of words is none of them.
Is(a, w) == a = <<Item(w, <<>>)>>
Words(a) == {a[i].w : i \in DOMAIN a}
AllWords(a, known) == \A i \in DOMAIN a : a[i].k = <<>> /\ a[i].w \in known

Int16 == -32768 .. 32767
MaxPort == 65535   \* of sixteen bits without a sign, like the number of a queue

-----------------------------------------------------------------------------
(* Positions in a payload: a marker and a distance from it. *)

Markers == {"host", "endhost", "sld", "midsld", "endsld", "method", "sniext"}

\* parse_split_pos: a number that is not zero, or a marker with or without one.
SplitPos(i) ==
  IF i.w = ""
  THEN {[marker |-> "abs", pos |-> p] : p \in {n \in Int16 : i.k = <<n>> /\ n # 0}}
  ELSE {[marker |-> i.w, pos |-> p] :
          p \in {n \in IF i.k = <<>> THEN {0} ELSE Int16 \cap {i.k[1]} : i.w \in Markers}}

\* parse_split_pos_list, behind the positions the profile has already.
SplitPosList(a, splits, room) ==
  {splits \o [i \in DOMAIN a |-> CHOOSE p \in SplitPos(a[i]) : TRUE] :
     ok \in {TRUE} \cap {a # <<>> /\ Len(a) <= room - Len(splits)
                           /\ \A i \in DOMAIN a : SplitPos(a[i]) # {}}}

\* parse_httpreqpos and parse_tlspos, the names of the deprecated options.
HttpReqPos(a) ==
  {p \in {[marker |-> "method", pos |-> 2], [marker |-> "host", pos |-> 1]} : Is(a, p.marker)}
TlsPos(a) ==
  IF Is(a, "sni") THEN {[marker |-> "host", pos |-> 1]}
  ELSE IF Is(a, "sniext") THEN {[marker |-> "sniext", pos |-> 1]}
  ELSE IF Is(a, "snisld") THEN {[marker |-> "midsld", pos |-> 0]} ELSE {}


-----------------------------------------------------------------------------
(* Filters *)

\* wf_make_l3
L3Filter(a) == {[ipv4 |-> "ipv4" \in Words(a), ipv6 |-> "ipv6" \in Words(a)] :
                  ok \in {TRUE} \cap {AllWords(a, {"ipv4", "ipv6"})}}

\* parse_l7_list
L7Filter(a, known) == {w \in {Words(a)} : AllWords(a, known)}

\* pf_parse: a port, a range, either of them negated by ~, or * for all ports.
\* The reading of * leaves neg as it was in the variable on the stack, which is
\* of any value for the first item of a list and of the item before for another.
PortRange(i) ==
  {[from |-> f, to |-> t, neg |-> i.w = "~" \/ (f = 0 /\ t = 0)] :
     f \in {i.k[1]} \cap 0 .. i.k[Len(i.k)], t \in {i.k[Len(i.k)]} \cap 0 .. MaxPort}
PortFilter(i, before) ==
  IF i.w = "*" THEN {[from |-> 1, to |-> MaxPort, neg |-> n] : n \in before}
  ELSE IF i.k = <<>> \/ i.w \notin {"", "~"} THEN {} ELSE PortRange(i)

\* parse_pf_list: the filters the argument adds, in every way it may be read.
PortFilters(a) ==
  IF a = <<>> THEN {}
  ELSE {s \in [DOMAIN a -> UNION {PortFilter(a[n], BOOLEAN) : n \in DOMAIN a}] :
          \A n \in DOMAIN a : s[n] \in PortFilter(a[n], IF n = 1 THEN BOOLEAN ELSE {s[n - 1].neg})}

\* pf_in_range, port_filters_in_range
InRange(port, f) ==
  port # 0 /\ (((f.from = 0 /\ f.to = 0) \/ port \in f.from .. f.to) # f.neg)
PortMatches(filters, port) == filters = {} \/ \E f \in filters : InRange(port, f)

-----------------------------------------------------------------------------
(* Profiles *)

Collections == {"hl", "hlx", "ips", "ipsx"}   \* hosts and networks, included and excluded
Hosts == {"hl", "hlx"}

Here == profiles[Len(profiles)]

\* A profile as dp_init leaves it: fields are the settings it starts with, a
\* setting that is not there is zero; no change of fake TLS hellos is given yet.
Fresh(n, fields) ==
  [n |-> n, set |-> fields, auto |-> 0, splits |-> <<>>, tcp |-> {}, udp |-> {},
   fakes |-> <<>>, tls_mod |-> [mod |-> {}, sni |-> 0], on |-> [c \in Collections |-> {}]]

\* exit_clean(1) and exithelp_clean: nothing that was read matters any more.
Refuse == phase' = "failed" /\ UNCHANGED <<profiles, count, skip, dry, lists, params, binds>>

\* The profile that is being described becomes p, the settings become q.
Update(p, q) ==
  /\ profiles' = [profiles EXCEPT ![Len(profiles)] = p]
  /\ params' = q
  /\ UNCHANGED <<phase, count, skip, dry, lists, binds>>

With(fields) == [Here EXCEPT !.set = fields @@ @]

\* The settings q with f given a value.
Put(q, f, v) == [x \in DOMAIN q \cup {f} |-> IF x = f THEN v ELSE q[x]]

\* A setting of the profile: parsed holds the readings of the argument, none
\* when it is refused.
Field(parsed, f) ==
  \/ parsed = {} /\ Refuse
  \/ \E v \in parsed : Update(With(f :> v), params)
Param(parsed, f) ==
  \/ parsed = {} /\ Refuse
  \/ \E v \in parsed : Update(Here, Put(params, f, v))

Number(a, range) == {Atoi(a)} \cap range

\* Where to split: the deprecated names add one position, --split-pos a list.
OneMore(p) == {Append(Here.splits, v) : v \in {w \in p : Len(Here.splits) < MaxSplits[system.name]}}
Splits(t) ==
  CASE t.o = "split_http_req" -> OneMore(HttpReqPos(t.a))
    [] t.o = "split_tls"      -> OneMore(TlsPos(t.a))
    [] OTHER                  -> SplitPosList(t.a, Here.splits, MaxSplits[system.name])

Users == {"daemon"}   \* the accounts getpwnam finds

\* The user the program will run as: of --user and --uid the last one counts,
\* and either of them asks to drop the rights of root.
UserOption(t) ==
  \/ t.o = "user" /\ ~(\E u \in Users : Is(t.a, u)) /\ Refuse
  \/ /\ t.o = "user" /\ \E u \in Users : Is(t.a, u)
     /\ Update(Here, Put([params EXCEPT !.droproot = TRUE], "user", t.a[1].w))
  \/ t.o = "uid" /\ Unsigned(t.a) = {} /\ Refuse
  \/ /\ t.o = "uid" /\ Unsigned(t.a) # {}
     /\ Update(Here, Put([params EXCEPT !.droproot = TRUE], "user", "by number"))

-----------------------------------------------------------------------------
(* Lists of hosts and networks *)

KindOf(c) == IF c \in Hosts THEN "hosts" ELSE "nets"

\* RegisterHostlist_, RegisterIpset_: a file is registered once however many
\* profiles name it, a list without a file belongs to one profile.
Registered(c, f) == {i \in DOMAIN files : f # "" /\ files[i].file = f /\ files[i].kind = KindOf(c)}
ListOf(c, f) == IF Registered(c, f) # {} THEN CHOOSE i \in Registered(c, f) : TRUE ELSE Len(files) + 1
FilesWith(c, f) ==
  IF Registered(c, f) # {} THEN files
  ELSE Append(files, [file |-> f, kind |-> KindOf(c), items |-> {}])

Joins(p, c, i) == [p EXCEPT !.on[c] = @ \cup {i}]

\* A file that is missing can be made; one that is closed lies where the program
\* may not look; one that is rootonly can be opened by root.
Shut(asRoot) == {"missing", "closed"} \cup IF asRoot THEN {} ELSE {"rootonly"}

\* RegisterIpset asks the file for its time of modification, RegisterHostlist
\* no longer does.
CanRegister(c, f) == c \in Hosts \/ disk[f] \notin Shut(TRUE)

\* --hostlist, --hostlist-exclude, --ipset, --ipset-exclude
NameList(c, f) ==
  \/ skip /\ UNCHANGED <<phase, profiles, count, skip, dry, lists, params, binds>>
  \/ ~skip /\ ~CanRegister(c, f) /\ Refuse
  \/ /\ ~skip /\ CanRegister(c, f)
     /\ profiles' = [profiles EXCEPT ![Len(profiles)] = Joins(@, c, ListOf(c, f))]
     /\ files' = FilesWith(c, f)
     /\ UNCHANGED <<phase, count, skip, dry, anon, disk, binds>>

\* --hostlist-domains, --ipset-ip and their exclusions: the first one of a
\* profile makes the list, the next ones add to it.
AnonOf(c) == IF anon[c] = 0 THEN Len(files) + 1 ELSE anon[c]
AddItems(c, a) ==
  \/ skip /\ UNCHANGED <<phase, profiles, count, skip, dry, lists, params, binds>>
  \/ /\ ~skip
     /\ profiles' = [profiles EXCEPT ![Len(profiles)] = Joins(@, c, AnonOf(c))]
     /\ anon' = [anon EXCEPT ![c] = AnonOf(c)]
     /\ LET all == IF anon[c] = 0 THEN FilesWith(c, "") ELSE files
        IN  files' = [all EXCEPT ![AnonOf(c)].items = @ \cup (Words(a) \ {""})]
     /\ UNCHANGED <<phase, count, skip, dry, disk, binds>>

\* --hostlist-auto opens the file to append, which makes it when it is missing.
NotAuto == {"gzip", "corrupt"} \cup (Shut(root) \ {"missing"})
AutoList(f) ==
  \/ skip /\ UNCHANGED <<phase, profiles, count, skip, dry, lists, params, binds>>
  \/ ~skip /\ (Here.auto # 0 \/ disk[f] \in NotAuto) /\ Refuse
  \/ /\ ~skip /\ Here.auto = 0 /\ disk[f] \notin NotAuto
     /\ profiles' = [profiles EXCEPT ![Len(profiles)] =
                       [Joins(@, "hl", ListOf("hl", f)) EXCEPT !.auto = ListOf("hl", f)]]
     /\ files' = FilesWith("hl", f)
     /\ disk' = [disk EXCEPT ![f] = IF @ = "missing" THEN "plain" ELSE @]
     /\ UNCHANGED <<phase, count, skip, dry, anon, binds>>

NamedList == [hostlist |-> "hl", hostlist_exclude |-> "hlx", ipset |-> "ips", ipset_exclude |-> "ipsx"]
InlineList == [hostlist_domains |-> "hl", hostlist_exclude_domains |-> "hlx",
               ipset_ip |-> "ips", ipset_exclude_ip |-> "ipsx"]

-----------------------------------------------------------------------------
(* --new and --skip *)

\* (mutant) --new forgets which lists without a file the old profile had.
NewKeepsLists(fields) ==
  /\ profiles' = IF skip THEN [profiles EXCEPT ![Len(profiles)] = Fresh(count, fields)]
                 ELSE Append(profiles, Fresh(count + 1, fields))
  /\ count' = IF skip THEN count ELSE count + 1
  /\ skip' = FALSE
  /\ UNCHANGED <<phase, dry, lists, params, binds>>

\* The profile that ends with --new stays, unless it is skipped: then it is
\* cleared and described anew with the number it had.
New(fields) ==
  /\ IF skip
     THEN /\ profiles' = [profiles EXCEPT ![Len(profiles)] = Fresh(count, fields)]
          /\ count' = count
     ELSE /\ profiles' = Append(profiles, Fresh(count + 1, fields))
          /\ count' = count + 1
  /\ skip' = FALSE
  /\ anon' = [c \in Collections |-> 0]
  /\ UNCHANGED <<phase, dry, files, disk, params, binds>>

Skip == skip' = TRUE /\ UNCHANGED <<phase, profiles, count, dry, lists, params, binds>>

\* After the last option: a skipped profile is removed, and profile 0 is added,
\* which takes what no other profile does.
Kept == IF skip THEN SubSeq(profiles, 1, Len(profiles) - 1) ELSE profiles

-----------------------------------------------------------------------------
(* Files when all options are read *)

\* chown of the automatic lists to the user the program will run as.
Owned(ps) ==
  [f \in DOMAIN disk |->
     IF disk[f] = "rootonly" /\ root /\ params.droproot
        /\ \E i \in DOMAIN ps : ps[i].auto # 0 /\ files[ps[i].auto].file = f
     THEN "plain" ELSE disk[f]]

\* test_list_files: every registered file can be opened, by the user the
\* program runs as; the profile that named it may be gone.
Readable(d, asRoot) ==
  \A i \in DOMAIN files : files[i].file # "" => d[files[i].file] \notin Shut(asRoot)

\* LoadAllHostLists, LoadAllIpsets: a list that is not found stays as it is in
\* memory, one that is found must be opened and read to its end.
Loadable(d, asRoot) ==
  \A i \in DOMAIN files : files[i].file # "" =>
     d[files[i].file] # "corrupt" /\ (d[files[i].file] = "rootonly" => asRoot)
=============================================================================
