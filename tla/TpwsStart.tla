----------------------------- MODULE TpwsStart ------------------------------
(***************************************************************************)
(* The main of tpws: for each --bind it waits for the interface and for a  *)
(* suitable address, then it listens on all of them, gives up root,        *)
(* becomes a daemon and enters its event loop, which is TpwsConn.  The     *)
(* interfaces of the machine change while it waits.                        *)
(***************************************************************************)
EXTENDS TpwsOptions, Process

CONSTANTS
  Nets,         \* what the network may look like: sequences of interfaces
  MaxChanges    \* bound: changes of the network

Kinds6 == {"ll6", "private6", "global6"}   \* fe80::/10, fc00::/7 and the rest

ASSUME TpwsStartAssumption ==
  /\ MaxChanges \in Nat
  /\ Nets \subseteq Seq([iface : STRING, up : BOOLEAN, addrs : Seq(Kinds6 \cup {"ip4"})])

VARIABLES
  net,       \* the interfaces in the order of getifaddrs: name, up, addresses
  changes,   \* how often they have changed
  ifup,      \* "wait" for the interface of this bind, or if_index: "found", "absent"
  sec,       \* sec: seconds slept in the loop the program is in
  list       \* list[]: the addresses found so far

searching == <<net, changes, ifup, sec, list>>

TpwsStartInit == net = <<>> /\ changes = 0 /\ ifup = "wait" /\ sec = 0 /\ list = <<>>

\* (mutant) The number is written by the process that is about to fork.
PidBeforeFork ==
  <<"prepare", "redirector", "listen", "pidfile", "rights", "lists", "pid", "daemon", "serve">>

\* The lines of main up to the event loop.
TpwsSteps ==
  <<"prepare", "redirector", "listen", "pidfile", "rights", "lists", "daemon", "pid", "serve">>

Same == UNCHANGED <<process, status, asRoot, pidfile, sockets>>

-----------------------------------------------------------------------------
(* Interfaces and addresses *)

Iface(name) == {i \in DOMAIN net : net[i].iface = name}
HasIndex(name) == Iface(name) # {}                              \* if_nametoindex
IsOnline(name) == \E i \in Iface(name) : net[i].up              \* is_interface_online

Addresses ==
  LET of[n \in 0 .. Len(net)] ==
        IF n = 0 THEN <<>>
        ELSE of[n - 1] \o [j \in DOMAIN net[n].addrs |-> [iface |-> net[n].iface, kind |-> net[n].addrs[j]]]
  IN  of[Len(net)]

\* find_listen_addr: what the passes 0 to 2 accept, by the wish for link locals.
Accepts(ll, pass, kind) ==
  CASE ll = "force"    -> kind = "ll6"
    [] ll = "prefer"   -> pass = 2 \/ kind = <<"ll6", "private6">>[pass + 1]
    [] ll = "no"       -> pass < 2 /\ (kind = "private6" \/ (pass = 1 /\ kind # "ll6"))
    [] ll = "unwanted" -> pass = 2 \/ kind = "private6" \/ (pass = 1 /\ kind # "ll6")

Suits(a, b, ll, pass) ==
  IF a.kind = "ip4" THEN ~b.v6 /\ b.iface # "" /\ b.iface = a.iface
  ELSE /\ IF b.iface = "" THEN ll \in {"prefer", "force"} ELSE b.v6 /\ b.iface = a.iface
       /\ Accepts(ll, pass, a.kind)

\* The first address of the first pass that finds any.
FindListenAddr(b, ll) ==
  {Addresses[j] : j \in
     {k \in DOMAIN Addresses : \E p \in 0 .. 2 :
        /\ Suits(Addresses[k], b, ll, p)
        /\ \A q \in 0 .. p, m \in DOMAIN Addresses : (q < p \/ m < k) => ~Suits(Addresses[m], b, ll, q)}}

\* (mutant) The time given to the first choice is ignored.
WishNow(b, s) == b.ll

\* bindll_1: for the first wait_ip_ll seconds a wish is a condition.
WishAt(b, s) ==
  IF s >= b.wait_ip_ll THEN b.ll
  ELSE CASE b.ll = "prefer" -> "force" [] b.ll = "unwanted" -> "no" [] OTHER -> b.ll

-----------------------------------------------------------------------------
(* One bind after the other *)

Bind == binds[Len(list) + 1]

\* (mutant) A second that is not counted.
SleepUncounted == UNCHANGED <<vars, running, searching>>

\* sleep(1)
Sleep == sec' = sec + 1 /\ UNCHANGED <<vars, running, net, changes, ifup, list>>
GiveUp == Exit(1) /\ UNCHANGED searching

\* The wait for the interface; its last second counts as a failure even when
\* the interface has come up in it.
IfUpWanted == Bind.iface # "" /\ Bind.wait_ifup > 0
IfUp ==
  /\ Step("prepare") /\ ifup = "wait"
  /\ CASE IfUpWanted /\ sec >= Bind.wait_ifup -> GiveUp
       [] IfUpWanted /\ sec < Bind.wait_ifup /\ ~IsOnline(Bind.iface) -> Sleep
       [] OTHER ->
            IF Bind.iface # "" /\ ~HasIndex(Bind.iface) /\ Bind.wait_ip <= 0 THEN GiveUp
            ELSE /\ ifup' = (IF HasIndex(Bind.iface) THEN "found" ELSE "absent")
                 /\ sec' = 0
                 /\ UNCHANGED <<vars, running, net, changes, list>>

\* An address for this bind is known; the next bind begins, or the wait is over.
Listed(a, v6only, left) ==
  /\ list' = Append(list, [iface |-> a.iface, kind |-> a.kind, v6only |-> v6only, left |-> left])
  /\ ifup' = "wait" /\ sec' = 0
  /\ UNCHANGED <<net, changes>>
  /\ IF Len(list) + 1 < Len(binds) THEN UNCHANGED <<vars, running>>
     ELSE IF params.bind_wait_only THEN Exit(0)
     ELSE Then /\ Same

AddressOfLine ==
  /\ Step("prepare") /\ ifup # "wait" /\ Bind.addr # ""
  /\ IF Bind.addr = "bad" THEN GiveUp
     ELSE Listed([iface |-> IF ifup = "found" THEN Bind.iface ELSE "", kind |-> Bind.addr],
                 Bind.addr # "ip4", Bind.wait_ip)

Search == Bind.addr = "" /\ (Bind.iface # "" \/ Bind.ll # "unwanted")
AddressOfIface ==
  /\ Step("prepare") /\ ifup # "wait" /\ Search
  /\ LET found == FindListenAddr(Bind, WishAt(Bind, sec))
     IN  \/ \E a \in found : Listed(a, TRUE, Bind.wait_ip - sec)
         \/ found = {} /\ sec >= Bind.wait_ip /\ GiveUp
         \/ found = {} /\ sec < Bind.wait_ip /\ Sleep

AnyAddress ==
  /\ Step("prepare") /\ ifup # "wait" /\ Bind.addr = "" /\ ~Search
  /\ Listed([iface |-> "", kind |-> "any"], FALSE, Bind.wait_ip)

\* redir_init: /dev/pf where PF is used
Redirector ==
  /\ Step("redirector")
  /\ UNCHANGED searching
  /\ \/ Then /\ Same
     \/ params.proxy = "transparent" /\ params.pf_enable /\ Exit(1)

\* Linux and the BSDs bind a transparent socket to an address that is not there;
\* for the others it may appear a little later.  A link local address needs the
\* index of its interface.
Transparent == params.proxy = "transparent"
Here6(a) == a.kind = "any" \/ \E j \in DOMAIN Addresses :
                                Addresses[j].kind = a.kind /\ a.iface \in {"", Addresses[j].iface}
Listen ==
  /\ Step("listen")
  /\ LET a == list[Len(sockets) + 1]
         free == Here6(a) \/ (Transparent /\ On({"linux", "bsd"}))
     IN  \/ /\ free /\ (a.kind = "ll6" => a.iface # "")
            /\ sockets' = Append(sockets, a)
            /\ todo' = IF Len(sockets) + 1 < Len(list) THEN todo ELSE Tail(todo)
            /\ sec' = 0
            /\ UNCHANGED <<vars, process, status, asRoot, pidfile, hup, net, changes, ifup, list>>
         \/ ~free /\ ~Transparent /\ a.left # sec /\ Sleep
         \/ ~free /\ (Transparent \/ a.left = sec) /\ GiveUp
         \/ GiveUp   \* the port is taken, or an option is refused

\* The network changes while it matters to a bind.
NetChange ==
  /\ (Step("prepare") \/ Step("listen")) /\ changes < MaxChanges
  /\ \E i \in DOMAIN binds : binds[i] # NoBind
  /\ \E n \in Nets : n # net /\ net' = n
  /\ changes' = changes + 1
  /\ UNCHANGED <<vars, running, ifup, sec, list>>

TpwsStep == IfUp \/ AddressOfLine \/ AddressOfIface \/ AnyAddress \/ Redirector \/ Listen
=============================================================================
