--------------------------- MODULE ZapretControl ----------------------------
(***************************************************************************)
(* The macOS control plane, scripts/: the shell scripts behind the menu,   *)
(* launchd's jobs and the files they share.  A script is a sequence of     *)
(* commands, and any number of scripts run at once: the user's (menu or    *)
(* terminal), the network watch of every 15 s and the boot loader.  One    *)
(* step is one command that reads or writes something another script can   *)
(* see; todo[p] holds the commands process p has not run yet, vars[p] its  *)
(* shell variables.                                                        *)
(*                                                                         *)
(* The zapret-tpws job (KeepAlive) supervises tpws; the PF anchors send    *)
(* the traffic of everyone but root to it.  Hostlists, DNS servers and the *)
(* QUIC rule are left out: nothing here reads them back.  The legacy jobs  *)
(* (zapret, zapret-watchdog) are removed by the installer, so unloading    *)
(* them does nothing.                                                      *)
(***************************************************************************)
EXTENDS Naturals, Sequences

CONSTANTS
  User,       \* sessions that run zapret-ctl, one command at a time each
  Commands,   \* the zapret-ctl commands they use
  Net,        \* network identities (zapret-net-id.sh)
  Trials,     \* the strategies a probe tries, in order; the first is tr-default
  Direct,     \* how the probed sites answer in a network without tpws (see Grade)
  Through,    \* how they answer through tpws, per network and strategy
  Nothing     \* a file that does not exist

Strategy == {Trials[i] : i \in 1..Len(Trials)}
Default == Trials[1]
Mode == {"hostlist", "autohostlist", "none"}

\* 0: Discord and YouTube blocked, 1: GitHub alone blocked, 2: all reachable
Grade == 0..2

ASSUME UserAssumption == User \cap {"netwatch", "boot"} = {}
ASSUME CommandAssumption ==
  Commands \subseteq {"start", "stop", "restart", "lists", "net-probe", "net-apply"} \cup Mode
ASSUME TrialsAssumption == Trials \in Seq(Strategy) /\ Trials # <<>>
ASSUME NetAssumption ==
  /\ Direct \in [Net -> Grade]
  /\ Through \in [Net -> [Strategy -> Grade]]
  /\ Nothing \notin Net \cup Strategy

Process == User \cup {"netwatch", "boot"}

\* MODE_FILTER and TPWS_OPT of /opt/zapret/config
Config == [mode : Mode, strategy : Strategy]
NoConfig == [mode |-> "autohostlist", strategy |-> Default]

VARIABLES
  desired,   \* the file desired-state
  config,    \* /opt/zapret/config
  support,   \* MODE_FILTER of the copy in Application Support; its TPWS_OPT is the default
  profile,   \* strategy of profiles/<id>.json
  last,      \* the file last_network_id
  job,       \* launchd has zapret-tpws loaded
  tpws,      \* the process of that job
  runs,      \* the config it was started with
  pf,        \* the zapret anchors are loaded
  net,       \* the network the machine is in
  warp,      \* Cloudflare WARP is connected
  todo,      \* commands each process has still to run
  vars,      \* shell variables of each process
  raced      \* history: a script that turns on overlapped one that turns off

files == <<desired, config, support, profile, last>>
daemon == <<job, tpws, runs>>
world == <<net, warp>>
all == <<files, daemon, pf, world, todo, vars, raced>>

\* the command, NET_ID, the number of the trial, best, strat, and a config to be rewritten
Vars == [ cmd : Commands \cup {"watch"}, id : Net, trial : 0..Len(Trials),
          best : Strategy, strat : Strategy, seen : Config ]
NoVars == [ cmd |-> "watch", id |-> CHOOSE n \in Net : TRUE, trial |-> 0,
            best |-> Default, strat |-> Default, seen |-> NoConfig ]

-----------------------------------------------------------------------------
(* The scripts, by the commands they consist of.                           *)

ZapretStart == <<"desired-on", "start-fw", "kill", "bootout", "bootstrap", "boot-load">>
ZapretStop == <<"desired-off", "bootout", "stop-fw", "kill">>
\* (mutant) kills tpws and relies on KeepAlive, instead of loading the job anew
RestartKeepAlive_KillOnly == <<"stop-fw", "start-fw", "kill">>
\* (mutant) boots the job out and does not bootstrap it
RestartKeepAlive_Unloads == <<"stop-fw", "start-fw", "kill", "bootout">>
RestartKeepAlive == <<"stop-fw", "start-fw", "kill", "bootout", "bootstrap">>
StartScript == <<"sync">> \o ZapretStart
ApplyStrategy == <<"config-read", "config-write">>
SetModeScript ==
  <<"mode-read", "mode-write", "mode-mirror", "kill", "bootout", "bootstrap", "desired-on">>
    \o StartScript

Script(c) ==
  CASE c = "start" -> StartScript
    [] c = "stop" -> ZapretStop
    [] c = "restart" -> ZapretStop \o StartScript
    [] c = "lists" -> <<"sync">>
    [] c = "net-probe" -> <<"probe">>
    [] c = "net-apply" -> <<"apply">>
    [] OTHER -> SetModeScript

Step == { "desired-on", "desired-off", "start-fw", "stop-fw", "kill", "bootout", "bootstrap",
          "boot-load", "boot-check", "sync", "mode-read", "mode-write", "mode-mirror", "probe",
          "ensure", "trial", "judge", "config-read", "config-write", "write-profile", "apply",
          "save-net" }

Idle(p) == todo[p] = <<>>
Quiet == \A p \in Process : Idle(p)
At(p, step) == ~Idle(p) /\ Head(todo[p]) = step
Has(p, steps) == \E i \in 1..Len(todo[p]) : todo[p][i] \in steps

\* What the rest of a process's script will leave the switch at.
TurnsOn(p) == Has(p, {"desired-on", "start-fw", "bootstrap", "ensure", "trial", "judge"})
TurnsOff(p) == Has(p, {"desired-off", "bootout", "stop-fw"}) /\ ~TurnsOn(p)
Conflict == \E p, q \in Process : TurnsOn(p) /\ TurnsOff(q)
Race == raced' = (raced \/ Conflict')

Continue(p, steps, v) ==
  /\ todo' = [todo EXCEPT ![p] = steps]
  /\ vars' = [vars EXCEPT ![p] = IF steps = <<>> THEN NoVars ELSE v]
  /\ Race
Done(p) == Continue(p, Tail(todo[p]), vars[p])

-----------------------------------------------------------------------------
(* lib.sh and zapret-start.sh.                                             *)

Begin(p, c) ==
  /\ p \in User /\ Idle(p)
  /\ todo' = [todo EXCEPT ![p] = Script(c)]
  /\ vars' = [vars EXCEPT ![p] = [NoVars EXCEPT !.cmd = c, !.id = net]]
  /\ raced' = (Conflict' \/ (raced /\ ~(Quiet /\ TurnsOn(p)') /\ ~(Quiet /\ TurnsOff(p)')))
  /\ UNCHANGED <<files, daemon, pf, world>>

DesiredOn(p) ==
  /\ At(p, "desired-on")
  /\ desired' = "on"
  /\ Done(p)
  /\ UNCHANGED <<config, support, profile, last, daemon, pf, world>>

DesiredOff(p) ==
  /\ At(p, "desired-off")
  /\ desired' = "off"
  /\ Done(p)
  /\ UNCHANGED <<config, support, profile, last, daemon, pf, world>>

\* zapret_do_firewall
StartFw(p) ==
  /\ At(p, "start-fw")
  /\ pf' = TRUE
  /\ Done(p)
  /\ UNCHANGED <<files, daemon, world>>

StopFw(p) ==
  /\ At(p, "stop-fw")
  /\ pf' = FALSE
  /\ Done(p)
  /\ UNCHANGED <<files, daemon, world>>

Exited == tpws' = "down" /\ runs' = NoConfig

\* pkill -x tpws: the job's script is not called tpws before it executes it.
Kill(p) ==
  /\ At(p, "kill")
  /\ IF tpws = "up" THEN Exited ELSE UNCHANGED <<tpws, runs>>
  /\ Done(p)
  /\ UNCHANGED <<files, job, pf, world>>

Bootout(p) ==
  /\ At(p, "bootout")
  /\ job' = FALSE
  /\ Exited
  /\ Done(p)
  /\ UNCHANGED <<files, pf, world>>

\* Of a job that is loaded already it does nothing.
Bootstrap(p) ==
  /\ At(p, "bootstrap")
  /\ job' = TRUE
  /\ Done(p)
  /\ UNCHANGED <<files, tpws, runs, pf, world>>

\* A boot loader that is still running is ended, and the job loaded anew runs once more.
BootLoad(p) ==
  /\ At(p, "boot-load")
  /\ todo' = [todo EXCEPT ![p] = Tail(@), !["boot"] = <<"boot-check">>]
  /\ vars' = [vars EXCEPT ![p] = IF Len(todo[p]) = 1 THEN NoVars ELSE @]
  /\ Race
  /\ UNCHANGED <<files, daemon, pf, world>>

\* (mutant) leaves alone the job that launchd has loaded at boot
BootCheck_Skip ==
  /\ At("boot", "boot-check")
  /\ Continue("boot", IF desired = "on" THEN <<"start-fw", "kill", "bootout", "bootstrap">>
                      ELSE <<>>, NoVars)
  /\ UNCHANGED <<files, daemon, pf, world>>

\* zapret-boot.sh
BootCheck ==
  /\ At("boot", "boot-check")
  /\ Continue("boot", IF desired = "on" THEN <<"start-fw", "kill", "bootout", "bootstrap">>
                      ELSE <<"bootout">>, NoVars)
  /\ UNCHANGED <<files, daemon, pf, world>>

\* sync_config_to_opt: the copy knows nothing of the strategy applied for a network.
Sync(p) ==
  /\ At(p, "sync")
  /\ config' = [mode |-> support, strategy |-> Default]
  /\ Done(p)
  /\ UNCHANGED <<desired, support, profile, last, daemon, pf, world>>

-----------------------------------------------------------------------------
(* zapret-set-mode.sh: sed writes a copy of the config, mv puts it in place *)
(* and so takes it away.                                                   *)

ModeRead(p) ==
  /\ At(p, "mode-read")
  /\ Continue(p, Tail(todo[p]), [vars[p] EXCEPT !.seen = config])
  /\ UNCHANGED <<files, daemon, pf, world>>

ModeWrite(p) ==
  /\ At(p, "mode-write")
  /\ config' = [vars[p].seen EXCEPT !.mode = vars[p].cmd]
  /\ Continue(p, Tail(todo[p]), [vars[p] EXCEPT !.seen = NoConfig])
  /\ UNCHANGED <<desired, support, profile, last, daemon, pf, world>>

ModeMirror(p) ==
  /\ At(p, "mode-mirror")
  /\ support' = vars[p].cmd
  /\ Done(p)
  /\ UNCHANGED <<desired, config, profile, last, daemon, pf, world>>

-----------------------------------------------------------------------------
(* zapret-netwatch.sh, zapret-apply-profile.sh, zapret-probe-network.sh.   *)

MayIntervene == desired = "on" /\ ~warp

Netwatch ==
  /\ Idle("netwatch")
  /\ MayIntervene
  /\ net # last
  /\ Continue("netwatch", IF profile[net] = Nothing THEN <<"probe">> ELSE <<"apply">>,
              [NoVars EXCEPT !.id = net])
  /\ UNCHANGED <<files, daemon, pf, world>>

\* desired-state, WARP and the profile are read here, and not again before the job is loaded.
Apply(p) ==
  LET saved == profile[vars[p].id] IN
  /\ At(p, "apply")
  /\ IF MayIntervene /\ saved # Nothing
     THEN Continue(p, ApplyStrategy \o RestartKeepAlive \o <<"save-net">> \o Tail(todo[p]),
                   [vars[p] EXCEPT !.strat = saved])
     ELSE Done(p)
  /\ UNCHANGED <<files, daemon, pf, world>>

\* apply_strategy_file: awk reads the config, mv replaces it.
ConfigRead(p) ==
  /\ At(p, "config-read")
  /\ Continue(p, Tail(todo[p]), [vars[p] EXCEPT !.seen = config])
  /\ UNCHANGED <<files, daemon, pf, world>>

ConfigWrite(p) ==
  /\ At(p, "config-write")
  /\ config' = [vars[p].seen EXCEPT !.strategy = vars[p].strat]
  /\ Continue(p, Tail(todo[p]), [vars[p] EXCEPT !.seen = NoConfig])
  /\ UNCHANGED <<desired, support, profile, last, daemon, pf, world>>

\* (mutant) saves the network the machine is in now, not the one it has applied
SaveLastNet_Current(p) ==
  /\ At(p, "save-net")
  /\ last' = net
  /\ Done(p)
  /\ UNCHANGED <<desired, config, support, profile, daemon, pf, world>>

SaveLastNet(p) ==
  /\ At(p, "save-net")
  /\ last' = vars[p].id
  /\ Done(p)
  /\ UNCHANGED <<desired, config, support, profile, daemon, pf, world>>

Probe(p) ==
  /\ At(p, "probe")
  /\ IF MayIntervene
     THEN Continue(p, <<"ensure", "trial">> \o Tail(todo[p]),
                   [NoVars EXCEPT !.cmd = vars[p].cmd, !.id = net, !.trial = 1])
     ELSE Done(p)
  /\ UNCHANGED <<files, daemon, pf, world>>

\* "zapret-ctl start" when no tpws runs, and then the job is loaded once more
EnsureTpws(p) ==
  /\ At(p, "ensure")
  /\ IF tpws = "up" THEN Done(p)
     ELSE Continue(p, StartScript \o RestartKeepAlive \o Tail(todo[p]), vars[p])
  /\ UNCHANGED <<files, daemon, pf, world>>

Trial(p) ==
  /\ At(p, "trial")
  /\ Continue(p, ApplyStrategy \o RestartKeepAlive \o <<"judge">> \o Tail(todo[p]),
              [vars[p] EXCEPT !.strat = Trials[vars[p].trial]])
  /\ UNCHANGED <<files, daemon, pf, world>>

\* "pass out route-to (lo0 127.0.0.1) ... user { >root }"
Redirected(user) == pf /\ user # "root"

Answer(user) ==
  IF ~Redirected(user) THEN Direct[net]
  ELSE IF tpws = "up" THEN Through[net][runs.strategy] ELSE 0

\* The probe is run by launchd or through sudo, and so is its curl.
Judge(p) ==
  LET grade == Answer("root")
      best == IF grade = 0 THEN vars[p].best ELSE vars[p].strat
      more == grade # 2 /\ vars[p].trial < Len(Trials)
  IN /\ At(p, "judge")
     /\ Continue(p, (IF more THEN <<"trial">> ELSE <<"write-profile", "apply">>) \o Tail(todo[p]),
                 [vars[p] EXCEPT !.best = best, !.trial = IF more THEN @ + 1 ELSE @])
     /\ UNCHANGED <<files, daemon, pf, world>>

WriteProfile(p) ==
  /\ At(p, "write-profile")
  /\ profile' = [profile EXCEPT ![vars[p].id] = vars[p].best]
  /\ Done(p)
  /\ UNCHANGED <<desired, config, support, last, daemon, pf, world>>

-----------------------------------------------------------------------------
(* launchd, the machine and the network.                                   *)

\* zapret-tpws-run.sh reads the config ...
Spawn ==
  /\ job /\ tpws = "down"
  /\ tpws' = "starting"
  /\ runs' = config
  /\ UNCHANGED <<files, job, pf, world, todo, vars, raced>>

\* ... and becomes tpws.
Exec ==
  /\ tpws = "starting"
  /\ tpws' = "up"
  /\ UNCHANGED <<files, job, runs, pf, world, todo, vars, raced>>

Die ==
  /\ tpws = "up"
  /\ Exited
  /\ UNCHANGED <<files, job, pf, world, todo, vars, raced>>

\* Scripts end wherever they are; launchd loads every job of /Library/LaunchDaemons.
Reboot ==
  /\ todo' = [p \in Process |-> IF p = "boot" THEN <<"boot-check">> ELSE <<>>]
  /\ vars' = [p \in Process |-> NoVars]
  /\ raced' = FALSE
  /\ job' = TRUE
  /\ Exited
  /\ pf' = FALSE
  /\ UNCHANGED <<files, world>>

Roam ==
  /\ net' \in Net \ {net}
  /\ UNCHANGED <<files, daemon, pf, warp, todo, vars, raced>>

SwitchWarp ==
  /\ warp' = ~warp
  /\ UNCHANGED <<files, daemon, pf, net, todo, vars, raced>>

-----------------------------------------------------------------------------
(* The state system-install.sh leaves.                                     *)

Init ==
  /\ desired = "on"
  /\ config = NoConfig
  /\ support = "autohostlist"
  /\ profile = [n \in Net |-> Nothing]
  /\ last = Nothing
  /\ job = TRUE
  /\ tpws = "down"
  /\ runs = NoConfig
  /\ pf = TRUE
  /\ net \in Net
  /\ warp = FALSE
  /\ todo = [p \in Process |-> <<>>]
  /\ vars = [p \in Process |-> NoVars]
  /\ raced = FALSE

Execute(p) ==
  \/ DesiredOn(p) \/ DesiredOff(p)
  \/ StartFw(p) \/ StopFw(p)
  \/ Kill(p) \/ Bootout(p) \/ Bootstrap(p) \/ BootLoad(p)
  \/ Sync(p) \/ ModeRead(p) \/ ModeWrite(p) \/ ModeMirror(p)
  \/ Apply(p) \/ ConfigRead(p) \/ ConfigWrite(p) \/ SaveLastNet(p)
  \/ Probe(p) \/ EnsureTpws(p) \/ Trial(p) \/ Judge(p) \/ WriteProfile(p)

Next ==
  \/ \E p \in User, c \in Commands : Begin(p, c)
  \/ \E p \in Process : Execute(p)
  \/ BootCheck \/ Netwatch
  \/ Spawn \/ Exec \/ Die \/ Reboot
  \/ Roam \/ SwitchWarp

Spec == Init /\ [][Next]_all

\* Scripts run to their end, launchd starts what it supervises, and the network watch
\* is run again and again.
FairSpec ==
  /\ Spec
  /\ \A p \in Process : WF_all(Execute(p))
  /\ WF_all(BootCheck) /\ WF_all(Netwatch)
  /\ WF_all(Spawn) /\ WF_all(Exec)

-----------------------------------------------------------------------------
(* Properties.                                                             *)

TypeOK ==
  /\ desired \in {"on", "off"}
  /\ config \in Config /\ support \in Mode
  /\ profile \in [Net -> Strategy \cup {Nothing}]
  /\ last \in Net \cup {Nothing}
  /\ job \in BOOLEAN /\ tpws \in {"down", "starting", "up"} /\ runs \in Config
  /\ pf \in BOOLEAN
  /\ net \in Net /\ warp \in BOOLEAN
  /\ todo \in [Process -> Seq(Step)]
  /\ vars \in [Process -> Vars]
  /\ raced \in BOOLEAN

On == job /\ pf
Off == ~job /\ tpws = "down" /\ ~pf

\* Unless a script that turns Zapret on overlaps one that turns it off, the switch is where
\* desired-state says once every script has ended: supervised and redirected, or nothing left.
\* This must survive reboots in the middle of a script, the boot loader and the network watch.
SwitchHolds == Quiet /\ ~raced => IF desired = "on" THEN On ELSE Off

\* A tpws that runs when every script has ended has the config that is in place: each
\* script that writes the config loads the job anew after its last write, and scripts
\* that do so at the same time must not leave a daemon started in between.
\* The command that updates the lists is the exception: it may replace the config and only
\* tells tpws to read its lists again (zapret-update-lists.sh:10, 23).
RunsCurrentConfig == Quiet /\ tpws # "down" => runs = config

\* From some time on the user leaves Zapret on and alone, in one network without WARP.
Settled(n) ==
  /\ <>[][~Reboot]_all
  /\ <>[](desired = "on" /\ ~raced /\ net = n /\ ~warp /\ \A p \in User : Idle(p))

\* Left alone in a network, the machine gets a profile for it and applies it, whatever
\* was interrupted, skipped or applied late before.
NetworkIsProfiled ==
  \A n \in Net : Settled(n) => <>[](last = n /\ profile[n] # Nothing)

\* Left on, tpws is up again however often it dies.
Revives == \A n \in Net : Settled(n) => []<>(tpws = "up")

=============================================================================
