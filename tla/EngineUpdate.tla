---------------------------- MODULE EngineUpdate ----------------------------
(***************************************************************************)
(* Updating and rolling back the engine: zapret-update-engine.sh and       *)
(* zapret-rollback-engine.sh replace /opt/zapret under a running system,   *)
(* step by step.  A copy may fail, and under "set -e" the script then ends *)
(* where it is; the machine may go down between two steps.  Which part of  *)
(* the tree comes from which version, whether it can run, and how the      *)
(* switch is left is what matters here.  Next to the scripts run the jobs  *)
(* of launchd: tpws itself, the boot loader, the job zapret and the        *)
(* network watch, which act on a desired-state they have read before.  How *)
(* scripts race for the switch command by command is the subject of        *)
(* ZapretControl: here zapret_start, zapret_stop and a reload of the job   *)
(* are one step each, and the menu's commands come one after the other.    *)
(***************************************************************************)
EXTENDS Naturals, Sequences

CONSTANTS
  MaxVersion,  \* bound: versions upstream publishes after the installed one, 0
  MaxBackups,  \* bound: backups, hence updates
  None         \* no such file

ASSUME BoundAssumption == MaxVersion \in Nat /\ MaxBackups \in Nat
ASSUME NoneAssumption == None \notin Nat

Version == 0..MaxVersion

\* What lies in /opt/zapret or in a backup of it: scripts of a version (common, init.d,
\* ipset), executables of a version (binaries), local-tools, the config, the user's hostlist,
\* and in src the upstream working copy: its version, whether it has the directory binaries,
\* and what that holds.
File == Version \cup {None}
Source == [ code : File, built : BOOLEAN, bin : File ]
Tree == [ code : File, bin : File, tools : BOOLEAN, config : BOOLEAN, hosts : BOOLEAN,
          src : Source ]

NoSource == [ code |-> None, built |-> FALSE, bin |-> None ]

\* A copy that is cut short, with the scripts of local-tools or without.
CutCopy == [ code : {None}, bin : {None}, tools : BOOLEAN, config : {FALSE}, hosts : {FALSE},
             src : {NoSource} ]

VARIABLES
  opt,      \* /opt/zapret
  bak,      \* the directories /opt/zapret.bak.<time>, in the order of their names
  latest,   \* the one named in /opt/zapret.latest-backup, 0 if there is no such file
  squat,    \* the watch has made a directory that was just removed, into which a copy goes
  pc,       \* the next step of the running script, "idle" if none runs
  dir,      \* its BACKUP_DIR
  task,     \* the script that runs or ran last
  ended,    \* how it ended
  desired,  \* the file desired-state
  job,      \* launchd has zapret-tpws loaded
  tpws,     \* "down", started by the "job", or a "daemon" of its own
  pf,       \* the zapret anchors are loaded
  legacy,   \* /Library/LaunchDaemons/zapret.plist exists
  boot,     \* the jobs "zapret-boot" and "zapret" that launchd has started and that have not
            \* run yet; "boot-on" and "boot-off": the boot loader has read that and goes on
  watch,    \* the network watch has read "on" and works
  stale,    \* history: tpws was started from a tree that has been replaced since
  late,     \* history: the job was loaded since the last stop by one who had read "on" before
  blind     \* history: a rollback took a backup that no update had marked

trees == <<opt, bak, latest, squat>>
script == <<pc, dir, task, ended>>
switch == <<desired, job, tpws, pf, stale, late>>
system == <<legacy, boot, watch>>
vars == <<trees, script, switch, system, blind>>

\* zapret-tpws-run.sh needs the config, common/ and an executable.
Startable(t) == t.config /\ t.code # None /\ t.bin # None
Whole(t) == Startable(t) /\ t.tools /\ t.hosts

Goto(step) == pc' = step /\ UNCHANGED <<dir, task, ended>>
End(how) == pc' = "idle" /\ ended' = how /\ UNCHANGED <<dir, task>>

-----------------------------------------------------------------------------
(* lib.sh: zapret_stop and zapret_start.  Of a tree without init.d the one *)
(* leaves the firewall alone and the other does nothing at all.            *)

Killed == tpws' = "down" /\ stale' = FALSE

\* (mutant) kills tpws and leaves its job to launchd
ZapretStop_KeepJob ==
  /\ desired' = "off"
  /\ Killed
  /\ pf' = (pf /\ opt.code = None)
  /\ boot' = boot \ {"zapret"}
  /\ late' = FALSE
  /\ UNCHANGED job

ZapretStop ==
  /\ desired' = "off"
  /\ job' = FALSE
  /\ Killed
  /\ pf' = (pf /\ opt.code = None)
  /\ boot' = boot \ {"zapret"}
  /\ late' = FALSE

\* (mutant) relies on the job, whatever desired-state says
ZapretStart_Undesired ==
  /\ opt.code # None
  /\ job' = TRUE
  /\ Killed
  /\ pf' = TRUE
  /\ boot' = {"zapret-boot"}
  /\ UNCHANGED desired

\* (mutant) leaves a tpws that runs alone
ZapretStart_Leaves ==
  /\ opt.code # None
  /\ desired' = "on"
  /\ job' = TRUE
  /\ UNCHANGED <<tpws, stale>>
  /\ pf' = TRUE
  /\ boot' = {"zapret-boot"}

\* The job zapret and a boot loader under way are booted out, the boot loader runs again.
ZapretStart ==
  /\ opt.code # None
  /\ desired' = "on"
  /\ job' = TRUE
  /\ Killed
  /\ pf' = TRUE
  /\ boot' = {"zapret-boot"}

ZapretStartFails == opt.code = None /\ UNCHANGED <<desired, job, tpws, pf, stale, boot>>

\* What runs when the tree is changed was started from another one.
Outdates ==
  /\ stale' = (tpws # "down")
  /\ UNCHANGED <<desired, job, tpws, pf, late>>

-----------------------------------------------------------------------------
(* zapret-update-engine.sh.                                                *)

\* Without a working copy upstream is cloned; if that fails nothing else happens.
Clone ==
  IF opt.src.code # None THEN UNCHANGED opt
  ELSE \E v \in Version : opt' = [opt EXCEPT !.src = [NoSource EXCEPT !.code = v]]

Update ==
  /\ pc = "idle"
  /\ opt.tools
  /\ Len(bak) < MaxBackups
  /\ Clone
  /\ \E cut \in CutCopy : bak' = Append(bak, cut)
  /\ pc' = "copy" /\ dir' = Len(bak) + 1 /\ task' = "update" /\ ended' = "running"
  /\ UNCHANGED <<latest, squat, switch, system, blind>>

Copy ==
  /\ pc = "copy"
  /\ bak' = [bak EXCEPT ![dir] = opt]
  /\ Goto("mark")
  /\ UNCHANGED <<opt, latest, squat, switch, system, blind>>

MarkLatest ==
  /\ pc = "mark"
  /\ latest' = dir
  /\ Goto("pull")
  /\ UNCHANGED <<opt, bak, squat, switch, system, blind>>

\* The pipe into tee hides the status of git: whatever comes of it, make follows ...
Pull ==
  /\ pc = "pull"
  /\ \E v \in opt.src.code..MaxVersion : opt' = [opt EXCEPT !.src.code = v]
  /\ Goto("make")
  /\ UNCHANGED <<bak, latest, squat, switch, system, blind>>

\* ... and that of make, which first removes what was built before, if there is a make.
Make ==
  /\ pc = "make"
  /\ \/ opt' = [opt EXCEPT !.src.built = TRUE, !.src.bin = opt.src.code]
     \/ opt' = [opt EXCEPT !.src.built = TRUE, !.src.bin = None]
     \/ UNCHANGED opt
  /\ Goto("stop")
  /\ UNCHANGED <<bak, latest, squat, switch, system, blind>>

StopForUpdate ==
  /\ pc = "stop"
  /\ ZapretStop
  /\ Goto("remove-code")
  /\ UNCHANGED <<trees, legacy, watch, blind>>

\* With ipset goes the hostlist.
RemoveCode ==
  /\ pc = "remove-code"
  /\ opt' = [opt EXCEPT !.code = None, !.hosts = FALSE]
  /\ squat' = FALSE
  /\ Outdates
  /\ Goto("copy-code")
  /\ UNCHANGED <<bak, latest, system, blind>>

\* Where init.d is there again, cp makes init.d/init.d.
CopyCode ==
  /\ pc = "copy-code"
  /\ opt' = [opt EXCEPT !.code = IF squat THEN None ELSE opt.src.code]
  /\ Outdates
  /\ Goto(IF opt.src.built THEN "remove-bin" ELSE "restore")
  /\ UNCHANGED <<bak, latest, squat, system, blind>>

RemoveBin ==
  /\ pc = "remove-bin"
  /\ opt' = [opt EXCEPT !.bin = None]
  /\ Outdates
  /\ Goto("copy-bin")
  /\ UNCHANGED <<bak, latest, squat, system, blind>>

CopyBin ==
  /\ pc = "copy-bin"
  /\ opt' = [opt EXCEPT !.bin = opt.src.bin]
  /\ Outdates
  /\ Goto("restore")
  /\ UNCHANGED <<bak, latest, squat, system, blind>>

\* The hostlist comes from Application Support; the config never went away.
Restore ==
  /\ pc = "restore"
  /\ opt' = [opt EXCEPT !.hosts = TRUE]
  /\ legacy' = TRUE
  /\ Goto("start")
  /\ UNCHANGED <<bak, latest, squat, switch, boot, watch, blind>>

StartUpdated ==
  /\ pc = "start"
  /\ \/ ZapretStart /\ Goto("started")
     \/ ZapretStartFails /\ Goto("undo-stop")
  /\ UNCHANGED <<trees, legacy, watch, late, blind>>

IsRunning == tpws # "down"

\* (mutant) goes on when zapret_start has failed
CheckStarted_Ignored ==
  /\ pc = "started"
  /\ End("updated")
  /\ UNCHANGED <<trees, switch, system, blind>>

\* The end of zapret_start, after a second or three, by when the boot loader it has set off
\* and that waits half a second has run, and the self-test two seconds later.
CheckStarted ==
  /\ pc = "started"
  /\ IsRunning \/ boot = {}
  /\ Goto(IF IsRunning THEN "self-test" ELSE "undo-stop")
  /\ UNCHANGED <<trees, switch, system, blind>>

SelfTest ==
  /\ pc = "self-test"
  /\ IF IsRunning THEN End("updated") ELSE Goto("undo-stop")
  /\ UNCHANGED <<trees, switch, system, blind>>

-----------------------------------------------------------------------------
(* rollback_from_backup and zapret-rollback-engine.sh.                     *)

\* Without a mark it takes the newest by name.
Rollback ==
  /\ pc = "idle"
  /\ opt.tools
  /\ bak # <<>>
  /\ dir' = IF latest # 0 THEN latest ELSE Len(bak)
  /\ blind' = (blind \/ latest = 0)
  /\ pc' = "undo-stop" /\ task' = "rollback" /\ ended' = "running"
  /\ UNCHANGED <<trees, switch, system>>

StopForRollback ==
  /\ pc = "undo-stop"
  /\ ZapretStop
  /\ Goto("undo-remove")
  /\ UNCHANGED <<trees, legacy, watch, blind>>

\* /opt/zapret is removed, and its copy begun.
RemoveTree ==
  /\ pc = "undo-remove"
  /\ opt' \in CutCopy
  /\ squat' = FALSE
  /\ Outdates
  /\ Goto("undo-copy")
  /\ UNCHANGED <<bak, latest, system, blind>>

\* (mutant) moves the backup back
CopyTree_Move ==
  /\ pc = "undo-copy"
  /\ opt' = bak[dir]
  /\ bak' = [bak EXCEPT ![dir] = opt]
  /\ Outdates
  /\ Goto("undo-start")
  /\ UNCHANGED <<latest, squat, system, blind>>

\* Where /opt/zapret is there again, cp puts the backup into it under its own name.
CopyTree ==
  /\ pc = "undo-copy"
  /\ IF squat THEN opt' \in {cut \in CutCopy : ~cut.tools} ELSE opt' = bak[dir]
  /\ Outdates
  /\ Goto("undo-start")
  /\ UNCHANGED <<bak, latest, squat, system, blind>>

\* init.d/macos/zapret start: tpws as a daemon, and the firewall; nothing writes desired-state.
InitStart ==
  /\ pf' = (pf \/ opt.code # None)
  /\ tpws' \in IF tpws = "down" /\ Startable(opt) THEN {"daemon", "down"} ELSE {tpws}
  /\ UNCHANGED <<desired, job, stale, late>>

StartUndone ==
  /\ pc = "undo-start" /\ task = "update"
  /\ InitStart
  /\ legacy' = (legacy \/ opt.code # None)
  /\ End("undone")
  /\ UNCHANGED <<trees, boot, watch, blind>>

StartRestored ==
  /\ pc = "undo-start" /\ task = "rollback"
  /\ ZapretStart \/ ZapretStartFails
  /\ legacy' = TRUE
  /\ End("restored")
  /\ UNCHANGED <<trees, watch, late, blind>>

-----------------------------------------------------------------------------
(* The menu's switch, launchd and what goes wrong.                         *)

\* zapret-start.sh copies the config and the hostlist of Application Support first.
StartScript ==
  /\ opt.tools
  /\ opt' = [opt EXCEPT !.config = TRUE, !.hosts = TRUE]
  /\ ZapretStart \/ ZapretStartFails

UserStart ==
  /\ pc = "idle"
  /\ StartScript
  /\ End("none")
  /\ UNCHANGED <<bak, latest, squat, legacy, watch, late, blind>>

UserStop ==
  /\ pc = "idle"
  /\ opt.tools
  /\ ZapretStop
  /\ End("none")
  /\ UNCHANGED <<trees, legacy, watch, blind>>

Spawn ==
  /\ job /\ tpws = "down" /\ Startable(opt)
  /\ tpws' = "job"
  /\ UNCHANGED <<trees, script, desired, job, pf, stale, late, system, blind>>

\* Of a broken engine, at once; of any, some day.
Die ==
  /\ tpws # "down"
  /\ Killed
  /\ UNCHANGED <<trees, script, desired, job, pf, late, system, blind>>

Fail ==
  /\ pc \in {"copy", "copy-code", "copy-bin", "undo-copy"}
  /\ End("failed")
  /\ UNCHANGED <<trees, switch, system, blind>>

\* launchd loads every job of /Library/LaunchDaemons.
Reboot ==
  /\ End(IF pc = "idle" THEN ended ELSE "failed")
  /\ job' = TRUE /\ Killed /\ pf' = FALSE
  /\ boot' = {"zapret-boot"} \cup (IF legacy THEN {"zapret"} ELSE {})
  /\ watch' = FALSE
  /\ UNCHANGED <<trees, desired, late, legacy, blind>>

\* One who has read "on" loads the job, whatever desired-state says by then.
Reload ==
  /\ job' = TRUE
  /\ Killed
  /\ pf' = (pf \/ opt.code # None)
  /\ late' = (late \/ desired = "off")
  /\ UNCHANGED desired

\* zapret-boot.sh reads desired-state, prepares for half a second, and acts.
BootReads ==
  /\ "zapret-boot" \in boot
  /\ boot' = (boot \ {"zapret-boot"}) \cup {IF desired = "on" THEN "boot-on" ELSE "boot-off"}
  /\ UNCHANGED <<trees, script, switch, legacy, watch, blind>>

BootLoads ==
  /\ "boot-on" \in boot
  /\ boot' = boot \ {"boot-on"}
  /\ Reload
  /\ UNCHANGED <<trees, script, legacy, watch, blind>>

BootUnloads ==
  /\ "boot-off" \in boot
  /\ boot' = boot \ {"boot-off"}
  /\ job' = FALSE
  /\ tpws' = (IF tpws = "job" THEN "down" ELSE tpws) /\ stale' = (stale /\ tpws # "job")
  /\ UNCHANGED <<trees, script, desired, pf, late, legacy, watch, blind>>

LegacyBoot ==
  /\ "zapret" \in boot
  /\ boot' = boot \ {"zapret"}
  /\ InitStart
  /\ UNCHANGED <<trees, script, legacy, watch, blind>>

\* launchd runs the network watch every 15 seconds; zapret-apply-profile.sh and
\* zapret-probe-network.sh look at desired-state where they begin, and not again.
WatchReads ==
  /\ opt.tools /\ desired = "on" /\ ~watch
  /\ watch' = TRUE
  /\ UNCHANGED <<trees, script, switch, legacy, boot, blind>>

\* apply_quic: mkdir -p of init.d/macos/custom.d, with every directory above it.
WatchMakesDir ==
  /\ watch
  /\ pc \in {"copy-code", "undo-copy"}
  /\ squat' = TRUE
  /\ UNCHANGED <<opt, bak, latest, script, switch, system, blind>>

\* The probe has Zapret started when no tpws runs.
WatchStarts ==
  /\ watch /\ tpws = "down"
  /\ StartScript
  /\ late' = (late \/ desired = "off")
  /\ UNCHANGED <<bak, latest, squat, script, legacy, watch, blind>>

\* restart_tpws_keepalive: at the end of a profile, for each trial of a probe.
WatchReloads ==
  /\ watch
  /\ watch' \in BOOLEAN
  /\ Reload
  /\ UNCHANGED <<trees, script, legacy, boot, blind>>

-----------------------------------------------------------------------------
(* After system-install.sh from a package, which has no working copy.      *)

Init ==
  /\ opt = [ code |-> 0, bin |-> 0, tools |-> TRUE, config |-> TRUE, hosts |-> TRUE,
              src |-> NoSource ]
  /\ bak = <<>> /\ latest = 0 /\ squat = FALSE
  /\ pc = "idle" /\ dir = 0 /\ task = "update" /\ ended = "none"
  /\ desired = "on" /\ job = TRUE /\ tpws = "down" /\ pf = TRUE
  /\ legacy = FALSE /\ boot = {} /\ watch = FALSE
  /\ stale = FALSE /\ late = FALSE /\ blind = FALSE

UpdateEngine ==
  \/ Update \/ Copy \/ MarkLatest \/ Pull \/ Make \/ StopForUpdate
  \/ RemoveCode \/ CopyCode \/ RemoveBin \/ CopyBin \/ Restore
  \/ StartUpdated \/ CheckStarted \/ SelfTest

RollbackEngine ==
  \/ Rollback \/ StopForRollback \/ RemoveTree \/ CopyTree \/ StartUndone \/ StartRestored

Boot == BootReads \/ BootLoads \/ BootUnloads \/ LegacyBoot
Watch == WatchReads \/ WatchMakesDir \/ WatchStarts \/ WatchReloads

Next ==
  \/ UpdateEngine \/ RollbackEngine
  \/ UserStart \/ UserStop
  \/ Spawn \/ Die \/ Fail \/ Reboot
  \/ Boot \/ Watch

Spec == Init /\ [][Next]_vars

-----------------------------------------------------------------------------
(* Properties.                                                             *)

Step == { "idle", "copy", "mark", "pull", "make", "stop", "remove-code", "copy-code",
          "remove-bin", "copy-bin", "restore", "start", "started", "self-test",
          "undo-stop", "undo-remove", "undo-copy", "undo-start" }

Updating ==
  pc \in {"copy", "mark", "pull", "make", "stop", "remove-code", "copy-code"}

\* Every variable has its type, BACKUP_DIR and the mark name directories that exist, and an
\* update has a working copy, also after a rollback to a tree that has none.
TypeOK ==
  /\ opt \in Tree /\ bak \in Seq(Tree) /\ Len(bak) <= MaxBackups
  /\ latest \in 0..Len(bak) /\ (Updating => opt.src.code \in Version)
  /\ pc \in Step /\ dir \in 0..Len(bak) /\ (pc # "idle" => dir # 0)
  /\ task \in {"update", "rollback"}
  /\ ended \in {"none", "running", "failed", "updated", "undone", "restored"}
  /\ desired \in {"on", "off"} /\ job \in BOOLEAN /\ pf \in BOOLEAN
  /\ tpws \in {"down", "job", "daemon"}
  /\ legacy \in BOOLEAN /\ boot \subseteq {"zapret-boot", "zapret", "boot-on", "boot-off"}
  /\ {squat, watch, stale, late, blind} \subseteq BOOLEAN

\* Wherever updates and rollbacks are cut short, and however often, a whole engine is left
\* somewhere, in place or in a backup.  Not so once a rollback has found no mark: the newest
\* directory it then takes may be a backup cut short, and the engine in place is removed.
NothingLost ==
  blind \/ Whole(opt) \/ \E i \in 1..Len(bak) : Whole(bak[i])

\* An update that began with a whole engine and ended, well or with its rollback, leaves a
\* whole engine, though it does not see that git or make has failed: the engine that make
\* has not built does not start.  Not so where the network watch has made /opt/zapret again
\* just after a rollback had removed it: then the backup lies in it under its own name.
EndsWhole ==
  /\ pc = "idle" /\ ended \in {"updated", "undone", "restored"}
  /\ Whole(bak[dir]) /\ ~squat
  => Whole(opt)

Replacing ==
  pc \in { "remove-code", "copy-code", "remove-bin", "copy-bin", "restore",
           "undo-remove", "undo-copy" }

\* No tpws runs from a tree that is being replaced and nothing would start one, unless a
\* job of launchd that had read "on" before the stop has loaded zapret-tpws again since ...
OffWhileReplaced ==
  Replacing /\ ~late => desired = "off" /\ ~job /\ tpws = "down"

\* ... and whatever such a job has started then does not stay: the engine that the self-test
\* finds running, and the one that an update or a rollback by hand leaves running, was
\* started from the tree that is in place.
RunsWhatIsThere ==
  \/ pc \in {"started", "self-test"}
  \/ pc = "idle" /\ ended \in {"updated", "restored"} /\ opt.code # None
  => ~stale

\* lib.sh:148 ("Unload KeepAlive FIRST so it cannot revive") and lib.sh:109 ("Kill daemonized
\* leftovers so only KeepAlive instance runs"), for the updates and rollbacks between them.
OldEngineEnds == OffWhileReplaced /\ RunsWhatIsThere

\* After an update that succeeded Zapret is on, its job loaded and traffic redirected, and so
\* it is again whenever the machine has restarted.
UpdatedIsOn ==
  pc = "idle" /\ ended = "updated" /\ boot = {} => desired = "on" /\ job /\ pf

=============================================================================
