----------------------------- MODULE SelfUpdate -----------------------------
(***************************************************************************)
(* How ZapretMenu replaces itself: zapret-check-update.sh, the package     *)
(* download of zapret-self-update.sh, and system-install.sh, which that    *)
(* and the installer on the disk image run.  The installer takes the       *)
(* user's hostlist, stops everything, moves /opt/zapret to a backup and    *)
(* keeps two of those, copies the new engine and the scripts, starts again *)
(* and writes the version.  It is one sequence of commands that may fail   *)
(* or be cut short after any of them, and the machine may restart.         *)
(*                                                                         *)
(* One installer runs at a time.  A tree is what the properties tell apart *)
(* of a copy of /opt/zapret.  Engine updates, which change a tree in place *)
(* and add backups of their own, are EngineUpdate's; the network profile   *)
(* and the DNS servers that the installer sets at its end are left out.    *)
(***************************************************************************)
EXTENDS Integers, Sequences, FiniteSets, SequencesExt

CONSTANTS
  Version,      \* versions that are released, each a sequence of up to three numbers
  MaxInstalls,  \* bound: installers that are started
  MaxEdits      \* bound: changes of the user to the hostlist

ASSUME VersionAssumption == Version \subseteq Seq(Nat) /\ Version # {}
ASSUME BoundAssumption == MaxInstalls \in Nat /\ MaxEdits \in Nat

VARIABLES
  latest,    \* the release GitHub shows as the latest
  version,   \* Application Support/Zapret/version
  opt,       \* the tree at /opt/zapret, or Gone
  baks,      \* /opt/zapret.bak.*, the newest by modification time first
  list,      \* the user's hostlist in Application Support; its edits are numbered
  desired, job, fw,   \* desired-state, the KeepAlive job, the PF rules
  pc,        \* what the installer does next
  task,      \* who runs it, and what it installs
  saved,     \* its copy of the hostlist
  installs,  \* installers started so far
  edits,     \* edits of the hostlist so far
  torn,      \* installers cut short while Zapret was down, since the last that came to its end
  denied,    \* version names a release whose installation has failed, as self-update reports
  clobbered  \* the user's list was cut off, or changed while the installer held a copy of it

tree == <<opt, baks>>
switch == <<desired, job, fw>>
lists == <<list, saved, edits, clobbered>>
history == <<torn, denied>>
vars == <<latest, version, tree, lists, switch, pc, task, installs, history>>

Gone == [n |-> 0, ver |-> CHOOSE v \in Version : TRUE, whole |-> FALSE, tools |-> FALSE, dated |-> FALSE, hosts |-> 0]
Cut == -1      \* a list that was opened for writing and not written
Default == 0   \* the list of the package

\* n, ver: the installer that made it and its version; whole: the engine is complete; tools: so are the scripts;
\* dated: its modification time is the package's, as rsync -a leaves it; hosts: its hostlist
Tree == [n : 0 .. MaxInstalls + 1, ver : Version, whole : BOOLEAN, tools : BOOLEAN, dated : BOOLEAN,
         hosts : -1 .. MaxEdits]

Pc == {"idle", "fetch", "save", "bootout", "stop", "move", "mkdir", "copy", "check", "config",
       "hosts", "list", "tools", "desired", "sudoers", "fw", "job", "version", "record", "report"}

\* ok: the payload is complete; bak: the tree it moved away; failed: it has ended with an error
Task == [by : {"self", "dmg"}, ver : Version, ok : BOOLEAN, bak : 0 .. MaxInstalls + 1,
         failed : BOOLEAN]

TypeOK ==
  /\ latest \in Version /\ version \in Version
  /\ opt \in Tree /\ baks \in Seq(Tree) /\ Len(baks) <= 2
  /\ list \in -1 .. MaxEdits /\ saved \in -1 .. MaxEdits
  /\ desired \in {"on", "off"} /\ job \in BOOLEAN /\ fw \in BOOLEAN
  /\ pc \in Pc /\ task \in Task
  /\ installs \in 0 .. MaxInstalls /\ edits \in 0 .. MaxEdits
  /\ torn \in 0 .. MaxInstalls /\ denied \in BOOLEAN /\ clobbered \in BOOLEAN

-----------------------------------------------------------------------------
(* zapret-check-update.sh: versions are compared by their first three parts. *)

Part(v, k) == IF k <= Len(v) THEN v[k] ELSE 0

VerLt(a, b) ==
  \E k \in 1 .. 3 :
    /\ Part(a, k) < Part(b, k)
    /\ \A m \in 1 .. k - 1 : Part(a, m) = Part(b, m)

UpdateAvailable(local, remote) == local # remote /\ VerLt(local, remote)

-----------------------------------------------------------------------------

Complete(t) == t.whole /\ t.tools

Init ==
  /\ \E v \in Version : 
       /\ version = v /\ latest = v
       /\ opt = [n |-> 1, ver |-> v, whole |-> TRUE, tools |-> TRUE, dated |-> FALSE,
                 hosts |-> Default]
  /\ baks = <<>>
  /\ list = Default /\ saved = Default
  /\ desired = "on" /\ job = TRUE /\ fw = TRUE
  /\ pc = "idle"
  /\ task = [by |-> "dmg", ver |-> version, ok |-> TRUE, bak |-> 0, failed |-> FALSE]
  /\ installs = 0 /\ edits = 0
  /\ torn = 0 /\ denied = FALSE /\ clobbered = FALSE

Goto(from, to) == pc = from /\ pc' = to /\ UNCHANGED <<latest, task, installs>>

\* zapret-ctl finds the scripts in local-tools only.
CheckUpdate ==
  /\ pc = "idle" /\ opt.tools
  /\ installs < MaxInstalls
  /\ UpdateAvailable(version, latest)
  /\ pc' = "fetch"
  /\ UNCHANGED <<latest, version, tree, lists, switch, task, installs, history>>

\* (mutant) the version is written as soon as the installer has been started
Fetch_Records ==
  /\ pc = "fetch"
  /\ \/ pc' = "idle" /\ UNCHANGED <<task, installs, version>>
     \/ /\ pc' = "save"
        /\ installs' = installs + 1
        /\ version' = latest
        /\ \E ok \in BOOLEAN :
             task' = [by |-> "self", ver |-> latest, ok |-> ok, bak |-> 0, failed |-> FALSE]
  /\ UNCHANGED <<latest, tree, lists, switch, history>>

\* The release is asked for a second time; what is downloaded has the checksum released with it.
Fetch ==
  /\ pc = "fetch"
  /\ \/ pc' = "idle" /\ UNCHANGED <<task, installs>>
     \/ /\ pc' = "save"
        /\ installs' = installs + 1
        /\ \E ok \in BOOLEAN :
             task' = [by |-> "self", ver |-> latest, ok |-> ok, bak |-> 0, failed |-> FALSE]
  /\ UNCHANGED <<latest, version, tree, lists, switch, history>>

\* The user runs the installer of a disk image, of any release.
RunInstaller ==
  /\ pc = "idle"
  /\ installs < MaxInstalls
  /\ installs' = installs + 1
  /\ pc' = "save"
  /\ \E v \in Version, ok \in BOOLEAN :
       task' = [by |-> "dmg", ver |-> v, ok |-> ok, bak |-> 0, failed |-> FALSE]
  /\ UNCHANGED <<latest, version, tree, lists, switch, history>>

-----------------------------------------------------------------------------
(* system-install.sh.                                                      *)

\* (mutant) the list is taken from /opt/zapret
SaveList_FromTree ==
  /\ Goto("save", "bootout")
  /\ saved' = opt.hosts
  /\ UNCHANGED <<version, tree, list, edits, clobbered, switch, history>>

SaveList ==
  /\ Goto("save", "bootout")
  /\ saved' = list
  /\ UNCHANGED <<version, tree, list, edits, clobbered, switch, history>>

BootoutJobs ==
  /\ Goto("bootout", "stop")
  /\ job' = FALSE
  /\ UNCHANGED <<version, tree, lists, desired, fw, history>>

\* (mutant) the PF rules stay in force
StopOld_KeepsFw ==
  /\ Goto("stop", "move")
  /\ desired' = IF opt.tools THEN "off" ELSE desired
  /\ UNCHANGED <<version, tree, lists, job, fw, history>>

\* The old tree's own scripts, if it has them; zapret-stop.sh writes off.
StopOld ==
  /\ Goto("stop", "move")
  /\ fw' = (fw /\ ~opt.whole)
  /\ desired' = IF opt.tools THEN "off" ELSE desired
  /\ UNCHANGED <<version, tree, lists, job, history>>

\* (mutant) only the newest backup is kept
Pruned_One(bs) == IF Len(bs) > 1 THEN SubSeq(bs, 1, 1) ELSE bs

\* ls -1dt | tail -n +3
Pruned(bs) == IF Len(bs) > 2 THEN SubSeq(bs, 1, 2) ELSE bs

\* A tree with the date of its package may be older than any backup.
MoveAway ==
  /\ pc = "move" /\ pc' = "mkdir"
  /\ IF opt = Gone
     THEN UNCHANGED baks
     ELSE \E k \in 1 .. IF opt.dated THEN Len(baks) + 1 ELSE 1 :
            baks' = Pruned(InsertAt(baks, k, opt))
  /\ opt' = Gone
  /\ task' = [task EXCEPT !.bak = opt.n]
  /\ UNCHANGED <<latest, version, lists, switch, installs, history>>

MakeTree ==
  /\ Goto("mkdir", "copy")
  /\ opt' = [Gone EXCEPT !.n = installs + 1, !.ver = task.ver]
  /\ UNCHANGED <<version, baks, lists, switch, history>>

CopyEngine ==
  /\ Goto("copy", "check")
  /\ opt' = [opt EXCEPT !.whole = task.ok, !.dated = TRUE]
  /\ UNCHANGED <<version, baks, lists, switch, history>>

\* The installer ends with an error; self-update goes on after it.
Fails ==
  /\ pc' = IF task.by = "self" THEN "record" ELSE "idle"
  /\ task' = [task EXCEPT !.failed = TRUE]

\* (mutant) the incomplete engine stays, and the backup with it
CheckEngine_NoRestore ==
  /\ pc = "check"
  /\ IF opt.whole
     THEN pc' = "config" /\ UNCHANGED task
     ELSE Fails
  /\ UNCHANGED <<tree, latest, version, lists, switch, installs, history>>

\* Without init.d the tree that was moved away comes back, if it was not pruned at once.
CheckEngine ==
  /\ pc = "check"
  /\ IF opt.whole
     THEN pc' = "config" /\ UNCHANGED <<tree, task>>
     ELSE /\ Fails
          /\ IF \E k \in DOMAIN baks : baks[k].n = task.bak
             THEN \E k \in DOMAIN baks :
                    /\ baks[k].n = task.bak
                    /\ opt' = baks[k] /\ baks' = RemoveAt(baks, k)
             ELSE UNCHANGED tree
  /\ UNCHANGED <<latest, version, lists, switch, installs, history>>

CopyConfig ==
  /\ Goto("config", "hosts")
  /\ opt' = [opt EXCEPT !.dated = FALSE]
  /\ UNCHANGED <<version, baks, lists, switch, history>>

\* The list is copied to the tree, and then back to where it came from: opened ...
CopyHosts ==
  /\ Goto("hosts", "list")
  /\ opt' = [opt EXCEPT !.hosts = saved]
  /\ list' = Cut
  /\ UNCHANGED <<version, baks, saved, edits, clobbered, switch, history>>

\* ... and written.
WriteList ==
  /\ Goto("list", "tools")
  /\ list' = saved
  /\ UNCHANGED <<version, tree, saved, edits, clobbered, switch, history>>

CopyTools ==
  /\ Goto("tools", "desired")
  /\ opt' = [opt EXCEPT !.tools = TRUE]
  /\ UNCHANGED <<version, baks, lists, switch, history>>

\* Whatever the user had chosen.
DesiredOn ==
  /\ Goto("desired", "sudoers")
  /\ desired' = "on"
  /\ UNCHANGED <<version, tree, lists, job, fw, history>>

Sudoers ==
  /\ Goto("sudoers", "fw")
  /\ UNCHANGED <<version, tree, lists, switch, history>>

StartFw ==
  /\ Goto("fw", "job")
  /\ desired' = "on" /\ fw' = TRUE
  /\ UNCHANGED <<version, tree, lists, job, history>>

LoadJob ==
  /\ Goto("job", "version")
  /\ job' = TRUE
  /\ UNCHANGED <<version, tree, lists, desired, fw, history>>

WriteVersion ==
  /\ Goto("version", IF task.by = "self" THEN "record" ELSE "idle")
  /\ version' = task.ver
  /\ torn' = 0 /\ denied' = FALSE
  /\ UNCHANGED <<tree, lists, switch>>

-----------------------------------------------------------------------------
(* zapret-self-update.sh once the installer has ended.                     *)

\* "Ensure version file": before the installer's status is looked at
Record ==
  /\ Goto("record", "report")
  /\ version' = task.ver
  /\ denied' = task.failed
  /\ UNCHANGED <<tree, lists, switch, torn>>

\* A new version that does not run yet is started.
Report ==
  /\ Goto("report", "idle")
  /\ \/ UNCHANGED switch
     \/ /\ ~task.failed
        /\ desired' = "on" /\ fw' = TRUE /\ job' = TRUE
  /\ UNCHANGED <<version, tree, lists, history>>

-----------------------------------------------------------------------------
(* What goes wrong, and what others do.                                    *)

\* What is left half done.
LeftBehind ==
  /\ torn' = IF pc \in {"save", "bootout", "record", "report"} THEN torn ELSE torn + 1
  /\ clobbered' = (clobbered \/ list = Cut)
  /\ UNCHANGED <<latest, version, tree, list, saved, edits, switch, installs, denied>>

\* A power cut, a shutdown, a killed installer: nothing after this command is run.
CutShort ==
  /\ pc \notin {"idle", "fetch"}
  /\ pc' = "idle" /\ UNCHANGED task
  /\ LeftBehind

\* The disk is full, or visudo refuses the rule: the installer ends, but not self-update.
CommandFails ==
  /\ pc \in {"save", "move", "mkdir", "copy", "config", "hosts", "list", "tools", "desired", "sudoers"}
  /\ Fails
  /\ LeftBehind

\* launchd loads the job, and the boot loader of a tree that has one puts it right.
Reboot ==
  /\ pc = "idle"
  /\ job' = (desired = "on" \/ ~opt.tools)
  /\ fw' = (desired = "on" /\ Complete(opt))
  /\ UNCHANGED <<latest, version, tree, lists, desired, pc, task, installs, history>>

UserSwitch(to) ==
  /\ pc = "idle" /\ Complete(opt)
  /\ desired' = to /\ job' = (to = "on") /\ fw' = (to = "on")
  /\ opt' = [opt EXCEPT !.hosts = IF to = "on" THEN list ELSE @]    \* sync_hostlist_to_opt
  /\ UNCHANGED <<latest, version, baks, lists, pc, task, installs, history>>

\* An editor writes the whole list.
EditList ==
  /\ edits < MaxEdits
  /\ edits' = edits + 1 /\ list' = edits + 1
  /\ clobbered' = (pc \in {"bootout", "stop", "move", "mkdir", "copy", "check", "config", "hosts", "list"})
  /\ UNCHANGED <<latest, version, tree, saved, switch, pc, task, installs, history>>

Publish ==
  /\ \E v \in Version : UpdateAvailable(latest, v) /\ latest' = v
  /\ UNCHANGED <<version, tree, lists, switch, pc, task, installs, history>>

Installer ==
  \/ SaveList \/ BootoutJobs \/ StopOld \/ MoveAway \/ MakeTree \/ CopyEngine \/ CheckEngine
  \/ CopyConfig \/ CopyHosts \/ WriteList \/ CopyTools \/ DesiredOn \/ Sudoers
  \/ StartFw \/ LoadJob \/ WriteVersion

Next ==
  \/ CheckUpdate \/ Fetch \/ RunInstaller \/ Installer \/ Record \/ Report
  \/ CutShort \/ CommandFails \/ Reboot \/ EditList \/ Publish
  \/ \E to \in {"on", "off"} : UserSwitch(to)

Spec == Init /\ [][Next]_vars

-----------------------------------------------------------------------------
(* Properties.                                                             *)

AtRest == pc \in {"idle", "fetch"}

\* One installer cut short, wherever that was, never costs the user the last complete
\* engine with its scripts: it stays in place or among the two backups that the next
\* installers keep, in the order of their dates.
WholeKept == torn < 2 => \E t \in {opt} \cup ToSet(baks) : Complete(t)

\* Unless an installer was cut short, what it leaves can run, an incomplete package having
\* been replaced by what was there before; and the version that update checks go by is
\* the one of that engine, unless its installation failed and self-update wrote it down.
LeavesWhole == AtRest /\ torn = 0 => Complete(opt) /\ (opt.ver = version \/ denied)

\* Unless an installer was cut short, the PF rules are never left in force without the job
\* that answers the connections they divert.
NotCutOff == AtRest /\ torn = 0 => (fw => job)

\* Nothing but the interruption of the very write, or an edit made while the installer
\* holds its copy, ever loses the user's last edit of the hostlist.
ListKept == pc # "list" /\ ~clobbered => list = edits

=============================================================================
