------------------------------ MODULE Menubar ------------------------------
(***************************************************************************)
(* The menu bar application, menubar/main.swift.  A menu item starts a     *)
(* zapret-ctl command on a background queue and sets isBusy until its      *)
(* result has come back; timers read the status every 30 s and look for a  *)
(* release every day, whether the application is busy or not.  A           *)
(* background job reads what it reports step by step and posts the result  *)
(* to the main queue, where results are applied in the order in which the  *)
(* jobs have ended.                                                        *)
(*                                                                         *)
(* The rest of the machine is the switch and the two versions: each        *)
(* command changes them in one step, which ZapretControl and SelfUpdate    *)
(* take apart.  A question asked before a command is part of the click.    *)
(* AppKit enables the items itself, so isEnabled is left out: what holds a *)
(* click back is isBusy.  The network line of the menu is left out too.    *)
(***************************************************************************)
EXTENDS Naturals, Sequences, SequencesExt

CONSTANTS
  MaxVersion,  \* bound: releases
  MaxLaunch,   \* bound: launches of the application
  MaxFlips,    \* bound: changes of the switch by others
  Room         \* bound: background jobs under way, until their results are applied

ASSUME BoundAssumption ==
  MaxVersion \in Nat \ {0} /\ MaxLaunch \in Nat \ {0} /\ MaxFlips \in Nat /\ Room \in Nat \ {0}

VARIABLES
  on,        \* whether Zapret is on
  version,   \* the version file
  latest,    \* the latest release
  online,    \* GitHub answers
  flips, launches,
  running,   \* the application runs
  busy,      \* isBusy
  title,     \* statusMenuItem: what it says of the switch, and of an update
  offer,     \* updateAvailable; None if nil
  alert,     \* the alert that the block on the main queue has opened
  jobs,      \* what the background queues run, or have run
  queue      \* blocks of the main queue: the jobs whose results they apply

world == <<on, version, latest, online>>
bounds == <<flips, launches>>
menu == <<busy, title, offer, alert>>
vars == <<world, bounds, running, menu, jobs, queue>>

None == 0
Failed == MaxVersion + 1    \* the check had no answer

\* ctl is what runCtl and fixDns run: it may turn Zapret on, off or neither.
Command == {"ctl", "diag", "update"}

Slot == 1 .. Room

\* user: a menu item has asked for it; local: the version that was read; seen: what is reported
NoJob == [task |-> "none", user |-> FALSE, mine |-> FALSE, local |-> None, seen |-> None]
Job(task, user) == [NoJob EXCEPT !.task = task, !.user = user, !.mine = TRUE]

NoAlert == None
Plain == Room + 1   \* an alert that ends its block; in a slot's number, a refresh follows it

On == 1
Off == 2

-----------------------------------------------------------------------------

Init ==
  /\ on \in BOOLEAN /\ version = 1 /\ latest = 1 /\ online \in BOOLEAN
  /\ flips = 0 /\ launches = 1 /\ running = TRUE
  /\ busy = FALSE /\ title = [state |-> "none", offer |-> None] /\ offer = None /\ alert = NoAlert
  /\ jobs = [s \in Slot |-> IF s = 1 THEN Job("status", FALSE) ELSE NoJob]
  /\ queue = <<>>

Starts(job) ==
  \E s \in Slot :
    /\ jobs[s] = NoJob /\ \A t \in 1 .. s - 1 : jobs[t] # NoJob
    /\ jobs' = [jobs EXCEPT ![s] = job]

\* The main queue and the timers wait while an alert of the main queue is open.
Free == running /\ alert = NoAlert

Click(cmd) ==
  /\ Free /\ ~busy
  /\ busy' = TRUE /\ title' = [title EXCEPT !.state = "busy"]
  /\ Starts(Job(cmd, TRUE))
  /\ UNCHANGED <<world, bounds, running, offer, alert, queue>>

CheckUpdate ==
  /\ Free /\ ~busy
  /\ busy' = TRUE /\ title' = [title EXCEPT !.state = "busy"]
  /\ Starts(Job("check", TRUE))
  /\ UNCHANGED <<world, bounds, running, offer, alert, queue>>

\* Every 30 s, and the item of the menu.
RefreshStatus ==
  /\ Free
  /\ Starts(Job("status", FALSE))
  /\ UNCHANGED <<world, bounds, running, menu, queue>>

\* 8 s after the launch, and every day.
BackgroundCheckUpdate ==
  /\ Free
  /\ Starts(Job("check", FALSE))
  /\ UNCHANGED <<world, bounds, running, menu, queue>>

-----------------------------------------------------------------------------
(* A background job.                                                       *)

Posted(s) == IF jobs[s].mine THEN Append(queue, s) ELSE queue

Running(s, task) == jobs[s].task = task /\ s \notin ToSet(queue) /\ alert # s

\* The result comes to the main queue; nobody waits for that of a closed application.
Post(s) ==
  /\ jobs' = IF jobs[s].mine THEN jobs ELSE [jobs EXCEPT ![s] = NoJob]
  /\ queue' = Posted(s)
  /\ UNCHANGED <<world, bounds, running, menu>>

\* zapret-ctl status; net-status runs before the answer is posted.
ReadStatus(s) ==
  /\ Running(s, "status") /\ jobs[s].seen = None
  /\ jobs' = [jobs EXCEPT ![s].seen = IF on THEN On ELSE Off]
  /\ UNCHANGED <<world, bounds, running, menu, queue>>

PostStatus(s) == Running(s, "status") /\ jobs[s].seen # None /\ Post(s)

\* zapret-ctl check-update reads the version file ...
ReadVersion(s) ==
  /\ Running(s, "check") /\ jobs[s].local = None
  /\ jobs' = [jobs EXCEPT ![s].local = version]
  /\ UNCHANGED <<world, bounds, running, menu, queue>>

\* ... and then asks GitHub, for up to 20 s.
AskLatest(s) ==
  /\ Running(s, "check") /\ jobs[s].local # None
  /\ jobs' = [jobs EXCEPT ![s].seen =
                IF ~online THEN Failed ELSE IF jobs[s].local < latest THEN latest ELSE None]
  /\ queue' = Posted(s)
  /\ UNCHANGED <<world, bounds, running, menu>>

\* A command that fails may have come some way.
RunCommand(s) ==
  /\ jobs[s].seen = None
  /\ \E ok \in BOOLEAN, task \in Command :
       /\ Running(s, task)
       /\ jobs' = [jobs EXCEPT ![s].seen = IF ok THEN On ELSE Off]
       /\ on' \in IF task = "diag" THEN {on} ELSE BOOLEAN
       /\ version' \in IF task # "update" THEN {version}
                       ELSE IF ok THEN {latest} ELSE {version, latest}
  /\ UNCHANGED <<latest, online, bounds, running, menu, queue>>

PostCommand(s) ==
  /\ \E task \in Command : Running(s, task)
  /\ jobs[s].seen # None
  /\ Post(s)

-----------------------------------------------------------------------------
(* The main queue.                                                         *)

Takes(s, task) ==
  /\ Free /\ queue # <<>> /\ s = Head(queue) /\ jobs[s].task = task
  /\ queue' = Tail(queue)
  /\ UNCHANGED <<world, bounds, running>>

Ends(s) == jobs' = [jobs EXCEPT ![s] = NoJob]
Refreshes(s) == jobs' = [jobs EXCEPT ![s] = Job("status", FALSE)]

ApplyStatus(s) ==
  /\ Takes(s, "status")
  /\ title' = [state |-> IF jobs[s].seen = On THEN "on" ELSE "off", offer |-> offer]
  /\ Ends(s)
  /\ UNCHANGED <<busy, offer, alert>>

\* (mutant) only a newer release changes the offer
HandleCheckUpdateResult_Keeps(s) ==
  /\ Takes(s, "check")
  /\ offer' = IF jobs[s].seen \in {Failed, None} THEN offer ELSE jobs[s].seen
  /\ busy' = (busy /\ ~jobs[s].user)
  /\ IF jobs[s].user THEN alert' = s /\ UNCHANGED jobs ELSE Ends(s) /\ UNCHANGED alert
  /\ UNCHANGED title

\* Without an answer the offer stays.  A click on the item also opens an alert.
HandleCheckUpdateResult(s) ==
  /\ Takes(s, "check")
  /\ offer' = IF jobs[s].seen = Failed THEN offer ELSE jobs[s].seen
  /\ busy' = (busy /\ ~jobs[s].user)
  /\ IF jobs[s].user THEN alert' = s /\ UNCHANGED jobs ELSE Ends(s) /\ UNCHANGED alert
  /\ UNCHANGED title

\* (mutant) a command that fails leaves the application busy
HandleCtlResult_StaysBusy(s) ==
  /\ Takes(s, "ctl")
  /\ busy' = (jobs[s].seen = Off)
  /\ Refreshes(s)
  /\ alert' \in {NoAlert, Plain}
  /\ UNCHANGED <<title, offer>>

\* An alert follows a failure and a long command.
HandleCtlResult(s) ==
  /\ Takes(s, "ctl")
  /\ busy' = FALSE
  /\ Refreshes(s)
  /\ alert' \in {NoAlert, Plain}
  /\ UNCHANGED <<title, offer>>

\* Nothing is refreshed.
HandleDiagnosis(s) ==
  /\ Takes(s, "diag")
  /\ busy' = FALSE /\ alert' = Plain
  /\ Ends(s)
  /\ UNCHANGED <<title, offer>>

HandleSelfUpdate(s) ==
  /\ Takes(s, "update")
  /\ busy' = FALSE /\ alert' = Plain
  /\ offer' = IF jobs[s].seen = On THEN None ELSE offer
  /\ Refreshes(s)
  /\ UNCHANGED title

\* The block goes on after its alert.
Dismiss ==
  /\ alert # NoAlert /\ alert' = NoAlert
  /\ IF alert \in Slot THEN Refreshes(alert) ELSE UNCHANGED jobs
  /\ UNCHANGED <<world, bounds, running, busy, title, offer, queue>>

\* Nothing holds it back; a process that was started runs on.
QuitApp ==
  /\ Free
  /\ running' = FALSE /\ busy' = FALSE /\ offer' = None
  /\ title' = [state |-> "none", offer |-> None]
  /\ jobs' = [s \in Slot |-> IF jobs[s].task \in Command /\ jobs[s].seen = None
                             THEN [jobs[s] EXCEPT !.mine = FALSE] ELSE NoJob]
  /\ queue' = <<>>
  /\ UNCHANGED <<world, bounds, alert>>

Launch ==
  /\ ~running /\ launches < MaxLaunch
  /\ running' = TRUE /\ launches' = launches + 1
  /\ Starts(Job("status", FALSE))
  /\ UNCHANGED <<world, flips, menu, queue>>

-----------------------------------------------------------------------------
(* What others do.                                                         *)

\* The network watch, a terminal, a restart of the machine.
Flip ==
  /\ flips < MaxFlips /\ flips' = flips + 1
  /\ on' = ~on
  /\ UNCHANGED <<version, latest, online, launches, running, menu, jobs, queue>>

Publish ==
  /\ latest < MaxVersion /\ latest' = latest + 1
  /\ UNCHANGED <<on, version, online, bounds, running, menu, jobs, queue>>

Connect ==
  /\ online' = ~online
  /\ UNCHANGED <<on, version, latest, bounds, running, menu, jobs, queue>>

JobStep(s) ==
  ReadStatus(s) \/ PostStatus(s) \/ ReadVersion(s) \/ AskLatest(s) \/ RunCommand(s) \/ PostCommand(s)

MainQueue(s) ==
  \/ ApplyStatus(s) \/ HandleCheckUpdateResult(s)
  \/ HandleCtlResult(s) \/ HandleDiagnosis(s) \/ HandleSelfUpdate(s)

Next ==
  \/ \E cmd \in Command : Click(cmd)
  \/ CheckUpdate \/ RefreshStatus \/ BackgroundCheckUpdate
  \/ \E s \in Slot : JobStep(s) \/ MainQueue(s)
  \/ Dismiss
  \/ QuitApp \/ Launch
  \/ Flip \/ Publish \/ Connect

\* A job runs on a thread of its own, the main queue is served in turn, and the timers fire
\* whatever else goes on.  Nobody has to close an alert, to click or to start the application.
Fairness ==
  /\ \A s \in Slot : WF_vars(JobStep(s)) /\ WF_vars(MainQueue(s))
  /\ SF_vars(RefreshStatus) /\ SF_vars(BackgroundCheckUpdate)

Spec == Init /\ [][Next]_vars /\ Fairness

-----------------------------------------------------------------------------
(* Properties.                                                             *)

\* Jobs end in any order, so an old answer may be shown after a newer one, and a command
\* that ends leaves an item or an offer as it was.  But once nothing changes any more, the
\* application runs, GitHub answers and no alert is left open, it ends not busy, with the
\* menu saying what is so, of the switch as of the update.
MenuSettles ==
  (<>[](running /\ online /\ alert = NoAlert) /\ <>[][FALSE]_<<world, busy>>) =>
    <>[]( /\ ~busy
          /\ title.state = IF on THEN "on" ELSE "off"
          /\ offer = (IF version < latest THEN latest ELSE None) /\ title.offer = offer )

=============================================================================
