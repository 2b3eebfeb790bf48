------------------------------ MODULE Process -------------------------------
(***************************************************************************)
(* What the main of both programs does between its command line and its    *)
(* loop: the pid file, the rights of root, the lists tested as the user    *)
(* the program will be, the daemon; and the hang-up that has the lists     *)
(* read again.  The programs take these steps in orders of their own,      *)
(* which TpwsStart and NfqwsStart give, with the steps they add.           *)
(***************************************************************************)
EXTENDS Options

VARIABLES
  todo,      \* the steps that are left; "serve" is the last one
  process,   \* "first" is the process that was started, "second" its fork
  status,    \* what the caller of the first process sees: -1 while it runs, or the exit code
  asRoot,    \* the process has the rights of root
  pidfile,   \* "none", "empty", or the process whose number it holds
  sockets,   \* what the traffic comes through, in order
  hup        \* bReload

running == <<todo, process, status, asRoot, pidfile, sockets, hup>>

ProcessInit ==
  /\ process = "first" /\ status = -1 /\ asRoot = root
  /\ pidfile = "none" /\ sockets = <<>> /\ hup = FALSE

Step(s) == phase = "start" /\ todo # <<>> /\ Head(todo) = s

\* The step is done; the settings and what a line has built stay.
Then == todo' = Tail(todo) /\ UNCHANGED <<vars, hup>>

\* The process ends: its sockets close, and its caller sees the code unless the
\* process is the fork.
Exit(code) ==
  /\ todo' = <<>> /\ sockets' = <<>>
  /\ status' = IF process = "first" THEN code ELSE status
  /\ UNCHANGED <<vars, process, asRoot, pidfile, hup>>

\* fopen for writing empties the file, while the rights of root are still there.
OpenPid ==
  /\ Step("pidfile")
  /\ \/ /\ params.pidfile = ""
        /\ Then /\ UNCHANGED <<process, status, asRoot, pidfile, sockets>>
     \/ /\ params.pidfile # "" /\ pidfile' = "empty"
        /\ Then /\ UNCHANGED <<process, status, asRoot, sockets>>
     \/ params.pidfile # "" /\ Exit(1)

\* droproot: only root may become another user.
DropRights ==
  /\ Step("rights")
  /\ \/ /\ ~params.droproot
        /\ Then /\ UNCHANGED <<process, status, asRoot, pidfile, sockets>>
     \/ /\ params.droproot /\ asRoot /\ asRoot' = FALSE
        /\ Then /\ UNCHANGED <<process, status, pidfile, sockets>>
     \/ params.droproot /\ Exit(1)

\* The files as the process finds them: the fork of a daemon works in /, where
\* a relative name leads nowhere.
Found == [f \in DOMAIN disk |->
            IF process = "second" /\ f \in written.relative THEN "missing" ELSE disk[f]]

\* test_list_files once more, as the user.
TestLists ==
  /\ Step("lists")
  /\ IF params.droproot /\ ~Readable(Found, asRoot) THEN Exit(1)
     ELSE Then /\ UNCHANGED <<process, status, asRoot, pidfile, sockets>>

\* daemonize: the first process leaves with success as soon as there is a fork;
\* the fork may fail to leave its session or to change to /, and nobody is told.
Daemonize ==
  /\ Step("daemon")
  /\ \/ /\ ~params.daemon
        /\ Then /\ UNCHANGED <<process, status, asRoot, pidfile, sockets>>
     \/ params.daemon /\ Exit(2)
     \/ /\ params.daemon /\ process' = "second" /\ status' = 0
        /\ \/ Then /\ UNCHANGED <<asRoot, pidfile, sockets>>
           \/ todo' = <<>> /\ sockets' = <<>> /\ UNCHANGED <<vars, asRoot, pidfile, hup>>

\* The number of the process that is to serve, into the file opened before;
\* writepid of Windows opens the file only here.
WritePid ==
  /\ Step("pid")
  /\ \/ /\ params.pidfile = ""
        /\ Then /\ UNCHANGED <<process, status, asRoot, pidfile, sockets>>
     \/ /\ params.pidfile # "" /\ pidfile' = process
        /\ Then /\ UNCHANGED <<process, status, asRoot, sockets>>
     \/ params.pidfile # "" /\ Exit(IF On({"windows"}) THEN 4 ELSE 1)

\* onhup
HangUp ==
  /\ Step("serve") /\ ~hup
  /\ hup' = TRUE
  /\ UNCHANGED <<vars, todo, process, status, asRoot, pidfile, sockets>>

\* ReloadCheck, before the next events are handled: a list that is no longer
\* found stays as it was, one that cannot be opened or read to its end is fatal.
Reload ==
  /\ Step("serve") /\ hup
  /\ IF Loadable(Found, asRoot) THEN hup' = FALSE /\ UNCHANGED <<vars, todo, process, status, asRoot, pidfile, sockets>>
     ELSE Exit(1)

\* Somebody else spoils one of the lists while the program serves.
Spoil ==
  /\ Step("serve") /\ Loadable(disk, TRUE)
  /\ \E i \in DOMAIN files : files[i].file # "" /\ disk' = [disk EXCEPT ![files[i].file] = "corrupt"]
  /\ UNCHANGED <<written, argv, phase, profiles, count, skip, dry, anon, files, params, binds, running>>

Serving == Step("serve")

ProcessStep ==
  OpenPid \/ DropRights \/ TestLists \/ Daemonize \/ WritePid \/ HangUp \/ Reload \/ Spoil
=============================================================================
