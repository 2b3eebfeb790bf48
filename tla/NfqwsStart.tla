----------------------------- MODULE NfqwsStart -----------------------------
(***************************************************************************)
(* The main of nfqws after its command line: nfq_main of Linux, dvt_main   *)
(* of the BSDs and win_main of Windows, which take the steps of Process in *)
(* three orders, and the loop in which packets are received.  What is done *)
(* with a packet is NfqConn; here it gets a verdict.                       *)
(***************************************************************************)
EXTENDS NfqwsOptions, Process

NfqwsSteps ==
  [linux   |-> <<"pidfile", "rights", "lists", "queue", "daemon", "pid", "serve">>,
   bsd     |-> <<"pidfile", "queue", "rights", "lists", "daemon", "pid", "serve">>,
   windows |-> <<"daemon", "pid", "network", "queue", "serve">>]

\* nfq_init with the raw sockets, the divert sockets, or WinDivert: what was
\* opened is closed again when a part fails.
OpenQueue ==
  /\ Step("queue")
  /\ \/ /\ sockets' = <<"queue">>
        /\ Then /\ UNCHANGED <<process, status, asRoot, pidfile>>
     \/ Exit(1)

\* win_dark_init may fail once; then the logical network is waited for, asked
\* for twice a second, until bQuit.
AwaitNetwork ==
  /\ Step("network")
  /\ \/ Then /\ UNCHANGED <<process, status, asRoot, pidfile, sockets>>
     \/ Exit(0)
     \/ Exit(1)

\* A receive that fails: a full buffer and a packet that is too large are passed
\* over, an interrupted select is repeated; Windows waits for its network again.
\* Otherwise it is the end, on Linux one with success.
LostNetwork ==
  /\ On({"windows"})
  /\ todo' = <<"network", "queue", "serve">> /\ sockets' = <<>>
  /\ UNCHANGED <<vars, process, status, asRoot, pidfile, hup>>
ReceiveError ==
  /\ Step("serve") /\ system.name = "nfqws"
  /\ \/ LostNetwork
     \/ Exit(IF On({"linux"}) THEN 0 ELSE 1)
     \/ On({"windows"}) /\ Exit(0)

NfqwsStep == OpenQueue \/ AwaitNetwork \/ ReceiveError
=============================================================================
