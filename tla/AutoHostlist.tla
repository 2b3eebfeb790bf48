---------------------------- MODULE AutoHostlist ----------------------------
(***************************************************************************)
(* The automatic hostlist of tpws: upstream/tpws/tamper.c and hostlist.c.  *)
(* A profile applies its strategy to the hosts of its lists.  A host that  *)
(* is in none of them is watched: when attempts to reach it fail often     *)
(* enough within a time, it is added to the list in memory, appended to    *)
(* the list file, and the file's modification time and size are taken as   *)
(* those of the memory.  Whenever a list is used, its file is read again   *)
(* if its time or size has changed.  Several processes may share one list  *)
(* file (docs/readme.en.md:1285), and the user edits it.                   *)
(*                                                                         *)
(* Each handler is sequential C in one thread, but other processes act     *)
(* between its file operations: a load is a stat and then a read.  Where   *)
(* the code loads several times in a row with nothing but its own memory   *)
(* changed in between, the model loads once.  The file of the automatic    *)
(* list is the one that changes; the user's list and the exclude list are  *)
(* constants.  A host is the sequence of its labels.                       *)
(***************************************************************************)
EXTENDS Integers, Sequences, FiniteSets, SequencesExt

CONSTANTS
  Proc,        \* tpws processes that share the list file
  Profile,     \* profiles with --hostlist-auto, chosen by the port of a connection
  Configs,     \* command lines to look at: which of these profiles each process has
  Http,        \* those of a port that HTTP is spoken on
  Slot,        \* bounds the connections of a profile that are watched at once
  Host,        \* host names, sequences of labels
  UserList,    \* hosts of the include list that is not automatic
  Exclude,     \* hosts of the exclude list
  Threshold,   \* hostlist_auto_fail_threshold
  FailTime,    \* hostlist_auto_fail_time
  MaxTime,     \* bound: seconds
  MaxEdits     \* bound: changes others make to the file, and processes that die

\* NonEmptyHostlist: "@&()" keeps an automatic list from being empty; it is part of no name.
Marker == <<"@&()">>
NoHost == <<>>

ASSUME ListAssumption == Host \cup UserList \cup Exclude \subseteq Seq(STRING) \ {NoHost}
ASSUME HostAssumption == IsFiniteSet(Host) /\ \A h \in Host : ~IsSuffix(Marker, h)
ASSUME ProfileAssumption == Http \subseteq Profile /\ Profile # {} /\ Slot # {}
ASSUME ConfigAssumption == Configs \subseteq [Proc -> SUBSET Profile]
ASSUME LimitAssumption == Threshold \in 1 .. 20 /\ FailTime \in Nat \ {0}
ASSUME BoundAssumption == MaxTime \in Nat /\ MaxEdits \in Nat

VARIABLES
  has,      \* the profiles of each process
  now,      \* time(NULL)
  file,     \* the list file
  mem,      \* hostlist: what each process has in memory
  sig,      \* mod_sig: the time and size of the file each process goes by
  fails,    \* hostlist_auto_fail_counters
  purged,   \* host_fail_purge_prev: one for all profiles of a process
  purger,   \* history: the profile whose counters were purged then
  conn,     \* the watched connections
  job,      \* the handler a process is in, between two file operations
  edits,    \* edits made so far
  apart     \* processes whose memory is not what the file they go by holds

vars == <<has, now, file, mem, sig, fails, purged, purger, conn, job, edits, apart>>

NoSig == [time |-> -1, size |-> 0]

\* A file is its lines, as a bag, how many there are, and its modification time.
FileState == [there : BOOLEAN, lines : [Host -> Nat], size : Nat, time : Nat]
Sig == [time : Nat \cup {-1}, size : Nat]
Counter == [n : 0 .. Threshold - 1, expire : Nat]

\* matches: the strategy is applied; ah: b_ah_check; cutoff: bTamperInCutoff
Watched == [host : Host \cup {NoHost}, matches : BOOLEAN, ah : BOOLEAN, cutoff : BOOLEAN, hup : BOOLEAN]
NoConnection ==
  [host |-> NoHost, matches |-> FALSE, ah |-> FALSE, cutoff |-> FALSE, hup |-> FALSE]

\* why: what the handler goes on with once the file has been read
Step == {"idle", "read", "append", "sign", "dead"}
Why == {"start", "hup", "check", "recheck"}
Job == [step : Step, why : Why, d : Profile, s : Slot, host : Host \cup {NoHost}, seen : Sig,
        expire : Nat, at : Nat]

SomeProfile == CHOOSE d \in Profile : TRUE
SomeSlot == CHOOSE s \in Slot : TRUE
Idle ==
  [step |-> "idle", why |-> "start", d |-> SomeProfile, s |-> SomeSlot, host |-> NoHost,
   seen |-> NoSig, expire |-> 0, at |-> 0]

NoCounter == [n |-> 0, expire |-> 0]

TypeOK ==
  /\ has \in [Proc -> SUBSET Profile]
  /\ now \in 0 .. MaxTime
  /\ file \in FileState
  /\ mem \in [Proc -> SUBSET (Host \cup {Marker})]
  /\ sig \in [Proc -> Sig]
  /\ fails \in [Proc -> [Profile -> [Host -> Counter]]]
  /\ purged \in [Proc -> Nat \cup {-1}]
  /\ purger \in [Proc -> Profile]
  /\ conn \in [Proc -> [Profile -> [Slot -> Watched]]]
  /\ job \in [Proc -> Job]
  /\ edits \in 0 .. MaxEdits
  /\ apart \in SUBSET Proc

-----------------------------------------------------------------------------
(* Lists.                                                                  *)

Hosts(f) == IF f.there THEN {h \in Host : f.lines[h] > 0} ELSE {}
SigOf(f) == [time |-> f.time, size |-> f.size]

\* A file that somebody writes now: the hosts of keep, a line each
Written(there, keep) ==
  [there |-> there, lines |-> [h \in Host |-> IF h \in keep THEN 1 ELSE 0],
   size |-> Cardinality(keep), time |-> now]

\* (mutant) an empty automatic list stays empty
Loaded_Empty(f) == Hosts(f)

\* LoadHostList and then MakeAutolistsNonEmpty
Loaded(f) == IF Hosts(f) = {} THEN {Marker} ELSE Hosts(f)

\* SearchHostList: the host itself or a domain it is in
Search(list, h) == \E e \in list : IsSuffix(e, h)

\* HostlistCheck on the include lists list: no list at all lets every host pass.
Verdict(list, h) ==
  IF Search(Exclude, h) THEN "excluded"
  ELSE IF list = {} \/ Search(list, h) THEN "match"
  ELSE "miss"

Lists(p) == UserList \cup mem[p]

\* LoadHostList asks for the time and size first; when the file cannot be found, what is in
\* memory stays.
UpToDate(p) == ~file.there \/ sig[p] = SigOf(file)

-----------------------------------------------------------------------------
(* The counters.                                                           *)

\* (mutant) no counter expires
Purged_Never(p, d) == fails[p]

\* HostFailPoolPurgeRateLimited: at most once a second, in whichever profile comes first
Purged(p, d) ==
  IF purged[p] = now THEN fails[p]
  ELSE [fails[p] EXCEPT ![d] =
          [h \in Host |-> IF @[h].n > 0 /\ now >= @[h].expire THEN NoCounter ELSE @[h]]]

PurgedBy(p, d) ==
  /\ purged' = [purged EXCEPT ![p] = now]
  /\ purger' = [purger EXCEPT ![p] = IF purged[p] = now THEN @ ELSE d]

\* auto_hostlist_failed: the counter of a host expires fail_time after its first failure
Counted(counter) ==
  [n |-> counter.n + 1, expire |-> IF counter.n = 0 THEN now + FailTime ELSE counter.expire]

Init ==
  /\ has \in Configs
  /\ now = 0
  /\ file = Written(TRUE, {})
  /\ mem = [p \in Proc |-> {Marker}]
  /\ sig = [p \in Proc |-> SigOf(file)]
  /\ fails = [p \in Proc |-> [d \in Profile |-> [h \in Host |-> NoCounter]]]
  /\ purged = [p \in Proc |-> -1]
  /\ purger = [p \in Proc |-> SomeProfile]
  /\ conn = [p \in Proc |-> [d \in Profile |-> [s \in Slot |-> NoConnection]]]
  /\ job = [p \in Proc |-> Idle]
  /\ edits = 0
  /\ apart = {}

-----------------------------------------------------------------------------
(* A handler that uses the lists.  A load is two steps if the file has to  *)
(* be read: the stat, and the read with what the handler does after it.    *)

\* MakeAutolistsNonEmpty follows a load that succeeds, also one that has nothing to do.
NonEmpty(list) == IF list = {} THEN {Marker} ELSE list

Watch(list, h) ==
  [NoConnection EXCEPT !.host = h, !.matches = Verdict(list, h) = "match",
                       !.ah = Verdict(list, h) = "miss"]

\* The first request of a connection names its host (tamper_out).
Checked(p, j, list, cs) ==
  /\ mem' = [mem EXCEPT ![p] = list]
  /\ conn' = [cs EXCEPT ![p][j.d][j.s] = Watch(UserList \cup list, j.host)]
  /\ job' = [job EXCEPT ![p] = Idle]

\* (mutant) the host is added without looking whether it is there by now
Rechecked_Always(p, j, list, cs) ==
  /\ mem' = [mem EXCEPT ![p] = list \cup {j.host}]
  /\ job' = [job EXCEPT ![p] = [j EXCEPT !.step = "append"]]
  /\ conn' = cs

\* The host is added to memory unless another connection or process has done so by now.
Rechecked(p, j, list, cs) ==
  /\ IF Verdict(UserList \cup list, j.host) = "miss"
     THEN /\ mem' = [mem EXCEPT ![p] = list \cup {j.host}]
          /\ job' = [job EXCEPT ![p] = [j EXCEPT !.step = "append"]]
     ELSE /\ mem' = [mem EXCEPT ![p] = list]
          /\ job' = [job EXCEPT ![p] = Idle]
  /\ conn' = cs

Loaded_(p, j, list, cs) ==
  CASE j.why = "check"   -> Checked(p, j, list, cs)
    [] j.why = "recheck" -> Rechecked(p, j, list, cs)
    [] OTHER -> /\ mem' = [mem EXCEPT ![p] = list]
                /\ job' = [job EXCEPT ![p] = Idle]
                /\ conn' = cs

\* cs: the connections as the handler has left them
Load(p, j, cs) ==
  IF UpToDate(p)
  THEN Loaded_(p, j, NonEmpty(mem[p]), cs) /\ UNCHANGED sig
  ELSE /\ job' = [job EXCEPT ![p] = [j EXCEPT !.step = "read", !.seen = SigOf(file)]]
       /\ conn' = cs
       /\ UNCHANGED <<mem, sig>>

\* (mutant) the time and size are taken after the list has been read
ReadList_StatAfter(p) ==
  /\ job[p].step = "read" /\ file.there
  /\ \/ Loaded_(p, job[p], Loaded(file), conn) /\ sig' = [sig EXCEPT ![p] = SigOf(file)]
     \/ Loaded_(p, job[p], NonEmpty(mem[p]), conn) /\ sig' = [sig EXCEPT ![p] = SigOf(file)]
  /\ apart' = apart \ {p}
  /\ UNCHANGED <<has, now, file, fails, purged, purger, edits>>

ReadList(p) ==
  /\ job[p].step = "read" /\ file.there
  /\ Loaded_(p, job[p], Loaded(file), conn)
  /\ sig' = [sig EXCEPT ![p] = job[p].seen]
  /\ apart' = apart \ {p}
  /\ UNCHANGED <<has, now, file, fails, purged, purger, edits>>

\* The file has gone since the stat: the list in memory is gone too, and the check says "not
\* listed, not excluded".  A reload or a start ends the process.
ReadFails(p) ==
  LET j == job[p]
  IN /\ j.step = "read" /\ ~file.there
     /\ CASE j.why = "check" ->
               /\ mem' = [mem EXCEPT ![p] = {}]
               /\ job' = [job EXCEPT ![p] = Idle]
               /\ \E ah \in BOOLEAN :   \* FALSE: the profile itself did not match
                    conn' = [conn EXCEPT ![p][j.d][j.s] =
                               [NoConnection EXCEPT !.host = j.host, !.ah = ah]]
          [] j.why = "recheck" ->
               /\ mem' = [mem EXCEPT ![p] = {j.host}]
               /\ job' = [job EXCEPT ![p] = [j EXCEPT !.step = "append"]]
               /\ UNCHANGED conn
          [] OTHER ->
               /\ job' = [job EXCEPT ![p] = [Idle EXCEPT !.step = "dead"]]
               /\ UNCHANGED <<mem, conn>>
     /\ UNCHANGED <<has, now, file, sig, fails, purged, purger, edits, apart>>

-----------------------------------------------------------------------------
(* The life of a connection.                                               *)

IsIdle(p) == job[p].step = "idle"

Request(p, d, s, h) ==
  /\ IsIdle(p)
  /\ conn[p][d][s].host = NoHost
  /\ Load(p, [Idle EXCEPT !.why = "check", !.d = d, !.s = s, !.host = h], conn)
  /\ UNCHANGED <<has, now, file, fails, purged, purger, edits, apart>>

Close(p, d, s) ==
  /\ IsIdle(p)
  /\ conn[p][d][s].host # NoHost
  /\ conn' = [conn EXCEPT ![p][d][s] = NoConnection]
  /\ UNCHANGED <<has, now, file, mem, sig, fails, purged, purger, job, edits, apart>>

\* cs: the connections as the event leaves them
Failed(p, d, s, cs) ==
  LET h == conn[p][d][s].host
      f == Purged(p, d)
      k == Counted(f[d][h])
      j == [Idle EXCEPT !.why = "recheck", !.d = d, !.s = s, !.host = h,
                        !.expire = k.expire, !.at = now]
  IN IF k.n < Threshold
     THEN /\ fails' = [fails EXCEPT ![p] = [f EXCEPT ![d][h] = k]]
          /\ conn' = cs
          /\ UNCHANGED <<mem, sig, job>>
     ELSE /\ fails' = [fails EXCEPT ![p] = [f EXCEPT ![d][h] = NoCounter]]
          /\ Load(p, j, cs)

OnlyPurge(p, d, cs) ==
  /\ fails' = [fails EXCEPT ![p] = Purged(p, d)]
  /\ conn' = cs
  /\ UNCHANGED <<mem, sig, job>>

\* What a watched connection may meet; before the first reply it is a failure.
Event(p, d, s, c) ==
  LET cs == [conn EXCEPT ![p][d][s] = c]
  IN /\ IF conn[p][d][s].cutoff THEN OnlyPurge(p, d, cs) ELSE Failed(p, d, s, cs)
     /\ PurgedBy(p, d)
     /\ UNCHANGED <<has, now, file, edits, apart>>

Watching(p, d, s) == IsIdle(p) /\ conn[p][d][s].ah

\* The server resets the connection: it ends.
RstIn(p, d, s) ==
  /\ Watching(p, d, s)
  /\ Event(p, d, s, NoConnection)

\* The client ends its stream.
HupOut(p, d, s) ==
  /\ Watching(p, d, s)
  /\ ~conn[p][d][s].hup
  /\ Event(p, d, s, [conn[p][d][s] EXCEPT !.hup = TRUE])

\* tamper_in: the first reply, a redirect to another domain or any other
RedirectIn(p, d, s) ==
  /\ Watching(p, d, s)
  /\ ~conn[p][d][s].cutoff /\ d \in Http
  /\ Event(p, d, s, [conn[p][d][s] EXCEPT !.cutoff = TRUE])

\* auto_hostlist_reset_fail_counter
ReplyIn(p, d, s) ==
  /\ Watching(p, d, s)
  /\ ~conn[p][d][s].cutoff
  /\ fails' = [fails EXCEPT ![p] = [Purged(p, d) EXCEPT ![d][conn[p][d][s].host] = NoCounter]]
  /\ PurgedBy(p, d)
  /\ conn' = [conn EXCEPT ![p][d][s].cutoff = TRUE]
  /\ UNCHANGED <<has, now, file, mem, sig, job, edits, apart>>

\* The write may fail; then the host is in memory only.
AppendHost(p) ==
  /\ job[p].step = "append"
  /\ \/ /\ file' = [there |-> TRUE, lines |-> [file.lines EXCEPT ![job[p].host] = @ + 1],
                    size |-> file.size + 1, time |-> now]
        /\ job' = [job EXCEPT ![p].step = "sign"]
        /\ UNCHANGED apart
     \/ /\ job' = [job EXCEPT ![p] = Idle]
        /\ apart' = apart \cup {p}
        /\ UNCHANGED file
  /\ UNCHANGED <<has, now, mem, sig, fails, purged, purger, conn, edits>>

\* What another process or the user has changed since the load is signed for too.
SignList(p) ==
  /\ job[p].step = "sign"
  /\ sig' = [sig EXCEPT ![p] = IF file.there THEN SigOf(file) ELSE NoSig]
  /\ apart' = IF Hosts(file) = mem[p] \ {Marker} THEN apart \ {p} ELSE apart \cup {p}
  /\ job' = [job EXCEPT ![p] = Idle]
  /\ UNCHANGED <<has, now, file, mem, fails, purged, purger, conn, edits>>

-----------------------------------------------------------------------------
(* The rest of the world.                                                  *)

Tick ==
  /\ now < MaxTime
  /\ now' = now + 1
  /\ UNCHANGED <<has, file, mem, sig, fails, purged, purger, conn, job, edits, apart>>

Edited == edits < MaxEdits /\ edits' = edits + 1

\* The user removes or adds hosts, or the file is moved away.  A change in the second of
\* another one that leaves the size as it was is not noticed: it is left out.
EditFile ==
  /\ Edited
  /\ now > file.time
  /\ \/ \E keep \in SUBSET Host : file' = Written(TRUE, keep)
     \/ file' = Written(FALSE, {})
  /\ UNCHANGED <<has, now, mem, sig, fails, purged, purger, conn, job, apart>>

\* ReloadCheck, after SIGHUP: the lists are loaded whatever their time and size.
Reload(p) ==
  /\ IsIdle(p) /\ Edited
  /\ IF file.there
     THEN /\ job' = [job EXCEPT ![p] = [Idle EXCEPT !.step = "read", !.why = "hup", !.seen = SigOf(file)]]
          /\ UNCHANGED mem
     ELSE /\ mem' = [mem EXCEPT ![p] = NonEmpty(@)]
          /\ UNCHANGED job
  /\ sig' = [sig EXCEPT ![p] = NoSig]
  /\ UNCHANGED <<has, now, file, fails, purged, purger, conn, apart>>

\* The process dies, between any two file operations ...
Die(p) ==
  /\ job[p].step # "dead" /\ Edited
  /\ job' = [job EXCEPT ![p] = [Idle EXCEPT !.step = "dead"]]
  /\ UNCHANGED <<has, now, file, mem, sig, fails, purged, purger, conn, apart>>

\* ... and launchd starts it again: the file is created if it is not there, and loaded.
Start(p) ==
  /\ job[p].step = "dead"
  /\ LET f == IF file.there THEN file ELSE Written(TRUE, {})
     IN /\ file' = f
        /\ job' = [job EXCEPT ![p] = [Idle EXCEPT !.step = "read", !.seen = SigOf(f)]]
  /\ mem' = [mem EXCEPT ![p] = {}]
  /\ sig' = [sig EXCEPT ![p] = NoSig]
  /\ fails' = [fails EXCEPT ![p] = [d \in Profile |-> [h \in Host |-> NoCounter]]]
  /\ purged' = [purged EXCEPT ![p] = -1]
  /\ purger' = [purger EXCEPT ![p] = SomeProfile]
  /\ conn' = [conn EXCEPT ![p] = [d \in Profile |-> [s \in Slot |-> NoConnection]]]
  /\ UNCHANGED <<has, now, edits, apart>>

Process(p) ==
  \/ ReadList(p) \/ ReadFails(p) \/ AppendHost(p) \/ SignList(p)
  \/ Reload(p) \/ Die(p) \/ Start(p)
  \/ \E d \in has[p], s \in Slot :
       \/ \E h \in Host : Request(p, d, s, h)
       \/ RstIn(p, d, s) \/ HupOut(p, d, s) \/ RedirectIn(p, d, s) \/ ReplyIn(p, d, s)
       \/ Close(p, d, s)

Next == Tick \/ EditFile \/ \E p \in Proc : Process(p)

Spec == Init /\ [][Next]_vars

-----------------------------------------------------------------------------
(* Properties.                                                             *)

\* A process whose file has not changed since it went by it last has in memory exactly what
\* is in the file, whoever wrote it and whenever the process was interrupted.  It is wrong
\* only after it has signed for lines of others written between its load and its stat
\* (tamper.c:587), or could not write its own: these processes are apart.  And it writes no
\* line that this file has already: two connections or processes that fail for one host give
\* one line unless they decide at the same time (the recheck at tamper.c:573).
GoesByItsFile ==
  \A p \in Proc :
    file.there /\ sig[p] = SigOf(file) /\ p \notin apart =>
      /\ IsIdle(p) => mem[p] \ {Marker} = Hosts(file)
      /\ job[p].step = "append" => file.lines[job[p].host] = 0

\* The strategy is applied only to hosts that a list holds and the user has not excluded: a
\* list file that is empty, unreadable or gone does not make every host pass
\* (hostlist.c:146, 244).
OnlyListed ==
  [][\A p \in Proc, d \in Profile, s \in Slot :
       ~conn[p][d][s].matches /\ conn'[p][d][s].matches
         => LET h == conn'[p][d][s].host
                within == {SubSeq(h, k, Len(h)) : k \in 1 .. Len(h)}
            IN within \cap (UserList \cup (mem'[p] \ {Marker})) # {} /\ within \cap Exclude = {}]_vars

\* "all failed attemps must be within these seconds" (tpws.c:253): when the last failure
\* makes a host one to add, its first one is not older than fail_time, unless an event of
\* another profile was the first of this second in this process: the purge it made is the only
\* one of the second, and looked at the counters of that profile alone (pools.c:120).
FailuresWithinTime ==
  \A p \in Proc :
    job[p].why = "recheck" /\ job[p].step \in {"read", "append"} /\ purger[p] = job[p].d
      => job[p].at < job[p].expire
=============================================================================
