------------------------------ MODULE Resolver ------------------------------
(***************************************************************************)
(* The threaded resolver of tpws, upstream/tpws/resolver.c, with the part  *)
(* of the event loop that feeds it and reads its answers.  The loop links  *)
(* an item to a list under a lock and posts a semaphore; a thread waits on *)
(* the semaphore, takes the first item, looks its host name up and writes  *)
(* the item's address to a pipe; the loop reads one address at a time,     *)
(* completes the connection it belongs to and frees the item.  An item     *)
(* points to its connection and the connection to its item: whichever goes *)
(* first has to clear the pointer of the other.                            *)
(*                                                                         *)
(* Items are the addresses calloc returns: they are used again.  A write   *)
(* of one pointer to a pipe is never partial.  The semaphore may refuse a  *)
(* post and the pipe a write; what happens when memory that has been freed *)
(* is used is undefined, and the model ends there (corrupt).               *)
(***************************************************************************)
EXTENDS Integers, Sequences, FiniteSets, SequencesExt

CONSTANTS
  NThreads,    \* params.resolver_threads
  Conn,        \* connection slots: bounds the connections alive at once
  ResolveItem, \* addresses of resolve items: bounds the items alive at once
  Null,        \* the NULL pointer
  PipeSize,    \* pointers the pipe holds
  MaxFaults    \* bound: calls that fail

ASSUME ThreadAssumption == NThreads \in Nat \ {0}
ASSUME SlotAssumption ==
  IsFiniteSet(Conn) /\ IsFiniteSet(ResolveItem) /\ Null \notin Conn \cup ResolveItem
ASSUME BoundAssumption == PipeSize \in Nat \ {0} /\ MaxFaults \in Nat

Thread == 1 .. NThreads

VARIABLES
  state,         \* what each connection is doing; "absent" has no memory
  ri,            \* socks_ri of each connection
  used,          \* items allocated and not freed
  ptr,           \* the connection each item points to
  resolve_list,  \* the items that wait
  sem,           \* the value of the semaphore
  posting,       \* the connection whose item is linked and not posted yet
  pc, hand,      \* where each thread is, and its item
  pipe,          \* addresses in the pipe
  kills,         \* pthread_kill calls resolver_deinit has made; -1: not called
  faults,        \* calls that have failed
  corrupt        \* freed memory has been used

resolverVars ==
  <<state, ri, used, ptr, resolve_list, sem, posting, pc, hand, pipe, kills, faults, corrupt>>
conns == <<state, ri>>
threads == <<pc, hand>>

ConnState == {"absent", "request", "resolve", "connection", "closed"}

\* "top": about to test bStop; "checked": has tested it; "wait": in sem_wait; "take": has a
\* token; "resolve": in getaddrinfo; "write": at the pipe with SIGUSR1 blocked
ThreadState == {"top", "checked", "wait", "take", "resolve", "write", "exit"}

TypeOK ==
  /\ state \in [Conn -> ConnState]
  /\ ri \in [Conn -> ResolveItem \cup {Null}]
  /\ used \in SUBSET ResolveItem
  /\ ptr \in [ResolveItem -> Conn \cup {Null}]
  /\ resolve_list \in Seq(ResolveItem)
  /\ sem \in Nat
  /\ posting \in Conn \cup {Null}
  /\ pc \in [Thread -> ThreadState]
  /\ hand \in [Thread -> ResolveItem \cup {Null}]
  /\ pipe \in Seq(ResolveItem)
  /\ kills \in -1 .. 2 * NThreads
  /\ faults \in Nat
  /\ corrupt \in BOOLEAN

ResolverInit ==
  /\ state = [c \in Conn |-> "absent"]
  /\ ri = [c \in Conn |-> Null]
  /\ used = {}
  /\ ptr = [i \in ResolveItem |-> Null]
  /\ resolve_list = <<>> /\ sem = 0 /\ posting = Null
  /\ pc = [t \in Thread |-> "top"]
  /\ hand = [t \in Thread |-> Null]
  /\ pipe = <<>>
  /\ kills = -1 /\ faults = 0 /\ corrupt = FALSE

bStop == kills # -1

\* The address may be returned by calloc again.
Free(i) ==
  /\ used' = used \ {i}
  /\ ptr' = [ptr EXCEPT ![i] = Null]

\* The loop is between two calls, and no memory has been misused.
LoopRuns == ~bStop /\ posting = Null /\ ~corrupt

-----------------------------------------------------------------------------
(* The event loop.                                                         *)

Accept(c) ==
  /\ LoopRuns
  /\ state[c] = "absent"
  /\ state' = [state EXCEPT ![c] = "request"]
  /\ UNCHANGED <<ri, used, ptr, resolve_list, sem, posting, threads, pipe, kills, faults, corrupt>>

\* The client, the network or a message that comes too early ends the connection; its
\* memory stays until the end of the batch of events.
CloseConn(c) ==
  /\ LoopRuns
  /\ state[c] \in {"request", "resolve", "connection"}
  /\ state' = [state EXCEPT ![c] = "closed"]
  /\ UNCHANGED <<ri, used, ptr, resolve_list, sem, posting, threads, pipe, kills, faults, corrupt>>

\* resolver_queue links the item under the lock, which writes to the last one of the list ...
QueueItem(c, i) ==
  /\ LoopRuns
  /\ state[c] = "request"
  /\ i \notin used
  /\ used' = used \cup {i}
  /\ ptr' = [ptr EXCEPT ![i] = c]
  /\ resolve_list' = Append(resolve_list, i)
  /\ posting' = c
  /\ corrupt' = (\/ i \in ToSet(resolve_list)
                 \/ resolve_list # <<>> /\ Last(resolve_list) \notin used)
  /\ UNCHANGED <<conns, sem, threads, pipe, kills, faults>>

\* ... and then posts the semaphore.  Nothing takes the item before that.
PostItem ==
  /\ posting # Null /\ ~corrupt
  /\ sem' = sem + 1
  /\ ri' = [ri EXCEPT ![posting] = Last(resolve_list)]
  /\ state' = [state EXCEPT ![posting] = "resolve"]
  /\ posting' = Null
  /\ UNCHANGED <<used, ptr, resolve_list, threads, pipe, kills, faults, corrupt>>

\* The item of a failed post is freed and stays in the list; the connection hangs up.
PostFails ==
  /\ posting # Null /\ ~corrupt
  /\ faults < MaxFaults
  /\ faults' = faults + 1
  /\ Free(Last(resolve_list))
  /\ state' = [state EXCEPT ![posting] = "closed"]
  /\ posting' = Null
  /\ UNCHANGED <<ri, resolve_list, sem, threads, pipe, kills, corrupt>>

\* (mutant) the item is not told that its connection is gone
FreeConn_NoDetach(c) ==
  /\ LoopRuns
  /\ state[c] = "closed"
  /\ state' = [state EXCEPT ![c] = "absent"]
  /\ ri' = [ri EXCEPT ![c] = Null]
  /\ corrupt' = (ri[c] # Null /\ ri[c] \notin used)
  /\ UNCHANGED <<used, ptr, resolve_list, sem, posting, threads, pipe, kills, faults>>

\* free_conn detaches the item: it writes to it.
FreeConn(c) ==
  /\ LoopRuns
  /\ state[c] = "closed"
  /\ state' = [state EXCEPT ![c] = "absent"]
  /\ ri' = [ri EXCEPT ![c] = Null]
  /\ ptr' = IF ri[c] = Null THEN ptr ELSE [ptr EXCEPT ![ri[c]] = Null]
  /\ corrupt' = (ri[c] # Null /\ ri[c] \notin used)
  /\ UNCHANGED <<used, resolve_list, sem, posting, threads, pipe, kills, faults>>

\* (mutant) the connection keeps the address of the item
ResolveComplete_KeepItem(c) ==
  /\ state' = [state EXCEPT ![c] = IF @ = "resolve" THEN "connection" ELSE @]
  /\ UNCHANGED ri

\* What the answer does to the connection it belongs to: a host that is not found, or a
\* connect() that fails at once, closes it.
ResolveComplete(c) ==
  /\ \E s \in {"connection", "closed"} :
       state' = [state EXCEPT ![c] = IF @ = "resolve" THEN s ELSE @]
  /\ ri' = [ri EXCEPT ![c] = Null]

\* handle_resolve_pipe
ReadPipe ==
  /\ LoopRuns
  /\ pipe # <<>>
  /\ LET i == Head(pipe)
     IN /\ IF ptr[i] = Null THEN UNCHANGED conns ELSE ResolveComplete(ptr[i])
        /\ Free(i)
        /\ corrupt' = (i \notin used \/ (ptr[i] # Null /\ state[ptr[i]] = "absent"))
  /\ pipe' = Tail(pipe)
  /\ UNCHANGED <<resolve_list, sem, posting, threads, kills, faults>>

-----------------------------------------------------------------------------
(* A resolver thread.                                                      *)

Move(t, from, to) == pc[t] = from /\ pc' = [pc EXCEPT ![t] = to]

CheckStop(t) ==
  /\ ~corrupt
  /\ Move(t, "top", IF bStop THEN "exit" ELSE "checked")
  /\ UNCHANGED <<conns, used, ptr, resolve_list, sem, posting, hand, pipe, kills, faults, corrupt>>

EnterWait(t) ==
  /\ ~corrupt
  /\ Move(t, "checked", "wait")
  /\ UNCHANGED <<conns, used, ptr, resolve_list, sem, posting, hand, pipe, kills, faults, corrupt>>

\* (mutant) the token is left for the next thread
SemWait_KeepToken(t) ==
  /\ ~corrupt
  /\ sem > 0
  /\ Move(t, "wait", IF bStop THEN "exit" ELSE "take")
  /\ UNCHANGED <<conns, used, ptr, resolve_list, sem, posting, hand, pipe, kills, faults, corrupt>>

\* sem_wait returns with a token, and bStop is tested again.
SemWait(t) ==
  /\ ~corrupt
  /\ sem > 0
  /\ sem' = sem - 1
  /\ Move(t, "wait", IF bStop THEN "exit" ELSE "take")
  /\ UNCHANGED <<conns, used, ptr, resolve_list, posting, hand, pipe, kills, faults, corrupt>>

\* (mutant) the list is read and unlinked from without the lock: the item stays for another
TakeItem_Unlocked(t) ==
  /\ ~corrupt
  /\ resolve_list # <<>>
  /\ Move(t, "take", "resolve")
  /\ hand' = [hand EXCEPT ![t] = Head(resolve_list)]
  /\ resolve_list' \in {resolve_list, Tail(resolve_list)}
  /\ corrupt' = (Head(resolve_list) \notin used)
  /\ UNCHANGED <<conns, used, ptr, sem, posting, pipe, kills, faults>>

\* Under the lock; unlinking an item writes to the next one.
TakeItem(t) ==
  /\ ~corrupt
  /\ IF resolve_list = <<>>
     THEN /\ Move(t, "take", "top")
          /\ UNCHANGED <<hand, resolve_list, corrupt>>
     ELSE /\ Move(t, "take", "resolve")
          /\ hand' = [hand EXCEPT ![t] = Head(resolve_list)]
          /\ resolve_list' = Tail(resolve_list)
          /\ corrupt' = (\/ Head(resolve_list) \notin used
                         \/ Len(resolve_list) > 1 /\ resolve_list[2] \notin used)
  /\ UNCHANGED <<conns, used, ptr, sem, posting, pipe, kills, faults>>

\* getaddrinfo cannot be interrupted; it is taken to return.
Resolve(t) ==
  /\ ~corrupt
  /\ Move(t, "resolve", "write")
  /\ UNCHANGED <<conns, used, ptr, resolve_list, sem, posting, hand, pipe, kills, faults, corrupt>>

\* The write blocks while the pipe is full.
WriteAnswer(t) ==
  /\ ~corrupt
  /\ Len(pipe) < PipeSize
  /\ Move(t, "write", "top")
  /\ pipe' = Append(pipe, hand[t])
  /\ hand' = [hand EXCEPT ![t] = Null]
  /\ UNCHANGED <<conns, used, ptr, resolve_list, sem, posting, kills, faults, corrupt>>

\* The item is freed while its connection still points to it.
WriteFails(t) ==
  /\ ~corrupt
  /\ faults < MaxFaults
  /\ faults' = faults + 1
  /\ Move(t, "write", "top")
  /\ Free(hand[t])
  /\ hand' = [hand EXCEPT ![t] = Null]
  /\ UNCHANGED <<conns, resolve_list, sem, posting, pipe, kills, corrupt>>

-----------------------------------------------------------------------------
(* resolver_deinit, called when epoll_wait fails: sets bStop, signals every *)
(* thread, then signals and joins each of them in turn.                     *)

\* SIGUSR1 only breaks a sem_wait: the thread finds bStop set and ends.  Anywhere else the
\* handler has no effect, and at the pipe the signal is blocked.
Kill(t) == pc' = [pc EXCEPT ![t] = IF @ = "wait" THEN "exit" ELSE @]

\* the thread resolver_deinit signals next
NextKill == IF kills < NThreads THEN kills + 1 ELSE kills - NThreads + 1

Deinit ==
  /\ LoopRuns
  /\ kills' = 0
  /\ UNCHANGED <<conns, used, ptr, resolve_list, sem, posting, threads, pipe, faults, corrupt>>

KillThread ==
  /\ bStop /\ ~corrupt
  /\ kills < 2 * NThreads
  /\ kills > NThreads => pc[kills - NThreads] = "exit"     \* pthread_join
  /\ Kill(NextKill)
  /\ kills' = kills + 1
  /\ UNCHANGED <<conns, used, ptr, resolve_list, sem, posting, hand, pipe, faults, corrupt>>

Joined == kills = 2 * NThreads /\ pc[NThreads] = "exit"

\* resolver_clear_list
ClearList ==
  /\ Joined /\ ~corrupt
  /\ resolve_list # <<>>
  /\ used' = used \ {resolve_list[k] : k \in DOMAIN resolve_list}
  /\ resolve_list' = <<>>
  /\ UNCHANGED <<conns, ptr, sem, posting, threads, pipe, kills, faults, corrupt>>

-----------------------------------------------------------------------------

Loop ==
  \/ \E c \in Conn : Accept(c) \/ CloseConn(c) \/ FreeConn(c)
  \/ \E c \in Conn, i \in ResolveItem : QueueItem(c, i)
  \/ PostItem \/ PostFails \/ ReadPipe
  \/ Deinit \/ KillThread \/ ClearList

ThreadStep(t) ==
  \/ CheckStop(t) \/ EnterWait(t) \/ SemWait(t) \/ TakeItem(t) \/ Resolve(t)
  \/ WriteAnswer(t) \/ WriteFails(t)

ResolverNext == Loop \/ \E t \in Thread : ThreadStep(t)

ResolverSpec == ResolverInit /\ [][ResolverNext]_resolverVars

\* The threads run, getaddrinfo returns, and a writer that waits for room in the pipe is
\* not passed over for ever; the loop finishes the call it is in and reads the pipe, all
\* of whose sockets are non-blocking.
FairSpec ==
  /\ ResolverSpec
  /\ \A t \in Thread :
       /\ WF_resolverVars(CheckStop(t) \/ EnterWait(t) \/ SemWait(t) \/ TakeItem(t) \/ Resolve(t))
       /\ SF_resolverVars(WriteAnswer(t) \/ WriteFails(t))
  /\ WF_resolverVars(PostItem \/ PostFails)
  /\ WF_resolverVars(ReadPipe)

-----------------------------------------------------------------------------
(* Properties.  They are about a resolver none of whose calls has failed:  *)
(* after a failed one, memory that is freed may still be reachable.        *)

Count(s, i) == Cardinality({k \in DOMAIN s : s[k] = i})

Holders(i) == Count(resolve_list, i) + Count(pipe, i) + Cardinality({t \in Thread : hand[t] = i})

\* An item that is allocated is in one place: once in the list, or with one thread, or once
\* in the pipe.  What has been freed is in none: no item is answered twice or lost between
\* the threads, however they interleave (the lock at resolver.c:88).
OneHolder ==
  faults = 0 => \A i \in ResolveItem : Holders(i) = IF i \in used THEN 1 ELSE 0

\* The tokens of the semaphore, and those that threads have just taken, are as many as the
\* items waiting in the list: no item waits while the threads sleep, and no thread that
\* wakes up finds the list empty (link at resolver.c:261, post at 263).
TokenPerItem ==
  faults = 0 /\ ~bStop =>
    Len(resolve_list) = sem + Cardinality({t \in Thread : pc[t] = "take"})
                    + (IF posting = Null THEN 0 ELSE 1)

\* A connection that waits for an answer, or was closed while it did, and its item point to
\* each other, and a connection that is gone has left no pointer behind (tpws_conn.c:537 and
\* 1476): the answer never reaches a connection that was given the same memory later, and
\* never finds it in another state ("conn in wrong socks_state", tpws_conn.c:1098).
PointersAgree ==
  faults = 0 /\ ~bStop =>
    /\ \A c \in Conn : ri[c] # Null =>
         ri[c] \in used /\ ptr[ri[c]] = c /\ state[c] \in {"resolve", "closed"}
    /\ \A i \in used : ptr[i] # Null => ri[ptr[i]] = i \/ posting = ptr[i]

\* Memory that is freed is not used (tpws_conn.c:537, 1474-1477, resolver.c:88-91).
NoUseAfterFree == faults = 0 => ~corrupt

\* Every item is with one holder, has its token while it waits, agrees with its connection,
\* and is not used once it is freed: no question is lost, doubled, or answered to a
\* connection that did not ask.
ItemsAccounted == OneHolder /\ TokenPerItem /\ PointersAgree /\ NoUseAfterFree

\* The threads and the loop together keep the promise of Resolution.
Promise ==
  INSTANCE Resolution WITH
    alive  <- {c \in Conn : state[c] \in {"request", "resolve", "connection"}},
    lookup <- [c \in Conn |-> IF ri[c] = Null THEN "none"
                              ELSE IF ri[c] \in ToSet(pipe) THEN "answered" ELSE "asked"],
    up     <- faults = 0 /\ ~bStop /\ ~corrupt

\* The resolver implements Resolution: every connection that asks gets its own answer once,
\* a question is neither lost nor answered to another, and it is answered in the end.
ImplementsResolution == Promise!Spec
=============================================================================
