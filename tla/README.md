# ZapretMenu: TLA+ models and proofs

Models, model-checking runs and machine-checked proofs for ZapretMenu: a macOS
menu bar program and a set of shell scripts that keep `tpws`, the transparent
proxy of the vendored `upstream/` tree (bol-van/zapret), running with the right
configuration. Paths below are relative to the root of the repository.

To check a run: `tlc -config <cfg> <module>`, with the names of the table in section 3.
To check the proofs of a module: `tlapm <module>.tla`.

## 1. The system

### Components, their state and how they interact

| component | state it keeps | operations | talks to |
|---|---|---|---|
| menu bar application, `menubar/main.swift` | busy flag, status title, offered update, timers (status every 30 s, releases every day) | run a `zapret-ctl` command through `sudo`, show the status, check for updates, update itself | `zapret-ctl` (background processes), its main queue |
| control scripts, `scripts/zapret-ctl`, `zapret-start.sh`, `zapret-stop.sh`, `zapret-set-mode.sh`, `lib.sh` | `desired-state`, `/opt/zapret/config`, its copy in Application Support | start, stop, restart, change the filter mode, update the lists | launchd, PF, the config file |
| boot loader, `scripts/zapret-boot.sh` | none | load PF and the KeepAlive job when `desired-state` is on, unload it when it is off | launchd, PF |
| network watch and profiles, `scripts/zapret-netwatch.sh`, `zapret-probe-network.sh`, `zapret-apply-profile.sh`, `zapret-profile-lib.sh` | `profiles/<id>.json`, `last_network_id`, the strategy in the config | every 15 s: apply the profile of a network, or probe it | the config file, launchd, PF, `curl` |
| KeepAlive job, `scripts/zapret-tpws-run.sh`, `zapret-tpws.plist` | the config it was started with | become `tpws`, be restarted when it dies | config file, launchd |
| engine update and rollback, `scripts/zapret-update-engine.sh`, `zapret-rollback-engine.sh` | `/opt/zapret`, its backups and the mark, the upstream working copy | back up, pull, build, replace, restart; restore | control scripts, file system, git |
| self-update, update check, installer: `scripts/zapret-self-update.sh`, `zapret-check-update.sh`, `system-install.sh` | `/opt/zapret` and two backups, version file, hostlist, switch | compare versions, download, install | launchd, PF, GitHub, the menu |
| tpws connection engine, `upstream/tpws/tpws_conn.c` | two legs per connection: state, buffers, flow control, epoll masks; leg counters; the list of closed legs | one epoll loop: accept, connect, relay, half close, orphan, SOCKS | sockets through epoll, resolver, tamper |
| tpws resolver, `upstream/tpws/resolver.c` | item list, semaphore, threads, answer pipe | queue a name, resolve it, write the answer to the pipe | connection engine (pointers both ways) |
| epoll of macOS, `upstream/tpws/epoll-shim` | a node per descriptor, its two kqueue filters | `epoll_ctl`, `epoll_wait` on top of `kevent` | kqueue, connection engine |
| tpws automatic hostlist, `upstream/tpws/tamper.c`, `pools.c`, `hostlist.c` | lists in memory with the time and size of their files, failure counters | match a host, count failures, add a host, read a list again | list files shared with other processes and the user, SIGHUP |
| nfqws connection handling, `upstream/nfq/desync.c`, `conntrack.c`, `packet_queue.c` | conntrack entry: positions, request, held packets, profile; failure counters | hold back the pieces of a hello, choose a profile, desync, count repeats | the packets of both directions |
| command lines and start of both programs, `upstream/tpws/tpws.c`, `upstream/nfq/nfqws.c` | profiles, lists, splits, fakes; binds, pid file, rights | read options, complete and test them, wait for addresses, listen, daemonize, reload | files, interfaces, signals |
| uninstaller, DNS repair, reports, list tools, firewall scripts of other systems | | | see section 6 |

The scripts share nothing but files, launchd and PF, take no lock, and run
concurrently: the user's command, the network watch (a launchd job with an
interval) and the boot loader (a launchd job that start loads anew). `tpws` is a
single-threaded event loop with resolver threads; loop and threads share an
item list (mutex, semaphore) and a pipe. On macOS its epoll is a library over kqueue.

### What is hard about it

* Scripts read `desired-state`, WARP, the network id or the config, sleep, and act
  on what they read; another script has changed it in between.
* A restart of the machine cuts scripts short anywhere; launchd then loads the
  KeepAlive job whatever `desired-state` says.
* launchd starts `tpws` again at any moment while a script kills it, boots the
  job out or rewrites the config.
* In `tpws`, several events of one batch concern the same connection; handling one
  closes legs, fills buffers or changes masks that another one relies on. Bytes
  of one direction wait in up to three buffers and in the kernel.
* Flow control must neither stop listening on both sides nor leave data that no
  event would flush; ends of stream are deferred while data is unsent.
* A resolver thread answers for a connection that may have been closed, and whose memory another has.
* The epoll shim asks for kqueue filters according to what it has already heard: one filter too few and the
  loop sleeps for ever.
* An update, a rollback or an installer is cut short in a copy, or goes on because a pipe hides
  the status of git and make; what starts tpws meanwhile finds half a tree.
* A list file is checked, read, appended to and signed for in steps between which other processes write it.
* The menu shows answers in the order in which background jobs end, not in the order they were asked.
* A hello in pieces, out of order or repeated is to be treated as the whole one would be, though the profile is
  known only when the host name is.
* The options of a command line have effects that depend on those before them, and the network changes while
  a program starts.

`PROJECT.json` lists these hazards at their lines with the properties that cover
them, and those no module covers yet.

### What makes each part correct

* Switch: when all scripts have ended, job, PF and process are what
  `desired-state` says; off stays off; on comes back.
* Config: a running `tpws` has the current config; a mode or strategy that was
  chosen is in force; a probe saves a strategy that works.
* Relay: the bytes a peer sends reach the other one in order; ends of stream come
  after the data; connections and legs are freed; counters are exact.
* Resolver: each question is answered once, to the connection that asked, and no memory is used after it was freed.
* Epoll: what is due is reported, nothing else is, and nobody is left out for ever.
* Engine update and rollback: a whole engine is left somewhere however they are cut
  short, and in place when they end; nothing runs from a tree that is being
  replaced; an update leaves Zapret on.
* Self-update: one interruption never costs the last complete engine, an incomplete package is undone,
  the version names the engine in place, the user's hostlist survives.
* Automatic hostlist: memory is what the file it goes by holds; only hosts that failed often enough, soon enough, are
  added; only listed hosts are treated.
* Menu: in the end it says what is so, and it is not busy.
* nfqws: what is held back leaves, once and in order; a server reads what the client sent; only real repeats count.
* Command lines and start: a profile is what its part of the line says; a program that serves listens where it was
  told to, with the rights it was to have.

## 2. Modules

| module | models |
|---|---|
| `TpwsConn`, `MCTpwsConn` | the connection engine of tpws, and its instances for TLC |
| `TpwsConnProofs` | its proofs: types, relay and buffers, then wakeups, half-closes, memory and the contract with the resolver |
| `Resolution` | abstract: what a connection and the resolver promise each other |
| `Resolver` | the threaded resolver |
| `Epoll` | abstract: the level-triggered epoll that the event loop relies on |
| `EpollShim`, `EpollShimProofs` | the epoll of macOS, and its proofs |
| `ZapretControl`, `MCZapretControl`, `ZapretControlProofs` | the control plane: scripts, launchd, PF, files, network |
| `EngineUpdate`, `EngineUpdateProofs` | engine update and rollback, step by step |
| `SelfUpdate`, `MCSelfUpdate`, `SelfUpdateProofs` | update check, download and installer |
| `Menubar` | the menu bar application |
| `AutoHostlist`, `MCAutoHostlist` | the automatic hostlist of tpws |
| `NfqDesync`, `NfqConn`, `MCNfqConn`, `NfqConnProofs` | a connection through nfqws, the segments its packets leave in, and its proofs |
| `Options`, `TpwsOptions`, `NfqwsOptions` | the command lines of both programs |
| `Process`, `TpwsStart`, `NfqwsStart` | their start |
| `Startup`, `MCStartup` | options and start together, with their properties and the command lines that are checked |
| `StartupProofs` | the proofs of the start, and those of the resolver, the thread pool tpws starts with it |

### `TpwsConn`

State: `pair[c]` is a connection, a function from side (`local`, `remote`) to a leg; a leg
is `struct tproxy_conn` reduced to what the loop decides by (state, `bShutdown`,
`SO_LINGER`, `orphan_since`, SOCKS state, flow flags, the cached and the real epoll
mask, the three send buffers) together with its kernel socket (bytes that
have arrived, end of stream, reset). `batch[c][s]` are the events of the current
`epoll_wait` result not handled yet, `items` the resolver's items, `legs` the two counters.

A handler is sequential C, so it is an operator from connection to connection
(`HandleEpoll`, `HandleRdhup`, `HandleHup`, `HandleUnsent`, `ReadAllAndBuffer`, ...), named
after its function; what the kernel answers (how many bytes `recv` and `send`
take, whether `connect` succeeds, which buffer is full) is chosen by the action.
Actions: `EventAccept`, `EpollWait`, the handling of one event of the batch (`EventHup`, `EventRdhup`, `EventInOut`,
`EventSocks`, `EventResolved`, ...), `BatchEnd`, which frees closed legs, and external ones: peers send, finish, reset,
the target accepts or refuses, the resolver answers.

Bytes are positions in the stream their sender produced. A send buffer is an
interval of positions, so "in order, nothing lost, nothing repeated" is a
statement about interval ends (`InOrder`).

Two abstract modules connect it to its neighbours. `EpollWait` allows what `Epoll` allows and no more: when there are
more legs than the array has room for, the events of some are held back (`Crowded`), and the hangup of a leg may come one report late
(`HangupMayBeLate`). `KeepsResolution` says that the loop implements `Resolution` from its side; the resolver implements it from the other.

### `Resolution` and `Resolver`

`Resolution` has, per connection, whether it is alive and where its question is (`none`, `asked`, `answered`). `Deliver` gives an answer
to the live connection that asked; `Forget` drops the questions of connections that are gone; nothing is promised after a call has failed
or the resolver was stopped (`up`).

`Resolver` is `resolver.c` with the part of the loop that feeds it. An item is the address `calloc` returned, so an address
may be used again. `resolve_list`, `sem`, `pipe` and, per thread, `pc` and `hand` are the places where an item may be; `ptr` and `ri` are the
pointers from item to connection and back. A thread goes `top`, `checked`, `wait`, `take`, `resolve`, `write`; the loop's steps
are `QueueItem` then `PostItem`, `ReadPipe` (with `ResolveComplete`), `CloseConn`, `FreeConn`; `Deinit`, `KillThread`, `ClearList` are `resolver_deinit`.
A failing `sem_post` or a short write is `PostFails`, `WriteFails`; the use of freed memory sets `corrupt`, and the model ends there.

### `Epoll` and `EpollShim`

`Epoll` is the contract: a call returns when something is due, reports of a descriptor all that was due when it looked, and a hangup may be late once.
`EpollShim` has the kernel's sockets, the knotes and the queue of active ones (with those that come before others),
and the shim's nodes. `Feed` turns one kevent into events, `Complete` registers the filters a node needs after the
batch (`NeededFilters`), `Modify`, `Add`, `Delete` are `epoll_ctl` as tpws uses it. Level-triggered sockets only: tpws registers nothing else.

### `ZapretControl`

A script is a sequence of commands (`ZapretStart`, `ZapretStop`, `RestartKeepAlive`,
`SetModeScript`, ...); `todo[p]` holds the commands process `p` has not run
yet, `vars[p]` its shell variables. One step is one command that reads or writes something
another script can see, so two scripts interleave exactly where they can in
the shell. Processes are the user's sessions, the network watch and the boot loader.
`config` is the pair (`MODE_FILTER`, strategy in `TPWS_OPT`); copy-and-rename
rewrites are a read (`ConfigRead`, `ModeRead`) and a write (`ConfigWrite`,
`ModeWrite`) with the copy in `vars[p].seen`. launchd is `Spawn` (the job's script reads the
config), `Exec` (it becomes `tpws`) and `Die`; `pkill -x tpws` does not reach the job
before `Exec`. `Reboot` ends every script, clears PF and the process, and loads the
job and the boot loader, which is what launchd does with the plists in
`/Library/LaunchDaemons`. `Begin` and `Done` keep the history variable `raced`: a script that
turns Zapret on overlapped one that turns it off, for which no outcome is
promised.

Assumptions about launchd: bootstrapping a loaded job does nothing, booting
out a job ends its process, and bootstrapping the boot job runs it again.

### `EngineUpdate`

State: `opt` is `/opt/zapret`, a `Tree`: the version of its scripts (`common`,
`init.d`, `ipset`) and of its executables (`binaries`), whether `local-tools`, the config and the
user's hostlist are there, and in `src` the upstream working copy, which an update by itself clones
into the tree. `bak` are the backups in the order of their names, `latest` the mark in
`zapret.latest-backup`, `pc` the next step of the running script, `dir` its `BACKUP_DIR`; `desired`, `job`, `tpws`
and `pf` are the switch, as in `ZapretControl`; `boot` are the jobs launchd has started and that have
not run yet, `legacy` is the link `zapret.plist` in `LaunchDaemons`, `watch` says that the network watch has read "on" and works.

One action per step that changes any of these, named after what the script does there. A copy
is a directory cut short (`CutCopy`) until it is complete; `Fail` ends the script in it (`set -e`), and `Reboot` anywhere.
git and make may do anything short of their result, because `| tee` hides their status:
`Pull` takes some version or stays, `Make` builds, leaves the directory without executables, or does nothing.
`Die` stands for an engine that does not start as well as for one that dies.
`Spawn` is launchd with KeepAlive, `BootReads`, `BootLoads`, `BootUnloads` and `LegacyBoot` are the jobs of a restart,
`WatchReads`, `WatchMakesDir`, `WatchStarts` and `WatchReloads` a profile applied or a network probed. Boot loader and watch read
`desired-state` where they begin and act on it later, in any step of an update, a rollback or a command of the user: neither is ended by a stop.

`ZapretControl` has the interleavings inside `zapret_start` and `zapret_stop`; here each is one
step. Of the timing it is assumed that the boot loader that a start sets off and that waits half
a second has ended when the start has waited its second or three. `squat` says that the watch has made a directory between its `rm -rf` and its `cp -a`, which
then copies into it. History variables: `blind`, a rollback has found no mark and taken the newest directory; `late`, since the last stop the job was
loaded by one who had read "on" before; `stale`, tpws was started from a tree that has been replaced since.

### `SelfUpdate`

The installer is one sequence of commands, `pc` the next one; `CommandFails`, `CutShort` and `Reboot` end it anywhere. `opt` and `baks` are
trees: a number that tells trees apart, the version, whether it is `whole`, has the scripts (`tools`), and was dated by
its end; the backups are in the order of their dates, as `ls -dt` lists them. Versions are sequences of numbers compared as
`ver_lt` does (`VerLt`, which an assumption of `MCSelfUpdate` compares with a reference). `torn` counts installers cut short since the last that
came to its end, `denied` is that self-update has written a version whose installation failed, `clobbered` that an edit was overwritten. One installer at a time:
nothing in the code keeps two apart, and two at once are not modelled.

### `Menubar`

`jobs[s]` is what runs on a background queue, step by step: `ReadStatus`, `ReadVersion`, `AskLatest`, `RunCommand`; `Post` puts its result on
the main `queue`, where `ApplyStatus`, `HandleCheckUpdateResult`, `HandleCtlResult` and others take it in turn. An `alert` holds the
main queue back until it is dismissed. The world (`on`, `version`, `latest`, `online`) also changes without the application.

### `AutoHostlist`

A handler is cut at the file operations between which other processes act: `job[p].step` is `read` (a stat has found the file
changed), `append`, `sign`. `sig[p]` is the time and size of the file that process `p` goes by, `mem[p]` what it has in memory; an empty list holds the
`Marker`, which is a domain of no host (`HostAssumption`: labels hold no `@`). A file has as many lines as its `size` says: its lines are a bag, of which a process
reads the set. `RstIn`, `HupOut`, `RedirectIn` and `ReplyIn` are the answers to a watched request; `fails` and `purged` the counters in `pools.c`.
`has` are the profiles of each process, which share one `purged`; `purger` remembers for which of them the purge of that second was. `apart` are the
processes whose memory is known not to be what the file they go by holds.

### `NfqDesync` and `NfqConn`

`NfqDesync` gives the segments in which a packet leaves under each strategy, with the order, the overlap (`seqovl`) and the fakes, and what a server makes of them (`Read`).
`NfqConn` is `dpi_desync_packet` for one connection: each step takes a packet (`FromClient`, `Replies`) through conntrack, `TcpDesync` or `UdpDesync`,
and gives in `io.out` what leaves. Held packets are `t.delayed`, the hello put together so far is `t.reasm`. The client sends, repeats and reorders what its window allows; sequence
numbers are modulo a small `Modulus`, so that they wrap. `Reopens` is a new connection on the same ports, an entry may be purged when a packet comes, and a
SYN,ACK of the server makes an entry, or begins one anew when it acknowledges another SYN (`FeedReply`).

### Command lines and start

An option is its name and its argument, an argument the sequence of its items. `Options` has what both programs share (profiles, `--new`, `--skip`, lists, ports, numbers);
`TpwsOptions` and `NfqwsOptions` have one action per group of options, the checks after the last one and the dry run. `Process` is the way from
the command line to the loop (`pidfile`, `rights`, `lists`, `daemon`, `pid`, `serve`) and `Reload`; `Found` is what the process finds of its files, in the directory it was started in or, as a daemon, in `/`;
`TpwsStart` adds the search for addresses with its waits and `Listen`, `NfqwsStart` the
queue, the logical network of Windows and the end of the receive loop. `Startup` puts them together.

## 3. Runs

| run | configuration | expects | properties | shows |
|---|---|---|---|---|
| tpws_relay | TpwsConnRelay.cfg | pass | `RelayIntact`, `NeverFatal`, `NoLostWakeup`, `FinForwarded`, `EndedIsFreed`, `Relayed` | One transparent connection, two bytes one way and one the other: every interleaving of data, ends of stream, resets and connect results with the events of a batch keeps the relay intact, never overwrites a buffer and never leaves a leg that nothing would wake or close; under a loop that never stops and peers that keep reading, data is relayed, and ended or orphaned connections are freed. |
| tpws_socks | TpwsConnSocks.cfg | pass | `ReplyBeforeRelay`, `LegsAccounted`, `KeepsResolution` | A SOCKS connection and a silent second one that competes for maxconn and for the memory of the first: the client's reply precedes relayed data, legs_local and legs_remote count the legs allocated and no event or item points to one that is freed, and the loop keeps its side of Resolution. |
| control_switch | ZapretControlSwitch.cfg | pass | `SwitchHolds`, `RunsCurrentConfig` | Stopping and changing the mode (which starts) next to a probe of two strategies, the boot loader and restarts of the machine: when all scripts have ended, job, PF and tpws agree with desired-state unless opposite scripts overlapped, and tpws runs with the config in place. |
| control_networks | ZapretControlNetworks.cfg | pass | `NetworkIsProfiled`, `Revives` | A machine that roams between two networks, restarts and uses WARP ends with the profile of the network it stays in saved and applied, and left on, tpws comes up again however often it dies. |
| engine_update | EngineUpdate.cfg | pass | `NothingLost`, `EndsWhole`, `OldEngineEnds`, `UpdatedIsOn` | Two updates, to the next version or none, with git and make failing unseen, copies that fail, engines that do not start, rollbacks by hand, the switch, the network watch, a boot loader under way and restarts of the machine anywhere: a whole engine remains, what ends well is whole, no tpws of the old tree outlives its replacement, and an update leaves Zapret on. |
| resolver | Resolver.cfg | pass | `ItemsAccounted`, `ImplementsResolution` | Two resolver threads, two connections that come and go, a pipe for one answer and one call that may fail: until a call fails no item is lost, doubled, freed early or answered to another connection, and the pool implements Resolution, liveness included. |
| auto_hostlist | AutoHostlist.cfg | pass | `GoesByItsFile`, `FailuresWithinTime`, `OnlyListed` | Two tpws processes with one automatic profile share a list that the user edits too, or one has two profiles, of which the first in a second is the only one purged; they die between any two file operations: memory follows the file each goes by, no line is written twice by a process that knows it, the failures that add a host of the profile that is purged are within fail_time, and only listed hosts are treated. |
| self_update | SelfUpdate.cfg | pass | `WholeKept`, `LeavesWhole`, `NotCutOff`, `ListKept` | Three installers, by the update of the app or from disk images, each cut short or failing at any command or given an incomplete package, with restarts of the machine and an edit of the hostlist in between: one interruption never costs the last complete engine, an incomplete package is undone, PF never diverts without a job to answer, and the hostlist is lost only by an edit during the installation. |
| menubar | Menubar.cfg | pass | `MenuSettles` | Two background jobs of any kind at a time, with clicks, alerts, a relaunch, a release and changes behind the application's back: once all that stops, the menu ends up saying what is so and is not busy. |
| epoll_shim | EpollShim.cfg | pass | `NeverDeaf`, `ImplementsEpoll`, `EveryoneHeard` | A connection and a listening socket share an array with room for one event: whatever ends, resets, arrives and is asked for anew between and during the calls, epoll_wait of the shim never sleeps over an event, reports what a level-triggered epoll would and leaves no descriptor unheard for ever. |
| nfq_conn | NfqConn.cfg | pass | `FailureIsRepeated`, `Conserved`, `HelloTreatedWhole`, `HelloIsRead`, `Delivered` | One TCP or QUIC connection whose hello comes whole, in pieces, out of order or again, under ten configurations of lists, cutoffs and strategies: pieces held back leave once and in order, each is treated as the whole hello is, the server reads what the client sent, and only real repeats count as a failure. |
| startup | Startup.cfg | pass | `ProfilesAsWritten`, `HellosConsistent`, `ListensAsAsked`, `ServesAsAsked`, `Settles` | Forty-three short command lines on Mac, Linux, BSD and Windows, each with every choice of one to four options of one part of the parser, read to the end and started while the network changes: profiles are what their part of the line says, fakes stay readable hellos, tpws listens where it was told to and no start ends half-way. |

### Bounds and why they are enough

* `TpwsConn`, relay: one connection (connections share only the counters), two bytes from the client and one from the target
  (`Brief`), so a byte can be in the kernel while another is in a buffer, a write can be partial, and with an
  end of stream every one of the three buffers is used; `MaxEvents` = 2, so nothing is held back. SOCKS: a second,
  silent connection (`Quiet`) competes for `MaxConn` = 1 and for the memory of the first, `MaxEvents` = 1, so that events are held
  back, one byte each way. The theorems hold for any number of all of these.
* `Resolver`: two threads and two connections are the fewest that can be confused, two items for two connections make an address
  be used again, a pipe for one answer makes a thread wait. `MaxFaults` = 1. The theorems hold for any number.
* `EpollShim`: a connection and a listening socket with room for one event, so that one can keep the other from being heard; all masks tpws uses.
* `ZapretControl`: one session next to network watch and boot loader gives
  three concurrent scripts; two strategies are the fewest for which a trial can
  fail and a later one succeed; two networks are the fewest to roam. Each script
  runs any number of times: the state space is finite without a step bound. The theorems hold for any sessions, networks and strategies.
* `EngineUpdate`: two backups, hence two updates, are the fewest in which one can back up what another has
  left, and a cut backup can follow a whole one; one version after the installed one is enough to tell a mixture
  from an engine. Rollbacks, restarts and commands of the user are not bounded. The
  theorems hold for any number of versions and backups.
* `SelfUpdate`: three installers are the fewest with which a backup falls out of the two that are kept; one edit of the hostlist.
* `Menubar`: room for two background jobs, which can end in either order; two releases, two launches, one change by others.
* `AutoHostlist`: two processes with one profile each, or one process with two profiles (`Lines`); a threshold of two within one second, times up to two, which lets a counter
  expire before another profile is the first of its second; one change by others or death of a process. Processes are interchangeable (symmetry).
* `NfqConn`: ten configurations (`MCConfigs`) of protocol, lists, cutoff and strategy; a hello of four units with the host name in the first three, a window that
  takes it whole; sequence numbers modulo 16, which in most configurations wrap inside the hello; thresholds of two; one purge, reopening or entry begun anew.
* `Startup`: 48 beginnings of command lines (five of them name lists, one of them by a relative name, for a program that may become a daemon or another user), each continued by every choice of one to four options that meet in one part of the parser; up to three
  splits and two binds; five networks and two changes between them.

### Fairness

* `TpwsConn`: the loop keeps handling events (`event_loop` never blocks outside `epoll_wait`), `connect` ends (the kernel
  has a timeout), and peers keep reading: the socket of a leg that is watched for room has some again and again, and then takes something.
  Nothing is assumed of what a peer sends.
* `Resolver`: threads run (strong fairness for the write to the pipe, which others may fill again and again), the lookup of the system library returns, and the loop
  posts what it has linked and reads the pipe.
* `EpollShim`: a call of `epoll_wait` goes on, and the loop always calls it again. `EveryoneHeard` has as a premise that descriptors are not registered anew for ever.
* `ZapretControl`: a script that can run its next command does (weak fairness per
  process), launchd starts a loaded job and its script executes (KeepAlive), and the network
  watch runs every 15 s. Nothing is assumed of users, deaths of tpws, restarts, roaming or
  WARP: the two liveness properties have as a premise that the machine is not restarted for ever
  and that, from some time on, the user leaves Zapret on and the network does not
  change (`Settled`).
* `Menubar`: background jobs and the main queue go on, and the timers fire (strong: they fire only while no alert holds the main queue). Nobody has to
  click, to close an alert or to start the application.
* `NfqConn`: the client hears of acknowledgements and, until its hello has arrived, repeats it, as TCP and QUIC do.
* `Startup`: the program takes its next step. The logical network that Windows waits for may never come.
* `EngineUpdate`, `SelfUpdate` and `AutoHostlist` have no liveness property and no fairness.

## 4. Findings



### In `tpws`

* `tpws_conn.c:1746` ends the stream to a peer although data for it is still held, where the comment at 1703 says that the
  shutdown is delayed (`ShutdownDelayed` of `TpwsConn` states it; it does not hold).
* `tpws_conn.c:1154`: `send_oob` returns -1 when the socket is full in the middle of a split block; the loop at 1310 ends and the rest of the block is neither sent nor buffered, which the
  comments at 1315 and `tpws_conn.h:92` mean to do. With `Split` = TRUE TLC violates `RelayIntact`; hence the hypothesis of `RelayStaysIntact`.
* Resolver: a failed `sem_post` frees an item that stays in the list, and a failed write to the pipe loses one; `resolver_deinit` may wait for a thread for ever, because the signal
  can come before `sem_wait` (`resolver.c:72`).
* Epoll shim: a hangup may be reported late; a descriptor registered anew again and again starves those behind it; `cnt` is tripled at every turn of a loop (`epollfd_ctx.c:1256`).
* Automatic hostlist: with two automatic profiles the failures that add a host may be older than `fail_time`, because the time of the last purge is one for all (`pools.c:115`), against `tpws.c:253`:
  a profile whose events never come first in a second has its counters never purged. `FailuresWithinTime` is about the profile that did come first (`purger`); without that premise TLC violates it in the same run;
  `hup_out` and then `rst_in` count one attempt twice; the signature taken after an append (`tamper.c:587`) hides lines others wrote meanwhile, against
  `upstream/docs/readme.en.md:1285`; when a list cannot be read again, a host counts as not listed and not excluded.

### In the scripts and the menu

* `README.md:102` calls off permanent; the boot loader and the network watch read `desired-state`, wait, and load the job, so an off in between is undone: two opposite scripts at once have no promised outcome (`raced`).
* A probe runs as root, which PF does not redirect (`upstream/common/pf.sh:129`), so its trials never go through the strategy they test.
* `sync_config_to_opt` overwrites the strategy that a profile has applied (`lib.sh:222`); updating the lists replaces the config under a running tpws, hence the hypothesis of `CurrentConfig`.
* `zapret-set-mode.sh:66` turns Zapret on whatever the user chose, and so does the installer.
* The stop of an update does not end the network watch nor a boot loader under way: either may load the job while `/opt/zapret` is being replaced (`zapret-apply-profile.sh:6`, 59), so
  `OffWhileReplaced` has `late` as its exception; what it starts is gone by the self-test and by the end (`RunsWhatIsThere`), but not after an automatic rollback, whose `zapret start` of init.d ends no tpws.
* The watch makes `init.d/macos/custom.d` (`zapret-profile-lib.sh:254`): right after `rm -rf /opt/zapret` of a rollback the backup is then copied into `/opt/zapret` under its own name (`squat`).
* An automatic rollback (`zapret-update-engine.sh:68`) leaves Zapret started by init.d as a daemon, without the job, and off after a restart; the config saved at line 59 is written back minutes later.
* Installer: two interrupted installations and a third may lose the last whole backup (`WholeKept` has `torn < 2`); the version is written before the result is looked at (`zapret-self-update.sh:179`, 182); an edit of
  the hostlist during an installation is overwritten; backups of engine updates share the names of the installer's.
* `menubar/main.swift:615` waits for a process to end before it reads its output: one that writes more than a pipe holds keeps the menu busy for ever.

### In `nfqws` and the command lines

* ACKs without payload overtake held data; a purge, a new SYN or a SYN,ACK for another SYN drops what is held; in a replay the cutoff is not looked at again when the host name reveals another profile; an entry made by a SYN-ACK searches the
  profile with the client's own address; junk of `seqovl` is read when a client repeats in one packet what went out in several.
* `pf_parse` returns for `*` without setting `neg`, so `--filter-tcp=~80,*` may match nothing; a SIGHUP that comes while the lists are read again is lost; options before `--skip` keep their effects outside the profile;
  a wait for an interface reports a timeout though it came up in the last second; `daemonize` changes to `/`, after which a list named by a relative path is not found: the first reload leaves it as it was in memory for ever (`ServesAsAsked` asks nothing for these).

## 5. Proofs

All theorems are checked by `tlapm` for every value of the constants, from the assumptions
named in the modules that declare them (finitely many slots, bounds that are numbers, options that are Booleans, null values that are no others'). `PROJECT.json` lists the
theorems under "theorems". The argument of each is an inductive invariant: the properties themselves hold in every reachable state but say too little about what comes next.

### Connection engine

* `TpwsConnProofs`, `TypeCorrect`. One lemma per operator says that it takes legs to legs or
  connections to connections, with the ranges of the kernel's answers as hypotheses; one
  step per action combines them.
* `TpwsConnProofs`, `NoFatalBuffer` and `RelayStaysIntact`. That a buffer is empty when it is filled follows from the state of the leg
  that is read. Buffer 2 of a leg is filled by the RDHUP of its partner, which
  happens once because epoll is not asked for RDHUP again; that in turn needs the cached
  mask to be right (`MaskInv`: the mask in the kernel is the cached one unless an update is still due).
  Buffer 3 is filled only when the partner closes. A SOCKS client has relayed
  nothing when its remote leg is created (`Fresh`). And an RDHUP event in the batch belongs
  to a leg that exists and has not seen one (`BatchInv`). `Inv` is the conjunction; each operator has a lemma
  about the part it can disturb, each action a step.
* `TpwsConnProofs`, `NothingIsStuck`, `HalfCloseIsPassedOn` and `RepliedFirst`, from one invariant, `ProgressInv`: of every connection, `LiveInv`. Its parts are the three properties of one leg (`Waited`, `Kept`, `Forwarded`, `Replied`),
  the cached mask (`CachedInv`), and, what makes it inductive, a target that is being connected to (`Connecting`): it is watched for
  EPOLLOUT only, its first event tells that it has answered, and until then the client has got nothing and is not read. A handler
  breaks this between `check_connection_attempt` and the `epoll_set_flow` or the close that it ends with: data was read, the flow is not set yet. `Half` is what it keeps in between, and every
  way out of a handler is shown to restore `LiveInv` from `Half`.
* `TpwsConnProofs`, `MemoryIsAccounted`. `RefInv`: a leg that waits for an answer is there and in the state for it, exactly one item points to it, and items point only to such legs. It is kept because the handlers change no pointer but
  those of `SocksAges` and `ResolvedEffect`, and freeing a leg detaches its item. `CountInv`: the counters are cardinalities; accepting and
  connecting add one slot, the end of a batch takes off those that are closed.
* `TpwsConnProofs`, `AnswersFindTheirAsker`: the refinement of `Resolution`. Each action of the loop is mapped to one of `Resolution` (`EventAccept` to `Open`, `EventSocks` to `Ask`, `ResolverAnswers` to `Answer`, `EventResolved` to `Deliver` or `Forget`, the events that close a
  local leg to `Close`, `BatchEnd` to `Forget`) or leaves its variables alone; that the answer taken from the pipe is the asker's own is `RefInv`.

### Resolver

* `StartupProofs`, `ResolverTypeCorrect`, `EveryItemAccounted` and `KeepsPromise`, from `ItemInv` = `Basic` (types; a thread has an item between `take` and `write`; as many tokens as items) and `Sound` (an item is in one place, once; the pointers agree, but for the
  connection whose item is linked and not posted yet). `KeepsPromise` is the safety half of `ImplementsResolution`. Together with `AnswersFindTheirAsker` both sides of `Resolution` are proved.

### Automatic hostlist

* `AutoHostlistProofs`, `TypeCorrect`: an action changes what belongs to one process, and the file (`ListsStep`, `CountsStep`, `AllTyped`); in it, `Named`: a handler that will add a host has one.
* `MemoryFollowsFile`. `GoesByItsFile` alone is not inductive: another process writes after a process has taken time and size and before it reads. `SigInv` adds that nobody goes by, or has
  taken, a time and size that a later file could have (`NotAfter`), because every change makes the file newer or, within a second, longer (`FileMoves`). A step of another process then
  leaves what `p` goes by as it is, or behind (`OthersGo`).
* `OnlyListedHosts`, an action property: only `Checked` applies the strategy, with a list that is not empty (`VerdictFacts`); that labels of a host end in those of a line is what `IsSuffix` says (`SuffixIs`, `SuffixWithin`).
* `FailuresAreRecent`: in a second in which a purge has been, no counter of the profile it was for has expired (`Within`), whatever the events of other profiles do in that second; they purge nothing and leave `purger`. For a profile that was
  not the first the statement is false, as section 4 says.

### Epoll shim

* `EpollShimProofs`, `NothingIsMissed`. `Inv`: what the shim knows of ends of stream has happened, kevents tell what is so, outside a batch nothing is left of one,
  a level-triggered knote with something to tell is active, an EV_CLEAR knote tells of an end until the shim has heard of it (`ClearHeard`), and the knotes are those the node needs unless tpws has just been told something
  that makes it change the mask (`Fits`). The last is what is easy to get wrong: a completion that registers nothing is right only because of it.
* `ReportsWhatIsDue`, the safety half of `ImplementsEpoll`: `Call`, `Look` and `Return` of `Epoll` are the beginning of `epoll_wait`, its call of `kevent` and its end; kevents that are fed and
  knotes that are registered are stutters, and whatever happens to a socket, or `epoll_ctl`, is `World`. `ReportInv` adds to `Inv` what a batch says of what was due when `kevent` was called (`owed`): a kevent still tells what it
  told (`KevsTell`), a filter that was heard has been gathered (`HeardTold`), and what is owed is gathered or in a kevent to come unless it is a hangup that may be late (`AllComing`). A hangup needs the ends of
  both filters: when one is heard in the batch and the other was not active, it comes with the next report; that it is late only once is `LateKnown`. When kevent had no room for all, more
  descriptors are registered than `epoll_wait` was given room for (`FullCrowded`, by counting knotes), which is when `Epoll` lets descriptors wait.

### nfqws connections

* `NfqConnProofs`, `TypeCorrect`, `FailureRepeated` and `PayloadConserved`, for any sizes, initial sequence number, configuration and strategy. A packet is followed through its handler, part by part. A part of it either goes on
  (`Goes`) or is done with the packet (`Done`): what has left and what is held (`Line`) is the same, or has the packet appended. Whatever judges a packet (`Discover` and what it calls) only moves what is known of the connection and sends it (`Treats`).
* `FailureIsRepeated` needs most of `Inv`: that a packet counts as a repeat is decided by an interval of sequence numbers, so the interval must begin with the stream and end with something that was sent (`RequestOk`), and reassembly, which makes the interval grow,
  must hold exactly the beginning of the stream and expect what follows it (`ReasmOk`). A SYN, and a SYN,ACK for another one, begin the entry anew (`SynOk`). Of QUIC, where every Initial of a known host counts, the host must be known from a whole hello (`QuicOk`), and one that is held is not whole yet (`Missing`).
  `Counted` bounds the entry's counter by the repeats. TLC checked these parts on the run's instance and on a longer stream before they were proved.
* The replay is a fold over the held packets. The library's induction theorems take a predicate, which cannot be instantiated here, so `SetInduction` derives induction for a set from the well-foundedness of `<`; with it `FoldExists` and `FoldIs` say that the fold is what the
  step makes of each prefix, and `ReplayedAll` follows the held packets one by one.

### Control plane

* `ZapretControlProofs`, `TypeCorrect`, `SwitchIsKept`, `CurrentConfig`. The argument is about what scripts have still to do. In a script that turns on, every command that turns something off is
  followed by the one that turns it on again (`Closed`); a script that does not only turns off (`PureOff`). Every write of the config is followed by a bootout (`Reloads`). Only
  the boot loader reads `desired-state` at boot (`Booting`). `Due`: a tpws that runs has the config in place, or some script has a bootout to come. `Going`: no script turns on
  while another turns off, and what `desired-state` says and is not so yet, some script will do. `CurrentConfig` excludes the command that updates the lists (section 4).

### Engine update and installer

* `EngineUpdateProofs`, `EngineIsKept`, `EngineEndsWhole`, `OldEngineIsGone`, `UpdateLeavesOn`. Each has an invariant of
  its own. `EngineIsKept` (`IInv`): a backup is a copy of the tree in place before anything is marked, so once there is a mark
  some backup is whole, and what takes the tree apart comes after a mark (`Backed`).
  `OldEngineIsGone` (`OldInv`): while the tree is replaced no legacy job is left to run, whoever loads the job either read "on" before or ends every tpws first, and what does not run is not stale. `EngineEndsWhole`
  (`WholeInv`): what is certain of the tree at each step when the backup is whole; only the executables may be
  missing at the end, and then nothing runs and the update rolls back (`AsBacked`). `UpdateLeavesOn` (`OnInv`): what is not
  loaded, the boot loader will load.
* `SelfUpdateProofs`, `HostlistIsKept` (`ListInv`: what the installer holds is the user's last edit), `InstallerLeavesWhole` and `InstallerCutsNobodyOff` (`Installed`: numbers tell the
  backups apart; a complete tree is the newest by date, because the config is copied after the scripts; the tree that is made has the version of the task; the rules are flushed before the tree goes, because the old tree is whole, and come back before the job does). `EngineSurvives` (`Kept`): a complete tree or backup is never the one that pruning takes away, as long as one installer at most was cut short.

### Start of tpws and nfqws

* `StartupProofs`, `SpecInv`: types and order of the start, for both programs on every system. While options are read, the invariant has what they have changed (`LineRead`: the line, the files and
  whether they can be read, the binds, the rights), for which every option is shown to be one of a few effects on these (`Reading`), and that nothing has started (`NotStarted`). From then on the steps left are an end of
  the sequence the program began with (`TodoOK`), so a step that is no longer left was taken, and `RunsOK` says what each step taken has brought about.
* `SpecServes` (`ServesAsAsked`) is what `RunsOK` says at the last step: rights are dropped before the program serves, and every list was tested with the rights it has then (`ListsReadable`), before the
  change to `/`, which only a daemon makes (`ListsFound`); the pid file is written by the process that will
  serve, and a daemon tells its caller of success only when its sockets are open; the order of Windows is the exception.
* `SpecListens` (`ListensAsAsked`), from `ListInv`: every socket found so far answers its bind (`ListensAsAsked` for each of them), a bind that is being searched has spent the time its choice needs, and
  the binds are those of the line, because `listen` begins with no socket and the networks it looks at are typed (`TpwsStartAssumption`).
* `SpecProfiles` (`ProfilesAsWritten`), from `PartsInv`. What a part of the line gives (its lists, its items, its ports, its splits) is told from the sequence of options alone, so the argument
  goes option by option: one more option belongs to the part that is described (`AmongAppend`, `NamesAppend`, `ItemsAppend`) or begins the next one (`EndedMore`), and the parts before keep
  what they had. While options are read (`ProfilesOK`) the profiles are those of the parts that have ended and are not skipped, in order, and the one that is described, and each has what its part has given so far.
  For the lists this needs who owns them: a registered file keeps its name whoever shares it, and a list without a file is in one collection of one profile, the one that is described, as long
  as `anon` names it (`Owners`): otherwise items added for one profile would appear in another. Completing a profile changes neither (`CompletedFinished`), so the profiles of a program that starts are `Whole`.
* `SpecHellos` (`HellosConsistent`), from `FakesInv`, for every line and from `BlobsAssumption`: a file given for a fake is no TLS hello, or one whose lengths fit and which is as long as the file, and the hello built in is there.
  While options are read (`FakesOK`) a fake has a file and begins inside of it, a new name has a length, and part by part the property is true already, of the changes that are due and not yet made: the profile has as many hellos as its part
  has asked for, each of them with the words of the last `--dpi-desync-fake-tls-mod` that reaches it, and `tls_mod` has those of the last one at all, because the next hello begins with them (`Follows`). A hello that comes is the last of its part (`HelloAsked`), and
  so are changes, which the last hello gets in place of what it had (`HelloChanged`); both rest on counting up to the largest number of a set (`CountMore`, `LatestThere`). When the line is read, a
  hello is built in only where none was asked for (`WithBuiltIn`), and a name written over another, or a padding, leaves every length what it counts (`RemadeNested`), so what is made follows what was asked (`CompletedHellos`, `MadeAsked`).

### Only model-checked

All liveness properties, and the liveness halves of `ImplementsResolution` and `ImplementsEpoll` (the prover handles neither fairness nor ENABLED).
`HelloTreatedWhole` and `HelloIsRead` say what the segments of a strategy amount to when they are put together again. The receiver is a fold over them, so a proof is an induction for each strategy; TLC runs them all.
By run: tpws_relay: `EndedIsFreed`, `Relayed`; control_networks: `NetworkIsProfiled`, `Revives`; resolver: `ImplementsResolution`; menubar: `MenuSettles`; epoll_shim: `ImplementsEpoll`, `EveryoneHeard`; nfq_conn: `HelloTreatedWhole`, `HelloIsRead`, `Delivered`; startup: `Settles`.

## 6. Not modelled, and why

* `tpws`: `splice()` (not built on macOS), failures of allocation and of
  `epoll_ctl`, the contents of what is relayed, and what desync adds to a block
  (extra bytes count with the position they are attached to). Where a request is cut, the spellings of headers and the TLS record split are bytes in one buffer.
* Epoll shim: edge-triggered and one-shot nodes, FIFOs, polled files, the table of epoll descriptors.
* Control plane: DNS settings, hostlist contents and the QUIC rule (no script decides by them),
  commands that fail, the width of the truncate-and-write of `desired-state`.
* Engine update: the contents of the config and of the lists (so that a mode chosen while git and make run, learned
  hosts and the rule against QUIC, which replacing `ipset` and `init.d` removes, are not seen), two such scripts at once, and a
  failing `ln` or `rm`.
* Installer: two at once, the copy of the application, DNS servers and the first profile. Uninstaller and packaging: one run each, alone.
* nfqws: `desync_start`, the rewriting of window, TTL and IP id, duplicates, desync of SYN packets, the IP cache, `autottl`, the expiry of failures (`AutoHostlist` has it), filters of addresses and ports, replies of UDP (`config.default:87` keeps them away),
  other UDP protocols, `ipfrag2` and IPv6 extension headers.
* Command lines: the text of the WinDivert filter, `@file` arguments, the bytes of blobs; of the start ulimits, capabilities and seccomp.
* Firewall scripts and installers of other systems, list tools, reports, DNS repair: no state that another part decides by.

## 7. Plan

Done: the modules of section 2, in the order `TpwsConn`, `ZapretControl`, `EngineUpdate`, `Resolver`, `AutoHostlist`, `SelfUpdate`, `Menubar`, `EpollShim`, `NfqConn`, `Startup`, then the proofs.

What is left, by how much it says about the system:

1. `NfqConn`: `HelloTreatedWhole` (that every held piece of a hello in order is desynced at its offset) from a proof about the replay that follows profile and offset besides the packets.
2. Composition of `ZapretControl` and `EngineUpdate`: the network watch against a tree that is being replaced.
