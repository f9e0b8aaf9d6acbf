# TLA+ models of the inotify directory-tree cache and the concurrent demonstration programs

This directory holds TLA+ models of programs under `src/`, checked with the TLC model checker.

The main subject is `src/inotify/inotify_dtree.c`.
That program keeps an in-memory cache of every directory below the root directories named on its command line.
It keeps the cache up to date from inotify events while other processes create, remove and rename directories in those trees.
`src/inotify/rand_dtree.c` is the stress generator that does the mutating in the author's tests.

The second subject is the demonstration programs whose behaviour depends on interleaving: threads, signals, child processes, pipes and kernel notifications.
With them are the programs whose correctness rests on a sequence of kernel rules: the seccomp BPF filters of `seccomp_arg64`, `seccomp_multiarch`, `seccomp_control_open`, `seccomp_deny_open`, `seccomp_trap_sigsys`, `seccomp_logging` and `seccomp_perf`, the filter launcher `seccomp_launch` together with `dump_seccomp_filter`, and the capability transitions of `cap_launcher`.
They are modelled one module each and checked together in `MCDemos` (section 3).

## 1. The inotify cache

### Parts

| Part | Code | State |
|---|---|---|
| Watch cache | `wlCache`, `findWatch`, `findWatchChecked`, `addWatchToCache`, `markCacheSlotEmpty`, `pathnameInCache`, `freeCache` | an array of slots, each a `{wd, path}` pair, or free; `findEmptyCacheSlot` takes the lowest free index |
| Root set | `rootDirPaths`, `copyRootDirPaths`, `isRootDirPath`, `zapRootDirPath` | the command-line pathnames; a zapped root is set to NULL |
| Event reader | `processInotifyEvents` | the read buffer, `firstTry`, the supplementary read under `ualarm(2000)` |
| Event processor | `processNextInotifyEvent` | one branch per event kind |
| Rename pairing | the `IN_MOVED_FROM` branch | a one-event lookahead for the `IN_MOVED_TO` with the same cookie |
| Rebuild | `reinitialize`, `watchSubtree`, `watchDir`, `traverseTree` | a new inotify fd, an empty cache, and an `nftw()` walk of each live root |
| Operator console | `executeCommand` | the commands `a`, `z`, `0` change the cache; the others only read it |
| Environment | the kernel's inotify, the filesystem, `rand_dtree` | directories, watches per inode, the bounded event queue |

### How they interact

`main` validates the roots and calls `reinitialize(-1)`.
It then loops on `select()` over stdin and the inotify fd.

Each readable batch is handed to `processInotifyEvents`, which does the following:

1. It `read()`s up to `-b` bytes.
2. It calls `processNextInotifyEvent` on each event.
3. A handler may walk a new subtree with `nftw()`.
4. A handler may rewrite or zap cached pathnames.
5. A handler may call `reinitialize`, which discards the rest of the buffer.
6. If an `IN_MOVED_FROM` is the last event of the buffer, the handler returns -1. The reader then does one supplementary read with a 2 ms alarm and processes the event again with `firstTry = 0`. This time an unmatched event counts as a move out of the trees.

The only concurrency is external.
The mutators act at any moment, including between the `lstat`, `opendir`, `inotify_add_watch` and `readdir` system calls of one `nftw()` walk.

### What is hard

- **Walks race the mutators.**
  - A walk sees the tree of *now*, while the events still queued describe the past.
  - A name can be reused between an event and its processing.
  - A directory can vanish halfway through a walk.
- **Watches belong to inodes, the cache maps wds to pathnames.**
  - `inotify_add_watch` on a directory that is already watched returns the old wd.
  - That call also replaces the watch's mask, including `IN_MOVE_SELF`.
- **Lost events.**
  - At `max_queued_events` the kernel queues one `IN_Q_OVERFLOW` and drops everything after it.
- **Rebuild discards everything.**
  - Closing the fd drops the queue.
  - wd numbering restarts at 1.
- **Termination needs a self event of every root.**

## 2. Modules

### The inotify cache

| Module | Models | State (VARIABLES) | Actions |
|---|---|---|---|
| `DirTreeEnv` | filesystem, inotify kernel side, mutators | `alloc, exists, parent, name` (directories as inodes with parent and name), `wdOf, selfMask, nextWd, queue`, `ops` | `Mkdir`, `Rmdir`, `Rename` (one system call each, queuing exactly the events Linux queues for it) |
| `WatchCache` | the cache operations as pure operators on a set of `{wd, path, slot}` entries, a new entry taking the lowest free slot (`FindEmptyCacheSlot`) | none | `FindWatch`, `WatchPath`, `PathnameInCache`, `AddWatchToCache`, `MarkCacheSlotEmpty`, `SubtreeEntries`, `RewriteCachedPaths` |
| `InotifyDtree` | the program | `cache, zapped, buf, firstTry, pc, starts, stack`, the console's `cmds, readPending`, and the auxiliary `quiet` | reading (`ReadEvents`, `SecondaryRead`, `SecondaryReadTimeout`), one action per branch of `processNextInotifyEvent`, the `nftw()` walk one system call at a time (`WalkStart`, `WalkStat`, `WalkOpen`, `WalkAddWatch`, `WalkAddWatchNs`, `WalkReadDir`, `WalkReadMore`, `WalkDone`), and the console commands (`CmdAdd`, `CmdZap`, `CmdRebuild`, `CmdQuit` for `q`, `CmdEof` for end of file on stdin) |
| `InotifyReadLoop` | `processInotifyEvents` and the buffer arithmetic of `processNextInotifyEvent`, byte by byte | the kernel queue, `buf`, `numRead`, `evp`, `firstTry`, the loop's position, and the auxiliary `gen` (every event queued) and `done` (every event consumed) | `Generate` (kernel), `FirstRead`, `LoopEnd`, `ProcessDiscard`, `ProcessPair`, `ProcessOne`, `ProcessHang`, `SecondaryRead`, `SecondaryTimeout` |
| `MCInotifyDtree` | the TLC instances | | the flat layout (root `r`) and the nested layout (roots `r` and `r/s`), the console's command paths |

How the model corresponds to the code:

- **Pathnames** are sequences of names.
  - The C prefix test (`strncmp` over the length, then `/` or `\0`) is `IsPrefix` on sequences.
  - The rewrite keeps the suffix after the old prefix, as the `snprintf` of `rewriteCachedPaths` does.
- **`pc`** records where the single thread is:
  - `"idle"`: in the event loop;
  - `"hanging"`: the supplementary read is pending;
  - `"walk"`: inside `nftw()`, called from a handler or from `reinitialize`;
  - `"exited"`.

  A walk started by a handler runs to its end before the next event, as the nested call does.
- **`reinitialize`** is `Reinit(z)`.
  - It sets up a new kernel instance and an empty cache.
  - It sets `starts` to the live roots in order.
  - It discards the buffer, as the `return INOTIFY_READ_BUF_LEN` of every caller does.
- **`nftw()`** (glibc, `FTW_PHYS`) is a stack of frames.
  - Each frame records the next system call for one pathname.
  - The start path is `lstat`ed by its full pathname; if it is gone, `nftw()` returns -1 at once, without a callback.
  - An entry is `fstatat`ed and opened relative to the descriptor of its parent's open stream (`FrameIno`, `EntryFrame`), so it is found only while it is still in that directory under that name.
  - `fstatat` of a vanished entry reports `FTW_NS` with an uninitialized `struct stat`. `S_ISDIR` of that is undefined, so `WalkStat` either skips the entry or goes on to `inotify_add_watch` without descending into it.
  - An `openat` that fails with ENOENT ends the whole walk (`WalkOpen`). `watchDir` only logs this.
  - `traverseTree()` watches the full pathname, which `inotify_add_watch()` resolves afresh (`WalkAddWatch`); that may be another directory than the stream `nftw()` opened.
  - The first `readdir` fills glibc's 32 KiB buffer with every current entry in one `getdents` (`WalkReadDir`, any order). The later `readdir`s (`WalkReadMore`) may return entries created since, or end the stream, as POSIX leaves open.
- **`zapSubtree`** scans the subtree's entries in slot order (`SubtreeScan`) and removes them until an `inotify_rm_watch` of a dead watch fails with EINVAL (`ZappedPrefix`); it then returns -1, and the caller rebuilds (the `z` command does not).
  - On success it queues one `IN_IGNORED` per removed watch, as the kernel does.
- **Events** carry an auxiliary field `gp`: the pathname of the watched directory when the kernel queued the event. Only properties read it.

The console runs between two batches, as `main()` calls `executeCommand()` when `select()` reports stdin.
`readPending` records that the same `select()` also reported the inotify fd, so that `processInotifyEvents()` will be called after the command.

The row "map" of `PROJECT.json` names the source lines behind each definition.
`Mkdir`, `Rmdir` and `Rename` follow the `c`, `d` and `m` operations of `rand_dtree`.
Their targets are any directory, and the names come from a small set (`Names`).
A mutator can also re-create a root's pathname (`mv r r.old; mkdir r`); `NamesIn` gives "/" only root names.
The kernel definitions (`Enqueue`, `Resolve`, the events of each system call) model Linux, not repository code, and are not mapped.

Operators named `...SkipLast`, `...KeepSlot`, `...AnyPos` and `...Always` are variants of mapped definitions.
Each is a plausible slip in the code: a dropped guard, a missed `markCacheSlotEmpty`, an off-by-one in `readdir`.
`PROJECT.json` ("mutants") pairs each property with a variant that TLC shows breaks it.

### The demonstration programs

Each program is one module. Its processes, threads and signal handlers are actions, and the kernel objects it uses are variables.

| Module | Program (`src/...`) | State | Actions |
|---|---|---|---|
| `PthreadBarrierDemo` | `threads/pthread_barrier_demo.c` | `main()`'s create and join loop; each thread's loop index and barrier ticket; glibc's barrier as a ticket counter and a published round | `Create`, `CreateFail`, `Join`, per thread `Loop`, `Arrived`, `Wake`, `Check`, `Terminate` |
| `BarrierRounds` | the abstract barrier | per thread, calls made (`arrived`) and calls returned (`passed`) | `Arrive`, `Pass` |
| `MqKernel` | the POSIX message queue seen by the `pmsg` programs | queued messages, the single notification registration | `SendMsg`, `ReceiveOne`, `Empty`, `RegisterOk`, `Ebusy` |
| `MqNotifySig`, `MqNotifyViaSignal`, `MqNotifyViaThread`, `MqNotifyThread` | `pmsg/mq_notify_sig.c`, `mq_notify_via_signal.c` (also `mq_notify_siginfo.c`), `mq_notify_via_thread.c`, `mq_notify_thread.c` | the main loop's position, pending and handled signals, the notification threads | registration, drain, `sigsuspend()`/`pause()`, signal delivery, sends and a stray `kill()` |
| `SeccompUserNotif` | `seccomp/seccomp_user_notification.c` | target, tracer and parent positions; the kernel's pending notification and its id; directories created; SIGINTs sent | `TargetSetup`, `TargetMkdir`, `TargetWake`, `Interrupt` (SIGINT); `TracerRecvFd`, `TracerRecv`, `TracerRead`, `TracerReply` (its `mkdir()` in `/tmp/` fails silently when the parent directory is missing, `MkdirSucceeds`, and the reply says 0 all the same); `ParentWaitTarget`, `ParentWaitTracer` |
| `NsCapable` | `namespaces/ns_capable.c` | the descriptor table (lowest free number first), the walk's `child` and `desc` | `OpenTarget`, `OpenPid`, `Compare`, `Walk`, `Verdict`, `CloseTarget`, `ClosePid` |
| `PdeathSignal` | `procexec/pdeath_signal.c` | the chain of ancestor processes, their threads, the marks `+` and `@`, the child's real parent | `Fork`, `Start`, `Born`, `Parse`, `ThreadExit`, `MainWait`, `ChildArm`, `ChildExit`, with reparenting as the kernel does it |
| `ThreadLockSpeed` | `threads/thread_lock_speed.c` (and `thread_incr_spinlock.c`) | per thread the loop indices and the loaded value; `glob`; the lock holder | `Create`, `Join`, `Top`, `Lock`, `InnerStep`, `Store` |
| `AtomicCounter` | what the counter programs promise | the count, each thread's remaining share | `Incr`, `Finish`, `Abort` |
| `SimpleInit` | `namespaces/simple_init.c` | init's position, the current line, children and background processes, the foreground group, a pending SIGCHLD | `Setup`, `Prompt`, `Pause`, `TcSet`, per child `ChildExpand`, `ChildPgrp`, `ChildExec`, `ChildExit`, `BgExit`, and `Handler` |
| `UsernsChildExec` | `namespaces/userns_child_exec.c`, `userns_functions.c` | parent and child positions, the pipe's open write ends, which maps are written, whether setgroups is denied (a failed write of `/proc/PID/setgroups` errExits the parent, lines 421-422) | `Parse`, `Setup`, `Clone`, `UidMap`, `SetGroups`, `GidMap`, `Close`, `Wait`; `CloseW`, `Read`, `RepeatOpt`, `Exec`, `Finish` |
| `EpollFlagsFork` | `altio/epoll_flags_fork.c` | the flags, parent and children positions, each epoll instance's interest (target, armed, on the ready list), the FIFO's lines and writer | `Open`, `ParentEpoll`, `Fork`, `Reap`; per child `ChildOpen`, `ChildCtl`, `Harvest`, `Read`; the writer's `Write` and `CloseWriter` |
| `SeccompBpf` | the kernel's classic-BPF check and interpreter for seccomp filters (environment, not mapped) | none | `Verifies`, `Run` (RECURSIVE, with `BPF_JA` and `BPF_JSET`), `Filter`, `Outcome`, and `StackResult` (RECURSIVE): `seccomp_run_filters()` over a stack, newest first, the least action as a signed number winning, the newest on a tie |
| `SeccompFilters` | the `filter[]` arrays of `seccomp_deny_open.c`, `seccomp_control_open.c`, `seccomp_trap_sigsys.c`, `seccomp_logging.c`, `seccomp_perf.c`; the `seccomp_data` glibc's `open()`/`openat()` produce | none | (definitions only) |
| `SeccompArg64` | `seccomp/seccomp_arg64.c` | position, the results of `seek_test()`, exit status | `Install`, `SeekTest`, `Finish` |
| `SeccompMultiarch` | `seccomp/seccomp_multiarch.c` | the chain of architectures, the binary running, `NO_SECCOMP_FILTER`, whether the filter is installed, the errnos seen | `Start`, `Notify`, `Exec` |
| `SeccompControlOpen` | `seccomp/seccomp_control_open.c` | the inputs (open or openat system call, `/tmp/a` present, the pathname's address), the filter installed, the next of the four opens, their results, exit status | `Install`, `Open` |
| `SeccompSmallDemos` | `seccomp/seccomp_deny_open.c`, `seccomp_trap_sigsys.c`, `seccomp_logging.c`, `seccomp_perf.c` | which program, its inputs, the filter installed, the SIGSYS handler, the next step of `main()`, the lines written, the calls logged, exit status | `Step` (one system call of `main()` through the filter), `SigHandler` |
| `SeccompLaunchDump` | `seccomp/seccomp_launch.c` with `dump_seccomp_filter.c` | the file system, the phase (launch, dump, relaunch), the launcher's `-f` list, position and stack of filters, the launched program's stack, the next dump index, how each launch ended | `LoadFilter`, `Exec`, `Dump` |
| `MultithreadEpollWait` | `altio/multithread_epoll_wait.c` | `EPOLLET` or not, `main()`'s position, each thread's position, the item on the ready list | `Create`, `Write`, `Exit`; per thread `ThreadWait`, `ThreadWoken` (with `Harvest`) |
| `CapLauncher` | `cap/cap_launcher.c`, `cap_functions.c` | the inputs (invoking euid, user, capability list, bounding set), the UIDs, `SECBIT_NO_SETUID_FIXUP`, the permitted, effective, inheritable and ambient sets, the list position | `CheckRoot`, `SetSecurebits`, `SetCredentials`, `RaiseOne`, `Exec` |
| `MCDemos` | all of the above at once | `prog` and every module's variables | the step of the program `prog` names |

How these modules correspond to the code:

- **Kernel behaviour is part of the environment.**
  Each module states, in its header, the kernel rule it relies on: lowest-free descriptor numbers (`NsCapable`), reparenting to the nearest live subreaper (`PdeathSignal`), one notification registration per queue (`MqKernel`), the ready list and trigger modes of epoll (`EpollFlagsFork`).
  These definitions model Linux, not repository code, and are not mapped.
  `SeccompBpf` is the kernel's filter check and interpreter; `WakeOne` in `MultithreadEpollWait` is epoll's exclusive wake-up; the capability rules of `CapLauncher` are those of capabilities(7).
- **Words wider than TLC's integers are pairs.**
  A 32-bit BPF word is `<<high 16 bits, low 16 bits>>`, compared as unsigned; a 64-bit `lseek()` offset is a pair of words. So `AUDIT_ARCH_X86_64`, `X32_SYSCALL_BIT` and offsets of 2^32 and above keep their values.
- **A non-atomic C statement is split into its steps.**
  `glob++` is a load and a store (`InnerStep`, `Store`).
  `pause()` after `fork()` is a step of its own (`Pause`), so a child may end in between.
- **Failures the code handles are disjuncts.**
  `pthread_create()`, `fork()`, `clone()`, `open()` and `epoll_ctl()` may fail, and the code's `errExit()` ends the process there.
- **Undefined behaviour is a choice.**
  `epoll_flags_fork -s -p` calls `epoll_ctl()` on an `fd` it never assigned; `CtlOutcomes` lets that be EBADF or some other open file.
- **Data is abstracted to what the properties tell apart.**
  Messages are counted, not stored. Pathnames in `seccomp_user_notification` are "under /tmp/" or not. Map strings in `userns_child_exec` are accepted or refused.
- **`MCDemos` is a disjoint union.**
  `Init` picks `prog`; only that program steps, and the others keep their initial state with fixed inputs.
  So the behaviours are exactly those of each program on its own.
  A liveness property of one program is stated as `prog = "..." => ...`.
  A refinement (`BarrierRefined`, `UpdatesNotLost`) is a safety property and holds trivially while its program does not step, so it is stated unguarded.

The refinements:

- `PthreadBarrierDemo` implements `BarrierRounds`: a thread's calls made are its loop index `j`, plus one while it is inside `pthread_barrier_wait()`; its calls returned are `j`, plus one once it is testing the return value.
- `ThreadLockSpeed` implements `AtomicCounter` with `count <- glob` and each thread's remaining share computed from its loop indices.
  A thread's load and store map to one `Incr` at the store.
  So the refinement fails exactly when an update is lost.

## 3. Properties and runs

| Run (cfg) | Expect | Properties | What it shows |
|---|---|---|---|
| `console` (`MCInotifyDtree_console.cfg`) | pass | `TypeOK`, `CacheWatchesAccounted`, `ReinitRebuildsTree` | flat layout, 4 mutator operations and one console command (`a`, `z`, `0` or `q` on `r` or `r/a`) |
| `nested` | pass | the same, and `BufferDrains` | roots `r` and `r/s`; every batch read is consumed under weak fairness of the event loop |
| `consistency` | violation | `QuiescentConsistency` | spec §8 consistency fails: a directory swapped between `nftw()`'s `opendir` and the pathname watch is never cached |
| `pathagree` | violation | `EventPathAgreement` | reusing a name before the rename's events are read relabels the wrong directory |
| `rootexit` | violation | `RootsGoneExits` | a root that leaves before it is first watched never ends the program |
| `zapcmd` | violation | `ZapCmdStopsWatching` | `z` on a subtree with a dead watch leaves live watches of it cached |
| `consolehang` | violation | `ConsoleServed` | a `0` typed while events are pending blocks the console in `read()` of the new, empty fd |
| `demos` (`MCDemos.cfg`) | pass | 27 properties, listed below | every demonstration program and the inotify read loop, each on its own |
| `arg64` (`MCDemos_arg64.cfg`) | violation | `FilterAsDocumented` | `seccomp_arg64`'s filter fails negative offsets too, which the header does not say |
| `demosnotif` | violation | `ResultMatchesEffect` | a SIGINT between the tracer's `mkdir()` and its reply leaves a directory the target was told it did not create |
| `demosnsclose` | violation | `ExitsSuccessfully` | `ns_capable` closes `target_userns` twice when the walk goes up two levels |
| `initpause` | violation | `PromptReturns` | `simple_init` can miss the SIGCHLD of a command that ends before `pause()` |

What each property says:

- **`CacheWatchesAccounted`** ties the cache to the kernel and to the unread events.
  - Every cached wd is still a live watch, or its removal (`IN_DELETE_SELF`, `IN_IGNORED`, or an overflow that forces a rebuild) is still to be read.
  - A slot that nothing will clear would make the next `zapSubtree` fail.
- **`ReinitRebuildsTree`**: spec §8 idempotence and scenario 4. A rebuild that no mutator disturbs leaves exactly the tree, each directory with its live wd.
- **`BufferDrains`**: the `firstTry` protocol defers an `IN_MOVED_FROM` only once, and every walk ends.

The properties of the `demos` run (each definition in `MCDemos` names the module property it instantiates):

- **Barrier** (`pthread_barrier_demo`):
  - `SerialPerRound`: exactly one thread gets `PTHREAD_BARRIER_SERIAL_THREAD` per barrier index, although a fast thread is already in the next round while others still test this one's return value.
  - `BarrierRefined`, `BarrierFairRefined`: the demo implements `BarrierRounds`, its safety and (with fairness) its liveness, also when `pthread_create()` fails half way.
  - `AllJoined`: `main()` joins every thread and exits.
- **Message queues** (`pmsg`):
  - `NoLostWakeup`: a queued message always has a drain, a pending signal, `gotSig` or a notification thread ahead of it.
  - `NeverBusy`: the `SIGEV_THREAD` programs never call `mq_notify()` while registered.
  - `MessagesConsumed`: every message is eventually read, barring a stray SIGUSR1 and the early-message case the code documents.
- **Seccomp** (`seccomp_user_notification`):
  - `TargetFinishes`, `ParentExits`: every `mkdir()` returns, the target exits, and without `-K` the parent exits.
- **`ns_capable`**: `VerdictCorrect`: the printed verdict is the kernel's rule (`CapCapable`, a recursive walk written independently of the code's), for every PID namespace, euid and target.
- **`pdeath_signal`**:
  - `SubreaperAdopts`: an orphan's new parent is a live thread of the nearest live `@` ancestor, or init when there is none.
  - `ChildCreated`: well-formed arguments always get as far as creating the child.
- **`thread_lock_speed`**: `UpdatesNotLost` (the refinement of `AtomicCounter`) and `LockSpeedTerminates`.
- **`simple_init`**: `ZombiesSignalled`: whenever a child is a zombie a SIGCHLD is pending, however a command and an orphaned background process end together and their signals coalesce.
- **`userns_child_exec`**:
  - `MapsBeforeExec`: the child gets past its `read()` of the pipe only once the maps it asked for are written, unless the parent died writing them.
  - `UsernsBothEnd`: parent and child always end, since the child closes its own write end before reading.
- **`epoll_flags_fork`**:
  - `EpollParentReturns`: with flags that wake every waiter, closing the FIFO lets every child end and the parent's `wait()` loop return.
- **inotify read loop** (`InotifyReadLoop`): `EventsAccounted`: the events consumed, the events still ahead of `evp` in the buffer and the kernel's queue are, in order, every event generated. So no event is lost or processed twice across moves split over reads, the buffer shuffle, the timed second `read()` and the one-byte shrink after its EINTR (line 1185).
- **`seccomp_arg64`**: `NonNegativeAsDocumented`: for x86-64, i386 and AArch64 calls, four system call numbers and the nonnegative offsets at the edges (1000, 1001, 2^32 - 1, 2^32, 2^32 + 5, 2^32 + 1001, the largest `off_t`), the filter's outcome is what its comments say of the 64-bit value: kill non-x86-64 and x32 calls, fail `lseek()` above 1000 with errno 2 when the offset needs more than 32 bits and 1 otherwise, allow the rest. The run `arg64` asks the same of every offset, -1 included, with `off_t` signed as the header's "greater than 1000" reads it, and fails (finding below).
- **`seccomp_multiarch`**: `ChainFailsEachArch`: for every chain of one to three architectures started without `NO_SECCOMP_FILTER`, the program exits successfully, and each binary's `mq_notify()` fails with that architecture's own number. The one filter, kept across `execve()`, must route each audit architecture and the x32 bit to the right branch.
- **`seccomp_control_open`**: `OpensAsCommented`: for x86-64, i386 and AArch64, the open, openat, x32 and other numbers, two pathname addresses and eleven flag sets (every access mode, `O_CREAT` alone and with them, `O_TRUNC`, `O_APPEND`, `O_CLOEXEC` in the upper half), the filter's outcome is what its comments say; and the program, through either system call, gets a descriptor (or ENOENT) for `O_RDONLY`, ENOTSUP for `O_WRONLY` and `O_RDWR`, and is killed at `O_CREAT | O_RDWR`, so it never reaches `exit(EXIT_SUCCESS)`. The filter's two loads, its `BPF_JA` and its `BPF_JSET` tests must meet.
- **The deny, trap, logging and perf demonstrations**: `DemosAsCommented`: `seccomp_deny_open` never prints "We shouldn't see this message" and is killed at its `open()`, whichever system call glibc makes; `seccomp_trap_sigsys` prints the handler's line and then "Bye" and exits successfully; `seccomp_logging` exits successfully with `geteuid()`, `getppid()` and `exit_group()` logged in that order; `seccomp_perf` fails only without an argument.
- **`seccomp_launch` with `dump_seccomp_filter`**: `RoundTripSameStack`: when a launch has started its program and root has dumped each filter by index, launching again with the dumps, oldest first, starts the program with the same stack. Every file of the relaunch passes the launcher's size check, and every call the relaunch makes passes the filters it has already loaded.
- **`multithread_epoll_wait`**: `WakeCountAsDocumented`: with `EPOLLET` exactly one thread returns from `epoll_wait()`, level-triggered all five do. This holds whichever threads reach `epoll_wait()` before the write and whichever after it.
- **`cap_launcher`**: `LaunchedWithListedCaps`: run by root for a user other than root, with names libcap knows and a bounding set that holds them, the command starts with the user's UID and exactly the listed capabilities permitted, effective and ambient. This needs the securebit before `setresuid()`, the inheritable raise before the ambient one, and the exec rule.

The violation runs and their findings (`PROJECT.json`, "findings"):


1. **`consistency`** (`QuiescentConsistency`, stated for a program that has cached every root it monitors):
   - a mutator runs `mkdir out/a`;
   - the walk of `r` `lstat`s and opens `r`;
   - a mutator runs `mv r out/a/a`, then `mv out/a r`;
   - `traverseTree()` watches the pathname `r`, now the newcomer, while `nftw()` lists the old `r`, which is empty;
   - the old `r`, now `r/a`, came in before the watch, so no event for it ever arrives.

   The program is idle with `r/a` missing from the cache. The comment at line 259 suspects such races with `nftw()`.
   The same property also catches an `openat` ENOENT that aborts the walk and loses the unvisited siblings, with a longer trace.
2. **`pathagree`** (`EventPathAgreement`):
   - a mutator runs `mv r/a r/b`, then `mkdir r/a` before the events are read;
   - a walk caches the new `r/a`;
   - the rename pair is processed and rewrites `r/a` to `r/b`.

   The new directory is now cached under the wrong name, and its later events are applied there.
   This contradicts spec invariant 4.
3. **`rootexit`** (`RootsGoneExits`):
   - `mv r out/a` happens before the initial walk's `lstat`;
   - no watch ever exists, so no self event is queued;
   - `zapped` stays empty, and the program waits in `select()` forever.

   The same ending follows when a root's `IN_MOVE_SELF` is lost to an overflow, or discarded by a rebuild.
4. **`zapcmd`** (`ZapCmdStopsWatching`): the walk caches `r` in slot 0 and `r/a` in slot 1; `mv r/a out/a` and `rmdir r` follow, and `z r` runs before their events are read. `zapSubtree()` scans slot 0 first, its `inotify_rm_watch` fails, and the scan stops, so slot 1, whose watch is live on `out/a`, stays active and cached.
5. **`consolehang`** (`ConsoleServed`): a `0` and an event in the same `select()`. `main()` then reads the new inotify fd, which has the same number and nothing in it, and blocks until some later filesystem event.
6. **`arg64`** (`FilterAsDocumented`): the initial state with `lseek(fd, -1, SEEK_SET)` among the checked calls: the high word 0xffffffff is not zero, so the filter fails it with errno 2, though -1 is not greater than 1000.
7. **`demosnotif`** (`ResultMatchesEffect`): SIGINT to the target after the tracer has received the notification. The tracer creates the directory, its reply fails with ENOENT, and the target sees EINTR.
8. **`demosnsclose`** (`ExitsSuccessfully`): PID's namespace is the target's grandparent. The first `close(child)` closes `target_userns`; its number is reused by `NS_GET_PARENT` and closed again; `main()`'s final close fails with EBADF.
9. **`initpause`** (`PromptReturns`): the command child ends, and `child_handler()` reaps it, before init reaches `pause()`. Init then sleeps until some unrelated child ends.

### Bounds

The inotify cache:

- **Flat layout** (`console`, `consistency`, `pathagree`, `rootexit`, `zapcmd`, `consolehang`):
  - root `r` in "/", plus the directory `out` outside the trees;
  - names `{a, b}`;
  - two allocatable directories `d1, d2` (symmetric);
  - `QMax = 3` events in the kernel queue;
  - `BufMax = 2` events per first `read()`;
  - `MaxOps` = 2 to 4 mutator operations;
  - at most one console command, on `r` or `r/a`.
- **Nested layout** (`nested`): roots `r` and `r/s`, one name, one new directory, 3 operations.

These bounds are what the interesting cases need:

- Two names allow an in-tree rename and a name reuse.
- Two new directories allow siblings and a rename into a subdirectory.
- A queue of 3 overflows on a rename (MF, MT, MOVE_SELF) plus one more event.
- A buffer of 2 both splits pairs across reads and keeps a pair together.
- Four operations reach create-rename-create-delete sequences.
- One command is enough to race every command against every event.

`console` explores about 3.3 million distinct states in about 90 s; `nested` about 30 000 in a few seconds.
Symmetry over `d1, d2` is sound because nothing distinguishes the two inodes.
The runs with a liveness property do not use symmetry.

The demonstration programs (`MCDemos`, about 37 000 distinct states in about two minutes):

- `pthread_barrier_demo 3 2`: three threads, two barrier rounds; `pthread_create()` may fail.
- The queue programs: up to 3 messages queued (2 for the thread programs), 5 sends (4), 2 messages (1) queued before the program starts, and one stray SIGUSR1 (an exit with EBUSY that `MessagesConsumed` excuses: the programs are written for a SIGUSR1 that only notifications raise).
  Three messages let a notification fire while a drain is half way.
- `seccomp_user_notification /tmp/a /etc/b /bye /tmp/c`, with each `-f` choice (none, errno, trace), with and without `-K`, and up to two SIGINTs: every branch of the tracer, and a SIGINT at each point of a notification.
- `ns_capable` over the user namespaces `u0 > u1 > u2 > u3` and `u0 > v1` and a mount namespace owned by `u2`, every PID namespace, euid 0 or 1 and target: walks of zero to three levels, which is where descriptor reuse differs.
- `pdeath_signal` with the arguments `1:+2 @1:2 +1`, `@1:2 1:+2:+3` and none: a subreaper, several threads per ancestor, a second `+`, and the default.
- `thread_lock_speed 3 2 2`: three threads, two outer and two inner iterations; two threads already lose updates without the lock.
- `simple_init` reading the lines `bg`, `run` or `empty`, `badword`, `notfound`, with and without `-p`: a background process outliving its command, and each failure of a child.
- `userns_child_exec` with every combination of `-U`, `-M`, `-G`, `-r`, `-D`, privilege and accepted maps, and no, one or two repeatable options (the second failing).
- `epoll_flags_fork p 2` with thirteen flag sets and up to two lines written before the writer may close.
  Two children suffice for a shared instance to wake one of several waiters, and two lines for one child to read another's data.

- The inotify read loop: events of 32 bytes (`IN_MOVED_FROM`, `IN_MOVED_TO` with one cookie) and 16 bytes (another event), 48-byte first reads, and up to four events generated while the loop runs.
  A 48-byte read splits a pair after its `IN_MOVED_FROM`, or holds a 16-byte event and a 32-byte one. Four events allow a split pair followed by more events, and a deferred `IN_MOVED_FROM` whose partner never comes.
- `seccomp_arg64`: the program's three offsets, and for `FilterAsDocumented` the 3 x 4 x 10 calls listed above.
- `seccomp_multiarch`: every chain of one to three of x86-64, i386 and x32 (39 chains), with `NO_SECCOMP_FILTER` preset or not. Three binaries cover every pair of architectures in both orders.
- `seccomp_control_open`: the open or openat system call, `/tmp/a` present or not, and the pathname at two addresses: one whose low word has none of the tested flag bits, one (0x2047) that has `O_CREAT` and both access bits. A filter that loaded the pointer instead of the flags gives a wrong answer for the second at least.
- The small demos: each program's own calls; `seccomp_perf` with no argument, with a count of 2, and with `x` and a count of 0 or 2; the open or openat system call; `/tmp/a` present or not.
- `seccomp_launch`: the repository's five filters as files, a 12-byte file and a missing one; the `-f` lists `trap,log,ctl` (three filters the launcher and a program survive), `deny` (the program's loader is killed), `deny,log` (the launcher's second `open()` is killed), `perf,ctl` (killed only when `open()` is the open system call), `ctl,odd` and `log,gone`. The dumping program runs as root or not. Three filters make the index order matter in the dumps and the relaunch.
- `multithread_epoll_wait` with its five threads, level- or edge-triggered; `pthread_create()` may fail.
- `cap_launcher`: run with euid 0 or 1000; the users `root` (UID 0), `alice` (UID 1000), one unknown to the user database, and `--help`; the lists none, `cap_chown`, `cap_chown,cap_net_raw`, `cap_net_raw,cap_chown,cap_net_raw` and `cap_chown,bogus`; bounding sets with and without `CAP_NET_RAW`.

Every action and every disjunct of each `Next` fires in the passing runs.

### Fairness

The inotify program: `Spec` has `WF_vars(ProgStep)` and nothing for the mutators or the operator.
The event loop is one thread, and it blocks only in `select()` when there is nothing to read.
The supplementary read always returns within the 2 ms alarm.
So whenever a program step is enabled, the program takes one.
Mutators may stop at any time.
Once they stop and the queue is empty, the real program blocks forever, which is why every cfg says `CHECK_DEADLOCK FALSE`.

The demonstration programs: weak fairness on each thread's or process's own steps, and on signal delivery to a process that does not block the signal (the kernel runs the handler on its next return to user mode).
Nothing is assumed of other processes: senders, `kill()`, the FIFO's writer and the mutators may stop at any time.
A liveness property that depends on them says so (for example `EpollParentReturns` starts from the writer's close).
pthread locks are not fair, so `LockSpeedTerminates` relies only on each thread being scheduled, not on winning the lock.
Every program may stop for good (they wait for messages or children that never come), so `MCDemos.cfg` says `CHECK_DEADLOCK FALSE`.
The read loop, the seccomp programs, `multithread_epoll_wait` and `cap_launcher` are checked for invariants only. Their modules' own `Spec` has weak fairness on the program's steps, but `MCDemos` leaves it out, because an invariant does not depend on it.
`multithread_epoll_wait` assumes one timing fact: `main()`'s second `sleep(2)` outlasts every thread that can still run. So `Exit` is enabled only when each thread is blocked or done.

## 4. Not modelled, and why

- **`IN_UNMOUNT`**: the environment has no unmount.
- **Kernel merging of identical consecutive events**: not modelled.
- **Rename over an existing empty directory**: not modelled; renames always use a fresh name.
- **The `errno != -1` test (inotify_dtree.c line 1185)**: it is always true. After an EINTR timeout it adds -1 to `numRead`.
  `InotifyDtree` keeps whole events and does not represent this. `InotifyReadLoop` does: `numRead` then ends one byte inside the deferred `IN_MOVED_FROM`, which still starts below it. The event is processed as a move out of the tree, and `EventsAccounted` shows that nothing is lost.
- **`0` leaks the old inotify fd's watches** (line 1345): the model's rebuild discards the old instance, so the leak itself is not visible; the stale-fd read it causes is (`consolehang`).
- **Logging, option parsing, `dumpCacheToLog`, `checkCacheConsistency` and the stop file**: output only.
- **Counter overflow in `thread_lock_speed`**: `glob` is an `int`. With the defaults it stays far below 2^31, and TLC's bounds are far smaller still, so overflow is not modelled.
- **`simple_init`, stopped children**: the handler installs `SA_NOCLDSTOP` while its comment mentions `WUNTRACED`; stopping and continuing children is not modelled.
- **`simple_init`, a background process ending during a foreground command**: its SIGCHLD also interrupts `pause()`, and init takes the terminal back while the command still runs. The model's `Handler` returns to the prompt after any SIGCHLD, so this is reachable in the model, but no property states who owns the terminal.
- **`userns_child_exec`, parent death while writing maps**: when `update_child_maps()` errExits, the parent's exit closes the pipe and the child execs without its maps. `MapsBeforeExec` excuses a failed parent and the hazard list records this; a run of its own would need a property the code does not promise.
- **`epoll_flags_fork -e -l -r`**: a child that reads the last lines and the hang-up from one edge never sees end of file, and the parent waits for ever. The model reaches this; `EpollParentReturns` leaves these flags out (`WakesAll`), and the hazard list records it.
- **`seek_test()` in `seccomp_arg64`** reports success only when `lseek()` returns 0, so an allowed seek to a nonzero offset would print "failed". The program's three offsets never meet this; `SeekTest` keeps the test as written.
- **`cap_launcher` for the user `root`**: `execve()` with UID 0 gives the command the whole bounding set, not only the listed capabilities. `Exec` models this rule, and `LaunchedWithListedCaps` is stated for other users, where the header's promise applies.
- **`cap_launcher`'s argument count and group IDs**: `argc < 4` only prints the usage; `setgroups()` and `setresgid()` run as root and do not change capabilities.
- **Beyond `execvp()`**: `SeccompLaunchDump` follows the launched program only as far as its dynamic loader's first `openat()`. The program is then taken to stay alive while it is dumped, and its own calls are not modelled.
- **`fstat()`**: glibc 2.33 and later make it `newfstatat`. None of the filters tells these numbers apart, so `LoadFilter` uses the older number.
- **`libseccomp_demo`**: its filter is generated by libseccomp, and the export and load are library code.
- **`alloc_mem`** (cgroups): it checks `argc < 3` but reads `argv[3]`, so three arguments make it call `atoi(NULL)`. It is a one-process allocation loop with no interleaving or shared state to model.
- **`cap_text`**: it converts capability sets to and from text with libcap and prints them. There is no state of this repository's code to model.
- **The other programs under `src/`** (capabilities, cgroups, credentials, scheduling, shared libraries, timers, sockets, the remaining namespace and epoll demos): straight-line uses of one API, with no interleaving, retry or shared state that a model checker would add to a test.

## 5. Plan for later work

1. A property that the live root pathnames match `rootDirPaths`, in the nested layout.
2. Renames in flight across other system calls, so that the `IN_MOVED_FROM` of one rename interleaves with another's events.
3. An abstract specification of the cache, "the set of directories of the trees", and a refinement mapping from `InotifyDtree` that holds outside the windows the findings describe.
4. `InotifyReadLoop` composed with the cache of `InotifyDtree`, so that the byte-level loop drives the event processor.
