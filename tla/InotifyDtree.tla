---------------------------- MODULE InotifyDtree ----------------------------
(***************************************************************************)
(* inotify_dtree.c: a single-threaded program that keeps a cache of the    *)
(* directories below the root directories named on its command line,      *)
(* driven by the inotify events of the kernel (DirTreeEnv), while other   *)
(* processes change the trees concurrently.                                *)
(*                                                                         *)
(* Program state: the watch cache (WatchCache), the root path list with    *)
(* its zapped entries, the buffer of events returned by the last read()    *)
(* still to be processed, the firstTry flag of processInotifyEvents(), and *)
(* the state of a running nftw() walk.  The walk is not atomic: nftw()     *)
(* lstat()s, opendir()s, calls traverseTree() (inotify_add_watch) and      *)
(* reads the directory in separate system calls, and the mutators run     *)
(* between them.                                                          *)
(***************************************************************************)
EXTENDS DirTreeEnv, WatchCache

CONSTANTS
    BufMax,     \* events that fit in the buffer of the first read() (-b)
    CmdPaths,   \* pathnames the operator types after 'a' and 'z'
    MaxCmds     \* bound on the number of operator commands

ASSUME BufMax \in Nat \ {0}
ASSUME MaxCmds \in Nat

VARIABLES
    cache,      \* wlCache: the active slots
    zapped,     \* roots whose rootDirPaths[] entry has been set to NULL
    buf,        \* events of the current read() not yet consumed
    firstTry,   \* processInotifyEvents(): firstTry
    pc,         \* "idle", "hanging" (secondary read pending), "walk", "exited"
    starts,     \* pathnames still to be walked by this reinitialize()
    stack,      \* nftw(): directories still to visit, top first
    quiet,      \* auxiliary: a reinitialize() is running or has just ended
                \* and no mutator has acted since it began
    cmds,       \* operator commands executed so far
    readPending \* main(): the select() that returned for stdin also had
                \* the inotify fd set in rfds

progVars == <<cache, zapped, buf, firstTry, pc, starts, stack, quiet>>
consoleVars == <<cmds, readPending>>
vars == <<envVars, progVars, consoleVars>>


(* isRootDirPath(): exact match against the non-NULL rootDirPaths[] *)
IsRootDirPath(p) == \E r \in RootNames \ zapped : p = RootPath(r)

RootOf(p) == CHOOSE r \in RootNames \ zapped : p = RootPath(r)

(* watchDir(): nftw(pathname, traverseTree, 20, FTW_PHYS) starts with a  *)
(* stack frame for the pathname itself.  A frame holds the full pathname *)
(* (what traverseTree() is given), the directory whose open stream it   *)
(* was read from (NoIno for the start path), the next system call for   *)
(* it, the directory its opendir() opened, and the entries readdir() has *)
(* returned from that stream.                                            *)
Frame(p) == [path |-> p, dir |-> NoIno, ph |-> "stat", ino |-> NoIno, seen |-> {}]

----------------------------------------------------------------------------
(* Steps shared by several handlers *)

(* reinitialize(): close the inotify fd (its watches and unread events  *)
(* vanish), inotify_init() a new one, freeCache(), then watchSubtree()  *)
(* every non-NULL root path in order.  The caller discards the rest of   *)
(* the read() buffer.  z is the root list as the caller left it.         *)
Reinit(z) ==
    /\ wdOf' = [i \in Inodes |-> 0]
    /\ selfMask' = [i \in Inodes |-> FALSE]
    /\ nextWd' = 1
    /\ queue' = <<>>
    /\ cache' = {}
    /\ zapped' = z
    /\ buf' = <<>>
    /\ firstTry' = TRUE
    /\ pc' = "walk"
    /\ starts' = [k \in 1..Cardinality(RootNames \ z) |->
                    RootPath(SetToSeq(RootNames \ z)[k])]
    /\ stack' = <<>>
    /\ quiet' = TRUE
    /\ UNCHANGED <<fsVars, ops>>

Reinitialize == Reinit(zapped)

(* zapRootDirPath() when it leaves no root: exit(EXIT_SUCCESS) *)
Exit(z) ==
    /\ zapped' = z
    /\ pc' = "exited"
    /\ UNCHANGED <<envVars, cache, buf, firstTry, starts, stack, quiet>>

(* inotify_rm_watch() succeeds while the kernel still holds the watch; *)
(* it fails (EINVAL) once the kernel has dropped it because the         *)
(* directory was deleted.                                                *)
LiveWatch(w) == \E i \in exists : wdOf[i] = w

ZapSucceeds(p) == \A e \in SubtreeEntries(cache, p) : LiveWatch(e.wd)

(* zapSubtree() scans the slots in array order and stops (cnt = -1) at  *)
(* the first whose inotify_rm_watch() fails: the slots it empties are    *)
(* those before that one.                                                *)
ZappedPrefix(order) ==
    LET bad == {k \in DOMAIN order : ~LiveWatch(order[k].wd)}
        stop == IF bad = {} THEN Len(order) + 1 ELSE Min(bad)
    IN SubSeq(order, 1, stop - 1)

(* zapSubtree(): inotify_rm_watch() each cached watch at or below p, in  *)
(* slot order (the kernel queues IN_IGNORED for it), and empty its slot. *)
(* The event handlers call it only when ZapSucceeds(p), and reinitialize *)
(* otherwise, which discards whatever was half done; the console         *)
(* commands keep the result of a partial zap.                            *)
ZapSubtree(p) ==
    LET gone == ZappedPrefix(SubtreeScan(cache, p))
        wds == {gone[k].wd : k \in DOMAIN gone}
    IN
    /\ cache' = cache \ Range(gone)
    /\ wdOf' = [i \in Inodes |-> IF wdOf[i] \in wds THEN 0 ELSE wdOf[i]]
    /\ selfMask' = [i \in Inodes |-> IF wdOf[i] \in wds THEN FALSE ELSE selfMask[i]]
    /\ queue' = EnqueueAll(queue, [k \in DOMAIN gone |->
                    Ev("Ignored", gone[k].wd, NoName, 0, <<>>)])

----------------------------------------------------------------------------
(* processInotifyEvents(): reading *)

(* The first read() of a batch, once select() reports the fd readable. *)
ReadEvents ==
    LET k == IF Len(queue) < BufMax THEN Len(queue) ELSE BufMax
    IN
    /\ pc = "idle"
    /\ buf = <<>>
    /\ queue # <<>>
    /\ buf' = SubSeq(queue, 1, k)
    /\ queue' = SubSeq(queue, k + 1, Len(queue))
    /\ firstTry' = TRUE
    /\ quiet' = FALSE
    /\ readPending' = FALSE
    /\ UNCHANGED <<fsVars, ops, wdOf, selfMask, nextWd, cache, zapped, pc, starts, stack, cmds>>

(* The supplementary read() after an IN_MOVED_FROM at the end of the     *)
(* buffer, interrupted by ualarm(2000) when no event arrives in time.    *)
(* The buffer then has room for far more events than QMax.               *)
SecondaryRead ==
    /\ pc = "hanging"
    /\ queue # <<>>
    /\ buf' = buf \o queue
    /\ queue' = <<>>
    /\ pc' = "idle"
    /\ UNCHANGED <<fsVars, ops, wdOf, selfMask, nextWd, cache, zapped, firstTry, starts, stack, quiet>>

SecondaryReadTimeout ==
    /\ pc = "hanging"
    /\ queue = <<>>
    /\ pc' = "idle"
    /\ UNCHANGED <<envVars, cache, zapped, buf, firstTry, starts, stack, quiet>>

----------------------------------------------------------------------------
(* processNextInotifyEvent(): one action per branch *)

Cur == Head(buf)

NeedsLookup(ev) == ev.wd # -1 /\ ev.kind # "Ignored"

(* The event's directory and the pathname the event names in it. *)
EvDir(ev) == WatchPath(cache, ev.wd)
EvPath(ev) == Append(EvDir(ev), ev.name)

Consume(n) ==
    /\ buf' = SubSeq(buf, n + 1, Len(buf))
    /\ firstTry' = TRUE
    /\ quiet' = FALSE

Ready == pc = "idle" /\ buf # <<>>

(* findWatchChecked() fails: reinitialize and drop the buffer *)
ProcessCacheMiss ==
    /\ Ready
    /\ NeedsLookup(Cur)
    /\ ~FindWatch(cache, Cur.wd)
    /\ Reinitialize

(* IN_IGNORED comes after the event that already emptied the slot *)
ProcessIgnored ==
    /\ Ready
    /\ Cur.kind = "Ignored"
    /\ Consume(1)
    /\ UNCHANGED <<envVars, cache, zapped, pc, starts, stack>>

(* IN_CREATE or IN_MOVED_TO of a directory: watchSubtree() the new      *)
(* pathname unless it is already cached.                                 *)
ProcessCreate ==
    /\ Ready
    /\ Cur.kind \in {"Create", "MovedTo"}
    /\ FindWatch(cache, Cur.wd)
    /\ Consume(1)
    /\ IF PathnameInCache(cache, EvPath(Cur))
       THEN UNCHANGED <<pc, starts, stack>>
       ELSE /\ pc' = "walk"
            /\ starts' = <<>>
            /\ stack' = <<Frame(EvPath(Cur))>>
    /\ UNCHANGED <<envVars, cache, zapped>>

(* Variant of ProcessDeleteSelf: markCacheSlotEmpty() forgotten. *)
ProcessDeleteSelfKeepSlot ==
    LET z == IF IsRootDirPath(EvDir(Cur)) THEN zapped \cup {RootOf(EvDir(Cur))}
             ELSE zapped
    IN
    /\ Ready
    /\ Cur.kind = "DeleteSelf"
    /\ FindWatch(cache, Cur.wd)
    /\ IF z = RootNames
       THEN Exit(z)
       ELSE /\ zapped' = z
            /\ Consume(1)
            /\ UNCHANGED <<envVars, cache, pc, starts, stack>>

(* IN_DELETE_SELF: zap the root path if it is one (exiting if it was the *)
(* last), then empty the slot; the kernel has already dropped the watch. *)
ProcessDeleteSelf ==
    LET z == IF IsRootDirPath(EvDir(Cur)) THEN zapped \cup {RootOf(EvDir(Cur))}
             ELSE zapped
    IN
    /\ Ready
    /\ Cur.kind = "DeleteSelf"
    /\ FindWatch(cache, Cur.wd)
    /\ IF z = RootNames
       THEN Exit(z)
       ELSE /\ zapped' = z
            /\ cache' = MarkCacheSlotEmpty(cache, Cur.wd)
            /\ Consume(1)
            /\ UNCHANGED <<envVars, pc, starts, stack>>

(* IN_MOVED_FROM followed in the buffer by the IN_MOVED_TO with the same *)
(* cookie: an intra-tree rename.                                          *)
Paired == Len(buf) >= 2 /\ buf[2].kind = "MovedTo" /\ buf[2].cookie = Cur.cookie

ProcessRenamePairMiss ==
    /\ Ready
    /\ Cur.kind = "MovedFrom"
    /\ FindWatch(cache, Cur.wd)
    /\ Paired
    /\ ~FindWatch(cache, buf[2].wd)
    /\ Reinitialize

ProcessRenamePair ==
    /\ Ready
    /\ Cur.kind = "MovedFrom"
    /\ FindWatch(cache, Cur.wd)
    /\ Paired
    /\ FindWatch(cache, buf[2].wd)
    /\ cache' = RewriteCachedPaths(cache, EvPath(Cur), EvPath(buf[2]))
    /\ Consume(2)
    /\ UNCHANGED <<envVars, zapped, pc, starts, stack>>

(* An unmatched IN_MOVED_FROM that is not the last event of the buffer, *)
(* or the last one on the second try: a rename out of the trees.          *)
MovedOut == ~Paired /\ (Len(buf) >= 2 \/ ~firstTry)

ProcessMovedOut ==
    /\ Ready
    /\ Cur.kind = "MovedFrom"
    /\ FindWatch(cache, Cur.wd)
    /\ MovedOut
    /\ IF ZapSucceeds(EvPath(Cur))
       THEN /\ ZapSubtree(EvPath(Cur))
            /\ Consume(1)
            /\ UNCHANGED <<fsVars, ops, nextWd, zapped, pc, starts, stack>>
       ELSE Reinitialize

(* Variants of ProcessMovedFromHang: the end-of-buffer test dropped, and *)
(* the firstTry test dropped.                                            *)
ProcessMovedFromHangAnyPos ==
    /\ Ready
    /\ Cur.kind = "MovedFrom"
    /\ FindWatch(cache, Cur.wd)
    /\ ~Paired
    /\ firstTry
    /\ pc' = "hanging"
    /\ firstTry' = FALSE
    /\ UNCHANGED <<envVars, cache, zapped, buf, starts, stack, quiet>>

ProcessMovedFromHangAlways ==
    /\ Ready
    /\ Cur.kind = "MovedFrom"
    /\ FindWatch(cache, Cur.wd)
    /\ Len(buf) = 1
    /\ pc' = "hanging"
    /\ firstTry' = FALSE
    /\ UNCHANGED <<envVars, cache, zapped, buf, starts, stack, quiet>>

(* An unmatched IN_MOVED_FROM at the end of the buffer on the first try: *)
(* return -1 so that the caller reads some more.                          *)
ProcessMovedFromHang ==
    /\ Ready
    /\ Cur.kind = "MovedFrom"
    /\ FindWatch(cache, Cur.wd)
    /\ Len(buf) = 1
    /\ firstTry
    /\ pc' = "hanging"
    /\ firstTry' = FALSE
    /\ UNCHANGED <<envVars, cache, zapped, buf, starts, stack, quiet>>

(* IN_Q_OVERFLOW: events were lost; reinitialize. *)
ProcessOverflow ==
    /\ Ready
    /\ Cur.kind = "Overflow"
    /\ Reinitialize

(* IN_MOVE_SELF of a root path: zapRootDirPath() (exiting if it was the *)
(* last root), then zapSubtree() of the root's cached pathname.          *)
ProcessRootMoveSelf ==
    LET z == zapped \cup {RootOf(EvDir(Cur))}
    IN
    /\ Ready
    /\ Cur.kind = "MoveSelf"
    /\ FindWatch(cache, Cur.wd)
    /\ IsRootDirPath(EvDir(Cur))
    /\ IF z = RootNames THEN Exit(z)
       ELSE IF ZapSucceeds(EvDir(Cur))
       THEN /\ zapped' = z
            /\ ZapSubtree(EvDir(Cur))
            /\ Consume(1)
            /\ UNCHANGED <<fsVars, ops, nextWd, pc, starts, stack>>
       ELSE Reinit(z)

(* IN_MOVE_SELF of any other directory is left to the other events. *)
ProcessOtherMoveSelf ==
    /\ Ready
    /\ Cur.kind = "MoveSelf"
    /\ FindWatch(cache, Cur.wd)
    /\ ~IsRootDirPath(EvDir(Cur))
    /\ Consume(1)
    /\ UNCHANGED <<envVars, cache, zapped, pc, starts, stack>>

----------------------------------------------------------------------------
(* watchSubtree() -> watchDir() -> nftw(path, traverseTree, 20, FTW_PHYS) *)

Top1 == Head(stack)

SetTop(f) == stack' = <<f>> \o Tail(stack)

Walking(ph) == pc = "walk" /\ stack # <<>> /\ Top1.ph = ph

(* The directory a frame names: the start path is resolved in full; an   *)
(* entry is looked up by name in the directory whose stream returned it  *)
(* (fstatat() and openat() relative to that stream's descriptor), which *)
(* finds nothing once that directory has been removed.                   *)
FrameIno(f) == IF f.dir = NoIno THEN Resolve(f.path) ELSE Lookup(f.dir, Last(f.path))

(* reinitialize() calls watchSubtree() for the next root path *)
WalkStart ==
    /\ pc = "walk"
    /\ stack = <<>>
    /\ starts # <<>>
    /\ stack' = <<Frame(Head(starts))>>
    /\ starts' = Tail(starts)
    /\ UNCHANGED <<envVars, cache, zapped, buf, firstTry, pc, quiet>>

(* the handler that walked returns to processInotifyEvents() *)
WalkDone ==
    /\ pc = "walk"
    /\ stack = <<>>
    /\ starts = <<>>
    /\ pc' = "idle"
    /\ UNCHANGED <<envVars, cache, zapped, buf, firstTry, starts, stack, quiet>>

(* lstat() of the start path, or fstatat() of an entry.  A start path    *)
(* that is gone makes nftw() return -1 at once, without a callback.  For *)
(* a vanished entry nftw() calls traverseTree() with FTW_NS and a struct *)
(* stat it never filled: S_ISDIR() of that garbage either skips the      *)
(* entry or goes on to inotify_add_watch() of the pathname, without     *)
(* descending into it.                                                   *)
WalkStat ==
    /\ Walking("stat")
    /\ IF FrameIno(Top1) # NoIno
       THEN SetTop([Top1 EXCEPT !.ph = "open"])
       ELSE IF Top1.dir = NoIno
       THEN stack' = Tail(stack)
       ELSE \/ stack' = Tail(stack)
            \/ SetTop([Top1 EXCEPT !.ph = "nswatch"])
    /\ UNCHANGED <<envVars, cache, zapped, buf, firstTry, pc, starts, quiet>>

(* opendir() of the start path, or openat() of an entry: a directory     *)
(* that vanished since its stat makes nftw() give up the whole walk and  *)
(* return -1, which watchDir() only logs.                                *)
WalkOpen ==
    /\ Walking("open")
    /\ IF FrameIno(Top1) = NoIno
       THEN stack' = <<>>
       ELSE SetTop([Top1 EXCEPT !.ph = "watch", !.ino = FrameIno(Top1)])
    /\ UNCHANGED <<envVars, cache, zapped, buf, firstTry, pc, starts, quiet>>

(* traverseTree(): inotify_add_watch() (IN_MOVE_SELF too for a root      *)
(* path; ENOENT is tolerated) and a cache slot unless the returned watch *)
(* descriptor is already cached.                                         *)
TraverseTree(p) ==
    LET i == Resolve(p)
        w == IF Watched(i) THEN wdOf[i] ELSE nextWd
    IN
    IF i = NoIno
    THEN UNCHANGED <<wdOf, selfMask, nextWd, cache>>
    ELSE /\ wdOf' = [wdOf EXCEPT ![i] = w]
         /\ selfMask' = [selfMask EXCEPT ![i] = IsRootDirPath(p)]
         /\ nextWd' = IF Watched(i) THEN nextWd ELSE nextWd + 1
         /\ cache' = IF FindWatch(cache, w) THEN cache
                     ELSE AddWatchToCache(cache, w, p)

WalkAddWatch ==
    /\ Walking("watch")
    /\ SetTop([Top1 EXCEPT !.ph = "list"])
    /\ TraverseTree(Top1.path)
    /\ UNCHANGED <<fsVars, ops, queue, zapped, buf, firstTry, pc, starts, quiet>>

(* traverseTree() for an FTW_NS entry that S_ISDIR() took for a directory *)
WalkAddWatchNs ==
    /\ Walking("nswatch")
    /\ stack' = Tail(stack)
    /\ TraverseTree(Top1.path)
    /\ UNCHANGED <<fsVars, ops, queue, zapped, buf, firstTry, pc, starts, quiet>>

(* A frame for an entry of the directory that frame f has open. *)
EntryFrame(f, e) == [path |-> Append(f.path, e.name), dir |-> f.ino, ph |-> "stat",
                     ino |-> NoIno, seen |-> {}]

(* Variant of WalkReadDir: the last entry readdir() returns is skipped. *)
WalkReadDirSkipLast ==
    /\ Walking("list")
    /\ \E order \in SetToSeqs(Entries(Top1.ino)) :
          stack' = [k \in 1..(Len(order) - 1) |-> EntryFrame(Top1, order[k])]
                   \o <<[Top1 EXCEPT !.ph = "more", !.seen = Entries(Top1.ino)]>> \o Tail(stack)
    /\ UNCHANGED <<envVars, cache, zapped, buf, firstTry, pc, starts, quiet>>

(* The first readdir() on the open stream: one getdents() fills glibc's  *)
(* buffer with every entry the directory holds now (the model's          *)
(* directories are far smaller than the buffer), and nftw() visits them  *)
(* one after another in the order returned, under the pathname the walk  *)
(* reached the directory by.                                             *)
WalkReadDir ==
    /\ Walking("list")
    /\ \E order \in SetToSeqs(Entries(Top1.ino)) :
          stack' = [k \in DOMAIN order |-> EntryFrame(Top1, order[k])]
                   \o <<[Top1 EXCEPT !.ph = "more", !.seen = Entries(Top1.ino)]>> \o Tail(stack)
    /\ UNCHANGED <<envVars, cache, zapped, buf, firstTry, pc, starts, quiet>>

(* The readdir() after the buffered entries: the next getdents() either  *)
(* ends the stream, or returns an entry made since the first one (POSIX  *)
(* leaves it unspecified whether it does), which nftw() visits before    *)
(* reading on.                                                           *)
WalkReadMore ==
    /\ Walking("more")
    /\ \/ stack' = Tail(stack)
       \/ \E e \in Entries(Top1.ino) \ Top1.seen :
             stack' = <<EntryFrame(Top1, e), [Top1 EXCEPT !.seen = @ \cup {e}]>> \o Tail(stack)
    /\ UNCHANGED <<envVars, cache, zapped, buf, firstTry, pc, starts, quiet>>

----------------------------------------------------------------------------
(* executeCommand(): the operator console.  main() calls it when select() *)
(* reports stdin readable, between two batches of events; if the same    *)
(* select() also reported the inotify fd readable, main() then calls      *)
(* processInotifyEvents(), whose read() blocks until an event arrives.    *)
(* The commands that only read the cache or set logging options (c, C,   *)
(* l, w, v, d, x, an unknown one, an empty line) change no modelled state. *)

Console ==
    /\ pc = "idle"
    /\ buf = <<>>
    /\ ~readPending
    /\ cmds < MaxCmds
    /\ cmds' = cmds + 1
    /\ readPending' = (queue # <<>>)

(* 'a path': zapSubtree(), whose result is only logged, then            *)
(* watchSubtree() of the pathname.                                       *)
CmdAdd(p) ==
    /\ Console
    /\ ZapSubtree(p)
    /\ pc' = "walk"
    /\ starts' = <<>>
    /\ stack' = <<Frame(p)>>
    /\ quiet' = FALSE
    /\ UNCHANGED <<fsVars, ops, nextWd, zapped, buf, firstTry>>

(* 'z path': zapSubtree() *)
CmdZap(p) ==
    /\ Console
    /\ ZapSubtree(p)
    /\ quiet' = FALSE
    /\ UNCHANGED <<fsVars, ops, nextWd, zapped, buf, firstTry, pc, starts, stack>>

(* '0': close() the inotify fd, then reinitialize(-1) *)
CmdRebuild ==
    /\ Console
    /\ Reinitialize

(* end of file on stdin: exit(EXIT_FAILURE) *)
CmdEof ==
    /\ Console
    /\ Exit(zapped)

(* 'q': exit(EXIT_SUCCESS) *)
CmdQuit ==
    /\ Console
    /\ Exit(zapped)

----------------------------------------------------------------------------
(* The specification *)

ProgInit ==
    /\ cache = {}
    /\ zapped = {}
    /\ buf = <<>>
    /\ firstTry = TRUE
    /\ pc = "walk"
    /\ starts = [k \in 1..Cardinality(RootNames) |-> RootPath(SetToSeq(RootNames)[k])]
    /\ stack = <<>>
    /\ quiet = TRUE
    /\ cmds = 0
    /\ readPending = FALSE

Init == EnvInit /\ ProgInit

(* A mutator acts, concurrently with whatever the program is doing. *)
EnvStep ==
    /\ EnvNext
    /\ quiet' = FALSE
    /\ UNCHANGED <<cache, zapped, buf, firstTry, pc, starts, stack, consoleVars>>

ProcessEvent ==
    \/ ProcessCacheMiss
    \/ ProcessIgnored
    \/ ProcessCreate
    \/ ProcessDeleteSelf
    \/ ProcessRenamePairMiss
    \/ ProcessRenamePair
    \/ ProcessMovedOut
    \/ ProcessMovedFromHang
    \/ ProcessOverflow
    \/ ProcessRootMoveSelf
    \/ ProcessOtherMoveSelf

Walk ==
    \/ WalkStart
    \/ WalkDone
    \/ WalkStat
    \/ WalkOpen
    \/ WalkAddWatch
    \/ WalkAddWatchNs
    \/ WalkReadDir
    \/ WalkReadMore

ProgStep ==
    \/ ReadEvents
    \/ /\ \/ SecondaryRead
          \/ SecondaryReadTimeout
          \/ ProcessEvent
          \/ Walk
       /\ UNCHANGED consoleVars

CmdStep ==
    \/ \E p \in CmdPaths : CmdAdd(p)
    \/ \E p \in CmdPaths : CmdZap(p)
    \/ CmdRebuild
    \/ CmdEof
    \/ CmdQuit

Next == EnvStep \/ ProgStep \/ CmdStep

(* The event loop is one thread that never waits while it has work: it  *)
(* blocks only in select() with nothing to read, and the secondary read  *)
(* always returns within 2 ms.  The mutators and the operator get no     *)
(* fairness.                                                             *)
Spec == Init /\ [][Next]_vars /\ WF_vars(ProgStep)

----------------------------------------------------------------------------
(* Properties *)

Events == [kind : Kinds, wd : Int, name : AllNames \cup {NoName},
           cookie : 0..MaxOps, gp : Seq(AllNames)]

TypeOK ==
    /\ alloc \subseteq Inodes /\ exists \subseteq alloc
    /\ parent \in [Inodes -> Inodes] /\ name \in [Inodes -> AllNames]
    /\ wdOf \in [Inodes -> Nat] /\ selfMask \in [Inodes -> BOOLEAN]
    /\ nextWd \in Nat \ {0}
    /\ queue \in Seq(Events) /\ buf \in Seq(Events)
    /\ \A e \in cache : e.wd \in Nat \ {0} /\ e.path \in Seq(AllNames) /\ e.slot \in Nat
    /\ zapped \subseteq RootNames
    /\ firstTry \in BOOLEAN /\ quiet \in BOOLEAN
    /\ cmds \in 0..MaxCmds /\ readPending \in BOOLEAN
    /\ pc \in {"idle", "hanging", "walk", "exited"}
    /\ (pc = "hanging") => (Len(buf) = 1 /\ Cur.kind = "MovedFrom")

(* The directories the cache should hold: those below a root path that  *)
(* is still monitored.                                                   *)
TreeDirs == {i \in exists : \E r \in RootNames \ zapped : IsPrefix(RootPath(r), PathOf(i))}

(* The cache names exactly the directories of the trees, once each, and *)
(* every slot holds the watch descriptor of the directory it names.     *)
CacheMatchesTree ==
    /\ CachedPaths(cache) = {PathOf(i) : i \in TreeDirs}
    /\ Cardinality(cache) = Cardinality(TreeDirs)
    /\ \A e \in cache : Resolve(e.path) # NoIno /\ wdOf[Resolve(e.path)] = e.wd

Pending == buf \o queue

(* Every cached watch descriptor is either a watch the kernel still     *)
(* holds or one whose removal the program has yet to read (a pending    *)
(* IN_DELETE_SELF or IN_IGNORED, or an IN_Q_OVERFLOW that will rebuild  *)
(* everything): rmdir()s, zapSubtree()'s inotify_rm_watch() calls and   *)
(* the instance swap of reinitialize() never leave a slot that no event *)
(* will clear and whose next inotify_rm_watch() would fail.             *)
CacheWatchesAccounted ==
    \A e \in cache :
        \/ \E i \in Inodes : wdOf[i] = e.wd
        \/ \E k \in DOMAIN Pending :
              \/ Pending[k].kind = "Overflow"
              \/ Pending[k].kind \in {"DeleteSelf", "Ignored"} /\ Pending[k].wd = e.wd

(* The events whose handler builds a pathname from the cached pathname  *)
(* of their watch: the event at the head of the buffer, and the paired  *)
(* IN_MOVED_TO of an intra-tree rename.                                  *)
UsedEvents ==
    IF Cur.kind = "MovedFrom" /\ Paired THEN {Cur, buf[2]} ELSE {Cur}

(* Whenever processNextInotifyEvent() looks up the watch of a create,    *)
(* rename or delete event and finds it, the cached pathname is the       *)
(* pathname the watched directory had when the kernel queued the event:  *)
(* rewriteCachedPaths(), zapSubtree() and the rebuilds keep every cached *)
(* pathname in step with the renames of the events still to come, so the *)
(* handler never walks, rewrites or zaps the wrong pathname.             *)
EventPathAgreement ==
    Ready =>
        \A ev \in UsedEvents :
            (ev.kind \in {"Create", "MovedTo", "MovedFrom", "DeleteSelf"}
             /\ FindWatch(cache, ev.wd)) => WatchPath(cache, ev.wd) = ev.gp

(* reinitialize() rebuilds the cache from a full walk of the non-zapped *)
(* roots: when no mutator acted while it ran, the cache it leaves equals *)
(* the trees, each directory with its live watch descriptor (spec §8    *)
(* idempotence and scenario 4).                                          *)
ReinitRebuildsTree == (pc = "idle" /\ quiet) => CacheMatchesTree

(* Every batch that read() returns is eventually consumed: the deferral *)
(* of a trailing IN_MOVED_FROM happens once (firstTry), and every walk   *)
(* ends.                                                                 *)
BufferDrains == [](buf # <<>> => <>(buf = <<>> \/ pc = "exited"))

(* Spec §8: once every event has been processed, the cache holds exactly *)
(* the directories below the monitored roots: here for a program that    *)
(* has cached every root it monitors (a root gone before its first watch *)
(* is the case of RootsGoneExits), so that what is checked is the walk   *)
(* of watchDir() below the roots and the events that follow it.          *)
QuiescentConsistency ==
    /\ pc = "idle" /\ buf = <<>> /\ queue = <<>>
    /\ \A r \in RootNames \ zapped : PathnameInCache(cache, RootPath(r))
    => CachedPaths(cache) = {PathOf(i) : i \in TreeDirs}

(* Spec §8 boundary: when every root directory has been moved away or   *)
(* removed, the program eventually stops.                               *)
AllRootsGone == \A r \in RootNames : Resolve(RootPath(r)) = NoIno

RootsGoneExits == [](AllRootsGone => <>(pc = "exited"))


(* The 'z path' command ("Stop watching a subtree, and zap its cache     *)
(* entries"): when executeCommand() returns, no cached directory at or   *)
(* below the pathname is still watched.                                  *)
ZapCmdStopsWatching ==
    [][\A p \in CmdPaths :
         CmdZap(p) => \A e \in SubtreeEntries(cache', p) : ~(LiveWatch(e.wd))']_vars

(* After an operator command main() returns to select() and so to the    *)
(* console: the processInotifyEvents() call that follows a command in    *)
(* the same loop iteration eventually returns from its read().           *)
ConsoleServed == [](readPending => <>(~readPending \/ pc = "exited"))

=============================================================================
