----------------------------- MODULE DirTreeEnv -----------------------------
(***************************************************************************)
(* The environment of inotify_dtree: a filesystem that holds only          *)
(* directories, the kernel's inotify instance (its watches and its event   *)
(* queue), and the concurrent mutators that create, delete and rename      *)
(* directories in the monitored trees (rand_dtree.c, or any other          *)
(* process, including one that moves directories out of or into the trees).*)
(*                                                                         *)
(* A directory is an inode with a parent and a name; its pathname is       *)
(* computed by walking the parents, so a rename of a directory changes the *)
(* pathname of every directory below it, as in the real filesystem.  A     *)
(* pathname is a sequence of names: the '/'-delimited prefix test of the   *)
(* C code is the sequence prefix test.                                     *)
(*                                                                         *)
(* The kernel side follows Linux inotify: a watch belongs to an inode and  *)
(* survives renames; watch descriptors are handed out in increasing order  *)
(* per inotify instance and an existing watch on the same inode is         *)
(* returned again; the queue holds at most QMax events, after which one    *)
(* IN_Q_OVERFLOW event is queued and further events are dropped.           *)
(***************************************************************************)
EXTENDS Integers, Sequences, SequencesExt, FiniteSets

CONSTANTS
    RootNames,  \* the directories named on the command line, e.g. {"r"}
    RootParent, \* RootParent[r]: Top, or the root that r lies directly in
    Names,      \* names that mutators give to new or renamed directories
    NewDirs,    \* inodes that mkdir() may allocate (never reused)
    QMax,       \* /proc/sys/fs/inotify/max_queued_events
    MaxOps      \* bound on the number of mutator operations

ASSUME QMax \in Nat \ {0}
ASSUME MaxOps \in Nat

Top == "/"          \* the filesystem root; never watched
Out == "out"        \* a directory outside every monitored tree
NoName == ""        \* the name field of an event that carries none
NoIno == "none"     \* result of resolving a pathname that does not exist

Inodes == {Top, Out} \cup RootNames \cup NewDirs

(* The pathname of root r on the command line: the roots are directories *)
(* of the initial tree, either in "/" or nested in another root.          *)
RECURSIVE RootPath(_)
RootPath(r) ==
    IF RootParent[r] = Top THEN <<r>> ELSE Append(RootPath(RootParent[r]), r)
AllNames == Names \cup RootNames \cup {Out, Top}

VARIABLES
    alloc,      \* inodes ever created (mkdir never reuses one)
    exists,     \* inodes that are currently directories
    parent,     \* parent[i]: the directory that contains i
    name,       \* name[i]: the name of i in its parent
    wdOf,       \* wdOf[i]: the watch descriptor on inode i, 0 if none
    selfMask,   \* selfMask[i]: the watch on i includes IN_MOVE_SELF
    nextWd,     \* the next watch descriptor the instance will hand out
    queue,      \* the inotify instance's queue of unread events
    ops         \* mutator operations performed so far

fsVars == <<alloc, exists, parent, name>>
kernelVars == <<wdOf, selfMask, nextWd, queue>>
envVars == <<alloc, exists, parent, name, wdOf, selfMask, nextWd, queue, ops>>

Kinds == {"Create", "MovedFrom", "MovedTo", "MoveSelf", "DeleteSelf",
          "Ignored", "Overflow"}

(* An event as read() returns it.  gp is not part of struct inotify_event: *)
(* it records the pathname of the watched directory at the moment the     *)
(* kernel queued the event, so that properties can compare it with the    *)
(* pathname the program has cached for the event's watch descriptor.      *)
Ev(k, w, n, c, p) == [kind |-> k, wd |-> w, name |-> n, cookie |-> c, gp |-> p]

OverflowEv == Ev("Overflow", -1, NoName, 0, <<>>)

----------------------------------------------------------------------------
(* Pathnames *)

RECURSIVE PathOf(_)
PathOf(i) == IF i = Top THEN <<>> ELSE Append(PathOf(parent[i]), name[i])

Children(i) == {j \in exists \ {Top} : parent[j] = i}

ChildNames(i) == {name[j] : j \in Children(i)}

(* The entries of directory i, as getdents() returns them. *)
Entries(i) == {[ino |-> j, name |-> name[j]] : j \in Children(i)}

(* The entry named n in directory i, as a lookup relative to a           *)
(* descriptor open on i finds it, or NoIno (ENOENT).                      *)
Lookup(i, n) == IF \E j \in Children(i) : name[j] = n
                THEN CHOOSE j \in Children(i) : name[j] = n ELSE NoIno

(* lstat()/opendir()/inotify_add_watch() of a pathname: the directory it *)
(* names now, or NoIno (ENOENT).                                          *)
Resolve(p) ==
    IF \E i \in exists : PathOf(i) = p
    THEN CHOOSE i \in exists : PathOf(i) = p
    ELSE NoIno

Watched(i) == wdOf[i] > 0

(* The names a mutator gives to a new entry of directory p: in "/" only a *)
(* root's name (re-creating a root pathname that has been moved away or  *)
(* removed, as "mv r r.old; mkdir r" does); elsewhere the tree names.    *)
NamesIn(p) == IF p = Top THEN {r \in RootNames : RootParent[r] = Top} ELSE Names

----------------------------------------------------------------------------
(* The kernel queue *)

(* fsnotify_add_event(): below the limit the event is appended; at the    *)
(* limit the overflow event is appended unless it is already queued.      *)
Enqueue(q, e) ==
    IF Len(q) < QMax THEN Append(q, e)
    ELSE IF \E k \in DOMAIN q : q[k].kind = "Overflow" THEN q
    ELSE Append(q, OverflowEv)

EnqueueAll(q, es) == FoldLeft(Enqueue, q, es)

(* The events for watched directories only. *)
IfWatched(i, e) == IF Watched(i) THEN <<e>> ELSE <<>>

----------------------------------------------------------------------------
(* The mutators.  Each operation is one system call; the kernel queues    *)
(* its events while the call holds the directory locks, so the events of  *)
(* one call are queued together.                                          *)

(* mkdir(path): rand_dtree "c" creates a new directory in a directory of *)
(* the tree (IN_CREATE|IN_ISDIR on the parent's watch).                   *)
Mkdir(p, n, d) ==
    /\ ops < MaxOps
    /\ p \in exists
    /\ d \in NewDirs \ alloc
    /\ n \in NamesIn(p)
    /\ n \notin ChildNames(p)
    /\ alloc' = alloc \cup {d}
    /\ exists' = exists \cup {d}
    /\ parent' = [parent EXCEPT ![d] = p]
    /\ name' = [name EXCEPT ![d] = n]
    /\ queue' = EnqueueAll(queue, IfWatched(p, Ev("Create", wdOf[p], n, 0, PathOf(p))))
    /\ ops' = ops + 1
    /\ UNCHANGED <<wdOf, selfMask, nextWd>>

(* rmdir(path) of an empty directory: IN_DELETE_SELF on its own watch,   *)
(* then the kernel drops the watch and queues IN_IGNORED.  The parent's  *)
(* IN_DELETE is not in the program's watch mask.                          *)
Rmdir(d) ==
    /\ ops < MaxOps
    /\ d \in exists \ {Top, Out}
    /\ Children(d) = {}
    /\ exists' = exists \ {d}
    /\ queue' = EnqueueAll(queue,
                    IfWatched(d, Ev("DeleteSelf", wdOf[d], NoName, 0, PathOf(d)))
                    \o IfWatched(d, Ev("Ignored", wdOf[d], NoName, 0, PathOf(d))))
    /\ wdOf' = [wdOf EXCEPT ![d] = 0]
    /\ selfMask' = [selfMask EXCEPT ![d] = FALSE]
    /\ ops' = ops + 1
    /\ UNCHANGED <<alloc, parent, name, nextWd>>

(* rename(path, target) of a directory to a fresh name, inside a tree,  *)
(* out of the trees (into Out) or into them (from Out): IN_MOVED_FROM on  *)
(* the old parent, IN_MOVED_TO on the new parent, sharing a cookie, then  *)
(* IN_MOVE_SELF on the directory if its watch asked for it.               *)
Rename(d, np, nn) ==
    LET op == parent[d]
        ck == ops + 1
        newPath == Append(PathOf(np), nn)
    IN
    /\ ops < MaxOps
    /\ d \in exists \ {Top, Out}
    /\ np \in exists
    /\ ~IsPrefix(PathOf(d), PathOf(np))
    /\ nn \in NamesIn(np)
    /\ nn \notin ChildNames(np)
    /\ parent' = [parent EXCEPT ![d] = np]
    /\ name' = [name EXCEPT ![d] = nn]
    /\ queue' = EnqueueAll(queue,
                    IfWatched(op, Ev("MovedFrom", wdOf[op], name[d], ck, PathOf(op)))
                    \o IfWatched(np, Ev("MovedTo", wdOf[np], nn, ck, PathOf(np)))
                    \o (IF Watched(d) /\ selfMask[d]
                        THEN <<Ev("MoveSelf", wdOf[d], NoName, 0, newPath)>>
                        ELSE <<>>))
    /\ ops' = ops + 1
    /\ UNCHANGED <<alloc, exists, wdOf, selfMask, nextWd>>

EnvNext ==
    \/ \E p \in Inodes, n \in Names \cup RootNames, d \in NewDirs : Mkdir(p, n, d)
    \/ \E d \in Inodes : Rmdir(d)
    \/ \E d, np \in Inodes, nn \in Names \cup RootNames : Rename(d, np, nn)

EnvInit ==
    /\ alloc = {Top, Out} \cup RootNames
    /\ exists = alloc
    /\ parent = [i \in Inodes |-> IF i \in RootNames THEN RootParent[i] ELSE Top]
    /\ name = [i \in Inodes |-> IF i \in RootNames \cup {Out, Top} THEN i
                                ELSE CHOOSE n \in Names : TRUE]
    /\ wdOf = [i \in Inodes |-> 0]
    /\ selfMask = [i \in Inodes |-> FALSE]
    /\ nextWd = 1
    /\ queue = <<>>
    /\ ops = 0

=============================================================================
