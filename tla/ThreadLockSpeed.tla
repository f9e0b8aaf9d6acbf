--------------------------- MODULE ThreadLockSpeed ---------------------------
(***************************************************************************)
(* src/threads/thread_lock_speed.c: main() creates NumThreads threads,     *)
(* each of which runs Outer iterations of lock; Inner times glob++;       *)
(* unlock, with a mutex or (-s) a spin lock; main() joins them in order   *)
(* and prints glob.  thread_incr_spinlock.c is the instance with two      *)
(* threads and Inner = 1 (its loc = glob; loc++; glob = loc is glob++).   *)
(*                                                                         *)
(* glob++ on the volatile int is a load and a store, so each is a step of *)
(* its own.  The mutex and the spin lock are both modelled as a lock that *)
(* a thread takes when it is free: they differ in speed, not in what they *)
(* allow.  A failed pthread_create() ends the process (errExitEN()).      *)
(***************************************************************************)
EXTENDS Naturals

CONSTANTS
    NumThreads,     \* argv[optind]
    Outer,          \* numOuterLoops
    Inner,          \* numInnerLoops
    CreateMayFail   \* whether pthread_create() may fail

Threads == 1 .. NumThreads
None == 0

VARIABLES
    mainpc,     \* "create", "join", "exited" or "failed"
    created,    \* threads created so far
    joined,     \* threads joined so far
    tpc,        \* per thread: "none", "top", "lock", "inner", "store", "done"
    j,          \* per thread: outer loop index
    k,          \* per thread: inner loop index
    reg,        \* per thread: the value glob++ loaded
    glob,
    holder      \* the thread holding the lock, or None

vars == <<mainpc, created, joined, tpc, j, k, reg, glob, holder>>

(* The process is still running: errExitEN() ends every thread. *)
Running == mainpc \in {"create", "join"}

Init ==
    /\ mainpc = "create"
    /\ created = 0
    /\ joined = 0
    /\ tpc = [t \in Threads |-> "none"]
    /\ j = [t \in Threads |-> 0]
    /\ k = [t \in Threads |-> 0]
    /\ reg = [t \in Threads |-> 0]
    /\ glob = 0
    /\ holder = None

(* The thread-creation loop of main(). *)
Create ==
    /\ mainpc = "create"
    /\ \/ /\ created < NumThreads
          /\ created' = created + 1
          /\ tpc' = [tpc EXCEPT ![created + 1] = "top"]
          /\ UNCHANGED mainpc
       \/ created = NumThreads /\ mainpc' = "join" /\ UNCHANGED <<created, tpc>>
       \/ CreateMayFail /\ created < NumThreads /\ mainpc' = "failed"
          /\ UNCHANGED <<created, tpc>>
    /\ UNCHANGED <<joined, j, k, reg, glob, holder>>

(* pthread_join() of the next thread, in order; after the last, print    *)
(* glob and exit(EXIT_SUCCESS).                                          *)
Join ==
    /\ mainpc = "join"
    /\ tpc[joined + 1] = "done"
    /\ joined' = joined + 1
    /\ mainpc' = IF joined + 1 = NumThreads THEN "exited" ELSE "join"
    /\ UNCHANGED <<created, tpc, j, k, reg, glob, holder>>

(* The test of threadFunc()'s outer loop. *)
Top(t) ==
    /\ tpc[t] = "top"
    /\ tpc' = [tpc EXCEPT ![t] = IF j[t] < Outer THEN "lock" ELSE "done"]
    /\ UNCHANGED <<mainpc, created, joined, j, k, reg, glob, holder>>

(* Lock without the wait for a free lock, as a mutant. *)
LockNoWait(t) ==
    /\ tpc[t] = "lock"
    /\ holder' = t
    /\ tpc' = [tpc EXCEPT ![t] = "inner"]
    /\ UNCHANGED <<mainpc, created, joined, j, k, reg, glob>>

(* pthread_mutex_lock() or pthread_spin_lock(): wait until it is free. *)
Lock(t) ==
    /\ tpc[t] = "lock"
    /\ holder = None
    /\ holder' = t
    /\ tpc' = [tpc EXCEPT ![t] = "inner"]
    /\ UNCHANGED <<mainpc, created, joined, j, k, reg, glob>>

(* InnerStep with an unlock that never frees the lock, as a mutant. *)
InnerStepKeepLock(t) ==
    /\ tpc[t] = "inner"
    /\ IF k[t] < Inner
       THEN /\ reg' = [reg EXCEPT ![t] = glob]
            /\ tpc' = [tpc EXCEPT ![t] = "store"]
            /\ UNCHANGED <<j, k>>
       ELSE /\ j' = [j EXCEPT ![t] = @ + 1]
            /\ k' = [k EXCEPT ![t] = 0]
            /\ tpc' = [tpc EXCEPT ![t] = "top"]
            /\ UNCHANGED reg
    /\ UNCHANGED <<mainpc, created, joined, glob, holder>>

(* The inner loop's test and glob++'s load, or, after the last inner     *)
(* iteration, the unlock and the next outer iteration.                   *)
InnerStep(t) ==
    /\ tpc[t] = "inner"
    /\ IF k[t] < Inner
       THEN /\ reg' = [reg EXCEPT ![t] = glob]
            /\ tpc' = [tpc EXCEPT ![t] = "store"]
            /\ UNCHANGED <<j, k, holder>>
       ELSE /\ holder' = None
            /\ j' = [j EXCEPT ![t] = @ + 1]
            /\ k' = [k EXCEPT ![t] = 0]
            /\ tpc' = [tpc EXCEPT ![t] = "top"]
            /\ UNCHANGED reg
    /\ UNCHANGED <<mainpc, created, joined, glob>>

(* glob++'s store. *)
Store(t) ==
    /\ tpc[t] = "store"
    /\ glob' = reg[t] + 1
    /\ k' = [k EXCEPT ![t] = @ + 1]
    /\ tpc' = [tpc EXCEPT ![t] = "inner"]
    /\ UNCHANGED <<mainpc, created, joined, j, reg, holder>>

ThreadStep(t) == Running /\ (Top(t) \/ Lock(t) \/ InnerStep(t) \/ Store(t))

Next == Create \/ Join \/ \E t \in Threads : ThreadStep(t)

(* main() and every thread run whenever they can.  No fairness on who   *)
(* gets the lock: neither lock kind is fair.                            *)
Spec ==
    /\ Init /\ [][Next]_vars
    /\ WF_vars(Create) /\ WF_vars(Join)
    /\ \A t \in Threads : WF_vars(ThreadStep(t))

----------------------------------------------------------------------------

TypeOK ==
    /\ mainpc \in {"create", "join", "exited", "failed"}
    /\ created \in 0 .. NumThreads
    /\ joined \in 0 .. created
    /\ tpc \in [Threads -> {"none", "top", "lock", "inner", "store", "done"}]
    /\ j \in [Threads -> 0 .. Outer]
    /\ k \in [Threads -> 0 .. Inner]
    /\ reg \in [Threads -> Nat]
    /\ glob \in Nat
    /\ holder \in Threads \cup {None}

(* The program implements the atomic counter: every store adds one to   *)
(* what glob holds, so no update is lost however the threads interleave *)
(* their loads and stores, and main() prints glob only once every       *)
(* thread has added its Outer * Inner.                                  *)
Abstract == INSTANCE AtomicCounter WITH
    Share <- Outer * Inner,
    count <- glob,
    left <- [t \in Threads |-> Outer * Inner - (j[t] * Inner + k[t])],
    finished <- mainpc = "exited",
    aborted <- mainpc = "failed"

UpdatesNotLost == Abstract!Spec

(* The program ends: main() joins every thread and exits, or a failed   *)
(* pthread_create() ends it; no thread waits for ever on the lock.      *)
Terminates == <>(mainpc \in {"exited", "failed"})

=============================================================================
