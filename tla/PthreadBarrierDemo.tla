-------------------------- MODULE PthreadBarrierDemo --------------------------
(***************************************************************************)
(* src/threads/pthread_barrier_demo.c: main() initialises a barrier for    *)
(* numThreads threads, creates the threads one by one and joins them in    *)
(* order; each thread loops numBarriers times, sleeping and then calling   *)
(* pthread_barrier_wait(), and checks its return value.                    *)
(*                                                                         *)
(* pthread_barrier_wait() is modelled the way glibc implements it: an      *)
(* arrival takes a ticket from a shared counter (bin, glibc's 'in'); the   *)
(* arrival whose ticket is a multiple of the count completes the round,    *)
(* publishes it in 'round' (glibc's current_round) and returns             *)
(* PTHREAD_BARRIER_SERIAL_THREAD; the others sleep until round reaches     *)
(* their ticket and return 0.  Sleeps and printf() calls are left out.     *)
(***************************************************************************)
EXTENDS Naturals, FiniteSets

CONSTANTS
    NumThreads,     \* argv[2]
    NumBarriers,    \* argv[1]
    CreateMayFail   \* whether pthread_create() may fail (EAGAIN)

ASSUME NumThreads \in Nat \ {0} /\ NumBarriers \in Nat /\ CreateMayFail \in BOOLEAN

Threads == 0 .. NumThreads - 1

VARIABLES
    mainpc,     \* "create", "join" or "exited"
    created,    \* threads created so far
    joined,     \* threads joined so far
    tpc,        \* per thread: "none", "loop", "arrived", "wait", "check", "term", "done"
    j,          \* per thread: the loop index
    ticket,     \* per thread: the ticket of its current barrier call
    ret,        \* per thread: the value pthread_barrier_wait() returned
    bin,        \* the barrier's arrival counter
    round,      \* the ticket that completed the latest round
    serials     \* history: <<thread, j>> for each SERIAL return

vars == <<mainpc, created, joined, tpc, j, ticket, ret, bin, round, serials>>

Running == mainpc # "exited"

Init ==
    /\ mainpc = "create"
    /\ created = 0
    /\ joined = 0
    /\ tpc = [t \in Threads |-> "none"]
    /\ j = [t \in Threads |-> 0]
    /\ ticket = [t \in Threads |-> 0]
    /\ ret = [t \in Threads |-> "zero"]
    /\ bin = 0
    /\ round = 0
    /\ serials = {}

----------------------------------------------------------------------------
(* main() *)

(* pthread_create() of thread number 'created'; the thread starts at the *)
(* top of its loop.  After the last one main goes on to join.            *)
Create ==
    /\ mainpc = "create"
    /\ tpc' = [tpc EXCEPT ![created] = "loop"]
    /\ created' = created + 1
    /\ mainpc' = IF created + 1 = NumThreads THEN "join" ELSE "create"
    /\ UNCHANGED <<joined, j, ticket, ret, bin, round, serials>>

(* pthread_create() fails: errExitEN() ends the process, and with it the *)
(* threads already created, blocked in the barrier or not.               *)
CreateFail ==
    /\ CreateMayFail
    /\ mainpc = "create"
    /\ mainpc' = "exited"
    /\ UNCHANGED <<created, joined, tpc, j, ticket, ret, bin, round, serials>>

(* pthread_join() of thread number 'joined' returns once it has ended; *)
(* after the last one main() calls exit().                             *)
Join ==
    /\ mainpc = "join"
    /\ tpc[joined] = "done"
    /\ joined' = joined + 1
    /\ mainpc' = IF joined + 1 = NumThreads THEN "exited" ELSE "join"
    /\ UNCHANGED <<created, tpc, j, ticket, ret, bin, round, serials>>

----------------------------------------------------------------------------
(* threadFunc() *)

(* Loop with the loop test off by one (j <= numBarriers), as a mutant. *)
LoopOffByOne(t) ==
    /\ Running
    /\ tpc[t] = "loop"
    /\ \/ /\ j[t] <= NumBarriers
          /\ bin' = bin + 1
          /\ ticket' = [ticket EXCEPT ![t] = bin + 1]
          /\ tpc' = [tpc EXCEPT ![t] = "arrived"]
       \/ /\ j[t] > NumBarriers
          /\ tpc' = [tpc EXCEPT ![t] = "term"]
          /\ UNCHANGED <<bin, ticket>>
    /\ UNCHANGED <<mainpc, created, joined, j, ret, round, serials>>

(* The loop test: either call pthread_barrier_wait(), whose first step *)
(* takes the next ticket, or leave the loop.                          *)
Loop(t) ==
    /\ Running
    /\ tpc[t] = "loop"
    /\ \/ /\ j[t] < NumBarriers
          /\ bin' = bin + 1
          /\ ticket' = [ticket EXCEPT ![t] = bin + 1]
          /\ tpc' = [tpc EXCEPT ![t] = "arrived"]
       \/ /\ j[t] >= NumBarriers
          /\ tpc' = [tpc EXCEPT ![t] = "term"]
          /\ UNCHANGED <<bin, ticket>>
    /\ UNCHANGED <<mainpc, created, joined, j, ret, round, serials>>

(* Arrived with the round completed but never published, as a mutant. *)
ArrivedNoPublish(t) ==
    /\ Running
    /\ tpc[t] = "arrived"
    /\ \/ /\ ticket[t] % NumThreads = 0
          /\ ret' = [ret EXCEPT ![t] = "serial"]
          /\ tpc' = [tpc EXCEPT ![t] = "check"]
       \/ /\ ticket[t] % NumThreads # 0
          /\ tpc' = [tpc EXCEPT ![t] = "wait"]
          /\ UNCHANGED ret
    /\ UNCHANGED <<mainpc, created, joined, j, ticket, bin, round, serials>>

(* Inside pthread_barrier_wait(): the arrival that fills the round       *)
(* publishes it and returns PTHREAD_BARRIER_SERIAL_THREAD; any other     *)
(* goes to sleep.                                                        *)
Arrived(t) ==
    /\ Running
    /\ tpc[t] = "arrived"
    /\ \/ /\ ticket[t] % NumThreads = 0
          /\ round' = ticket[t]
          /\ ret' = [ret EXCEPT ![t] = "serial"]
          /\ tpc' = [tpc EXCEPT ![t] = "check"]
       \/ /\ ticket[t] % NumThreads # 0
          /\ tpc' = [tpc EXCEPT ![t] = "wait"]
          /\ UNCHANGED <<round, ret>>
    /\ UNCHANGED <<mainpc, created, joined, j, ticket, bin, serials>>

(* Variants of Wake used as mutants: waking one ticket early and      *)
(* returning without resetting s.                                       *)
WakeOffByOne(t) ==
    /\ Running
    /\ tpc[t] = "wait"
    /\ round + 1 >= ticket[t]
    /\ ret' = [ret EXCEPT ![t] = "zero"]
    /\ tpc' = [tpc EXCEPT ![t] = "check"]
    /\ UNCHANGED <<mainpc, created, joined, j, ticket, bin, round, serials>>

WakeStaleRet(t) ==
    /\ Running
    /\ tpc[t] = "wait"
    /\ round >= ticket[t]
    /\ tpc' = [tpc EXCEPT ![t] = "check"]
    /\ UNCHANGED <<mainpc, created, joined, j, ticket, ret, bin, round, serials>>

(* A sleeper wakes and returns 0 once its round has been published. *)
Wake(t) ==
    /\ Running
    /\ tpc[t] = "wait"
    /\ round >= ticket[t]
    /\ ret' = [ret EXCEPT ![t] = "zero"]
    /\ tpc' = [tpc EXCEPT ![t] = "check"]
    /\ UNCHANGED <<mainpc, created, joined, j, ticket, bin, round, serials>>

(* The tests of s after the call, then j++.  The error branch           *)
(* (errExitEN) needs an invalid barrier and cannot be taken.            *)
Check(t) ==
    /\ Running
    /\ tpc[t] = "check"
    /\ serials' = IF ret[t] = "serial" THEN serials \cup {<<t, j[t]>>} ELSE serials
    /\ j' = [j EXCEPT ![t] = @ + 1]
    /\ tpc' = [tpc EXCEPT ![t] = "loop"]
    /\ UNCHANGED <<mainpc, created, joined, ticket, ret, bin, round>>

(* The thread prints its termination message and returns. *)
Terminate(t) ==
    /\ Running
    /\ tpc[t] = "term"
    /\ tpc' = [tpc EXCEPT ![t] = "done"]
    /\ UNCHANGED <<mainpc, created, joined, j, ticket, ret, bin, round, serials>>

ThreadStep(t) == Loop(t) \/ Arrived(t) \/ Wake(t) \/ Check(t) \/ Terminate(t)

Next ==
    \/ Create \/ CreateFail \/ Join
    \/ \E t \in Threads : ThreadStep(t)

(* Every created thread is runnable or sleeping in the kernel until its  *)
(* condition holds (sleep() ends, the futex is woken), and main() is     *)
(* scheduled likewise: each is weakly fair.                              *)
Spec ==
    /\ Init /\ [][Next]_vars
    /\ WF_vars(Create) /\ WF_vars(Join)
    /\ \A t \in Threads : WF_vars(ThreadStep(t))

----------------------------------------------------------------------------
(* Properties *)

TypeOK ==
    /\ mainpc \in {"create", "join", "exited"}
    /\ created \in 0 .. NumThreads
    /\ joined \in 0 .. NumThreads
    /\ tpc \in [Threads -> {"none", "loop", "arrived", "wait", "check", "term", "done"}]
    /\ j \in [Threads -> 0 .. NumBarriers]
    /\ ticket \in [Threads -> 0 .. NumThreads * NumBarriers]
    /\ ret \in [Threads -> {"zero", "serial"}]
    /\ bin \in 0 .. NumThreads * NumBarriers
    /\ round \in 0 .. NumThreads * NumBarriers
    /\ serials \subseteq Threads \X (0 .. NumBarriers - 1)

(* The comment at the barrier call says pthread_barrier_wait() returns   *)
(* PTHREAD_BARRIER_SERIAL_THREAD in exactly one of the waiting threads   *)
(* each time the barrier is passed: for every barrier index j, at most   *)
(* one thread has taken the SERIAL branch, and once every thread has     *)
(* passed barrier j exactly one has.                                     *)
SerialPerRound ==
    \A k \in 0 .. NumBarriers - 1 :
        LET s == {t \in Threads : <<t, k>> \in serials}
        IN  /\ Cardinality(s) <= 1
            /\ (\A t \in Threads : j[t] > k) => Cardinality(s) = 1

(* The threads' barrier calls, seen as the abstract barrier: a call has *)
(* been made from the ticket step until the loop's j++, and has returned *)
(* from the SERIAL return or the wake-up on.                            *)
Abs == INSTANCE BarrierRounds WITH
    Rounds <- NumBarriers,
    arrived <- [t \in Threads |-> j[t] + (IF tpc[t] \in {"arrived", "wait", "check"} THEN 1 ELSE 0)],
    passed <- [t \in Threads |-> j[t] + (IF tpc[t] = "check" THEN 1 ELSE 0)]

(* Every pthread_barrier_wait() of the demo returns only after all       *)
(* numThreads threads have called it for the same loop index, although   *)
(* a fast thread re-enters the barrier for the next index while slower   *)
(* ones are still asleep on the previous one.                            *)
BarrierRefined == Abs!Spec

(* ... and every call whose round is complete does return. *)
BarrierFairRefined == Abs!FairSpec

(* main() gets through all its pthread_join() calls and exits: the      *)
(* barrier cannot strand a thread.                                      *)
AllJoined == <>(mainpc = "exited")

=============================================================================
