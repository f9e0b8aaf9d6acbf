---------------------------- MODULE BarrierRounds ----------------------------
(***************************************************************************)
(* What a reusable pthreads barrier promises its callers (pthread_barrier_ *)
(* wait(3p)), as used by src/threads/pthread_barrier_demo.c: each thread   *)
(* calls pthread_barrier_wait() up to Rounds times, and no call returns    *)
(* until every thread of the barrier has made its call for the same round. *)
(* arrived[t] counts the calls thread t has made, passed[t] the calls that *)
(* have returned; a thread is blocked in the barrier while they differ.    *)
(***************************************************************************)
EXTENDS Naturals

CONSTANTS Threads, Rounds

VARIABLES arrived, passed

vars == <<arrived, passed>>

Blocked(t) == arrived[t] > passed[t]

Init ==
    /\ arrived = [t \in Threads |-> 0]
    /\ passed = [t \in Threads |-> 0]

(* Thread t calls pthread_barrier_wait() for its next round. *)
Arrive(t) ==
    /\ ~Blocked(t)
    /\ arrived[t] < Rounds
    /\ arrived' = [arrived EXCEPT ![t] = @ + 1]
    /\ UNCHANGED passed

(* The call returns once every thread has called for this round. *)
Pass(t) ==
    /\ Blocked(t)
    /\ \A u \in Threads : arrived[u] >= arrived[t]
    /\ passed' = [passed EXCEPT ![t] = @ + 1]
    /\ UNCHANGED arrived

Next == \E t \in Threads : Arrive(t) \/ Pass(t)

Spec == Init /\ [][Next]_vars

(* A thread released by the barrier does return: no waiter is left       *)
(* blocked once its round is complete.                                   *)
FairSpec == Spec /\ \A t \in Threads : WF_vars(Pass(t))

=============================================================================
