---------------------------- MODULE AtomicCounter ----------------------------
(***************************************************************************)
(* What the lock-protected counter programs promise (the header comments   *)
(* of src/threads/thread_lock_speed.c and thread_incr_spinlock.c: "updates *)
(* are not lost"): each thread adds its share to the counter one unit at a *)
(* time, each addition atomic; the program then reports the total, unless  *)
(* it aborted first.                                                       *)
(***************************************************************************)
EXTENDS Naturals

CONSTANTS Threads, Share

VARIABLES count, left, finished, aborted

Init ==
    /\ count = 0
    /\ left = [t \in Threads |-> Share]
    /\ finished = FALSE
    /\ aborted = FALSE

Incr(t) ==
    /\ ~aborted
    /\ left[t] > 0
    /\ count' = count + 1
    /\ left' = [left EXCEPT ![t] = @ - 1]
    /\ UNCHANGED <<finished, aborted>>

Finish ==
    /\ ~aborted /\ ~finished
    /\ \A t \in Threads : left[t] = 0
    /\ finished' = TRUE
    /\ UNCHANGED <<count, left, aborted>>

Abort ==
    /\ ~aborted /\ ~finished
    /\ aborted' = TRUE
    /\ UNCHANGED <<count, left, finished>>

Next == (\E t \in Threads : Incr(t)) \/ Finish \/ Abort

Spec == Init /\ [][Next]_<<count, left, finished, aborted>>


=============================================================================
