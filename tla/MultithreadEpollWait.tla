------------------------- MODULE MultithreadEpollWait -------------------------
(***************************************************************************)
(* src/altio/multithread_epoll_wait.c: main() adds a pipe's read end to an *)
(* epoll instance, level-triggered or with EPOLLET ('x' argument), starts  *)
(* threads that each call epoll_wait() once, sleep(2)s, writes one byte,   *)
(* sleep(2)s and exits.  The kernel's part follows epoll(7) and            *)
(* fs/eventpoll.c: epoll_wait() callers wait exclusively, so a wake-up     *)
(* wakes one of them; a level-triggered item that is still ready goes back *)
(* on the ready list after a harvest and wakes the next waiter, an         *)
(* edge-triggered one does not.  A woken waiter that finds the ready list  *)
(* empty waits again.                                                      *)
(*                                                                         *)
(* Timing: the first sleep(2) need not outlast the threads' start (a       *)
(* thread may reach epoll_wait() after the write), but the second one is   *)
(* taken to outlast every thread that can still run: main() exits only    *)
(* when each thread is blocked or done.                                    *)
(***************************************************************************)
EXTENDS Naturals, FiniteSets

CONSTANTS
    NumThreads,     \* threads main() creates (5)
    CreateMayFail   \* whether pthread_create() may fail

Threads == 0 .. NumThreads - 1

VARIABLES
    et,         \* input: EPOLLET requested
    mainpc,     \* "create", "write", "sleep", "exited"
    created,    \* threads created so far
    tpc,        \* per thread: "none", "run", "wait", "woken", "done"
    rdy,        \* the pipe's item is on the epoll ready list (the byte
                \* written is never read, so the pipe stays readable)
    status      \* "running", "success", "failure"

vars == <<et, mainpc, created, tpc, rdy, status>>

Waiting == {t \in Threads : tpc[t] = "wait"}

(* Wake one exclusive waiter, if there is one. *)
WakeOne(tp) ==
    IF Waiting = {} THEN tpc' = tp
    ELSE \E w \in Waiting : tpc' = [tp EXCEPT ![w] = "woken"]

Init ==
    /\ et \in BOOLEAN
    /\ mainpc = "create" /\ created = 0
    /\ tpc = [t \in Threads |-> "none"]
    /\ rdy = FALSE
    /\ status = "running"

(* pthread_create() of thread j, or its failure and errExitEN(). *)
Create ==
    /\ mainpc = "create"
    /\ \/ /\ tpc' = [tpc EXCEPT ![created] = "run"]
          /\ created' = created + 1
          /\ mainpc' = IF created + 1 = NumThreads THEN "write" ELSE "create"
          /\ UNCHANGED status
       \/ /\ CreateMayFail
          /\ mainpc' = "exited" /\ status' = "failure"
          /\ UNCHANGED <<tpc, created>>
    /\ UNCHANGED <<et, rdy>>

(* After the first sleep(2), write(pipe1[1], "x", 1): the pipe becomes   *)
(* readable, its item goes on the ready list and one waiter is woken.    *)
Write ==
    /\ mainpc = "write"
    /\ rdy' = TRUE
    /\ WakeOne(tpc)
    /\ mainpc' = "sleep"
    /\ UNCHANGED <<et, created, status>>

(* After the second sleep(2), exit(EXIT_SUCCESS) ends every thread. *)
Exit ==
    /\ mainpc = "sleep"
    /\ \A t \in Threads : tpc[t] \in {"wait", "done"}
    /\ mainpc' = "exited" /\ status' = "success"
    /\ UNCHANGED <<et, created, tpc, rdy>>

(* A harvest that leaves the item on the ready list whatever EPOLLET, as *)
(* a mutant.                                                             *)
HarvestAsLevel(t) ==
    /\ WakeOne([tpc EXCEPT ![t] = "done"])
    /\ UNCHANGED rdy

(* ep_send_events() returns the item (ready = 1): with EPOLLET it leaves  *)
(* the ready list; level-triggered, the pipe is still readable, so it    *)
(* goes back and the next waiter is woken.                               *)
Harvest(t) ==
    IF et THEN rdy' = FALSE /\ tpc' = [tpc EXCEPT ![t] = "done"]
    ELSE HarvestAsLevel(t)

(* threadFunc(): epoll_wait(epfd, evlist, MAX_EVENTS, -1) returns at once *)
(* when the item is ready, else blocks.                                   *)
ThreadWait(t) ==
    /\ mainpc # "exited"
    /\ tpc[t] = "run"
    /\ IF rdy THEN Harvest(t) ELSE tpc' = [tpc EXCEPT ![t] = "wait"] /\ UNCHANGED rdy
    /\ UNCHANGED <<et, mainpc, created, status>>

(* A woken waiter runs: it takes the item, or finds the list empty and  *)
(* waits again.                                                          *)
ThreadWoken(t) ==
    /\ mainpc # "exited"
    /\ tpc[t] = "woken"
    /\ IF rdy THEN Harvest(t) ELSE tpc' = [tpc EXCEPT ![t] = "wait"] /\ UNCHANGED rdy
    /\ UNCHANGED <<et, mainpc, created, status>>

Main == Create \/ Write \/ Exit
Thread(t) == ThreadWait(t) \/ ThreadWoken(t)

Next == Main \/ \E t \in Threads : Thread(t)

Spec == Init /\ [][Next]_vars /\ WF_vars(Main) /\ \A t \in Threads : WF_vars(Thread(t))

----------------------------------------------------------------------------

TypeOK ==
    /\ et \in BOOLEAN
    /\ mainpc \in {"create", "write", "sleep", "exited"}
    /\ created \in 0 .. NumThreads
    /\ tpc \in [Threads -> {"none", "run", "wait", "woken", "done"}]
    /\ rdy \in BOOLEAN
    /\ status \in {"running", "success", "failure"}

(* The header comment: with EPOLLET only one of the threads in           *)
(* epoll_wait() is woken by the write, level-triggered all of them are;  *)
(* whichever threads reached epoll_wait() before or after the write.     *)
WakeCountAsDocumented ==
    status = "success" =>
        Cardinality({t \in Threads : tpc[t] = "done"}) = IF et THEN 1 ELSE NumThreads

=============================================================================
