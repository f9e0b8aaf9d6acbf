-------------------------- MODULE MqNotifyViaThread --------------------------
(***************************************************************************)
(* src/pmsg/mq_notify_via_thread.c: main() registers for SIGEV_THREAD      *)
(* notification, drains the queue and pause()s for good.  Each            *)
(* notification runs threadFunc() in a new thread, which re-registers and *)
(* then drains.  Threads are numbered in the order the notifications      *)
(* create them; several may drain at once.  The errExit() of a failed    *)
(* mq_notify() is left out: NeverBusy shows EBUSY cannot happen.          *)
(***************************************************************************)
EXTENDS MqKernel

Tids == 1 .. MaxSends   \* every notification needs a send

VARIABLES
    mainpc,     \* "reg", "drain" or "pause"
    tpc,        \* per notification thread: "none", "reg", "drain", "done"
    nthreads    \* notification threads created so far

vars == <<kernelVars, mainpc, tpc, nthreads>>

Init ==
    /\ KernelInit
    /\ mainpc = "reg"
    /\ tpc = [t \in Tids |-> "none"]
    /\ nthreads = 0

(* One mq_receive() of drainQueue()'s loop, or EAGAIN ending it. *)
DrainStep(more, done) ==
    \/ ReceiveOne /\ more
    \/ Empty /\ done /\ UNCHANGED kernelVars

(* main()'s notifySetup(). *)
MainSetup ==
    /\ mainpc = "reg"
    /\ RegisterOk
    /\ mainpc' = "drain"
    /\ UNCHANGED <<tpc, nthreads>>

(* main() draining and then registering again, as a mutant. *)
MainDrainReregister ==
    /\ mainpc = "drain"
    /\ DrainStep(UNCHANGED mainpc, mainpc' = "reg")
    /\ UNCHANGED <<tpc, nthreads>>

(* main()'s drainQueue(), then pause(). *)
MainDrain ==
    /\ mainpc = "drain"
    /\ DrainStep(UNCHANGED mainpc, mainpc' = "pause")
    /\ UNCHANGED <<tpc, nthreads>>

(* threadFunc(): re-register ... *)
ThreadSetup(t) ==
    /\ tpc[t] = "reg"
    /\ RegisterOk
    /\ tpc' = [tpc EXCEPT ![t] = "drain"]
    /\ UNCHANGED <<mainpc, nthreads>>

(* ... then drain. *)
ThreadDrain(t) ==
    /\ tpc[t] = "drain"
    /\ DrainStep(UNCHANGED tpc, tpc' = [tpc EXCEPT ![t] = "done"])
    /\ UNCHANGED <<mainpc, nthreads>>

(* Another process's mq_send(); a notification starts a new thread. *)
Send ==
    /\ SendMsg
    /\ IF Fires
       THEN /\ tpc' = [tpc EXCEPT ![nthreads + 1] = "reg"]
            /\ nthreads' = nthreads + 1
       ELSE UNCHANGED <<tpc, nthreads>>
    /\ UNCHANGED mainpc

Prog ==
    \/ MainSetup \/ MainDrain
    \/ \E t \in Tids : ThreadSetup(t) \/ ThreadDrain(t)

Next == Prog \/ Send

(* main() and every notification thread are scheduled whenever runnable; *)
(* the sender need not act.                                              *)
Spec ==
    /\ Init /\ [][Next]_vars
    /\ WF_vars(MainSetup \/ MainDrain)
    /\ \A t \in Tids : WF_vars(ThreadSetup(t) \/ ThreadDrain(t))

----------------------------------------------------------------------------

TypeOK ==
    /\ msgs \in 0 .. MsgMax
    /\ sent \in 0 .. MaxSends
    /\ received \in 0 .. sent
    /\ reg \in BOOLEAN
    /\ mainpc \in {"reg", "drain", "pause"}
    /\ tpc \in [Tids -> {"none", "reg", "drain", "done"}]
    /\ nthreads \in 0 .. MaxSends

Draining == mainpc \in {"reg", "drain"} \/ \E t \in Tids : tpc[t] \in {"reg", "drain"}

(* The comment at main()'s drainQueue() call says it handles messages    *)
(* queued before notification was established.  So no message is ever   *)
(* stranded: whenever one is queued, main() or some notification thread *)
(* has still to register or drain.                                      *)
NoLostWakeup == msgs > 0 => Draining

(* notifySetup() never meets EBUSY, so its errExit() is dead code: each *)
(* registration is consumed by the notification that starts the thread *)
(* making the next one, so whoever is about to call mq_notify() finds   *)
(* no registration, however the notification threads interleave.        *)
NeverBusy == (mainpc = "reg" \/ \E t \in Tids : tpc[t] = "reg") => ~reg

(* Every queued message is eventually received. *)
ConsumedEventually == [](msgs > 0 => <>(msgs = 0))

=============================================================================
