---------------------------- MODULE MqNotifyThread ----------------------------
(***************************************************************************)
(* src/pmsg/mq_notify_thread.c: main() registers for SIGEV_THREAD         *)
(* notification and pause()s for good, without draining.  Each            *)
(* notification runs threadFunc() in a new thread, which re-registers and *)
(* then drains.  Threads are numbered in the order the notifications      *)
(* create them.  The errExit() of a failed mq_notify() is left out:       *)
(* NeverBusy shows EBUSY cannot happen.                                   *)
(***************************************************************************)
EXTENDS MqKernel

Tids == 1 .. MaxSends   \* every notification needs a send

VARIABLES
    mainpc,     \* "reg" or "pause"
    tpc,        \* per notification thread: "none", "reg", "drain", "done"
    nthreads,   \* notification threads created so far
    early       \* history: the queue held messages at main()'s mq_notify()

vars == <<kernelVars, mainpc, tpc, nthreads, early>>

Init ==
    /\ KernelInit
    /\ mainpc = "reg"
    /\ tpc = [t \in Tids |-> "none"]
    /\ nthreads = 0
    /\ early = FALSE

(* main()'s notifySetup(), then pause(). *)
MainSetup ==
    /\ mainpc = "reg"
    /\ RegisterOk
    /\ mainpc' = "pause"
    /\ early' = (msgs > 0)
    /\ UNCHANGED <<tpc, nthreads>>

(* threadFunc(): mq_getattr(), malloc(), then notifySetup() ... *)
ThreadSetup(t) ==
    /\ tpc[t] = "reg"
    /\ RegisterOk
    /\ tpc' = [tpc EXCEPT ![t] = "drain"]
    /\ UNCHANGED <<mainpc, nthreads, early>>

(* ... then one mq_receive() of the loop, or EAGAIN ending it. *)
ThreadDrain(t) ==
    /\ tpc[t] = "drain"
    /\ \/ ReceiveOne /\ UNCHANGED tpc
       \/ Empty /\ tpc' = [tpc EXCEPT ![t] = "done"] /\ UNCHANGED kernelVars
    /\ UNCHANGED <<mainpc, nthreads, early>>

(* Another process's mq_send(); a notification starts a new thread. *)
Send ==
    /\ SendMsg
    /\ IF Fires
       THEN /\ tpc' = [tpc EXCEPT ![nthreads + 1] = "reg"]
            /\ nthreads' = nthreads + 1
       ELSE UNCHANGED <<tpc, nthreads>>
    /\ UNCHANGED <<mainpc, early>>

Prog == MainSetup \/ \E t \in Tids : ThreadSetup(t) \/ ThreadDrain(t)

Next == Prog \/ Send

(* main() and every notification thread are scheduled whenever runnable; *)
(* the sender need not act.                                              *)
Spec ==
    /\ Init /\ [][Next]_vars
    /\ WF_vars(MainSetup)
    /\ \A t \in Tids : WF_vars(ThreadSetup(t) \/ ThreadDrain(t))

----------------------------------------------------------------------------

TypeOK ==
    /\ msgs \in 0 .. MsgMax
    /\ sent \in 0 .. MaxSends
    /\ received \in 0 .. sent
    /\ reg \in BOOLEAN
    /\ mainpc \in {"reg", "pause"}
    /\ tpc \in [Tids -> {"none", "reg", "drain", "done"}]
    /\ nthreads \in 0 .. MaxSends
    /\ early \in BOOLEAN

(* The comment above notifySetup()'s declaration says the program misses *)
(* only a message already queued at the first registration.  Outside    *)
(* that case no message is stranded: whenever one is queued, main() or  *)
(* some notification thread has still to register or drain.             *)
NoLostWakeup ==
    ~early /\ msgs > 0 => mainpc = "reg" \/ \E t \in Tids : tpc[t] \in {"reg", "drain"}

(* notifySetup() never meets EBUSY: whoever is about to call mq_notify() *)
(* finds no registration, however the notification threads interleave.   *)
NeverBusy == (mainpc = "reg" \/ \E t \in Tids : tpc[t] = "reg") => ~reg

(* Outside that case every queued message is eventually received. *)
ConsumedEventually == [](msgs > 0 => <>(msgs = 0 \/ early))

=============================================================================
