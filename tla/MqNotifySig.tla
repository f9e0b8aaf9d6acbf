----------------------------- MODULE MqNotifySig -----------------------------
(***************************************************************************)
(* src/pmsg/mq_notify_sig.c: NOTIFY_SIG (SIGUSR1) is blocked and caught   *)
(* by an empty handler; main() registers once, then loops: sigsuspend()   *)
(* until the signal is pending, re-register, drain the queue with         *)
(* mq_receive() until EAGAIN.  The signal can be delivered only inside    *)
(* sigsuspend(), so 'pending' is the blocked, pending SIGUSR1 (standard   *)
(* signals do not queue).  A SIGUSR1 sent by some other process with      *)
(* kill() is the fault action Kill, bounded by MaxKills.                  *)
(***************************************************************************)
EXTENDS MqKernel

CONSTANT MaxKills

VARIABLES
    pc,         \* "reg0", "suspend", "rereg", "drain" or "exited"
    pending,    \* SIGUSR1 is pending
    kills,      \* SIGUSR1 signals sent by other processes so far
    early       \* history: the queue held messages at the first mq_notify()

vars == <<kernelVars, pc, pending, kills, early>>

Init ==
    /\ KernelInit
    /\ pc = "reg0"
    /\ pending = FALSE
    /\ kills = 0
    /\ early = FALSE

(* The mq_notify() calls: EBUSY ends the program through errExit(). *)
Register(next) ==
    \/ /\ RegisterOk
       /\ pc' = next
    \/ /\ Ebusy
       /\ pc' = "exited"
       /\ UNCHANGED kernelVars

(* The first registration, before the loop. *)
Register0 ==
    /\ pc = "reg0"
    /\ Register("suspend")
    /\ early' = (msgs > 0)
    /\ UNCHANGED <<pending, kills>>

(* Suspend with the re-registration skipped, as a mutant. *)
SuspendSkipRereg ==
    /\ pc = "suspend"
    /\ pending
    /\ pending' = FALSE
    /\ pc' = "drain"
    /\ UNCHANGED <<kernelVars, kills, early>>

(* sigsuspend() returns once SIGUSR1 is pending and has been handled. *)
Suspend ==
    /\ pc = "suspend"
    /\ pending
    /\ pending' = FALSE
    /\ pc' = "rereg"
    /\ UNCHANGED <<kernelVars, kills, early>>

(* Re-register for notification. *)
Rereg ==
    /\ pc = "rereg"
    /\ Register("drain")
    /\ UNCHANGED <<pending, kills, early>>

(* One mq_receive() of the drain loop; EAGAIN ends the loop. *)
Drain ==
    /\ pc = "drain"
    /\ \/ /\ ReceiveOne
          /\ UNCHANGED pc
       \/ /\ Empty
          /\ pc' = "suspend"
          /\ UNCHANGED kernelVars
    /\ UNCHANGED <<pending, kills, early>>

(* Another process's mq_send(); a notification raises SIGUSR1. *)
Send ==
    /\ SendMsg
    /\ pending' = (pending \/ Fires)
    /\ UNCHANGED <<pc, kills, early>>

(* kill(pid, SIGUSR1) from some other process. *)
Kill ==
    /\ kills < MaxKills
    /\ pc # "exited"
    /\ pending' = TRUE
    /\ kills' = kills + 1
    /\ UNCHANGED <<kernelVars, pc, early>>

Prog == Register0 \/ Suspend \/ Rereg \/ Drain

Next == Prog \/ Send \/ Kill

(* The process runs whenever it can; senders and killers need not act. *)
Spec == Init /\ [][Next]_vars /\ WF_vars(Prog)

----------------------------------------------------------------------------

TypeOK ==
    /\ msgs \in 0 .. MsgMax
    /\ sent \in 0 .. MaxSends
    /\ received \in 0 .. sent
    /\ reg \in BOOLEAN
    /\ pc \in {"reg0", "suspend", "rereg", "drain", "exited"}
    /\ pending \in BOOLEAN
    /\ kills \in 0 .. MaxKills
    /\ early \in BOOLEAN

(* The comment above main() says the program misses only one case: a    *)
(* message already queued when it first calls mq_notify().  Outside that *)
(* case no wake-up is lost: whenever main() sleeps in sigsuspend() with  *)
(* a message in the queue, a SIGUSR1 is pending to wake it.  It rests on *)
(* re-registering before draining, so that a message landing after the  *)
(* last mq_receive() finds the registration armed.                      *)
NoLostWakeup == ~early /\ pc = "suspend" /\ msgs > 0 => pending

(* Every queued message is eventually received, outside that case, *)
(* as long as no other process sends SIGUSR1 (kills counts such signals). *)
ConsumedBarringStraySignal == [](msgs > 0 => <>(msgs = 0 \/ early \/ kills > 0))

=============================================================================
