-------------------------- MODULE MqNotifyViaSignal --------------------------
(***************************************************************************)
(* src/pmsg/mq_notify_via_signal.c (and mq_notify_siginfo.c, whose loop   *)
(* is the same): SIGUSR1 is not blocked; its handler sets gotSig, which    *)
(* starts at 1.  main() loops forever: if gotSig, clear it, register with *)
(* mq_notify() and drain the queue; then do some "work" (sleep).  A       *)
(* notification makes SIGUSR1 pending and the handler runs at the next    *)
(* step of the process (Deliver), between any two of its steps.  A        *)
(* SIGUSR1 sent by some other process with kill() is the fault action     *)
(* Kill, bounded by MaxKills.                                             *)
(***************************************************************************)
EXTENDS MqKernel

CONSTANT MaxKills

VARIABLES
    pc,         \* "top", "reg", "drain", "work" or "exited"
    gotSig,     \* the volatile flag the handler sets
    pending,    \* SIGUSR1 generated, handler not yet run
    kills       \* SIGUSR1 signals sent by other processes so far

vars == <<kernelVars, pc, gotSig, pending, kills>>

Init ==
    /\ KernelInit
    /\ pc = "top"
    /\ gotSig = TRUE
    /\ pending = FALSE
    /\ kills = 0

(* Top with the registration left out, as a mutant. *)
TopSkipRegister ==
    /\ pc = "top"
    /\ \/ gotSig /\ gotSig' = FALSE /\ pc' = "drain"
       \/ ~gotSig /\ pc' = "work" /\ UNCHANGED gotSig
    /\ UNCHANGED <<kernelVars, pending, kills>>

(* The if (gotSig) test at the top of the loop, clearing the flag. *)
Top ==
    /\ pc = "top"
    /\ \/ gotSig /\ gotSig' = FALSE /\ pc' = "reg"
       \/ ~gotSig /\ pc' = "work" /\ UNCHANGED gotSig
    /\ UNCHANGED <<kernelVars, pending, kills>>

(* mq_notify(); EBUSY ends the program through errExit(). *)
Reg ==
    /\ pc = "reg"
    /\ \/ RegisterOk /\ pc' = "drain"
       \/ Ebusy /\ pc' = "exited" /\ UNCHANGED kernelVars
    /\ UNCHANGED <<gotSig, pending, kills>>

(* One mq_receive() of the drain loop; EAGAIN ends the loop. *)
Drain ==
    /\ pc = "drain"
    /\ \/ ReceiveOne /\ UNCHANGED pc
       \/ Empty /\ pc' = "work" /\ UNCHANGED kernelVars
    /\ UNCHANGED <<gotSig, pending, kills>>

(* printf() and sleep(5), which a signal may cut short. *)
Work ==
    /\ pc = "work"
    /\ pc' = "top"
    /\ UNCHANGED <<kernelVars, gotSig, pending, kills>>

(* The handler runs: gotSig = 1. *)
Deliver ==
    /\ pc # "exited"
    /\ pending
    /\ pending' = FALSE
    /\ gotSig' = TRUE
    /\ UNCHANGED <<kernelVars, pc, kills>>

(* Another process's mq_send(); a notification generates SIGUSR1. *)
Send ==
    /\ SendMsg
    /\ pending' = (pending \/ Fires)
    /\ UNCHANGED <<pc, gotSig, kills>>

(* kill(pid, SIGUSR1) from some other process. *)
Kill ==
    /\ kills < MaxKills
    /\ pc # "exited"
    /\ pending' = TRUE
    /\ kills' = kills + 1
    /\ UNCHANGED <<kernelVars, pc, gotSig>>

Prog == Top \/ Reg \/ Drain \/ Work \/ Deliver

Next == Prog \/ Send \/ Kill

(* The process runs whenever it can, and the kernel runs the handler of  *)
(* an unblocked pending signal on its next return to user mode, however  *)
(* busy the loop is; senders and killers need not act.                   *)
Spec == Init /\ [][Next]_vars /\ WF_vars(Prog) /\ WF_vars(Deliver)

----------------------------------------------------------------------------

TypeOK ==
    /\ msgs \in 0 .. MsgMax
    /\ sent \in 0 .. MaxSends
    /\ received \in 0 .. sent
    /\ reg \in BOOLEAN
    /\ pc \in {"top", "reg", "drain", "work", "exited"}
    /\ gotSig \in BOOLEAN
    /\ pending \in BOOLEAN
    /\ kills \in 0 .. MaxKills

(* The comment before the loop says starting with gotSig = 1 makes the   *)
(* program register and drain even when messages were queued before it  *)
(* started.  So no message is ever stranded: whenever one is queued the *)
(* program is about to drain (registering or draining), or a wake-up is *)
(* on its way (gotSig set, or SIGUSR1 pending).                         *)
NoLostWakeup ==
    msgs > 0 => pc \in {"reg", "drain", "exited"} \/ gotSig \/ pending

(* Every queued message is eventually received *)
(* as long as no other process sends SIGUSR1 (kills counts such signals). *)
ConsumedBarringStraySignal == [](msgs > 0 => <>(msgs = 0 \/ kills > 0))

=============================================================================
