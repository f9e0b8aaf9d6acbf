------------------------------ MODULE MqKernel ------------------------------
(***************************************************************************)
(* The POSIX message queue as the programs of src/pmsg/ use it             *)
(* (mq_overview(7), mq_notify(3)): the number of queued messages, the     *)
(* queue's single notification registration, and messages sent by another *)
(* process.  A message that arrives in an empty queue fires the           *)
(* registration, which the kernel then removes.  The programs open the    *)
(* queue O_NONBLOCK, so mq_receive() never blocks and never competes with *)
(* the notification.  Message contents are not modelled.                  *)
(***************************************************************************)
EXTENDS Naturals

CONSTANTS
    MsgMax,     \* the queue's mq_maxmsg
    MaxSends,   \* bound on the messages other processes send
    InitMsgs    \* bound on the messages queued before the program starts

VARIABLES
    msgs,       \* messages in the queue
    sent,       \* messages ever queued (ghost)
    received,   \* messages the program has received (ghost)
    reg         \* a notification registration exists

kernelVars == <<msgs, sent, received, reg>>

KernelInit ==
    /\ msgs \in 0 .. InitMsgs
    /\ sent = msgs
    /\ received = 0
    /\ reg = FALSE

(* A send now would fire the registration. *)
Fires == msgs = 0 /\ reg

(* mq_send() by another process, when the queue is not full. *)
SendMsg ==
    /\ sent < MaxSends
    /\ msgs < MsgMax
    /\ msgs' = msgs + 1
    /\ sent' = sent + 1
    /\ reg' = (reg /\ ~Fires)
    /\ UNCHANGED received

(* mq_receive() on the O_NONBLOCK descriptor returns a message... *)
ReceiveOne ==
    /\ msgs > 0
    /\ msgs' = msgs - 1
    /\ received' = received + 1
    /\ UNCHANGED <<sent, reg>>

(* ... or fails with EAGAIN on an empty queue. *)
Empty == msgs = 0

(* mq_notify() with a sigevent succeeds only when no registration exists *)
(* (ipc/mqueue.c returns EBUSY otherwise, even to the process that holds *)
(* the registration).                                                    *)
RegisterOk ==
    /\ ~reg
    /\ reg' = TRUE
    /\ UNCHANGED <<msgs, sent, received>>

Ebusy == reg

=============================================================================
