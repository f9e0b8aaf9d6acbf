---------------------------- MODULE EpollFlagsFork ----------------------------
(***************************************************************************)
(* src/altio/epoll_flags_fork.c: the parent opens a FIFO (unless -p),     *)
(* creates one epoll instance for everybody (-s) or leaves each child to  *)
(* create its own, and forks the children.  Each child calls epoll_wait() *)
(* once, or in a loop (-l), and with -r reads the FIFO after each return; *)
(* EOF ends its loop.  The parent then wait()s for every child.  Another *)
(* process ("cat > p") writes lines to the FIFO and finally closes it.   *)
(*                                                                         *)
(* The kernel's side is modelled as epoll(7) describes it: an event on    *)
(* the FIFO puts an armed interest on its instance's ready list (with     *)
(* EPOLLEXCLUSIVE only until an instance with a waiter is reached), a     *)
(* waiter harvests a ready item after polling the FIFO again (dropping it *)
(* if the FIFO is no longer readable), a level-triggered item stays on    *)
(* the list, an edge-triggered one leaves it, and EPOLLONESHOT disarms    *)
(* the interest.  Waiters of one instance are woken one at a time, so any *)
(* waiter may be the one that harvests.  A line is one read()'s worth.    *)
(***************************************************************************)
EXTENDS Naturals, FiniteSets

CONSTANTS
    NumChildren,    \* the <num-children> argument
    MaxWrites,      \* lines the writer sends before closing
    Options         \* records [s, e, x, o, p, r, l |-> BOOLEAN], the flags

Children == 1 .. NumChildren
Shared == 0                         \* the epoll instance created with -s
Instances == 0 .. NumChildren       \* child c's own instance is c

VARIABLES
    opt,        \* the command-line flags
    ppc,        \* parent: "open", "epoll", "fork", "wait", "exited", "failed"
    forked,     \* children created so far (childNum)
    reaped,     \* children collected by wait()
    cpc,        \* per child: "none", "start", "ctl", "wait", "read",
                \* or ended: "done", "eof", "failed"
    target,     \* per instance: file of its interest, "none", "fifo", "other"
    armed,      \* per instance: the interest may still report (EPOLLONESHOT)
    rdy,        \* per instance: the interest is on the ready list
    buf,        \* lines in the FIFO
    writes,     \* lines written so far
    writer      \* the writer: "open" or "closed"

vars == <<opt, ppc, forked, reaped, cpc, target, armed, rdy, buf, writes, writer>>

(* The instance a child waits on. *)
Ep(c) == IF opt.s THEN Shared ELSE c

Ended(c) == cpc[c] \in {"done", "eof", "failed"}

(* The FIFO polls readable: data, or hang-up once the writer has closed. *)
Readable == buf > 0 \/ writer = "closed"

(* After one epoll_wait() (and read()): loop with -l, else terminate. *)
AfterLoop(c) == [cpc EXCEPT ![c] = IF opt.l THEN "wait" ELSE "done"]

(* What epoll_create() plus epoll_ctl(EPOLL_CTL_ADD) of fd gives: EINVAL  *)
(* for EPOLLEXCLUSIVE with EPOLLONESHOT; for an fd never assigned (-s     *)
(* with -p, where the parent has not opened the FIFO) whatever the stack  *)
(* slot holds: a closed number (EBADF) or some other open file.           *)
CtlOutcomes(uninit) ==
    IF opt.x /\ opt.o THEN {"fail"}
    ELSE IF uninit THEN {"fail", "other"}
    ELSE {"fifo"}

(* The interest is added; ep_insert() queues it at once if already ready. *)
AddInterest(e, out) ==
    /\ target' = [target EXCEPT ![e] = out]
    /\ rdy' = [rdy EXCEPT ![e] = out = "fifo" /\ Readable]

Init ==
    /\ opt \in Options
    /\ ppc = "open"
    /\ forked = 0
    /\ reaped = {}
    /\ cpc = [c \in Children |-> "none"]
    /\ target = [e \in Instances |-> "none"]
    /\ armed = [e \in Instances |-> TRUE]
    /\ rdy = [e \in Instances |-> FALSE]
    /\ buf = 0
    /\ writes = 0
    /\ writer = "open"

(* Unless -p, open(fifoPath, O_RDONLY | O_NONBLOCK); errExit() if it fails. *)
Open ==
    /\ ppc = "open"
    /\ \/ ppc' = "epoll"
       \/ ~opt.p /\ ppc' = "failed"
    /\ UNCHANGED <<opt, forked, reaped, cpc, target, armed, rdy, buf, writes, writer>>

(* With -s, the one epoll instance and its interest in fd. *)
ParentEpoll ==
    /\ ppc = "epoll"
    /\ IF ~opt.s
       THEN ppc' = "fork" /\ UNCHANGED <<target, rdy>>
       ELSE \E out \in CtlOutcomes(opt.p) :
               IF out = "fail"
               THEN ppc' = "failed" /\ UNCHANGED <<target, rdy>>
               ELSE ppc' = "fork" /\ AddInterest(Shared, out)
    /\ UNCHANGED <<opt, forked, reaped, cpc, armed, buf, writes, writer>>

(* One fork() of the loop; errExit() on failure leaves the children made. *)
Fork ==
    /\ ppc = "fork"
    /\ \/ /\ forked' = forked + 1
          /\ cpc' = [cpc EXCEPT ![forked + 1] = "start"]
          /\ ppc' = IF forked + 1 = NumChildren THEN "wait" ELSE "fork"
       \/ ppc' = "failed" /\ UNCHANGED <<forked, cpc>>
    /\ UNCHANGED <<opt, reaped, target, armed, rdy, buf, writes, writer>>

(* One wait(NULL) of the final loop: it blocks until some child ends. *)
Reap ==
    /\ ppc = "wait"
    /\ \E c \in Children \ reaped :
          /\ Ended(c)
          /\ reaped' = reaped \cup {c}
          /\ ppc' = IF reaped' = Children THEN "exited" ELSE "wait"
    /\ UNCHANGED <<opt, forked, cpc, target, armed, rdy, buf, writes, writer>>

(* With -p, the child's own open() of the FIFO. *)
ChildOpen(c) ==
    /\ cpc[c] = "start"
    /\ \/ cpc' = [cpc EXCEPT ![c] = "ctl"]
       \/ opt.p /\ cpc' = [cpc EXCEPT ![c] = "failed"]
    /\ UNCHANGED <<opt, ppc, forked, reaped, target, armed, rdy, buf, writes, writer>>

(* Without -s, the child's own epoll instance and interest. *)
ChildCtl(c) ==
    /\ cpc[c] = "ctl"
    /\ IF opt.s
       THEN cpc' = [cpc EXCEPT ![c] = "wait"] /\ UNCHANGED <<target, rdy>>
       ELSE \E out \in CtlOutcomes(FALSE) :
               IF out = "fail"
               THEN cpc' = [cpc EXCEPT ![c] = "failed"] /\ UNCHANGED <<target, rdy>>
               ELSE cpc' = [cpc EXCEPT ![c] = "wait"] /\ AddInterest(c, out)
    /\ UNCHANGED <<opt, ppc, forked, reaped, armed, buf, writes, writer>>

(* Harvest removing the item whatever the trigger mode, as a mutant. *)
HarvestAlwaysRemoves(c) ==
    LET e == Ep(c) IN
    /\ cpc[c] = "wait"
    /\ target[e] = "fifo" /\ armed[e] /\ rdy[e]
    /\ rdy' = [rdy EXCEPT ![e] = FALSE]
    /\ IF ~Readable
       THEN UNCHANGED <<cpc, armed>>
       ELSE /\ armed' = [armed EXCEPT ![e] = ~opt.o]
            /\ cpc' = IF opt.r THEN [cpc EXCEPT ![c] = "read"] ELSE AfterLoop(c)
    /\ UNCHANGED <<opt, ppc, forked, reaped, target, buf, writes, writer>>

(* epoll_wait(epfd, &rev, 1, -1) returning: the ready item is polled      *)
(* again; an item whose FIFO is no longer readable is dropped and the    *)
(* child sleeps on.  Otherwise one event is reported: a level-triggered  *)
(* item goes back on the list, an edge-triggered one does not, and       *)
(* EPOLLONESHOT disarms the interest.  Then read() with -r, or the end   *)
(* of the do ... while (useLoop).                                         *)
Harvest(c) ==
    LET e == Ep(c) IN
    /\ cpc[c] = "wait"
    /\ target[e] = "fifo" /\ armed[e] /\ rdy[e]
    /\ IF ~Readable
       THEN rdy' = [rdy EXCEPT ![e] = FALSE] /\ UNCHANGED <<cpc, armed>>
       ELSE /\ rdy' = [rdy EXCEPT ![e] = ~opt.e /\ ~opt.o]
            /\ armed' = [armed EXCEPT ![e] = ~opt.o]
            /\ cpc' = IF opt.r THEN [cpc EXCEPT ![c] = "read"] ELSE AfterLoop(c)
    /\ UNCHANGED <<opt, ppc, forked, reaped, target, buf, writes, writer>>

(* read() taking EAGAIN for end of file, as a mutant. *)
ReadEagainEof(c) ==
    /\ cpc[c] = "read"
    /\ IF buf > 0
       THEN buf' = 0 /\ cpc' = AfterLoop(c)
       ELSE buf' = 0 /\ cpc' = [cpc EXCEPT ![c] = "eof"]
    /\ UNCHANGED <<opt, ppc, forked, reaped, target, armed, rdy, writes, writer>>

(* read(fd, buf, 50000) after usleep(): it takes every queued line; 0    *)
(* (no writer, nothing queued) breaks the loop; -1 (EAGAIN, another      *)
(* child took the data) is reported and the loop goes on.                *)
Read(c) ==
    /\ cpc[c] = "read"
    /\ IF buf > 0
       THEN buf' = 0 /\ cpc' = AfterLoop(c)
       ELSE IF writer = "closed"
       THEN cpc' = [cpc EXCEPT ![c] = "eof"] /\ UNCHANGED buf
       ELSE cpc' = AfterLoop(c) /\ UNCHANGED buf
    /\ UNCHANGED <<opt, ppc, forked, reaped, target, armed, rdy, writes, writer>>

(* An event on the FIFO reaches every armed interest in it, or with      *)
(* EPOLLEXCLUSIVE the wake-up walk stops at the first instance with a    *)
(* waiter: the instances it reached are some set holding exactly one     *)
(* instance with a waiter, or all of them when none has one.             *)
Wake ==
    LET A == {e \in Instances : target[e] = "fifo" /\ armed[e]}
        W == {e \in A : \E c \in Children : cpc[c] = "wait" /\ Ep(c) = e}
        Reached == IF ~opt.x \/ W = {} THEN {A}
                   ELSE {S \in SUBSET A : Cardinality(S \cap W) = 1}
    IN  \E S \in Reached : rdy' = [e \in Instances |-> rdy[e] \/ e \in S]

(* The other process writes a line ... *)
Write ==
    /\ writer = "open"
    /\ writes < MaxWrites
    /\ buf' = buf + 1
    /\ writes' = writes + 1
    /\ Wake
    /\ UNCHANGED <<opt, ppc, forked, reaped, cpc, target, armed, writer>>

(* ... and closes the FIFO: hang-up. *)
CloseWriter ==
    /\ writer = "open"
    /\ writer' = "closed"
    /\ Wake
    /\ UNCHANGED <<opt, ppc, forked, reaped, cpc, target, armed, buf, writes>>

Parent == Open \/ ParentEpoll \/ Fork \/ Reap

Child(c) == ChildOpen(c) \/ ChildCtl(c) \/ Harvest(c) \/ Read(c)

Next == Parent \/ (\E c \in Children : Child(c)) \/ Write \/ CloseWriter

(* Every process runs whenever it can; the writer need not write or close. *)
Spec ==
    /\ Init /\ [][Next]_vars
    /\ WF_vars(Parent)
    /\ \A c \in Children : WF_vars(Child(c))

----------------------------------------------------------------------------

TypeOK ==
    /\ opt \in Options
    /\ ppc \in {"open", "epoll", "fork", "wait", "exited", "failed"}
    /\ forked \in 0 .. NumChildren
    /\ reaped \subseteq Children
    /\ cpc \in [Children -> {"none", "start", "ctl", "wait", "read", "done", "eof", "failed"}]
    /\ target \in [Instances -> {"none", "fifo", "other"}]
    /\ armed \in [Instances -> BOOLEAN]
    /\ rdy \in [Instances -> BOOLEAN]
    /\ buf \in 0 .. MaxWrites
    /\ writes \in 0 .. MaxWrites
    /\ writer \in {"open", "closed"}

(* The flags that wake every waiter: no EPOLLEXCLUSIVE or EPOLLONESHOT,  *)
(* no EPOLLET on a shared instance, no -s with -p, and children that     *)
(* stop: no -l, or -l with -r and level-triggered, since the loop reads  *)
(* once per wake-up and an edge-triggered child that takes the last     *)
(* lines together with the hang-up is never told of the hang-up again.  *)
WakesAll ==
    /\ ~opt.x /\ ~opt.o /\ ~(opt.s /\ (opt.e \/ opt.p))
    /\ ~opt.l \/ (opt.r /\ ~opt.e)

(* With those flags, once the writer closes the FIFO every child ends    *)
(* and the parent's wait() loop returns: the hang-up reaches every       *)
(* waiter, however the children raced for the data before it.           *)
ParentReturns == WakesAll => (writer = "closed" ~> ppc \in {"exited", "failed"})

=============================================================================
