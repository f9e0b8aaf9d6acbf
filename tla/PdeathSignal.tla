----------------------------- MODULE PdeathSignal -----------------------------
(***************************************************************************)
(* src/procexec/pdeath_signal.c: main() creates a chain of ancestor        *)
(* processes, one per argument, and the last one creates the child, which *)
(* asks with PR_SET_PDEATHSIG for SIGUSR1 when its parent dies.  Each      *)
(* ancestor argument lists its threads (one token each); the token marked *)
(* '+' (by default the initial thread) forks the next process, and a       *)
(* leading '@' makes the process a subreaper.  Every thread sleeps and     *)
(* then terminates; the sleep lengths are left out, so threads end in any  *)
(* order.                                                                  *)
(*                                                                         *)
(* The kernel side is the parent of each process: the thread that forked  *)
(* it, until that thread ends.  Then (forget_original_parent() and        *)
(* find_new_reaper()) the first live thread of the same process adopts    *)
(* it, or, if none is left, the first live subreaper up the parent chain,  *)
(* or init; and a process with a parent-death signal gets it each time.   *)
(* Process 0 is main(); an argument is [sub, tokens], tokens[k + 1] being  *)
(* TRUE when thread k's token has a '+'.                                   *)
(***************************************************************************)
EXTENDS Integers, Sequences

CONSTANTS
    ArgChoices,     \* the ancestor argument lists to try
    MaxAnc,         \* the longest of them
    MaxThr          \* the most tokens in one argument

VARIABLES
    args,           \* input: the ancestor arguments, argv[3..]
    th,             \* th[p][k]: "none", "born", "parse", "start", "sleep", "dead"
    pnext,          \* createThreads(): index of the next token
    marked,         \* createThreads(): nextParentMarked
    forker,         \* the thread of each process that creates the next one
    alive,          \* per process: "none", "live" or "exited"
    rparent,        \* per process p > 0: <<process, thread>> or InitTask
    subreaper,      \* per process: PR_SET_CHILD_SUBREAPER done
    hasSubAnc,      \* per process: has_child_subreaper, inherited at fork
    cpc,            \* the child: "none", "setup", "armed" or "exited"
    cnt             \* the child's handler count

vars == <<args, th, pnext, marked, forker, alive, rparent, subreaper,
          hasSubAnc, cpc, cnt>>

N == Len(args)
Child == N + 1
Procs == 0 .. MaxAnc
AllProcs == 0 .. MaxAnc + 1
Thr == 0 .. MaxThr - 1

(* init (the child reaper), as a parent. *)
InitTask == <<-1, 0>>

LiveThread(p, k) == th[p][k] \notin {"none", "dead"}

(* find_alive_thread(): the first live thread of p under table t. *)
AliveIn(t, p) == {k \in Thr : t[p][k] \notin {"none", "dead"}}
FirstAlive(t, p) == CHOOSE k \in AliveIn(t, p) : \A j \in AliveIn(t, p) : k <= j

(* find_new_reaper() for the children of a thread of p, once table t has *)
(* that thread dead: another thread of p, or the first live subreaper    *)
(* on p's parent chain when p has_child_subreaper, else init.            *)
RECURSIVE UpChain(_, _)
UpChain(t, r) ==
    IF r = InitTask THEN InitTask
    ELSE IF subreaper[r[1]] /\ AliveIn(t, r[1]) # {}
    THEN <<r[1], FirstAlive(t, r[1])>>
    ELSE UpChain(t, rparent[r[1]])

NewReaper(t, p) ==
    IF AliveIn(t, p) # {} THEN <<p, FirstAlive(t, p)>>
    ELSE IF p > 0 /\ hasSubAnc[p] THEN UpChain(t, rparent[p])
    ELSE InitTask

(* Threads ks of p end (table t has them dead): the process exits with   *)
(* its last thread; the live processes they parented are adopted, and the *)
(* child gets SIGUSR1 if it has armed PR_SET_PDEATHSIG.                   *)
ThreadsGone(p, ks, t) ==
    LET orphans == {q \in 1 .. Child : alive[q] = "live" /\ \E k \in ks : rparent[q] = <<p, k>>}
    IN  /\ th' = t
        /\ rparent' = [q \in DOMAIN rparent |->
                          IF q \in orphans THEN NewReaper(t, p) ELSE rparent[q]]
        /\ cnt' = IF Child \in orphans /\ cpc = "armed" THEN cnt + 1 ELSE cnt
        /\ alive' = IF AliveIn(t, p) = {} THEN [alive EXCEPT ![p] = "exited"] ELSE alive

Init ==
    /\ args \in ArgChoices
    /\ th = [p \in Procs |-> [k \in Thr |-> IF p = 0 /\ k = 0 THEN "start" ELSE "none"]]
    /\ pnext = [p \in Procs |-> 1]
    /\ marked = [p \in Procs |-> FALSE]
    /\ forker = [p \in Procs |-> IF p = 0 THEN 0 ELSE -1]
    /\ alive = [p \in AllProcs |-> IF p = 0 THEN "live" ELSE "none"]
    /\ rparent = [p \in 1 .. MaxAnc + 1 |-> InitTask]
    /\ subreaper = [p \in Procs |-> FALSE]
    /\ hasSubAnc = [p \in AllProcs |-> FALSE]
    /\ cpc = "none"
    /\ cnt = 0

(* fork() by thread k of p: createAncestor() makes ancestor p + 1, or,   *)
(* after the last argument, createChild() makes the child.               *)
Fork(p, k) ==
    LET q == p + 1
    IN  /\ alive' = [alive EXCEPT ![q] = "live"]
        /\ rparent' = [rparent EXCEPT ![q] = <<p, k>>]
        /\ hasSubAnc' = [hasSubAnc EXCEPT ![q] = hasSubAnc[p] \/ subreaper[p]]
        /\ IF p < N
           THEN th' = [th EXCEPT ![q][0] = "born", ![p][k] = "sleep"] /\ UNCHANGED cpc
           ELSE th' = [th EXCEPT ![p][k] = "sleep"] /\ cpc' = "setup"

(* performPerThreadSteps() up to its sleep: the thread marked to create  *)
(* the next process forks (main() always does).                          *)
Start(p, k) ==
    /\ th[p][k] = "start"
    /\ IF forker[p] = k
       THEN Fork(p, k)
       ELSE th' = [th EXCEPT ![p][k] = "sleep"] /\ UNCHANGED <<alive, rparent, hasSubAnc, cpc>>
    /\ UNCHANGED <<args, pnext, marked, forker, subreaper, cnt>>

(* Born without the PR_SET_CHILD_SUBREAPER call, as a mutant. *)
BornNoSubreaper(p) ==
    /\ th[p][0] = "born"
    /\ th' = [th EXCEPT ![p][0] = "parse"]
    /\ UNCHANGED <<args, pnext, marked, forker, subreaper, alive, rparent, hasSubAnc, cpc, cnt>>

(* createAncestor() in the new process: '@' makes it a subreaper. *)
Born(p) ==
    /\ th[p][0] = "born"
    /\ subreaper' = [subreaper EXCEPT ![p] = args[p].sub]
    /\ th' = [th EXCEPT ![p][0] = "parse"]
    /\ UNCHANGED <<args, pnext, marked, forker, alive, rparent, hasSubAnc, cpc, cnt>>

(* Parse without the default to the initial thread, as a mutant. *)
ParseNoDefault(p) ==
    LET toks == args[p].tokens
        tnum == pnext[p] - 1
    IN  /\ th[p][0] = "parse"
        /\ IF pnext[p] > Len(toks)
           THEN /\ th' = [th EXCEPT ![p][0] = "start"]
                /\ UNCHANGED <<forker, pnext, marked, alive, rparent, cnt>>
           ELSE /\ marked' = [marked EXCEPT ![p] = @ \/ toks[pnext[p]]]
                /\ forker' = [forker EXCEPT ![p] = IF toks[pnext[p]] THEN tnum ELSE @]
                /\ th' = IF tnum > 0 THEN [th EXCEPT ![p][tnum] = "start"] ELSE th
                /\ pnext' = [pnext EXCEPT ![p] = @ + 1]
                /\ UNCHANGED <<alive, rparent, cnt>>
        /\ UNCHANGED <<args, subreaper, hasSubAnc, cpc>>

(* One token of createThreads()'s loop: a second '+' is fatal; a '+'     *)
(* marks the forker; every token after the first gets a new thread.      *)
(* After the last token the initial thread forks if none was marked.     *)
Parse(p) ==
    LET toks == args[p].tokens
        tnum == pnext[p] - 1
    IN  /\ th[p][0] = "parse"
        /\ IF pnext[p] > Len(toks)
           THEN /\ forker' = [forker EXCEPT ![p] = IF marked[p] THEN @ ELSE 0]
                /\ th' = [th EXCEPT ![p][0] = "start"]
                /\ UNCHANGED <<pnext, marked, alive, rparent, cnt>>
           ELSE IF toks[pnext[p]] /\ marked[p]
           THEN /\ ThreadsGone(p, Thr, [th EXCEPT ![p] = [k \in Thr |->
                                           IF @[k] = "none" THEN "none" ELSE "dead"]])
                /\ UNCHANGED <<pnext, marked, forker>>
           ELSE /\ marked' = [marked EXCEPT ![p] = @ \/ toks[pnext[p]]]
                /\ forker' = [forker EXCEPT ![p] = IF toks[pnext[p]] THEN tnum ELSE @]
                /\ th' = IF tnum > 0 THEN [th EXCEPT ![p][tnum] = "start"] ELSE th
                /\ pnext' = [pnext EXCEPT ![p] = @ + 1]
                /\ UNCHANGED <<alive, rparent, cnt>>
        /\ UNCHANGED <<args, subreaper, hasSubAnc, cpc>>

(* The sleep is over: pthread_exit(). *)
ThreadExit(p, k) ==
    /\ p > 0
    /\ th[p][k] = "sleep"
    /\ ThreadsGone(p, {k}, [th EXCEPT ![p][k] = "dead"])
    /\ UNCHANGED <<args, pnext, marked, forker, subreaper, hasSubAnc, cpc>>

(* main()'s wait(NULL) returns when its child ends; main() returns. *)
MainWait ==
    /\ th[0][0] = "sleep"
    /\ alive[1] = "exited"
    /\ ThreadsGone(0, {0}, [th EXCEPT ![0][0] = "dead"])
    /\ UNCHANGED <<args, pnext, marked, forker, subreaper, hasSubAnc, cpc>>

(* createChild() in the child: sigaction(), the pre-sleep, then          *)
(* prctl(PR_SET_PDEATHSIG, SIGUSR1).                                      *)
ChildArm ==
    /\ cpc = "setup"
    /\ cpc' = "armed"
    /\ UNCHANGED <<args, th, pnext, marked, forker, alive, rparent, subreaper, hasSubAnc, cnt>>

(* The post-sleep loop ends and the child exits. *)
ChildExit ==
    /\ cpc = "armed"
    /\ cpc' = "exited"
    /\ alive' = [alive EXCEPT ![Child] = "exited"]
    /\ UNCHANGED <<args, th, pnext, marked, forker, rparent, subreaper, hasSubAnc, cnt>>

ThreadStep(p, k) ==
    \/ Start(p, k)
    \/ ThreadExit(p, k)
    \/ k = 0 /\ (Born(p) \/ Parse(p))
    \/ p = 0 /\ k = 0 /\ MainWait

ChildStep == ChildArm \/ ChildExit

Next == (\E p \in Procs, k \in Thr : ThreadStep(p, k)) \/ ChildStep

(* Every thread and the child run whenever they can. *)
Spec ==
    /\ Init /\ [][Next]_vars
    /\ \A p \in Procs, k \in Thr : WF_vars(ThreadStep(p, k))
    /\ WF_vars(ChildStep)

----------------------------------------------------------------------------

TypeOK ==
    /\ th \in [Procs -> [Thr -> {"none", "born", "parse", "start", "sleep", "dead"}]]
    /\ pnext \in [Procs -> 1 .. MaxThr + 1]
    /\ marked \in [Procs -> BOOLEAN]
    /\ forker \in [Procs -> -1 .. MaxThr - 1]
    /\ alive \in [AllProcs -> {"none", "live", "exited"}]
    /\ \A q \in DOMAIN rparent : rparent[q] \in {InitTask} \cup Procs \X Thr
    /\ subreaper \in [Procs -> BOOLEAN]
    /\ hasSubAnc \in [AllProcs -> BOOLEAN]
    /\ cpc \in {"none", "setup", "armed", "exited"}
    /\ cnt \in Nat

(* Each live process's parent is a live thread: of the process before it *)
(* in the chain, or of an ancestor marked '@'; and a process is left to  *)
(* init only when no ancestor marked '@' has a live thread.  So the '@'  *)
(* argument and the kernel's reparenting agree however the threads of    *)
(* the chain end.                                                         *)
SubreaperAdopts ==
    \A q \in 1 .. Child : alive[q] = "live" =>
        LET r == rparent[q]
        IN  IF r = InitTask
            THEN \A a \in 1 .. q - 1 : ~(args[a].sub /\ AliveIn(th, a) # {})
            ELSE /\ LiveThread(r[1], r[2])
                 /\ (r[1] = q - 1 \/ (r[1] > 0 /\ args[r[1]].sub))

(* An argument list with at most one '+' per argument. *)
WellFormed == \A p \in 1 .. N : \A i, j \in DOMAIN args[p].tokens :
                  args[p].tokens[i] /\ args[p].tokens[j] => i = j

(* With well-formed arguments the chain is completed: some thread of     *)
(* every ancestor forks the next, and the child is created.              *)
ChildCreated == WellFormed => <>(cpc # "none")

=============================================================================
