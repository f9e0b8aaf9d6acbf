----------------------------- MODULE SimpleInit -----------------------------
(***************************************************************************)
(* src/namespaces/simple_init.c: an init for a PID namespace.  main()     *)
(* installs child_handler() for SIGCHLD (SA_RESTART | SA_NOCLDSTOP), takes *)
(* the terminal's foreground, optionally mounts a procfs, then loops:     *)
(* read a command line; fork() a child that expands it, becomes the       *)
(* foreground process group and execvp()s it; pause() until a signal; take *)
(* the foreground back.  child_handler() reaps every child that has       *)
(* changed state.                                                          *)
(*                                                                         *)
(* A command line is one of a few kinds: "empty"; "run" (execs and later  *)
(* exits); "bg" (as "run", leaving a background process that outlives it, *)
(* is reparented to init and exits later); "badword" (wordexp() fails);   *)
(* "notfound" (execvp() fails).  SIGCHLD is a pending flag (signals       *)
(* coalesce) whose handler runs between any two steps of init; a handler  *)
(* run during pause() makes pause() return.  Output is left out.          *)
(***************************************************************************)
EXTENDS Naturals, Sequences

CONSTANT Inputs     \* the command lines given on standard input, then EOF

VARIABLES
    input,      \* the lines stdin will give
    procPath,   \* -p given
    pos,        \* the next line fgets() returns
    pc,         \* "setup", "prompt", "forked", "pause", "tcset", "exited"
    kids,       \* per line: "none", "forked", "pgrp", "exec", "running", "zombie", "reaped"
    bgs,        \* per line: its background process, "none", "running", "zombie", "reaped"
    fg,         \* the terminal's foreground process group: InitGroup or a line
    pending     \* SIGCHLD pending

vars == <<input, procPath, pos, pc, kids, bgs, fg, pending>>

(* Line numbers of every input: per-line state is indexed by these. *)
Lines == UNION {DOMAIN in : in \in Inputs}

(* init's own process group, as the foreground. *)
InitGroup == 0

Zombies == {i \in Lines : kids[i] = "zombie"} \cup {i \in Lines : bgs[i] = "zombie"}

Init ==
    /\ input \in Inputs
    /\ procPath \in BOOLEAN
    /\ pos = 1
    /\ pc = "setup"
    /\ kids = [i \in Lines |-> "none"]
    /\ bgs = [i \in Lines |-> "none"]
    /\ fg = InitGroup
    /\ pending = FALSE

(* sigaction(), setpgid(), tcsetpgrp() and, with -p, the procfs mount,   *)
(* whose failure ends init through errExit().                             *)
Setup ==
    /\ pc = "setup"
    /\ \/ pc' = "prompt"
       \/ procPath /\ pc' = "exited"
    /\ UNCHANGED <<input, procPath, pos, kids, bgs, fg, pending>>

(* fgets(): end of file ends the loop (umount, exit); an empty line is   *)
(* skipped; any other is handed to fork(), which may fail and end the    *)
(* loop too.                                                             *)
Prompt ==
    /\ pc = "prompt"
    /\ IF pos > Len(input)
       THEN pc' = "exited" /\ UNCHANGED <<pos, kids>>
       ELSE /\ pos' = pos + 1
            /\ \/ input[pos] = "empty" /\ UNCHANGED <<pc, kids>>
               \/ input[pos] # "empty" /\ pc' = "forked"
                  /\ kids' = [kids EXCEPT ![pos] = "forked"]
               \/ input[pos] # "empty" /\ pc' = "exited" /\ UNCHANGED kids
    /\ UNCHANGED <<input, procPath, bgs, fg, pending>>

(* Init reaches pause(). *)
Pause ==
    /\ pc = "forked"
    /\ pc' = "pause"
    /\ UNCHANGED <<input, procPath, pos, kids, bgs, fg, pending>>

(* After pause() returns: tcsetpgrp() back to init. *)
TcSet ==
    /\ pc = "tcset"
    /\ fg' = InitGroup
    /\ pc' = "prompt"
    /\ UNCHANGED <<input, procPath, pos, kids, bgs, pending>>

(* A child or background process ends: SIGCHLD to init. *)
Die(k, i) == k' = [k EXCEPT ![i] = "zombie"] /\ pending' = TRUE

(* The child's expand_words(); exit(EXIT_FAILURE) if it fails. *)
ChildExpand(i) ==
    /\ kids[i] = "forked"
    /\ IF input[i] = "badword" THEN Die(kids, i)
       ELSE kids' = [kids EXCEPT ![i] = "pgrp"] /\ UNCHANGED pending
    /\ UNCHANGED <<input, procPath, pos, pc, bgs, fg>>

(* setpgid() and tcsetpgrp(): the child's group takes the foreground. *)
ChildPgrp(i) ==
    /\ kids[i] = "pgrp"
    /\ fg' = i
    /\ kids' = [kids EXCEPT ![i] = "exec"]
    /\ UNCHANGED <<input, procPath, pos, pc, bgs, pending>>

(* execvp(); errExit() if it fails. *)
ChildExec(i) ==
    /\ kids[i] = "exec"
    /\ IF input[i] = "notfound" THEN Die(kids, i)
       ELSE kids' = [kids EXCEPT ![i] = "running"] /\ UNCHANGED pending
    /\ UNCHANGED <<input, procPath, pos, pc, bgs, fg>>

(* The command exits; a "bg" command leaves its background process. *)
ChildExit(i) ==
    /\ kids[i] = "running"
    /\ Die(kids, i)
    /\ bgs' = IF input[i] = "bg" THEN [bgs EXCEPT ![i] = "running"] ELSE bgs
    /\ UNCHANGED <<input, procPath, pos, pc, fg>>

(* The orphaned background process, now init's child, exits. *)
BgExit(i) ==
    /\ bgs[i] = "running"
    /\ Die(bgs, i)
    /\ UNCHANGED <<input, procPath, pos, pc, kids, fg>>

(* child_handler() with one waitpid() instead of the loop, as a mutant. *)
HandlerReapOne ==
    /\ pending
    /\ pc # "exited"
    /\ pending' = FALSE
    /\ LET zk == {i \in Lines : kids[i] = "zombie"}
           zb == {i \in Lines : bgs[i] = "zombie"}
       IN  IF zk # {}
           THEN kids' = [kids EXCEPT ![CHOOSE i \in zk : TRUE] = "reaped"] /\ UNCHANGED bgs
           ELSE IF zb # {}
           THEN bgs' = [bgs EXCEPT ![CHOOSE i \in zb : TRUE] = "reaped"] /\ UNCHANGED kids
           ELSE UNCHANGED <<kids, bgs>>
    /\ pc' = IF pc = "pause" THEN "tcset" ELSE pc
    /\ UNCHANGED <<input, procPath, pos, fg>>

(* child_handler(): waitpid(WNOHANG) until ECHILD or 0, reaping every   *)
(* zombie; if init was in pause(), pause() returns.  (SA_RESTART lets    *)
(* fgets() continue.)                                                    *)
Handler ==
    /\ pending
    /\ pc # "exited"
    /\ pending' = FALSE
    /\ kids' = [i \in Lines |-> IF kids[i] = "zombie" THEN "reaped" ELSE kids[i]]
    /\ bgs' = [i \in Lines |-> IF bgs[i] = "zombie" THEN "reaped" ELSE bgs[i]]
    /\ pc' = IF pc = "pause" THEN "tcset" ELSE pc
    /\ UNCHANGED <<input, procPath, pos, fg>>

InitSteps == Setup \/ Prompt \/ Pause \/ TcSet \/ Handler

Children ==
    \E i \in Lines : ChildExpand(i) \/ ChildPgrp(i) \/ ChildExec(i) \/ ChildExit(i) \/ BgExit(i)

(* When init ends, the kernel kills the namespace's other processes. *)
Next == InitSteps \/ (pc # "exited" /\ Children)

(* Init, and each child, run whenever they can; the kernel runs the      *)
(* handler of a pending SIGCHLD on init's next return to user mode.     *)
Spec ==
    /\ Init /\ [][Next]_vars
    /\ WF_vars(Setup \/ Prompt \/ Pause \/ TcSet) /\ WF_vars(Handler)
    /\ \A i \in Lines : WF_vars(pc # "exited" /\ (ChildExpand(i) \/ ChildPgrp(i) \/ ChildExec(i) \/ ChildExit(i)))

----------------------------------------------------------------------------

TypeOK ==
    /\ procPath \in BOOLEAN
    /\ pos \in 1 .. Len(input) + 1
    /\ pc \in {"setup", "prompt", "forked", "pause", "tcset", "exited"}
    /\ kids \in [Lines -> {"none", "forked", "pgrp", "exec", "running", "zombie", "reaped"}]
    /\ bgs \in [Lines -> {"none", "running", "zombie", "reaped"}]
    /\ fg \in Lines \cup {InitGroup}
    /\ pending \in BOOLEAN

(* SIGCHLDs coalesce, so child_handler() loops over waitpid(): a zombie  *)
(* is never left without a pending SIGCHLD to reap it, however many      *)
(* children and orphaned background processes end together.             *)
ZombiesSignalled == Zombies # {} /\ pc # "exited" => pending

(* The comment at pause() says the signal handler will interrupt it:    *)
(* init always gets back to the prompt after running a command.          *)
PromptReturns == pc = "pause" ~> pc = "prompt"

=============================================================================
