--------------------------- MODULE UsernsChildExec ---------------------------
(***************************************************************************)
(* src/namespaces/userns_child_exec.c (with update_map() and              *)
(* proc_setgroups_write() of userns_functions.c): main() parses options,  *)
(* creates a pipe and clone()s a child into new namespaces; the parent    *)
(* writes the child's uid_map, setgroups ("deny") and gid_map, then       *)
(* closes its write end of the pipe and waits for the child.  The child   *)
(* closes its own write end, reads the pipe until end of file, performs   *)
(* the repeatable options in order and execvp()s the command.             *)
(*                                                                         *)
(* Option values are abstracted to what decides the control flow: which  *)
(* of -U, -M, -G, -r and -D are given, whether the kernel accepts the     *)
(* -M/-G map text and the write of /proc/PID/setgroups, whether the      *)
(* caller is privileged in the parent user namespace, and each          *)
(* repeatable option as "ok" or "fail" (its errExit()).  Every          *)
(* errExit() ends the process, closing its descriptors.                 *)
(***************************************************************************)
EXTENDS Naturals, Sequences

CONSTANT Options    \* the possible command lines, as records

VARIABLES
    opts,       \* the command line
    ppc,        \* parent: "parse", "setup", "clone", "uidmap", "setgroups",
                \*   "gidmap", "close", "wait", "exited", "failed"
    cpc,        \* child: "none", "closew", "read", "opts", "exec",
                \*   "running", "exited", "failed"
    cpos,       \* the next repeatable option
    writers,    \* processes holding the pipe's write end
    uidMapped,  \* the child's uid_map has been written
    gidMapped,  \* ... its gid_map
    denied      \* "deny" written to its setgroups

vars == <<opts, ppc, cpc, cpos, writers, uidMapped, gidMapped, denied>>

(* The maps the command line asks for. *)
WantUid == opts.uidOpt \/ opts.root
WantGid == opts.gidOpt \/ opts.root

(* Accepted map text: the -r mappings ("0 <uid> 1") always are. *)
MapOk == opts.root \/ opts.mapsOk

Init ==
    /\ opts \in Options
    /\ ppc = "parse"
    /\ cpc = "none"
    /\ cpos = 1
    /\ writers = {}
    /\ uidMapped = FALSE
    /\ gidMapped = FALSE
    /\ denied = FALSE

(* errExit() in the parent: its write end of the pipe is closed too. *)
ParentFail ==
    /\ ppc' = "failed"
    /\ writers' = writers \ {"parent"}

(* parse_command_options(): -M, -G or -r without -U, or -r with -M or  *)
(* -G, is a usage() error.                                              *)
Parse ==
    /\ ppc = "parse"
    /\ IF \/ (WantUid \/ WantGid) /\ ~opts.user
          \/ opts.root /\ (opts.uidOpt \/ opts.gidOpt)
       THEN ppc' = "failed"
       ELSE ppc' = "setup"
    /\ UNCHANGED <<opts, cpc, cpos, writers, uidMapped, gidMapped, denied>>

(* prctl(PR_SET_DUMPABLE), pipe() and mmap() of the stack. *)
Setup ==
    /\ ppc = "setup"
    /\ \/ ppc' = "clone" /\ writers' = {"parent"}
       \/ ppc' = "failed" /\ UNCHANGED writers
    /\ UNCHANGED <<opts, cpc, cpos, uidMapped, gidMapped, denied>>

(* clone(): the child shares the pipe. *)
Clone ==
    /\ ppc = "clone"
    /\ \/ /\ ppc' = "uidmap"
          /\ cpc' = "closew"
          /\ writers' = {"parent", "child"}
       \/ ParentFail /\ UNCHANGED cpc
    /\ UNCHANGED <<opts, cpos, uidMapped, gidMapped, denied>>

(* update_child_maps(), UID part: update_map() of /proc/PID/uid_map. *)
UidMap ==
    /\ ppc = "uidmap"
    /\ IF ~WantUid
       THEN ppc' = "setgroups" /\ UNCHANGED <<writers, uidMapped>>
       ELSE IF MapOk
       THEN ppc' = "setgroups" /\ uidMapped' = TRUE /\ UNCHANGED writers
       ELSE ParentFail /\ UNCHANGED uidMapped
    /\ UNCHANGED <<opts, cpc, cpos, gidMapped, denied>>

(* proc_setgroups_write(child_pid, "deny"), when a GID map is wanted,   *)
(* unless -D: an open() or write() of /proc/PID/setgroups that fails     *)
(* (other than with ENOENT) is an errExit().                             *)
SetGroups ==
    /\ ppc = "setgroups"
    /\ IF WantGid /\ ~opts.noDeny /\ ~opts.setgroupsOk
       THEN ParentFail /\ UNCHANGED denied
       ELSE /\ ppc' = "gidmap" /\ UNCHANGED writers
            /\ denied' = (WantGid /\ ~opts.noDeny)
    /\ UNCHANGED <<opts, cpc, cpos, uidMapped, gidMapped>>

(* update_map() of /proc/PID/gid_map: the kernel refuses it to an       *)
(* unprivileged caller while setgroups() is allowed.                   *)
GidMap ==
    /\ ppc = "gidmap"
    /\ IF ~WantGid
       THEN ppc' = "close" /\ UNCHANGED <<writers, gidMapped>>
       ELSE IF MapOk /\ (opts.priv \/ denied)
       THEN ppc' = "close" /\ gidMapped' = TRUE /\ UNCHANGED writers
       ELSE ParentFail /\ UNCHANGED gidMapped
    /\ UNCHANGED <<opts, cpc, cpos, uidMapped, denied>>

(* close(pipe_fd[1]): the maps are written. *)
Close ==
    /\ ppc = "close"
    /\ ppc' = "wait"
    /\ writers' = writers \ {"parent"}
    /\ UNCHANGED <<opts, cpc, cpos, uidMapped, gidMapped, denied>>

(* waitpid() for the child, then exit(EXIT_SUCCESS). *)
Wait ==
    /\ ppc = "wait"
    /\ cpc \in {"exited", "failed"}
    /\ ppc' = "exited"
    /\ UNCHANGED <<opts, cpc, cpos, writers, uidMapped, gidMapped, denied>>

(* childFunc() without its close(pipe_fd[1]), as a mutant. *)
CloseWKeep ==
    /\ cpc = "closew"
    /\ cpc' = "read"
    /\ UNCHANGED <<opts, ppc, cpos, writers, uidMapped, gidMapped, denied>>

(* childFunc(): close(pipe_fd[1]). *)
CloseW ==
    /\ cpc = "closew"
    /\ cpc' = "read"
    /\ writers' = writers \ {"child"}
    /\ UNCHANGED <<opts, ppc, cpos, uidMapped, gidMapped, denied>>

(* read() returning before end of file, as a mutant. *)
ReadNoWait ==
    /\ cpc = "read"
    /\ cpc' = "opts"
    /\ UNCHANGED <<opts, ppc, cpos, writers, uidMapped, gidMapped, denied>>

(* read(pipe_fd[0]) blocks until no write end is open, then returns 0. *)
Read ==
    /\ cpc = "read"
    /\ writers = {}
    /\ cpc' = "opts"
    /\ UNCHANGED <<opts, ppc, cpos, writers, uidMapped, gidMapped, denied>>

(* perform_repeatable_options(): one option; a failing one errExit()s. *)
RepeatOpt ==
    /\ cpc = "opts"
    /\ IF cpos > Len(opts.ops)
       THEN cpc' = "exec" /\ UNCHANGED cpos
       ELSE /\ cpc' = IF opts.ops[cpos] = "fail" THEN "failed" ELSE "opts"
            /\ cpos' = cpos + 1
    /\ UNCHANGED <<opts, ppc, writers, uidMapped, gidMapped, denied>>

(* execvp(); errExit() if it fails. *)
Exec ==
    /\ cpc = "exec"
    /\ cpc' \in {"running", "failed"}
    /\ UNCHANGED <<opts, ppc, cpos, writers, uidMapped, gidMapped, denied>>

(* The command runs to completion. *)
Finish ==
    /\ cpc = "running"
    /\ cpc' = "exited"
    /\ UNCHANGED <<opts, ppc, cpos, writers, uidMapped, gidMapped, denied>>

Parent == Parse \/ Setup \/ Clone \/ UidMap \/ SetGroups \/ GidMap \/ Close \/ Wait

Child == CloseW \/ Read \/ RepeatOpt \/ Exec \/ Finish

Next == Parent \/ Child

(* Both processes run whenever they can, and the command ends. *)
Spec == Init /\ [][Next]_vars /\ WF_vars(Parent) /\ WF_vars(Child)

----------------------------------------------------------------------------

TypeOK ==
    /\ ppc \in {"parse", "setup", "clone", "uidmap", "setgroups", "gidmap",
                "close", "wait", "exited", "failed"}
    /\ cpc \in {"none", "closew", "read", "opts", "exec", "running", "exited", "failed"}
    /\ cpos \in 1 .. Len(opts.ops) + 1
    /\ writers \subseteq {"parent", "child"}
    /\ {uidMapped, gidMapped, denied} \subseteq BOOLEAN

(* The comment before pipe() in main(): the parent sets the UID and GID *)
(* maps before the child calls execve().  A child past its read() has   *)
(* every map the command line asked for, unless the parent died of an  *)
(* errExit() while writing them: its exit closes the pipe as well.      *)
MapsBeforeExec ==
    cpc \in {"opts", "exec", "running"} /\ ppc # "failed" =>
        (WantUid => uidMapped) /\ (WantGid => gidMapped)

(* Nobody waits for ever: the parent exits, and the child, if created,  *)
(* ends, whichever step fails.                                          *)
BothEnd == <>(ppc \in {"exited", "failed"} /\ cpc \in {"none", "exited", "failed"})

=============================================================================
