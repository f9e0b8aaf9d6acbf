--------------------------- MODULE SeccompLaunchDump ---------------------------
(***************************************************************************)
(* src/seccomp/seccomp_launch.c and src/seccomp/dump_seccomp_filter.c      *)
(* together: seccomp_launch -f F1 ... -f Fn prog loads each filter file   *)
(* in turn and execs prog, which keeps the stack of filters; as root,     *)
(* dump_seccomp_filter PID dumpK K then writes filter K of prog (0 the    *)
(* most recently installed) to a file, for K = 0 .. n-1; and               *)
(* seccomp_launch -f dump(n-1) ... -f dump0 prog relaunches it.  Every    *)
(* system call the launcher makes after its first filter (open(),         *)
(* fstat(), read(), close(), seccomp(), execve()) and the openat() of     *)
(* the dynamic loader in the new program go through the filters already   *)
(* installed (seccomp_run_filters(), SeccompBpf!StackResult).  The filter *)
(* files hold the repository's filters (SeccompFilters), a file of odd    *)
(* size, or are missing.  The dumping program runs with no filter.        *)
(* Messages, malloc() and the ptrace() stop are left out.                 *)
(***************************************************************************)
EXTENDS SeccompFilters

CONSTANTS
    FilterFiles,    \* the filter files: name -> [size, prog], the bytes and instructions
    CmdLines,       \* the -f arguments of the first launch
    DumpFile        \* the dump file of index K is DumpFile[K + 1]

NoFile == [size |-> 0, prog |-> <<>>]    \* stands for a missing file

VARIABLES
    cmd,        \* input: the first launch's -f files
    viaOpenat,  \* input: glibc's open() makes the openat system call
    root,       \* input: dump_seccomp_filter runs as root
    files,      \* the file system: name -> contents, NoFile if absent
    phase,      \* "launch", "dump", "relaunch", "done"
    args,       \* the running launcher's -f files
    i,          \* its next -f option
    stack,      \* its filters, the most recent first
    target,     \* the filters of the program the first launch ran
    di,         \* the next filter index to dump
    first,      \* how the first launch ended: "running", "execd", "progkilled", "killed", "failure"
    relaunched, \* the filters of the program the relaunch ran
    second      \* how the relaunch ended

vars == <<cmd, viaOpenat, root, files, phase, args, i, stack, target, di, first, relaunched, second>>

(* What the filters installed do with system call nr of flags. *)
Sys(nr, flags) == Outcome(StackResult(stack, CallData(AuditArchX86_64, W(0, nr), <<Zero, Zero>>, W(0, flags))))
Passes(o) == o.act \in {"allow", "log"}

(* A blocked call: an errno makes errExit() exit with EXIT_FAILURE; a    *)
(* trap raises SIGSYS, which the launcher does not handle.              *)
Ending(o) == IF o.act = "errno" THEN "failure" ELSE "killed"

(* The launcher stops with result r. *)
Stop(r) ==
    /\ phase' = "done"
    /\ IF phase = "launch" THEN first' = r /\ UNCHANGED second ELSE second' = r /\ UNCHANGED first
    /\ UNCHANGED <<args, i, stack, target, relaunched>>

OpenNr == IF viaOpenat THEN NrOpenat ELSE NrOpen

Init ==
    /\ cmd \in CmdLines /\ viaOpenat \in BOOLEAN /\ root \in BOOLEAN
    /\ files = [f \in DOMAIN FilterFiles \cup {DumpFile[k] : k \in DOMAIN DumpFile} |->
                   IF f \in DOMAIN FilterFiles THEN FilterFiles[f] ELSE NoFile]
    /\ phase = "launch" /\ args = cmd /\ i = 1 /\ stack = <<>>
    /\ target = <<>> /\ di = 0 /\ first = "running" /\ relaunched = <<>> /\ second = "running"

(* seccomp_launch's getopt() loop, case 'f': loadFilter(optarg): set     *)
(* no_new_privs once, open() the file, fstat() it, refuse a size that is *)
(* not a whole number of instructions, read() and close() it, and        *)
(* seccomp(SECCOMP_SET_MODE_FILTER), which the kernel refuses (EINVAL)   *)
(* for a filter it does not accept; each step exits on failure.          *)
LoadFilter ==
    /\ phase \in {"launch", "relaunch"} /\ i <= Len(args)
    /\ LET f == IF args[i] \in DOMAIN files THEN files[args[i]] ELSE NoFile
           o(nr) == Sys(nr, ORdonly)
       IN  CASE ~Passes(o(OpenNr))    -> Stop(Ending(o(OpenNr)))
             [] f = NoFile            -> Stop("failure")
             [] ~Passes(o(NrFstat))   -> Stop(Ending(o(NrFstat)))
             [] f.size % 8 # 0        -> Stop("failure")
             [] ~Passes(o(NrRead))    -> Stop(Ending(o(NrRead)))
             [] ~Passes(o(NrClose))   -> Stop(Ending(o(NrClose)))
             [] ~Passes(o(NrSeccomp)) -> Stop(Ending(o(NrSeccomp)))
             [] ~Verifies(f.prog)     -> Stop("failure")
             [] OTHER -> /\ stack' = <<f.prog>> \o stack /\ i' = i + 1
                         /\ UNCHANGED <<phase, args, target, first, relaunched, second>>
    /\ UNCHANGED <<cmd, viaOpenat, root, files, di>>

(* After the options, execvp() the program, which keeps the filters;    *)
(* its dynamic loader's first act is to openat() a library O_RDONLY |   *)
(* O_CLOEXEC.  After the first launch the dumps begin.                   *)
Exec ==
    /\ phase \in {"launch", "relaunch"} /\ i > Len(args)
    /\ LET oe == Sys(NrExecve, 0)
           ol == Outcome(StackResult(stack, CallData(AuditArchX86_64, W(0, OpenNr), <<Zero, Zero>>, OCloexec)))
       IN  CASE ~Passes(oe) -> Stop(Ending(oe))
             [] ~Passes(ol) -> Stop("progkilled")
             [] phase = "launch" ->
                    /\ phase' = "dump" /\ target' = stack /\ first' = "execd"
                    /\ UNCHANGED <<args, i, stack, relaunched, second>>
             [] OTHER ->
                    /\ phase' = "done" /\ relaunched' = stack /\ second' = "execd"
                    /\ UNCHANGED <<args, i, stack, target, first>>
    /\ UNCHANGED <<cmd, viaOpenat, root, files, di>>

(* dumpFilter()'s file, written with a byte count as a mutant. *)
DumpedBytes(f) == [size |-> Len(f), prog |-> f]

(* dumpFilter(): open(O_CREAT | O_TRUNC | O_WRONLY) and write()          *)
(* instrCnt * sizeof(struct sock_filter) bytes.                          *)
Dumped(f) == [size |-> 8 * Len(f), prog |-> f]

(* dump_seccomp_filter PID dumpK K: fetchFilter() attaches with ptrace() *)
(* and asks PTRACE_SECCOMP_GET_FILTER for the filter of index K, which   *)
(* fails with EACCES without CAP_SYS_ADMIN and with ENOENT past the      *)
(* oldest; then dumpFilter().  After the last index, the relaunch with   *)
(* the dumps from the oldest filter's to the newest's.                   *)
Dump ==
    /\ phase = "dump"
    /\ IF ~root \/ di >= Len(target)
       THEN phase' = "done" /\ UNCHANGED <<files, di, args, i, stack>>
       ELSE /\ files' = [files EXCEPT ![DumpFile[di + 1]] = Dumped(target[di + 1])]
            /\ di' = di + 1
            /\ IF di + 1 = Len(target)
               THEN /\ phase' = "relaunch" /\ stack' = <<>> /\ i' = 1
                    /\ args' = [j \in 1 .. Len(target) |-> DumpFile[Len(target) - j + 1]]
               ELSE UNCHANGED <<phase, args, i, stack>>
    /\ UNCHANGED <<cmd, viaOpenat, root, target, first, relaunched, second>>

Next == LoadFilter \/ Exec \/ Dump

Spec == Init /\ [][Next]_vars

----------------------------------------------------------------------------

Results == {"running", "execd", "progkilled", "killed", "failure"}

TypeOK ==
    /\ cmd \in CmdLines /\ viaOpenat \in BOOLEAN /\ root \in BOOLEAN
    /\ phase \in {"launch", "dump", "relaunch", "done"}
    /\ i \in 1 .. Len(args) + 1
    /\ di \in 0 .. Len(target)
    /\ first \in Results /\ second \in Results

(* The dump-and-relaunch round trip: when seccomp_launch has started a  *)
(* program and root has dumped each of its filters by index, launching  *)
(* the program again with the dumps, oldest first, starts it with the   *)
(* very same stack of filters, although every file of the relaunch     *)
(* went through seccomp_launch's size check and every call it made went *)
(* through the filters it had already installed.                         *)
RoundTripSameStack ==
    phase = "done" /\ first = "execd" /\ root =>
        second = "execd" /\ relaunched = target

=============================================================================
