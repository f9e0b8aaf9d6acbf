--------------------------- MODULE SeccompMultiarch ---------------------------
(***************************************************************************)
(* src/seccomp/seccomp_multiarch.c: binaries built from one source for     *)
(* x86-64, i386 and x32 exec one another in a chain, in one process.  The  *)
(* first installs a filter that fails mq_notify() with the system call    *)
(* number of the architecture making it; the filter stays across every    *)
(* execve(), so it meets each architecture in turn.  Each binary calls    *)
(* mq_notify(0, NULL), checks that the filter failed it, sets             *)
(* NO_SECCOMP_FILTER and execs the next.  The chain of architectures and  *)
(* whether NO_SECCOMP_FILTER is already set when it starts are inputs;    *)
(* printf(), system() and the other calls that only print are left out.   *)
(***************************************************************************)
EXTENDS SeccompBpf

CONSTANT Chains     \* argv: the architecture of each binary, argv[0] first

Archs == {"x86_64", "i386", "x32"}

X32SyscallBit == W(16384, 0)

(* NR_mq_notify_x86_64, NR_mq_notify_i386, NR_mq_notify_x32, which the  *)
(* filter also returns as errno.                                         *)
NrMqNotify == [x86_64 |-> 244, i386 |-> 281, x32 |-> 527]

(* The audit architecture the kernel reports, and the number in          *)
(* seccomp_data.nr: x32 calls are x86-64 ones with X32_SYSCALL_BIT set.  *)
AuditArch(a) == IF a = "i386" THEN AuditArchI386 ELSE AuditArchX86_64
SysNr(a, n) == IF a = "x32" THEN W(16384, n) ELSE W(0, n)
NrExecve == [x86_64 |-> 59, i386 |-> 11, x32 |-> 520]

(* The filter with the i386 branch's jump off by one, as a mutant. *)
MultiarchFilterShortJump ==
    << Ld(4), Jeq(AuditArchX86_64, 0, 4),
       Ld(0), Jeq(W(0, 244), 0, 1), Ret(RetErrno(244)),
       Jeq(SysNr("x32", 527), 0, 5), Ret(RetErrno(527)),
       Jeq(AuditArchI386, 0, 4),
       Ld(0), Jeq(W(0, 281), 0, 1), Ret(RetErrno(281)),
       Ret(RetAllow),
       Ret(RetKillProcess) >>

(* install_filter()'s filter[], instructions [0] to [12]. *)
MultiarchFilter ==
    << Ld(4), Jeq(AuditArchX86_64, 0, 5),
       Ld(0), Jeq(W(0, 244), 0, 1), Ret(RetErrno(244)),
       Jeq(SysNr("x32", 527), 0, 5), Ret(RetErrno(527)),
       Jeq(AuditArchI386, 0, 4),
       Ld(0), Jeq(W(0, 281), 0, 1), Ret(RetErrno(281)),
       Ret(RetAllow),
       Ret(RetKillProcess) >>

VARIABLES
    chain,      \* input: the architectures of argv[0], argv[1], ...
    preset,     \* input: NO_SECCOMP_FILTER set when the chain starts
    n,          \* the binary running: argv[n] of the original command line
    env,        \* NO_SECCOMP_FILTER is set in the environment
    filter,     \* the filter is installed (it survives execve())
    errnos,     \* the errno each binary's mq_notify() failed with
    pc,         \* "start", "notify", "exec", "exited"
    status      \* "running", "success", "failure", "killed"

vars == <<chain, preset, n, env, filter, errnos, pc, status>>

Arch == chain[n]

(* What the kernel does with a call of number nr by the running binary. *)
Syscall(nr) ==
    IF filter THEN Outcome(Filter(MultiarchFilter, Data(AuditArch(Arch), SysNr(Arch, nr), <<Zero, Zero>>)))
              ELSE [act |-> "allow", errno |-> 0]

Init ==
    /\ chain \in Chains
    /\ preset \in BOOLEAN
    /\ n = 1 /\ env = preset /\ filter = FALSE /\ errnos = <<>>
    /\ pc = "start" /\ status = "running"

(* main(): unless NO_SECCOMP_FILTER is set, prctl(PR_SET_NO_NEW_PRIVS)  *)
(* and install_filter(); seccomp() fails with EINVAL, and errExit()     *)
(* ends the process, if the filter does not pass the kernel's check.    *)
Start ==
    /\ pc = "start"
    /\ IF ~env
       THEN IF Verifies(MultiarchFilter)
            THEN filter' = TRUE /\ pc' = "notify" /\ UNCHANGED status
            ELSE pc' = "exited" /\ status' = "failure" /\ UNCHANGED filter
       ELSE pc' = "notify" /\ UNCHANGED <<filter, status>>
    /\ UNCHANGED <<chain, preset, n, env, errnos>>

(* mq_notify(0, NULL): failed by the filter with an errno other than     *)
(* EBADF, or it reached the kernel, which fails it with EBADF as 0 is   *)
(* not a message queue descriptor, and the program exits with           *)
(* EXIT_FAILURE; a kill by the filter ends the process.                 *)
Notify ==
    /\ pc = "notify"
    /\ LET o == Syscall(NrMqNotify[Arch])
       IN  CASE o.act = "kill" -> pc' = "exited" /\ status' = "killed" /\ UNCHANGED errnos
             [] o.act = "errno" /\ o.errno # 9 ->
                    errnos' = Append(errnos, o.errno) /\ pc' = "exec" /\ UNCHANGED status
             [] OTHER -> pc' = "exited" /\ status' = "failure" /\ UNCHANGED errnos
    /\ UNCHANGED <<chain, preset, n, env, filter>>

(* With an argv[1], setenv(NO_SECCOMP_FILTER) and execv() it: the new   *)
(* image keeps the filter; a failed execv() ends in errExit().  Without *)
(* one, exit(EXIT_SUCCESS).                                              *)
Exec ==
    /\ pc = "exec"
    /\ IF n < Len(chain)
       THEN LET o == Syscall(NrExecve[Arch])
            IN  CASE o.act = "allow" -> n' = n + 1 /\ pc' = "start" /\ UNCHANGED status
                  [] o.act = "kill"  -> pc' = "exited" /\ status' = "killed" /\ UNCHANGED n
                  [] OTHER           -> pc' = "exited" /\ status' = "failure" /\ UNCHANGED n
       ELSE pc' = "exited" /\ status' = "success" /\ UNCHANGED n
    /\ env' = (env \/ n < Len(chain))
    /\ UNCHANGED <<chain, preset, filter, errnos>>

Next == Start \/ Notify \/ Exec

Spec == Init /\ [][Next]_vars /\ WF_vars(Next)

----------------------------------------------------------------------------

TypeOK ==
    /\ chain \in Chains /\ preset \in BOOLEAN
    /\ n \in 1 .. Len(chain)
    /\ env \in BOOLEAN /\ filter \in BOOLEAN
    /\ errnos \in Seq(0 .. MaxErrno)
    /\ pc \in {"start", "notify", "exec", "exited"}
    /\ status \in {"running", "success", "failure", "killed"}

(* Started without NO_SECCOMP_FILTER, the chain runs to its end and      *)
(* exits with EXIT_SUCCESS, and the one filter, installed by the first   *)
(* binary and kept across every execve(), fails each binary's            *)
(* mq_notify() with that binary's own system call number, whatever the   *)
(* order of architectures.                                               *)
ChainFailsEachArch ==
    pc = "exited" /\ ~preset =>
        /\ status = "success"
        /\ errnos = [i \in 1 .. Len(chain) |-> NrMqNotify[chain[i]]]

=============================================================================
