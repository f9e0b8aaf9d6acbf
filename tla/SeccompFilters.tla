---------------------------- MODULE SeccompFilters ----------------------------
(***************************************************************************)
(* The filter[] arrays of the repository's single-filter seccomp programs  *)
(* (install_filter() of seccomp_deny_open.c, seccomp_control_open.c,       *)
(* seccomp_trap_sigsys.c, seccomp_logging.c and seccomp_perf.c), as        *)
(* SeccompBpf programs, and the system call arguments glibc gives them on  *)
(* x86-64.  Each array checks the architecture, kills x32 calls, then      *)
(* decides on the system call number and, for control_open, the flags.    *)
(***************************************************************************)
EXTENDS SeccompBpf

X32SyscallBit == W(16384, 0)

(* x86-64 system call numbers. *)
NrRead == 0
NrWrite == 1
NrOpen == 2
NrClose == 3
NrFstat == 5
NrRtSigaction == 13
NrExecve == 59
NrGeteuid == 107
NrGetppid == 110
NrExitGroup == 231
NrOpenat == 257
NrSeccomp == 317

(* open() flags and errno values. *)
ORdonly == 0
OWronly == 1
ORdwr == 2
OCreat == 64
OCloexec == W(8, 0)     \* 0x80000
Enoent == 2
Enotsup == 95

(* The deny filter without its openat() test, as a mutant: what          *)
(* seccomp_perf's filter does.                                           *)
DenyOpenFilterOpenOnly ==
    << Ld(4), Jeq(AuditArchX86_64, 1, 0), Ret(RetKillProcess),
       Ld(0), Jge(X32SyscallBit, 0, 1), Ret(RetKillProcess),
       Jeq(W(0, NrOpen), 1, 0), Ret(RetAllow), Ret(RetKillProcess) >>

(* seccomp_deny_open.c: kill open() and openat(). *)
DenyOpenFilter ==
    << Ld(4), Jeq(AuditArchX86_64, 1, 0), Ret(RetKillProcess),
       Ld(0), Jge(X32SyscallBit, 0, 1), Ret(RetKillProcess),
       Jeq(W(0, NrOpen), 2, 0), Jeq(W(0, NrOpenat), 1, 0), Ret(RetAllow), Ret(RetKillProcess) >>

(* The control_open filter with the openat() jump one short, onto the    *)
(* load of args[1]: a mutant.                                            *)
ControlOpenFilterOpenatShort ==
    << Ld(4), Jeq(AuditArchX86_64, 0, 2),
       Ld(0), Jge(X32SyscallBit, 0, 1), Ret(RetKillProcess),
       Jeq(W(0, NrOpen), 2, 0), Jeq(W(0, NrOpenat), 2, 0), Ret(RetAllow),
       Ld(ArgOff(1)), Ja(1), Ld(ArgOff(2)),
       Jset(W(0, OCreat), 0, 1), Ret(RetKillProcess),
       Jset(W(0, OWronly + ORdwr), 0, 1), Ret(RetErrno(Enotsup)),
       Ret(RetAllow) >>

(* seccomp_control_open.c: load open()'s args[1] or openat()'s args[2],  *)
(* kill on O_CREAT, ENOTSUP on O_WRONLY or O_RDWR, else allow.           *)
ControlOpenFilter ==
    << Ld(4), Jeq(AuditArchX86_64, 0, 2),
       Ld(0), Jge(X32SyscallBit, 0, 1), Ret(RetKillProcess),
       Jeq(W(0, NrOpen), 2, 0), Jeq(W(0, NrOpenat), 3, 0), Ret(RetAllow),
       Ld(ArgOff(1)), Ja(1), Ld(ArgOff(2)),
       Jset(W(0, OCreat), 0, 1), Ret(RetKillProcess),
       Jset(W(0, OWronly + ORdwr), 0, 1), Ret(RetErrno(Enotsup)),
       Ret(RetAllow) >>

(* seccomp_trap_sigsys.c: a foreign architecture kills the thread,       *)
(* getppid() traps.                                                      *)
TrapSigsysFilter ==
    << Ld(4), Jeq(AuditArchX86_64, 1, 0), Ret(RetKill),
       Ld(0), Jge(X32SyscallBit, 0, 1), Ret(RetKillProcess),
       Jeq(W(0, NrGetppid), 0, 1), Ret(RetTrap), Ret(RetAllow) >>

(* seccomp_logging.c: log every call. *)
LoggingFilter ==
    << Ld(4), Jeq(AuditArchX86_64, 0, 2),
       Ld(0), Jge(X32SyscallBit, 0, 1), Ret(RetKillProcess),
       Ret(RetLog) >>

(* seccomp_perf.c: kill open(). *)
PerfFilter ==
    << Ld(4), Jeq(AuditArchX86_64, 0, 2),
       Ld(0), Jge(X32SyscallBit, 0, 1), Ret(RetKillProcess),
       Jeq(W(0, NrOpen), 1, 0), Ret(RetAllow), Ret(RetKillProcess) >>

(* The seccomp_data of open(path, flags, mode) or openat(AT_FDCWD, path, *)
(* flags, mode) as glibc makes them, the mode only with O_CREAT; any     *)
(* other call nr is given the same first arguments.                      *)
AtFdcwd == <<W(65535, 65535), W(65535, 65436)>>     \* (long) -100
Mode(flags) == IF (flags[2] & OCreat) # 0 THEN <<Zero, W(0, 384)>> ELSE <<Zero, Zero>>
CallData(arch, nr, path, flags) ==
    LET a == IF nr = W(0, NrOpenat) THEN <<AtFdcwd, path, <<Zero, flags>>, Mode(flags)>>
                                    ELSE <<path, <<Zero, flags>>, Mode(flags)>>
    IN  [nr |-> nr, arch |-> arch,
         args |-> [i \in 0 .. 5 |-> IF i < Len(a) THEN a[i + 1] ELSE <<Zero, Zero>>]]

=============================================================================
