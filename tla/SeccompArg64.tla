----------------------------- MODULE SeccompArg64 -----------------------------
(***************************************************************************)
(* src/seccomp/seccomp_arg64.c: install a filter that fails lseek() when   *)
(* its 64-bit offset is above 1000, testing the offset in two 32-bit       *)
(* halves, then seek /dev/zero to 0, 10000 and 0x100000001.  The kernel    *)
(* runs the filter on each lseek() (SeccompBpf).  printf() output is left  *)
(* out; a result is whether seek_test() reports success, and errno.        *)
(***************************************************************************)
EXTENDS SeccompBpf

X32SyscallBit == W(16384, 0)        \* X32_SYSCALL_BIT 0x40000000
NrLseek == W(0, 8)                  \* __NR_lseek on x86-64

(* A 64-bit offset from its four 16-bit digits, most significant first. *)
Off(h3, h2, h1, h0) == <<W(h3, h2), W(h1, h0)>>
M == 65535

(* The filter without the test of the offset's top 4 bytes, as a mutant. *)
Arg64FilterLowOnly ==
    << Ld(4), Jeq(AuditArchX86_64, 0, 2),
       Ld(0), Jge(X32SyscallBit, 0, 1), Ret(RetKillProcess),
       Jeq(NrLseek, 1, 0), Ret(RetAllow),
       Ld(ArgOff(1)), Jgt(W(0, 1000), 0, 1), Ret(RetErrno(1)),
       Ret(RetAllow) >>

(* install_filter()'s filter[]. *)
Arg64Filter ==
    << Ld(4), Jeq(AuditArchX86_64, 0, 2),
       Ld(0), Jge(X32SyscallBit, 0, 1), Ret(RetKillProcess),
       Jeq(NrLseek, 1, 0), Ret(RetAllow),
       Ld(ArgOff(1) + 4), Jeq(Zero, 1, 0), Ret(RetErrno(2)),
       Ld(ArgOff(1)), Jgt(W(0, 1000), 0, 1), Ret(RetErrno(1)),
       Ret(RetAllow) >>

(* main()'s seek_test() offsets. *)
SeekOffsets == << Off(0, 0, 0, 0), Off(0, 0, 0, 10000), Off(0, 1, 0, 1) >>

VARIABLES
    pc,         \* "start", "seek", "exited"
    results,    \* seek_test() outcomes so far: [ok, errno]
    status      \* "running", "success", "failure", "killed"

vars == <<pc, results, status>>

Init == pc = "start" /\ results = <<>> /\ status = "running"

(* prctl(PR_SET_NO_NEW_PRIVS) and install_filter(): seccomp() fails    *)
(* with EINVAL, and errExit() ends the program, if the filter does not *)
(* pass the kernel's check; then open("/dev/zero").                     *)
Install ==
    /\ pc = "start"
    /\ IF Verifies(Arg64Filter)
       THEN pc' = "seek" /\ UNCHANGED status
       ELSE pc' = "exited" /\ status' = "failure"
    /\ UNCHANGED results

(* seek_test(): lseek(fd, offset, SEEK_SET) through the filter.  An      *)
(* allowed lseek() of /dev/zero returns the offset, and only a return   *)
(* of 0 is reported as success.                                          *)
SeekTest ==
    /\ pc = "seek"
    /\ Len(results) < Len(SeekOffsets)
    /\ LET off == SeekOffsets[Len(results) + 1]
           o == Outcome(Filter(Arg64Filter, Data(AuditArchX86_64, NrLseek, off)))
       IN  IF o.act = "kill"
           THEN pc' = "exited" /\ status' = "killed" /\ UNCHANGED results
           ELSE /\ results' = Append(results, [ok |-> o.act = "allow" /\ off = Off(0, 0, 0, 0),
                                               errno |-> o.errno])
                /\ UNCHANGED <<pc, status>>

(* exit(EXIT_SUCCESS) after the third seek_test(). *)
Finish ==
    /\ pc = "seek"
    /\ Len(results) = Len(SeekOffsets)
    /\ pc' = "exited" /\ status' = "success"
    /\ UNCHANGED results

Next == Install \/ SeekTest \/ Finish

Spec == Init /\ [][Next]_vars /\ WF_vars(Next)

----------------------------------------------------------------------------

TypeOK ==
    /\ pc \in {"start", "seek", "exited"}
    /\ results \in Seq([ok : BOOLEAN, errno : 0 .. MaxErrno])
    /\ status \in {"running", "success", "failure", "killed"}

(* What the header comment promises, stated on the 64-bit offset as the  *)
(* signed off_t it is (four 16-bit digits compared in order, the top bit *)
(* the sign) rather than in halves: calls other than x86-64 ones are     *)
(* killed, lseek() with an offset greater than 1000 fails, with errno 2  *)
(* when the offset does not fit in 32 bits and 1 otherwise, and every    *)
(* other system call is allowed.                                         *)
Gt64(a, b) == Gt(a[1], b[1]) \/ (a[1] = b[1] /\ Gt(a[2], b[2]))
Negative(off) == Ge(off[1], W(32768, 0))
GreaterOff(a, b) == ~Negative(a) /\ Gt64(a, b)

Documented(arch, nr, off) ==
    CASE arch # AuditArchX86_64 \/ Ge(nr, X32SyscallBit) -> [act |-> "kill", errno |-> 0]
      [] nr # NrLseek                                   -> [act |-> "allow", errno |-> 0]
      [] ~GreaterOff(off, Off(0, 0, 0, 1000))           -> [act |-> "allow", errno |-> 0]
      [] GreaterOff(off, Off(0, 0, M, M))               -> [act |-> "errno", errno |-> 2]
      [] OTHER                                          -> [act |-> "errno", errno |-> 1]

(* Architectures, system call numbers (lseek, read, x32 lseek, i386     *)
(* lseek) and offsets at the edges: 1000 and 1001, a low word with only *)
(* its high half set, 2^32 - 1, 2^32, 2^32 plus a small and a large low *)
(* word, and the largest positive and the negative (-1) off_t.           *)
CheckArchs == {AuditArchX86_64, AuditArchI386, AuditArchAarch64}
CheckNrs == {NrLseek, W(0, 0), W(16384, 8), W(0, 19)}
CheckOffsets ==
    {Off(0, 0, 0, 0), Off(0, 0, 0, 1000), Off(0, 0, 0, 1001), Off(0, 0, 1, 0), Off(0, 0, M, M),
     Off(0, 1, 0, 0), Off(0, 1, 0, 5), Off(0, 1, 0, 1001), Off(32767, M, M, M),
     Off(M, M, M, M)}

(* The filter, run by the kernel on any of those calls with an offset   *)
(* of 0 or more, does what the header says, however the offset splits   *)
(* into its 32-bit halves.                                               *)
NonNegativeAsDocumented ==
    \A arch \in CheckArchs, nr \in CheckNrs, off \in {o \in CheckOffsets : ~Negative(o)} :
        Outcome(Filter(Arg64Filter, Data(arch, nr, off))) = Documented(arch, nr, off)

(* The same for every offset, negative ones included: the header says    *)
(* only offsets greater than 1000 fail, but the filter compares the high *)
(* half unsigned, so an lseek() to a negative offset (SEEK_CUR or        *)
(* SEEK_END with a negative off_t) fails with errno 2.                   *)
FilterAsDocumented ==
    \A arch \in CheckArchs, nr \in CheckNrs, off \in CheckOffsets :
        Outcome(Filter(Arg64Filter, Data(arch, nr, off))) = Documented(arch, nr, off)

=============================================================================
