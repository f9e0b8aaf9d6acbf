------------------------------ MODULE SeccompBpf ------------------------------
(***************************************************************************)
(* The part of classic BPF that seccomp filters of this repository use,    *)
(* and how the kernel runs a filter on a system call (seccomp(2),          *)
(* Documentation/networking/filter.txt); this is the kernel's behaviour,   *)
(* the environment of the programs, and not code of the repository.       *)
(*                                                                         *)
(* A 32-bit word is the pair <<high 16 bits, low 16 bits>>, compared as    *)
(* unsigned numbers: TLC's integers stop below 2^31, and the values at     *)
(* issue (AUDIT_ARCH_X86_64 = 0xC000003E, X32_SYSCALL_BIT, a 64-bit       *)
(* lseek() offset) are above it.  A 64-bit system call argument is the    *)
(* pair <<high word, low word>>.                                           *)
(***************************************************************************)
EXTENDS Naturals, Sequences, Bitwise

Half == 0 .. 65535
W(h, l) == <<h, l>>
Zero == W(0, 0)
Gt(a, b) == a[1] > b[1] \/ (a[1] = b[1] /\ a[2] > b[2])
Ge(a, b) == a = b \/ Gt(a, b)

(* struct seccomp_data on x86: nr at byte 0, arch at 4, the instruction  *)
(* pointer at 8, args[i] at 16 + 8 * i.  Little-endian: the low word of   *)
(* args[i] is at its offset, the high word 4 bytes above.                 *)
DataSize == 64
ArgOff(i) == 16 + 8 * i
Load(d, k) ==
    CASE k = 0 -> d.nr
      [] k = 4 -> d.arch
      [] k >= 16 /\ (k - 16) % 8 = 0 -> d.args[(k - 16) \div 8][2]
      [] k >= 16 /\ (k - 16) % 8 = 4 -> d.args[(k - 16) \div 8][1]
      [] OTHER -> Zero    \* the instruction pointer; no filter here loads it

(* BPF_STMT(BPF_LD | BPF_W | BPF_ABS, k), BPF_JUMP(BPF_JMP | BPF_JEQ,     *)
(* BPF_JGE, BPF_JGT or BPF_JSET | BPF_K, k, jt, jf), BPF_JUMP(BPF_JMP |   *)
(* BPF_JA, k, 0, 0) and BPF_STMT(BPF_RET | BPF_K, k).                      *)
Ld(k) == [op |-> "ld", k |-> k, jt |-> 0, jf |-> 0]
Jeq(k, jt, jf) == [op |-> "jeq", k |-> k, jt |-> jt, jf |-> jf]
Jge(k, jt, jf) == [op |-> "jge", k |-> k, jt |-> jt, jf |-> jf]
Jgt(k, jt, jf) == [op |-> "jgt", k |-> k, jt |-> jt, jf |-> jf]
Jset(k, jt, jf) == [op |-> "jset", k |-> k, jt |-> jt, jf |-> jf]
Ja(k) == [op |-> "ja", k |-> k, jt |-> 0, jf |-> 0]
Ret(k) == [op |-> "ret", k |-> k, jt |-> 0, jf |-> 0]

Holds(op, a, k) ==
    CASE op = "jeq" -> a = k
      [] op = "jge" -> Ge(a, k)
      [] op = "jgt" -> Gt(a, k)
      [] op = "jset" -> (a[1] & k[1]) # 0 \/ (a[2] & k[2]) # 0

(* bpf_check_classic() and seccomp_check_filter(): 1 to 4096             *)
(* instructions, every jump lands inside the program, every load is an   *)
(* aligned word of seccomp_data, and the last instruction returns.  A    *)
(* filter that fails the check makes seccomp() fail with EINVAL.         *)
Verifies(f) ==
    /\ Len(f) \in 1 .. 4096
    /\ f[Len(f)].op = "ret"
    /\ \A pc \in 1 .. Len(f) :
          /\ f[pc].op = "ja" => pc + 1 + f[pc].k <= Len(f)
          /\ f[pc].op \in {"jeq", "jge", "jgt", "jset"} => pc + 1 + f[pc].jt <= Len(f)
                                                 /\ pc + 1 + f[pc].jf <= Len(f)
          /\ f[pc].op = "ld" => f[pc].k % 4 = 0 /\ f[pc].k < DataSize

(* The accumulator machine: run from instruction pc with accumulator a. *)
RECURSIVE Run(_, _, _, _)
Run(f, pc, a, d) ==
    LET i == f[pc] IN
    CASE i.op = "ret" -> i.k
      [] i.op = "ld"  -> Run(f, pc + 1, Load(d, i.k), d)
      [] i.op = "ja"  -> Run(f, pc + 1 + i.k, a, d)
      [] OTHER        -> Run(f, pc + 1 + (IF Holds(i.op, a, i.k) THEN i.jt ELSE i.jf), a, d)

Filter(f, d) == Run(f, 1, Zero, d)

(* The action is the high 16 bits of the return value, the data the low *)
(* 16: SECCOMP_RET_KILL_PROCESS 0x80000000, SECCOMP_RET_KILL 0, TRAP       *)
(* 0x00030000, ERRNO 0x00050000, LOG 0x7ffc0000, ALLOW 0x7fff0000.  An     *)
(* errno above MAX_ERRNO is capped; an unknown action kills.              *)
RetKillProcess == W(32768, 0)
RetKill == W(0, 0)
RetTrap == W(3, 0)
RetLog == W(32764, 0)
RetAllow == W(32767, 0)
RetErrno(e) == W(5, e)
MaxErrno == 4095

Outcome(r) ==
    CASE r[1] = 32767 -> [act |-> "allow", errno |-> 0]
      [] r[1] = 32764 -> [act |-> "log", errno |-> 0]
      [] r[1] = 5     -> [act |-> "errno", errno |-> IF r[2] > MaxErrno THEN MaxErrno ELSE r[2]]
      [] r[1] = 3     -> [act |-> "trap", errno |-> 0]
      [] OTHER        -> [act |-> "kill", errno |-> 0]

(* seccomp_run_filters(): every filter of the process runs, newest first; *)
(* the result kept is the one whose action, as a signed 32-bit number, is *)
(* least (KILL_PROCESS first, ALLOW last), the newest on a tie.  No filter *)
(* allows.                                                                *)
Rank(r) == IF r[1] >= 32768 THEN r[1] - 65536 ELSE r[1]
RECURSIVE StackResult(_, _)
StackResult(stack, d) ==
    IF stack = <<>> THEN RetAllow
    ELSE LET r == Filter(Head(stack), d)
             rest == StackResult(Tail(stack), d)
         IN  IF Rank(rest) < Rank(r) THEN rest ELSE r

(* Audit architecture values and the x32 system call bit. *)
AuditArchX86_64 == W(49152, 62)     \* 0xC000003E
AuditArchI386 == W(16384, 3)        \* 0x40000003
AuditArchAarch64 == W(49152, 183)   \* 0xC00000B7

(* The seccomp_data of a call with number nr on arch, argument 1 = a1. *)
Data(arch, nr, a1) ==
    [nr |-> nr, arch |-> arch,
     args |-> [i \in 0 .. 5 |-> IF i = 1 THEN a1 ELSE <<Zero, Zero>>]]

=============================================================================
