-------------------------- MODULE SeccompControlOpen --------------------------
(***************************************************************************)
(* src/seccomp/seccomp_control_open.c: a filter that kills open() and     *)
(* openat() calls with O_CREAT, fails those that open for writing with    *)
(* ENOTSUP and allows the rest; then the program opens /tmp/a four ways.  *)
(* The flags are open()'s second argument but openat()'s third, so the    *)
(* filter loads one or the other and jumps (BPF_JA) to common code that   *)
(* tests bits (BPF_JSET).  glibc's open() is the openat system call with  *)
(* AT_FDCWD since version 2.26, the open system call before; which one,   *)
(* whether /tmp/a exists and where the pathname lies in memory are        *)
(* inputs.  perror() output is left out.                                  *)
(***************************************************************************)
EXTENDS SeccompFilters

CONSTANTS
    Paths,      \* 64-bit addresses the pathname argument may have
    FlagEdges   \* open flags, as words, for the check against the comments

(* main()'s four calls: O_RDONLY, O_WRONLY, O_RDWR, O_CREAT | O_RDWR. *)
Opens == <<ORdonly, OWronly, ORdwr, OCreat + ORdwr>>

VARIABLES
    viaOpenat,  \* input: glibc's open() makes the openat system call
    exists,     \* input: /tmp/a exists
    path,       \* input: the address of the string "/tmp/a"
    filter,     \* the filter is installed
    k,          \* the next open() of main()
    results,    \* what each open() returned: 0 for a descriptor, else errno
    pc,         \* "install", "open", "exited"
    status      \* "running", "success", "failure", "killed"

vars == <<viaOpenat, exists, path, filter, k, results, pc, status>>

Init ==
    /\ viaOpenat \in BOOLEAN /\ exists \in BOOLEAN /\ path \in Paths
    /\ filter = FALSE /\ k = 1 /\ results = <<>>
    /\ pc = "install" /\ status = "running"

(* prctl(PR_SET_NO_NEW_PRIVS) and install_filter(): seccomp() fails with *)
(* EINVAL, and errExit() ends the process, if the filter does not pass    *)
(* the kernel's check.                                                   *)
Install ==
    /\ pc = "install"
    /\ IF Verifies(ControlOpenFilter)
       THEN filter' = TRUE /\ pc' = "open" /\ UNCHANGED status
       ELSE pc' = "exited" /\ status' = "failure" /\ UNCHANGED filter
    /\ UNCHANGED <<viaOpenat, exists, path, k, results>>

(* One open("/tmp/a", flags): the filter decides; an allowed call fails  *)
(* with ENOENT if the file is missing and O_CREAT is absent; a failure   *)
(* is reported by perror() and main() goes on; a kill ends the process.  *)
(* After the last, exit(EXIT_SUCCESS).                                   *)
Open ==
    /\ pc = "open"
    /\ IF k <= Len(Opens)
       THEN LET flags == W(0, Opens[k])
                nr == IF viaOpenat THEN W(0, NrOpenat) ELSE W(0, NrOpen)
                o == Outcome(Filter(ControlOpenFilter, CallData(AuditArchX86_64, nr, path, flags)))
            IN  CASE o.act = "kill" -> pc' = "exited" /\ status' = "killed" /\ UNCHANGED <<k, results>>
                  [] o.act = "errno" -> results' = Append(results, o.errno) /\ k' = k + 1 /\ UNCHANGED <<pc, status>>
                  [] OTHER -> results' = Append(results, IF exists \/ (Opens[k] & OCreat) # 0 THEN 0 ELSE Enoent)
                              /\ k' = k + 1 /\ UNCHANGED <<pc, status>>
       ELSE pc' = "exited" /\ status' = "success" /\ UNCHANGED <<k, results>>
    /\ UNCHANGED <<viaOpenat, exists, path, filter>>

Next == Install \/ Open

Spec == Init /\ [][Next]_vars

----------------------------------------------------------------------------

TypeOK ==
    /\ viaOpenat \in BOOLEAN /\ exists \in BOOLEAN /\ path \in Paths
    /\ filter \in BOOLEAN
    /\ k \in 1 .. Len(Opens) + 1
    /\ results \in Seq({0, Enoent, Enotsup})
    /\ pc \in {"install", "open", "exited"}
    /\ status \in {"running", "success", "failure", "killed"}

(* What the filter's comments say it does with a call. *)
Commented(arch, nr, flags) ==
    CASE arch # AuditArchX86_64 \/ Ge(nr, X32SyscallBit) -> [act |-> "kill", errno |-> 0]
      [] nr \notin {W(0, NrOpen), W(0, NrOpenat)} -> [act |-> "allow", errno |-> 0]
      [] (flags[2] & OCreat) # 0 -> [act |-> "kill", errno |-> 0]
      [] (flags[2] & (OWronly + ORdwr)) # 0 -> [act |-> "errno", errno |-> Enotsup]
      [] OTHER -> [act |-> "allow", errno |-> 0]

(* The filter does what its comments say for open() and openat() alike,  *)
(* on every architecture, with open() and x32 numbers and another call,   *)
(* whatever the flags and wherever the pathname lies; and main()'s opens *)
(* go as the comments promise: O_RDONLY is allowed, O_WRONLY and O_RDWR  *)
(* fail with ENOTSUP, and O_CREAT kills the process, so the program never *)
(* exits successfully, through either system call.                        *)
OpensAsCommented ==
    /\ \A arch \in {AuditArchX86_64, AuditArchI386, AuditArchAarch64},
          nr \in {W(0, NrOpen), W(0, NrOpenat), W(0, NrRead), W(16384, 2), W(16384, 257)},
          p \in Paths, flags \in FlagEdges :
          Outcome(Filter(ControlOpenFilter, CallData(arch, nr, p, flags))) = Commented(arch, nr, flags)
    /\ pc = "exited" => /\ status = "killed"
                        /\ results = <<IF exists THEN 0 ELSE Enoent, Enotsup, Enotsup>>

=============================================================================
