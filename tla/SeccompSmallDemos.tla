--------------------------- MODULE SeccompSmallDemos ---------------------------
(***************************************************************************)
(* Four seccomp demonstrations whose main() is a straight run of system    *)
(* calls under one filter:                                                 *)
(*   deny    src/seccomp/seccomp_deny_open.c   kills open() and openat()   *)
(*   trap    src/seccomp/seccomp_trap_sigsys.c getppid() raises SIGSYS     *)
(*   log     src/seccomp/seccomp_logging.c     every call allowed, logged  *)
(*   perf    src/seccomp/seccomp_perf.c        "<num-loops> [x]"; x        *)
(*           installs a filter that kills open()                           *)
(* Each main() is a sequence of steps, one system call each, and every     *)
(* call after the filter is installed goes through it, the writes of       *)
(* printf() (stdout taken to be a terminal, so line-buffered) and the      *)
(* exit_group() of exit() included.  glibc's open() is the openat system   *)
(* call since version 2.26, the open system call before; which one, and    *)
(* whether /tmp/a exists, are inputs.  The text printed is a model value.  *)
(***************************************************************************)
EXTENDS SeccompFilters

CONSTANT PerfArgs   \* seccomp_perf's command lines: [argc, nloops]

FilterOf == [deny |-> DenyOpenFilter, trap |-> TrapSigsysFilter,
             log |-> LoggingFilter, perf |-> PerfFilter]

(* The steps of a main(). *)
Install == [kind |-> "install", nr |-> 0, arg |-> "none"]
Open == [kind |-> "open", nr |-> NrOpen, arg |-> "none"]
Write(msg) == [kind |-> "write", nr |-> NrWrite, arg |-> msg]
Sigaction == [kind |-> "sigaction", nr |-> NrRtSigaction, arg |-> "none"]
Call(nr) == [kind |-> "call", nr |-> nr, arg |-> "none"]
Exit(code) == [kind |-> "exit", nr |-> NrExitGroup, arg |-> code]

(* seccomp_deny_open.c main(): open("/tmp/a", O_RDONLY), errExit() if it  *)
(* fails, then printf("We shouldn't see this message\n") and exit.       *)
DenyOpenMain == <<Install, Open, Write("unseen"), Exit("success")>>

(* seccomp_trap_sigsys.c main(): sigaction(SIGSYS), a message, getppid() *)
(* and "Bye".                                                            *)
TrapSigsysMain == <<Install, Sigaction, Write("about"), Call(NrGetppid), Write("bye"), Exit("success")>>

(* seccomp_logging.c main(): geteuid(), getppid(). *)
LoggingMain == <<Install, Call(NrGeteuid), Call(NrGetppid), Exit("success")>>

(* seccomp_perf.c main(): usage with no argument; with a second one,    *)
(* "Applying BPF filter" and the filter; then atoi(argv[1]) getppid()s.  *)
PerfMain(argc, nloops) ==
    IF argc < 2 THEN <<Write("usage"), Exit("failure")>>
    ELSE (IF argc > 2 THEN <<Write("applying"), Install>> ELSE <<>>)
         \o [j \in 1 .. nloops |-> Call(NrGetppid)] \o <<Exit("success")>>

VARIABLES
    demo,       \* input: which program runs
    viaOpenat,  \* input: glibc's open() makes the openat system call
    exists,     \* input: /tmp/a exists
    perfArgs,   \* input: seccomp_perf's [argc, nloops]
    filter,     \* the filter installed, <<>> before
    handler,    \* a SIGSYS handler is established
    inHandler,  \* the SIGSYS handler is running
    pc,         \* the next step of main()
    out,        \* the lines written
    logged,     \* the calls SECCOMP_RET_LOG logged
    status      \* "running", "success", "failure", "killed"

vars == <<demo, viaOpenat, exists, perfArgs, filter, handler, inHandler, pc, out, logged, status>>

Main ==
    CASE demo = "deny" -> DenyOpenMain
      [] demo = "trap" -> TrapSigsysMain
      [] demo = "log"  -> LoggingMain
      [] OTHER         -> PerfMain(perfArgs.argc, perfArgs.nloops)

(* What the kernel does with system call nr of this process. *)
Sys(nr) ==
    IF filter = <<>> THEN [act |-> "allow", errno |-> 0]
    ELSE Outcome(Filter(filter, Data(AuditArchX86_64, W(0, nr), <<Zero, Zero>>)))

Init ==
    /\ demo \in {"deny", "trap", "log", "perf"}
    /\ viaOpenat \in BOOLEAN /\ exists \in BOOLEAN /\ perfArgs \in PerfArgs
    /\ filter = <<>> /\ handler = FALSE /\ inHandler = FALSE
    /\ pc = 1 /\ out = <<>> /\ logged = <<>> /\ status = "running"

Killed == status' = "killed" /\ UNCHANGED <<pc, out>>

(* One step of main(): prctl(PR_SET_NO_NEW_PRIVS) and seccomp(), which   *)
(* fails (errExit()) on a filter the kernel rejects; or a system call    *)
(* the filter lets through, fails, kills or traps.  A trap with no       *)
(* handler takes SIGSYS's default action; with one, the call is skipped  *)
(* and the handler runs.  An allowed open() of a missing file fails and  *)
(* errExit() ends the program.  No filter here returns SECCOMP_RET_ERRNO. *)
Step ==
    /\ status = "running" /\ ~inHandler /\ pc <= Len(Main)
    /\ LET s == Main[pc]
           nr == IF s.kind = "open" /\ viaOpenat THEN NrOpenat ELSE s.nr
           o == Sys(nr)
       IN  IF s.kind = "install"
           THEN /\ IF Verifies(FilterOf[demo])
                   THEN filter' = FilterOf[demo] /\ pc' = pc + 1 /\ UNCHANGED status
                   ELSE status' = "failure" /\ UNCHANGED <<filter, pc>>
                /\ UNCHANGED <<handler, inHandler, out, logged>>
           ELSE /\ logged' = IF o.act = "log" THEN Append(logged, nr) ELSE logged
                /\ CASE o.act = "kill" -> Killed /\ UNCHANGED <<handler, inHandler>>
                     [] o.act = "trap" -> IF handler THEN inHandler' = TRUE /\ pc' = pc + 1
                                                          /\ UNCHANGED <<out, status, handler>>
                                          ELSE Killed /\ UNCHANGED <<handler, inHandler>>
                     [] OTHER ->
                            /\ IF s.kind = "open" /\ ~exists THEN status' = "failure"
                               ELSE IF s.kind = "exit" THEN status' = s.arg ELSE UNCHANGED status
                            /\ out' = IF s.kind = "write" THEN Append(out, s.arg) ELSE out
                            /\ handler' = (handler \/ s.kind = "sigaction")
                            /\ pc' = pc + 1 /\ UNCHANGED inHandler
                /\ UNCHANGED filter
    /\ UNCHANGED <<demo, viaOpenat, exists, perfArgs>>

(* seccomp_trap_sigsys.c sigHandler(): printf("SIGSYS!\n"), a write()    *)
(* under the filter, then back to main().                                *)
SigHandler ==
    /\ status = "running" /\ inHandler
    /\ LET o == Sys(NrWrite)
       IN  IF o.act \in {"allow", "log"}
           THEN out' = Append(out, "sigsys") /\ UNCHANGED status
           ELSE status' = "killed" /\ UNCHANGED out
    /\ inHandler' = FALSE
    /\ UNCHANGED <<demo, viaOpenat, exists, perfArgs, filter, handler, pc, logged>>

Next == Step \/ SigHandler

Spec == Init /\ [][Next]_vars

----------------------------------------------------------------------------

Msgs == {"unseen", "about", "bye", "usage", "applying", "sigsys"}

TypeOK ==
    /\ demo \in {"deny", "trap", "log", "perf"}
    /\ viaOpenat \in BOOLEAN /\ exists \in BOOLEAN /\ perfArgs \in PerfArgs
    /\ filter \in {<<>>} \cup {FilterOf[d] : d \in DOMAIN FilterOf}
    /\ handler \in BOOLEAN /\ inHandler \in BOOLEAN
    /\ pc \in 1 .. Len(Main) + 1
    /\ out \in Seq(Msgs) /\ logged \in Seq(0 .. 511)
    /\ status \in {"running", "success", "failure", "killed"}

Done == status # "running"

(* What the programs' comments promise, through the calls the C library *)
(* really makes: seccomp_deny_open never prints "We shouldn't see this   *)
(* message" and is killed at its open(), openat() or not;                *)
(* seccomp_trap_sigsys's getppid() raises SIGSYS, the handler prints, and *)
(* "execution continues in main()" to "Bye" and a successful exit;       *)
(* seccomp_logging's every call, its exit_group() included, is allowed   *)
(* and logged, in order; and seccomp_perf's loop runs to a successful    *)
(* exit with or without its filter.                                      *)
DemosAsCommented ==
    /\ demo = "deny" => "unseen" \notin {out[i] : i \in DOMAIN out}
                        /\ (Done => status = "killed")
    /\ demo = "trap" /\ Done => status = "success" /\ out = <<"about", "sigsys", "bye">>
    /\ demo = "log" /\ Done => status = "success" /\ logged = <<NrGeteuid, NrGetppid, NrExitGroup>>
    /\ demo = "perf" /\ Done => status = IF perfArgs.argc < 2 THEN "failure" ELSE "success"

=============================================================================
