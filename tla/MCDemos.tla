------------------------------- MODULE MCDemos -------------------------------
(***************************************************************************)
(* The thread and message-queue demonstration programs, checked together:  *)
(* the initial state picks which program runs ('prog'), and only that      *)
(* program takes steps; the others stay in their initial states.  So the   *)
(* behaviours are exactly those of each program on its own, and one model  *)
(* covers all of them.                                                     *)
(*                                                                         *)
(*   barrier    pthread_barrier_demo 2 3 (pthread_create() may fail)       *)
(*   sig        mq_notify_sig                                              *)
(*   viasig     mq_notify_via_signal (and mq_notify_siginfo)               *)
(*   viathread  mq_notify_via_thread                                       *)
(*   thread     mq_notify_thread                                           *)
(*   seccomp    seccomp_user_notification /tmp/a /etc/b /bye /tmp/c, with  *)
(*              every -f and -K choice and up to two SIGINTs               *)
(*   nscap      ns_capable for every PID user namespace, euid and target   *)
(*              in a hierarchy four levels deep with a side branch         *)
(*   pdeath     pdeath_signal with the ancestor arguments "1:+2 @1:2 +1", *)
(*              "@1:2 1:+2:+3" (a '+' twice) and none                      *)
(*   lockspeed  thread_lock_speed 3 2 2 (pthread_create() may fail)        *)
(*   init       simple_init, with or without -p, reading the lines "bg",   *)
(*              "run" or "", "badword", "notfound"                         *)
(*   userns     userns_child_exec with every combination of -U, -M, -G,    *)
(*              -r and -D, privileged or not, map text accepted or not,    *)
(*              and no, one good, or a good and a failing repeatable      *)
(*              option                                                     *)
(*   epoll      epoll_flags_fork p 2 with thirteen flag sets, the writer   *)
(*              sending up to two lines before it may close the FIFO       *)
(*   readloop   inotify_dtree's event-reading loop, with up to four moves  *)
(*              and other events queued while it runs                      *)
(*   arg64      seccomp_arg64                                              *)
(*   multiarch  seccomp_multiarch, every chain of one to three             *)
(*              architectures, with NO_SECCOMP_FILTER preset or not        *)
(*   mtepoll    multithread_epoll_wait with five threads, level- or        *)
(*              edge-triggered (pthread_create() may fail)                 *)
(*   caplaunch  cap_launcher run by root or not, for root, a user, an      *)
(*              unknown user or "--help", with five capability lists and   *)
(*              two bounding sets                                          *)
(*   ctlopen    seccomp_control_open, the call made by glibc's open() and  *)
(*              the pathname's address varied                              *)
(*   smalldemos seccomp_deny_open, seccomp_trap_sigsys, seccomp_logging    *)
(*              and seccomp_perf (four command lines)                      *)
(*   launchdump seccomp_launch with six -f lists, dump_seccomp_filter of   *)
(*              each filter, as root or not, and the relaunch              *)
(*                                                                         *)
(* The signal programs may get one stray SIGUSR1; queues hold up to three  *)
(* messages (two for the thread programs), other processes send up to      *)
(* five (four), and up to two (one) may be queued before the program       *)
(* starts.                                                                 *)
(***************************************************************************)
EXTENDS Naturals, Sequences

Programs == {"barrier", "sig", "viasig", "viathread", "thread", "seccomp", "nscap", "pdeath", "lockspeed", "init", "userns", "epoll",
             "readloop", "arg64", "multiarch", "mtepoll", "caplaunch", "ctlopen", "smalldemos", "launchdump"}

VARIABLES
    prog,
    bMain, bCreated, bJoined, bTpc, bJ, bTicket, bRet, bBin, bRound, bSerials,
    sMsgs, sSent, sReceived, sReg, sPc, sPending, sKills, sEarly,
    vMsgs, vSent, vReceived, vReg, vPc, vGotSig, vPending, vKills,
    tMsgs, tSent, tReceived, tReg, tMain, tTpc, tN,
    hMsgs, hSent, hReceived, hReg, hMain, hTpc, hN, hEarly,
    cFilter, cKill, cPpc, cTgpc, cTi, cResult, cSock, cTrpc, cReq, cPath,
    cNotif, cNextId, cCreated, cSigs,
    nPid, nEuid, nTarget, nFds, nTargetUserns, nPidUserns, nChild, nDesc,
    nVerdict, nStatus, nPc,
    dArgs, dTh, dPnext, dMarked, dForker, dAlive, dRparent, dSub, dHasSub,
    dCpc, dCnt,
    lMain, lCreated, lJoined, lTpc, lJ, lK, lReg, lGlob, lHolder,
    iInput, iProcPath, iPos, iPc, iKids, iBgs, iFg, iPending,
    uOpts, uPpc, uCpc, uCpos, uWriters, uUidMapped, uGidMapped, uDenied,
    fOpt, fPpc, fForked, fReaped, fCpc, fTarget, fArmed, fRdy, fBuf, fWrites, fWriter,
    rQueue, rGen, rDone, rBuf, rNumRead, rEvp, rFirstTry, rPc,
    aPc, aResults, aStatus,
    mChain, mPreset, mN, mEnv, mFilter, mErrnos, mPc, mStatus,
    wEt, wMain, wCreated, wTpc, wRdy, wStatus,
    kInvoker, kUser, kList, kBset, kUid, kFixup, kP, kE, kI, kA, kPos, kPc, kStatus,
    oVia, oExists, oPath, oFilter, oK, oResults, oPc, oStatus,
    gDemo, gVia, gExists, gPerf, gFilter, gHandler, gInHandler, gPc, gOut, gLogged, gStatus,
    jCmd, jVia, jRoot, jFiles, jPhase, jArgs, jI, jStack, jTarget, jDi, jFirst, jRelaunched, jSecond

bVars == <<bMain, bCreated, bJoined, bTpc, bJ, bTicket, bRet, bBin, bRound, bSerials>>
sVars == <<sMsgs, sSent, sReceived, sReg, sPc, sPending, sKills, sEarly>>
vVars == <<vMsgs, vSent, vReceived, vReg, vPc, vGotSig, vPending, vKills>>
tVars == <<tMsgs, tSent, tReceived, tReg, tMain, tTpc, tN>>
hVars == <<hMsgs, hSent, hReceived, hReg, hMain, hTpc, hN, hEarly>>
cVars == <<cFilter, cKill, cPpc, cTgpc, cTi, cResult, cSock, cTrpc, cReq, cPath,
           cNotif, cNextId, cCreated, cSigs>>
nVars == <<nPid, nEuid, nTarget, nFds, nTargetUserns, nPidUserns, nChild, nDesc,
           nVerdict, nStatus, nPc>>
dVars == <<dArgs, dTh, dPnext, dMarked, dForker, dAlive, dRparent, dSub, dHasSub,
           dCpc, dCnt>>
lVars == <<lMain, lCreated, lJoined, lTpc, lJ, lK, lReg, lGlob, lHolder>>
iVars == <<iInput, iProcPath, iPos, iPc, iKids, iBgs, iFg, iPending>>
uVars == <<uOpts, uPpc, uCpc, uCpos, uWriters, uUidMapped, uGidMapped, uDenied>>
fVars == <<fOpt, fPpc, fForked, fReaped, fCpc, fTarget, fArmed, fRdy, fBuf, fWrites, fWriter>>
rVars == <<rQueue, rGen, rDone, rBuf, rNumRead, rEvp, rFirstTry, rPc>>
aVars == <<aPc, aResults, aStatus>>
mVars == <<mChain, mPreset, mN, mEnv, mFilter, mErrnos, mPc, mStatus>>
wVars == <<wEt, wMain, wCreated, wTpc, wRdy, wStatus>>
kVars == <<kInvoker, kUser, kList, kBset, kUid, kFixup, kP, kE, kI, kA, kPos, kPc, kStatus>>
oVars == <<oVia, oExists, oPath, oFilter, oK, oResults, oPc, oStatus>>
gVars == <<gDemo, gVia, gExists, gPerf, gFilter, gHandler, gInHandler, gPc, gOut, gLogged, gStatus>>
jVars == <<jCmd, jVia, jRoot, jFiles, jPhase, jArgs, jI, jStack, jTarget, jDi, jFirst, jRelaunched, jSecond>>
yVars == <<oVars, gVars, jVars>>
xVars == <<rVars, aVars, mVars, wVars, kVars, yVars>>
vars == <<prog, bVars, sVars, vVars, tVars, hVars, cVars, nVars, dVars, lVars, iVars, uVars, fVars, xVars>>

Barrier == INSTANCE PthreadBarrierDemo WITH
    NumThreads <- 3, NumBarriers <- 2, CreateMayFail <- TRUE,
    mainpc <- bMain, created <- bCreated, joined <- bJoined, tpc <- bTpc,
    j <- bJ, ticket <- bTicket, ret <- bRet, bin <- bBin, round <- bRound,
    serials <- bSerials

Sig == INSTANCE MqNotifySig WITH
    MsgMax <- 3, MaxSends <- 5, InitMsgs <- 2, MaxKills <- 1,
    msgs <- sMsgs, sent <- sSent, received <- sReceived, reg <- sReg,
    pc <- sPc, pending <- sPending, kills <- sKills, early <- sEarly

ViaSig == INSTANCE MqNotifyViaSignal WITH
    MsgMax <- 3, MaxSends <- 5, InitMsgs <- 2, MaxKills <- 1,
    msgs <- vMsgs, sent <- vSent, received <- vReceived, reg <- vReg,
    pc <- vPc, gotSig <- vGotSig, pending <- vPending, kills <- vKills

ViaThread == INSTANCE MqNotifyViaThread WITH
    MsgMax <- 2, MaxSends <- 4, InitMsgs <- 1,
    msgs <- tMsgs, sent <- tSent, received <- tReceived, reg <- tReg,
    mainpc <- tMain, tpc <- tTpc, nthreads <- tN

Thread == INSTANCE MqNotifyThread WITH
    MsgMax <- 2, MaxSends <- 4, InitMsgs <- 1,
    msgs <- hMsgs, sent <- hSent, received <- hReceived, reg <- hReg,
    mainpc <- hMain, tpc <- hTpc, nthreads <- hN, early <- hEarly

(* The command-line paths, as sequences of pathname components. *)
SeccompPaths == << <<"tmp", "a">>, <<"etc", "b">>, <<"bye">>, <<"tmp", "c">> >>

Seccomp == INSTANCE SeccompUserNotif WITH
    Paths <- SeccompPaths, MaxSigs <- 2,
    secondFilter <- cFilter, killTracer <- cKill, ppc <- cPpc, tgpc <- cTgpc,
    ti <- cTi, result <- cResult, sock <- cSock, trpc <- cTrpc, req <- cReq,
    path <- cPath, notif <- cNotif, nextId <- cNextId, created <- cCreated,
    sigs <- cSigs

(* The user namespaces u0 > u1 > u2 > u3 and u0 > v1, their owners, and  *)
(* a mount namespace m2 owned by u2.                                       *)
NsUser == {"u0", "u1", "u2", "u3", "v1"}
NsParent == [u0 |-> "none", u1 |-> "u0", u2 |-> "u1", u3 |-> "u2", v1 |-> "u0"]
NsOwner == [u0 |-> 0, u1 |-> 1, u2 |-> 0, u3 |-> 1, v1 |-> 1]
NsOwnerNs == [m2 |-> "u2"]

NsCap == INSTANCE NsCapable WITH
    UserNs <- NsUser, OtherNs <- {"m2"}, Parent <- NsParent, Owner <- NsOwner,
    OwnerNs <- NsOwnerNs, Uids <- {0, 1}, FdNums <- 3 .. 7,
    pidNs <- nPid, euid <- nEuid, target <- nTarget, fds <- nFds,
    targetUserns <- nTargetUserns, pidUserns <- nPidUserns, child <- nChild,
    desc <- nDesc, verdict <- nVerdict, status <- nStatus, pc <- nPc

(* Ancestor arguments: [sub |-> '@', tokens |-> which tokens have '+']. *)
PdA1 == [sub |-> FALSE, tokens |-> <<FALSE, TRUE>>]
PdA2 == [sub |-> TRUE, tokens |-> <<FALSE, FALSE>>]
PdA3 == [sub |-> FALSE, tokens |-> <<TRUE>>]
PdTwice == [sub |-> FALSE, tokens |-> <<FALSE, TRUE, TRUE>>]
PdArgs == {<<PdA1, PdA2, PdA3>>, <<PdA2, PdTwice>>, <<>>}

Pd == INSTANCE PdeathSignal WITH
    ArgChoices <- PdArgs, MaxAnc <- 3, MaxThr <- 3,
    args <- dArgs, th <- dTh, pnext <- dPnext, marked <- dMarked,
    forker <- dForker, alive <- dAlive, rparent <- dRparent, subreaper <- dSub,
    hasSubAnc <- dHasSub, cpc <- dCpc, cnt <- dCnt

LockSpeed == INSTANCE ThreadLockSpeed WITH
    NumThreads <- 3, Outer <- 2, Inner <- 2, CreateMayFail <- TRUE,
    mainpc <- lMain, created <- lCreated, joined <- lJoined, tpc <- lTpc,
    j <- lJ, k <- lK, reg <- lReg, glob <- lGlob, holder <- lHolder

(* Command lines, by kind. *)
InitInputs == {<<"bg", "run">>, <<"empty", "badword", "notfound">>}

Si == INSTANCE SimpleInit WITH
    Inputs <- InitInputs,
    input <- iInput, procPath <- iProcPath, pos <- iPos, pc <- iPc,
    kids <- iKids, bgs <- iBgs, fg <- iFg, pending <- iPending

(* userns_child_exec command lines. *)
UsernsOptions ==
    [user : BOOLEAN, uidOpt : BOOLEAN, gidOpt : BOOLEAN, root : BOOLEAN,
     noDeny : BOOLEAN, priv : BOOLEAN, mapsOk : BOOLEAN, setgroupsOk : BOOLEAN,
     ops : {<<>>, <<"ok">>, <<"ok", "fail">>}]

Userns == INSTANCE UsernsChildExec WITH
    Options <- UsernsOptions,
    opts <- uOpts, ppc <- uPpc, cpc <- uCpc, cpos <- uCpos, writers <- uWriters,
    uidMapped <- uUidMapped, gidMapped <- uGidMapped, denied <- uDenied

(* epoll_flags_fork p 2 under the flag sets that tell the wake-up rules  *)
(* apart: level- or edge-triggered, shared or per-child instances,       *)
(* EPOLLEXCLUSIVE, EPOLLONESHOT (alone and with -x), -p with and without *)
(* -s, looping with and without -r.                                       *)
NoFlags == [s |-> FALSE, e |-> FALSE, x |-> FALSE, o |-> FALSE, p |-> FALSE, r |-> FALSE, l |-> FALSE]
EpollOptions ==
    {NoFlags, [NoFlags EXCEPT !.l = TRUE], [NoFlags EXCEPT !.r = TRUE, !.l = TRUE],
     [NoFlags EXCEPT !.s = TRUE, !.r = TRUE, !.l = TRUE],
     [NoFlags EXCEPT !.e = TRUE, !.r = TRUE, !.l = TRUE],
     [NoFlags EXCEPT !.e = TRUE, !.s = TRUE], [NoFlags EXCEPT !.e = TRUE, !.s = TRUE, !.r = TRUE, !.l = TRUE],
     [NoFlags EXCEPT !.x = TRUE, !.r = TRUE, !.l = TRUE], [NoFlags EXCEPT !.o = TRUE],
     [NoFlags EXCEPT !.s = TRUE, !.o = TRUE], [NoFlags EXCEPT !.x = TRUE, !.o = TRUE],
     [NoFlags EXCEPT !.s = TRUE, !.p = TRUE], [NoFlags EXCEPT !.p = TRUE, !.r = TRUE, !.l = TRUE]}

Epoll == INSTANCE EpollFlagsFork WITH
    NumChildren <- 2, MaxWrites <- 2, Options <- EpollOptions,
    opt <- fOpt, ppc <- fPpc, forked <- fForked, reaped <- fReaped, cpc <- fCpc,
    target <- fTarget, armed <- fArmed, rdy <- fRdy, buf <- fBuf, writes <- fWrites,
    writer <- fWriter

(* inotify_dtree's read loop: a move as an IN_MOVED_FROM and IN_MOVED_TO  *)
(* pair with one cookie, and another event; 48-byte reads.               *)
ReadLoopEvents ==
    {[kind |-> "from", cookie |-> 1, len |-> 32], [kind |-> "to", cookie |-> 1, len |-> 32],
     [kind |-> "other", cookie |-> 0, len |-> 16]}

ReadLoop == INSTANCE InotifyReadLoop WITH
    Events <- ReadLoopEvents, BufLen <- 27200, ReadSize <- 48, MaxEvents <- 4,
    queue <- rQueue, gen <- rGen, done <- rDone, buf <- rBuf, numRead <- rNumRead,
    evp <- rEvp, firstTry <- rFirstTry, pc <- rPc

Arg64 == INSTANCE SeccompArg64 WITH pc <- aPc, results <- aResults, status <- aStatus

(* Every chain of one to three architectures. *)
MultiarchChains == UNION {[1 .. k -> {"x86_64", "i386", "x32"}] : k \in 1 .. 3}

Multiarch == INSTANCE SeccompMultiarch WITH
    Chains <- MultiarchChains,
    chain <- mChain, preset <- mPreset, n <- mN, env <- mEnv, filter <- mFilter,
    errnos <- mErrnos, pc <- mPc, status <- mStatus

MtEpoll == INSTANCE MultithreadEpollWait WITH
    NumThreads <- 5, CreateMayFail <- TRUE,
    et <- wEt, mainpc <- wMain, created <- wCreated, tpc <- wTpc, rdy <- wRdy,
    status <- wStatus

(* cap_launcher's inputs: two capability names libcap knows and one it   *)
(* does not, a root user, an ordinary one, one the user database lacks   *)
(* and "--help"; lists with a repeated name and with an unknown one; a   *)
(* bounding set with or without CAP_NET_RAW.                              *)
LaunchCapOf == [cap_chown |-> "chown", cap_net_raw |-> "net_raw"]
LaunchUidOf == [root |-> 0, alice |-> 1000]
LaunchLists ==
    {<<>>, <<"cap_chown">>, <<"cap_chown", "cap_net_raw">>,
     <<"cap_net_raw", "cap_chown", "cap_net_raw">>, <<"cap_chown", "bogus">>}

Launch == INSTANCE CapLauncher WITH
    Caps <- {"chown", "net_raw"}, Names <- {"cap_chown", "cap_net_raw", "bogus"},
    CapOf <- LaunchCapOf, Users <- {"root", "alice", "nobody", "--help"},
    UidOf <- LaunchUidOf, CapLists <- LaunchLists,
    Bsets <- {{"chown", "net_raw"}, {"chown"}},
    invoker <- kInvoker, user <- kUser, list <- kList, bset <- kBset, uid <- kUid,
    fixup <- kFixup, P <- kP, E <- kE, I <- kI, A <- kA, pos <- kPos, pc <- kPc,
    status <- kStatus

(* The repository's seccomp filters and 32-bit words. *)
SF == INSTANCE SeccompFilters

(* seccomp_control_open: "/tmp/a" at an address whose low bits are clear *)
(* of the flags the filter tests, or not; for the filter's check, every  *)
(* access mode, O_CREAT alone and with them, O_TRUNC, O_APPEND, and      *)
(* O_CLOEXEC, which lies in the upper 16 bits.                            *)
CoPaths == {<<SF!W(0, 21845), SF!W(21845, 24580)>>, <<SF!W(0, 0), SF!W(64, 8263)>>}
CoFlags == {SF!W(0, x) : x \in {0, 1, 2, 3, 64, 65, 66, 512, 1024}} \cup {SF!W(8, 0), SF!W(8, 66)}

Co == INSTANCE SeccompControlOpen WITH
    Paths <- CoPaths, FlagEdges <- CoFlags,
    viaOpenat <- oVia, exists <- oExists, path <- oPath, filter <- oFilter, k <- oK,
    results <- oResults, pc <- oPc, status <- oStatus

(* seccomp_perf with no argument, with a loop count, and with a count    *)
(* and 'x', the count 0 or 2.                                            *)
SdPerfArgs == {[argc |-> 1, nloops |-> 0], [argc |-> 2, nloops |-> 2],
               [argc |-> 3, nloops |-> 0], [argc |-> 3, nloops |-> 2]}

Sd == INSTANCE SeccompSmallDemos WITH
    PerfArgs <- SdPerfArgs,
    demo <- gDemo, viaOpenat <- gVia, exists <- gExists, perfArgs <- gPerf, filter <- gFilter,
    handler <- gHandler, inHandler <- gInHandler, pc <- gPc, out <- gOut, logged <- gLogged,
    status <- gStatus

(* Filter files as a compiler writes them: the repository's filters, one *)
(* file of 12 bytes; the -f lists: a stack of three that the launcher and *)
(* the program survive, and lists whose earlier filter kills a later     *)
(* open() of the launcher or of the new program's loader, or that name a *)
(* file of odd size or one that does not exist.                           *)
LdBlob(f) == [size |-> 8 * Len(f), prog |-> f]
LdFiles ==
    [deny |-> LdBlob(SF!DenyOpenFilter), ctl |-> LdBlob(SF!ControlOpenFilter),
     trap |-> LdBlob(SF!TrapSigsysFilter), log |-> LdBlob(SF!LoggingFilter),
     perf |-> LdBlob(SF!PerfFilter), odd |-> [size |-> 12, prog |-> <<>>]]
LdCmdLines ==
    {<<"trap", "log", "ctl">>, <<"deny">>, <<"deny", "log">>, <<"perf", "ctl">>,
     <<"ctl", "odd">>, <<"log", "gone">>}

Ld == INSTANCE SeccompLaunchDump WITH
    FilterFiles <- LdFiles, CmdLines <- LdCmdLines, DumpFile <- <<"dump0", "dump1", "dump2">>,
    cmd <- jCmd, viaOpenat <- jVia, root <- jRoot, files <- jFiles, phase <- jPhase,
    args <- jArgs, i <- jI, stack <- jStack, target <- jTarget, di <- jDi, first <- jFirst,
    relaunched <- jRelaunched, second <- jSecond

(* A program that does not run keeps its initial state with an empty queue. *)
Init ==
    /\ prog \in Programs
    /\ Barrier!Init
    /\ Sig!Init /\ (prog # "sig" => sMsgs = 0)
    /\ ViaSig!Init /\ (prog # "viasig" => vMsgs = 0)
    /\ ViaThread!Init /\ (prog # "viathread" => tMsgs = 0)
    /\ Thread!Init /\ (prog # "thread" => hMsgs = 0)
    /\ Seccomp!Init /\ (prog # "seccomp" => cFilter = "none" /\ cKill)
    /\ NsCap!Init /\ (prog # "nscap" => nPid = "u0" /\ nEuid = 0 /\ nTarget = "u0")
    /\ Pd!Init /\ (prog # "pdeath" => dArgs = <<>>)
    /\ LockSpeed!Init
    /\ Si!Init /\ (prog # "init" => iInput = <<"bg", "run">> /\ ~iProcPath)
    /\ Userns!Init /\ (prog # "userns" => uOpts = CHOOSE o \in UsernsOptions : o.ops = <<>>)
    /\ Epoll!Init /\ (prog # "epoll" => fOpt = NoFlags)
    /\ ReadLoop!Init /\ Arg64!Init
    /\ prog # "multiarch" => mChain = <<"x86_64">> /\ mPreset = FALSE
    /\ Multiarch!Init
    /\ prog # "mtepoll" => wEt = FALSE
    /\ MtEpoll!Init
    /\ prog # "caplaunch" => kInvoker = 0 /\ kUser = "root" /\ kList = <<>> /\ kBset = {"chown"}
    /\ Launch!Init
    /\ prog # "ctlopen" => oVia = FALSE /\ oExists = FALSE /\ oPath = <<SF!W(0, 0), SF!W(64, 8263)>>
    /\ Co!Init
    /\ prog # "smalldemos" => gDemo = "deny" /\ gVia = FALSE /\ gExists = FALSE /\ gPerf = [argc |-> 1, nloops |-> 0]
    /\ Sd!Init
    /\ prog # "launchdump" => jCmd = <<"deny">> /\ jVia = FALSE /\ jRoot = FALSE
    /\ Ld!Init

(* A step of one program, the others unchanged. *)
B(A) == prog = "barrier" /\ A /\ UNCHANGED <<prog, sVars, vVars, tVars, hVars, cVars, nVars, dVars, lVars, iVars, uVars, fVars, xVars>>
S(A) == prog = "sig" /\ A /\ UNCHANGED <<prog, bVars, vVars, tVars, hVars, cVars, nVars, dVars, lVars, iVars, uVars, fVars, xVars>>
V(A) == prog = "viasig" /\ A /\ UNCHANGED <<prog, bVars, sVars, tVars, hVars, cVars, nVars, dVars, lVars, iVars, uVars, fVars, xVars>>
T(A) == prog = "viathread" /\ A /\ UNCHANGED <<prog, bVars, sVars, vVars, hVars, cVars, nVars, dVars, lVars, iVars, uVars, fVars, xVars>>
H(A) == prog = "thread" /\ A /\ UNCHANGED <<prog, bVars, sVars, vVars, tVars, cVars, nVars, dVars, lVars, iVars, uVars, fVars, xVars>>
C(A) == prog = "seccomp" /\ A /\ UNCHANGED <<prog, bVars, sVars, vVars, tVars, hVars, nVars, dVars, lVars, iVars, uVars, fVars, xVars>>
D(A) == prog = "pdeath" /\ A /\ UNCHANGED <<prog, bVars, sVars, vVars, tVars, hVars, cVars, nVars, lVars, iVars, uVars, fVars, xVars>>
L(A) == prog = "lockspeed" /\ A /\ UNCHANGED <<prog, bVars, sVars, vVars, tVars, hVars, cVars, nVars, dVars, iVars, uVars, fVars, xVars>>
I(A) == prog = "init" /\ A /\ UNCHANGED <<prog, bVars, sVars, vVars, tVars, hVars, cVars, nVars, dVars, lVars, uVars, fVars, xVars>>
U(A) == prog = "userns" /\ A /\ UNCHANGED <<prog, bVars, sVars, vVars, tVars, hVars, cVars, nVars, dVars, lVars, iVars, fVars, xVars>>
E(A) == prog = "epoll" /\ A /\ UNCHANGED <<prog, bVars, sVars, vVars, tVars, hVars, cVars, nVars, dVars, lVars, iVars, uVars, xVars>>
N(A) == prog = "nscap" /\ A /\ UNCHANGED <<prog, bVars, sVars, vVars, tVars, hVars, cVars, dVars, lVars, iVars, uVars, fVars, xVars>>
Rl(A) == prog = "readloop" /\ A /\ UNCHANGED <<prog, bVars, sVars, vVars, tVars, hVars, cVars, nVars, dVars, lVars, iVars, uVars, fVars, aVars, mVars, wVars, kVars, yVars>>
Ag(A) == prog = "arg64" /\ A /\ UNCHANGED <<prog, bVars, sVars, vVars, tVars, hVars, cVars, nVars, dVars, lVars, iVars, uVars, fVars, rVars, mVars, wVars, kVars, yVars>>
Ma(A) == prog = "multiarch" /\ A /\ UNCHANGED <<prog, bVars, sVars, vVars, tVars, hVars, cVars, nVars, dVars, lVars, iVars, uVars, fVars, rVars, aVars, wVars, kVars, yVars>>
Mt(A) == prog = "mtepoll" /\ A /\ UNCHANGED <<prog, bVars, sVars, vVars, tVars, hVars, cVars, nVars, dVars, lVars, iVars, uVars, fVars, rVars, aVars, mVars, kVars, yVars>>
Cn(A) == prog = "ctlopen" /\ A /\ UNCHANGED <<prog, bVars, sVars, vVars, tVars, hVars, cVars, nVars, dVars, lVars, iVars, uVars, fVars, rVars, aVars, mVars, wVars, kVars, gVars, jVars>>
Sm(A) == prog = "smalldemos" /\ A /\ UNCHANGED <<prog, bVars, sVars, vVars, tVars, hVars, cVars, nVars, dVars, lVars, iVars, uVars, fVars, rVars, aVars, mVars, wVars, kVars, oVars, jVars>>
Lc(A) == prog = "launchdump" /\ A /\ UNCHANGED <<prog, bVars, sVars, vVars, tVars, hVars, cVars, nVars, dVars, lVars, iVars, uVars, fVars, rVars, aVars, mVars, wVars, kVars, oVars, gVars>>
Cl(A) == prog = "caplaunch" /\ A /\ UNCHANGED <<prog, bVars, sVars, vVars, tVars, hVars, cVars, nVars, dVars, lVars, iVars, uVars, fVars, rVars, aVars, mVars, wVars, yVars>>

Next ==
    \/ B(Barrier!Next) \/ S(Sig!Next) \/ V(ViaSig!Next)
    \/ T(ViaThread!Next) \/ H(Thread!Next) \/ C(Seccomp!Next)
    \/ N(NsCap!Next)
    \/ D(Pd!Next) \/ L(LockSpeed!Next) \/ I(Si!Next)
    \/ U(Userns!Next) \/ E(Epoll!Next)
    \/ Rl(ReadLoop!Next) \/ Ag(Arg64!Next) \/ Ma(Multiarch!Next)
    \/ Mt(MtEpoll!Next) \/ Cl(Launch!Next)
    \/ Cn(Co!Next) \/ Sm(Sd!Next) \/ Lc(Ld!Next)

(* The fairness of each program's own specification, for its steps.     *)
(* readloop, arg64, multiarch, mtepoll, caplaunch, ctlopen, smalldemos  *)
(* and launchdump are checked for invariants only, which fairness does  *)
(* not change, so theirs is left out here.                               *)
Fairness ==
    /\ WF_vars(B(Barrier!Create)) /\ WF_vars(B(Barrier!Join))
    /\ \A t \in Barrier!Threads : WF_vars(B(Barrier!ThreadStep(t)))
    /\ WF_vars(S(Sig!Prog))
    /\ WF_vars(V(ViaSig!Prog)) /\ WF_vars(V(ViaSig!Deliver))
    /\ WF_vars(T(ViaThread!MainSetup \/ ViaThread!MainDrain))
    /\ \A t \in ViaThread!Tids : WF_vars(T(ViaThread!ThreadSetup(t) \/ ViaThread!ThreadDrain(t)))
    /\ WF_vars(H(Thread!MainSetup))
    /\ \A t \in Thread!Tids : WF_vars(H(Thread!ThreadSetup(t) \/ Thread!ThreadDrain(t)))
    /\ WF_vars(C(Seccomp!Target)) /\ WF_vars(C(Seccomp!Tracer)) /\ WF_vars(C(Seccomp!Parent))
    /\ WF_vars(N(NsCap!Next))
    /\ \A p \in Pd!Procs, k \in Pd!Thr : WF_vars(D(Pd!ThreadStep(p, k)))
    /\ WF_vars(D(Pd!ChildStep))
    /\ WF_vars(L(LockSpeed!Create)) /\ WF_vars(L(LockSpeed!Join))
    /\ \A t \in LockSpeed!Threads : WF_vars(L(LockSpeed!ThreadStep(t)))
    /\ WF_vars(I(Si!Setup \/ Si!Prompt \/ Si!Pause \/ Si!TcSet)) /\ WF_vars(I(Si!Handler))
    /\ \A i \in Si!Lines : WF_vars(I(iPc # "exited" /\ (Si!ChildExpand(i) \/ Si!ChildPgrp(i)
                                                \/ Si!ChildExec(i) \/ Si!ChildExit(i))))
    /\ WF_vars(U(Userns!Parent)) /\ WF_vars(U(Userns!Child))
    /\ WF_vars(E(Epoll!Parent)) /\ \A c \in Epoll!Children : WF_vars(E(Epoll!Child(c)))

Spec == Init /\ [][Next]_vars /\ Fairness

----------------------------------------------------------------------------

TypeOK ==
    /\ prog \in Programs
    /\ Barrier!TypeOK /\ Sig!TypeOK /\ ViaSig!TypeOK
    /\ ViaThread!TypeOK /\ Thread!TypeOK /\ Seccomp!TypeOK
    /\ NsCap!TypeOK /\ Pd!TypeOK /\ LockSpeed!TypeOK /\ Si!TypeOK
    /\ Userns!TypeOK /\ Epoll!TypeOK
    /\ ReadLoop!TypeOK /\ Arg64!TypeOK /\ Multiarch!TypeOK /\ MtEpoll!TypeOK
    /\ Launch!TypeOK /\ Co!TypeOK /\ Sd!TypeOK /\ Ld!TypeOK

(* pthread_barrier_demo: exactly one PTHREAD_BARRIER_SERIAL_THREAD return *)
(* per barrier index (PthreadBarrierDemo!SerialPerRound).                 *)
SerialPerRound == Barrier!SerialPerRound

(* pthread_barrier_demo implements the abstract barrier: no             *)
(* pthread_barrier_wait() returns before every thread has called it for  *)
(* the same index ...                                                    *)
BarrierRefined == Barrier!BarrierRefined

(* ... every call whose round is complete returns, even when a failed   *)
(* pthread_create() ends the process half way ...                       *)
BarrierFairRefined == Barrier!BarrierFairRefined

(* ... and main() joins every thread and exits. *)
AllJoined == prog = "barrier" => Barrier!AllJoined

(* No lost wake-up in any of the four notification programs: a queued    *)
(* message always has a drain, a pending SIGUSR1, gotSig or a            *)
(* notification thread ahead of it (outside the early-message case that *)
(* mq_notify_sig.c and mq_notify_thread.c document).                     *)
NoLostWakeup ==
    /\ Sig!NoLostWakeup /\ ViaSig!NoLostWakeup
    /\ ViaThread!NoLostWakeup /\ Thread!NoLostWakeup

(* The SIGEV_THREAD programs never call mq_notify() while a registration *)
(* is armed, however their notification threads interleave: the          *)
(* errExit() after it is dead code.                                      *)
NeverBusy == ViaThread!NeverBusy /\ Thread!NeverBusy

(* Every queued message is eventually received, by all four programs,    *)
(* barring a stray SIGUSR1 and the documented early-message case.        *)
MessagesConsumed ==
    /\ Sig!ConsumedBarringStraySignal /\ ViaSig!ConsumedBarringStraySignal
    /\ ViaThread!ConsumedEventually /\ Thread!ConsumedEventually

(* seccomp_user_notification: every mkdir() of the target returns and it *)
(* exits ... *)
TargetFinishes == prog = "seccomp" => Seccomp!TargetFinishes

(* ... and without -K the parent exits. *)
ParentExits == prog = "seccomp" => Seccomp!ParentExits

(* The target sees mkdir() succeed exactly when the tracer created the    *)
(* directory (SeccompUserNotif!ResultMatchesEffect).                       *)
ResultMatchesEffect == Seccomp!ResultMatchesEffect

(* ns_capable prints the kernel's verdict (NsCapable!VerdictCorrect). *)
VerdictCorrect == NsCap!VerdictCorrect

(* ns_capable exits with EXIT_SUCCESS once it has printed its verdict    *)
(* (NsCapable!ExitsSuccessfully).                                         *)
ExitsSuccessfully == NsCap!ExitsSuccessfully

(* pdeath_signal: orphans go to the nearest live '@' ancestor or, when   *)
(* there is none, to init (PdeathSignal!SubreaperAdopts).                 *)
SubreaperAdopts == Pd!SubreaperAdopts

(* ... and well-formed arguments always get as far as the child. *)
ChildCreated == prog = "pdeath" => Pd!ChildCreated

(* thread_lock_speed implements the atomic counter: no update is lost    *)
(* (ThreadLockSpeed!UpdatesNotLost) ...                                  *)
UpdatesNotLost == LockSpeed!UpdatesNotLost

(* ... and it ends (ThreadLockSpeed!Terminates). *)
LockSpeedTerminates == prog = "lockspeed" => LockSpeed!Terminates

(* simple_init never leaves a zombie without a pending SIGCHLD          *)
(* (SimpleInit!ZombiesSignalled).                                         *)
ZombiesSignalled == Si!ZombiesSignalled

(* simple_init gets back to its prompt after every command               *)
(* (SimpleInit!PromptReturns).                                            *)
PromptReturns == Si!PromptReturns

(* userns_child_exec's child passes its read() of the pipe only once the *)
(* requested maps are written, unless the parent died                     *)
(* (UsernsChildExec!MapsBeforeExec) ...                                   *)
MapsBeforeExec == Userns!MapsBeforeExec

(* ... and neither process waits for ever (UsernsChildExec!BothEnd). *)
UsernsBothEnd == prog = "userns" => Userns!BothEnd

(* epoll_flags_fork: with flags that wake every waiter, closing the     *)
(* FIFO lets the parent's wait() loop return (EpollFlagsFork!ParentReturns).           *)
EpollParentReturns == prog = "epoll" => Epoll!ParentReturns

(* inotify_dtree's read loop neither loses nor repeats an event, across  *)
(* moves split over reads and the second read() with its timeout          *)
(* (InotifyReadLoop!EventsAccounted).                                     *)
EventsAccounted == ReadLoop!EventsAccounted

(* seccomp_arg64's filter refuses exactly the non-negative lseek()      *)
(* offsets above 1000 that the header names, for every split into        *)
(* 32-bit halves (SeccompArg64!NonNegativeAsDocumented) ...               *)
NonNegativeAsDocumented == prog = "arg64" => Arg64!NonNegativeAsDocumented

(* ... but not the negative ones, which the header says are allowed      *)
(* (SeccompArg64!FilterAsDocumented).                                     *)
FilterAsDocumented == prog = "arg64" => Arg64!FilterAsDocumented

(* seccomp_multiarch's one filter fails each architecture's mq_notify()  *)
(* with its own number along the exec chain                               *)
(* (SeccompMultiarch!ChainFailsEachArch).                                 *)
ChainFailsEachArch == Multiarch!ChainFailsEachArch

(* multithread_epoll_wait: EPOLLET wakes one thread, level-triggered all *)
(* five (MultithreadEpollWait!WakeCountAsDocumented).                     *)
WakeCountAsDocumented == MtEpoll!WakeCountAsDocumented

(* cap_launcher starts the command for a non-root user with exactly the  *)
(* listed capabilities (CapLauncher!LaunchedWithListedCaps).              *)
LaunchedWithListedCaps == Launch!LaunchedWithListedCaps

(* seccomp_control_open's filter does what its comments say for open()  *)
(* and openat() alike, and the program is killed at its fourth open()    *)
(* (SeccompControlOpen!OpensAsCommented).                                 *)
OpensAsCommented == prog = "ctlopen" => Co!OpensAsCommented

(* The deny, trap, logging and perf demonstrations end as their comments *)
(* say, through the calls glibc really makes                              *)
(* (SeccompSmallDemos!DemosAsCommented).                                  *)
DemosAsCommented == prog = "smalldemos" => Sd!DemosAsCommented

(* Dumping a launched program's filters by index and launching it again  *)
(* with the dumps, oldest first, rebuilds the same stack                  *)
(* (SeccompLaunchDump!RoundTripSameStack).                                *)
RoundTripSameStack == prog = "launchdump" => Ld!RoundTripSameStack

=============================================================================
