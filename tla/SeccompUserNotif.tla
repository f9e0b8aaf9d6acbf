--------------------------- MODULE SeccompUserNotif ---------------------------
(***************************************************************************)
(* src/seccomp/seccomp_user_notification.c: the parent forks a target and *)
(* a tracer.  The target installs a filter returning                      *)
(* SECCOMP_RET_USER_NOTIF for mkdir() (and optionally a second filter),    *)
(* passes the listener fd to the tracer over a socket pair and calls       *)
(* mkdir() for each path.  The tracer receives each notification, reads    *)
(* the path from /proc/PID/mem, creates it itself if it is under /tmp/,    *)
(* and answers; it exits after answering "/bye".  The parent waits for the *)
(* target, then kills or waits for the tracer.                            *)
(*                                                                         *)
(* The kernel's side is the target's current notification: queued, taken *)
(* by the tracer (sent) or answered (replied), identified by an id that is *)
(* new for every notification.  A SIGINT to the target (its handler has   *)
(* sa_flags = 0) is the fault action Interrupt, bounded by MaxSigs: the    *)
(* kernel drops the notification and the call either fails with EINTR or *)
(* is restarted, which kernels have done differently.  Paths are sequences *)
(* of components; output and the delay loop are left out.                 *)
(***************************************************************************)
EXTENDS Naturals, Sequences

CONSTANTS
    Paths,          \* the command-line pathnames, in order
    MaxSigs         \* bound on SIGINTs sent to the target

VARIABLES
    secondFilter,   \* -f: "none", "errno" or "trace"
    killTracer,     \* FALSE with -K
    ppc,            \* parent: "waittarget", "waittracer" or "exited"
    tgpc,           \* target: "setup", "mkdir", "blocked" or "exited"
    ti,             \* target: index of the next (or current) mkdir() path
    result,         \* per path: what its mkdir() returned to the target
    sock,           \* the listener fd is in flight on the socket pair
    trpc,           \* tracer: "recvfd", "recv", "read", "reply", "exited"
    req,            \* the tracer's *req: [id, call] of the notification
    path,           \* the path the tracer read from /proc/PID/mem
    notif,          \* the target's pending notification, or NoNotif
    nextId,         \* id of the next notification
    created,        \* directories the tracer has created
    sigs            \* SIGINTs sent so far

vars == <<secondFilter, killTracer, ppc, tgpc, ti, result, sock, trpc, req,
          path, notif, nextId, created, sigs>>

Calls == 1 .. Len(Paths)
NoNotif == [id |-> 0, call |-> 0, state |-> "none", result |-> "none"]

(* Filter return values, highest precedence first (seccomp(2)). *)
Precedence == <<"errno", "user_notif", "trace", "allow">>

(* The action the kernel takes for mkdir(): the highest-precedence return *)
(* among the installed filters.                                           *)
MkdirAction ==
    LET rets == {"user_notif"} \cup (IF secondFilter = "none" THEN {} ELSE {secondFilter})
    IN  Precedence[CHOOSE k \in 1 .. Len(Precedence) :
                      /\ Precedence[k] \in rets
                      /\ \A m \in 1 .. k - 1 : Precedence[m] \notin rets]

(* strncmp(path, "/tmp/", strlen("/tmp/")) == 0 *)
InTmp(p) == Len(p) > 1 /\ p[1] = "tmp"

(* The tracer's mkdir(path): it creates the directory when its parent is *)
(* /tmp or a directory created before, and fails with ENOENT otherwise   *)
(* (and with EEXIST for one that exists, leaving it there).               *)
MkdirSucceeds(p) == Len(p) = 2 \/ SubSeq(p, 1, Len(p) - 1) \in created

(* Closing the listener's last fd answers a pending notification with     *)
(* ENOSYS (seccomp_notify_release()).                                      *)
Released(n) ==
    IF n.state \in {"queued", "sent"}
    THEN [n EXCEPT !.state = "replied", !.result = "enosys"]
    ELSE n

(* The listener is open while the tracer, or the socket, holds its fd. *)
Listening == sock \/ trpc \notin {"recvfd", "exited"}

Init ==
    /\ secondFilter \in {"none", "errno", "trace"}
    /\ killTracer \in BOOLEAN
    /\ ppc = "waittarget"
    /\ tgpc = "setup"
    /\ ti = 1
    /\ result = [i \in Calls |-> "none"]
    /\ sock = FALSE
    /\ trpc = "recvfd"
    /\ req = [id |-> 0, call |-> 0]
    /\ path = <<>>
    /\ notif = NoNotif
    /\ nextId = 1
    /\ created = {}
    /\ sigs = 0

(* targetProcess(): install the filters, sendfd(), close its copies. *)
TargetSetup ==
    /\ tgpc = "setup"
    /\ sock' = TRUE
    /\ tgpc' = "mkdir"
    /\ UNCHANGED <<secondFilter, killTracer, ppc, ti, result, trpc, req, path,
                   notif, nextId, created, sigs>>

(* The next mkdir() of the loop, or exit() after the last.  An ERRNO      *)
(* filter fails it with ENOTSUP; with no listener left the kernel fails it *)
(* with ENOSYS; otherwise it queues a notification and blocks.            *)
TargetMkdir ==
    /\ tgpc = "mkdir"
    /\ IF ti > Len(Paths)
       THEN /\ tgpc' = "exited"
            /\ UNCHANGED <<ti, result, notif, nextId>>
       ELSE CASE MkdirAction = "errno" ->
                   /\ result' = [result EXCEPT ![ti] = "enotsup"]
                   /\ ti' = ti + 1
                   /\ UNCHANGED <<tgpc, notif, nextId>>
              [] ~Listening ->
                   /\ result' = [result EXCEPT ![ti] = "enosys"]
                   /\ ti' = ti + 1
                   /\ UNCHANGED <<tgpc, notif, nextId>>
              [] OTHER ->
                   /\ notif' = [id |-> nextId, call |-> ti, state |-> "queued", result |-> "none"]
                   /\ nextId' = nextId + 1
                   /\ tgpc' = "blocked"
                   /\ UNCHANGED <<ti, result>>
    /\ UNCHANGED <<secondFilter, killTracer, ppc, sock, trpc, req, path,
                   created, sigs>>

(* The answer arrives: mkdir() returns the tracer's value or error. *)
TargetWake ==
    /\ tgpc = "blocked"
    /\ notif.state = "replied"
    /\ result' = [result EXCEPT ![ti] = notif.result]
    /\ ti' = ti + 1
    /\ notif' = NoNotif
    /\ tgpc' = "mkdir"
    /\ UNCHANGED <<secondFilter, killTracer, ppc, sock, trpc, req, path,
                   nextId, created, sigs>>

(* SIGINT while mkdir() waits: the handler runs, the notification is      *)
(* dropped, and mkdir() fails with EINTR or is restarted.                 *)
Interrupt ==
    /\ sigs < MaxSigs
    /\ tgpc = "blocked"
    /\ notif.state \in {"queued", "sent"}
    /\ sigs' = sigs + 1
    /\ notif' = NoNotif
    /\ tgpc' = "mkdir"
    /\ \/ result' = [result EXCEPT ![ti] = "eintr"] /\ ti' = ti + 1
       \/ UNCHANGED <<result, ti>>
    /\ UNCHANGED <<secondFilter, killTracer, ppc, sock, trpc, req, path,
                   nextId, created>>

(* tracerProcess(): recvfd(), close the socket pair. *)
TracerRecvFd ==
    /\ trpc = "recvfd"
    /\ sock
    /\ sock' = FALSE
    /\ trpc' = "recv"
    /\ UNCHANGED <<secondFilter, killTracer, ppc, tgpc, ti, result, req, path,
                   notif, nextId, created, sigs>>

(* SECCOMP_IOCTL_NOTIF_RECV blocks until a notification is queued. *)
TracerRecv ==
    /\ trpc = "recv"
    /\ notif.state = "queued"
    /\ req' = [id |-> notif.id, call |-> notif.call]
    /\ notif' = [notif EXCEPT !.state = "sent"]
    /\ trpc' = "read"
    /\ UNCHANGED <<secondFilter, killTracer, ppc, tgpc, ti, result, sock, path,
                   nextId, created, sigs>>

(* open(), lseek() and read() of /proc/PID/mem: the target's pathname     *)
(* argument, or, once the target has exited, an error or EOF and exit().  *)
TracerRead ==
    /\ trpc = "read"
    /\ IF tgpc = "exited"
       THEN trpc' = "exited" /\ UNCHANGED path
       ELSE trpc' = "reply" /\ path' = Paths[req.call]
    /\ UNCHANGED <<secondFilter, killTracer, ppc, tgpc, ti, result, sock, req,
                   notif, nextId, created, sigs>>

(* Answer with resp->error = 0 whatever the path, as a mutant. *)
AnswerAlwaysOk(id) ==
    /\ trpc = "reply"
    /\ created' = IF InTmp(path) /\ MkdirSucceeds(path) THEN created \cup {path} ELSE created
    /\ notif' = IF notif.id = id /\ notif.state = "sent"
                THEN [notif EXCEPT !.state = "replied", !.result = "ok"]
                ELSE notif
    /\ trpc' = IF path = <<"bye">> THEN "exited" ELSE "recv"
    /\ UNCHANGED <<secondFilter, killTracer, ppc, tgpc, ti, result, sock, req,
                   path, nextId, sigs>>

(* resp->id = req->id; mkdir() on the target's behalf under /tmp/, its  *)
(* result ignored and resp->error = 0, else -EPERM;                      *)
(* SECCOMP_IOCTL_NOTIF_SEND (ENOENT when the id is gone, only printed);  *)
(* exit after "/bye".                                                    *)
Answer(id) ==
    /\ trpc = "reply"
    /\ created' = IF InTmp(path) /\ MkdirSucceeds(path) THEN created \cup {path} ELSE created
    /\ LET answered == IF notif.id = id /\ notif.state = "sent"
                        THEN [notif EXCEPT !.state = "replied",
                                 !.result = IF InTmp(path) THEN "ok" ELSE "eperm"]
                        ELSE notif
       IN  IF path = <<"bye">>
           THEN trpc' = "exited" /\ notif' = Released(answered)
           ELSE trpc' = "recv" /\ notif' = answered
    /\ UNCHANGED <<secondFilter, killTracer, ppc, tgpc, ti, result, sock, req,
                   path, nextId, sigs>>

(* The reply with resp->id left from the previous notification, as a mutant. *)
TracerReplyStaleId == Answer(req.id - 1)

TracerReply == Answer(req.id)

(* ParentWaitTarget without the kill(), as a mutant. *)
ParentWaitTargetNoKill ==
    /\ ppc = "waittarget"
    /\ tgpc = "exited"
    /\ ppc' = "waittracer"
    /\ UNCHANGED <<secondFilter, killTracer, tgpc, ti, result, sock, trpc, req,
                   path, notif, nextId, created, sigs>>

(* main(): waitpid() for the target, then kill(SIGTERM) the tracer, or    *)
(* with -K waitpid() for it; exit.                                        *)
ParentWaitTarget ==
    /\ ppc = "waittarget"
    /\ tgpc = "exited"
    /\ IF killTracer
       THEN ppc' = "exited" /\ trpc' = "exited"
       ELSE ppc' = "waittracer" /\ UNCHANGED trpc
    /\ UNCHANGED <<secondFilter, killTracer, tgpc, ti, result, sock, req, path,
                   notif, nextId, created, sigs>>

ParentWaitTracer ==
    /\ ppc = "waittracer"
    /\ trpc = "exited"
    /\ ppc' = "exited"
    /\ UNCHANGED <<secondFilter, killTracer, tgpc, ti, result, sock, trpc, req,
                   path, notif, nextId, created, sigs>>

Target == TargetSetup \/ TargetMkdir \/ TargetWake
Tracer == TracerRecvFd \/ TracerRecv \/ TracerRead \/ TracerReply
Parent == ParentWaitTarget \/ ParentWaitTracer

Next == Target \/ Tracer \/ Parent \/ Interrupt

(* Each process runs whenever it can; SIGINT need not come. *)
Spec == Init /\ [][Next]_vars /\ WF_vars(Target) /\ WF_vars(Tracer) /\ WF_vars(Parent)

----------------------------------------------------------------------------

Results == {"none", "ok", "eperm", "enotsup", "enosys", "eintr"}

TypeOK ==
    /\ secondFilter \in {"none", "errno", "trace"}
    /\ killTracer \in BOOLEAN
    /\ ppc \in {"waittarget", "waittracer", "exited"}
    /\ tgpc \in {"setup", "mkdir", "blocked", "exited"}
    /\ ti \in 1 .. Len(Paths) + 1
    /\ result \in [Calls -> Results]
    /\ sock \in BOOLEAN
    /\ trpc \in {"recvfd", "recv", "read", "reply", "exited"}
    /\ req \in [id : 0 .. nextId, call : 0 .. Len(Paths)]
    /\ notif.state \in {"none", "queued", "sent", "replied"}
    /\ notif.id \in 0 .. nextId
    /\ created \subseteq {Paths[i] : i \in Calls}
    /\ sigs \in 0 .. MaxSigs

(* The header says the tracer creates the directory "on behalf of the     *)
(* target process": so the target sees mkdir() succeed exactly when the    *)
(* tracer created its directory.                                           *)
ResultMatchesEffect ==
    \A i \in Calls : result[i] # "none" => (result[i] = "ok" <=> Paths[i] \in created)

(* Every mkdir() returns: the target runs to exit(), however SIGINTs,     *)
(* restarts and a departed tracer interleave.                             *)
TargetFinishes == <>(tgpc = "exited")

(* Without -K the parent always exits: it kills the tracer once the       *)
(* target has gone.                                                       *)
ParentExits == killTracer => <>(ppc = "exited")

=============================================================================
