------------------------------ MODULE NsCapable ------------------------------
(***************************************************************************)
(* src/namespaces/ns_capable.c: decide whether process PID may have        *)
(* capabilities in a namespace.  main() opens the namespace file (and,     *)
(* for a non-user namespace, its owning user namespace), opens            *)
(* /proc/PID/ns/user, and either finds the two equal or walks up the      *)
(* target's ancestors with NS_GET_PARENT (is_ancestor_userns()); then it  *)
(* prints a verdict and closes its descriptors.                           *)
(*                                                                         *)
(* The descriptor table is modelled because the program closes and       *)
(* compares descriptors by number: open() and ioctl() return the lowest   *)
(* free number (POSIX), so a closed number comes back for the next        *)
(* namespace.  The namespace hierarchy, owners and the process's euid are *)
(* constants and inputs; output is left out.                              *)
(***************************************************************************)
EXTENDS Integers

CONSTANTS
    UserNs,     \* user namespaces
    OtherNs,    \* namespaces of other types
    Parent,     \* parent of each user namespace, NoParent for the initial one
    Owner,      \* owner UID of each user namespace (NS_GET_OWNER_UID)
    OwnerNs,    \* owning user namespace of each other namespace
    Uids,       \* effective UIDs the process may have
    FdNums      \* descriptor numbers above stderr the program may get

NoParent == "none"
Closed == "closed"

VARIABLES
    pidNs,          \* input: the user namespace of PID
    euid,           \* input: the effective UID in /proc/PID/status
    target,         \* input: the namespace named by argv[2]
    fds,            \* the descriptor table
    targetUserns,   \* main()'s target_userns
    pidUserns,      \* main()'s pid_userns
    child,          \* is_ancestor_userns()'s child
    desc,           \* its result, desc_userns (-1: not an ancestor)
    verdict,        \* "own", "all" or "none" capabilities; "unknown" before
    status,         \* "running", "success" or "failure" (errExit)
    pc

vars == <<pidNs, euid, target, fds, targetUserns, pidUserns, child, desc,
          verdict, status, pc>>

(* The number open() or ioctl() returns: the lowest free one. *)
Lowest(t) == CHOOSE f \in FdNums : t[f] = Closed /\ \A g \in FdNums : g < f => t[g] # Closed

(* ns_equal(): two descriptors refer to the same namespace. *)
NsEqual(f1, f2) == fds[f1] = fds[f2]

(* uid_of_userns_owner(): NS_GET_OWNER_UID of a user namespace descriptor. *)
OwnerUid(f) == Owner[fds[f]]

(* close() of a descriptor, then on to 'next' (exit(EXIT_SUCCESS) after  *)
(* the last); EBADF on one that is not open ends the program through     *)
(* errExit().                                                             *)
CloseFd(f, next) ==
    IF fds[f] = Closed
    THEN status' = "failure" /\ pc' = "exited" /\ UNCHANGED fds
    ELSE /\ fds' = [fds EXCEPT ![f] = Closed]
         /\ pc' = next
         /\ status' = IF next = "exited" THEN "success" ELSE status

Init ==
    /\ pidNs \in UserNs
    /\ euid \in Uids
    /\ target \in UserNs \cup OtherNs
    /\ fds = [f \in FdNums |-> Closed]
    /\ targetUserns = -1
    /\ pidUserns = -1
    /\ child = -1
    /\ desc = -1
    /\ verdict = "unknown"
    /\ status = "running"
    /\ pc = "opentarget"

(* open(argv[2]); a user namespace is the target user namespace itself, *)
(* otherwise NS_GET_USERNS gives its owner and target_ns is closed.      *)
OpenTarget ==
    /\ pc = "opentarget"
    /\ LET f == Lowest(fds)
           t1 == [fds EXCEPT ![f] = target]
           g == Lowest(t1)
       IN  IF target \in UserNs
           THEN fds' = t1 /\ targetUserns' = f
           ELSE fds' = [t1 EXCEPT ![g] = OwnerNs[target], ![f] = Closed]
                /\ targetUserns' = g
    /\ pc' = "openpid"
    /\ UNCHANGED <<pidNs, euid, target, pidUserns, child, desc, verdict, status>>

(* open("/proc/PID/ns/user"). *)
OpenPid ==
    /\ pc = "openpid"
    /\ pidUserns' = Lowest(fds)
    /\ fds' = [fds EXCEPT ![Lowest(fds)] = pidNs]
    /\ pc' = "compare"
    /\ UNCHANGED <<pidNs, euid, target, targetUserns, child, desc, verdict, status>>

(* ns_equal(pid_userns, target_userns): PID is in the target namespace, *)
(* or is_ancestor_userns() starts with child = fd_y.                    *)
Compare ==
    /\ pc = "compare"
    /\ IF NsEqual(pidUserns, targetUserns)
       THEN verdict' = "own" /\ pc' = "closetarget" /\ UNCHANGED child
       ELSE child' = targetUserns /\ pc' = "walk" /\ UNCHANGED verdict
    /\ UNCHANGED <<pidNs, euid, target, fds, targetUserns, pidUserns, desc, status>>

(* Walk testing child rather than its parent against fd_x, as a mutant. *)
WalkTestsChild ==
    /\ pc = "walk"
    /\ LET n == fds[child]
           p == Lowest(fds)
       IN  IF n = fds[pidUserns]
           THEN desc' = child /\ pc' = "verdict" /\ UNCHANGED <<fds, child>>
           ELSE IF Parent[n] = NoParent
           THEN desc' = -1 /\ pc' = "verdict" /\ UNCHANGED <<fds, child>>
           ELSE /\ fds' = [fds EXCEPT ![p] = Parent[n], ![child] = Closed]
                /\ child' = p
                /\ UNCHANGED <<desc, pc>>
    /\ UNCHANGED <<pidNs, euid, target, targetUserns, pidUserns, verdict, status>>

(* One iteration of is_ancestor_userns(): NS_GET_PARENT (EPERM at the    *)
(* initial namespace: return -1); if the parent is fd_x, close it and    *)
(* return child; else close(child) and go up.                            *)
Walk ==
    /\ pc = "walk"
    /\ LET n == fds[child]
           p == Lowest(fds)
       IN  IF Parent[n] = NoParent
           THEN desc' = -1 /\ pc' = "verdict" /\ UNCHANGED <<fds, child>>
           ELSE IF Parent[n] = fds[pidUserns]
           THEN desc' = child /\ pc' = "verdict" /\ UNCHANGED <<fds, child>>
           ELSE /\ fds' = [fds EXCEPT ![p] = Parent[n], ![child] = Closed]
                /\ child' = p
                /\ UNCHANGED <<desc, pc>>
    /\ UNCHANGED <<pidNs, euid, target, targetUserns, pidUserns, verdict, status>>

(* The verdict: no capabilities, or all of them when euid_of_process()    *)
(* equals uid_of_userns_owner(desc_userns), else those in its sets; then  *)
(* close desc_userns unless it is numerically target_userns.              *)
Verdict ==
    /\ pc = "verdict"
    /\ verdict' = IF desc = -1 THEN "none"
                  ELSE IF euid = OwnerUid(desc) THEN "all" ELSE "own"
    /\ IF desc # -1 /\ desc # targetUserns
       THEN CloseFd(desc, "closetarget")
       ELSE pc' = "closetarget" /\ UNCHANGED <<fds, status>>
    /\ UNCHANGED <<pidNs, euid, target, targetUserns, pidUserns, child, desc>>

(* close(target_userns), then close(pid_userns) and exit(EXIT_SUCCESS). *)
CloseTarget ==
    /\ pc = "closetarget"
    /\ CloseFd(targetUserns, "closepid")
    /\ UNCHANGED <<pidNs, euid, target, targetUserns, pidUserns, child, desc, verdict>>

ClosePid ==
    /\ pc = "closepid"
    /\ CloseFd(pidUserns, "exited")
    /\ UNCHANGED <<pidNs, euid, target, targetUserns, pidUserns, child, desc, verdict>>

Next == OpenTarget \/ OpenPid \/ Compare \/ Walk \/ Verdict \/ CloseTarget \/ ClosePid

Spec == Init /\ [][Next]_vars /\ WF_vars(Next)

----------------------------------------------------------------------------

TypeOK ==
    /\ pidNs \in UserNs
    /\ euid \in Uids
    /\ target \in UserNs \cup OtherNs
    /\ fds \in [FdNums -> UserNs \cup OtherNs \cup {Closed}]
    /\ {targetUserns, pidUserns, child, desc} \subseteq FdNums \cup {-1}
    /\ verdict \in {"unknown", "own", "all", "none"}
    /\ status \in {"running", "success", "failure"}
    /\ pc \in {"opentarget", "openpid", "compare", "walk", "verdict",
              "closetarget", "closepid", "exited"}

(* The kernel's rule (cap_capable() in security/commoncap.c), written as  *)
(* its own upward walk from the target's user namespace: PID has the      *)
(* capabilities of its sets in its own namespace, all capabilities in a   *)
(* namespace whose parent is PID's and whose owner is PID's euid (and in  *)
(* everything below it), and none outside its namespace's subtree.        *)
RECURSIVE CapCapable(_)
CapCapable(ns) ==
    CASE ns = pidNs                                  -> "own"
      [] Parent[ns] = pidNs /\ Owner[ns] = euid      -> "all"
      [] Parent[ns] = NoParent                       -> "none"
      [] OTHER                                       -> CapCapable(Parent[ns])

TargetUserNs == IF target \in UserNs THEN target ELSE OwnerNs[target]

(* The verdict the program prints is the kernel's: whatever the depth of *)
(* the hierarchy and however descriptor numbers are reused along the     *)
(* walk, is_ancestor_userns() stops at the namespace whose owner decides. *)
VerdictCorrect == verdict # "unknown" => verdict = CapCapable(TargetUserNs)

(* After printing its verdict the program closes what it opened and      *)
(* exits with EXIT_SUCCESS: no close() in main() meets EBADF.             *)
ExitsSuccessfully == pc = "exited" => status = "success"

=============================================================================
