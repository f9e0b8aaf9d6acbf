------------------------------ MODULE CapLauncher ------------------------------
(***************************************************************************)
(* src/cap/cap_launcher.c (with modifyCapSetting() of cap_functions.c):    *)
(* run as root, set SECBIT_NO_SETUID_FIXUP, switch to a user's             *)
(* credentials, raise each named capability in the inheritable and then   *)
(* the ambient set, and exec a command.  The kernel's rules are those of   *)
(* capabilities(7): setresuid() from UID 0 to nonzero UIDs clears the      *)
(* permitted, effective and ambient sets unless SECBIT_NO_SETUID_FIXUP is  *)
(* set; capset() may add to the inheritable set only capabilities that are *)
(* in it already or in both the permitted and the bounding set, and drops  *)
(* from the ambient set what is no longer permitted and inheritable;       *)
(* PR_CAP_AMBIENT_RAISE needs the capability permitted and inheritable;    *)
(* execve() of a file without capabilities or set-user-ID gives the new    *)
(* program its ambient set as permitted and effective set, or, for UID 0,  *)
(* the bounding set and inheritable set as well.  Group IDs and output are *)
(* left out; the command is taken to exist.                                *)
(***************************************************************************)
EXTENDS Naturals, Sequences

CONSTANTS
    Caps,       \* capabilities
    Names,      \* capability names on the command line; some unknown
    CapOf,      \* cap_from_name(): the capability a known name stands for
    Users,      \* user names; some not in the user database
    UidOf,      \* getpwnam(): pw_uid of a known user
    CapLists,   \* argv[2]: comma-separated names, as sequences
    Bsets       \* bounding sets the launcher may start with

VARIABLES
    invoker,    \* input: the effective UID it is run with
    user,       \* input: argv[1]
    list,       \* input: argv[2]
    bset,       \* input: the bounding set
    uid,        \* real, effective and saved UID
    fixup,      \* SECBIT_NO_SETUID_FIXUP is clear
    P, E, I, A, \* permitted, effective, inheritable, ambient sets
    pos,        \* the next name of the strtok() loop
    pc,         \* "root", "securebits", "creds", "raise", "exited"
    status      \* "running", "failure", "execd"

vars == <<invoker, user, list, bset, uid, fixup, P, E, I, A, pos, pc, status>>

Known == DOMAIN CapOf
Fail == pc' = "exited" /\ status' = "failure"

Init ==
    /\ invoker \in {0, 1000} /\ user \in Users /\ list \in CapLists /\ bset \in Bsets
    /\ uid = invoker /\ fixup = TRUE
    /\ P = (IF invoker = 0 THEN bset ELSE {})
    /\ E = P /\ I = {} /\ A = {}
    /\ pos = 1 /\ pc = "root" /\ status = "running"

(* main(): usage() exits on "--help" (the argument count is taken to be *)
(* right); fatal("Must be run as root") unless geteuid() is 0.          *)
CheckRoot ==
    /\ pc = "root"
    /\ IF user # "--help" /\ uid = 0 THEN pc' = "securebits" /\ UNCHANGED status ELSE Fail
    /\ UNCHANGED <<invoker, user, list, bset, uid, fixup, P, E, I, A, pos>>

(* The prctl() left out, as a mutant. *)
SetSecurebitsKeepFixup ==
    /\ pc = "securebits"
    /\ pc' = "creds"
    /\ UNCHANGED <<invoker, user, list, bset, uid, fixup, P, E, I, A, pos, status>>

(* prctl(PR_SET_SECUREBITS, SECBIT_NO_SETUID_FIXUP); root holds the      *)
(* CAP_SETPCAP it needs.                                                 *)
SetSecurebits ==
    /\ pc = "securebits"
    /\ fixup' = FALSE /\ pc' = "creds"
    /\ UNCHANGED <<invoker, user, list, bset, uid, P, E, I, A, pos, status>>

(* setCredentials(): getpwnam() (an unknown user ends the program),      *)
(* setgroups(), setresgid(), then setresuid() to the user's UID, which   *)
(* clears P, E and A when the fix-up is on and the UIDs leave 0.          *)
SetCredentials ==
    /\ pc = "creds"
    /\ IF user \notin DOMAIN UidOf THEN Fail /\ UNCHANGED <<uid, P, E, A>>
       ELSE /\ uid' = UidOf[user]
            /\ IF fixup /\ uid = 0 /\ UidOf[user] # 0
               THEN P' = {} /\ E' = {} /\ A' = {}
               ELSE UNCHANGED <<P, E, A>>
            /\ pc' = "raise" /\ UNCHANGED status
    /\ UNCHANGED <<invoker, user, list, bset, fixup, I, pos>>

(* modifyCapSetting(CAP_INHERITABLE, cap, CAP_SET): cap_get_proc(),      *)
(* cap_set_flag() and cap_set_proc(), which the kernel refuses with      *)
(* EPERM if cap is not already inheritable or permitted and bounded.     *)
InheritableOk(cap) == cap \in I \/ cap \in P \cap bset

(* One name of setAmbientCapabilities(): cap_from_name(), raise the      *)
(* inheritable capability, then PR_CAP_AMBIENT_RAISE, which needs it     *)
(* permitted as well; any failure exits.  capset() keeps the ambient set *)
(* as it is, since P does not change and I only grows.                  *)
RaiseOne ==
    /\ pc = "raise"
    /\ pos <= Len(list)
    /\ LET name == list[pos] IN
       IF name \notin Known \/ ~InheritableOk(CapOf[name]) THEN Fail /\ UNCHANGED <<I, A, pos>>
       ELSE LET cap == CapOf[name] IN
            /\ I' = I \cup {cap}
            /\ IF cap \in P THEN A' = A \cup {cap} /\ pos' = pos + 1 /\ UNCHANGED <<pc, status>>
               ELSE Fail /\ UNCHANGED <<A, pos>>
    /\ UNCHANGED <<invoker, user, list, bset, uid, fixup, P, E>>

(* execvp(argv[3]): the command starts with its ambient set as permitted *)
(* and effective set, or, for UID 0, with the bounding and inheritable   *)
(* sets as well.                                                          *)
Exec ==
    /\ pc = "raise"
    /\ pos > Len(list)
    /\ P' = IF uid = 0 THEN bset \cup I \cup A ELSE A
    /\ E' = P'
    /\ pc' = "exited" /\ status' = "execd"
    /\ UNCHANGED <<invoker, user, list, bset, uid, fixup, I, A, pos>>

Next == CheckRoot \/ SetSecurebits \/ SetCredentials \/ RaiseOne \/ Exec

Spec == Init /\ [][Next]_vars /\ WF_vars(Next)

----------------------------------------------------------------------------

TypeOK ==
    /\ invoker \in {0, 1000} /\ user \in Users /\ list \in CapLists /\ bset \in Bsets
    /\ uid \in {0, 1000} \cup {UidOf[u] : u \in DOMAIN UidOf}
    /\ fixup \in BOOLEAN
    /\ {P, E, I, A} \subseteq SUBSET Caps
    /\ pos \in 1 .. Len(list) + 1
    /\ pc \in {"root", "securebits", "creds", "raise", "exited"}
    /\ status \in {"running", "failure", "execd"}

Listed == {CapOf[list[i]] : i \in {j \in 1 .. Len(list) : list[j] \in Known}}

(* The header comment: launched by root for a user other than root, with *)
(* names libcap knows and the bounding set holds, the command runs with  *)
(* the user's UID and exactly the listed capabilities permitted,         *)
(* effective and ambient, after a sequence of credential and capability *)
(* changes each of which could drop them.                                 *)
LaunchedWithListedCaps ==
    /\ pc = "exited"
    /\ invoker = 0 /\ user \in DOMAIN UidOf /\ UidOf[user] # 0
    /\ \A i \in 1 .. Len(list) : list[i] \in Known
    /\ Listed \subseteq bset
    => /\ status = "execd" /\ uid = UidOf[user]
       /\ P = Listed /\ E = Listed /\ A = Listed

=============================================================================
