\* The barrier demo, the four message-queue notification programs and the
\* seccomp user-notification demo, ns_capable, pdeath_signal,
\* thread_lock_speed, simple_init,
\* userns_child_exec, epoll_flags_fork, inotify_dtree's read loop,
\* seccomp_arg64, seccomp_multiarch, multithread_epoll_wait, cap_launcher,
\* seccomp_control_open, the deny/trap/logging/perf seccomp demonstrations
\* and seccomp_launch with dump_seccomp_filter.
SPECIFICATION Spec
INVARIANTS
    TypeOK
    SerialPerRound
    NoLostWakeup
    NeverBusy
    VerdictCorrect
    SubreaperAdopts
    ZombiesSignalled
    MapsBeforeExec
    EventsAccounted
    NonNegativeAsDocumented
    ChainFailsEachArch
    WakeCountAsDocumented
    LaunchedWithListedCaps
    OpensAsCommented
    DemosAsCommented
    RoundTripSameStack
PROPERTIES
    BarrierRefined
    BarrierFairRefined
    AllJoined
    MessagesConsumed
    TargetFinishes
    ParentExits
    ChildCreated
    UpdatesNotLost
    LockSpeedTerminates
    UsernsBothEnd
    EpollParentReturns
\* Every program may stop for good: the barrier demo exits, the others
\* wait for messages that no longer come.
CHECK_DEADLOCK FALSE
