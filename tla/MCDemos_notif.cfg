\* seccomp_user_notification with SIGINTs: does the target's mkdir() result
\* always match what the tracer did?
SPECIFICATION Spec
INVARIANT ResultMatchesEffect
CHECK_DEADLOCK FALSE
