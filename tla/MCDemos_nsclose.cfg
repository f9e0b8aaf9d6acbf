\* ns_capable: does it exit with EXIT_SUCCESS after printing its verdict,
\* whatever the depth of the namespace walk?
SPECIFICATION Spec
INVARIANT ExitsSuccessfully
CHECK_DEADLOCK FALSE
