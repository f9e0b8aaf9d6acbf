\* seccomp_arg64: does the filter fail lseek() for exactly the offsets
\* greater than 1000, as the header says, negative offsets included?
SPECIFICATION Spec
INVARIANT FilterAsDocumented
CHECK_DEADLOCK FALSE
