\* simple_init's init forks a command and then calls pause(), expecting the
\* SIGCHLD handler to interrupt it; the child can end, and the handler run,
\* before pause() is reached.
SPECIFICATION Spec
PROPERTY PromptReturns
CHECK_DEADLOCK FALSE
