SPECIFICATION CallsSpec
INVARIANT DeadOnceTerminated
CHECK_DEADLOCK FALSE
