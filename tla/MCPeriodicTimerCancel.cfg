SPECIFICATION FairSpec
CONSTANT Callers = {engine, other}
INVARIANT NotExecutingAfterCancel
CHECK_DEADLOCK FALSE
