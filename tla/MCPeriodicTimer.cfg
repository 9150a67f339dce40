SPECIFICATION FairSpec
CONSTANT Callers = {engine, other}
INVARIANT TypeOK
INVARIANT QuietAfterCancel
INVARIANT ReportsTheWinner
PROPERTY ImplementsContract
PROPERTY CancelReturns
CHECK_DEADLOCK FALSE
