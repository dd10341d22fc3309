SPECIFICATION FairListenerSpec
CONSTANT ReadyTarget = 2
INVARIANTS FreedAfterThreads
PROPERTIES SessionsReopen CloseDuringStartup
CHECK_DEADLOCK FALSE
