SPECIFICATION FairListenerSpec
CONSTANT ReadyTarget = 2
PROPERTY CloseEndsWait
CHECK_DEADLOCK FALSE
