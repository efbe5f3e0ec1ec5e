\* Two reminders, one held, a pop, a restart.
SPECIFICATION FairSpec
CONSTANTS
    Reminder = {r1, r2}
    Pop = {p1}
    HeldAtStart = {r2}
    MaxPending = 2
    Limit = 2
    MaxCrashes = 1
INVARIANT EmittedOnce
INVARIANT PendingIsScheduled
PROPERTY QuietAfterCancel
PROPERTY Served
CHECK_DEADLOCK FALSE
