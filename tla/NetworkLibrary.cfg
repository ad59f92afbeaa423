\* The networking library in any program: numbers, flags and the kill event.
SPECIFICATION FairSpec
CONSTANTS
    Sock = {s1, s2}
    Fd = {3, 4, 5}
INVARIANTS TypeOK OpenOwnsNumber WaitThrowsHasCause LostNumberHasCause
PROPERTIES HandlerCanRead KillEndsWait ReadyIsHandled
CHECK_DEADLOCK FALSE
