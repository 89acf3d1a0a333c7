SPECIFICATION FairSpec
CONSTANT Attempts = 4
CHECK_DEADLOCK FALSE
INVARIANTS TypeOK CleanUpIsSafe EndsOnlyWithoutBuffer
PROPERTIES GivingUpEnds
