SPECIFICATION CooperativeSpec
INVARIANTS SkipIsSound BelievedLockIsHeld NothingPending ReleasedWhenDestroyed
PROPERTY CallReturns
CHECK_DEADLOCK FALSE
