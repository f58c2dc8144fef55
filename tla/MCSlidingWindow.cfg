SPECIFICATION FairSpec
CONSTANTS
    Limit = 4
    Length = 5
    MaxIdle = 11
    MaxDelay = 2
    None = None
INVARIANTS
    TypeOK
    NoDoubleBurst
    RetryHonestWhenCarried
PROPERTIES
    DeniedIsServed
