CONSTANTS
    Environments <- MCEnvironments
    Builds <- MCBuilds
    Seeds = {s1, s2}
    Visitors <- MCVisitors
SPECIFICATION MCSpec
INVARIANTS StartsExactly NumbersRead SchemaSound NamesAreUnique HalfMadeExplained
PROPERTY ComesUp
CHECK_DEADLOCK FALSE
