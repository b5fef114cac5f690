SPECIFICATION ProviderSpec
CONSTANTS
    ProviderRetries = 1
    MaxWrites = 3
INVARIANT RetriesAreServed
CHECK_DEADLOCK FALSE
