SPECIFICATION Spec
CONSTANTS
    Mutating = {"POST", "DELETE"}
    Idempotent = {"GET", "HEAD"}
    MaxRetries = 3
    MaxRetryAfter = 6
    MaxRetrySleep = 6
    MaxJitter = 1
    RetryAfters <- MCRetryAfters
    NoHeader = NoHeader
    NaN = NaN
INVARIANTS AppliedAtMostOnce SleepWithinBudget CredentialsCurrent GivenUpOnlyWhenSpent
\* A request stops once it has returned or raised.
CHECK_DEADLOCK FALSE
