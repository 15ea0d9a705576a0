SPECIFICATION Spec
CONSTANTS
    Total = 3
    PageLimits = {1, 2, 4}
    MaxBytes = 5
    Sizes = {1, 2, 3}
    None = None
    Retention = 2
    Budget = 1
    Delay = 1
INVARIANTS NoGapNoRepeat CompleteSaysComplete NothingPlain FilesThere
\* A call stops once it has answered or raised.
CHECK_DEADLOCK FALSE
