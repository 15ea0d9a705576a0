SPECIFICATION Spec
CONSTANTS
    Total = 4
    MaxSize = 2
    MaxPages = 3
    Budget = 3
    MaxBody = 2
    MaxCalls = 3
    LinkForms <- EveryForm
    None = None
INVARIANTS NoGapNoRepeat ExhaustedIsComplete ResumesAtNextRecord
\* An extract stops once it has returned or raised.
CHECK_DEADLOCK FALSE
