SPECIFICATION Spec
CONSTANTS
    Procs = {p1, p2, p3}
    Pairs = {a, b}
    NoFile = NoFile
    NoProc = NoProc
    NoOp = NoOp
    NoStage = NoStage
    NoPair = NoPair
    Mixed = Mixed
INVARIANTS FlagNotLost
PROPERTIES UnforcedNeverReplaces KeepsPromise
SYMMETRY Symmetry
