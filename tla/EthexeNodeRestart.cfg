\* Two codes, a line of two Ethereum blocks under a chain of two MBs, of which the
\* node stores two or one and a sibling, and a fork of four blocks without MBs; one crash.
SPECIFICATION Spec
CONSTANTS
    c = c
    d = d
    Codes = {c, d}
    Trees <- MCTrees
    Decisions <- MCDecisions
    MaxMbs = 2
    MaxRestarts = 1
    None = None
INVARIANT ComputeIsTriggered
CHECK_DEADLOCK FALSE
