SPECIFICATION Spec
CONSTANTS
    m1 = m1
    m2 = m2
    None = None
    Messages = {m1, m2}
    ReserveFor = 1
    WaitlistCost = 1
    MailboxCost = 1
    StashCost = 1
    MailboxThreshold = 2
    MaxBlock = 3
    GasLimits = {0, 2, 6}
    Delays = {1, 2}
    Burns = {1}
INVARIANTS NoUnreachable OnePlace GasHasOwner HoldsAreScheduled RentIsPrepaid
PROPERTY NoTaskLeftBehind
SYMMETRY MessageSymmetry
