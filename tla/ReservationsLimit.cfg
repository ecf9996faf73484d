SPECIFICATION Spec
CONSTANTS
    m1 = m1
    m2 = m2
    None = None
    Messages = {m1, m2}
    ReserveFor = 1
    ReservationCost = 1
    StashCost = 1
    MailboxThreshold = 1
    MaxReservations = 1
    GasLimit = 10
    Amounts = {3}
    Durations = {1}
    MaxNonce = 2
    MaxSends = 2
    MaxBlock = 3
INVARIANT StoredIsBounded
SYMMETRY MessageSymmetry
