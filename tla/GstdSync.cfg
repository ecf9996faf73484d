SPECIFICATION SyncSpec
CONSTANTS
    None = None
    Messages = {m1, m2, m3}
    Durations = {1}
    WaitUpTo = 2
    ReadersLimit = 2
INVARIANTS GuardMeansOwner WriterIsAlone ReadersAreCounted
PROPERTIES EveryMutexMessageEnds EveryRwRequestEnds
