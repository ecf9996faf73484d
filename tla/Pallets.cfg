SPECIFICATION PalletsSpec
CONSTANTS
    None = None
    \* The message queue
    Ids = {m1, m2, m3, m4}
    MaxDequeued = 3
    \* The bank, with two accounts, one of them the treasury
    Accounts = {alice, treasury}
    Treasury = treasury
    ED = 2
    Multiplier = 2
    Issuance = 4
    MaxAmount = 2
    \* The bridge, with one user and one account of governance
    Users = {user}
    Governance = {admin}
    QueueCapacity = 2
    SessionLength = 2
    Fees = {0, 1}
    Funds = 1
    MaxBlock = 5
    MaxNonce = 5
INVARIANTS IsChain Solvent NoFault RootIsQueue NoncesIdentifyQueue OldSetIsCleared
PROPERTIES HandledInOrder FeesAreSettled ResetIsProved
