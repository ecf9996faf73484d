SPECIFICATION BankSpec
CONSTANTS
    NodeIds = {n1, n2, n3}
    Accounts = {alice, bob}
    Prices = {1, 2}
    Origins <- MCOrigins
    LockIds = {"waitlist"}
    NoNode = NoNode
    NoOrigin = NoOrigin
    MaxBalance = 2
SYMMETRY Symmetry
INVARIANTS
    DepositsMatchGas
