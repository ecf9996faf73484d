SPECIFICATION Spec
CONSTANTS
    NodeIds = {n1, n2, n3, n4}
    Origins = {alice}
    LockIds = {"waitlist"}
    NoNode = NoNode
    NoOrigin = NoOrigin
    MaxBalance = 2
SYMMETRY Symmetry
INVARIANTS
    LineageStands
    RefsMatchChildren
    ConsumedServesChildren
    TotalIsHeld
    LoopsAgree
