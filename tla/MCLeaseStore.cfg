CONSTANTS
    Resource = {r1}
    Owner = {o1, o2}
    MaxTTL = 2
    MaxToken = 4
SPECIFICATION Spec
INVARIANTS
    TypeOK
    FenceUnique
PROPERTIES
    NeverCurrentAgain
    WritesInFenceOrder
    
