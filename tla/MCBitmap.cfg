CONSTANTS
    W = 3
    B = 3
    Masks <- MCWords
    Shifts <- MCShifts
SPECIFICATION Spec
INVARIANTS
    TypeOK
    ListsMembers
PROPERTY ImplementsBitSet
