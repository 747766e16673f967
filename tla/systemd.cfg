CONSTANT CutsWrites = TRUE

SPECIFICATION FairSpec
INVARIANTS TypeOK
PROPERTIES KeepsContract OthersKept RetriedRemovalFinishes
