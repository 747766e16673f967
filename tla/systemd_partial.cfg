CONSTANT CutsWrites = TRUE

SPECIFICATION FairSpec
PROPERTIES PartialUnitsRemoved
