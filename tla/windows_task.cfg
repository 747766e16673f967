\* A job that is removed leaves nothing to do.
CHECK_DEADLOCK FALSE

SPECIFICATION FairSpec
PROPERTIES AcceptedIsWanted KeepsContract OthersKept RetriedRemovalFinishes
