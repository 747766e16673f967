\* A request is authorized once.
CHECK_DEADLOCK FALSE

CONSTANTS MaxOdd = 3  MaxChunks = 2
SPECIFICATION Spec
INVARIANTS SubscriptionOnly 
PROPERTIES WholeAnswer
