SPECIFICATION Spec
CONSTANT MaxCalls = 3
INVARIANTS LateTouches ResultIsOwn RecordsReturned
CHECK_DEADLOCK FALSE
