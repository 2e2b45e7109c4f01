CONSTANTS
    a = a
    b = b
    Capacity = 6
    RecordMax = 3
    Tags <- MCTags
    Garbage <- MCGarbage
SPECIFICATION Spec
INVARIANTS TypeOK WindowCoversTail HeadIsWhole
PROPERTIES NoOverwrite ImplementsStepQueue
