CONSTANTS
    Capacity = 4
    Roots = {r1, r2, r3}
SPECIFICATION Spec
INVARIANTS
    TypeOK
    AcceptsTheQueue
PROPERTY ImplementsQueue
