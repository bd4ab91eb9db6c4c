SPECIFICATION Spec
CONSTANTS
    e1 = e1
    e2 = e2
    e3 = e3
    t1 = t1
    t2 = t2
    NoTask = NoTask
    Entry <- ThreeEntries
    Task <- TwoTasks
    Life = 2
    MayThrow = {}
SYMMETRY Symmetry
PROPERTIES
    ImplementsOneShotTimer
