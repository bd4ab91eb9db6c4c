SPECIFICATION FairSpec
CONSTANTS
    e1 = e1
    e2 = e2
    e3 = e3
    t1 = t1
    t2 = t2
    NoTask = NoTask
    Entry <- ThreeEntries
    Task <- TwoTasks
    Life = 2
    MayThrow = {e1, e2, e3}
INVARIANTS
    TypeOK
    NoOverlappingPasses
    WorkHasDriver
    RunsOnceUnlessCut
PROPERTIES
    GoneStaysGone
    DisposeIsFinal
    RegisteredIsServed
    IdleMonitorStops
