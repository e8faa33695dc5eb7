CONSTANTS
    p1 = p1
    p2 = p2
    u1 = u1
    u2 = u2
    t1 = t1
    t2 = t2
    Null = Null
    Empty = Empty
    Phones <- OnePhone
    Flaky = {}
    Callers <- MCCallers
    Users <- TwoUsers
    Devices <- OneDevice
    NullKey = 2
    Tasks <- TwoTasks
    Switches <- MCSwitches
    Operations <- SaveAndDelete
    Buttons <- OpenOnly
SPECIFICATION Spec
SYMMETRY Symmetry
INVARIANTS
    TypeOK
    OwnedComplete
    LoaderHasOneHolder
    EachCallHasItsRequest
PROPERTIES
    StoreSpec
    SuccessMeansApplied
