CONSTANTS
    p1 = p1
    p2 = p2
    u1 = u1
    u2 = u2
    Null = Null
    Empty = Empty
    Phones <- TwoPhones
    Flaky <- TwoPhones
    Callers = {"bulk"}
    Users <- TwoUsers
    Devices <- TwoDevices
    Buttons <- TwoButtons
SPECIFICATION FairCommandsSpec
INVARIANTS
    CommandsTypeOK
    LoopInvariant
    NoDeviceSkipped
PROPERTIES
    SuccessMeansApplied
    LoaderCloses
