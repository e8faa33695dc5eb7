CONSTANTS
    p1 = p1
    p2 = p2
    u1 = u1
    u2 = u2
    t1 = t1
    t2 = t2
    Null = Null
    Empty = Empty
    Phones <- OnePhone
    Flaky = {}
    Callers <- MCCallers
    Users <- TwoUsers
    Devices <- OneDevice
    NullKey = 2
    Tasks <- OneTask
    Switches <- MCSwitches
    Operations <- SaveAndDelete
    Buttons <- NoButtons
SPECIFICATION Spec
PROPERTIES
    SavedIsMine
