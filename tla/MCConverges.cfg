CONSTANTS
    p1 = p1
    p2 = p2
    u1 = u1
    u2 = u2
    t1 = t1
    t2 = t2
    Null = Null
    Empty = Empty
    Phones <- TwoPhones
    Flaky <- OnePhone
    Callers <- MCCallers
    Users <- OneUser
    Devices <- OneDevice
    NullKey = 2
    Tasks <- OneTask
    Switches <- MCSwitches
    Operations <- WritesAndDelete
    Buttons <- NoButtons
SPECIFICATION SameUserFairSpec
INVARIANTS
    SettledCardsAreStored
PROPERTIES
    DashboardConverges
    LoaderCloses
