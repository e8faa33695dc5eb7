CONSTANTS
    p1 = p1
    Null = Null
    Phones <- OnePhone
    TwentyFour <- NoPhones
    DeviceCount = 2
    MinuteCount = 2
    MaxCalls = 2
SPECIFICATION Spec
INVARIANTS
    TypeOK
    DueOpened
    LastChoiceWins
    TimeShown
