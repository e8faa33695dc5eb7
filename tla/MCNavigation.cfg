CONSTANTS
    c1 = c1
    c2 = c2
    Null = Null
    Calls <- TwoCalls
    Visits = {"Signin", "Signup", "Reset", "DeviceForm", "Commands", "Settings", "Schedule", "ScheduleForm"}
    MaxDepth = 5
SPECIFICATION FairSpec
INVARIANTS
    TypeOK
    LoaderOnTop
PROPERTIES
    LostBy
    SuccessIsSeen
    ScreenFrees
    FlowSpec
