\* Two operators and two requests at a time.
SPECIFICATION Spec
CONSTANTS
    o1 = o1
    o2 = o2
    r1 = r1
    r2 = r2
    e1 = e1
    e2 = e2
    i1 = i1
    i2 = i2
    small = small
    large = large
    Operators = {o1, o2}
    Handlers = {r1, r2}
    Events = {e1, e2}
    Installations = {i1, i2}
    Plans = {small, large}
    EventLimit <- MCEventLimit
    DeviceLimit <- MCDeviceLimit
    NoOne = NoOne
    NoPlan = NoPlan
    NoEvent = NoEvent
    Followed = {e1}
    LastMonth = 1
SYMMETRY Symmetric
INVARIANTS
    PlanTypeOK
    EventsKeepTheirStory
    RangesAreServed
PROPERTIES
    EventsFitThePlan
    DevicesFitThePlan
    InstallationsStay
    OnlyEditsGoBack
CHECK_DEADLOCK FALSE
