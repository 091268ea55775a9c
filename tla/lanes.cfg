SPECIFICATION FairSpec
CONSTANTS
    Clients = {c1, c2, c3}
    Commands = {"GET", "LOCK"}
    MainWorkers = 1
    MainDepth = 1
    SideWorkers = 1
    SideDepth = 1
INVARIANTS
    SideLanesNeverWait
    OnePlaceEach
PROPERTIES
    ControlAnswered
    EveryConnectionAccepted
