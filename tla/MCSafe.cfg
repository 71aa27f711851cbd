\* Parts that keep two records of one thing, each alone.
SPECIFICATION Spec
CONSTANTS
    Octets = {1, 255}
    Size = 3
    RecLen = 2
    MaxCmdLen = 2
    MaxData = 3
    Cards = {c1, c2}
    Types = {"magicsim", "fakemagicsim", "grcardsim", "sysmousim-gr1", "sysmosim-gr2", "sysmousim-sjs1", "fairwaves", "opencells", "wavemobile", "sja2", "gialersim"}
    MaxNum = 2
    MaxDeaths = 1
    None = None
    Lengths = {0, 100, 239, 255}
    Contents = {1, 240, 500}
    MaxSessions = 2
    MaxMac = 4
    Mids = {"m1", "m2"}
    Demo = {"m2"}
    MaxLog = 2
    MaxStarts = 2
    MaxFaults = 1
    MaxAnswer = 5
    Block = 2
    MaxPro = 3
    HasHandler = TRUE
SYMMETRY Symmetry
INVARIANTS
    TrueOutcome
    ObjectWhole
    GoodComplete
    NumbersUnique
    InStep
    ExecutedAsAsked
    OnlyInstalled
    AnswerWhole
    AllAnswered
    NothingLeftRunning
PROPERTIES
    SyncComplete
CHECK_DEADLOCK FALSE
