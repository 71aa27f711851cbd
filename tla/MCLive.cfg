\* Parts whose liveness is checked, each alone.
SPECIFICATION Spec
CONSTANTS
    MaxAnswer = 5
    Block = 2
    MaxPro = 3
    HasHandler = TRUE
    Mids = {"m1", "m2"}
    Demo = {}
    MaxLog = 2
    MaxStarts = 1
    MaxFaults = 1
    Writers = {w1}
    StoreMids = {m1, m2, m3}
    Iccids = {i1, i2}
    None = None
    MaxEntries = 3
PROPERTIES
    Ends
    ShownInTheEnd
    DownloadEnds
    EnabledNotDeleted
    LeavesByDelete
CHECK_DEADLOCK FALSE
