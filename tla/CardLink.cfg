\* Three lpac processes, commands of up to three segments.
SPECIFICATION LiveSpec
CONSTANTS
    None = None
    Procs = {p1, p2, p3}
    MaxCmds = 2
    MaxSegs = 3
INVARIANTS
    WholeCommands
    NoneRefused
PROPERTY
    EveryoneEnds
