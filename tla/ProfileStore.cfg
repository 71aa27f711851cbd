\* The control centre and the console on one file.
SPECIFICATION Spec
CONSTANTS
    None = None
    Mids = {m1, m2}
    Iccids = {i1, i2}
    MaxEntries = 2
    Writers = {gui, mno}
INVARIANTS
    OneEnabledInFile
    MatchingIdsUnique
