\* What the text says of the store, against two writers.
SPECIFICATION Spec
CONSTANTS
    None = None
    Mids = {m1, m2}
    Iccids = {i1, i2}
    MaxEntries = 2
    Writers = {gui, mno}
PROPERTY
    EnabledNotDeleted
