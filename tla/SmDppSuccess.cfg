\* What the text says of the server, against what the code does.
SPECIFICATION Spec
CONSTANTS
    None = None
    Garbage = Garbage
    Corrupt = Corrupt
    Tids = {t1}
    AllDigit = {t1}
    Euiccs = {e1}
    Mids = {m1}
    Iccids = {i1}
    Sigs = {s1}
    Otpks = {k1}
    DpKeys = {d1}
    InMemory = FALSE
    MaxRecords = 2
PROPERTY
    SuccessIsRecorded
