\* Two sessions, two eUICCs, one package, crashes and restarts.
SPECIFICATION Spec
CONSTANTS
    None = None
    Garbage = Garbage
    Corrupt = Corrupt
    Tids = {t1, t2}
    AllDigit = {t1}
    Euiccs = {e1, e2}
    Mids = {m1}
    Iccids = {i1}
    Sigs = {s1, s2}
    Otpks = {k1}
    DpKeys = {d1, d2}
    InMemory = FALSE
    MaxRecords = 2
INVARIANTS
    HistoryAuthentic
    BoundIsRecorded
PROPERTY
    HistoryKept
SYMMETRY Symmetry
