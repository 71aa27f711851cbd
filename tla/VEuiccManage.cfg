\* Profile management: profiles come, are enabled, disabled and deleted.
SPECIFICATION Spec
CONSTANTS
    Iccid = Iccid
    Aid = Aid
    OtherId = OtherId
    None = None
    Tids = {t1}
    Mids = {m1}
    Challenges = {}
    OneTimeKeys = {}
    DpKeys = {}
    Pkgs = {g1}
    SegmentTags = {"88"}
    LengthForms = {"short", "header"}
    MaxProfiles = 3
    MaxChunks = 1
INVARIANTS
    TypeOK
    AtMostOneEnabled
PROPERTY
    ImplementsRegistry
