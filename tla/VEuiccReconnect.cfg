\* What the text says of the card, against what the code does.
SPECIFICATION Spec
CONSTANTS
    Iccid = Iccid
    Aid = Aid
    OtherId = OtherId
    None = None
    Tids = {t1}
    Mids = {m1, m2}
    Challenges = {}
    OneTimeKeys = {}
    DpKeys = {}
    Pkgs = {g1}
    SegmentTags = {"88"}
    LengthForms = {"short", "header"}
    MaxProfiles = 3
    MaxChunks = 1
PROPERTY
    ProfilesSurviveReconnect
