\* One transaction, two one-time key pairs of the card, two points of the server.
SPECIFICATION Spec
CONSTANTS
    Iccid = Iccid
    Aid = Aid
    OtherId = OtherId
    None = None
    Tids = {t1}
    Mids = {m1}
    Challenges = {c1}
    OneTimeKeys = {k1, k2}
    DpKeys = {d1, d2}
    Pkgs = {g1}
    SegmentTags = {"88"}
    LengthForms = {"long"}
    MaxProfiles = 1
    MaxChunks = 1
PROPERTIES
    KeysFollow
