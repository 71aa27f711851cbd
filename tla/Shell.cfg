\* Two channels, one unknown DF.
SPECIFICATION Spec
CONSTANTS
    EfIds = {"6f07", "6f3a"}
    DfIds = {"7f20", "7f10", "5f3c"}
    Apps = {"usim", "aram"}
    AppsWithFs = {"usim"}
    HostFiles <- MCHostFiles
    CardFiles <- MCCardFiles
    Channels = {0, 1}
    MaxKnown = 9
    None = None
INVARIANTS
    Coherent
    NoStrayWrite
    NeverTrapped
