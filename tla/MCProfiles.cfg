\* Profiles, each part alone.
SPECIFICATION Spec
CONSTANTS
    TableLen = 2
    Services = {1, 8, 9, 17}
    Elements = {"FilesAtMF", "FilesCD", "FilesTelecom", "FilesTelecomV2", "FilesUsimMandatory", "FilesUsimMandatoryV2", "FilesUsimOptional", "FilesUsimOptionalV2", "FilesUsimOptionalV3", "FilesUsimDfPhonebook", "FilesUsimDfGsmAccess", "FilesUsimDf5GS", "FilesUsimDf5GSv2", "FilesUsimDf5GSv3", "FilesUsimDf5GSv4", "FilesUsimDfSaip", "FilesDfSnpn", "FilesDf5GProSe", "FilesIsimMandatory", "FilesIsimOptional", "FilesIsimOptionalv2", "FilesEap"}
    MaxElements = 4
    MaxOps = 3
    MaxLen = 13
    Keys = {"k1"}
    Values = {"new"}
    Block = 2
    MaxSegment = 5
    Overhead = 3
    MaxProfile = 5
INVARIANTS
    EveryCardEquips
    EncodedAsDecoded
    ServicesAsAsked
    PlacedByTemplate
    FilledWhole
    IndexesAgree
    RoundTrip
    OnlyBeginnings
PROPERTIES
    NaaGone
CHECK_DEADLOCK FALSE
