\* Two sticks, pulled and inserted anywhere; power cuts anywhere.
SPECIFICATION Spec
CONSTANTS
    s1 = s1
    s2 = s2
    Sticks <- MCSticks
    PartitionOf <- MCPartitionOf
    Users <- MCUsers
    Administrator = 101010
    MaxChanges = 1
    Configs <- MCConfigs
    FirstFlash <- MCFirstFlash
    FirstMedia <- MCFirstMedia
    Keys <- MCKeys
    HeadingKeys <- MCHeadingKeys
    Values = {"Klok", "Kochi", "Innovations", "none"}
    Blank = Blank
    NoKey = NoKey
    EmptyLine = EmptyLine
    Torn = Torn
    Missing = Missing
    None = None
INVARIANTS
    SafeToRemove
    OnlyImportsHarm
    HeadingOK
PROPERTIES
    CopyIsDelivered
