SPECIFICATION Spec
CONSTANTS
    Dirs <- MCDirs
    Alias = "link"
    Layouts <- MCLayouts
    BadNames <- MCBadNames
    Default = "a"
    None = None
INVARIANTS
    PathsLeadToResource
    KeepAgrees
