SPECIFICATION Spec
CONSTANTS
    Top = 0
    Ignored = {5}
    ScanDepth = 2
    MaxChanges = 1
    whole = whole
    alias = alias
    nested = nested
    Dirs <- MCDirs
    Parent <- MCParent
    LinkTo <- MCLinkTo
    CommonOf <- MCCommonOf
    Configured <- MCConfigured
    RootOf <- MCRootOf
    FirstGit <- MCFirstGit
INVARIANTS
    TypeOK
    Sound
    Complete
    NothingDropped
