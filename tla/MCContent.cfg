SPECIFICATION Spec
CONSTANTS
    Contents <- MCContents
    MaxContent = 4
    LineGroups = 2
    MaxBlock = 3
    Foreign <- MCForeign
    MaxForeign = 3
INVARIANTS
    TypeOK
    Arrives
    WithinBuffer
