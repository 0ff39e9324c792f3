SPECIFICATION Spec
CONSTANTS
    photos = photos
    viewer = viewer
    theOwner = theOwner
    somebody = somebody
    family = family
    Apps = {photos}
    People = {theOwner, somebody}
    Groups = {family}
    Roles = {viewer}
    None = None
    Homes <- MCHomes
    Files <- MCFiles
    MaxImports = 2
    MaxEdits = 2
    MaxExports = 1
INVARIANTS
    TypeOK
    SettlesAsDescribed
PROPERTY PowerNotImported
CHECK_DEADLOCK FALSE
