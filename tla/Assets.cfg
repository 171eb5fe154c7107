SPECIFICATION Spec
CONSTANTS
    AssetIds = {a1, a2}
    Kinds <- MCKinds
    Reqs = {r1, r2}
    NChunks = 2
    Builds = 1
    Incidents = {"abandon", "db", "crash"}
SYMMETRY Symmetry
INVARIANT TypeOK
INVARIANT CompleteIsWhole
INVARIANT RowNamesFile
INVARIANT DownloadWhole
CHECK_DEADLOCK FALSE
