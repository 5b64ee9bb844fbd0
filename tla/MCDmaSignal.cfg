SPECIFICATION Spec
CONSTANTS
    a = a
    b = b
    Procs <- Two
    EngineCount = 1
    Table <- Layout
    Requests <- Buffers
    PageSize = 8
    MaxDma = 16
    MaxList = 5
    AddrSpace = 256
    Merge = TRUE
INVARIANT
    RunsOnPinnedPages
