SPECIFICATION CopySpec
CONSTANTS
    SectorSize = 2
    BlockSectors = 2
    MaxChunkNum = 2
    Sectors = 7
    DstCapacity = {8, 14, 20}
    Given <- Lists
    Zero = Zero
    k1 = k1
    k2 = k2
    blank = blank
    short = short
    long = long
    Key = {k1, k2, blank}
    BlankKey = {blank}
    EmptyKey = EmptyKey
    Value = {short, long}
    Size <- Sizes
    NoValue = NoValue
    Contents <- Metadata
    Changes = 1
    Saves = 2
    Params <- ParamSets
INVARIANT
    BlockListFreed
