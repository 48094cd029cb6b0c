SPECIFICATION CursorSpec
CONSTANTS
    SectorSize = 2
    Sectors = 2
    Thread = {t1, t2, t3}
    NoThread = NoThread
    Zero = Zero
    MaxOffset = 5
    CursorCall <- CursorCalls
    DirectCall <- DirectCalls
    Request <- Requests
SYMMETRY Symmetry
INVARIANTS
    CursorTypeOK
    CursorTilesDisk
