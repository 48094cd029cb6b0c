SPECIFICATION FairCursorSpec
CONSTANTS
    SectorSize = 2
    Sectors = 3
    Thread = {t1, t2}
    NoThread = NoThread
    Zero = Zero
    MaxOffset = 7
    CursorCall <- TidyCursorCalls
    DirectCall <- TidyDirectCalls
    Request <- Requests
PROPERTIES
    CursorCallsReturn
    CallsReturn
    ImplementsByteStore
