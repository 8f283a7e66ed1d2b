SPECIFICATION Spec
CONSTANTS
    Urls = {u1, u2, u3}
    Jobs = {j1}
    Warmups = {}
    Pages = {}
    Loop = Loop
    Nobody = Nobody
    Codings = {}
    kMaxPurgeGenEntries = 1
    max_processed_entries = 1
    MaxDispatch = 2
    MaxPurges = 4
    MaxResets = 0
    MaxReprocess = 0
    MaxEvictions = 0
    MaxRequests = 5
SYMMETRY Symmetry
INVARIANTS
    FenceInv
    CopyRecordHasMark
PROPERTIES
    FenceStaysShut
