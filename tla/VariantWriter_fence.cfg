SPECIFICATION Spec
CONSTANTS
    Urls = {u1}
    Jobs = {j1}
    Warmups = {x1}
    Pages = {}
    Loop = Loop
    Nobody = Nobody
    Codings = {}
    kMaxPurgeGenEntries = 2
    max_processed_entries = 2
    MaxDispatch = 2
    MaxPurges = 1
    MaxResets = 1
    MaxReprocess = 0
    MaxEvictions = 0
    MaxRequests = 4
SYMMETRY Symmetry
INVARIANTS
    TypeOK
    NoResurrection
    InFlightExact
