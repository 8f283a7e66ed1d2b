SPECIFICATION Spec
CONSTANTS
    Urls = {u1}
    Jobs = {j1}
    Warmups = {}
    Pages = {p1}
    Loop = Loop
    Nobody = Nobody
    Codings = {"gzip"}
    kMaxPurgeGenEntries = 2
    max_processed_entries = 2
    MaxDispatch = 1
    MaxPurges = 0
    MaxResets = 0
    MaxReprocess = 0
    MaxEvictions = 0
    MaxRequests = 1
SYMMETRY Symmetry
INVARIANTS
    PinnedServesOriginal
