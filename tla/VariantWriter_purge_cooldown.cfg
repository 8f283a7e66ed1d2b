SPECIFICATION Spec
CONSTANTS
    Urls = {u1}
    Jobs = {j1}
    Warmups = {}
    Pages = {}
    Loop = Loop
    Nobody = Nobody
    Codings = {}
    kMaxPurgeGenEntries = 2
    max_processed_entries = 2
    MaxDispatch = 1
    MaxPurges = 1
    MaxResets = 0
    MaxReprocess = 0
    MaxEvictions = 0
    MaxRequests = 2
SYMMETRY Symmetry
INVARIANTS
    NoCooldownAfterPurge
