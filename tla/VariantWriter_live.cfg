SPECIFICATION FairSpec
CONSTANTS
    Urls = {u1}
    Jobs = {j1}
    Warmups = {}
    Pages = {p1}
    Loop = Loop
    Nobody = Nobody
    Codings = {"gzip"}
    kMaxPurgeGenEntries = 2
    max_processed_entries = 2
    MaxDispatch = 2
    MaxPurges = 1
    MaxResets = 0
    MaxReprocess = 1
    MaxEvictions = 1
    MaxRequests = 3
INVARIANTS
    PinnedIdentityOriginal
PROPERTIES
    InFlightReleased
    ResurrectionUndone
