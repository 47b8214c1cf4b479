SPECIFICATION Spec
CONSTANTS
    Reqs = {q1, q2}
    Scrolls = {s1}
    Filters <- MCFilters
    Retentions = {0, 1}
    PageSize = 1
    MaxEntries = 3
    MaxClock = 2
SYMMETRY Symmetry
INVARIANTS TypeOK ChangesMatchEntries ScrollsComplete
PROPERTIES AppendOnly
