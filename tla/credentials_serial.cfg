\* One request at a time, with time and the reaper fair.
SPECIFICATION FairSpec
CONSTANTS
    Users = {u1}
    Passwords = {p1, p2}
    SessionIds = {s1, s2}
    LinkIds = {k1, k2}
    Reqs = {q1}
    MaxRotations = 1
    Nobody = Nobody
    NoSession = NoSession
    NoLink = NoLink
    NoPassword = NoPassword
INVARIANTS NoStaleSession OneLiveLink
PROPERTIES LoginKeepsPassword RowsPruned
