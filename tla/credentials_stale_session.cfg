\* Two requests at a time: a session opened with the old password survives.
SPECIFICATION Spec
CONSTANTS
    Users = {u1}
    Passwords = {p1, p2}
    SessionIds = {s1, s2}
    LinkIds = {k1}
    Reqs = {q1, q2}
    MaxRotations = 1
    Nobody = Nobody
    NoSession = NoSession
    NoLink = NoLink
    NoPassword = NoPassword
INVARIANT NoStaleSession
CHECK_DEADLOCK FALSE
