\* Two requests at a time on one account with a session and two reset links.
SPECIFICATION Spec
CONSTANTS
    Users = {u1}
    Passwords = {p1}
    SessionIds = {s1}
    LinkIds = {k1, k2}
    Reqs = {q1, q2}
    MaxRotations = 2
    Nobody = Nobody
    NoSession = NoSession
    NoLink = NoLink
    NoPassword = NoPassword
SYMMETRY Symmetry
INVARIANTS TypeOK OldSessionsDie OldLinksDie LinkUsedOnce
