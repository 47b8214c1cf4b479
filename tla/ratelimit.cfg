\* Two goroutines that may be held up for half a window, beside the reaper.
SPECIFICATION FairSpec
CONSTANTS
    ip = ip  email = email
    Keys = {ip, email}
    Routes <- MCRoutes
    Reqs = {q1, q2}
    Attempts = 2
    Window = 2
    MaxStall = 1
INVARIANTS TypeOK AtMostTwice AtMostThrice
PROPERTIES ImplementsFixedWindow Forgotten
