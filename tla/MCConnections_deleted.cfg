CONSTANTS
    p1 = p1
    p2 = p2
    Profiles = {p1, p2}
    Edited = {p1}
    Acts = {a1}
    Edit = edit
    Silent = {}
    NoProfile = NoProfile
SPECIFICATION ConnSpec
INVARIANTS DeletedProfileIsClosed
