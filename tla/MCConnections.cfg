CONSTANTS
    p1 = p1
    p2 = p2
    Profiles = {p1, p2}
    Edited = {p1}
    Acts = {a1, a2}
    Edit = edit
    Silent = {p2}
    NoProfile = NoProfile
SPECIFICATION FairConnSpec
INVARIANTS ConnTypeOK SecretsFollowRows
PROPERTIES RefusedConnectKeepsSession ActivationEnds
