SPECIFICATION CredentialsSpec
CONSTANTS
    Ssids = {s1, s2, s3, s4}
    Passwords = {p1, p2}
    Capacity = 3
    None = None
SYMMETRY Symmetry
INVARIANTS
    RestartKeepsNetworks
    TornSaveLimits
