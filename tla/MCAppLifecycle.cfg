SPECIFICATION Spec
CONSTANTS
    d1 = d1
    d2 = d2
    d3 = d3
    n1 = n1
    n2 = n2
    Devices = {d1, d2, d3}
    Names = {n1, n2}
    NameOf <- MCNameOf
    None = None
    Mp3Port = 1
    MinPort = 2
    MaxPort = 3
    RandMax = 2
    Tries = 2
SYMMETRY SameName
INVARIANTS
    AdvertisedListens
PROPERTY
    WithdrawnFirst
CHECK_DEADLOCK FALSE
