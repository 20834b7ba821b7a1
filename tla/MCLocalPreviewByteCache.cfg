CONSTANTS
    Keys = {k1, k2, k3}
    Sizes = {1, 3}
    Torn = Torn
    Negative = Negative
    Nothing = Nothing
    Hashes = {k1, k2, k3}
    HashOf <- Injective
    maxBytes = 2
    Faults = {"ensureDirectory", "listDirectory", "remove", "writeText"}
SYMMETRY KeySymmetry
SPECIFICATION Spec
INVARIANTS
    NeverCoResident
    CapHonoured
    StoredIsServed
PROPERTIES
    EvictsOldestFirst
    ImplementsPort
