CONSTANTS
    Keys = {k1}
    Sizes = {1}
    Torn = Torn
    Negative = Negative
    Nothing = Nothing
    Hashes = {k1}
    HashOf <- Injective
    maxBytes = 2
    Faults = {"writeText"}
SPECIFICATION Spec
INVARIANTS TornIsNeverServed
