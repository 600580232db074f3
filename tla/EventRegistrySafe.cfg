SPECIFICATION Spec
CONSTANTS
    Adders = {a1, a2, a3}
    Readers = {r1}
    NoType = NoType
    Types = {k1, k2, k3}
INVARIANTS SettledStays DecodeKnowsSettled
