SPECIFICATION Spec
CONSTANTS
    Adders = {a1, a2}
    Readers = {r1}
    NoType = NoType
    Types = {k1, k2}
PROPERTY RegistryGrows
