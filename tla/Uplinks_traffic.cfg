\* Three providers on two interfaces, with every fault.
SPECIFICATION Spec
CONSTANTS
    a = a
    b = b
    c = c
    eth0 = eth0
    eth1 = eth1
    Providers = {a, b, c}
    Interface <- OneArmed
    None = None
    Cooldown = 2
    MaxBytes = 1
    MaxPassed = 1
    Faults = {"install", "read", "reload", "interface"}
SYMMETRY Twins
INVARIANTS
    TypeOK
    RowsFitTheInterval
PROPERTIES
    EachToItsOwn
