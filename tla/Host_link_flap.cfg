\* A link that goes down and comes back.
SPECIFICATION Spec
CONSTANTS
    Width = 16
    U32Max = 65535
    Kind <- MCKind
    None = None
    Settings = {"plain"}
    Setting <- OnePlain
    Faults = {"link"}
INVARIANT ProbesTestTheirOwnUplink
