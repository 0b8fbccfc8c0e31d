\* Two clients and room for one, restarts, kills and firewall reloads.
SPECIFICATION Spec
CONSTANTS
    laptop = laptop
    phone = phone
    Clients <- TwoClients
    None = None
    MaxTracked = 1
    MaxNewRules = 1
    MaxProbes = 2
    ProbeEvery = 1
    OfflineAfter = 1
    PersistEvery = 2
    ForgetAfter = 1
    MaxBytes = 1
    MaxSpoilt = 1
    Faults = {"rule", "read", "reload", "kill"}
SYMMETRY Alike
INVARIANTS
    TypeOK
    EveryByteIsAccountedFor
    SessionsMatchPresence
    RulesStayBounded
PROPERTIES
    HereIsNeverGone
