\* Starts over the leftovers of other configurations, with refusals, kills and
\* reboots; links come up at any time.
SPECIFICATION Spec
CONSTANTS
    Width = 16
    U32Max = 65535
    Kind <- MCKind
    None = None
    Settings = {"plain", "pinned", "swapped", "unpinned", "mistaken"}
    Setting <- MCSetting
    Faults = {"refuse", "kill", "reboot", "link"}
INVARIANTS
    TypeOK
    MarksSelectUplinks
    SettingsAreApplied
PROPERTIES
    NeverWithoutDefault
