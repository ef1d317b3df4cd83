SPECIFICATION ServerSpec
CONSTANTS
    Parts = {"supervisor", "run"}
    Admins = {a1}
    Asked = {"add", "remove", "start", "stop", "sync"}
    Settings = {s1, s2}
    Slots = {c1, c2}
    None = None
    Faults = {"build", "save", "drop"}
    Refreshes = TRUE
    Listeners = {l1, l2}
    Refreshing = {"corpus"}
INVARIANTS WritersAreOrderly ConfigurationHolds ScreenTells ComesDownInOrder
PROPERTIES RequestsTakeEffect SignalExits
