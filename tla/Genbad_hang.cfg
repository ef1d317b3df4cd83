SPECIFICATION GbFairSpec
CONSTANTS
    Listeners = {l1, l2}
    Refreshing = {"corpus"}
PROPERTY ErrorExits
