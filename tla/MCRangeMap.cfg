CONSTANTS
    Limit = 6
    Storage = {0}
SPECIFICATION Spec
INVARIANTS NoOverlap LookupFinds
PROPERTY ImplementsStorageMap
