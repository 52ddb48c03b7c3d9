SPECIFICATION Spec
CONSTANTS
    Owner = owner
    Thieves = {t1}
    Capacity = 2
    GrabSizes = {1, 2}
    MaxPush = 5
INVARIANT TypeOK
PROPERTIES ImplementsBoundedFifo NothingMeansEmpty
