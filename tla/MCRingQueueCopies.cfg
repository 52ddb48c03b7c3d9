SPECIFICATION Spec
CONSTANTS
    Owner = owner
    Thieves = {t1}
    Capacity = 2
    GrabSizes = {2}
    MaxPush = 3
INVARIANT GrabbedListIntact
