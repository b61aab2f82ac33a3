SPECIFICATION Spec
CONSTANTS
    Names = {orders_a, orders_b}
    Shapes <- MCShapes
    ColdTicks = 1
    MaxTime = 3
    MaxBuilt = 2
    MaxVerdicts = 1
SYMMETRY Interchangeable
INVARIANT CoverServesItsLookups
