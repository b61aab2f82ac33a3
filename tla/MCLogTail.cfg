SPECIFICATION TailSpec
CONSTANTS
    f1 = f1
    f2 = f2
    Names = {f1, f2}
    First = f1
    MaxRead = 2
    MaxEntries = 3
    MaxRotations = 2
INVARIANT ConsumedIsAccounted
PROPERTIES
    EmittedWhole
    PendingIsEmitted
