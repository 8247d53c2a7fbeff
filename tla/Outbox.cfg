CONSTANTS
    Producers = {p1, p2}
    Envelopes = {e1, e2}
    MaxRows = 2
    MaxAttempts = 2
    MaxDepth = 1
SYMMETRY Symmetric
SPECIFICATION Spec
INVARIANTS OInv ActedOnOnce NumberedInOrder
PROPERTIES ImplementsDelivery
