\* backendReader over an object of three bytes: the count ReadAt returns.
CONSTANTS
    ObjLen = 3
    Impls = {"backend"}
SPECIFICATION Spec
INVARIANT ReadAtCountsDelivered
