\* Both adapters over an object of three bytes.
CONSTANTS
    ObjLen = 3
    Impls = {"backend", "all"}
SPECIFICATION Spec
INVARIANTS TypeOK ReadAtContract
