CONSTANTS
    N = 3
    StoreBuffers = TRUE
    MaxGen = 4
    Styles = {"hazard", "split"}
    Readers = {1, 2, 3}
    Replacers = {2, 3}
    MaxObjects = 6
SPECIFICATION Spec
INVARIANTS ProtectedKept InOnePlace
