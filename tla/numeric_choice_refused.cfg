SPECIFICATION Spec
CONSTANTS
    Names = {"gpu_layers"}
    Numbers = {0, 16}
    Words = {all}
    Versions = {"v1", "v2"}
    Blank = Blank
    None = None
INVARIANTS
    ChoicesAreAllowed
