SPECIFICATION Spec
CONSTANTS
    Jobs = {j1}
    Clients = {c1, c2}
    NoRow = NoRow
INVARIANTS
    FailedIsOver
