SPECIFICATION Spec
SYMMETRY Symmetry
CONSTANTS
    Hosts = {h1, h2}
    Machines = {m1}
    Clients = {c1}
    InitPorts = {p0}
    DefaultPort = p0
    None = None
    MaxCrashes = 1
INVARIANTS
    TypeOK
    CallReachesOwnHost
    UnguardedOnlyAfterLapse
    TokenOutlivesInit
