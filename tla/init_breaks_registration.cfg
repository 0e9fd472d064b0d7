SPECIFICATION Spec
SYMMETRY Symmetry
CONSTANTS
    Hosts = {h1, h2}
    Machines = {m1}
    Clients = {c1}
    InitPorts = {p1, p2}
    DefaultPort = p0
    None = None
    MaxCrashes = 0
PROPERTIES
    InitKeepsRegistration
