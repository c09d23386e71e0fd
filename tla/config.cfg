SPECIFICATION Spec
CONSTANTS
    Keys = {"server_name"}
    Values = {v, w}
    Ports = {p}
    Paths = {x, y}
    Targets = {b}
    MaxPorts = 1
    MaxLines = 7
    MaxOdd = 2
    Unset = Unset
    NoPort = NoPort
    DefaultPort = DefaultPort
SYMMETRY Symmetry
INVARIANTS
    TypeOK
    ParsedAsWritten
    DamageContained
CHECK_DEADLOCK FALSE
