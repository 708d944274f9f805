CONSTANTS
    NPorts = 3
    AddrMax = 6
    NAcm = 3
    Devices <- MCDevices
SPECIFICATION Spec
INVARIANTS
    TypeOK
    AddrExact
    ClassExact
    TreeExact
