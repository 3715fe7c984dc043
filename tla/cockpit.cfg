SPECIFICATION FairSpec
CONSTANTS
    AddressBits = 5
    Addresses = 32
    BlockSize <- Blocks
    UnitNames <- Names
    Machines <- AllMachines
    Files <- AllFiles
    NoSnapshot = noSnapshot
    Slots = {s1, s2}
INVARIANTS
    TypeOK
    BusyHasProcess
    LoadingHasLoad
    PoolIsServed
PROPERTIES
    RefreshConverges
