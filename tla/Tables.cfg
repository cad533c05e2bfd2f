SPECIFICATION TablesSpec
CONSTANTS
    Module = {m1, m2}
    Kind = {ookla, stun}
    Address = {a1, a2, a3}
    MaxValue = 1
    Addr <- MCAddr
    Name = {x, y}
    Hash <- MCHash
    MaxEpoch = 2
    AddressTtl = {0, 1, 3}
    U32 = 4
    max_num_entries = 2
    MaxCount = 3
    Host <- MCHost
    Ip = {ip1, ip2}
    Norm <- MCNorm
    NoPort <- MCNoPort
    WithPort = {}
SYMMETRY Symmetry
INVARIANTS
    CachesOwned
    OneItemPerAddress
    
PROPERTIES
    GlobalCacheKept
    LifeNotShortened
    RestoreIsFaithful
