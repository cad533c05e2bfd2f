SPECIFICATION AddressSpec
CONSTANTS
    Addr <- MCAddr
    Name = {x}
    Hash <- MCHash
    MaxEpoch = 2
    AddressTtl = {0, 1}
    U32 = 4
    max_num_entries = 2
    MaxCount = 4
PROPERTIES
    FlushOnlyExpired
