SPECIFICATION FairSpec
CONSTANTS
    NDPI_PROTOCOL_STACK_SIZE = 8
    Protocol <- MCProtocol
    CustomProtocol = {"CUSTOM"}
    MiningProtocol = "MINING"
    FingerprintProtocol = "CUSTOM"
    GuessOnGiveup = {"BY_IP", "BY_PORT"}
    GuessIpBeforePort = TRUE
    Dissector <- MCDissector
    CallbackBuffer <- MCCallbackBuffer
    Selection <- MCSelection
    DissectorOf <- MCDissectorOf
    Subprotocols <- MCSubprotocols
    Verdict <- MCVerdict
    PartialVerdict <- MCPartialVerdict
    ExtraMax <- MCExtraMax
    Monitors = {"stun"}
    MonitorsAtOnce = {"s7"}
    PacketKind <- MCFullPackets
    PortGuess = {"UNKNOWN", "HTTP"}
    IpGuess = {"UNKNOWN", "TELEGRAM"}
    HitSets = {{}}
    NbpfProtocol = "UNKNOWN"
    FpcDnsProtocol = "HTTP"
    FpcEnabled = TRUE
    PacketsLimit = 0
    MAX_PACKET_COUNTER = 6
    U16 = 8
    U8 = 4
    MaxPackets = 8
    MaxSwitches = 1
PROPERTIES ExtraEnds NothingLeftEnds
