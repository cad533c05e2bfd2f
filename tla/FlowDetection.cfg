SPECIFICATION Spec
CONSTANTS
    NDPI_PROTOCOL_STACK_SIZE = 8
    Protocol <- MCProtocol
    CustomProtocol = {"CUSTOM"}
    MiningProtocol = "MINING"
    FingerprintProtocol = "CUSTOM"
    GuessOnGiveup = {"BY_PORT", "BY_IP"}
    GuessIpBeforePort = FALSE
    Dissector <- MCDissector
    CallbackBuffer <- MCCallbackBuffer
    Selection <- MCSelection
    DissectorOf <- MCDissectorOf
    Subprotocols <- MCSubprotocols
    Verdict <- MCVerdict
    PartialVerdict <- MCPartialVerdict
    ExtraMax <- MCExtraMax
    Monitors = {"stun"}
    MonitorsAtOnce = {"s7"}
    PacketKind <- MCPacketKind
    PortGuess = {"UNKNOWN", "HTTP", "CUSTOM"}
    IpGuess = {"UNKNOWN", "TELEGRAM", "MICROSOFT_AZURE", "MS_OUTLOOK"}
    HitSets <- MCHitSets
    NbpfProtocol = "CUSTOM"
    FpcDnsProtocol = "HTTP"
    FpcEnabled = TRUE
    PacketsLimit = 4
    MAX_PACKET_COUNTER = 6
    U16 = 8
    U8 = 4
    MaxPackets = 6
    MaxSwitches = 1
INVARIANTS TypeOK StateAgrees ExtraOrDone GiveupOnce GuessHonest
           StackHoldsVerdict LimitHonoured
PROPERTIES FinalVerdict
