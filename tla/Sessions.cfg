SPECIFICATION SessionsSpec
CONSTANTS
    HttpPacket <- MCPackets
    HttpMaxPackets = 5
    HttpMaxMessages = 4
    TlsMaxTcp = 12
    TlsMaxUdp = 2
    TlsCounter = 256
    SeqSpace = 32
    SeqWindow = 4
    MAX_PACKET_COUNTER = 20
    TlsScript <- MCScripts
    TlsIsn = {4, 28}
    TlsMaxSegment = 2
    TlsMaxFaults = 1
    TlsMaxPackets = 11
    ObfSize = {0, 1, 3}
    ObfOverhead = 2
    ObfNear <- MCNear
    ObfFirstMax = 1
    ObfMaxPackets = 6
    ObfRange = 256
    StunConfig <- MCStunConfigs
    StunPacket <- MCStunPackets
    StunOtherApp = {"WHATSAPP_CALL"}
    StunRoom = 1
    StunMaxU8 = 15
    StunSignalAfter = 1
    StunGiveUp = 2
    StunMaxPackets = 5
    QuicSession <- MCQuicSessions
    QuicHello <- MCHellos
    QuicHead = 2
    QuicBuf = 6
    QuicBits = 2
    QuicMaxExtra = 4
    QuicMaxVn = 2
    QuicMaxSh = 3
    QuicCounter = 8
    QuicMaxPackets = 5
INVARIANTS
    
    ThreeEndOneSided
    
    HandshakeInClear
    SetsAreLastBursts
    ListedOrCarried
    
    
PROPERTIES
    HelloAppKept
    MonitoringIsFinal
CHECK_DEADLOCK FALSE
