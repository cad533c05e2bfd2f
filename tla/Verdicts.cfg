SPECIFICATION VerdictsSpec
CONSTANTS
    MaxPackets = 13
    MaxWaited = 10
    Risk = {"desktop", "unsafe"}
    Desktop = "desktop"
    Unsafe = "unsafe"
    RiskMessage = {"m1"}
    EnabledRisk = {"desktop", "unsafe"}
    InfoRisk = {"desktop", "unsafe"}
    RiskMask <- MCMasks
    MAX_NUM_RISK_INFOS = 3
    RiskMaxSteps = 6
    SerScenario <- MCScenarios
    SerIncr = 16
    SerHeaderSize = 8
    ReaderKey <- MCReaderKeys
    ReaderOptions <- MCReaderOptions
    num_roots = 2
    max_ndpi_flows = 2
    MAX_IDLE_TIME = 0
    IDLE_SCAN_PERIOD = 0
    IDLE_SCAN_BUDGET = 1
    max_num_packets_per_flow = 2
    max_num_dissected_pkts = 2
    ReaderU32 = 8
    ReaderMaxTime = 2
    ReaderMaxPackets = 4
    BuiltIn <- MCBuiltIn
    EnabledProto = {1, 2}
    BuiltInNet <- MCRuleNets
    BuiltInHost <- MCRuleHosts
    PrivateAddress <- MCPrivate
    Rule <- MCRuleSet
    GuessFlow <- MCGuessFlows
    UseSport = TRUE
    UseClient = TRUE
    MAX_DEFAULT_PORTS = 2
    UV16_MAX_USER_VALUES = 2
    RulesMax = 3
INVARIANTS
    DecidesInTime
    VerdictFromBytes
    EffectsNeedVerdict
    MirrorAgrees
    
    TextFaithful
    CloneSame
    
    ReportsAddUp
    
    RulesHonoured
CHECK_DEADLOCK FALSE
