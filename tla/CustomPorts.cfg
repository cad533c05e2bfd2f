SPECIFICATION RulesSpec
CONSTANTS
    BuiltIn <- MCBuiltIn
    EnabledProto = {1, 2}
    BuiltInNet <- MCRuleNets
    BuiltInHost <- MCRuleHosts
    PrivateAddress <- MCPrivate
    Rule <- MCPortRules
    GuessFlow <- MCGuessFlows
    UseSport = FALSE
    UseClient = FALSE
    MAX_DEFAULT_PORTS = 2
    UV16_MAX_USER_VALUES = 2
    RulesMax = 2
INVARIANT CustomRulesWin
