SPECIFICATION FairSpec
CONSTANTS
    Cmd = c1
    Runs = {c1}
    Artifacts = {art, before}
    Before = before
    Torn = torn
    Down = down
    NoFallback = none
    Installed = {"networkctl", "systemctl", "dnsmasq", "sysctl", "wg-quick"}
    CtxTimeout = 1
    KeepTimeout = 1
    Faults = {"command", "process"}
INVARIANTS
    TypeOK
    SuccessMeansRestored
    ErrorKeepsRuleset
PROPERTIES
    RulesetComesLast
    CommitsOrReverts
    RestoreEnds
