SPECIFICATION Spec
CONSTANTS
    Runs = {r1, r2}
    Artifacts = {art}
    Before = before
    Torn = torn
    Down = down
    Installed = {"networkctl", "systemctl", "dnsmasq", "sysctl", "wg-quick"}
    CtxTimeout = 2
    KeepTimeout = 1
    Faults = {}
    MaxOpens = 2
    Slots = {s1}
    Carries <- RulesetOnly
INVARIANTS
    UnconfirmedIsRolledBack
