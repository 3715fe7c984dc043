SPECIFICATION FairSpec
CONSTANTS
    Runs = {r1}
    Artifacts = {art, before}
    Before = before
    Torn = torn
    Down = down
    Installed = {"networkctl", "systemctl", "dnsmasq", "sysctl", "wg-quick"}
    CtxTimeout = 2
    KeepTimeout = 1
    Faults = {"command", "process"}
    MaxOpens = 2
    Slots = {s1}
    Carries <- SomeCarries
INVARIANTS
    TypeOK
    KeptMeansConfirmed
    UnconfirmedIsRolledBack
    ScreenHasJob
    DoneTellsRuleset
PROPERTIES
    ScreenAnswers
    RestoresEnd
