CONSTANTS
    p1 = p1
    cat = cat
    br = br
    Pages <- OnePage
    Catalogs <- TheCatalog
    Browsers <- TheBrowser
    RobotsAware <- OnePage
    Slots = 1
    MinGap = 1
    Retries = 2
    Backoff = 1
    DefaultWait = 1
    MaxWait = 3
    MaxFactor = 2
    RetryAfters <- AskFor2
    ProxyMode = "on-refusal"
    AfterRefusals = 2
    Budget = 1
    OtherFetches = 1
SPECIFICATION FairSpec
INVARIANTS TypeOK BudgetNearlyKept
PROPERTIES SilenceKept GapKept ProxyIsEarned Recovers
