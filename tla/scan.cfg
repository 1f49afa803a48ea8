CONSTANTS
    job = job
    now = now
    a = a
    b = b
    here = here
    there = there
    Runs <- TwoRuns
    Scheduled <- JobOnly
    Products <- One
    Pages <- TwoPages
    FirstPage = here
    Prices <- TwoPrices
    Wordings <- AnyOne
    FloodCap = 1
    SummaryCap = 1
    MaxEdits = 1
    MaxCrashes = 1
SPECIFICATION Spec
INVARIANTS TypeOK
PROPERTIES DropsAreReal
