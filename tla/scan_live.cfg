CONSTANTS
    job = job
    now = now
    a = a
    b = b
    here = here
    there = there
    Runs <- TwoRuns
    Scheduled <- JobOnly
    Products <- Two
    Pages <- OnePage
    FirstPage = here
    Prices <- OnePrice
    Wordings <- Both
    FloodCap = 1
    SummaryCap = 1
    MaxEdits = 1
    MaxCrashes = 0
SPECIFICATION FairSpec
PROPERTIES OwedIsAnnounced SeenIsRemembered
