CONSTANTS
    job = job
    manual = manual
    Checkers <- TwoCheckers
    Scheduled <- OneChecker
    Cooldown = 1
    ReminderGap = 1
    Reminders <- Unlimited
    Prices <- OnePrice
    Targets <- NoTargets
    PageFaults <- OnlyErrors
    FormChanges <- NoChange
    MaxCrashes = 1
SPECIFICATION FairSpec
PROPERTIES AlertsPaced KeepsReminding
