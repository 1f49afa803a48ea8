CONSTANTS
    job = job
    manual = manual
    Checkers <- OneChecker
    Scheduled <- OneChecker
    Cooldown = 1
    ReminderGap = 1
    Reminders = 1
    Prices <- TwoPrices
    Targets <- OneTarget
    PageFaults <- AllUnpriced
    FormChanges <- Edits
    MaxCrashes = 1
SPECIFICATION Spec
INVARIANTS TypeOK RemindersCapped
PROPERTIES NewsIsNews PriceAlertPerDip StaleWritesHarmless
