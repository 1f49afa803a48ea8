CONSTANTS
    s1 = s1
    s2 = s2
    box = box
    cards = cards
    channel = channel
    Senders <- TwoSenders
    Alerts <- TwoAlerts
    Messages <- Both
    Text <- OneText
    Link <- Links2
    HitBy <- Hitting
    Cut <- Buttons
    Notifiers <- OneChannel
    Attempts = 2
    Window = 1
    MaxMessages = 3
    MaxRestarts = 1
SYMMETRY Same
SPECIFICATION Spec
INVARIANTS TypeOK HistoryIsHonest NothingVanishes
PROPERTIES PingsAreWanted
CHECK_DEADLOCK FALSE
