CONSTANTS
    shirt = shirt
    shop = shop
    Watches <- OneWatch
    Scans <- OneScan
    Grace = 1
    Repeat = 3
    Stable = 1
    Retention = 2
    MaxListed = 1
    MaxRestarts = 1
SPECIFICATION FairSpec
INVARIANTS TypeOK
PROPERTIES AlarmIsHonest AlarmsPaced LastingFailureIsReported
