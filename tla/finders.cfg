CONSTANTS
    set = set
    promo = promo
    shop = shop
    one = one
    two = two
    News <- TwoItems
    Overlong <- OnlyPromo
    Domains <- OneShop
    Workers <- TwoWorkers
    MaxNew = 1
    MaxPings = 1
    MaxMishaps = 2
SPECIFICATION FairSpec
INVARIANTS TypeOK NothingSlipsThrough
PROPERTIES ToldOnce FoundIsKnown
