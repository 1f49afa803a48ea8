CONSTANTS
    set = set
    promo = promo
    shop = shop
    one = one
    two = two
    News <- TwoItems
    Overlong <- OnlyPromo
    Domains <- NoShops
    Workers <- OneWorker
    MaxNew = 1
    MaxPings = 1
    MaxMishaps = 0
SPECIFICATION FairSpec

PROPERTY UnseenIsInserted
