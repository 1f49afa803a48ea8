CONSTANTS
    g = g
    s = s
    x = x
    y = y
    Watches <- TwoWatches
    ShopifyWatches <- TheShopify
    Handles <- TwoHandles
    Handle <- OwnHandle
    Shelves <- FewShelves
    CatalogTtl = 2
    RetryTtl = 1
    MaxRetryTtl = 2
    NegativeTtl = 3
    MissCap = 2
SPECIFICATION FairSpec
INVARIANTS TypeOK OnlyStragglers
PROPERTIES ReadingIsRecent ProbesPaced CatalogServes
