SPECIFICATION DecisionSpec
CONSTANTS
  Pages <- MCPages
  Products <- MCProducts
  Answers <- MCAnswers
  QueuePages <- MCQueuePages
  ApiAnswers <- MCApiAnswers
  Slugs <- MCSlugs
  Domains <- MCDomains
  Hosts <- MCHosts
  RangeFields <- MCRangeFields
  Positives <- MCPositives
  Words <- MCWords
  PostedPrices <- MCPostedPrices
  PostChannels <- MCPostChannels
  Numbers <- MCNumbers
  Hours <- MCHours
  Games <- MCGames
  Channels <- MCChannels
  Patterns <- MCPatterns
  Listings <- MCListings
  Results <- MCResults
  ShopDomains <- MCShopDomains
  Tokens <- MCTokens
  MaxHits = 2
  Found <- MCFound
  Sites <- MCSites
INVARIANTS ReadingsAreSound ChoicesAreSound
CHECK_DEADLOCK FALSE
