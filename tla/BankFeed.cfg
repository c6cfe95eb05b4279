SPECIFICATION FeedSpec
CONSTANTS
  checking = checking
  savings = savings
  uncategorized = uncategorized
  capital = capital
  out1 = out1
  out2 = out2
  in1 = in1
  fc = fc
  fs = fs
  Accounts <- MCAccounts
  Type <- MCType
  Capital = capital
  Chart <- MCAccounts
  NoRef = NoRef
  Refs <- MCRefs
  MaxYear = 1
  MaxEntries = 2
  Postings = {}
  Retirable = {}
  Moves = {}
  ClosedInto = {}
  Txns <- MCTxns
  Feeds = {fc, fs}
  FeedOf <- MCFeedOf
  Amount <- MCAmount
  DateOf <- MCDateOf
  Nowhere = Nowhere
  Uncategorized = uncategorized
  Mappable <- MCMappable
  Unmappable = {fs}
  ByHand <- MCByHand
  Pulls <- MCPulls
  MaxLoaded = 1
INVARIANTS
  FeedTypeOK
  BookedOnce
  ReviewAgrees
