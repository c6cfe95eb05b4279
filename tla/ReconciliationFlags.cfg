SPECIFICATION RecSpec
CONSTANTS
  bank = bank
  sales = sales
  equity = equity
  Accounts <- MCAccounts
  Type <- MCType
  Capital = equity
  Chart <- MCAccounts
  NoRef = NoRef
  Refs = {}
  MaxYear = 1
  MaxEntries = 2
  Postings <- MCPostings
  Retirable = {bank}
  Moves = {}
  ClosedInto = {}
  Reconciled = {bank}
  Statements = {1}
  MaxRecons = 3
INVARIANT
  FlaggedWasCleared
CHECK_DEADLOCK FALSE
