SPECIFICATION RecSpec
CONSTANTS
  bank = bank
  sales = sales
  equity = equity
  Accounts <- MCAccounts
  Type <- MCType
  Capital = equity
  Chart <- MCAccounts
  NoRef = NoRef
  Refs = {}
  MaxYear = 1
  MaxEntries = 2
  Postings <- MCPostings
  Retirable = {bank}
  Moves = {}
  ClosedInto = {}
  Reconciled = {bank}
  Statements = {1}
  MaxRecons = 3
INVARIANTS
  RecTypeOK
  OneInProgress
  FlagsTellRows
  BeginningCarriesOver
PROPERTY
  FinishedIsFrozen
CHECK_DEADLOCK FALSE
