SPECIFICATION DocSpec
CONSTANTS
  cash = cash
  payable = payable
  receivable = receivable
  sales = sales
  year = year
  r1 = r1
  Accounts <- MCAccounts
  Type <- MCType
  Capital = year
  Chart <- MCAccounts
  NoRef = NoRef
  Refs = {r1}
  MaxYear = 1
  MaxEntries = 4
  Postings = {}
  Retirable = {payable}
  Moves <- MCMoves
  ClosedInto = {year}
  Control <- MCControl
  Issues <- MCIssues
  PaidFrom = {cash}
  MaxDocuments = 3
INVARIANTS
  DocTypeOK
  LedgerAgrees
  PaymentsAddUp
  OneLiveBillPerReference
PROPERTY
  ImplementsDebts
