SPECIFICATION Spec
CONSTANTS
  cash = cash
  sales = sales
  rent = rent
  year = year
  capital = capital
  r1 = r1
  Accounts <- MCAccounts
  Type <- MCType
  Capital = capital
  Chart = {cash, sales, year, capital}
  NoRef = NoRef
  Refs = {r1}
  MaxYear = 2
  MaxEntries = 4
  Postings <- MCPostings
  Retirable = {rent}
  Moves <- MCMoves
  ClosedInto = {year}
INVARIANTS
  TypeOK
  ClosedHasItsEntry
  RefsUnique
  BooksBalance
  LinesHaveAccounts
PROPERTIES
  CloseSweepsItsYear
  ReopenUndoesClose
  FenceAdmitsAllocation
