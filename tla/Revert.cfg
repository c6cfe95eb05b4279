SPECIFICATION RevertSpec
CONSTANTS
  cash = cash
  sales = sales
  rent = rent
  year = year
  capital = capital
  r1 = r1
  Accounts <- MCAccounts
  Type <- MCType
  Capital = capital
  Chart = {cash, sales, rent, year, capital}
  NoRef = NoRef
  Refs = {r1}
  MaxYear = 1
  MaxEntries = 3
  Postings <- MCPostings
  Retirable = {rent}
  Moves <- MCMoves
  ClosedInto = {year}
  MaxEvents = 7
INVARIANT
  RefusedForLaterWork
PROPERTIES
  RevertCanBeReverted
  RevertRestores
  RevertedOnce
CHECK_DEADLOCK FALSE
