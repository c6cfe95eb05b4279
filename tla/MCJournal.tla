------------------------------ MODULE MCJournal ------------------------------
(***************************************************************************)
(* Cash, a revenue and an expense account, the account years are closed    *)
(* into and the partner's capital account.  Sales have no reference, rent  *)
(* always has the same one.  A line is moved from income to income, from   *)
(* equity to equity, and, as anybody may, from equity to income.           *)
(***************************************************************************)
EXTENDS Journal

CONSTANTS cash, sales, rent, year, capital, r1

MCAccounts == {cash, sales, rent, year, capital}
MCType == [a \in MCAccounts |->
             IF a = cash THEN "asset" ELSE IF a \in {sales, rent} THEN "income" ELSE "equity"]
MCPostings == {<<cash, sales, NoRef>>, <<rent, cash, r1>>}
MCMoves == {<<sales, rent>>, <<year, capital>>, <<year, rent>>}
=============================================================================
