------------------------------- MODULE MCRevert -------------------------------
(***************************************************************************)
(* One year, two postings under one reference, lines moved to and from an  *)
(* account that may be deleted meanwhile.                                  *)
(***************************************************************************)
EXTENDS Revert

CONSTANTS cash, sales, rent, year, capital, r1

MCAccounts == {cash, sales, rent, year, capital}
MCType == [a \in MCAccounts |->
             IF a = cash THEN "asset" ELSE IF a \in {sales, rent} THEN "income" ELSE "equity"]
MCPostings == {<<rent, cash, r1>>, <<cash, sales, NoRef>>}
MCMoves == {<<sales, rent>>, <<rent, sales>>}
=============================================================================
