-------------------------- MODULE MCReconciliation --------------------------
(***************************************************************************)
(* Deposits from sales into one bank account.                              *)
(***************************************************************************)
EXTENDS Reconciliation

CONSTANTS bank, sales, equity

MCAccounts == {bank, sales, equity}
MCType == [a \in MCAccounts |->
             IF a = bank THEN "asset" ELSE IF a = sales THEN "income" ELSE "equity"]
MCPostings == {<<bank, sales, NoRef>>}
=============================================================================
