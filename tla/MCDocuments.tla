---------------------------- MODULE MCDocuments ----------------------------
(***************************************************************************)
(* Bills of two units under one reference, invoices of one; the accounts   *)
(* are cash, a payable, a receivable, sales and a year account.            *)
(***************************************************************************)
EXTENDS Documents

CONSTANTS cash, payable, receivable, sales, year, r1

MCAccounts == {cash, payable, receivable, sales, year}
MCType == [a \in MCAccounts |->
             IF a = sales THEN "income" ELSE IF a = year THEN "equity" ELSE "asset"]
MCControl == [k \in {"bill", "invoice"} |-> IF k = "bill" THEN {payable} ELSE {receivable}]
MCIssues == {[kind |-> "bill", amount |-> 2, ref |-> r1, account |-> sales],
             [kind |-> "invoice", amount |-> 1, ref |-> NoRef, account |-> sales]}
MCMoves == {<<payable, cash>>}
=============================================================================
