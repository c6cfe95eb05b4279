----------------------------- MODULE MCBankFeed -----------------------------
(***************************************************************************)
(* Two of the provider's accounts: money leaves the first twice and        *)
(* arrives in the second once, so two pairs are possible and share a leg.  *)
(***************************************************************************)
EXTENDS BankFeed

CONSTANTS checking, savings, uncategorized, capital, out1, out2, in1, fc, fs

MCAccounts == {checking, savings, uncategorized, capital}
MCType == [a \in MCAccounts |->
             IF a = capital THEN "equity" ELSE IF a = uncategorized THEN "income" ELSE "asset"]
MCTxns == {out1, out2, in1}
MCRefs == MCTxns \cup (MCTxns \X MCTxns)
MCFeedOf == [t \in MCTxns |-> IF t = in1 THEN fs ELSE fc]
MCAmount == [t \in MCTxns |-> IF t = in1 THEN -1 ELSE 1]
MCDateOf == [t \in MCTxns |-> 1]
MCMappable == [f \in {fc, fs} |-> IF f = fc THEN {checking} ELSE {savings}]
MCByHand == {<<out1, in1>>}
MCPulls == {{out1, in1}, {out2, in1}}
=============================================================================
