----------------------------- MODULE Documents -----------------------------
(***************************************************************************)
(* src/commands/bill_commands.rs and invoice_commands.rs: bills and        *)
(* invoices over the journal.                                              *)
(*                                                                         *)
(* A document and each payment of it have an entry in the journal; the     *)
(* command that writes both appends both events in one transaction, so a   *)
(* document command is one step.  The journal's own commands know nothing  *)
(* of documents: an entry under one is voided, unvoided or moved like any  *)
(* other.  A reference made of a fresh id is never met again and is        *)
(* modelled as none.                                                       *)
(***************************************************************************)
EXTENDS Journal

CONSTANTS
  Control,      \* bill and invoice: the accounts that can be its payable or receivable
  Issues,       \* bound: kind, amount, reference and other account of new documents
  PaidFrom,     \* bound: the accounts payments are made from or to
  MaxDocuments  \* bound: documents ever entered

Kinds == {"bill", "invoice"}

Document == [kind : Kinds, amount : Nat, entry : Nat, paid : Nat,
             status : {"open", "partial", "paid", "void"}, payments : SUBSET (Nat \X Nat)]

ASSUME DocumentsAssumption ==
  /\ Control \in [Kinds -> SUBSET Accounts]
  /\ PaidFrom \subseteq Accounts
  /\ MaxDocuments \in Nat
  /\ \A n \in Issues :
       /\ n.kind \in Kinds
       /\ n.amount \in Nat \ {0}
       /\ n.ref \in Refs \cup {NoRef}
       /\ n.kind = "invoice" => n.ref = NoRef
       /\ n.account \in Accounts

VARIABLES
  documents,  \* the bills and invoices tables, and their payments
  touched     \* history: the entries a journal command has changed since they were posted

docVars == <<vars, documents, touched>>

DocTypeOK ==
  /\ TypeOK
  /\ documents \in Seq(Document)
  /\ touched \subseteq Ids

DocInit ==
  /\ Init
  /\ documents = << >>
  /\ touched = {}

-----------------------------------------------------------------------------

Docs == DOMAIN documents
Whole(d) == documents[d].amount
Remaining(d) == documents[d].amount - documents[d].paid

\* validate_event refuses what is not positive; more than the amount is never
\* accepted.
AnyAmount(d) == -1..Whole(d)
Applied(d) == 1..Whole(d)
EntriesOf(d) == {documents[d].entry} \cup {p[1] : p \in documents[d].payments}

TwoLines(y, ref, debit, credit, n) ==
  [date |-> y, source |-> "manual", ref |-> ref, void |-> FALSE,
   lines |-> <<[account |-> debit, amount |-> n], [account |-> credit, amount |-> -n]>>]

\* A bill credits the payable, an invoice debits the receivable.
IssueEntry(y, n, control) ==
  IF n.kind = "bill" THEN TwoLines(y, n.ref, n.account, control, n.amount)
  ELSE TwoLines(y, n.ref, control, n.account, n.amount)

PaymentOfBill(y, d, control, cash, n) == TwoLines(y, NoRef, control, cash, n)

PaymentEntry(y, d, control, cash, n) ==
  IF documents[d].kind = "bill" THEN PaymentOfBill(y, d, control, cash, n)
  ELSE TwoLines(y, NoRef, cash, control, n)

\* receive_bill, issue_invoice.
Issue(y, n, control) ==
  /\ Len(documents) < MaxDocuments
  /\ Room(1)
  /\ MayPost(IssueEntry(y, n, control))
  /\ Post(<<IssueEntry(y, n, control)>>)
  /\ documents' = Append(documents,
       [kind |-> n.kind, amount |-> n.amount, entry |-> Len(entries) + 1,
        paid |-> 0, status |-> "open", payments |-> {}])
  /\ UNCHANGED <<status, closed, touched>>

\* The row's own CASE on what is paid.
StatusFor(amount, paid) ==
  IF paid >= amount THEN "paid" ELSE IF paid > 0 THEN "partial" ELSE "open"

RecordPayment(d, n) ==
  documents' = [documents EXCEPT
    ![d].paid = @ + n,
    ![d].status = StatusFor(documents[d].amount, documents[d].paid + n),
    ![d].payments = @ \cup {<<Len(entries) + 1, n>>}]

\* apply_payment, receive_payment: whatever became of the document's entry, and
\* from whichever control account the caller names.
ApplyPayment(y, d, control, cash, n) ==
  /\ documents[d].status \notin {"void", "paid"}
  /\ n <= Remaining(d)
  /\ Room(1)
  /\ MayPost(PaymentEntry(y, d, control, cash, n))
  /\ Post(<<PaymentEntry(y, d, control, cash, n)>>)
  /\ RecordPayment(d, n)
  /\ UNCHANGED <<status, closed, touched>>

NotVoid(d) == documents[d].status # "void"

Voidable(d) == documents[d].status # "void" /\ documents[d].paid = 0

\* void_bill, void_invoice: nothing paid, and the entry is still live.
VoidDocument(d) ==
  /\ Voidable(d)
  /\ Live(documents[d].entry)
  /\ SetVoid({documents[d].entry}, TRUE)
  /\ documents' = [documents EXCEPT ![d].status = "void"]
  /\ UNCHANGED <<status, closed, touched>>

\* Accounts, entries and year ends go on, unaware of documents.
JournalStep ==
  /\ Next
  /\ touched' = touched \cup {e \in Ids : entries'[e] # entries[e]}
  /\ UNCHANGED documents

DocNext ==
  \/ JournalStep
  \/ \E y \in Years, n \in Issues : \E control \in Control[n.kind] : Issue(y, n, control)
  \/ \E y \in Years, d \in Docs, cash \in PaidFrom :
       \E control \in Control[documents[d].kind], n \in Applied(d) :
         ApplyPayment(y, d, control, cash, n)
  \/ \E d \in Docs : VoidDocument(d)

DocSpec == DocInit /\ [][DocNext]_docVars

-----------------------------------------------------------------------------

Signed(d, n) == IF documents[d].kind = "bill" THEN -n ELSE n

Outstanding(d) == IF documents[d].status = "void" THEN 0 ELSE Remaining(d)

\* What the live entries of a document leave on the accounts of its kind.
Owed(d) == Sum({e \in EntriesOf(d) : Live(e)}, Control[documents[d].kind])

\* No journal command has changed an entry of this document.
Agreed(d) == EntriesOf(d) \cap touched = {}

\* A document whose entries no journal command has changed stands in the
\* payables or receivables for exactly what its row says is outstanding, zero
\* once it is void, through any order of part payments, voids and year ends.  This
\* is of documents whose other side, and whose payments' cash account, are not
\* themselves payables or receivables of that kind: the commands do not ask it.
LedgerAgrees ==
  \A d \in Docs : Agreed(d) => Owed(d) = Signed(d, Outstanding(d))

\* A row's paid amount is what its payments add up to and never more than its
\* amount; its status says which of the two it has reached, and nothing was ever
\* paid on a void one.
PaymentsAddUp ==
  \A d \in Docs :
    LET doc == documents[d] IN
      /\ doc.paid = MapThenSumSet(LAMBDA p : p[2], doc.payments)
      /\ doc.paid <= doc.amount
      /\ doc.status = "paid" <=> doc.paid = doc.amount
      /\ doc.status \in {"open", "void"} <=> doc.paid = 0

\* Of the bills received under one reference at most one has a live entry: an
\* import that runs again after its bill was voided, as a bill or as an entry,
\* does not bring the debt twice.
OneLiveBillPerReference ==
  \A c, d \in Docs :
    LET ref(x) == entries[documents[x].entry].ref
    IN  c # d /\ ref(c) = ref(d) /\ ref(c) # NoRef
          => ~(Live(documents[c].entry) /\ Live(documents[d].entry))

\* The ledger's own view of the documents, what the live entries of each leave
\* on its accounts, moves as debts do: incurred whole, paid down and never
\* below zero, cancelled only while nothing is paid.
DebtsOfLedger ==
  [d \in Docs |->
     IF Agreed(d) THEN [state |-> "agreed", whole |-> documents[d].amount, left |-> Signed(d, Owed(d))]
     ELSE [state |-> "disputed", whole |-> 0, left |-> 0]]

Abstract == INSTANCE Debts WITH debts <- DebtsOfLedger, Amounts <- {n.amount : n \in Issues}

ImplementsDebts == Abstract!Spec
=============================================================================
