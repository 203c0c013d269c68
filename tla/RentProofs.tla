------------------------------ MODULE RentProofs ------------------------------
(***************************************************************************)
(* Proofs about RentCollection, for any rows, people, invoices, starts,    *)
(* reconciliations and runs of the overdue task.                           *)
(***************************************************************************)
EXTENDS RentCollection, TLAPS

-----------------------------------------------------------------------------
(* What people do.                                                         *)

\* computeEntryStatus gives a status, and a credit leaves the reminder alone.
LEMMA CreditType ==
  ASSUME entry \in Entry, NEW n \in Nat
  PROVE  Credited(n) \in Entry /\ Credited(n).reminded = entry.reminded
<1>1. ComputeEntryStatus(n) \in EntryStatuses
  BY ExpectedAssumption DEF ComputeEntryStatus, EntryStatuses
<1>2. QED
  BY <1>1 DEF Credited, Entry

\* A handler's memory when it starts.
LEMMA BeginType ==
  ASSUME entry \in Entry, req \in [Requests -> Memory],
         NEW r \in Requests, NEW op \in Handlers,
         NEW p \in Payments \cup {NoPayment}, NEW a \in Nat, Begin(r, op, p, a)
  PROVE  req' \in [Requests -> Memory]
<1>1. [op |-> op, pay |-> p, paid |-> entry.paid, amount |-> a] \in Memory
  BY DEF Entry, Memory
<1>2. QED
  BY <1>1 DEF Begin

LEMMA CreditsType ==
  ASSUME credits \in [Payments -> Nat], NEW p,
         credits' = [credits EXCEPT ![p] = @ + 1]
  PROVE  credits' \in [Payments -> Nat]
<1>1. ASSUME NEW q \in Payments PROVE credits'[q] \in Nat
  <2>1. CASE q = p
    <3>1. credits'[q] = credits[q] + 1
      BY <2>1
    <3>2. QED
      BY <3>1
  <2>2. CASE q # p
    BY <2>2
  <2>3. QED
    BY <2>1, <2>2
<1>2. QED
  BY <1>1

LEMMA DoneType ==
  ASSUME req \in [Requests -> Memory], NEW r \in Requests, Done(r)
  PROVE  req' \in [Requests -> Memory]
<1>1. Idle \in Memory
  BY DEF Idle, Memory, Handlers
<1>2. QED
  BY <1>1 DEF Done

\* People keep the types.
LEMMA PeopleType ==
  ASSUME TypeOK, LedgerNext
  PROVE  /\ entry' \in Entry /\ payment' \in [Payments -> Row]
         /\ req' \in [Requests -> Memory] /\ credits' \in [Payments -> Nat]
         /\ stale' \in BOOLEAN
<1>0. /\ entry \in Entry /\ payment \in [Payments -> Row]
      /\ req \in [Requests -> Memory] /\ credits \in [Payments -> Nat]
      /\ stale \in BOOLEAN
  BY DEF TypeOK
<1>r. PICK r \in Requests :
        \/ CreateManualRead(r) \/ CreateManualWrite(r)
        \/ DeclarationCreate(r)
        \/ UpdateRead(r) \/ UpdateWrite(r)
        \/ CancelRead(r) \/ CancelWrite(r)
        \/ ConfirmRead(r) \/ ConfirmWrite(r)
        \/ RejectRead(r) \/ RejectWrite(r)
        \/ Fail(r)
  BY DEF LedgerNext
<1>m. req[r].paid \in Nat /\ req[r].amount \in Nat
  BY <1>0 DEF Memory
<1>1. CASE CreateManualRead(r)
  <2>1. PICK a \in Amounts : Begin(r, "createManual", NoPayment, a)
    BY <1>1 DEF CreateManualRead
  <2>2. req' \in [Requests -> Memory]
    BY <1>0, <2>1, BeginType, AmountsAssumption DEF Handlers
  <2>3. QED
    BY <1>0, <2>1, <2>2 DEF Begin
<1>2. CASE UpdateRead(r) \/ CancelRead(r) \/ ConfirmRead(r) \/ RejectRead(r)
  <2>1. PICK p \in Payments, op \in {"update", "cancel", "confirm", "reject"} :
          Begin(r, op, p, payment[p].amount)
    BY <1>2 DEF UpdateRead, CancelRead, ConfirmRead, RejectRead
  <2>2. req' \in [Requests -> Memory]
    BY <1>0, <2>1, BeginType DEF Handlers, Row
  <2>3. QED
    BY <1>0, <2>1, <2>2 DEF Begin
<1>3. CASE CreateManualWrite(r)
  <2>1. PICK p \in Fresh :
          /\ payment' = [payment EXCEPT ![p] =
               [NoRow EXCEPT !.source = "MANUAL_OWNER", !.status = "PAID",
                             !.amount = req[r].amount]]
          /\ credits' = [credits EXCEPT ![p] = @ + 1]
    BY <1>3 DEF CreateManualWrite
  <2>2. payment' \in [Payments -> Row]
    <3>1. [NoRow EXCEPT !.source = "MANUAL_OWNER", !.status = "PAID",
                        !.amount = req[r].amount] \in Row
      BY <1>m DEF NoRow, Row, Sources, PaymentStatuses
    <3>2. QED
      BY <1>0, <2>1, <3>1
  <2>3. credits' \in [Payments -> Nat]
    BY <1>0, <2>1, CreditsType DEF Fresh
  <2>4. entry' \in Entry
    <3>1. entry' = Credited(req[r].paid + req[r].amount)
      BY <1>3 DEF CreateManualWrite
    <3>2. QED
      BY <1>0, <1>m, <3>1, CreditType
  <2>5. stale' \in BOOLEAN
    BY <1>0, <1>3 DEF CreateManualWrite, StaleEntry
  <2>6. req' \in [Requests -> Memory]
    BY <1>0, <1>3, DoneType DEF CreateManualWrite
  <2>7. QED
    BY <2>2, <2>3, <2>4, <2>5, <2>6
<1>4. CASE DeclarationCreate(r)
  <2>1. PICK p \in Fresh, a \in Amounts :
          payment' = [payment EXCEPT ![p] =
            [NoRow EXCEPT !.source = "TENANT_DECLARATION",
                          !.status = "PENDING_CONFIRMATION", !.amount = a]]
    BY <1>4 DEF DeclarationCreate
  <2>2. [NoRow EXCEPT !.source = "TENANT_DECLARATION",
                      !.status = "PENDING_CONFIRMATION", !.amount = a] \in Row
    BY AmountsAssumption DEF NoRow, Row, Sources, PaymentStatuses
  <2>3. QED
    BY <1>0, <1>4, <2>1, <2>2 DEF DeclarationCreate
<1>5. CASE UpdateWrite(r)
  <2>1. PICK a \in Amounts :
          payment' = [payment EXCEPT ![req[r].pay].amount = a]
    BY <1>5 DEF UpdateWrite
  <2>2. payment' \in [Payments -> Row]
    <3>1. \A row \in Row : [row EXCEPT !.amount = a] \in Row
      BY AmountsAssumption DEF Row
    <3>2. QED
      BY <1>0, <2>1, <3>1
  <2>3. req' \in [Requests -> Memory]
    BY <1>0, <1>5, DoneType DEF UpdateWrite
  <2>4. QED
    BY <1>0, <1>5, <2>2, <2>3 DEF UpdateWrite, StaleRow
<1>6. CASE CancelWrite(r) \/ RejectWrite(r)
  <2>1. PICK s \in {"DELETED", "REJECTED"} :
          payment' = [payment EXCEPT ![req[r].pay].status = s]
    BY <1>6 DEF CancelWrite, RejectWrite
  <2>2. payment' \in [Payments -> Row]
    BY <1>0, <2>1 DEF Row, PaymentStatuses
  <2>3. req' \in [Requests -> Memory]
    BY <1>0, <1>6, DoneType DEF CancelWrite, RejectWrite
  <2>4. QED
    BY <1>0, <1>6, <2>2, <2>3 DEF CancelWrite, RejectWrite, StaleRow
<1>7. CASE ConfirmWrite(r)
  <2>1. payment' \in [Payments -> Row]
    BY <1>0, <1>7 DEF ConfirmWrite, Row, PaymentStatuses
  <2>2. credits' \in [Payments -> Nat]
    BY <1>0, <1>7, CreditsType DEF ConfirmWrite
  <2>3. entry' \in Entry
    <3>1. entry' = Credited(req[r].paid + req[r].amount)
      BY <1>7 DEF ConfirmWrite
    <3>2. QED
      BY <1>0, <1>m, <3>1, CreditType
  <2>4. stale' \in BOOLEAN
    BY <1>0, <1>7 DEF ConfirmWrite, StaleEntry, StaleRow
  <2>5. req' \in [Requests -> Memory]
    BY <1>0, <1>7, DoneType DEF ConfirmWrite
  <2>6. QED
    BY <2>1, <2>2, <2>3, <2>4, <2>5
<1>8. CASE Fail(r)
  BY <1>0, <1>8, DoneType DEF Fail
<1>9. QED
  BY <1>r, <1>1, <1>2, <1>3, <1>4, <1>5, <1>6, <1>7, <1>8

-----------------------------------------------------------------------------
(* The invariant.                                                          *)

\* A row not used yet is empty; a reference is of an invoice issued for the
\* row, which is then PayDunya's and in one of its three statuses.
Rows ==
  \A p \in Payments :
    /\ payment[p].status = "NONE" => payment[p] = NoRow /\ credits[p] = 0
    /\ Paydunya(p) => payment[p].status \in {"PENDING", "PAID", "REJECTED"}
    /\ payment[p].token # NoToken =>
         /\ Paydunya(p)
         /\ invoice[payment[p].token].status # "none"
         /\ invoice[payment[p].token].pay = p

\* People decide on rows that are not PayDunya's.
Requested ==
  \A r \in Requests :
    req[r].op \in {"update", "cancel", "confirm", "reject"} =>
      /\ req[r].pay \in Payments /\ ~Paydunya(req[r].pay)
      /\ payment[req[r].pay].status # "NONE"

\* A start is about a row of PayDunya's, then about an invoice it issued.
Started ==
  \A i \in Initiators :
    /\ start[i].pc \in {"reuse", "invoice", "persist"} =>
         start[i].pay \in Payments /\ Paydunya(start[i].pay)
    /\ start[i].pc = "persist" =>
         /\ start[i].token \in Tokens
         /\ invoice[start[i].token].status # "none"
         /\ invoice[start[i].token].pay = start[i].pay

\* A reconciliation is about a row of PayDunya's and an invoice issued for
\* it, of which it only believes what is final.
Reconciled ==
  \A c \in Reconcilers :
    /\ rec[c].pc # "idle" =>
         rec[c].pay \in Payments /\ Paydunya(rec[c].pay)
    /\ rec[c].pc \in {"ask", "apply"} =>
         /\ rec[c].token \in Tokens
         /\ invoice[rec[c].token].status # "none"
         /\ invoice[rec[c].token].pay = rec[c].pay
    /\ rec[c].pc = "apply" /\ rec[c].seen # "pending" =>
         invoice[rec[c].token].status = rec[c].seen

IInv ==
  /\ TypeOK /\ Rows /\ Requested /\ Started /\ Reconciled
  /\ PaydunyaCreditedOnce /\ CreditedOnlyIfCollected

-----------------------------------------------------------------------------
(* The types of the collection.                                            *)

LEMMA FeeType ==
  ASSUME NEW rent \in Nat
  PROVE  ComputeTenantFee(rent) \in Nat
<1>1. rent * FeePercent \in Nat
  BY FeeAssumption
<1>2. QED
  BY <1>1, FeeAssumption DEF ComputeTenantFee

\* A call forgets what it knew when it ends.
LEMMA EndType ==
  /\ StartIdle \in StartMemory
  /\ RecIdle \in RecMemory
BY DEF StartIdle, StartMemory, StartSteps, RecIdle, RecMemory, RecSteps,
       InvoiceStatuses

\* The calls to startPaydunyaPayment.
LEMMA StartType ==
  ASSUME TypeOK, Started, NEW i \in Initiators, StartStep(i)
  PROVE  /\ payment' \in [Payments -> Row]
         /\ start' \in [Initiators -> StartMemory]
         /\ invoice' \in [Tokens -> Invoice] /\ shown' \subseteq Tokens
         /\ crossed' \in BOOLEAN
         /\ UNCHANGED <<entry, req, credits, stale, rec>>
<1>0. /\ entry \in Entry /\ payment \in [Payments -> Row]
      /\ invoice \in [Tokens -> Invoice] /\ shown \subseteq Tokens
      /\ start \in [Initiators -> StartMemory] /\ start[i].rest \in Nat
      /\ crossed \in BOOLEAN
  BY DEF TypeOK, StartMemory
<1>f. ComputeTenantFee(start[i].rest) \in Nat
  BY <1>0, FeeType
<1>d. StartDone(i) => start' \in [Initiators -> StartMemory]
  BY <1>0, EndType DEF StartDone
<1>1. CASE StartRead(i)
  <2>1. Expected - entry.paid \in Nat
    BY <1>0, <1>1, ExpectedAssumption DEF StartRead, Entry
  <2>2. start' = [start EXCEPT ![i].pc = "find",
                               ![i].rest = Expected - entry.paid]
    BY <1>1 DEF StartRead
  <2>3. start' \in [Initiators -> StartMemory]
    BY <1>0, <2>1, <2>2 DEF StartMemory, StartSteps
  <2>4. QED
    BY <1>0, <1>1, <2>3 DEF StartRead, ledgerVars, providerVars
<1>2. CASE FindExisting(i)
  <2>1. CASE \E p \in PendingPaydunya : Replay(i, p)
    <3>1. PICK p \in Payments : Replay(i, p)
      BY <2>1 DEF PendingPaydunya
    <3>2. shown' \subseteq Tokens /\ start' \in [Initiators -> StartMemory]
      BY <1>0, <1>d, <3>1 DEF Replay, Row
    <3>3. QED
      BY <1>0, <1>2, <3>1, <3>2 DEF FindExisting, Replay, ledgerVars
  <2>2. CASE \E p \in PendingPaydunya : Reuse(i, p)
    <3>1. PICK p \in Payments : Reuse(i, p)
      BY <2>2 DEF PendingPaydunya
    <3>2. start' \in [Initiators -> StartMemory]
      <4>1. start' = [start EXCEPT ![i] =
              [start[i] EXCEPT !.pc = "reuse", !.pay = p]]
        BY <1>0, <3>1 DEF Reuse, StartMemory
      <4>2. [start[i] EXCEPT !.pc = "reuse", !.pay = p] \in StartMemory
        BY <1>0, <3>1 DEF StartMemory, StartSteps
      <4>3. QED
        BY <1>0, <4>1, <4>2
    <3>3. QED
      BY <1>0, <1>2, <3>1, <3>2 DEF FindExisting, Reuse, ledgerVars
  <2>3. CASE Goto(i, "create") /\ UNCHANGED <<shown, crossed>>
    <3>1. start' \in [Initiators -> StartMemory]
      BY <1>0, <2>3 DEF Goto, StartMemory, StartSteps
    <3>2. QED
      BY <1>0, <1>2, <2>3, <3>1 DEF FindExisting, ledgerVars
  <2>4. QED
    BY <1>2, <2>1, <2>2, <2>3 DEF FindExisting
<1>3. CASE ReuseOrphan(i)
  <2>1. payment' \in [Payments -> Row]
    <3>1. start[i].pay \in Payments
      BY <1>3 DEF ReuseOrphan, Started
    <3>2. payment' = [payment EXCEPT ![start[i].pay] =
            [payment[start[i].pay] EXCEPT
               !.amount = start[i].rest,
               !.fee = ComputeTenantFee(start[i].rest)]]
      BY <1>0, <1>3, <3>1 DEF ReuseOrphan, Row
    <3>3. [payment[start[i].pay] EXCEPT
             !.amount = start[i].rest,
             !.fee = ComputeTenantFee(start[i].rest)] \in Row
      BY <1>0, <1>f, <3>1 DEF Row
    <3>4. QED
      BY <1>0, <3>1, <3>2, <3>3
  <2>2. start' \in [Initiators -> StartMemory]
    BY <1>0, <1>3 DEF ReuseOrphan, Goto, StartMemory, StartSteps
  <2>3. QED
    BY <1>0, <1>3, <2>1, <2>2 DEF ReuseOrphan, providerVars
<1>4. CASE CreatePending(i)
  <2>1. CASE IndexAdmits
    <3>1. PICK p \in Fresh :
             /\ payment' = [payment EXCEPT ![p] =
                  [NoRow EXCEPT !.source = "PAYDUNYA_API", !.status = "PENDING",
                                !.amount = start[i].rest,
                                !.fee = ComputeTenantFee(start[i].rest)]]
             /\ start' = [start EXCEPT ![i].pc = "invoice", ![i].pay = p,
                                       ![i].fresh = TRUE]
      BY <1>4, <2>1 DEF CreatePending
    <3>2. [NoRow EXCEPT !.source = "PAYDUNYA_API", !.status = "PENDING",
                        !.amount = start[i].rest,
                        !.fee = ComputeTenantFee(start[i].rest)] \in Row
      BY <1>0, <1>f DEF NoRow, Row, Sources, PaymentStatuses
    <3>3. start' \in [Initiators -> StartMemory]
      <4>1. start' = [start EXCEPT ![i] =
              [start[i] EXCEPT !.pc = "invoice", !.pay = p, !.fresh = TRUE]]
        BY <1>0, <3>1 DEF StartMemory
      <4>2. [start[i] EXCEPT !.pc = "invoice", !.pay = p, !.fresh = TRUE]
              \in StartMemory
        BY <1>0, <3>1 DEF Fresh, StartMemory, StartSteps
      <4>3. QED
        BY <1>0, <4>1, <4>2
    <3>4. QED
      BY <1>0, <1>4, <3>1, <3>2, <3>3 DEF CreatePending, providerVars
  <2>2. CASE ~IndexAdmits
    BY <1>0, <1>4, <1>d, <2>2 DEF CreatePending, providerVars
  <2>3. QED
    BY <2>1, <2>2
<1>5. CASE CreateInvoice(i)
  <2>1. PICK t \in Unused :
          /\ invoice' = [invoice EXCEPT ![t] =
               [status |-> "pending", pay |-> start[i].pay,
                total |-> start[i].rest + ComputeTenantFee(start[i].rest)]]
          /\ start' = [start EXCEPT ![i].pc = "persist", ![i].token = t]
    BY <1>5 DEF CreateInvoice
  <2>2. [status |-> "pending", pay |-> start[i].pay,
         total |-> start[i].rest + ComputeTenantFee(start[i].rest)] \in Invoice
    BY <1>0, <1>f DEF Invoice, InvoiceStatuses, StartMemory
  <2>3. start' \in [Initiators -> StartMemory]
    <3>1. start' = [start EXCEPT ![i] =
            [start[i] EXCEPT !.pc = "persist", !.token = t]]
      BY <1>0, <2>1 DEF StartMemory
    <3>2. [start[i] EXCEPT !.pc = "persist", !.token = t] \in StartMemory
      BY <1>0, <2>1 DEF Unused, StartMemory, StartSteps
    <3>3. QED
      BY <1>0, <3>1, <3>2
  <2>4. QED
    BY <1>0, <1>5, <2>1, <2>2, <2>3 DEF CreateInvoice, ledgerVars
<1>6. CASE PersistReference(i)
  <2>1. start[i].token \in Tokens
    BY <1>6 DEF PersistReference, Started
  <2>2. payment' \in [Payments -> Row]
    BY <1>0, <1>6, <2>1 DEF PersistReference, Row
  <2>3. QED
    BY <1>0, <1>6, <1>d, <2>1, <2>2 DEF PersistReference
<1>7. CASE StartFail(i)
  BY <1>0, <1>7, <1>d DEF StartFail, ledgerVars, providerVars
<1>8. QED
  BY <1>1, <1>2, <1>3, <1>4, <1>5, <1>6, <1>7 DEF StartStep

\* The calls to reconcilePaydunyaPayment.
LEMMA RecType ==
  ASSUME TypeOK, Rows, Reconciled, NEW c \in Reconcilers,
         \/ ReconcileRead(c) \/ ReconcileOrphan(c) \/ AskProvider(c)
         \/ ApplyCompleted(c) \/ ApplyUnpaid(c) \/ ReconcileFail(c)
  PROVE  /\ payment' \in [Payments -> Row] /\ entry' \in Entry
         /\ rec' \in [Reconcilers -> RecMemory]
         /\ credits' \in [Payments -> Nat]
         /\ UNCHANGED <<req, stale, invoice, shown, crossed, start>>
<1>0. /\ entry \in Entry /\ payment \in [Payments -> Row]
      /\ credits \in [Payments -> Nat] /\ invoice \in [Tokens -> Invoice]
      /\ rec \in [Reconcilers -> RecMemory]
  BY DEF TypeOK
<1>d. RecDone(c) => rec' \in [Reconcilers -> RecMemory]
  BY <1>0, EndType DEF RecDone
<1>s. ASSUME NEW s \in {"REJECTED", "PAID"}, NEW p \in Payments
      PROVE  [payment EXCEPT ![p].status = s] \in [Payments -> Row]
  BY <1>0 DEF Row, PaymentStatuses
<1>1. CASE ReconcileRead(c)
  <2>1. PICK p \in Payments :
          rec' = [rec EXCEPT ![c] =
            [RecIdle EXCEPT
              !.pc = IF payment[p].token = NoToken THEN "orphan" ELSE "ask",
              !.pay = p, !.token = payment[p].token, !.old = payment[p].old,
              !.amount = payment[p].amount, !.fee = payment[p].fee]]
    BY <1>1 DEF ReconcileRead, PendingPaydunya
  <2>2. payment[p] \in Row
    BY <1>0
  <2>3. [RecIdle EXCEPT
              !.pc = IF payment[p].token = NoToken THEN "orphan" ELSE "ask",
              !.pay = p, !.token = payment[p].token, !.old = payment[p].old,
              !.amount = payment[p].amount, !.fee = payment[p].fee]
          \in RecMemory
    BY <2>2 DEF Row, RecIdle, RecMemory, RecSteps, InvoiceStatuses
  <2>4. QED
    BY <1>0, <1>1, <2>1, <2>3 DEF ReconcileRead, ledgerVars, providerVars
<1>2. CASE ReconcileOrphan(c)
  <2>1. rec[c].pay \in Payments
    BY <1>2 DEF ReconcileOrphan, Reconciled
  <2>2. payment' \in [Payments -> Row]
    BY <1>0, <1>2, <2>1 DEF ReconcileOrphan, RejectPending, Row, PaymentStatuses
  <2>3. QED
    BY <1>0, <1>2, <1>d, <2>2 DEF ReconcileOrphan, providerVars
<1>3. CASE AskProvider(c)
  <2>1. PICK n \in {0, invoice[rec[c].token].total} :
          rec' = [rec EXCEPT ![c].pc = "apply", ![c].total = n,
                             ![c].seen = invoice[rec[c].token].status]
    BY <1>3 DEF AskProvider
  <2>2. /\ invoice[rec[c].token] \in Invoice
        /\ invoice[rec[c].token].status # "none"
    BY <1>0, <1>3 DEF AskProvider, Reconciled
  <2>3. [rec[c] EXCEPT !.pc = "apply", !.total = n,
                       !.seen = invoice[rec[c].token].status] \in RecMemory
    <3>1. n \in Nat /\ invoice[rec[c].token].status \in InvoiceStatuses
      BY <2>2 DEF Invoice
    <3>2. rec[c] \in RecMemory
      BY <1>0
    <3>3. QED
      BY <3>1, <3>2 DEF RecMemory, RecSteps
  <2>4. rec' = [rec EXCEPT ![c] =
          [rec[c] EXCEPT !.pc = "apply", !.total = n,
                         !.seen = invoice[rec[c].token].status]]
    BY <1>0, <2>1 DEF RecMemory
  <2>5. rec' \in [Reconcilers -> RecMemory]
    BY <1>0, <2>3, <2>4
  <2>6. QED
    BY <1>0, <1>3, <2>5 DEF AskProvider, ledgerVars, providerVars
<1>4. CASE ApplyCompleted(c)
  <2>1. RentOf(c) \in Nat /\ rec[c].pay \in Payments
    BY <1>0, <1>4 DEF ApplyCompleted, Reconciled, RentOf, RecMemory
  <2>2. entry.paid + RentOf(c) \in Nat
    BY <1>0, <2>1 DEF Entry
  <2>3. Credited(entry.paid + RentOf(c)) \in Entry
    BY <1>0, <2>2, CreditType
  <2>4. CASE StillPending(rec[c].pay)
    <3>1. payment' = [payment EXCEPT ![rec[c].pay].status = "PAID",
                                     ![rec[c].pay].amount = RentOf(c)]
      BY <1>4, <2>4 DEF ApplyCompleted
    <3>2. payment' \in [Payments -> Row]
      BY <1>0, <2>1, <3>1 DEF Row, PaymentStatuses
    <3>3. credits' \in [Payments -> Nat]
      BY <1>0, <1>4, <2>4, CreditsType DEF ApplyCompleted
    <3>4. QED
      BY <1>0, <1>4, <1>d, <2>3, <2>4, <3>2, <3>3
      DEF ApplyCompleted, providerVars
  <2>5. CASE ~StillPending(rec[c].pay)
    BY <1>0, <1>4, <1>d, <2>5 DEF ApplyCompleted, providerVars
  <2>6. QED
    BY <2>4, <2>5
<1>5. CASE ApplyUnpaid(c)
  <2>1. rec[c].pay \in Payments
    BY <1>5 DEF ApplyUnpaid, Reconciled
  <2>2. payment' \in [Payments -> Row]
    BY <1>0, <1>5, <2>1 DEF ApplyUnpaid, RejectPending, Row, PaymentStatuses
  <2>3. QED
    BY <1>0, <1>5, <1>d, <2>2 DEF ApplyUnpaid, providerVars
<1>6. CASE ReconcileFail(c)
  BY <1>0, <1>6, <1>d DEF ReconcileFail, ledgerVars, providerVars
<1>7. QED
  BY <1>1, <1>2, <1>3, <1>4, <1>5, <1>6

\* The task of the overdue alerts.
LEMMA OverdueType ==
  ASSUME TypeOK, OverdueNext
  PROVE  /\ entry' \in Entry /\ run' \in [Runs -> RunMemory] /\ sent' \in Nat
         /\ UNCHANGED <<payment, req, credits, stale>>
<1>0. /\ entry \in Entry /\ run \in [Runs -> RunMemory] /\ sent \in Nat
      /\ RunIdle \in RunMemory
  BY DEF TypeOK, RunIdle, RunMemory, RunSteps
<1>k. PICK k \in Runs :
        \/ OverdueRead(k) \/ AlertAgency(k) \/ MarkOverdue(k) \/ OutOfHours(k)
        \/ ReserveReminder(k) \/ SendReminder(k) \/ RunCrash(k)
  BY DEF OverdueNext
<1>1. /\ RunDone(k) => run' \in [Runs -> RunMemory]
      /\ \A step \in RunSteps : Goes(k, step) => run' \in [Runs -> RunMemory]
  BY <1>0 DEF RunDone, Goes, RunMemory
<1>2. AfterAgency(k) => run' \in [Runs -> RunMemory]
  BY <1>1 DEF AfterAgency, RunSteps
<1>3. CASE OverdueRead(k)
  BY <1>0, <1>3 DEF OverdueRead, RunMemory, RunSteps, ledgerVars
<1>4. CASE AlertAgency(k)
  BY <1>0, <1>1, <1>2, <1>4 DEF AlertAgency, RunSteps, ledgerVars
<1>5. CASE MarkOverdue(k)
  BY <1>0, <1>2, <1>5 DEF MarkOverdue, Entry, EntryStatuses
<1>6. CASE OutOfHours(k) \/ RunCrash(k)
  BY <1>0, <1>1, <1>6 DEF OutOfHours, RunCrash, ledgerVars
<1>7. CASE ReserveReminder(k)
  BY <1>0, <1>1, <1>7 DEF ReserveReminder, RunSteps, Entry
<1>8. CASE SendReminder(k)
  <2>1. CASE sent' = sent + 1 /\ UNCHANGED entry
    BY <1>0, <1>1, <1>8, <2>1 DEF SendReminder
  <2>2. CASE entry' = [entry EXCEPT !.reminded = FALSE] /\ UNCHANGED sent
    BY <1>0, <1>1, <1>8, <2>2 DEF SendReminder, Entry
  <2>3. QED
    BY <1>8, <2>1, <2>2 DEF SendReminder
<1>9. QED
  BY <1>k, <1>3, <1>4, <1>5, <1>6, <1>7, <1>8

\* What the provider settles, and the days that pass.
LEMMA OutsideType ==
  ASSUME TypeOK,
         \/ \E t \in Tokens : InvoiceSettled(t)
         \/ \E p \in Payments : GrowOld(p)
  PROVE  /\ payment' \in [Payments -> Row] /\ invoice' \in [Tokens -> Invoice]
         /\ UNCHANGED <<entry, req, credits, stale, shown, crossed, start, rec>>
<1>0. payment \in [Payments -> Row] /\ invoice \in [Tokens -> Invoice]
  BY DEF TypeOK
<1>1. CASE \E t \in Tokens : InvoiceSettled(t)
  BY <1>0, <1>1 DEF InvoiceSettled, Invoice, InvoiceStatuses, ledgerVars
<1>2. CASE \E p \in Payments : GrowOld(p)
  <2>1. PICK p \in Payments : GrowOld(p)
    BY <1>2
  <2>2. payment' \in [Payments -> Row]
    <3>1. payment' = [payment EXCEPT ![p].old = TRUE]
      BY <2>1 DEF GrowOld
    <3>2. [payment[p] EXCEPT !.old = TRUE] \in Row
      BY <1>0 DEF Row
    <3>3. QED
      BY <1>0, <3>1, <3>2
  <2>3. QED
    BY <1>0, <2>1, <2>2 DEF GrowOld, collectionVars, providerVars
<1>3. QED
  BY <1>1, <1>2

\* The steps of the collection, by actor.
LEMMA CollectionSteps ==
  ASSUME CollectionNext
  PROVE  \/ \E i \in Initiators : StartStep(i)
         \/ \E c \in Reconcilers :
              \/ ReconcileRead(c) \/ ReconcileOrphan(c) \/ AskProvider(c)
              \/ ApplyCompleted(c) \/ ApplyUnpaid(c) \/ ReconcileFail(c)
         \/ \E t \in Tokens : InvoiceSettled(t)
         \/ \E p \in Payments : GrowOld(p)
BY DEF CollectionNext, StartStep

\* Every step keeps the types.
LEMMA TypeStep ==
  ASSUME TypeOK, Rows, Started, Reconciled, [Next]_vars
  PROVE  TypeOK'
<1>1. CASE PeopleStep
  BY <1>1, PeopleType
  DEF PeopleStep, collectionVars, providerVars, overdueVars, TypeOK
<1>2. CASE PaydunyaStep
  <2>0. UNCHANGED <<run, sent>>
    BY <1>2 DEF PaydunyaStep, overdueVars
  <2>1. CASE \E i \in Initiators : StartStep(i)
    BY <2>0, <2>1, StartType DEF TypeOK
  <2>2. CASE \E c \in Reconcilers :
              \/ ReconcileRead(c) \/ ReconcileOrphan(c) \/ AskProvider(c)
              \/ ApplyCompleted(c) \/ ApplyUnpaid(c) \/ ReconcileFail(c)
    BY <2>0, <2>2, RecType DEF TypeOK
  <2>3. CASE \/ \E t \in Tokens : InvoiceSettled(t)
             \/ \E p \in Payments : GrowOld(p)
    BY <2>0, <2>3, OutsideType DEF TypeOK
  <2>4. QED
    BY <1>2, <2>1, <2>2, <2>3, CollectionSteps DEF PaydunyaStep
<1>3. CASE OverdueStep
  BY <1>3, OverdueType DEF OverdueStep, collectionVars, providerVars, TypeOK
<1>4. CASE UNCHANGED vars
  BY <1>4
  DEF vars, ledgerVars, collectionVars, providerVars, overdueVars, TypeOK
<1>5. QED
  BY <1>1, <1>2, <1>3, <1>4 DEF Next

-----------------------------------------------------------------------------
(* What one step may do to a row, and to an invoice.                       *)

\* A person wrote a row that is not PayDunya's.
ByPerson(p) ==
  /\ ~Paydunya(p) /\ payment'[p].source # "PAYDUNYA_API"
  /\ payment'[p].status # "NONE" /\ payment'[p].token = NoToken

\* A start created the row, the index having found none in progress.
Created(p) ==
  /\ PendingPaydunya = {}
  /\ \A q \in Payments : q # p => payment'[q] = payment[q]
  /\ payment[p].status = "NONE" /\ credits'[p] = credits[p]
  /\ payment'[p].source = "PAYDUNYA_API" /\ payment'[p].status = "PENDING"
  /\ payment'[p].token = NoToken /\ ~payment'[p].old

\* A row of PayDunya's stays one, and gets no younger.
OfPaydunya(p) ==
  /\ Paydunya(p) /\ payment'[p].source = "PAYDUNYA_API"
  /\ payment[p].old => payment'[p].old

\* Its amount, its fee or its age moved.
Edited(p) ==
  /\ OfPaydunya(p) /\ credits'[p] = credits[p]
  /\ payment'[p].status = payment[p].status
  /\ payment'[p].token = payment[p].token

\* A start wrote its reference.
Referenced(p) ==
  /\ OfPaydunya(p) /\ credits'[p] = credits[p]
  /\ payment'[p].status = payment[p].status
  /\ payment'[p].old = payment[p].old
  /\ \E i \in Initiators :
       /\ PersistReference(i) /\ start[i].pay = p
       /\ payment'[p].token = start[i].token

\* A reconciliation rejected it, or credited it.
Rejected(p) ==
  /\ OfPaydunya(p) /\ credits'[p] = credits[p]
  /\ payment[p].status = "PENDING" /\ payment'[p].status = "REJECTED"
  /\ payment'[p].token = payment[p].token
  /\ \E c \in Reconcilers :
       (ReconcileOrphan(c) \/ ApplyUnpaid(c)) /\ rec[c].pay = p

Collected(p) ==
  /\ OfPaydunya(p) /\ credits'[p] = credits[p] + 1
  /\ payment[p].status = "PENDING" /\ payment'[p].status = "PAID"
  /\ payment'[p].token = payment[p].token
  /\ \E t \in Tokens : invoice'[t].status = "completed" /\ invoice'[t].pay = p
  /\ \E c \in Reconcilers : ApplyCompleted(c) /\ rec[c].pay = p

RowStep(p) ==
  \/ payment'[p] = payment[p] /\ credits'[p] = credits[p]
  \/ ByPerson(p) \/ Created(p) \/ Edited(p) \/ Referenced(p)
  \/ Rejected(p) \/ Collected(p)

\* An invoice is issued, then settled once.
InvoiceStep(t) ==
  \/ invoice'[t] = invoice[t]
  \/ invoice[t].status = "none" /\ invoice'[t].status = "pending"
  \/ /\ t \in shown
     /\ invoice[t].status = "pending" /\ invoice'[t].pay = invoice[t].pay
     /\ invoice'[t].total = invoice[t].total
     /\ invoice'[t].status \in {"completed", "cancelled", "failed"}

\* People never touch a row of PayDunya's.
LEMMA PeopleRows ==
  ASSUME TypeOK, Rows, Requested, LedgerNext, NEW p \in Payments
  PROVE  RowStep(p)
<1>0. /\ payment \in [Payments -> Row] /\ credits \in [Payments -> Nat]
      /\ payment[p] \in Row
  BY DEF TypeOK
<1>n. ~Paydunya(p) => payment[p].token = NoToken
  BY DEF Rows
<1>r. PICK r \in Requests :
        \/ CreateManualRead(r) \/ CreateManualWrite(r)
        \/ DeclarationCreate(r)
        \/ UpdateRead(r) \/ UpdateWrite(r)
        \/ CancelRead(r) \/ CancelWrite(r)
        \/ ConfirmRead(r) \/ ConfirmWrite(r)
        \/ RejectRead(r) \/ RejectWrite(r)
        \/ Fail(r)
  BY DEF LedgerNext
<1>1. CASE \/ CreateManualRead(r) \/ UpdateRead(r) \/ CancelRead(r)
           \/ ConfirmRead(r) \/ RejectRead(r) \/ Fail(r)
  BY <1>1 DEF CreateManualRead, UpdateRead, CancelRead, ConfirmRead, RejectRead,
              Fail, Begin, RowStep
<1>2. CASE CreateManualWrite(r)
  <2>1. PICK q \in Fresh :
          /\ payment' = [payment EXCEPT ![q] =
               [NoRow EXCEPT !.source = "MANUAL_OWNER", !.status = "PAID",
                             !.amount = req[r].amount]]
          /\ credits' = [credits EXCEPT ![q] = @ + 1]
    BY <1>2 DEF CreateManualWrite
  <2>2. CASE p = q
    <3>1. ~Paydunya(p)
      BY <2>2 DEF Fresh, Rows, NoRow, Paydunya
    <3>2. QED
      BY <1>0, <2>1, <2>2, <3>1 DEF NoRow, RowStep, ByPerson
  <2>3. CASE p # q
    BY <1>0, <2>1, <2>3 DEF RowStep
  <2>4. QED
    BY <2>2, <2>3
<1>3. CASE DeclarationCreate(r)
  <2>1. PICK q \in Fresh, a \in Amounts :
          payment' = [payment EXCEPT ![q] =
            [NoRow EXCEPT !.source = "TENANT_DECLARATION",
                          !.status = "PENDING_CONFIRMATION", !.amount = a]]
    BY <1>3 DEF DeclarationCreate
  <2>2. CASE p = q
    <3>1. ~Paydunya(p)
      BY <2>2 DEF Fresh, Rows, NoRow, Paydunya
    <3>2. QED
      BY <1>0, <2>1, <2>2, <3>1 DEF NoRow, RowStep, ByPerson
  <2>3. CASE p # q
    BY <1>0, <1>3, <2>1, <2>3 DEF DeclarationCreate, RowStep
  <2>4. QED
    BY <2>2, <2>3
<1>4. CASE UpdateWrite(r) \/ CancelWrite(r) \/ ConfirmWrite(r) \/ RejectWrite(r)
  <2>1. /\ req[r].pay \in Payments /\ ~Paydunya(req[r].pay)
        /\ payment[req[r].pay].status # "NONE"
    BY <1>4 DEF UpdateWrite, CancelWrite, ConfirmWrite, RejectWrite, Requested
  <2>2. CASE p # req[r].pay
    BY <1>0, <1>4, <2>1, <2>2
    DEF UpdateWrite, CancelWrite, ConfirmWrite, RejectWrite, RowStep
  <2>3. CASE p = req[r].pay
    <3>1. \/ \E a \in Amounts : payment' = [payment EXCEPT ![p].amount = a]
          \/ \E s \in {"DELETED", "PAID", "REJECTED"} :
               payment' = [payment EXCEPT ![p].status = s]
      BY <1>4, <2>3 DEF UpdateWrite, CancelWrite, ConfirmWrite, RejectWrite
    <3>2. payment'[p].source = payment[p].source /\ payment'[p].status # "NONE"
          /\ payment'[p].token = payment[p].token
      <4>1. CASE \E a \in Amounts : payment' = [payment EXCEPT ![p].amount = a]
        BY <1>0, <2>1, <2>3, <4>1 DEF Row
      <4>2. CASE \E s \in {"DELETED", "PAID", "REJECTED"} :
                   payment' = [payment EXCEPT ![p].status = s]
        BY <1>0, <2>1, <2>3, <4>2 DEF Row
      <4>3. QED
        BY <3>1, <4>1, <4>2
    <3>3. QED
      BY <1>n, <2>1, <2>3, <3>2 DEF RowStep, ByPerson, Paydunya
  <2>4. QED
    BY <2>2, <2>3
<1>5. QED
  BY <1>r, <1>1, <1>2, <1>3, <1>4

\* A start creates a row, edits it, or writes its reference.
LEMMA StartRows ==
  ASSUME TypeOK, Rows, Started, NEW i \in Initiators, StartStep(i),
         NEW p \in Payments
  PROVE  RowStep(p)
<1>0. /\ payment \in [Payments -> Row] /\ credits' = credits
      /\ payment[p] \in Row
  BY StartType DEF TypeOK
<1>1. CASE \/ StartRead(i) \/ FindExisting(i) \/ CreateInvoice(i)
           \/ StartFail(i)
  BY <1>1 DEF StartRead, FindExisting, CreateInvoice, StartFail, ledgerVars,
              RowStep
<1>2. CASE ReuseOrphan(i)
  <2>1. start[i].pay \in Payments /\ Paydunya(start[i].pay)
    BY <1>2 DEF ReuseOrphan, Started
  <2>2. CASE p = start[i].pay
    BY <1>0, <1>2, <2>1, <2>2
    DEF ReuseOrphan, Row, RowStep, Edited, OfPaydunya, Paydunya
  <2>3. CASE p # start[i].pay
    BY <1>0, <1>2, <2>1, <2>3 DEF ReuseOrphan, RowStep
  <2>4. QED
    BY <2>2, <2>3
<1>3. CASE CreatePending(i)
  <2>1. CASE UNCHANGED payment
    BY <1>0, <2>1 DEF RowStep
  <2>2. CASE \E q \in Fresh :
               /\ IndexAdmits
               /\ payment' = [payment EXCEPT ![q] =
                  [NoRow EXCEPT !.source = "PAYDUNYA_API", !.status = "PENDING",
                                !.amount = start[i].rest,
                                !.fee = ComputeTenantFee(start[i].rest)]]
    BY <1>0, <2>2 DEF Fresh, NoRow, RowStep, Created, IndexAdmits
  <2>3. QED
    BY <1>3, <2>1, <2>2 DEF CreatePending
<1>4. CASE PersistReference(i)
  <2>1. start[i].pay \in Payments /\ Paydunya(start[i].pay)
    BY <1>4 DEF PersistReference, Started
  <2>e. payment' = [payment EXCEPT ![start[i].pay].token = start[i].token]
    BY <1>4 DEF PersistReference
  <2>2. CASE p = start[i].pay
    <3>1. /\ payment'[p].source = payment[p].source
          /\ payment'[p].status = payment[p].status
          /\ payment'[p].old = payment[p].old
          /\ payment'[p].token = start[i].token
      BY <1>0, <2>e, <2>2 DEF Row
    <3>2. QED
      BY <1>0, <1>4, <2>1, <2>2, <3>1
      DEF RowStep, Referenced, OfPaydunya, Paydunya
  <2>3. CASE p # start[i].pay
    BY <1>0, <2>e, <2>1, <2>3 DEF RowStep
  <2>4. QED
    BY <2>2, <2>3
<1>5. QED
  BY <1>1, <1>2, <1>3, <1>4 DEF StartStep

\* A reconciliation settles a row still pending; the credit is of an invoice
\* that was collected.
LEMMA RecRows ==
  ASSUME TypeOK, Rows, Reconciled, NEW c \in Reconcilers,
         \/ ReconcileRead(c) \/ ReconcileOrphan(c) \/ AskProvider(c)
         \/ ApplyCompleted(c) \/ ApplyUnpaid(c) \/ ReconcileFail(c),
         NEW p \in Payments
  PROVE  RowStep(p)
<1>0. /\ payment \in [Payments -> Row] /\ credits \in [Payments -> Nat]
      /\ payment[p] \in Row
  BY DEF TypeOK
<1>1. CASE ReconcileRead(c) \/ AskProvider(c) \/ ReconcileFail(c)
  BY <1>1 DEF ReconcileRead, AskProvider, ReconcileFail, ledgerVars, RowStep
<1>2. CASE ReconcileOrphan(c) \/ ApplyUnpaid(c)
  <2>1. rec[c].pay \in Payments /\ Paydunya(rec[c].pay)
    BY <1>2 DEF ReconcileOrphan, ApplyUnpaid, Reconciled
  <2>2. credits' = credits /\ (UNCHANGED payment \/ RejectPending(c))
    BY <1>2 DEF ReconcileOrphan, ApplyUnpaid
  <2>3. CASE RejectPending(c) /\ p = rec[c].pay /\ payment[p].status = "PENDING"
    <3>1. payment' = [payment EXCEPT ![p].status = "REJECTED"]
      BY <2>3 DEF RejectPending, StillPending
    <3>2. /\ payment'[p].source = payment[p].source
          /\ payment'[p].status = "REJECTED"
          /\ payment'[p].old = payment[p].old
          /\ payment'[p].token = payment[p].token
      BY <1>0, <3>1 DEF Row
    <3>3. QED
      BY <1>2, <2>1, <2>2, <2>3, <3>2
      DEF RowStep, Rejected, OfPaydunya, Paydunya
  <2>4. CASE \/ UNCHANGED payment
             \/ RejectPending(c) /\ p # rec[c].pay
    BY <1>0, <2>1, <2>2, <2>4 DEF RejectPending, RowStep
  <2>5. CASE RejectPending(c) /\ p = rec[c].pay /\ payment[p].status # "PENDING"
    <3>1. payment'[p] = payment[p]
      BY <1>0, <2>5 DEF RejectPending, StillPending, Row
    <3>2. QED
      BY <2>2, <3>1 DEF RowStep
  <2>6. QED
    BY <2>2, <2>3, <2>4, <2>5
<1>3. CASE ApplyCompleted(c)
  <2>1. rec[c].pay \in Payments /\ Paydunya(rec[c].pay)
    BY <1>3 DEF ApplyCompleted, Reconciled
  <2>2. CASE ~StillPending(rec[c].pay)
    BY <1>3, <2>2 DEF ApplyCompleted, RowStep
  <2>3. CASE StillPending(rec[c].pay) /\ p # rec[c].pay
    BY <1>0, <1>3, <2>1, <2>3 DEF ApplyCompleted, RowStep
  <2>4. CASE StillPending(rec[c].pay) /\ p = rec[c].pay
    <3>1. /\ payment' = [payment EXCEPT ![p].status = "PAID",
                                        ![p].amount = RentOf(c)]
          /\ credits' = [credits EXCEPT ![p] = @ + 1]
          /\ payment[p].status = "PENDING"
      BY <1>3, <2>4 DEF ApplyCompleted, StillPending
    <3>2. /\ payment'[p].source = payment[p].source
          /\ payment'[p].status = "PAID"
          /\ payment'[p].old = payment[p].old
          /\ payment'[p].token = payment[p].token
      BY <1>0, <3>1 DEF Row
    <3>3. credits'[p] = credits[p] + 1
      BY <1>0, <3>1
    <3>4. \E t \in Tokens :
            invoice'[t].status = "completed" /\ invoice'[t].pay = p
      BY <1>3, <2>4 DEF ApplyCompleted, Reconciled, providerVars
    <3>5. QED
      BY <1>3, <2>1, <2>4, <3>1, <3>2, <3>3, <3>4
      DEF RowStep, Collected, OfPaydunya, Paydunya
  <2>5. QED
    BY <2>2, <2>3, <2>4
<1>4. QED
  BY <1>1, <1>2, <1>3

\* Whatever the step, and whatever the row.
LEMMA RowLife ==
  ASSUME TypeOK, Rows, Requested, Started, Reconciled, [Next]_vars
  PROVE  \A p \in Payments : RowStep(p)
<1>s. SUFFICES ASSUME NEW p \in Payments PROVE RowStep(p)
  OBVIOUS
<1>1. CASE PeopleStep
  BY <1>1, PeopleRows DEF PeopleStep
<1>2. CASE \E i \in Initiators : StartStep(i)
  BY <1>2, StartRows
<1>3. CASE \E c \in Reconcilers :
              \/ ReconcileRead(c) \/ ReconcileOrphan(c) \/ AskProvider(c)
              \/ ApplyCompleted(c) \/ ApplyUnpaid(c) \/ ReconcileFail(c)
  BY <1>3, RecRows
<1>4. CASE \E t \in Tokens : InvoiceSettled(t)
  BY <1>4 DEF InvoiceSettled, ledgerVars, RowStep
<1>5. CASE \E q \in Payments : GrowOld(q)
  <2>1. PICK q \in Payments : GrowOld(q)
    BY <1>5
  <2>2. payment \in [Payments -> Row] /\ payment[p] \in Row
    BY DEF TypeOK
  <2>3. /\ payment' = [payment EXCEPT ![q].old = TRUE] /\ credits' = credits
        /\ Paydunya(q)
    BY <2>1 DEF GrowOld, PendingPaydunya, Paydunya
  <2>4. CASE p = q
    <3>1. payment'[p] = [payment[p] EXCEPT !.old = TRUE]
      BY <2>2, <2>3, <2>4
    <3>2. QED
      BY <2>2, <2>3, <2>4, <3>1
      DEF Row, RowStep, Edited, OfPaydunya, Paydunya
  <2>5. CASE p # q
    BY <2>2, <2>3, <2>5 DEF RowStep
  <2>6. QED
    BY <2>4, <2>5
<1>6. CASE OverdueStep
  BY <1>6, OverdueType DEF OverdueStep, RowStep
<1>7. CASE UNCHANGED vars
  BY <1>7 DEF vars, ledgerVars, RowStep
<1>8. QED
  BY <1>1, <1>2, <1>3, <1>4, <1>5, <1>6, <1>7, CollectionSteps
  DEF Next, PaydunyaStep

\* And an invoice.
LEMMA InvoiceLife ==
  ASSUME TypeOK, Rows, Started, Reconciled, [Next]_vars
  PROVE  \A t \in Tokens : InvoiceStep(t)
<1>s. SUFFICES ASSUME NEW t \in Tokens PROVE InvoiceStep(t)
  OBVIOUS
<1>0. invoice \in [Tokens -> Invoice]
  BY DEF TypeOK
<1>1. CASE PeopleStep \/ OverdueStep \/ UNCHANGED vars
  BY <1>1
  DEF PeopleStep, OverdueStep, vars, collectionVars, providerVars, InvoiceStep
<1>2. CASE \E i \in Initiators : StartStep(i)
  <2>1. PICK i \in Initiators : StartStep(i)
    BY <1>2
  <2>2. CASE CreateInvoice(i)
    <3>1. PICK u \in Unused :
            invoice' = [invoice EXCEPT ![u] =
              [status |-> "pending", pay |-> start[i].pay,
               total |-> start[i].rest + ComputeTenantFee(start[i].rest)]]
      BY <2>2 DEF CreateInvoice
    <3>2. QED
      BY <1>0, <3>1 DEF Unused, InvoiceStep
  <2>3. CASE UNCHANGED invoice
    BY <2>3 DEF InvoiceStep
  <2>4. QED
    BY <2>1, <2>2, <2>3 DEF StartStep, StartRead, FindExisting, ReuseOrphan,
       CreatePending, PersistReference, StartFail, providerVars
<1>3. CASE \E c \in Reconcilers :
              \/ ReconcileRead(c) \/ ReconcileOrphan(c) \/ AskProvider(c)
              \/ ApplyCompleted(c) \/ ApplyUnpaid(c) \/ ReconcileFail(c)
  BY <1>3, RecType DEF InvoiceStep
<1>4. CASE \E u \in Tokens : InvoiceSettled(u)
  <2>1. PICK u \in Tokens : InvoiceSettled(u)
    BY <1>4
  <2>2. PICK s \in {"completed", "cancelled", "failed"} :
          invoice' = [invoice EXCEPT ![u].status = s]
    BY <2>1 DEF InvoiceSettled, InvoiceStatuses
  <2>3. invoice[u].status = "pending" /\ u \in shown
    BY <2>1 DEF InvoiceSettled
  <2>4. CASE t = u
    <3>1. /\ invoice[t] \in Invoice
          /\ invoice'[t] = [invoice[t] EXCEPT !.status = s]
      BY <1>0, <2>2, <2>4
    <3>2. QED
      BY <2>2, <2>3, <2>4, <3>1 DEF Invoice, InvoiceStep
  <2>5. CASE t # u
    BY <1>0, <2>2, <2>5 DEF InvoiceStep
  <2>6. QED
    BY <2>4, <2>5
<1>5. CASE \E p \in Payments : GrowOld(p)
  BY <1>5 DEF GrowOld, collectionVars, providerVars, InvoiceStep
<1>6. QED
  BY <1>1, <1>2, <1>3, <1>4, <1>5, CollectionSteps DEF Next, PaydunyaStep

-----------------------------------------------------------------------------
(* The invariant is kept.                                                  *)

\* An invoice issued stays issued, for the same row and total, and final if it
\* is.
LEMMA Issued ==
  ASSUME \A t \in Tokens : InvoiceStep(t), NEW t \in Tokens,
         invoice[t].status # "none"
  PROVE  /\ invoice'[t].status # "none" /\ invoice'[t].pay = invoice[t].pay
         /\ invoice'[t].total = invoice[t].total
         /\ invoice[t].status # "pending" =>
              invoice'[t].status = invoice[t].status
BY DEF InvoiceStep

\* A row of PayDunya's stays one; a row in use stays in use, with its source.
LEMMA SourceKept ==
  ASSUME Rows, NEW p \in Payments, RowStep(p), payment[p].status # "NONE"
  PROVE  /\ payment'[p].status # "NONE"
         /\ Paydunya(p) <=> Paydunya(p)'
<1>1. Paydunya(p) => payment[p].status \in {"PENDING", "PAID", "REJECTED"}
  BY DEF Rows
<1>2. QED
  BY <1>1 DEF RowStep, ByPerson, Created, Edited, Referenced, Rejected,
              Collected, OfPaydunya, Paydunya

\* A row of PayDunya's gets no younger.
LEMMA PaydunyaKept ==
  ASSUME Rows, NEW p \in Payments, RowStep(p), Paydunya(p)
  PROVE  Paydunya(p)' /\ (payment[p].old => payment'[p].old)
<1>1. payment[p].status # "NONE"
  BY DEF Rows
<1>2. QED
  BY <1>1 DEF RowStep, ByPerson, Created, Edited, Referenced, Rejected,
              Collected, OfPaydunya, Paydunya

\* No step leaves a reference to an invoice of another row.
LEMMA RowsStep ==
  ASSUME IInv, TypeOK', \A p \in Payments : RowStep(p),
         \A t \in Tokens : InvoiceStep(t)
  PROVE  Rows'
<1>s. SUFFICES ASSUME NEW p \in Payments
      PROVE  /\ payment'[p].status = "NONE" =>
                  payment'[p] = NoRow /\ credits'[p] = 0
             /\ Paydunya(p)' =>
                  payment'[p].status \in {"PENDING", "PAID", "REJECTED"}
             /\ payment'[p].token # NoToken =>
                  /\ Paydunya(p)'
                  /\ invoice'[payment'[p].token].status # "none"
                  /\ invoice'[payment'[p].token].pay = p
  BY DEF Rows
<1>0. payment[p] \in Row /\ payment'[p] \in Row
  BY DEF IInv, TypeOK
<1>1. RowStep(p) /\ Rows
  BY DEF IInv
<1>2. CASE payment'[p] = payment[p] /\ credits'[p] = credits[p]
  BY <1>0, <1>1, <1>2, Issued DEF Row, Rows, Paydunya
<1>3. CASE ByPerson(p) \/ Created(p)
  BY <1>3 DEF ByPerson, Created, Paydunya
<1>4. CASE Edited(p) \/ Rejected(p) \/ Collected(p)
  <2>1. /\ payment'[p].token = payment[p].token /\ Paydunya(p) /\ Paydunya(p)'
        /\ \/ payment'[p].status = payment[p].status
           \/ payment'[p].status \in {"PAID", "REJECTED"}
    BY <1>4 DEF Edited, Rejected, Collected, OfPaydunya, Paydunya
  <2>2. QED
    BY <1>0, <1>1, <2>1, Issued DEF Row, Rows
<1>5. CASE Referenced(p)
  <2>1. PICK i \in Initiators :
          PersistReference(i) /\ start[i].pay = p
            /\ payment'[p].token = start[i].token
    BY <1>5 DEF Referenced
  <2>2. /\ start[i].token \in Tokens /\ invoice[start[i].token].status # "none"
        /\ invoice[start[i].token].pay = p
    BY <2>1 DEF PersistReference, IInv, Started
  <2>3. /\ Paydunya(p) /\ Paydunya(p)'
        /\ payment'[p].status = payment[p].status
    BY <1>5 DEF Referenced, OfPaydunya, Paydunya
  <2>4. QED
    BY <1>1, <2>1, <2>2, <2>3, Issued DEF Rows
<1>6. QED
  BY <1>1, <1>2, <1>3, <1>4, <1>5 DEF RowStep

\* A credit and the status PAID come together, once.
LEMMA CreditStep ==
  ASSUME IInv, \A p \in Payments : RowStep(p), \A t \in Tokens : InvoiceStep(t)
  PROVE  PaydunyaCreditedOnce' /\ CreditedOnlyIfCollected'
<1>s. SUFFICES ASSUME NEW p \in Payments, Paydunya(p)'
      PROVE  /\ credits'[p] = IF payment'[p].status = "PAID" THEN 1 ELSE 0
             /\ payment'[p].status = "PAID" =>
                  \E t \in Tokens : /\ invoice'[t].status = "completed"
                                    /\ invoice'[t].pay = p
  BY DEF PaydunyaCreditedOnce, CreditedOnlyIfCollected
<1>0. /\ RowStep(p) /\ Rows
      /\ Paydunya(p) =>
           credits[p] = IF payment[p].status = "PAID" THEN 1 ELSE 0
      /\ Paydunya(p) /\ payment[p].status = "PAID" =>
           \E t \in Tokens : /\ invoice'[t].status = "completed"
                             /\ invoice'[t].pay = p
  BY Issued DEF IInv, PaydunyaCreditedOnce, CreditedOnlyIfCollected
<1>1. CASE \/ payment'[p] = payment[p] /\ credits'[p] = credits[p]
           \/ Edited(p) \/ Referenced(p)
  <2>1. /\ payment'[p].source = payment[p].source \/ Paydunya(p)
        /\ payment'[p].status = payment[p].status /\ credits'[p] = credits[p]
    BY <1>1 DEF Edited, Referenced, OfPaydunya
  <2>2. Paydunya(p)
    BY <1>s, <2>1 DEF Paydunya
  <2>3. QED
    BY <1>0, <2>1, <2>2
<1>2. CASE ByPerson(p)
  BY <1>s, <1>2 DEF ByPerson, Paydunya
<1>3. CASE Created(p)
  BY <1>0, <1>3 DEF Created, Rows
<1>4. CASE Rejected(p) \/ Collected(p)
  BY <1>0, <1>4 DEF Rejected, Collected, OfPaydunya
<1>5. QED
  BY <1>0, <1>1, <1>2, <1>3, <1>4 DEF RowStep

\* A decision under way stays about a row that is not PayDunya's.
LEMMA RequestedStep ==
  ASSUME IInv, TypeOK', [Next]_vars, \A p \in Payments : RowStep(p)
  PROVE  Requested'
<1>s. SUFFICES ASSUME NEW r \in Requests,
                      req'[r].op \in {"update", "cancel", "confirm", "reject"}
      PROVE  /\ req'[r].pay \in Payments
             /\ payment'[req'[r].pay].source # "PAYDUNYA_API"
             /\ payment'[req'[r].pay].status # "NONE"
  BY DEF Requested, Paydunya
<1>0. req \in [Requests -> Memory] /\ Rows
  BY DEF IInv, TypeOK
<1>1. CASE req'[r] = req[r]
  BY <1>s, <1>0, <1>1, SourceKept DEF IInv, Requested, Paydunya
<1>2. CASE req'[r] # req[r]
  <2>1. PICK q \in Requests :
        \/ CreateManualRead(q) \/ CreateManualWrite(q)
        \/ DeclarationCreate(q)
        \/ UpdateRead(q) \/ UpdateWrite(q)
        \/ CancelRead(q) \/ CancelWrite(q)
        \/ ConfirmRead(q) \/ ConfirmWrite(q)
        \/ RejectRead(q) \/ RejectWrite(q)
        \/ Fail(q)
    <3>1. CASE PeopleStep
      BY <3>1 DEF PeopleStep, LedgerNext
    <3>2. CASE PaydunyaStep
      <4>1. UNCHANGED req
        BY <3>2, CollectionSteps, StartType, RecType, OutsideType
        DEF PaydunyaStep, IInv
      <4>2. QED
        BY <1>2, <4>1
    <3>3. CASE OverdueStep \/ UNCHANGED vars
      BY <1>2, <3>3, OverdueType DEF OverdueStep, IInv, vars, ledgerVars
    <3>4. QED
      BY <3>1, <3>2, <3>3 DEF Next
  <2>2. ASSUME Done(q) PROVE FALSE
    BY <1>s, <1>0, <1>2, <2>2 DEF Done, Idle
  <2>3. CASE CreateManualRead(q)
    BY <1>s, <1>0, <1>2, <2>3 DEF CreateManualRead, Begin
  <2>4. CASE DeclarationCreate(q)
    BY <1>2, <2>4 DEF DeclarationCreate
  <2>5. CASE UpdateRead(q) \/ CancelRead(q) \/ ConfirmRead(q) \/ RejectRead(q)
    <3>1. PICK p \in Payments, op \in {"update", "cancel", "confirm", "reject"} :
            /\ OwnDeclaration(p) \/ Confirmable(p)
            /\ Begin(q, op, p, payment[p].amount)
      BY <2>5 DEF UpdateRead, CancelRead, ConfirmRead, RejectRead
    <3>2. req'[r].pay = p /\ payment' = payment
      BY <1>0, <1>2, <3>1 DEF Begin
    <3>3. ~Paydunya(p) /\ payment[p].status # "NONE"
      BY <3>1 DEF OwnDeclaration, Confirmable, Paydunya
    <3>4. QED
      BY <3>2, <3>3 DEF Paydunya
  <2>6. QED
    BY <2>1, <2>2, <2>3, <2>4, <2>5 DEF CreateManualWrite, UpdateWrite,
       CancelWrite, ConfirmWrite, RejectWrite, Fail
<1>3. QED
  BY <1>1, <1>2

\* What a start remembers only changes by its own steps.
LEMMA StartChange ==
  ASSUME IInv, [Next]_vars, NEW i \in Initiators, start'[i] # start[i]
  PROVE  StartStep(i)
<1>0. start \in [Initiators -> StartMemory]
  BY DEF IInv, TypeOK
<1>1. PICK j \in Initiators : StartStep(j)
  <2>1. CASE PeopleStep \/ OverdueStep \/ UNCHANGED vars
    BY <2>1 DEF PeopleStep, OverdueStep, vars, collectionVars
  <2>2. CASE \E c \in Reconcilers :
                \/ ReconcileRead(c) \/ ReconcileOrphan(c) \/ AskProvider(c)
                \/ ApplyCompleted(c) \/ ApplyUnpaid(c) \/ ReconcileFail(c)
    BY <2>2, RecType DEF IInv
  <2>3. CASE \/ \E t \in Tokens : InvoiceSettled(t)
             \/ \E p \in Payments : GrowOld(p)
    BY <2>3, OutsideType DEF IInv
  <2>4. QED
    BY <2>1, <2>2, <2>3, CollectionSteps DEF Next, PaydunyaStep
<1>2. CASE j = i
  BY <1>1, <1>2
<1>3. CASE j # i
  BY <1>0, <1>1, <1>3
  DEF StartStep, StartRead, FindExisting, Replay, Reuse, ReuseOrphan,
      CreatePending, CreateInvoice, PersistReference, StartFail, StartDone, Goto
<1>4. QED
  BY <1>2, <1>3

\* What a reconciliation remembers, too.
LEMMA RecChange ==
  ASSUME IInv, [Next]_vars, NEW c \in Reconcilers, rec'[c] # rec[c]
  PROVE  \/ ReconcileRead(c) \/ ReconcileOrphan(c) \/ AskProvider(c)
         \/ ApplyCompleted(c) \/ ApplyUnpaid(c) \/ ReconcileFail(c)
<1>0. rec \in [Reconcilers -> RecMemory]
  BY DEF IInv, TypeOK
<1>1. PICK d \in Reconcilers :
        \/ ReconcileRead(d) \/ ReconcileOrphan(d) \/ AskProvider(d)
        \/ ApplyCompleted(d) \/ ApplyUnpaid(d) \/ ReconcileFail(d)
  <2>1. CASE PeopleStep \/ OverdueStep \/ UNCHANGED vars
    BY <2>1 DEF PeopleStep, OverdueStep, vars, collectionVars
  <2>2. CASE \E i \in Initiators : StartStep(i)
    BY <2>2, StartType DEF IInv
  <2>3. CASE \/ \E t \in Tokens : InvoiceSettled(t)
             \/ \E p \in Payments : GrowOld(p)
    BY <2>3, OutsideType DEF IInv
  <2>4. QED
    BY <2>1, <2>2, <2>3, CollectionSteps DEF Next, PaydunyaStep
<1>2. CASE d = c
  BY <1>1, <1>2
<1>3. CASE d # c
  BY <1>0, <1>1, <1>3
  DEF ReconcileRead, ReconcileOrphan, AskProvider, ApplyCompleted, ApplyUnpaid,
      ReconcileFail, RecDone
<1>4. QED
  BY <1>2, <1>3

\* A start stays about its row, and about the invoice it issued for it.
LEMMA StartedStep ==
  ASSUME IInv, TypeOK', [Next]_vars, \A p \in Payments : RowStep(p),
         \A t \in Tokens : InvoiceStep(t)
  PROVE  Started'
<1>s. SUFFICES ASSUME NEW i \in Initiators
      PROVE  /\ start'[i].pc \in {"reuse", "invoice", "persist"} =>
                  /\ start'[i].pay \in Payments
                  /\ payment'[start'[i].pay].source = "PAYDUNYA_API"
             /\ start'[i].pc = "persist" =>
                  /\ start'[i].token \in Tokens
                  /\ invoice'[start'[i].token].status # "none"
                  /\ invoice'[start'[i].token].pay = start'[i].pay
  BY DEF Started, Paydunya
<1>0. /\ start \in [Initiators -> StartMemory] /\ start[i] \in StartMemory
      /\ payment \in [Payments -> Row] /\ invoice \in [Tokens -> Invoice]
      /\ Rows /\ Started
  BY DEF IInv, TypeOK
<1>k. \A p \in Payments : Paydunya(p) => payment'[p].source = "PAYDUNYA_API"
  BY <1>0, PaydunyaKept DEF Paydunya
<1>1. CASE start'[i] = start[i]
  BY <1>0, <1>k, <1>1, Issued DEF Started
<1>2. CASE StartRead(i) \/ StartFail(i) \/ PersistReference(i)
  <2>1. start'[i].pc \in {"find", "idle"}
    BY <1>0, <1>2 DEF StartRead, StartFail, PersistReference, StartDone,
       StartIdle, StartMemory
  <2>2. QED
    BY <2>1
<1>3. CASE FindExisting(i)
  <2>1. CASE \E p \in PendingPaydunya : Reuse(i, p)
    <3>1. PICK p \in PendingPaydunya :
            start' = [start EXCEPT ![i].pc = "reuse", ![i].pay = p]
      BY <2>1 DEF Reuse
    <3>2. start'[i].pc = "reuse" /\ start'[i].pay = p
      BY <1>0, <3>1 DEF StartMemory
    <3>3. QED
      BY <1>k, <3>1, <3>2 DEF PendingPaydunya, Paydunya
  <2>2. CASE Goto(i, "create") \/ StartDone(i)
    <3>1. start'[i].pc \in {"create", "idle"}
      BY <1>0, <2>2 DEF Goto, StartDone, StartIdle, StartMemory
    <3>2. QED
      BY <3>1
  <2>3. QED
    BY <1>3, <2>1, <2>2 DEF FindExisting, Replay
<1>4. CASE ReuseOrphan(i)
  <2>1. start'[i].pc = "invoice" /\ start'[i].pay = start[i].pay
    BY <1>0, <1>4 DEF ReuseOrphan, Goto, StartMemory
  <2>2. start[i].pay \in Payments /\ Paydunya(start[i].pay)
    BY <1>0, <1>4 DEF ReuseOrphan, Started
  <2>3. QED
    BY <1>k, <2>1, <2>2
<1>5. CASE CreatePending(i)
  <2>1. CASE StartDone(i)
    BY <1>0, <2>1 DEF StartDone, StartIdle
  <2>2. CASE ~StartDone(i)
    <3>1. PICK p \in Fresh :
             /\ payment' = [payment EXCEPT ![p] =
                  [NoRow EXCEPT !.source = "PAYDUNYA_API", !.status = "PENDING",
                                !.amount = start[i].rest,
                                !.fee = ComputeTenantFee(start[i].rest)]]
             /\ start' = [start EXCEPT ![i].pc = "invoice", ![i].pay = p,
                                       ![i].fresh = TRUE]
      BY <1>5, <2>2 DEF CreatePending
    <3>2. start'[i].pc = "invoice" /\ start'[i].pay = p
      BY <1>0, <3>1 DEF StartMemory
    <3>3. p \in Payments /\ payment'[p].source = "PAYDUNYA_API"
      BY <1>0, <3>1 DEF Fresh, NoRow
    <3>4. QED
      BY <3>2, <3>3
  <2>3. QED
    BY <2>1, <2>2
<1>6. CASE CreateInvoice(i)
  <2>1. PICK t \in Unused :
          /\ invoice' = [invoice EXCEPT ![t] =
               [status |-> "pending", pay |-> start[i].pay,
                total |-> start[i].rest + ComputeTenantFee(start[i].rest)]]
          /\ start' = [start EXCEPT ![i].pc = "persist", ![i].token = t]
    BY <1>6 DEF CreateInvoice
  <2>2. /\ start'[i].pc = "persist" /\ start'[i].token = t
        /\ start'[i].pay = start[i].pay
    BY <1>0, <2>1 DEF StartMemory
  <2>3. start[i].pay \in Payments /\ Paydunya(start[i].pay)
    BY <1>0, <1>6 DEF CreateInvoice, Started
  <2>4. /\ t \in Tokens /\ invoice'[t].status # "none"
        /\ invoice'[t].pay = start[i].pay
    BY <1>0, <2>1 DEF Unused
  <2>5. QED
    BY <1>k, <2>2, <2>3, <2>4
<1>7. QED
  BY <1>1, <1>2, <1>3, <1>4, <1>5, <1>6, StartChange DEF StartStep

\* A reconciliation stays about its row and an invoice of that row.
LEMMA ReconciledStep ==
  ASSUME IInv, TypeOK', [Next]_vars, \A p \in Payments : RowStep(p),
         \A t \in Tokens : InvoiceStep(t)
  PROVE  Reconciled'
<1>s. SUFFICES ASSUME NEW c \in Reconcilers
      PROVE  /\ rec'[c].pc # "idle" =>
                  /\ rec'[c].pay \in Payments
                  /\ payment'[rec'[c].pay].source = "PAYDUNYA_API"
             /\ rec'[c].pc \in {"ask", "apply"} =>
                  /\ rec'[c].token \in Tokens
                  /\ invoice'[rec'[c].token].status # "none"
                  /\ invoice'[rec'[c].token].pay = rec'[c].pay
             /\ rec'[c].pc = "apply" /\ rec'[c].seen # "pending" =>
                  invoice'[rec'[c].token].status = rec'[c].seen
  BY DEF Reconciled, Paydunya
<1>0. /\ rec \in [Reconcilers -> RecMemory] /\ rec[c] \in RecMemory
      /\ payment \in [Payments -> Row] /\ invoice \in [Tokens -> Invoice]
      /\ Rows /\ Reconciled
  BY DEF IInv, TypeOK
<1>k. \A p \in Payments : Paydunya(p) => payment'[p].source = "PAYDUNYA_API"
  BY <1>0, PaydunyaKept DEF Paydunya
<1>1. CASE rec'[c] = rec[c]
  BY <1>0, <1>k, <1>1, Issued DEF Reconciled
<1>2. CASE RecDone(c)
  <2>1. rec'[c].pc = "idle"
    BY <1>0, <1>2 DEF RecDone, RecIdle
  <2>2. QED
    BY <2>1
<1>3. CASE ReconcileRead(c)
  <2>1. PICK p \in PendingPaydunya :
          rec' = [rec EXCEPT ![c] =
            [RecIdle EXCEPT
              !.pc = IF payment[p].token = NoToken THEN "orphan" ELSE "ask",
              !.pay = p, !.token = payment[p].token, !.old = payment[p].old,
              !.amount = payment[p].amount, !.fee = payment[p].fee]]
    BY <1>3 DEF ReconcileRead
  <2>2. /\ rec'[c].pay = p /\ rec'[c].token = payment[p].token
        /\ rec'[c].pc = IF payment[p].token = NoToken THEN "orphan" ELSE "ask"
    BY <1>0, <2>1 DEF RecIdle
  <2>3. p \in Payments /\ Paydunya(p) /\ payment[p] \in Row
    BY <1>0, <2>1 DEF PendingPaydunya, Paydunya
  <2>4. invoice' = invoice
    BY <1>3 DEF ReconcileRead, providerVars
  <2>5. QED
    BY <1>0, <1>k, <2>2, <2>3, <2>4 DEF Rows, Row
<1>4. CASE AskProvider(c)
  <2>1. PICK n \in {0, invoice[rec[c].token].total} :
          rec' = [rec EXCEPT ![c].pc = "apply", ![c].total = n,
                             ![c].seen = invoice[rec[c].token].status]
    BY <1>4 DEF AskProvider
  <2>2. /\ rec'[c].pay = rec[c].pay /\ rec'[c].token = rec[c].token
        /\ rec'[c].pc = "apply"
        /\ rec'[c].seen = invoice[rec[c].token].status
    BY <1>0, <2>1 DEF RecMemory
  <2>3. invoice' = invoice /\ rec[c].pc = "ask"
    BY <1>4 DEF AskProvider, providerVars
  <2>4. QED
    BY <1>0, <1>k, <2>2, <2>3 DEF Reconciled
<1>5. QED
  BY <1>1, <1>2, <1>3, <1>4, RecChange
  DEF ReconcileOrphan, ApplyCompleted, ApplyUnpaid, ReconcileFail

-----------------------------------------------------------------------------
(* The theorems that hold for any number of concurrent calls.              *)

\* Nothing has happened yet.
LEMMA InitInv == Init => IInv
<1>s. SUFFICES ASSUME Init PROVE IInv
  OBVIOUS
<1>0. LedgerInit /\ CollectionInit /\ OverdueInit
  BY <1>s DEF Init
<1>1. NoRow \in Row /\ Idle \in Memory /\ NoInvoice \in Invoice
      /\ RunIdle \in RunMemory
  BY DEF NoRow, Row, Sources, PaymentStatuses, Idle, Memory, Handlers,
         NoInvoice, Invoice, InvoiceStatuses, RunIdle, RunMemory, RunSteps
<1>2. TypeOK
  BY <1>0, <1>1, EndType
  DEF LedgerInit, CollectionInit, OverdueInit, TypeOK, Entry, EntryStatuses
<1>3. /\ \A p \in Payments : payment[p] = NoRow /\ credits[p] = 0
      /\ \A r \in Requests : req[r].op = "idle"
      /\ \A i \in Initiators : start[i].pc = "idle"
      /\ \A c \in Reconcilers : rec[c].pc = "idle"
  BY <1>0 DEF LedgerInit, CollectionInit, Idle, StartIdle, RecIdle
<1>4. Rows /\ Requested /\ Started /\ Reconciled
  <2>1. Rows
    <3>1. NoRow.source = "NONE" /\ NoRow.token = NoToken
      BY DEF NoRow
    <3>2. QED
      BY <1>3, <3>1 DEF Rows, Paydunya
  <2>2. Requested
    BY <1>3 DEF Requested
  <2>3. Started /\ Reconciled
    BY <1>3 DEF Started, Reconciled
  <2>4. QED
    BY <2>1, <2>2, <2>3
<1>5. PaydunyaCreditedOnce /\ CreditedOnlyIfCollected
  BY <1>3 DEF NoRow, Paydunya, PaydunyaCreditedOnce, CreditedOnlyIfCollected
<1>6. QED
  BY <1>2, <1>4, <1>5 DEF IInv

\* The invariant is kept by every step.
LEMMA InvStep == IInv /\ [Next]_vars => IInv'
<1>s. SUFFICES ASSUME IInv, [Next]_vars PROVE IInv'
  OBVIOUS
<1>1. TypeOK'
  BY <1>s, TypeStep DEF IInv
<1>2. /\ \A p \in Payments : RowStep(p)
      /\ \A t \in Tokens : InvoiceStep(t)
  BY <1>s, RowLife, InvoiceLife DEF IInv
<1>3. QED
  BY <1>s, <1>1, <1>2, RowsStep, CreditStep, RequestedStep, StartedStep,
     ReconciledStep DEF IInv

\* So it always holds.
LEMMA Invariance == Spec => []IInv
BY InitInv, InvStep, PTL DEF Spec

\* The tables, the handlers' memory and the provider's invoices keep their
\* types, whatever the interleaving.
THEOREM TypeCorrect == Spec => []TypeOK
<1>1. IInv => TypeOK
  BY DEF IInv
<1>2. QED
  BY <1>1, Invariance, PTL

\* A PayDunya payment is credited exactly once if it is PAID and never
\* otherwise, whatever webhooks, cron passes and people race on it.
THEOREM CreditedOnceCorrect == Spec => []PaydunyaCreditedOnce
<1>1. IInv => PaydunyaCreditedOnce
  BY DEF IInv
<1>2. QED
  BY <1>1, Invariance, PTL

\* It is never credited unless the provider collected an invoice of its own.
THEOREM CreditedOnlyIfCollectedCorrect == Spec => []CreditedOnlyIfCollected
<1>1. IInv => CreditedOnlyIfCollected
  BY DEF IInv
<1>2. QED
  BY <1>1, Invariance, PTL

\* A PAID or REJECTED PayDunya payment stays so: no late webhook, retry,
\* second start or person changes it.
THEOREM OutcomeFinalCorrect == Spec => PaydunyaOutcomeFinal
<1>1. IInv /\ [Next]_vars =>
        [\A p \in Payments :
           Paydunya(p) /\ payment[p].status \in {"PAID", "REJECTED"}
             => payment'[p].status = payment[p].status]_vars
  <2>1. SUFFICES ASSUME IInv, [Next]_vars, NEW p \in Payments, Paydunya(p),
                        payment[p].status \in {"PAID", "REJECTED"}
                 PROVE  payment'[p].status = payment[p].status
    OBVIOUS
  <2>2. RowStep(p)
    BY <2>1, RowLife DEF IInv
  <2>3. QED
    BY <2>1, <2>2 DEF RowStep, ByPerson, Created, Edited, Referenced, Rejected,
                      Collected
<1>2. QED
  BY <1>1, Invariance, PTL DEF Spec, PaydunyaOutcomeFinal

-----------------------------------------------------------------------------
(* The reminder.                                                           *)

\* Whoever is about to send holds the reservation alone, and nothing left
\* before; once it left, nobody can hold it again.
Reserved ==
  /\ \A k \in Runs : run[k].pc = "send" => entry.reminded /\ sent = 0
  /\ \A k, l \in Runs : run[k].pc = "send" /\ run[l].pc = "send" => k = l
  /\ sent \in {0, 1}
  /\ sent = 1 => entry.reminded

\* Neither people nor PayDunya touch the mark of the reminder.
LEMMA RemindedKept ==
  ASSUME TypeOK, PeopleStep \/ PaydunyaStep
  PROVE  entry'.reminded = entry.reminded /\ UNCHANGED overdueVars
<1>0. entry \in Entry /\ req \in [Requests -> Memory]
      /\ rec \in [Reconcilers -> RecMemory]
  BY DEF TypeOK
<1>c. ASSUME NEW n PROVE Credited(n).reminded = entry.reminded
  BY <1>0 DEF Credited, Entry
<1>1. CASE PeopleStep
  BY <1>1, <1>c
  DEF PeopleStep, LedgerNext, CreateManualRead, UpdateRead, CancelRead,
      ConfirmRead, RejectRead, Begin, CreateManualWrite, DeclarationCreate,
      UpdateWrite, CancelWrite, ConfirmWrite, RejectWrite, Fail
<1>2. CASE PaydunyaStep
  BY <1>2, <1>c
  DEF PaydunyaStep, CollectionNext, StartRead, FindExisting, ReuseOrphan,
      CreatePending, CreateInvoice, PersistReference, StartFail, ReconcileRead,
      ReconcileOrphan, AskProvider, ApplyCompleted, ApplyUnpaid, ReconcileFail,
      InvoiceSettled, GrowOld, ledgerVars
<1>3. QED
  BY <1>1, <1>2

\* The reservation excludes the other runs.
LEMMA ReservedStep ==
  ASSUME TypeOK, Reserved, [Next]_vars
  PROVE  Reserved'
<1>0. run \in [Runs -> RunMemory] /\ entry \in Entry
  BY DEF TypeOK
<1>1. CASE PeopleStep \/ PaydunyaStep
  BY <1>1, RemindedKept DEF Reserved, overdueVars
<1>2. CASE UNCHANGED vars
  BY <1>2 DEF vars, ledgerVars, overdueVars, Reserved
<1>3. CASE OverdueStep
  <2>1. PICK k \in Runs :
          \/ OverdueRead(k) \/ AlertAgency(k) \/ MarkOverdue(k) \/ OutOfHours(k)
          \/ ReserveReminder(k) \/ SendReminder(k) \/ RunCrash(k)
    BY <1>3 DEF OverdueStep, OverdueNext
  <2>k. \A l \in Runs : l # k => run'[l] = run[l]
    BY <1>0, <2>1
    DEF OverdueRead, AlertAgency, MarkOverdue, OutOfHours, ReserveReminder,
        SendReminder, RunCrash, AfterAgency, Goes, RunDone
  <2>2. CASE OverdueRead(k) \/ AlertAgency(k) \/ MarkOverdue(k)
             \/ OutOfHours(k) \/ RunCrash(k)
    <3>1. run'[k].pc # "send"
      BY <1>0, <2>2
      DEF OverdueRead, AlertAgency, MarkOverdue, OutOfHours, RunCrash,
          AfterAgency, Goes, RunDone, RunIdle, RunMemory
    <3>2. sent' = sent /\ entry'.reminded = entry.reminded
      BY <1>0, <2>2
      DEF OverdueRead, AlertAgency, MarkOverdue, OutOfHours, RunCrash,
          ledgerVars, Entry
    <3>3. QED
      BY <2>k, <3>1, <3>2 DEF Reserved
  <2>3. CASE ReserveReminder(k)
    <3>1. CASE Reservable
      <4>1. /\ ~entry.reminded /\ sent' = sent
            /\ entry'.reminded
        BY <1>0, <2>3, <3>1 DEF ReserveReminder, Reservable, Entry
      <4>2. QED
        BY <2>k, <4>1 DEF Reserved
    <3>2. CASE ~Reservable
      <4>1. run'[k].pc # "send" /\ UNCHANGED <<entry, sent>>
        BY <1>0, <2>3, <3>2 DEF ReserveReminder, RunDone, RunIdle
      <4>2. QED
        BY <2>k, <4>1 DEF Reserved
    <3>3. QED
      BY <3>1, <3>2
  <2>4. CASE SendReminder(k)
    <3>1. run[k].pc = "send" /\ run'[k].pc # "send"
      BY <1>0, <2>4 DEF SendReminder, RunDone, RunIdle
    <3>2. \A l \in Runs : run'[l].pc # "send"
      BY <2>k, <3>1 DEF Reserved
    <3>3. entry.reminded /\ sent = 0
      BY <3>1 DEF Reserved
    <3>4. \/ sent' = 1 /\ entry'.reminded
          \/ sent' = 0
      BY <2>4, <3>3 DEF SendReminder
    <3>5. QED
      BY <3>2, <3>4 DEF Reserved
  <2>5. QED
    BY <2>1, <2>2, <2>3, <2>4
<1>4. QED
  BY <1>1, <1>2, <1>3 DEF Next

\* However many runs of the task overlap, fail midway or are restarted, the
\* tenant is reminded of the entry at most once.
THEOREM RemindedAtMostOnceCorrect == Spec => []RemindedAtMostOnce
<1>1. Init => Reserved
  BY DEF Init, OverdueInit, RunIdle, Reserved
<1>2. TypeOK /\ Reserved /\ [Next]_vars => Reserved'
  BY ReservedStep
<1>3. Reserved => RemindedAtMostOnce
  BY DEF Reserved, RemindedAtMostOnce
<1>4. QED
  BY <1>1, <1>2, <1>3, TypeCorrect, PTL DEF Spec

-----------------------------------------------------------------------------
(* Until a start takes up the row of another.                              *)

Works(i) == start[i].pc \in {"reuse", "invoice", "persist"}

\* What the starts and the reconciliations rely on as long as no start took
\* up the row of another: a start works on a row of its own, which has no
\* reference yet, the index leaves one row in progress, a page shown is the
\* one of its row's reference, only a page shown is settled, what a
\* reconciliation read of a row is still so, and a rejection before the delay
\* had the provider's word.
Alone ==
  /\ \A i \in Initiators :
       start[i].pc \in {"reuse", "invoice", "persist"} =>
         payment[start[i].pay].token = NoToken
  /\ \A i, j \in Initiators :
       Works(i) /\ Works(j) /\ start[i].pay = start[j].pay => i = j
  /\ \A p, q \in PendingPaydunya : p = q
  /\ \A t \in shown :
       /\ invoice[t].status # "none" /\ invoice[t].pay \in Payments
       /\ payment[invoice[t].pay].token = t
  /\ \A t \in Tokens :
       invoice[t].status \in {"completed", "cancelled", "failed"} => t \in shown
  /\ \A c \in Reconcilers :
       /\ rec[c].pc \in {"ask", "apply"} =>
            payment[rec[c].pay].token = rec[c].token
       /\ rec[c].pc # "idle" /\ rec[c].old => payment[rec[c].pay].old
       /\ rec[c].pc = "orphan" => payment[rec[c].pay].old
  /\ \A p \in Payments :
       Paydunya(p) /\ payment[p].status = "REJECTED" /\ ~payment[p].old =>
         /\ payment[p].token \in Tokens
         /\ invoice[payment[p].token].status \in {"cancelled", "failed"}

\* That a start took up the row of another is never forgotten.
LEMMA CrossedKept ==
  ASSUME IInv, [Next]_vars, crossed
  PROVE  crossed'
<1>1. CASE \E i \in Initiators : StartStep(i)
  BY <1>1
  DEF StartStep, StartRead, FindExisting, Replay, Reuse, ReuseOrphan,
      CreatePending, CreateInvoice, PersistReference, StartFail, providerVars
<1>2. CASE \/ \E c \in Reconcilers :
                \/ ReconcileRead(c) \/ ReconcileOrphan(c) \/ AskProvider(c)
                \/ ApplyCompleted(c) \/ ApplyUnpaid(c) \/ ReconcileFail(c)
           \/ \E t \in Tokens : InvoiceSettled(t)
           \/ \E p \in Payments : GrowOld(p)
  BY <1>2, RecType, OutsideType DEF IInv
<1>3. CASE PeopleStep \/ OverdueStep \/ UNCHANGED vars
  BY <1>3 DEF PeopleStep, OverdueStep, vars, collectionVars, providerVars
<1>4. QED
  BY <1>1, <1>2, <1>3, CollectionSteps DEF Next, PaydunyaStep

\* The other starts stay where they are.
LEMMA OneStarts ==
  ASSUME IInv, NEW i \in Initiators, StartStep(i),
         NEW j \in Initiators, j # i
  PROVE  start'[j] = start[j]
<1>0. start \in [Initiators -> StartMemory]
  BY DEF IInv, TypeOK
<1>1. QED
  BY <1>0
  DEF StartStep, StartRead, FindExisting, Replay, Reuse, ReuseOrphan,
      CreatePending, CreateInvoice, PersistReference, StartFail, StartDone, Goto

\* A start that takes a row up is the only one to work on it.
LEMMA TookUp ==
  ASSUME IInv, ~crossed', NEW i \in Initiators, StartStep(i), Works(i)'
  PROVE  \/ Works(i) /\ start'[i].pay = start[i].pay
         \/ \A j \in Initiators : Works(j) => start[j].pay # start'[i].pay
<1>0. /\ start \in [Initiators -> StartMemory] /\ start[i] \in StartMemory
      /\ Started /\ Rows
  BY DEF IInv, TypeOK
<1>w. start'[i].pc \in {"reuse", "invoice", "persist"}
  BY DEF Works
<1>1. CASE StartRead(i) \/ StartFail(i) \/ PersistReference(i)
  <2>1. start'[i].pc \in {"find", "idle"}
    BY <1>0, <1>1 DEF StartRead, StartFail, PersistReference, StartDone,
       StartIdle, StartMemory
  <2>2. QED
    BY <1>w, <2>1
<1>2. CASE FindExisting(i)
  <2>1. CASE \E p \in PendingPaydunya : Reuse(i, p)
    <3>1. PICK p \in PendingPaydunya : Reuse(i, p)
      BY <2>1
    <3>2. start'[i].pay = p
      BY <1>0, <3>1 DEF Reuse, StartMemory
    <3>3. QED
      BY <3>1, <3>2 DEF Reuse
  <2>2. CASE Goto(i, "create") \/ StartDone(i)
    <3>1. start'[i].pc \in {"create", "idle"}
      BY <1>0, <2>2 DEF Goto, StartDone, StartIdle, StartMemory
    <3>2. QED
      BY <1>w, <3>1
  <2>3. QED
    BY <1>2, <2>1, <2>2 DEF FindExisting, Replay
<1>3. CASE ReuseOrphan(i) \/ CreateInvoice(i)
  BY <1>0, <1>3 DEF ReuseOrphan, CreateInvoice, Goto, StartMemory, Works
<1>4. CASE CreatePending(i)
  <2>1. CASE StartDone(i)
    BY <1>0, <1>w, <2>1 DEF StartDone, StartIdle
  <2>2. CASE ~StartDone(i)
    <3>1. PICK p \in Fresh :
             start' = [start EXCEPT ![i].pc = "invoice", ![i].pay = p,
                                    ![i].fresh = TRUE]
      BY <1>4, <2>2 DEF CreatePending
    <3>2. start'[i].pay = p /\ p \in Payments /\ payment[p].status = "NONE"
      BY <1>0, <3>1 DEF StartMemory, Fresh
    <3>3. ASSUME NEW j \in Initiators, Works(j) PROVE start[j].pay # p
      BY <1>0, <3>2, <3>3 DEF Works, Started, Rows
    <3>4. QED
      BY <3>2, <3>3
  <2>3. QED
    BY <2>1, <2>2
<1>5. QED
  BY <1>1, <1>2, <1>3, <1>4 DEF StartStep

\* So two starts never work on the same row.
LEMMA AloneWork ==
  ASSUME IInv, Alone, [Next]_vars, ~crossed',
         NEW i \in Initiators, NEW j \in Initiators, Works(i)', Works(j)',
         start'[i].pay = start'[j].pay
  PROVE  i = j
<1>s. SUFFICES ASSUME i # j PROVE FALSE
  OBVIOUS
<1>1. CASE start'[i] = start[i] /\ start'[j] = start[j]
  BY <1>s, <1>1 DEF Alone, Works
<1>2. CASE start'[i] # start[i]
  <2>1. StartStep(i) /\ start'[j] = start[j]
    BY <1>s, <1>2, StartChange, OneStarts
  <2>2. Works(j)
    BY <2>1 DEF Works
  <2>3. QED
    BY <1>s, <2>1, <2>2, TookUp DEF Alone
<1>3. CASE start'[j] # start[j]
  <2>1. StartStep(j) /\ start'[i] = start[i]
    BY <1>s, <1>3, StartChange, OneStarts
  <2>2. Works(i)
    BY <2>1 DEF Works
  <2>3. QED
    BY <1>s, <2>1, <2>2, TookUp DEF Alone
<1>4. QED
  BY <1>1, <1>2, <1>3

\* Nor are two rows in progress: the index refuses the second.
LEMMA AlonePending ==
  ASSUME Alone, \A p \in Payments : RowStep(p),
         NEW p \in PendingPaydunya', NEW q \in PendingPaydunya'
  PROVE  p = q
<1>s. SUFFICES ASSUME p # q PROVE FALSE
  OBVIOUS
<1>0. \A r \in {p, q} :
        /\ r \in Payments /\ payment'[r].source = "PAYDUNYA_API"
        /\ payment'[r].status = "PENDING"
  BY DEF PendingPaydunya
<1>1. \A r \in {p, q} : ~Created(r)
  BY <1>s, <1>0 DEF Created, PendingPaydunya
<1>2. \A r \in {p, q} : r \in PendingPaydunya
  BY <1>0, <1>1
  DEF RowStep, ByPerson, Edited, Referenced, Rejected, Collected, OfPaydunya,
      Paydunya, PendingPaydunya
<1>3. QED
  BY <1>s, <1>2 DEF Alone

\* A reference, once written, is never overwritten.
LEMMA TokenKept ==
  ASSUME IInv, Alone, NEW p \in Payments, RowStep(p),
         payment[p].token # NoToken
  PROVE  payment'[p].token = payment[p].token
<1>1. Paydunya(p) /\ payment[p].status # "NONE"
  BY DEF IInv, Rows
<1>2. ASSUME NEW i \in Initiators, PersistReference(i), start[i].pay = p
      PROVE  FALSE
  <2>1. start[i].pc = "persist"
    BY <1>2 DEF PersistReference
  <2>2. payment[start[i].pay].token = NoToken
    BY <2>1 DEF Alone
  <2>3. QED
    BY <1>2, <2>2
<1>3. ~Referenced(p)
  BY <1>2 DEF Referenced
<1>4. QED
  BY <1>1, <1>3
  DEF RowStep, ByPerson, Created, Edited, Rejected, Collected

\* A page is shown for the reference of a row in progress, or for the invoice
\* a start just issued; it is never taken back.
LEMMA ShownChange ==
  ASSUME IInv, [Next]_vars
  PROVE  /\ shown \subseteq shown'
         /\ \A t \in shown' \ shown :
              /\ UNCHANGED invoice
              /\ \/ /\ UNCHANGED payment
                    /\ \E p \in Payments :
                         payment[p].token # NoToken /\ payment[p].token = t
                 \/ \E i \in Initiators :
                      PersistReference(i) /\ start[i].token = t
<1>1. CASE \E i \in Initiators : StartStep(i)
  <2>1. PICK i \in Initiators : StartStep(i)
    BY <1>1
  <2>2. CASE FindExisting(i)
    <3>1. \/ shown' = shown
          \/ \E p \in Payments : /\ payment[p].token # NoToken
                                 /\ shown' = shown \cup {payment[p].token}
      BY <2>2 DEF FindExisting, Replay, Reuse, PendingPaydunya
    <3>2. UNCHANGED <<payment, invoice>>
      BY <2>2 DEF FindExisting, ledgerVars
    <3>3. QED
      BY <3>1, <3>2
  <2>3. CASE PersistReference(i)
    BY <2>3 DEF PersistReference
  <2>4. CASE UNCHANGED shown
    BY <2>4
  <2>5. QED
    BY <2>1, <2>2, <2>3, <2>4 DEF StartStep, StartRead, ReuseOrphan,
       CreatePending, CreateInvoice, StartFail, providerVars
<1>2. CASE UNCHANGED shown
  BY <1>2
<1>3. QED
  <2>1. CASE PeopleStep \/ OverdueStep \/ UNCHANGED vars
    BY <1>2, <2>1
    DEF PeopleStep, OverdueStep, vars, collectionVars, providerVars
  <2>2. CASE PaydunyaStep
    BY <1>1, <1>2, <2>2, CollectionSteps, RecType, OutsideType
    DEF IInv, PaydunyaStep
  <2>3. QED
    BY <2>1, <2>2 DEF Next

\* The row a start works on has no reference until the start writes it.
LEMMA AloneStart ==
  ASSUME IInv, Alone, [Next]_vars,
         \A p \in Payments : RowStep(p),
         NEW i \in Initiators, start'[i].pc \in {"reuse", "invoice", "persist"}
  PROVE  payment'[start'[i].pay].token = NoToken
<1>0. /\ start \in [Initiators -> StartMemory] /\ start[i] \in StartMemory
      /\ payment \in [Payments -> Row] /\ Started
  BY DEF IInv, TypeOK
<1>1. CASE start'[i] = start[i]
  <2>1. /\ start[i].pay \in Payments /\ RowStep(start[i].pay)
        /\ payment[start[i].pay].token = NoToken
    BY <1>0, <1>1 DEF Started, Alone
  <2>2. ASSUME Referenced(start[i].pay) PROVE FALSE
    <3>1. PICK j \in Initiators :
            PersistReference(j) /\ start[j].pay = start[i].pay
      BY <2>2 DEF Referenced
    <3>2. Works(i) /\ Works(j)
      BY <1>1, <3>1 DEF PersistReference, Works
    <3>3. PersistReference(i)
      BY <3>1, <3>2 DEF Alone
    <3>4. QED
      BY <1>0, <1>1, <3>3 DEF PersistReference, StartDone, StartIdle
  <2>3. QED
    BY <1>1, <2>1, <2>2
    DEF RowStep, ByPerson, Created, Edited, Rejected, Collected
<1>2. CASE StartRead(i) \/ StartFail(i) \/ PersistReference(i)
  <2>1. start'[i].pc \in {"find", "idle"}
    BY <1>0, <1>2 DEF StartRead, StartFail, PersistReference, StartDone,
       StartIdle, StartMemory
  <2>2. QED
    BY <2>1
<1>3. CASE FindExisting(i)
  <2>1. CASE \E p \in PendingPaydunya : Reuse(i, p)
    <3>1. PICK p \in PendingPaydunya : Reuse(i, p)
      BY <2>1
    <3>2. start'[i].pay = p
      BY <1>0, <3>1 DEF Reuse, StartMemory
    <3>3. QED
      BY <1>3, <3>1, <3>2 DEF Reuse, FindExisting, ledgerVars
  <2>2. CASE Goto(i, "create") \/ StartDone(i)
    <3>1. start'[i].pc \in {"create", "idle"}
      BY <1>0, <2>2 DEF Goto, StartDone, StartIdle, StartMemory
    <3>2. QED
      BY <3>1
  <2>3. QED
    BY <1>3, <2>1, <2>2 DEF FindExisting, Replay
<1>4. CASE ReuseOrphan(i)
  <2>1. start'[i].pay = start[i].pay
    BY <1>0, <1>4 DEF ReuseOrphan, Goto, StartMemory
  <2>2. start[i].pay \in Payments /\ payment[start[i].pay].token = NoToken
    BY <1>0, <1>4 DEF ReuseOrphan, Started, Alone
  <2>3. payment'[start[i].pay].token = payment[start[i].pay].token
    BY <1>0, <1>4, <2>2 DEF ReuseOrphan, Row
  <2>4. QED
    BY <2>1, <2>2, <2>3
<1>5. CASE CreatePending(i)
  <2>1. CASE StartDone(i)
    BY <1>0, <2>1 DEF StartDone, StartIdle
  <2>2. CASE ~StartDone(i)
    <3>1. PICK p \in Fresh :
             /\ payment' = [payment EXCEPT ![p] =
                  [NoRow EXCEPT !.source = "PAYDUNYA_API", !.status = "PENDING",
                                !.amount = start[i].rest,
                                !.fee = ComputeTenantFee(start[i].rest)]]
             /\ start' = [start EXCEPT ![i].pc = "invoice", ![i].pay = p,
                                       ![i].fresh = TRUE]
      BY <1>5, <2>2 DEF CreatePending
    <3>2. start'[i].pay = p
      BY <1>0, <3>1 DEF StartMemory
    <3>3. p \in Payments /\ payment'[p].token = NoToken
      BY <1>0, <3>1 DEF Fresh, NoRow
    <3>4. QED
      BY <3>2, <3>3
  <2>3. QED
    BY <2>1, <2>2
<1>6. CASE CreateInvoice(i)
  <2>1. start'[i].pay = start[i].pay /\ payment' = payment
    BY <1>0, <1>6 DEF CreateInvoice, StartMemory, ledgerVars
  <2>2. QED
    BY <1>6, <2>1 DEF CreateInvoice, Alone
<1>7. QED
  BY <1>1, <1>2, <1>3, <1>4, <1>5, <1>6, StartChange DEF StartStep

\* What a reconciliation read stays true while it is under way.
LEMMA AloneRec ==
  ASSUME IInv, Alone, [Next]_vars, \A p \in Payments : RowStep(p),
         NEW c \in Reconcilers
  PROVE  /\ rec'[c].pc \in {"ask", "apply"} =>
              payment'[rec'[c].pay].token = rec'[c].token
         /\ rec'[c].pc # "idle" /\ rec'[c].old => payment'[rec'[c].pay].old
         /\ rec'[c].pc = "orphan" => payment'[rec'[c].pay].old
<1>0. /\ rec \in [Reconcilers -> RecMemory] /\ rec[c] \in RecMemory
      /\ Reconciled /\ Rows
  BY DEF IInv, TypeOK
<1>1. CASE rec'[c] = rec[c]
  <2>1. CASE rec[c].pc = "idle"
    BY <1>1, <2>1
  <2>2. CASE rec[c].pc # "idle"
    <3>1. rec[c].pay \in Payments /\ Paydunya(rec[c].pay)
      BY <1>0, <2>2 DEF Reconciled
    <3>2. payment[rec[c].pay].old => payment'[rec[c].pay].old
      BY <1>0, <3>1, PaydunyaKept
    <3>3. rec[c].pc \in {"ask", "apply"} =>
            payment'[rec[c].pay].token = rec[c].token
      BY <1>0, <3>1, TokenKept, NullAssumption DEF Reconciled, Alone
    <3>4. QED
      BY <1>1, <3>2, <3>3 DEF Alone
  <2>3. QED
    BY <2>1, <2>2
<1>2. CASE RecDone(c)
  <2>1. rec'[c].pc = "idle"
    BY <1>0, <1>2 DEF RecDone, RecIdle
  <2>2. QED
    BY <2>1
<1>3. CASE ReconcileRead(c)
  <2>1. PICK p \in PendingPaydunya :
          /\ payment[p].token = NoToken => payment[p].old
          /\ rec' = [rec EXCEPT ![c] =
            [RecIdle EXCEPT
              !.pc = IF payment[p].token = NoToken THEN "orphan" ELSE "ask",
              !.pay = p, !.token = payment[p].token, !.old = payment[p].old,
              !.amount = payment[p].amount, !.fee = payment[p].fee]]
    BY <1>3 DEF ReconcileRead
  <2>2. /\ rec'[c].pay = p /\ rec'[c].token = payment[p].token
        /\ rec'[c].old = payment[p].old
        /\ rec'[c].pc = IF payment[p].token = NoToken THEN "orphan" ELSE "ask"
    BY <1>0, <2>1 DEF RecIdle
  <2>3. payment' = payment
    BY <1>3 DEF ReconcileRead, ledgerVars
  <2>4. QED
    BY <2>1, <2>2, <2>3
<1>4. CASE AskProvider(c)
  <2>1. PICK n \in {0, invoice[rec[c].token].total} :
          rec' = [rec EXCEPT ![c].pc = "apply", ![c].total = n,
                             ![c].seen = invoice[rec[c].token].status]
    BY <1>4 DEF AskProvider
  <2>2. /\ rec'[c].pay = rec[c].pay /\ rec'[c].token = rec[c].token
        /\ rec'[c].old = rec[c].old /\ rec'[c].pc = "apply"
    BY <1>0, <2>1 DEF RecMemory
  <2>3. payment' = payment /\ rec[c].pc = "ask"
    BY <1>4 DEF AskProvider, ledgerVars
  <2>4. QED
    BY <2>2, <2>3 DEF Alone
<1>5. QED
  BY <1>1, <1>2, <1>3, <1>4, RecChange
  DEF ReconcileOrphan, ApplyCompleted, ApplyUnpaid, ReconcileFail

\* Before the abandonment delay only the provider's refusal rejects a row.
LEMMA AloneRejected ==
  ASSUME IInv, Alone, \A p \in Payments : RowStep(p),
         \A t \in Tokens : InvoiceStep(t),
         NEW p \in Payments, payment'[p].source = "PAYDUNYA_API",
         payment'[p].status = "REJECTED", ~payment'[p].old
  PROVE  /\ payment'[p].token \in Tokens
         /\ invoice'[payment'[p].token].status \in {"cancelled", "failed"}
<1>0. RowStep(p)
  OBVIOUS
<1>1. CASE payment'[p].token = payment[p].token /\ Paydunya(p)
           /\ payment[p].status = "REJECTED" /\ ~payment[p].old
  <2>1. /\ payment[p].token \in Tokens
        /\ invoice[payment[p].token].status \in {"cancelled", "failed"}
    BY <1>1 DEF Alone
  <2>2. QED
    BY <1>1, <2>1, Issued
<1>2. CASE Referenced(p)
  <2>1. payment[p].token = NoToken
    BY <1>2 DEF Referenced, PersistReference, Alone
  <2>2. payment[p].token \in Tokens
    BY <1>2 DEF Referenced, OfPaydunya, Alone
  <2>3. QED
    BY <2>1, <2>2, NullAssumption
<1>3. CASE Rejected(p)
  <2>1. PICK c \in Reconcilers :
          (ReconcileOrphan(c) \/ ApplyUnpaid(c)) /\ rec[c].pay = p
    BY <1>3 DEF Rejected
  <2>2. ~payment[p].old /\ payment'[p] # payment[p]
        /\ payment'[p].token = payment[p].token
    BY <1>3 DEF Rejected, OfPaydunya
  <2>3. ~ReconcileOrphan(c)
    BY <2>1, <2>2 DEF ReconcileOrphan, Alone
  <2>4. ApplyUnpaid(c) /\ rec[c].pc = "apply" /\ ~rec[c].old
    BY <2>1, <2>2, <2>3 DEF ApplyUnpaid, Alone
  <2>5. rec[c].seen \in {"cancelled", "failed"}
    <3>1. rec[c].seen \in InvoiceStatuses
      BY DEF IInv, TypeOK, RecMemory
    <3>2. rec[c].seen \notin {"completed", "pending"}
      BY <2>2, <2>4 DEF ApplyUnpaid
    <3>3. QED
      BY <3>1, <3>2 DEF InvoiceStatuses
  <2>6. /\ rec[c].token \in Tokens /\ rec[c].token = payment[p].token
        /\ invoice[rec[c].token].status = rec[c].seen
    BY <2>1, <2>4, <2>5 DEF IInv, Reconciled, Alone
  <2>7. QED
    BY <2>2, <2>5, <2>6, Issued
<1>4. QED
  BY <1>0, <1>1, <1>2, <1>3
  DEF RowStep, ByPerson, Created, Edited, Collected, OfPaydunya, Paydunya

\* Every step keeps it, unless it is the one that crosses another start.
LEMMA AloneStep ==
  ASSUME IInv, Alone, [Next]_vars, ~crossed'
  PROVE  Alone'
<1>0. /\ \A p \in Payments : RowStep(p)
      /\ \A t \in Tokens : InvoiceStep(t)
      /\ shown \subseteq Tokens /\ IInv' /\ Rows /\ Started
  BY RowLife, InvoiceLife, InvStep DEF IInv, TypeOK
<1>1. \A i \in Initiators :
        start'[i].pc \in {"reuse", "invoice", "persist"} =>
          payment'[start'[i].pay].token = NoToken
  BY <1>0, AloneStart
<1>2. ASSUME NEW t \in shown'
      PROVE  /\ invoice'[t].status # "none" /\ invoice'[t].pay \in Payments
             /\ payment'[invoice'[t].pay].token = t
  <2>1. CASE t \in shown
    <3>1. /\ t \in Tokens /\ invoice[t].status # "none"
          /\ invoice[t].pay \in Payments
          /\ payment[invoice[t].pay].token = t
      BY <1>0, <2>1 DEF Alone
    <3>2. payment'[invoice[t].pay].token = t
      BY <1>0, <3>1, TokenKept, NullAssumption
    <3>3. QED
      BY <1>0, <3>1, <3>2, Issued
  <2>2. CASE t \notin shown /\ \E p \in Payments :
               payment[p].token # NoToken /\ payment[p].token = t
    <3>1. PICK p \in Payments :
            payment[p].token # NoToken /\ payment[p].token = t
      BY <2>2
    <3>2. invoice[t].status # "none" /\ invoice[t].pay = p
      BY <1>0, <3>1 DEF Rows
    <3>3. UNCHANGED invoice /\ payment'[p].token = t
      BY <1>0, <1>2, <2>2, <3>1, ShownChange, TokenKept
    <3>4. QED
      BY <3>2, <3>3
  <2>3. CASE t \notin shown /\ \E i \in Initiators :
               PersistReference(i) /\ start[i].token = t
    <3>1. PICK i \in Initiators : PersistReference(i) /\ start[i].token = t
      BY <2>3
    <3>2. /\ start[i].pay \in Payments /\ invoice[t].status # "none"
          /\ invoice[t].pay = start[i].pay
      BY <1>0, <3>1 DEF PersistReference, Started
    <3>3. payment'[start[i].pay].token = t /\ UNCHANGED invoice
      BY <3>1, <3>2 DEF PersistReference, IInv, TypeOK, Row
    <3>4. QED
      BY <3>2, <3>3
  <2>4. QED
    BY <1>2, <2>1, <2>2, <2>3, ShownChange
<1>3. \A t \in Tokens :
        invoice'[t].status \in {"completed", "cancelled", "failed"} =>
          t \in shown'
  BY <1>0, ShownChange DEF InvoiceStep, Alone
<1>4. \A c \in Reconcilers :
       /\ rec'[c].pc \in {"ask", "apply"} =>
            payment'[rec'[c].pay].token = rec'[c].token
       /\ rec'[c].pc # "idle" /\ rec'[c].old => payment'[rec'[c].pay].old
       /\ rec'[c].pc = "orphan" => payment'[rec'[c].pay].old
  BY <1>0, AloneRec
<1>5. \A p \in Payments :
        payment'[p].source = "PAYDUNYA_API"
          /\ payment'[p].status = "REJECTED" /\ ~payment'[p].old =>
             /\ payment'[p].token \in Tokens
             /\ invoice'[payment'[p].token].status \in {"cancelled", "failed"}
  BY <1>0, AloneRejected
<1>6. /\ \A i, j \in Initiators :
           Works(i)' /\ Works(j)' /\ start'[i].pay = start'[j].pay => i = j
      /\ \A p, q \in PendingPaydunya' : p = q
  BY <1>0, AloneWork, AlonePending
<1>7. QED
  BY <1>1, <1>2, <1>3, <1>4, <1>5, <1>6 DEF Alone, Paydunya

\* So it holds until a start takes up the row of another.
LEMMA AloneInvariance == Spec => [](IInv /\ (crossed \/ Alone))
<1>1. Init => Alone
  <2>1. SUFFICES ASSUME Init PROVE Alone
    OBVIOUS
  <2>2. /\ \A p \in Payments : payment[p] = NoRow
        /\ \A i \in Initiators : start[i].pc = "idle"
        /\ \A c \in Reconcilers : rec[c].pc = "idle"
        /\ \A t \in Tokens : invoice[t].status = "none"
        /\ shown = {}
    BY <2>1
    DEF Init, LedgerInit, CollectionInit, NoInvoice, StartIdle, RecIdle
  <2>3. NoRow.source = "NONE"
    BY DEF NoRow
  <2>4. QED
    BY <2>2, <2>3 DEF Alone, Works, Paydunya, PendingPaydunya
<1>2. IInv /\ (crossed \/ Alone) /\ [Next]_vars => (crossed \/ Alone)'
  BY AloneStep, CrossedKept
<1>3. QED
  BY <1>1, <1>2, Invariance, PTL DEF Spec

\* No money the provider collected is lost, unless a start took up the row of
\* another: the payment of a collected invoice has it for reference, and is
\* credited, can still be reconciled, or was given up after the abandonment
\* delay.
THEOREM CollectedIsAccountedCorrect == Spec => []CollectedIsAccounted
<1>1. IInv /\ (crossed \/ Alone) => CollectedIsAccounted
  <2>1. SUFFICES ASSUME IInv, Alone, NEW t \in Tokens,
                        invoice[t].status = "completed"
                 PROVE  /\ payment[invoice[t].pay].token = t
                        /\ \/ payment[invoice[t].pay].status
                                \in {"PENDING", "PAID"}
                           \/ /\ payment[invoice[t].pay].status = "REJECTED"
                              /\ payment[invoice[t].pay].old
    BY DEF CollectedIsAccounted
  <2>2. invoice[t].pay \in Payments /\ payment[invoice[t].pay].token = t
    BY <2>1 DEF Alone
  <2>3. /\ Paydunya(invoice[t].pay)
        /\ payment[invoice[t].pay].status \in {"PENDING", "PAID", "REJECTED"}
    BY <2>1, <2>2, NullAssumption DEF IInv, Rows
  <2>4. QED
    BY <2>1, <2>2, <2>3 DEF Alone
<1>2. QED
  BY <1>1, AloneInvariance, PTL

\* Whatever starts run together, the tenant holds the page of one invoice per
\* payment and of one payment in progress, unless a start took up the row of
\* another: creating is what the partial unique index makes safe.
THEOREM OneCheckoutAtATimeCorrect == Spec => []OneCheckoutAtATime
<1>1. crossed \/ Alone => OneCheckoutAtATime
  <2>1. SUFFICES ASSUME Alone, NEW t \in shown, NEW u \in shown,
                        \/ invoice[t].pay = invoice[u].pay
                        \/ /\ invoice[t].pay \in PendingPaydunya
                           /\ invoice[u].pay \in PendingPaydunya
                 PROVE  t = u
    BY DEF OneCheckoutAtATime
  <2>2. invoice[t].pay = invoice[u].pay
    BY <2>1 DEF Alone
  <2>3. QED
    BY <2>1, <2>2 DEF Alone
<1>2. QED
  BY <1>1, AloneInvariance, PTL
=============================================================================
