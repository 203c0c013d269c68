----------------------------- MODULE LedgerProofs -----------------------------
(***************************************************************************)
(* The amount of the entry is the sum of its PAID payments, until a person *)
(* writes on an outdated read or a start takes up the row of another:      *)
(* proved for any rows, amounts, people, starts and reconciliations.       *)
(*                                                                         *)
(* The sum counts the francs of the PAID rows, so that a credit adds the   *)
(* francs of one row to a finite set that held none of them.  The same     *)
(* account of the steps gives the refinement of RentBook.  Last comes what *)
(* an invoice asks for: the amount its row will be credited with.          *)
(***************************************************************************)
EXTENDS RentProofs, FiniteSetTheorems

-----------------------------------------------------------------------------
(* Counting the francs.                                                    *)

\* A franc is counted for a row that is PAID, within its amount.
LEMMA FrancOf ==
  ASSUME NEW f
  PROVE  f \in PaidFrancs <=>
           \E p \in Payments : /\ payment[p].status = "PAID"
                               /\ f \in {p} \X (1..payment[p].amount)
BY DEF PaidFrancs, PaidRows

\* A row's francs are as many as its amount.
LEMMA FrancsOfRow ==
  ASSUME NEW p, NEW n \in Nat
  PROVE  /\ IsFiniteSet({p} \X (1..n))
         /\ Cardinality({p} \X (1..n)) = n
<1>1. IsFiniteSet({p}) /\ Cardinality({p}) = 1
  BY FS_Singleton
<1>2. IsFiniteSet(1..n) /\ Cardinality(1..n) = n
  <2>1. IsFiniteSet(1..n) /\ Cardinality(1..n) = IF 1 > n THEN 0 ELSE n - 1 + 1
    BY FS_Interval
  <2>2. QED
    BY <2>1
<1>3. /\ IsFiniteSet({p} \X (1..n))
      /\ Cardinality({p} \X (1..n)) = Cardinality({p}) * Cardinality(1..n)
  BY <1>1, <1>2, FS_Product
<1>4. 1 * n = n
  OBVIOUS
<1>5. QED
  BY <1>1, <1>2, <1>3, <1>4

\* The PAID rows and their amounts stay what they were.
SamePaid ==
  \A p \in Payments :
    /\ payment'[p].status = "PAID" <=> payment[p].status = "PAID"
    /\ payment[p].status = "PAID" => payment'[p].amount = payment[p].amount

\* One more row is PAID, of n francs.
NewlyPaid(p, n) ==
  /\ payment[p].status # "PAID"
  /\ payment'[p].status = "PAID" /\ payment'[p].amount = n
  /\ \A q \in Payments \ {p} : payment'[q] = payment[q]

\* The same rows have the same francs.
LEMMA SameFrancs ==
  ASSUME SamePaid
  PROVE  PaidFrancs' = PaidFrancs
<1>1. ASSUME NEW f PROVE f \in PaidFrancs' <=> f \in PaidFrancs
  <2>1. f \in PaidFrancs' <=>
           \E p \in Payments : /\ payment'[p].status = "PAID"
                               /\ f \in {p} \X (1..payment'[p].amount)
    BY DEF PaidFrancs, PaidRows
  <2>2. QED
    BY <2>1, FrancOf DEF SamePaid
<1>2. QED
  BY <1>1

\* One more row adds its francs, which were not there.
LEMMA MoreFrancs ==
  ASSUME NEW p \in Payments, NEW n \in Nat, NewlyPaid(p, n)
  PROVE  /\ PaidFrancs' = PaidFrancs \cup ({p} \X (1..n))
         /\ PaidFrancs \cap ({p} \X (1..n)) = {}
<1>1. ASSUME NEW f
      PROVE  f \in PaidFrancs' <=> f \in PaidFrancs \/ f \in {p} \X (1..n)
  <2>1. f \in PaidFrancs' <=>
           \E q \in Payments : /\ payment'[q].status = "PAID"
                               /\ f \in {q} \X (1..payment'[q].amount)
    BY DEF PaidFrancs, PaidRows
  <2>2. QED
    BY <2>1, FrancOf DEF NewlyPaid
<1>2. ASSUME NEW f \in PaidFrancs, f \in {p} \X (1..n) PROVE FALSE
  <2>1. PICK q \in Payments : /\ payment[q].status = "PAID"
                              /\ f \in {q} \X (1..payment[q].amount)
    BY <1>2, FrancOf
  <2>2. q = p
    BY <1>2, <2>1
  <2>3. QED
    BY <2>1, <2>2 DEF NewlyPaid
<1>3. QED
  BY <1>1, <1>2

\* So the sum grows by the amount of the new row, and by nothing else.
LEMMA SumGrows ==
  ASSUME NEW p \in Payments, NEW n \in Nat, NewlyPaid(p, n),
         IsFiniteSet(PaidFrancs)
  PROVE  IsFiniteSet(PaidFrancs') /\ PaidSum' = PaidSum + n
<1> DEFINE New == {p} \X (1..n)
<1>1. IsFiniteSet(New) /\ Cardinality(New) = n
  BY FrancsOfRow
<1>2. PaidFrancs' = PaidFrancs \cup New /\ PaidFrancs \cap New = {}
  BY MoreFrancs
<1> HIDE DEF New
<1>3. /\ IsFiniteSet(PaidFrancs \cup New)
      /\ Cardinality(PaidFrancs \cup New) =
           Cardinality(PaidFrancs) + Cardinality(New)
             - Cardinality(PaidFrancs \cap New)
  BY <1>1, FS_Union
<1>4. Cardinality(PaidFrancs \cap New) = 0 /\ Cardinality(PaidFrancs) \in Nat
  BY <1>2, FS_EmptySet, FS_CardinalityType
<1>5. Cardinality(PaidFrancs \cup New) = Cardinality(PaidFrancs) + n
  BY <1>1, <1>3, <1>4
<1>6. QED
  BY <1>2, <1>3, <1>5 DEF PaidSum

-----------------------------------------------------------------------------
(* What a step does to the ledger.                                         *)

\* A PAID row of PayDunya's has its reference, so that no start, whose row has
\* none, changes its amount any more.
Tokened ==
  \A p \in Payments :
    Paydunya(p) /\ payment[p].status = "PAID" => payment[p].token # NoToken

\* What was paid stays; the overdue task may have changed the status.
SumKept ==
  /\ SamePaid
  /\ entry'.paid = entry.paid /\ entry'.status \in {entry.status, "OVERDUE"}

\* A payment was credited with its amount.
CreditedWith(p, n) == NewlyPaid(p, n) /\ entry' = Credited(entry.paid + n)

LedgerChange ==
  \/ SumKept
  \/ \E p \in Payments, n \in Nat : CreditedWith(p, n)

\* A write that is not stale finds the entry and the row as they were read.
LEMMA PeopleLedger ==
  ASSUME TypeOK, Rows, Requested, LedgerNext, ~stale'
  PROVE  LedgerChange
<1>0. /\ payment \in [Payments -> Row] /\ entry \in Entry
      /\ req \in [Requests -> Memory]
  BY DEF TypeOK
<1>r. PICK r \in Requests :
        \/ CreateManualRead(r) \/ CreateManualWrite(r)
        \/ DeclarationCreate(r)
        \/ UpdateRead(r) \/ UpdateWrite(r)
        \/ CancelRead(r) \/ CancelWrite(r)
        \/ ConfirmRead(r) \/ ConfirmWrite(r)
        \/ RejectRead(r) \/ RejectWrite(r)
        \/ Fail(r)
  BY DEF LedgerNext
<1>m. req[r].paid \in Nat /\ req[r].amount \in Nat
  BY <1>0 DEF Memory
<1>1. CASE \/ CreateManualRead(r) \/ UpdateRead(r) \/ CancelRead(r)
           \/ ConfirmRead(r) \/ RejectRead(r) \/ Fail(r)
  <2>1. UNCHANGED <<entry, payment>>
    BY <1>1 DEF CreateManualRead, UpdateRead, CancelRead, ConfirmRead,
       RejectRead, Fail, Begin
  <2>2. QED
    BY <2>1 DEF LedgerChange, SumKept, SamePaid
<1>2. CASE CreateManualWrite(r)
  <2>1. PICK p \in Fresh :
          payment' = [payment EXCEPT ![p] =
               [NoRow EXCEPT !.source = "MANUAL_OWNER", !.status = "PAID",
                             !.amount = req[r].amount]]
    BY <1>2 DEF CreateManualWrite
  <2>2. p \in Payments /\ payment[p].status = "NONE"
    BY DEF Fresh
  <2>3. /\ payment'[p].status = "PAID" /\ payment'[p].amount = req[r].amount
        /\ \A q \in Payments \ {p} : payment'[q] = payment[q]
    BY <1>0, <2>1, <2>2 DEF NoRow
  <2>4. entry' = Credited(entry.paid + req[r].amount)
    BY <1>2 DEF CreateManualWrite, StaleEntry
  <2>5. QED
    BY <1>m, <2>2, <2>3, <2>4 DEF LedgerChange, CreditedWith, NewlyPaid
<1>3. CASE DeclarationCreate(r)
  <2>1. PICK q \in Fresh, a \in Amounts :
          payment' = [payment EXCEPT ![q] =
            [NoRow EXCEPT !.source = "TENANT_DECLARATION",
                          !.status = "PENDING_CONFIRMATION", !.amount = a]]
    BY <1>3 DEF DeclarationCreate
  <2>2. /\ q \in Payments /\ payment[q].status # "PAID"
        /\ payment'[q].status # "PAID"
        /\ \A p \in Payments \ {q} : payment'[p] = payment[p]
    BY <1>0, <2>1 DEF NoRow, Fresh
  <2>3. entry' = entry
    BY <1>3 DEF DeclarationCreate
  <2>4. QED
    BY <2>2, <2>3 DEF LedgerChange, SumKept, SamePaid
<1>4. CASE UpdateWrite(r) \/ CancelWrite(r) \/ RejectWrite(r)
  <2>1. /\ req[r].pay \in Payments
        /\ payment[req[r].pay].status = "PENDING_CONFIRMATION"
    BY <1>4 DEF UpdateWrite, CancelWrite, RejectWrite, Requested, StaleRow
  <2>2. /\ payment'[req[r].pay].status # "PAID"
        /\ \A p \in Payments \ {req[r].pay} : payment'[p] = payment[p]
    <3>0. payment[req[r].pay] \in Row
      BY <1>0, <2>1
    <3>1. CASE UpdateWrite(r)
      <4>1. PICK a \in Amounts :
              payment' = [payment EXCEPT ![req[r].pay].amount = a]
        BY <3>1 DEF UpdateWrite
      <4>2. payment'[req[r].pay].status = payment[req[r].pay].status
        BY <1>0, <2>1, <3>0, <4>1 DEF Row
      <4>3. QED
        BY <1>0, <2>1, <4>1, <4>2
    <3>2. CASE CancelWrite(r) \/ RejectWrite(r)
      <4>1. PICK s \in {"DELETED", "REJECTED"} :
              payment' = [payment EXCEPT ![req[r].pay].status = s]
        BY <3>2 DEF CancelWrite, RejectWrite
      <4>2. payment'[req[r].pay].status = s
        BY <1>0, <2>1, <3>0, <4>1 DEF Row
      <4>3. QED
        BY <1>0, <2>1, <4>1, <4>2
    <3>3. QED
      BY <1>4, <3>1, <3>2
  <2>3. entry' = entry
    BY <1>4 DEF UpdateWrite, CancelWrite, RejectWrite
  <2>4. QED
    BY <2>1, <2>2, <2>3 DEF LedgerChange, SumKept, SamePaid
<1>5. CASE ConfirmWrite(r)
  <2>1. /\ req[r].pay \in Payments
        /\ payment[req[r].pay].status = "PENDING_CONFIRMATION"
        /\ payment[req[r].pay].amount = req[r].amount
    BY <1>5 DEF ConfirmWrite, Requested, StaleRow
  <2>2. /\ payment'[req[r].pay].status = "PAID"
        /\ payment'[req[r].pay].amount = req[r].amount
        /\ \A p \in Payments \ {req[r].pay} : payment'[p] = payment[p]
    BY <1>0, <1>5, <2>1 DEF ConfirmWrite, Row
  <2>3. entry' = Credited(entry.paid + req[r].amount)
    BY <1>5 DEF ConfirmWrite, StaleEntry
  <2>4. QED
    BY <1>m, <2>1, <2>2, <2>3 DEF LedgerChange, CreditedWith, NewlyPaid
<1>6. QED
  BY <1>r, <1>1, <1>2, <1>3, <1>4, <1>5

\* A start never touches what was paid: the row it edits has no
\* reference, and the row it creates is not PAID.
LEMMA StartLedger ==
  ASSUME IInv, Alone, Tokened, NEW i \in Initiators, StartStep(i)
  PROVE  LedgerChange
<1>0. /\ payment \in [Payments -> Row] /\ entry' = entry
      /\ TypeOK /\ Rows /\ Started
  BY StartType DEF IInv, TypeOK
<1>1. CASE \/ StartRead(i) \/ FindExisting(i) \/ CreateInvoice(i)
           \/ StartFail(i)
  <2>1. UNCHANGED payment
    BY <1>1 DEF StartRead, FindExisting, CreateInvoice, StartFail, ledgerVars
  <2>2. QED
    BY <1>0, <2>1 DEF LedgerChange, SumKept, SamePaid
<1>2. CASE ReuseOrphan(i)
  <2>1. /\ start[i].pay \in Payments /\ Paydunya(start[i].pay)
        /\ payment[start[i].pay].token = NoToken
    BY <1>0, <1>2 DEF ReuseOrphan, Started, Alone
  <2>2. payment[start[i].pay].status # "PAID"
    BY <2>1 DEF Tokened
  <2>3. /\ payment'[start[i].pay].status = payment[start[i].pay].status
        /\ \A p \in Payments \ {start[i].pay} : payment'[p] = payment[p]
    BY <1>0, <1>2, <2>1 DEF ReuseOrphan, Row
  <2>4. QED
    BY <1>0, <2>2, <2>3 DEF LedgerChange, SumKept, SamePaid
<1>3. CASE CreatePending(i)
  <2>1. CASE UNCHANGED payment
    BY <1>0, <2>1 DEF LedgerChange, SumKept, SamePaid
  <2>2. CASE ~UNCHANGED payment
    <3>1. PICK p \in Fresh :
             payment' = [payment EXCEPT ![p] =
                  [NoRow EXCEPT !.source = "PAYDUNYA_API", !.status = "PENDING",
                                !.amount = start[i].rest,
                                !.fee = ComputeTenantFee(start[i].rest)]]
      BY <1>3, <2>2 DEF CreatePending
    <3>2. /\ p \in Payments /\ payment[p].status # "PAID"
          /\ payment'[p].status # "PAID"
          /\ \A q \in Payments \ {p} : payment'[q] = payment[q]
      BY <1>0, <3>1 DEF Fresh, NoRow
    <3>3. QED
      BY <1>0, <3>2 DEF LedgerChange, SumKept, SamePaid
  <2>3. QED
    BY <2>1, <2>2
<1>4. CASE PersistReference(i)
  <2>1. start[i].pay \in Payments
    BY <1>0, <1>4 DEF PersistReference, Started
  <2>2. payment' = [payment EXCEPT ![start[i].pay].token = start[i].token]
    BY <1>4 DEF PersistReference
  <2>3. ASSUME NEW p \in Payments
        PROVE  /\ payment'[p].status = payment[p].status
               /\ payment'[p].amount = payment[p].amount
    BY <1>0, <2>1, <2>2 DEF Row
  <2>4. QED
    BY <1>0, <2>3 DEF LedgerChange, SumKept, SamePaid
<1>5. QED
  BY <1>1, <1>2, <1>3, <1>4 DEF StartStep

\* A reconciliation credits the row it found pending, or leaves the sum.
LEMMA RecLedger ==
  ASSUME IInv, NEW c \in Reconcilers,
         \/ ReconcileRead(c) \/ ReconcileOrphan(c) \/ AskProvider(c)
         \/ ApplyCompleted(c) \/ ApplyUnpaid(c) \/ ReconcileFail(c)
  PROVE  LedgerChange
<1>0. /\ payment \in [Payments -> Row] /\ entry \in Entry
      /\ rec[c] \in RecMemory /\ Reconciled
  BY DEF IInv, TypeOK
<1>1. CASE ReconcileRead(c) \/ AskProvider(c) \/ ReconcileFail(c)
  BY <1>1 DEF ReconcileRead, AskProvider, ReconcileFail, ledgerVars,
     LedgerChange, SumKept, SamePaid
<1>2. CASE ReconcileOrphan(c) \/ ApplyUnpaid(c)
  <2>1. rec[c].pay \in Payments /\ entry' = entry
    BY <1>0, <1>2 DEF ReconcileOrphan, ApplyUnpaid, Reconciled
  <2>2. CASE UNCHANGED payment
    BY <2>1, <2>2 DEF LedgerChange, SumKept, SamePaid
  <2>3. CASE RejectPending(c)
    <3>1. /\ \A p \in Payments \ {rec[c].pay} : payment'[p] = payment[p]
          /\ \/ payment'[rec[c].pay] = payment[rec[c].pay]
             \/ /\ payment[rec[c].pay].status # "PAID"
                /\ payment'[rec[c].pay].status # "PAID"
      BY <1>0, <2>1, <2>3 DEF RejectPending, StillPending, Row
    <3>2. QED
      BY <2>1, <3>1 DEF LedgerChange, SumKept, SamePaid
  <2>4. QED
    BY <1>2, <2>2, <2>3 DEF ReconcileOrphan, ApplyUnpaid
<1>3. CASE ApplyCompleted(c)
  <2>1. rec[c].pay \in Payments /\ RentOf(c) \in Nat
    BY <1>0, <1>3 DEF ApplyCompleted, Reconciled, RentOf, RecMemory
  <2>2. CASE UNCHANGED <<entry, payment>>
    BY <2>2 DEF LedgerChange, SumKept, SamePaid
  <2>3. CASE StillPending(rec[c].pay) /\ ~UNCHANGED <<entry, payment>>
    <3>1. /\ payment' = [payment EXCEPT ![rec[c].pay].status = "PAID",
                                        ![rec[c].pay].amount = RentOf(c)]
          /\ entry' = Credited(entry.paid + RentOf(c))
      BY <1>3, <2>3 DEF ApplyCompleted
    <3>2. /\ payment[rec[c].pay].status # "PAID"
          /\ payment'[rec[c].pay].status = "PAID"
          /\ payment'[rec[c].pay].amount = RentOf(c)
          /\ \A p \in Payments \ {rec[c].pay} : payment'[p] = payment[p]
      BY <1>0, <2>1, <2>3, <3>1 DEF StillPending, Row
    <3>3. QED
      BY <2>1, <3>1, <3>2 DEF LedgerChange, CreditedWith, NewlyPaid
  <2>4. QED
    BY <1>3, <2>2, <2>3 DEF ApplyCompleted
<1>4. QED
  BY <1>1, <1>2, <1>3

\* The overdue task writes the status OVERDUE and its own marks.
LEMMA OverdueLedger ==
  ASSUME TypeOK, OverdueNext
  PROVE  LedgerChange
<1>0. entry \in Entry
  BY DEF TypeOK
<1>k. PICK k \in Runs :
        \/ OverdueRead(k) \/ AlertAgency(k) \/ MarkOverdue(k)
        \/ OutOfHours(k) \/ ReserveReminder(k) \/ SendReminder(k)
        \/ RunCrash(k)
  BY DEF OverdueNext
<1>1. UNCHANGED payment
  BY <1>k DEF OverdueRead, AlertAgency, MarkOverdue, OutOfHours,
     ReserveReminder, SendReminder, RunCrash, ledgerVars
<1>2. \/ entry' = entry
      \/ entry' = [entry EXCEPT !.status = "OVERDUE", !.alerted = TRUE]
      \/ \E b \in BOOLEAN : entry' = [entry EXCEPT !.reminded = b]
  BY <1>k DEF OverdueRead, AlertAgency, MarkOverdue, OutOfHours,
     ReserveReminder, SendReminder, RunCrash, ledgerVars
<1>3. entry'.paid = entry.paid /\ entry'.status \in {entry.status, "OVERDUE"}
  BY <1>0, <1>2 DEF Entry
<1>4. QED
  BY <1>1, <1>3 DEF LedgerChange, SumKept, SamePaid

\* Whoever acts.
LEMMA LedgerStep ==
  ASSUME IInv, Alone, Tokened, [Next]_vars, ~stale'
  PROVE  LedgerChange
<1>0. TypeOK /\ Rows /\ Requested
  BY DEF IInv
<1>1. CASE PeopleStep
  BY <1>0, <1>1, PeopleLedger DEF PeopleStep
<1>2. CASE PaydunyaStep
  <2>1. CASE \E i \in Initiators : StartStep(i)
    BY <2>1, StartLedger
  <2>2. CASE \E c \in Reconcilers :
              \/ ReconcileRead(c) \/ ReconcileOrphan(c) \/ AskProvider(c)
              \/ ApplyCompleted(c) \/ ApplyUnpaid(c) \/ ReconcileFail(c)
    BY <2>2, RecLedger
  <2>3. CASE \E t \in Tokens : InvoiceSettled(t)
    BY <2>3 DEF InvoiceSettled, ledgerVars, LedgerChange, SumKept, SamePaid
  <2>4. CASE \E p \in Payments : GrowOld(p)
    <3>1. PICK p \in Payments : GrowOld(p)
      BY <2>4
    <3>2. payment' = [payment EXCEPT ![p].old = TRUE] /\ entry' = entry
      BY <3>1 DEF GrowOld
    <3>3. ASSUME NEW q \in Payments
          PROVE  /\ payment'[q].status = payment[q].status
                 /\ payment'[q].amount = payment[q].amount
      BY <1>0, <3>2 DEF TypeOK, Row
    <3>4. QED
      BY <3>2, <3>3 DEF LedgerChange, SumKept, SamePaid
  <2>5. QED
    BY <1>2, <2>1, <2>2, <2>3, <2>4, CollectionSteps DEF PaydunyaStep
<1>3. CASE OverdueStep
  BY <1>0, <1>3, OverdueLedger DEF OverdueStep
<1>4. CASE UNCHANGED vars
  BY <1>4 DEF vars, ledgerVars, LedgerChange, SumKept, SamePaid
<1>5. QED
  BY <1>1, <1>2, <1>3, <1>4 DEF Next

-----------------------------------------------------------------------------
(* The invariant.                                                          *)

\* As long as nothing is stale there are finitely many francs, and the entry
\* holds their number.
Counted == ~stale => IsFiniteSet(PaidFrancs) /\ LedgerExact

\* A write on an outdated read is never forgotten.
LEMMA StaleKept ==
  ASSUME TypeOK, Rows, Started, Reconciled, [Next]_vars, stale
  PROVE  stale'
<1>1. CASE PeopleStep
  BY <1>1 DEF PeopleStep, LedgerNext, CreateManualRead, CreateManualWrite,
     DeclarationCreate, UpdateRead, UpdateWrite, CancelRead, CancelWrite,
     ConfirmRead, ConfirmWrite, RejectRead, RejectWrite, Fail, Begin
<1>2. CASE PaydunyaStep
  <2>1. UNCHANGED stale
    BY <1>2, CollectionSteps, StartType, RecType, OutsideType DEF PaydunyaStep
  <2>2. QED
    BY <2>1
<1>3. CASE OverdueStep
  <2>1. UNCHANGED stale
    BY <1>3, OverdueType DEF OverdueStep
  <2>2. QED
    BY <2>1
<1>4. CASE UNCHANGED vars
  BY <1>4 DEF vars, ledgerVars
<1>5. QED
  BY <1>1, <1>2, <1>3, <1>4 DEF Next

\* A row is credited for an invoice that is its reference, which it keeps.
LEMMA TokenedStep ==
  ASSUME IInv, Alone, Tokened, [Next]_vars
  PROVE  Tokened'
<1>0. /\ TypeOK /\ Rows /\ Requested /\ Started /\ Reconciled
      /\ \A p \in Payments : RowStep(p)
      /\ IInv'
  BY RowLife, InvStep DEF IInv
<1>1. ASSUME NEW p \in Payments, payment'[p].source = "PAYDUNYA_API",
             payment'[p].status = "PAID"
      PROVE  payment'[p].token # NoToken
  <2>1. CASE payment[p].token # NoToken
    BY <2>1, <1>0, TokenKept
  <2>2. CASE Referenced(p)
    BY <1>0, <2>2, NullAssumption DEF Referenced, PersistReference, Started
  <2>3. CASE Collected(p) /\ payment[p].token = NoToken
    <3>1. PICK c \in Reconcilers : ApplyCompleted(c) /\ rec[c].pay = p
      BY <2>3 DEF Collected
    <3>2. payment[p].token = rec[c].token /\ rec[c].token \in Tokens
      BY <1>0, <3>1 DEF ApplyCompleted, Alone, Reconciled
    <3>3. QED
      BY <2>3, <3>2, NullAssumption
  <2>4. QED
    BY <1>0, <1>1, <2>1, <2>2, <2>3
    DEF RowStep, ByPerson, Created, Edited, Rejected, OfPaydunya, Tokened,
        Paydunya
<1>2. QED
  BY <1>1 DEF Tokened, Paydunya

\* The count follows the entry.
LEMMA CountedStep ==
  ASSUME IInv, Alone, Tokened, Counted, [Next]_vars
  PROVE  Counted'
<1>s. SUFFICES ASSUME ~stale' PROVE IsFiniteSet(PaidFrancs') /\ LedgerExact'
  BY DEF Counted
<1>0. /\ TypeOK /\ Rows /\ Started /\ Reconciled
      /\ entry \in Entry
  BY DEF IInv, TypeOK
<1>1. ~stale /\ IsFiniteSet(PaidFrancs) /\ LedgerExact
  BY <1>s, <1>0, StaleKept DEF Counted
<1>2. CASE SumKept
  <2>1. PaidFrancs' = PaidFrancs
    BY <1>2, SameFrancs DEF SumKept
  <2>2. PaidSum' = PaidSum
    BY <2>1 DEF PaidSum
  <2>3. entry'.paid = PaidSum' /\ ComputeEntryStatus(PaidSum)' =
          ComputeEntryStatus(PaidSum)
    BY <1>1, <1>2, <2>2 DEF SumKept, LedgerExact, ComputeEntryStatus
  <2>4. entry'.status \in {ComputeEntryStatus(PaidSum), "OVERDUE"}
    BY <1>1, <1>2 DEF SumKept, LedgerExact
  <2>5. QED
    BY <1>1, <2>1, <2>3, <2>4 DEF LedgerExact
<1>3. CASE \E p \in Payments, n \in Nat : CreditedWith(p, n)
  <2>1. PICK p \in Payments, n \in Nat : CreditedWith(p, n)
    BY <1>3
  <2>2. IsFiniteSet(PaidFrancs') /\ PaidSum' = PaidSum + n
    BY <1>1, <2>1, SumGrows DEF CreditedWith
  <2>3. entry' = Credited(entry.paid + n) /\ entry.paid = PaidSum
    BY <1>1, <2>1 DEF CreditedWith, LedgerExact
  <2>4. /\ entry'.paid = PaidSum + n
        /\ entry'.status = ComputeEntryStatus(PaidSum + n)
    BY <1>0, <2>3 DEF Credited, Entry
  <2>5. entry'.paid = PaidSum' /\ entry'.status = ComputeEntryStatus(PaidSum)'
    BY <2>2, <2>4 DEF ComputeEntryStatus
  <2>6. QED
    BY <2>2, <2>5 DEF LedgerExact
<1>4. QED
  BY <1>s, <1>2, <1>3, LedgerStep DEF LedgerChange

\* Until a person writes on an outdated read or a start takes up the row of
\* another, the entry's amount is the sum of its PAID payments and its status
\* is derived from it, however many starts, reconciliations, manual payments,
\* confirmations, rejections and alerts interleave.
THEOREM LedgerExactUnlessStaleCorrect == Spec => []LedgerExactUnlessStale
<1>1. Init => Tokened /\ Counted
  <2>1. SUFFICES ASSUME Init PROVE Tokened /\ Counted
    OBVIOUS
  <2>2. /\ \A p \in Payments : payment[p] = NoRow
        /\ entry = [paid |-> 0, status |-> "PENDING",
                    alerted |-> FALSE, reminded |-> FALSE]
    BY <2>1 DEF Init, LedgerInit
  <2>3. PaidFrancs = {}
    BY <2>2, FrancOf DEF NoRow
  <2>4. IsFiniteSet(PaidFrancs) /\ PaidSum = 0
    BY <2>3, FS_EmptySet DEF PaidSum
  <2>5. Tokened
    BY <2>2 DEF Tokened, NoRow
  <2>6. QED
    BY <2>2, <2>4, <2>5, ExpectedAssumption
    DEF Counted, LedgerExact, ComputeEntryStatus
<1>2. IInv /\ (crossed \/ Alone) /\ (crossed \/ (Tokened /\ Counted))
        /\ [Next]_vars => (crossed \/ (Tokened /\ Counted))'
  BY TokenedStep, CountedStep, CrossedKept
<1>3. crossed \/ (Tokened /\ Counted) => LedgerExactUnlessStale
  BY DEF Counted, LedgerExactUnlessStale
<1>4. QED
  BY <1>1, <1>2, <1>3, AloneInvariance, PTL DEF Spec

-----------------------------------------------------------------------------
(* The promise of RentBook.                                                *)

\* What stays PAID leaves the book as it was.
LEMMA SameBook ==
  ASSUME SumKept
  PROVE  /\ [p \in PaidRows' |-> payment'[p].amount]
              = [p \in PaidRows |-> payment[p].amount]
         /\ entry'.paid = entry.paid
<1>1. PaidRows' = PaidRows
  BY DEF SumKept, SamePaid, PaidRows
<1>2. \A p \in PaidRows : payment'[p].amount = payment[p].amount
  BY DEF SumKept, SamePaid, PaidRows
<1>3. QED
  BY <1>1, <1>2 DEF SumKept

\* A credit enters its payment in the book.
LEMMA BookEntry ==
  ASSUME IInv, NEW p \in Payments, NEW n \in Nat, CreditedWith(p, n),
         ~stale, ~stale', ~crossed, ~crossed'
  PROVE  Book!Enter(p)
<1>1. /\ PaidRows' = PaidRows \cup {p} /\ p \notin PaidRows
      /\ \A q \in PaidRows : payment'[q].amount = payment[q].amount
      /\ payment'[p].amount = n
  BY DEF CreditedWith, NewlyPaid, PaidRows
<1>2. entry'.paid = entry.paid + n
  BY DEF CreditedWith, Credited, IInv, TypeOK, Entry
<1>3. QED
  BY <1>1, <1>2 DEF Book!Enter

\* The whole life of a rent implements RentBook: until something is stale or
\* crossed, the PAID payments and their sums are a book to which payments are
\* only added, and the entry is its balance.
THEOREM ImplementsBook == Spec => KeepsBook
<1>1. Init => Book!BookInit
  BY DEF Init, LedgerInit, CollectionInit, NoRow, Book!BookInit, PaidRows
<1>2. IInv /\ (crossed \/ Alone) /\ (crossed \/ Tokened) /\ [Next]_vars
        => [Book!BookNext]_<<[p \in PaidRows |-> payment[p].amount],
                             entry.paid, ~(stale \/ crossed)>>
  <2>1. SUFFICES ASSUME IInv, crossed \/ Alone, crossed \/ Tokened, [Next]_vars
                 PROVE  [Book!BookNext]_<<[p \in PaidRows |-> payment[p].amount],
                                          entry.paid, ~(stale \/ crossed)>>
    OBVIOUS
  <2>2. CASE stale' \/ crossed'
    BY <2>2 DEF Book!BookNext, Book!LoseTrust
  <2>3. CASE ~stale' /\ ~crossed'
    <3>1. ~stale /\ ~crossed /\ Alone /\ Tokened
      BY <2>1, <2>3, StaleKept, CrossedKept DEF IInv
    <3>2. CASE SumKept
      BY <2>3, <3>1, <3>2, SameBook
    <3>3. CASE \E p \in Payments, n \in Nat : CreditedWith(p, n)
      BY <2>1, <2>3, <3>1, <3>3, BookEntry DEF Book!BookNext
    <3>4. QED
      BY <2>1, <2>3, <3>1, <3>2, <3>3, LedgerStep DEF LedgerChange
  <2>4. QED
    BY <2>2, <2>3
<1>3. Init => Tokened
  BY DEF Init, LedgerInit, NoRow, Tokened
<1>4. IInv /\ (crossed \/ Alone) /\ (crossed \/ Tokened) /\ [Next]_vars
        => (crossed \/ Tokened)'
  BY TokenedStep, CrossedKept
<1>5. QED
  BY <1>1, <1>2, <1>3, <1>4, AloneInvariance, PTL
  DEF Spec, KeepsBook, Book!BookSpec

-----------------------------------------------------------------------------
(* What an invoice asks for.                                               *)

\* What the row of a start, and the row of a reconciliation, hold in money.
Asked ==
  /\ \A p \in Payments : payment[p].token # NoToken =>
       invoice[payment[p].token].total = payment[p].amount + payment[p].fee
  /\ \A i \in Initiators :
       LET row == payment[start[i].pay]
       IN  /\ start[i].pc = "invoice" =>
                /\ row.amount = start[i].rest
                /\ row.fee = ComputeTenantFee(start[i].rest)
           /\ start[i].pc = "persist" =>
                invoice[start[i].token].total = row.amount + row.fee
  /\ \A c \in Reconcilers :
       LET row == payment[rec[c].pay]
       IN  /\ rec[c].pc \in {"ask", "apply"} =>
                row.amount = rec[c].amount /\ row.fee = rec[c].fee
           /\ rec[c].pc = "apply" =>
                rec[c].total \in {0, invoice[rec[c].token].total}

\* The money of a row stays what it was.
MoneyKept(p) == /\ payment'[p].amount = payment[p].amount
                /\ payment'[p].fee = payment[p].fee

\* People leave PayDunya's rows as they are.
LEMMA PeopleKeepPaydunya ==
  ASSUME TypeOK, Rows, Requested, LedgerNext, NEW p \in Payments, Paydunya(p)
  PROVE  payment'[p] = payment[p]
<1>0. payment \in [Payments -> Row]
  BY DEF TypeOK
<1>1. p \notin Fresh
  BY DEF Fresh, Rows, Paydunya, NoRow
<1>2. PICK r \in Requests :
        \/ CreateManualRead(r) \/ CreateManualWrite(r)
        \/ DeclarationCreate(r)
        \/ UpdateRead(r) \/ UpdateWrite(r)
        \/ CancelRead(r) \/ CancelWrite(r)
        \/ ConfirmRead(r) \/ ConfirmWrite(r)
        \/ RejectRead(r) \/ RejectWrite(r)
        \/ Fail(r)
  BY DEF LedgerNext
<1>3. CASE UpdateWrite(r) \/ CancelWrite(r) \/ ConfirmWrite(r) \/ RejectWrite(r)
  <2>1. req[r].pay # p
    BY <1>3
    DEF UpdateWrite, CancelWrite, ConfirmWrite, RejectWrite, Requested
  <2>2. QED
    BY <1>0, <1>3, <2>1
    DEF UpdateWrite, CancelWrite, ConfirmWrite, RejectWrite
<1>4. CASE CreateManualWrite(r) \/ DeclarationCreate(r)
  BY <1>0, <1>1, <1>4 DEF CreateManualWrite, DeclarationCreate
<1>5. QED
  BY <1>2, <1>3, <1>4 DEF CreateManualRead, UpdateRead, CancelRead,
     ConfirmRead, RejectRead, Fail, Begin

\* A start changes the money of the row it starts again, and of no other.
LEMMA StartMoney ==
  ASSUME TypeOK, Rows, Started, NEW i \in Initiators, StartStep(i),
         NEW p \in Payments, Paydunya(p)
  PROVE  MoneyKept(p) \/ (ReuseOrphan(i) /\ start[i].pay = p)
<1>0. payment \in [Payments -> Row]
  BY DEF TypeOK
<1>1. CASE UNCHANGED payment
  BY <1>1 DEF MoneyKept
<1>2. CASE ReuseOrphan(i) /\ start[i].pay # p
  BY <1>0, <1>2 DEF ReuseOrphan, MoneyKept
<1>3. CASE CreatePending(i) /\ ~UNCHANGED payment
  <2>1. PICK q \in Fresh : \E row : payment' = [payment EXCEPT ![q] = row]
    BY <1>3 DEF CreatePending
  <2>2. p # q
    BY DEF Fresh, Rows, Paydunya, NoRow
  <2>3. QED
    BY <1>0, <2>1, <2>2 DEF MoneyKept
<1>4. CASE PersistReference(i)
  BY <1>0, <1>4 DEF PersistReference, MoneyKept, Row
<1>5. QED
  BY <1>1, <1>2, <1>3, <1>4
  DEF StartStep, StartRead, FindExisting, CreateInvoice, StartFail, ledgerVars,
      ReuseOrphan

\* The rent a reconciliation credits is the row's amount: the total it was
\* told is the one asked for, or is missing.
LEMMA RentIsAmount ==
  ASSUME IInv, Alone, Asked, NEW c \in Reconcilers, rec[c].pc = "apply"
  PROVE  RentOf(c) = payment[rec[c].pay].amount
<1>1. /\ rec[c].pay \in Payments /\ rec[c].token \in Tokens
      /\ payment[rec[c].pay].token = rec[c].token
      /\ payment[rec[c].pay].amount \in Nat /\ payment[rec[c].pay].fee \in Nat
  BY DEF IInv, TypeOK, Reconciled, Alone, Row
<1>2. invoice[rec[c].token].total
        = payment[rec[c].pay].amount + payment[rec[c].pay].fee
  BY <1>1, NullAssumption DEF Asked
<1>3. /\ rec[c].amount = payment[rec[c].pay].amount
      /\ rec[c].fee = payment[rec[c].pay].fee
      /\ rec[c].total \in {0, invoice[rec[c].token].total}
  BY DEF Asked
<1>4. QED
  BY <1>1, <1>2, <1>3 DEF RentOf

\* So a reconciliation leaves the money of every row as it was.
LEMMA RecMoney ==
  ASSUME IInv, Alone, Asked, NEW c \in Reconcilers,
         \/ ReconcileRead(c) \/ ReconcileOrphan(c) \/ AskProvider(c)
         \/ ApplyCompleted(c) \/ ApplyUnpaid(c) \/ ReconcileFail(c),
         NEW p \in Payments
  PROVE  MoneyKept(p)
<1>0. payment \in [Payments -> Row]
  BY DEF IInv, TypeOK
<1>1. CASE UNCHANGED payment
  BY <1>1 DEF MoneyKept
<1>2. CASE RejectPending(c)
  BY <1>0, <1>2 DEF RejectPending, MoneyKept, Row
<1>3. CASE ApplyCompleted(c) /\ ~UNCHANGED payment
  <2>1. RentOf(c) = payment[rec[c].pay].amount
    BY <1>3, RentIsAmount DEF ApplyCompleted
  <2>2. payment' = [payment EXCEPT ![rec[c].pay].status = "PAID",
                                   ![rec[c].pay].amount = RentOf(c)]
    BY <1>3 DEF ApplyCompleted
  <2>3. QED
    BY <1>0, <2>1, <2>2 DEF MoneyKept, Row
<1>4. QED
  BY <1>1, <1>2, <1>3 DEF ReconcileRead, ReconcileOrphan, AskProvider,
     ApplyCompleted, ApplyUnpaid, ReconcileFail, ledgerVars

\* Nothing but a start that starts it again changes the money of a row of
\* PayDunya's.
LEMMA MoneyStep ==
  ASSUME IInv, Alone, Asked, [Next]_vars, NEW p \in Payments, Paydunya(p)
  PROVE  \/ MoneyKept(p)
         \/ \E i \in Initiators : ReuseOrphan(i) /\ start[i].pay = p
<1>0. TypeOK /\ Rows /\ Requested /\ Started
  BY DEF IInv
<1>1. CASE PeopleStep
  BY <1>0, <1>1, PeopleKeepPaydunya DEF PeopleStep, MoneyKept
<1>2. CASE \E i \in Initiators : StartStep(i)
  BY <1>0, <1>2, StartMoney
<1>3. CASE \E c \in Reconcilers :
              \/ ReconcileRead(c) \/ ReconcileOrphan(c) \/ AskProvider(c)
              \/ ApplyCompleted(c) \/ ApplyUnpaid(c) \/ ReconcileFail(c)
  BY <1>3, RecMoney
<1>4. CASE \E q \in Payments : GrowOld(q)
  BY <1>0, <1>4 DEF GrowOld, MoneyKept, TypeOK, Row
<1>5. CASE UNCHANGED payment
  BY <1>5 DEF MoneyKept
<1>6. QED
  BY <1>0, <1>1, <1>2, <1>3, <1>4, <1>5, CollectionSteps, OverdueType
  DEF Next, PaydunyaStep, OverdueStep, InvoiceSettled, vars, ledgerVars

\* A row with a reference is not started again.
LEMMA ReferencedMoney ==
  ASSUME IInv, Alone, Asked, [Next]_vars, NEW p \in Payments,
         payment[p].token # NoToken
  PROVE  MoneyKept(p)
<1>1. Paydunya(p)
  BY DEF IInv, Rows
<1>2. ASSUME NEW i \in Initiators, ReuseOrphan(i), start[i].pay = p PROVE FALSE
  BY <1>2 DEF ReuseOrphan, Alone
<1>3. QED
  BY <1>1, <1>2, MoneyStep

\* A start knows what its row holds, then what its invoice asks.
LEMMA AskedStart ==
  ASSUME IInv, Alone, Asked, [Next]_vars,
         \A t \in Tokens : InvoiceStep(t), NEW i \in Initiators
  PROVE  LET row == payment'[start'[i].pay]
         IN  /\ start'[i].pc = "invoice" =>
                  /\ row.amount = start'[i].rest
                  /\ row.fee = ComputeTenantFee(start'[i].rest)
             /\ start'[i].pc = "persist" =>
                  invoice'[start'[i].token].total = row.amount + row.fee
<1>0. /\ start \in [Initiators -> StartMemory] /\ start[i] \in StartMemory
      /\ payment \in [Payments -> Row] /\ invoice \in [Tokens -> Invoice]
      /\ Started /\ TypeOK /\ Rows
  BY DEF IInv, TypeOK
<1>1. CASE start'[i] = start[i]
  <2>1. CASE start[i].pc \notin {"invoice", "persist"}
    BY <1>1, <2>1
  <2>2. CASE start[i].pc \in {"invoice", "persist"}
    <3>1. start[i].pay \in Payments /\ Paydunya(start[i].pay)
      BY <1>0, <2>2 DEF Started
    <3>2. ASSUME NEW j \in Initiators, ReuseOrphan(j),
                 start[j].pay = start[i].pay
          PROVE  FALSE
      BY <2>2, <3>2 DEF ReuseOrphan, Works, Alone
    <3>3. MoneyKept(start[i].pay)
      BY <3>1, <3>2, MoneyStep
    <3>4. start[i].pc = "persist" =>
            invoice'[start[i].token].total = invoice[start[i].token].total
      BY <1>0, Issued DEF Started
    <3>5. QED
      BY <1>1, <3>3, <3>4 DEF Asked, MoneyKept
  <2>3. QED
    BY <2>1, <2>2
<1>2. CASE StartRead(i) \/ FindExisting(i) \/ StartFail(i)
           \/ PersistReference(i)
  <2>1. start'[i].pc \in {"find", "reuse", "create", "idle"}
    BY <1>0, <1>2 DEF StartRead, FindExisting, Replay, Reuse, StartFail,
       PersistReference, StartDone, Goto, StartIdle, StartMemory
  <2>2. QED
    BY <2>1
<1>3. CASE ReuseOrphan(i)
  <2>1. /\ start'[i].pc = "invoice" /\ start'[i].pay = start[i].pay
        /\ start'[i].rest = start[i].rest
    BY <1>0, <1>3 DEF ReuseOrphan, Goto, StartMemory
  <2>2. start[i].pay \in Payments
    BY <1>0, <1>3 DEF ReuseOrphan, Started
  <2>3. /\ payment'[start[i].pay].amount = start[i].rest
        /\ payment'[start[i].pay].fee = ComputeTenantFee(start[i].rest)
    BY <1>0, <1>3, <2>2 DEF ReuseOrphan, Row
  <2>4. QED
    BY <2>1, <2>3
<1>4. CASE CreatePending(i)
  <2>1. CASE StartDone(i)
    BY <1>0, <2>1 DEF StartDone, StartIdle
  <2>2. CASE ~StartDone(i)
    <3>1. PICK p \in Fresh :
             /\ payment' = [payment EXCEPT ![p] =
                  [NoRow EXCEPT !.source = "PAYDUNYA_API", !.status = "PENDING",
                                !.amount = start[i].rest,
                                !.fee = ComputeTenantFee(start[i].rest)]]
             /\ start' = [start EXCEPT ![i].pc = "invoice", ![i].pay = p,
                                       ![i].fresh = TRUE]
      BY <1>4, <2>2 DEF CreatePending
    <3>2. /\ start'[i].pay = p /\ start'[i].rest = start[i].rest
          /\ start'[i].pc = "invoice"
      BY <1>0, <3>1 DEF StartMemory
    <3>3. /\ payment'[p].amount = start[i].rest
          /\ payment'[p].fee = ComputeTenantFee(start[i].rest)
      BY <1>0, <3>1 DEF Fresh, NoRow
    <3>4. QED
      BY <3>2, <3>3
  <2>3. QED
    BY <2>1, <2>2
<1>5. CASE CreateInvoice(i)
  <2>1. PICK t \in Unused :
          /\ invoice' = [invoice EXCEPT ![t] =
               [status |-> "pending", pay |-> start[i].pay,
                total |-> start[i].rest + ComputeTenantFee(start[i].rest)]]
          /\ start' = [start EXCEPT ![i].pc = "persist", ![i].token = t]
    BY <1>5 DEF CreateInvoice
  <2>2. /\ start'[i].pay = start[i].pay /\ start'[i].token = t
        /\ start'[i].pc = "persist"
    BY <1>0, <2>1 DEF StartMemory
  <2>3. invoice'[t].total = start[i].rest + ComputeTenantFee(start[i].rest)
    BY <1>0, <2>1 DEF Unused
  <2>4. payment' = payment /\ start[i].pc = "invoice"
    BY <1>5 DEF CreateInvoice, ledgerVars
  <2>5. QED
    BY <2>2, <2>3, <2>4 DEF Asked
<1>6. QED
  BY <1>1, <1>2, <1>3, <1>4, <1>5, StartChange DEF StartStep

\* A reconciliation knows what its row holds, then what its invoice asked.
LEMMA AskedRec ==
  ASSUME IInv, Alone, Asked, [Next]_vars, \A t \in Tokens : InvoiceStep(t),
         NEW c \in Reconcilers
  PROVE  LET row == payment'[rec'[c].pay]
         IN  /\ rec'[c].pc \in {"ask", "apply"} =>
                  row.amount = rec'[c].amount /\ row.fee = rec'[c].fee
             /\ rec'[c].pc = "apply" =>
                  rec'[c].total \in {0, invoice'[rec'[c].token].total}
<1>0. /\ rec \in [Reconcilers -> RecMemory] /\ rec[c] \in RecMemory
      /\ Reconciled
  BY DEF IInv, TypeOK
<1>1. CASE rec'[c] = rec[c]
  <2>1. CASE rec[c].pc \notin {"ask", "apply"}
    BY <1>1, <2>1
  <2>2. CASE rec[c].pc \in {"ask", "apply"}
    <3>1. /\ rec[c].pay \in Payments /\ rec[c].token \in Tokens
          /\ payment[rec[c].pay].token = rec[c].token
          /\ invoice[rec[c].token].status # "none"
      BY <1>0, <2>2 DEF Reconciled, Alone
    <3>2. MoneyKept(rec[c].pay)
      BY <3>1, ReferencedMoney, NullAssumption
    <3>3. invoice'[rec[c].token].total = invoice[rec[c].token].total
      BY <3>1, Issued
    <3>4. QED
      BY <1>1, <2>2, <3>2, <3>3 DEF Asked, MoneyKept
  <2>3. QED
    BY <2>1, <2>2
<1>2. CASE RecDone(c)
  <2>1. rec'[c].pc = "idle"
    BY <1>0, <1>2 DEF RecDone, RecIdle
  <2>2. QED
    BY <2>1
<1>3. CASE ReconcileRead(c)
  <2>1. PICK p \in PendingPaydunya :
          rec' = [rec EXCEPT ![c] =
            [RecIdle EXCEPT
              !.pc = IF payment[p].token = NoToken THEN "orphan" ELSE "ask",
              !.pay = p, !.token = payment[p].token, !.old = payment[p].old,
              !.amount = payment[p].amount, !.fee = payment[p].fee]]
    BY <1>3 DEF ReconcileRead
  <2>2. /\ rec'[c].pay = p /\ rec'[c].pc \in {"orphan", "ask"}
        /\ rec'[c].amount = payment[p].amount /\ rec'[c].fee = payment[p].fee
    BY <1>0, <2>1 DEF RecIdle
  <2>3. payment' = payment
    BY <1>3 DEF ReconcileRead, ledgerVars
  <2>4. QED
    BY <2>2, <2>3
<1>4. CASE AskProvider(c)
  <2>1. PICK n \in {0, invoice[rec[c].token].total} :
          rec' = [rec EXCEPT ![c].pc = "apply", ![c].total = n,
                             ![c].seen = invoice[rec[c].token].status]
    BY <1>4 DEF AskProvider
  <2>2. /\ rec'[c].pay = rec[c].pay /\ rec'[c].token = rec[c].token
        /\ rec'[c].amount = rec[c].amount /\ rec'[c].fee = rec[c].fee
        /\ rec'[c].total = n
    BY <1>0, <2>1 DEF RecMemory
  <2>3. UNCHANGED <<payment, invoice>> /\ rec[c].pc = "ask"
    BY <1>4 DEF AskProvider, ledgerVars, providerVars
  <2>4. QED
    BY <2>2, <2>3 DEF Asked
<1>5. QED
  BY <1>1, <1>2, <1>3, <1>4, RecChange
  DEF ReconcileOrphan, ApplyCompleted, ApplyUnpaid, ReconcileFail

\* A reference is written for the invoice its start issued, and from then on
\* neither the money of the row nor the total of the invoice changes.
LEMMA AskedRow ==
  ASSUME IInv, Alone, Asked, [Next]_vars, \A q \in Payments : RowStep(q),
         \A t \in Tokens : InvoiceStep(t),
         NEW p \in Payments, payment'[p].token # NoToken
  PROVE  invoice'[payment'[p].token].total = payment'[p].amount + payment'[p].fee
<1>0. /\ payment \in [Payments -> Row] /\ Rows /\ Started
      /\ RowStep(p)
  BY DEF IInv, TypeOK
<1>1. CASE payment[p].token # NoToken
  <2>1. payment'[p].token = payment[p].token /\ MoneyKept(p)
    BY <1>0, <1>1, TokenKept, ReferencedMoney
  <2>2. payment[p].token \in Tokens /\ invoice[payment[p].token].status # "none"
    BY <1>0, <1>1 DEF Rows, Row
  <2>3. invoice'[payment[p].token].total = invoice[payment[p].token].total
    BY <2>2, Issued
  <2>4. QED
    BY <1>1, <2>1, <2>3 DEF Asked, MoneyKept
<1>2. CASE Referenced(p)
  <2>1. PICK i \in Initiators :
          /\ PersistReference(i) /\ start[i].pay = p
          /\ payment'[p].token = start[i].token
    BY <1>2 DEF Referenced
  <2>2. /\ payment'[p].amount = payment[p].amount
        /\ payment'[p].fee = payment[p].fee
        /\ invoice' = invoice /\ start[i].pc = "persist"
    BY <1>0, <2>1 DEF PersistReference, Row
  <2>3. QED
    BY <2>1, <2>2 DEF Asked
<1>3. QED
  BY <1>0, <1>1, <1>2
  DEF RowStep, ByPerson, Created, Edited, Rejected, Collected

\* Until a start takes up the row of another, the invoice behind a reference
\* asks for the rent and the fee of its row, whatever was started again in
\* between.
THEOREM InvoiceAsksRowCorrect == Spec => []InvoiceAsksRow
<1>1. Init => Asked
  BY DEF Init, LedgerInit, CollectionInit, NoRow, StartIdle, RecIdle, Asked
<1>2. IInv /\ (crossed \/ Alone) /\ (crossed \/ Asked) /\ [Next]_vars
        => (crossed \/ Asked)'
  <2>1. SUFFICES ASSUME IInv, Alone, Asked, [Next]_vars PROVE Asked'
    BY CrossedKept
  <2>2. /\ \A p \in Payments : RowStep(p)
        /\ \A t \in Tokens : InvoiceStep(t)
    BY <2>1, RowLife, InvoiceLife DEF IInv
  <2>3. \A p \in Payments : payment'[p].token # NoToken =>
          invoice'[payment'[p].token].total
            = payment'[p].amount + payment'[p].fee
    BY <2>1, <2>2, AskedRow
  <2>4. QED
    BY <2>1, <2>2, <2>3, AskedStart, AskedRec DEF Asked
<1>3. crossed \/ Asked => InvoiceAsksRow
  BY DEF Asked, InvoiceAsksRow
<1>4. QED
  BY <1>1, <1>2, <1>3, AloneInvariance, PTL DEF Spec
=============================================================================
