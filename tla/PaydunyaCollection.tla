------------------------- MODULE PaydunyaCollection -------------------------
(***************************************************************************)
(* Rent collected through the payment provider PayDunya: a tenant starts a *)
(* payment of the remaining balance, pays the provider's invoice on the    *)
(* provider's page, and the backend learns of it from a webhook or from    *)
(* the periodic reconciliation.  Neither is believed: both only trigger    *)
(* reconcilePaydunyaPayment, which asks the provider.                      *)
(*                                                                         *)
(* The provider is external.  An invoice is created pending, may be        *)
(* completed, cancelled or failed, and is final then.                      *)
(***************************************************************************)
EXTENDS RentLedger

CONSTANTS
  Initiators,    \* startPaydunyaPayment calls in flight at the same time
  Reconcilers,   \* reconcilePaydunyaPayment calls in flight (webhook, cron)
  FeePercent,    \* TENANT_FEE_PERCENT
  FeeFixed,      \* TENANT_FEE_FIXED_FCFA
  MinInvoice     \* PAYDUNYA_MIN_INVOICE_FCFA

ASSUME FeeAssumption == FeePercent \in Nat /\ FeeFixed \in Nat

VARIABLES
  invoice,       \* the provider's invoices, by token
  shown,         \* the tokens whose checkout page the tenant was given
  start,         \* what each startPaydunyaPayment call remembers
  rec,           \* what each reconcilePaydunyaPayment call remembers
  crossed        \* history: a start took up a row another was working on

providerVars == <<invoice, shown, crossed>>
collectionVars == <<providerVars, start, rec>>

-----------------------------------------------------------------------------
(* The provider.                                                           *)

InvoiceStatuses == {"pending", "completed", "cancelled", "failed"}
Invoice == [status : InvoiceStatuses \cup {"none"},
            pay : Payments \cup {NoPayment}, total : Nat]
NoInvoice == [status |-> "none", pay |-> NoPayment, total |-> 0]

Unused == {t \in Tokens : invoice[t].status = "none"}

\* The tenant acts on a page that was shown: pays, or gives up; or the
\* operator fails the payment.
InvoiceSettled(t) ==
  /\ t \in shown /\ invoice[t].status = "pending"
  /\ \E s \in InvoiceStatuses \ {"pending"} :
       invoice' = [invoice EXCEPT ![t].status = s]
  /\ UNCHANGED <<ledgerVars, shown, crossed, start, rec>>

-----------------------------------------------------------------------------
(* PaymentsService.startPaydunyaPayment.                                   *)

\* computeTenantFee: the service fee the tenant pays on top of the rent.
ComputeTenantFee(rent) ==
  IF rent <= 0 THEN 0 ELSE (rent * FeePercent + 99) \div 100 + FeeFixed

StartSteps == {"idle", "find", "reuse", "create", "invoice", "persist"}
StartIdle == [pc |-> "idle", pay |-> NoPayment, rest |-> 0,
              token |-> NoToken, fresh |-> FALSE]
StartMemory == [pc : StartSteps, pay : Payments \cup {NoPayment}, rest : Nat,
                token : Tokens \cup {NoToken}, fresh : BOOLEAN]

Goto(i, step) == start' = [start EXCEPT ![i].pc = step]
StartDone(i) == start' = [start EXCEPT ![i] = StartIdle]

PendingPaydunya == {p \in Payments : /\ payment[p].source = "PAYDUNYA_API"
                                     /\ payment[p].status = "PENDING"}

\* Mutant: nothing is refused, not even a settled entry.
StartReadUnchecked(i) ==
  /\ start[i] = StartIdle
  /\ start' = [start EXCEPT ![i].pc = "find", ![i].rest = Expected - entry.paid]
  /\ UNCHANGED <<ledgerVars, providerVars, rec>>

\* The balance is read, and refused when settled or below the minimum.
StartRead(i) ==
  /\ start[i] = StartIdle
  /\ entry.paid < Expected
  /\ LET rest == Expected - entry.paid
     IN  /\ rest + ComputeTenantFee(rest) >= MinInvoice
         /\ start' = [start EXCEPT ![i].pc = "find", ![i].rest = rest]
  /\ UNCHANGED <<ledgerVars, providerVars, rec>>

\* 1. A payment in progress with its reference: its page is shown again,
\*    unless the balance has moved since it was created.
Replay(i, p) ==
  /\ payment[p].token # NoToken
  /\ shown' = IF payment[p].amount = start[i].rest
              THEN shown \cup {payment[p].token} ELSE shown
  /\ StartDone(i)
  /\ UNCHANGED crossed

\* Mutant: a payment whose invoice is known is started over.
ReuseAnyway(i, p) ==
  /\ start' = [start EXCEPT ![i].pc = "reuse", ![i].pay = p]
  /\ UNCHANGED <<shown, crossed>>

\* 2. A payment in progress whose invoice is not known: reused, though the
\*    start that created it, or found it before, may not be over.
Reuse(i, p) ==
  /\ payment[p].token = NoToken
  /\ start' = [start EXCEPT ![i].pc = "reuse", ![i].pay = p]
  /\ crossed' = (crossed \/ \E j \in Initiators : start[j].pay = p)
  /\ UNCHANGED shown

\* 3. None in progress: created.
FindExisting(i) ==
  /\ start[i].pc = "find"
  /\ \/ \E p \in PendingPaydunya : Replay(i, p) \/ Reuse(i, p)
     \/ /\ PendingPaydunya = {} /\ Goto(i, "create")
        /\ UNCHANGED <<shown, crossed>>
  /\ UNCHANGED <<ledgerVars, invoice, rec>>

\* Mutant: the amount follows the balance, the fee does not.
ReuseOrphanAmountOnly(i) ==
  /\ start[i].pc = "reuse"
  /\ payment' = [payment EXCEPT ![start[i].pay].amount = start[i].rest]
  /\ Goto(i, "invoice")
  /\ UNCHANGED <<entry, req, credits, stale, providerVars, rec>>

\* The orphan takes the balance of today.
ReuseOrphan(i) ==
  /\ start[i].pc = "reuse"
  /\ payment' = [payment EXCEPT
       ![start[i].pay].amount = start[i].rest,
       ![start[i].pay].fee = ComputeTenantFee(start[i].rest)]
  /\ Goto(i, "invoice")
  /\ UNCHANGED <<entry, req, credits, stale, providerVars, rec>>

\* Mutant: no index, every insertion is admitted.
IndexAdmitsAll == TRUE

\* The partial unique index admits one PENDING PAYDUNYA_API row.
IndexAdmits == PendingPaydunya = {}

CreatePending(i) ==
  /\ start[i].pc = "create"
  /\ \/ /\ IndexAdmits
        /\ \E p \in Fresh :
             /\ payment' = [payment EXCEPT ![p] =
                  [NoRow EXCEPT !.source = "PAYDUNYA_API", !.status = "PENDING",
                                !.amount = start[i].rest,
                                !.fee = ComputeTenantFee(start[i].rest)]]
             /\ start' = [start EXCEPT ![i].pc = "invoice", ![i].pay = p,
                                       ![i].fresh = TRUE]
     \/ /\ ~IndexAdmits
        /\ StartDone(i)
        /\ UNCHANGED payment
  /\ UNCHANGED <<entry, req, credits, stale, providerVars, rec>>

\* createInvoice, tried once.  When its answer is lost the tenant never gets
\* the page, so the invoice is as good as not created: see StartFail.
CreateInvoice(i) ==
  /\ start[i].pc = "invoice"
  /\ \E t \in Unused :
       /\ invoice' = [invoice EXCEPT ![t] =
            [status |-> "pending", pay |-> start[i].pay,
             total |-> start[i].rest + ComputeTenantFee(start[i].rest)]]
       /\ start' = [start EXCEPT ![i].pc = "persist", ![i].token = t]
  /\ UNCHANGED <<ledgerVars, shown, crossed, rec>>

\* persistPaydunyaReference, then the page's address is given to the tenant.
\* The update may take effect although its last answer was lost: the tenant
\* then gets an error, and the page only by trying again.
PersistReference(i) ==
  /\ start[i].pc = "persist"
  /\ payment' = [payment EXCEPT ![start[i].pay].token = start[i].token]
  /\ shown' \in {shown \cup {start[i].token}, shown}
  /\ StartDone(i)
  /\ UNCHANGED <<entry, req, credits, stale, invoice, crossed, rec>>

\* The provider refuses or does not answer, the database fails, or the
\* process is restarted: the row stays as it is.
StartFail(i) ==
  /\ start[i] # StartIdle
  /\ StartDone(i)
  /\ UNCHANGED <<ledgerVars, providerVars, rec>>

-----------------------------------------------------------------------------
(* PaymentsService.reconcilePaydunyaPayment.                               *)

RecSteps == {"idle", "orphan", "ask", "apply"}
RecIdle == [pc |-> "idle", pay |-> NoPayment, token |-> NoToken, amount |-> 0,
            fee |-> 0, old |-> FALSE, seen |-> "pending", total |-> 0]
RecMemory == [pc : RecSteps, pay : Payments \cup {NoPayment},
              token : Tokens \cup {NoToken}, amount : Nat, fee : Nat,
              old : BOOLEAN, seen : InvoiceStatuses, total : Nat]

RecDone(c) == rec' = [rec EXCEPT ![c] = RecIdle]

\* Mutant: rows without a reference are left alone.
ReconcileReadReferenced(c) ==
  /\ rec[c] = RecIdle
  /\ \E p \in PendingPaydunya :
       /\ payment[p].token # NoToken
       /\ rec' = [rec EXCEPT ![c] =
            [RecIdle EXCEPT !.pc = "ask", !.pay = p, !.token = payment[p].token,
              !.old = payment[p].old, !.amount = payment[p].amount,
              !.fee = payment[p].fee]]
  /\ UNCHANGED <<ledgerVars, providerVars, start>>

\* The row is read: a PayDunya payment in progress, or nothing to do.  With
\* no reference it is only rejected, once it is old enough.
ReconcileRead(c) ==
  /\ rec[c] = RecIdle
  /\ \E p \in PendingPaydunya :
       /\ payment[p].token = NoToken => payment[p].old
       /\ rec' = [rec EXCEPT ![c] =
            [RecIdle EXCEPT
              !.pc = IF payment[p].token = NoToken THEN "orphan" ELSE "ask",
              !.pay = p, !.token = payment[p].token, !.old = payment[p].old,
              !.amount = payment[p].amount, !.fee = payment[p].fee]]
  /\ UNCHANGED <<ledgerVars, providerVars, start>>

\* Mutant: the write is an update on { id } alone.
StillPendingUnchecked(p) == Exists(p)

\* Every write is an updateMany on { id, status: 'PENDING' }.
StillPending(p) == payment[p].status = "PENDING"

\* Mutant: rejected without looking at the status again.
RejectBlindly(c) == payment' = [payment EXCEPT ![rec[c].pay].status = "REJECTED"]

\* Rejected when still pending; otherwise someone else settled it already.
RejectPending(c) ==
  payment' = [payment EXCEPT ![rec[c].pay].status =
                IF StillPending(rec[c].pay) THEN "REJECTED" ELSE @]

ReconcileOrphan(c) ==
  /\ rec[c].pc = "orphan"
  /\ RejectPending(c)
  /\ RecDone(c)
  /\ UNCHANGED <<entry, req, credits, stale, providerVars, start>>

\* Mutant: the incoming notification is believed.
AskNobody(c) ==
  /\ rec[c].pc = "ask"
  /\ rec' = [rec EXCEPT ![c].pc = "apply", ![c].total = 0,
                        ![c].seen = "completed"]
  /\ UNCHANGED <<ledgerVars, providerVars, start>>

\* confirmInvoiceStatus: the provider's word on the reference that was read.
\* The total may be missing (0) from its answer.
AskProvider(c) ==
  /\ rec[c].pc = "ask"
  /\ \E n \in {0, invoice[rec[c].token].total} :
       rec' = [rec EXCEPT ![c].pc = "apply", ![c].total = n,
                          ![c].seen = invoice[rec[c].token].status]
  /\ UNCHANGED <<ledgerVars, providerVars, start>>

\* The rent credited: the confirmed total less the fee, or the row's own
\* amount when the total is missing or does not exceed the fee.
RentOf(c) == IF rec[c].total <= rec[c].fee
             THEN rec[c].amount ELSE rec[c].total - rec[c].fee

\* Mutant: the credit sets the entry instead of incrementing it.
ApplyCompletedBySet(c) ==
  /\ rec[c].pc = "apply" /\ rec[c].seen = "completed"
  /\ StillPending(rec[c].pay)
  /\ payment' = [payment EXCEPT ![rec[c].pay].status = "PAID",
                                ![rec[c].pay].amount = RentOf(c)]
  /\ entry' = Credited(RentOf(c))
  /\ credits' = [credits EXCEPT ![rec[c].pay] = @ + 1]
  /\ RecDone(c)
  /\ UNCHANGED <<req, stale, providerVars, start>>

\* Claim and credit in one transaction; the credit is an increment of the
\* entry as it is now.
ApplyCompleted(c) ==
  /\ rec[c].pc = "apply" /\ rec[c].seen = "completed"
  /\ \/ /\ StillPending(rec[c].pay)
        /\ payment' = [payment EXCEPT ![rec[c].pay].status = "PAID",
                                      ![rec[c].pay].amount = RentOf(c)]
        /\ entry' = Credited(entry.paid + RentOf(c))
        /\ credits' = [credits EXCEPT ![rec[c].pay] = @ + 1]
     \/ ~StillPending(rec[c].pay) /\ UNCHANGED <<entry, payment, credits>>
  /\ RecDone(c)
  /\ UNCHANGED <<req, stale, providerVars, start>>

\* Mutant: an invoice still pending is rejected at once.
ApplyUnpaidAtOnce(c) ==
  /\ rec[c].pc = "apply" /\ rec[c].seen # "completed"
  /\ RejectPending(c)
  /\ RecDone(c)
  /\ UNCHANGED <<entry, req, credits, stale, providerVars, start>>

\* Cancelled or failed: rejected.  Pending: rejected once abandoned.
ApplyUnpaid(c) ==
  /\ rec[c].pc = "apply" /\ rec[c].seen # "completed"
  /\ IF rec[c].seen = "pending" /\ ~rec[c].old
     THEN UNCHANGED payment ELSE RejectPending(c)
  /\ RecDone(c)
  /\ UNCHANGED <<entry, req, credits, stale, providerVars, start>>

ReconcileFail(c) ==
  /\ rec[c] # RecIdle
  /\ RecDone(c)
  /\ UNCHANGED <<ledgerVars, providerVars, start>>

\* A day passes.  No call that created the row is still running by then:
\* its provider call is abandoned after CALL_TIMEOUT_MS.
GrowOld(p) ==
  /\ p \in PendingPaydunya /\ ~payment[p].old
  /\ \A i \in Initiators : ~(start[i].fresh /\ start[i].pay = p)
  /\ payment' = [payment EXCEPT ![p].old = TRUE]
  /\ UNCHANGED <<entry, req, credits, stale, collectionVars>>

-----------------------------------------------------------------------------
CollectionInit ==
  /\ invoice = [t \in Tokens |-> NoInvoice]
  /\ shown = {}
  /\ start = [i \in Initiators |-> StartIdle]
  /\ rec = [c \in Reconcilers |-> RecIdle]
  /\ crossed = FALSE

CollectionNext ==
  \/ \E i \in Initiators :
       \/ StartRead(i) \/ FindExisting(i) \/ ReuseOrphan(i)
       \/ CreatePending(i) \/ CreateInvoice(i) \/ PersistReference(i)
       \/ StartFail(i)
  \/ \E c \in Reconcilers :
       \/ ReconcileRead(c) \/ ReconcileOrphan(c) \/ AskProvider(c)
       \/ ApplyCompleted(c) \/ ApplyUnpaid(c) \/ ReconcileFail(c)
  \/ \E t \in Tokens : InvoiceSettled(t)
  \/ \E p \in Payments : GrowOld(p)
=============================================================================
