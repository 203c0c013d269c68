--------------------------- MODULE RentCollection ---------------------------
(***************************************************************************)
(* The whole life of a rent: the ledger with the people who write to it,   *)
(* the collection through PayDunya and the overdue alerts, all working on  *)
(* the same schedule entry at the same time.                               *)
(***************************************************************************)
EXTENDS PaydunyaCollection, OverdueAlerts

vars == <<ledgerVars, collectionVars, overdueVars>>

Init == LedgerInit /\ CollectionInit /\ OverdueInit

PeopleStep  == LedgerNext /\ UNCHANGED <<collectionVars, overdueVars>>
PaydunyaStep == CollectionNext /\ UNCHANGED overdueVars
OverdueStep == OverdueNext /\ UNCHANGED collectionVars

Next == PeopleStep \/ PaydunyaStep \/ OverdueStep

Spec == Init /\ [][Next]_vars

\* Every variable holds a value of its type: the tables, the memory of the
\* handlers and the provider's invoices.
TypeOK ==
  /\ entry \in Entry
  /\ payment \in [Payments -> Row]
  /\ req \in [Requests -> Memory]
  /\ credits \in [Payments -> Nat]
  /\ stale \in BOOLEAN
  /\ invoice \in [Tokens -> Invoice]
  /\ shown \subseteq Tokens
  /\ start \in [Initiators -> StartMemory]
  /\ rec \in [Reconcilers -> RecMemory]
  /\ crossed \in BOOLEAN
  /\ run \in [Runs -> RunMemory]
  /\ sent \in Nat

-----------------------------------------------------------------------------
(* What the collection through PayDunya guarantees whoever interferes.     *)

Paydunya(p) == payment[p].source = "PAYDUNYA_API"

\* A PayDunya payment is credited to its entry exactly once if it is PAID,
\* and never otherwise, however many webhooks and cron passes race on it
\* (reconcilePaydunyaPayment's guarded updateMany).
PaydunyaCreditedOnce ==
  \A p \in Payments : Paydunya(p) =>
    credits[p] = IF payment[p].status = "PAID" THEN 1 ELSE 0

\* The outcome of a PayDunya payment is final: no late webhook, retry,
\* second start or person's decision changes a PAID or REJECTED one.
PaydunyaOutcomeFinal ==
  [][\A p \in Payments :
       Paydunya(p) /\ payment[p].status \in {"PAID", "REJECTED"}
         => payment'[p].status = payment[p].status]_vars

\* The entry is never credited for a PayDunya payment unless the provider
\* collected an invoice issued for that very payment.
CreditedOnlyIfCollected ==
  \A p \in Payments : Paydunya(p) /\ payment[p].status = "PAID" =>
    \E t \in Tokens : invoice[t].status = "completed" /\ invoice[t].pay = p

\* An invoice carries the money of one payment, whose reference reaches the
\* database before the tenant sees the page: one it collected is credited,
\* can still be reconciled, or was given up after the abandonment delay.  Only
\* two starts working on the same row at once can lose a reference.
CollectedIsAccounted ==
  ~crossed => \A t \in Tokens : invoice[t].status = "completed" =>
    LET p == invoice[t].pay
    IN  /\ payment[p].token = t
        /\ \/ payment[p].status \in {"PENDING", "PAID"}
           \/ payment[p].status = "REJECTED" /\ payment[p].old

\* The tenant never has the pages of two invoices for one payment, nor of two
\* payments in progress: of two starts that find nothing, the partial unique
\* index admits one; of two that find the same orphan, none is refused, and
\* this is the only way.
OneCheckoutAtATime ==
  ~crossed => \A t, u \in shown :
    (\/ invoice[t].pay = invoice[u].pay
     \/ {invoice[t].pay, invoice[u].pay} \subseteq PendingPaydunya)
      => t = u

\* Two concurrent starts never create two invoices for the same payment
\* (schema.prisma, on the partial unique index).
OneCheckoutPerPayment ==
  \A t, u \in shown : invoice[t].pay = invoice[u].pay => t = u

\* The invoice behind a row's reference asks for the row's rent and fee, even
\* when the row was started again with another balance: the total expected by
\* reconcilePaydunyaPayment is the one the provider was given, so that the
\* credit is the same whether or not the provider repeats it.  Only a start
\* that takes up the row of another can change what an invoice asks for.
InvoiceAsksRow ==
  ~crossed => \A p \in Payments : payment[p].token # NoToken =>
    invoice[payment[p].token].total = payment[p].amount + payment[p].fee

-----------------------------------------------------------------------------
(* What the ledger guarantees, and what it does not.                       *)

PaidRows == {p \in Payments : payment[p].status = "PAID"}

\* The francs of the PAID payments, each told apart by its payment and its
\* rank in it, so that counting them is adding up the amounts.
PaidFrancs == UNION { {p} \X (1..payment[p].amount) : p \in PaidRows }

PaidSum == Cardinality(PaidFrancs)

\* The entry's amount is the sum of its PAID payments, and its status is
\* derived from it.
LedgerExact ==
  /\ entry.paid = PaidSum
  /\ entry.status \in {ComputeEntryStatus(PaidSum), "OVERDUE"}

\* The ledger is exact as long as no person's write relied on an outdated
\* read and no start took up the row of another: PayDunya's increments and the
\* alerts never break it, whoever they race with.
LedgerExactUnlessStale == ~stale /\ ~crossed => LedgerExact

\* The ledger implements the promise of RentBook: a payment, once PAID, keeps
\* its sum, is never PAID anew nor taken back, and moves the entry by its sum
\* and no other (the increments, the transactions, the checks of a status).
Book == INSTANCE RentBook
  WITH book <- [p \in PaidRows |-> payment[p].amount],
       balance <- entry.paid, trusted <- ~(stale \/ crossed)
KeepsBook == Book!BookSpec

\* A payment that was credited to the entry is never deleted: only a
\* declaration still waiting is, so there is nothing else to undo.
CreditedIsKept ==
  \A p \in Payments : payment[p].status = "DELETED" => credits[p] = 0

-----------------------------------------------------------------------------
(* What the overdue alerts guarantee.                                      *)

\* The tenant receives at most one reminder for the entry, even when runs
\* overlap, fail midway or are restarted.
RemindedAtMostOnce == sent <= 1

-----------------------------------------------------------------------------
(* Fairness.  The reconciliation runs every 15 minutes for ever and its     *)
(* failures (a restart, the provider down) are transient, hence strong     *)
(* fairness of its steps; days pass; a request always ends, one way or the *)
(* other.  Nothing is assumed of the tenant, the provider or the webhook.  *)

StartStep(i) ==
  \/ StartRead(i) \/ FindExisting(i) \/ ReuseOrphan(i) \/ CreatePending(i)
  \/ CreateInvoice(i) \/ PersistReference(i) \/ StartFail(i)

FairSpec ==
  /\ Spec
  /\ \A c \in Reconcilers :
       /\ SF_vars(ReconcileRead(c) /\ UNCHANGED overdueVars)
       /\ SF_vars(ReconcileOrphan(c) /\ UNCHANGED overdueVars)
       /\ SF_vars(AskProvider(c) /\ UNCHANGED overdueVars)
       /\ SF_vars(ApplyCompleted(c) /\ UNCHANGED overdueVars)
       /\ SF_vars(ApplyUnpaid(c) /\ UNCHANGED overdueVars)
  /\ \A p \in Payments : WF_vars(GrowOld(p) /\ UNCHANGED overdueVars)
  /\ \A i \in Initiators :
       WF_vars(start[i] # StartIdle /\ StartStep(i) /\ UNCHANGED overdueVars)

\* A PayDunya payment does not stay in progress for ever, whatever call or
\* answer was lost on the way: it blocks its entry's unique index until then.
PendingResolved ==
  \A p \in Payments : p \in PendingPaydunya ~> p \notin PendingPaydunya
=============================================================================
