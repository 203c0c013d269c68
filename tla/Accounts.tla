------------------------------ MODULE Accounts ------------------------------
(***************************************************************************)
(* The account of one landlord or manager older than the sixty days of     *)
(* grace, and the subscription it pays: SubscriptionsService,              *)
(* SubscriptionBillingTask, InactivityTask, AccountActivationService, the  *)
(* administrator's two actions and the reconciliation of invoices.         *)
(* accountStatus has four writers, each of which read it some time before. *)
(*                                                                         *)
(* A worker is a handler in flight, whatever it handles: with two workers  *)
(* every pair of handlers interleaves.  The tasks of the scheduler run     *)
(* under their advisory lock, one run of each at a time.  Left out: the    *)
(* notifications, reminders and warnings, which decide nothing here, the   *)
(* tier, the beta period and the billing switch, which only forbid, and    *)
(* the 30 s during which the guard may still see the former status.        *)
(***************************************************************************)
EXTENDS Naturals

CONSTANTS
  Workers,       \* handlers in flight
  Invoices,      \* rows of subscription_invoices
  NoInvoice,
  Tokens,        \* PayDunya's checkouts
  NoToken,       \* a null transactionId
  MaxStops       \* handlers that stop half-way, in a behaviour

ASSUME NoInvoiceAssumption == NoInvoice \notin Invoices
ASSUME NoTokenAssumption == NoToken \notin Tokens
ASSUME BoundsAssumption == MaxStops \in Nat

VARIABLES
  account,       \* users.accountStatus
  activity,      \* hasQualifyingActivity: a property or an ACTIVE mandate
  sub,           \* the row of subscriptions
  invoice,       \* subscription_invoices
  checkout,      \* PayDunya's checkouts
  worker,        \* what each handler remembers
  doubled,       \* history: two requests to pay one invoice overlapped
  stops          \* how many have stopped half-way

vars == <<account, activity, sub, invoice, checkout, worker, doubled, stops>>

-----------------------------------------------------------------------------
(* The tables and the handlers' memory.                                    *)

AccountStatuses ==
  {"ACTIVE", "SUSPENDED_INACTIVITY", "SUSPENDED_PAYMENT", "SUSPENDED_ADMIN"}

\* cancelDue: cancelAt is set and has passed.
Subscription == [status : {"ACTIVE", "PENDING_CANCELLATION", "CANCELLED"},
                 cancelDue : BOOLEAN]

\* late: still due SUBSCRIPTION_SUSPENSION_DAYS after it was created.
Row == [status : {"NONE", "PENDING", "PAID"}, late : BOOLEAN,
        token : Tokens \cup {NoToken}]

\* created: nobody has its address.  open: the customer does.
Checkout == [status : {"none", "created", "open", "completed", "failed"},
             invoice : Invoices \cup {NoInvoice}]

Idle == [task |-> "none", step |-> "none", invoice |-> NoInvoice,
         token |-> NoToken]
PayMemory ==
  [task : {"pay"}, step : {"invoice"}, invoice : Invoices, token : {NoToken}]
    \cup [task : {"pay"}, step : {"persist"}, invoice : Invoices,
          token : Tokens]
ReconcileMemory == [task : {"reconcile"}, step : {"ask", "paid", "lift"},
                    invoice : Invoices, token : Tokens]
TaskMemory ==
  [task : {"dunning"}, step : {"suspend"}, invoice : {NoInvoice},
   token : {NoToken}]
    \cup [task : {"billing"}, step : {"due", "create"}, invoice : {NoInvoice},
          token : {NoToken}]
    \cup [task : {"activation"}, step : {"read", "eligible", "reactivate"},
          invoice : {NoInvoice}, token : {NoToken}]
    \cup [task : {"inactivity"},
          step : {"read", "eligible", "reactivate", "candidates", "active",
                  "suspend"},
          invoice : {NoInvoice}, token : {NoToken}]
    \cup [task : {"admin"}, step : {"write"}, invoice : {NoInvoice},
          token : {NoToken}]
Memory == {Idle} \cup PayMemory \cup ReconcileMemory \cup TaskMemory

Begin(w, task, step) ==
  /\ worker[w] = Idle
  /\ worker' = [worker EXCEPT ![w] = [Idle EXCEPT !.task = task, !.step = step]]
At(w, step) == worker[w].step = step
Goto(w, step) == worker' = [worker EXCEPT ![w].step = step]
Done(w) == worker' = [worker EXCEPT ![w] = Idle]

\* withAdvisoryLock: no other run of this task holds the lock.
Unlocked(task) == \A w \in Workers : worker[w].task # task

Pending == {i \in Invoices : invoice[i].status = "PENDING"}

\* JwtAuthGuard: a suspended account may not write, but where
\* @AllowWhileSuspended says so.
MayWrite == account = "ACTIVE"
MayWriteSuspended == account # "SUSPENDED_ADMIN"

-----------------------------------------------------------------------------
(* Paying an invoice.                                                      *)

\* PayDunya never issues a token twice; which one it issues does not matter.
FreshToken == CHOOSE t \in Tokens : checkout[t].status = "none"

\* payCurrentInvoice: the pending invoice is read.  One that has a checkout
\* already only shows its address again; another request may be creating one.
PayRead(w) ==
  /\ MayWrite
  /\ worker[w] = Idle
  /\ \E i \in Pending :
       /\ invoice[i].token = NoToken
       /\ worker' = [worker EXCEPT ![w] =
            [Idle EXCEPT !.task = "pay", !.step = "invoice", !.invoice = i]]
       /\ doubled' = (doubled \/ \E v \in Workers :
                        worker[v].task = "pay" /\ worker[v].invoice = i)
  /\ UNCHANGED <<account, activity, sub, invoice, checkout, stops>>

\* Mutant: the customer gets the address before the reference is persisted.
PayCreateShown(w) ==
  /\ At(w, "invoice")
  /\ \E t \in Tokens :
       /\ checkout[t].status = "none" /\ t = FreshToken
       /\ checkout' = [checkout EXCEPT ![t] =
            [status |-> "open", invoice |-> worker[w].invoice]]
       /\ worker' = [worker EXCEPT ![w].step = "persist", ![w].token = t]
  /\ UNCHANGED <<account, activity, sub, invoice, doubled, stops>>

\* payCurrentInvoice: PayDunya creates the checkout.
PayCreate(w) ==
  /\ At(w, "invoice")
  /\ \E t \in Tokens :
       /\ checkout[t].status = "none" /\ t = FreshToken
       /\ checkout' = [checkout EXCEPT ![t] =
            [status |-> "created", invoice |-> worker[w].invoice]]
       /\ worker' = [worker EXCEPT ![w].step = "persist", ![w].token = t]
  /\ UNCHANGED <<account, activity, sub, invoice, doubled, stops>>

\* payCurrentInvoice: the reference is persisted, whatever the row has become,
\* and the customer sent to the checkout.
PayPersist(w) ==
  /\ At(w, "persist")
  /\ invoice' = [invoice EXCEPT ![worker[w].invoice].token = worker[w].token]
  /\ checkout' = [checkout EXCEPT ![worker[w].token].status = "open"]
  /\ Done(w)
  /\ UNCHANGED <<account, activity, sub, doubled, stops>>

\* The customer pays, gives up or lets the checkout expire.
CheckoutEnds ==
  /\ \E t \in Tokens, s \in {"completed", "failed"} :
       /\ checkout[t].status = "open"
       /\ checkout' = [checkout EXCEPT ![t].status = s]
  /\ UNCHANGED <<account, activity, sub, invoice, worker, doubled, stops>>

\* Mutant: an invoice nobody tried to pay is reconciled too.
ReconcileReadAny(w) ==
  /\ worker[w] = Idle
  /\ \E i \in Pending :
       worker' = [worker EXCEPT ![w] =
         [task |-> "reconcile", step |-> "ask", invoice |-> i,
          token |-> invoice[i].token]]
  /\ UNCHANGED <<account, activity, sub, invoice, checkout, doubled, stops>>

\* Mutant: the reconciliation forgets the invoices that are late.
ReconcileReadRecent(w) ==
  /\ worker[w] = Idle
  /\ \E i \in Pending :
       /\ invoice[i].token # NoToken /\ ~invoice[i].late
       /\ worker' = [worker EXCEPT ![w] =
            [task |-> "reconcile", step |-> "ask", invoice |-> i,
             token |-> invoice[i].token]]
  /\ UNCHANGED <<account, activity, sub, invoice, checkout, doubled, stops>>

\* reconcilePaydunyaSubscriptionInvoice, called by the webhook or by
\* PaydunyaReconciliationTask: a pending invoice with a reference.
ReconcileRead(w) ==
  /\ worker[w] = Idle
  /\ \E i \in Pending :
       /\ invoice[i].token # NoToken
       /\ worker' = [worker EXCEPT ![w] =
            [task |-> "reconcile", step |-> "ask", invoice |-> i,
             token |-> invoice[i].token]]
  /\ UNCHANGED <<account, activity, sub, invoice, checkout, doubled, stops>>

\* Mutant: a checkout that failed settles the invoice too.
ReconcileAskEnded(w) ==
  /\ At(w, "ask")
  /\ \/ /\ checkout[worker[w].token].status \in {"completed", "failed"}
        /\ Goto(w, "paid")
     \/ /\ checkout[worker[w].token].status = "open"
        /\ Done(w)
  /\ UNCHANGED <<account, activity, sub, invoice, checkout, doubled, stops>>

\* The provider is asked.  An invoice whose checkout failed remains due.
ReconcileAsk(w) ==
  /\ At(w, "ask")
  /\ \/ /\ checkout[worker[w].token].status = "completed"
        /\ Goto(w, "paid")
     \/ /\ checkout[worker[w].token].status # "completed"
        /\ Done(w)
  /\ UNCHANGED <<account, activity, sub, invoice, checkout, doubled, stops>>

\* The guarded update to PAID: whoever makes it lifts the suspension.
ReconcilePaid(w) ==
  /\ At(w, "paid")
  /\ \/ /\ worker[w].invoice \in Pending
        /\ invoice' = [invoice EXCEPT ![worker[w].invoice].status = "PAID",
                                      ![worker[w].invoice].late = FALSE]
        /\ Goto(w, "lift")
     \/ /\ worker[w].invoice \notin Pending
        /\ Done(w)
        /\ UNCHANGED invoice
  /\ UNCHANGED <<account, activity, sub, checkout, doubled, stops>>

\* reactivateIfSuspendedForPayment.
ReconcileLift(w) ==
  /\ At(w, "lift")
  /\ account' = IF account = "SUSPENDED_PAYMENT" THEN "ACTIVE" ELSE account
  /\ Done(w)
  /\ UNCHANGED <<activity, sub, invoice, checkout, doubled, stops>>

-----------------------------------------------------------------------------
(* SubscriptionBillingTask and the life of the subscription.               *)

\* runReminders: a late invoice whose account is ACTIVE at that moment.
DunningRead(w) ==
  /\ Unlocked("dunning") /\ account = "ACTIVE"
  /\ \E i \in Pending : invoice[i].late
  /\ Begin(w, "dunning", "suspend")
  /\ UNCHANGED <<account, activity, sub, invoice, checkout, doubled, stops>>

\* suspendOverdueAccounts: the account is suspended, whatever it is by now.
DunningSuspend(w) ==
  /\ At(w, "suspend") /\ worker[w].task = "dunning"
  /\ account' = "SUSPENDED_PAYMENT"
  /\ Done(w)
  /\ UNCHANGED <<activity, sub, invoice, checkout, doubled, stops>>

\* finalizeCancellations, the first statement of the monthly run.
BillingFinalize(w) ==
  /\ Unlocked("billing")
  /\ sub' = IF sub.status = "PENDING_CANCELLATION" /\ sub.cancelDue
            THEN [sub EXCEPT !.status = "CANCELLED"] ELSE sub
  /\ Begin(w, "billing", "due")
  /\ UNCHANGED <<account, activity, invoice, checkout, doubled, stops>>

\* Mutant: collectDueSubscriptions forgets the subscription's status.
ToBillAny == Pending = {} /\ \E i \in Invoices : invoice[i].status = "NONE"

\* The subscriptions collectDueSubscriptions selects, while the model has a
\* row left for the invoice.
ToBill ==
  /\ \E i \in Invoices : invoice[i].status = "NONE"
  /\ \/ sub.status = "ACTIVE"
     \/ sub.status = "PENDING_CANCELLATION" /\ ~sub.cancelDue
  /\ Pending = {}

BillingRead(w) ==
  /\ At(w, "due")
  /\ IF ToBill THEN Goto(w, "create") ELSE Done(w)
  /\ UNCHANGED <<account, activity, sub, invoice, checkout, doubled, stops>>

\* createDueInvoices: the invoice.  The period it then advances is abstracted.
BillingCreate(w) ==
  /\ At(w, "create")
  /\ \E i \in Invoices :
       /\ invoice[i].status = "NONE"
       /\ invoice' = [invoice EXCEPT ![i].status = "PENDING"]
  /\ Done(w)
  /\ UNCHANGED <<account, activity, sub, checkout, doubled, stops>>

\* cancel: at the end of the period, which may be over.
Cancel ==
  /\ MayWrite
  /\ \E due \in BOOLEAN :
       sub' = [status |-> "PENDING_CANCELLATION", cancelDue |-> due]
  /\ UNCHANGED <<account, activity, invoice, checkout, worker, doubled, stops>>

\* upgrade: also revives a subscription cancelled or about to be.
Upgrade ==
  /\ MayWrite
  /\ sub' = [status |-> "ACTIVE", cancelDue |-> FALSE]
  /\ UNCHANGED <<account, activity, invoice, checkout, worker, doubled, stops>>

\* The period ends, and with it the delay of a cancellation.
PeriodEnds ==
  /\ sub.status = "PENDING_CANCELLATION" /\ ~sub.cancelDue
  /\ sub' = [sub EXCEPT !.cancelDue = TRUE]
  /\ UNCHANGED <<account, activity, invoice, checkout, worker, doubled, stops>>

\* Seven days pass.
InvoiceLate ==
  /\ \E i \in Pending :
       /\ ~invoice[i].late
       /\ invoice' = [invoice EXCEPT ![i].late = TRUE]
  /\ UNCHANGED <<account, activity, sub, checkout, worker, doubled, stops>>

-----------------------------------------------------------------------------
(* Activity, inactivity and the administrator.                             *)

\* A property is created or a mandate accepted, both allowed while
\* suspended; the same request then calls reactivateIfEligible.
GainActivity(w) ==
  /\ MayWriteSuspended /\ ~activity
  /\ activity' = TRUE
  /\ Begin(w, "activation", "read")
  /\ UNCHANGED <<account, sub, invoice, checkout, doubled, stops>>

\* The last property is archived or the last mandate ended.
LoseActivity ==
  /\ activity
  /\ activity' = FALSE
  /\ UNCHANGED <<account, sub, invoice, checkout, worker, doubled, stops>>

\* InactivityTask starts, looking for accounts to reactivate.
InactivityStart(w) ==
  /\ Unlocked("inactivity")
  /\ Begin(w, "inactivity", "read")
  /\ UNCHANGED <<account, activity, sub, invoice, checkout, doubled, stops>>

\* What follows reactivateIfEligible: the task goes on to suspend.
AfterReactivation(w) ==
  IF worker[w].task = "inactivity" THEN Goto(w, "candidates") ELSE Done(w)

\* reactivateIfEligible: the account is read.
ReactivationRead(w) ==
  /\ At(w, "read")
  /\ IF account = "SUSPENDED_INACTIVITY" THEN Goto(w, "eligible")
                                         ELSE AfterReactivation(w)
  /\ UNCHANGED <<account, activity, sub, invoice, checkout, doubled, stops>>

\* Mutant: the safety net looks for inactivity instead of activity.
ReactivationEligibleNot(w) ==
  /\ At(w, "eligible")
  /\ IF ~activity THEN Goto(w, "reactivate") ELSE AfterReactivation(w)
  /\ UNCHANGED <<account, activity, sub, invoice, checkout, doubled, stops>>

\* reactivateIfEligible: hasQualifyingActivity.
ReactivationEligible(w) ==
  /\ At(w, "eligible")
  /\ IF activity THEN Goto(w, "reactivate") ELSE AfterReactivation(w)
  /\ UNCHANGED <<account, activity, sub, invoice, checkout, doubled, stops>>

\* reactivateIfEligible: ACTIVE, whatever the account is by now.
ReactivationWrite(w) ==
  /\ At(w, "reactivate")
  /\ account' = "ACTIVE"
  /\ AfterReactivation(w)
  /\ UNCHANGED <<activity, sub, invoice, checkout, doubled, stops>>

\* suspendOverdueAccounts: the account is a candidate when ACTIVE.
InactivityCandidates(w) ==
  /\ At(w, "candidates")
  /\ IF account = "ACTIVE" THEN Goto(w, "active") ELSE Done(w)
  /\ UNCHANGED <<account, activity, sub, invoice, checkout, doubled, stops>>

\* suspendOverdueAccounts: hasQualifyingActivity.
InactivityCheck(w) ==
  /\ At(w, "active")
  /\ IF activity THEN Done(w) ELSE Goto(w, "suspend")
  /\ UNCHANGED <<account, activity, sub, invoice, checkout, doubled, stops>>

\* suspendOverdueAccounts: suspended, whatever the account is by now.
InactivitySuspend(w) ==
  /\ At(w, "suspend") /\ worker[w].task = "inactivity"
  /\ account' = "SUSPENDED_INACTIVITY"
  /\ Done(w)
  /\ UNCHANGED <<activity, sub, invoice, checkout, doubled, stops>>

\* suspendUser: whatever the account is.
AdminSuspend ==
  /\ account' = "SUSPENDED_ADMIN"
  /\ UNCHANGED <<activity, sub, invoice, checkout, worker, doubled, stops>>

\* reactivateUser: an account read as suspended becomes ACTIVE.
AdminRead(w) ==
  /\ account # "ACTIVE"
  /\ Begin(w, "admin", "write")
  /\ UNCHANGED <<account, activity, sub, invoice, checkout, doubled, stops>>

AdminReactivate(w) ==
  /\ At(w, "write")
  /\ account' = "ACTIVE"
  /\ Done(w)
  /\ UNCHANGED <<activity, sub, invoice, checkout, doubled, stops>>

\* The process restarts, or a statement fails: the handler goes no further.
Stop(w) ==
  /\ worker[w] # Idle /\ stops < MaxStops
  /\ stops' = stops + 1
  /\ Done(w)
  /\ UNCHANGED <<account, activity, sub, invoice, checkout, doubled>>

-----------------------------------------------------------------------------

Init ==
  /\ account = "ACTIVE" /\ activity \in BOOLEAN
  /\ sub = [status |-> "ACTIVE", cancelDue |-> FALSE]
  /\ invoice = [i \in Invoices |->
                  [status |-> "NONE", late |-> FALSE, token |-> NoToken]]
  /\ checkout = [t \in Tokens |-> [status |-> "none", invoice |-> NoInvoice]]
  /\ worker = [w \in Workers |-> Idle]
  /\ doubled = FALSE
  /\ stops = 0

\* What a handler under way does next.
GoOn(w) ==
  \/ PayCreate(w) \/ PayPersist(w)
  \/ ReconcileAsk(w) \/ ReconcilePaid(w) \/ ReconcileLift(w)
  \/ DunningSuspend(w)
  \/ BillingRead(w) \/ BillingCreate(w)
  \/ ReactivationRead(w) \/ ReactivationEligible(w) \/ ReactivationWrite(w)
  \/ InactivityCandidates(w) \/ InactivityCheck(w) \/ InactivitySuspend(w)
  \/ AdminReactivate(w)

Next ==
  \/ CheckoutEnds \/ Cancel \/ Upgrade \/ PeriodEnds \/ InvoiceLate
  \/ LoseActivity \/ AdminSuspend
  \/ \E w \in Workers :
       \/ PayRead(w) \/ ReconcileRead(w) \/ DunningRead(w)
       \/ BillingFinalize(w) \/ GainActivity(w) \/ InactivityStart(w)
       \/ AdminRead(w) \/ GoOn(w) \/ Stop(w)

Spec == Init /\ [][Next]_vars

\* A handler ends one way or another; the daily and the quarter-hourly task
\* come back for ever, though other handlers may be in their way.
FairSpec ==
  /\ Spec
  /\ \A w \in Workers : WF_vars(GoOn(w))
  /\ SF_vars(\E w \in Workers : ReconcileRead(w))
  /\ SF_vars(\E w \in Workers : InactivityStart(w))

-----------------------------------------------------------------------------
(* What must hold.                                                         *)

\* The types of the variables.
TypeOK ==
  /\ account \in AccountStatuses
  /\ activity \in BOOLEAN
  /\ sub \in Subscription
  /\ invoice \in [Invoices -> Row]
  /\ checkout \in [Tokens -> Checkout]
  /\ worker \in [Workers -> Memory]
  /\ doubled \in BOOLEAN
  /\ stops \in 0..MaxStops

\* The monthly billing never stacks a second invoice on a debt, though it
\* selects what to bill before it bills (createDueInvoices).
OneInvoicePending == \A i, j \in Pending : i = j

\* The customer never pays one invoice through two checkouts, though the
\* request to pay may stop before it records the first (payCurrentInvoice):
\* only two requests under way at once can open two.
OnePaymentPerInvoice ==
  ~doubled => \A t, u \in Tokens :
    /\ checkout[t].status \in {"open", "completed"}
    /\ checkout[u].status \in {"open", "completed"}
    /\ checkout[t].invoice = checkout[u].invoice
    => t = u

\* PayDunya has collected the invoice.
Collected(i) ==
  \E t \in Tokens : checkout[t] = [status |-> "completed", invoice |-> i]

\* An invoice is PAID only once PayDunya has collected it.
PaidOnlyIfCollected ==
  \A i \in Invoices : invoice[i].status = "PAID" => Collected(i)

\* A subscription whose cancellation is final is never billed again, though
\* the subscriptions to bill are selected before they are billed: only the
\* run itself finalises cancellations, under its lock.
CancelledNotBilled ==
  [][sub.status = "CANCELLED" =>
       \A i \in Invoices :
         invoice[i].status = "NONE" => invoice'[i].status = "NONE"]_vars

\* What PayDunya collected settles its invoice in the end, webhook or not,
\* and although handlers stop half-way (PaydunyaReconciliationTask), unless a
\* second request to pay wrote its reference over the first.
CollectedIsPaid ==
  \A i \in Invoices : Collected(i) ~> (invoice[i].status = "PAID" \/ doubled)

\* An account suspended for inactivity that becomes active again does not
\* stay suspended, even when the suspension was decided before the activity
\* and written after it (InactivityTask, its safety net).
ActivityReactivates ==
  (account = "SUSPENDED_INACTIVITY" /\ activity)
    ~> (account # "SUSPENDED_INACTIVITY" \/ ~activity)
=============================================================================
