---------------------------- MODULE AccountsProofs ----------------------------
(***************************************************************************)
(* Proofs about Accounts, for any number of handlers, invoices, checkouts  *)
(* and stops.                                                              *)
(*                                                                         *)
(* References is the heart of what is collected: the reference on an       *)
(* invoice, and the one a handler remembers, are of a checkout made for    *)
(* that invoice.  Billed is that of the billing: what its run read remains *)
(* true until it writes, since nobody else finalises or bills.             *)
(* OneReference, one reference for the life of an invoice, lasts until two *)
(* requests to pay it overlap.                                             *)
(***************************************************************************)
EXTENDS Accounts, TLAPS

-----------------------------------------------------------------------------
(* The types.                                                              *)

\* What a handler may remember when it starts.
LEMMA Memories ==
  /\ Idle \in Memory
  /\ [Idle EXCEPT !.task = "dunning", !.step = "suspend"] \in Memory
  /\ [Idle EXCEPT !.task = "billing", !.step = "due"] \in Memory
  /\ [Idle EXCEPT !.task = "activation", !.step = "read"] \in Memory
  /\ [Idle EXCEPT !.task = "inactivity", !.step = "read"] \in Memory
  /\ [Idle EXCEPT !.task = "admin", !.step = "write"] \in Memory
  /\ \A i \in Invoices :
       [Idle EXCEPT !.task = "pay", !.step = "invoice", !.invoice = i] \in Memory
  /\ \A i \in Invoices, t \in Tokens :
       [task |-> "reconcile", step |-> "ask", invoice |-> i, token |-> t]
         \in Memory
BY DEF Idle, Memory, PayMemory, ReconcileMemory, TaskMemory

\* What a handler remembers says what it does, at each step.
LEMMA MemoryShape ==
  ASSUME NEW mem \in Memory
  PROVE  /\ mem.step = "invoice" => mem \in PayMemory /\ mem.invoice \in Invoices
         /\ mem.step = "persist" => mem \in PayMemory /\ mem.invoice \in Invoices
                                     /\ mem.token \in Tokens
         /\ mem.step \in {"ask", "paid", "lift"} =>
              mem \in ReconcileMemory /\ mem.invoice \in Invoices
                /\ mem.token \in Tokens
         /\ mem.step \in {"due", "create"} => mem.task = "billing"
         /\ mem.step \in {"read", "eligible", "reactivate"} =>
              mem.task \in {"activation", "inactivity"}
         /\ mem.step \in {"candidates", "active"} => mem.task = "inactivity"
         /\ mem.task = "billing" =>
              mem.step \in {"due", "create"} /\ mem.invoice = NoInvoice
                /\ mem.token = NoToken
         /\ mem.task \in {"activation", "inactivity"} =>
              mem.invoice = NoInvoice /\ mem.token = NoToken
         /\ mem.task = "pay" => mem.step \in {"invoice", "persist"}
         /\ mem = [task |-> mem.task, step |-> mem.step,
                   invoice |-> mem.invoice, token |-> mem.token]
BY DEF Idle, Memory, PayMemory, ReconcileMemory, TaskMemory

\* A handler that goes on to its next step.
LEMMA NextStep ==
  ASSUME NEW mem \in Memory, NEW step,
         \/ mem.step = "ask" /\ step = "paid"
         \/ mem.step = "paid" /\ step = "lift"
         \/ mem.step = "due" /\ step = "create"
         \/ mem.step = "read" /\ step = "eligible"
         \/ mem.step = "eligible" /\ step = "reactivate"
         \/ mem.step \in {"read", "eligible", "reactivate"}
              /\ mem.task = "inactivity" /\ step = "candidates"
         \/ mem.step = "candidates" /\ step = "active"
         \/ mem.step = "active" /\ step = "suspend"
  PROVE  [mem EXCEPT !.step = step] \in Memory
<1>1. [mem EXCEPT !.step = step] =
        [task |-> mem.task, step |-> step, invoice |-> mem.invoice,
         token |-> mem.token]
  BY MemoryShape
<1>2. CASE mem.step \in {"ask", "paid"}
  BY <1>1, <1>2, MemoryShape DEF Memory, ReconcileMemory
<1>3. CASE mem.step = "due"
  BY <1>1, <1>3, MemoryShape DEF Memory, TaskMemory
<1>4. CASE mem.step \in {"read", "eligible", "reactivate", "candidates", "active"}
  BY <1>1, <1>4, MemoryShape DEF Memory, TaskMemory
<1>5. QED
  BY <1>2, <1>3, <1>4

\* A handler's memory is written.
LEMMA WorkerType ==
  ASSUME TypeOK, NEW w \in Workers,
         \/ Done(w)
         \/ \E mem \in Memory : worker' = [worker EXCEPT ![w] = mem]
         \/ \E step : Goto(w, step) /\ [worker[w] EXCEPT !.step = step] \in Memory
  PROVE  worker' \in [Workers -> Memory]
<1>1. worker \in [Workers -> Memory] /\ worker[w] \in Memory /\ Idle \in Memory
  BY Memories DEF TypeOK
<1>2. CASE Done(w)
  BY <1>1, <1>2 DEF Done
<1>3. ASSUME NEW mem \in Memory, worker' = [worker EXCEPT ![w] = mem]
      PROVE  worker' \in [Workers -> Memory]
  BY <1>1, <1>3
<1>4. ASSUME NEW step, Goto(w, step), [worker[w] EXCEPT !.step = step] \in Memory
      PROVE  worker' \in [Workers -> Memory]
  <2>1. worker' = [worker EXCEPT ![w] = [worker[w] EXCEPT !.step = step]]
    BY <1>1, <1>4 DEF Goto
  <2>2. QED
    BY <1>1, <1>4, <2>1
<1>5. QED
  BY <1>2, <1>3, <1>4

\* The handlers that start.
LEMMA StartType ==
  ASSUME TypeOK, NEW w \in Workers,
         \/ PayRead(w) \/ ReconcileRead(w) \/ DunningRead(w)
         \/ BillingFinalize(w) \/ GainActivity(w) \/ InactivityStart(w)
         \/ AdminRead(w)
  PROVE  TypeOK'
<1>1. \E mem \in Memory : worker' = [worker EXCEPT ![w] = mem]
  <2>1. CASE PayRead(w)
    BY <2>1, Memories DEF PayRead, Pending
  <2>2. CASE ReconcileRead(w)
    <3>1. PICK i \in Invoices :
            /\ invoice[i].token # NoToken
            /\ worker' = [worker EXCEPT ![w] =
                 [task |-> "reconcile", step |-> "ask", invoice |-> i,
                  token |-> invoice[i].token]]
      BY <2>2 DEF ReconcileRead, Pending
    <3>2. invoice[i].token \in Tokens
      BY <3>1 DEF TypeOK, Row
    <3>3. QED
      BY <3>1, <3>2, Memories
  <2>3. CASE DunningRead(w) \/ BillingFinalize(w) \/ GainActivity(w)
               \/ InactivityStart(w) \/ AdminRead(w)
    BY <2>3, Memories
    DEF DunningRead, BillingFinalize, GainActivity, InactivityStart, AdminRead,
        Begin
  <2>4. QED
    BY <2>1, <2>2, <2>3
<1>2. worker' \in [Workers -> Memory]
  BY <1>1, WorkerType
<1>3. sub' \in Subscription /\ activity' \in BOOLEAN
  BY DEF TypeOK, PayRead, ReconcileRead, DunningRead, BillingFinalize,
         GainActivity, InactivityStart, AdminRead, Subscription
<1>4. UNCHANGED <<account, invoice, checkout, stops>> /\ doubled' \in BOOLEAN
  BY DEF TypeOK, PayRead, ReconcileRead, DunningRead, BillingFinalize, GainActivity,
         InactivityStart, AdminRead
<1>5. QED
  BY <1>2, <1>3, <1>4 DEF TypeOK

\* The handlers under way.
LEMMA GoOnType ==
  ASSUME TypeOK, NEW w \in Workers, GoOn(w)
  PROVE  TypeOK'
<1>1. /\ worker[w] \in Memory /\ invoice \in [Invoices -> Row]
      /\ checkout \in [Tokens -> Checkout]
  BY DEF TypeOK
<1>2. CASE PayCreate(w)
  <2>1. PICK t \in Tokens :
          /\ checkout' = [checkout EXCEPT ![t] =
               [status |-> "created", invoice |-> worker[w].invoice]]
          /\ worker' = [worker EXCEPT ![w].step = "persist", ![w].token = t]
    BY <1>2 DEF PayCreate
  <2>2. worker[w] \in PayMemory /\ worker[w].invoice \in Invoices
    BY <1>1, <1>2, MemoryShape DEF PayCreate, At
  <2>3. [worker[w] EXCEPT !.step = "persist", !.token = t] \in Memory
    <3>1. worker[w] \in [task : {"pay"}, step : {"invoice", "persist"},
                         invoice : Invoices, token : Tokens \cup {NoToken}]
      BY <2>2 DEF PayMemory
    <3>2. [worker[w] EXCEPT !.step = "persist", !.token = t] \in
            [task : {"pay"}, step : {"persist"}, invoice : Invoices,
             token : Tokens]
      BY <3>1
    <3>3. QED
      BY <3>2 DEF Memory, PayMemory
  <2>4. worker' = [worker EXCEPT ![w] =
          [worker[w] EXCEPT !.step = "persist", !.token = t]]
    BY <2>1, <2>2 DEF TypeOK, PayMemory
  <2>5. worker' \in [Workers -> Memory]
    BY <2>3, <2>4, WorkerType
  <2>6. checkout' \in [Tokens -> Checkout]
    BY <1>1, <2>1, <2>2 DEF Checkout
  <2>7. QED
    BY <1>2, <2>5, <2>6 DEF PayCreate, TypeOK
<1>3. CASE PayPersist(w)
  <2>1. worker[w].invoice \in Invoices /\ worker[w].token \in Tokens
    BY <1>1, <1>3, MemoryShape DEF PayPersist, At
  <2>2. invoice' \in [Invoices -> Row]
    BY <1>1, <1>3, <2>1 DEF PayPersist, Row
  <2>3. checkout' \in [Tokens -> Checkout]
    BY <1>1, <1>3, <2>1 DEF PayPersist, Checkout
  <2>4. worker' \in [Workers -> Memory]
    BY <1>3, WorkerType DEF PayPersist
  <2>5. QED
    BY <1>3, <2>2, <2>3, <2>4 DEF PayPersist, TypeOK
<1>4. CASE ReconcileAsk(w)
  <2>1. worker' \in [Workers -> Memory]
    BY <1>1, <1>4, NextStep, WorkerType DEF ReconcileAsk, At
  <2>2. QED
    BY <1>4, <2>1 DEF ReconcileAsk, TypeOK
<1>5. CASE ReconcilePaid(w)
  <2>1. worker' \in [Workers -> Memory]
    BY <1>1, <1>5, NextStep, WorkerType DEF ReconcilePaid, At
  <2>2. invoice' \in [Invoices -> Row]
    BY <1>1, <1>5 DEF ReconcilePaid, Row, Pending
  <2>3. QED
    BY <1>5, <2>1, <2>2 DEF ReconcilePaid, TypeOK
<1>6. CASE ReconcileLift(w)
  BY <1>6, WorkerType DEF ReconcileLift, TypeOK, AccountStatuses
<1>7. CASE DunningSuspend(w) \/ InactivitySuspend(w) \/ AdminReactivate(w)
  <2>1. worker' \in [Workers -> Memory]
    BY <1>7, WorkerType DEF DunningSuspend, InactivitySuspend, AdminReactivate
  <2>2. account' \in AccountStatuses
    BY <1>7
    DEF DunningSuspend, InactivitySuspend, AdminReactivate, AccountStatuses
  <2>3. QED
    BY <1>7, <2>1, <2>2
    DEF DunningSuspend, InactivitySuspend, AdminReactivate, TypeOK
<1>8. CASE BillingRead(w)
  <2>1. worker' \in [Workers -> Memory]
    BY <1>1, <1>8, NextStep, WorkerType DEF BillingRead, At
  <2>2. QED
    BY <1>8, <2>1 DEF BillingRead, TypeOK
<1>9. CASE BillingCreate(w)
  <2>1. invoice' \in [Invoices -> Row]
    BY <1>1, <1>9 DEF BillingCreate, Row
  <2>2. worker' \in [Workers -> Memory]
    BY <1>9, WorkerType DEF BillingCreate
  <2>3. QED
    BY <1>9, <2>1, <2>2 DEF BillingCreate, TypeOK
<1>10. ASSUME AfterReactivation(w), At(w, "read") \/ At(w, "eligible") \/ At(w, "reactivate")
       PROVE  worker' \in [Workers -> Memory]
  BY <1>1, <1>10, NextStep, WorkerType DEF AfterReactivation, At
<1>11. CASE ReactivationRead(w) \/ ReactivationEligible(w) \/ ReactivationWrite(w)
  <2>1. worker' \in [Workers -> Memory]
    BY <1>1, <1>10, <1>11, NextStep, WorkerType
    DEF ReactivationRead, ReactivationEligible, ReactivationWrite, At
  <2>2. account' \in AccountStatuses
    BY <1>11
    DEF ReactivationRead, ReactivationEligible, ReactivationWrite,
        AccountStatuses, TypeOK
  <2>3. QED
    BY <1>11, <2>1, <2>2
    DEF ReactivationRead, ReactivationEligible, ReactivationWrite, TypeOK
<1>12. CASE InactivityCandidates(w) \/ InactivityCheck(w)
  <2>1. worker' \in [Workers -> Memory]
    BY <1>1, <1>12, NextStep, WorkerType
    DEF InactivityCandidates, InactivityCheck, At
  <2>2. QED
    BY <1>12, <2>1 DEF InactivityCandidates, InactivityCheck, TypeOK
<1>13. QED
  BY <1>2, <1>3, <1>4, <1>5, <1>6, <1>7, <1>8, <1>9, <1>11, <1>12 DEF GoOn

LEMMA TypeStep ==
  ASSUME TypeOK, [Next]_vars
  PROVE  TypeOK'
<1>1. CASE UNCHANGED vars
  BY <1>1 DEF vars, TypeOK
<1>2. CASE CheckoutEnds
  BY <1>2 DEF CheckoutEnds, TypeOK, Checkout
<1>3. CASE Cancel \/ Upgrade \/ PeriodEnds
  <2>1. sub' \in Subscription
    <3>1. CASE Cancel
      BY <3>1 DEF Cancel, Subscription
    <3>2. CASE Upgrade
      BY <3>2 DEF Upgrade, Subscription
    <3>3. CASE PeriodEnds
      BY <3>3 DEF PeriodEnds, TypeOK, Subscription
    <3>4. QED
      BY <1>3, <3>1, <3>2, <3>3
  <2>2. QED
    BY <1>3, <2>1 DEF Cancel, Upgrade, PeriodEnds, TypeOK
<1>4. CASE InvoiceLate
  BY <1>4 DEF InvoiceLate, TypeOK, Row
<1>5. CASE LoseActivity \/ AdminSuspend
  BY <1>5 DEF LoseActivity, AdminSuspend, TypeOK, AccountStatuses
<1>6. ASSUME NEW w \in Workers, Stop(w) PROVE TypeOK'
  <2>1. worker' \in [Workers -> Memory]
    BY <1>6, WorkerType DEF Stop
  <2>2. stops' \in 0..MaxStops
    BY <1>6, BoundsAssumption DEF Stop, TypeOK
  <2>3. QED
    BY <1>6, <2>1, <2>2 DEF Stop, TypeOK
<1>7. QED
  BY <1>1, <1>2, <1>3, <1>4, <1>5, <1>6, StartType, GoOnType DEF Next

LEMMA TypeInit == Init => TypeOK
<1> SUFFICES ASSUME Init PROVE TypeOK
  OBVIOUS
<1>1. account \in AccountStatuses /\ sub \in Subscription /\ activity \in BOOLEAN
  BY DEF Init, AccountStatuses, Subscription
<1>2. invoice \in [Invoices -> Row] /\ checkout \in [Tokens -> Checkout]
  BY DEF Init, Row, Checkout
<1>3. stops \in 0..MaxStops
  BY BoundsAssumption DEF Init
<1>4. worker \in [Workers -> Memory]
  BY Memories DEF Init
<1>5. doubled \in BOOLEAN
  BY DEF Init
<1>6. QED
  BY <1>1, <1>2, <1>3, <1>4, <1>5 DEF TypeOK

\* The variables keep their types.
THEOREM TypeCorrect == Spec => []TypeOK
<1>1. TypeOK /\ [Next]_vars => TypeOK'
  BY TypeStep
<1>2. QED
  BY <1>1, TypeInit, PTL DEF Spec

-----------------------------------------------------------------------------
(* What is collected.                                                      *)

\* The customer has, or had, the address of a checkout made for invoice i.
ShownFor(t, i) ==
  checkout[t].status \in {"open", "completed", "failed"}
    /\ checkout[t].invoice = i

\* What a handler remembers of a checkout.
Sound(w) ==
  /\ worker[w].step = "persist" =>
       checkout[worker[w].token] =
         [status |-> "created", invoice |-> worker[w].invoice]
  /\ worker[w].step \in {"ask", "paid", "lift"} =>
       ShownFor(worker[w].token, worker[w].invoice)
  /\ worker[w].step \in {"paid", "lift"} =>
       checkout[worker[w].token].status = "completed"

\* The reference on an invoice, and those the handlers remember.
References ==
  /\ \A i \in Invoices :
       invoice[i].token # NoToken => ShownFor(invoice[i].token, i)
  /\ \A w \in Workers : Sound(w)

\* A checkout is persisted by the request that created it alone.
Alone ==
  \A v, w \in Workers :
    /\ worker[v].step = "persist" /\ worker[w].step = "persist"
    /\ worker[v].token = worker[w].token
    => v = w

PaidInv == TypeOK /\ References /\ Alone /\ PaidOnlyIfCollected

\* A checkout that was shown remains, of its invoice, and collected once it is.
ShownKept ==
  \A t \in Tokens : checkout[t].status \in {"open", "completed", "failed"} =>
    /\ checkout'[t].status \in {"open", "completed", "failed"}
    /\ checkout'[t].invoice = checkout[t].invoice
    /\ checkout[t].status = "completed" => checkout'[t].status = "completed"

\* A handler goes on without a new reference.
NoReference(w) ==
  \/ worker'[w] = worker[w]
  \/ worker'[w].step \notin {"persist", "ask", "paid", "lift"}

\* A step keeps the invariant when the references it writes are sound.
LEMMA PaidKept ==
  ASSUME PaidInv, TypeOK', ShownKept, Alone',
         \A i \in Invoices : invoice'[i].token = invoice[i].token
                                \/ ShownFor(invoice[i].token, i)',
         \A i \in Invoices : invoice'[i].status = "PAID" =>
           \/ invoice[i].status = "PAID"
           \/ \E t \in Tokens :
                checkout[t].status = "completed" /\ checkout[t].invoice = i,
         \A w \in Workers :
           \/ Sound(w)'
           \/ /\ worker'[w] = worker[w]
              /\ worker[w].step = "persist" =>
                   checkout'[worker[w].token] = checkout[worker[w].token]
  PROVE  PaidInv'
<1>1. /\ \A i \in Invoices : invoice[i].token \in Tokens \cup {NoToken}
      /\ \A w \in Workers : worker[w] \in Memory
  BY DEF PaidInv, TypeOK, Row
<1>2. \A w \in Workers :
        worker[w].step \in {"persist", "ask", "paid", "lift"} =>
          worker[w].token \in Tokens
  BY <1>1, MemoryShape
<1>3. ASSUME NEW t \in Tokens, NEW i, ShownFor(t, i)
      PROVE  /\ checkout'[t].status \in {"open", "completed", "failed"}
             /\ checkout'[t].invoice = i
             /\ checkout[t].status = "completed" =>
                  checkout'[t].status = "completed"
  BY <1>3 DEF ShownFor, ShownKept
<1>4. References'
  <2>1. ASSUME NEW w \in Workers, worker'[w] = worker[w],
               worker[w].step = "persist" =>
                 checkout'[worker[w].token] = checkout[worker[w].token]
        PROVE  Sound(w)'
    <3>1. Sound(w)
      BY DEF PaidInv, References
    <3>2. worker[w].step \in {"ask", "paid", "lift"} =>
            /\ checkout'[worker[w].token].status \in {"open", "completed", "failed"}
            /\ checkout'[worker[w].token].invoice = worker[w].invoice
            /\ checkout[worker[w].token].status = "completed" =>
                 checkout'[worker[w].token].status = "completed"
      BY <1>2, <1>3, <3>1 DEF Sound
    <3>3. QED
      BY <2>1, <3>1, <3>2 DEF Sound, ShownFor
  <2>2. ASSUME NEW i \in Invoices, invoice'[i].token # NoToken,
               invoice'[i].token = invoice[i].token
        PROVE  ShownFor(invoice[i].token, i)'
    <3>1. invoice[i].token \in Tokens /\ ShownFor(invoice[i].token, i)
      BY <1>1, <2>2 DEF PaidInv, References
    <3>2. QED
      BY <1>3, <2>2, <3>1 DEF ShownFor
  <2>3. \A w \in Workers : Sound(w)'
    BY <2>1
  <2>4. \A i \in Invoices :
          invoice'[i].token # NoToken => ShownFor(invoice[i].token, i)'
    BY <2>2
  <2>5. QED
    BY <2>3, <2>4 DEF References
<1>5. PaidOnlyIfCollected'
  <2> SUFFICES ASSUME NEW i \in Invoices, invoice'[i].status = "PAID"
               PROVE  \E t \in Tokens :
                        checkout'[t] = [status |-> "completed", invoice |-> i]
    BY DEF PaidOnlyIfCollected, Collected
  <2>0. ASSUME invoice[i].status = "PAID"
        PROVE  \E t \in Tokens :
                 checkout[t].status = "completed" /\ checkout[t].invoice = i
    <3>1. PICK t \in Tokens :
            checkout[t] = [status |-> "completed", invoice |-> i]
      BY <2>0 DEF PaidInv, PaidOnlyIfCollected, Collected
    <3>2. checkout[t].status = "completed" /\ checkout[t].invoice = i
      BY <3>1
    <3>3. QED
      BY <3>2
  <2>1. PICK t \in Tokens :
          checkout[t].status = "completed" /\ checkout[t].invoice = i
    BY <2>0
  <2>2. checkout'[t] \in Checkout
    BY DEF TypeOK
  <2>3. checkout'[t].status = "completed" /\ checkout'[t].invoice = i
    BY <2>1 DEF ShownKept
  <2>4. QED
    BY <2>2, <2>3 DEF Checkout
<1>6. QED
  BY <1>4, <1>5 DEF PaidInv

\* The steps that touch neither the checkouts nor the references.
LEMMA PaidQuiet ==
  ASSUME PaidInv, TypeOK', UNCHANGED checkout,
         \A i \in Invoices :
           /\ invoice'[i].token = invoice[i].token
           /\ invoice'[i].status = "PAID" => invoice[i].status = "PAID",
         \A w \in Workers : NoReference(w)
  PROVE  PaidInv'
<1>1. ShownKept
  BY DEF ShownKept
<1>2. Alone'
  BY DEF PaidInv, Alone, NoReference
<1>3. \A w \in Workers : worker'[w] = worker[w] \/ Sound(w)'
  BY DEF NoReference, Sound
<1>4. QED
  BY <1>1, <1>2, <1>3, PaidKept

\* A handler that ends, or goes on to another step.
LEMMA Onward ==
  ASSUME TypeOK, NEW w \in Workers,
         \/ Done(w)
         \/ \E step : Goto(w, step)
                       /\ step \notin {"persist", "ask", "paid", "lift"}
         \/ \E mem : /\ worker' = [worker EXCEPT ![w] = mem]
                     /\ mem.step \notin {"persist", "ask", "paid", "lift"}
  PROVE  \A v \in Workers : NoReference(v)
<1>1. worker \in [Workers -> Memory]
  BY DEF TypeOK
<1>2. CASE Done(w)
  BY <1>1, <1>2 DEF Done, Idle, NoReference
<1>3. ASSUME NEW step, Goto(w, step), step \notin {"persist", "ask", "paid", "lift"}
      PROVE  \A v \in Workers : NoReference(v)
  <2>1. worker'[w].step = step
    BY <1>1, <1>3, MemoryShape DEF Goto
  <2>2. QED
    BY <1>1, <1>3, <2>1 DEF Goto, NoReference
<1>4. QED
  BY <1>1, <1>2, <1>3 DEF NoReference

LEMMA PaidStep ==
  ASSUME PaidInv, [Next]_vars
  PROVE  PaidInv'
<1>1. /\ TypeOK /\ TypeOK' /\ References /\ Alone /\ PaidOnlyIfCollected
      /\ invoice \in [Invoices -> Row] /\ checkout \in [Tokens -> Checkout]
      /\ worker \in [Workers -> Memory]
  BY TypeStep DEF PaidInv, TypeOK
<1>0. \A w \in Workers : worker[w].step = "persist" =>
        worker[w].token \in Tokens /\ checkout[worker[w].token].status = "created"
  <2> SUFFICES ASSUME NEW w \in Workers, worker[w].step = "persist"
               PROVE  worker[w].token \in Tokens
                        /\ checkout[worker[w].token].status = "created"
    OBVIOUS
  <2>1. checkout[worker[w].token] =
          [status |-> "created", invoice |-> worker[w].invoice]
    BY <1>1 DEF References, Sound
  <2>2. QED
    BY <1>1, <2>1, MemoryShape
<1>2. CASE UNCHANGED vars \/ Cancel \/ Upgrade \/ PeriodEnds \/ LoseActivity
             \/ AdminSuspend
  BY <1>1, <1>2, PaidQuiet
  DEF vars, Cancel, Upgrade, PeriodEnds, LoseActivity, AdminSuspend, NoReference
<1>3. CASE CheckoutEnds
  <2>1. ShownKept /\ \A t \in Tokens : checkout[t].status = "created" =>
                                         checkout'[t] = checkout[t]
    BY <1>1, <1>3 DEF CheckoutEnds, ShownKept, Checkout
  <2>2. \A w \in Workers : worker[w].step = "persist" =>
          checkout'[worker[w].token] = checkout[worker[w].token]
    BY <1>0, <2>1
  <2>3. Alone'
    BY <1>1, <1>3 DEF CheckoutEnds, Alone
  <2>4. QED
    BY <1>1, <1>3, <2>1, <2>2, <2>3, PaidKept DEF CheckoutEnds
<1>4. CASE InvoiceLate
  <2>1. \A i \in Invoices : invoice'[i].token = invoice[i].token
                               /\ invoice'[i].status = invoice[i].status
    BY <1>1, <1>4 DEF InvoiceLate, Row
  <2>2. QED
    BY <1>1, <1>4, <2>1, PaidQuiet DEF InvoiceLate, NoReference
<1>5. ASSUME NEW w \in Workers, PayRead(w) \/ DunningRead(w) \/ BillingFinalize(w)
               \/ GainActivity(w) \/ InactivityStart(w) \/ AdminRead(w)
      PROVE  PaidInv'
  <2>1. \E mem : /\ worker' = [worker EXCEPT ![w] = mem]
                 /\ mem.step \notin {"persist", "ask", "paid", "lift"}
    <3>1. CASE PayRead(w)
      <4>1. PICK i \in Invoices : worker' = [worker EXCEPT ![w] =
              [Idle EXCEPT !.task = "pay", !.step = "invoice", !.invoice = i]]
        BY <3>1 DEF PayRead, Pending
      <4>2. [Idle EXCEPT !.task = "pay", !.step = "invoice", !.invoice = i].step
              = "invoice"
        BY DEF Idle
      <4>3. QED
        BY <4>1, <4>2
    <3>2. ASSUME NEW task, NEW step, Begin(w, task, step)
          PROVE  \E mem : worker' = [worker EXCEPT ![w] = mem] /\ mem.step = step
      <4>1. [Idle EXCEPT !.task = task, !.step = step].step = step
        BY DEF Idle
      <4>2. QED
        BY <3>2, <4>1 DEF Begin
    <3>3. QED
      BY <1>5, <3>1, <3>2
      DEF DunningRead, BillingFinalize, GainActivity, InactivityStart, AdminRead
  <2>2. UNCHANGED <<invoice, checkout>>
    BY <1>5
    DEF PayRead, DunningRead, BillingFinalize, GainActivity, InactivityStart,
        AdminRead
  <2>3. QED
    BY <1>1, <2>1, <2>2, Onward, PaidQuiet
<1>6. ASSUME NEW w \in Workers,
             \/ ReconcileLift(w) \/ DunningSuspend(w) \/ BillingRead(w)
             \/ ReactivationRead(w) \/ ReactivationEligible(w)
             \/ ReactivationWrite(w) \/ InactivityCandidates(w)
             \/ InactivityCheck(w) \/ InactivitySuspend(w)
             \/ AdminReactivate(w) \/ Stop(w)
      PROVE  PaidInv'
  <2>1. Done(w) \/ \E step : Goto(w, step)
                            /\ step \notin {"persist", "ask", "paid", "lift"}
    BY <1>6
    DEF ReconcileLift, DunningSuspend, BillingRead, ReactivationRead,
        ReactivationEligible, ReactivationWrite, InactivityCandidates,
        InactivityCheck, InactivitySuspend, AdminReactivate, Stop,
        AfterReactivation
  <2>2. UNCHANGED <<invoice, checkout>>
    BY <1>6
    DEF ReconcileLift, DunningSuspend, BillingRead, ReactivationRead,
        ReactivationEligible, ReactivationWrite, InactivityCandidates,
        InactivityCheck, InactivitySuspend, AdminReactivate, Stop
  <2>3. QED
    BY <1>1, <2>1, <2>2, Onward, PaidQuiet
<1>7. ASSUME NEW w \in Workers, BillingCreate(w) PROVE PaidInv'
  <2>1. \A i \in Invoices :
          /\ invoice'[i].token = invoice[i].token
          /\ invoice'[i].status = "PAID" => invoice[i].status = "PAID"
    BY <1>1, <1>7 DEF BillingCreate, Row
  <2>2. QED
    BY <1>1, <1>7, <2>1, Onward, PaidQuiet DEF BillingCreate
<1>8. ASSUME NEW w \in Workers, ReconcileRead(w) PROVE PaidInv'
  <2>1. PICK i \in Invoices :
          /\ invoice[i].token # NoToken
          /\ worker' = [worker EXCEPT ![w] =
               [task |-> "reconcile", step |-> "ask", invoice |-> i,
                token |-> invoice[i].token]]
    BY <1>8 DEF ReconcileRead, Pending
  <2>2. ShownFor(invoice[i].token, i) /\ UNCHANGED <<invoice, checkout>>
    BY <1>1, <1>8, <2>1 DEF References, ReconcileRead
  <2>3. Sound(w)'
    BY <1>1, <2>1, <2>2 DEF Sound, ShownFor
  <2>4. ShownKept /\ Alone'
    BY <1>1, <2>1, <2>2 DEF ShownKept, Alone
  <2>5. QED
    BY <1>1, <2>1, <2>2, <2>3, <2>4, PaidKept
<1>9. ASSUME NEW w \in Workers, ReconcileAsk(w) PROVE PaidInv'
  <2>1. CASE Done(w)
    BY <1>1, <1>9, <2>1, Onward, PaidQuiet DEF ReconcileAsk
  <2>2. CASE checkout[worker[w].token].status = "completed" /\ Goto(w, "paid")
    <3>1. /\ worker'[w].step = "paid" /\ worker'[w].token = worker[w].token
          /\ worker'[w].invoice = worker[w].invoice
          /\ \A v \in Workers : v # w => worker'[v] = worker[v]
      BY <1>1, <2>2, MemoryShape DEF Goto
    <3>2. Sound(w)'
      BY <1>1, <1>9, <2>2, <3>1 DEF References, Sound, ShownFor, ReconcileAsk, At
    <3>3. ShownKept /\ Alone'
      BY <1>1, <1>9, <3>1 DEF ShownKept, Alone, ReconcileAsk
    <3>4. QED
      BY <1>1, <1>9, <3>1, <3>2, <3>3, PaidKept DEF ReconcileAsk
  <2>3. QED
    BY <1>9, <2>1, <2>2 DEF ReconcileAsk
<1>10. ASSUME NEW w \in Workers, ReconcilePaid(w) PROVE PaidInv'
  <2>1. CASE Done(w) /\ UNCHANGED invoice
    BY <1>1, <1>10, <2>1, Onward, PaidQuiet DEF ReconcilePaid
  <2>2. CASE /\ invoice' = [invoice EXCEPT ![worker[w].invoice].status = "PAID"]
             /\ Goto(w, "lift")
    <3>1. /\ worker'[w].step = "lift" /\ worker'[w].token = worker[w].token
          /\ worker'[w].invoice = worker[w].invoice
          /\ \A v \in Workers : v # w => worker'[v] = worker[v]
      BY <1>1, <2>2, MemoryShape DEF Goto
    <3>2. Sound(w)'
      <4>1. Sound(w) /\ worker[w].step = "paid" /\ UNCHANGED checkout
        BY <1>1, <1>10 DEF References, ReconcilePaid, At
      <4>2. QED
        BY <3>1, <4>1 DEF Sound, ShownFor
    <3>3. ShownKept /\ Alone'
      BY <1>1, <1>10, <3>1 DEF ShownKept, Alone, ReconcilePaid
    <3>4. worker[w].token \in Tokens
            /\ checkout[worker[w].token].status = "completed"
            /\ checkout[worker[w].token].invoice = worker[w].invoice
      <4>1. Sound(w) /\ worker[w].step = "paid"
        BY <1>1, <1>10 DEF References, ReconcilePaid, At
      <4>2. QED
        BY <1>1, <4>1, MemoryShape DEF Sound, ShownFor
    <3>5. \A i \in Invoices :
            /\ invoice'[i].token = invoice[i].token
            /\ i # worker[w].invoice => invoice'[i].status = invoice[i].status
      BY <1>1, <2>2 DEF Row
    <3>6. QED
      BY <1>1, <1>10, <3>1, <3>2, <3>3, <3>4, <3>5, PaidKept DEF ReconcilePaid
  <2>3. QED
    BY <1>10, <2>1, <2>2 DEF ReconcilePaid
<1>11. ASSUME NEW w \in Workers, PayCreate(w) PROVE PaidInv'
  <2>1. PICK t \in Tokens :
          /\ checkout[t].status = "none"
          /\ checkout' = [checkout EXCEPT ![t] =
               [status |-> "created", invoice |-> worker[w].invoice]]
          /\ worker' = [worker EXCEPT ![w].step = "persist", ![w].token = t]
    BY <1>11 DEF PayCreate
  <2>2. /\ worker'[w].step = "persist" /\ worker'[w].token = t
        /\ worker'[w].invoice = worker[w].invoice
        /\ \A v \in Workers : v # w => worker'[v] = worker[v]
    BY <1>1, <2>1, MemoryShape
  <2>3. /\ checkout'[t] = [status |-> "created", invoice |-> worker[w].invoice]
        /\ \A u \in Tokens : u # t => checkout'[u] = checkout[u]
    BY <1>1, <2>1
  <2>4. Sound(w)'
    BY <2>2, <2>3 DEF Sound
  <2>5. \A v \in Workers : worker[v].step = "persist" =>
          worker[v].token # t /\ worker[v].token \in Tokens
    BY <1>0, <2>1
  <2>6. ShownKept /\ Alone'
    BY <1>1, <2>1, <2>2, <2>3, <2>5 DEF ShownKept, Alone
  <2>7. QED
    BY <1>1, <1>11, <2>2, <2>3, <2>4, <2>5, <2>6, PaidKept DEF PayCreate
<1>12. ASSUME NEW w \in Workers, PayPersist(w) PROVE PaidInv'
  <2>0. worker[w].invoice \in Invoices /\ worker[w].token \in Tokens
    BY <1>1, <1>12, MemoryShape DEF PayPersist, At
  <2>1. PICK t \in Tokens, i \in Invoices :
          /\ worker[w].token = t /\ worker[w].invoice = i
          /\ worker[w].step = "persist"
          /\ checkout[t] = [status |-> "created", invoice |-> i]
    BY <1>1, <1>12, <2>0 DEF PayPersist, At, References, Sound
  <2>2. /\ checkout'[t].status = "open" /\ checkout'[t].invoice = i
        /\ \A u \in Tokens : u # t => checkout'[u] = checkout[u]
        /\ invoice'[i].token = t /\ invoice'[i].status = invoice[i].status
        /\ \A j \in Invoices : j # i => invoice'[j] = invoice[j]
    BY <1>1, <1>12, <2>1 DEF PayPersist, Checkout, Row
  <2>3. /\ worker'[w] = Idle
        /\ \A v \in Workers : v # w => worker'[v] = worker[v]
    BY <1>1, <1>12 DEF PayPersist, Done
  <2>4. \A v \in Workers : v # w /\ worker[v].step = "persist" =>
          worker[v].token # t /\ worker[v].token \in Tokens
    BY <1>1, <2>1, MemoryShape DEF Alone
  <2>5. Sound(w)' /\ ShownKept /\ Alone'
    BY <1>1, <2>1, <2>2, <2>3 DEF Sound, Idle, ShownKept, Alone
  <2>6. ShownFor(t, i)'
    BY <2>2 DEF ShownFor
  <2>7. \A j \in Invoices : invoice'[j].token = invoice[j].token
                               \/ ShownFor(invoice[j].token, j)'
    BY <2>2, <2>6 DEF ShownFor
  <2>8. \A j \in Invoices : invoice'[j].status = invoice[j].status
    BY <2>2
  <2>9. \A v \in Workers :
          \/ Sound(v)'
          \/ /\ worker'[v] = worker[v]
             /\ worker[v].step = "persist" =>
                  checkout'[worker[v].token] = checkout[worker[v].token]
    BY <2>2, <2>3, <2>4, <2>5
  <2>10. QED
    BY <1>1, <2>5, <2>7, <2>8, <2>9, PaidKept
<1>13. QED
  BY <1>2, <1>3, <1>4, <1>5, <1>6, <1>7, <1>8, <1>9, <1>10, <1>11, <1>12
  DEF Next, GoOn

LEMMA PaidInit == Init => PaidInv
<1> SUFFICES ASSUME Init PROVE References /\ Alone /\ PaidOnlyIfCollected
  BY TypeInit DEF PaidInv
<1>1. References
  BY DEF Init, References, Sound, Idle
<1>2. Alone
  BY DEF Init, Alone, Idle
<1>3. PaidOnlyIfCollected
  BY DEF Init, PaidOnlyIfCollected
<1>4. QED
  BY <1>1, <1>2, <1>3

LEMMA PaidCorrect == Spec => []PaidInv
<1>1. PaidInv /\ [Next]_vars => PaidInv'
  BY PaidStep
<1>2. QED
  BY <1>1, PaidInit, PTL DEF Spec

\* An invoice is PAID only once PayDunya has collected it
\* (reconcilePaydunyaSubscriptionInvoice).
THEOREM PaidOnlyIfCollectedCorrect == Spec => []PaidOnlyIfCollected
<1>1. PaidInv => PaidOnlyIfCollected
  BY DEF PaidInv
<1>2. QED
  BY <1>1, PaidCorrect, PTL

-----------------------------------------------------------------------------
(* The billing.                                                            *)

\* One run of the billing at a time, and what it read remains true.
Billed ==
  /\ \A v, w \in Workers :
       worker[v].task = "billing" /\ worker[w].task = "billing" => v = w
  /\ \A w \in Workers : worker[w].step = "create" =>
       sub.status # "CANCELLED" /\ Pending = {}

BillInv == TypeOK /\ Billed /\ OneInvoicePending

\* A step that neither bills nor finalises a cancellation.
LEMMA BillKept ==
  ASSUME BillInv, TypeOK', Pending' \subseteq Pending,
         sub.status # "CANCELLED" => sub'.status # "CANCELLED",
         \A w \in Workers :
           \/ worker'[w] = worker[w]
           \/ worker'[w].task # "billing" /\ worker'[w].step # "create"
  PROVE  BillInv'
<1>1. Billed'
  BY DEF BillInv, Billed
<1>2. OneInvoicePending'
  BY DEF BillInv, OneInvoicePending
<1>3. QED
  BY <1>1, <1>2 DEF BillInv

\* A handler that is not the billing starts, goes on or ends.
LEMMA OtherStep ==
  ASSUME TypeOK, NEW w \in Workers,
         \/ Done(w)
         \/ \E step : /\ Goto(w, step) /\ step # "create"
                     /\ worker[w].task # "billing"
         \/ \E mem : /\ worker' = [worker EXCEPT ![w] = mem]
                    /\ mem.task # "billing" /\ mem.step # "create"
  PROVE  \A v \in Workers :
           \/ worker'[v] = worker[v]
           \/ worker'[v].task # "billing" /\ worker'[v].step # "create"
<1>1. worker \in [Workers -> Memory]
  BY DEF TypeOK
<1>2. CASE Done(w)
  BY <1>1, <1>2 DEF Done, Idle
<1>3. ASSUME NEW step, Goto(w, step), step # "create", worker[w].task # "billing"
      PROVE  worker'[w].task # "billing" /\ worker'[w].step # "create"
  BY <1>1, <1>3, MemoryShape DEF Goto
<1>4. CASE \E step : Goto(w, step) /\ step # "create" /\ worker[w].task # "billing"
  BY <1>1, <1>3, <1>4 DEF Goto
<1>5. CASE \E mem : /\ worker' = [worker EXCEPT ![w] = mem]
                    /\ mem.task # "billing" /\ mem.step # "create"
  BY <1>1, <1>5
<1>6. QED
  BY <1>2, <1>4, <1>5

LEMMA BillStep ==
  ASSUME BillInv, [Next]_vars
  PROVE  /\ BillInv'
         /\ sub.status = "CANCELLED" => \A i \in Invoices :
              invoice[i].status = "NONE" => invoice'[i].status = "NONE"
<1> DEFINE Goal == /\ BillInv'
                   /\ sub.status = "CANCELLED" => \A i \in Invoices :
                        invoice[i].status = "NONE" => invoice'[i].status = "NONE"
<1>1. /\ TypeOK /\ TypeOK' /\ invoice \in [Invoices -> Row]
      /\ worker \in [Workers -> Memory] /\ sub \in Subscription
      /\ \A w \in Workers : worker[w].step \in {"due", "create"} =>
           worker[w].task = "billing"
  BY TypeStep, MemoryShape DEF BillInv, TypeOK
<1>2. ASSUME \A i \in Invoices :
               invoice'[i].status \in {invoice[i].status, "PAID"}
                 /\ (invoice[i].status = "NONE" => invoice'[i].status = "NONE"),
             sub.status # "CANCELLED" => sub'.status # "CANCELLED",
             \A w \in Workers :
               \/ worker'[w] = worker[w]
               \/ worker'[w].task # "billing" /\ worker'[w].step # "create"
      PROVE  Goal
  <2>1. Pending' \subseteq Pending
    BY <1>2 DEF Pending
  <2>2. QED
    BY <1>1, <1>2, <2>1, BillKept
<1>3. CASE UNCHANGED vars \/ LoseActivity \/ AdminSuspend \/ CheckoutEnds
  BY <1>2, <1>3 DEF vars, LoseActivity, AdminSuspend, CheckoutEnds
<1>4. CASE Cancel \/ Upgrade \/ PeriodEnds
  <2>1. sub'.status # "CANCELLED"
    BY <1>1, <1>4 DEF Cancel, Upgrade, PeriodEnds, Subscription
  <2>2. QED
    BY <1>2, <1>4, <2>1 DEF Cancel, Upgrade, PeriodEnds
<1>5. CASE InvoiceLate
  <2>1. \A i \in Invoices : invoice'[i].status = invoice[i].status
    BY <1>1, <1>5 DEF InvoiceLate, Row
  <2>2. QED
    BY <1>2, <1>5, <2>1 DEF InvoiceLate
<1>6. ASSUME NEW w \in Workers, PayRead(w) \/ ReconcileRead(w)
      PROVE  Goal
  <2>1. \E mem : /\ worker' = [worker EXCEPT ![w] = mem]
                 /\ mem.task # "billing" /\ mem.step # "create"
    <3>1. CASE PayRead(w)
      <4>1. PICK i \in Invoices : worker' = [worker EXCEPT ![w] =
              [Idle EXCEPT !.task = "pay", !.step = "invoice", !.invoice = i]]
        BY <3>1 DEF PayRead, Pending
      <4>2. /\ [Idle EXCEPT !.task = "pay", !.step = "invoice", !.invoice = i].step
                  = "invoice"
            /\ [Idle EXCEPT !.task = "pay", !.step = "invoice", !.invoice = i].task
                  = "pay"
        BY DEF Idle
      <4>3. QED
        BY <4>1, <4>2
    <3>2. CASE ReconcileRead(w)
      <4>1. PICK i : worker' = [worker EXCEPT ![w] =
              [task |-> "reconcile", step |-> "ask", invoice |-> i,
               token |-> invoice[i].token]]
        BY <3>2 DEF ReconcileRead
      <4> DEFINE mem == [task |-> "reconcile", step |-> "ask", invoice |-> i,
                         token |-> invoice[i].token]
      <4>2. mem.task = "reconcile" /\ mem.step = "ask"
        OBVIOUS
      <4>3. worker' = [worker EXCEPT ![w] = mem]
        BY <4>1
      <4> HIDE DEF mem
      <4>4. QED
        BY <4>2, <4>3
    <3>3. QED
      BY <1>6, <3>1, <3>2
  <2>2. UNCHANGED <<invoice, sub>>
    BY <1>6 DEF PayRead, ReconcileRead
  <2>3. QED
    BY <1>1, <1>2, <2>1, <2>2, OtherStep
<1>7. ASSUME NEW w \in Workers, DunningRead(w) \/ GainActivity(w)
               \/ InactivityStart(w) \/ AdminRead(w)
      PROVE  Goal
  <2>1. ASSUME NEW task, NEW step, Begin(w, task, step),
               task # "billing", step # "create"
        PROVE  \E mem : /\ worker' = [worker EXCEPT ![w] = mem]
                        /\ mem.task # "billing" /\ mem.step # "create"
    <3>1. /\ [Idle EXCEPT !.task = task, !.step = step].step = step
          /\ [Idle EXCEPT !.task = task, !.step = step].task = task
      BY DEF Idle
    <3>2. QED
      BY <2>1, <3>1 DEF Begin
  <2>2. \E mem : /\ worker' = [worker EXCEPT ![w] = mem]
                 /\ mem.task # "billing" /\ mem.step # "create"
    BY <1>7, <2>1 DEF DunningRead, GainActivity, InactivityStart, AdminRead
  <2>3. UNCHANGED <<invoice, sub>>
    BY <1>7 DEF DunningRead, GainActivity, InactivityStart, AdminRead
  <2>4. QED
    BY <1>1, <1>2, <2>2, <2>3, OtherStep
<1>8. ASSUME NEW w \in Workers,
             \/ ReconcileLift(w) \/ DunningSuspend(w) \/ ReconcileAsk(w)
             \/ ReactivationRead(w) \/ ReactivationEligible(w)
             \/ ReactivationWrite(w) \/ InactivityCandidates(w)
             \/ InactivityCheck(w) \/ InactivitySuspend(w)
             \/ AdminReactivate(w) \/ Stop(w)
      PROVE  Goal
  <2>1. Done(w) \/ \E step : /\ Goto(w, step) /\ step # "create"
                            /\ worker[w].task # "billing"
    <3>1. worker[w].step \in {"ask", "read", "eligible", "reactivate",
                              "candidates", "active"} =>
            worker[w].task # "billing"
      BY <1>1, MemoryShape
    <3>2. QED
      BY <1>8, <3>1
      DEF ReconcileLift, DunningSuspend, ReconcileAsk, ReactivationRead,
          ReactivationEligible, ReactivationWrite, InactivityCandidates,
          InactivityCheck, InactivitySuspend, AdminReactivate, Stop,
          AfterReactivation, At
  <2>2. UNCHANGED <<invoice, sub>>
    BY <1>8
    DEF ReconcileLift, DunningSuspend, ReconcileAsk, ReactivationRead,
        ReactivationEligible, ReactivationWrite, InactivityCandidates,
        InactivityCheck, InactivitySuspend, AdminReactivate, Stop
  <2>3. QED
    BY <1>1, <1>2, <2>1, <2>2, OtherStep
<1>9. ASSUME NEW w \in Workers, ReconcilePaid(w) PROVE Goal
  <2>1. worker[w].task # "billing"
    BY <1>1, <1>9, MemoryShape DEF ReconcilePaid, At
  <2>2. \A i \in Invoices :
          /\ invoice'[i].status \in {invoice[i].status, "PAID"}
          /\ invoice[i].status = "NONE" => invoice'[i].status = "NONE"
    BY <1>1, <1>9 DEF ReconcilePaid, Row, Pending
  <2>3. QED
    BY <1>1, <1>2, <1>9, <2>1, <2>2, OtherStep DEF ReconcilePaid
<1>10. ASSUME NEW w \in Workers, PayCreate(w) PROVE Goal
  <2>1. PICK t : worker' = [worker EXCEPT ![w].step = "persist", ![w].token = t]
    BY <1>10 DEF PayCreate
  <2>2. /\ worker'[w].step = "persist" /\ worker'[w].task = worker[w].task
        /\ \A v \in Workers : v # w => worker'[v] = worker[v]
    BY <1>1, <2>1, MemoryShape
  <2>3. worker[w].task # "billing"
    BY <1>1, <1>10, MemoryShape DEF PayCreate, At
  <2>4. QED
    BY <1>2, <1>10, <2>2, <2>3 DEF PayCreate
<1>11. ASSUME NEW w \in Workers, PayPersist(w) PROVE Goal
  <2>1. \A i \in Invoices : invoice'[i].status = invoice[i].status
    BY <1>1, <1>11 DEF PayPersist, Row
  <2>2. QED
    BY <1>1, <1>2, <1>11, <2>1, OtherStep DEF PayPersist
<1>12. ASSUME NEW w \in Workers, BillingFinalize(w) PROVE Goal
  <2>1. /\ \A v \in Workers : worker[v].task # "billing"
        /\ UNCHANGED invoice
        /\ Begin(w, "billing", "due")
    BY <1>12 DEF BillingFinalize, Unlocked
  <2>2. /\ worker'[w].step = "due"
        /\ \A v \in Workers : v # w => worker'[v] = worker[v]
    BY <1>1, <2>1 DEF Begin, Idle
  <2>3. \A v \in Workers : worker[v].step # "create"
    BY <1>1, <2>1
  <2>4. Billed'
    BY <2>1, <2>2, <2>3 DEF Billed
  <2>5. QED
    BY <1>1, <2>1, <2>4 DEF BillInv, OneInvoicePending, Pending
<1>13. ASSUME NEW w \in Workers, BillingRead(w) PROVE Goal
  <2>1. worker[w].task = "billing" /\ UNCHANGED <<invoice, sub>>
    BY <1>1, <1>13 DEF BillingRead, At
  <2>2. CASE Done(w)
    BY <1>1, <1>2, <2>1, <2>2, OtherStep
  <2>3. CASE ToBill /\ Goto(w, "create")
    <3>1. /\ worker'[w].task = "billing"
          /\ \A v \in Workers : v # w => worker'[v] = worker[v]
      BY <1>1, <2>1, <2>3, MemoryShape DEF Goto
    <3>2. sub.status # "CANCELLED" /\ Pending = {}
      BY <2>3 DEF ToBill
    <3>3. Billed'
      BY <2>1, <3>1, <3>2 DEF BillInv, Billed, Pending
    <3>4. QED
      BY <1>1, <2>1, <3>3 DEF BillInv, OneInvoicePending, Pending
  <2>4. QED
    BY <1>13, <2>2, <2>3 DEF BillingRead
<1>14. ASSUME NEW w \in Workers, BillingCreate(w) PROVE Goal
  <2>1. /\ worker[w].step = "create" /\ worker[w].task = "billing"
        /\ sub.status # "CANCELLED" /\ Pending = {} /\ UNCHANGED sub
    BY <1>1, <1>14 DEF BillingCreate, At, BillInv, Billed
  <2>2. PICK i \in Invoices : invoice' = [invoice EXCEPT ![i].status = "PENDING"]
    BY <1>14 DEF BillingCreate
  <2>3. \A j \in Invoices : j # i => invoice'[j].status = invoice[j].status
    BY <1>1, <2>2
  <2>4. OneInvoicePending'
    BY <2>1, <2>3 DEF OneInvoicePending, Pending
  <2>5. worker'[w] = Idle /\ \A v \in Workers : v # w => worker'[v] = worker[v]
    BY <1>1, <1>14 DEF BillingCreate, Done
  <2>6. \A v \in Workers : v # w =>
          worker[v].task # "billing" /\ worker[v].step # "create"
    BY <1>1, <2>1 DEF BillInv, Billed
  <2>7. Billed'
    BY <2>5, <2>6 DEF Billed, Idle
  <2>8. QED
    BY <1>1, <2>1, <2>4, <2>7 DEF BillInv
<1>15. QED
  BY <1>3, <1>4, <1>5, <1>6, <1>7, <1>8, <1>9, <1>10, <1>11, <1>12, <1>13, <1>14
  DEF Next, GoOn

LEMMA BillCorrect == Spec => []BillInv
<1>1. Init => BillInv
  <2>1. Init => Billed /\ OneInvoicePending
    BY DEF Init, Billed, OneInvoicePending, Pending, Idle
  <2>2. QED
    BY <2>1, TypeInit DEF BillInv
<1>2. BillInv /\ [Next]_vars => BillInv'
  BY BillStep
<1>3. QED
  BY <1>1, <1>2, PTL DEF Spec

\* The monthly billing never stacks a second invoice on a debt
\* (createDueInvoices).
THEOREM OneInvoicePendingCorrect == Spec => []OneInvoicePending
<1>1. BillInv => OneInvoicePending
  BY DEF BillInv
<1>2. QED
  BY <1>1, BillCorrect, PTL

\* A subscription whose cancellation is final is never billed again
\* (finalizeCancellations, collectDueSubscriptions).
THEOREM CancelledNotBilledCorrect == Spec => CancelledNotBilled
<1>1. BillInv /\ [Next]_vars =>
        [sub.status = "CANCELLED" => \A i \in Invoices :
           invoice[i].status = "NONE" => invoice'[i].status = "NONE"]_vars
  BY BillStep
<1>2. QED
  BY <1>1, BillCorrect, PTL DEF Spec, CancelledNotBilled

-----------------------------------------------------------------------------
(* One checkout an invoice, until two requests to pay it overlap.          *)

Paying(w) == worker[w].task = "pay"

\* One request at most pays an invoice, which has no reference yet, and the
\* invoice of a checkout that was shown keeps its reference.
OneReference ==
  /\ \A v, w \in Workers :
       Paying(v) /\ Paying(w) /\ worker[v].invoice = worker[w].invoice => v = w
  /\ \A w \in Workers :
       Paying(w) => invoice[worker[w].invoice].token = NoToken
  /\ \A t \in Tokens :
       checkout[t].status \in {"open", "completed", "failed"} =>
         /\ checkout[t].invoice \in Invoices
         /\ invoice[checkout[t].invoice].token = t

PayInv == PaidInv /\ (doubled \/ OneReference)

\* That two requests overlapped is never forgotten.
LEMMA DoubledKept == [Next]_vars => (doubled => doubled')
<1> SUFFICES ASSUME [Next]_vars, doubled PROVE doubled'
  OBVIOUS
<1>1. CASE UNCHANGED vars
  BY <1>1 DEF vars
<1>2. CASE CheckoutEnds \/ Cancel \/ Upgrade \/ PeriodEnds \/ InvoiceLate
             \/ LoseActivity \/ AdminSuspend
  BY <1>2
  DEF CheckoutEnds, Cancel, Upgrade, PeriodEnds, InvoiceLate, LoseActivity,
      AdminSuspend
<1>3. ASSUME NEW w \in Workers,
             \/ PayRead(w) \/ ReconcileRead(w) \/ DunningRead(w)
             \/ BillingFinalize(w) \/ GainActivity(w) \/ InactivityStart(w)
             \/ AdminRead(w) \/ Stop(w)
      PROVE  doubled'
  BY <1>3
  DEF PayRead, ReconcileRead, DunningRead, BillingFinalize, GainActivity,
      InactivityStart, AdminRead, Stop
<1>4. ASSUME NEW w \in Workers, GoOn(w) PROVE doubled'
  BY <1>4
  DEF GoOn, PayCreate, PayPersist, ReconcileAsk, ReconcilePaid, ReconcileLift,
      DunningSuspend, BillingRead, BillingCreate, ReactivationRead,
      ReactivationEligible, ReactivationWrite, InactivityCandidates,
      InactivityCheck, InactivitySuspend, AdminReactivate
<1>5. QED
  BY <1>1, <1>2, <1>3, <1>4 DEF Next

\* A step that neither starts a request to pay nor persists a reference.
LEMMA OneKept ==
  ASSUME PaidInv, OneReference,
         \A i \in Invoices : invoice'[i].token = invoice[i].token,
         \A t \in Tokens :
           checkout'[t].status \in {"open", "completed", "failed"} =>
             /\ checkout[t].status \in {"open", "completed", "failed"}
             /\ checkout'[t].invoice = checkout[t].invoice,
         \A w \in Workers : Paying(w)' =>
           Paying(w) /\ worker'[w].invoice = worker[w].invoice
  PROVE  OneReference'
<1>1. \A w \in Workers : Paying(w) => worker[w].invoice \in Invoices
  <2> SUFFICES ASSUME NEW w \in Workers, Paying(w)
               PROVE  worker[w].invoice \in Invoices
    OBVIOUS
  <2>1. worker[w] \in Memory
    BY DEF PaidInv, TypeOK
  <2>2. QED
    BY <2>1, MemoryShape DEF Paying
<1>2. QED
  BY <1>1 DEF OneReference, Paying

\* A handler that is no request to pay starts, goes on or ends.
LEMMA NotPaying ==
  ASSUME TypeOK, NEW w \in Workers,
         \/ Done(w)
         \/ \E step : Goto(w, step)
         \/ \E mem : worker' = [worker EXCEPT ![w] = mem] /\ mem.task # "pay"
  PROVE  \A v \in Workers : Paying(v)' =>
           Paying(v) /\ worker'[v].invoice = worker[v].invoice
<1>1. worker \in [Workers -> Memory]
  BY DEF TypeOK
<1>2. CASE Done(w)
  BY <1>1, <1>2 DEF Done, Idle, Paying
<1>3. ASSUME NEW step, Goto(w, step)
      PROVE  \A v \in Workers : Paying(v)' =>
               Paying(v) /\ worker'[v].invoice = worker[v].invoice
  <2>1. worker'[w].task = worker[w].task
          /\ worker'[w].invoice = worker[w].invoice
    BY <1>1, <1>3, MemoryShape DEF Goto
  <2>2. QED
    BY <1>1, <1>3, <2>1 DEF Goto, Paying
<1>4. CASE \E mem : worker' = [worker EXCEPT ![w] = mem] /\ mem.task # "pay"
  BY <1>1, <1>4 DEF Paying
<1>5. QED
  BY <1>2, <1>3, <1>4

LEMMA PayStep ==
  ASSUME PaidInv, OneReference, [Next]_vars, ~doubled'
  PROVE  OneReference'
<1>2. /\ TypeOK /\ OneReference /\ invoice \in [Invoices -> Row]
      /\ checkout \in [Tokens -> Checkout] /\ worker \in [Workers -> Memory]
      /\ \A w \in Workers : worker[w].step \in {"invoice", "persist"} =>
           /\ Paying(w) /\ worker[w].invoice \in Invoices
  BY MemoryShape DEF PaidInv, TypeOK, Paying, PayMemory
<1>3. ASSUME UNCHANGED <<invoice, checkout>>,
             \A w \in Workers : Paying(w)' =>
               Paying(w) /\ worker'[w].invoice = worker[w].invoice
      PROVE  OneReference'
  BY <1>3, OneKept
<1>4. CASE UNCHANGED vars \/ Cancel \/ Upgrade \/ PeriodEnds \/ LoseActivity
             \/ AdminSuspend
  BY <1>3, <1>4
  DEF vars, Cancel, Upgrade, PeriodEnds, LoseActivity, AdminSuspend, Paying
<1>5. CASE CheckoutEnds
  <2>1. \A t \in Tokens :
          checkout'[t].status \in {"open", "completed", "failed"} =>
            /\ checkout[t].status \in {"open", "completed", "failed"}
            /\ checkout'[t].invoice = checkout[t].invoice
    BY <1>2, <1>5 DEF CheckoutEnds, Checkout
  <2>2. QED
    BY <1>5, <2>1, OneKept DEF CheckoutEnds, Paying
<1>6. CASE InvoiceLate
  <2>1. \A i \in Invoices : invoice'[i].token = invoice[i].token
    BY <1>2, <1>6 DEF InvoiceLate, Row
  <2>2. QED
    BY <1>6, <2>1, OneKept DEF InvoiceLate, Paying
<1>7. ASSUME NEW w \in Workers, PayRead(w) PROVE OneReference'
  <2>1. PICK i \in Invoices :
          /\ invoice[i].token = NoToken
          /\ worker' = [worker EXCEPT ![w] =
               [Idle EXCEPT !.task = "pay", !.step = "invoice", !.invoice = i]]
          /\ doubled' = (doubled \/ \E v \in Workers :
               worker[v].task = "pay" /\ worker[v].invoice = i)
    BY <1>7 DEF PayRead, Pending
  <2>2. \A v \in Workers : ~(Paying(v) /\ worker[v].invoice = i)
    BY <2>1 DEF Paying
  <2>3. [Idle EXCEPT !.task = "pay", !.step = "invoice", !.invoice = i].invoice = i
    BY DEF Idle
  <2>4. worker'[w].invoice = i /\ \A v \in Workers : v # w => worker'[v] = worker[v]
    BY <1>2, <2>1, <2>3
  <2>5. QED
    BY <1>2, <1>7, <2>1, <2>2, <2>4 DEF PayRead, OneReference, Paying
<1>8. ASSUME NEW w \in Workers, ReconcileRead(w) PROVE OneReference'
  <2>1. PICK i : worker' = [worker EXCEPT ![w] =
              [task |-> "reconcile", step |-> "ask", invoice |-> i,
               token |-> invoice[i].token]]
    BY <1>8 DEF ReconcileRead
  <2> DEFINE mem == [task |-> "reconcile", step |-> "ask", invoice |-> i,
                     token |-> invoice[i].token]
  <2>2. mem.task # "pay" /\ worker' = [worker EXCEPT ![w] = mem]
    BY <2>1
  <2> HIDE DEF mem
  <2>3. QED
    BY <1>2, <1>3, <1>8, <2>2, NotPaying DEF ReconcileRead
<1>9. ASSUME NEW w \in Workers, DunningRead(w) \/ GainActivity(w)
               \/ BillingFinalize(w) \/ InactivityStart(w) \/ AdminRead(w)
      PROVE  OneReference'
  <2>1. ASSUME NEW task, NEW step, Begin(w, task, step), task # "pay"
        PROVE  \E mem : worker' = [worker EXCEPT ![w] = mem] /\ mem.task # "pay"
    <3>1. [Idle EXCEPT !.task = task, !.step = step].task = task
      BY DEF Idle
    <3>2. QED
      BY <2>1, <3>1 DEF Begin
  <2>2. \E mem : worker' = [worker EXCEPT ![w] = mem] /\ mem.task # "pay"
    BY <1>9, <2>1
    DEF DunningRead, GainActivity, BillingFinalize, InactivityStart, AdminRead
  <2>3. UNCHANGED <<invoice, checkout>>
    BY <1>9
    DEF DunningRead, GainActivity, BillingFinalize, InactivityStart, AdminRead
  <2>4. QED
    BY <1>2, <1>3, <2>2, <2>3, NotPaying
<1>10. ASSUME NEW w \in Workers,
             \/ ReconcileLift(w) \/ DunningSuspend(w) \/ ReconcileAsk(w)
             \/ ReactivationRead(w) \/ ReactivationEligible(w)
             \/ ReactivationWrite(w) \/ InactivityCandidates(w)
             \/ InactivityCheck(w) \/ InactivitySuspend(w)
             \/ AdminReactivate(w) \/ BillingRead(w) \/ Stop(w)
      PROVE  OneReference'
  <2>1. Done(w) \/ \E step : Goto(w, step)
    BY <1>10
    DEF ReconcileLift, DunningSuspend, ReconcileAsk, ReactivationRead,
        ReactivationEligible, ReactivationWrite, InactivityCandidates,
        InactivityCheck, InactivitySuspend, AdminReactivate, BillingRead, Stop,
        AfterReactivation
  <2>2. UNCHANGED <<invoice, checkout>>
    BY <1>10
    DEF ReconcileLift, DunningSuspend, ReconcileAsk, ReactivationRead,
        ReactivationEligible, ReactivationWrite, InactivityCandidates,
        InactivityCheck, InactivitySuspend, AdminReactivate, BillingRead, Stop
  <2>3. QED
    BY <1>2, <1>3, <2>1, <2>2, NotPaying
<1>11. ASSUME NEW w \in Workers, ReconcilePaid(w) \/ BillingCreate(w)
       PROVE  OneReference'
  <2>1. \A i \in Invoices : invoice'[i].token = invoice[i].token
    BY <1>2, <1>11 DEF ReconcilePaid, BillingCreate, Row
  <2>2. \A v \in Workers : Paying(v)' =>
          Paying(v) /\ worker'[v].invoice = worker[v].invoice
    BY <1>2, <1>11, NotPaying DEF ReconcilePaid, BillingCreate
  <2>3. QED
    BY <1>11, <2>1, <2>2, OneKept DEF ReconcilePaid, BillingCreate
<1>12. ASSUME NEW w \in Workers, PayCreate(w) PROVE OneReference'
  <2>1. PICK t \in Tokens :
          /\ checkout[t].status = "none"
          /\ checkout' = [checkout EXCEPT ![t] =
               [status |-> "created", invoice |-> worker[w].invoice]]
          /\ worker' = [worker EXCEPT ![w].step = "persist", ![w].token = t]
    BY <1>12 DEF PayCreate
  <2>2. \A u \in Tokens :
          checkout'[u].status \in {"open", "completed", "failed"} =>
            checkout'[u] = checkout[u]
    BY <1>2, <2>1
  <2>3. /\ worker'[w].task = worker[w].task
        /\ worker'[w].invoice = worker[w].invoice
        /\ \A v \in Workers : v # w => worker'[v] = worker[v]
    BY <1>2, <2>1, MemoryShape
  <2>4. \A v \in Workers : Paying(v)' =>
          Paying(v) /\ worker'[v].invoice = worker[v].invoice
    BY <2>3 DEF Paying
  <2>5. QED
    BY <1>12, <2>2, <2>4, OneKept DEF PayCreate
<1>13. ASSUME NEW w \in Workers, PayPersist(w) PROVE OneReference'
  <2>1. worker[w].invoice \in Invoices /\ worker[w].token \in Tokens /\ Paying(w)
    BY <1>2, <1>13, MemoryShape DEF PayPersist, At
  <2>2. PICK t \in Tokens, i \in Invoices :
          /\ worker[w].token = t /\ worker[w].invoice = i
          /\ checkout[t] = [status |-> "created", invoice |-> i]
    BY <1>13, <2>1 DEF PayPersist, At, PayInv, PaidInv, References, Sound
  <2>3. /\ checkout'[t].invoice = i
        /\ \A u \in Tokens : u # t => checkout'[u] = checkout[u]
        /\ invoice'[i].token = t
        /\ \A j \in Invoices : j # i => invoice'[j] = invoice[j]
    BY <1>2, <1>13, <2>2 DEF PayPersist, Checkout, Row
  <2>4. /\ worker'[w] = Idle
        /\ \A v \in Workers : v # w => worker'[v] = worker[v]
    BY <1>2, <1>13 DEF PayPersist, Done
  <2>5. \A v \in Workers : Paying(v)' =>
          worker'[v] = worker[v] /\ Paying(v) /\ worker[v].invoice # i
    BY <1>2, <2>1, <2>2, <2>4 DEF OneReference, Paying, Idle
  <2>6. invoice[i].token = NoToken
    BY <1>2, <2>1, <2>2 DEF OneReference
  <2>7. \A u \in Tokens : u # t
          /\ checkout[u].status \in {"open", "completed", "failed"} =>
            checkout[u].invoice \in Invoices \ {i}
    BY <1>2, <2>6, NoTokenAssumption DEF OneReference
  <2>8. \A v \in Workers : Paying(v)' =>
          invoice'[worker'[v].invoice].token = NoToken
    BY <1>2, <2>3, <2>5, MemoryShape DEF OneReference, Paying
  <2>9. \A u, v \in Workers :
          Paying(u)' /\ Paying(v)' /\ worker'[u].invoice = worker'[v].invoice
            => u = v
    BY <1>2, <2>5 DEF OneReference
  <2>10. \A u \in Tokens :
           checkout'[u].status \in {"open", "completed", "failed"} =>
             /\ checkout'[u].invoice \in Invoices
             /\ invoice'[checkout'[u].invoice].token = u
    BY <1>2, <2>3, <2>7 DEF OneReference
  <2>11. QED
    BY <2>8, <2>9, <2>10 DEF OneReference
<1>14. QED
  BY <1>4, <1>5, <1>6, <1>7, <1>8, <1>9, <1>10, <1>11, <1>12, <1>13
  DEF Next, GoOn

\* The customer never pays one invoice through two checkouts until two
\* requests to pay it overlap, however often one stops before it records the
\* first checkout (payCurrentInvoice).
THEOREM OnePaymentPerInvoiceCorrect == Spec => []OnePaymentPerInvoice
<1>1. Init => PayInv
  <2>1. Init => OneReference
    BY DEF Init, OneReference, Paying, Idle
  <2>2. QED
    BY <2>1, PaidInit DEF PayInv
<1>2. PayInv /\ [Next]_vars => PayInv'
  BY PaidStep, PayStep, DoubledKept DEF PayInv
<1>3. PayInv => OnePaymentPerInvoice
  BY DEF PayInv, OneReference, OnePaymentPerInvoice
<1>4. QED
  BY <1>1, <1>2, <1>3, PTL DEF Spec
=============================================================================
