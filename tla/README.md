# WARAH in TLA+

WARAH is a rental management service for Togo: owners and managers register
properties, invite tenants, and collect rents by hand, by tenant declaration, or
through PayDunya (mobile money); the rent collected through PayDunya is then paid
out to the owner or to the mandated manager. The backend
(`src/apps/backend`, NestJS and Prisma over PostgreSQL) holds all the state; the
frontend (`src/apps/frontend`, Next.js) only displays it.

These modules specify the backend, the money first. They are translated from the
source; `PROJECT.json` names the lines every definition stands for.

## 1. Inventory

Paths are relative to `src/apps/backend/src`.

| Component | State | Operations | Talks to | Hard behaviour |
|---|---|---|---|---|
| Payments, `modules/payments/payments.service.ts` | `PaymentScheduleEntry` (paidAmount, status), `Payment` (status, amount) | createManual, confirm, reject | declarations, payouts (event) | each reads, then uploads or checks access, then writes what it computed from the read |
| Declarations, `modules/payment-declarations` | the same tables | create, update, cancel | payments (confirm, reject) | status checked, row deleted or changed by id alone |
| PayDunya collection, `payments.service.ts`, `paydunya.service.ts`, `scheduling/paydunya-reconciliation.task.ts` | `Payment` (PENDING, reference, checkout URL), the provider's invoices | start (replay, reuse, new), webhook, cron, abandonment | the provider, payouts | concurrent starts, lost references, webhook racing cron, late payment |
| Overdue alerts, `scheduling/overdue.task.ts` | entry status, `overdueAlertSentAt`, `tenantOverdueReminderSentAt` | daily run under an advisory lock | notifications | overlapping runs, writes from an old read, crash after reservation |
| Payouts, `modules/payouts`, `scheduling/payouts.task.ts` | `Payout` (status, attempts, token, nextAttemptAt) | listener, cron, admin retry, process, callback | the provider | nothing may send a rent twice: crash, ambiguous answer, racing calls |
| Subscriptions, `modules/subscriptions`, `scheduling/subscription-billing.task.ts` | `Subscription`, `SubscriptionInvoice` | quota, upgrade, cancel, pay, reconcile, bill, remind, suspend | provider, accounts | payment racing suspension, quota under lock, two steps not atomic |
| Account status, `modules/account`, `scheduling/inactivity.task.ts`, `modules/admin` | `User.accountStatus` | suspend, reactivate, by four writers | properties, mandates, subscriptions | unguarded writes after a read |
| Properties, listings, leases, `modules/properties`, `listings`, `leases`, `auth` (inviteTenant) | `Property.status`, `Listing.status`, `Lease.status` | create, update, remove, invite, terminate | quotas, schedule | three tables to be kept in step; checks outside transactions |
| Mandates, `modules/mandates`, `common/permissions` | `Mandate.status` | create, accept, revoke | properties, payouts | check, then unguarded update |
| Tenant blocks, `modules/tenants` | `TenantPropertyBlock` | block, unblock, invite's check | leases | check outside the lease's transaction |
| Reminders, monthly reports, `scheduling` | `reminderSentAt`, reports | daily and monthly runs | notifications | sent, then marked |
| WhatsApp channel, `modules/whatsapp-channel`, `whatsapp-webhook` (statuses), `scheduling/whatsapp-retry.task.ts` | `WhatsappMessage` (status, retryable, sentAt, deliveredAt, attempt) | send, result, acknowledgement, new attempt, expiry | Meta, notifications | unknown outcomes, acknowledgements out of order, overlapping runs |
| WhatsApp consent, `modules/whatsapp-consent` | columns of `User`, `WhatsappConsentEvent` | request, refusal, agreement, withdrawal, change of number, STOP, OUI, REPRENDRE | webhook, portal, agency | three writers by compare-and-swap, keywords late or out of order |
| WhatsApp inbound, `whatsapp-webhook` (messages), `whatsapp-inbound.processor.ts`, its recovery task | `WhatsappMessage` (inboundAction, processedAt, attempts) | record, reserve, answer, recover | consent, bot | signal in memory, restart after the answer, deliveries twice |
| WhatsApp bot and inbox, `modules/whatsapp-bot`, `whatsapp-inbox` | conversations, threads, code of the tenant | menu, invitation, exchange with the manager | inbound, consent | one answer per message, rate limits, code attempts |
| Authentication | sessions, one-time codes | login, refresh, reset | | cryptography apart, rotation of refresh tokens |
| Notifications, storage, receipts, dashboards, cache, frontend | none of their own, or views | | | |

What makes each one correct:

- *collection*: a collected invoice is credited once, to the entry, and never lost;
  a final payment does not change; the tenant never holds two payable pages for a
  payment; a payment in progress always ends;
- *ledger*: an entry's amount is the sum of its confirmed payments;
- *overdue*: a tenant is reminded once, and only of what is unpaid;
- *payouts*: a rent leaves once at most; what left is always followed up; the
  recorded outcome is the true one; each collected rent is eventually settled;
- *subscriptions, accounts*: an invoice is paid once, only with money collected, and
  always once it is; who has paid is not suspended; an administrative suspension is
  lifted by an administrator only; quotas hold under concurrency;
- *properties*: occupied exactly while leased, published exactly while vacant;
- *mandates*: one active mandate per property, a revoked one never comes back;
- *WhatsApp out*: a notification reaches the tenant once at most, each attempt is made
  once;
- *WhatsApp in*: nobody but the tenant leaves a stop, by a word later than it; each
  message is answered once at most and never left behind.

## 2. Plan

1. Money in: `RentLedger`, `PaydunyaCollection`, `OverdueAlerts`, composed by
   `RentCollection`, implementing the abstract `RentBook`. **Done**, with the proofs of
   `RentProofs` and `LedgerProofs`.
2. Money out: `Payouts`, implementing the abstract `OneTransfer`. **Done**, with the
   proofs of `PayoutsProofs`.
3. Property life: `PropertyLifecycle`, the quota included. **Done**, with the proofs of
   `PropertyProofs`.
4. `Accounts`: account status, subscription invoices, billing, inactivity, the
   administrator. **Done**, with the proofs of `AccountsProofs`.
5. WhatsApp: `WhatsappOutbound`, implementing `OneTransfer` too; `WhatsappConsent` and
   `WhatsappInbound`, which extends it. **Done**, with the proofs of `OutboundProofs` and
   `InboundProofs`.
6. Left for later: mandates (create, accept and revoke, composed with the choice of the
   payee), the lease schedule as a function over months, the menu, code and exchanges of
   the bot, sessions, reminders and monthly reports.

## 3. The modules

Some promises of the code last only until a certain race happens, which nothing in the code
excludes (section 5 tells what follows). The models allow each of these races, without
bound; a history variable, which no guard reads, records that it happened and is never
reset, and what is lost with it is promised until then. No constant and no guard keeps
them out of a run or of a proof.

| Variable | Becomes TRUE when | Code |
|---|---|---|
| `stale` (`RentLedger`) | a person writes an amount computed from an outdated read | `payments.service.ts:132`, `:549` |
| `crossed` (`PaydunyaCollection`) | a start takes up the row that another start in flight works on | `payments.service.ts:265` |
| `prompt` (`Payouts`) | an administrator retries while an older call still works on the payout | `payouts.service.ts:54` |
| `doubled` (`Accounts`) | a request to pay reads an invoice that another is paying | `subscriptions.service.ts:161` |
| `overtaken` (`WhatsappOutbound`) | a temporary failure is written before the sender wrote the answer to its call | `whatsapp-webhook.service.ts:202` |

`peak` (`PropertyLifecycle`) is a history variable too: the highest tier the owner has had,
which two upgrades at once may lower again.

### Money in

`RentLedger` is one schedule entry and its payments under people's hands. A handler
that reads and later writes is two actions (`ConfirmRead`, `ConfirmWrite`, and so
on), what it remembers being its element of `req`: this is where the code awaits an
upload or an access query between the read and the write. `stale` is a history
variable, TRUE once a person's write relied on an outdated read; `credits` counts how
often a payment was added to the entry.

`PaydunyaCollection` extends it with the automatic payment. `start[i]` is one call of
`startPaydunyaPayment`, `rec[c]` one of `reconcilePaydunyaPayment`, whether the webhook or
the cron called it. The invoice is the provider's: created, then pending until paid
or cancelled. `shown` is what a tenant has been given. `GrowOld` is the
abandonment delay passing. `StartRead` leaves out the refusal of an owner without a payout
account (`payments.service.ts:221`): the model starts more often than the code. Of the amount
the provider confirms the model keeps whether it repeats the total asked or says nothing;
that it might confirm another total is left out.

`OverdueAlerts` extends the ledger with runs of the overdue task; two runs may
overlap, since the advisory lock lapses after ten minutes while the task goes on.

`RentCollection` composes them: every step of one leaves the others' variables alone
except the tables they share. Its sums are counts: `PaidFrancs` has one pair for every
franc of every PAID row, so that adding a row adds a disjoint finite set.

`RentBook` is what the ledger promises: an account book, to which a payment is added once
with its sum, never to be changed or erased, and whose balance grows by that sum, until
its keepers are no longer `trusted`. `KeepsBook` is its specification, the book being the
PAID rows with their amounts and the balance `paidAmount`, trusted until `stale` or `crossed`.

### Money out

`Payouts` models one payout: `proc[w]` is one call of `process`, `call[h]` one of
`handleCallback`, `payout` the row, `disb` the provider's disbursements. Handlers of two
payouts share nothing, one payout shows every interference. Each database statement
and each call to the provider is an action; `ProcFail` is the process stopping or an
answer lost at any of them. `attempts` is bounded by `MaxAttempts` until an
administrator starts again with attempts at zero; the disbursements, a finite set,
bound the whole.

`OneTransfer` is the promise, in three variables: what is moving, what has arrived and whether
the promise still holds (`trusted`); an attempt starts moving only when nothing has ever
arrived or is moving. `Payouts!KeepsPromise` is its specification under the mapping from
`disb`, trusted until `prompt`. Notifications
make the same promise (`WhatsappOutbound!ArrivesOnce`), by different means.

Time is two facts about the row. `due` is "nextAttemptAt has passed" and `quiet` is "not
written for `PAYOUT_STALE_SENDING_MS`". `BecomesDue` waits until no call that read the row
earlier is at work, because a retry is delayed by two minutes or more and such a
call has at most one status check left (48 s with its retries). `BecomesQuiet` waits
until no `process` is at work, because five minutes exceed the two that a `process`
with every call at its timeout lasts. Both are assumptions about delays the code
chose, and the model is not valid for smaller ones. Also assumed: a submission that
timed out is not executed by the provider after the next status check
(`withTimeout` does not cancel the request; the code relies on the same thing).
`AdminRetry` is immediate and waits for nobody, as in the code: this is what `prompt` is about.

### Properties, leases and quotas

`PropertyLifecycle` is one owner's properties with their leases, their listings and
the quota of the subscription. `request[r]` is one HTTP request: Idle, or what it has
read and decided and not yet written. The checks of `update`, `remove`, `inviteTenant`,
`terminate`, `blockTenant` and `upgrade` are outside the transaction that writes, hence two
actions each (`UpdateRead`, `UpdateWrite`, and so on). `create` is five steps, because
its transaction waits for an advisory lock and reads the tier, the count and the
tables in different statements; a request the switch of the quotas lets through skips to
`CreateInsert`. `listed[p]` counts the ACTIVE listings of a property.

Each writing transaction is one step. Those that change a lease or a listing also
update the row of their property, whose lock makes two of them on one property exclude
each other until commit; the statements of PostgreSQL's READ COMMITTED then see what
the first committed. `CreateInsert` touches a row nobody knows yet. `countBillableWith` is
one statement, hence one snapshot.

Left out: `canActOnProperty` (every request is of the owner or of the mandated manager),
photos and documents, the slug of a listing, the account created for an unknown tenant
(a tenant who exists is the harder case), and the schedule entries a lease brings and
`terminate` purges. `EXPIRED` is in the schema and no code writes it.

### Accounts and subscriptions

`Accounts` is one landlord or manager. `account` is `users.accountStatus`, `sub` the row
of `subscriptions`, `invoice` those of `subscription_invoices`, `checkout` PayDunya's
side. `worker[w]` is any handler in flight: `task` says which (a request to pay, a
reconciliation, the daily suspension for debts, the monthly billing, a reactivation, the
inactivity task, the administrator) and `step` what it does next. A pool of two anonymous
handlers shows every pair interleaved, at the price of one pool instead of nine.
Every write of `accountStatus` comes after a read made by the same handler some time
before and is unconditional, except that of `ReconcileLift`, which is one guarded update.
The tasks of the scheduler exclude their own second run (`Unlocked`): unlike the overdue
task, a run about one account does not last the ten minutes of the lock. `Stop` is the
process restarting, or a statement failing, between any two steps.

Left out: tiers, amounts and the dates of periods, the beta period and the switch of the
billing (they only forbid), reminders and warnings (they decide nothing), and the thirty
seconds during which the guard may still see the former status.

### WhatsApp

`WhatsappOutbound` is one notification and its attempts. `row` is the table, `meta` what
Meta really did, `sender[k]` the notifying request or one run of the retry task, `hook[h]`
an acknowledgement being applied. The row is created before the call and its result
written after it; any acknowledgement may come in between, since Meta accepts a message before
it answers. `canUseWhatsapp` answers either way at any time: what it reads is not the series'
own. `ArrivesOnce` says that the attempts implement `OneTransfer`: what Meta accepted is moving,
what the tenant got has arrived, and it is trusted until `overtaken`.

`WhatsappConsent` is the pure part: `decideConsent` as operators on the columns of `users`
(`ChangesConsent`, `Applied`), and the compare-and-swap of `applyConsentCommand`
(`UnchangedSince`, `Written`). `WhatsappInbound` is what happens around it. `tx[w]` is a
transaction on the consent, between its read and its write, begun by the agency, the
portal or a message; `message[m]` is what the tenant wrote, then its row; `processor[k]`
is one `process`, started by the signal or by the recovery task. Time is a clock of a few
instants: what matters is which of two dates is later, and that two may be equal. A
message sent before the number changes comes from a number nobody knows (`Estranged`).
`recordInbound` is one step for a number not verified yet, since `markPhoneVerified` locks
the row of the tenant until the end of the transaction.

Left out: what the bot says, the tenant's code, the exchange with the manager, the
batches of fifty, and the anonymisation of an account. The check of an access and the
creation of the row it allows are one step; the code accepts the gap as a known limit.

## 4. Runs

| Run | Shows | Bounds |
|---|---|---|
| `rent_paydunya` | until `crossed`: money accounted for, an invoice asks what its row will be credited; until `crossed` or `stale`: the ledger is exact and implements `RentBook` | 2 payments, 2 invoices, 2 starts, 1 reconciliation, 1 person |
| `rent_two_starts` | credited once, only if collected; outcomes are final; until `crossed`, one payable page per payment | 2 payments, 2 invoices, 2 starts, 2 reconciliations |
| `rent_alerts` | one reminder at most | 2 overlapping runs, 2 people |
| `rent_liveness` | a payment in progress always ends | 1 start, 1 reconciliation |
| `payouts_safety` | until `prompt`, a rent leaves once, is never out of sight and its outcome is true, and `OneTransfer` is implemented; SUCCESS is final always | 2 `process`, 2 callbacks, 3 disbursements, 2 attempts |
| `payouts_liveness` | every collected rent settles | 1 `process`, 1 callback, 2 disbursements |
| `property_quota` | the quota of the highest tier the owner has had holds through concurrent creations, edits, leases and upgrades | 3 properties, tiers of 1, 1 and 2, 2 requests of any kind, 1 tenant and lease |
| `property_rent` | one lease per tenant; a property nobody rents is published; only a creation makes billable | 1 property, 2 tenants, 3 leases, 2 requests, the quotas suspended at most once |
| `accounts` | an invoice paid only if collected and, until `doubled`, once and always then; a cancelled subscription not billed; activity lifts a suspension for inactivity | any 2 handlers, 1 invoice, 2 checkouts, 1 stop |
| `whatsapp_outbound` | until `overtaken`: delivered once at most, no attempt made twice, implements `OneTransfer` | 2 attempts, 3 rows, 2 overlapping runs, 2 acknowledgements in flight |
| `whatsapp_inbound` | a stop is left by the tenant only, by a later word; one answer at most; every message settled | 2 messages, 2 instants, 1 request or agreement, 2 transactions, 1 processor, 2 attempts |
| `whatsapp_last_word` (violated) | an older REPRENDRE cancels a STOP that found the tenant stopped | 3 instants, 2 messages, 1 withdrawal |

Two payments are enough for a pair in conflict on one entry; three disbursements allow
two attempts of a cycle and one of the next. Amounts are 1 or 2 of 3, or all of it,
so partial, full and excess credits occur. Three properties exceed the
higher tier of two, and two creations race for its last place; three leases let one tenant
return while another stays. The invoice's minimum and the fee are
chosen so that amount and rent differ. Deadlock is not checked where a rent may be
settled with nobody left to act.

Fairness: the reconciliation and payout crons run for ever, failures are transient,
so their steps are strongly fair; days pass and a request ends one way or the other,
weakly fair; nothing is assumed of tenants, webhooks, callbacks, events or
administrators. Whether the provider ever settles what moves is assumed for payouts
only. For accounts: a handler goes on or stops (weak), the quarter-hourly reconciliation
and the daily inactivity task come back for ever though other handlers may be in their
way (strong), and stops are finitely many. For inbound messages: a processing goes on and
the recovery task, every minute, takes what is left (weak); interruptions are bounded by
the attempts themselves, so nothing is assumed of them.

One invoice is enough for `accounts`, because its properties are about one invoice or one
subscription and `OneInvoicePendingCorrect` proves that two are never due at once; two checkouts
are what a second payment needs. In `whatsapp_inbound` two messages are a pair of
keywords, or one keyword delivered twice, and two instants let them be in order, in the
wrong order, or of the same second. A third row of `whatsapp_outbound` is what a
second run would need to make an attempt again; `StillPromised` leaves out what follows a
state with `overtaken`, which is never forgotten and after which its properties promise nothing.
The other runs go on after their races, and check there what still holds.

## 5. What the models found

`whatsapp_last_word` is a violation run and a finding in `PROJECT.json`. A STOP of a tenant
already stopped is "already in state" (`consent-transition.ts:120`) and leaves no date.
So: the tenant withdraws on the portal, writes REPRENDRE, then STOP; Meta delivers the
STOP first, nothing changes, and the older REPRENDRE, later than the withdrawal, then
reactivates. The test of `consent-transition.spec.ts:207` covers the case where the
STOP takes effect, which `ConsentAfterStops` proves in general.

The same modules break these other promises of the comments; TLC showed each on an
instance like those above, and no run repeats it. Money:

- two people writing to an entry from the same read lose an amount
  (`payments.service.ts:132` and `:549`; `LedgerExact`): the reason why
  `LedgerExactUnlessStale` has its premise;
- a declaration withdrawn while it is being confirmed deletes a credited payment
  (`payment-declarations.service.ts:211`, against the comment of `:209`; `CreditedIsKept`);
- `releaseForRetry` looks at the status, not at the disbursement it concluded on
  (`payouts.service.ts:349`): if an administrator retries while a callback of the failed
  attempt runs (`prompt`), that callback fails the new attempt, whose money then
  leaves again, against "jamais de double envoi" (`:52`);
- two starts that find the same orphan payment (`payments.service.ts:265`) each create an
  invoice, and the tenant holds two payable pages of one payment, against what
  `schema.prisma:704` says of the partial unique index, which only keeps apart two starts
  that insert. The later start also changes the amount of a row that was invoiced, or even
  credited, since it was read. Hence the `~crossed` of `OneCheckoutAtATime`,
  `CollectedIsAccounted`, `InvoiceAsksRow` and `LedgerExactUnlessStale`: without it TLC finds each of
  them violated, the last without anybody's stale read;
- an entry settled while the agency is being told becomes OVERDUE again
  (`overdue.task.ts:125`), and its tenant is reminded of a rent already paid.

Properties and accounts:

- two leases of one property, ended in turn, leave two active listings
  (`leases.service.ts:43`; `OneActiveListing`);
- `inviteTenant` ignores the status of the property: an archived one becomes OCCUPIED,
  then VACANT and published again (`auth.service.ts:555`, against
  `properties.service.ts:456`);
- ending one of two leases of a property publishes it while the other goes on
  (`leases.service.ts:53`, against `auth.service.ts:558`);
- OCCUPIED to RENOVATION to VACANT passes by the check for an active lease
  (`properties.service.ts:466`): VACANT, let, and without a listing;
- an invitation checked before a block is inserted still creates the lease
  (`tenants.service.ts:134`);
- of two upgrades in flight the lower may be written last (`subscriptions.service.ts:121`),
  which also leaves more billable properties than the tier allows: the reason why
  `BillableWithinQuota` speaks of `peak`, the highest tier so far;
- a debt settled between the selection of the accounts to suspend and the write, or whose
  handler stops between the invoice and the account, leaves a paid account suspended: no
  task lifts a SUSPENDED_PAYMENT (`subscription-billing.task.ts:221`,
  `subscriptions.service.ts:258`);
- an administrative suspension is overwritten by whoever had read the account before:
  `inactivity.task.ts:129`, `subscription-billing.task.ts:221`,
  `account-activation.service.ts:56`, the last of which makes the account ACTIVE;
- two requests to pay one invoice create two checkouts, and the customer may pay both
  (`subscriptions.service.ts:161`), the first of which no reference leads to any more: the
  reason for the `doubled` of `OnePaymentPerInvoice` and `CollectedIsPaid`;
- a subscription cancelled, its period over, between the selection of what to bill and the
  invoice is billed once more: it becomes CANCELLED at the next run only
  (`subscription-billing.task.ts:86`);
- a property archived between the check of `inviteTenant` and its write, or a lease created
  between the check of `remove` and its write, leaves a lease on an archived property
  (`properties.service.ts:260`);
- a checkout that failed or expired is shown again for ever (`subscriptions.service.ts:161`), so that its
  invoice can only be paid with the help of an operator;
- an account suspended for debts cannot call the request that would settle them: the
  route does not say `@AllowWhileSuspended`, though `account-activation.service.ts:101`
  tells the customer to pay in order to be reactivated (found by reading).

WhatsApp:

- a temporary failure acknowledged before the answer to the call is written is retried,
  then overwritten by the late `markSent` (`whatsapp.service.ts:356`, unguarded), and
  retried again when the failure is repeated: without its `~overtaken`, `OneRowPerAttempt`
  fails;
- for the same reason a status may go back from delivered to UNKNOWN
  (`whatsapp.service.ts:374`, against `status-transition.ts:45`);
- the invitation is not claimed as other answers are (`whatsapp-bot.service.ts:522`): if the
  processing stops after it was sent and the consent is reset meanwhile, the same message is
  invited twice, though the processor says the bot never answers twice;
- three interruptions set a message aside without the alert that three failures give
  (found by reading);
- a fifth wrong code counted, then a stop before the lock is written, leaves the code
  refused without the lock that would end (`bot-identity.service.ts:109`, found by reading).

A near miss is worth knowing. A callback may release a payout between the stale claim
of a resumed `process` and its reading of the row; the process then creates, records and
submits a new disbursement while the row is PENDING. It heals, because the token is
recorded before submitting and the next pass finds it, which is why `MovingIsTracked`
says PENDING or SENDING.

## 6. Proofs

Every theorem is about `Spec` and assumes nothing but the named assumptions on constants of its
module (a null is no row or token, bounds are naturals, quotas grow with the tier). Where a
promise lasts until a race of section 3, the inductive invariant is "the race happened, or the
ordered state is": one lemma shows that the history variable never goes back, and the steps
keep the ordered state unless they set it.

`PayoutsProofs` proves, for any sets of calls and disbursements and any number of
attempts:

- `TypeCorrect`: type correctness;
- `TransferredOnce`, `SubmittedOnce`, `AlwaysTracked`, `OutcomeTold`: the safety
  invariants of `payouts_safety`;
- `SuccessKept`: the action property `SuccessIsFinal`;
- `ImplementsPromise`: `Spec` implements `OneTransfer`.

All but `SuccessKept` and the first hold until `prompt`. They rest on one inductive invariant,
`IInv`. `AtMostOneTransfer` alone is not inductive: it says nothing of who is about to
submit or to release. `IInv` adds that a row that can be claimed is nobody's
(`Claimable`), that one `process` at most is past its claim (`OneProcess`), that money that
left is under the recorded token (`Tracked`), that a callback in flight concluded on the
token of the SENDING row (`CallOK`), and what a `process` has in hand at each step
(`ProcOK`). One lemma for each action shows that it is kept.

`PropertyProofs` proves, for any sets of properties, tenants, leases and requests and
any quotas that grow with the tier:

- `TypeCorrect`, `UnrentedPublished`, `HousedOnce`, from `RowsInvariant`: `Inv` adds to the
  types that a property named by a lease or by a request exists, without which a
  termination could publish, and an edit bring back, a row that does not;
- `CreationAlone`: the action property `OnlyCreationAddsBillable`. It rests on
  `UnrentedIsListed`: a lease may be given to a property only because that property, not
  let, was listed and therefore counted already;
- `QuotaHolds`: `BillableWithinQuota`, however many upgrades overlap. The
  invariant says what the advisory lock buys: whoever is between the lock and the
  insertion holds it, and once admitted there is room (`Entitled`); room survives every
  other step because, by `CreationAlone`'s lemma, only the holder of the lock adds.

`AccountsProofs` proves, for any handlers, invoices, checkouts and stops:

- `TypeCorrect`;
- `PaidOnlyIfCollectedCorrect`: `References` says that the token of an invoice, and the
  one a handler remembers, is of a checkout made for that invoice; `Sound` that a handler
  about to write PAID saw it completed, which is final;
- `OneInvoicePendingCorrect` and `CancelledNotBilledCorrect`, from `Billed`: what the billing run
  read when it selected is still true when it writes, because nobody else bills or makes a
  cancellation final, and a second run is locked out;
- `OnePaymentPerInvoiceCorrect`, from `doubled \/ OneReference`: a checkout somebody can pay is
  the one recorded on its invoice, and one request at most is paying an invoice.

`InboundProofs` proves, for any messages, transactions, processors and bounds:

- `TypeCorrect`;
- `ConsentAfterStopsCorrect`: `StopsDated` adds that the date of the last change is not
  before any stop that took effect, and `TxDecided` that what a transaction read was
  such that its command changes it. The compare-and-swap compares the date, so what was
  decided still holds when it is written;
- `OnlyTenantLeavesStopCorrect`, from the same invariant;
- `AnsweredOnceCorrect`: its trace (`Traced`) shows that a message was answered. An answer of
  `replyOnce` is that trace, which the next one looks for; the bot's is marked processed by
  the call about to make it (`Asking`), and every other call finds it marked.

`OutboundProofs` proves, for any rows, overlapping runs and acknowledgements:

- `TypeCorrect`;
- `OneRowPerAttemptCorrect`, `DeliveredOnceCorrect` and `ImplementsPromise` (that the attempts
  implement `OneTransfer`), until a temporary failure overtakes the answer to its call
  (`overtaken \/ IInv`). That there is one row per attempt says nothing
  of why an attempt may leave: the invariant adds that every attempt before the one about to
  be made is `Spent`, that is, failed without reaching the tenant, with nobody waiting for its
  answer and nobody entitled to take it (`FrontOK`, `SeriesOK`). It stays so because only a
  temporary failure nobody waits for any more makes a row retryable (`RetryableOK`), and because the compare-and-swap refuses one read before the row was
  taken.

`RentProofs` proves, for any rows, people, invoices, starts, reconciliations and runs of
the overdue task:

- `TypeCorrect`, `CreditedOnceCorrect`, `CreditedOnlyIfCollectedCorrect` and
  `OutcomeFinalCorrect`, from the invariant `IInv`. `Rows`: a reference is of an invoice
  issued for its row, which is then PayDunya's; `Requested`: people decide on other
  rows; `Started` and `Reconciled`: what the two kinds of calls remember is of one row and of one
  of its invoices, and a final answer of the provider is still its answer. The argument goes
  through `RowStep` and `InvoiceStep`, which say what a step may do to one row and to one
  invoice (`RowLife`, `InvoiceLife`); the parts of the invariant follow from them;
- `RemindedAtMostOnceCorrect`, from `Reserved`: whoever is about to send holds the
  reservation alone, and nothing left before;
- `CollectedIsAccountedCorrect` and `OneCheckoutAtATimeCorrect`, for any number of starts at
  once, from `crossed \/ Alone`: a row has one start at most, and no reference until that start
  writes it, so a reference is never overwritten. Between starts that insert, the partial
  unique index is what keeps it so.

`LedgerProofs` goes on from there, until `crossed`:

- `LedgerExactUnlessStaleCorrect`: the entry is the sum of its PAID rows until somebody writes
  on an outdated read. A sum over rows is a recursion, and a proof about it an induction over
  data; the number of francs is neither, and a credit adds to it (`SumGrows`) the francs of
  one row (`FrancsOfRow`), that had none before (`MoreFrancs`). One lemma for each kind of
  actor shows that a step keeps what is paid or credits one row with its amount
  (`LedgerChange`); `Tokened`, that a PAID row of PayDunya's has its reference, keeps a start
  away from it;
- `ImplementsBook`: the refinement of `RentBook`, from the same case split;
- `InvoiceAsksRowCorrect`, from `Asked`: what a start and a reconciliation remember of the amount
  is still the row's and the invoice's. That the provider is asked for the right sum,
  and that the right sum is credited although the provider may not repeat it, both
  follow (`RentIsAmount`).

Only model-checked: liveness (`RentSettled`, `PendingResolved`, `CollectedIsPaid`,
`ActivityReactivates`, `InboundSettled`), which needs ENABLED and fairness. Every invariant,
action property and refinement the passing runs check is stated by a theorem.

## 7. Not modelled

Not reached, with their reasons in `PROJECT.json`: mandates (the check and the write of
accept and revoke are apart, so a revoked mandate may come back; the code states no
promise about it), the lease schedule, reminders and monthly reports (sent, then marked),
the bot's menu, code and exchanges, the inbox, sessions and one-time codes. Out of scope for good:
signature and token cryptography, document layout, storage, cache, health checks, the
frontend, which is about half of the lines and displays what the backend holds. Within the
modelled components: the proof files and receipts of payments, the batch limits of the
crons (thirty rows that never resolve would starve the others), wording of
notifications, and listings of rows.
