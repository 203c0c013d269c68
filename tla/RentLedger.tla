----------------------------- MODULE RentLedger -----------------------------
(***************************************************************************)
(* The rent ledger: one schedule entry (échéance) of a lease, the payments *)
(* recorded against it, and the handlers through which people write to     *)
(* both.  Every handler of the source touches exactly one schedule entry,  *)
(* so one entry is enough to see every interference between them.          *)
(*                                                                         *)
(* A handler reads the tables, checks, awaits something else (an access    *)
(* query, an upload to the storage, a notification) and only then writes.  *)
(* The reads and the write are therefore two actions, and what the handler *)
(* remembers between them is its element of req.  A transaction is one     *)
(* step.                                                                   *)
(***************************************************************************)
EXTENDS Naturals, FiniteSets

CONSTANTS
  Payments,    \* the identifiers a payment row may get (never reused)
  Requests,    \* the requests of people in flight at the same time
  Tokens,      \* the references of the provider's invoices
  NoPayment,   \* "no row" in a handler's memory
  NoToken,     \* a null transactionId
  Expected,    \* expectedAmount of the entry
  Amounts      \* the amounts people may enter

ASSUME ExpectedAssumption == Expected \in Nat \ {0}
ASSUME AmountsAssumption == Amounts \subseteq Nat \ {0}
ASSUME NullAssumption == NoPayment \notin Payments /\ NoToken \notin Tokens

VARIABLES
  entry,       \* the row of payment_schedule_entries
  payment,     \* the rows of payments, by identifier
  req,         \* what each request of a person remembers
  credits,     \* history: how often the entry was credited for a payment
  stale        \* history: some person's write relied on an outdated read

ledgerVars == <<entry, payment, req, credits, stale>>

-----------------------------------------------------------------------------
(* The tables.                                                             *)

EntryStatuses == {"PENDING", "PARTIAL", "PAID", "OVERDUE"}
Sources == {"MANUAL_OWNER", "TENANT_DECLARATION", "PAYDUNYA_API"}
PaymentStatuses == {"PENDING", "PENDING_CONFIRMATION", "PAID", "REJECTED"}

Entry == [paid : Nat, status : EntryStatuses,
          alerted : BOOLEAN,       \* overdueAlertSentAt is set
          reminded : BOOLEAN]      \* tenantOverdueSentAt is set

\* status "NONE": the identifier is not used yet; "DELETED": the row is gone.
\* old: created more than PAYDUNYA_ABANDON_AFTER_MS ago.
Row == [source : Sources \cup {"NONE"},
        status : PaymentStatuses \cup {"NONE", "DELETED"},
        amount : Nat, fee : Nat,
        token : Tokens \cup {NoToken}, old : BOOLEAN]

NoRow == [source |-> "NONE", status |-> "NONE", amount |-> 0, fee |-> 0,
          token |-> NoToken, old |-> FALSE]

Fresh == {p \in Payments : payment[p].status = "NONE"}
Exists(p) == payment[p].status \in PaymentStatuses

\* computeEntryStatus: the status of the entry once n has been paid on it.
ComputeEntryStatus(n) ==
  CASE n <= 0 -> "PENDING"
    [] n >= Expected -> "PAID"
    [] OTHER -> "PARTIAL"

\* The entry once its paidAmount is n: amount and status change together.
Credited(n) == [entry EXCEPT !.paid = n, !.status = ComputeEntryStatus(n)]

-----------------------------------------------------------------------------
(* The handlers' memory.                                                   *)

Handlers == {"idle", "createManual", "update", "cancel", "confirm", "reject"}

Idle == [op |-> "idle", pay |-> NoPayment, paid |-> 0, amount |-> 0]

Memory == [op : Handlers, pay : Payments \cup {NoPayment},
           paid : Nat, amount : Nat]

Begin(r, op, p, a) ==
  /\ req[r] = Idle
  /\ req' = [req EXCEPT ![r] =
               [op |-> op, pay |-> p, paid |-> entry.paid, amount |-> a]]
  /\ UNCHANGED <<entry, payment, credits, stale>>

Done(r) == req' = [req EXCEPT ![r] = Idle]

\* A write is stale when a row its handler read has changed since.
StaleEntry(r) == entry.paid # req[r].paid
StaleRow(r) == \/ payment[req[r].pay].status # "PENDING_CONFIRMATION"
               \/ payment[req[r].pay].amount # req[r].amount

\* A failure at any point ends the request without its write: an exception
\* of the database or the storage, a timeout, the process restarted.
Fail(r) == /\ req[r] # Idle
           /\ Done(r)
           /\ UNCHANGED <<entry, payment, credits, stale>>
-----------------------------------------------------------------------------
(* PaymentsService.createManual: the owner or manager records a payment.   *)

CreateManualRead(r) == \E a \in Amounts : Begin(r, "createManual", NoPayment, a)

CreateManualWrite(r) ==
  /\ req[r].op = "createManual"
  /\ \E p \in Fresh :
       /\ payment' = [payment EXCEPT ![p] =
            [NoRow EXCEPT !.source = "MANUAL_OWNER", !.status = "PAID",
                          !.amount = req[r].amount]]
       /\ credits' = [credits EXCEPT ![p] = @ + 1]
  /\ entry' = Credited(req[r].paid + req[r].amount)
  /\ stale' = (stale \/ StaleEntry(r))
  /\ Done(r)

-----------------------------------------------------------------------------
(* PaymentDeclarationsService: the tenant declares, corrects or withdraws  *)
(* a payment made outside the application.                                 *)

DeclarationCreate(r) ==
  /\ req[r] = Idle
  /\ \E p \in Fresh, a \in Amounts :
       payment' = [payment EXCEPT ![p] =
            [NoRow EXCEPT !.source = "TENANT_DECLARATION",
                          !.status = "PENDING_CONFIRMATION", !.amount = a]]
  /\ UNCHANGED <<entry, req, credits, stale>>

\* loadOwnDeclaration: only a declaration still waiting may be touched.
OwnDeclaration(p) == /\ payment[p].source = "TENANT_DECLARATION"
                     /\ payment[p].status = "PENDING_CONFIRMATION"

UpdateRead(r) == \E p \in Payments :
  OwnDeclaration(p) /\ Begin(r, "update", p, payment[p].amount)

UpdateWrite(r) ==
  /\ req[r].op = "update" /\ Exists(req[r].pay)
  /\ \E a \in Amounts :
       payment' = [payment EXCEPT ![req[r].pay].amount = a]
  /\ stale' = (stale \/ StaleRow(r))
  /\ Done(r)
  /\ UNCHANGED <<entry, credits>>

CancelRead(r) == \E p \in Payments :
  OwnDeclaration(p) /\ Begin(r, "cancel", p, payment[p].amount)

CancelWrite(r) ==
  /\ req[r].op = "cancel" /\ Exists(req[r].pay)
  /\ payment' = [payment EXCEPT ![req[r].pay].status = "DELETED"]
  /\ stale' = (stale \/ StaleRow(r))
  /\ Done(r)
  /\ UNCHANGED <<entry, credits>>

-----------------------------------------------------------------------------
(* PaymentsService.confirm and reject: the owner or manager decides on a   *)
(* declaration.                                                            *)

\* assertConfirmable: never a PayDunya payment, never one already decided.
Confirmable(p) == /\ Exists(p)
                  /\ payment[p].source # "PAYDUNYA_API"
                  /\ payment[p].status = "PENDING_CONFIRMATION"

ConfirmRead(r) == \E p \in Payments :
  Confirmable(p) /\ Begin(r, "confirm", p, payment[p].amount)

ConfirmWrite(r) ==
  /\ req[r].op = "confirm" /\ Exists(req[r].pay)
  /\ payment' = [payment EXCEPT ![req[r].pay].status = "PAID"]
  /\ entry' = Credited(req[r].paid + req[r].amount)
  /\ credits' = [credits EXCEPT ![req[r].pay] = @ + 1]
  /\ stale' = (stale \/ StaleEntry(r) \/ StaleRow(r))
  /\ Done(r)

RejectRead(r) == \E p \in Payments :
  Confirmable(p) /\ Begin(r, "reject", p, payment[p].amount)

RejectWrite(r) ==
  /\ req[r].op = "reject" /\ Exists(req[r].pay)
  /\ payment' = [payment EXCEPT ![req[r].pay].status = "REJECTED"]
  /\ stale' = (stale \/ StaleRow(r))
  /\ Done(r)
  /\ UNCHANGED <<entry, credits>>

-----------------------------------------------------------------------------
(* The ledger and the people who write to it.                              *)

LedgerInit ==
  /\ entry = [paid |-> 0, status |-> "PENDING",
              alerted |-> FALSE, reminded |-> FALSE]
  /\ payment = [p \in Payments |-> NoRow]
  /\ req = [r \in Requests |-> Idle]
  /\ credits = [p \in Payments |-> 0]
  /\ stale = FALSE

LedgerNext ==
  \E r \in Requests :
    \/ CreateManualRead(r) \/ CreateManualWrite(r)
    \/ DeclarationCreate(r)
    \/ UpdateRead(r) \/ UpdateWrite(r)
    \/ CancelRead(r) \/ CancelWrite(r)
    \/ ConfirmRead(r) \/ ConfirmWrite(r)
    \/ RejectRead(r) \/ RejectWrite(r)
    \/ Fail(r)

LedgerSpec == LedgerInit /\ [][LedgerNext]_ledgerVars
=============================================================================
