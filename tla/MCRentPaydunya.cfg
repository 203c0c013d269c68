\* Two starts in flight, as when a tenant taps twice, a reconciliation and a
\* person.
SPECIFICATION Spec
CONSTANTS
  Payments = {p1, p2}
  Requests = {r1}
  Tokens = {t1, t2}
  Initiators = {i1, i2}
  Reconcilers = {c1}
  Runs = {}
  Amounts = {1}
  NoPayment = NoPayment
  NoToken = NoToken
  Expected = 3
  FeePercent = 50
  FeeFixed = 0
  MinInvoice = 3
SYMMETRY Symmetry
INVARIANTS
  TypeOK
  CollectedIsAccounted
  LedgerExactUnlessStale
  InvoiceAsksRow
PROPERTIES
  KeepsBook
