\* Any two handlers in flight, one invoice, two checkouts, one stop half-way.
\* No symmetry under liveness.
SPECIFICATION FairSpec
CONSTANTS
  Workers = {w1, w2}
  Invoices = {i1}
  NoInvoice = NoInvoice
  Tokens = {t1, t2}
  NoToken = NoToken
  MaxStops = 1
INVARIANTS
  TypeOK
  OnePaymentPerInvoice
  PaidOnlyIfCollected
PROPERTIES
  CancelledNotBilled
  CollectedIsPaid
  ActivityReactivates
