\* Two starts in flight, as when a tenant taps twice, against a webhook and
\* the cron.  A settled rent with nobody left to act is a legitimate end.
SPECIFICATION Spec
CONSTANTS
  Payments = {p1, p2}
  Requests = {}
  Tokens = {t1, t2}
  Initiators = {i1, i2}
  Reconcilers = {c1, c2}
  Runs = {}
  Amounts = {1}
  NoPayment = NoPayment
  NoToken = NoToken
  Expected = 3
  FeePercent = 50
  FeeFixed = 0
  MinInvoice = 3
SYMMETRY Symmetry
INVARIANTS
  PaydunyaCreditedOnce
  CreditedOnlyIfCollected
  OneCheckoutAtATime
PROPERTIES
  PaydunyaOutcomeFinal
CHECK_DEADLOCK FALSE
