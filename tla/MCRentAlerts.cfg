\* Two runs of the overdue task that overlap, and two people.
SPECIFICATION Spec
CONSTANTS
  Payments = {p1, p2}
  Requests = {r1, r2}
  Tokens = {}
  Initiators = {}
  Reconcilers = {}
  Runs = {k1, k2}
  Amounts = {2}
  NoPayment = NoPayment
  NoToken = NoToken
  Expected = 3
  FeePercent = 50
  FeeFixed = 0
  MinInvoice = 3
SYMMETRY Symmetry
INVARIANTS
  RemindedAtMostOnce
