\* One start, the cron, nobody else; no symmetry under liveness.
\* A settled rent with nobody left to act is a legitimate end.
SPECIFICATION FairSpec
CONSTANTS
  Payments = {p1, p2}
  Requests = {}
  Tokens = {t1, t2}
  Initiators = {i1}
  Reconcilers = {c1}
  Runs = {}
  Amounts = {1}
  NoPayment = NoPayment
  NoToken = NoToken
  Expected = 3
  FeePercent = 50
  FeeFixed = 0
  MinInvoice = 3
PROPERTIES
  PendingResolved
CHECK_DEADLOCK FALSE
