\* Three properties under tiers of one, one and two, two requests of any kind;
\* every way to let, terminate, edit, archive and upgrade.
SPECIFICATION Spec
CONSTANTS
  Properties = {p1, p2, p3}
  Tenants = {t1}
  Leases = {l1}
  Requests = {r1, r2}
  Nobody = Nobody
  MaxTier = 2
  Quota <- SmallQuota
  Unlimited = {}
  MaxPromotions = 0
SYMMETRY Symmetry
INVARIANTS
  TypeOK
  BillableWithinQuota
CHECK_DEADLOCK FALSE
