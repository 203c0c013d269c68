\* One property without a quota to mind, two tenants, three leases, two requests.
SPECIFICATION Spec
CONSTANTS
  Properties = {p1}
  Tenants = {t1, t2}
  Leases = {l1, l2, l3}
  Requests = {r1, r2}
  Nobody = Nobody
  MaxTier = 0
  Quota <- SmallQuota
  Unlimited = {0}
  MaxPromotions = 1
SYMMETRY Symmetry
INVARIANTS
  UnrentedIsListed
  TenantHousedOnce
PROPERTIES
  OnlyCreationAddsBillable
CHECK_DEADLOCK FALSE
