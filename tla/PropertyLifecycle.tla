------------------------- MODULE PropertyLifecycle -------------------------
(***************************************************************************)
(* The properties of one owner, with their leases, their public listings   *)
(* and the quota of the owner's subscription: PropertiesService (create,   *)
(* update, remove), AuthService.inviteTenant, LeasesService.terminate,     *)
(* TenantsService.blockTenant, SubscriptionsService (assertQuotaAvailable, *)
(* upgrade) and PlatformSettingsService.update.                            *)
(*                                                                         *)
(* A request reads the rows it checks, and writes in a later statement or  *)
(* transaction; in between it remembers what request[r] holds.  Leases and *)
(* listings change only in a transaction that also updates the row of      *)
(* their property, which makes these transactions of a property exclude    *)
(* each other: each is one step.                                           *)
(***************************************************************************)
EXTENDS Naturals, FiniteSets

CONSTANTS
  Properties,    \* the rows create() may insert
  Tenants,       \* the tenants known to the platform
  Leases,        \* the rows inviteTenant() may insert
  Requests,      \* the requests in flight, of the owner or the manager
  Nobody,        \* no holder of the owner's advisory lock
  MaxTier,       \* TIER_ORDER of the highest tier
  Quota,         \* managedPropertiesQuota of each tier
  Unlimited,     \* the tiers whose managedPropertiesQuota is null
  MaxPromotions  \* bound: how often the admin suspends the quotas

Tiers == 0 .. MaxTier

ASSUME TierAssumption ==
  /\ MaxTier \in Nat /\ MaxPromotions \in Nat
  /\ Quota \in [Tiers -> Nat]
  /\ Unlimited \subseteq Tiers
  \* A higher tier never has less room.
  /\ \A a, b \in Tiers : a <= b =>
        /\ Quota[a] <= Quota[b]
        /\ a \in Unlimited => b \in Unlimited
ASSUME RequestAssumption == Nobody \notin Requests
ASSUME FiniteAssumption == IsFiniteSet(Properties)

VARIABLES
  property,         \* the rows of properties
  listed,           \* how many ACTIVE rows of listings each property has
  lease,            \* the rows of leases
  blocked,          \* the rows of tenant_property_blocks
  tier,             \* the tier of the owner's subscription
  peak,             \* history: the highest tier it has been
  quotasSuspended,  \* PlatformSettings.subscriptionQuotasSuspended
  promotions,       \* history: how often the quotas were suspended
  quotaLock,        \* who holds pg_advisory_xact_lock(owner)
  request           \* what each request remembers

rows == <<property, listed, lease, blocked>>
subscription == <<tier, peak>>
settings == <<quotasSuspended, promotions>>
vars == <<rows, subscription, settings, quotaLock, request>>

-----------------------------------------------------------------------------
(* The tables and the requests' memory.                                    *)

\* status "NONE": the row does not exist yet.
PropertyStatuses == {"VACANT", "OCCUPIED", "RENOVATION", "ARCHIVED"}
Property == [status : PropertyStatuses \cup {"NONE"}, archived : BOOLEAN]

NoLease == [status |-> "NONE"]
Lease == {NoLease}
           \cup [status : {"ACTIVE", "TERMINATED"},
                 property : Properties, tenant : Tenants]

Idle == [op |-> "idle"]
Memory ==
  {Idle}
    \cup [op : {"lock", "tier", "insert"}]
    \cup [op : {"count", "upgrade"}, tier : Tiers]
    \cup [op : {"invite", "block"}, property : Properties, tenant : Tenants]
    \cup [op : {"terminate"}, lease : Leases]
    \cup [op : {"patch"}, property : Properties, status : PropertyStatuses]
    \cup [op : {"archive"}, property : Properties]

Exists(p) == property[p].status # "NONE"
Active(l) == lease[l].status = "ACTIVE"
LeaseOf(l, p) == Active(l) /\ lease[l].property = p
Rented(p) == \E l \in Leases : LeaseOf(l, p)

\* countBillableWith: what the quota counts.
Billable ==
  {p \in Properties : /\ Exists(p) /\ ~property[p].archived
                      /\ \/ Rented(p)
                         \/ listed[p] > 0
                         \/ property[p].status = "RENOVATION"}

HasRoom(t, n) == t \in Unlimited \/ n < Quota[t]

\* Mutant: the migration without the index.
IndexAbsent(t) == TRUE

\* leases_tenant_active_unique: one ACTIVE lease per tenant.
IndexAdmits(t) == ~\E l \in Leases : Active(l) /\ lease[l].tenant = t

Remember(r, memory) == request' = [request EXCEPT ![r] = memory]
Start(r, memory) == request[r] = Idle /\ Remember(r, memory)
Done(r) == Remember(r, Idle)
Release(r) == quotaLock' = IF quotaLock = r THEN Nobody ELSE quotaLock

-----------------------------------------------------------------------------
(* Creating a property, under the quota.                                   *)

\* create: quotasSuspended() is read before the lock is asked for.
CreateStart(r) ==
  /\ Start(r, [op |-> IF quotasSuspended THEN "insert" ELSE "lock"])
  /\ UNCHANGED <<rows, subscription, settings, quotaLock>>

\* Mutant: the lock is not waited for.
CreateLockless(r) ==
  /\ request[r].op = "lock"
  /\ quotaLock' = r
  /\ Remember(r, [op |-> "tier"])
  /\ UNCHANGED <<rows, subscription, settings>>

\* assertQuotaAvailable, one statement after the other.
CreateLock(r) ==
  /\ request[r].op = "lock"
  /\ quotaLock = Nobody
  /\ quotaLock' = r
  /\ Remember(r, [op |-> "tier"])
  /\ UNCHANGED <<rows, subscription, settings>>

CreateReadTier(r) ==
  /\ request[r].op = "tier"
  /\ Remember(r, [op |-> "count", tier |-> tier])
  /\ UNCHANGED <<rows, subscription, settings, quotaLock>>

CreateAdmitted(r) ==
  /\ request[r].op = "count"
  /\ HasRoom(request[r].tier, Cardinality(Billable))
  /\ Remember(r, [op |-> "insert"])
  /\ UNCHANGED <<rows, subscription, settings, quotaLock>>

\* The quota is reached: the transaction rolls back, which frees the lock.
CreateRefused(r) ==
  /\ request[r].op = "count"
  /\ ~HasRoom(request[r].tier, Cardinality(Billable))
  /\ Done(r) /\ Release(r)
  /\ UNCHANGED <<rows, subscription, settings>>

\* The property is inserted VACANT and published, and the lock freed.
CreateInsert(r, p) ==
  /\ request[r].op = "insert"
  /\ ~Exists(p)
  /\ property' = [property EXCEPT ![p] = [status |-> "VACANT", archived |-> FALSE]]
  /\ listed' = [listed EXCEPT ![p] = 1]
  /\ Done(r) /\ Release(r)
  /\ UNCHANGED <<lease, blocked, subscription, settings>>

-----------------------------------------------------------------------------
(* The life of a property.                                                 *)

\* assertValidTransition: only asked when the status changes.
ValidTransition(p, next) ==
  /\ property[p].status # "ARCHIVED"
  /\ next \notin {"ARCHIVED", "OCCUPIED"}
  /\ property[p].status = "OCCUPIED" /\ next = "VACANT" => ~Rented(p)

UpdateRead(r, p, next) ==
  /\ Exists(p)
  /\ next # property[p].status => ValidTransition(p, next)
  /\ Start(r, [op |-> "patch", property |-> p, status |-> next])
  /\ UNCHANGED <<rows, subscription, settings, quotaLock>>

\* Mutant: an edit clears archivedAt.
UpdateRestores(r) ==
  /\ request[r].op = "patch"
  /\ property' = [property EXCEPT ![request[r].property] =
                    [status |-> request[r].status, archived |-> FALSE]]
  /\ Done(r)
  /\ UNCHANGED <<listed, lease, blocked, subscription, settings, quotaLock>>

UpdateWrite(r) ==
  /\ request[r].op = "patch"
  /\ property' = [property EXCEPT ![request[r].property].status = request[r].status]
  /\ Done(r)
  /\ UNCHANGED <<listed, lease, blocked, subscription, settings, quotaLock>>

RemoveRead(r, p) ==
  /\ Exists(p) /\ ~Rented(p)
  /\ Start(r, [op |-> "archive", property |-> p])
  /\ UNCHANGED <<rows, subscription, settings, quotaLock>>

RemoveWrite(r) ==
  /\ request[r].op = "archive"
  /\ property' = [property EXCEPT ![request[r].property] =
                    [status |-> "ARCHIVED", archived |-> TRUE]]
  /\ Done(r)
  /\ UNCHANGED <<listed, lease, blocked, subscription, settings, quotaLock>>

-----------------------------------------------------------------------------
(* Leases and blocks.                                                      *)

\* inviteTenant checks the block, whatever the status of the property.
InviteRead(r, p, t) ==
  /\ Exists(p) /\ <<p, t>> \notin blocked
  /\ Start(r, [op |-> "invite", property |-> p, tenant |-> t])
  /\ UNCHANGED <<rows, subscription, settings, quotaLock>>

\* createLeaseWithinTransaction, with deactivateForProperty.
InviteWrite(r, l) ==
  /\ request[r].op = "invite"
  /\ lease[l] = NoLease
  /\ IndexAdmits(request[r].tenant)
  /\ lease' = [lease EXCEPT ![l] = [status |-> "ACTIVE",
                                    property |-> request[r].property,
                                    tenant |-> request[r].tenant]]
  /\ property' = [property EXCEPT ![request[r].property].status = "OCCUPIED"]
  /\ listed' = [listed EXCEPT ![request[r].property] = 0]
  /\ Done(r)
  /\ UNCHANGED <<blocked, subscription, settings, quotaLock>>

TerminateRead(r, l) ==
  /\ Active(l)
  /\ Start(r, [op |-> "terminate", lease |-> l])
  /\ UNCHANGED <<rows, subscription, settings, quotaLock>>

\* Mutant: a lease that ends does not publish its property.
TerminateUnpublished(r) ==
  /\ request[r].op = "terminate"
  /\ LET l == request[r].lease
     IN  /\ lease' = [lease EXCEPT ![l].status = "TERMINATED"]
         /\ property' = [property EXCEPT ![lease[l].property].status = "VACANT"]
  /\ Done(r)
  /\ UNCHANGED <<listed, blocked, subscription, settings, quotaLock>>

\* terminate's transaction, with publishForProperty.
TerminateWrite(r) ==
  /\ request[r].op = "terminate"
  /\ LET l == request[r].lease
         p == lease[l].property
     IN  /\ lease' = [lease EXCEPT ![l].status = "TERMINATED"]
         /\ property' = [property EXCEPT ![p].status = "VACANT"]
         /\ listed' = [listed EXCEPT ![p] = @ + 1]
  /\ Done(r)
  /\ UNCHANGED <<blocked, subscription, settings, quotaLock>>

BlockRead(r, p, t) ==
  /\ Exists(p) /\ <<p, t>> \notin blocked
  /\ ~\E l \in Leases : LeaseOf(l, p) /\ lease[l].tenant = t
  /\ Start(r, [op |-> "block", property |-> p, tenant |-> t])
  /\ UNCHANGED <<rows, subscription, settings, quotaLock>>

\* The unique index turns a second insertion into a 409.
BlockWrite(r) ==
  /\ request[r].op = "block"
  /\ blocked' = blocked \cup {<<request[r].property, request[r].tenant>>}
  /\ Done(r)
  /\ UNCHANGED <<property, listed, lease, subscription, settings, quotaLock>>

-----------------------------------------------------------------------------
(* The subscription and the platform.                                      *)

\* Two upgrades may both find the tier below theirs.
UpgradeRead(r, t) ==
  /\ t > tier
  /\ Start(r, [op |-> "upgrade", tier |-> t])
  /\ UNCHANGED <<rows, subscription, settings, quotaLock>>

Higher(a, b) == IF a > b THEN a ELSE b

\* Mutant: the tier is one too high.
UpgradeTooFar(r) ==
  /\ request[r].op = "upgrade"
  /\ tier' = request[r].tier + 1
  /\ peak' = Higher(peak, tier')
  /\ Done(r)
  /\ UNCHANGED <<rows, settings, quotaLock>>

\* The tier asked for is written, over a higher one too.
UpgradeWrite(r) ==
  /\ request[r].op = "upgrade"
  /\ tier' = request[r].tier
  /\ peak' = Higher(peak, tier')
  /\ Done(r)
  /\ UNCHANGED <<rows, settings, quotaLock>>

\* PlatformSettingsService.update, the switch of the quotas.
SuspendQuotas ==
  /\ ~quotasSuspended /\ promotions < MaxPromotions
  /\ quotasSuspended' = TRUE /\ promotions' = promotions + 1
  /\ UNCHANGED <<rows, subscription, quotaLock, request>>

RestoreQuotas ==
  /\ quotasSuspended
  /\ quotasSuspended' = FALSE
  /\ UNCHANGED <<rows, subscription, promotions, quotaLock, request>>

\* A statement fails or the process stops: what was not written is not, and
\* an open transaction rolls back.  Also the 409 of a refused insertion.
RequestFails(r) ==
  /\ request[r] # Idle
  /\ Done(r) /\ Release(r)
  /\ UNCHANGED <<rows, subscription, settings>>

-----------------------------------------------------------------------------
Init ==
  /\ property = [p \in Properties |-> [status |-> "NONE", archived |-> FALSE]]
  /\ listed = [p \in Properties |-> 0]
  /\ lease = [l \in Leases |-> NoLease]
  /\ blocked = {}
  /\ tier = 0 /\ peak = 0
  /\ quotasSuspended = FALSE /\ promotions = 0
  /\ quotaLock = Nobody
  /\ request = [r \in Requests |-> Idle]

Creating(r) ==
  \/ CreateStart(r) \/ CreateLock(r) \/ CreateReadTier(r)
  \/ CreateAdmitted(r) \/ CreateRefused(r)
  \/ \E p \in Properties : CreateInsert(r, p)

Keeping(r) ==
  \/ \E p \in Properties, next \in PropertyStatuses : UpdateRead(r, p, next)
  \/ UpdateWrite(r)
  \/ \E p \in Properties : RemoveRead(r, p)
  \/ RemoveWrite(r)

Renting(r) ==
  \/ \E p \in Properties, t \in Tenants : InviteRead(r, p, t) \/ BlockRead(r, p, t)
  \/ \E l \in Leases : InviteWrite(r, l) \/ TerminateRead(r, l)
  \/ TerminateWrite(r) \/ BlockWrite(r)

Subscribing(r) ==
  \/ \E t \in Tiers : UpgradeRead(r, t)
  \/ UpgradeWrite(r)

Next ==
  \/ \E r \in Requests : \/ Creating(r) \/ Keeping(r) \/ Renting(r)
                         \/ Subscribing(r) \/ RequestFails(r)
  \/ SuspendQuotas \/ RestoreQuotas

Spec == Init /\ [][Next]_vars

-----------------------------------------------------------------------------
(* What holds.                                                             *)

\* Every variable keeps its type.
TypeOK ==
  /\ property \in [Properties -> Property]
  /\ listed \in [Properties -> Nat]
  /\ lease \in [Leases -> Lease]
  /\ blocked \subseteq Properties \X Tenants
  /\ tier \in Tiers /\ peak \in Tiers
  /\ quotasSuspended \in BOOLEAN /\ promotions \in Nat
  /\ quotaLock \in Requests \cup {Nobody}
  /\ request \in [Requests -> Memory]

\* Whatever is created, let, terminated, upgraded and archived at the same
\* time, the owner never holds more billable properties than the tier allows,
\* as long as the admin has not suspended the quotas (assertQuotaAvailable).
\* The tier is the highest the owner has had: only an upgrade written over a
\* higher one can leave more than the present tier allows.
BillableWithinQuota ==
  promotions = 0 =>
    \/ peak \in Unlimited
    \/ Cardinality(Billable) <= Quota[peak]

\* A property becomes billable when it is created and at no other time: the
\* reason why create() alone asks for the quota (PropertiesService.create).
OnlyCreationAddsBillable ==
  [][Billable' \ Billable \subseteq {p \in Properties : ~Exists(p)}]_vars

\* A property without an active lease is published, archived or not: no
\* interleaving of leases, terminations and edits makes one disappear from
\* the listings (publishForProperty and deactivateForProperty).
UnrentedIsListed ==
  \A p \in Properties : Exists(p) => Rented(p) \/ listed[p] > 0

\* A tenant has at most one active lease, whoever invites them and where.
TenantHousedOnce ==
  \A l, m \in Leases :
    Active(l) /\ Active(m) /\ lease[l].tenant = lease[m].tenant => l = m

-----------------------------------------------------------------------------
(* What a comment says and the code breaks.                                *)

\* A property has at most one active listing (listings.service.ts).
OneActiveListing == \A p \in Properties : listed[p] <= 1
=============================================================================
