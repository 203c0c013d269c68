--------------------------- MODULE PropertyProofs ---------------------------
(***************************************************************************)
(* Proofs about PropertyLifecycle, for any number of properties, tenants,  *)
(* leases and requests.                                                    *)
(*                                                                         *)
(* RefsExist says that what a request remembers and what a lease names     *)
(* exists: rows are never deleted.  It makes the type invariant inductive  *)
(* and keeps an edit from bringing a property into being.  QuotaKept adds  *)
(* who holds the lock and what a creation may still count on: room under   *)
(* the highest tier the owner has had, which no upgrade ever lowers.       *)
(***************************************************************************)
EXTENDS PropertyLifecycle, FiniteSetTheorems, TLAPS

RefsExist ==
  /\ \A l \in Leases : lease[l] # NoLease => Exists(lease[l].property)
  /\ \A r \in Requests :
       /\ request[r].op \in {"invite", "patch", "archive"} =>
            Exists(request[r].property)
       /\ request[r].op = "terminate" => lease[request[r].lease] # NoLease

RowsOK == TypeOK /\ RefsExist

\* What a request remembers has the type its operation needs.
LEMMA Recalled ==
  ASSUME TypeOK, NEW r \in Requests
  PROVE  /\ request[r].op \in {"invite", "block"} =>
              request[r].property \in Properties /\ request[r].tenant \in Tenants
         /\ request[r].op \in {"patch", "archive"} =>
              request[r].property \in Properties
         /\ request[r].op = "patch" => request[r].status \in PropertyStatuses
         /\ request[r].op = "terminate" => request[r].lease \in Leases
         /\ request[r].op \in {"count", "upgrade"} => request[r].tier \in Tiers
BY DEF TypeOK, Memory, Idle

\* What a row of leases holds.
LEMMA LeaseShape ==
  ASSUME TypeOK, NEW l \in Leases
  PROVE  \/ lease[l] = NoLease /\ ~Active(l)
         \/ /\ lease[l] # NoLease
            /\ lease[l].status \in {"ACTIVE", "TERMINATED"}
            /\ lease[l].property \in Properties /\ lease[l].tenant \in Tenants
BY DEF TypeOK, Lease, NoLease, Active

-----------------------------------------------------------------------------
(* Types and references.                                                   *)

LEMMA RowsInit == Init => RowsOK
<1> SUFFICES ASSUME Init PROVE RowsOK
  OBVIOUS
<1>1. Idle \in Memory /\ NoLease \in Lease /\ 0 \in Tiers
  BY TierAssumption DEF Memory, Lease, Tiers
<1>2. TypeOK
  BY <1>1 DEF Init, TypeOK, Property
<1>3. RefsExist
  BY DEF Init, RefsExist, Idle
<1>4. QED
  BY <1>2, <1>3 DEF RowsOK

\* The steps that only read the rows.
LEMMA ReadKeepsRows ==
  ASSUME RowsOK, UNCHANGED <<property, lease>>, NEW r \in Requests,
         NEW memory \in Memory, Remember(r, memory),
         memory.op \in {"invite", "patch", "archive"} => Exists(memory.property),
         memory.op = "terminate" => lease[memory.lease] # NoLease
  PROVE  RefsExist' /\ request' \in [Requests -> Memory]
BY DEF RowsOK, TypeOK, RefsExist, Remember, Exists

LEMMA IdleKeepsRefs ==
  ASSUME RowsOK, NEW r \in Requests, Done(r),
         \A p \in Properties : Exists(p) => property'[p].status # "NONE",
         \A l \in Leases :
           /\ lease[l] # NoLease => lease'[l] # NoLease
           /\ lease'[l] # NoLease => lease'[l].property \in Properties
                                       /\ property'[lease'[l].property].status # "NONE"
  PROVE  RefsExist' /\ request' \in [Requests -> Memory]
<1>1. request' \in [Requests -> Memory]
  BY DEF RowsOK, TypeOK, Done, Remember, Memory
<1>2. ASSUME NEW s \in Requests
      PROVE  /\ request'[s].op \in {"invite", "patch", "archive"} =>
                  property'[request'[s].property].status # "NONE"
             /\ request'[s].op = "terminate" => lease'[request'[s].lease] # NoLease
  <2>1. CASE s = r
    BY <2>1 DEF RowsOK, TypeOK, Done, Remember, Idle
  <2>2. CASE s # r
    <3>1. request'[s] = request[s]
      BY <2>2 DEF RowsOK, TypeOK, Done, Remember
    <3>2. /\ request[s].op \in {"invite", "patch", "archive"} =>
               Exists(request[s].property) /\ request[s].property \in Properties
          /\ request[s].op = "terminate" =>
               /\ lease[request[s].lease] # NoLease
               /\ request[s].lease \in Leases
      BY Recalled DEF RowsOK, RefsExist
    <3>3. QED
      BY <3>1, <3>2 DEF Exists
  <2>3. QED
    BY <2>1, <2>2
<1>3. \A l \in Leases : lease'[l] # NoLease => property'[lease'[l].property].status # "NONE"
  OBVIOUS
<1>4. QED
  BY <1>1, <1>2, <1>3 DEF RefsExist, Exists

-----------------------------------------------------------------------------
(* One lemma per kind of step.                                             *)

LEMMA Invited ==
  ASSUME TypeOK, NEW r \in Requests, NEW l \in Leases, InviteWrite(r, l)
  PROVE  \E p \in Properties, t \in Tenants :
           /\ p = request[r].property /\ t = request[r].tenant
           /\ lease[l] = NoLease /\ IndexAdmits(t)
           /\ lease' = [lease EXCEPT ![l] = [status |-> "ACTIVE",
                                            property |-> p, tenant |-> t]]
           /\ property' = [property EXCEPT ![p].status = "OCCUPIED"]
           /\ listed' = [listed EXCEPT ![p] = 0]
BY Recalled DEF InviteWrite

\* The lease a termination ends is a row, of a property that exists, and
\* keeps its property and its tenant.
LEMMA Terminated ==
  ASSUME RowsOK, NEW r \in Requests, TerminateWrite(r)
  PROVE  \E l \in Leases :
           LET p == lease[l].property IN
           /\ lease[l] # NoLease
           /\ p \in Properties /\ Exists(p)
           /\ property' = [property EXCEPT ![p].status = "VACANT"]
           /\ listed' = [listed EXCEPT ![p] = @ + 1]
           /\ lease' = [lease EXCEPT ![l] = [status |-> "TERMINATED",
                                            property |-> p,
                                            tenant |-> lease[l].tenant]]
<1>1. PICK l \in Leases : l = request[r].lease /\ lease[l] # NoLease
  BY Recalled DEF TerminateWrite, RowsOK, RefsExist
<1>2. lease[l].property \in Properties /\ Exists(lease[l].property)
  BY <1>1, LeaseShape DEF RowsOK, RefsExist
<1>3. lease[l] \in [status : {"ACTIVE", "TERMINATED"},
                   property : Properties, tenant : Tenants]
  BY <1>1 DEF RowsOK, TypeOK, Lease
<1>4. [lease[l] EXCEPT !.status = "TERMINATED"] =
        [status |-> "TERMINATED", property |-> lease[l].property,
         tenant |-> lease[l].tenant]
  BY <1>3
<1>5. lease' = [lease EXCEPT ![l] = [lease[l] EXCEPT !.status = "TERMINATED"]]
  BY <1>1 DEF TerminateWrite, RowsOK, TypeOK
<1>6. QED
  BY <1>1, <1>2, <1>4, <1>5 DEF TerminateWrite

LEMMA RowsStep == RowsOK /\ [Next]_vars => RowsOK'
<1> SUFFICES ASSUME RowsOK, [Next]_vars PROVE RowsOK'
  OBVIOUS
<1> USE DEF RowsOK
<1>1. ASSUME NEW r \in Requests, NEW p \in Properties, NEW n \in PropertyStatuses, UpdateRead(r, p, n)
      PROVE  RowsOK'
  <2> DEFINE m == [op |-> "patch", property |-> p, status |-> n]
  <2>1. m \in Memory /\ Remember(r, m) /\ UNCHANGED <<property, lease>>
    BY <1>1 DEF UpdateRead, Start, Memory, TypeOK, rows
  <2>2. /\ m.op \in {"invite", "patch", "archive"} => Exists(m.property)
        /\ m.op = "terminate" => lease[m.lease] # NoLease
    BY <1>1, LeaseShape DEF UpdateRead
  <2>3. RefsExist' /\ request' \in [Requests -> Memory]
    <3> HIDE DEF m
    <3>1. QED
      BY <2>1, <2>2, ReadKeepsRows
  <2>4. QED
    BY <1>1, <2>3 DEF UpdateRead, TypeOK, rows, settings, subscription
<1>2. ASSUME NEW r \in Requests, NEW p \in Properties, RemoveRead(r, p)
      PROVE  RowsOK'
  <2> DEFINE m == [op |-> "archive", property |-> p]
  <2>1. m \in Memory /\ Remember(r, m) /\ UNCHANGED <<property, lease>>
    BY <1>2 DEF RemoveRead, Start, Memory, TypeOK, rows
  <2>2. /\ m.op \in {"invite", "patch", "archive"} => Exists(m.property)
        /\ m.op = "terminate" => lease[m.lease] # NoLease
    BY <1>2, LeaseShape DEF RemoveRead
  <2>3. RefsExist' /\ request' \in [Requests -> Memory]
    <3> HIDE DEF m
    <3>1. QED
      BY <2>1, <2>2, ReadKeepsRows
  <2>4. QED
    BY <1>2, <2>3 DEF RemoveRead, TypeOK, rows, settings, subscription
<1>3. ASSUME NEW r \in Requests, NEW p \in Properties, NEW t \in Tenants, InviteRead(r, p, t)
      PROVE  RowsOK'
  <2> DEFINE m == [op |-> "invite", property |-> p, tenant |-> t]
  <2>1. m \in Memory /\ Remember(r, m) /\ UNCHANGED <<property, lease>>
    BY <1>3 DEF InviteRead, Start, Memory, TypeOK, rows
  <2>2. /\ m.op \in {"invite", "patch", "archive"} => Exists(m.property)
        /\ m.op = "terminate" => lease[m.lease] # NoLease
    BY <1>3, LeaseShape DEF InviteRead
  <2>3. RefsExist' /\ request' \in [Requests -> Memory]
    <3> HIDE DEF m
    <3>1. QED
      BY <2>1, <2>2, ReadKeepsRows
  <2>4. QED
    BY <1>3, <2>3 DEF InviteRead, TypeOK, rows, settings, subscription
<1>4. ASSUME NEW r \in Requests, NEW p \in Properties, NEW t \in Tenants, BlockRead(r, p, t)
      PROVE  RowsOK'
  <2> DEFINE m == [op |-> "block", property |-> p, tenant |-> t]
  <2>1. m \in Memory /\ Remember(r, m) /\ UNCHANGED <<property, lease>>
    BY <1>4 DEF BlockRead, Start, Memory, TypeOK, rows
  <2>2. /\ m.op \in {"invite", "patch", "archive"} => Exists(m.property)
        /\ m.op = "terminate" => lease[m.lease] # NoLease
    BY <1>4, LeaseShape DEF BlockRead
  <2>3. RefsExist' /\ request' \in [Requests -> Memory]
    <3> HIDE DEF m
    <3>1. QED
      BY <2>1, <2>2, ReadKeepsRows
  <2>4. QED
    BY <1>4, <2>3 DEF BlockRead, TypeOK, rows, settings, subscription
<1>5. ASSUME NEW r \in Requests, NEW l \in Leases, TerminateRead(r, l)
      PROVE  RowsOK'
  <2> DEFINE m == [op |-> "terminate", lease |-> l]
  <2>1. m \in Memory /\ Remember(r, m) /\ UNCHANGED <<property, lease>>
    BY <1>5 DEF TerminateRead, Start, Memory, TypeOK, rows
  <2>2. /\ m.op \in {"invite", "patch", "archive"} => Exists(m.property)
        /\ m.op = "terminate" => lease[m.lease] # NoLease
    BY <1>5, LeaseShape DEF TerminateRead
  <2>3. RefsExist' /\ request' \in [Requests -> Memory]
    <3> HIDE DEF m
    <3>1. QED
      BY <2>1, <2>2, ReadKeepsRows
  <2>4. QED
    BY <1>5, <2>3 DEF TerminateRead, TypeOK, rows, settings, subscription
<1>6. ASSUME NEW r \in Requests, NEW t \in Tiers, UpgradeRead(r, t)
      PROVE  RowsOK'
  <2> DEFINE m == [op |-> "upgrade", tier |-> t]
  <2>1. m \in Memory /\ Remember(r, m) /\ UNCHANGED <<property, lease>>
    BY <1>6 DEF UpgradeRead, Start, Memory, TypeOK, rows
  <2>2. /\ m.op \in {"invite", "patch", "archive"} => Exists(m.property)
        /\ m.op = "terminate" => lease[m.lease] # NoLease
    BY <1>6, LeaseShape DEF UpgradeRead
  <2>3. RefsExist' /\ request' \in [Requests -> Memory]
    <3> HIDE DEF m
    <3>1. QED
      BY <2>1, <2>2, ReadKeepsRows
  <2>4. QED
    BY <1>6, <2>3 DEF UpgradeRead, TypeOK, rows, settings, subscription
<1>7. ASSUME NEW r \in Requests, CreateStart(r)
      PROVE  RowsOK'
  <2> DEFINE m == [op |-> IF quotasSuspended THEN "insert" ELSE "lock"]
  <2>1. m \in Memory /\ Remember(r, m) /\ UNCHANGED <<property, lease>>
    BY <1>7 DEF CreateStart, Start, Memory, TypeOK, rows
  <2>2. /\ m.op \in {"invite", "patch", "archive"} => Exists(m.property)
        /\ m.op = "terminate" => lease[m.lease] # NoLease
    BY <1>7, LeaseShape DEF CreateStart
  <2>3. RefsExist' /\ request' \in [Requests -> Memory]
    <3> HIDE DEF m
    <3>1. QED
      BY <2>1, <2>2, ReadKeepsRows
  <2>4. QED
    BY <1>7, <2>3 DEF CreateStart, TypeOK, rows, settings, subscription
<1>8. ASSUME NEW r \in Requests, CreateLock(r)
      PROVE  RowsOK'
  <2> DEFINE m == [op |-> "tier"]
  <2>1. m \in Memory /\ Remember(r, m) /\ UNCHANGED <<property, lease>>
    BY <1>8 DEF CreateLock, Start, Memory, TypeOK, rows
  <2>2. /\ m.op \in {"invite", "patch", "archive"} => Exists(m.property)
        /\ m.op = "terminate" => lease[m.lease] # NoLease
    BY <1>8, LeaseShape DEF CreateLock
  <2>3. RefsExist' /\ request' \in [Requests -> Memory]
    <3> HIDE DEF m
    <3>1. QED
      BY <2>1, <2>2, ReadKeepsRows
  <2>4. QED
    BY <1>8, <2>3 DEF CreateLock, TypeOK, rows, settings, subscription
<1>9. ASSUME NEW r \in Requests, CreateReadTier(r)
      PROVE  RowsOK'
  <2> DEFINE m == [op |-> "count", tier |-> tier]
  <2>1. m \in Memory /\ Remember(r, m) /\ UNCHANGED <<property, lease>>
    BY <1>9 DEF CreateReadTier, Start, Memory, TypeOK, rows
  <2>2. /\ m.op \in {"invite", "patch", "archive"} => Exists(m.property)
        /\ m.op = "terminate" => lease[m.lease] # NoLease
    BY <1>9, LeaseShape DEF CreateReadTier
  <2>3. RefsExist' /\ request' \in [Requests -> Memory]
    <3> HIDE DEF m
    <3>1. QED
      BY <2>1, <2>2, ReadKeepsRows
  <2>4. QED
    BY <1>9, <2>3 DEF CreateReadTier, TypeOK, rows, settings, subscription
<1>10. ASSUME NEW r \in Requests, CreateAdmitted(r)
      PROVE  RowsOK'
  <2> DEFINE m == [op |-> "insert"]
  <2>1. m \in Memory /\ Remember(r, m) /\ UNCHANGED <<property, lease>>
    BY <1>10 DEF CreateAdmitted, Start, Memory, TypeOK, rows
  <2>2. /\ m.op \in {"invite", "patch", "archive"} => Exists(m.property)
        /\ m.op = "terminate" => lease[m.lease] # NoLease
    BY <1>10, LeaseShape DEF CreateAdmitted
  <2>3. RefsExist' /\ request' \in [Requests -> Memory]
    <3> HIDE DEF m
    <3>1. QED
      BY <2>1, <2>2, ReadKeepsRows
  <2>4. QED
    BY <1>10, <2>3 DEF CreateAdmitted, TypeOK, rows, settings, subscription
<1>11. ASSUME NEW r \in Requests, CreateRefused(r)
      PROVE  RowsOK'
  <2>1. /\ \A q \in Properties : Exists(q) => property'[q].status # "NONE"
        /\ \A k \in Leases :
             /\ lease[k] # NoLease => lease'[k] # NoLease
             /\ lease'[k] # NoLease => lease'[k].property \in Properties
                                         /\ property'[lease'[k].property].status # "NONE"
    BY <1>11, Recalled, LeaseShape
    DEF CreateRefused, RefsExist, Exists, TypeOK, rows
  <2>2. RefsExist' /\ request' \in [Requests -> Memory]
    BY <1>11, <2>1, IdleKeepsRefs DEF CreateRefused
  <2>3. QED
    BY <1>11, <2>2, Recalled
    DEF CreateRefused, TypeOK, Property, rows, settings, subscription, Release
<1>12. ASSUME NEW r \in Requests, NEW p \in Properties, CreateInsert(r, p)
      PROVE  RowsOK'
  <2>1. /\ \A q \in Properties : Exists(q) => property'[q].status # "NONE"
        /\ \A k \in Leases :
             /\ lease[k] # NoLease => lease'[k] # NoLease
             /\ lease'[k] # NoLease => lease'[k].property \in Properties
                                         /\ property'[lease'[k].property].status # "NONE"
    BY <1>12, Recalled, LeaseShape
    DEF CreateInsert, RefsExist, Exists, TypeOK, rows
  <2>2. RefsExist' /\ request' \in [Requests -> Memory]
    BY <1>12, <2>1, IdleKeepsRefs DEF CreateInsert
  <2>3. QED
    <3>1. [status |-> "VACANT", archived |-> FALSE] \in Property
      BY DEF Property, PropertyStatuses
    <3>2. property' \in [Properties -> Property] /\ listed' \in [Properties -> Nat]
      BY <1>12, <3>1 DEF CreateInsert, TypeOK
    <3>3. QED
      BY <1>12, <2>2, <3>2
      DEF CreateInsert, TypeOK, settings, subscription, Release
<1>13. ASSUME NEW r \in Requests, UpdateWrite(r)
      PROVE  RowsOK'
  <2>1. /\ \A q \in Properties : Exists(q) => property'[q].status # "NONE"
        /\ \A k \in Leases :
             /\ lease[k] # NoLease => lease'[k] # NoLease
             /\ lease'[k] # NoLease => lease'[k].property \in Properties
                                         /\ property'[lease'[k].property].status # "NONE"
    <3>1. /\ request[r].property \in Properties
          /\ request[r].status \in PropertyStatuses
      BY <1>13, Recalled DEF UpdateWrite
    <3>2. \A q \in Properties : Exists(q) => property'[q].status # "NONE"
      BY <1>13, <3>1 DEF UpdateWrite, Exists, TypeOK, Property, PropertyStatuses
    <3>3. lease' = lease
      BY <1>13 DEF UpdateWrite
    <3>4. QED
      BY <3>2, <3>3, LeaseShape DEF RefsExist
  <2>2. RefsExist' /\ request' \in [Requests -> Memory]
    BY <1>13, <2>1, IdleKeepsRefs DEF UpdateWrite
  <2>3. QED
    BY <1>13, <2>2, Recalled
    DEF UpdateWrite, TypeOK, Property, rows, settings, subscription, Release
<1>14. ASSUME NEW r \in Requests, RemoveWrite(r)
      PROVE  RowsOK'
  <2>1. /\ \A q \in Properties : Exists(q) => property'[q].status # "NONE"
        /\ \A k \in Leases :
             /\ lease[k] # NoLease => lease'[k] # NoLease
             /\ lease'[k] # NoLease => lease'[k].property \in Properties
                                         /\ property'[lease'[k].property].status # "NONE"
    BY <1>14, Recalled, LeaseShape
    DEF RemoveWrite, RefsExist, Exists, TypeOK, rows
  <2>2. RefsExist' /\ request' \in [Requests -> Memory]
    BY <1>14, <2>1, IdleKeepsRefs DEF RemoveWrite
  <2>3. QED
    <3>1. [status |-> "ARCHIVED", archived |-> TRUE] \in Property
      BY DEF Property, PropertyStatuses
    <3>2. property' \in [Properties -> Property]
      BY <1>14, <3>1, Recalled DEF RemoveWrite, TypeOK
    <3>3. QED
      BY <1>14, <2>2, <3>2 DEF RemoveWrite, TypeOK, settings, subscription
<1>15. ASSUME NEW r \in Requests, NEW l \in Leases, InviteWrite(r, l)
      PROVE  RowsOK'
  <2>1. /\ \A q \in Properties : Exists(q) => property'[q].status # "NONE"
        /\ \A k \in Leases :
             /\ lease[k] # NoLease => lease'[k] # NoLease
             /\ lease'[k] # NoLease => lease'[k].property \in Properties
                                         /\ property'[lease'[k].property].status # "NONE"
    BY <1>15, Recalled, LeaseShape
    DEF InviteWrite, RefsExist, Exists, TypeOK, rows
  <2>2. RefsExist' /\ request' \in [Requests -> Memory]
    BY <1>15, <2>1, IdleKeepsRefs DEF InviteWrite
  <2>3. QED
    <3>1. request[r].property \in Properties /\ request[r].tenant \in Tenants
      BY <1>15, Recalled DEF InviteWrite
    <3>2. property' \in [Properties -> Property]
      BY <1>15, <3>1 DEF InviteWrite, TypeOK, Property, PropertyStatuses
    <3>3. listed' \in [Properties -> Nat] /\ lease' \in [Leases -> Lease]
      BY <1>15, <3>1 DEF InviteWrite, TypeOK, Lease
    <3>4. QED
      BY <1>15, <2>2, <3>2, <3>3 DEF InviteWrite, TypeOK, settings, subscription
<1>16. ASSUME NEW r \in Requests, TerminateWrite(r)
      PROVE  RowsOK'
  <2>1. PICK l \in Leases :
          LET p == lease[l].property IN
          /\ lease[l] # NoLease
          /\ p \in Properties /\ Exists(p)
          /\ property' = [property EXCEPT ![p].status = "VACANT"]
          /\ listed' = [listed EXCEPT ![p] = @ + 1]
          /\ lease' = [lease EXCEPT ![l] = [status |-> "TERMINATED",
                                           property |-> p,
                                           tenant |-> lease[l].tenant]]
    BY <1>16, Terminated
  <2>2. \A q \in Properties : Exists(q) => property'[q].status # "NONE"
    BY <2>1 DEF Exists, TypeOK, Property
  <2>3. \A k \in Leases : lease'[k] # NoLease =>
          lease[k] # NoLease /\ lease'[k].property = lease[k].property
    BY <2>1 DEF TypeOK
  <2>4. \A k \in Leases : lease[k] # NoLease => lease'[k] # NoLease
    BY <2>1 DEF TypeOK, NoLease
  <2>5. \A k \in Leases : lease'[k] # NoLease =>
          /\ lease'[k].property \in Properties
          /\ property'[lease'[k].property].status # "NONE"
    BY <2>2, <2>3, LeaseShape DEF RefsExist
  <2>6. RefsExist' /\ request' \in [Requests -> Memory]
    BY <1>16, <2>2, <2>4, <2>5, IdleKeepsRefs DEF TerminateWrite
  <2>7. property' \in [Properties -> Property] /\ listed' \in [Properties -> Nat]
    BY <2>1 DEF TypeOK, Property, PropertyStatuses
  <2>8. lease' \in [Leases -> Lease]
    <3>1. lease[l].tenant \in Tenants
      BY <2>1, LeaseShape
    <3>2. QED
      BY <2>1, <3>1 DEF TypeOK, Lease
  <2>9. QED
    BY <1>16, <2>6, <2>7, <2>8
    DEF TerminateWrite, TypeOK, settings, subscription
<1>17. ASSUME NEW r \in Requests, BlockWrite(r)
      PROVE  RowsOK'
  <2>1. /\ \A q \in Properties : Exists(q) => property'[q].status # "NONE"
        /\ \A k \in Leases :
             /\ lease[k] # NoLease => lease'[k] # NoLease
             /\ lease'[k] # NoLease => lease'[k].property \in Properties
                                         /\ property'[lease'[k].property].status # "NONE"
    BY <1>17, Recalled, LeaseShape
    DEF BlockWrite, RefsExist, Exists, TypeOK, rows
  <2>2. RefsExist' /\ request' \in [Requests -> Memory]
    BY <1>17, <2>1, IdleKeepsRefs DEF BlockWrite
  <2>3. QED
    BY <1>17, <2>2, Recalled
    DEF BlockWrite, TypeOK, Property, rows, settings, subscription, Release
<1>18. ASSUME NEW r \in Requests, UpgradeWrite(r)
      PROVE  RowsOK'
  <2>1. /\ \A q \in Properties : Exists(q) => property'[q].status # "NONE"
        /\ \A k \in Leases :
             /\ lease[k] # NoLease => lease'[k] # NoLease
             /\ lease'[k] # NoLease => lease'[k].property \in Properties
                                         /\ property'[lease'[k].property].status # "NONE"
    BY <1>18, Recalled, LeaseShape
    DEF UpgradeWrite, RefsExist, Exists, TypeOK, rows
  <2>2. RefsExist' /\ request' \in [Requests -> Memory]
    BY <1>18, <2>1, IdleKeepsRefs DEF UpgradeWrite
  <2>3. QED
    BY <1>18, <2>2, Recalled
    DEF UpgradeWrite, Higher, TypeOK, Property, rows, settings, subscription,
        Release
<1>19. ASSUME NEW r \in Requests, RequestFails(r)
      PROVE  RowsOK'
  <2>1. /\ \A q \in Properties : Exists(q) => property'[q].status # "NONE"
        /\ \A k \in Leases :
             /\ lease[k] # NoLease => lease'[k] # NoLease
             /\ lease'[k] # NoLease => lease'[k].property \in Properties
                                         /\ property'[lease'[k].property].status # "NONE"
    BY <1>19, Recalled, LeaseShape
    DEF RequestFails, RefsExist, Exists, TypeOK, rows
  <2>2. RefsExist' /\ request' \in [Requests -> Memory]
    BY <1>19, <2>1, IdleKeepsRefs DEF RequestFails
  <2>3. QED
    BY <1>19, <2>2, Recalled
    DEF RequestFails, TypeOK, Property, rows, settings, subscription, Release
<1>20. CASE SuspendQuotas
  BY <1>20
  DEF SuspendQuotas, vars, TypeOK, RefsExist, Exists, rows, settings,
      subscription
<1>21. CASE RestoreQuotas
  BY <1>21
  DEF RestoreQuotas, vars, TypeOK, RefsExist, Exists, rows, settings,
      subscription
<1>22. CASE UNCHANGED vars
  BY <1>22
  DEF vars, vars, TypeOK, RefsExist, Exists, rows, settings, subscription
<1>23. QED
  BY <1>1, <1>2, <1>3, <1>4, <1>5, <1>6, <1>7, <1>8, <1>9, <1>10, <1>11, <1>12, <1>13, <1>14, <1>15, <1>16, <1>17, <1>18, <1>19, <1>20, <1>21, <1>22
  DEF Next, Creating, Keeping, Renting, Subscribing

-----------------------------------------------------------------------------
(* Listings, leases and what the quota counts.                             *)

\* The rows of properties, listings and leases change in five ways.
LEMMA RowChanges ==
  ASSUME [Next]_vars
  PROVE  \/ UNCHANGED <<property, listed, lease>>
         \/ \E r \in Requests :
              \/ \E p \in Properties : CreateInsert(r, p)
              \/ UpdateWrite(r) \/ RemoveWrite(r)
              \/ \E l \in Leases : InviteWrite(r, l)
              \/ TerminateWrite(r)
BY DEF Next, vars, Creating, Keeping, Renting, Subscribing, CreateStart,
       CreateLock, CreateReadTier, CreateAdmitted, CreateRefused, UpdateRead,
       RemoveRead, InviteRead, TerminateRead, BlockRead, BlockWrite,
       UpgradeRead, UpgradeWrite, RequestFails, SuspendQuotas, RestoreQuotas,
       rows

\* What an edit or an archiving leaves of a property.
LEMMA Edited ==
  ASSUME RowsOK, NEW r \in Requests, UpdateWrite(r) \/ RemoveWrite(r)
  PROVE  /\ UNCHANGED <<listed, lease>>
         /\ \A q \in Properties :
              /\ property'[q].status # "NONE" <=> Exists(q)
              /\ property[q].archived => property'[q].archived
<1>1. CASE UpdateWrite(r)
  <2>1. /\ request[r].property \in Properties /\ Exists(request[r].property)
        /\ request[r].status \in PropertyStatuses
    BY <1>1, Recalled DEF UpdateWrite, RowsOK, RefsExist
  <2>2. QED
    BY <1>1, <2>1
    DEF UpdateWrite, RowsOK, TypeOK, Property, PropertyStatuses, Exists
<1>2. CASE RemoveWrite(r)
  <2>1. request[r].property \in Properties /\ Exists(request[r].property)
    BY <1>2, Recalled DEF RemoveWrite, RowsOK, RefsExist
  <2>2. QED
    BY <1>2, <2>1 DEF RemoveWrite, RowsOK, TypeOK, Property, Exists
<1>3. QED
  BY <1>1, <1>2

LEMMA ListedStep ==
  RowsOK /\ UnrentedIsListed /\ [Next]_vars => UnrentedIsListed'
<1> SUFFICES ASSUME RowsOK, UnrentedIsListed, [Next]_vars, NEW q \in Properties,
                    property'[q].status # "NONE"
             PROVE  \/ \E k \in Leases : /\ lease'[k].status = "ACTIVE"
                                        /\ lease'[k].property = q
                    \/ listed'[q] > 0
  BY DEF UnrentedIsListed, Exists, Rented, LeaseOf, Active
<1>1. Exists(q) => \/ \E k \in Leases : /\ lease[k].status = "ACTIVE"
                                      /\ lease[k].property = q
                   \/ listed[q] > 0
  BY DEF UnrentedIsListed, Rented, LeaseOf, Active
<1>2. CASE UNCHANGED <<property, listed, lease>>
  BY <1>1, <1>2 DEF Exists
<1>3. ASSUME NEW r \in Requests, NEW p \in Properties, CreateInsert(r, p)
      PROVE  listed'[q] > 0 \/ (Exists(q) /\ UNCHANGED <<lease, listed[q]>>)
  BY <1>3 DEF CreateInsert, RowsOK, TypeOK, Exists
<1>4. ASSUME NEW r \in Requests, UpdateWrite(r) \/ RemoveWrite(r)
      PROVE  Exists(q) /\ UNCHANGED <<lease, listed[q]>>
  BY <1>4, Edited
<1>5. ASSUME NEW r \in Requests, NEW l \in Leases, InviteWrite(r, l)
      PROVE  \/ \E k \in Leases : /\ lease'[k].status = "ACTIVE"
                                 /\ lease'[k].property = q
             \/ listed'[q] > 0
  <2>1. PICK p \in Properties, t \in Tenants :
          /\ lease[l] = NoLease
          /\ lease' = [lease EXCEPT ![l] = [status |-> "ACTIVE",
                                           property |-> p, tenant |-> t]]
          /\ property' = [property EXCEPT ![p].status = "OCCUPIED"]
          /\ listed' = [listed EXCEPT ![p] = 0]
    BY <1>5, Invited DEF RowsOK
  <2>2. CASE q = p
    BY <2>1, <2>2 DEF RowsOK, TypeOK
  <2>3. CASE q # p
    BY <1>1, <2>1, <2>3 DEF RowsOK, TypeOK, Exists, NoLease
  <2>4. QED
    BY <2>2, <2>3
<1>6. ASSUME NEW r \in Requests, TerminateWrite(r)
      PROVE  \/ \E k \in Leases : /\ lease'[k].status = "ACTIVE"
                                 /\ lease'[k].property = q
             \/ listed'[q] > 0
  <2>1. PICK l \in Leases :
          LET p == lease[l].property IN
          /\ p \in Properties
          /\ property' = [property EXCEPT ![p].status = "VACANT"]
          /\ listed' = [listed EXCEPT ![p] = @ + 1]
          /\ lease' = [lease EXCEPT ![l] = [status |-> "TERMINATED",
                                           property |-> p,
                                           tenant |-> lease[l].tenant]]
    BY <1>6, Terminated
  <2>2. CASE q = lease[l].property
    BY <2>1, <2>2 DEF RowsOK, TypeOK
  <2>3. CASE q # lease[l].property
    BY <1>1, <2>1, <2>3 DEF RowsOK, TypeOK, Exists
  <2>4. QED
    BY <2>2, <2>3
<1>7. QED
  BY <1>1, <1>2, <1>3, <1>4, <1>5, <1>6, RowChanges

\* The index refuses a second active lease; nothing revives a lease.
LEMMA HousedStep ==
  RowsOK /\ TenantHousedOnce /\ [Next]_vars => TenantHousedOnce'
<1> SUFFICES ASSUME RowsOK, TenantHousedOnce, [Next]_vars
             PROVE  TenantHousedOnce'
  OBVIOUS
<1>1. CASE lease' = lease
  BY <1>1 DEF TenantHousedOnce, Active
<1>2. ASSUME NEW r \in Requests, NEW l \in Leases, InviteWrite(r, l)
      PROVE  TenantHousedOnce'
  <2>1. PICK p \in Properties, t \in Tenants :
          /\ IndexAdmits(t)
          /\ lease' = [lease EXCEPT ![l] = [status |-> "ACTIVE",
                                           property |-> p, tenant |-> t]]
    BY <1>2, Invited DEF RowsOK
  <2>2. QED
    BY <2>1 DEF TenantHousedOnce, Active, IndexAdmits, RowsOK, TypeOK
<1>3. ASSUME NEW r \in Requests, TerminateWrite(r)
      PROVE  TenantHousedOnce'
  <2>1. PICK l \in Leases :
          lease' = [lease EXCEPT ![l] = [status |-> "TERMINATED",
                                         property |-> lease[l].property,
                                         tenant |-> lease[l].tenant]]
    BY <1>3, Terminated
  <2>2. QED
    BY <2>1 DEF TenantHousedOnce, Active, RowsOK, TypeOK
<1>4. QED
  BY <1>1, <1>2, <1>3, RowChanges DEF CreateInsert, UpdateWrite, RemoveWrite

\* Only a creation brings a property into being, and archiving is for good.
LEMMA ExistingStays ==
  ASSUME RowsOK, [Next]_vars, NEW q \in Properties
  PROVE  /\ Exists(q) /\ property[q].archived => property'[q].archived
         /\ property'[q].status # "NONE" =>
              Exists(q) \/ \E r \in Requests : CreateInsert(r, q)
<1>1. CASE UNCHANGED <<property, listed, lease>>
  BY <1>1 DEF Exists
<1>2. ASSUME NEW r \in Requests, NEW p \in Properties, CreateInsert(r, p)
      PROVE  /\ Exists(q) => property'[q] = property[q]
             /\ q # p => property'[q] = property[q]
  BY <1>2 DEF CreateInsert, RowsOK, TypeOK, Exists
<1>3. ASSUME NEW r \in Requests, UpdateWrite(r) \/ RemoveWrite(r)
      PROVE  /\ property[q].archived => property'[q].archived
             /\ property'[q].status # "NONE" => Exists(q)
  BY <1>3, Edited
<1>4. ASSUME NEW r \in Requests, NEW l \in Leases, InviteWrite(r, l)
      PROVE  /\ property'[q].archived = property[q].archived
             /\ property'[q].status # "NONE" => Exists(q)
  <2>1. /\ request[r].property \in Properties
        /\ Exists(request[r].property)
    BY <1>4, Recalled DEF InviteWrite, RowsOK, RefsExist
  <2>2. QED
    BY <1>4, <2>1 DEF InviteWrite, RowsOK, TypeOK, Property, Exists
<1>5. ASSUME NEW r \in Requests, TerminateWrite(r)
      PROVE  /\ property'[q].archived = property[q].archived
             /\ property'[q].status # "NONE" => Exists(q)
  <2>1. PICK l \in Leases :
          LET p == lease[l].property IN
          /\ p \in Properties /\ Exists(p)
          /\ property' = [property EXCEPT ![p].status = "VACANT"]
    BY <1>5, Terminated
  <2>2. QED
    BY <2>1 DEF RowsOK, TypeOK, Property, Exists
<1>6. QED
  BY <1>1, <1>2, <1>3, <1>4, <1>5, RowChanges DEF Exists

LEMMA BillableStep ==
  ASSUME RowsOK, UnrentedIsListed, [Next]_vars, NEW q \in Billable'
  PROVE  q \in Billable \/ (~Exists(q) /\ \E r \in Requests : CreateInsert(r, q))
<1>1. /\ q \in Properties /\ property'[q].status # "NONE"
      /\ ~property'[q].archived
  BY DEF Billable, Exists
<1>2. CASE Exists(q)
  BY <1>1, <1>2, ExistingStays DEF Billable, UnrentedIsListed
<1>3. CASE ~Exists(q)
  BY <1>1, <1>3, ExistingStays
<1>4. QED
  BY <1>2, <1>3

-----------------------------------------------------------------------------
(* The quota.                                                              *)

\* What request r may rely on while the quotas are enforced.
Entitled(r) ==
  /\ request[r].op \in {"tier", "count", "insert"} => quotaLock = r
  /\ request[r].op = "insert" => HasRoom(peak, Cardinality(Billable))
  /\ request[r].op = "count" => request[r].tier <= peak

QuotaKept ==
  promotions = 0 =>
    /\ ~quotasSuspended /\ tier <= peak
    /\ \A r \in Requests : Entitled(r)

LEMMA BillableCounted ==
  /\ IsFiniteSet(Billable) /\ Cardinality(Billable) \in Nat
  /\ IsFiniteSet(Billable') /\ Cardinality(Billable') \in Nat
<1>1. Billable \in SUBSET Properties /\ Billable' \in SUBSET Properties
  BY DEF Billable
<1>2. QED
  BY <1>1, FiniteAssumption, FS_Subset, FS_CardinalityType

\* Room under a tier is room under a higher one, for fewer properties.
LEMMA RoomGrows ==
  ASSUME NEW t \in Tiers, NEW u \in Tiers, t <= u,
         NEW n \in Nat, NEW m \in Nat, m <= n
  PROVE  /\ HasRoom(t, n) => HasRoom(u, m)
         /\ t \in Unlimited \/ n <= Quota[t] => u \in Unlimited \/ m <= Quota[u]
<1>1. /\ Quota[t] \in Nat /\ Quota[u] \in Nat /\ Quota[t] <= Quota[u]
      /\ t \in Unlimited => u \in Unlimited
  BY TierAssumption
<1>2. QED
  BY <1>1 DEF HasRoom

LEMMA QuotaStep ==
  ASSUME RowsOK, UnrentedIsListed, RowsOK',
         QuotaKept, BillableWithinQuota, [Next]_vars
  PROVE  QuotaKept' /\ BillableWithinQuota'
<1> SUFFICES ASSUME promotions' = 0
             PROVE  /\ ~quotasSuspended' /\ tier' <= peak'
                    /\ \A s \in Requests : Entitled(s)'
                    /\ peak' \in Unlimited \/ Cardinality(Billable') <= Quota[peak']
  BY DEF QuotaKept, BillableWithinQuota
<1> DEFINE n == Cardinality(Billable)
           m == Cardinality(Billable')
<1>1. /\ promotions = 0 /\ ~quotasSuspended /\ ~quotasSuspended'
      /\ tier <= peak
      /\ \A s \in Requests : Entitled(s)
      /\ peak \in Unlimited \/ n <= Quota[peak]
  <2>1. UNCHANGED settings \/ SuspendQuotas \/ RestoreQuotas
    BY DEF Next, vars, Creating, Keeping, Renting, Subscribing, CreateStart,
           CreateLock, CreateReadTier, CreateAdmitted, CreateRefused,
           CreateInsert, UpdateRead, UpdateWrite, RemoveRead, RemoveWrite,
           InviteRead, InviteWrite, TerminateRead, TerminateWrite, BlockRead,
           BlockWrite, UpgradeRead, UpgradeWrite, RequestFails
  <2>2. promotions = 0
    BY <2>1 DEF settings, SuspendQuotas, RestoreQuotas, RowsOK, TypeOK
  <2>3. QED
    BY <2>1, <2>2 DEF settings, SuspendQuotas, RestoreQuotas, QuotaKept,
                      BillableWithinQuota, RowsOK, TypeOK
<1>2. n \in Nat /\ m \in Nat /\ peak \in Tiers /\ peak' \in Tiers /\ tier \in Tiers /\ tier' \in Tiers
  BY BillableCounted DEF RowsOK, TypeOK
<1>3. \/ tier' = tier /\ peak' = peak
      \/ \E r \in Requests : UpgradeWrite(r)
  BY DEF Next, vars, Creating, Keeping, Renting, Subscribing, CreateStart,
         CreateLock, CreateReadTier, CreateAdmitted, CreateRefused,
         CreateInsert, UpdateRead, UpdateWrite, RemoveRead, RemoveWrite,
         InviteRead, InviteWrite, TerminateRead, TerminateWrite, BlockRead,
         BlockWrite, UpgradeRead, RequestFails, SuspendQuotas, RestoreQuotas,
         subscription
<1>4. peak <= peak' /\ tier' <= peak'
  BY <1>1, <1>2, <1>3 DEF UpgradeWrite, Higher, Tiers
<1>5. CASE \E r \in Requests, p \in Properties : CreateInsert(r, p)
  <2>1. PICK r \in Requests, p \in Properties : CreateInsert(r, p)
    BY <1>5
  <2>2. peak' = peak /\ HasRoom(peak, n) /\ quotaLock = r
    BY <1>1, <2>1 DEF CreateInsert, Entitled, subscription
  <2>3. Billable' \in SUBSET (Billable \cup {p})
    BY <2>1, BillableStep DEF CreateInsert, RowsOK, TypeOK, Billable, Exists
  <2>4. m <= n + 1
    <3>1. /\ IsFiniteSet(Billable \cup {p})
          /\ Cardinality(Billable \cup {p}) \in {n, n + 1}
      BY <1>2, BillableCounted, FS_AddElement
    <3>2. m <= Cardinality(Billable \cup {p})
      BY <2>3, <3>1, FS_Subset
    <3>3. QED
      BY <1>2, <3>1, <3>2
  <2>5. peak' \in Unlimited \/ m <= Quota[peak']
    BY <1>2, <2>2, <2>4, TierAssumption DEF HasRoom
  <2>6. ASSUME NEW s \in Requests PROVE Entitled(s)'
    <3>1. CASE s = r
      BY <2>1, <3>1
      DEF CreateInsert, Entitled, Done, Remember, Idle, RowsOK, TypeOK
    <3>2. CASE s # r
      BY <1>1, <2>1, <2>2, <3>2
         DEF CreateInsert, Entitled, Done, Remember, RowsOK, TypeOK
    <3>3. QED
      BY <3>1, <3>2
  <2>7. QED
    BY <1>1, <1>4, <2>5, <2>6
<1>6. CASE ~\E r \in Requests, p \in Properties : CreateInsert(r, p)
  <2>1. Billable' \in SUBSET Billable
    BY <1>6, BillableStep DEF Billable
  <2>2. m <= n
    BY <2>1, BillableCounted, FS_Subset
  <2>3. /\ HasRoom(peak, n) => HasRoom(peak', m)
        /\ peak' \in Unlimited \/ m <= Quota[peak']
    BY <1>1, <1>2, <1>4, <2>2, RoomGrows
  <2>4. ASSUME NEW s \in Requests, request'[s] = request[s]
        PROVE  Entitled(s)'
    <3>1. quotaLock = s /\ request[s].op # "idle" => quotaLock' = s
      <4>1. ASSUME NEW r \in Requests, Done(r), Release(r)
            PROVE  quotaLock = s /\ request[s].op # "idle" => quotaLock' = s
        BY <2>4, <4>1 DEF Done, Remember, Release, Idle, RowsOK, TypeOK
      <4>2. ASSUME NEW r \in Requests, CreateLock(r)
            PROVE  quotaLock # s
        BY <4>2, RequestAssumption DEF CreateLock
      <4>3. QED
        BY <1>6, <4>1, <4>2
           DEF Next, vars, Creating, Keeping, Renting, Subscribing, CreateStart,
               CreateReadTier, CreateAdmitted, CreateRefused,
               UpdateRead, UpdateWrite, RemoveRead, RemoveWrite,
               InviteRead, InviteWrite, TerminateRead, TerminateWrite, BlockRead,
               BlockWrite, UpgradeRead, UpgradeWrite, RequestFails,
               SuspendQuotas, RestoreQuotas
    <3>3. request[s].op = "count" => request[s].tier \in Tiers
      BY Recalled DEF RowsOK
    <3>4. QED
      BY <1>1, <1>2, <1>4, <2>3, <2>4, <3>1, <3>3 DEF Entitled, Tiers
  <2>5. ASSUME NEW s \in Requests, request'[s] # request[s]
        PROVE  Entitled(s)'
    <3>1. ASSUME NEW r \in Requests, NEW memory, Remember(r, memory)
          PROVE  s = r /\ request'[s] = memory
      BY <2>5, <3>1 DEF Remember, RowsOK, TypeOK
    <3>2. ASSUME NEW r \in Requests, CreateStart(r)
          PROVE  Entitled(s)'
      BY <1>1, <3>1, <3>2 DEF CreateStart, Start, Entitled
    <3>3. ASSUME NEW r \in Requests, CreateLock(r) \/ CreateReadTier(r)
          PROVE  Entitled(s)'
      BY <1>1, <1>2, <3>1, <3>3
         DEF CreateLock, CreateReadTier, Entitled, Tiers, subscription
    <3>4. ASSUME NEW r \in Requests, CreateAdmitted(r)
          PROVE  Entitled(s)'
      <4>1. /\ s = r /\ request'[s] = [op |-> "insert"] /\ quotaLock' = s
            /\ HasRoom(request[s].tier, n)
        BY <1>1, <3>1, <3>4 DEF CreateAdmitted, Entitled
      <4>2. request[s].tier \in Tiers /\ request[s].tier <= peak'
        BY <1>1, <1>2, <1>4, <3>4, <4>1, Recalled
           DEF CreateAdmitted, Entitled, Tiers, RowsOK
      <4>3. HasRoom(peak', m)
        BY <1>2, <2>2, <4>1, <4>2, RoomGrows
      <4>4. QED
        BY <4>1, <4>3 DEF Entitled
    <3>5. ASSUME NEW r \in Requests, Done(r)
          PROVE  Entitled(s)'
      BY <3>1, <3>5 DEF Done, Entitled, Idle
    <3>6. ASSUME NEW r \in Requests, NEW t \in Tiers, UpgradeRead(r, t)
          PROVE  Entitled(s)'
      BY <3>1, <3>6 DEF UpgradeRead, Start, Entitled
    <3>7. ASSUME NEW r \in Requests, NEW p \in Properties
          PROVE  /\ \A x \in PropertyStatuses : UpdateRead(r, p, x) => Entitled(s)'
                 /\ RemoveRead(r, p) => Entitled(s)'
                 /\ \A t \in Tenants :
                      InviteRead(r, p, t) \/ BlockRead(r, p, t) => Entitled(s)'
      <4>1. ASSUME NEW memory, Remember(r, memory),
                   memory.op \in {"patch", "archive", "invite", "block"}
            PROVE  Entitled(s)'
        BY <3>1, <4>1 DEF Entitled
      <4>2. QED
        BY <4>1 DEF UpdateRead, RemoveRead, InviteRead, BlockRead, Start
    <3>8. ASSUME NEW r \in Requests, NEW l \in Leases, TerminateRead(r, l)
          PROVE  Entitled(s)'
      BY <3>1, <3>8 DEF TerminateRead, Start, Entitled
    <3>9. QED
      BY <1>6, <2>5, <3>2, <3>3, <3>4, <3>5, <3>6, <3>7,
         <3>8
         DEF Next, vars, Creating, Keeping, Renting, Subscribing, CreateRefused,
             UpdateWrite, RemoveWrite, InviteWrite, TerminateWrite, BlockWrite,
             UpgradeWrite, RequestFails, SuspendQuotas, RestoreQuotas
  <2>6. QED
    BY <1>1, <1>4, <2>3, <2>4, <2>5
<1>7. QED
  BY <1>5, <1>6

-----------------------------------------------------------------------------
(* The theorems.                                                           *)

Inv == RowsOK /\ UnrentedIsListed /\ TenantHousedOnce

LEMMA InvInit == Init => Inv
<1> SUFFICES ASSUME Init PROVE Inv
  OBVIOUS
<1>1. RowsOK
  BY RowsInit
<1>2. UnrentedIsListed /\ TenantHousedOnce
  BY DEF Init, UnrentedIsListed, TenantHousedOnce, Exists, Active, NoLease
<1>3. QED
  BY <1>1, <1>2 DEF Inv

\* The inductive invariant: rows and memories of the right type, references
\* to rows that exist, and the two properties below.
THEOREM RowsInvariant == Spec => []Inv
<1>1. Inv /\ [Next]_vars => Inv'
  BY RowsStep, ListedStep, HousedStep DEF Inv
<1>2. QED
  BY <1>1, InvInit, PTL DEF Spec

\* Every variable keeps its type, for any number of requests.
THEOREM TypeCorrect == Spec => []TypeOK
<1>1. Inv => TypeOK
  BY DEF Inv, RowsOK
<1>2. QED
  BY <1>1, RowsInvariant, PTL

\* A property that exists and has no active lease is published.
THEOREM UnrentedPublished == Spec => []UnrentedIsListed
<1>1. Inv => UnrentedIsListed
  BY DEF Inv
<1>2. QED
  BY <1>1, RowsInvariant, PTL

\* A tenant never has two active leases.
THEOREM HousedOnce == Spec => []TenantHousedOnce
<1>1. Inv => TenantHousedOnce
  BY DEF Inv
<1>2. QED
  BY <1>1, RowsInvariant, PTL

\* Only the creation of a property adds to what the quota counts.
THEOREM CreationAlone == Spec => OnlyCreationAddsBillable
<1>1. Inv /\ [Next]_vars =>
        [Billable' \ Billable \subseteq {p \in Properties : ~Exists(p)}]_vars
  BY BillableStep DEF Inv, Billable
<1>2. QED
  BY <1>1, RowsInvariant, PTL DEF Spec, OnlyCreationAddsBillable

\* While the admin leaves the quotas in force, concurrent creations never
\* exceed the quota of the highest tier the owner has had, whatever upgrades
\* run at the same time.
THEOREM QuotaHolds == Spec => []BillableWithinQuota
<1> DEFINE QInv == QuotaKept /\ BillableWithinQuota
<1>1. Init => QInv
  <2> SUFFICES ASSUME Init PROVE QInv
    OBVIOUS
  <2>1. Billable = {}
    BY DEF Init, Billable, Exists
  <2>2. Cardinality(Billable) = 0
    BY <2>1, FS_EmptySet
  <2>3. BillableWithinQuota
    BY <2>2, TierAssumption DEF Init, BillableWithinQuota, Tiers
  <2>4. QuotaKept
    BY DEF Init, QuotaKept, Entitled, Idle
  <2>5. QED
    BY <2>3, <2>4
<1>2. Inv /\ QInv /\ [Next]_vars => QInv'
  BY QuotaStep, RowsStep DEF Inv
<1>3. QED
  <2> HIDE DEF QInv
  <2>1. Spec => []QInv
    BY <1>1, <1>2, RowsInvariant, PTL DEF Spec
  <2>2. QInv => BillableWithinQuota
    BY DEF QInv
  <2>3. QED
    BY <2>1, <2>2, PTL

=============================================================================
