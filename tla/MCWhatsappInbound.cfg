\* Two messages of the tenant, one request for an agreement or agreement on the portal, two
\* transactions on the consent in flight, two attempts to process a message.
\* A time later than the first is enough for an order and for its reverse.
\* No symmetry under liveness.  Everything answered ends there.
SPECIFICATION FairSpec
CONSTANTS
  MaxTime = 1
  MaxCommands = 1
  RequestTTL = 2
  InvitationTTL = 2
  WriteAttempts = 2
  Messages = {m1, m2}
  NoMessage = NoMessage
  Writers = {w1, w2}
  Processors = {k1}
  MaxAttempts = 2
  Requested = {"REQUEST", "ACCEPT"}
INVARIANTS
  TypeOK
  ConsentAfterStops
  AnsweredOnce
PROPERTIES
  OnlyTenantLeavesStop
  InboundSettled
CHECK_DEADLOCK FALSE
