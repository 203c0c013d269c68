\* The tenant stops on the portal, writes REPRENDRE, then STOP; Meta delivers
\* the second message first.
SPECIFICATION Spec
CONSTANTS
  MaxTime = 2
  MaxCommands = 1
  RequestTTL = 2
  InvitationTTL = 2
  WriteAttempts = 2
  Messages = {m1, m2}
  NoMessage = NoMessage
  Writers = {w1}
  Processors = {k1}
  MaxAttempts = 1
  Requested = {"WITHDRAW"}
INVARIANTS
  LastWordIsStop
CHECK_DEADLOCK FALSE
