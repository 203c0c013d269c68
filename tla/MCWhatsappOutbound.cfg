\* Two runs of the retry task that overlap, two acknowledgements in flight, two
\* attempts and a row to spare.  A notification delivered or given up ends there.
SPECIFICATION Spec
CONSTANTS
  Messages = {m1, m2, m3}
  NoMessage = NoMessage
  Notifier = n
  Runs = {k1, k2}
  Hooks = {h1, h2}
  MaxAttempts = 2
  WriteAttempts = 2
SYMMETRY Symmetry
CONSTRAINT StillPromised
INVARIANTS
  TypeOK
  DeliveredOnce
  OneRowPerAttempt
PROPERTIES
  ArrivesOnce
