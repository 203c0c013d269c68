\* One process() call at a time and one callback; no symmetry under liveness.
SPECIFICATION FairSpec
CONSTANTS
  Workers = {w1}
  Callbacks = {h1}
  Tokens = {t1, t2}
  NoToken = NoToken
  MaxAttempts = 2
PROPERTIES
  RentSettled
CHECK_DEADLOCK FALSE
