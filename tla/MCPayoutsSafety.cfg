\* Two process() calls, two callbacks, two attempts before FAILED; the admin
\* retries whenever the payout is FAILED.  A payout that is
\* SUCCESS needs nothing more: the end of a behaviour is legitimate.
SPECIFICATION Spec
CONSTANTS
  Workers = {w1, w2}
  Callbacks = {h1, h2}
  Tokens = {t1, t2, t3}
  NoToken = NoToken
  MaxAttempts = 2
SYMMETRY Symmetry
INVARIANTS
  TypeOK
  AtMostOneTransfer
  ExecutedOnce
  MovingIsTracked
  OutcomeIsTrue
PROPERTIES
  SuccessIsFinal
  KeepsPromise
CHECK_DEADLOCK FALSE
