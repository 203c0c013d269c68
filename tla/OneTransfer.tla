----------------------------- MODULE OneTransfer -----------------------------
(***************************************************************************)
(* What is promised of something that may be sent again, but must arrive   *)
(* once at most: a rent paid out to its owner (reversement), a             *)
(* notification to its tenant.  One attempt at most is on its way, and     *)
(* none leaves any more once one has arrived.  The promise holds as long   *)
(* as nothing happens that its author ruled out; trust, once lost, does    *)
(* not come back.                                                          *)
(***************************************************************************)

CONSTANT Attempts

VARIABLES
  moving,            \* the attempts on their way
  arrived,           \* the attempts that arrived
  trusted            \* nothing was done that the promise rules out

\* An attempt leaves only while none is on its way and none has arrived.
Leave(t) == /\ moving = {} /\ arrived = {}
            /\ moving' = {t}
            /\ UNCHANGED arrived

Return(t) == /\ t \in moving
             /\ moving' = {}
             /\ UNCHANGED arrived

Arrive(t) == /\ t \in moving
             /\ moving' = {}
             /\ arrived' = {t}

\* The one who sends did what was ruled out: nothing is promised any more.
LoseTrust == ~trusted'

TransferInit == moving = {} /\ arrived = {} /\ trusted = TRUE

TransferNext ==
  \/ LoseTrust
  \/ /\ trusted /\ trusted'
     /\ \E t \in Attempts : Leave(t) \/ Return(t) \/ Arrive(t)

TransferSpec == TransferInit /\ [][TransferNext]_<<moving, arrived, trusted>>
=============================================================================
