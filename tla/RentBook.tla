------------------------------ MODULE RentBook ------------------------------
(***************************************************************************)
(* What the ledger of a rent promises: an account book, to which a payment *)
(* is added once with its sum, is never changed or erased, and whose       *)
(* balance grows by that sum.  The promise holds as long as everybody      *)
(* wrote on what they had read; trust, once lost, does not come back.      *)
(***************************************************************************)
EXTENDS Naturals

CONSTANT Payments

VARIABLES
  book,        \* the sums of the payments entered, by payment
  balance,     \* what was paid in all
  trusted      \* nobody has written on an outdated read

BookInit == DOMAIN book = {} /\ balance = 0 /\ trusted = TRUE

\* A payment is entered, and the balance grows by its sum.
Enter(p) ==
  /\ trusted /\ trusted'
  /\ p \notin DOMAIN book
  /\ DOMAIN book' = DOMAIN book \cup {p}
  /\ \A q \in DOMAIN book : book'[q] = book[q]
  /\ balance' = balance + book'[p]

\* Somebody writes on an outdated read: nothing is promised any more.
LoseTrust == ~trusted'

BookNext == LoseTrust \/ \E p \in Payments : Enter(p)

BookSpec == BookInit /\ [][BookNext]_<<book, balance, trusted>>
=============================================================================
