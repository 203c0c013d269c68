--------------------------- MODULE WhatsappConsent ---------------------------
(***************************************************************************)
(* The WhatsApp consent of one tenant: decideConsent, its only definition  *)
(* of the transitions, and applyConsentCommand, its only writer, which     *)
(* reads the state, decides, and writes by compare-and-swap.  The agency,  *)
(* the tenant's portal and the messages received use them at once.         *)
(*                                                                         *)
(* Times are those of a coarse clock: what happens at the same time is     *)
(* what may carry the same second.  The number is told only by whether it  *)
(* is verified.  The texts' versions, the PIN and the discussion thread    *)
(* that a change also resets are left out, and so is the anonymisation.    *)
(***************************************************************************)
EXTENDS Integers

CONSTANTS
  MaxTime,       \* the clock stops there
  MaxCommands,   \* requests of the agency and of the portal
  RequestTTL,    \* WHATSAPP_CONSENT_REQUEST_TTL_MS
  InvitationTTL, \* WHATSAPP_INVITATION_TTL_MS
  WriteAttempts  \* CONSENT_WRITE_ATTEMPTS

ASSUME ConsentAssumption ==
  /\ MaxTime \in Nat /\ MaxCommands \in Nat /\ WriteAttempts \in Nat
  /\ RequestTTL \in Nat /\ InvitationTTL \in Nat

\* A null date, and a null request.
Never == -1
NoRequest == 0

Times == 0..MaxTime
Dates == Times \cup {Never}

Consents == {"NOT_ASKED", "PENDING", "ACCEPTED", "STOPPED"}

\* The columns of users.  verified: the number has written to WARAH.
User == [consent : Consents, changedAt : Dates, request : 0..MaxCommands,
         expires : 0..(MaxTime + RequestTTL), invitedAt : Dates,
         verified : BOOLEAN]
NewUser == [consent |-> "NOT_ASKED", changedAt |-> Never,
            request |-> NoRequest, expires |-> 0, invitedAt |-> Never,
            verified |-> FALSE]

\* A command.  at: the server's time, or Meta's for a keyword.  moves: the
\* same transaction first changes the number (setPhone).
Keywords == {"STOP", "CONFIRM", "RESUME"}
AgencyTypes == {"REQUEST", "REFUSAL", "PHONE_AGENCY"}
TenantTypes == {"ACCEPT", "WITHDRAW", "PHONE_TENANT"}
Command == [type : Keywords \cup AgencyTypes \cup TenantTypes, at : Times,
            moves : BOOLEAN]

Source(c) == IF c.type \in Keywords THEN "BOT"
             ELSE IF c.type \in AgencyTypes THEN "AGENCY" ELSE "TENANT_PORTAL"

MovesNumber(c) == c.moves \/ c.type \in {"PHONE_AGENCY", "PHONE_TENANT"}

-----------------------------------------------------------------------------
(* decideConsent.                                                          *)

\* Mutant: a message of the same second as the last change still counts.
StaleStrict(s, at) == at < s.changedAt

\* isStale.
Stale(s, at) == at <= s.changedAt

RequestValid(s, at) ==
  s.consent = "PENDING" /\ s.request # NoRequest /\ at < s.expires

InvitationValid(s, at) ==
  /\ s.consent \in {"NOT_ASKED", "PENDING"} /\ s.invitedAt # Never
  /\ s.invitedAt < at /\ at < s.invitedAt + InvitationTTL

\* The agency's commands that a stop refuses.
Refused(s, c) ==
  s.consent = "STOPPED" /\ c.type \in {"REQUEST", "PHONE_AGENCY"}

\* The commands decided as "changed", in a state the number is not moved from.
ChangesConsent(s, c) ==
  \/ c.type = "REQUEST" /\ s.consent \in {"NOT_ASKED", "PENDING"}
  \/ c.type \in {"REFUSAL", "WITHDRAW", "STOP"} /\ s.consent # "STOPPED"
  \/ c.type = "ACCEPT" /\ s.consent # "ACCEPTED"
  \/ /\ c.type = "CONFIRM" /\ ~Stale(s, c.at)
     /\ RequestValid(s, c.at) \/ InvitationValid(s, c.at)
  \/ c.type = "RESUME" /\ s.consent = "STOPPED" /\ ~Stale(s, c.at)

\* What "changed" makes of the columns: the date never goes back, a request
\* or an invitation no longer awaits an answer.
Changed(s, consent, at) ==
  [s EXCEPT !.consent = consent,
            !.changedAt = IF @ > at THEN @ ELSE at,
            !.request = NoRequest, !.expires = 0, !.invitedAt = Never]

\* PHONE_CHANGE: a new number is not verified, a stop remains.
Moved(s, at) ==
  [Changed(s, IF s.consent = "STOPPED" THEN "STOPPED" ELSE "NOT_ASKED", at)
     EXCEPT !.verified = FALSE]

\* The consent a command asks for, but for a mere change of number.
Asked(c) ==
  CASE c.type = "REQUEST" -> "PENDING"
    [] c.type \in {"ACCEPT", "CONFIRM", "RESUME"} -> "ACCEPTED"
    [] OTHER -> "STOPPED"

\* The state a command starts from, its number changed.
Start(s, c) == IF MovesNumber(c) THEN Moved(s, c.at) ELSE s

Changes(s, c) == MovesNumber(c) \/ ChangesConsent(Start(s, c), c)

\* The state a command that changes something leads to; a request of the
\* agency opens number "fresh".
Applied(s, c, fresh) ==
  LET t == Start(s, c)
      u == Changed(t, Asked(c), c.at)
  IN IF ~ChangesConsent(t, c) THEN t
     ELSE IF c.type = "REQUEST"
     THEN [u EXCEPT !.request = fresh, !.expires = c.at + RequestTTL]
     ELSE u

-----------------------------------------------------------------------------
(* applyConsentCommand.                                                    *)

\* Mutant: the state is written whatever it has become.
UnchangedSinceAlways(s, seen) == TRUE

\* The condition of the compare-and-swap.
UnchangedSince(s, seen) ==
  /\ s.consent = seen.consent
  /\ s.changedAt = seen.changedAt
  /\ s.request = seen.request

\* What the write makes of the current row: the columns of the decision, made
\* from the row as it was read; verified is written by a change of number only.
Written(s, seen, c, fresh) ==
  [Applied(seen, c, fresh) EXCEPT
     !.verified = IF MovesNumber(c) THEN FALSE ELSE s.verified]

\* The row of whatsapp_consent_events written with it.
Event == [source : {"NONE", "AGENCY", "TENANT_PORTAL", "BOT"}, at : Times]
NoEvent == [source |-> "NONE", at |-> 0]
EventOf(c) == [source |-> Source(c), at |-> c.at]
=============================================================================
