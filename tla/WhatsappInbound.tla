--------------------------- MODULE WhatsappInbound ---------------------------
(***************************************************************************)
(* What a tenant writes to WARAH over WhatsApp: WhatsappWebhookService     *)
(* records each message once and applies its keyword to the consent in the *)
(* same transaction; WhatsappInboundProcessor, started by a signal in      *)
(* memory or by the recovery task, then answers it, through the bot when   *)
(* it is no keyword.  Meta delivers messages late, out of order or again;  *)
(* meanwhile the agency and the tenant change the consent and the number.  *)
(*                                                                         *)
(* Left out: what the bot says (menu, PIN, receipts), the discussion with  *)
(* the manager, and the batch of fifty.  findSender and the transaction    *)
(* after it see the same number; the check of an access and the row of the *)
(* reply it allows are one step ("limite connue" of the documentation).    *)
(* No processing lasts two minutes: only one that was interrupted is taken *)
(* again (WHATSAPP_INBOUND_RETRY_AFTER_MS).                                *)
(***************************************************************************)
EXTENDS WhatsappConsent, FiniteSets

CONSTANTS
  Messages,      \* what the tenant writes
  NoMessage,
  Writers,       \* transactions on the consent, in flight at once
  Processors,    \* messages being processed at once
  MaxAttempts,   \* WHATSAPP_INBOUND_MAX_ATTEMPTS
  Requested      \* what the agency and the portal ask for

ASSUME InboundAssumption ==
  /\ NoMessage \notin Messages /\ MaxAttempts \in Nat
  /\ Requested \subseteq AgencyTypes \cup TenantTypes

VARIABLES
  now,           \* the clock
  user,          \* the tenant's row of users
  event,         \* the last row of whatsapp_consent_events
  commands,      \* requests of the agency and of the portal so far
  message,       \* the tenant's messages, then rows of whatsapp_messages
  tx,            \* what each transaction on the consent remembers
  processor,     \* what each processing remembers
  replies        \* rows of whatsapp_messages sent in answer to each message

consentVars == <<user, event, commands>>
vars == <<now, user, event, commands, message, tx, processor, replies>>

-----------------------------------------------------------------------------
(* The messages and the handlers' memory.                                  *)

Kinds == Keywords \cup {"OTHER"}
Actions == {"STOP_CONFIRMATION", "CONSENT_WELCOME", "RESUME_CONFIRMATION",
            "BOT"}
NoAction == "NONE"

\* at: Meta's time, of a keyword.  known: sent from the number WARAH knows.
\* fresh: not processed, and processingStartedAt is less than two minutes old.
\* answered: a reply of this action was created
\* since the message was recorded.
Message == [state : {"none", "sent", "recorded"}, kind : Kinds, at : Times,
            known : BOOLEAN, action : Actions \cup {NoAction},
            fresh : BOOLEAN, attempts : 0..MaxAttempts, processed : BOOLEAN,
            answered : BOOLEAN]
Unwritten == [state |-> "none", kind |-> "OTHER", at |-> 0, known |-> TRUE,
              action |-> NoAction, fresh |-> FALSE, attempts |-> 0,
              processed |-> FALSE, answered |-> FALSE]

NoCommand == [type |-> "REQUEST", at |-> 0, moves |-> FALSE]
NoTx == [msg |-> NoMessage, command |-> NoCommand, id |-> NoRequest,
         seen |-> NewUser, tries |-> 0]
Tx == [msg : Messages \cup {NoMessage}, command : Command,
       id : 0..MaxCommands, seen : User, tries : 0..WriteAttempts]

NoProcessing == [pc |-> "idle", msg |-> NoMessage, at |-> 0]
Processing == [pc : {"idle", "bot", "answer", "invite", "done"},
               msg : Messages \cup {NoMessage}, at : Times]

TxDone(w) == tx' = [tx EXCEPT ![w] = NoTx]
Goto(k, pc) == processor' = [processor EXCEPT ![k].pc = pc]

-----------------------------------------------------------------------------
(* The transactions on the consent.                                        *)

Tick ==
  /\ now < MaxTime /\ now' = now + 1
  /\ UNCHANGED <<consentVars, message, tx, processor, replies>>

\* The tenant writes a message.
Write ==
  /\ \E m \in Messages, kind \in Kinds :
       /\ message[m].state = "none"
       /\ message' = [message EXCEPT ![m] =
            [Unwritten EXCEPT !.state = "sent", !.kind = kind,
                              !.at = IF kind = "OTHER" THEN 0 ELSE now]]
  /\ UNCHANGED <<now, consentVars, tx, processor, replies>>

\* A request of the agency or of the portal: the row is read and the command
\* decided.  One refused, or that changes nothing, leaves everything as it is.
Begin(w) ==
  /\ tx[w] = NoTx /\ commands < MaxCommands
  /\ \E type \in Requested, moves \in BOOLEAN :
       LET c == [type |-> type, at |-> now, moves |-> moves] IN
       /\ moves => type \in {"REQUEST", "ACCEPT"}
       /\ ~Refused(user, c) /\ Changes(user, c)
       /\ commands' = commands + 1
       /\ tx' = [tx EXCEPT ![w] = [msg |-> NoMessage,
            command |-> c, id |-> commands', seen |-> user, tries |-> 0]]
  /\ UNCHANGED <<now, user, event, message, processor, replies>>

\* What recordInbound asks for, the keyword having changed the consent or not
\* and the message having verified the number or not.
ActionFor(kind, changed, welcomed) ==
  IF changed
  THEN CASE kind = "STOP" -> "STOP_CONFIRMATION"
         [] kind = "CONFIRM" -> "CONSENT_WELCOME"
         [] OTHER -> "RESUME_CONFIRMATION"
  ELSE IF welcomed THEN "CONSENT_WELCOME"
  ELSE IF kind = "STOP" THEN NoAction ELSE "BOT"

\* The row of whatsapp_messages: its identifier at Meta is unique, so that a
\* message recorded already cancels the whole transaction.
Record(m, action) ==
  message' = [message EXCEPT ![m].state = "recorded", ![m].action = action]

\* A message of an unknown number: nothing is asked.
ReceiveUnknown ==
  /\ \E m \in Messages :
       /\ message[m].state = "sent" /\ ~message[m].known
       /\ Record(m, NoAction)
  /\ UNCHANGED <<now, consentVars, tx, processor, replies>>

KeywordCommand(m) ==
  [type |-> message[m].kind, at |-> message[m].at, moves |-> FALSE]

\* recordInbound of a number verified already: the row is read; a keyword that
\* changes the consent is to be written, anything else is recorded.
Receive(w) ==
  /\ user.verified
  /\ \E m \in Messages :
       LET c == KeywordCommand(m) IN
       /\ message[m].state = "sent" /\ message[m].known
       /\ \/ /\ message[m].kind # "OTHER" /\ Changes(user, c)
             /\ tx[w] = NoTx
             /\ tx' = [tx EXCEPT ![w] = [msg |-> m,
                  command |-> c, id |-> NoRequest, seen |-> user, tries |-> 0]]
             /\ UNCHANGED message
          \/ /\ message[m].kind = "OTHER" \/ ~Changes(user, c)
             /\ Record(m, ActionFor(message[m].kind, FALSE, FALSE))
             /\ UNCHANGED tx
  /\ UNCHANGED <<now, consentVars, processor, replies>>

\* recordInbound of a number not verified: markPhoneVerified locks the row of
\* the tenant, so that the rest of the transaction is one step.
ReceiveUnverified ==
  /\ ~user.verified
  /\ \E m \in Messages :
       LET c == KeywordCommand(m)
           changed == message[m].kind # "OTHER" /\ Changes(user, c)
           welcomed == user.consent = "ACCEPTED"
       IN
       /\ message[m].state = "sent" /\ message[m].known
       /\ user' = [IF changed THEN Applied(user, c, NoRequest) ELSE user
                   EXCEPT !.verified = TRUE]
       /\ event' = IF changed THEN EventOf(c) ELSE event
       /\ Record(m, ActionFor(message[m].kind, changed, welcomed))
  /\ UNCHANGED <<now, commands, tx, processor, replies>>

\* The message was recorded by another delivery.
Duplicate(w) ==
  \E m \in Messages : m = tx[w].msg /\ message[m].state = "recorded"

\* The messages on their way, when the number changes, come from another.
Estranged ==
  [m \in Messages |->
     IF message[m].state = "sent" THEN [message[m] EXCEPT !.known = FALSE]
                                  ELSE message[m]]

\* The compare-and-swap succeeds: the state, its event, the message.
ConsentWritten(w) ==
  LET c == tx[w].command IN
  /\ user' = Written(user, tx[w].seen, c, tx[w].id)
  /\ event' = EventOf(c)
  /\ IF tx[w].msg # NoMessage
     THEN Record(tx[w].msg, ActionFor(c.type, TRUE, FALSE))
     ELSE message' = IF MovesNumber(c) THEN Estranged ELSE message
  /\ TxDone(w)

\* The compare-and-swap fails: the row is read again and the command decided
\* again, a few times, then an error makes Meta deliver a message again.
ConsentReread(w) ==
  LET c == tx[w].command IN
  /\ \/ /\ tx[w].tries + 1 < WriteAttempts
        /\ ~Refused(user, c) /\ Changes(user, c)
        /\ tx' = [tx EXCEPT ![w].tries = @ + 1, ![w].seen = user]
        /\ UNCHANGED message
     \/ /\ tx[w].tries + 1 < WriteAttempts
        /\ Refused(user, c) \/ ~Changes(user, c)
        /\ IF tx[w].msg = NoMessage THEN UNCHANGED message
           ELSE Record(tx[w].msg, ActionFor(c.type, FALSE, FALSE))
        /\ TxDone(w)
     \/ /\ tx[w].tries + 1 >= WriteAttempts
        /\ TxDone(w)
        /\ UNCHANGED message
  /\ UNCHANGED <<user, event>>

\* applyConsentCommand: the write, unless another delivery of the message has
\* recorded it.
ConsentWrite(w) ==
  /\ tx[w] # NoTx
  /\ \/ /\ Duplicate(w)
        /\ TxDone(w)
        /\ UNCHANGED <<user, event, message>>
     \/ ~Duplicate(w) /\ UnchangedSince(user, tx[w].seen) /\ ConsentWritten(w)
     \/ ~Duplicate(w) /\ ~UnchangedSince(user, tx[w].seen) /\ ConsentReread(w)
  /\ UNCHANGED <<now, commands, processor, replies>>

\* The process stops, or the transaction fails: it is rolled back.
Rollback(w) ==
  /\ tx[w] # NoTx
  /\ TxDone(w)
  /\ UNCHANGED <<now, consentVars, message, processor, replies>>

-----------------------------------------------------------------------------
(* WhatsappInboundProcessor and the bot.                                   *)

\* Mutant: what was interrupted is never taken again.
ToProcessOnce(m) ==
  /\ message[m].state = "recorded" /\ message[m].action # NoAction
  /\ ~message[m].processed /\ message[m].attempts = 0

\* Mutant: the attempts are not counted.
ToProcessAlways(m) ==
  /\ message[m].state = "recorded" /\ message[m].action # NoAction
  /\ ~message[m].processed /\ ~message[m].fresh

\* What the guarded reservation of process accepts.
ToProcess(m) ==
  /\ message[m].state = "recorded" /\ message[m].action # NoAction
  /\ ~message[m].processed /\ message[m].attempts < MaxAttempts
  /\ ~message[m].fresh

\* process: the message is reserved.
Reserve(k) ==
  /\ processor[k] = NoProcessing
  /\ \E m \in Messages :
       /\ ToProcess(m)
       /\ message' = [message EXCEPT ![m].fresh = TRUE,
                                     ![m].attempts = @ + 1]
       /\ processor' = [processor EXCEPT ![k] =
            [pc |-> IF message[m].action = "BOT" THEN "bot" ELSE "answer",
             msg |-> m, at |-> 0]]
  /\ UNCHANGED <<now, consentVars, tx, replies>>

\* The row of a reply, which answers every message that asked for the same;
\* the bot's answers are not looked for.
Reply(m) ==
  /\ replies' = [replies EXCEPT ![m] = @ + 1]
  /\ message' = [n \in Messages |->
       IF message[n].action = message[m].action /\ message[m].action # "BOT"
       THEN [message[n] EXCEPT !.answered = TRUE] ELSE message[n]]

\* canSendStopConfirmation, canUseWhatsapp.
MayAnswer(action) ==
  /\ user.verified
  /\ user.consent =
       IF action = "STOP_CONFIRMATION" THEN "STOPPED" ELSE "ACCEPTED"

\* Mutant: the reply is sent without looking for an earlier one.
ToAnswerAlways(m) == MayAnswer(message[m].action)

\* replyOnce: a reply created since the message was recorded is enough.
ToAnswer(m) == MayAnswer(message[m].action) /\ ~message[m].answered

\* replyOnce, or the bot's answer: allowed or refused at that moment; the
\* switch, the tier or the window of 24 hours may refuse it too.
Answer(k) ==
  LET m == processor[k].msg IN
  /\ processor[k].pc = "answer"
  /\ \/ ToAnswer(m) /\ Reply(m)
     \/ UNCHANGED <<message, replies>>
  /\ Goto(k, "done")
  /\ UNCHANGED <<now, consentVars, tx>>

\* Mutant: the message is marked processed after the answer only.
ClaimedLater(m) == message

\* respond: the message is marked processed just before it is answered.
Claimed(m) == [message EXCEPT ![m].processed = TRUE, ![m].fresh = FALSE]

\* respond: silence after a stop, or for another reason.
BotSilent(k) ==
  /\ processor[k].pc = "bot"
  /\ Goto(k, "done")
  /\ UNCHANGED <<now, consentVars, message, tx, replies>>

\* respond: the menu, if the tenant has agreed.
BotMenu(k) ==
  LET m == processor[k].msg IN
  /\ processor[k].pc = "bot" /\ user.consent = "ACCEPTED"
  /\ IF message[m].processed
     THEN Goto(k, "done") /\ UNCHANGED message
     ELSE Goto(k, "answer") /\ message' = Claimed(m)
  /\ UNCHANGED <<now, consentVars, tx, replies>>

\* invite: one in 24 hours.
BotReserveInvitation(k) ==
  /\ processor[k].pc = "bot" /\ user.consent \in {"NOT_ASKED", "PENDING"}
  /\ user.invitedAt = Never \/ user.invitedAt + InvitationTTL <= now
  /\ user' = [user EXCEPT !.invitedAt = now]
  /\ processor' = [processor EXCEPT ![k].pc = "invite", ![k].at = now]
  /\ UNCHANGED <<now, event, commands, message, tx, replies>>

\* invite: sent, or refused and then the reservation given back.
BotInvite(k) ==
  /\ processor[k].pc = "invite"
  /\ \/ /\ user.verified /\ user.consent \in {"NOT_ASKED", "PENDING"}
        /\ UNCHANGED user
     \/ /\ user.invitedAt = processor[k].at
        /\ user' = [user EXCEPT !.invitedAt = Never]
     \/ user.invitedAt # processor[k].at /\ UNCHANGED user
  /\ processor' = [processor EXCEPT ![k].pc = "done", ![k].at = 0]
  /\ UNCHANGED <<now, event, commands, message, tx, replies>>

\* process: the message leaves the list of work.
Processed(k) ==
  /\ processor[k].pc = "done"
  /\ message' = [message EXCEPT ![processor[k].msg].processed = TRUE,
                                ![processor[k].msg].fresh = FALSE]
  /\ processor' = [processor EXCEPT ![k] = NoProcessing]
  /\ UNCHANGED <<now, consentVars, tx, replies>>

\* The process stops, or a statement fails: the message stays in the list, and
\* two minutes pass.
Interrupt(k) ==
  /\ processor[k] # NoProcessing
  /\ message' = [message EXCEPT ![processor[k].msg].fresh = FALSE]
  /\ processor' = [processor EXCEPT ![k] = NoProcessing]
  /\ UNCHANGED <<now, consentVars, tx, replies>>

-----------------------------------------------------------------------------

Init ==
  /\ now = 0 /\ commands = 0
  /\ user = NewUser /\ event = NoEvent
  /\ message = [m \in Messages |-> Unwritten]
  /\ tx = [w \in Writers |-> NoTx]
  /\ processor = [k \in Processors |-> NoProcessing]
  /\ replies = [m \in Messages |-> 0]

\* What a processing under way does next.
GoOn(k) ==
  \/ BotSilent(k) \/ BotMenu(k) \/ BotReserveInvitation(k) \/ BotInvite(k)
  \/ Answer(k) \/ Processed(k)

Next ==
  \/ Tick \/ Write \/ ReceiveUnknown \/ ReceiveUnverified
  \/ \E w \in Writers :
       Begin(w) \/ Receive(w) \/ ConsentWrite(w) \/ Rollback(w)
  \/ \E k \in Processors : Reserve(k) \/ GoOn(k) \/ Interrupt(k)

Spec == Init /\ [][Next]_vars

\* A processing ends one way or another, time passes, and the recovery task
\* comes back every minute for what is left.
FairSpec ==
  /\ Spec
  /\ \A k \in Processors : WF_vars(GoOn(k) \/ Reserve(k))

-----------------------------------------------------------------------------
(* What must hold.                                                         *)

\* The types of the variables.
TypeOK ==
  /\ now \in Times /\ commands \in 0..MaxCommands
  /\ user \in User /\ event \in Event
  /\ message \in [Messages -> Message]
  /\ tx \in [Writers -> Tx]
  /\ processor \in [Processors -> Processing]
  /\ replies \in [Messages -> Nat]

\* Nobody but the tenant leaves a stop, though the agency's request or change
\* of number was decided before the stop and written after it
\* (applyConsentCommand, its compare-and-swap).
OnlyTenantLeavesStop ==
  [][user.consent = "STOPPED" /\ user'.consent # "STOPPED" =>
       event'.source \in {"TENANT_PORTAL", "BOT"}]_vars

\* The consent given by a message is later than every stop that took effect,
\* in whatever order Meta delivers them and how often (decideConsent, isStale;
\* changedAt never goes back).
ConsentAfterStops ==
  user.consent = "ACCEPTED" /\ event.source = "BOT" =>
    \A m \in Messages :
      message[m].action = "STOP_CONFIRMATION" => message[m].at < event.at

\* "Un vieux REPRENDRE ne peut jamais annuler un STOP plus recent"
\* (consent-transition.spec.ts): the same of every STOP recorded, those that
\* found the tenant stopped already included.
LastWordIsStop ==
  user.consent = "ACCEPTED" /\ event.source = "BOT" =>
    \A m \in Messages :
      message[m].state = "recorded" /\ message[m].known
        /\ message[m].kind = "STOP" => message[m].at <= event.at

\* A message is never answered twice, though its processing may stop after
\* the answer and be taken again, and the signal race the recovery task
\* (replyOnce; WhatsappBotService.respond, its claim).  An invitation is no
\* answer here: nothing but its date keeps it from being sent again.
AnsweredOnce == \A m \in Messages : replies[m] <= 1

\* A message that asks for something is processed in the end, or set aside
\* after a few attempts, even when the signal in memory is lost and whatever
\* stops (WhatsappInboundRecoveryTask).
InboundSettled ==
  \A m \in Messages :
    (message[m].state = "recorded" /\ message[m].action # NoAction)
      ~> (message[m].processed \/ message[m].attempts = MaxAttempts)
=============================================================================
