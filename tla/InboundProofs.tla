---------------------------- MODULE InboundProofs ----------------------------
(***************************************************************************)
(* Proofs about WhatsappInbound, for any number of messages, transactions  *)
(* and processings, and any bounds.                                        *)
(*                                                                         *)
(* A transaction that is about to write decided from the row it remembers  *)
(* (TxDecided); the compare-and-swap carries that decision over to the row *)
(* as it is.  No stop that took effect is later than the last change       *)
(* (StopsDated), which never goes back: a message that the decision finds  *)
(* later than the last change is later than all of them.                   *)
(* That a message is answered once rests on something else: the trace that *)
(* an answer leaves, or the claim that precedes it (AnswersOK).            *)
(***************************************************************************)
EXTENDS WhatsappInbound, TLAPS

-----------------------------------------------------------------------------
(* decideConsent.                                                          *)

\* A change never takes the date of the last change back, nor before its own.
LEMMA ChangedShape ==
  ASSUME NEW s \in User, NEW consent \in Consents, NEW at \in Times
  PROVE  /\ Changed(s, consent, at) \in User
         /\ Changed(s, consent, at).consent = consent
         /\ Changed(s, consent, at).changedAt >= s.changedAt
         /\ Changed(s, consent, at).changedAt >= at
         /\ Changed(s, consent, at).verified = s.verified
<1>1. s.changedAt \in Dates /\ s.changedAt \in Int /\ at \in Int
  BY ConsentAssumption DEF User, Dates, Times, Never
<1>2. 0 \in 0..MaxCommands /\ 0 \in 0..(MaxTime + RequestTTL)
  BY ConsentAssumption
<1>3. Changed(s, consent, at) \in User
  BY <1>1, <1>2 DEF Changed, User, NoRequest, Never, Dates
<1>4. QED
  BY <1>1, <1>3 DEF Changed, User

\* The same of a change of number.
LEMMA MovedShape ==
  ASSUME NEW s \in User, NEW at \in Times
  PROVE  /\ Moved(s, at) \in User
         /\ Moved(s, at).consent =
              IF s.consent = "STOPPED" THEN "STOPPED" ELSE "NOT_ASKED"
         /\ Moved(s, at).changedAt >= s.changedAt
         /\ Moved(s, at).changedAt >= at
<1> DEFINE consent == IF s.consent = "STOPPED" THEN "STOPPED" ELSE "NOT_ASKED"
           t == Changed(s, consent, at)
<1>1. consent \in Consents
  BY DEF Consents
<1>2. /\ t \in User /\ t.consent = consent
      /\ t.changedAt >= s.changedAt /\ t.changedAt >= at
  BY <1>1, ChangedShape
<1>3. Moved(s, at) = [t EXCEPT !.verified = FALSE]
  BY DEF Moved
<1> HIDE DEF t
<1>4. QED
  BY <1>2, <1>3 DEF User

\* What a command leads to.
LEMMA AppliedShape ==
  ASSUME NEW s \in User, NEW c \in Command, NEW id \in 0..MaxCommands
  PROVE  /\ Applied(s, c, id) \in User
         /\ Applied(s, c, id).changedAt >= s.changedAt
         /\ Changes(s, c) => Applied(s, c, id).changedAt >= c.at
         /\ ChangesConsent(Start(s, c), c) =>
              Applied(s, c, id).consent = Asked(c)
<1> DEFINE t == Start(s, c)
           u == Changed(t, Asked(c), c.at)
<1>1. c.at \in Times /\ Asked(c) \in Consents
  BY DEF Command, Asked, Consents
<1>2. /\ t \in User /\ t.changedAt >= s.changedAt
      /\ MovesNumber(c) => t.changedAt >= c.at
  <2>1. s.changedAt \in Int
    BY ConsentAssumption DEF User, Dates, Times, Never
  <2>2. CASE MovesNumber(c)
    BY <1>1, <2>2, MovedShape DEF Start
  <2>3. CASE ~MovesNumber(c)
    BY <2>1, <2>3 DEF Start
  <2>4. QED
    BY <2>2, <2>3
<1> HIDE DEF t
<1>3. /\ u \in User /\ u.consent = Asked(c)
      /\ u.changedAt >= t.changedAt /\ u.changedAt >= c.at
  BY <1>1, <1>2, ChangedShape
<1>4. c.at + RequestTTL \in 0..(MaxTime + RequestTTL)
  BY <1>1, ConsentAssumption DEF Times
<1>5. /\ s.changedAt \in Int /\ t.changedAt \in Int /\ u.changedAt \in Int
  BY <1>2, <1>3, ConsentAssumption DEF User, Dates, Times, Never
<1> HIDE DEF u
<1>6. [u EXCEPT !.request = id, !.expires = c.at + RequestTTL] \in User
  BY <1>3, <1>4 DEF User
<1>7. Applied(s, c, id) =
        IF ~ChangesConsent(t, c) THEN t
        ELSE IF c.type = "REQUEST"
        THEN [u EXCEPT !.request = id, !.expires = c.at + RequestTTL]
        ELSE u
  BY DEF Applied, t, u
<1>8. CASE ~ChangesConsent(t, c)
  BY <1>2, <1>7, <1>8 DEF Changes, t
<1>9. CASE ChangesConsent(t, c) /\ c.type = "REQUEST"
  BY <1>2, <1>3, <1>5, <1>6, <1>7, <1>9 DEF t, User
<1>10. CASE ChangesConsent(t, c) /\ c.type # "REQUEST"
  BY <1>2, <1>3, <1>5, <1>7, <1>10 DEF t
<1>11. QED
  BY <1>8, <1>9, <1>10

\* The write keeps what the decision says, but for the verified number.
LEMMA WrittenShape ==
  ASSUME NEW s \in User, NEW seen \in User, NEW c \in Command,
         NEW id \in 0..MaxCommands
  PROVE  /\ Written(s, seen, c, id) \in User
         /\ Written(s, seen, c, id).consent = Applied(seen, c, id).consent
         /\ Written(s, seen, c, id).changedAt = Applied(seen, c, id).changedAt
<1>1. Applied(seen, c, id) \in User
  BY AppliedShape
<1>2. s.verified \in BOOLEAN
  BY DEF User
<1>3. QED
  BY <1>1, <1>2 DEF Written, User

\* Nobody but the tenant leaves a stop.
LEMMA StopKept ==
  ASSUME NEW s \in User, NEW c \in Command, NEW id \in 0..MaxCommands,
         s.consent = "STOPPED", ~Refused(s, c), Changes(s, c),
         Applied(s, c, id).consent # "STOPPED"
  PROVE  Source(c) \in {"TENANT_PORTAL", "BOT"}
<1>1. CASE c.type = "REFUSAL"
  <2>1. ~ChangesConsent(Start(s, c), c)
    BY <1>1, MovedShape DEF ChangesConsent, Start, Command
  <2>2. Applied(s, c, id) = Start(s, c)
    BY <2>1 DEF Applied
  <2>3. Start(s, c).consent = "STOPPED"
    BY MovedShape DEF Start, Command
  <2>4. QED
    BY <2>2, <2>3
<1>2. CASE c.type # "REFUSAL"
  BY <1>2 DEF Refused, Source, Command, AgencyTypes, Keywords
<1>3. QED
  BY <1>1, <1>2

\* A consent given by a message is later than the last change.
LEMMA AcceptedLater ==
  ASSUME NEW s \in User, NEW c \in Command, NEW id \in 0..MaxCommands,
         c.type \in Keywords, ~c.moves, Changes(s, c),
         Applied(s, c, id).consent = "ACCEPTED"
  PROVE  c.type # "STOP" /\ c.at > s.changedAt
<1>1. ~MovesNumber(c)
  BY DEF MovesNumber, Keywords
<1>2. Start(s, c) = s /\ ChangesConsent(s, c)
  BY <1>1 DEF Start, Changes
<1>3. Asked(c) = "ACCEPTED"
  BY <1>2, AppliedShape
<1>4. c.type # "STOP"
  BY <1>3 DEF Asked
<1>5. ~Stale(s, c.at)
  BY <1>2, <1>4 DEF ChangesConsent, Keywords
<1>6. c.at \in Int /\ s.changedAt \in Int
  BY ConsentAssumption DEF Command, User, Dates, Times, Never
<1>7. QED
  BY <1>4, <1>5, <1>6 DEF Stale

-----------------------------------------------------------------------------
(* The types.                                                              *)

\* What the constants make of the sets of values.
LEMMA Values ==
  /\ NewUser \in User /\ NoEvent \in Event /\ Unwritten \in Message
  /\ NoTx \in Tx /\ NoProcessing \in Processing
  /\ 0 \in Times /\ 0 \in 0..MaxCommands
<1> USE ConsentAssumption, InboundAssumption
<1>1. 0 \in Times /\ 0 \in 0..MaxCommands
  BY DEF Times
<1>2. NewUser \in User
  BY DEF NewUser, User, Consents, Dates, Times, Never, NoRequest
<1>3. NoEvent \in Event
  BY <1>1 DEF NoEvent, Event
<1>4. Unwritten \in Message
  BY <1>1 DEF Unwritten, Message, Kinds, NoAction
<1>5. NoCommand \in Command
  BY <1>1 DEF NoCommand, Command, AgencyTypes
<1>6. NoTx \in Tx
  BY <1>2, <1>5 DEF NoTx, Tx, NoRequest
<1>7. NoProcessing \in Processing
  BY <1>1 DEF NoProcessing, Processing
<1>8. QED
  BY <1>1, <1>2, <1>3, <1>4, <1>6, <1>7

\* A message can be read as a command when it carries a keyword.
LEMMA KeywordShape ==
  ASSUME TypeOK, NEW m \in Messages, message[m].kind # "OTHER"
  PROVE  KeywordCommand(m) \in Command
BY DEF TypeOK, KeywordCommand, Message, Kinds, Command

\* What recordInbound asks for.
LEMMA ActionShape ==
  ASSUME NEW kind, NEW changed \in BOOLEAN, NEW welcomed \in BOOLEAN
  PROVE  /\ ActionFor(kind, changed, welcomed) \in Actions \cup {NoAction}
         /\ ActionFor(kind, changed, welcomed) = "STOP_CONFIRMATION" =>
              changed /\ kind = "STOP"
<1>1. CASE changed /\ kind = "STOP"
  BY <1>1 DEF ActionFor, Actions
<1>2. CASE changed /\ kind # "STOP"
  BY <1>2 DEF ActionFor, Actions
<1>3. CASE ~changed
  BY <1>3 DEF ActionFor, Actions, NoAction
<1>4. QED
  BY <1>1, <1>2, <1>3

\* The event of a command.
LEMMA EventShape ==
  ASSUME NEW c \in Command PROVE EventOf(c) \in Event
BY DEF EventOf, Event, Source, Command

\* Recording a message writes two of its columns.
LEMMA RecordType ==
  ASSUME TypeOK, NEW m \in Messages, NEW action \in Actions \cup {NoAction},
         Record(m, action)
  PROVE  message' \in [Messages -> Message]
<1> DEFINE r == [message[m] EXCEPT !.state = "recorded", !.action = action]
<1>1. message \in [Messages -> Message]
  BY DEF TypeOK
<1>2. r \in Message
  BY <1>1 DEF Message
<1>3. message' = [message EXCEPT ![m] = r]
  BY <1>1 DEF Record, Message
<1> HIDE DEF r
<1>4. QED
  BY <1>1, <1>2, <1>3

\* The operations of the messages keep the types.
LEMMA MessagesType ==
  ASSUME TypeOK,
         ReceiveUnknown \/ Write \/ (\E w \in Writers : Receive(w))
  PROVE  TypeOK'
<1> USE DEF TypeOK, consentVars
<1>1. CASE ReceiveUnknown
  <2>1. PICK m \in Messages : Record(m, NoAction)
    BY <1>1 DEF ReceiveUnknown
  <2>2. message' \in [Messages -> Message]
    BY <2>1, RecordType
  <2>3. QED
    BY <1>1, <2>2 DEF ReceiveUnknown
<1>2. CASE Write
  <2>1. PICK m \in Messages, kind \in Kinds : message' = [message EXCEPT ![m] =
            [Unwritten EXCEPT !.state = "sent", !.kind = kind,
                              !.at = IF kind = "OTHER" THEN 0 ELSE now]]
    BY <1>2 DEF Write
  <2>2. [Unwritten EXCEPT !.state = "sent", !.kind = kind,
                          !.at = IF kind = "OTHER" THEN 0 ELSE now] \in Message
    BY Values DEF Message
  <2>3. message' \in [Messages -> Message]
    BY <2>1, <2>2
  <2>4. QED
    BY <1>2, <2>3 DEF Write
<1>3. ASSUME NEW w \in Writers, Receive(w) PROVE TypeOK'
  <2>1. PICK m \in Messages :
         LET c == KeywordCommand(m) IN
         \/ /\ message[m].kind # "OTHER"
            /\ tx' = [tx EXCEPT ![w] = [msg |-> m,
                 command |-> c, id |-> NoRequest, seen |-> user, tries |-> 0]]
            /\ UNCHANGED message
         \/ /\ Record(m, ActionFor(message[m].kind, FALSE, FALSE))
            /\ UNCHANGED tx
    BY <1>3 DEF Receive
  <2> DEFINE t == [msg |-> m, command |-> KeywordCommand(m),
                   id |-> NoRequest, seen |-> user, tries |-> 0]
  <2>2. CASE message[m].kind # "OTHER" /\ tx' = [tx EXCEPT ![w] = t]
               /\ UNCHANGED message
    <3>1. t \in Tx
      BY <2>2, KeywordShape, Values, ConsentAssumption DEF Tx, NoRequest
    <3> HIDE DEF t
    <3>2. tx' \in [Writers -> Tx]
      BY <2>2, <3>1
    <3>3. QED
      BY <1>3, <2>2, <3>2 DEF Receive
  <2>3. CASE Record(m, ActionFor(message[m].kind, FALSE, FALSE)) /\ UNCHANGED tx
    <3>1. message' \in [Messages -> Message]
      BY <2>3, ActionShape, RecordType
    <3>2. QED
      BY <1>3, <2>3, <3>1 DEF Receive
  <2>4. QED
    BY <2>1, <2>2, <2>3
<1>4. QED
  BY <1>1, <1>2, <1>3

\* A message that verifies the number, in one step.
LEMMA UnverifiedType ==
  ASSUME TypeOK, ReceiveUnverified
  PROVE  TypeOK'
<1> DEFINE changed(m) == message[m].kind # "OTHER"
                           /\ Changes(user, KeywordCommand(m))
<1>1. PICK m \in Messages :
        /\ user' = [IF changed(m) THEN Applied(user, KeywordCommand(m), NoRequest)
                    ELSE user EXCEPT !.verified = TRUE]
        /\ event' = IF changed(m) THEN EventOf(KeywordCommand(m)) ELSE event
        /\ Record(m, ActionFor(message[m].kind, changed(m),
                               user.consent = "ACCEPTED"))
  BY DEF ReceiveUnverified
<1> DEFINE t == IF changed(m) THEN Applied(user, KeywordCommand(m), NoRequest)
                ELSE user
<1>2. changed(m) \in BOOLEAN
  BY DEF Changes, MovesNumber, ChangesConsent
<1>3. user \in User /\ event \in Event
  BY DEF TypeOK
<1>4. t \in User
  BY <1>3, KeywordShape, AppliedShape, Values DEF NoRequest
<1>5. user' \in User
  <2> HIDE DEF t
  <2>1. user' = [t EXCEPT !.verified = TRUE]
    BY <1>1 DEF t
  <2>2. QED
    BY <1>4, <2>1 DEF User
<1>6. event' \in Event
  BY <1>1, <1>3, KeywordShape, EventShape
<1>7. message' \in [Messages -> Message]
  <2> HIDE DEF changed
  <2>1. QED
    BY <1>1, <1>2, ActionShape, RecordType
<1>8. QED
  BY <1>5, <1>6, <1>7 DEF TypeOK, ReceiveUnverified

\* A transaction that ends.
LEMMA TxDoneType ==
  ASSUME TypeOK, NEW w \in Writers, TxDone(w)
  PROVE  tx' \in [Writers -> Tx]
BY Values DEF TypeOK, TxDone

\* The transactions on the consent keep the types.
LEMMA WritersType ==
  ASSUME TypeOK, NEW w \in Writers, Begin(w) \/ ConsentWrite(w) \/ Rollback(w)
  PROVE  TypeOK'
<1>1. /\ user \in User /\ event \in Event /\ now \in Times
      /\ message \in [Messages -> Message] /\ tx \in [Writers -> Tx]
      /\ tx[w] \in Tx /\ commands \in 0..MaxCommands
  BY DEF TypeOK
<1>2. CASE Begin(w)
  <2>1. PICK type \in Requested, moves \in BOOLEAN :
          tx' = [tx EXCEPT ![w] = [msg |-> NoMessage,
            command |-> [type |-> type, at |-> now, moves |-> moves],
            id |-> commands', seen |-> user, tries |-> 0]]
    BY <1>2 DEF Begin
  <2>2. commands' \in 0..MaxCommands
    BY <1>1, <1>2, ConsentAssumption DEF Begin
  <2>3. [type |-> type, at |-> now, moves |-> moves] \in Command
    BY <1>1, InboundAssumption DEF Command
  <2>4. [msg |-> NoMessage,
         command |-> [type |-> type, at |-> now, moves |-> moves],
         id |-> commands', seen |-> user, tries |-> 0] \in Tx
    BY <1>1, <2>2, <2>3, ConsentAssumption DEF Tx
  <2>5. tx' \in [Writers -> Tx]
    BY <1>1, <2>1, <2>4
  <2>6. QED
    BY <1>2, <2>2, <2>5 DEF Begin, TypeOK
<1>3. CASE Rollback(w)
  BY <1>3, TxDoneType DEF Rollback, TypeOK, consentVars
<1>4. CASE TxDone(w) /\ UNCHANGED <<user, event, message>> /\ ConsentWrite(w)
  BY <1>4, TxDoneType DEF ConsentWrite, TypeOK
<1>5. CASE ConsentWritten(w) /\ ConsentWrite(w)
  <2>1. tx[w].command \in Command /\ tx[w].seen \in User
          /\ tx[w].id \in 0..MaxCommands /\ tx[w].msg \in Messages \cup {NoMessage}
    BY <1>1 DEF Tx
  <2>2. user' \in User
    BY <1>1, <1>5, <2>1, WrittenShape DEF ConsentWritten
  <2>3. event' \in Event
    BY <1>5, <2>1, EventShape DEF ConsentWritten
  <2>4. Estranged \in [Messages -> Message]
    BY <1>1 DEF Estranged, Message
  <2>5. message' \in [Messages -> Message]
    BY <1>1, <1>5, <2>1, <2>4, ActionShape, RecordType DEF ConsentWritten
  <2>6. QED
    BY <1>5, <2>2, <2>3, <2>5, TxDoneType DEF ConsentWritten, ConsentWrite, TypeOK
<1>6. CASE ConsentReread(w) /\ ConsentWrite(w)
  <2>1. tx[w].msg \in Messages \cup {NoMessage} /\ tx[w].tries \in 0..WriteAttempts
    BY <1>1 DEF Tx
  <2>2. message' \in [Messages -> Message]
    BY <1>1, <1>6, <2>1, ActionShape, RecordType DEF ConsentReread
  <2>3. ASSUME tx[w].tries + 1 < WriteAttempts,
               tx' = [tx EXCEPT ![w].tries = @ + 1, ![w].seen = user]
        PROVE  tx' \in [Writers -> Tx]
    <3>1. tx[w].tries + 1 \in 0..WriteAttempts
      BY <2>1, <2>3, ConsentAssumption
    <3>2. [tx[w] EXCEPT !.tries = @ + 1, !.seen = user] \in Tx
      BY <1>1, <3>1 DEF Tx
    <3>3. tx' = [tx EXCEPT ![w] = [tx[w] EXCEPT !.tries = @ + 1, !.seen = user]]
      BY <1>1, <2>3 DEF Tx
    <3>4. QED
      BY <1>1, <3>2, <3>3
  <2>4. tx' \in [Writers -> Tx]
    BY <1>6, <2>3, TxDoneType DEF ConsentReread
  <2>5. QED
    BY <1>6, <2>2, <2>4 DEF ConsentReread, ConsentWrite, TypeOK
<1>7. QED
  BY <1>2, <1>3, <1>4, <1>5, <1>6 DEF ConsentWrite

\* The processor and the bot keep the types.
LEMMA ProcessorType ==
  ASSUME TypeOK, NEW k \in Processors, Reserve(k) \/ GoOn(k) \/ Interrupt(k)
  PROVE  TypeOK'
<1> USE DEF TypeOK, consentVars
<1>1. /\ message \in [Messages -> Message] /\ user \in User /\ now \in Times
      /\ processor \in [Processors -> Processing] /\ processor[k] \in Processing
      /\ replies \in [Messages -> Nat]
  OBVIOUS
<1>0. processor[k].msg \in Messages \cup {NoMessage}
  BY <1>1 DEF Processing
<1>2. ASSUME NEW pc \in {"idle", "bot", "answer", "invite", "done"}, Goto(k, pc)
      PROVE  processor' \in [Processors -> Processing]
  BY <1>1, <1>2 DEF Goto, Processing
<1>3. ASSUME NEW m \in Messages \cup {NoMessage}
      PROVE  Claimed(m) \in [Messages -> Message]
  <2> HIDE DEF TypeOK
  <2>1. \A n \in Messages :
          [message[n] EXCEPT !.processed = TRUE, !.fresh = FALSE] \in Message
    BY <1>1 DEF Message
  <2>2. Claimed(m) = IF m \notin Messages THEN message
          ELSE [message EXCEPT ![m] =
                 [message[m] EXCEPT !.processed = TRUE, !.fresh = FALSE]]
    BY <1>1 DEF Claimed, Message
  <2>3. QED
    BY <1>1, <2>1, <2>2
<1>4. CASE Reserve(k)
  <2>1. PICK m \in Messages :
         /\ ToProcess(m)
         /\ message' = [message EXCEPT ![m].fresh = TRUE, ![m].attempts = @ + 1]
         /\ processor' = [processor EXCEPT ![k] =
              [pc |-> IF message[m].action = "BOT" THEN "bot" ELSE "answer",
               msg |-> m, at |-> 0]]
    BY <1>4 DEF Reserve
  <2>2. message[m] \in Message /\ message[m].attempts + 1 \in 0..MaxAttempts
    BY <1>1, <2>1, InboundAssumption DEF ToProcess, Message
  <2>3. [message[m] EXCEPT !.fresh = TRUE, !.attempts = @ + 1] \in Message
    BY <2>2 DEF Message
  <2>4. message' = [message EXCEPT ![m] =
                      [message[m] EXCEPT !.fresh = TRUE, !.attempts = @ + 1]]
    BY <1>1, <2>1 DEF Message
  <2>5. message' \in [Messages -> Message]
    BY <1>1, <2>3, <2>4
  <2>6. processor' \in [Processors -> Processing]
    BY <1>1, <2>1, Values DEF Processing
  <2>7. QED
    BY <1>4, <2>5, <2>6 DEF Reserve
<1>5. CASE Interrupt(k)
  <2>1. ASSUME NEW m \in Messages \cup {NoMessage}
        PROVE  [message EXCEPT ![m].fresh = FALSE] \in [Messages -> Message]
    BY <1>1 DEF Message
  <2>2. processor' \in [Processors -> Processing]
    BY <1>1, <1>5, Values DEF Interrupt
  <2>3. QED
    BY <1>5, <1>0, <2>1, <2>2 DEF Interrupt
<1>6. CASE BotSilent(k)
  BY <1>2, <1>6 DEF BotSilent
<1>7. CASE BotMenu(k)
  <2>1. processor[k].msg \in Messages \cup {NoMessage}
    BY <1>1 DEF Processing
  <2>2. message' \in [Messages -> Message]
    BY <1>1, <1>3, <1>7, <2>1 DEF BotMenu
  <2>3. processor' \in [Processors -> Processing]
    BY <1>2, <1>7 DEF BotMenu
  <2>4. QED
    BY <1>7, <2>2, <2>3 DEF BotMenu
<1>8. CASE BotReserveInvitation(k)
  <2>1. [user EXCEPT !.invitedAt = now] \in User
    BY <1>1 DEF User, Dates
  <2>2. [processor[k] EXCEPT !.pc = "invite", !.at = now] \in Processing
    BY <1>1 DEF Processing
  <2>3. processor' = [processor EXCEPT ![k] =
                        [processor[k] EXCEPT !.pc = "invite", !.at = now]]
    BY <1>1, <1>8 DEF BotReserveInvitation, Processing
  <2>4. QED
    BY <1>1, <1>8, <2>1, <2>2, <2>3 DEF BotReserveInvitation
<1>9. CASE BotInvite(k)
  <2>1. [user EXCEPT !.invitedAt = Never] \in User
    BY <1>1 DEF User, Dates
  <2>2. [processor[k] EXCEPT !.pc = "done", !.at = 0] \in Processing
    BY <1>1, Values DEF Processing
  <2>3. processor' = [processor EXCEPT ![k] =
                        [processor[k] EXCEPT !.pc = "done", !.at = 0]]
    BY <1>1, <1>9 DEF BotInvite, Processing
  <2>4. QED
    BY <1>1, <1>9, <2>1, <2>2, <2>3 DEF BotInvite
<1>10. CASE Answer(k)
  <2>1. processor' \in [Processors -> Processing]
    BY <1>2, <1>10 DEF Answer
  <2>2. ASSUME NEW m \in Messages \cup {NoMessage}, Reply(m)
        PROVE  message' \in [Messages -> Message] /\ replies' \in [Messages -> Nat]
    <3>1. \A n \in Messages : [message[n] EXCEPT !.answered = TRUE] \in Message
      BY <1>1 DEF Message
    <3>2. \A n \in Messages : message[n] \in Message
      BY <1>1
    <3>3. message' \in [Messages -> Message]
      BY <2>2, <3>1, <3>2 DEF Reply
    <3>4. replies' = [replies EXCEPT ![m] = @ + 1]
      BY <2>2 DEF Reply
    <3>5. replies \in [Messages -> Nat]
      BY <1>1
    <3>6. replies' \in [Messages -> Nat]
      <4> DEFINE r == replies[m] + 1
      <4>1. m \in Messages => r \in Nat
        BY <3>5
      <4>2. replies' = [replies EXCEPT ![m] = r]
        BY <3>4
      <4> HIDE DEF r
      <4>3. QED
        BY <3>5, <4>1, <4>2
    <3>7. QED
      BY <3>3, <3>6
  <2>3. QED
    BY <1>0, <1>10, <2>1, <2>2 DEF Answer
<1>11. CASE Processed(k)
  <2>1. message' \in [Messages -> Message]
    BY <1>3, <1>11, <1>0 DEF Processed, Claimed
  <2>2. processor' \in [Processors -> Processing]
    BY <1>1, <1>11, Values DEF Processed
  <2>3. QED
    BY <1>11, <2>1, <2>2 DEF Processed
<1>12. QED
  BY <1>4, <1>5, <1>6, <1>7, <1>8, <1>9, <1>10, <1>11 DEF GoOn

LEMMA TypeStep ==
  ASSUME TypeOK, [Next]_vars
  PROVE  TypeOK'
<1>1. CASE UNCHANGED vars
  BY <1>1 DEF vars, TypeOK
<1>2. CASE Tick
  <2>1. now + 1 \in Times
    BY <1>2, ConsentAssumption DEF TypeOK, Tick, Times
  <2>2. QED
    BY <1>2, <2>1 DEF Tick, TypeOK, consentVars
<1>3. QED
  BY <1>1, <1>2, MessagesType, UnverifiedType, WritersType, ProcessorType
  DEF Next

\* The variables keep their types.
THEOREM TypeCorrect == Spec => []TypeOK
<1>1. Init => TypeOK
  BY Values DEF Init, TypeOK
<1>2. TypeOK /\ [Next]_vars => TypeOK'
  BY TypeStep
<1>3. QED
  BY <1>1, <1>2, PTL DEF Spec

-----------------------------------------------------------------------------
(* The invariant.                                                          *)

\* A transaction decided its command from the row it remembers, and a keyword
\* is the one of its message.
Decided(w) ==
  tx[w] # NoTx =>
    /\ ~Refused(tx[w].seen, tx[w].command)
    /\ Changes(tx[w].seen, tx[w].command)
    /\ tx[w].msg = NoMessage =>
         tx[w].command.type \in AgencyTypes \cup TenantTypes
    /\ tx[w].msg # NoMessage =>
         /\ message[tx[w].msg].state # "none"
         /\ message[tx[w].msg].kind # "OTHER"
         /\ tx[w].command = KeywordCommand(tx[w].msg)

TxDecided == \A w \in Writers : Decided(w)

\* No stop that took effect is later than the last change.
StopsDated ==
  \A m \in Messages :
    message[m].action = "STOP_CONFIRMATION" => message[m].at <= user.changedAt

IInv == TypeOK /\ TxDecided /\ StopsDated /\ ConsentAfterStops

\* What a message says, once written, remains.
SaysTheSame ==
  \A m \in Messages : message[m].state # "none" =>
    /\ message'[m].state # "none"
    /\ message'[m].kind = message[m].kind /\ message'[m].at = message[m].at

\* No other stop takes effect.
NoNewStop ==
  \A m \in Messages : message'[m].action = "STOP_CONFIRMATION" =>
    message[m].action = "STOP_CONFIRMATION" /\ message'[m].at = message[m].at

\* Transactions go on, end, or decide again.
LEMMA DecidedStep ==
  ASSUME IInv, TypeOK', SaysTheSame,
         \A w \in Writers : tx'[w] = tx[w] \/ tx'[w] = NoTx \/ Decided(w)'
  PROVE  TxDecided'
<1> SUFFICES ASSUME NEW w \in Writers, tx'[w] = tx[w], tx[w] # NoTx
             PROVE  Decided(w)'
  BY DEF TxDecided, Decided
<1>1. tx[w].msg \in Messages \cup {NoMessage} /\ Decided(w)
  BY DEF IInv, TypeOK, Tx, TxDecided
<1>2. tx[w].msg # NoMessage =>
        KeywordCommand(tx[w].msg)' = KeywordCommand(tx[w].msg)
  BY <1>1 DEF SaysTheSame, Decided, KeywordCommand
<1>3. QED
  BY <1>1, <1>2 DEF Decided, SaysTheSame

\* A step that leaves the consent as it is, and its date.
LEMMA QuietStep ==
  ASSUME IInv, TypeOK', TxDecided', NoNewStop, event' = event,
         user'.consent = user.consent, user'.changedAt = user.changedAt
  PROVE  IInv'
<1>1. StopsDated'
  BY DEF IInv, StopsDated, NoNewStop
<1>2. ConsentAfterStops'
  BY DEF IInv, ConsentAfterStops, NoNewStop
<1>3. QED
  BY <1>1, <1>2 DEF IInv

\* Recording a message.
LEMMA RecordStep ==
  ASSUME TypeOK, NEW m \in Messages, NEW action, Record(m, action)
  PROVE  /\ SaysTheSame
         /\ \A n \in Messages :
              /\ message'[n].action = IF n = m THEN action ELSE message[n].action
              /\ message'[n].at = message[n].at
<1>1. message \in [Messages -> Message]
  BY DEF TypeOK
<1>2. message' = [message EXCEPT ![m] =
        [message[m] EXCEPT !.state = "recorded", !.action = action]]
  BY <1>1 DEF Record, Message
<1>3. \A n \in Messages : n # m => message'[n] = message[n]
  BY <1>1, <1>2
<1>4. message'[m] = [message[m] EXCEPT !.state = "recorded", !.action = action]
  BY <1>1, <1>2
<1>5. /\ message'[m].state = "recorded" /\ message'[m].action = action
      /\ message'[m].kind = message[m].kind /\ message'[m].at = message[m].at
  BY <1>1, <1>4 DEF Message
<1>6. QED
  BY <1>3, <1>5 DEF SaysTheSame

\* A stop that took effect is dated by a consent written from the row as it
\* is, which a consent given by a message is later than.
LEMMA WrittenStep ==
  ASSUME IInv, TypeOK', TxDecided', NEW c \in Command,
         NEW id \in 0..MaxCommands, NEW seen \in User,
         seen.changedAt = user.changedAt, Changes(seen, c),
         user'.consent = Applied(seen, c, id).consent,
         user'.changedAt = Applied(seen, c, id).changedAt,
         event' = EventOf(c),
         Source(c) = "BOT" => c.type \in Keywords /\ ~c.moves,
         \A m \in Messages : message'[m].action = "STOP_CONFIRMATION" =>
           /\ message'[m].at = message[m].at
           /\ \/ message[m].action = "STOP_CONFIRMATION"
              \/ c.type = "STOP" /\ message[m].at = c.at
  PROVE  IInv'
<1>1. user'.changedAt >= user.changedAt /\ user'.changedAt >= c.at
  BY AppliedShape
<1>2. /\ user.changedAt \in Int /\ user'.changedAt \in Int /\ c.at \in Int
      /\ \A m \in Messages : message[m].at \in Int
  BY ConsentAssumption
  DEF IInv, TypeOK, User, Dates, Times, Never, Command, Message
<1>3. StopsDated'
  BY <1>1, <1>2 DEF IInv, StopsDated
<1>4. ConsentAfterStops'
  <2> SUFFICES ASSUME user'.consent = "ACCEPTED", event'.source = "BOT",
                      NEW m \in Messages,
                      message'[m].action = "STOP_CONFIRMATION"
               PROVE  message'[m].at < event'.at
    BY DEF ConsentAfterStops
  <2>1. event'.at = c.at /\ Source(c) = "BOT"
    BY DEF EventOf
  <2>2. c.type # "STOP" /\ c.at > seen.changedAt
    BY <2>1, AcceptedLater
  <2>3. message[m].at <= user.changedAt /\ message'[m].at = message[m].at
    BY <2>2 DEF IInv, StopsDated
  <2>4. QED
    BY <1>2, <2>1, <2>2, <2>3
<1>5. QED
  BY <1>3, <1>4 DEF IInv

\* What the tenant writes, and WARAH receives.
LEMMA MessagesStep ==
  ASSUME IInv, TypeOK',
         Write \/ ReceiveUnknown \/ (\E w \in Writers : Receive(w))
  PROVE  IInv'
<1> USE DEF consentVars
<1>1. TypeOK
  BY DEF IInv
<1>2. CASE Write
  <2>1. PICK m \in Messages, kind \in Kinds :
          /\ message[m].state = "none"
          /\ message' = [message EXCEPT ![m] =
               [Unwritten EXCEPT !.state = "sent", !.kind = kind,
                                 !.at = IF kind = "OTHER" THEN 0 ELSE now]]
    BY <1>2 DEF Write
  <2>2. message'[m].action = NoAction
          /\ \A n \in Messages : n # m => message'[n] = message[n]
    BY <1>1, <2>1 DEF TypeOK, Unwritten
  <2>3. SaysTheSame /\ NoNewStop
    BY <2>1, <2>2 DEF SaysTheSame, NoNewStop, NoAction
  <2>4. QED
    BY <1>2, <2>3, DecidedStep, QuietStep DEF Write
<1>3. CASE ReceiveUnknown
  <2>1. SaysTheSame /\ NoNewStop
    BY <1>1, <1>3, RecordStep DEF ReceiveUnknown, NoNewStop, NoAction
  <2>2. QED
    BY <1>3, <2>1, DecidedStep, QuietStep DEF ReceiveUnknown
<1>4. ASSUME NEW w \in Writers, Receive(w) PROVE IInv'
  <2>1. PICK m \in Messages :
         LET c == KeywordCommand(m) IN
         /\ message[m].state = "sent"
         /\ \/ /\ message[m].kind # "OTHER" /\ Changes(user, c)
               /\ tx' = [tx EXCEPT ![w] = [msg |-> m,
                    command |-> c, id |-> NoRequest, seen |-> user, tries |-> 0]]
               /\ UNCHANGED message
            \/ /\ Record(m, ActionFor(message[m].kind, FALSE, FALSE))
               /\ UNCHANGED tx
    BY <1>4 DEF Receive
  <2>2. CASE Record(m, ActionFor(message[m].kind, FALSE, FALSE)) /\ UNCHANGED tx
    <3>1. ActionFor(message[m].kind, FALSE, FALSE) # "STOP_CONFIRMATION"
      BY ActionShape
    <3>2. SaysTheSame /\ NoNewStop
      BY <1>1, <2>2, <3>1, RecordStep DEF NoNewStop
    <3>3. QED
      BY <1>4, <2>2, <3>2, DecidedStep, QuietStep DEF Receive
  <2>3. CASE /\ message[m].kind # "OTHER" /\ Changes(user, KeywordCommand(m))
             /\ tx' = [tx EXCEPT ![w] = [msg |-> m, command |-> KeywordCommand(m),
                  id |-> NoRequest, seen |-> user, tries |-> 0]]
             /\ UNCHANGED message
    <3>1. SaysTheSame /\ NoNewStop
      BY <2>3 DEF SaysTheSame, NoNewStop
    <3>2. /\ tx'[w] = [msg |-> m, command |-> KeywordCommand(m),
                       id |-> NoRequest, seen |-> user, tries |-> 0]
          /\ \A v \in Writers : v # w => tx'[v] = tx[v]
      BY <1>1, <2>3 DEF TypeOK
    <3>3. KeywordCommand(m).type \in Keywords
      BY <1>1, <2>3 DEF KeywordCommand, TypeOK, Message, Kinds
    <3>4. ~Refused(user, KeywordCommand(m))
      BY <3>3 DEF Refused, Keywords
    <3>5. KeywordCommand(m)' = KeywordCommand(m)
      BY <2>3 DEF KeywordCommand
    <3>6. Decided(w)'
      BY <2>1, <2>3, <3>2, <3>4, <3>5, InboundAssumption DEF Decided
    <3>7. QED
      BY <1>4, <3>1, <3>2, <3>6, DecidedStep, QuietStep DEF Receive
  <2>4. QED
    BY <2>1, <2>2, <2>3
<1>5. QED
  BY <1>2, <1>3, <1>4

\* A message that verifies the number.
LEMMA UnverifiedStep ==
  ASSUME IInv, TypeOK', ReceiveUnverified
  PROVE  IInv'
<1> DEFINE c(m) == KeywordCommand(m)
           changed(m) == message[m].kind # "OTHER" /\ Changes(user, c(m))
<1>1. PICK m \in Messages :
        /\ user' = [IF changed(m) THEN Applied(user, c(m), NoRequest)
                    ELSE user EXCEPT !.verified = TRUE]
        /\ event' = IF changed(m) THEN EventOf(c(m)) ELSE event
        /\ Record(m, ActionFor(message[m].kind, changed(m),
                               user.consent = "ACCEPTED"))
  BY DEF ReceiveUnverified
<1>2. TypeOK /\ user \in User /\ changed(m) \in BOOLEAN
  BY DEF IInv, TypeOK, Changes, MovesNumber, ChangesConsent
<1> DEFINE action == ActionFor(message[m].kind, changed(m),
                               user.consent = "ACCEPTED")
<1>3. action = "STOP_CONFIRMATION" => changed(m) /\ message[m].kind = "STOP"
  <2> HIDE DEF changed
  <2>1. QED
    BY <1>2, ActionShape
<1> HIDE DEF action
<1>4. /\ SaysTheSame
      /\ \A n \in Messages :
           /\ message'[n].action = IF n = m THEN action ELSE message[n].action
           /\ message'[n].at = message[n].at
  BY <1>1, <1>2, RecordStep DEF action
<1>5. TxDecided'
  BY <1>4, DecidedStep DEF ReceiveUnverified
<1>6. CASE ~changed(m)
  <2>1. user' = [user EXCEPT !.verified = TRUE] /\ event' = event
    BY <1>1, <1>6
  <2>2. user'.consent = user.consent /\ user'.changedAt = user.changedAt
    BY <1>2, <2>1 DEF User
  <2>3. NoNewStop
    BY <1>3, <1>4, <1>6 DEF NoNewStop
  <2>4. QED
    BY <1>5, <2>1, <2>2, <2>3, QuietStep
<1>7. CASE changed(m)
  <2>1. c(m) \in Command /\ NoRequest \in 0..MaxCommands
    BY <1>2, <1>7, KeywordShape, Values DEF NoRequest
  <2>2. Applied(user, c(m), NoRequest) \in User
    BY <1>2, <2>1, AppliedShape
  <2>3. /\ user' = [Applied(user, c(m), NoRequest) EXCEPT !.verified = TRUE]
        /\ event' = EventOf(c(m))
    BY <1>1, <1>7
  <2>4. /\ user'.consent = Applied(user, c(m), NoRequest).consent
        /\ user'.changedAt = Applied(user, c(m), NoRequest).changedAt
    BY <2>2, <2>3 DEF User
  <2>5. c(m).type \in Keywords /\ ~c(m).moves /\ c(m).at = message[m].at
          /\ c(m).type = message[m].kind
    BY <1>2, <1>7 DEF KeywordCommand, TypeOK, Message, Kinds
  <2>6. \A n \in Messages : message'[n].action = "STOP_CONFIRMATION" =>
          /\ message'[n].at = message[n].at
          /\ \/ message[n].action = "STOP_CONFIRMATION"
             \/ c(m).type = "STOP" /\ message[n].at = c(m).at
    BY <1>3, <1>4, <2>5
  <2> HIDE DEF c
  <2>7. QED
    BY <1>2, <1>5, <1>7, <2>1, <2>3, <2>4, <2>5, <2>6, WrittenStep
<1>8. QED
  BY <1>6, <1>7

\* The compare-and-swap, and what precedes it.
LEMMA WritersStep ==
  ASSUME IInv, TypeOK', NEW w \in Writers,
         Begin(w) \/ ConsentWrite(w) \/ Rollback(w)
  PROVE  IInv'
<1> DEFINE c == tx[w].command
<1>1. /\ TypeOK /\ user \in User /\ tx[w] \in Tx /\ c \in Command
      /\ tx[w].seen \in User /\ tx[w].id \in 0..MaxCommands
      /\ tx[w].msg \in Messages \cup {NoMessage}
  BY DEF IInv, TypeOK, Tx
<1>2. ASSUME TxDone(w)
      PROVE  \A v \in Writers : tx'[v] = tx[v] \/ tx'[v] = NoTx
  BY <1>1, <1>2 DEF TxDone, TypeOK
<1>3. Decided(w)
  BY DEF IInv, TxDecided
<1>4. CASE Begin(w)
  <2>1. PICK type \in Requested, moves \in BOOLEAN :
         LET d == [type |-> type, at |-> now, moves |-> moves] IN
         /\ ~Refused(user, d) /\ Changes(user, d)
         /\ tx' = [tx EXCEPT ![w] = [msg |-> NoMessage, command |-> d,
              id |-> commands', seen |-> user, tries |-> 0]]
    BY <1>4 DEF Begin
  <2>2. /\ tx'[w] = [msg |-> NoMessage,
                     command |-> [type |-> type, at |-> now, moves |-> moves],
                     id |-> commands', seen |-> user, tries |-> 0]
        /\ \A v \in Writers : v # w => tx'[v] = tx[v]
    BY <1>1, <2>1 DEF TypeOK
  <2>3. Decided(w)'
    BY <2>1, <2>2, InboundAssumption DEF Decided
  <2>4. SaysTheSame /\ NoNewStop
    BY <1>4 DEF Begin, SaysTheSame, NoNewStop
  <2>5. QED
    BY <1>4, <2>2, <2>3, <2>4, DecidedStep, QuietStep DEF Begin
<1>5. ASSUME TxDone(w), UNCHANGED <<user, event, message>> PROVE IInv'
  <2>1. SaysTheSame /\ NoNewStop
    BY <1>5 DEF SaysTheSame, NoNewStop
  <2>2. QED
    BY <1>2, <1>5, <2>1, DecidedStep, QuietStep
<1>6. CASE Rollback(w)
  BY <1>5, <1>6 DEF Rollback, consentVars
<1>7. CASE tx[w] # NoTx /\ ConsentReread(w)
  <2>1. ASSUME tx' = [tx EXCEPT ![w].tries = @ + 1, ![w].seen = user],
               ~Refused(user, c), Changes(user, c), UNCHANGED message
        PROVE  IInv'
    <3>1. tx'[w] = [tx[w] EXCEPT !.tries = @ + 1, !.seen = user]
            /\ \A v \in Writers : v # w => tx'[v] = tx[v]
      BY <1>1, <2>1 DEF TypeOK, Tx
    <3>2. tx'[w].msg = tx[w].msg /\ tx'[w].command = c /\ tx'[w].seen = user
      BY <1>1, <3>1 DEF Tx
    <3>3. KeywordCommand(tx[w].msg)' = KeywordCommand(tx[w].msg)
      BY <2>1, <3>2 DEF KeywordCommand
    <3>4. Decided(w)'
      BY <1>3, <1>7, <2>1, <3>2, <3>3 DEF Decided
    <3>5. SaysTheSame /\ NoNewStop
      BY <2>1 DEF SaysTheSame, NoNewStop
    <3>6. QED
      BY <1>7, <3>1, <3>4, <3>5, DecidedStep, QuietStep DEF ConsentReread
  <2>2. ASSUME TxDone(w), tx[w].msg # NoMessage,
               Record(tx[w].msg, ActionFor(c.type, FALSE, FALSE))
        PROVE  IInv'
    <3>1. ActionFor(c.type, FALSE, FALSE) # "STOP_CONFIRMATION"
      BY ActionShape
    <3>2. SaysTheSame /\ NoNewStop
      BY <1>1, <2>2, <3>1, RecordStep DEF NoNewStop
    <3>3. QED
      BY <1>2, <1>7, <2>2, <3>2, DecidedStep, QuietStep DEF ConsentReread
  <2>3. QED
    BY <1>5, <1>7, <2>1, <2>2 DEF ConsentReread
<1>8. CASE tx[w] # NoTx /\ UnchangedSince(user, tx[w].seen) /\ ConsentWritten(w)
  <2>1. /\ user' = Written(user, tx[w].seen, c, tx[w].id)
        /\ event' = EventOf(c) /\ TxDone(w)
        /\ tx[w].seen.changedAt = user.changedAt /\ Changes(tx[w].seen, c)
    BY <1>3, <1>8 DEF ConsentWritten, UnchangedSince, Decided
  <2>2. /\ user'.consent = Applied(tx[w].seen, c, tx[w].id).consent
        /\ user'.changedAt = Applied(tx[w].seen, c, tx[w].id).changedAt
    BY <1>1, <2>1, WrittenShape
  <2>3. CASE tx[w].msg # NoMessage
    <3>1. /\ tx[w].msg \in Messages
          /\ Record(tx[w].msg, ActionFor(c.type, TRUE, FALSE))
          /\ message[tx[w].msg].kind # "OTHER"
          /\ c = KeywordCommand(tx[w].msg)
      BY <1>1, <1>3, <1>8, <2>3 DEF ConsentWritten, Decided
    <3>2. c.type \in Keywords /\ ~c.moves /\ c.at = message[tx[w].msg].at
      BY <1>1, <3>1 DEF KeywordCommand, TypeOK, Message, Kinds
    <3>3. ActionFor(c.type, TRUE, FALSE) = "STOP_CONFIRMATION" => c.type = "STOP"
      BY ActionShape
    <3>4. /\ SaysTheSame
          /\ \A m \in Messages : message'[m].action = "STOP_CONFIRMATION" =>
               /\ message'[m].at = message[m].at
               /\ \/ message[m].action = "STOP_CONFIRMATION"
                  \/ c.type = "STOP" /\ message[m].at = c.at
      BY <1>1, <3>1, <3>2, <3>3, RecordStep
    <3>5. TxDecided'
      BY <1>2, <2>1, <3>4, DecidedStep
    <3> HIDE DEF c
    <3>6. QED
      BY <1>1, <2>1, <2>2, <3>2, <3>4, <3>5, WrittenStep
  <2>4. CASE tx[w].msg = NoMessage
    <3>1. Source(c) # "BOT"
      BY <1>3, <1>8, <2>4
      DEF Decided, Source, AgencyTypes, TenantTypes, Keywords
    <3>2. message' = message \/ message' = Estranged
      BY <1>8, <2>4 DEF ConsentWritten
    <3>3. \A m \in Messages :
            LET r == [message[m] EXCEPT !.known = FALSE] IN
            r.state = message[m].state /\ r.kind = message[m].kind
              /\ r.at = message[m].at /\ r.action = message[m].action
      BY <1>1 DEF TypeOK, Message
    <3>4. \A m \in Messages :
            \/ message'[m] = message[m]
            \/ message'[m] = [message[m] EXCEPT !.known = FALSE]
      BY <3>2 DEF Estranged
    <3>5. SaysTheSame /\ NoNewStop
      BY <3>3, <3>4 DEF SaysTheSame, NoNewStop
    <3>6. TxDecided'
      BY <1>2, <2>1, <3>5, DecidedStep
    <3> HIDE DEF c
    <3>7. QED
      BY <1>1, <2>1, <2>2, <3>1, <3>5, <3>6, WrittenStep DEF NoNewStop
  <2>5. QED
    BY <2>3, <2>4
<1>9. QED
  BY <1>4, <1>5, <1>6, <1>7, <1>8 DEF ConsentWrite

\* The processor and the bot change neither the consent nor its date.
LEMMA ProcessorStep ==
  ASSUME IInv, TypeOK', NEW k \in Processors,
         Reserve(k) \/ GoOn(k) \/ Interrupt(k)
  PROVE  IInv'
<1> USE DEF consentVars
<1>1. TypeOK /\ user \in User /\ message \in [Messages -> Message]
        /\ message' \in [Messages -> Message]
  BY DEF IInv, TypeOK
<1>2. tx' = tx /\ event' = event
  BY DEF Reserve, GoOn, Interrupt, BotSilent, BotMenu, BotReserveInvitation,
         BotInvite, Answer, Processed
<1>3. user'.consent = user.consent /\ user'.changedAt = user.changedAt
  BY <1>1
  DEF User, Reserve, GoOn, Interrupt, BotSilent, BotMenu, BotReserveInvitation,
      BotInvite, Answer, Processed
<1> DEFINE Same(s, r) == /\ s.state = r.state /\ s.kind = r.kind
                         /\ s.at = r.at /\ s.action = r.action
<1>4. ASSUME NEW r \in Message, NEW n \in Int, NEW b \in BOOLEAN
      PROVE  /\ Same([r EXCEPT !.fresh = b, !.attempts = n], r)
             /\ Same([r EXCEPT !.fresh = b], r)
             /\ Same([r EXCEPT !.answered = b], r)
             /\ Same([r EXCEPT !.processed = TRUE, !.fresh = b], r)
  BY DEF Message
<1>5. \A m \in Messages :
        /\ Same(message[m], message[m])
        /\ Same([message[m] EXCEPT !.answered = TRUE], message[m])
        /\ Same([message[m] EXCEPT !.processed = TRUE, !.fresh = FALSE],
                message[m])
  BY <1>1 DEF Message
<1>6. \A m \in Messages : Same(message'[m], message[m])
  <2>1. CASE Reserve(k)
    <3>1. PICK m \in Messages : message' =
            [message EXCEPT ![m].fresh = TRUE, ![m].attempts = @ + 1]
      BY <2>1 DEF Reserve
    <3>2. message' = [message EXCEPT ![m] =
            [message[m] EXCEPT !.fresh = TRUE, !.attempts = message[m].attempts + 1]]
      BY <1>1, <3>1 DEF Message
    <3>3. message[m].attempts + 1 \in Int /\ message[m] \in Message
      BY <1>1 DEF Message
    <3>4. Same(message'[m], message[m])
      BY <1>1, <1>4, <3>2, <3>3
    <3>5. \A n \in Messages : n # m => message'[n] = message[n]
      BY <1>1, <3>2
    <3>6. QED
      BY <3>4, <3>5
  <2>2. CASE Interrupt(k)
    BY <1>1, <1>4, <2>2 DEF Interrupt
  <2>3. CASE Answer(k)
    <3>1. \A m \in Messages :
            \/ message'[m] = message[m]
            \/ message'[m] = [message[m] EXCEPT !.answered = TRUE]
      BY <1>1, <2>3 DEF Answer, Reply
    <3> HIDE DEF Same
    <3>2. QED
      BY <1>5, <3>1
  <2>4. CASE BotMenu(k)
    <3>1. \A m \in Messages :
            \/ message'[m] = message[m]
            \/ message'[m] = [message[m] EXCEPT !.processed = TRUE, !.fresh = FALSE]
      BY <1>1, <2>4 DEF BotMenu, Claimed, Message
    <3> HIDE DEF Same
    <3>2. QED
      BY <1>5, <3>1
  <2>5. CASE Processed(k)
    BY <1>1, <1>4, <2>5 DEF Processed
  <2>6. CASE BotSilent(k) \/ BotReserveInvitation(k) \/ BotInvite(k)
    BY <2>6 DEF BotSilent, BotReserveInvitation, BotInvite
  <2>7. QED
    BY <2>1, <2>2, <2>3, <2>4, <2>5, <2>6 DEF GoOn
<1>7. SaysTheSame /\ NoNewStop
  BY <1>6 DEF SaysTheSame, NoNewStop
<1>8. QED
  BY <1>2, <1>3, <1>7, DecidedStep, QuietStep

LEMMA IInvStep ==
  ASSUME IInv, [Next]_vars
  PROVE  IInv'
<1>1. TypeOK'
  BY TypeStep DEF IInv
<1>2. CASE UNCHANGED vars
  <2>1. SaysTheSame /\ NoNewStop
    BY <1>2 DEF vars, SaysTheSame, NoNewStop
  <2>2. QED
    BY <1>1, <1>2, <2>1, DecidedStep, QuietStep DEF vars
<1>3. CASE Tick
  <2>1. SaysTheSame /\ NoNewStop
    BY <1>3 DEF Tick, SaysTheSame, NoNewStop
  <2>2. QED
    BY <1>1, <1>3, <2>1, DecidedStep, QuietStep DEF Tick, consentVars
<1>4. QED
  BY <1>1, <1>2, <1>3, MessagesStep, UnverifiedStep, WritersStep, ProcessorStep
  DEF Next

LEMMA IInvCorrect == Spec => []IInv
<1>1. Init => IInv
  <2>1. Init => TypeOK
    BY Values DEF Init, TypeOK
  <2>2. Init => TxDecided /\ StopsDated /\ ConsentAfterStops
    BY DEF Init, TxDecided, Decided, StopsDated, ConsentAfterStops, Unwritten,
           NoAction, NewUser
  <2>3. QED
    BY <2>1, <2>2 DEF IInv
<1>2. IInv /\ [Next]_vars => IInv'
  BY IInvStep
<1>3. QED
  BY <1>1, <1>2, PTL DEF Spec

\* The consent given by a message is later than every stop that took effect
\* (decideConsent, isStale; applyConsentCommand).
THEOREM ConsentAfterStopsCorrect == Spec => []ConsentAfterStops
<1>1. IInv => ConsentAfterStops
  BY DEF IInv
<1>2. QED
  BY <1>1, IInvCorrect, PTL

\* One step from a stop: what leaves it is the tenant's, even when it was
\* decided before the stop (applyConsentCommand, its compare-and-swap).
LEMMA StopStep ==
  ASSUME IInv, [Next]_vars, user.consent = "STOPPED", user'.consent # "STOPPED"
  PROVE  event'.source \in {"TENANT_PORTAL", "BOT"}
<1>1. /\ TypeOK /\ user \in User /\ tx \in [Writers -> Tx]
      /\ message \in [Messages -> Message]
  BY DEF IInv, TypeOK
<1>2. CASE ReceiveUnverified
  <2>1. PICK m \in Messages :
          LET c == KeywordCommand(m)
              changed == message[m].kind # "OTHER" /\ Changes(user, c)
          IN /\ user' = [IF changed THEN Applied(user, c, NoRequest) ELSE user
                         EXCEPT !.verified = TRUE]
             /\ event' = IF changed THEN EventOf(c) ELSE event
    BY <1>2 DEF ReceiveUnverified
  <2>2. CASE message[m].kind # "OTHER" /\ Changes(user, KeywordCommand(m))
    <3>1. event' = EventOf(KeywordCommand(m))
      BY <2>1, <2>2
    <3>2. KeywordCommand(m).type \in Keywords
      BY <1>1, <2>2 DEF KeywordCommand, Message, Kinds
    <3>3. QED
      BY <3>1, <3>2 DEF EventOf, Source
  <2>3. CASE ~(message[m].kind # "OTHER" /\ Changes(user, KeywordCommand(m)))
    <3>1. user' = [user EXCEPT !.verified = TRUE]
      BY <2>1, <2>3
    <3>2. QED
      BY <1>1, <3>1 DEF User
  <2>4. QED
    BY <2>2, <2>3
<1>3. ASSUME NEW w \in Writers, tx[w] # NoTx,
             UnchangedSince(user, tx[w].seen), ConsentWritten(w)
      PROVE  event'.source \in {"TENANT_PORTAL", "BOT"}
  <2> DEFINE c == tx[w].command
             seen == tx[w].seen
             id == tx[w].id
  <2>1. c \in Command /\ seen \in User /\ id \in 0..MaxCommands
    BY <1>1 DEF Tx
  <2>2. ~Refused(seen, c) /\ Changes(seen, c)
    BY <1>3 DEF IInv, TxDecided, Decided
  <2>3. user' = Written(user, seen, c, id) /\ event' = EventOf(c)
          /\ seen.consent = "STOPPED"
    BY <1>3 DEF ConsentWritten, UnchangedSince
  <2> HIDE DEF c, seen, id
  <2>4. user'.consent = Applied(seen, c, id).consent
    BY <1>1, <2>1, <2>3, WrittenShape
  <2>5. Source(c) \in {"TENANT_PORTAL", "BOT"}
    BY <2>1, <2>2, <2>3, <2>4, StopKept
  <2>6. QED
    BY <2>3, <2>5 DEF EventOf
<1>4. ASSUME NEW w \in Writers,
             Begin(w) \/ Receive(w) \/ Rollback(w) \/ UNCHANGED user
      PROVE  FALSE
  BY <1>4 DEF Begin, Receive, Rollback, consentVars
<1>5. ASSUME NEW w \in Writers, ConsentWrite(w)
      PROVE  event'.source \in {"TENANT_PORTAL", "BOT"}
  BY <1>3, <1>5 DEF ConsentWrite, ConsentReread
<1>6. ASSUME NEW k \in Processors, Reserve(k) \/ GoOn(k) \/ Interrupt(k)
      PROVE  FALSE
  BY <1>1, <1>6
  DEF User, consentVars, Reserve, GoOn, Interrupt, BotSilent, BotMenu,
      BotReserveInvitation, BotInvite, Answer, Processed
<1>7. CASE Tick \/ Write \/ ReceiveUnknown \/ UNCHANGED vars
  BY <1>7 DEF Tick, Write, ReceiveUnknown, vars, consentVars
<1>8. QED
  BY <1>2, <1>4, <1>5, <1>6, <1>7 DEF Next

\* Nobody but the tenant leaves a stop (applyConsentCommand).
THEOREM OnlyTenantLeavesStopCorrect == Spec => OnlyTenantLeavesStop
<1>1. IInv /\ [Next]_vars =>
        [user.consent = "STOPPED" /\ user'.consent # "STOPPED" =>
           event'.source \in {"TENANT_PORTAL", "BOT"}]_vars
  BY StopStep
<1>2. QED
  BY <1>1, IInvCorrect, PTL DEF Spec, OnlyTenantLeavesStop

-----------------------------------------------------------------------------
(* The answers.  An answer of replyOnce leaves a trace that the next one   *)
(* looks for; the bot's is claimed by the processing that makes it.        *)

\* A processing has a message that asks for something; the bot's is marked
\* processed before it is answered.
Asking(k) ==
  processor[k].pc # "idle" =>
    /\ processor[k].msg \in Messages
    /\ message[processor[k].msg].state = "recorded"
    /\ message[processor[k].msg].action # NoAction
    /\ processor[k].pc = "bot" => message[processor[k].msg].action = "BOT"
    /\ processor[k].pc = "answer" /\ message[processor[k].msg].action = "BOT"
         => message[processor[k].msg].processed

\* k is about to give m the bot's answer.
Answering(k, m) ==
  processor[k].pc = "answer" /\ processor[k].msg = m /\ message[m].action = "BOT"

\* A message that was answered shows it.
Traced(m) ==
  replies[m] # 0 =>
    /\ replies[m] = 1 /\ message[m].state = "recorded"
    /\ IF message[m].action = "BOT"
       THEN message[m].processed /\ \A k \in Processors : ~Answering(k, m)
       ELSE message[m].answered

AnswersOK ==
  /\ TypeOK
  /\ \A k \in Processors : Asking(k)
  /\ \A m \in Messages : \A j, k \in Processors :
       Answering(j, m) /\ Answering(k, m) => j = k
  /\ \A m \in Messages : Traced(m)

\* What a recorded message keeps.
RecordedKept ==
  \A m \in Messages : message[m].state = "recorded" =>
    /\ message'[m].state = "recorded"
    /\ message'[m].action = message[m].action
    /\ message[m].processed => message'[m].processed
    /\ message[m].answered => message'[m].answered

\* A step after which no processing answers that did not answer before.
LEMMA NoNewAnswer ==
  ASSUME AnswersOK, TypeOK', RecordedKept, replies' = replies,
         \A k \in Processors :
           \/ processor'[k] = processor[k]
           \/ processor'[k].pc = "idle"
           \/ /\ processor[k].pc # "idle"
              /\ processor'[k].pc \in {"invite", "done"}
              /\ processor'[k].msg = processor[k].msg
  PROVE  AnswersOK'
<1>1. \A k \in Processors : Asking(k)'
  BY DEF AnswersOK, Asking, RecordedKept
<1>2. \A k \in Processors : \A m \in Messages :
        Answering(k, m)' => Answering(k, m)
  BY DEF AnswersOK, Asking, Answering, RecordedKept
<1>3. \A m \in Messages : Traced(m)'
  <2> SUFFICES ASSUME NEW m \in Messages, replies[m] # 0
               PROVE  Traced(m)'
    BY DEF Traced
  <2>1. Traced(m)
    BY DEF AnswersOK
  <2>2. QED
    BY <1>2, <2>1 DEF Traced, RecordedKept
<1>4. QED
  BY <1>1, <1>2, <1>3 DEF AnswersOK

\* Recording a message that was not.
LEMMA RecordKept ==
  ASSUME TypeOK, NEW m \in Messages, NEW action, Record(m, action),
         message[m].state # "recorded"
  PROVE  RecordedKept
<1>1. message' = [message EXCEPT ![m] =
        [message[m] EXCEPT !.state = "recorded", !.action = action]]
  BY DEF TypeOK, Record, Message
<1>2. \A n \in Messages : n # m => message'[n] = message[n]
  BY <1>1 DEF TypeOK
<1>3. QED
  BY <1>2 DEF RecordedKept

\* The consent and the deliveries leave recorded messages as they are.
LEMMA OthersKept ==
  ASSUME TypeOK,
         \/ Tick \/ Write \/ ReceiveUnknown \/ ReceiveUnverified
         \/ \E w \in Writers :
              Begin(w) \/ Receive(w) \/ ConsentWrite(w) \/ Rollback(w)
  PROVE  RecordedKept /\ replies' = replies /\ processor' = processor
<1> USE DEF consentVars
<1>1. ASSUME UNCHANGED message PROVE RecordedKept
  BY <1>1 DEF RecordedKept
<1>2. CASE Tick
  BY <1>1, <1>2 DEF Tick
<1>3. CASE Write
  <2>1. PICK m \in Messages, kind \in Kinds :
          /\ message[m].state = "none"
          /\ message' = [message EXCEPT ![m] =
               [Unwritten EXCEPT !.state = "sent", !.kind = kind,
                                 !.at = IF kind = "OTHER" THEN 0 ELSE now]]
    BY <1>3 DEF Write
  <2>2. \A n \in Messages : n # m => message'[n] = message[n]
    BY <2>1 DEF TypeOK
  <2>3. QED
    BY <1>3, <2>1, <2>2 DEF Write, RecordedKept
<1>4. CASE ReceiveUnknown
  BY <1>4, RecordKept DEF ReceiveUnknown
<1>5. CASE ReceiveUnverified
  <2>1. PICK m \in Messages :
          /\ message[m].state = "sent"
          /\ \E action : Record(m, action)
    BY <1>5 DEF ReceiveUnverified
  <2>2. QED
    BY <1>5, <2>1, RecordKept DEF ReceiveUnverified
<1>6. ASSUME NEW w \in Writers, Begin(w) \/ Rollback(w)
      PROVE  RecordedKept /\ replies' = replies /\ processor' = processor
  BY <1>1, <1>6 DEF Begin, Rollback
<1>7. ASSUME NEW w \in Writers, Receive(w)
      PROVE  RecordedKept /\ replies' = replies /\ processor' = processor
  <2>1. PICK m \in Messages :
          /\ message[m].state = "sent"
          /\ UNCHANGED message \/ \E action : Record(m, action)
    BY <1>7 DEF Receive
  <2>2. QED
    BY <1>1, <1>7, <2>1, RecordKept DEF Receive
<1>8. ASSUME NEW w \in Writers, ConsentWrite(w)
      PROVE  RecordedKept /\ replies' = replies /\ processor' = processor
  <2>1. tx[w].msg \in Messages \cup {NoMessage}
    BY DEF TypeOK, Tx
  <2>2. \/ UNCHANGED message \/ message' = Estranged
        \/ /\ tx[w].msg # NoMessage /\ ~Duplicate(w)
           /\ \E action : Record(tx[w].msg, action)
    BY <1>8 DEF ConsentWrite, ConsentWritten, ConsentReread
  <2>3. CASE message' = Estranged
    <3>1. \A m \in Messages :
            LET r == [message[m] EXCEPT !.known = FALSE] IN
            /\ r.state = message[m].state /\ r.action = message[m].action
            /\ r.processed = message[m].processed
            /\ r.answered = message[m].answered
      BY DEF TypeOK, Message
    <3>2. \A m \in Messages :
            \/ message'[m] = message[m]
            \/ message'[m] = [message[m] EXCEPT !.known = FALSE]
      BY <2>3 DEF Estranged
    <3>3. \A m \in Messages :
            /\ message'[m].state = message[m].state
            /\ message'[m].action = message[m].action
            /\ message'[m].processed = message[m].processed
            /\ message'[m].answered = message[m].answered
      BY <3>1, <3>2
    <3>4. RecordedKept
      BY <3>3 DEF RecordedKept
    <3>5. QED
      BY <1>8, <3>4 DEF ConsentWrite
  <2>4. CASE /\ tx[w].msg # NoMessage /\ ~Duplicate(w)
             /\ \E action : Record(tx[w].msg, action)
    <3>1. tx[w].msg \in Messages /\ message[tx[w].msg].state # "recorded"
      BY <2>1, <2>4 DEF Duplicate
    <3>2. PICK action : Record(tx[w].msg, action)
      BY <2>4
    <3>3. RecordedKept
      BY <3>1, <3>2, RecordKept
    <3>4. QED
      BY <1>8, <3>3 DEF ConsentWrite
  <2>5. QED
    BY <1>1, <1>8, <2>2, <2>3, <2>4 DEF ConsentWrite
<1>9. QED
  BY <1>2, <1>3, <1>4, <1>5, <1>6, <1>7, <1>8

\* What the processings write to a message, but for a reply: when it is
\* processed, and how often it was tried.
LEMMA ProcessedKept ==
  ASSUME TypeOK, NEW m \in Messages \cup {NoMessage}, NEW r,
         message' = [message EXCEPT ![m] = r],
         m \in Messages =>
           /\ r.state = message[m].state /\ r.action = message[m].action
           /\ r.answered = message[m].answered
           /\ message[m].processed => r.processed
  PROVE  RecordedKept
<1>1. message \in [Messages -> Message]
  BY DEF TypeOK
<1>2. \A n \in Messages : n # m => message'[n] = message[n]
  BY <1>1
<1>3. m \in Messages => message'[m] = r
  BY <1>1
<1>4. QED
  BY <1>2, <1>3 DEF RecordedKept

\* A message that leaves the processing, or is claimed by it.
LEMMA MarkedKept ==
  ASSUME TypeOK, NEW m \in Messages \cup {NoMessage},
         \/ message' = [message EXCEPT ![m].fresh = FALSE]
         \/ message' = [message EXCEPT ![m].processed = TRUE, ![m].fresh = FALSE]
  PROVE  RecordedKept
<1> DEFINE q == [message[m] EXCEPT !.fresh = FALSE]
           r == [message[m] EXCEPT !.processed = TRUE, !.fresh = FALSE]
<1>1. m \in Messages => message[m] \in Message
  BY DEF TypeOK
<1>2. m \in Messages =>
        /\ q.state = message[m].state /\ q.action = message[m].action
        /\ q.answered = message[m].answered
        /\ q.processed = message[m].processed
        /\ r.state = message[m].state /\ r.action = message[m].action
        /\ r.answered = message[m].answered /\ r.processed
  BY <1>1 DEF Message
<1>3. \/ message' = [message EXCEPT ![m] = q]
      \/ message' = [message EXCEPT ![m] = r]
  BY DEF TypeOK, Message
<1> HIDE DEF q, r
<1>4. QED
  BY <1>2, <1>3, ProcessedKept

\* A reservation: the message has no answer of the bot under way.
LEMMA ReserveAnswers ==
  ASSUME AnswersOK, TypeOK', NEW k \in Processors, Reserve(k)
  PROVE  AnswersOK'
<1>1. PICK m \in Messages :
        /\ ToProcess(m)
        /\ message' = [message EXCEPT ![m].fresh = TRUE, ![m].attempts = @ + 1]
        /\ processor' = [processor EXCEPT ![k] =
             [pc |-> IF message[m].action = "BOT" THEN "bot" ELSE "answer",
              msg |-> m, at |-> 0]]
  BY DEF Reserve
<1>2. /\ message \in [Messages -> Message]
      /\ processor \in [Processors -> Processing]
  BY DEF AnswersOK, TypeOK
<1> DEFINE r == [message[m] EXCEPT !.fresh = TRUE, !.attempts = @ + 1]
<1>3. message' = [message EXCEPT ![m] = r]
  BY <1>1, <1>2 DEF Message
<1>4. /\ r.state = message[m].state /\ r.action = message[m].action
      /\ r.answered = message[m].answered
      /\ r.processed = message[m].processed
  BY <1>2 DEF Message
<1> HIDE DEF r
<1>5. RecordedKept
  BY <1>3, <1>4, ProcessedKept DEF AnswersOK
<1>6. /\ processor'[k].msg = m
      /\ processor'[k].pc = IF message[m].action = "BOT" THEN "bot" ELSE "answer"
      /\ \A j \in Processors : j # k => processor'[j] = processor[j]
  BY <1>1, <1>2
<1>7. message'[m].state = "recorded" /\ message'[m].action = message[m].action
        /\ message[m].action # NoAction
  BY <1>1, <1>5 DEF ToProcess, RecordedKept
<1>8. \A j \in Processors : Asking(j)'
  BY <1>5, <1>6, <1>7 DEF AnswersOK, Asking, RecordedKept
<1>9. \A j \in Processors : \A n \in Messages :
        Answering(j, n)' => Answering(j, n)
  <2> SUFFICES ASSUME NEW j \in Processors, NEW n \in Messages, Answering(j, n)'
               PROVE  Answering(j, n)
    OBVIOUS
  <2>1. CASE j = k
    BY <1>6, <1>7, <2>1 DEF Answering
  <2>2. CASE j # k
    BY <1>5, <1>6, <2>2 DEF AnswersOK, Asking, Answering, RecordedKept
  <2>3. QED
    BY <2>1, <2>2
<1>10. replies' = replies
  BY DEF Reserve
<1>11. \A n \in Messages : Traced(n)'
  <2> SUFFICES ASSUME NEW n \in Messages, replies[n] # 0
               PROVE  Traced(n)'
    BY <1>10 DEF Traced
  <2>1. Traced(n)
    BY DEF AnswersOK
  <2>2. QED
    BY <1>5, <1>9, <1>10, <2>1 DEF Traced, RecordedKept
<1>12. QED
  BY <1>8, <1>9, <1>11 DEF AnswersOK

\* The claim: the message was not processed, so that nobody answers it and it
\* has no answer.
LEMMA MenuAnswers ==
  ASSUME AnswersOK, TypeOK', NEW k \in Processors, BotMenu(k),
         ~message[processor[k].msg].processed
  PROVE  AnswersOK'
<1>1. /\ message \in [Messages -> Message]
      /\ processor \in [Processors -> Processing] /\ processor[k].pc = "bot"
  BY DEF AnswersOK, TypeOK, BotMenu
<1>2. PICK m \in Messages :
        /\ processor[k].msg = m /\ message[m].state = "recorded"
        /\ message[m].action = "BOT"
  BY <1>1 DEF AnswersOK, Asking
<1>3. message' = [message EXCEPT ![m].processed = TRUE, ![m].fresh = FALSE]
  BY <1>2 DEF BotMenu, Claimed
<1>4. RecordedKept
  BY <1>3, MarkedKept DEF AnswersOK
<1>5. message'[m].processed
  <2>1. message'[m] = [message[m] EXCEPT !.processed = TRUE, !.fresh = FALSE]
    BY <1>1, <1>2, <1>3 DEF Message
  <2>2. QED
    BY <1>1, <1>2, <2>1 DEF Message
<1>6. /\ processor'[k].pc = "answer" /\ processor'[k].msg = m
      /\ \A j \in Processors : j # k => processor'[j] = processor[j]
  BY <1>1, <1>2 DEF BotMenu, Goto, Processing
<1>7. replies' = replies
  BY DEF BotMenu
<1>8. \A j \in Processors : ~Answering(j, m)
  BY <1>2 DEF AnswersOK, Asking, Answering
<1>9. replies[m] = 0
  BY <1>2 DEF AnswersOK, Traced
<1>10. \A n \in Messages : \A j \in Processors \ {k} :
         Answering(j, n)' => Answering(j, n)
  BY <1>4, <1>6 DEF AnswersOK, Asking, Answering, RecordedKept
<1>11. \A n \in Messages : Answering(k, n)' => n = m
  BY <1>6 DEF Answering
<1>12. \A j \in Processors : Asking(j)'
  <2>1. Asking(k)'
    BY <1>2, <1>4, <1>5, <1>6 DEF Asking, RecordedKept, NoAction
  <2>2. \A j \in Processors \ {k} : Asking(j)'
    BY <1>4, <1>6 DEF AnswersOK, Asking, RecordedKept
  <2>3. QED
    BY <2>1, <2>2
<1>13. \A n \in Messages : \A i, j \in Processors :
         Answering(i, n)' /\ Answering(j, n)' => i = j
  BY <1>8, <1>10, <1>11 DEF AnswersOK
<1>14. \A n \in Messages : Traced(n)'
  <2> SUFFICES ASSUME NEW n \in Messages, replies[n] # 0
               PROVE  Traced(n)'
    BY <1>7 DEF Traced
  <2>1. Traced(n) /\ n # m
    BY <1>9 DEF AnswersOK
  <2>2. QED
    BY <1>4, <1>7, <1>10, <1>11, <2>1 DEF Traced, RecordedKept
<1>15. QED
  BY <1>12, <1>13, <1>14 DEF AnswersOK

\* The answer: there was none, and it leaves its trace.
LEMMA AnswerAnswers ==
  ASSUME AnswersOK, TypeOK', NEW k \in Processors, Answer(k)
  PROVE  AnswersOK'
<1>1. /\ message \in [Messages -> Message] /\ replies \in [Messages -> Nat]
      /\ processor \in [Processors -> Processing] /\ processor[k].pc = "answer"
  BY DEF AnswersOK, TypeOK, Answer
<1>2. PICK m \in Messages :
        /\ processor[k].msg = m /\ message[m].state = "recorded"
        /\ message[m].action # NoAction
        /\ message[m].action = "BOT" => message[m].processed
  BY <1>1 DEF AnswersOK, Asking
<1>3. /\ processor'[k].pc = "done" /\ processor'[k].msg = m
      /\ \A j \in Processors : j # k => processor'[j] = processor[j]
  BY <1>1, <1>2 DEF Answer, Goto, Processing
<1>4. CASE UNCHANGED <<message, replies>>
  <2>1. RecordedKept
    BY <1>4 DEF RecordedKept
  <2>2. QED
    BY <1>1, <1>2, <1>3, <1>4, <2>1, NoNewAnswer
<1>5. CASE ToAnswer(m) /\ Reply(m)
  <2>1. \A n \in Messages :
          message'[n] =
            IF message[n].action = message[m].action /\ message[m].action # "BOT"
            THEN [message[n] EXCEPT !.answered = TRUE] ELSE message[n]
    BY <1>5 DEF Reply
  <2>2. \A n \in Messages :
          LET r == [message[n] EXCEPT !.answered = TRUE] IN
          /\ r.answered /\ r.processed = message[n].processed
          /\ r.state = message[n].state /\ r.action = message[n].action
    BY <1>1 DEF Message
  <2>3. /\ RecordedKept
        /\ message[m].action # "BOT" => message'[m].answered
    BY <1>2, <2>1, <2>2 DEF RecordedKept
  <2>4. /\ replies'[m] = replies[m] + 1
        /\ \A n \in Messages : n # m => replies'[n] = replies[n]
    BY <1>1, <1>2, <1>5 DEF Reply
  <2>5. replies[m] = 0
    <3>1. CASE message[m].action = "BOT"
      BY <1>1, <1>2, <3>1 DEF AnswersOK, Traced, Answering
    <3>2. CASE message[m].action # "BOT"
      BY <1>2, <1>5, <3>2 DEF AnswersOK, Traced, ToAnswer
    <3>3. QED
      BY <3>1, <3>2
  <2>6. replies'[m] = 1
    BY <2>4, <2>5
  <2>7. \A j \in Processors : Asking(j)'
    BY <1>2, <1>3, <2>3 DEF AnswersOK, Asking, RecordedKept
  <2>8. \A j \in Processors : \A n \in Messages :
          Answering(j, n)' => Answering(j, n) /\ j # k
    BY <1>3, <2>3 DEF AnswersOK, Asking, Answering, RecordedKept
  <2>9. message[m].action = "BOT" => \A j \in Processors : ~Answering(j, m)'
    BY <1>1, <1>2, <2>8 DEF AnswersOK, Answering
  <2>10. Traced(m)'
    <3>1. /\ message'[m].state = "recorded"
          /\ message'[m].action = message[m].action
          /\ message[m].processed => message'[m].processed
      BY <1>2, <2>3 DEF RecordedKept
    <3>2. QED
      BY <1>2, <2>3, <2>6, <2>9, <3>1 DEF Traced
  <2>11. \A n \in Messages : n # m => Traced(n)'
    <3> SUFFICES ASSUME NEW n \in Messages, n # m, replies[n] # 0
                 PROVE  Traced(n)'
      BY <2>4 DEF Traced
    <3>1. Traced(n)
      BY DEF AnswersOK
    <3>2. QED
      BY <2>3, <2>4, <2>8, <3>1 DEF Traced, RecordedKept
  <2>12. \A n \in Messages : \A i, j \in Processors :
           Answering(i, n)' /\ Answering(j, n)' => i = j
    BY <2>8 DEF AnswersOK
  <2>13. QED
    BY <2>7, <2>10, <2>11, <2>12 DEF AnswersOK
<1>6. QED
  BY <1>2, <1>4, <1>5 DEF Answer

\* Every step of a processing keeps the answers.
LEMMA ProcessorAnswers ==
  ASSUME AnswersOK, TypeOK', NEW k \in Processors,
         Reserve(k) \/ GoOn(k) \/ Interrupt(k)
  PROVE  AnswersOK'
<1>1. /\ TypeOK /\ processor \in [Processors -> Processing]
      /\ processor[k].msg \in Messages \cup {NoMessage}
  BY DEF AnswersOK, TypeOK, Processing
<1>2. CASE Interrupt(k) \/ Processed(k)
  <2>1. RecordedKept
    BY <1>1, <1>2, MarkedKept DEF Interrupt, Processed
  <2>2. processor' = [processor EXCEPT ![k] = NoProcessing]
        /\ replies' = replies
    BY <1>2 DEF Interrupt, Processed
  <2>3. NoProcessing.pc = "idle"
    BY DEF NoProcessing
  <2>4. QED
    BY <1>1, <2>1, <2>2, <2>3, NoNewAnswer
<1>3. ASSUME UNCHANGED <<message, replies>>, processor[k].pc # "idle",
             processor'[k].pc \in {"invite", "done"},
             processor'[k].msg = processor[k].msg,
             \A j \in Processors : j # k => processor'[j] = processor[j]
      PROVE  AnswersOK'
  <2>1. RecordedKept
    BY <1>3 DEF RecordedKept
  <2>2. QED
    BY <1>3, <2>1, NoNewAnswer
<1>4. CASE BotSilent(k)
  BY <1>1, <1>3, <1>4 DEF BotSilent, Goto, Processing
<1>5. CASE BotMenu(k)
  <2>1. CASE message[processor[k].msg].processed
    BY <1>1, <1>3, <1>5, <2>1 DEF BotMenu, Goto, Processing
  <2>2. QED
    BY <1>5, <2>1, MenuAnswers
<1>6. CASE BotReserveInvitation(k)
  <2>1. processor'[k] = [processor[k] EXCEPT !.pc = "invite", !.at = now]
        /\ \A j \in Processors : j # k => processor'[j] = processor[j]
    BY <1>1, <1>6 DEF BotReserveInvitation, Processing
  <2>2. QED
    BY <1>1, <1>3, <1>6, <2>1 DEF BotReserveInvitation, Processing
<1>7. CASE BotInvite(k)
  <2>1. processor'[k] = [processor[k] EXCEPT !.pc = "done", !.at = 0]
        /\ \A j \in Processors : j # k => processor'[j] = processor[j]
    BY <1>1, <1>7 DEF BotInvite, Processing
  <2>2. QED
    BY <1>1, <1>3, <1>7, <2>1 DEF BotInvite, Processing
<1>8. QED
  BY <1>2, <1>4, <1>5, <1>6, <1>7, ReserveAnswers, AnswerAnswers DEF GoOn

\* A message is answered once at most, by whatever processings the signal and
\* the recovery task start, and wherever they stop (replyOnce; respond).
THEOREM AnsweredOnceCorrect == Spec => []AnsweredOnce
<1>1. Init => AnswersOK
  <2> SUFFICES ASSUME Init
               PROVE  AnswersOK
    OBVIOUS
  <2>1. TypeOK
    BY Values DEF Init, TypeOK
  <2>2. \A k \in Processors : processor[k].pc = "idle"
    BY DEF Init, NoProcessing
  <2>3. \A m \in Messages : replies[m] = 0
    BY DEF Init
  <2>4. QED
    BY <2>1, <2>2, <2>3 DEF AnswersOK, Asking, Answering, Traced
<1>2. AnswersOK /\ [Next]_vars => AnswersOK'
  <2> SUFFICES ASSUME AnswersOK, [Next]_vars
               PROVE  AnswersOK'
    OBVIOUS
  <2>1. TypeOK /\ TypeOK'
    BY TypeStep DEF AnswersOK
  <2>2. CASE UNCHANGED vars
    <3>1. RecordedKept
      BY <2>2 DEF vars, RecordedKept
    <3>2. QED
      BY <2>1, <2>2, <3>1, NoNewAnswer DEF vars
  <2>3. CASE \/ Tick \/ Write \/ ReceiveUnknown \/ ReceiveUnverified
             \/ \E w \in Writers :
                  Begin(w) \/ Receive(w) \/ ConsentWrite(w) \/ Rollback(w)
    BY <2>1, <2>3, OthersKept, NoNewAnswer
  <2>4. CASE \E k \in Processors : Reserve(k) \/ GoOn(k) \/ Interrupt(k)
    BY <2>1, <2>4, ProcessorAnswers
  <2>5. QED
    BY <2>2, <2>3, <2>4 DEF Next
<1>3. AnswersOK => AnsweredOnce
  BY DEF AnswersOK, Traced, AnsweredOnce, TypeOK
<1>4. QED
  BY <1>1, <1>2, <1>3, PTL DEF Spec
=============================================================================
