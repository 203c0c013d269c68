-------------------------- MODULE WhatsappOutbound --------------------------
(***************************************************************************)
(* One notification to a tenant over WhatsApp: its first sending by        *)
(* WhatsappService, Meta's acknowledgements through WhatsappWebhookService *)
(* (applyStatusEvent written by compare-and-swap), and the new attempts of *)
(* WhatsappRetryTask.  The sender writes the result of its call long after *)
(* the row was created; acknowledgements may come before it, in any order, *)
(* late, never or twice.                                                   *)
(*                                                                         *)
(* readAt, which only adds a date to a delivered message, the templates,   *)
(* the alerts and the choice of the fifty oldest rows are left out.        *)
(***************************************************************************)
EXTENDS FiniteSets, Naturals

CONSTANTS
  Messages,      \* rows of whatsapp_messages, the attempts of one series
  NoMessage,
  Notifier,      \* the handler that notifies the tenant
  Runs,          \* runs of WhatsappRetryTask that overlap
  Hooks,         \* acknowledgements being applied
  MaxAttempts,   \* WHATSAPP_MAX_ATTEMPTS
  WriteAttempts  \* STATUS_WRITE_ATTEMPTS

ASSUME NoMessageAssumption == NoMessage \notin Messages
ASSUME NotifierAssumption == Notifier \notin Runs
ASSUME BoundsAssumption == MaxAttempts \in Nat \ {0} /\ WriteAttempts \in Nat

VARIABLES
  row,           \* whatsapp_messages
  meta,          \* what Meta did with each message
  paid,          \* the rent the notification asks for is PAID
  expired,       \* WHATSAPP_RETRY_WINDOW_MS since the first attempt
  sender,        \* what the notifier and the runs remember
  hook,          \* what each acknowledgement being applied remembers
  overtaken      \* history: a temporary failure was written before the
                 \* sender wrote the answer to its call

vars == <<row, meta, paid, expired, sender, hook, overtaken>>
outside == <<paid, expired, overtaken>>

-----------------------------------------------------------------------------
(* The table, Meta, and the handlers' memory.                              *)

Statuses == {"NONE", "QUEUED", "SENT", "FAILED", "UNKNOWN"}

\* sent and delivered: sentAt and deliveredAt are filled.
Row == [status : Statuses, retryable : BOOLEAN, sent : BOOLEAN,
        delivered : BOOLEAN, attempt : 0..MaxAttempts]
NoRow == [status |-> "NONE", retryable |-> FALSE, sent |-> FALSE,
          delivered |-> FALSE, attempt |-> 0]

\* A failure is temporary (retryable in META_ERROR_GRID) or final.
Failures == {"temporary", "final"}
MetaStates == {"none", "refused", "accepted", "delivered"} \cup Failures

Senders == Runs \cup {Notifier}
Idle == [pc |-> "idle", todo |-> {}, paid |-> FALSE, msg |-> NoMessage,
         attempt |-> 0]
Memory == [pc : {"idle", "next", "access", "call", "sent", "unknown",
                 "expire"} \cup Failures,
           todo : SUBSET Messages, paid : BOOLEAN,
           msg : Messages \cup {NoMessage}, attempt : 0..MaxAttempts]

Events == {"sent", "delivered"} \cup Failures
NoHook == [pc |-> "idle", msg |-> NoMessage, event |-> "sent", seen |-> NoRow,
           tries |-> 0]
HookMemory == [pc : {"idle", "read", "write"}, msg : Messages \cup {NoMessage},
               event : Events, seen : Row, tries : 0..WriteAttempts]

Becomes(k, mem) == sender' = [sender EXCEPT ![k] = mem]
Goto(k, pc) == sender' = [sender EXCEPT ![k].pc = pc]
HookDone(h) == hook' = [hook EXCEPT ![h] = NoHook]

\* After a sending the notifier is done, a run takes its next candidate.
Return(k) ==
  IF k = Notifier
  THEN Becomes(k, Idle)
  ELSE Becomes(k, [sender[k] EXCEPT !.pc = "next", !.msg = NoMessage,
                                    !.attempt = 0])

-----------------------------------------------------------------------------
(* WhatsappService.send, for the notifier and for the retry task.          *)

\* notifyUser: the first attempt of the series.
Notify ==
  /\ \A m \in Messages : row[m] = NoRow
  /\ sender[Notifier] = Idle
  /\ Becomes(Notifier, [Idle EXCEPT !.pc = "access", !.attempt = 1])
  /\ UNCHANGED <<row, meta, outside, hook>>

\* canUseWhatsapp reads consent, the number and the tier, which change at any
\* time: a refusal is not an attempt and leaves no row.
Refused(k) ==
  /\ sender[k].pc = "access"
  /\ Return(k)
  /\ UNCHANGED <<row, meta, outside, hook>>

\* createQueued.
CreateQueued(k) ==
  /\ sender[k].pc = "access"
  /\ \E m \in Messages :
       /\ row[m] = NoRow
       /\ row' = [row EXCEPT ![m].status = "QUEUED",
                             ![m].attempt = sender[k].attempt]
       /\ Becomes(k, [sender[k] EXCEPT !.pc = "call", !.msg = m])
  /\ UNCHANGED <<meta, outside, hook>>

\* The call to Meta: accepted, with an answer or not; refused for a reason
\* of the grid; or without an answer and without effect.
CallMeta(k) ==
  /\ sender[k].pc = "call"
  /\ \/ /\ meta' = [meta EXCEPT ![sender[k].msg] = "accepted"]
        /\ \E pc \in {"sent", "unknown"} : Goto(k, pc)
     \/ /\ meta' = [meta EXCEPT ![sender[k].msg] = "refused"]
        /\ \E pc \in Failures \cup {"unknown"} : Goto(k, pc)
  /\ UNCHANGED <<row, outside, hook>>

\* markSent: the row is SENT, whatever an acknowledgement made of it.
MarkSent(k) ==
  /\ sender[k].pc = "sent"
  /\ row' = [row EXCEPT ![sender[k].msg].status = "SENT",
                        ![sender[k].msg].sent = TRUE]
  /\ Return(k)
  /\ UNCHANGED <<meta, outside, hook>>

\* Mutant: a call without an answer is retried like a temporary refusal.
MarkFailureRetried(k) ==
  /\ sender[k].pc \in Failures \cup {"unknown"}
  /\ row' = [row EXCEPT ![sender[k].msg].status = "FAILED",
                        ![sender[k].msg].retryable = sender[k].pc # "final"]
  /\ Return(k)
  /\ UNCHANGED <<meta, outside, hook>>

\* markFailure: FAILED when Meta refused, UNKNOWN when nobody knows; only a
\* temporary refusal may be retried.
MarkFailure(k) ==
  /\ sender[k].pc \in Failures \cup {"unknown"}
  /\ row' = [row EXCEPT
       ![sender[k].msg].status =
          IF sender[k].pc = "unknown" THEN "UNKNOWN" ELSE "FAILED",
       ![sender[k].msg].retryable = sender[k].pc = "temporary"]
  /\ Return(k)
  /\ UNCHANGED <<meta, outside, hook>>

\* The result cannot be written: the sender goes on, the row stays QUEUED.
MarkLost(k) ==
  /\ sender[k].pc \in Failures \cup {"sent", "unknown"}
  /\ Return(k)
  /\ UNCHANGED <<row, meta, outside, hook>>

-----------------------------------------------------------------------------
(* Meta, and its acknowledgements.                                         *)

\* An accepted message reaches the tenant, or fails.
MetaSettles ==
  /\ \E m \in Messages, end \in {"delivered"} \cup Failures :
       meta[m] = "accepted" /\ meta' = [meta EXCEPT ![m] = end]
  /\ UNCHANGED <<row, outside, sender, hook>>

\* What Meta may say of a message, again and in any order.
Says(m) == IF meta[m] \in {"none", "refused"} THEN {}
           ELSE {"sent"} \cup (IF meta[m] = "accepted" THEN {} ELSE {meta[m]})

\* applyStatus: an acknowledgement arrives.
Acknowledge(h) ==
  /\ hook[h] = NoHook
  /\ \E m \in Messages, e \in Events :
       /\ e \in Says(m)
       /\ hook' = [hook EXCEPT ![h] =
            [NoHook EXCEPT !.pc = "read", !.msg = m, !.event = e]]
  /\ UNCHANGED <<row, meta, outside, sender>>

\* applyStatusEvent: the row as the event leaves it, the same when the event
\* brings nothing or contradicts what is known.
Patched(r, e) ==
  IF e \in Failures
  THEN IF r.delivered \/ r.status = "FAILED" THEN r
       ELSE [r EXCEPT !.status = "FAILED", !.retryable = e = "temporary"]
  ELSE IF r.status = "FAILED" THEN r
       ELSE [r EXCEPT !.status = "SENT", !.sent = TRUE,
                      !.delivered = @ \/ e = "delivered"]

\* applyStatus: the row is read.
AckRead(h) ==
  /\ hook[h].pc = "read"
  /\ LET r == row[hook[h].msg] IN
     IF Patched(r, hook[h].event) = r
     THEN HookDone(h)
     ELSE hook' = [hook EXCEPT ![h].pc = "write", ![h].seen = r]
  /\ UNCHANGED <<row, meta, outside, sender>>

\* The sender still waits for the answer, or has not written it.
InFlight(m) == \E k \in Senders : sender[k].msg = m

\* Mutant: the patch is written whatever the row has become.
UnchangedSinceAlways(r, s) == TRUE

\* The condition of the compare-and-swap.
UnchangedSince(r, s) ==
  r.status = s.status /\ r.sent = s.sent /\ r.delivered = s.delivered

\* applyStatus: the patch is written if the row is as it was read, else it
\* is read again, a few times.  The patch names its columns only.
AckWrite(h) ==
  LET m == hook[h].msg
      s == hook[h].seen
      p == Patched(s, hook[h].event)
  IN
  /\ hook[h].pc = "write"
  /\ \/ /\ UnchangedSince(row[m], s)
        /\ row' = [row EXCEPT
             ![m].status = p.status, ![m].sent = p.sent,
             ![m].delivered = p.delivered \/ @,
             ![m].retryable =
                IF hook[h].event \in Failures THEN p.retryable ELSE @]
        /\ overtaken' = \/ overtaken
                        \/ hook[h].event = "temporary" /\ InFlight(m)
        /\ HookDone(h)
     \/ /\ ~UnchangedSince(row[m], s)
        /\ IF hook[h].tries + 1 < WriteAttempts
           THEN hook' = [hook EXCEPT ![h].pc = "read", ![h].tries = @ + 1,
                                     ![h].seen = NoRow]
           ELSE HookDone(h)
        /\ UNCHANGED <<row, overtaken>>
  /\ UNCHANGED <<meta, paid, expired, sender>>

-----------------------------------------------------------------------------
(* WhatsappRetryTask.                                                      *)

\* Mutant: the third attempt may be retried.
CandidateAlways(m) == row[m].status = "FAILED" /\ row[m].retryable /\ ~expired

\* What retryFailed selects.
Candidate(m) ==
  /\ row[m].status = "FAILED" /\ row[m].retryable
  /\ row[m].attempt < MaxAttempts /\ ~expired

\* retryFailed: the candidates, then the rents paid meanwhile.
RetryRead(k) ==
  /\ sender[k] = Idle
  /\ Becomes(k, [Idle EXCEPT !.pc = "next",
                   !.todo = {m \in Messages : Candidate(m)}, !.paid = paid])
  /\ UNCHANGED <<row, meta, outside, hook>>

\* Outside the hours when tenants are notified, only alertExpired runs.
RetryAtNight(k) ==
  /\ sender[k] = Idle
  /\ Goto(k, "expire")
  /\ UNCHANGED <<row, meta, outside, hook>>

\* retryOne: the candidate is reserved by a guarded update, then dropped if
\* the rent was read as paid, else sent again.
Reserve(k) ==
  /\ sender[k].pc = "next"
  /\ \E m \in sender[k].todo :
       LET rest == [sender[k] EXCEPT !.todo = @ \ {m}] IN
       \/ /\ row[m].status = "FAILED" /\ row[m].retryable
          /\ row' = [row EXCEPT ![m].retryable = FALSE]
          /\ IF sender[k].paid THEN Becomes(k, rest)
             ELSE Becomes(k, [rest EXCEPT !.pc = "access",
                                          !.attempt = row[m].attempt + 1])
       \/ /\ ~(row[m].status = "FAILED" /\ row[m].retryable)
          /\ Becomes(k, rest)
          /\ UNCHANGED row
  /\ UNCHANGED <<meta, outside, hook>>

RetryEnd(k) ==
  /\ sender[k].pc = "next" /\ sender[k].todo = {}
  /\ Goto(k, "expire")
  /\ UNCHANGED <<row, meta, outside, hook>>

\* What alertExpired selects.
Overdue(m) == /\ row[m].status = "FAILED" /\ row[m].retryable
              /\ row[m].attempt < MaxAttempts /\ expired

\* alertExpired: what was not sent again within the hour is given up.
AlertExpired(k) ==
  /\ sender[k].pc = "expire"
  /\ row' = [m \in Messages |->
               IF Overdue(m) THEN [row[m] EXCEPT !.retryable = FALSE]
                             ELSE row[m]]
  /\ Becomes(k, Idle)
  /\ UNCHANGED <<meta, outside, hook>>

\* The process stops: a reserved message is not sent, a sent one stays QUEUED.
Stop(k) ==
  /\ sender[k] # Idle
  /\ Becomes(k, Idle)
  /\ UNCHANGED <<row, meta, outside, hook>>

-----------------------------------------------------------------------------
(* The rest of the system.                                                 *)

RentPaid == /\ ~paid /\ paid' = TRUE
            /\ UNCHANGED <<row, meta, expired, sender, hook, overtaken>>

\* An hour has passed since the first attempt.
WindowCloses == /\ ~expired /\ \E m \in Messages : row[m] # NoRow
                /\ expired' = TRUE
                /\ UNCHANGED <<row, meta, paid, sender, hook, overtaken>>

Init ==
  /\ row = [m \in Messages |-> NoRow]
  /\ meta = [m \in Messages |-> "none"]
  /\ paid = FALSE /\ expired = FALSE /\ overtaken = FALSE
  /\ sender = [k \in Senders |-> Idle]
  /\ hook = [h \in Hooks |-> NoHook]

Next ==
  \/ Notify \/ MetaSettles \/ RentPaid \/ WindowCloses
  \/ \E k \in Senders :
       \/ Refused(k) \/ CreateQueued(k) \/ CallMeta(k) \/ MarkSent(k)
       \/ MarkFailure(k) \/ MarkLost(k) \/ Stop(k)
  \/ \E k \in Runs :
       \/ RetryRead(k) \/ RetryAtNight(k)
       \/ Reserve(k) \/ RetryEnd(k) \/ AlertExpired(k)
  \/ \E h \in Hooks : Acknowledge(h) \/ AckRead(h) \/ AckWrite(h)

Spec == Init /\ [][Next]_vars

-----------------------------------------------------------------------------
(* What must hold.                                                         *)

\* The types of the variables.
TypeOK ==
  /\ row \in [Messages -> Row]
  /\ meta \in [Messages -> MetaStates]
  /\ paid \in BOOLEAN /\ expired \in BOOLEAN /\ overtaken \in BOOLEAN
  /\ sender \in [Senders -> Memory]
  /\ hook \in [Hooks -> HookMemory]

\* The tenant never receives the notification twice, whatever is lost,
\* repeated or out of order ("a duplicate is worse than a missed message",
\* meta-error.ts), until a temporary failure overtakes the answer to its call.
DeliveredOnce ==
  ~overtaken => \A m, n \in Messages :
    meta[m] \in {"accepted", "delivered"} /\ meta[n] = "delivered" => m = n

\* What the attempts of a series make of Meta implements OneTransfer: an
\* attempt leaves only when every earlier one came back refused or failed, not
\* merely unanswered (the statuses SENT and UNKNOWN are never retried, the
\* reservation of retryOne, the compare-and-swap of applyStatus).  The promise
\* ends when a temporary failure overtakes the answer to its call.
Promise == INSTANCE OneTransfer
  WITH Attempts <- Messages,
       moving <- {m \in Messages : meta[m] = "accepted"},
       arrived <- {m \in Messages : meta[m] = "delivered"},
       trusted <- ~overtaken
ArrivesOnce == Promise!TransferSpec

\* Two runs that overlap never make the same attempt of a series twice,
\* though failures are reported late, twice or by two channels (retryOne, its
\* reservation; applyStatus, its compare-and-swap), until a temporary failure
\* overtakes the answer to its call.
OneRowPerAttempt ==
  ~overtaken => \A m, n \in Messages :
    row[m] # NoRow /\ row[n] # NoRow /\ row[m].attempt = row[n].attempt => m = n
=============================================================================
