--------------------------- MODULE OutboundProofs ---------------------------
(***************************************************************************)
(* Proofs about WhatsappOutbound, for any number of rows, overlapping runs *)
(* and acknowledgements, and any bounds.                                   *)
(*                                                                         *)
(* The attempts of a series are made one after the other: when a sender is *)
(* about to make one, every attempt before it is Spent, it failed without  *)
(* reaching the tenant and nothing can revive it (FrontOK).  What revives  *)
(* a row is its retryable flag, and only a temporary failure that nobody   *)
(* is waiting for any more sets it (RetryableOK, HookOK).  Hence the       *)
(* refinement of OneTransfer: an attempt leaves only once every earlier    *)
(* one came back.                                                          *)
(***************************************************************************)
EXTENDS WhatsappOutbound, TLAPS

-----------------------------------------------------------------------------
(* The rows and the types.                                                 *)

\* The candidates of a run exist and have an attempt left.
TodoOK ==
  \A k \in Senders : \A m \in sender[k].todo :
    row[m] # NoRow /\ row[m].attempt < MaxAttempts

\* An acknowledgement is about a message that was sent, and is written when
\* it brings something.
PatchOK ==
  \A h \in Hooks : hook[h].pc # "idle" =>
    /\ hook[h].msg \in Messages
    /\ row[hook[h].msg] # NoRow
    /\ hook[h].pc = "write" =>
         Patched(hook[h].seen, hook[h].event) # hook[h].seen

\* The states of a sender whose message is in flight.
Waiting == {"call", "sent", "unknown"} \cup Failures

\* A message in flight has one sender and a row; Meta knows it once it was
\* called, and refused it if the failure it answers is temporary.
FlightOK ==
  /\ \A k \in Senders :
       /\ sender[k].pc \in Waiting <=> sender[k].msg # NoMessage
       /\ sender[k].msg # NoMessage => row[sender[k].msg] # NoRow
       /\ sender[k].pc = "call" => meta[sender[k].msg] = "none"
       /\ sender[k].pc = "temporary" => meta[sender[k].msg] = "refused"
  /\ \A j, k \in Senders :
       sender[j].msg = sender[k].msg /\ sender[j].msg # NoMessage => j = k
  /\ \A m \in Messages : meta[m] # "none" => row[m] # NoRow

\* The types, with what they rest on.
TInv == TypeOK /\ TodoOK /\ PatchOK /\ FlightOK

\* Rows whose status is not NONE exist.
LEMMA StatusExists ==
  \A r \in Row : r.status # "NONE" => r # NoRow
BY DEF NoRow

\* An acknowledgement yields a row, which failed or was sent if it changed,
\* and keeps the attempt.
LEMMA PatchedShape ==
  ASSUME NEW r \in Row, NEW e \in Events
  PROVE  /\ Patched(r, e) \in Row
         /\ Patched(r, e).attempt = r.attempt
         /\ Patched(r, e) # r =>
              /\ r.status # "FAILED"
              /\ Patched(r, e).status \in {"SENT", "FAILED"}
         /\ e = "final" /\ Patched(r, e) # r => ~Patched(r, e).retryable
<1>1. CASE e \in Failures
  <2>1. [r EXCEPT !.status = "FAILED", !.retryable = e = "temporary"] \in Row
    BY DEF Row, Statuses
  <2>2. QED
    BY <1>1, <2>1 DEF Patched, Row, Failures
<1>2. CASE e \notin Failures
  <2>1. [r EXCEPT !.status = "SENT", !.sent = TRUE,
                  !.delivered = @ \/ e = "delivered"] \in Row
    BY DEF Row, Statuses
  <2>2. QED
    BY <1>2, <2>1 DEF Patched, Row, Failures
<1>3. QED
  BY <1>1, <1>2

\* The memory of a sender that waits for nothing.
Resting(mem) ==
  /\ mem \in Memory
  /\ mem.pc \in {"idle", "next", "expire"} /\ mem.msg = NoMessage

\* After a sending nothing is in flight, and the candidates are the same or
\* fewer.
LEMMA ReturnShape ==
  ASSUME TypeOK, NEW k \in Senders, Return(k)
  PROVE  \E mem : /\ Resting(mem) /\ mem.todo \subseteq sender[k].todo
                  /\ sender' = [sender EXCEPT ![k] = mem]
<1>1. sender[k] \in Memory
  BY DEF TypeOK
<1>2. Resting(Idle) /\ Idle.todo = {}
  BY BoundsAssumption DEF Resting, Idle, Memory
<1>3. CASE k = Notifier
  BY <1>2, <1>3 DEF Return, Becomes
<1>4. CASE k # Notifier
  <2> DEFINE mem == [sender[k] EXCEPT !.pc = "next", !.msg = NoMessage,
                                      !.attempt = 0]
  <2>1. 0 \in 0..MaxAttempts
    BY BoundsAssumption
  <2>2. mem \in Memory
    BY <1>1, <2>1 DEF Memory
  <2>3. mem.pc = "next" /\ mem.msg = NoMessage /\ mem.todo = sender[k].todo
    BY <1>1 DEF Memory
  <2>4. Resting(mem) /\ mem.todo = sender[k].todo
    BY <2>2, <2>3 DEF Resting
  <2>5. sender' = [sender EXCEPT ![k] = mem]
    BY <1>4 DEF Return, Becomes
  <2>6. QED
    BY <2>4, <2>5
<1>5. QED
  BY <1>3, <1>4

-----------------------------------------------------------------------------
(* Most steps leave their sender waiting for nothing.                      *)

\* What those steps have in common: k rests, the other senders do not move,
\* rows are neither created nor lost, and only the answer k was waiting for
\* makes one retryable or takes it out of FAILED.
Released(k) ==
  /\ \E mem : /\ Resting(mem)
              /\ \A m \in mem.todo :
                   row[m] # NoRow /\ row[m].attempt < MaxAttempts
              /\ sender' = [sender EXCEPT ![k] = mem]
  /\ row' \in [Messages -> Row]
  /\ \A m \in Messages :
       /\ row'[m] # NoRow <=> row[m] # NoRow
       /\ row'[m].attempt = row[m].attempt
       /\ row'[m].retryable =>
            \/ row[m].retryable
            \/ sender[k].pc = "temporary" /\ sender[k].msg = m
       /\ row[m].status = "FAILED" /\ sender[k].msg # m =>
            row'[m].status = "FAILED"
  /\ UNCHANGED <<meta, outside, hook>>

\* Steps that only move the sender.
LEMMA ReleasedQuietly ==
  ASSUME TInv, NEW k \in Senders, NEW mem, Resting(mem),
         \A m \in mem.todo : row[m] # NoRow /\ row[m].attempt < MaxAttempts,
         sender' = [sender EXCEPT ![k] = mem],
         UNCHANGED <<row, meta, outside, hook>>
  PROVE  Released(k)
BY DEF Released, TInv, TypeOK

\* Steps that write the row they were waiting for.
LEMMA ReleasedAnswer ==
  ASSUME TInv, NEW k \in Senders, Return(k), sender[k].pc \in Waiting,
         NEW r \in Row, r.status # "NONE",
         r.attempt = row[sender[k].msg].attempt,
         r.retryable => row[sender[k].msg].retryable
                          \/ sender[k].pc = "temporary",
         row' = [row EXCEPT ![sender[k].msg] = r],
         UNCHANGED <<meta, outside, hook>>
  PROVE  Released(k)
<1>1. PICK mem : /\ Resting(mem) /\ mem.todo \subseteq sender[k].todo
                 /\ sender' = [sender EXCEPT ![k] = mem]
  BY ReturnShape DEF TInv
<1>2. sender[k].msg \in Messages /\ row[sender[k].msg] # NoRow
  BY DEF TInv, TypeOK, FlightOK, Memory
<1>3. r # NoRow
  BY StatusExists
<1>4. row \in [Messages -> Row]
  BY DEF TInv, TypeOK
<1>5. \A m \in mem.todo : row[m] # NoRow /\ row[m].attempt < MaxAttempts
  BY <1>1 DEF TInv, TodoOK
<1>6. QED
  BY <1>1, <1>2, <1>3, <1>4, <1>5 DEF Released

\* The steps of WhatsappService.send and of the retry task that end in rest.
LEMMA Releases ==
  ASSUME TInv, NEW k \in Senders,
         \/ Refused(k) \/ MarkSent(k) \/ MarkFailure(k) \/ MarkLost(k)
         \/ Stop(k) \/ RetryRead(k) \/ RetryAtNight(k) \/ RetryEnd(k)
         \/ AlertExpired(k)
  PROVE  Released(k)
<1>1. sender \in [Senders -> Memory] /\ row \in [Messages -> Row]
  BY DEF TInv, TypeOK
<1>2. Resting(Idle) /\ Idle.todo = {}
  BY BoundsAssumption DEF Resting, Idle, Memory
<1>3. \A m \in sender[k].todo : row[m] # NoRow /\ row[m].attempt < MaxAttempts
  BY DEF TInv, TodoOK
<1> DEFINE m == sender[k].msg
<1>4. sender[k].pc \in Waiting => m \in Messages /\ row[m] \in Row
  BY <1>1 DEF TInv, FlightOK, Memory
<1>5. CASE Refused(k) \/ MarkLost(k)
  <2>1. Return(k) /\ UNCHANGED <<row, meta, outside, hook>>
    BY <1>5 DEF Refused, MarkLost
  <2>2. QED
    BY <1>3, <2>1, ReturnShape, ReleasedQuietly DEF TInv
<1>6. CASE MarkSent(k)
  <2> DEFINE r == [row[m] EXCEPT !.status = "SENT", !.sent = TRUE]
  <2>1. Return(k) /\ sender[k].pc \in Waiting
        /\ UNCHANGED <<meta, outside, hook>>
    BY <1>6 DEF MarkSent, Waiting
  <2>2. r \in Row /\ r.status = "SENT" /\ r.attempt = row[m].attempt
        /\ r.retryable = row[m].retryable
    BY <1>4, <2>1 DEF Row, Statuses
  <2>3. row' = [row EXCEPT ![m] = r]
    BY <1>1, <1>4, <1>6, <2>1 DEF MarkSent
  <2>4. QED
    BY <2>1, <2>2, <2>3, ReleasedAnswer
<1>7. CASE MarkFailure(k)
  <2> DEFINE status == IF sender[k].pc = "unknown" THEN "UNKNOWN"
                       ELSE "FAILED"
             r == [row[m] EXCEPT !.status = status,
                                 !.retryable = sender[k].pc = "temporary"]
  <2>1. Return(k) /\ sender[k].pc \in Waiting
        /\ UNCHANGED <<meta, outside, hook>>
    BY <1>7 DEF MarkFailure, Waiting
  <2>2. r \in Row /\ r.status # "NONE" /\ r.attempt = row[m].attempt
        /\ (r.retryable => sender[k].pc = "temporary")
    BY <1>4, <2>1 DEF Row, Statuses
  <2>3. row' = [row EXCEPT ![m] = r]
    BY <1>1, <1>4, <1>7, <2>1 DEF MarkFailure
  <2>4. QED
    BY <2>1, <2>2, <2>3, ReleasedAnswer
<1>8. CASE Stop(k)
  BY <1>2, <1>8, ReleasedQuietly DEF Stop, Becomes
<1>9. CASE RetryRead(k)
  <2> DEFINE mem == [Idle EXCEPT !.pc = "next",
                       !.todo = {c \in Messages : Candidate(c)}, !.paid = paid]
  <2>0. 0 \in 0..MaxAttempts /\ paid \in BOOLEAN
    BY BoundsAssumption DEF TInv, TypeOK
  <2>1. Resting(mem)
    BY <2>0 DEF Resting, Idle, Memory
  <2>2. \A c \in mem.todo : row[c] # NoRow /\ row[c].attempt < MaxAttempts
    BY DEF Candidate, Idle, NoRow
  <2>3. QED
    BY <1>9, <2>1, <2>2, ReleasedQuietly DEF RetryRead, Becomes
<1>10. CASE RetryAtNight(k) \/ RetryEnd(k)
  <2> DEFINE mem == [sender[k] EXCEPT !.pc = "expire"]
  <2>1. sender[k].pc \notin Waiting
    BY <1>10 DEF RetryAtNight, RetryEnd, Waiting, Idle, Failures
  <2>2. sender[k].msg = NoMessage
    BY <2>1 DEF TInv, FlightOK
  <2>3. Resting(mem) /\ mem.todo = sender[k].todo
    BY <1>1, <2>2 DEF Resting, Memory
  <2>4. sender' = [sender EXCEPT ![k] = mem]
    BY <1>1, <1>10 DEF RetryAtNight, RetryEnd, Goto
  <2>5. UNCHANGED <<row, meta, outside, hook>>
    BY <1>10 DEF RetryAtNight, RetryEnd
  <2>6. QED
    BY <1>3, <2>3, <2>4, <2>5, ReleasedQuietly
<1>11. CASE AlertExpired(k)
  <2>1. \A c \in Messages :
          /\ row'[c] \in Row
          /\ row'[c].status = row[c].status
          /\ row'[c].attempt = row[c].attempt
          /\ row'[c].retryable => row[c].retryable
          /\ row'[c] # NoRow <=> row[c] # NoRow
    <3> SUFFICES ASSUME NEW c \in Messages
                 PROVE  /\ row'[c] \in Row
                        /\ row'[c].status = row[c].status
                        /\ row'[c].attempt = row[c].attempt
                        /\ row'[c].retryable => row[c].retryable
                        /\ row'[c] # NoRow <=> row[c] # NoRow
      OBVIOUS
    <3>1. CASE Overdue(c)
      <4>1. row'[c] = [row[c] EXCEPT !.retryable = FALSE]
        BY <1>11, <3>1 DEF AlertExpired
      <4>2. row[c].status = "FAILED" /\ row[c] \in Row
        BY <1>1, <3>1 DEF Overdue
      <4>3. /\ row'[c] \in Row /\ row'[c].status = "FAILED"
            /\ row'[c].attempt = row[c].attempt /\ ~row'[c].retryable
        BY <4>1, <4>2 DEF Row
      <4>4. QED
        BY <4>2, <4>3, StatusExists
    <3>2. CASE ~Overdue(c)
      BY <1>1, <1>11, <3>2 DEF AlertExpired
    <3>3. QED
      BY <3>1, <3>2
  <2>2. row' \in [Messages -> Row]
    BY <1>11, <2>1 DEF AlertExpired
  <2>3. sender' = [sender EXCEPT ![k] = Idle]
        /\ UNCHANGED <<meta, outside, hook>>
    BY <1>11 DEF AlertExpired, Becomes
  <2>4. QED
    BY <1>2, <2>1, <2>2, <2>3 DEF Released
<1>12. QED
  BY <1>5, <1>6, <1>7, <1>8, <1>9, <1>10, <1>11

\* A released sender keeps the types.
LEMMA ReleasedKeepsT ==
  ASSUME TInv, NEW k \in Senders, Released(k)
  PROVE  TInv'
<1>1. PICK mem : /\ Resting(mem)
                 /\ \A m \in mem.todo :
                      row[m] # NoRow /\ row[m].attempt < MaxAttempts
                 /\ sender' = [sender EXCEPT ![k] = mem]
  BY DEF Released
<1>2. /\ sender \in [Senders -> Memory] /\ row \in [Messages -> Row]
      /\ hook \in [Hooks -> HookMemory]
  BY DEF TInv, TypeOK
<1>3. /\ sender' \in [Senders -> Memory] /\ sender'[k] = mem
      /\ \A j \in Senders : j # k => sender'[j] = sender[j]
  BY <1>1, <1>2 DEF Resting
<1>4. mem.pc \notin Waiting /\ mem.pc \notin {"call", "temporary"}
  BY <1>1 DEF Resting, Waiting, Failures
<1>5. \A m \in Messages : row'[m] # NoRow <=> row[m] # NoRow
  BY DEF Released
<1>6. TypeOK'
  BY <1>3 DEF TInv, TypeOK, Released, outside
<1>7. TodoOK'
  <2> SUFFICES ASSUME NEW j \in Senders, NEW m \in sender'[j].todo
               PROVE  row'[m] # NoRow /\ row'[m].attempt < MaxAttempts
    BY DEF TodoOK
  <2>1. m \in Messages
    BY <1>3 DEF Memory
  <2>2. row[m] # NoRow /\ row[m].attempt < MaxAttempts
    BY <1>1, <1>3 DEF TInv, TodoOK
  <2>3. QED
    BY <2>1, <2>2 DEF Released
<1>8. PatchOK'
  BY <1>5 DEF TInv, PatchOK, Released
<1>9. FlightOK'
  <2>1. ASSUME NEW j \in Senders
        PROVE  /\ sender'[j].pc \in Waiting <=> sender'[j].msg # NoMessage
               /\ sender'[j].msg # NoMessage => row'[sender'[j].msg] # NoRow
               /\ sender'[j].pc = "call" => meta[sender'[j].msg] = "none"
               /\ sender'[j].pc = "temporary" =>
                    meta[sender'[j].msg] = "refused"
    <3>1. CASE j = k
      BY <1>1, <1>3, <1>4, <3>1 DEF Resting
    <3>2. CASE j # k
      <4>1. sender[j].msg # NoMessage => sender[j].msg \in Messages
        BY <1>2 DEF Memory
      <4>2. QED
        BY <1>3, <1>5, <3>2, <4>1 DEF TInv, FlightOK
    <3>3. QED
      BY <3>1, <3>2
  <2>2. ASSUME NEW i \in Senders, NEW j \in Senders,
               sender'[i].msg = sender'[j].msg, sender'[i].msg # NoMessage
        PROVE  i = j
    BY <1>1, <1>3, <2>2 DEF TInv, FlightOK, Resting
  <2>3. meta' = meta
    BY DEF Released
  <2>4. \A m \in Messages : meta[m] # "none" => row'[m] # NoRow
    BY <1>5 DEF TInv, FlightOK
  <2>5. QED
    BY <2>1, <2>2, <2>3, <2>4 DEF FlightOK
<1>10. QED
  BY <1>6, <1>7, <1>8, <1>9 DEF TInv

\* A run that reserves a candidate either rests, or is the one about to make
\* its next attempt.
Reserved(k, m) ==
  /\ row[m].status = "FAILED" /\ row[m].retryable
  /\ row' = [row EXCEPT ![m].retryable = FALSE]
  /\ sender' = [sender EXCEPT ![k] =
       [sender[k] EXCEPT !.todo = @ \ {m}, !.pc = "access",
                         !.attempt = row[m].attempt + 1]]
  /\ UNCHANGED <<meta, outside, hook>>

\* A reserved row is the same but for its flag.
LEMMA ReservedRow ==
  ASSUME TInv, NEW m \in Messages, row[m].status = "FAILED",
         row' = [row EXCEPT ![m].retryable = FALSE]
  PROVE  /\ row' \in [Messages -> Row]
         /\ ~row'[m].retryable /\ row'[m].status = "FAILED"
         /\ \A c \in Messages :
              /\ c # m => row'[c] = row[c]
              /\ row'[c] # NoRow <=> row[c] # NoRow
              /\ row'[c].attempt = row[c].attempt
<1> DEFINE r == [row[m] EXCEPT !.retryable = FALSE]
<1>1. row \in [Messages -> Row] /\ row[m] \in Row
  BY DEF TInv, TypeOK
<1>2. r \in Row /\ r.status = "FAILED" /\ ~r.retryable
      /\ r.attempt = row[m].attempt
  BY <1>1 DEF Row
<1>3. row' = [row EXCEPT ![m] = r]
  BY <1>1
<1>4. row[m] # NoRow /\ r # NoRow
  BY <1>1, <1>2, StatusExists
<1> HIDE DEF r
<1>5. QED
  BY <1>1, <1>2, <1>3, <1>4

\* The two outcomes of a reservation.
LEMMA ReserveShape ==
  ASSUME TInv, NEW k \in Runs, Reserve(k)
  PROVE  /\ sender[k].pc = "next"
         /\ Released(k) \/ \E m \in sender[k].todo : Reserved(k, m)
<1>1. k \in Senders
  BY DEF Senders
<1>2. /\ sender \in [Senders -> Memory] /\ row \in [Messages -> Row]
      /\ sender[k] \in Memory
  BY <1>1 DEF TInv, TypeOK
<1>3. sender[k].pc = "next"
  BY DEF Reserve
<1>4. sender[k].msg = NoMessage
  BY <1>1, <1>3 DEF TInv, FlightOK, Waiting, Failures
<1>5. PICK m \in sender[k].todo :
        LET rest == [sender[k] EXCEPT !.todo = @ \ {m}] IN
        \/ /\ row[m].status = "FAILED" /\ row[m].retryable
           /\ row' = [row EXCEPT ![m].retryable = FALSE]
           /\ IF sender[k].paid THEN Becomes(k, rest)
              ELSE Becomes(k, [rest EXCEPT !.pc = "access",
                                           !.attempt = row[m].attempt + 1])
        \/ /\ ~(row[m].status = "FAILED" /\ row[m].retryable)
           /\ Becomes(k, rest)
           /\ UNCHANGED row
  BY DEF Reserve
<1> DEFINE rest == [sender[k] EXCEPT !.todo = @ \ {m}]
<1>6. m \in Messages
  BY <1>2 DEF Memory
<1>7. Resting(rest) /\ rest.todo \subseteq sender[k].todo
  BY <1>2, <1>3, <1>4 DEF Resting, Memory
<1>8. \A c \in rest.todo : row[c] # NoRow /\ row[c].attempt < MaxAttempts
  BY <1>1, <1>7 DEF TInv, TodoOK
<1>9. UNCHANGED <<meta, outside, hook>>
  BY DEF Reserve
<1>10. CASE ~(row[m].status = "FAILED" /\ row[m].retryable)
  BY <1>1, <1>5, <1>7, <1>8, <1>9, <1>10, ReleasedQuietly, <1>3 DEF Becomes
<1>11. CASE /\ row[m].status = "FAILED" /\ row[m].retryable
            /\ sender[k].paid
  <2>1. row' = [row EXCEPT ![m].retryable = FALSE]
        /\ sender' = [sender EXCEPT ![k] = rest]
    BY <1>5, <1>11 DEF Becomes
  <2>2. Released(k)
    BY <1>2, <1>6, <1>7, <1>8, <1>9, <1>11, <2>1, ReservedRow DEF Released
  <2>3. QED
    BY <1>3, <2>2
<1>12. CASE /\ row[m].status = "FAILED" /\ row[m].retryable
            /\ ~sender[k].paid
  <2>1. row' = [row EXCEPT ![m].retryable = FALSE]
        /\ sender' = [sender EXCEPT ![k] =
             [rest EXCEPT !.pc = "access", !.attempt = row[m].attempt + 1]]
    BY <1>5, <1>12 DEF Becomes
  <2>2. [rest EXCEPT !.pc = "access", !.attempt = row[m].attempt + 1]
          = [sender[k] EXCEPT !.todo = @ \ {m}, !.pc = "access",
                              !.attempt = row[m].attempt + 1]
    BY <1>2 DEF Memory
  <2>3. Reserved(k, m)
    BY <1>9, <1>12, <2>1, <2>2 DEF Reserved
  <2>4. QED
    BY <1>3, <2>3
<1>13. QED
  BY <1>10, <1>11, <1>12

\* A run about to make the next attempt keeps the types.
LEMMA ReservedKeepsT ==
  ASSUME TInv, NEW k \in Senders, NEW m \in sender[k].todo, Reserved(k, m),
         sender[k].pc = "next"
  PROVE  /\ TInv' /\ m \in Messages
         /\ sender'[k].pc = "access" /\ sender'[k].msg = NoMessage
         /\ sender'[k].attempt = row[m].attempt + 1
         /\ \A j \in Senders : j # k => sender'[j] = sender[j]
<1> DEFINE mem == [sender[k] EXCEPT !.todo = @ \ {m}, !.pc = "access",
                                    !.attempt = row[m].attempt + 1]
<1>1. /\ sender \in [Senders -> Memory] /\ row \in [Messages -> Row]
      /\ hook \in [Hooks -> HookMemory]
  BY DEF TInv, TypeOK
<1>2. m \in Messages
  BY <1>1 DEF Memory
<1>3. row[m].attempt \in 0..MaxAttempts /\ row[m].attempt < MaxAttempts
  BY <1>1, <1>2 DEF TInv, TodoOK, Row
<1>4. row[m].attempt + 1 \in 0..MaxAttempts
  BY <1>3, BoundsAssumption
<1>5. sender[k].msg = NoMessage
  BY DEF TInv, FlightOK, Waiting, Failures
<1>6. /\ mem \in Memory /\ mem.todo \subseteq sender[k].todo
      /\ mem.pc = "access" /\ mem.msg = NoMessage
      /\ mem.attempt = row[m].attempt + 1
  BY <1>1, <1>4, <1>5 DEF Memory
<1>7. sender' = [sender EXCEPT ![k] = mem]
  BY DEF Reserved
<1> HIDE DEF mem
<1>8. /\ sender' \in [Senders -> Memory] /\ sender'[k] = mem
      /\ \A j \in Senders : j # k => sender'[j] = sender[j]
  BY <1>1, <1>6, <1>7
<1>9. /\ row' \in [Messages -> Row]
      /\ \A c \in Messages : /\ row'[c] # NoRow <=> row[c] # NoRow
                             /\ row'[c].attempt = row[c].attempt
  BY <1>2, ReservedRow DEF Reserved
<1>10. UNCHANGED <<meta, outside, hook>>
  BY DEF Reserved
<1>11. TypeOK'
  BY <1>8, <1>9, <1>10 DEF TInv, TypeOK, outside
<1>12. TodoOK'
  <2> SUFFICES ASSUME NEW j \in Senders, NEW c \in sender'[j].todo
               PROVE  row'[c] # NoRow /\ row'[c].attempt < MaxAttempts
    BY DEF TodoOK
  <2>1. c \in sender[j].todo /\ c \in Messages
    BY <1>1, <1>6, <1>8 DEF Memory
  <2>2. QED
    BY <1>9, <2>1 DEF TInv, TodoOK
<1>13. PatchOK'
  BY <1>9, <1>10 DEF TInv, PatchOK
<1>14. FlightOK'
  <2>1. mem.pc \notin Waiting
    BY <1>6 DEF Waiting, Failures
  <2>2. ASSUME NEW j \in Senders
        PROVE  /\ sender'[j].pc \in Waiting <=> sender'[j].msg # NoMessage
               /\ sender'[j].msg # NoMessage => row'[sender'[j].msg] # NoRow
               /\ sender'[j].pc = "call" => meta[sender'[j].msg] = "none"
               /\ sender'[j].pc = "temporary" =>
                    meta[sender'[j].msg] = "refused"
    <3>1. CASE j = k
      BY <1>6, <1>8, <2>1, <3>1
    <3>2. CASE j # k
      <4>1. sender[j].msg # NoMessage => sender[j].msg \in Messages
        BY <1>1 DEF Memory
      <4>2. QED
        BY <1>8, <1>9, <3>2, <4>1 DEF TInv, FlightOK
    <3>3. QED
      BY <3>1, <3>2
  <2>3. ASSUME NEW i \in Senders, NEW j \in Senders,
               sender'[i].msg = sender'[j].msg, sender'[i].msg # NoMessage
        PROVE  i = j
    BY <1>6, <1>8, <2>3 DEF TInv, FlightOK
  <2>4. \A c \in Messages : meta[c] # "none" => row'[c] # NoRow
    BY <1>9 DEF TInv, FlightOK
  <2>5. QED
    BY <1>10, <2>2, <2>3, <2>4 DEF FlightOK
<1>15. QED
  BY <1>2, <1>6, <1>8, <1>11, <1>12, <1>13, <1>14 DEF TInv

-----------------------------------------------------------------------------
(* The other steps keep the types.                                         *)

\* notifyUser.
LEMMA NotifyKeepsT ==
  ASSUME TInv, Notify
  PROVE  TInv'
<1> DEFINE mem == [Idle EXCEPT !.pc = "access", !.attempt = 1]
<1>1. 1 \in 0..MaxAttempts
  BY BoundsAssumption
<1>2. /\ mem \in Memory /\ mem.todo = {} /\ mem.pc = "access"
      /\ mem.msg = NoMessage
  BY <1>1 DEF Idle, Memory
<1>3. sender' = [sender EXCEPT ![Notifier] = mem]
      /\ UNCHANGED <<row, meta, outside, hook>>
  BY DEF Notify, Becomes
<1> HIDE DEF mem
<1>4. /\ sender \in [Senders -> Memory] /\ Notifier \in Senders
  BY DEF TInv, TypeOK, Senders
<1>5. /\ sender' \in [Senders -> Memory] /\ sender'[Notifier] = mem
      /\ \A j \in Senders : j # Notifier => sender'[j] = sender[j]
  BY <1>2, <1>3, <1>4
<1>6. TypeOK'
  BY <1>3, <1>5 DEF TInv, TypeOK, outside
<1>7. TodoOK'
  BY <1>2, <1>3, <1>5 DEF TInv, TodoOK
<1>8. PatchOK'
  BY <1>3 DEF TInv, PatchOK
<1>9. mem.pc \notin Waiting
  BY <1>2 DEF Waiting, Failures
<1>10. FlightOK'
  BY <1>2, <1>3, <1>5, <1>9 DEF TInv, FlightOK
<1>11. QED
  BY <1>6, <1>7, <1>8, <1>10 DEF TInv

\* What createQueued does.
Created(k, m) ==
  /\ row[m] = NoRow
  /\ row' \in [Messages -> Row]
  /\ row'[m] # NoRow /\ row'[m].attempt = sender[k].attempt
  /\ row'[m].status = "QUEUED" /\ ~row'[m].retryable
  /\ \A c \in Messages : c # m => row'[c] = row[c]
  /\ sender' \in [Senders -> Memory]
  /\ sender'[k].pc = "call" /\ sender'[k].msg = m
  /\ sender'[k].todo = sender[k].todo
  /\ \A j \in Senders : j # k => sender'[j] = sender[j]
  /\ UNCHANGED <<meta, outside, hook>>

\* The row and the memory of createQueued.
LEMMA CreateShape ==
  ASSUME TInv, NEW k \in Senders, CreateQueued(k)
  PROVE  sender[k].pc = "access" /\ \E m \in Messages : Created(k, m)
<1>1. PICK m \in Messages :
        /\ row[m] = NoRow
        /\ row' = [row EXCEPT ![m].status = "QUEUED",
                              ![m].attempt = sender[k].attempt]
        /\ Becomes(k, [sender[k] EXCEPT !.pc = "call", !.msg = m])
  BY DEF CreateQueued
<1> DEFINE r == [row[m] EXCEPT !.status = "QUEUED",
                               !.attempt = sender[k].attempt]
           mem == [sender[k] EXCEPT !.pc = "call", !.msg = m]
<1>2. /\ sender \in [Senders -> Memory] /\ row \in [Messages -> Row]
      /\ sender[k] \in Memory /\ row[m] \in Row
  BY DEF TInv, TypeOK
<1>3. /\ r \in Row /\ r.status = "QUEUED"
      /\ r.attempt = sender[k].attempt /\ ~r.retryable
  <2>1. sender[k].attempt \in 0..MaxAttempts
    BY <1>2 DEF Memory
  <2>2. ~row[m].retryable
    BY <1>1 DEF NoRow
  <2>3. QED
    BY <1>2, <2>1, <2>2 DEF Row, Statuses
<1>4. /\ mem \in Memory /\ mem.pc = "call" /\ mem.msg = m
      /\ mem.todo = sender[k].todo
  BY <1>2 DEF Memory
<1>5. row' = [row EXCEPT ![m] = r] /\ sender' = [sender EXCEPT ![k] = mem]
  BY <1>1, <1>2 DEF Becomes
<1>6. r # NoRow
  BY <1>3, StatusExists
<1>7. sender[k].pc = "access" /\ UNCHANGED <<meta, outside, hook>>
  BY DEF CreateQueued
<1> HIDE DEF r, mem
<1>8. Created(k, m)
  BY <1>1, <1>2, <1>3, <1>4, <1>5, <1>6, <1>7 DEF Created
<1>9. QED
  BY <1>7, <1>8

\* A new row keeps the types.
LEMMA CreatedKeepsT ==
  ASSUME TInv, NEW k \in Senders, NEW m \in Messages, Created(k, m)
  PROVE  TInv'
<1>1. /\ sender \in [Senders -> Memory] /\ row \in [Messages -> Row]
      /\ hook \in [Hooks -> HookMemory] /\ m # NoMessage
  BY NoMessageAssumption DEF TInv, TypeOK
<1>2. TypeOK'
  BY DEF TInv, TypeOK, Created, outside
<1>3. TodoOK'
  <2> SUFFICES ASSUME NEW j \in Senders, NEW c \in sender'[j].todo
               PROVE  row'[c] # NoRow /\ row'[c].attempt < MaxAttempts
    BY DEF TodoOK
  <2>1. c \in sender[j].todo
    BY DEF Created
  <2>2. c \in Messages
    BY <1>1, <2>1 DEF Memory
  <2>3. c # m
    BY <2>1 DEF TInv, TodoOK, Created
  <2>4. QED
    BY <2>1, <2>2, <2>3 DEF TInv, TodoOK, Created
<1>4. PatchOK'
  BY DEF TInv, PatchOK, Created
<1>5. meta[m] = "none"
  BY DEF TInv, FlightOK, Created
<1>6. \A j \in Senders : sender[j].msg # m
  BY <1>1 DEF TInv, FlightOK, Created
<1>7. FlightOK'
  <2>1. ASSUME NEW j \in Senders
        PROVE  /\ sender'[j].pc \in Waiting <=> sender'[j].msg # NoMessage
               /\ sender'[j].msg # NoMessage => row'[sender'[j].msg] # NoRow
               /\ sender'[j].pc = "call" => meta[sender'[j].msg] = "none"
               /\ sender'[j].pc = "temporary" =>
                    meta[sender'[j].msg] = "refused"
    <3>1. CASE j = k
      BY <1>1, <1>5, <3>1 DEF Created, Waiting
    <3>2. CASE j # k
      <4>1. sender[j].msg # NoMessage => sender[j].msg \in Messages
        BY <1>1 DEF Memory
      <4>2. QED
        BY <1>6, <3>2, <4>1 DEF TInv, FlightOK, Created
    <3>3. QED
      BY <3>1, <3>2
  <2>2. ASSUME NEW i \in Senders, NEW j \in Senders,
               sender'[i].msg = sender'[j].msg, sender'[i].msg # NoMessage
        PROVE  i = j
    BY <1>6, <2>2 DEF TInv, FlightOK, Created
  <2>3. meta' = meta
    BY DEF Created
  <2>4. \A c \in Messages : meta[c] # "none" => row'[c] # NoRow
    BY DEF TInv, FlightOK, Created
  <2>5. QED
    BY <2>1, <2>2, <2>3, <2>4 DEF FlightOK
<1>8. QED
  BY <1>2, <1>3, <1>4, <1>7 DEF TInv

\* What the call to Meta does.
Called(k) ==
  /\ meta[sender[k].msg] = "none"
  /\ sender[k].msg \in Messages
  /\ \E answer \in {"accepted", "refused"} :
       /\ meta' = [meta EXCEPT ![sender[k].msg] = answer]
       /\ sender'[k].pc = "temporary" => answer = "refused"
  /\ sender' \in [Senders -> Memory]
  /\ sender'[k].pc \in Waiting \ {"call"}
  /\ sender'[k].msg = sender[k].msg /\ sender'[k].todo = sender[k].todo
  /\ \A j \in Senders : j # k => sender'[j] = sender[j]
  /\ UNCHANGED <<row, outside, hook>>

\* The message of the call is one that Meta did not have.
LEMMA CallShape ==
  ASSUME TInv, NEW k \in Senders, CallMeta(k)
  PROVE  Called(k)
<1>1. /\ sender \in [Senders -> Memory] /\ sender[k] \in Memory
      /\ sender[k].pc = "call"
  BY DEF TInv, TypeOK, CallMeta
<1>2. /\ sender[k].msg \in Messages /\ meta[sender[k].msg] = "none"
  BY <1>1 DEF TInv, FlightOK, Waiting, Memory
<1>3. PICK pc \in {"sent", "unknown"} \cup Failures :
        /\ Goto(k, pc)
        /\ \E answer \in {"accepted", "refused"} :
             /\ meta' = [meta EXCEPT ![sender[k].msg] = answer]
             /\ pc = "temporary" => answer = "refused"
  BY DEF CallMeta, Failures
<1> DEFINE mem == [sender[k] EXCEPT !.pc = pc]
<1>4. /\ mem \in Memory /\ mem.pc = pc /\ mem.msg = sender[k].msg
      /\ mem.todo = sender[k].todo
  BY <1>1 DEF Memory, Failures
<1>5. sender' = [sender EXCEPT ![k] = mem]
  BY <1>1, <1>3 DEF Goto
<1>6. UNCHANGED <<row, outside, hook>>
  BY DEF CallMeta
<1>7. pc \in Waiting \ {"call"}
  BY <1>3 DEF Waiting, Failures
<1> HIDE DEF mem
<1>8. QED
  BY <1>1, <1>2, <1>3, <1>4, <1>5, <1>6, <1>7 DEF Called

\* The call keeps the types.
LEMMA CalledKeepsT ==
  ASSUME TInv, NEW k \in Senders, Called(k)
  PROVE  TInv'
<1>1. PICK answer \in {"accepted", "refused"} :
        /\ meta' = [meta EXCEPT ![sender[k].msg] = answer]
        /\ sender'[k].pc = "temporary" => answer = "refused"
  BY DEF Called
<1>2. /\ meta \in [Messages -> MetaStates]
      /\ sender \in [Senders -> Memory]
      /\ sender[k].msg \in Messages /\ sender[k].msg # NoMessage
      /\ row' = row /\ hook' = hook
  BY NoMessageAssumption DEF TInv, TypeOK, Called
<1>3. /\ meta' \in [Messages -> MetaStates]
      /\ meta'[sender[k].msg] = answer
      /\ \A c \in Messages : c # sender[k].msg => meta'[c] = meta[c]
  BY <1>1, <1>2 DEF MetaStates
<1>4. TypeOK'
  BY <1>3 DEF TInv, TypeOK, Called, outside
<1>5. TodoOK'
  BY DEF TInv, TodoOK, Called
<1>6. PatchOK'
  BY <1>2 DEF TInv, PatchOK
<1>7. row[sender[k].msg] # NoRow
  BY <1>2 DEF TInv, FlightOK
<1>8. FlightOK'
  <2>1. ASSUME NEW j \in Senders
        PROVE  /\ sender'[j].pc \in Waiting <=> sender'[j].msg # NoMessage
               /\ sender'[j].msg # NoMessage => row[sender'[j].msg] # NoRow
               /\ sender'[j].pc = "call" => meta'[sender'[j].msg] = "none"
               /\ sender'[j].pc = "temporary" =>
                    meta'[sender'[j].msg] = "refused"
    <3>1. CASE j = k
      BY <1>1, <1>2, <1>3, <1>7, <3>1 DEF Called
    <3>2. CASE j # k
      <4>1. sender'[j] = sender[j]
        BY <3>2 DEF Called
      <4>2. CASE sender[j].pc \in Waiting
        <5>1. sender[j].msg \in Messages /\ sender[j].msg # sender[k].msg
          BY <1>2, <3>2, <4>2 DEF TInv, FlightOK, Memory
        <5>2. QED
          BY <1>3, <4>1, <5>1 DEF TInv, FlightOK
      <4>3. CASE sender[j].pc \notin Waiting
        BY <4>1, <4>3 DEF TInv, FlightOK, Waiting, Failures
      <4>4. QED
        BY <4>2, <4>3
    <3>3. QED
      BY <3>1, <3>2
  <2>2. ASSUME NEW i \in Senders, NEW j \in Senders,
               sender'[i].msg = sender'[j].msg, sender'[i].msg # NoMessage
        PROVE  i = j
    BY <2>2 DEF TInv, FlightOK, Called
  <2>3. \A c \in Messages : meta'[c] # "none" => row[c] # NoRow
    BY <1>3, <1>7 DEF TInv, FlightOK
  <2>4. QED
    BY <1>2, <2>1, <2>2, <2>3 DEF FlightOK
<1>9. QED
  BY <1>4, <1>5, <1>6, <1>8 DEF TInv

\* What Meta does with a message it accepted concerns no sender that waits
\* for it to be called or to fail.
LEMMA SettlesKeepsT ==
  ASSUME TInv, MetaSettles
  PROVE  TInv'
<1>1. PICK m \in Messages, end \in {"delivered"} \cup Failures :
        meta[m] = "accepted" /\ meta' = [meta EXCEPT ![m] = end]
  BY DEF MetaSettles
<1>2. UNCHANGED <<row, outside, sender, hook>>
  BY DEF MetaSettles
<1>3. /\ meta' \in [Messages -> MetaStates]
      /\ \A c \in Messages : meta[c] # "accepted" => meta'[c] = meta[c]
      /\ \A c \in Messages : meta'[c] # "none" => meta[c] # "none"
  BY <1>1 DEF TInv, TypeOK, MetaStates
<1>4. TypeOK' /\ TodoOK' /\ PatchOK'
  BY <1>2, <1>3 DEF TInv, TypeOK, TodoOK, PatchOK, outside
<1>5. \A j \in Senders : sender[j].msg # NoMessage => sender[j].msg \in Messages
  BY DEF TInv, TypeOK, Memory
<1>6. \A j \in Senders :
        /\ sender[j].pc = "call" => meta'[sender[j].msg] = "none"
        /\ sender[j].pc = "temporary" => meta'[sender[j].msg] = "refused"
  <2> SUFFICES ASSUME NEW j \in Senders, sender[j].pc \in {"call", "temporary"}
               PROVE  meta'[sender[j].msg] = meta[sender[j].msg]
    BY DEF TInv, FlightOK
  <2>1. sender[j].msg \in Messages
    BY <1>5 DEF TInv, FlightOK, Waiting, Failures
  <2>2. meta[sender[j].msg] # "accepted"
    BY DEF TInv, FlightOK
  <2>3. QED
    BY <1>3, <2>1, <2>2
<1>7. FlightOK'
  BY <1>2, <1>3, <1>6 DEF TInv, FlightOK
<1>8. QED
  BY <1>4, <1>7 DEF TInv

\* What a message that Meta speaks of is.
LEMMA SaysShape ==
  ASSUME NEW m \in Messages, NEW e \in Says(m)
  PROVE  meta[m] # "none" /\ (e = "temporary" => meta[m] = "temporary")
BY DEF Says

\* A step of an acknowledgement that writes no row.
HookMoved(h, mem) ==
  /\ mem \in HookMemory
  /\ mem.pc # "idle" =>
       /\ mem.msg \in Messages /\ row[mem.msg] # NoRow
       /\ mem.event = "temporary" =>
            \/ meta[mem.msg] = "temporary"
            \/ hook[h].pc # "idle" /\ hook[h].msg = mem.msg
                 /\ hook[h].event = "temporary"
  /\ mem.pc = "write" => Patched(mem.seen, mem.event) # mem.seen
  /\ hook' = [hook EXCEPT ![h] = mem]
  /\ UNCHANGED <<row, meta, outside, sender>>

\* The write of an acknowledgement: the row was not FAILED, and only a
\* temporary failure makes it retryable.
HookWrote(h) ==
  /\ hook[h].pc = "write" /\ hook[h].msg \in Messages
  /\ row' \in [Messages -> Row]
  /\ LET r == row'[hook[h].msg]
         old == row[hook[h].msg]
     IN  /\ old.status # "FAILED" /\ r.status \in {"SENT", "FAILED"}
         /\ r.attempt = old.attempt
         /\ r.retryable => old.retryable \/ hook[h].event = "temporary"
  /\ \A c \in Messages : c # hook[h].msg => row'[c] = row[c]
  /\ hook' = [hook EXCEPT ![h] = NoHook]
  /\ overtaken' \in BOOLEAN /\ (overtaken => overtaken')
  /\ hook[h].event = "temporary" /\ InFlight(hook[h].msg) => overtaken'
  /\ UNCHANGED <<meta, paid, expired, sender>>

\* A hook that is done.
LEMMA NoHookShape == NoHook \in HookMemory /\ NoHook.pc = "idle"
<1>1. 0 \in 0..MaxAttempts /\ 0 \in 0..WriteAttempts
  BY BoundsAssumption
<1>2. NoRow \in Row
  BY <1>1 DEF NoRow, Row, Statuses
<1>3. QED
  BY <1>1, <1>2 DEF NoHook, HookMemory, Events

\* applyStatus, when the acknowledgement arrives.
LEMMA AcknowledgeShape ==
  ASSUME TInv, NEW h \in Hooks, Acknowledge(h)
  PROVE  \E mem : HookMoved(h, mem)
<1>1. PICK m \in Messages, e \in Events :
        /\ e \in Says(m)
        /\ hook' = [hook EXCEPT ![h] =
             [NoHook EXCEPT !.pc = "read", !.msg = m, !.event = e]]
  BY DEF Acknowledge
<1> DEFINE mem == [NoHook EXCEPT !.pc = "read", !.msg = m, !.event = e]
<1>2. mem \in HookMemory /\ mem.pc = "read" /\ mem.msg = m /\ mem.event = e
  BY <1>1, NoHookShape DEF HookMemory
<1>3. meta[m] # "none" /\ (e = "temporary" => meta[m] = "temporary")
  BY <1>1, SaysShape
<1>4. row[m] # NoRow
  BY <1>3 DEF TInv, FlightOK
<1>5. UNCHANGED <<row, meta, outside, sender>>
  BY DEF Acknowledge
<1>6. hook' = [hook EXCEPT ![h] = mem]
  BY <1>1
<1> HIDE DEF mem
<1>7. QED
  BY <1>1, <1>2, <1>3, <1>4, <1>5, <1>6 DEF HookMoved

\* applyStatus, the row is read.
LEMMA AckReadShape ==
  ASSUME TInv, NEW h \in Hooks, AckRead(h)
  PROVE  \E mem : HookMoved(h, mem)
<1>1. /\ hook \in [Hooks -> HookMemory] /\ row \in [Messages -> Row]
      /\ hook[h] \in HookMemory
      /\ hook[h].pc = "read" /\ hook[h].msg \in Messages
      /\ row[hook[h].msg] # NoRow
      /\ UNCHANGED <<row, meta, outside, sender>>
  BY DEF AckRead, TInv, TypeOK, PatchOK
<1> DEFINE r == row[hook[h].msg]
           mem == [hook[h] EXCEPT !.pc = "write", !.seen = r]
<1>2. CASE Patched(r, hook[h].event) = r
  BY <1>1, <1>2, NoHookShape DEF AckRead, HookDone, HookMoved
<1>3. CASE Patched(r, hook[h].event) # r
  <2>1. r \in Row
    BY <1>1
  <2>2. /\ mem \in HookMemory /\ mem.msg = hook[h].msg /\ mem.seen = r
        /\ mem.event = hook[h].event /\ mem.pc = "write"
    BY <1>1, <2>1 DEF HookMemory
  <2>3. hook' = [hook EXCEPT ![h] = mem]
    BY <1>1, <1>3 DEF AckRead
  <2>4. QED
    BY <1>1, <1>3, <2>2, <2>3 DEF HookMoved
<1>4. QED
  BY <1>2, <1>3

\* applyStatus, the compare-and-swap: it writes, or reads again or gives up.
LEMMA AckWriteShape ==
  ASSUME TInv, NEW h \in Hooks, AckWrite(h)
  PROVE  HookWrote(h) \/ \E mem : HookMoved(h, mem)
<1> DEFINE m == hook[h].msg
           s == hook[h].seen
           e == hook[h].event
           p == Patched(s, e)
<1>1. /\ hook \in [Hooks -> HookMemory] /\ row \in [Messages -> Row]
      /\ hook[h] \in HookMemory
      /\ hook[h].pc = "write" /\ m \in Messages
      /\ row[m] # NoRow /\ p # s
      /\ UNCHANGED <<meta, paid, expired, sender>>
  BY DEF AckWrite, TInv, TypeOK, PatchOK
<1>2. CASE UnchangedSince(row[m], s)
  <2> DEFINE r == [row[m] EXCEPT
                     !.status = p.status, !.sent = p.sent,
                     !.delivered = p.delivered \/ @,
                     !.retryable = IF e \in Failures THEN p.retryable ELSE @]
  <2>1. s \in Row /\ e \in Events /\ row[m] \in Row
    BY <1>1 DEF HookMemory
  <2>2. /\ p \in Row /\ s.status # "FAILED"
        /\ p.status \in {"SENT", "FAILED"}
        /\ e = "final" => ~p.retryable
    BY <1>1, <2>1, PatchedShape
  <2> HIDE DEF p
  <2>3. r \in Row
    BY <2>1, <2>2 DEF Row
  <2>4. /\ r.status = p.status /\ r.attempt = row[m].attempt
        /\ r.retryable => row[m].retryable \/ e = "temporary"
    BY <2>1, <2>2 DEF Row, Failures
  <2>5. row' = [row EXCEPT ![m] = r] /\ hook' = [hook EXCEPT ![h] = NoHook]
    <3>1. /\ row' = [row EXCEPT
               ![m].status = p.status, ![m].sent = p.sent,
               ![m].delivered = p.delivered \/ @,
               ![m].retryable = IF e \in Failures THEN p.retryable ELSE @]
          /\ HookDone(h)
      BY <1>2 DEF AckWrite, p
    <3>2. QED
      BY <1>1, <3>1 DEF HookDone
  <2>6. row[m].status # "FAILED"
    BY <1>2, <2>2 DEF UnchangedSince
  <2>7. /\ overtaken' \in BOOLEAN /\ (overtaken => overtaken')
        /\ e = "temporary" /\ InFlight(m) => overtaken'
    BY <1>2 DEF AckWrite, TInv, TypeOK
  <2> HIDE DEF r
  <2>8. QED
    BY <1>1, <2>2, <2>3, <2>4, <2>5, <2>6, <2>7 DEF HookWrote
<1>3. CASE ~UnchangedSince(row[m], s)
  <2> DEFINE mem == [hook[h] EXCEPT !.pc = "read", !.tries = @ + 1,
                                    !.seen = NoRow]
  <2>1. UNCHANGED row /\ UNCHANGED outside
    BY <1>1, <1>3 DEF AckWrite, outside
  <2>2. CASE hook[h].tries + 1 < WriteAttempts
    <3>1. hook[h].tries + 1 \in 0..WriteAttempts
      BY <1>1, <2>2, BoundsAssumption DEF HookMemory
    <3>2. NoRow \in Row
      BY NoHookShape DEF NoHook, HookMemory
    <3>3. /\ mem \in HookMemory /\ mem.msg = m /\ mem.pc = "read"
          /\ mem.event = e
      BY <1>1, <3>1, <3>2 DEF HookMemory
    <3>4. hook' = [hook EXCEPT ![h] = mem]
      BY <1>1, <1>3, <2>2 DEF AckWrite
    <3> HIDE DEF mem
    <3>5. QED
      BY <1>1, <2>1, <3>3, <3>4 DEF HookMoved
  <2>3. CASE ~(hook[h].tries + 1 < WriteAttempts)
    <3>1. hook' = [hook EXCEPT ![h] = NoHook]
      BY <1>3, <2>3 DEF AckWrite, HookDone
    <3>2. QED
      BY <1>1, <2>1, <3>1, NoHookShape DEF HookMoved
  <2>4. QED
    BY <2>2, <2>3
<1>4. QED
  BY <1>2, <1>3

\* An acknowledgement that moves keeps the types.
LEMMA HookMovedKeepsT ==
  ASSUME TInv, NEW h \in Hooks, NEW mem, HookMoved(h, mem)
  PROVE  TInv'
<1>1. /\ hook \in [Hooks -> HookMemory]
      /\ hook' = [hook EXCEPT ![h] = mem] /\ mem \in HookMemory
      /\ UNCHANGED <<row, meta, outside, sender>>
  BY DEF TInv, TypeOK, HookMoved
<1>2. hook' \in [Hooks -> HookMemory] /\ hook'[h] = mem
      /\ \A i \in Hooks : i # h => hook'[i] = hook[i]
  BY <1>1
<1>3. TypeOK' /\ TodoOK' /\ FlightOK'
  BY <1>1, <1>2 DEF TInv, TypeOK, TodoOK, FlightOK, outside
<1>4. PatchOK'
  BY <1>1, <1>2 DEF TInv, PatchOK, HookMoved
<1>5. QED
  BY <1>3, <1>4 DEF TInv

\* The write of an acknowledgement keeps the types.
LEMMA HookWroteKeepsT ==
  ASSUME TInv, NEW h \in Hooks, HookWrote(h)
  PROVE  /\ TInv'
         /\ \A c \in Messages : /\ row'[c] # NoRow <=> row[c] # NoRow
                                /\ row'[c].attempt = row[c].attempt
<1>1. /\ hook \in [Hooks -> HookMemory] /\ sender \in [Senders -> Memory]
      /\ hook' = [hook EXCEPT ![h] = NoHook]
      /\ UNCHANGED <<meta, paid, expired, sender>>
  BY DEF TInv, TypeOK, HookWrote
<1>2. hook' \in [Hooks -> HookMemory] /\ hook'[h] = NoHook
      /\ \A i \in Hooks : i # h => hook'[i] = hook[i]
  BY <1>1, NoHookShape
<1>3. \A c \in Messages : /\ row'[c] # NoRow <=> row[c] # NoRow
                          /\ row'[c].attempt = row[c].attempt
  <2>1. row[hook[h].msg] # NoRow
    BY DEF TInv, PatchOK, HookWrote
  <2>2. row'[hook[h].msg] # NoRow
    BY StatusExists DEF HookWrote
  <2>3. QED
    BY <2>1, <2>2 DEF HookWrote
<1>4. TypeOK'
  <2>1. overtaken' \in BOOLEAN
    BY DEF TInv, TypeOK, HookWrote
  <2>2. QED
    BY <1>1, <1>2, <2>1 DEF TInv, TypeOK, HookWrote
<1>5. TodoOK'
  BY <1>1, <1>3 DEF TInv, TodoOK, Memory
<1>6. PatchOK'
  BY <1>2, <1>3, NoHookShape DEF TInv, PatchOK
<1>7. \A j \in Senders : sender[j].msg # NoMessage => sender[j].msg \in Messages
  BY <1>1 DEF Memory
<1>8. FlightOK'
  BY <1>1, <1>3, <1>7 DEF TInv, FlightOK
<1>9. QED
  BY <1>3, <1>4, <1>5, <1>6, <1>8 DEF TInv

\* The cases of a step.
LEMMA StepCases ==
  ASSUME TInv, Next
  PROVE  \/ Notify \/ MetaSettles
         \/ UNCHANGED <<row, meta, sender, hook>> /\ TypeOK'
         \/ \E k \in Senders : \/ Released(k) \/ Called(k)
                               \/ sender[k].pc = "access"
                                    /\ \E m \in Messages : Created(k, m)
         \/ \E k \in Runs : sender[k].pc = "next"
              /\ \E m \in sender[k].todo : Reserved(k, m)
         \/ \E h \in Hooks : HookWrote(h) \/ \E mem : HookMoved(h, mem)
<1>1. CASE Notify \/ MetaSettles
  BY <1>1
<1>2. CASE RentPaid \/ WindowCloses
  BY <1>2 DEF RentPaid, WindowCloses, TInv, TypeOK
<1>3. ASSUME NEW k \in Senders,
             \/ Refused(k) \/ MarkSent(k) \/ MarkFailure(k) \/ MarkLost(k)
             \/ Stop(k)
      PROVE  Released(k)
  BY <1>3, Releases
<1>4. ASSUME NEW k \in Senders, CreateQueued(k)
      PROVE  sender[k].pc = "access" /\ \E m \in Messages : Created(k, m)
  BY <1>4, CreateShape
<1>5. ASSUME NEW k \in Senders, CallMeta(k)
      PROVE  Called(k)
  BY <1>5, CallShape
<1>6. ASSUME NEW k \in Runs,
             RetryRead(k) \/ RetryAtNight(k) \/ RetryEnd(k) \/ AlertExpired(k)
      PROVE  k \in Senders /\ Released(k)
  BY <1>6, Releases DEF Senders
<1>7. ASSUME NEW k \in Runs, Reserve(k)
      PROVE  /\ k \in Senders /\ sender[k].pc = "next"
             /\ Released(k) \/ \E m \in sender[k].todo : Reserved(k, m)
  BY <1>7, ReserveShape DEF Senders
<1>8. ASSUME NEW h \in Hooks, Acknowledge(h) \/ AckRead(h) \/ AckWrite(h)
      PROVE  HookWrote(h) \/ \E mem : HookMoved(h, mem)
  BY <1>8, AcknowledgeShape, AckReadShape, AckWriteShape
<1>9. QED
  BY <1>1, <1>2, <1>3, <1>4, <1>5, <1>6, <1>7, <1>8 DEF Next

\* Every step keeps the types.
LEMMA StepKeepsT == TInv /\ [Next]_vars => TInv'
<1> SUFFICES ASSUME TInv, [Next]_vars
             PROVE  TInv'
  OBVIOUS
<1>1. CASE UNCHANGED <<row, meta, sender, hook>> /\ TypeOK'
  BY <1>1 DEF TInv, TodoOK, PatchOK, FlightOK
<1>2. CASE UNCHANGED vars
  BY <1>2 DEF vars, TInv, TypeOK, TodoOK, PatchOK, FlightOK
<1>3. ASSUME NEW k \in Senders,
             Released(k) \/ Called(k) \/ \E m \in Messages : Created(k, m)
      PROVE  TInv'
  BY <1>3, ReleasedKeepsT, CalledKeepsT, CreatedKeepsT
<1>4. ASSUME NEW k \in Runs, sender[k].pc = "next",
             NEW m \in sender[k].todo, Reserved(k, m)
      PROVE  TInv'
  BY <1>4, ReservedKeepsT DEF Senders
<1>5. ASSUME NEW h \in Hooks, HookWrote(h) \/ \E mem : HookMoved(h, mem)
      PROVE  TInv'
  BY <1>5, HookWroteKeepsT, HookMovedKeepsT
<1>6. CASE Notify \/ MetaSettles
  BY <1>6, NotifyKeepsT, SettlesKeepsT
<1>7. QED
  BY <1>1, <1>2, <1>3, <1>4, <1>5, <1>6, StepCases

\* The initial state has the types.
LEMMA InitT == Init => TInv
<1> SUFFICES ASSUME Init
             PROVE  TInv
  OBVIOUS
<1>1. 0 \in 0..MaxAttempts
  BY BoundsAssumption
<1>2. NoRow \in Row
  BY <1>1 DEF NoRow, Row, Statuses
<1>3. Idle \in Memory /\ Idle.todo = {} /\ Idle.pc = "idle"
      /\ Idle.msg = NoMessage
  BY <1>1 DEF Idle, Memory
<1>4. TypeOK
  BY <1>2, <1>3, NoHookShape DEF Init, TypeOK, MetaStates
<1>5. TodoOK /\ PatchOK
  BY <1>3, NoHookShape DEF Init, TodoOK, PatchOK
<1>6. FlightOK
  BY <1>3 DEF Init, FlightOK, Waiting, Failures
<1>7. QED
  BY <1>4, <1>5, <1>6 DEF TInv

\* The types hold with what they rest on, whatever overtakes what.
LEMMA TInvCorrect == Spec => []TInv
BY InitT, StepKeepsT, PTL DEF Spec

\* The types of the rows, of Meta's answers and of the handlers' memory hold
\* in every run of WhatsappService, its webhook and its retry task.
THEOREM TypeCorrect == Spec => []TypeOK
<1>1. TInv => TypeOK
  BY DEF TInv
<1>2. QED
  BY <1>1, TInvCorrect, PTL

-----------------------------------------------------------------------------
(* The attempts of a series come one after the other, until a temporary    *)
(* failure is written before the answer to the call it is about.           *)

\* The attempt m failed without reaching the tenant, nobody waits for its
\* answer, and no run may take it.
Spent(m) ==
  /\ row[m].status = "FAILED" /\ ~row[m].retryable
  /\ ~InFlight(m)
  /\ meta[m] \in {"refused", "temporary"}

\* A row that may be retried failed without reaching the tenant, and nobody
\* waits for its answer.
RetryableOK ==
  \A m \in Messages : row[m].retryable =>
    ~InFlight(m) /\ meta[m] \in {"refused", "temporary"}

\* A temporary failure that is being applied did happen.
HookOK ==
  \A h \in Hooks : hook[h].pc # "idle" /\ hook[h].event = "temporary" =>
    meta[hook[h].msg] = "temporary"

\* One sender at most is about to make an attempt, and every attempt before
\* it is spent.
FrontOK ==
  /\ \A j, k \in Senders :
       sender[j].pc = "access" /\ sender[k].pc = "access" => j = k
  /\ \A k \in Senders : sender[k].pc = "access" =>
       /\ \A m \in Messages : row[m] # NoRow =>
            row[m].attempt < sender[k].attempt /\ Spent(m)
       /\ k \in Runs => \E m \in Messages : row[m] # NoRow

\* Every attempt but the last is spent.
SeriesOK ==
  \A m, n \in Messages :
    row[m] # NoRow /\ row[n] # NoRow /\ row[m].attempt < row[n].attempt
      => Spent(m)

\* Two rows are two attempts.
RowsOK ==
  \A m, n \in Messages :
    row[m] # NoRow /\ row[n] # NoRow /\ row[m].attempt = row[n].attempt => m = n

\* The inductive invariant, until a failure overtakes an answer.
IInv == /\ TInv /\ RetryableOK /\ HookOK
        /\ FrontOK /\ SeriesOK /\ RowsOK

\* A step that creates no row and lets nobody start an attempt.
Calm ==
  /\ \A m \in Messages : /\ row'[m] # NoRow <=> row[m] # NoRow
                         /\ row'[m].attempt = row[m].attempt
                         /\ Spent(m) => Spent(m)'
  /\ \A k \in Senders : sender'[k].pc = "access" => sender'[k] = sender[k]

\* It leaves the series as it is.
LEMMA CalmKeepsSeries ==
  ASSUME IInv, Calm
  PROVE  FrontOK' /\ SeriesOK' /\ RowsOK'
<1>1. FrontOK'
  <2>1. \A j, k \in Senders :
          sender'[j].pc = "access" /\ sender'[k].pc = "access" => j = k
    BY DEF IInv, FrontOK, Calm
  <2>2. ASSUME NEW k \in Senders, sender'[k].pc = "access"
        PROVE  /\ \A m \in Messages : row'[m] # NoRow =>
                    row'[m].attempt < sender'[k].attempt /\ Spent(m)'
               /\ k \in Runs => \E m \in Messages : row'[m] # NoRow
    <3>1. sender'[k] = sender[k]
      BY <2>2 DEF Calm
    <3>2. /\ \A m \in Messages : row[m] # NoRow =>
               row[m].attempt < sender[k].attempt /\ Spent(m)
          /\ k \in Runs => \E m \in Messages : row[m] # NoRow
      BY <2>2, <3>1 DEF IInv, FrontOK
    <3>3. QED
      BY <3>1, <3>2 DEF Calm
  <2>3. QED
    BY <2>1, <2>2 DEF FrontOK
<1>2. SeriesOK'
  BY DEF IInv, SeriesOK, Calm
<1>3. RowsOK'
  BY DEF IInv, RowsOK, Calm
<1>4. QED
  BY <1>1, <1>2, <1>3

\* A sender that comes to rest keeps the invariant.
LEMMA ReleasedKeeps ==
  ASSUME IInv, NEW k \in Senders, Released(k)
  PROVE  IInv'
<1>1. PICK mem : Resting(mem) /\ sender' = [sender EXCEPT ![k] = mem]
  BY DEF Released
<1>2. sender \in [Senders -> Memory]
  BY DEF IInv, TInv, TypeOK
<1>3. /\ sender'[k] = mem
      /\ \A j \in Senders : j # k => sender'[j] = sender[j]
  BY <1>1, <1>2
<1>4. mem.msg = NoMessage /\ mem.pc # "access"
  BY <1>1 DEF Resting
<1>5. \A m \in Messages : InFlight(m)' => InFlight(m) /\ sender[k].msg # m
  <2> SUFFICES ASSUME NEW m \in Messages, InFlight(m)'
               PROVE  InFlight(m) /\ sender[k].msg # m
    OBVIOUS
  <2>1. PICK j \in Senders : sender'[j].msg = m
    BY DEF InFlight
  <2>2. m # NoMessage
    BY NoMessageAssumption
  <2>3. j # k /\ sender[j].msg = m
    BY <1>3, <1>4, <2>1, <2>2
  <2>4. QED
    BY <2>2, <2>3 DEF IInv, TInv, FlightOK, InFlight
<1>6. meta' = meta /\ hook' = hook
  BY DEF Released
<1>7. RetryableOK'
  <2> SUFFICES ASSUME NEW m \in Messages, row'[m].retryable
               PROVE  ~InFlight(m)' /\ meta[m] \in {"refused", "temporary"}
    BY <1>6 DEF RetryableOK
  <2>1. CASE row[m].retryable
    BY <1>5, <2>1 DEF IInv, RetryableOK
  <2>2. CASE sender[k].pc = "temporary" /\ sender[k].msg = m
    BY <1>5, <2>2 DEF IInv, TInv, FlightOK
  <2>3. QED
    BY <2>1, <2>2 DEF Released
<1>8. HookOK'
  BY <1>5, <1>6 DEF IInv, TInv, PatchOK, HookOK
<1>9. \A m \in Messages : Spent(m) => Spent(m)'
  <2> SUFFICES ASSUME NEW m \in Messages, Spent(m)
               PROVE  Spent(m)'
    OBVIOUS
  <2>1. sender[k].msg # m
    BY DEF Spent, InFlight
  <2>2. row'[m].status = "FAILED" /\ ~row'[m].retryable
    BY <2>1 DEF Released, Spent
  <2>3. QED
    BY <1>5, <1>6, <2>2 DEF Spent
<1>10. Calm
  BY <1>3, <1>4, <1>9 DEF Calm, Released
<1>11. QED
  BY <1>7, <1>8, <1>10, CalmKeepsSeries, ReleasedKeepsT DEF IInv

\* The call to Meta keeps it.
LEMMA CalledKeeps ==
  ASSUME IInv, NEW k \in Senders, Called(k)
  PROVE  IInv'
<1>1. PICK answer \in {"accepted", "refused"} :
        meta' = [meta EXCEPT ![sender[k].msg] = answer]
  BY DEF Called
<1>2. /\ \A m \in Messages : m # sender[k].msg => meta'[m] = meta[m]
      /\ row' = row /\ hook' = hook
  BY <1>1 DEF IInv, TInv, TypeOK, Called
<1>3. \A m : InFlight(m)' <=> InFlight(m)
  BY DEF InFlight, Called
<1>4. InFlight(sender[k].msg)
  BY DEF InFlight
<1>5. RetryableOK'
  BY <1>2, <1>3, <1>4 DEF IInv, RetryableOK
<1>6. HookOK'
  <2>1. \A c \in Messages : meta[c] = "temporary" => meta'[c] = meta[c]
    BY <1>2 DEF Called
  <2>2. QED
    BY <1>2, <2>1 DEF IInv, TInv, PatchOK, HookOK
<1>7. \A m \in Messages : Spent(m) => Spent(m)'
  BY <1>2, <1>3, <1>4 DEF Spent
<1>8. sender'[k].pc # "access"
  BY DEF Called, Waiting, Failures
<1>9. Calm
  BY <1>2, <1>7, <1>8 DEF Calm, Called
<1>10. QED
  BY <1>5, <1>6, <1>9, CalmKeepsSeries, CalledKeepsT DEF IInv

\* What Meta does with an accepted message keeps it.
LEMMA SettlesKeeps ==
  ASSUME IInv, MetaSettles
  PROVE  IInv'
<1>1. PICK m \in Messages, end \in {"delivered"} \cup Failures :
        meta[m] = "accepted" /\ meta' = [meta EXCEPT ![m] = end]
  BY DEF MetaSettles
<1>2. UNCHANGED <<row, sender, hook>>
  BY DEF MetaSettles
<1>3. \A c \in Messages : meta[c] # "accepted" => meta'[c] = meta[c]
  BY <1>1 DEF IInv, TInv, TypeOK
<1>4. \A c : InFlight(c)' <=> InFlight(c)
  BY <1>2 DEF InFlight
<1>5. RetryableOK'
  BY <1>2, <1>3, <1>4 DEF IInv, RetryableOK
<1>6. HookOK'
  BY <1>2, <1>3, <1>4 DEF IInv, TInv, PatchOK, HookOK
<1>7. Calm
  BY <1>2, <1>3, <1>4 DEF Calm, Spent
<1>8. QED
  BY <1>5, <1>6, <1>7, CalmKeepsSeries, SettlesKeepsT DEF IInv

\* An acknowledgement that arrives, reads or gives up keeps it.
LEMMA HookMovedKeeps ==
  ASSUME IInv, NEW h \in Hooks, NEW mem, HookMoved(h, mem)
  PROVE  IInv'
<1>1. /\ hook \in [Hooks -> HookMemory]
      /\ hook' = [hook EXCEPT ![h] = mem]
      /\ UNCHANGED <<row, meta, sender>>
  BY DEF IInv, TInv, TypeOK, HookMoved
<1>2. \A c : InFlight(c)' <=> InFlight(c)
  BY <1>1 DEF InFlight
<1>3. mem.pc # "idle" /\ mem.event = "temporary" =>
        meta[mem.msg] = "temporary"
  BY DEF IInv, HookOK, HookMoved
<1>4. HookOK'
  <2> SUFFICES ASSUME NEW i \in Hooks, hook'[i].pc # "idle",
                      hook'[i].event = "temporary"
               PROVE  meta[hook'[i].msg] = "temporary"
    BY <1>1 DEF HookOK
  <2>1. CASE i = h
    BY <1>1, <1>3, <2>1
  <2>2. CASE i # h
    BY <1>1, <2>2 DEF IInv, HookOK
  <2>3. QED
    BY <2>1, <2>2
<1>5. RetryableOK'
  BY <1>1, <1>2 DEF IInv, RetryableOK
<1>6. Calm
  BY <1>1, <1>2 DEF Calm, Spent
<1>7. QED
  BY <1>4, <1>5, <1>6, CalmKeepsSeries, HookMovedKeepsT DEF IInv

\* The write of an acknowledgement keeps it, unless it overtakes an answer.
LEMMA HookWroteKeeps ==
  ASSUME IInv, NEW h \in Hooks, HookWrote(h), ~overtaken'
  PROVE  IInv'
<1>1. /\ hook \in [Hooks -> HookMemory]
      /\ hook' = [hook EXCEPT ![h] = NoHook]
      /\ UNCHANGED <<meta, sender>>
      /\ \A i \in Hooks : i # h => hook'[i] = hook[i]
  BY DEF IInv, TInv, TypeOK, HookWrote
<1>2. \A c : InFlight(c)' <=> InFlight(c)
  BY <1>1 DEF InFlight
<1>3. hook'[h].pc = "idle"
  BY <1>1, NoHookShape
<1>4. HookOK'
  BY <1>1, <1>2, <1>3 DEF IInv, HookOK
<1>5. RetryableOK'
  <2> SUFFICES ASSUME NEW m \in Messages, row'[m].retryable
               PROVE  ~InFlight(m) /\ meta[m] \in {"refused", "temporary"}
    BY <1>1, <1>2 DEF RetryableOK
  <2>1. CASE row[m].retryable
    BY <2>1 DEF IInv, RetryableOK
  <2>2. CASE ~row[m].retryable
    <3>1. m = hook[h].msg /\ hook[h].event = "temporary"
      BY <2>2 DEF HookWrote
    <3>2. hook[h].pc # "idle" /\ ~InFlight(m)
      BY <3>1 DEF HookWrote
    <3>3. QED
      BY <3>1, <3>2 DEF IInv, HookOK
  <2>3. QED
    BY <2>1, <2>2
<1>6. \A m \in Messages : Spent(m) => Spent(m)'
  <2> SUFFICES ASSUME NEW m \in Messages, Spent(m)
               PROVE  Spent(m)'
    OBVIOUS
  <2>1. m # hook[h].msg
    BY DEF Spent, HookWrote
  <2>2. row'[m] = row[m]
    BY <2>1 DEF HookWrote
  <2>3. QED
    BY <1>1, <1>2, <2>2 DEF Spent
<1>7. Calm
  BY <1>1, <1>6, HookWroteKeepsT DEF Calm, IInv
<1>8. QED
  BY <1>4, <1>5, <1>7, CalmKeepsSeries, HookWroteKeepsT DEF IInv

\* The first attempt of a series keeps it: there is no row yet.
LEMMA NotifyKeeps ==
  ASSUME IInv, Notify
  PROVE  IInv'
<1>1. /\ sender \in [Senders -> Memory] /\ Notifier \in Senders
      /\ \A m \in Messages : row[m] = NoRow
      /\ sender' = [sender EXCEPT ![Notifier] =
           [Idle EXCEPT !.pc = "access", !.attempt = 1]]
      /\ UNCHANGED <<row, meta, outside, hook>>
  BY DEF IInv, TInv, TypeOK, Notify, Becomes, Senders
<1>2. /\ sender'[Notifier] = [Idle EXCEPT !.pc = "access", !.attempt = 1]
      /\ \A j \in Senders : j # Notifier => sender'[j] = sender[j]
  BY <1>1
<1>3. sender'[Notifier].msg = NoMessage
  BY <1>2 DEF Idle
<1>4. \A m \in Messages : InFlight(m)' => InFlight(m)
  BY <1>2, <1>3, NoMessageAssumption DEF InFlight
<1>5. RetryableOK' /\ HookOK'
  BY <1>1, <1>4 DEF IInv, TInv, PatchOK, RetryableOK, HookOK
<1>6. \A j \in Senders : sender[j].pc # "access" \/ j = Notifier
  BY <1>1 DEF IInv, FrontOK, Senders
<1>7. FrontOK'
  BY <1>1, <1>2, <1>6, NotifierAssumption DEF FrontOK
<1>8. SeriesOK' /\ RowsOK'
  BY <1>1 DEF SeriesOK, RowsOK
<1>9. QED
  BY <1>5, <1>7, <1>8, NotifyKeepsT DEF IInv

\* A new attempt keeps it: every attempt before it is spent.
LEMMA CreatedKeeps ==
  ASSUME IInv, NEW k \in Senders, NEW m \in Messages, Created(k, m),
         sender[k].pc = "access"
  PROVE  IInv'
<1>1. /\ row \in [Messages -> Row] /\ sender \in [Senders -> Memory]
      /\ meta' = meta /\ hook' = hook
  BY DEF IInv, TInv, TypeOK, Created
<1>2. \A c \in Messages : row[c] # NoRow =>
        /\ c # m /\ row'[c] = row[c]
        /\ row[c].attempt < sender[k].attempt /\ Spent(c)
  BY DEF IInv, FrontOK, Created
<1>3. \A c \in Messages : c # m /\ InFlight(c)' => InFlight(c)
  BY DEF InFlight, Created
<1>4. \A c \in Messages : row[c] # NoRow => Spent(c)'
  BY <1>1, <1>2, <1>3 DEF Spent
<1>5. \A c \in Messages : row'[c] # NoRow => c = m \/ row[c] # NoRow
  BY DEF Created
<1>6. RetryableOK'
  BY <1>1, <1>3 DEF IInv, RetryableOK, Created
<1>7. HookOK'
  <2>1. \A h \in Hooks : hook[h].pc # "idle" =>
          hook[h].msg \in Messages /\ hook[h].msg # m
    BY DEF IInv, TInv, PatchOK, Created
  <2>2. QED
    BY <1>1, <1>3, <2>1 DEF IInv, HookOK
<1>8. \A j \in Senders : sender'[j].pc # "access"
  BY DEF IInv, FrontOK, Created
<1>9. FrontOK'
  BY <1>8 DEF FrontOK
<1>10. sender[k].attempt \in Nat /\ \A c \in Messages : row[c].attempt \in Nat
  BY <1>1, BoundsAssumption DEF Row, Memory
<1>11. SeriesOK'
  <2> SUFFICES ASSUME NEW c \in Messages, NEW d \in Messages,
                      row'[c] # NoRow, row'[d] # NoRow,
                      row'[c].attempt < row'[d].attempt
               PROVE  Spent(c)'
    BY DEF SeriesOK
  <2>1. c # m
    <3>1. CASE d = m
      BY <1>10, <3>1 DEF Created
    <3>2. CASE d # m
      <4>1. row[d] # NoRow
        BY <1>5, <3>2
      <4>2. row'[d].attempt < sender[k].attempt
        BY <1>2, <4>1
      <4>3. QED
        BY <1>2, <1>10, <4>1, <4>2 DEF Created
    <3>3. QED
      BY <3>1, <3>2
  <2>2. QED
    BY <1>4, <1>5, <2>1
<1>12. RowsOK'
  <2> SUFFICES ASSUME NEW c \in Messages, NEW d \in Messages,
                      row'[c] # NoRow, row'[d] # NoRow,
                      row'[c].attempt = row'[d].attempt
               PROVE  c = d
    BY DEF RowsOK
  <2>1. \A e \in Messages : e # m /\ row'[e] # NoRow =>
          /\ row[e] # NoRow /\ row'[e] = row[e]
          /\ row'[e].attempt # row'[m].attempt
    BY <1>2, <1>5, <1>10 DEF Created
  <2>2. QED
    BY <2>1 DEF IInv, RowsOK
<1>13. QED
  BY <1>6, <1>7, <1>9, <1>11, <1>12, CreatedKeepsT DEF IInv

\* A reservation keeps it: the row reserved was the last attempt, and nobody
\* else was about to make one.
LEMMA ReservedKeeps ==
  ASSUME IInv, NEW k \in Senders, k \in Runs, NEW m \in sender[k].todo,
         Reserved(k, m), sender[k].pc = "next"
  PROVE  IInv'
<1>1. /\ m \in Messages /\ TInv'
      /\ sender'[k].pc = "access" /\ sender'[k].msg = NoMessage
      /\ sender'[k].attempt = row[m].attempt + 1
      /\ \A j \in Senders : j # k => sender'[j] = sender[j]
  BY ReservedKeepsT DEF IInv
<1>2. /\ row \in [Messages -> Row]
      /\ row[m].status = "FAILED" /\ row[m].retryable
      /\ UNCHANGED <<meta, hook>>
  BY DEF IInv, TInv, TypeOK, Reserved
<1>3. /\ ~row'[m].retryable /\ row'[m].status = "FAILED"
      /\ \A c \in Messages :
           /\ c # m => row'[c] = row[c]
           /\ row'[c] # NoRow <=> row[c] # NoRow
           /\ row'[c].attempt = row[c].attempt
  BY <1>1, ReservedRow DEF IInv, Reserved
<1>4. row[m] # NoRow /\ ~Spent(m)
  BY <1>1, <1>2, StatusExists DEF Spent
<1>5. \A c \in Messages : InFlight(c)' => InFlight(c)
  BY <1>1, NoMessageAssumption DEF InFlight
<1>6. Spent(m)'
  BY <1>1, <1>2, <1>3, <1>5 DEF IInv, RetryableOK, Spent
<1>7. \A c \in Messages : Spent(c) => Spent(c)'
  BY <1>2, <1>3, <1>4, <1>5 DEF Spent
<1>8. RetryableOK'
  BY <1>2, <1>3, <1>5 DEF IInv, RetryableOK
<1>9. HookOK'
  BY <1>2, <1>5 DEF IInv, TInv, PatchOK, HookOK
<1>10. \A c \in Messages : row[c] # NoRow /\ c # m =>
         row[c].attempt < row[m].attempt /\ Spent(c)
  <2> SUFFICES ASSUME NEW c \in Messages, row[c] # NoRow, c # m
               PROVE  row[c].attempt < row[m].attempt /\ Spent(c)
    OBVIOUS
  <2>1. row[c].attempt \in Nat /\ row[m].attempt \in Nat
    BY <1>1, <1>2, BoundsAssumption DEF Row
  <2>2. row[c].attempt # row[m].attempt
    BY <1>1, <1>4 DEF IInv, RowsOK
  <2>3. ~(row[m].attempt < row[c].attempt)
    BY <1>1, <1>4 DEF IInv, SeriesOK
  <2>4. row[c].attempt < row[m].attempt
    BY <2>1, <2>2, <2>3
  <2>5. QED
    BY <1>1, <1>4, <2>4 DEF IInv, SeriesOK
<1>11. \A j \in Senders : sender[j].pc # "access"
  BY <1>1, <1>4 DEF IInv, FrontOK
<1>12. FrontOK'
  <2>1. \A j \in Senders : sender'[j].pc = "access" => j = k
    BY <1>1, <1>11
  <2>2. ASSUME NEW c \in Messages, row[c] # NoRow
        PROVE  row[c].attempt < row[m].attempt + 1 /\ Spent(c)'
    <3>1. row[c].attempt \in Nat /\ row[m].attempt \in Nat
      BY <1>1, <1>2, BoundsAssumption DEF Row
    <3>2. QED
      BY <1>6, <1>7, <1>10, <2>2, <3>1
  <2>3. QED
    BY <1>1, <1>3, <1>4, <2>1, <2>2 DEF FrontOK
<1>13. SeriesOK'
  BY <1>3, <1>7 DEF IInv, SeriesOK
<1>14. RowsOK'
  BY <1>3 DEF IInv, RowsOK
<1>15. QED
  BY <1>1, <1>8, <1>9, <1>12, <1>13, <1>14 DEF IInv

\* Every step keeps it, unless a failure overtakes an answer.
LEMMA StepKeeps ==
  ASSUME IInv, [Next]_vars, ~overtaken'
  PROVE  IInv'
<1>1. CASE UNCHANGED <<row, meta, sender, hook>>
  <2>1. TInv'
    BY StepKeepsT DEF IInv
  <2>2. \A m : InFlight(m)' <=> InFlight(m)
    BY <1>1 DEF InFlight
  <2>3. \A m : Spent(m)' <=> Spent(m)
    BY <1>1, <2>2 DEF Spent
  <2>4. RetryableOK' /\ HookOK'
    BY <1>1, <2>2 DEF IInv, RetryableOK, HookOK
  <2>5. Calm
    BY <1>1, <2>3 DEF Calm
  <2>6. QED
    BY <2>1, <2>4, <2>5, CalmKeepsSeries DEF IInv
<1>2. CASE UNCHANGED vars
  BY <1>1, <1>2 DEF vars
<1>3. ASSUME NEW k \in Senders,
             \/ Released(k) \/ Called(k)
             \/ sender[k].pc = "access" /\ \E m \in Messages : Created(k, m)
      PROVE  IInv'
  BY <1>3, ReleasedKeeps, CalledKeeps, CreatedKeeps
<1>4. ASSUME NEW k \in Runs, sender[k].pc = "next",
             NEW m \in sender[k].todo, Reserved(k, m)
      PROVE  IInv'
  BY <1>4, ReservedKeeps DEF Senders
<1>5. ASSUME NEW h \in Hooks, HookWrote(h) \/ \E mem : HookMoved(h, mem)
      PROVE  IInv'
  BY <1>5, HookWroteKeeps, HookMovedKeeps
<1>6. CASE Notify \/ MetaSettles
  BY <1>6, NotifyKeeps, SettlesKeeps
<1>7. TInv
  BY DEF IInv
<1>8. QED
  BY <1>1, <1>2, <1>3, <1>4, <1>5, <1>6, <1>7, StepCases

\* The initial state satisfies it.
LEMMA InitI == Init => IInv
<1> SUFFICES ASSUME Init
             PROVE  IInv
  OBVIOUS
<1>1. TInv
  BY InitT
<1>2. \A k \in Senders : sender[k].pc = "idle"
  BY DEF Init, Idle
<1>3. \A m \in Messages : row[m] = NoRow /\ ~row[m].retryable
  BY DEF Init, NoRow
<1>4. \A h \in Hooks : hook[h].pc = "idle"
  BY NoHookShape DEF Init
<1>5. RetryableOK /\ HookOK /\ FrontOK /\ SeriesOK /\ RowsOK
  BY <1>2, <1>3, <1>4 DEF RetryableOK, HookOK, FrontOK, SeriesOK,
                          RowsOK
<1>6. QED
  BY <1>1, <1>5 DEF IInv

\* That a failure overtook an answer is never forgotten.
LEMMA OvertakenKept == [Next]_vars => (overtaken => overtaken')
<1> SUFFICES ASSUME [Next]_vars, overtaken PROVE overtaken'
  OBVIOUS
<1>1. CASE UNCHANGED vars
  BY <1>1 DEF vars
<1>2. CASE Notify \/ MetaSettles \/ RentPaid \/ WindowCloses
  BY <1>2 DEF Notify, MetaSettles, RentPaid, WindowCloses, outside
<1>3. ASSUME NEW k \in Senders,
             \/ Refused(k) \/ CreateQueued(k) \/ CallMeta(k) \/ MarkSent(k)
             \/ MarkFailure(k) \/ MarkLost(k) \/ Stop(k)
      PROVE  overtaken'
  BY <1>3
  DEF Refused, CreateQueued, CallMeta, MarkSent, MarkFailure, MarkLost, Stop,
      outside
<1>4. ASSUME NEW k \in Runs,
             \/ RetryRead(k) \/ RetryAtNight(k) \/ Reserve(k) \/ RetryEnd(k)
             \/ AlertExpired(k)
      PROVE  overtaken'
  BY <1>4
  DEF RetryRead, RetryAtNight, Reserve, RetryEnd, AlertExpired, outside
<1>5. ASSUME NEW h \in Hooks, Acknowledge(h) \/ AckRead(h) \/ AckWrite(h)
      PROVE  overtaken'
  BY <1>5 DEF Acknowledge, AckRead, AckWrite, outside
<1>6. QED
  BY <1>1, <1>2, <1>3, <1>4, <1>5 DEF Next

\* The invariant holds until a failure overtakes an answer.
LEMMA IInvCorrect == Spec => [](TInv /\ (overtaken \/ IInv))
<1>1. Init => TInv /\ (overtaken \/ IInv)
  BY InitI DEF IInv
<1>2. TInv /\ (overtaken \/ IInv) /\ [Next]_vars
        => TInv' /\ (overtaken' \/ IInv')
  BY StepKeepsT, StepKeeps, OvertakenKept
<1>3. QED
  BY <1>1, <1>2, PTL DEF Spec

\* No attempt of a series is made twice by runs of WhatsappRetryTask that
\* overlap, however failures are reported, until one reported as temporary
\* overtakes the answer to its call.
THEOREM OneRowPerAttemptCorrect == Spec => []OneRowPerAttempt
<1>1. TInv /\ (overtaken \/ IInv) => OneRowPerAttempt
  BY DEF IInv, RowsOK, OneRowPerAttempt
<1>2. QED
  BY <1>1, IInvCorrect, PTL

\* Of two attempts, the earlier one is spent.
LEMMA DeliveredOnceHolds == overtaken \/ IInv => DeliveredOnce
<1> SUFFICES ASSUME IInv, NEW m \in Messages, NEW n \in Messages,
                    meta[m] \in {"accepted", "delivered"},
                    meta[n] = "delivered", m # n
             PROVE  FALSE
  BY DEF DeliveredOnce
<1>1. row[m] # NoRow /\ row[n] # NoRow
  BY DEF IInv, TInv, FlightOK
<1>2. row[m].attempt \in Nat /\ row[n].attempt \in Nat
  BY BoundsAssumption DEF IInv, TInv, TypeOK, Row
<1>3. row[m].attempt # row[n].attempt
  BY <1>1 DEF IInv, RowsOK
<1>4. row[m].attempt < row[n].attempt \/ row[n].attempt < row[m].attempt
  BY <1>2, <1>3
<1>5. Spent(m) \/ Spent(n)
  BY <1>1, <1>4 DEF IInv, SeriesOK
<1>6. QED
  BY <1>5 DEF Spent

\* The tenant never receives the notification twice, and never while another
\* attempt may still reach them, whatever is lost, repeated or reordered
\* between WhatsappService, its retry task and Meta, until a temporary failure
\* overtakes the answer to its call.
THEOREM DeliveredOnceCorrect == Spec => []DeliveredOnce
BY IInvCorrect, DeliveredOnceHolds, PTL

-----------------------------------------------------------------------------
(* The promise of OneTransfer.                                             *)

Accepted == {m \in Messages : meta[m] = "accepted"}
Delivered == {m \in Messages : meta[m] = "delivered"}

\* While one attempt may still reach the tenant, or did, no other may.
LEMMA OthersSpent ==
  ASSUME IInv, NEW m \in Messages, NEW n \in Messages, m # n,
         row[m] # NoRow, meta[m] \in {"none", "accepted", "delivered"}
  PROVE  meta[n] \notin {"accepted", "delivered"}
<1> SUFFICES ASSUME meta[n] \in {"accepted", "delivered"}
             PROVE  FALSE
  OBVIOUS
<1>1. row[m] # NoRow /\ row[n] # NoRow
  BY DEF IInv, TInv, FlightOK
<1>2. row[m].attempt \in Nat /\ row[n].attempt \in Nat
  BY BoundsAssumption DEF IInv, TInv, TypeOK, Row
<1>3. row[m].attempt # row[n].attempt
  BY <1>1 DEF IInv, RowsOK
<1>4. row[m].attempt < row[n].attempt \/ row[n].attempt < row[m].attempt
  BY <1>2, <1>3
<1>5. Spent(m) \/ Spent(n)
  BY <1>1, <1>4 DEF IInv, SeriesOK
<1>6. QED
  BY <1>5 DEF Spent

\* The steps of OneTransfer while it is trusted.
Transfer ==
  \E t \in Messages :
    Promise!Leave(t) \/ Promise!Return(t) \/ Promise!Arrive(t)

\* A call that is accepted is a departure; one that is refused, nothing.
LEMMA CalledPromise ==
  ASSUME IInv, NEW k \in Senders, Called(k)
  PROVE  Transfer \/ UNCHANGED <<Accepted, Delivered>>
<1> DEFINE m == sender[k].msg
<1>1. /\ m \in Messages /\ meta[m] = "none" /\ m # NoMessage
      /\ meta \in [Messages -> MetaStates]
  BY NoMessageAssumption DEF Called, IInv, TInv, TypeOK
<1>2. row[m] # NoRow
  BY <1>1 DEF IInv, TInv, FlightOK
<1>3. Accepted = {} /\ Delivered = {}
  BY <1>1, <1>2, OthersSpent DEF Accepted, Delivered
<1> HIDE DEF m
<1>4. CASE meta' = [meta EXCEPT ![m] = "accepted"]
  <2>1. Accepted' = {m} /\ Delivered' = {}
    BY <1>1, <1>3, <1>4 DEF Accepted, Delivered
  <2>2. QED
    BY <1>1, <1>3, <2>1 DEF Transfer, Promise!Leave, Accepted, Delivered
<1>5. CASE meta' = [meta EXCEPT ![m] = "refused"]
  <2>1. Accepted' = {} /\ Delivered' = {}
    BY <1>1, <1>3, <1>5 DEF Accepted, Delivered
  <2>2. QED
    BY <1>3, <2>1
<1>6. QED
  BY <1>4, <1>5 DEF Called, m

\* What Meta makes of an accepted message is a return or an arrival.
LEMMA SettlesPromise ==
  ASSUME IInv, MetaSettles
  PROVE  Transfer
<1>1. PICK m \in Messages, end \in {"delivered"} \cup Failures :
        meta[m] = "accepted" /\ meta' = [meta EXCEPT ![m] = end]
  BY DEF MetaSettles
<1>2. meta \in [Messages -> MetaStates] /\ row[m] # NoRow
  BY <1>1 DEF IInv, TInv, TypeOK, FlightOK
<1>3. Accepted = {m} /\ Delivered = {}
  BY <1>1, <1>2, OthersSpent DEF Accepted, Delivered
<1>4. CASE end = "delivered"
  <2>1. Accepted' = {} /\ Delivered' = {m}
    BY <1>1, <1>2, <1>3, <1>4 DEF Accepted, Delivered
  <2>2. QED
    BY <1>3, <2>1 DEF Transfer, Promise!Arrive, Accepted, Delivered
<1>5. CASE end \in Failures
  <2>1. Accepted' = {} /\ Delivered' = {}
    BY <1>1, <1>2, <1>3, <1>5 DEF Accepted, Delivered, Failures
  <2>2. QED
    BY <1>3, <2>1 DEF Transfer, Promise!Return, Accepted, Delivered
<1>6. QED
  BY <1>1, <1>4, <1>5

\* Only those two steps concern Meta.
LEMMA PromiseKept ==
  ASSUME IInv, [Next]_vars
  PROVE  Transfer \/ UNCHANGED <<Accepted, Delivered>>
<1>1. CASE UNCHANGED meta
  BY <1>1 DEF Accepted, Delivered
<1>2. CASE MetaSettles
  BY <1>2, SettlesPromise
<1>3. ASSUME NEW k \in Senders, Called(k)
      PROVE  Transfer \/ UNCHANGED <<Accepted, Delivered>>
  BY <1>3, CalledPromise
<1>4. UNCHANGED meta \/ MetaSettles \/ \E k \in Senders : Called(k)
  <2>1. CASE UNCHANGED vars
    BY <2>1 DEF vars
  <2>2. CASE Next
    BY <2>2, StepCases DEF IInv, Notify, Released, Created, Reserved,
       HookWrote, HookMoved
  <2>3. QED
    BY <2>1, <2>2
<1>5. QED
  BY <1>1, <1>2, <1>3, <1>4

\* The attempts of a series implement OneTransfer: whatever is lost, repeated
\* or reordered, an attempt leaves only when every earlier one came back, and
\* none leaves after one arrived.  It loses trust when a temporary failure
\* overtakes the answer to its call.
THEOREM ImplementsPromise == Spec => ArrivesOnce
<1>1. Init => Promise!TransferInit
  BY DEF Init, Promise!TransferInit
<1>2. TInv /\ (overtaken \/ IInv) /\ [Next]_vars
        => [Promise!TransferNext]_<<Accepted, Delivered, ~overtaken>>
  <2> SUFFICES ASSUME TInv, overtaken \/ IInv, [Next]_vars
               PROVE  [Promise!TransferNext]_<<Accepted, Delivered, ~overtaken>>
    OBVIOUS
  <2>1. CASE overtaken'
    BY <2>1 DEF Promise!TransferNext, Promise!LoseTrust
  <2>2. CASE ~overtaken'
    <3>1. ~overtaken /\ IInv
      BY <2>2, OvertakenKept
    <3>2. Transfer \/ UNCHANGED <<Accepted, Delivered>>
      BY <3>1, PromiseKept
    <3>3. QED
      BY <2>2, <3>1, <3>2
      DEF Transfer, Promise!TransferNext, Accepted, Delivered
  <2>3. QED
    BY <2>1, <2>2
<1>3. QED
  BY <1>1, <1>2, IInvCorrect, PTL
  DEF Spec, ArrivesOnce, Promise!TransferSpec, Accepted, Delivered
=============================================================================
