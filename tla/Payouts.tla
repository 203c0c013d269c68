------------------------------ MODULE Payouts ------------------------------
(***************************************************************************)
(* The payout of one collected rent to its beneficiary: PayoutsService     *)
(* (process, handleCallback, retry), PayoutConfirmedListener and           *)
(* PayoutsTask.  Handlers of different payouts share nothing, so one       *)
(* payout is enough to see every interference.                             *)
(*                                                                         *)
(* A handler claims or reads the row, talks to the provider, and writes    *)
(* later; what it remembers meanwhile is its element of proc (process) or  *)
(* call (handleCallback).  The provider is external: a disbursement is     *)
(* created, moves money once submitted, and succeeds or fails for good.    *)
(***************************************************************************)
EXTENDS Naturals

CONSTANTS
  Workers,       \* process() calls in flight: listener, cron, admin
  Callbacks,     \* handleCallback() calls in flight
  Tokens,        \* the provider's disbursements
  NoToken,       \* a null disburseToken
  MaxAttempts    \* PAYOUT_MAX_ATTEMPTS

ASSUME NullAssumption == NoToken \notin Tokens
ASSUME AttemptsAssumption == MaxAttempts \in Nat \ {0}

VARIABLES
  confirmed,     \* the payment is PAID, of PayDunya, with a beneficiary
  event,         \* its PAYMENT_CONFIRMED event waits in the process's memory
  payout,        \* the row of payouts
  disb,          \* the provider's disbursements
  executed,      \* history: how often each disbursement was executed
  proc,          \* what each process() call remembers
  call,          \* what each handleCallback() call remembers
  prompt         \* history: an admin retried while an older call still ran

vars == <<confirmed, event, payout, disb, executed, proc, call, prompt>>
rentVars == <<confirmed, event, prompt>>
providerVars == <<disb, executed>>

-----------------------------------------------------------------------------
(* The tables and the handlers' memory.                                    *)

\* status "NONE": no row yet.  due: nextAttemptAt has passed.  quiet: the
\* row has not been written for PAYOUT_STALE_SENDING_MS.
PayoutStatuses == {"NONE", "PENDING", "SENDING", "SUCCESS", "FAILED"}
Payout == [status : PayoutStatuses, attempts : Nat,
           token : Tokens \cup {NoToken}, due : BOOLEAN, quiet : BOOLEAN]

DisburseStatuses == {"none", "created", "pending", "success", "failed"}

Steps == {"idle", "claim", "load", "prepare", "persist", "check", "submit",
          "recheck", "succeed", "release"}
Idle == [pc |-> "idle", attempts |-> 0, token |-> NoToken]
ProcMemory == [pc : Steps, attempts : Nat, token : Tokens \cup {NoToken}]
CallMemory == [pc : {"idle", "ask", "succeed", "release"}, attempts : Nat,
               token : Tokens \cup {NoToken}]

Goto(w, step) == proc' = [proc EXCEPT ![w].pc = step]
ProcDone(w) == proc' = [proc EXCEPT ![w] = Idle]
CallGoto(h, step) == call' = [call EXCEPT ![h].pc = step]
CallDone(h) == call' = [call EXCEPT ![h] = Idle]

Unused == {t \in Tokens : disb[t] = "none"}

\* Calls that may have read the row: past the claim, or in a callback.
Working(w) == proc[w].pc \notin {"idle", "claim"}
NobodyProcesses == \A w \in Workers : ~Working(w)
NobodyWorks == NobodyProcesses /\ \A h \in Callbacks : call[h] = Idle

-----------------------------------------------------------------------------
(* From the confirmed payment to the payout.                               *)

\* The payment is confirmed, its event emitted (reconcilePaydunyaPayment).
PaymentConfirmed ==
  /\ ~confirmed
  /\ confirmed' = TRUE /\ event' = TRUE
  /\ UNCHANGED <<payout, providerVars, proc, call, prompt>>

\* The process stops before the listener has run.
EventLost ==
  /\ event
  /\ event' = FALSE
  /\ UNCHANGED <<confirmed, payout, providerVars, proc, call, prompt>>

\* createForPayment: one row per payment, the unique paymentId decides.
Created == IF payout.status = "NONE"
           THEN [payout EXCEPT !.status = "PENDING"] ELSE payout

\* PayoutConfirmedListener: creates the payout and processes it.
Listener(w) ==
  /\ event /\ proc[w] = Idle
  /\ event' = FALSE
  /\ payout' = Created
  /\ Goto(w, "claim")
  /\ UNCHANGED <<confirmed, providerVars, call, prompt>>

\* PayoutsTask.createMissing: the payment has no payout yet.
CreateMissing ==
  /\ confirmed /\ payout.status = "NONE"
  /\ payout' = Created
  /\ UNCHANGED <<rentVars, providerVars, proc, call>>

\* Mutant: an interrupted payout is not a candidate.
ResumableDue == payout.status = "PENDING" /\ payout.due

Resumable == \/ payout.status = "PENDING" /\ payout.due
             \/ payout.status = "SENDING" /\ payout.quiet

\* PayoutsTask.execute: a payout due, or interrupted, is processed.
CronPick(w) ==
  /\ proc[w] = Idle /\ Resumable
  /\ Goto(w, "claim")
  /\ UNCHANGED <<rentVars, payout, providerVars, call>>

\* Mutant: any finished payout may be restarted.
AdminRetryAny(w) ==
  /\ proc[w] = Idle /\ payout.status \in {"FAILED", "SUCCESS"}
  /\ payout' = [status |-> "PENDING", attempts |-> 0, token |-> NoToken,
                due |-> TRUE, quiet |-> FALSE]
  /\ Goto(w, "claim")
  /\ UNCHANGED <<rentVars, providerVars, call>>

\* retry: an admin restarts a failed payout, which is processed at once.
\* Nothing makes it wait for the calls of the attempt that failed.
AdminRetry(w) ==
  /\ proc[w] = Idle /\ payout.status = "FAILED"
  /\ prompt' = (prompt \/ ~NobodyWorks)
  /\ payout' = [status |-> "PENDING", attempts |-> 0, token |-> NoToken,
                due |-> TRUE, quiet |-> FALSE]
  /\ Goto(w, "claim")
  /\ UNCHANGED <<confirmed, event, providerVars, call>>

-----------------------------------------------------------------------------
(* The row's guarded transitions.                                          *)

\* claim: a due PENDING payout, counted as an attempt; or a SENDING one
\* interrupted for long enough, not counted.
FreshlyClaimed ==
  [payout EXCEPT !.status = "SENDING", !.attempts = @ + 1, !.quiet = FALSE]

Claim(w) ==
  /\ proc[w].pc = "claim"
  /\ \/ /\ payout.status = "PENDING" /\ payout.due
        /\ payout' = FreshlyClaimed
        /\ Goto(w, "load")
     \/ /\ payout.status = "SENDING" /\ payout.quiet
        /\ payout' = [payout EXCEPT !.quiet = FALSE]
        /\ Goto(w, "load")
     \/ ~Resumable /\ ProcDone(w) /\ UNCHANGED payout
  /\ UNCHANGED <<rentVars, providerVars, call>>

\* Every release and success is an updateMany on { id, status: 'SENDING' }.
StillSending == payout.status = "SENDING"

\* releaseForRetry, with the attempts its caller read: a later attempt under
\* another disbursement, or FAILED when there have been enough.
Released(attempts) ==
  CASE ~StillSending -> payout
    [] StillSending /\ attempts >= MaxAttempts ->
         [payout EXCEPT !.status = "FAILED", !.quiet = FALSE]
    [] OTHER -> [payout EXCEPT !.status = "PENDING", !.token = NoToken,
                               !.due = FALSE, !.quiet = FALSE]

\* applyStatus on 'success'.
Succeeded == IF StillSending
             THEN [payout EXCEPT !.status = "SUCCESS", !.quiet = FALSE]
             ELSE payout

\* Mutant: money on its way is taken for a failure.
NextStepHasty(status) == CASE status = "success" -> "succeed"
                           [] status \in {"pending", "failed"} -> "release"
                           [] OTHER -> "idle"

\* Mutant: the provider's word is used as it comes.
NextStepRaw(status) == status

\* What applyStatus does with a status: created or pending changes nothing.
NextStep(status) == CASE status = "success" -> "succeed"
                      [] status = "failed" -> "release"
                      [] OTHER -> "idle"

-----------------------------------------------------------------------------
(* process.                                                                *)

\* Mutant: a resumed payout starts over with a new disbursement.
LoadAnew(w) ==
  /\ proc[w].pc = "load"
  /\ proc' = [proc EXCEPT ![w] = [pc |-> "prepare", attempts |-> payout.attempts,
                                  token |-> NoToken]]
  /\ UNCHANGED <<rentVars, payout, providerVars, call>>

\* The row is read again after the claim.
Load(w) ==
  /\ proc[w].pc = "load"
  /\ proc' = [proc EXCEPT ![w] =
       [pc |-> IF payout.token = NoToken THEN "prepare" ELSE "check",
        attempts |-> payout.attempts, token |-> payout.token]]
  /\ UNCHANGED <<rentVars, payout, providerVars, call>>

\* A disbursement is created; or the beneficiary's account is not usable, or
\* the creation fails: released.
Prepare(w) ==
  /\ proc[w].pc = "prepare"
  /\ \/ \E t \in Unused :
          /\ disb' = [disb EXCEPT ![t] = "created"]
          /\ proc' = [proc EXCEPT ![w].pc = "persist", ![w].token = t]
     \/ Goto(w, "release") /\ UNCHANGED disb
  /\ UNCHANGED <<rentVars, payout, executed, call>>

\* Mutant: the token is not recorded before submitting.
PersistNothing(w) ==
  /\ proc[w].pc = "persist"
  /\ Goto(w, "check")
  /\ UNCHANGED <<rentVars, payout, providerVars, call>>

\* Its token is recorded before anything is submitted; or the update fails
\* (perhaps after having taken effect), and the attempt is released.
Persist(w) ==
  /\ proc[w].pc = "persist"
  /\ LET recorded == [payout EXCEPT !.token = proc[w].token, !.quiet = FALSE]
     IN  \/ payout' = recorded /\ Goto(w, "check")
         \/ payout' \in {payout, recorded} /\ Goto(w, "release")
  /\ UNCHANGED <<rentVars, providerVars, call>>

\* Mutant: a disbursement on its way is submitted again.
MaySubmitAgain(t) == disb[t] \in {"created", "pending"}

\* Submitted only while the provider says it has not been.
MaySubmit(t) == disb[t] = "created"

Check(w) ==
  /\ proc[w].pc = "check"
  /\ IF MaySubmit(proc[w].token)
     THEN Goto(w, "submit")
     ELSE IF NextStep(disb[proc[w].token]) = "idle" THEN ProcDone(w)
     ELSE Goto(w, NextStep(disb[proc[w].token]))
  /\ UNCHANGED <<rentVars, payout, providerVars, call>>

\* The provider executes what it receives once it is created or moving; the
\* answer may be lost, in which case nothing more is done.
Submit(w) ==
  /\ proc[w].pc = "submit"
  /\ LET t == proc[w].token
     IN  /\ disb[t] \in {"created", "pending", "success"}
         /\ disb' = [disb EXCEPT ![t] = IF @ = "created" THEN "pending" ELSE @]
         /\ executed' = [executed EXCEPT ![t] = @ + 1]
  /\ Goto(w, "recheck") \/ ProcDone(w)
  /\ UNCHANGED <<rentVars, payout, call>>

\* submit refused, a PaydunyaError: nothing was sent, the attempt is released.
SubmitRefused(w) ==
  /\ proc[w].pc = "submit"
  /\ disb[proc[w].token] \in {"created", "failed"}
  /\ disb' \in {disb, [disb EXCEPT ![proc[w].token] = "failed"]}
  /\ Goto(w, "release")
  /\ UNCHANGED <<rentVars, payout, executed, call>>

\* Mutant: an accepted submission counts as a success.
RecheckAssumed(w) ==
  /\ proc[w].pc = "recheck"
  /\ Goto(w, "succeed")
  /\ UNCHANGED <<rentVars, payout, providerVars, call>>

Recheck(w) ==
  /\ proc[w].pc = "recheck"
  /\ LET step == NextStep(disb[proc[w].token])
     IN  IF step = "idle" THEN ProcDone(w) ELSE Goto(w, step)
  /\ UNCHANGED <<rentVars, payout, providerVars, call>>

ProcSucceed(w) ==
  /\ proc[w].pc = "succeed"
  /\ payout' = Succeeded
  /\ ProcDone(w)
  /\ UNCHANGED <<rentVars, providerVars, call>>

ProcRelease(w) ==
  /\ proc[w].pc = "release"
  /\ payout' = Released(proc[w].attempts)
  /\ ProcDone(w)
  /\ UNCHANGED <<rentVars, providerVars, call>>

\* The process stops, the database or the provider does not answer: the row
\* keeps its state, and a SENDING one is resumed once quiet.
ProcFail(w) ==
  /\ proc[w] # Idle
  /\ ProcDone(w)
  /\ UNCHANGED <<rentVars, payout, providerVars, call>>
-----------------------------------------------------------------------------
(* handleCallback: a signal to go and check, whose content is not believed. *)

CallbackRead(h) ==
  /\ call[h] = Idle
  /\ payout.status = "SENDING" /\ payout.token # NoToken
  /\ call' = [call EXCEPT ![h] = [pc |-> "ask", attempts |-> payout.attempts,
                                  token |-> payout.token]]
  /\ UNCHANGED <<rentVars, payout, providerVars, proc>>

CallbackAsk(h) ==
  /\ call[h].pc = "ask"
  /\ LET step == NextStep(disb[call[h].token])
     IN  IF step = "idle" THEN CallDone(h) ELSE CallGoto(h, step)
  /\ UNCHANGED <<rentVars, payout, providerVars, proc>>

CallbackSucceed(h) ==
  /\ call[h].pc = "succeed"
  /\ payout' = Succeeded
  /\ CallDone(h)
  /\ UNCHANGED <<rentVars, providerVars, proc>>

CallbackRelease(h) ==
  /\ call[h].pc = "release"
  /\ payout' = Released(call[h].attempts)
  /\ CallDone(h)
  /\ UNCHANGED <<rentVars, providerVars, proc>>

CallbackFail(h) ==
  /\ call[h] # Idle
  /\ CallDone(h)
  /\ UNCHANGED <<rentVars, payout, providerVars, proc>>

-----------------------------------------------------------------------------
(* The provider and the passing of time.                                   *)

\* Money on its way arrives or comes back; a disbursement never submitted
\* expires.
ProviderSettles(t) ==
  /\ \/ /\ disb[t] = "pending"
        /\ disb' \in {[disb EXCEPT ![t] = s] : s \in {"success", "failed"}}
     \/ disb[t] = "created" /\ disb' = [disb EXCEPT ![t] = "failed"]
  /\ UNCHANGED <<rentVars, payout, executed, proc, call>>

\* A retry delay is two minutes at least.  A call that read the row before
\* its release has at most one check-status left, under 48 s
\* (three tries of CALL_TIMEOUT_MS): none is running any more.
BecomesDue ==
  /\ payout.status = "PENDING" /\ ~payout.due
  /\ NobodyWorks
  /\ payout' = [payout EXCEPT !.due = TRUE]
  /\ UNCHANGED <<rentVars, providerVars, proc, call>>

\* PAYOUT_STALE_SENDING_MS is five minutes, a whole process() with every
\* call at its timeout lasts about two: the one that claimed is gone.
BecomesQuiet ==
  /\ payout.status = "SENDING" /\ ~payout.quiet
  /\ NobodyProcesses
  /\ payout' = [payout EXCEPT !.quiet = TRUE]
  /\ UNCHANGED <<rentVars, providerVars, proc, call>>

-----------------------------------------------------------------------------
Init ==
  /\ confirmed = FALSE /\ event = FALSE
  /\ payout = [status |-> "NONE", attempts |-> 0, token |-> NoToken,
               due |-> TRUE, quiet |-> FALSE]
  /\ disb = [t \in Tokens |-> "none"]
  /\ executed = [t \in Tokens |-> 0]
  /\ proc = [w \in Workers |-> Idle]
  /\ call = [h \in Callbacks |-> Idle]
  /\ prompt = FALSE

Process(w) ==
  \/ Claim(w) \/ Load(w) \/ Prepare(w) \/ Persist(w) \/ Check(w)
  \/ Submit(w) \/ SubmitRefused(w) \/ Recheck(w)
  \/ ProcSucceed(w) \/ ProcRelease(w) \/ ProcFail(w)

Callback(h) ==
  \/ CallbackRead(h) \/ CallbackAsk(h)
  \/ CallbackSucceed(h) \/ CallbackRelease(h) \/ CallbackFail(h)

Next ==
  \/ PaymentConfirmed \/ EventLost \/ CreateMissing
  \/ \E w \in Workers : Listener(w) \/ CronPick(w) \/ AdminRetry(w)
  \/ \E w \in Workers : Process(w)
  \/ \E h \in Callbacks : Callback(h)
  \/ \E t \in Tokens : ProviderSettles(t)
  \/ BecomesDue \/ BecomesQuiet

Spec == Init /\ [][Next]_vars

-----------------------------------------------------------------------------
(* Properties.                                                             *)

\* Every variable holds a value of its type.
TypeOK ==
  /\ confirmed \in BOOLEAN /\ event \in BOOLEAN
  /\ payout \in Payout
  /\ disb \in [Tokens -> DisburseStatuses]
  /\ executed \in [Tokens -> Nat]
  /\ proc \in [Workers -> ProcMemory]
  /\ call \in [Callbacks -> CallMemory]
  /\ prompt \in BOOLEAN

Moving == {t \in Tokens : disb[t] = "pending"}
Arrived == {t \in Tokens : disb[t] = "success"}

\* A rent never leaves twice: across every attempt, resumption and callback,
\* at most one disbursement has its money moving or arrived.  The only way to
\* break this is an admin's retry while a call of an older attempt still runs.
AtMostOneTransfer ==
  ~prompt => \A t, u \in Moving \cup Arrived : t = u

\* A disbursement is never executed a second time: submit is not replayed
\* unless the provider still says created, which two calls only see at once
\* after such a retry.
ExecutedOnce == ~prompt => \A t \in Tokens : executed[t] <= 1

\* Money on its way is always under the token the row has recorded, in a
\* payout not settled yet: whatever stops, a later pass will follow it.
\* (PENDING too: a callback may release the row a resumed process() claimed.)
\* Only such a retry can make it lose track.
MovingIsTracked ==
  ~prompt => \A t \in Moving :
    payout.status \in {"PENDING", "SENDING"} /\ payout.token = t

\* The payout's outcome tells what happened to the money, until such a retry:
\* SUCCESS only if it arrived, FAILED (an admin may then start again) only if
\* none left.
OutcomeIsTrue ==
  ~prompt =>
    /\ payout.status = "SUCCESS" => Arrived # {}
    /\ payout.status = "FAILED" => Moving = {} /\ Arrived = {}

\* A payout that succeeded stays so: no late callback, cron or admin undoes it.
SuccessIsFinal ==
  [][payout.status = "SUCCESS" => payout'.status = "SUCCESS"]_vars

\* The whole handling of a payout implements the promise of OneTransfer, in
\* which an admin who retries too early loses trust.
Promise == INSTANCE OneTransfer
  WITH Attempts <- Tokens, moving <- Moving, arrived <- Arrived,
       trusted <- ~prompt
KeepsPromise == Promise!TransferSpec
-----------------------------------------------------------------------------
(* Fairness.  The cron passes every five minutes for ever and failures (a  *)
(* restart, the provider not answering) are transient: strong fairness of  *)
(* the cron's steps.  Time passes, a callback ends one way or another, the *)
(* provider settles what moves.  The event, the callbacks and the admin    *)
(* are owed to nobody.                                                     *)

FairSpec ==
  /\ Spec
  /\ WF_vars(CreateMissing) /\ WF_vars(BecomesDue) /\ WF_vars(BecomesQuiet)
  /\ \A w \in Workers :
       /\ SF_vars(CronPick(w)) /\ SF_vars(Claim(w)) /\ SF_vars(Load(w))
       /\ SF_vars(Prepare(w)) /\ SF_vars(Persist(w)) /\ SF_vars(Check(w))
       /\ SF_vars(Submit(w) \/ SubmitRefused(w)) /\ SF_vars(Recheck(w))
       /\ SF_vars(ProcSucceed(w)) /\ SF_vars(ProcRelease(w))
  /\ \A h \in Callbacks : WF_vars(call[h] # Idle /\ Callback(h))
  /\ \A t \in Tokens :
       WF_vars(disb[t] = "pending" /\ ProviderSettles(t))

\* A collected rent is never forgotten: whatever event, answer or process is
\* lost, its payout succeeds or ends up FAILED before the admins.
RentSettled ==
  confirmed ~> payout.status \in {"SUCCESS", "FAILED"}
=============================================================================
