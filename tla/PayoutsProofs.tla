--------------------------- MODULE PayoutsProofs ---------------------------
(***************************************************************************)
(* Proofs about Payouts, for any number of calls and disbursements, and    *)
(* admins who retry whenever they please.  What goes wrong once one has    *)
(* retried while an older call still ran (prompt) is not asked about; *)
(* until then the state is Orderly.                                        *)
(*                                                                         *)
(* The invariant says who may still do what: at most one process() is past *)
(* its claim, a due or quiet row has nobody working on it, and every call  *)
(* in flight speaks of the disbursement the SENDING row has recorded.      *)
(***************************************************************************)
EXTENDS Payouts, TLAPS

\* A row that can be claimed is nobody's.
Claimable ==
  /\ payout.quiet => payout.status = "SENDING" /\ NobodyProcesses
  /\ payout.status = "NONE" => NobodyWorks
  /\ payout.status = "PENDING" /\ payout.due => NobodyWorks

OneProcess == \A v, w \in Workers : Working(v) /\ Working(w) => v = w

\* Money that left is under the recorded token of a payout not yet FAILED.
Tracked ==
  \A t \in Tokens : disb[t] \in {"pending", "success"} =>
    payout.token = t /\ payout.status \in {"PENDING", "SENDING", "SUCCESS"}

Settled == payout.status = "SUCCESS" =>
             payout.token \in Tokens /\ disb[payout.token] = "success"

Counted ==
  \A t \in Tokens :
    /\ executed[t] <= 1
    /\ disb[t] \in {"none", "created"} => executed[t] = 0

\* A callback in flight concluded on the disbursement of the SENDING row.
CallOK(h) ==
  call[h] # Idle =>
    /\ call[h].token \in Tokens
    /\ payout.status = "SENDING" => payout.token = call[h].token
    /\ call[h].pc = "succeed" => disb[call[h].token] = "success"
    /\ call[h].pc = "release" => disb[call[h].token] = "failed"

\* What a process() has in hand at each of its steps.
AtLoad(w) ==
  proc[w].pc = "load" /\ payout.status = "FAILED" =>
    payout.token \in Tokens /\ disb[payout.token] = "failed"

Preparing(w) ==
  proc[w].pc \in {"prepare", "persist"} =>
    /\ payout.status \in {"PENDING", "SENDING"} /\ payout.token = NoToken
    /\ proc[w].pc = "persist" =>
         proc[w].token \in Tokens /\ disb[proc[w].token] \in {"created", "failed"}

Following(w) ==
  proc[w].pc \in {"check", "submit", "recheck", "succeed"} =>
    /\ proc[w].token \in Tokens
    /\ payout.status = "SENDING" => payout.token = proc[w].token
    /\ proc[w].pc = "succeed" => disb[proc[w].token] = "success"
    /\ proc[w].pc = "submit" => disb[proc[w].token] \in {"created", "failed"}
    /\ disb[proc[w].token] = "created" =>
         payout.token = proc[w].token /\ payout.status \in {"PENDING", "SENDING"}

Releasing(w) ==
  proc[w].pc = "release" /\ payout.status = "SENDING" /\ payout.token \in Tokens =>
    disb[payout.token] \notin {"pending", "success"}

ProcOK(w) == AtLoad(w) /\ Preparing(w) /\ Following(w) /\ Releasing(w)

Orderly ==
  /\ TypeOK /\ Claimable /\ OneProcess /\ Tracked /\ Settled /\ Counted
  /\ \A h \in Callbacks : CallOK(h)
  /\ \A w \in Workers : ProcOK(w)
-----------------------------------------------------------------------------
(* The memory of a call keeps its type as it moves on.                     *)

\* A call that is over remembers nothing, of the right type.
LEMMA IdleType == Idle \in ProcMemory /\ Idle \in CallMemory
BY NullAssumption DEF Idle, ProcMemory, CallMemory, Steps

\* createForPayment writes a well-formed row.
LEMMA CreatedType == payout \in Payout => Created \in Payout
BY DEF Created, Payout, PayoutStatuses

\* releaseForRetry writes a well-formed row, FAILED or PENDING.
LEMMA ReleasedType ==
  ASSUME payout \in Payout, NEW n \in Nat
  PROVE  Released(n) \in Payout
<1>1. CASE ~StillSending
  BY <1>1 DEF Released
<1>2. CASE StillSending /\ n >= MaxAttempts
  BY <1>2 DEF Released, Payout, PayoutStatuses
<1>3. CASE StillSending /\ ~(n >= MaxAttempts)
  BY <1>3 DEF Released, Payout, PayoutStatuses
<1> QED BY <1>1, <1>2, <1>3

\* Every step of Payouts keeps every variable in its type.
LEMMA TypeStep == TypeOK /\ [Next]_vars => TypeOK'
<1> SUFFICES ASSUME TypeOK, [Next]_vars PROVE TypeOK'
  OBVIOUS
<1> USE DEF TypeOK, rentVars, providerVars
<1>1. CASE PaymentConfirmed \/ EventLost
  BY <1>1 DEF PaymentConfirmed, EventLost
<1>2. CASE CreateMissing
  BY <1>2, CreatedType DEF CreateMissing
<1>3. ASSUME NEW w \in Workers, Listener(w) \/ CronPick(w) \/ AdminRetry(w)
      PROVE  TypeOK'
  <2>1. proc' \in [Workers -> ProcMemory]
    BY <1>3 DEF Listener, CronPick, AdminRetry, Goto, ProcMemory, Steps
  <2>2. CASE Listener(w)
    BY <2>1, <2>2, CreatedType DEF Listener
  <2>3. CASE CronPick(w)
    BY <2>1, <2>3 DEF CronPick
  <2>4. CASE AdminRetry(w)
    <3>1. payout' \in Payout
      BY <2>4 DEF AdminRetry, Payout, PayoutStatuses
    <3> QED BY <2>1, <2>4, <3>1 DEF AdminRetry
  <2> QED BY <1>3, <2>2, <2>3, <2>4
<1>4. ASSUME NEW w \in Workers, Process(w)
      PROVE  TypeOK'
  <2>1. CASE Claim(w)
    <3>1. proc' \in [Workers -> ProcMemory]
      BY <2>1, IdleType DEF Claim, Goto, ProcDone, ProcMemory, Steps
    <3>2. payout' \in {payout, FreshlyClaimed, [payout EXCEPT !.quiet = FALSE]}
      BY <2>1 DEF Claim
    <3>3. FreshlyClaimed \in Payout
      <4>1. payout.attempts + 1 \in Nat /\ "SENDING" \in PayoutStatuses
        BY DEF Payout, PayoutStatuses
      <4> QED BY <4>1 DEF FreshlyClaimed, Payout
    <3>4. [payout EXCEPT !.quiet = FALSE] \in Payout
      BY DEF Payout
    <3> QED BY <2>1, <3>1, <3>2, <3>3, <3>4 DEF Claim
  <2>2. CASE Load(w)
    BY <2>2 DEF Load, ProcMemory, Steps, Payout
  <2>3. CASE Prepare(w)
    BY <2>3 DEF Prepare, Unused, Goto, ProcMemory, Steps, DisburseStatuses
  <2>4. CASE Persist(w)
    <3>1. proc' \in [Workers -> ProcMemory]
      BY <2>4 DEF Persist, Goto, ProcMemory, Steps
    <3>2. proc[w].token \in Tokens \cup {NoToken}
      BY DEF ProcMemory
    <3>3. [payout EXCEPT !.token = proc[w].token, !.quiet = FALSE] \in Payout
      BY <3>2 DEF Payout
    <3>4. payout' \in Payout
      BY <2>4, <3>3 DEF Persist
    <3> QED BY <2>4, <3>1, <3>4 DEF Persist
  <2>5. CASE Check(w) \/ Recheck(w)
    <3>1. proc' \in [Workers -> ProcMemory]
      BY <2>5, IdleType DEF Check, Recheck, NextStep, Goto, ProcDone, ProcMemory, Steps
    <3> QED BY <2>5, <3>1 DEF Check, Recheck
  <2>6. CASE Submit(w)
    <3>1. proc' \in [Workers -> ProcMemory]
      BY <2>6, IdleType DEF Submit, Goto, ProcDone, ProcMemory, Steps
    <3>2. disb' \in [Tokens -> DisburseStatuses]
      BY <2>6 DEF Submit, DisburseStatuses
    <3>3. executed' \in [Tokens -> Nat]
      <4>1. executed' = [executed EXCEPT ![proc[w].token] = executed[proc[w].token] + 1]
        BY <2>6 DEF Submit
      <4>2. CASE proc[w].token \in Tokens
        BY <4>1, <4>2
      <4>3. CASE proc[w].token \notin Tokens
        BY <4>1, <4>3
      <4> QED BY <4>2, <4>3
    <3> QED BY <2>6, <3>1, <3>2, <3>3 DEF Submit
  <2>7. CASE SubmitRefused(w)
    BY <2>7 DEF SubmitRefused, Goto, ProcMemory, Steps, DisburseStatuses
  <2>8. CASE ProcSucceed(w)
    BY <2>8, IdleType DEF ProcSucceed, Succeeded, ProcDone, Payout, PayoutStatuses
  <2>9. CASE ProcRelease(w)
    <3>1. proc[w].attempts \in Nat
      BY DEF ProcMemory
    <3> QED BY <2>9, <3>1, IdleType, ReleasedType DEF ProcRelease, ProcDone
  <2>10. CASE ProcFail(w)
    BY <2>10, IdleType DEF ProcFail, ProcDone
  <2> QED BY <1>4, <2>1, <2>2, <2>3, <2>4, <2>5, <2>6, <2>7, <2>8, <2>9, <2>10
          DEF Process
<1>5. ASSUME NEW h \in Callbacks, Callback(h)
      PROVE  TypeOK'
  <2>1. CASE CallbackRead(h)
    BY <2>1 DEF CallbackRead, CallMemory, Payout
  <2>2. CASE CallbackAsk(h)
    <3>1. call' \in [Callbacks -> CallMemory]
      BY <2>2, IdleType DEF CallbackAsk, NextStep, CallGoto, CallDone, CallMemory
    <3> QED BY <2>2, <3>1 DEF CallbackAsk
  <2>3. CASE CallbackSucceed(h)
    BY <2>3, IdleType DEF CallbackSucceed, Succeeded, CallDone, Payout, PayoutStatuses
  <2>4. CASE CallbackRelease(h)
    <3>1. call[h].attempts \in Nat
      BY DEF CallMemory
    <3> QED BY <2>4, <3>1, IdleType, ReleasedType DEF CallbackRelease, CallDone
  <2>5. CASE CallbackFail(h)
    BY <2>5, IdleType DEF CallbackFail, CallDone
  <2> QED BY <1>5, <2>1, <2>2, <2>3, <2>4, <2>5 DEF Callback
<1>6. ASSUME NEW t \in Tokens, ProviderSettles(t)
      PROVE  TypeOK'
  BY <1>6 DEF ProviderSettles, DisburseStatuses
<1>7. CASE BecomesDue \/ BecomesQuiet
  BY <1>7 DEF BecomesDue, BecomesQuiet, Payout
<1>8. CASE UNCHANGED vars
  BY <1>8 DEF vars
<1> QED BY <1>1, <1>2, <1>3, <1>4, <1>5, <1>6, <1>7, <1>8 DEF Next

\* No row, no disbursement, no call: every variable has its type.
LEMMA TypeInit == Init => TypeOK
<1> SUFFICES ASSUME Init PROVE TypeOK
  OBVIOUS
<1>1. payout \in Payout
  BY DEF Init, Payout, PayoutStatuses
<1>2. disb \in [Tokens -> DisburseStatuses] /\ executed \in [Tokens -> Nat]
  BY DEF Init, DisburseStatuses
<1>3. proc \in [Workers -> ProcMemory] /\ call \in [Callbacks -> CallMemory]
  BY IdleType DEF Init
<1> QED BY <1>1, <1>2, <1>3 DEF Init, TypeOK

\* Type correctness, with no assumption on the admins.
THEOREM TypeCorrect == Spec => []TypeOK
BY TypeInit, TypeStep, PTL DEF Spec
-----------------------------------------------------------------------------
(* Each action keeps the invariant.  The first step of a lemma is for the   *)
(* parts whose variables it leaves alone, then one step for each part it    *)
(* could disturb.                                                           *)

\* The confirmation and the loss of its event touch no payout.
LEMMA PaymentConfirmedKeeps ==
  ASSUME Orderly, TypeOK', PaymentConfirmed \/ EventLost
  PROVE  Orderly'
<1> USE NullAssumption DEF Orderly, TypeOK, PaymentConfirmed, EventLost,
            rentVars, providerVars
<1>1. /\ Claimable' /\ OneProcess' /\ Tracked' /\ Settled' /\ Counted'
      /\ (\A g \in Callbacks : CallOK(g))'
      /\ (\A v \in Workers : ProcOK(v))'
  BY DEF Claimable, NobodyWorks, NobodyProcesses, Working, OneProcess,
         Tracked, Settled, Counted, CallOK, ProcOK, AtLoad, Preparing,
         Following, Releasing
<1> QED BY <1>1

\* A row created PENDING is claimable: nobody worked on a missing row.
LEMMA CreateMissingKeeps ==
  ASSUME Orderly, TypeOK', CreateMissing
  PROVE  Orderly'
<1> USE NullAssumption DEF Orderly, TypeOK, CreateMissing, Created, rentVars,
            providerVars
<1>1. OneProcess' /\ Counted'
  BY DEF OneProcess, Working, Counted
<1>2. Claimable'
  BY DEF Claimable, NobodyWorks, NobodyProcesses, Working
<1>3. Tracked'
  BY DEF Tracked
<1>4. Settled'
  BY DEF Settled
<1>5. (\A g \in Callbacks : CallOK(g))'
  BY DEF CallOK
<1>6. (\A v \in Workers : ProcOK(v))'
  BY DEF AtLoad, Preparing, Following, Releasing, ProcOK
<1> QED BY <1>1, <1>2, <1>3, <1>4, <1>5, <1>6

\* As CreateMissing; and a call before its claim has nothing in hand.
LEMMA ListenerKeeps ==
  ASSUME Orderly, TypeOK', NEW w \in Workers, Listener(w)
  PROVE  Orderly'
<1> USE NullAssumption DEF Orderly, TypeOK, Listener, Created, Goto, rentVars,
            providerVars
<1>1. Counted'
  BY DEF Counted
<1>2. Claimable'
  BY DEF Claimable, NobodyWorks, NobodyProcesses, Working
<1>3. OneProcess'
  BY DEF OneProcess, Working
<1>4. Tracked'
  BY DEF Tracked
<1>5. Settled'
  BY DEF Settled
<1>6. (\A g \in Callbacks : CallOK(g))'
  BY DEF CallOK
<1>7. (\A v \in Workers : ProcOK(v))'
  BY DEF AtLoad, Preparing, Following, Releasing, ProcOK
<1> QED BY <1>1, <1>2, <1>3, <1>4, <1>5, <1>6, <1>7

\* A candidate is only picked: its claim comes later.
LEMMA CronPickKeeps ==
  ASSUME Orderly, TypeOK', NEW w \in Workers, CronPick(w)
  PROVE  Orderly'
<1> USE NullAssumption DEF Orderly, TypeOK, CronPick, Goto, rentVars,
            providerVars
<1>1. Tracked' /\ Settled' /\ Counted' /\ (\A g \in Callbacks : CallOK(g))'
  BY DEF Tracked, Settled, Counted, CallOK
<1>2. Claimable'
  BY DEF Claimable, NobodyWorks, NobodyProcesses, Working
<1>3. OneProcess'
  BY DEF OneProcess, Working
<1>4. (\A v \in Workers : ProcOK(v))'
  BY DEF AtLoad, Preparing, Following, Releasing, ProcOK
<1> QED BY <1>1, <1>2, <1>3, <1>4

\* A FAILED row starts again with no money out and nobody at work.
LEMMA AdminRetryKeeps ==
  ASSUME Orderly, TypeOK', ~prompt', NEW w \in Workers, AdminRetry(w)
  PROVE  Orderly'
<1> USE NullAssumption DEF Orderly, TypeOK, AdminRetry, Goto, rentVars,
            providerVars
<1>0. NobodyWorks
  OBVIOUS
<1>1. Counted'
  BY DEF Counted
<1>2. Claimable'
  BY <1>0 DEF Claimable, NobodyWorks, NobodyProcesses, Working
<1>3. OneProcess'
  BY DEF OneProcess, Working
<1>4. Tracked'
  BY DEF Tracked
<1>5. Settled'
  BY DEF Settled
<1>6. (\A g \in Callbacks : CallOK(g))'
  BY DEF CallOK
<1>7. (\A v \in Workers : ProcOK(v))'
  BY DEF AtLoad, Preparing, Following, Releasing, ProcOK
<1> QED BY <1>1, <1>2, <1>3, <1>4, <1>5, <1>6, <1>7

\* A claim is won on a row nobody works on: one process() at most.
LEMMA ClaimKeeps ==
  ASSUME Orderly, TypeOK', NEW w \in Workers, Claim(w)
  PROVE  Orderly'
<1> USE NullAssumption DEF Orderly, TypeOK, Claim, FreshlyClaimed, Resumable,
            Goto, ProcDone, rentVars, providerVars
<1>1. Counted'
  BY DEF Counted
<1>2. Claimable'
  <2>1. CASE Resumable
    <3>1. payout'.status = "SENDING"
      BY <2>1 DEF Payout, PayoutStatuses
    <3>2. payout'.quiet = FALSE
      BY <2>1 DEF Payout
    <3> QED BY <3>1, <3>2 DEF Claimable
  <2>2. CASE ~Resumable
    BY <2>2 DEF Claimable, NobodyWorks, NobodyProcesses, Working, Idle
  <2> QED BY <2>1, <2>2
<1>3. OneProcess'
  BY DEF OneProcess, Claimable, NobodyWorks, NobodyProcesses, Working, Idle
<1>4. Tracked'
  <2>1. payout'.token = payout.token
    BY DEF Payout
  <2>2. payout'.status = payout.status \/ payout'.status = "SENDING"
    BY DEF Payout
  <2> QED BY <2>1, <2>2 DEF Tracked
<1>5. Settled'
  BY DEF Settled, Payout
<1>6. (\A g \in Callbacks : CallOK(g))'
  BY DEF CallOK, Claimable, NobodyWorks, Payout
<1>7. (\A v \in Workers : ProcOK(v))'
  <2> SUFFICES ASSUME NEW v \in Workers PROVE ProcOK(v)'
    OBVIOUS
  <2>1. CASE ~Resumable
    BY <2>1 DEF ProcOK, AtLoad, Preparing, Following, Releasing, Idle
  <2>2. CASE Resumable
    <3>1. NobodyProcesses
      BY <2>2 DEF Claimable, NobodyWorks
    <3>2. payout'.status = "SENDING"
      BY <2>2 DEF Payout, PayoutStatuses
    <3>3. proc'[v].pc \in {"idle", "claim", "load"}
      BY <2>2, <3>1 DEF NobodyProcesses, Working, ProcMemory
    <3> QED BY <3>2, <3>3 DEF ProcOK, AtLoad, Preparing, Following, Releasing
  <2> QED BY <2>1, <2>2
<1> QED BY <1>1, <1>2, <1>3, <1>4, <1>5, <1>6, <1>7

\* What process() reads: a token to follow, or none to prepare.
LEMMA LoadKeeps ==
  ASSUME Orderly, TypeOK', NEW w \in Workers, Load(w)
  PROVE  Orderly'
<1> USE NullAssumption DEF Orderly, TypeOK, Load, rentVars, providerVars
<1>1. Tracked' /\ Settled' /\ Counted' /\ (\A g \in Callbacks : CallOK(g))'
  BY DEF Tracked, Settled, Counted, CallOK
<1>2. Claimable'
  BY DEF Claimable, NobodyWorks, NobodyProcesses, Working
<1>3. OneProcess'
  BY DEF OneProcess, Working
<1>4. (\A v \in Workers : ProcOK(v))'
  BY DEF AtLoad, Preparing, Following, Releasing, Settled, Claimable, Working,
         NobodyWorks, NobodyProcesses, ProcOK, Payout, PayoutStatuses
<1> QED BY <1>1, <1>2, <1>3, <1>4

\* The disbursement created is new, nothing was sent under it.
LEMMA PrepareKeeps ==
  ASSUME Orderly, TypeOK', NEW w \in Workers, Prepare(w)
  PROVE  Orderly'
<1> USE NullAssumption DEF Orderly, TypeOK, Prepare, Unused, Goto, rentVars,
            providerVars
<1>1. Claimable'
  BY DEF Claimable, NobodyWorks, NobodyProcesses, Working
<1>2. OneProcess'
  BY DEF OneProcess, Working
<1>3. Tracked'
  BY DEF Tracked
<1>4. Settled'
  BY DEF Settled
<1>5. Counted'
  BY DEF Counted
<1>6. (\A g \in Callbacks : CallOK(g))'
  BY DEF CallOK
<1>7. (\A v \in Workers : ProcOK(v))'
  BY DEF AtLoad, Preparing, Following, Releasing, OneProcess, Working, ProcOK,
         ProcMemory
<1> QED BY <1>1, <1>2, <1>3, <1>4, <1>5, <1>6, <1>7

\* The token is recorded in a row that had none.
LEMMA PersistKeeps ==
  ASSUME Orderly, TypeOK', NEW w \in Workers, Persist(w)
  PROVE  Orderly'
<1> USE NullAssumption DEF Orderly, TypeOK, Persist, Goto, rentVars, providerVars
<1>1. Counted'
  BY DEF Counted
<1>2. Claimable'
  BY DEF Claimable, NobodyWorks, NobodyProcesses, Working, Payout
<1>3. OneProcess'
  BY DEF OneProcess, Working
<1>4. Tracked'
  BY DEF Tracked, ProcOK, Preparing
<1>5. Settled'
  BY DEF Settled, ProcOK, Preparing, Payout
<1>6. (\A g \in Callbacks : CallOK(g))'
  <2>1. payout'.status = payout.status
    BY DEF Payout
  <2>2. payout.token = NoToken
    BY DEF ProcOK, Preparing
  <2> QED BY <2>1, <2>2 DEF CallOK
<1>7. (\A v \in Workers : ProcOK(v))'
  <2> SUFFICES ASSUME NEW v \in Workers PROVE ProcOK(v)'
    OBVIOUS
  <2>1. payout'.status = payout.status /\ payout'.token \in {payout.token, proc[w].token}
    BY DEF Payout
  <2>2. /\ payout.status \in {"PENDING", "SENDING"} /\ payout.token = NoToken
        /\ proc[w].token \in Tokens
        /\ disb[proc[w].token] \in {"created", "failed"}
    BY DEF ProcOK, Preparing
  <2>3. CASE v = w
    <3>1. CASE proc'[w].pc = "check"
      <4>1. payout' = [payout EXCEPT !.token = proc[w].token, !.quiet = FALSE]
        BY <3>1 DEF ProcMemory
      <4>2. payout'.token = proc[w].token
        BY <4>1 DEF Payout
      <4>3. proc'[w].token = proc[w].token /\ disb' = disb
        BY <3>1 DEF ProcMemory
      <4>4. Following(w)'
        BY <2>1, <2>2, <3>1, <4>2, <4>3 DEF Following
      <4> QED BY <2>3, <3>1, <4>4 DEF ProcOK, AtLoad, Preparing, Releasing
    <3>2. CASE proc'[w].pc = "release"
      BY <2>1, <2>2, <2>3, <3>2 DEF ProcOK, AtLoad, Preparing, Following, Releasing
    <3> QED BY <3>1, <3>2 DEF ProcMemory
  <2>4. CASE v # w
    <3>1. proc'[v] = proc[v] /\ proc[v].pc \in {"idle", "claim"}
      BY <2>4 DEF OneProcess, Working
    <3> QED BY <3>1 DEF ProcOK, AtLoad, Preparing, Following, Releasing
  <2> QED BY <2>3, <2>4
<1> QED BY <1>1, <1>2, <1>3, <1>4, <1>5, <1>6, <1>7

\* What the provider says decides; created again only if not submitted.
LEMMA CheckKeeps ==
  ASSUME Orderly, TypeOK', NEW w \in Workers, Check(w)
  PROVE  Orderly'
<1> USE NullAssumption DEF Orderly, TypeOK, Check, MaySubmit, NextStep, Goto,
            ProcDone, rentVars, providerVars
<1>1. Tracked' /\ Settled' /\ Counted' /\ (\A g \in Callbacks : CallOK(g))'
  BY DEF Tracked, Settled, Counted, CallOK
<1>2. Claimable'
  BY DEF Claimable, NobodyWorks, NobodyProcesses, Working
<1>3. OneProcess'
  BY DEF OneProcess, Working
<1>4. (\A v \in Workers : ProcOK(v))'
  BY DEF AtLoad, Preparing, Following, Releasing, ProcOK, Idle, ProcMemory
<1> QED BY <1>1, <1>2, <1>3, <1>4

\* Money leaves under the recorded token, and for the first time.
LEMMA SubmitKeeps ==
  ASSUME Orderly, TypeOK', NEW w \in Workers, Submit(w)
  PROVE  Orderly'
<1> USE NullAssumption DEF Orderly, TypeOK, Submit, Goto, ProcDone, rentVars,
            providerVars
<1>1. Claimable'
  BY DEF Claimable, NobodyWorks, NobodyProcesses, Working
<1>2. OneProcess'
  BY DEF OneProcess, Working
<1>3. Tracked'
  BY DEF Tracked, ProcOK, Following
<1>4. Settled'
  BY DEF Settled
<1>5. Counted'
  BY DEF Counted, ProcOK, Following
<1>6. (\A g \in Callbacks : CallOK(g))'
  BY DEF CallOK
<1>7. (\A v \in Workers : ProcOK(v))'
  BY DEF AtLoad, Preparing, Following, Releasing, OneProcess, Working, ProcOK,
         Idle, ProcMemory
<1> QED BY <1>1, <1>2, <1>3, <1>4, <1>5, <1>6, <1>7

\* A refused submission sent nothing.
LEMMA SubmitRefusedKeeps ==
  ASSUME Orderly, TypeOK', NEW w \in Workers, SubmitRefused(w)
  PROVE  Orderly'
<1> USE NullAssumption DEF Orderly, TypeOK, SubmitRefused, Goto, rentVars,
            providerVars
<1>1. Claimable'
  BY DEF Claimable, NobodyWorks, NobodyProcesses, Working
<1>2. OneProcess'
  BY DEF OneProcess, Working
<1>3. Tracked'
  BY DEF Tracked
<1>4. Settled'
  BY DEF Settled
<1>5. Counted'
  BY DEF Counted
<1>6. (\A g \in Callbacks : CallOK(g))'
  BY DEF CallOK
<1>7. (\A v \in Workers : ProcOK(v))'
  BY DEF AtLoad, Preparing, Following, Releasing, ProcOK
<1> QED BY <1>1, <1>2, <1>3, <1>4, <1>5, <1>6, <1>7

\* As Check, once submitted.
LEMMA RecheckKeeps ==
  ASSUME Orderly, TypeOK', NEW w \in Workers, Recheck(w)
  PROVE  Orderly'
<1> USE NullAssumption DEF Orderly, TypeOK, Recheck, NextStep, Goto, ProcDone,
            rentVars, providerVars
<1>1. Tracked' /\ Settled' /\ Counted' /\ (\A g \in Callbacks : CallOK(g))'
  BY DEF Tracked, Settled, Counted, CallOK
<1>2. Claimable'
  BY DEF Claimable, NobodyWorks, NobodyProcesses, Working
<1>3. OneProcess'
  BY DEF OneProcess, Working
<1>4. (\A v \in Workers : ProcOK(v))'
  BY DEF AtLoad, Preparing, Following, Releasing, ProcOK, Idle, ProcMemory
<1> QED BY <1>1, <1>2, <1>3, <1>4

\* SUCCESS is written for the recorded token, which succeeded.
LEMMA ProcSucceedKeeps ==
  ASSUME Orderly, TypeOK', NEW w \in Workers, ProcSucceed(w)
  PROVE  Orderly'
<1> USE NullAssumption DEF Orderly, TypeOK, ProcSucceed, Succeeded, StillSending,
            ProcDone, rentVars, providerVars
<1>1. Counted'
  BY DEF Counted
<1>2. Claimable'
  BY DEF Claimable, NobodyWorks, NobodyProcesses, Working
<1>3. OneProcess'
  BY DEF OneProcess, Working
<1>4. Tracked'
  BY DEF Tracked
<1>5. Settled'
  BY DEF Settled, ProcOK, Following
<1>6. (\A g \in Callbacks : CallOK(g))'
  BY DEF CallOK
<1>7. (\A v \in Workers : ProcOK(v))'
  BY DEF AtLoad, Preparing, Following, Releasing, ProcOK, Idle
<1> QED BY <1>1, <1>2, <1>3, <1>4, <1>5, <1>6, <1>7

\* A release forgets a token whose money has not left.
LEMMA ProcReleaseKeeps ==
  ASSUME Orderly, TypeOK', NEW w \in Workers, ProcRelease(w)
  PROVE  Orderly'
<1> USE NullAssumption DEF Orderly, TypeOK, ProcRelease, Released, StillSending,
            ProcDone, rentVars, providerVars
<1>1. Counted'
  BY DEF Counted
<1>2. Claimable'
  BY DEF Claimable, NobodyWorks, NobodyProcesses, Working
<1>3. OneProcess'
  BY DEF OneProcess, Working
<1>4. Tracked'
  BY DEF Tracked, ProcOK, Releasing
<1>5. Settled'
  BY DEF Settled
<1>6. (\A g \in Callbacks : CallOK(g))'
  BY DEF CallOK
<1>7. (\A v \in Workers : ProcOK(v))'
  BY DEF AtLoad, Preparing, Following, Releasing, OneProcess, Working, ProcOK,
         Idle
<1> QED BY <1>1, <1>2, <1>3, <1>4, <1>5, <1>6, <1>7

\* A stopped process() leaves the row as it is.
LEMMA ProcFailKeeps ==
  ASSUME Orderly, TypeOK', NEW w \in Workers, ProcFail(w)
  PROVE  Orderly'
<1> USE NullAssumption DEF Orderly, TypeOK, ProcFail, ProcDone, rentVars,
            providerVars
<1>1. Tracked' /\ Settled' /\ Counted' /\ (\A g \in Callbacks : CallOK(g))'
  BY DEF Tracked, Settled, Counted, CallOK
<1>2. Claimable'
  BY DEF Claimable, NobodyWorks, NobodyProcesses, Working, Idle
<1>3. OneProcess'
  BY DEF OneProcess, Working, Idle
<1>4. (\A v \in Workers : ProcOK(v))'
  BY DEF AtLoad, Preparing, Following, Releasing, ProcOK, Idle
<1> QED BY <1>1, <1>2, <1>3, <1>4

\* A callback remembers the token of a SENDING row.
LEMMA CallbackReadKeeps ==
  ASSUME Orderly, TypeOK', NEW h \in Callbacks, CallbackRead(h)
  PROVE  Orderly'
<1> USE NullAssumption DEF Orderly, TypeOK, CallbackRead, rentVars, providerVars
<1>1. /\ OneProcess' /\ Tracked' /\ Settled' /\ Counted'
      /\ (\A v \in Workers : ProcOK(v))'
  BY DEF OneProcess, Working, Tracked, Settled, Counted, ProcOK, AtLoad,
         Preparing, Following, Releasing
<1>2. Claimable'
  BY DEF Claimable, NobodyProcesses, Working
<1>3. (\A g \in Callbacks : CallOK(g))'
  BY DEF CallOK, Payout
<1> QED BY <1>1, <1>2, <1>3

\* A callback concludes on the disbursement it remembers.
LEMMA CallbackAskKeeps ==
  ASSUME Orderly, TypeOK', NEW h \in Callbacks, CallbackAsk(h)
  PROVE  Orderly'
<1> USE NullAssumption DEF Orderly, TypeOK, CallbackAsk, NextStep, CallGoto,
            CallDone, rentVars, providerVars
<1>1. /\ OneProcess' /\ Tracked' /\ Settled' /\ Counted'
      /\ (\A v \in Workers : ProcOK(v))'
  BY DEF OneProcess, Working, Tracked, Settled, Counted, ProcOK, AtLoad,
         Preparing, Following, Releasing
<1>2. Claimable'
  BY DEF Claimable, NobodyWorks, NobodyProcesses, Working, Idle
<1>3. (\A g \in Callbacks : CallOK(g))'
  BY DEF CallOK, Idle, CallMemory
<1> QED BY <1>1, <1>2, <1>3

\* A SENDING row still has the token the callback concluded on.
LEMMA CallbackSucceedKeeps ==
  ASSUME Orderly, TypeOK', NEW h \in Callbacks, CallbackSucceed(h)
  PROVE  Orderly'
<1> USE NullAssumption DEF Orderly, TypeOK, CallbackSucceed, Succeeded,
            StillSending, CallDone, rentVars, providerVars
<1>1. OneProcess' /\ Counted'
  BY DEF OneProcess, Working, Counted
<1>2. Claimable'
  BY DEF Claimable, NobodyWorks, Idle
<1>3. Tracked'
  BY DEF Tracked
<1>4. Settled'
  <2>1. CASE payout.status = "SENDING"
    <3>1. payout.token = call[h].token /\ disb[call[h].token] = "success"
          /\ call[h].token \in Tokens
      BY <2>1 DEF CallOK, Idle
    <3>2. payout'.token = payout.token
      BY <2>1 DEF Payout
    <3> QED BY <3>1, <3>2 DEF Settled
  <2>2. CASE payout.status # "SENDING"
    BY <2>2 DEF Settled
  <2> QED BY <2>1, <2>2
<1>5. (\A g \in Callbacks : CallOK(g))'
  BY DEF CallOK
<1>6. (\A v \in Workers : ProcOK(v))'
  BY DEF AtLoad, Preparing, Following, Releasing, CallOK, ProcOK, Idle
<1> QED BY <1>1, <1>2, <1>3, <1>4, <1>5, <1>6

\* As CallbackSucceed: the token it forgets has failed.
LEMMA CallbackReleaseKeeps ==
  ASSUME Orderly, TypeOK', NEW h \in Callbacks, CallbackRelease(h)
  PROVE  Orderly'
<1> USE NullAssumption DEF Orderly, TypeOK, CallbackRelease, Released,
            StillSending, CallDone, rentVars, providerVars
<1>1. OneProcess' /\ Counted'
  BY DEF OneProcess, Working, Counted
<1>2. Claimable'
  BY DEF Claimable, NobodyWorks, Idle
<1>3. Tracked'
  <2>1. CASE payout.status = "SENDING"
    <3>1. payout.token = call[h].token /\ disb[call[h].token] = "failed"
      BY <2>1 DEF CallOK, Idle
    <3> QED BY <3>1 DEF Tracked
  <2>2. CASE payout.status # "SENDING"
    BY <2>2 DEF Tracked
  <2> QED BY <2>1, <2>2
<1>4. Settled'
  BY DEF Settled
<1>5. (\A g \in Callbacks : CallOK(g))'
  BY DEF CallOK
<1>6. (\A v \in Workers : ProcOK(v))'
  BY DEF AtLoad, Preparing, Following, Releasing, CallOK, ProcOK, Idle
<1> QED BY <1>1, <1>2, <1>3, <1>4, <1>5, <1>6

\* A stopped callback leaves the row as it is.
LEMMA CallbackFailKeeps ==
  ASSUME Orderly, TypeOK', NEW h \in Callbacks, CallbackFail(h)
  PROVE  Orderly'
<1> USE NullAssumption DEF Orderly, TypeOK, CallbackFail, CallDone, rentVars,
            providerVars
<1>1. /\ OneProcess' /\ Tracked' /\ Settled' /\ Counted'
      /\ (\A v \in Workers : ProcOK(v))'
  BY DEF OneProcess, Working, Tracked, Settled, Counted, ProcOK, AtLoad,
         Preparing, Following, Releasing
<1>2. Claimable'
  BY DEF Claimable, NobodyWorks, NobodyProcesses, Working
<1>3. (\A g \in Callbacks : CallOK(g))'
  BY DEF CallOK
<1> QED BY <1>1, <1>2, <1>3

\* The provider never goes back on created, success or failed.
LEMMA ProviderSettlesKeeps ==
  ASSUME Orderly, TypeOK', NEW t \in Tokens, ProviderSettles(t)
  PROVE  Orderly'
<1> USE NullAssumption DEF Orderly, TypeOK, ProviderSettles, rentVars,
            providerVars
<1>1. Claimable' /\ OneProcess'
  BY DEF Claimable, NobodyWorks, NobodyProcesses, Working, OneProcess
<1>2. Tracked'
  BY DEF Tracked
<1>3. Settled'
  BY DEF Settled
<1>4. Counted'
  BY DEF Counted
<1>5. (\A g \in Callbacks : CallOK(g))'
  BY DEF CallOK
<1>6. (\A v \in Workers : ProcOK(v))'
  BY DEF AtLoad, Preparing, Following, Releasing, ProcOK
<1> QED BY <1>1, <1>2, <1>3, <1>4, <1>5, <1>6

\* A row becomes due when nobody works on it.
LEMMA BecomesDueKeeps ==
  ASSUME Orderly, TypeOK', BecomesDue
  PROVE  Orderly'
<1> USE NullAssumption DEF Orderly, TypeOK, BecomesDue, rentVars, providerVars
<1>1. OneProcess' /\ Counted'
  BY DEF OneProcess, Working, Counted
<1>2. Claimable'
  BY DEF Claimable, NobodyWorks, NobodyProcesses, Working
<1>3. Tracked'
  BY DEF Tracked
<1>4. Settled'
  BY DEF Settled
<1>5. (\A g \in Callbacks : CallOK(g))'
  BY DEF CallOK
<1>6. (\A v \in Workers : ProcOK(v))'
  BY DEF AtLoad, Preparing, Following, Releasing, ProcOK
<1> QED BY <1>1, <1>2, <1>3, <1>4, <1>5, <1>6

\* A row becomes quiet when no process() works on it.
LEMMA BecomesQuietKeeps ==
  ASSUME Orderly, TypeOK', BecomesQuiet
  PROVE  Orderly'
<1> USE NullAssumption DEF Orderly, TypeOK, BecomesQuiet, rentVars, providerVars
<1>1. OneProcess' /\ Counted'
  BY DEF OneProcess, Working, Counted
<1>2. Claimable'
  BY DEF Claimable, NobodyProcesses, Working
<1>3. Tracked'
  BY DEF Tracked
<1>4. Settled'
  BY DEF Settled
<1>5. (\A g \in Callbacks : CallOK(g))'
  BY DEF CallOK
<1>6. (\A v \in Workers : ProcOK(v))'
  BY DEF AtLoad, Preparing, Following, Releasing, ProcOK
<1> QED BY <1>1, <1>2, <1>3, <1>4, <1>5, <1>6

-----------------------------------------------------------------------------
(* The invariant, and what follows from it.                                *)

\* Nothing has happened: nothing is in hand.
LEMMA OrderlyInit == Init => Orderly
<1> SUFFICES ASSUME Init PROVE Orderly
  OBVIOUS
<1>1. TypeOK
  BY TypeInit
<1>2. /\ \A w \in Workers : proc[w].pc = "idle"
      /\ \A h \in Callbacks : call[h] = Idle
  BY DEF Init, Idle
<1>3. Claimable /\ OneProcess
  BY <1>2 DEF Init, Claimable, OneProcess, NobodyWorks, NobodyProcesses, Working
<1>4. Tracked /\ Settled
  BY DEF Init, Tracked, Settled
<1>5. Counted
  BY DEF Init, Counted
<1>6. /\ \A h \in Callbacks : CallOK(h)
      /\ \A w \in Workers : ProcOK(w)
  BY <1>2 DEF CallOK, ProcOK, AtLoad, Preparing, Following, Releasing
<1> QED BY <1>1, <1>3, <1>4, <1>5, <1>6 DEF Orderly

\* Every step keeps the invariant.
LEMMA OrderlyStep ==
  ASSUME Orderly, [Next]_vars, ~prompt'
  PROVE  Orderly'
<1>1. TypeOK'
  BY TypeStep DEF Orderly
<1>2. CASE PaymentConfirmed \/ EventLost
  BY <1>1, <1>2, PaymentConfirmedKeeps
<1>3. CASE CreateMissing
  BY <1>1, <1>3, CreateMissingKeeps
<1>4. ASSUME NEW w \in Workers, Listener(w) \/ CronPick(w) \/ AdminRetry(w)
      PROVE  Orderly'
  BY <1>1, <1>4, ListenerKeeps, CronPickKeeps, AdminRetryKeeps
<1>5. ASSUME NEW w \in Workers, Process(w)
      PROVE  Orderly'
  BY <1>1, <1>5, ClaimKeeps, LoadKeeps, PrepareKeeps, PersistKeeps, CheckKeeps,
     SubmitKeeps, SubmitRefusedKeeps, RecheckKeeps, ProcSucceedKeeps,
     ProcReleaseKeeps, ProcFailKeeps DEF Process
<1>6. ASSUME NEW h \in Callbacks, Callback(h)
      PROVE  Orderly'
  BY <1>1, <1>6, CallbackReadKeeps, CallbackAskKeeps, CallbackSucceedKeeps,
     CallbackReleaseKeeps, CallbackFailKeeps DEF Callback
<1>7. ASSUME NEW t \in Tokens, ProviderSettles(t)
      PROVE  Orderly'
  BY <1>1, <1>7, ProviderSettlesKeeps
<1>8. CASE BecomesDue \/ BecomesQuiet
  BY <1>1, <1>8, BecomesDueKeeps, BecomesQuietKeeps
<1>9. CASE UNCHANGED vars
  BY <1>9 DEF vars, Orderly, TypeOK, Claimable, NobodyWorks, NobodyProcesses,
     Working, OneProcess, Tracked, Settled, Counted, CallOK, ProcOK, AtLoad,
     Preparing, Following, Releasing
<1> QED BY <1>2, <1>3, <1>4, <1>5, <1>6, <1>7, <1>8, <1>9 DEF Next

\* A prompt retry is never forgotten.
LEMMA PromptKept ==
  ASSUME [Next]_vars, prompt
  PROVE  prompt'
BY DEF Next, vars, rentVars, PaymentConfirmed, EventLost, CreateMissing,
   Listener, CronPick, AdminRetry, Process, Claim, Load, Prepare, Persist,
   Check, Submit, SubmitRefused, Recheck, ProcSucceed, ProcRelease, ProcFail,
   Callback, CallbackRead, CallbackAsk, CallbackSucceed, CallbackRelease,
   CallbackFail, ProviderSettles, BecomesDue, BecomesQuiet

\* The inductive invariant.
IInv == prompt \/ Orderly

\* All is in order until an admin retries while an older call still runs.
THEOREM InvariantHolds == Spec => []IInv
<1>1. Init => IInv
  BY OrderlyInit DEF IInv
<1>2. IInv /\ [Next]_vars => IInv'
  BY OrderlyStep, PromptKept DEF IInv
<1> QED BY <1>1, <1>2, PTL DEF Spec

\* Until then a rent leaves once at most, whatever is interrupted, repeated or
\* late.
THEOREM TransferredOnce == Spec => []AtMostOneTransfer
<1>1. IInv => AtMostOneTransfer
  BY DEF IInv, Orderly, Tracked, AtMostOneTransfer, Moving, Arrived
<1> QED BY <1>1, InvariantHolds, PTL

\* Until then a disbursement is executed once at most: submit is not replayed.
THEOREM SubmittedOnce == Spec => []ExecutedOnce
<1>1. IInv => ExecutedOnce
  BY DEF IInv, Orderly, Counted, ExecutedOnce
<1> QED BY <1>1, InvariantHolds, PTL

\* Until then money on its way is under the token of an unsettled payout.
THEOREM AlwaysTracked == Spec => []MovingIsTracked
<1>1. IInv => MovingIsTracked
  BY DEF IInv, Orderly, Tracked, Settled, MovingIsTracked, Moving
<1> QED BY <1>1, InvariantHolds, PTL

\* Until then SUCCESS and FAILED tell what happened to the money.
THEOREM OutcomeTold == Spec => []OutcomeIsTrue
<1>1. IInv => OutcomeIsTrue
  BY DEF IInv, Orderly, Tracked, Settled, OutcomeIsTrue, Moving, Arrived
<1> QED BY <1>1, InvariantHolds, PTL

-----------------------------------------------------------------------------
(* What a step may never do, and the promise.                              *)

\* The actions that write the row never change a status SUCCESS.
LEMMA SuccessKeptStep ==
  ASSUME TypeOK, [Next]_vars, payout.status = "SUCCESS"
  PROVE  payout'.status = "SUCCESS"
<1> USE DEF TypeOK
<1>1. CASE payout' = payout
  BY <1>1
<1>2. CASE CreateMissing
  BY <1>2 DEF CreateMissing
<1>3. ASSUME NEW w \in Workers, Listener(w) \/ CronPick(w) \/ AdminRetry(w)
      PROVE  payout'.status = "SUCCESS"
  BY <1>3 DEF Listener, Created, CronPick, AdminRetry
<1>4. ASSUME NEW w \in Workers, Process(w)
      PROVE  payout'.status = "SUCCESS"
  <2>1. CASE Claim(w)
    BY <2>1 DEF Claim
  <2>2. CASE Persist(w)
    BY <2>2 DEF Persist, Payout
  <2>3. CASE ProcSucceed(w) \/ ProcRelease(w)
    BY <2>3 DEF ProcSucceed, ProcRelease, Succeeded, Released, StillSending
  <2>4. CASE payout' = payout
    BY <2>4
  <2> QED BY <1>4, <2>1, <2>2, <2>3, <2>4 DEF Process, Load, Prepare, Check,
          Submit, SubmitRefused, Recheck, ProcFail
<1>5. ASSUME NEW h \in Callbacks, Callback(h)
      PROVE  payout'.status = "SUCCESS"
  BY <1>5 DEF Callback, CallbackRead, CallbackAsk, CallbackSucceed,
     CallbackRelease, CallbackFail, Succeeded, Released, StillSending
<1>6. CASE BecomesDue \/ BecomesQuiet
  BY <1>6 DEF BecomesDue, BecomesQuiet
<1> QED BY <1>1, <1>2, <1>3, <1>4, <1>5, <1>6
        DEF Next, vars, PaymentConfirmed, EventLost, ProviderSettles

\* A payout that succeeded stays so, admins prompt or not.
THEOREM SuccessKept == Spec => SuccessIsFinal
<1>1. TypeOK /\ [Next]_vars =>
        [payout.status = "SUCCESS" => payout'.status = "SUCCESS"]_vars
  BY SuccessKeptStep
<1> QED BY <1>1, TypeCorrect, PTL DEF Spec, SuccessIsFinal

\* As long as no disbursement's standing changes, the promise sees nothing.
LEMMA SameStanding ==
  ASSUME \A t \in Tokens : /\ disb[t] = "pending" <=> disb'[t] = "pending"
                           /\ disb[t] = "success" <=> disb'[t] = "success"
  PROVE  UNCHANGED <<Moving, Arrived>>
BY DEF Moving, Arrived

\* One attempt leaves, comes back or arrives.
Moves ==
  \E t \in Tokens : Promise!Leave(t) \/ Promise!Return(t) \/ Promise!Arrive(t)

\* Every step leaves, returns, arrives, or is invisible to the promise.
LEMMA PromiseStep ==
  ASSUME Orderly, [Next]_vars
  PROVE  Moves \/ UNCHANGED <<Moving, Arrived>>
<1> USE DEF Orderly
<1>1. CASE disb' = disb
  BY <1>1, SameStanding
<1>2. ASSUME NEW w \in Workers, Prepare(w) \/ SubmitRefused(w)
      PROVE  UNCHANGED <<Moving, Arrived>>
  <2>1. CASE Prepare(w)
    BY <2>1, SameStanding DEF Prepare, Unused, TypeOK
  <2>2. CASE SubmitRefused(w)
    BY <2>2, SameStanding DEF SubmitRefused, TypeOK
  <2> QED BY <1>2, <2>1, <2>2
<1>3. ASSUME NEW w \in Workers, Submit(w)
      PROVE  Moves
  <2> DEFINE t == proc[w].token
  <2>1. t \in Tokens /\ disb[t] = "created" /\ payout.token = t
    BY <1>3 DEF Submit, ProcOK, Following
  <2>2. disb' = [disb EXCEPT ![t] = "pending"]
    BY <1>3, <2>1 DEF Submit
  <2>3. Moving = {} /\ Arrived = {}
    BY <2>1 DEF Tracked, Moving, Arrived
  <2>4. Moving' = {t} /\ Arrived' = {}
    BY <2>1, <2>2, <2>3 DEF Moving, Arrived, TypeOK
  <2> QED BY <2>1, <2>3, <2>4 DEF Moves, Promise!Leave
<1>4. ASSUME NEW t \in Tokens, ProviderSettles(t)
      PROVE  Moves \/ UNCHANGED <<Moving, Arrived>>
  <2>1. CASE disb[t] = "created"
    BY <1>4, <2>1, SameStanding DEF ProviderSettles, TypeOK
  <2>2. CASE disb[t] = "pending"
    <3>1. Moving = {t} /\ Arrived = {}
      BY <2>2 DEF Tracked, Moving, Arrived
    <3>2. CASE disb' = [disb EXCEPT ![t] = "success"]
      <4>1. Moving' = {} /\ Arrived' = {t}
        BY <3>1, <3>2 DEF Moving, Arrived, TypeOK
      <4> QED BY <3>1, <4>1 DEF Moves, Promise!Arrive
    <3>3. CASE disb' = [disb EXCEPT ![t] = "failed"]
      <4>1. Moving' = {} /\ Arrived' = {}
        BY <3>1, <3>3 DEF Moving, Arrived, TypeOK
      <4> QED BY <3>1, <4>1 DEF Moves, Promise!Return
    <3> QED BY <1>4, <2>2, <3>2, <3>3 DEF ProviderSettles
  <2> QED BY <1>4, <2>1, <2>2 DEF ProviderSettles
<1>5. \/ disb' = disb
      \/ \E w \in Workers : Prepare(w) \/ SubmitRefused(w) \/ Submit(w)
      \/ \E t \in Tokens : ProviderSettles(t)
  BY DEF Next, vars, providerVars, PaymentConfirmed, EventLost, CreateMissing,
     Listener, CronPick, AdminRetry, Process, Claim, Load, Persist, Check,
     Recheck, ProcSucceed, ProcRelease, ProcFail, Callback, CallbackRead,
     CallbackAsk, CallbackSucceed, CallbackRelease, CallbackFail, BecomesDue,
     BecomesQuiet
<1> QED BY <1>1, <1>2, <1>3, <1>4, <1>5

\* A step that is not trusted any more is free, the others are the promise's.
LEMMA PromiseKept ==
  ASSUME IInv, [Next]_vars
  PROVE  [Promise!TransferNext]_<<Moving, Arrived, ~prompt>>
<1>1. CASE prompt'
  BY <1>1 DEF Promise!TransferNext, Promise!LoseTrust
<1>2. CASE ~prompt'
  <2>1. ~prompt /\ Orderly
    BY <1>2, PromptKept DEF IInv
  <2>2. Moves \/ UNCHANGED <<Moving, Arrived>>
    BY <2>1, PromiseStep
  <2>3. CASE Moves
    BY <1>2, <2>1, <2>3 DEF Moves, Promise!TransferNext
  <2>4. CASE UNCHANGED <<Moving, Arrived>>
    BY <1>2, <2>1, <2>4
  <2> QED BY <2>2, <2>3, <2>4
<1> QED BY <1>1, <1>2

\* The whole handling of a payout implements OneTransfer, in which only an
\* admin's retry while an older call still runs loses trust.
THEOREM ImplementsPromise == Spec => KeepsPromise
<1>1. Init => Promise!TransferInit
  BY DEF Init, Moving, Arrived, Promise!TransferInit
<1>2. IInv /\ [Next]_vars => [Promise!TransferNext]_<<Moving, Arrived, ~prompt>>
  BY PromiseKept
<1> QED BY <1>1, <1>2, InvariantHolds, PTL
        DEF Spec, KeepsPromise, Promise!TransferSpec
=============================================================================
