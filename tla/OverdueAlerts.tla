---------------------------- MODULE OverdueAlerts ----------------------------
(***************************************************************************)
(* OverdueAlertsTask: past its due date and the grace period, an unpaid    *)
(* entry is signalled once to the owner or manager and becomes OVERDUE,    *)
(* and its tenant is reminded once.                                        *)
(*                                                                         *)
(* A run works on a snapshot of up to 100 entries and sends notifications  *)
(* between its reads and its writes.  Its advisory lock lives in a         *)
(* transaction of at most ten minutes: a longer run goes on without it, so *)
(* that runs may overlap.                                                  *)
(***************************************************************************)
EXTENDS RentLedger

CONSTANT Runs        \* runs of the task in progress at the same time

VARIABLES
  run,               \* where each run stands with this entry
  sent               \* history: reminders that left for the tenant

overdueVars == <<run, sent>>

RunSteps == {"idle", "alert", "mark", "remind", "send"}

\* remind: the run's snapshot shows a tenant not reminded yet.
RunIdle == [pc |-> "idle", remind |-> FALSE]
RunMemory == [pc : RunSteps, remind : BOOLEAN]

RunDone(k) == run' = [run EXCEPT ![k] = RunIdle]
Goes(k, step) == run' = [run EXCEPT ![k].pc = step]

\* After the agency, the tenant; nothing when the snapshot shows it is done.
AfterAgency(k) == IF run[k].remind THEN Goes(k, "remind") ELSE RunDone(k)

Unpaid == {"PENDING", "PARTIAL", "OVERDUE"}

\* The candidates: an unpaid entry whose agency or whose tenant has not been
\* told yet.
OverdueRead(k) ==
  /\ run[k] = RunIdle
  /\ \E toAgency \in BOOLEAN, toTenant \in BOOLEAN :
       /\ toAgency = (entry.status \in {"PENDING", "PARTIAL"} /\ ~entry.alerted)
       /\ toTenant = (entry.status \in Unpaid /\ ~entry.reminded)
       /\ toAgency \/ toTenant
       /\ run' = [run EXCEPT ![k] =
            [pc |-> IF toAgency THEN "alert" ELSE "remind", remind |-> toTenant]]
  /\ UNCHANGED <<ledgerVars, sent>>

\* alertAgency: the notification leaves, or its failure ends this part.
AlertAgency(k) ==
  /\ run[k].pc = "alert"
  /\ Goes(k, "mark") \/ AfterAgency(k)
  /\ UNCHANGED <<ledgerVars, sent>>

\* ... then the entry is marked; a failure of the update is only logged.
MarkOverdue(k) ==
  /\ run[k].pc = "mark"
  /\ entry' \in {[entry EXCEPT !.status = "OVERDUE", !.alerted = TRUE], entry}
  /\ AfterAgency(k)
  /\ UNCHANGED <<payment, req, credits, stale, sent>>

\* Outside the tenant's hours the reminder is left to a later run.
OutOfHours(k) ==
  /\ run[k].pc = "remind"
  /\ RunDone(k)
  /\ UNCHANGED <<ledgerVars, sent>>

\* Mutant: the reservation does not look at earlier ones.
ReservableUnpaid == entry.status \in Unpaid

\* The condition of remindTenant's reservation, one updateMany.
Reservable == ~entry.reminded /\ entry.status \in Unpaid

ReserveReminder(k) ==
  /\ run[k].pc = "remind"
  /\ \/ /\ Reservable
        /\ entry' = [entry EXCEPT !.reminded = TRUE]
        /\ Goes(k, "send")
     \/ ~Reservable /\ RunDone(k) /\ UNCHANGED entry
  /\ UNCHANGED <<payment, req, credits, stale, sent>>

\* The reminder leaves; or nothing could leave and the reservation is erased.
SendReminder(k) ==
  /\ run[k].pc = "send"
  /\ \/ sent' = sent + 1 /\ UNCHANGED entry
     \/ entry' = [entry EXCEPT !.reminded = FALSE] /\ UNCHANGED sent
  /\ RunDone(k)
  /\ UNCHANGED <<payment, req, credits, stale>>

\* The process stops: a reservation already made is not erased.
RunCrash(k) ==
  /\ run[k] # RunIdle
  /\ RunDone(k)
  /\ UNCHANGED <<ledgerVars, sent>>

OverdueInit ==
  /\ run = [k \in Runs |-> RunIdle]
  /\ sent = 0

OverdueNext == \E k \in Runs :
  \/ OverdueRead(k) \/ AlertAgency(k) \/ MarkOverdue(k) \/ OutOfHours(k)
  \/ ReserveReminder(k) \/ SendReminder(k) \/ RunCrash(k)
=============================================================================
