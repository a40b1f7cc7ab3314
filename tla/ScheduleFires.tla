--------------------------- MODULE ScheduleFires ---------------------------
(***************************************************************************)
(* One recurring schedule: the timer loop every controller runs and the    *)
(* manual trigger (cognis/core/scheduler.py), the ledger of its fires      *)
(* (cognis/store/schedule_fires.py), the startup catch-up of what was      *)
(* missed, and the projection of a task's result back on the schedule.     *)
(*                                                                         *)
(* Every database transaction is a step.  Time is counted in ticks, and    *)
(* the schedule is a cron whose occurrences are the multiples of Period.   *)
(* What the task queue does with a scheduled task is left to TaskQueue: a  *)
(* task here is active until it pauses or ends.                            *)
(***************************************************************************)
EXTENDS Integers, FiniteSets

CONSTANTS Controller,
          Period,         \* ticks between two occurrences
          Backoff,        \* ticks until a failed fire is tried again
          MaxConcurrent,  \* max_concurrent_runs
          MaxErrors,      \* scheduler.max_consecutive_errors
          RetryFailed,    \* retry_failed_tasks
          FailPaused,     \* fail_paused_task_on_next_fire
          MaxMissed,      \* scheduler.max_missed_on_startup
          Disturbance,    \* which requests users make and which faults happen
          MaxDisturbed,   \* bound: how many of them
          Starting,       \* the controllers that have yet to catch up
          StartTime,      \* where the clock starts
          MaxTime         \* bound: where the clock stops

ASSUME ScheduleAssumption ==
    /\ IsFiniteSet(Controller)
    /\ Period \in Nat \ {0} /\ Backoff \in Nat \ {0}
    /\ MaxConcurrent \in Nat \ {0} /\ MaxErrors \in Nat \ {0} /\ MaxMissed \in Nat
    /\ RetryFailed \in BOOLEAN /\ FailPaused \in BOOLEAN
    /\ MaxDisturbed \in Nat
    /\ Starting \subseteq Controller /\ StartTime \in Nat /\ MaxTime \in Nat

VARIABLES now,       \* the database clock
          sched,     \* the schedule row
          fire,      \* fire[f]: the ledger row of a fire
          task,      \* task[f]: the task that fire f creates
          event,     \* event[f]: the terminal event of that task
          lease,     \* the process that holds schedule:<id>, if one does
          orphaned,  \* the holder died and the lease has yet to run out
          proc,      \* proc[p]: what process p of a controller is doing
          catchup,   \* the catch-up epoch
          notify,    \* schedule edits whose next_fire_at is yet to be computed
          disturbed

vars == <<now, sched, fire, task, event, lease, orphaned, proc, catchup, notify,
          disturbed>>
ledger == <<sched, fire>>

(* A lost lease lets one more controller fire ahead of the clock.          *)
Horizon == MaxTime + Backoff + (Cardinality(Controller) + 1) * Period
Recurring(t) == [kind |-> "recurring", at |-> t]
Manual(i) == [kind |-> "manual", at |-> i]
ManualFire == {Manual(i) : i \in 1 .. MaxDisturbed}
Fire == {Recurring(t) : t \in 1 .. Horizon} \cup ManualFire

Proc == Controller \X {"timer", "trigger"}
Timer(c) == <<c, "timer">>
Trigger(c) == <<c, "trigger">>

(* The row of an enabled schedule without a reason, of one that was turned *)
(* off by its failures, or by its owner; next is 0 for no next_fire_at.    *)
Schedule == [enabled : BOOLEAN, reason : {"none", "auto", "user"},
             next : 0 .. Horizon, errors : Nat]
(* linked: task_id is set; terminal: last_error records a task's result.   *)
FireRow == [status : {"absent", "claimed", "dispatched", "skipped", "failed"},
            linked : BOOLEAN, terminal : BOOLEAN]
NoFire == [status |-> "absent", linked |-> FALSE, terminal |-> FALSE]

Terminal == {"completed", "failed", "cancelled"}
TaskStatus == {"absent", "draft", "active", "paused"} \cup Terminal
NoEvent == [pc |-> "none", next |-> 0]

(* A process at rest; and while it fires: the fire it claimed, the error   *)
(* count it read, and where it goes once it has released the lease.        *)
Idle == [pc |-> "idle", at |-> 0, errors |-> 0, then |-> "idle",
         orig |-> 0, left |-> 0, epoch |-> 0, resume |-> FALSE]
Boot == [Idle EXCEPT !.pc = "boot"]

NextFire(t) == ((t \div Period) + 1) * Period

Holds(p) == p \in lease
MayAcquire(p) == ~orphaned /\ \A q \in lease : q[1] = p[1]
At(p, pc) == proc[p].pc = pc
Goto(p, pc) == proc' = [proc EXCEPT ![p].pc = pc]

(* A manual trigger brings a process of its own and counts twice, its      *)
(* failing submission included.                                            *)
Weight(k) == IF k = "trigger" THEN 2 ELSE 1
Disturb(k) ==
    /\ k \in Disturbance
    /\ disturbed + Weight(k) <= MaxDisturbed
    /\ disturbed' = disturbed + Weight(k)
SubmitFails(p) ==
    IF p[2] = "timer" THEN Disturb("submit")
    ELSE "submit" \in Disturbance /\ UNCHANGED disturbed

Init ==
    /\ now = StartTime
    /\ sched = [enabled |-> TRUE, reason |-> "none", next |-> Period, errors |-> 0]
    /\ fire = [f \in Fire |-> NoFire]
    /\ task = [f \in Fire |-> "absent"]
    /\ event = [f \in Fire |-> NoEvent]
    /\ lease = {} /\ orphaned = FALSE
    /\ proc = [p \in Proc |-> IF p \in {Timer(c) : c \in Starting} THEN Boot ELSE Idle]
    /\ catchup = [status |-> "completed", cutoff |-> 0, budget |-> 0, by |-> {},
                  dead |-> FALSE, epoch |-> 0, caught |-> {}]
    /\ notify = 0
    /\ disturbed = 0

-----------------------------------------------------------------------------
(* Firing what is due.                                                     *)

Due(t) == sched.enabled /\ sched.next \in 1 .. t

(* _tick: the listing of due schedules says only which to try.             *)
Tick(c) ==
    /\ At(Timer(c), "idle") /\ catchup.status # "active"
    /\ Due(now)
    /\ Goto(Timer(c), "due")
    /\ UNCHANGED <<now, ledger, task, event, lease, orphaned, catchup, notify, disturbed>>

(* acquire; the same owner may acquire again, and fences its own process.  *)
AcquireWithoutFence(p) ==
    /\ At(p, "due")
    /\ IF MayAcquire(p)
       THEN lease' = lease \cup {p} /\ Goto(p, IF p[2] = "timer" THEN "fetch" ELSE "reserve")
       ELSE Goto(p, proc[p].then) /\ UNCHANGED lease
    /\ UNCHANGED <<now, ledger, task, event, orphaned, catchup, notify, disturbed>>

Acquire(p) ==
    /\ At(p, "due")
    /\ IF MayAcquire(p)
       THEN lease' = {p} /\ Goto(p, IF p[2] = "timer" THEN "fetch" ELSE "reserve")
       ELSE Goto(p, proc[p].then) /\ UNCHANGED lease
    /\ UNCHANGED <<now, ledger, task, event, orphaned, catchup, notify, disturbed>>

(* get_schedule: whichever occurrence is next by now.                      *)
Fetch(p) ==
    /\ At(p, "fetch") \/ At(p, "reread")
    /\ IF ~sched.enabled THEN Goto(p, "release")
       ELSE IF sched.next = 0 THEN Goto(p, IF At(p, "fetch") THEN "assign" ELSE "release")
       ELSE proc' = [proc EXCEPT ![p].pc = "claim", ![p].at = sched.next]
    /\ UNCHANGED <<now, ledger, task, event, lease, orphaned, catchup, notify, disturbed>>

(* An enabled schedule without an occurrence fires now, or when it is said *)
(* to by the time it is read again.                                        *)
AssignNext(p) ==
    /\ At(p, "assign")
    /\ sched' = [sched EXCEPT !.next = now]
    /\ Goto(p, IF sched.enabled THEN "reread" ELSE "release")
    /\ UNCHANGED <<now, fire, task, event, lease, orphaned, catchup, notify, disturbed>>

Mine(p) == Recurring(proc[p].at)
Claimable(p) == Holds(p) /\ sched.enabled /\ sched.next = proc[p].at

ClaimRefused(p) ==
    /\ At(p, "claim") /\ ~Claimable(p)
    /\ Goto(p, "release")
    /\ UNCHANGED <<now, ledger, task, event, lease, orphaned, catchup, notify, disturbed>>

(* The fire was settled and the schedule has yet to move on.               *)
ClaimSettled(p) ==
    /\ At(p, "claim") /\ Claimable(p)
    /\ fire[Mine(p)].status \in {"dispatched", "skipped"}
    /\ proc' = [proc EXCEPT ![p].pc = "advance", ![p].errors = sched.errors]
    /\ UNCHANGED <<now, ledger, task, event, lease, orphaned, catchup, notify, disturbed>>

(* An earlier claim created the task and did not settle the fire.          *)
ClaimAgainRefused(p) ==
    /\ At(p, "claim") /\ Claimable(p)
    /\ fire[Mine(p)].status \notin {"dispatched", "skipped"} /\ task[Mine(p)] # "absent"
    /\ Goto(p, "release")
    /\ UNCHANGED <<now, ledger, task, event, lease, orphaned, catchup, notify, disturbed>>

ClaimAgain(p) ==
    /\ At(p, "claim") /\ Claimable(p)
    /\ fire[Mine(p)].status \notin {"dispatched", "skipped"} /\ task[Mine(p)] # "absent"
    /\ fire' = [fire EXCEPT ![Mine(p)] = [status |-> "claimed", linked |-> TRUE,
                                          terminal |-> FALSE]]
    /\ proc' = [proc EXCEPT ![p].pc = "submit", ![p].errors = sched.errors]
    /\ UNCHANGED <<now, sched, task, event, lease, orphaned, catchup, notify, disturbed>>

Replaced == {f \in Fire : FailPaused /\ task[f] = "paused"}
ActiveAfter == {f \in Fire : task[f] \in {"active", "paused"}} \ Replaced

(* Paused tasks of the schedule are failed and counted before the          *)
(* concurrency limit is examined.                                          *)
ClaimFresh(p) ==
    /\ At(p, "claim") /\ Claimable(p)
    /\ fire[Mine(p)].status \notin {"dispatched", "skipped"} /\ task[Mine(p)] = "absent"
    /\ LET errors == sched.errors + Cardinality(Replaced)
           off == Replaced # {} /\ errors >= MaxErrors
           full == Cardinality(ActiveAfter) >= MaxConcurrent
       IN /\ task' = [f \in Fire |-> IF f \in Replaced THEN "failed" ELSE task[f]]
          /\ sched' = IF off THEN [enabled |-> FALSE, reason |-> "auto", next |-> 0,
                                   errors |-> errors]
                      ELSE [sched EXCEPT !.errors = errors]
          /\ fire' = [f \in Fire |->
                        IF f = Mine(p)
                        THEN [status |-> IF full THEN "skipped" ELSE "claimed",
                              linked |-> fire[f].linked,
                              terminal |-> full /\ fire[f].terminal]
                        ELSE IF f \in Replaced /\ fire[f].linked
                        THEN [fire[f] EXCEPT !.status = IF fire[f].terminal THEN @ ELSE "failed",
                                             !.terminal = TRUE]
                        ELSE fire[f]]
          /\ proc' = [proc EXCEPT ![p].errors = errors,
                        ![p].pc = IF Replaced # {} THEN "recheck"
                                  ELSE IF full THEN "advance" ELSE "submit"]
    /\ catchup' = [catchup EXCEPT !.caught =
                     IF proc[p].then = "fired" /\ Cardinality(ActiveAfter) < MaxConcurrent
                     THEN @ \cup {<<proc[p].epoch, proc[p].at>>} ELSE @]
    /\ UNCHANGED <<now, event, lease, orphaned, notify, disturbed>>

(* After it replaced a task, the process asks if the schedule is still on. *)
Recheck(p) ==
    /\ At(p, "recheck")
    /\ Goto(p, IF ~sched.enabled THEN "release"
               ELSE IF fire[Mine(p)].status = "skipped" THEN "advance" ELSE "submit")
    /\ UNCHANGED <<now, ledger, task, event, lease, orphaned, catchup, notify, disturbed>>

KeyOf(p) == IF p[2] = "timer" THEN Mine(p) ELSE Manual(proc[p].at)
Created(p) == [task EXCEPT ![KeyOf(p)] = IF @ # "absent" THEN @
                                         ELSE IF p[2] = "timer" THEN "active" ELSE "draft"]
AfterSubmit(p) == IF p[2] = "timer" THEN "mark" ELSE "link"

(* _dispatch_claimed_fire under the task id of the fire: a task that       *)
(* exists is taken as it is.                                               *)
Submit(p) ==
    /\ At(p, "submit")
    /\ task' = Created(p)
    /\ Goto(p, AfterSubmit(p))
    /\ UNCHANGED <<now, ledger, event, lease, orphaned, catchup, notify, disturbed>>

(* The renewal loop noticed that the lease is gone.                        *)
LeaseLost(p) ==
    /\ At(p, "submit") /\ ~Holds(p) /\ task[KeyOf(p)] = "absent"
    /\ Goto(p, "release")
    /\ UNCHANGED <<now, ledger, task, event, lease, orphaned, catchup, notify, disturbed>>

(* The submission raises, before or after the task was committed.          *)
SubmitErrorIgnored(p) ==
    /\ At(p, "submit") /\ SubmitFails(p)
    /\ \/ UNCHANGED task
       \/ task' = Created(p)
    /\ Goto(p, AfterSubmit(p))
    /\ UNCHANGED <<now, ledger, event, lease, orphaned, catchup, notify>>

SubmitError(p) ==
    /\ At(p, "submit") /\ SubmitFails(p)
    /\ \/ UNCHANGED task
       \/ task' = Created(p)
    /\ Goto(p, "error")
    /\ UNCHANGED <<now, ledger, event, lease, orphaned, catchup, notify>>

(* mark_dispatched.                                                        *)
MarkDispatched(p) ==
    /\ At(p, "mark")
    /\ IF Holds(p) /\ fire[Mine(p)].status = "claimed"
       THEN /\ fire' = [fire EXCEPT ![Mine(p)].status = "dispatched", ![Mine(p)].linked = TRUE]
            /\ Goto(p, "advance")
       ELSE Goto(p, "release") /\ UNCHANGED fire
    /\ UNCHANGED <<now, sched, task, event, lease, orphaned, catchup, notify, disturbed>>

(* advance_schedule writes back the error count of the claim.              *)
Advance(p) ==
    /\ At(p, "advance")
    /\ sched' = IF Holds(p) /\ sched.next = proc[p].at
                THEN [sched EXCEPT !.next = NextFire(proc[p].at), !.errors = proc[p].errors]
                ELSE sched
    /\ Goto(p, "release")
    /\ UNCHANGED <<now, fire, task, event, lease, orphaned, catchup, notify, disturbed>>

(* mark_failed: all of it, or nothing if the schedule has moved on.        *)
MarkFailedScheduleOnly(p) ==
    /\ At(p, "error") /\ p[2] = "timer"
    /\ LET errors == proc[p].errors + 1
           off == errors >= MaxErrors
       IN IF Claimable(p)
          THEN /\ sched' = [enabled |-> ~off, reason |-> IF off THEN "auto" ELSE "none",
                            next |-> IF off THEN 0 ELSE now + Backoff, errors |-> errors]
               /\ UNCHANGED fire
          ELSE UNCHANGED ledger
    /\ Goto(p, "release")
    /\ UNCHANGED <<now, task, event, lease, orphaned, catchup, notify, disturbed>>

MarkFailed(p) ==
    /\ At(p, "error") /\ p[2] = "timer"
    /\ LET errors == proc[p].errors + 1
           off == errors >= MaxErrors
       IN IF Claimable(p)
          THEN /\ sched' = [enabled |-> ~off, reason |-> IF off THEN "auto" ELSE "none",
                            next |-> IF off THEN 0 ELSE now + Backoff, errors |-> errors]
               /\ fire' = [fire EXCEPT ![Mine(p)] =
                             IF @.status = "claimed"
                             THEN [@ EXCEPT !.status = "failed", !.terminal = FALSE] ELSE @]
          ELSE UNCHANGED ledger
    /\ Goto(p, "release")
    /\ UNCHANGED <<now, task, event, lease, orphaned, catchup, notify, disturbed>>

(* release, and back to the timer loop or the catch-up.                    *)
Release(p) ==
    /\ At(p, "release")
    /\ lease' = lease \ {p}
    /\ proc' = [proc EXCEPT ![p] = IF proc[p].then = "idle" THEN Idle
                                   ELSE [@ EXCEPT !.pc = proc[p].then, !.at = 0, !.errors = 0]]
    /\ UNCHANGED <<now, ledger, task, event, orphaned, catchup, notify, disturbed>>

-----------------------------------------------------------------------------
(* Manual fires.                                                           *)

Pending == {f \in ManualFire : fire[f].status = "claimed"}
Unused == {f \in ManualFire : fire[f].status = "absent"}

(* A user who sees a manual fire pending tries again; this is free of the  *)
(* bound on disturbances but waits for a quiet moment.                     *)
TriggerNow(c) ==
    /\ At(Trigger(c), "idle")
    /\ \/ Disturb("trigger")
       \/ /\ "trigger" \in Disturbance /\ Pending # {} /\ Unused # {}
          /\ \A p \in Proc : At(p, "idle")
          /\ UNCHANGED disturbed
    /\ Goto(Trigger(c), "due")
    /\ UNCHANGED <<now, ledger, task, event, lease, orphaned, catchup, notify>>

(* claim_manual: a pending manual fire is taken up again as it is.  A      *)
(* draft does not count as active.                                         *)
ClaimManual(p) ==
    LET full == Cardinality({f \in Fire : task[f] \in {"active", "paused"}}) >= MaxConcurrent
        refused == ~Holds(p) \/ ~(sched.enabled \/ sched.reason = "auto")
    IN
    /\ At(p, "reserve")
    /\ \/ refused /\ Goto(p, "release") /\ UNCHANGED fire
       \/ /\ ~refused
          /\ \E f \in Pending :
                /\ \A g \in Pending : g.at <= f.at
                /\ fire' = [fire EXCEPT ![f].terminal = FALSE]
                /\ proc' = [proc EXCEPT ![p].pc = "submit", ![p].at = f.at]
       \/ /\ ~refused /\ Pending = {}
          /\ \E f \in Unused :
                /\ \A g \in Unused : f.at <= g.at
                /\ fire' = [fire EXCEPT ![f].status = IF full THEN "skipped" ELSE "claimed"]
                /\ proc' = [proc EXCEPT ![p].pc = IF full THEN "release" ELSE "submit",
                                        ![p].at = f.at]
    /\ UNCHANGED <<now, sched, task, event, lease, orphaned, catchup, notify, disturbed>>

(* link_manual_task, while the task is a draft.                            *)
LinkManual(p) ==
    /\ At(p, "link")
    /\ IF Holds(p) /\ fire[KeyOf(p)].status = "claimed"
       THEN /\ fire' = [fire EXCEPT ![KeyOf(p)].linked = TRUE]
            /\ Goto(p, "activate")
       ELSE Goto(p, "release") /\ UNCHANGED fire
    /\ UNCHANGED <<now, sched, task, event, lease, orphaned, catchup, notify, disturbed>>

(* _activate_manual_task.                                                  *)
Activate(p) ==
    /\ At(p, "activate")
    /\ task' = [task EXCEPT ![KeyOf(p)] = IF @ = "draft" THEN "active" ELSE @]
    /\ Goto(p, "settle")
    /\ UNCHANGED <<now, ledger, event, lease, orphaned, catchup, notify, disturbed>>

(* settle_manual_dispatched.                                               *)
SettleManual(p) ==
    /\ At(p, "settle")
    /\ fire' = IF Holds(p) /\ fire[KeyOf(p)].status = "claimed"
               THEN [fire EXCEPT ![KeyOf(p)].status = "dispatched"] ELSE fire
    /\ Goto(p, "release")
    /\ UNCHANGED <<now, sched, task, event, lease, orphaned, catchup, notify, disturbed>>

(* mark_manual_failed, unless the task was committed.                      *)
MarkManualFailed(p) ==
    /\ At(p, "error") /\ p[2] = "trigger"
    /\ fire' = [fire EXCEPT ![KeyOf(p)] =
                  IF task[KeyOf(p)] = "absent" /\ Holds(p) /\ @.status = "claimed"
                  THEN [@ EXCEPT !.status = "failed", !.terminal = FALSE] ELSE @]
    /\ Goto(p, "release")
    /\ UNCHANGED <<now, sched, task, event, lease, orphaned, catchup, notify, disturbed>>

-----------------------------------------------------------------------------
(* Tasks and their results.                                                *)

(* The task ends and its controller publishes the terminal event.          *)
TaskEnds(f, s) ==
    /\ task[f] = "active" \/ (task[f] = "paused" /\ s = "cancelled")
    /\ CASE s = "failed" -> Disturb("fail")
         [] s = "cancelled" -> Disturb("cancel")
         [] s = "completed" -> UNCHANGED disturbed
    /\ task' = [task EXCEPT ![f] = s]
    /\ event' = [event EXCEPT ![f].pc = "published"]
    /\ UNCHANGED <<now, ledger, lease, orphaned, proc, catchup, notify>>

TaskPauses(f) ==
    /\ Disturb("pause")
    /\ task[f] = "active"
    /\ task' = [task EXCEPT ![f] = "paused"]
    /\ UNCHANGED <<now, ledger, event, lease, orphaned, proc, catchup, notify>>

TaskResumes(f) ==
    /\ "resume" \in Disturbance
    /\ task[f] = "paused"
    /\ task' = [task EXCEPT ![f] = "active"]
    /\ UNCHANGED <<now, ledger, event, lease, orphaned, proc, catchup, notify, disturbed>>

(* _handle_task_terminal_event reads the schedule, and computes from that  *)
(* when a failed task is retried.                                          *)
ReadResult(f) ==
    /\ event[f].pc = "published"
    /\ event' = [event EXCEPT ![f] = [pc |-> "read",
                   next |-> IF RetryFailed /\ task[f] = "failed"
                                 /\ f.kind = "recurring" /\ sched.errors + 1 < MaxErrors
                            THEN now + Backoff ELSE sched.next]]
    /\ UNCHANGED <<now, ledger, task, lease, orphaned, proc, catchup, notify, disturbed>>

(* project_recurring_terminal_result and project_manual_terminal_result: a *)
(* fire that is not linked yet has no row to project on.                   *)
ProjectResult(f) ==
    /\ event[f].pc = "read"
    /\ event' = [event EXCEPT ![f] = [pc |-> "done", next |-> 0]]
    /\ IF ~fire[f].linked \/ fire[f].terminal THEN UNCHANGED ledger
       ELSE LET failed == task[f] = "failed"
                errors == IF failed THEN sched.errors + 1 ELSE 0
                off == failed /\ errors >= MaxErrors /\ (sched.enabled \/ sched.reason = "auto")
                dispatched == \/ task[f] = "completed"
                              \/ task[f] = "cancelled" /\ f.kind = "recurring"
            IN /\ fire' = [fire EXCEPT ![f].terminal = TRUE,
                             ![f].status = IF dispatched THEN "dispatched" ELSE "failed"]
               /\ sched' = IF off THEN [enabled |-> FALSE, reason |-> "auto", next |-> 0,
                                        errors |-> errors]
                           ELSE [sched EXCEPT !.errors = errors,
                                   !.next = IF failed /\ f.kind = "recurring" /\ sched.enabled
                                            THEN event[f].next ELSE @]
    /\ UNCHANGED <<now, task, lease, orphaned, proc, catchup, notify, disturbed>>

-----------------------------------------------------------------------------
(* The owner turns the schedule off and on; notify_schedule_changed        *)
(* computes the next occurrence in a second transaction.                   *)

Disable ==
    /\ Disturb("disable")
    /\ sched' = [sched EXCEPT !.enabled = FALSE, !.reason = "user"]
    /\ notify' = notify + 1
    /\ UNCHANGED <<now, fire, task, event, lease, orphaned, proc, catchup>>

Enable ==
    /\ Disturb("enable")
    /\ sched' = [sched EXCEPT !.enabled = TRUE, !.reason = "none", !.errors = 0]
    /\ notify' = notify + 1
    /\ UNCHANGED <<now, fire, task, event, lease, orphaned, proc, catchup>>

NotifyChanged ==
    /\ notify > 0
    /\ sched' = [sched EXCEPT !.next = IF sched.enabled THEN NextFire(now) ELSE 0]
    /\ notify' = notify - 1
    /\ UNCHANGED <<now, fire, task, event, lease, orphaned, proc, catchup, disturbed>>

-----------------------------------------------------------------------------
(* Catching up on start.                                                   *)

MayCatchUp(c) == ~catchup.dead /\ catchup.by \subseteq {c}
Catches(c) == c \in catchup.by
AtTimer(c, pc) == At(Timer(c), pc)
GotoTimer(c, pc) == Goto(Timer(c), pc)

(* _initialise_next_fire_times.                                            *)
Start(c) ==
    /\ AtTimer(c, "boot")
    /\ sched' = IF sched.enabled /\ sched.next = 0
                THEN [sched EXCEPT !.next = NextFire(now)] ELSE sched
    /\ GotoTimer(c, "wait")
    /\ UNCHANGED <<now, fire, task, event, lease, orphaned, catchup, notify, disturbed>>

(* A tick leaves the due schedules to a catch-up that is under way.        *)
Join(c) ==
    /\ AtTimer(c, "idle") /\ catchup.status = "active"
    /\ proc' = [proc EXCEPT ![Timer(c)].pc = "wait", ![Timer(c)].resume = TRUE]
    /\ UNCHANGED <<now, ledger, task, event, lease, orphaned, catchup, notify, disturbed>>

AcquireCatchup(c) ==
    /\ AtTimer(c, "wait") /\ MayCatchUp(c)
    /\ catchup' = [catchup EXCEPT !.by = {c}]
    /\ GotoTimer(c, "prepare")
    /\ UNCHANGED <<now, ledger, task, event, lease, orphaned, notify, disturbed>>

(* prepare_catchup: start an epoch, or continue one a dead owner left.     *)
PrepareAnew(c) ==
    /\ AtTimer(c, "prepare")
    /\ IF Catches(c) /\ (catchup.status # "completed" \/ ~proc[Timer(c)].resume)
       THEN /\ catchup' = [catchup EXCEPT !.status = "active", !.cutoff = now,
                  !.budget = MaxMissed,
                  !.epoch = IF catchup.status = "active" THEN @ ELSE @ + 1]
            /\ proc' = [proc EXCEPT ![Timer(c)].pc = "scan", ![Timer(c)].left = catchup'.budget,
                                    ![Timer(c)].resume = FALSE]
       ELSE /\ GotoTimer(c, IF catchup.status = "active" THEN "lost" ELSE "leave")
            /\ UNCHANGED catchup
    /\ UNCHANGED <<now, ledger, task, event, lease, orphaned, notify, disturbed>>

Prepare(c) ==
    /\ AtTimer(c, "prepare")
    /\ IF Catches(c) /\ (catchup.status # "completed" \/ ~proc[Timer(c)].resume)
       THEN /\ catchup' = IF catchup.status = "active" THEN catchup
                          ELSE [catchup EXCEPT !.status = "active", !.cutoff = now,
                                  !.budget = MaxMissed, !.epoch = @ + 1]
            /\ proc' = [proc EXCEPT ![Timer(c)].pc = "scan", ![Timer(c)].left = catchup'.budget,
                                    ![Timer(c)].resume = FALSE]
       ELSE /\ GotoTimer(c, IF catchup.status = "active" THEN "lost" ELSE "leave")
            /\ UNCHANGED catchup
    /\ UNCHANGED <<now, ledger, task, event, lease, orphaned, notify, disturbed>>

(* The loop over what was due at the cutoff, while the budget lasts.       *)
Scan(c) ==
    /\ AtTimer(c, "scan")
    /\ IF proc[Timer(c)].left > 0 /\ Due(catchup.cutoff)
       THEN proc' = [proc EXCEPT ![Timer(c)].pc = "book", ![Timer(c)].orig = sched.next]
       ELSE GotoTimer(c, "backlog")
    /\ UNCHANGED <<now, ledger, task, event, lease, orphaned, catchup, notify, disturbed>>

(* reserve_catchup_fire, then _fire_schedule.                              *)
Reserve(c) ==
    /\ AtTimer(c, "book")
    /\ IF Catches(c) /\ catchup.status = "active" /\ catchup.budget > 0
       THEN /\ catchup' = [catchup EXCEPT !.budget = @ - 1]
            /\ proc' = [proc EXCEPT ![Timer(c)] =
                          [@ EXCEPT !.pc = "due", !.then = "fired", !.left = catchup.budget - 1,
                                    !.epoch = catchup.epoch]]
       ELSE GotoTimer(c, "lost") /\ UNCHANGED catchup
    /\ UNCHANGED <<now, ledger, task, event, lease, orphaned, notify, disturbed>>

(* An occurrence that did not move gives its reservation back.             *)
Fired(c) ==
    /\ AtTimer(c, "fired")
    /\ proc' = [proc EXCEPT ![Timer(c)] =
                  [@ EXCEPT !.then = "idle", !.orig = 0, !.epoch = 0,
                            !.pc = IF sched.enabled /\ sched.next = proc[Timer(c)].orig
                                   THEN "restore" ELSE "scan"]]
    /\ UNCHANGED <<now, ledger, task, event, lease, orphaned, catchup, notify, disturbed>>

Restore(c) ==
    /\ AtTimer(c, "restore")
    /\ IF Catches(c) /\ catchup.status = "active"
       THEN /\ catchup' = [catchup EXCEPT !.budget = @ + 1]
            /\ proc' = [proc EXCEPT ![Timer(c)].pc = "scan",
                                    ![Timer(c)].left = catchup.budget + 1]
       ELSE GotoTimer(c, "lost") /\ UNCHANGED catchup
    /\ UNCHANGED <<now, ledger, task, event, lease, orphaned, notify, disturbed>>

(* What is still due is skipped; a contended schedule is tried again.      *)
Backlog(c) ==
    /\ AtTimer(c, "backlog")
    /\ IF ~Due(now) THEN GotoTimer(c, "complete") /\ UNCHANGED lease
       ELSE /\ MayAcquire(Timer(c))
            /\ lease' = {Timer(c)}
            /\ GotoTimer(c, "skip")
    /\ UNCHANGED <<now, ledger, task, event, orphaned, catchup, notify, disturbed>>

(* _skip_missed_backlog reads the schedule ...                             *)
SkipRead(c) ==
    /\ AtTimer(c, "skip")
    /\ proc' = [proc EXCEPT ![Timer(c)] =
                  IF Due(now) THEN [@ EXCEPT !.pc = "jump", !.at = sched.next,
                                             !.errors = sched.errors]
                  ELSE [@ EXCEPT !.pc = "release", !.then = "complete"]]
    /\ UNCHANGED <<now, ledger, task, event, lease, orphaned, catchup, notify, disturbed>>

(* ... and moves it to its first future occurrence.                        *)
SkipMissed(c) ==
    /\ AtTimer(c, "jump")
    /\ sched' = IF Holds(Timer(c)) /\ sched.next = proc[Timer(c)].at
                THEN [sched EXCEPT !.next = NextFire(now), !.errors = proc[Timer(c)].errors]
                ELSE sched
    /\ proc' = [proc EXCEPT ![Timer(c)] =
                  [@ EXCEPT !.pc = "release",
                            !.then = IF sched'.enabled /\ sched'.next \in 1 .. now
                                     THEN "backlog" ELSE "complete"]]
    /\ UNCHANGED <<now, fire, task, event, lease, orphaned, catchup, notify, disturbed>>

(* complete_catchup.                                                       *)
CompleteCatchup(c) ==
    /\ AtTimer(c, "complete")
    /\ IF Catches(c) /\ catchup.status = "active"
       THEN catchup' = [catchup EXCEPT !.status = "completed"] /\ GotoTimer(c, "leave")
       ELSE GotoTimer(c, "lost") /\ UNCHANGED catchup
    /\ UNCHANGED <<now, ledger, task, event, lease, orphaned, notify, disturbed>>

(* The lease is released; one that was lost makes the controller join.     *)
LeaveCatchup(c) ==
    /\ AtTimer(c, "leave") \/ AtTimer(c, "lost")
    /\ catchup' = [catchup EXCEPT !.by = @ \ {c}]
    /\ proc' = [proc EXCEPT ![Timer(c)] =
                  IF AtTimer(c, "leave") THEN Idle
                  ELSE [Idle EXCEPT !.pc = "wait", !.resume = TRUE]]
    /\ UNCHANGED <<now, ledger, task, event, lease, orphaned, notify, disturbed>>

-----------------------------------------------------------------------------
(* The clock and the faults.                                               *)

Clock ==
    /\ now < MaxTime /\ now' = now + 1
    /\ UNCHANGED <<ledger, task, event, lease, orphaned, proc, catchup, notify, disturbed>>

(* A controller dies with the events it has in hand and starts again.      *)
Crash(c) ==
    /\ Disturb("crash")
    /\ proc' = [proc EXCEPT ![Timer(c)] = Boot, ![Trigger(c)] = Idle]
    /\ lease' = {p \in lease : p[1] # c}
    /\ orphaned' = (orphaned \/ lease' # lease)
    /\ catchup' = [catchup EXCEPT !.by = @ \ {c}, !.dead = @ \/ c \in catchup.by]
    /\ \E lost \in SUBSET {f \in Fire : event[f].pc \in {"published", "read"}} :
         event' = [f \in Fire |-> IF f \in lost THEN [pc |-> "done", next |-> 0] ELSE event[f]]
    /\ UNCHANGED <<now, ledger, task, notify>>

(* A lease nobody renews runs out; or one whose renewals fail.             *)
Lapse ==
    /\ orphaned \/ catchup.dead
    /\ orphaned' = FALSE /\ catchup' = [catchup EXCEPT !.dead = FALSE]
    /\ UNCHANGED <<now, ledger, task, event, lease, proc, notify, disturbed>>

Expire ==
    /\ Disturb("expire") /\ lease # {}
    /\ lease' = {}
    /\ UNCHANGED <<now, ledger, task, event, orphaned, proc, catchup, notify>>

ExpireCatchup ==
    /\ Disturb("expire catch-up") /\ catchup.by # {}
    /\ catchup' = [catchup EXCEPT !.by = {}]
    /\ UNCHANGED <<now, ledger, task, event, lease, orphaned, proc, notify>>

FireStep(p) ==
    \/ Acquire(p) \/ Fetch(p) \/ AssignNext(p)
    \/ ClaimRefused(p) \/ ClaimSettled(p) \/ ClaimAgain(p) \/ ClaimFresh(p) \/ Recheck(p)
    \/ Submit(p) \/ LeaseLost(p)
    \/ MarkDispatched(p) \/ Advance(p) \/ MarkFailed(p) \/ Release(p)
    \/ ClaimManual(p) \/ LinkManual(p) \/ Activate(p) \/ SettleManual(p) \/ MarkManualFailed(p)

TimerStep(c) ==
    \/ Tick(c) \/ FireStep(Timer(c))
    \/ Start(c) \/ Join(c) \/ AcquireCatchup(c) \/ Prepare(c) \/ Scan(c) \/ Reserve(c)
    \/ Fired(c) \/ Restore(c) \/ Backlog(c) \/ SkipRead(c) \/ SkipMissed(c)
    \/ CompleteCatchup(c) \/ LeaveCatchup(c)

Next ==
    \/ \E c \in Controller : TimerStep(c) \/ FireStep(Trigger(c)) \/ TriggerNow(c) \/ Crash(c)
    \/ \E p \in Proc : SubmitError(p)
    \/ \E f \in Fire : \/ \E s \in Terminal : TaskEnds(f, s)
                       \/ TaskPauses(f) \/ TaskResumes(f) \/ ReadResult(f) \/ ProjectResult(f)
    \/ Disable \/ Enable \/ NotifyChanged
    \/ Clock \/ Lapse \/ Expire \/ ExpireCatchup

Spec == Init /\ [][Next]_vars

(* Every controller keeps running its timer loop and the trigger it        *)
(* accepted, and the database expires leases.                              *)
FairSpec ==
    /\ Spec
    /\ \A c \in Controller : WF_vars(TimerStep(c)) /\ WF_vars(FireStep(Trigger(c)))
    /\ WF_vars(Lapse)

TypeOK ==
    /\ now \in 0 .. MaxTime
    /\ sched \in Schedule
    /\ fire \in [Fire -> FireRow] /\ task \in [Fire -> TaskStatus]
    /\ lease \in SUBSET Proc /\ Cardinality(lease) <= 1 /\ orphaned \in BOOLEAN
    /\ catchup.budget \in 0 .. MaxMissed /\ catchup.by \in SUBSET Controller

(* A fire is recorded as dispatched only once its task exists, so a crash  *)
(* between the two never loses an occurrence (mark_dispatched runs after   *)
(* the submission).                                                        *)
DispatchedHasTask == \A f \in Fire : fire[f].status = "dispatched" => task[f] # "absent"

(* No occurrence is passed over in silence: the schedule moves on only     *)
(* once the occurrence has a task, was skipped for max_concurrent_runs or  *)
(* failed, unless its owner edits it, a catch-up gives up the backlog, a   *)
(* failed task delays the next run or a schedule without an occurrence is  *)
(* given one (advance_schedule, mark_failed).                              *)
NoOccurrenceLost ==
    [][\A t \in 1 .. Horizon : sched.next = t /\ sched'.next > t
         => \/ task[Recurring(t)] # "absent"
            \/ fire'[Recurring(t)].status \in {"skipped", "failed"}
            \/ notify' # notify
            \/ \E c \in Controller : AtTimer(c, "jump") /\ ~AtTimer(c, "jump")'
            \/ \E f \in Fire : event[f].pc = "read" /\ event'[f].pc = "done"
            \/ \E p \in Proc : At(p, "assign") /\ ~At(p, "assign")']_vars

(* However controllers die and take over, one catch-up epoch starts no     *)
(* more runs than max_missed_on_startup.                                   *)
CatchupBounded ==
    \A e \in 1 .. catchup.epoch : Cardinality({x \in catchup.caught : x[1] = e}) <= MaxMissed

(* A due schedule catches up with the clock: some controller settles or    *)
(* skips every occurrence that is due (_fire_schedule), or the schedule is *)
(* turned off.                                                             *)
DueSettles == Due(now) ~> ~Due(now)

(* Tasks are created when schedules become due, never ahead of the clock.  *)
FiresWhenDue == \A t \in 1 .. Horizon : task[Recurring(t)] # "absent" => t <= now
====
