----------------------------- MODULE TaskQueue -----------------------------
(***************************************************************************)
(* Workflow tasks: the queue every controller drains                       *)
(* (cognis/core/task_queue.py), the ownership and capacity leases a run    *)
(* needs (cognis/core/task_execution.py), the workflow run itself          *)
(* (cognis/core/workflow_engine.py) and its questions to the user          *)
(* (cognis/core/agent_loop.py, cognis/core/notifications.py).              *)
(*                                                                         *)
(* Every database transaction and every external call is a step.  A claim  *)
(* acquires its leases under an owner id that is made for it, so a claim   *)
(* is a number, and a lease row is the number of the claim that holds it,  *)
(* 0 once it was released or ran out.                                      *)
(***************************************************************************)
EXTENDS Integers, FiniteSets

CONSTANTS Controller,
          NTasks,       \* tasks, numbered in claim order: by priority, then by age
          Requires,     \* Requires[t]: the required dependencies of t
          AgentOf,      \* AgentOf[t]: the agent that runs t
          MaxGlobal,    \* workflow.max_active_steps_global
          MaxPerAgent,  \* workflow.max_active_steps_per_agent
          NSteps,       \* steps of a workflow
          RequestKind,  \* which requests users make
          MaxRequests,  \* bound: how many of them
          MaxAttempts,  \* bound: attempts of a task, one more than its revisions
          FaultKind,    \* which faults happen
          MaxFaults,    \* bound: how many of them
          MaxClaims     \* bound: how many claims are made

Task == 1 .. NTasks

ASSUME TaskAssumption ==
    /\ NTasks \in Nat
    /\ Requires \in [Task -> SUBSET Task]
    /\ MaxGlobal \in Nat \ {0} /\ MaxPerAgent \in Nat \ {0}
    /\ NSteps \in Nat \ {0}
    /\ MaxRequests \in Nat /\ MaxAttempts \in Nat /\ MaxFaults \in Nat /\ MaxClaims \in Nat
    /\ \A t \in Task : AgentOf[t] # "global"

VARIABLES task,     \* task[t]: the task row
          lease,    \* lease[t]: the claim that holds workflow-task:t
          slot,     \* slot[s]: the claim that holds a capacity slot
          run,      \* run[c][t]: the run of t in controller c
          pending,  \* pending[c]: rows c read and has yet to claim
          asked,    \* submissions whose dependencies are yet to be examined
          called,   \* tool_call events in the history: task, attempt, claim
          sent,     \* those of them that were handed to an executor
          answered, \* those of them with a tool_result event
          claims, requests, faults

vars == <<task, lease, slot, run, pending, asked, called, sent, answered,
          claims, requests, faults>>
leases == <<lease, slot>>
history == <<called, sent, answered>>
counters == <<claims, requests, faults>>

Status == {"draft", "queued", "ready", "running", "paused", "completed", "failed", "cancelled"}

(* workflow_state: the revision it belongs to, the steps done, its version *)
(* and whether it carries a pending pause.                                 *)
Fresh == [rev |-> 1, step |-> 0, ver |-> 0, pause |-> FALSE]
Unpaused(wf) == [wf EXCEPT !.pause = FALSE]
NewVersion(wf) == [wf EXCEPT !.ver = @ + 1]

GlobalSlot == {"global"} \X (1 .. MaxGlobal)
AgentSlot(t) == {AgentOf[t]} \X (1 .. MaxPerAgent)
Slot == GlobalSlot \cup UNION {AgentSlot(t) : t \in Task}

NoRun == [pc |-> "none", claim |-> 0, attempt |-> 0, seen |-> 0, wf |-> Fresh,
          slots |-> {}, stop |-> "no", final |-> "none"]

(* A claim whose run is not launched yet; a run inside the workflow        *)
(* engine; a run whose outcome is committed.                               *)
ClaimPc == {"claimed", "classify", "resuming", "retrying"}
BusyPc == {"working", "step", "recorded", "calling", "persist"}
AskPc == {"suspend", "asking", "clearing"}
EndPc == {"deliver", "report", "resolve"}
RunPc == {"launch"} \cup BusyPc \cup AskPc \cup EndPc

Init ==
    /\ task = [t \in Task |-> [status |-> "draft", attempt |-> 1, wf |-> Fresh,
                               due |-> TRUE, stepRun |-> FALSE, base |-> 0]]
    /\ lease = [t \in Task |-> 0]
    /\ slot = [s \in Slot |-> 0]
    /\ run = [c \in Controller |-> [t \in Task |-> NoRun]]
    /\ pending = [c \in Controller |-> {}]
    /\ asked = {}
    /\ called = {} /\ sent = {} /\ answered = {}
    /\ claims = 0 /\ requests = 0 /\ faults = 0

Request(kind) ==
    /\ kind \in RequestKind
    /\ requests < MaxRequests
    /\ requests' = requests + 1

Fault(kind) ==
    /\ kind \in FaultKind
    /\ faults < MaxFaults
    /\ faults' = faults + 1

At(c, t, labels) == run[c][t].pc \in labels
Goto(c, t, l) == run' = [run EXCEPT ![c][t].pc = l]
Leave(c, t) == run' = [run EXCEPT ![c][t] = [NoRun EXCEPT !.pc = "close",
                         !.claim = run[c][t].claim, !.stop = run[c][t].stop]]
Launched(c, t) == At(c, t, RunPc \cup {"close"})

Listed == {"running", "paused"}

-----------------------------------------------------------------------------
(* update_task_status: a compare-and-swap on the transition table.         *)

MoveAnyway(row, s) == [row EXCEPT !.status = s]

AllowedFrom(s) ==
    {k \in Status : \/ k = "draft" /\ s \in {"queued", "cancelled"}
                    \/ k = "queued" /\ s \in {"ready", "cancelled"}
                    \/ k = "ready" /\ s \in {"running", "cancelled"}
                    \/ k = "running" /\ s \in {"queued", "paused", "completed", "failed",
                                                "cancelled"}
                    \/ k = "paused" /\ s \in {"queued", "running", "cancelled"}
                    \/ k = "failed" /\ s = "running"}

Move(row, s) ==
    IF row.status \in AllowedFrom(s) THEN [row EXCEPT !.status = s] ELSE row

(* get_unmet_dependencies with required_only.                              *)
Met(t) == \A d \in Requires[t] : task[d].status = "completed"

-----------------------------------------------------------------------------
(* Claims: _acquire_in_session and _acquire_capacity for the task and for  *)
(* the first free slot of both kinds, in one transaction.                  *)

FirstFree(S) == {s \in S : slot[s] = 0 /\ \A q \in S : slot[q] = 0 => s[2] <= q[2]}
FreeSlots(t) == FirstFree(GlobalSlot) \cup FirstFree(AgentSlot(t))
HasCapacity(t) == FirstFree(GlobalSlot) # {} /\ FirstFree(AgentSlot(t)) # {}

Claimable(t) == lease[t] = 0 /\ HasCapacity(t) /\ claims < MaxClaims

(* _launch_claimed_task_run gives the claim back when a run of the task is *)
(* still active here.                                                      *)
Claim(c, t, r) ==
    /\ claims' = claims + 1
    /\ IF run[c][t] = NoRun
       THEN /\ lease' = [lease EXCEPT ![t] = claims + 1]
            /\ slot' = [s \in Slot |-> IF s \in FreeSlots(t) THEN claims + 1 ELSE slot[s]]
            /\ run' = [run EXCEPT ![c][t] = [r EXCEPT !.claim = claims + 1,
                                                      !.attempt = task[t].attempt,
                                                      !.slots = FreeSlots(t)]]
       ELSE UNCHANGED <<leases, run>>

(* TaskExecutionStore.release: every row this claim still holds.           *)
Release(k) ==
    /\ lease' = [t \in Task |-> IF lease[t] = k THEN 0 ELSE lease[t]]
    /\ slot' = [s \in Slot |-> IF slot[s] = k THEN 0 ELSE slot[s]]

Held(c, t) ==
    /\ lease[t] = run[c][t].claim
    /\ \A s \in run[c][t].slots : slot[s] = run[c][t].claim

(* TaskExecutionFence.assert_current.                                      *)
Fence(c, t) ==
    /\ task[t].attempt = run[c][t].attempt
    /\ task[t].status \in {"running", "paused", run[c][t].final}
    /\ Held(c, t)

(* The drain loop is one coroutine: it is between two of its rounds.       *)
Idle(c) ==
    /\ \A e \in pending[c] : e.why \notin Listed
    /\ \A t \in Task : ~At(c, t, {"claimed", "classify"})

(* _pick_lock: no resume or revision is under way in this controller.      *)
Unlocked(c) ==
    /\ \A e \in pending[c] : e.why \notin {"proceed", "resume", "revise"}
    /\ \A t \in Task : ~At(c, t, {"resuming"})

(* claim_ready looks at one candidate: the first ready task that is due.   *)
Candidate(t) ==
    /\ task[t].status = "ready" /\ task[t].due
    /\ \A u \in 1 .. (t - 1) : ~(task[u].status = "ready" /\ task[u].due)

ClaimReady(c, t) ==
    /\ Idle(c) /\ Unlocked(c)
    /\ Candidate(t)
    /\ Claimable(t)
    /\ Claim(c, t, [NoRun EXCEPT !.pc = "claimed"])
    /\ task' = [task EXCEPT ![t] = Move(@, "running")]
    /\ UNCHANGED <<pending, asked, history, requests, faults>>

(* _try_pick_and_run reads the row after the claim and launches the run.   *)
Launch(c, t) ==
    /\ At(c, t, {"claimed"})
    /\ run' = [run EXCEPT ![c][t] = [@ EXCEPT !.pc = "launch", !.wf = task[t].wf,
                                              !.seen = task[t].attempt]]
    /\ UNCHANGED <<task, leases, pending, asked, history, counters>>

-----------------------------------------------------------------------------
(* Submission: create_task commits the queued row; submit then tries the   *)
(* transition to ready in a second transaction.                            *)

Submit(c, t) ==
    /\ Request("submit")
    /\ task[t].status = "draft"
    /\ task' = [task EXCEPT ![t] = Move(@, "queued")]
    /\ asked' = asked \cup {<<c, t>>}
    /\ UNCHANGED <<leases, run, pending, history, claims, faults>>

(* _try_transition_to_ready.                                               *)
TransitionToReady(c, t) ==
    /\ <<c, t>> \in asked
    /\ asked' = asked \ {<<c, t>>}
    /\ task' = IF Met(t) THEN [task EXCEPT ![t] = Move(@, "ready")] ELSE task
    /\ UNCHANGED <<leases, run, pending, history, counters>>

(* scheduled_for passes.                                                   *)
Due(t) ==
    /\ ~task[t].due
    /\ task' = [task EXCEPT ![t].due = TRUE]
    /\ UNCHANGED <<leases, run, pending, asked, history, counters>>

-----------------------------------------------------------------------------
(* Recovery: the drain loop lists the running and the paused tasks and     *)
(* goes through the rows it read, claiming each in turn.  resume_task,     *)
(* retry_failed_task and request_revision also read, then claim.           *)

ListPausedOnly(c, why) ==
    LET rows == {t \in Task : task[t].status = "paused" /\ task[t].wf.pause} IN
    /\ rows # {}
    /\ Idle(c)
    /\ pending' = [pending EXCEPT ![c] = @ \cup
                     {[task |-> t, why |-> why, wf |-> task[t].wf, attempt |-> task[t].attempt]
                         : t \in rows}]
    /\ UNCHANGED <<task, leases, run, asked, history, counters>>

(* recover_stale_tasks and recover_paused_tasks: the listing.              *)
ListTasks(c, why) ==
    LET rows == {t \in Task : task[t].status = why /\ (why = "paused" => task[t].wf.pause)} IN
    /\ rows # {}
    /\ Idle(c)
    /\ pending' = [pending EXCEPT ![c] = @ \cup
                     {[task |-> t, why |-> why, wf |-> task[t].wf, attempt |-> task[t].attempt]
                         : t \in rows}]
    /\ UNCHANGED <<task, leases, run, asked, history, counters>>

(* The status a claim demands, and where the claimed run goes on.          *)
Demanded(why) == CASE why \in {"running", "revise"} -> "running"
                   [] why \in {"paused", "resume"} -> "paused"
                   [] why = "retry" -> "failed"
Entry(why) == CASE why = "running" -> "classify"
                [] why \in {"paused", "revise"} -> "launch"
                [] why = "resume" -> "resuming"
                [] why = "retry" -> "retrying"

(* Which listed row is next, and that resume and revision wait for a local *)
(* run to stop.                                                            *)
NextEntry(c, e) ==
    /\ e.why # "proceed"
    /\ e.why \in Listed => /\ \A t \in Task : ~At(c, t, {"claimed", "classify"})
                           /\ \A d \in pending[c] : d.why \in Listed => e.task <= d.task
    /\ e.why \in {"resume", "revise"} => run[c][e.task] = NoRun

(* History: the claims that came before a user had the task go on.         *)
ByUser(row) == [row EXCEPT !.base = claims]

(* What a claim makes of the row: of a retry that finds a local run still  *)
(* active only the status and the workflow state stay.                     *)
Taken(c, e) ==
    LET row == ByUser(task[e.task]) IN
    IF e.why \in Listed THEN task[e.task]
    ELSE IF e.why = "retry" /\ run[c][e.task] # NoRun
    THEN [Move(row, "running") EXCEPT !.wf = e.wf]
    ELSE row

(* claim_existing and claim_paused: the claim is made against the row as   *)
(* it is now, the run gets the row as it was read.  A question of a paused *)
(* task may still be open: the task then stays as it is.                   *)
ClaimExisting(c) ==
    \E e \in pending[c] :
        /\ NextEntry(c, e)
        /\ pending' = [pending EXCEPT ![c] = @ \ {e}]
        /\ \/ /\ task[e.task].status = Demanded(e.why)
              /\ Claimable(e.task)
              /\ e.why \in Listed => ~Launched(c, e.task)
              /\ Claim(c, e.task, [NoRun EXCEPT !.pc = Entry(e.why), !.wf = e.wf,
                                                !.seen = e.attempt])
              /\ task' = [task EXCEPT ![e.task] = Taken(c, e)]
           \/ /\ \/ task[e.task].status # Demanded(e.why)
                 \/ ~Claimable(e.task)
                 \/ e.why \in Listed /\ Launched(c, e.task)
                 \/ e.why = "paused"
              /\ UNCHANGED <<task, leases, run, claims>>
        /\ UNCHANGED <<asked, history, requests, faults>>

(* _classify_crash_recovery: a call of the running step without a result.  *)
NeverAmbiguous(t) == FALSE

Ambiguous(t) ==
    /\ task[t].stepRun
    /\ \E e \in called \ answered : e[1] = t /\ e[2] = task[t].attempt

(* recover_stale_tasks: an ambiguous task is failed under the fence and    *)
(* its claim released, any other is launched.  A stale fence here raises   *)
(* out of the recovery and leaves the claim and the listed rows behind.    *)
Classify(c, t) ==
    /\ At(c, t, {"classify"})
    /\ \/ /\ ~Ambiguous(t)
          /\ Goto(c, t, "launch")
          /\ UNCHANGED <<task, leases, pending>>
       \/ /\ Ambiguous(t) /\ Fence(c, t)
          /\ task' = [task EXCEPT ![t] = [Move(@, "failed") EXCEPT !.stepRun = FALSE]]
          /\ Release(run[c][t].claim)
          /\ run' = [run EXCEPT ![c][t] = NoRun]
          /\ UNCHANGED pending
       \/ /\ Ambiguous(t) /\ ~Fence(c, t)
          /\ run' = [run EXCEPT ![c][t] = NoRun]
          /\ pending' = [pending EXCEPT ![c] = {e \in @ : e.why \notin Listed}]
          /\ UNCHANGED <<task, leases>>
    /\ UNCHANGED <<asked, history, counters>>

-----------------------------------------------------------------------------
(* Requests of users, handled by controller c.                             *)

(* pause_task: the local run is told to stop at its next check.            *)
PauseTask(c, t) ==
    /\ Request("pause")
    /\ task[t].status = "running"
    /\ task' = [task EXCEPT ![t] = Move(@, "paused")]
    /\ run' = IF Launched(c, t) /\ run[c][t].stop = "no"
              THEN [run EXCEPT ![c][t].stop = "yield"] ELSE run
    /\ UNCHANGED <<leases, pending, asked, history, claims, faults>>

(* resume_task: the row is read; a local run that was not told to stop is  *)
(* to go on, any other is waited for.  An open question refuses it; in     *)
(* "asking" the answer may be in and the run wait for capacity.            *)
ResumeTask(c, t) ==
    /\ Request("resume")
    /\ Unlocked(c)
    /\ task[t].status = "paused"
    /\ ~At(c, t, {"suspend"})
    /\ pending' = [pending EXCEPT ![c] = @ \cup
                     {[task |-> t, wf |-> task[t].wf, attempt |-> task[t].attempt,
                       why |-> IF Launched(c, t) /\ run[c][t].stop = "no"
                               THEN "proceed" ELSE "resume"]}]
    /\ UNCHANGED <<task, leases, run, asked, history, claims, faults>>

(* The row turns running, by whatever transition the table allows.         *)
Proceed(c, t) ==
    \E e \in pending[c] :
        /\ e.why = "proceed" /\ e.task = t
        /\ pending' = [pending EXCEPT ![c] = @ \ {e}]
        /\ task' = IF task[t].status \in AllowedFrom("running")
                   THEN [task EXCEPT ![t] = ByUser(Move(@, "running"))] ELSE task
        /\ UNCHANGED <<leases, run, asked, history, counters>>

(* retry_failed_task: reads the failed row, clears the pause and claims.   *)
RetryFailedTask(c, t) ==
    /\ Request("retry")
    /\ task[t].status = "failed"
    /\ pending' = [pending EXCEPT ![c] = @ \cup
                     {[task |-> t, why |-> "retry", wf |-> Unpaused(task[t].wf),
                       attempt |-> task[t].attempt]}]
    /\ UNCHANGED <<task, leases, run, asked, history, claims, faults>>

(* After claim_paused and after claim_existing: the row turns running, or  *)
(* the claim is given back.                                                *)
Resume(c, t) ==
    LET row == Move(task[t], "running") IN
    /\ At(c, t, {"resuming", "retrying"})
    /\ IF row.status = "running" /\ task[t].status # "running"
       THEN /\ task' = [task EXCEPT ![t] =
                          [row EXCEPT !.wf = IF At(c, t, {"retrying"})
                                             THEN run[c][t].wf ELSE task[t].wf]]
            /\ run' = [run EXCEPT ![c][t] = [run[c][t] EXCEPT !.pc = "launch",
                         !.seen = IF At(c, t, {"retrying"}) THEN task[t].attempt
                                  ELSE run[c][t].seen]]
            /\ UNCHANGED leases
       ELSE /\ Release(run[c][t].claim)
            /\ run' = [run EXCEPT ![c][t] = NoRun]
            /\ UNCHANGED task
    /\ UNCHANGED <<pending, asked, history, counters>>

(* request_revision: a new attempt from step n on, in one transaction that *)
(* also invalidates the task's lease; then the local run is stopped.       *)
RequestRevision(c, t, n) ==
    LET row == [task[t] EXCEPT !.status = "running", !.attempt = @ + 1,
                               !.wf = [rev |-> task[t].attempt + 1, step |-> n,
                                       ver |-> task[t].wf.ver, pause |-> FALSE],
                               !.stepRun = FALSE, !.base = claims] IN
    /\ Request("revise")
    /\ Unlocked(c)
    /\ task[t].status # "cancelled" /\ task[t].attempt < MaxAttempts
    /\ task' = [task EXCEPT ![t] = row]
    /\ lease' = [lease EXCEPT ![t] = 0]
    /\ run' = IF Launched(c, t) THEN [run EXCEPT ![c][t].stop = "kill"] ELSE run
    /\ pending' = [pending EXCEPT ![c] = @ \cup {[task |-> t, why |-> "revise", wf |-> row.wf,
                                                  attempt |-> row.attempt]}]
    /\ UNCHANGED <<slot, asked, history, claims, faults>>

(* cancel_task: status, step runs, lease and pause in one transaction;     *)
(* then the local run is stopped.                                          *)
CancelTask(c, t) ==
    /\ Request("cancel")
    /\ Unlocked(c)
    /\ task[t].status \notin {"completed", "failed"}
    /\ task' = [task EXCEPT ![t] = [Move(@, "cancelled") EXCEPT
                                      !.wf = NewVersion(Unpaused(task[t].wf)),
                                      !.stepRun = FALSE]]
    /\ lease' = [lease EXCEPT ![t] = 0]
    /\ run' = IF Launched(c, t) THEN [run EXCEPT ![c][t].stop = "kill"] ELSE run
    /\ UNCHANGED <<slot, pending, asked, history, claims, faults>>

-----------------------------------------------------------------------------
(* The run (_run_task, execute_workflow, run_step).  A transaction of it   *)
(* starts with assert_current; LoseFence is the failure of that check.     *)

(* _run_task writes the workflow state it was launched with, whatever      *)
(* version the row has.                                                    *)
Begin(c, t) ==
    /\ At(c, t, {"launch"}) /\ Fence(c, t)
    /\ task' = [task EXCEPT ![t].wf = run[c][t].wf]
    /\ Goto(c, t, "working")
    /\ UNCHANGED <<leases, pending, asked, history, counters>>

(* _run_task without a workflow to run: failed, delivered, and returned    *)
(* from without a look at the dependents.                                  *)
UnknownWorkflow(c, t) ==
    /\ Fault("workflow")
    /\ At(c, t, {"launch"}) /\ Fence(c, t)
    /\ task' = IF task[t].attempt = run[c][t].seen
               THEN [task EXCEPT ![t] = Move(@, "failed")] ELSE task
    /\ run' = [run EXCEPT ![c][t] = [@ EXCEPT !.pc = "report", !.final = "failed"]]
    /\ UNCHANGED <<leases, pending, asked, history, claims, requests>>

StartStepBeyond(c, t) ==
    /\ At(c, t, {"working"}) /\ Fence(c, t)
    /\ run[c][t].wf.step <= NSteps /\ run[c][t].stop = "no"
    /\ task' = [task EXCEPT ![t].stepRun = ~run[c][t].wf.pause]
    /\ Goto(c, t, IF run[c][t].wf.pause THEN "suspend" ELSE "step")
    /\ UNCHANGED <<leases, pending, asked, history, counters>>

(* A step run is created or taken up again; a pause that the state still   *)
(* carries leads straight to the wait for its resolution.                  *)
StartStep(c, t) ==
    /\ At(c, t, {"working"}) /\ Fence(c, t)
    /\ run[c][t].wf.step < NSteps /\ run[c][t].stop = "no"
    /\ task' = [task EXCEPT ![t].stepRun = ~run[c][t].wf.pause]
    /\ Goto(c, t, IF run[c][t].wf.pause THEN "suspend" ELSE "step")
    /\ UNCHANGED <<leases, pending, asked, history, counters>>

CallOf(c, t) == <<t, run[c][t].attempt, run[c][t].claim>>

(* A run makes one tool call: the tool_call event is appended, the fence   *)
(* is checked (record_tool_dispatch) and the executor gets the call.       *)
RecordCall(c, t) ==
    /\ At(c, t, {"step"}) /\ run[c][t].stop = "no"
    /\ CallOf(c, t) \notin called
    /\ called' = called \cup {CallOf(c, t)}
    /\ Goto(c, t, "recorded")
    /\ UNCHANGED <<task, leases, pending, asked, sent, answered, counters>>

Dispatch(c, t) ==
    /\ At(c, t, {"recorded"}) /\ Fence(c, t)
    /\ sent' = sent \cup {CallOf(c, t)}
    /\ Goto(c, t, "calling")
    /\ UNCHANGED <<task, leases, pending, asked, called, answered, counters>>

(* The tool_result event is appended, then complete_tool_dispatch checks.  *)
ToolResult(c, t) ==
    /\ At(c, t, {"calling"})
    /\ answered' = answered \cup {CallOf(c, t)}
    /\ IF Fence(c, t) THEN Goto(c, t, "step") ELSE Leave(c, t)
    /\ UNCHANGED <<task, leases, pending, asked, called, sent, counters>>

(* The step run is approved in one transaction, the workflow state         *)
(* advances in the next (_persist_workflow_state).                         *)
EndStep(c, t) ==
    /\ At(c, t, {"step"}) /\ Fence(c, t)
    /\ task' = [task EXCEPT ![t].stepRun = FALSE]
    /\ Goto(c, t, "persist")
    /\ UNCHANGED <<leases, pending, asked, history, counters>>

Persist(c, t) ==
    /\ At(c, t, {"persist"}) /\ Fence(c, t)
    /\ LET next == [NewVersion(run[c][t].wf) EXCEPT !.step = @ + 1] IN
       IF task[t].wf.ver = run[c][t].wf.ver
       THEN /\ task' = [task EXCEPT ![t].wf = next]
            /\ run' = [run EXCEPT ![c][t] = [@ EXCEPT !.wf = next, !.pc = "working"]]
       ELSE Leave(c, t) /\ UNCHANGED task
    /\ UNCHANGED <<leases, pending, asked, history, counters>>

(* A step that cannot go on now gives the task back to the queue.          *)
Defer(c, t) ==
    /\ Fault("defer")
    /\ At(c, t, {"step"}) /\ Fence(c, t)
    /\ task[t].status = "running"
    /\ task' = [task EXCEPT ![t] = [@ EXCEPT !.status = "ready", !.due = FALSE,
                                             !.wf = NewVersion(run[c][t].wf),
                                             !.stepRun = FALSE]]
    /\ Leave(c, t)
    /\ UNCHANGED <<leases, pending, asked, history, claims, requests>>

-----------------------------------------------------------------------------
(* Questions to the user.                                                  *)

(* _set_interactive_pause_state: no fence is asserted, and the workflow    *)
(* state is written whether or not the status changes.                     *)
AskUser(c, t) ==
    /\ Request("ask")
    /\ At(c, t, {"step"}) /\ run[c][t].stop = "no"
    /\ LET wf == [run[c][t].wf EXCEPT !.pause = TRUE] IN
       /\ task' = [task EXCEPT ![t] = [Move(@, "paused") EXCEPT !.wf = wf, !.stepRun = FALSE]]
       /\ run' = [run EXCEPT ![c][t] = [@ EXCEPT !.wf = wf, !.pc = "suspend"]]
    /\ UNCHANGED <<leases, pending, asked, history, claims, faults>>

(* wait_for_resolution: suspend_capacity keeps the task lease only.        *)
Suspend(c, t) ==
    /\ At(c, t, {"suspend"})
    /\ IF Held(c, t)
       THEN /\ slot' = [s \in Slot |-> IF s \in run[c][t].slots THEN 0 ELSE slot[s]]
            /\ run' = [run EXCEPT ![c][t] = [@ EXCEPT !.slots = {}, !.pc = "asking"]]
       ELSE Leave(c, t) /\ UNCHANGED slot
    /\ UNCHANGED <<task, lease, pending, asked, history, counters>>

(* The user answered and ensure_capacity found both slots.                 *)
AnsweredAnyway(c, t) ==
    /\ At(c, t, {"asking"}) /\ Fence(c, t)
    /\ Goto(c, t, "clearing")
    /\ UNCHANGED <<task, leases, pending, asked, history, counters>>

Answered(c, t) ==
    /\ At(c, t, {"asking"}) /\ Fence(c, t) /\ HasCapacity(t)
    /\ slot' = [s \in Slot |-> IF s \in FreeSlots(t) THEN run[c][t].claim ELSE slot[s]]
    /\ run' = [run EXCEPT ![c][t] = [@ EXCEPT !.slots = FreeSlots(t), !.pc = "clearing"]]
    /\ UNCHANGED <<task, lease, pending, asked, history, counters>>

(* The deadline passes: TimeoutError leaves the wait without capacity.     *)
TimedOut(c, t) ==
    /\ Fault("timeout")
    /\ At(c, t, {"asking"}) /\ Fence(c, t)
    /\ Goto(c, t, "clearing")
    /\ UNCHANGED <<task, leases, pending, asked, history, claims, requests>>

(* _clear_interactive_pause_state; StepInterrupted if the task is running  *)
(* already or no longer paused.                                            *)
ClearPause(c, t) ==
    /\ At(c, t, {"clearing"}) /\ Fence(c, t)
    /\ IF task[t].status = "paused"
       THEN LET wf == Unpaused(run[c][t].wf) IN
            /\ task' = [task EXCEPT ![t] = [Move(@, "running") EXCEPT !.wf = wf, !.stepRun = TRUE]]
            /\ run' = [run EXCEPT ![c][t] = [@ EXCEPT !.wf = wf, !.pc = "step"]]
       ELSE /\ run' = [run EXCEPT ![c][t] = [@ EXCEPT !.wf = Unpaused(run[c][t].wf),
                                                      !.stop = "yield", !.pc = "step"]]
            /\ UNCHANGED task
    /\ UNCHANGED <<leases, pending, asked, history, counters>>

-----------------------------------------------------------------------------
(* How a run ends.                                                         *)

(* _persist_task_final, for this attempt and from running only; otherwise  *)
(* StepInterrupted.                                                        *)
Finish(c, t, s) ==
    /\ s = "completed" => At(c, t, {"working"}) /\ run[c][t].wf.step = NSteps
    /\ s = "failed" => At(c, t, {"working", "step"})
    /\ Fence(c, t)
    /\ IF task[t].attempt = run[c][t].seen /\ task[t].status = "running"
       THEN /\ task' = [task EXCEPT ![t] = [Move(@, s) EXCEPT
                                              !.wf = Unpaused(run[c][t].wf),
                                              !.stepRun = FALSE]]
            /\ run' = [run EXCEPT ![c][t] = [@ EXCEPT !.final = s, !.pc = "deliver"]]
       ELSE /\ run' = [run EXCEPT ![c][t] = [@ EXCEPT !.final = s, !.stop = "yield",
                                                      !.pc = "working"]]
            /\ UNCHANGED task
    /\ UNCHANGED <<leases, pending, asked, history, claims, requests>>

Complete(c, t) == Finish(c, t, "completed") /\ UNCHANGED faults
Fail(c, t) == Fault("fail") /\ Finish(c, t, "failed")

(* _deliver_task_result, fenced.                                           *)
Deliver(c, t) ==
    /\ At(c, t, {"deliver", "report"}) /\ Fence(c, t)
    /\ IF At(c, t, {"deliver"}) THEN Goto(c, t, "resolve") ELSE Leave(c, t)
    /\ UNCHANGED <<task, leases, pending, asked, history, counters>>

(* resolve_dependencies.                                                   *)
ResolveNothing(c, t) ==
    /\ At(c, t, {"resolve"}) /\ Fence(c, t)
    /\ Leave(c, t)
    /\ UNCHANGED <<task, leases, pending, asked, history, counters>>

ResolveDependencies(c, t) ==
    /\ At(c, t, {"resolve"}) /\ Fence(c, t)
    /\ task' = [u \in Task |->
                  IF t \notin Requires[u] THEN task[u]
                  ELSE IF Met(u) THEN Move(task[u], "ready")
                  ELSE IF \E d \in Requires[u] : task[d].status \in {"failed", "cancelled"}
                  THEN Move(task[u], "paused")
                  ELSE task[u]]
    /\ Leave(c, t)
    /\ UNCHANGED <<leases, pending, asked, history, counters>>

(* StaleTaskExecutionOwner: a call that was recorded but not dispatched is *)
(* closed by the emergency flush.                                          *)
LoseFence(c, t) ==
    /\ At(c, t, RunPc \ {"suspend", "calling"}) /\ ~Fence(c, t)
    /\ answered' = IF At(c, t, {"recorded"}) THEN answered \cup {CallOf(c, t)} ELSE answered
    /\ Leave(c, t)
    /\ UNCHANGED <<task, leases, pending, asked, called, sent, counters>>

(* The cooperative stop: the step run is paused and the workflow state     *)
(* persisted, unless the task was cancelled.                               *)
Yield(c, t) ==
    /\ At(c, t, {"working", "step"}) /\ run[c][t].stop = "yield" /\ Fence(c, t)
    /\ task' = [task EXCEPT ![t] = [@ EXCEPT !.stepRun = FALSE,
                  !.wf = IF task[t].wf.ver = run[c][t].wf.ver
                         THEN NewVersion(run[c][t].wf) ELSE task[t].wf]]
    /\ Leave(c, t)
    /\ UNCHANGED <<leases, pending, asked, history, counters>>

(* asyncio.CancelledError out of whatever the run awaits: the running step *)
(* runs are closed under the fence; run_step has no handler for it, so an  *)
(* open tool call stays open.                                              *)
Interrupted(c, t) ==
    /\ \/ At(c, t, RunPc) /\ run[c][t].stop = "kill"
       \/ At(c, t, {"asking"}) /\ run[c][t].stop = "yield"
    /\ task' = IF Fence(c, t) THEN [task EXCEPT ![t].stepRun = FALSE] ELSE task
    /\ Leave(c, t)
    /\ UNCHANGED <<leases, pending, asked, history, counters>>

(* TaskExecutionFence.close, and the run leaves _active_runs.              *)
Close(c, t) ==
    /\ At(c, t, {"close"})
    /\ Release(run[c][t].claim)
    /\ run' = [run EXCEPT ![c][t] = NoRun]
    /\ UNCHANGED <<task, pending, asked, history, counters>>

-----------------------------------------------------------------------------
(* Faults.                                                                 *)

(* The controller's process dies and starts again with an empty memory.    *)
Crash(c) ==
    /\ Fault("crash")
    /\ run' = [run EXCEPT ![c] = [t \in Task |-> NoRun]]
    /\ pending' = [pending EXCEPT ![c] = {}]
    /\ asked' = {a \in asked : a[1] # c}
    /\ UNCHANGED <<task, leases, history, claims, requests>>

(* TaskQueue.stop: the drain loop is cancelled with the claims it has in   *)
(* hand and every active run is cancelled.                                 *)
Stop(c) ==
    /\ Fault("stop")
    /\ run' = [run EXCEPT ![c] = [t \in Task |->
                 IF Launched(c, t) THEN [run[c][t] EXCEPT !.stop = "kill"]
                 ELSE IF At(c, t, {"claimed", "classify"}) THEN NoRun ELSE run[c][t]]]
    /\ pending' = [pending EXCEPT ![c] = {e \in @ : e.why \notin Listed}]
    /\ UNCHANGED <<task, leases, asked, history, claims, requests>>

LiveClaims == ({lease[t] : t \in Task} \cup {slot[s] : s \in Slot}) \ {0}

(* The leases of a claim run out while its run is alive.                   *)
Expire(k) ==
    /\ Fault("expire")
    /\ Release(k)
    /\ UNCHANGED <<task, run, pending, asked, history, claims, requests>>

(* The leases of a claim nobody renews run out.                            *)
Lapse(k) ==
    /\ \A c \in Controller, t \in Task : run[c][t].claim # k
    /\ Release(k)
    /\ UNCHANGED <<task, run, pending, asked, history, counters>>

-----------------------------------------------------------------------------
UserStep(c, t) ==
    \/ Submit(c, t) \/ Answered(c, t) \/ PauseTask(c, t) \/ ResumeTask(c, t) \/ RetryFailedTask(c, t)
    \/ CancelTask(c, t) \/ \E n \in 0 .. (NSteps - 1) : RequestRevision(c, t, n)

ClaimStep(c, t) ==
    \/ TransitionToReady(c, t) \/ Launch(c, t) \/ Classify(c, t) \/ Resume(c, t) \/ Proceed(c, t)

RunStep(c, t) ==
    \/ Begin(c, t) \/ StartStep(c, t) \/ RecordCall(c, t) \/ Dispatch(c, t) \/ ToolResult(c, t)
    \/ EndStep(c, t) \/ Persist(c, t) \/ Suspend(c, t) \/ ClearPause(c, t)
    \/ Complete(c, t) \/ Deliver(c, t) \/ ResolveDependencies(c, t)
    \/ LoseFence(c, t) \/ Yield(c, t) \/ Interrupted(c, t) \/ Close(c, t)

RunFault(c, t) ==
    UnknownWorkflow(c, t) \/ Defer(c, t) \/ AskUser(c, t) \/ TimedOut(c, t) \/ Fail(c, t)

Next ==
    \/ \E c \in Controller, t \in Task :
          UserStep(c, t) \/ ClaimReady(c, t) \/ ClaimStep(c, t) \/ RunStep(c, t) \/ RunFault(c, t)
    \/ \E c \in Controller :
          ClaimExisting(c) \/ Crash(c) \/ Stop(c) \/ \E why \in Listed : ListTasks(c, why)
    \/ \E t \in Task : Due(t)
    \/ \E k \in LiveClaims : Expire(k) \/ Lapse(k)

Spec == Init /\ [][Next]_vars

(* Every controller goes on draining, launched runs go on, leases nobody   *)
(* renews run out and scheduled times come; users and faults owe nothing.  *)
(* Listing and claiming are tried in every round of the drain loop, so     *)
(* being possible again and again is enough for them.                      *)
Fairness ==
    /\ \A c \in Controller : /\ SF_vars(ListTasks(c, "running"))
                             /\ WF_vars(ClaimExisting(c))
                             /\ \A t \in Task : /\ SF_vars(ClaimReady(c, t))
                                               /\ WF_vars(ClaimStep(c, t))
                                               /\ WF_vars(RunStep(c, t))
    /\ \A t \in Task : WF_vars(Due(t))
    /\ WF_vars(\E k \in LiveClaims : Lapse(k))

FairSpec == Spec /\ Fairness

-----------------------------------------------------------------------------
Workflow == [rev : Nat, step : 0 .. NSteps, ver : Nat, pause : BOOLEAN]
Call == Task \X Nat \X (1 .. MaxClaims)

(* Every row, lease, run and event has its shape, and a run works on       *)
(* slots of its own agent and of the global pool.                          *)
TypeOK ==
    /\ task \in [Task -> [status : Status, attempt : Nat, wf : Workflow, due : BOOLEAN,
                          stepRun : BOOLEAN, base : 0 .. MaxClaims]]
    /\ lease \in [Task -> 0 .. MaxClaims]
    /\ slot \in [Slot -> 0 .. MaxClaims]
    /\ \A c \in Controller, t \in Task :
          /\ run[c][t].pc \in ClaimPc \cup RunPc \cup {"none", "close"}
          /\ run[c][t].claim \in 0 .. claims
          /\ run[c][t].slots \subseteq GlobalSlot \cup AgentSlot(t)
          /\ (run[c][t] = NoRun) <=> (run[c][t].claim = 0)
    /\ sent \subseteq called /\ answered \subseteq called /\ called \subseteq Call

(* No more runs execute steps, under a fence that still holds, than        *)
(* max_active_steps_global allows: a run that waits for a user gives its   *)
(* slots back and has slots again before it goes on.                       *)
ActiveWithinCapacity ==
    Cardinality({p \in Controller \X Task :
                    At(p[1], p[2], BusyPc) /\ Fence(p[1], p[2])}) <= MaxGlobal

(* Recovery never executes a task whose earlier run handed a tool call to  *)
(* an executor and left no result of it in the history: it fails the task. *)
(* Calls from before a resume, a retry or a revision are the user's.       *)
NoBlindRerun ==
    \A c \in Controller, t \in Task :
        At(c, t, BusyPc) /\ Fence(c, t) =>
            ~ \E e \in sent \ answered :
                e[1] = t /\ task[t].base < e[3] /\ e[3] < run[c][t].claim

(* A user's retry or resume of t is under way in c.                        *)
Reviving(c, t) ==
    \/ At(c, t, {"resuming", "retrying"})
    \/ \E e \in pending[c] : e.task = t /\ e.why \in {"proceed", "retry"}

(* A cancelled task stays cancelled.  A completed task runs again only as  *)
(* a new attempt, and a failed one only by a user's retry or resume that   *)
(* is under way or as a new attempt: no late write of a run, of a recovery *)
(* or of a question brings it back.                                        *)
SettledForGood ==
    [][\A t \in Task :
          LET s == task[t].status IN
          /\ s = "cancelled" => task'[t].status = s
          /\ s \in {"completed", "failed"} =>
                \/ task'[t].status = s
                \/ task'[t].attempt > task[t].attempt
                \/ /\ s = "failed"
                   /\ \E c \in Controller : Reviving(c, t)]_vars

(* The drain loops serve every task: one that is ready or running is       *)
(* paused or settled in the end, in spite of crashes.                      *)
TasksServed ==
    \A t \in Task : task[t].status \in {"ready", "running"}
                       ~> task[t].status \notin {"ready", "running"}

(* No wakeup is lost between a submission and a completion: a queued task  *)
(* whose required dependencies are completed gets ready, as long as no     *)
(* controller crashes.                                                     *)
DependentsReleased ==
    \A t \in Task : faults = 0 /\ task[t].status = "queued" /\ Met(t)
                       ~> task[t].status # "queued" \/ faults > 0

(* A queued task with a failed or cancelled required dependency is put     *)
(* before the user: it is paused.                                          *)
FailedDependencyFlagged ==
    \A t \in Task :
        \A d \in Requires[t] :
            task[t].status = "queued" /\ task[d].status \in {"failed", "cancelled"}
                ~> task[t].status # "queued" \/ task[d].status \notin {"failed", "cancelled"}

(* Done work is kept: within a revision the steps done only grow, and an   *)
(* older revision's state never comes back.                                *)
DoneWorkKept ==
    [][\A t \in Task :
          LET old == task[t].wf new == task'[t].wf IN
          /\ new.rev >= old.rev
          /\ new.rev = old.rev => new.step >= old.step]_vars

(* Cancellation clears the pause: no cancelled task has one.               *)
CancelledHasNoPause ==
    \A t \in Task : task[t].status = "cancelled" => ~task[t].wf.pause

=============================================================================
