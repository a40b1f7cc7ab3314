-------------------------- MODULE TaskQueueProofs --------------------------
(***************************************************************************)
(* Theorems about TaskQueue: a settled task stays settled, no more runs    *)
(* execute steps under a fence that holds than max_active_steps_global     *)
(* allows, and, as long as no user overtakes a run (Unattended), no step   *)
(* that may have run is run again unasked.  They are proved for every      *)
(* number of controllers, tasks and slots.                                 *)
(*                                                                         *)
(* A step is classified by what it does to the rows (RowsStep) and to the  *)
(* runs (RunsStep, ClaimStep); every action is shown to be of its class,   *)
(* and the theorems follow from the classes.                               *)
(***************************************************************************)
EXTENDS TaskQueue, FiniteSetTheorems, TLAPS

(* More time for a leaf than the provers have by default, and more tries. *)
USE SMTT(30), ZenonT(30), SMTT(40), SMTT(50)

State == [rev : Nat, step : Nat, ver : Nat, pause : BOOLEAN]
Row == [status : Status, attempt : Nat, wf : State, due : BOOLEAN,
        stepRun : BOOLEAN, base : Nat]
Run == [pc : ClaimPc \cup RunPc \cup {"none", "close"}, claim : Nat, attempt : Nat, seen : Nat,
        wf : State, slots : SUBSET Slot, stop : {"no", "yield", "kill"},
        final : {"none", "completed", "failed"}]
Read == [task : Task, why : Listed \cup {"proceed", "resume", "retry", "revise"}, wf : State,
         attempt : Nat]

Typed ==
    /\ task \in [Task -> Row]
    /\ run \in [Controller -> [Task -> Run]]
    /\ pending \in [Controller -> SUBSET Read]
    /\ claims \in Nat

(* What a transaction may make of a row that is settled.                   *)
Legal(t, old, new) ==
    /\ old.status = "cancelled" => new.status = "cancelled"
    /\ old.status \in {"completed", "failed"} =>
          \/ new.status = old.status
          \/ new.attempt > old.attempt
          \/ /\ old.status = "failed"
             /\ \E c \in Controller : Reviving(c, t)

RowsStep ==
    /\ task' \in [Task -> Row]
    /\ \A t \in Task : Legal(t, task[t], task'[t])

(* A run has a claim, and one that executes steps, or is about to, has a   *)
(* global slot; a question that times out goes on without one.             *)
CapPc == ClaimPc \cup {"launch", "suspend", "clearing"} \cup BusyPc
Slotted(r) ==
    /\ r.claim = 0 => r.pc \in {"none", "close"}
    /\ "timeout" \notin FaultKind /\ r.pc \in CapPc => r.slots \cap GlobalSlot # {}

(* No claim is made: a run keeps its claim or ends.                        *)
RunsStep ==
    /\ run' \in [Controller -> [Task -> Run]]
    /\ \A c \in Controller, t \in Task :
          /\ run'[c][t].claim \in {run[c][t].claim, 0}
          /\ Slotted(run[c][t]) => Slotted(run'[c][t])
    /\ claims' = claims

(* A run that starts gets a claim of its own and slots.                    *)
ClaimsStep ==
    /\ run' \in [Controller -> [Task -> Run]]
    /\ claims' = claims + 1
    /\ \E c \in Controller, t \in Task :
          /\ run'[c][t].claim \in {claims + 1, run[c][t].claim}
          /\ Slotted(run[c][t]) => Slotted(run'[c][t])
          /\ \A d \in Controller, u \in Task : d # c \/ u # t => run'[d][u] = run[d][u]

StepOK == RowsStep /\ (RunsStep \/ ClaimsStep) /\ pending' \in [Controller -> SUBSET Read]

-----------------------------------------------------------------------------
LEMMA StateOps ==
    ASSUME NEW w \in State
    PROVE  Unpaused(w) \in State /\ NewVersion(w) \in State
<1>1. Unpaused(w) \in State BY ZenonT(40) DEF State, Unpaused
<1>2. w.ver + 1 \in Nat BY DEF State
<1>3. NewVersion(w) \in State BY <1>2 DEF State, NewVersion
<1> QED BY <1>1, <1>3

(* update_task_status keeps a row a row, and no target but running has a   *)
(* settled status among its sources.                                       *)
LEMMA MoveLegal ==
    ASSUME NEW t, NEW r \in Row, NEW s \in Status \ {"draft", "running"}
    PROVE  /\ Move(r, s) \in Row
           /\ Legal(t, r, Move(r, s))
           /\ Move(r, s).attempt = r.attempt
    BY DEF Row, Legal, Move, AllowedFrom, Status

LEMMA MoveRunning ==
    ASSUME NEW t, NEW r \in Row, r.status \notin {"completed", "failed", "cancelled"}
    PROVE  Move(r, "running") \in Row /\ Legal(t, r, Move(r, "running"))
    BY DEF Row, Legal, Move, AllowedFrom, Status

(* A transaction on one row, and a step that leaves the rows alone.        *)
LEMMA PutRow ==
    ASSUME Typed, NEW t \in Task, NEW r \in Row, Legal(t, task[t], r),
           task' = [task EXCEPT ![t] = r]
    PROVE  RowsStep
    BY DEF Typed, RowsStep, Legal

LEMMA NoRow ==
    ASSUME Typed, UNCHANGED task
    PROVE  RowsStep
    BY DEF Typed, RowsStep, Legal

(* A step of one run, and a step that leaves the runs alone.               *)
LEMMA PutRun ==
    ASSUME Typed, NEW c \in Controller, NEW t \in Task, NEW r \in Run,
           r.claim \in {run[c][t].claim, 0},
           Slotted(run[c][t]) => Slotted(r),
           run' = [run EXCEPT ![c][t] = r], claims' = claims
    PROVE  RunsStep
    BY DEF Typed, RunsStep

LEMMA NoRunStep ==
    ASSUME Typed, UNCHANGED <<run, claims>>
    PROVE  RunsStep
    BY DEF Typed, RunsStep

LEMMA NoRunTyped == NoRun \in Run
    BY DEF NoRun, Run, Fresh, State

(* The labels of a run that executes steps.                                *)
LEMMA BusyCap ==
    /\ {"launch", "suspend", "clearing"} \cup BusyPc \subseteq CapPc
    /\ {"working", "step", "recorded", "calling", "persist"} \subseteq BusyPc
    /\ CapPc \cup {"asking", "deliver", "report", "resolve", "close"}
          \subseteq ClaimPc \cup RunPc \cup {"none", "close"}
    /\ \A l \in {"asking", "deliver", "report", "resolve", "close"} : l \notin CapPc
    /\ \A l \in CapPc : l \notin {"none", "close"}
    BY DEF CapPc, BusyPc, ClaimPc, RunPc, AskPc, EndPc

LEMMA GotoStep ==
    ASSUME Typed, NEW c \in Controller, NEW t \in Task, NEW l \in CapPc \cup {"resolve"},
           l \in CapPc => run[c][t].pc \in CapPc,
           run[c][t].pc \notin {"none", "close"},
           Goto(c, t, l), claims' = claims
    PROVE  RunsStep
<1>1. run[c][t] \in Run BY DEF Typed
<1>2. [run[c][t] EXCEPT !.pc = l] \in Run
    BY <1>1 DEF Run, CapPc, RunPc, ClaimPc, EndPc, AskPc
<1>3. run' = [run EXCEPT ![c][t] = [run[c][t] EXCEPT !.pc = l]] BY DEF Goto, Typed
<1>4. Slotted(run[c][t]) => Slotted([run[c][t] EXCEPT !.pc = l])
    BY <1>1 DEF Run, Slotted
<1> QED BY ZenonT(40), <1>1, <1>2, <1>3, <1>4, PutRun DEF Run

LEMMA LeaveStep ==
    ASSUME Typed, NEW c \in Controller, NEW t \in Task, Leave(c, t), claims' = claims
    PROVE  RunsStep
<1> DEFINE r == [NoRun EXCEPT !.pc = "close", !.claim = run[c][t].claim, !.stop = run[c][t].stop]
<1>1. run[c][t] \in Run BY DEF Typed
<1>2. r \in Run /\ r.claim = run[c][t].claim /\ r.pc = "close"
    BY ZenonT(40), <1>1 DEF Run, NoRun, Fresh, State
<1>3. Slotted(r) BY <1>2 DEF Slotted, CapPc, ClaimPc, BusyPc
<1> QED BY ZenonT(40), <1>1, <1>2, <1>3, PutRun DEF Leave

LEMMA EndRun ==
    ASSUME Typed, NEW c \in Controller, NEW t \in Task,
           run' = [run EXCEPT ![c][t] = NoRun], claims' = claims
    PROVE  RunsStep
<1>1. NoRun.claim = 0 /\ Slotted(NoRun)
    BY DEF NoRun, Slotted, CapPc, ClaimPc, BusyPc
<1> QED BY ZenonT(40), <1>1, NoRunTyped, PutRun

-----------------------------------------------------------------------------
(* The queue: claims, submission, recovery.                                *)

LEMMA ClaimOK ==
    ASSUME Typed, NEW c \in Controller, NEW t \in Task, HasCapacity(t),
           NEW r \in Run, Claim(c, t, r)
    PROVE  ClaimsStep
<1> DEFINE q == [r EXCEPT !.claim = claims + 1, !.attempt = task[t].attempt,
                          !.slots = FreeSlots(t)]
<1>1. CASE run[c][t] = NoRun
  <2>1. FreeSlots(t) \subseteq Slot /\ FreeSlots(t) \cap GlobalSlot # {}
    BY DEF FreeSlots, FirstFree, HasCapacity, Slot
  <2>2. task[t].attempt \in Nat /\ claims + 1 \in Nat /\ claims + 1 # 0 BY DEF Typed, Row
  <2>3. q \in Run /\ q.claim = claims + 1 /\ q.slots = FreeSlots(t)
    BY ZenonT(40), <2>1, <2>2 DEF Run
  <2>4. run' = [run EXCEPT ![c][t] = q] /\ claims' = claims + 1 BY <1>1 DEF Claim
  <2> HIDE DEF q
  <2>5. Slotted(q) BY <2>1, <2>2, <2>3 DEF Slotted
  <2> QED BY <2>3, <2>4, <2>5 DEF Typed, ClaimsStep
<1>2. CASE run[c][t] # NoRun
    BY <1>2 DEF Claim, Typed, ClaimsStep
<1> QED BY <1>1, <1>2

LEMMA ClaimReadyOK ==
    ASSUME Typed, NEW c \in Controller, NEW t \in Task, ClaimReady(c, t)
    PROVE  StepOK
<1>1. task[t] \in Row /\ task[t].status = "ready" BY DEF Typed, ClaimReady, Candidate
<1>2. RowsStep BY ZenonT(40), <1>1, MoveRunning, PutRow DEF ClaimReady
<1>3. [NoRun EXCEPT !.pc = "claimed"] \in Run
    BY ZenonT(40) DEF NoRun, Run, Fresh, State, ClaimPc
<1>4. ClaimsStep BY <1>3, ClaimOK DEF ClaimReady, Claimable
<1> QED BY <1>2, <1>4 DEF StepOK, Typed, ClaimReady

LEMMA LaunchOK ==
    ASSUME Typed, NEW c \in Controller, NEW t \in Task, Launch(c, t)
    PROVE  StepOK
<1> DEFINE q == [run[c][t] EXCEPT !.pc = "launch", !.wf = task[t].wf, !.seen = task[t].attempt]
<1>1. run[c][t] \in Run /\ task[t] \in Row BY DEF Typed
<1>2. run[c][t].pc = "claimed" /\ run' = [run EXCEPT ![c][t] = q] BY DEF Launch, At
<1>3. q \in Run /\ q.claim = run[c][t].claim /\ q.slots = run[c][t].slots
    BY ZenonT(40), <1>1 DEF Run, Row, RunPc
<1>4. Slotted(run[c][t]) => Slotted(q) BY <1>2, <1>3 DEF Slotted, CapPc, ClaimPc
<1> HIDE DEF q
<1>5. RunsStep BY ZenonT(40), <1>2, <1>3, <1>4, PutRun DEF Launch, counters
<1> QED BY <1>5, NoRow DEF StepOK, Typed, Launch

LEMMA SubmitOK ==
    ASSUME Typed, NEW c \in Controller, NEW t \in Task, Submit(c, t)
    PROVE  StepOK
<1>1. task[t] \in Row BY DEF Typed
<1>2. RowsStep BY ZenonT(40), <1>1, MoveLegal, PutRow DEF Submit, Status
<1>3. RunsStep BY NoRunStep DEF Submit
<1> QED BY <1>2, <1>3 DEF StepOK, Typed, Submit

LEMMA TransitionToReadyOK ==
    ASSUME Typed, NEW c \in Controller, NEW t \in Task, TransitionToReady(c, t)
    PROVE  StepOK
<1>1. task[t] \in Row BY DEF Typed
<1>2. CASE Met(t)
    BY ZenonT(40), <1>1, <1>2, MoveLegal, PutRow, NoRunStep
         DEF TransitionToReady, Status, StepOK, Typed, counters
<1>3. CASE ~Met(t)
    BY <1>3, NoRow, NoRunStep DEF TransitionToReady, StepOK, Typed, counters
<1> QED BY <1>2, <1>3

LEMMA DueOK ==
    ASSUME Typed, NEW t \in Task, Due(t)
    PROVE  StepOK
<1> DEFINE r == [task[t] EXCEPT !.due = TRUE]
<1>1. task[t] \in Row BY DEF Typed
<1>2. r \in Row /\ r.status = task[t].status BY ZenonT(40), <1>1 DEF Row
<1>3. task' = [task EXCEPT ![t] = r] BY DEF Due
<1> HIDE DEF r
<1>4. RowsStep BY ZenonT(40), <1>2, <1>3, PutRow DEF Legal
<1>5. RunsStep BY NoRunStep DEF Due, counters
<1> QED BY <1>4, <1>5 DEF StepOK, Typed, Due

(* A row that is read for a claim.                                         *)
LEMMA ReadRow ==
    ASSUME Typed, NEW c \in Controller, NEW S \in SUBSET Read,
           pending' = [pending EXCEPT ![c] = @ \cup S]
    PROVE  pending' \in [Controller -> SUBSET Read]
    BY DEF Typed

LEMMA ListTasksOK ==
    ASSUME Typed, NEW c \in Controller, NEW why \in Listed, ListTasks(c, why)
    PROVE  StepOK
<1> DEFINE rows == {t \in Task : task[t].status = why /\ (why = "paused" => task[t].wf.pause)}
           S == {[task |-> t, why |-> why, wf |-> task[t].wf, attempt |-> task[t].attempt]
                    : t \in rows}
<1>1. \A t \in Task : task[t].wf \in State /\ task[t].attempt \in Nat BY DEF Typed, Row
<1>2. S \in SUBSET Read BY <1>1 DEF Read, Listed
<1>3. pending' = [pending EXCEPT ![c] = @ \cup S] BY DEF ListTasks
<1> HIDE DEF S
<1>4. pending' \in [Controller -> SUBSET Read] BY ZenonT(40), <1>2, <1>3, ReadRow
<1> QED BY <1>4, NoRow, NoRunStep DEF StepOK, ListTasks, counters

(* A row that a user has go on keeps its status, or turns running.         *)
LEMMA ByUserRow ==
    ASSUME Typed, NEW r \in Row
    PROVE  ByUser(r) \in Row /\ ByUser(r).status = r.status /\ ByUser(r).attempt = r.attempt
<1>1. claims \in Nat BY DEF Typed
<1> QED BY <1>1 DEF Row, ByUser

LEMMA TakenRow ==
    ASSUME Typed, NEW c \in Controller, NEW e \in pending[c], e.why # "proceed",
           task[e.task].status = Demanded(e.why)
    PROVE  Taken(c, e) \in Row /\ Legal(e.task, task[e.task], Taken(c, e))
<1> DEFINE b == ByUser(task[e.task])
           m == Move(b, "running")
           r == [m EXCEPT !.wf = e.wf]
<1>1. e \in Read BY DEF Typed
<1>2. e.task \in Task /\ e.wf \in State /\ task[e.task] \in Row BY <1>1 DEF Read, Typed
<1>3. b \in Row /\ b.status = task[e.task].status BY <1>2, ByUserRow
<1>4. m \in Row BY <1>3 DEF Row, Move, Status
<1>5. CASE e.why \in Listed BY <1>2, <1>5 DEF Taken, Legal
<1>6. CASE e.why \notin Listed /\ e.why = "retry" /\ run[c][e.task] # NoRun
  <2>1. Taken(c, e) = r BY <1>6 DEF Taken
  <2>2. task[e.task].status = "failed" BY <1>6 DEF Demanded, Listed
  <2>3. Reviving(c, e.task) BY <1>6 DEF Reviving
  <2> HIDE DEF m
  <2>4. r \in Row BY <1>2, <1>4 DEF Row
  <2> QED BY <2>1, <2>2, <2>3, <2>4 DEF Legal
<1>7. CASE e.why \notin Listed /\ ~(e.why = "retry" /\ run[c][e.task] # NoRun)
  <2>1. Taken(c, e) = b BY <1>7 DEF Taken
  <2> QED BY <1>3, <2>1 DEF Legal
<1> QED BY <1>5, <1>6, <1>7

LEMMA ClaimExistingOK ==
    ASSUME Typed, NEW c \in Controller, ClaimExisting(c)
    PROVE  StepOK
<1>1. PICK e \in pending[c] : ClaimExisting(c)!(e)
    BY ZenonT(40) DEF ClaimExisting
<1>2. e \in Read BY DEF Typed
<1>3. e.task \in Task /\ e.wf \in State /\ e.attempt \in Nat BY <1>2 DEF Read
<1>4. pending' \in [Controller -> SUBSET Read] /\ e.why # "proceed"
    BY <1>1 DEF Typed, NextEntry
<1>5. CASE /\ task[e.task].status = Demanded(e.why)
           /\ Claimable(e.task)
           /\ Claim(c, e.task, [NoRun EXCEPT !.pc = Entry(e.why), !.wf = e.wf, !.seen = e.attempt])
           /\ task' = [task EXCEPT ![e.task] = Taken(c, e)]
  <2> DEFINE r == [NoRun EXCEPT !.pc = Entry(e.why), !.wf = e.wf, !.seen = e.attempt]
  <2>1. Entry(e.why) \in ClaimPc \cup RunPc
      BY <1>2, <1>4 DEF Read, Entry, Listed, ClaimPc, RunPc
  <2>2. r \in Run BY ZenonT(40), <2>1, <1>3 DEF NoRun, Run, Fresh, State
  <2> HIDE DEF r
  <2>3. ClaimsStep BY <1>3, <1>5, <2>2, ClaimOK DEF Claimable, r
  <2>4. RowsStep BY ZenonT(40), <1>3, <1>4, <1>5, TakenRow, PutRow
  <2> QED BY <1>4, <2>3, <2>4 DEF StepOK
<1>6. CASE UNCHANGED <<task, leases, run, claims>>
    BY <1>4, <1>6, NoRow, NoRunStep DEF StepOK
<1> QED BY <1>1, <1>5, <1>6

LEMMA ClassifyOK ==
    ASSUME Typed, NEW c \in Controller, NEW t \in Task, Classify(c, t)
    PROVE  StepOK
<1>1. task[t] \in Row /\ run[c][t] \in Run BY DEF Typed
<1>2. claims' = claims /\ pending' \in [Controller -> SUBSET Read]
    BY DEF Classify, counters, Typed
<1>3. CASE ~Ambiguous(t)
  <2>1. run[c][t].pc \in CapPc /\ "launch" \in CapPc /\ Goto(c, t, "launch") /\ task' = task
      BY <1>3 DEF Classify, At, CapPc, ClaimPc
  <2>2. RunsStep BY <2>1, <1>2, BusyCap, GotoStep
  <2> QED BY <2>1, <2>2, <1>2, NoRow DEF StepOK, Typed
<1>4. CASE Ambiguous(t) /\ Fence(c, t)
  <2> DEFINE m == Move(task[t], "failed")
             r == [m EXCEPT !.stepRun = FALSE]
  <2>1. m \in Row /\ Legal(t, task[t], m) BY <1>1, MoveLegal DEF Status
  <2>2. task' = [task EXCEPT ![t] = r] BY <1>4 DEF Classify
  <2> HIDE DEF m
  <2>3. r \in Row /\ r.status = m.status /\ r.attempt = m.attempt BY ZenonT(40), <2>1 DEF Row
  <2> HIDE DEF r
  <2>4. RowsStep BY ZenonT(40), <2>1, <2>2, <2>3, PutRow DEF Legal
  <2>5. RunsStep BY <1>2, <1>4, EndRun DEF Classify
  <2> QED BY <1>2, <2>4, <2>5 DEF StepOK, Typed
<1>5. CASE Ambiguous(t) /\ ~Fence(c, t)
  <2>1. RunsStep BY <1>2, <1>5, EndRun DEF Classify
  <2> QED BY <1>2, <1>5, <2>1, NoRow DEF StepOK, Typed, Classify
<1> QED BY <1>3, <1>4, <1>5

-----------------------------------------------------------------------------
(* Requests of users.                                                      *)

(* Telling a local run to stop.                                            *)
LEMMA StopRun ==
    ASSUME Typed, NEW c \in Controller, NEW t \in Task, NEW x \in {"yield", "kill"},
           run' = [run EXCEPT ![c][t].stop = x], claims' = claims
    PROVE  RunsStep
<1> DEFINE q == [run[c][t] EXCEPT !.stop = x]
<1>1. run[c][t] \in Run BY DEF Typed
<1>2. q \in Run /\ q.claim = run[c][t].claim /\ q.slots = run[c][t].slots
      /\ q.pc = run[c][t].pc
    BY <1>1 DEF Run
<1>3. run' = [run EXCEPT ![c][t] = q] BY DEF Typed
<1>4. Slotted(run[c][t]) => Slotted(q) BY <1>2 DEF Slotted
<1> HIDE DEF q
<1> QED BY ZenonT(40), <1>2, <1>3, <1>4, PutRun

LEMMA PauseTaskOK ==
    ASSUME Typed, NEW c \in Controller, NEW t \in Task, PauseTask(c, t)
    PROVE  StepOK
<1>1. task[t] \in Row BY DEF Typed
<1>2. RowsStep BY ZenonT(40), <1>1, MoveLegal, PutRow DEF PauseTask, Status
<1>3. RunsStep
  <2>1. CASE Launched(c, t) /\ run[c][t].stop = "no"
      BY ZenonT(40), <2>1, StopRun DEF PauseTask
  <2>2. CASE ~(Launched(c, t) /\ run[c][t].stop = "no")
      BY <2>2, NoRunStep DEF PauseTask
  <2> QED BY <2>1, <2>2
<1> QED BY <1>2, <1>3 DEF StepOK, Typed, PauseTask

LEMMA ResumeTaskOK ==
    ASSUME Typed, NEW c \in Controller, NEW t \in Task, ResumeTask(c, t)
    PROVE  StepOK
<1> DEFINE w == IF Launched(c, t) /\ run[c][t].stop = "no" THEN "proceed" ELSE "resume"
           e == [task |-> t, wf |-> task[t].wf, attempt |-> task[t].attempt, why |-> w]
<1>1. task[t] \in Row BY DEF Typed
<1>2. w \in {"proceed", "resume"} OBVIOUS
<1>3. pending' = [pending EXCEPT ![c] = @ \cup {e}] BY DEF ResumeTask
<1> HIDE DEF w
<1>4. e \in Read BY <1>1, <1>2 DEF Row, Read
<1> HIDE DEF e
<1>5. pending' \in [Controller -> SUBSET Read] BY ZenonT(40), <1>3, <1>4, ReadRow
<1> QED BY <1>5, NoRow, NoRunStep DEF StepOK, ResumeTask

LEMMA ProceedOK ==
    ASSUME Typed, NEW c \in Controller, NEW t \in Task, Proceed(c, t)
    PROVE  StepOK
<1> DEFINE m == Move(task[t], "running")
<1>1. PICK e \in pending[c] : Proceed(c, t)!(e) BY ZenonT(40) DEF Proceed
<1>2. task[t] \in Row /\ pending' \in [Controller -> SUBSET Read] BY <1>1 DEF Typed
<1>3. RunsStep BY <1>1, NoRunStep DEF counters
<1>4. CASE task[t].status \in AllowedFrom("running")
  <2>1. m \in Row /\ m.status = "running" BY <1>2, <1>4 DEF Move, Row, Status
  <2>2. Reviving(c, t) BY <1>1 DEF Reviving
  <2>3. Legal(t, task[t], ByUser(m)) BY <1>4, <2>2 DEF Legal, AllowedFrom
  <2>4. task' = [task EXCEPT ![t] = ByUser(m)] BY <1>1, <1>4
  <2> HIDE DEF m
  <2>5. RowsStep BY ZenonT(40), <2>1, <2>3, <2>4, ByUserRow, PutRow
  <2> QED BY <1>2, <1>3, <2>5 DEF StepOK
<1>5. CASE task[t].status \notin AllowedFrom("running")
    BY <1>1, <1>2, <1>3, <1>5, NoRow DEF StepOK
<1> QED BY <1>4, <1>5

LEMMA RetryFailedTaskOK ==
    ASSUME Typed, NEW c \in Controller, NEW t \in Task, RetryFailedTask(c, t)
    PROVE  StepOK
<1> DEFINE w == Unpaused(task[t].wf)
           e == [task |-> t, why |-> "retry", wf |-> w, attempt |-> task[t].attempt]
<1>1. task[t].wf \in State /\ task[t].attempt \in Nat BY DEF Typed, Row
<1>2. w \in State BY <1>1, StateOps
<1>3. pending' = [pending EXCEPT ![c] = @ \cup {e}] BY DEF RetryFailedTask
<1> HIDE DEF w
<1>4. e \in Read BY <1>1, <1>2 DEF Read
<1> HIDE DEF e
<1>5. pending' \in [Controller -> SUBSET Read] BY ZenonT(40), <1>3, <1>4, ReadRow
<1> QED BY <1>5, NoRow, NoRunStep DEF StepOK, RetryFailedTask

LEMMA ResumeOK ==
    ASSUME Typed, NEW c \in Controller, NEW t \in Task, Resume(c, t)
    PROVE  StepOK
<1> DEFINE m == Move(task[t], "running")
<1>1. task[t] \in Row /\ run[c][t] \in Run /\ run[c][t].wf \in State BY DEF Typed, Run
<1>2. claims' = claims /\ pending' = pending /\ At(c, t, {"resuming", "retrying"})
    BY DEF Resume, counters
<1>3. CASE m.status = "running" /\ task[t].status # "running"
  <2> DEFINE r == [m EXCEPT !.wf = IF At(c, t, {"retrying"}) THEN run[c][t].wf ELSE task[t].wf]
             n == IF At(c, t, {"retrying"}) THEN task[t].attempt ELSE run[c][t].seen
             q == [run[c][t] EXCEPT !.pc = "launch", !.seen = n]
  <2>1. m \in Row /\ task[t].status \notin {"cancelled", "completed"}
      BY <1>1, <1>3 DEF Move, AllowedFrom, Row, Status
  <2>2. task' = [task EXCEPT ![t] = r] /\ run' = [run EXCEPT ![c][t] = q] BY <1>3 DEF Resume
  <2> HIDE DEF m
  <2>3. r \in Row BY <1>1, <2>1 DEF Row, At
  <2> HIDE DEF r
  <2>4. Legal(t, task[t], r) BY <1>2, <2>1 DEF Legal, Reviving
  <2>5. RowsStep BY ZenonT(40), <2>2, <2>3, <2>4, PutRow
  <2>6. n \in Nat BY <1>1 DEF Row, Run
  <2> HIDE DEF n
  <2>7. q \in Run /\ q.claim = run[c][t].claim /\ q.slots = run[c][t].slots
      BY ZenonT(40), <1>1, <2>6, BusyCap DEF Run
  <2>8. Slotted(run[c][t]) => Slotted(q) BY <1>2, <2>7 DEF Slotted, At, CapPc, ClaimPc
  <2> HIDE DEF q
  <2>9. RunsStep BY ZenonT(40), <1>2, <2>2, <2>7, <2>8, PutRun
  <2> QED BY <1>2, <2>5, <2>9 DEF StepOK, Typed
<1>4. CASE ~(m.status = "running" /\ task[t].status # "running")
  <2>1. run' = [run EXCEPT ![c][t] = NoRun] /\ task' = task BY <1>4 DEF Resume
  <2>2. RunsStep BY ZenonT(40), <1>2, <2>1, EndRun
  <2> QED BY <1>2, <2>1, <2>2, NoRow DEF StepOK, Typed
<1> QED BY <1>3, <1>4

LEMMA KillRun ==
    ASSUME Typed, NEW c \in Controller, NEW t \in Task, claims' = claims,
           run' = IF Launched(c, t) THEN [run EXCEPT ![c][t].stop = "kill"] ELSE run
    PROVE  RunsStep
<1>1. CASE Launched(c, t) BY ZenonT(40), <1>1, StopRun
<1>2. CASE ~Launched(c, t) BY <1>2, NoRunStep
<1> QED BY <1>1, <1>2

LEMMA RequestRevisionOK ==
    ASSUME Typed, NEW c \in Controller, NEW t \in Task, NEW n \in 0 .. (NSteps - 1),
           RequestRevision(c, t, n)
    PROVE  StepOK
<1> DEFINE a == task[t].attempt + 1
           w == [rev |-> a, step |-> n, ver |-> task[t].wf.ver, pause |-> FALSE]
           row == [task[t] EXCEPT !.status = "running", !.attempt = a, !.wf = w,
                                  !.stepRun = FALSE, !.base = claims]
           e == [task |-> t, why |-> "revise", wf |-> row.wf, attempt |-> row.attempt]
<1>1. task[t] \in Row /\ claims \in Nat /\ task[t].wf \in State /\ task[t].attempt \in Nat
      /\ n \in Nat
    BY DEF Typed, Row
<1>2. w \in State BY <1>1 DEF State
<1>3. a \in Nat /\ a > task[t].attempt BY <1>1
<1>4. /\ task' = [task EXCEPT ![t] = row]
      /\ pending' = [pending EXCEPT ![c] = @ \cup {e}]
      /\ run' = IF Launched(c, t) THEN [run EXCEPT ![c][t].stop = "kill"] ELSE run
      /\ claims' = claims
      /\ task[t].status # "cancelled"
    BY DEF RequestRevision
<1> HIDE DEF a, w
<1>5. row \in Row /\ row.attempt > task[t].attempt /\ row.wf \in State
    BY ZenonT(40), <1>1, <1>2, <1>3 DEF Row, Status
<1> HIDE DEF row
<1>6. e \in Read BY <1>5 DEF Read, Row
<1> HIDE DEF e
<1>7. RowsStep BY ZenonT(40), <1>4, <1>5, PutRow DEF Legal
<1>8. pending' \in [Controller -> SUBSET Read] BY ZenonT(40), <1>4, <1>6, ReadRow
<1>9. RunsStep BY <1>4, KillRun
<1> QED BY <1>7, <1>8, <1>9 DEF StepOK

LEMMA CancelTaskOK ==
    ASSUME Typed, NEW c \in Controller, NEW t \in Task, CancelTask(c, t)
    PROVE  StepOK
<1> DEFINE m == Move(task[t], "cancelled")
           w == NewVersion(Unpaused(task[t].wf))
           r == [m EXCEPT !.wf = w, !.stepRun = FALSE]
<1>1. task[t] \in Row /\ task[t].wf \in State BY DEF Typed, Row
<1>2. m \in Row /\ Legal(t, task[t], m) BY <1>1, MoveLegal DEF Status
<1>3. task' = [task EXCEPT ![t] = r] BY DEF CancelTask
<1>4. w \in State BY <1>1, StateOps
<1> HIDE DEF m, w
<1>7. r \in Row /\ r.status = m.status /\ r.attempt = m.attempt BY ZenonT(40), <1>2, <1>4 DEF Row
<1> HIDE DEF r
<1>8. RowsStep BY ZenonT(40), <1>2, <1>3, <1>7, PutRow DEF Legal
<1>9. RunsStep BY KillRun DEF CancelTask
<1> QED BY <1>8, <1>9 DEF StepOK, Typed, CancelTask

-----------------------------------------------------------------------------
(* The run.                                                                *)

(* A transaction that leaves the status alone.                             *)
LEMMA EditRow ==
    ASSUME Typed, NEW t \in Task, NEW r \in Row, r.status = task[t].status,
           task' = [task EXCEPT ![t] = r]
    PROVE  RowsStep
<1>1. Legal(t, task[t], r) BY DEF Legal
<1> QED BY ZenonT(40), <1>1, PutRow

LEMMA SetStepRun ==
    ASSUME Typed, NEW t \in Task, NEW b \in BOOLEAN, task' = [task EXCEPT ![t].stepRun = b]
    PROVE  RowsStep
<1> DEFINE r == [task[t] EXCEPT !.stepRun = b]
<1>1. task[t] \in Row BY DEF Typed
<1>2. r \in Row /\ r.status = task[t].status BY <1>1 DEF Row
<1>3. task' = [task EXCEPT ![t] = r] BY DEF Typed
<1> HIDE DEF r
<1> QED BY ZenonT(40), <1>2, <1>3, EditRow

LEMMA BeginOK ==
    ASSUME Typed, NEW c \in Controller, NEW t \in Task, Begin(c, t)
    PROVE  StepOK
<1> DEFINE r == [task[t] EXCEPT !.wf = run[c][t].wf]
<1>1. task[t] \in Row /\ run[c][t].wf \in State BY DEF Typed, Run
<1>2. r \in Row /\ r.status = task[t].status BY <1>1 DEF Row
<1>3. task' = [task EXCEPT ![t] = r] BY DEF Begin, Typed
<1> HIDE DEF r
<1>4. RowsStep BY ZenonT(40), <1>2, <1>3, EditRow
<1>5. RunsStep BY BusyCap, GotoStep DEF Begin, At, counters
<1> QED BY <1>4, <1>5 DEF StepOK, Typed, Begin

LEMMA UnknownWorkflowOK ==
    ASSUME Typed, NEW c \in Controller, NEW t \in Task, UnknownWorkflow(c, t)
    PROVE  StepOK
<1> DEFINE q == [run[c][t] EXCEPT !.pc = "report", !.final = "failed"]
<1>1. task[t] \in Row /\ run[c][t] \in Run BY DEF Typed
<1>2. RowsStep
  <2>1. CASE task[t].attempt = run[c][t].seen
      BY ZenonT(40), <1>1, <2>1, MoveLegal, PutRow DEF UnknownWorkflow, Status
  <2>2. CASE task[t].attempt # run[c][t].seen
      BY <2>2, NoRow DEF UnknownWorkflow
  <2> QED BY <2>1, <2>2
<1>3. q \in Run /\ q.claim = run[c][t].claim /\ q.pc = "report"
    BY ZenonT(40), <1>1, BusyCap DEF Run
<1>4. run' = [run EXCEPT ![c][t] = q] /\ claims' = claims BY DEF UnknownWorkflow
<1> HIDE DEF q
<1>5. Slotted(run[c][t]) => Slotted(q)
    BY <1>3, BusyCap DEF Slotted, UnknownWorkflow, At
<1>6. RunsStep BY ZenonT(40), <1>3, <1>4, <1>5, PutRun
<1> QED BY <1>2, <1>6 DEF StepOK, Typed, UnknownWorkflow

LEMMA StartStepOK ==
    ASSUME Typed, NEW c \in Controller, NEW t \in Task, StartStep(c, t)
    PROVE  StepOK
<1>1. run[c][t].wf.pause \in BOOLEAN BY DEF Typed, Run, State
<1>2. RowsStep BY ZenonT(40), <1>1, SetStepRun DEF StartStep
<1>3. run[c][t].pc \in CapPc BY BusyCap DEF StartStep, At
<1>4. RunsStep
  <2>1. CASE run[c][t].wf.pause
      BY <1>3, <2>1, BusyCap, GotoStep DEF StartStep, counters
  <2>2. CASE ~run[c][t].wf.pause
      BY <1>3, <2>2, BusyCap, GotoStep DEF StartStep, counters
  <2> QED BY <1>1, <2>1, <2>2
<1> QED BY <1>2, <1>4 DEF StepOK, Typed, StartStep

LEMMA RecordCallOK ==
    ASSUME Typed, NEW c \in Controller, NEW t \in Task, RecordCall(c, t)
    PROVE  StepOK
<1>1. RunsStep BY BusyCap, GotoStep DEF RecordCall, At, counters
<1> QED BY <1>1, NoRow DEF StepOK, Typed, RecordCall

LEMMA DispatchOK ==
    ASSUME Typed, NEW c \in Controller, NEW t \in Task, Dispatch(c, t)
    PROVE  StepOK
<1>1. RunsStep BY BusyCap, GotoStep DEF Dispatch, At, counters
<1> QED BY <1>1, NoRow DEF StepOK, Typed, Dispatch

LEMMA ToolResultOK ==
    ASSUME Typed, NEW c \in Controller, NEW t \in Task, ToolResult(c, t)
    PROVE  StepOK
<1>1. CASE Fence(c, t)
  <2>1. RunsStep BY <1>1, BusyCap, GotoStep DEF ToolResult, At, counters
  <2> QED BY <2>1, NoRow DEF StepOK, Typed, ToolResult
<1>2. CASE ~Fence(c, t)
  <2>1. RunsStep BY <1>2, LeaveStep DEF ToolResult, counters
  <2> QED BY <2>1, NoRow DEF StepOK, Typed, ToolResult
<1> QED BY <1>1, <1>2

LEMMA EndStepOK ==
    ASSUME Typed, NEW c \in Controller, NEW t \in Task, EndStep(c, t)
    PROVE  StepOK
<1>1. RowsStep BY ZenonT(40), SetStepRun DEF EndStep
<1>2. RunsStep BY BusyCap, GotoStep DEF EndStep, At, counters
<1> QED BY <1>1, <1>2 DEF StepOK, Typed, EndStep

LEMMA PersistOK ==
    ASSUME Typed, NEW c \in Controller, NEW t \in Task, Persist(c, t)
    PROVE  StepOK
<1> DEFINE v == NewVersion(run[c][t].wf)
           next == [v EXCEPT !.step = @ + 1]
           r == [task[t] EXCEPT !.wf = next]
           q == [run[c][t] EXCEPT !.wf = next, !.pc = "working"]
<1>1. task[t] \in Row /\ run[c][t] \in Run /\ run[c][t].wf \in State BY DEF Typed, Run
<1>2. claims' = claims /\ pending' = pending BY DEF Persist, counters
<1>3. CASE task[t].wf.ver = run[c][t].wf.ver
  <2>1. task' = [task EXCEPT ![t] = r] /\ run' = [run EXCEPT ![c][t] = q]
      BY <1>3 DEF Persist, Typed
  <2>2. v \in State BY <1>1, StateOps
  <2> HIDE DEF v
  <2>3. v.step + 1 \in Nat BY <2>2 DEF State
  <2>4. next \in State BY <2>2, <2>3 DEF State
  <2> HIDE DEF next
  <2>5. r \in Row /\ r.status = task[t].status BY <1>1, <2>4 DEF Row
  <2>6. q \in Run /\ q.claim = run[c][t].claim /\ q.slots = run[c][t].slots
      BY ZenonT(40), <1>1, <2>4, BusyCap DEF Run
  <2>7. Slotted(run[c][t]) => Slotted(q) BY <2>6, BusyCap DEF Slotted, Persist, At
  <2> HIDE DEF r, q
  <2>8. RowsStep BY ZenonT(40), <2>1, <2>5, EditRow
  <2>9. RunsStep BY ZenonT(40), <1>2, <2>1, <2>6, <2>7, PutRun
  <2> QED BY <1>2, <2>8, <2>9 DEF StepOK, Typed
<1>4. CASE task[t].wf.ver # run[c][t].wf.ver
  <2>1. RunsStep BY <1>2, <1>4, LeaveStep DEF Persist
  <2> QED BY <1>2, <1>4, <2>1, NoRow DEF StepOK, Typed, Persist
<1> QED BY <1>3, <1>4

LEMMA DeferOK ==
    ASSUME Typed, NEW c \in Controller, NEW t \in Task, Defer(c, t)
    PROVE  StepOK
<1> DEFINE v == NewVersion(run[c][t].wf)
           r == [task[t] EXCEPT !.status = "ready", !.due = FALSE, !.wf = v, !.stepRun = FALSE]
<1>1. task[t] \in Row /\ run[c][t].wf \in State /\ task[t].status = "running"
    BY DEF Typed, Run, Defer
<1>2. v \in State BY <1>1, StateOps
<1>3. task' = [task EXCEPT ![t] = r] BY DEF Defer
<1> HIDE DEF v
<1>4. r \in Row BY ZenonT(40), <1>1, <1>2 DEF Row, Status
<1> HIDE DEF r
<1>5. RowsStep BY ZenonT(40), <1>1, <1>3, <1>4, PutRow DEF Legal
<1>6. RunsStep BY LeaveStep DEF Defer
<1> QED BY <1>5, <1>6 DEF StepOK, Typed, Defer

-----------------------------------------------------------------------------
(* Questions to the user.                                                  *)

LEMMA AskUserOK ==
    ASSUME Typed, NEW c \in Controller, NEW t \in Task, AskUser(c, t)
    PROVE  StepOK
<1> DEFINE w == [run[c][t].wf EXCEPT !.pause = TRUE]
           m == Move(task[t], "paused")
           r == [m EXCEPT !.wf = w, !.stepRun = FALSE]
           q == [run[c][t] EXCEPT !.wf = w, !.pc = "suspend"]
<1>1. task[t] \in Row /\ run[c][t] \in Run /\ run[c][t].wf \in State BY DEF Typed, Run
<1>2. task' = [task EXCEPT ![t] = r] /\ run' = [run EXCEPT ![c][t] = q] /\ claims' = claims
    BY DEF AskUser
<1>3. w \in State BY ZenonT(40), <1>1 DEF State
<1>4. m \in Row /\ Legal(t, task[t], m) BY <1>1, MoveLegal DEF Status
<1> HIDE DEF w, m
<1>5. r \in Row /\ r.status = m.status /\ r.attempt = m.attempt BY ZenonT(40), <1>3, <1>4 DEF Row
<1>6. q \in Run /\ q.claim = run[c][t].claim /\ q.slots = run[c][t].slots
    BY ZenonT(40), <1>1, <1>3, BusyCap DEF Run
<1>7. Slotted(run[c][t]) => Slotted(q) BY <1>6, BusyCap DEF Slotted, AskUser, At
<1> HIDE DEF r, q
<1>8. RowsStep BY ZenonT(40), <1>2, <1>4, <1>5, PutRow DEF Legal
<1>9. RunsStep BY ZenonT(40), <1>2, <1>6, <1>7, PutRun
<1> QED BY <1>8, <1>9 DEF StepOK, Typed, AskUser

LEMMA SuspendOK ==
    ASSUME Typed, NEW c \in Controller, NEW t \in Task, Suspend(c, t)
    PROVE  StepOK
<1>1. claims' = claims /\ pending' = pending /\ task' = task BY DEF Suspend, counters
<1>2. CASE Held(c, t)
  <2> DEFINE q == [run[c][t] EXCEPT !.slots = {}, !.pc = "asking"]
  <2>1. run[c][t] \in Run BY DEF Typed
  <2>2. q \in Run /\ q.claim = run[c][t].claim /\ q.pc = "asking" BY ZenonT(40), <2>1, BusyCap DEF Run
  <2>3. run' = [run EXCEPT ![c][t] = q] BY <1>2 DEF Suspend
  <2> HIDE DEF q
  <2>4. Slotted(run[c][t]) => Slotted(q) BY <2>2, BusyCap DEF Slotted, Suspend, At
  <2>5. RunsStep BY ZenonT(40), <1>1, <2>2, <2>3, <2>4, PutRun
  <2> QED BY <1>1, <2>5, NoRow DEF StepOK, Typed
<1>3. CASE ~Held(c, t)
  <2>1. RunsStep BY <1>1, <1>3, LeaveStep DEF Suspend
  <2> QED BY <1>1, <2>1, NoRow DEF StepOK, Typed
<1> QED BY <1>2, <1>3

LEMMA AnsweredOK ==
    ASSUME Typed, NEW c \in Controller, NEW t \in Task, Answered(c, t)
    PROVE  StepOK
<1> DEFINE q == [run[c][t] EXCEPT !.slots = FreeSlots(t), !.pc = "clearing"]
<1>1. run[c][t] \in Run BY DEF Typed
<1>2. FreeSlots(t) \subseteq Slot /\ FreeSlots(t) \cap GlobalSlot # {}
    BY DEF Answered, FreeSlots, FirstFree, HasCapacity, Slot
<1>3. q \in Run /\ q.claim = run[c][t].claim /\ q.slots = FreeSlots(t)
    BY ZenonT(40), <1>1, <1>2, BusyCap DEF Run
<1>4. run' = [run EXCEPT ![c][t] = q] /\ claims' = claims BY DEF Answered, counters
<1> HIDE DEF q
<1>5. Slotted(run[c][t]) => Slotted(q) BY <1>2, <1>3 DEF Slotted, Answered, At
<1>6. RunsStep BY ZenonT(40), <1>3, <1>4, <1>5, PutRun
<1> QED BY <1>6, NoRow DEF StepOK, Typed, Answered

(* The one step that goes on without slots.                                *)
LEMMA TimedOutOK ==
    ASSUME Typed, NEW c \in Controller, NEW t \in Task, TimedOut(c, t)
    PROVE  StepOK
<1> DEFINE q == [run[c][t] EXCEPT !.pc = "clearing"]
<1>1. run[c][t] \in Run BY DEF Typed
<1>2. q \in Run /\ q.claim = run[c][t].claim BY <1>1, BusyCap DEF Run
<1>3. run' = [run EXCEPT ![c][t] = q] /\ claims' = claims BY DEF TimedOut, Goto, Typed
<1> HIDE DEF q
<1>4. Slotted(run[c][t]) => Slotted(q) BY <1>2 DEF Slotted, TimedOut, Fault, At
<1>5. RunsStep BY ZenonT(40), <1>2, <1>3, <1>4, PutRun
<1> QED BY <1>5, NoRow DEF StepOK, Typed, TimedOut

LEMMA ClearPauseOK ==
    ASSUME Typed, NEW c \in Controller, NEW t \in Task, ClearPause(c, t)
    PROVE  StepOK
<1> DEFINE w == Unpaused(run[c][t].wf)
<1>1. task[t] \in Row /\ run[c][t] \in Run /\ run[c][t].wf \in State BY DEF Typed, Run
<1>2. claims' = claims /\ pending' = pending /\ run[c][t].pc = "clearing"
    BY DEF ClearPause, counters, At
<1>3. w \in State BY <1>1, StateOps
<1>4. CASE task[t].status = "paused"
  <2> DEFINE m == Move(task[t], "running")
             r == [m EXCEPT !.wf = w, !.stepRun = TRUE]
             q == [run[c][t] EXCEPT !.wf = w, !.pc = "step"]
  <2>1. task' = [task EXCEPT ![t] = r] /\ run' = [run EXCEPT ![c][t] = q]
      BY <1>4 DEF ClearPause
  <2>2. m \in Row BY <1>1, <1>4, MoveRunning
  <2> HIDE DEF w, m
  <2>3. r \in Row BY ZenonT(40), <1>3, <2>2 DEF Row
  <2>4. q \in Run /\ q.claim = run[c][t].claim /\ q.slots = run[c][t].slots
      BY ZenonT(40), <1>1, <1>3, BusyCap DEF Run
  <2>5. Slotted(run[c][t]) => Slotted(q) BY <1>2, <2>4, BusyCap DEF Slotted
  <2> HIDE DEF r, q
  <2>6. RowsStep BY ZenonT(40), <1>4, <2>1, <2>3, PutRow DEF Legal
  <2>7. RunsStep BY ZenonT(40), <1>2, <2>1, <2>4, <2>5, PutRun
  <2> QED BY <1>2, <2>6, <2>7 DEF StepOK, Typed
<1>5. CASE task[t].status # "paused"
  <2> DEFINE q == [run[c][t] EXCEPT !.wf = w, !.stop = "yield", !.pc = "step"]
  <2>1. task' = task /\ run' = [run EXCEPT ![c][t] = q] BY <1>5 DEF ClearPause
  <2> HIDE DEF w
  <2>2. q \in Run /\ q.claim = run[c][t].claim /\ q.slots = run[c][t].slots
      BY ZenonT(40), <1>1, <1>3, BusyCap DEF Run
  <2>3. Slotted(run[c][t]) => Slotted(q) BY <1>2, <2>2, BusyCap DEF Slotted
  <2> HIDE DEF q
  <2>4. RunsStep BY ZenonT(40), <1>2, <2>1, <2>2, <2>3, PutRun
  <2> QED BY <1>2, <2>1, <2>4, NoRow DEF StepOK, Typed
<1> QED BY <1>4, <1>5

-----------------------------------------------------------------------------
(* How a run ends, and the faults.                                         *)

LEMMA FinishOK ==
    ASSUME Typed, NEW c \in Controller, NEW t \in Task, NEW s \in {"completed", "failed"},
           Finish(c, t, s)
    PROVE  StepOK
<1>1. task[t] \in Row /\ run[c][t] \in Run /\ run[c][t].wf \in State BY DEF Typed, Run
<1>2. claims' = claims /\ pending' = pending BY DEF Finish
<1>3. CASE task[t].attempt = run[c][t].seen /\ task[t].status = "running"
  <2> DEFINE w == Unpaused(run[c][t].wf)
             m == Move(task[t], s)
             r == [m EXCEPT !.wf = w, !.stepRun = FALSE]
             q == [run[c][t] EXCEPT !.final = s, !.pc = "deliver"]
  <2>1. task' = [task EXCEPT ![t] = r] /\ run' = [run EXCEPT ![c][t] = q]
      BY <1>3 DEF Finish
  <2>2. w \in State BY <1>1, StateOps
  <2>3. m \in Row BY <1>1, MoveLegal DEF Status
  <2> HIDE DEF w, m
  <2>4. r \in Row BY ZenonT(40), <2>2, <2>3 DEF Row
  <2>5. q \in Run /\ q.claim = run[c][t].claim /\ q.pc = "deliver"
    BY ZenonT(40), <1>1, BusyCap DEF Run
  <2> HIDE DEF r, q
  <2>6. Slotted(run[c][t]) => Slotted(q) BY <2>5, BusyCap DEF Slotted, Finish, At
  <2>7. RowsStep BY ZenonT(40), <1>3, <2>1, <2>4, PutRow DEF Legal
  <2>8. RunsStep BY ZenonT(40), <1>2, <2>1, <2>5, <2>6, PutRun
  <2> QED BY <1>2, <2>7, <2>8 DEF StepOK, Typed
<1>4. CASE ~(task[t].attempt = run[c][t].seen /\ task[t].status = "running")
  <2> DEFINE q == [run[c][t] EXCEPT !.final = s, !.stop = "yield", !.pc = "working"]
  <2>1. task' = task /\ run' = [run EXCEPT ![c][t] = q] BY <1>4 DEF Finish
  <2>2. q \in Run /\ q.claim = run[c][t].claim /\ q.slots = run[c][t].slots
      BY ZenonT(40), <1>1, BusyCap DEF Run
  <2>3. Slotted(run[c][t]) => Slotted(q) BY <2>2, BusyCap DEF Slotted, Finish, At
  <2> HIDE DEF q
  <2>4. RunsStep BY ZenonT(40), <1>2, <2>1, <2>2, <2>3, PutRun
  <2> QED BY <1>2, <2>1, <2>4, NoRow DEF StepOK, Typed
<1> QED BY <1>3, <1>4

LEMMA DeliverOK ==
    ASSUME Typed, NEW c \in Controller, NEW t \in Task, Deliver(c, t)
    PROVE  StepOK
<1>1. claims' = claims /\ pending' = pending /\ task' = task BY DEF Deliver, counters
<1>2. RunsStep
  <2>1. CASE At(c, t, {"deliver"}) BY <1>1, <2>1, BusyCap, GotoStep DEF Deliver, At
  <2>2. CASE ~At(c, t, {"deliver"}) BY <1>1, <2>2, LeaveStep DEF Deliver
  <2> QED BY <2>1, <2>2
<1> QED BY <1>1, <1>2, NoRow DEF StepOK, Typed

LEMMA ResolveDependenciesOK ==
    ASSUME Typed, NEW c \in Controller, NEW t \in Task, ResolveDependencies(c, t)
    PROVE  StepOK
<1>1. RunsStep BY LeaveStep DEF ResolveDependencies, counters
<1>2. \A u \in Task : task'[u] \in {task[u], Move(task[u], "ready"), Move(task[u], "paused")}
    BY DEF ResolveDependencies
<1>3. \A u \in Task : task[u] \in Row BY DEF Typed
<1>4. ASSUME NEW u \in Task PROVE task'[u] \in Row /\ Legal(u, task[u], task'[u])
  <2>1. Legal(u, task[u], task[u]) BY DEF Legal
  <2>2. \A s \in {"ready", "paused"} :
           Move(task[u], s) \in Row /\ Legal(u, task[u], Move(task[u], s))
      BY <1>3, MoveLegal DEF Status
  <2> QED BY <1>2, <1>3, <2>1, <2>2
<1>5. task' = [u \in Task |-> task'[u]] BY ZenonT(40) DEF ResolveDependencies
<1>6. RowsStep BY <1>4, <1>5 DEF RowsStep
<1> QED BY <1>1, <1>6 DEF StepOK, Typed, ResolveDependencies

LEMMA LoseFenceOK ==
    ASSUME Typed, NEW c \in Controller, NEW t \in Task, LoseFence(c, t)
    PROVE  StepOK
<1>1. RunsStep BY LeaveStep DEF LoseFence, counters
<1> QED BY <1>1, NoRow DEF StepOK, Typed, LoseFence

LEMMA YieldOK ==
    ASSUME Typed, NEW c \in Controller, NEW t \in Task, Yield(c, t)
    PROVE  StepOK
<1> DEFINE w == IF task[t].wf.ver = run[c][t].wf.ver
                THEN NewVersion(run[c][t].wf) ELSE task[t].wf
           r == [task[t] EXCEPT !.stepRun = FALSE, !.wf = w]
<1>1. task[t] \in Row /\ task[t].wf \in State /\ run[c][t].wf \in State BY DEF Typed, Run, Row
<1>2. w \in State BY <1>1, StateOps
<1>3. task' = [task EXCEPT ![t] = r] BY DEF Yield
<1> HIDE DEF w
<1>4. r \in Row /\ r.status = task[t].status BY ZenonT(40), <1>1, <1>2 DEF Row
<1> HIDE DEF r
<1>5. RowsStep BY ZenonT(40), <1>3, <1>4, EditRow
<1>6. RunsStep BY LeaveStep DEF Yield, counters
<1> QED BY <1>5, <1>6 DEF StepOK, Typed, Yield

LEMMA InterruptedOK ==
    ASSUME Typed, NEW c \in Controller, NEW t \in Task, Interrupted(c, t)
    PROVE  StepOK
<1>1. RowsStep
  <2>1. CASE Fence(c, t) BY ZenonT(40), <2>1, SetStepRun DEF Interrupted
  <2>2. CASE ~Fence(c, t) BY <2>2, NoRow DEF Interrupted
  <2> QED BY <2>1, <2>2
<1>2. RunsStep BY LeaveStep DEF Interrupted, counters
<1> QED BY <1>1, <1>2 DEF StepOK, Typed, Interrupted

LEMMA CloseOK ==
    ASSUME Typed, NEW c \in Controller, NEW t \in Task, Close(c, t)
    PROVE  StepOK
<1>1. RunsStep BY ZenonT(40), EndRun DEF Close, counters
<1> QED BY <1>1, NoRow DEF StepOK, Typed, Close

LEMMA CrashOK ==
    ASSUME Typed, NEW c \in Controller, Crash(c)
    PROVE  StepOK
<1>1. NoRun.claim = 0 /\ Slotted(NoRun) BY DEF NoRun, Slotted, CapPc, ClaimPc, BusyPc
<1>2. /\ run' = [run EXCEPT ![c] = [t \in Task |-> NoRun]]
      /\ pending' = [pending EXCEPT ![c] = {}]
      /\ claims' = claims /\ task' = task
    BY DEF Crash
<1> HIDE DEF NoRun
<1>3. RunsStep BY <1>1, <1>2, NoRunTyped DEF Typed, RunsStep
<1>4. pending' \in [Controller -> SUBSET Read] BY <1>2 DEF Typed
<1> QED BY <1>2, <1>3, <1>4, NoRow DEF StepOK

LEMMA StopOK ==
    ASSUME Typed, NEW c \in Controller, Stop(c)
    PROVE  StepOK
<1> DEFINE Stopped(t) == [run[c][t] EXCEPT !.stop = "kill"]
<1>1. NoRun.claim = 0 /\ Slotted(NoRun) BY DEF NoRun, Slotted, CapPc, ClaimPc, BusyPc
<1>2. \A t \in Task : run[c][t] \in Run BY DEF Typed
<1>3. \A t \in Task : /\ Stopped(t) \in Run
                      /\ Stopped(t).claim = run[c][t].claim
                      /\ Stopped(t).pc = run[c][t].pc
                      /\ Stopped(t).slots = run[c][t].slots
    BY <1>2 DEF Run
<1>4. run' = [run EXCEPT ![c] = [t \in Task |->
                 IF Launched(c, t) THEN Stopped(t)
                 ELSE IF At(c, t, {"claimed", "classify"}) THEN NoRun ELSE run[c][t]]]
    BY DEF Stop
<1>5. claims' = claims /\ task' = task BY DEF Stop
<1> HIDE DEF Stopped
<1>6. \A t \in Task : run'[c][t] \in {Stopped(t), NoRun, run[c][t]} BY <1>4 DEF Typed
<1>7. \A d \in Controller \ {c} : run'[d] = run[d] BY <1>4 DEF Typed
<1>8. run' \in [Controller -> [Task -> Run]]
    BY <1>2, <1>3, <1>4, NoRunTyped DEF Typed
<1>9. ASSUME NEW d \in Controller, NEW t \in Task
      PROVE  /\ run'[d][t].claim \in {run[d][t].claim, 0}
             /\ Slotted(run[d][t]) => Slotted(run'[d][t])
  <2>1. CASE d = c BY ZenonT(40), <1>1, <1>3, <1>6, <2>1 DEF Slotted
  <2>2. CASE d # c BY ZenonT(40), <1>7, <2>2
  <2> QED BY ZenonT(40), <2>1, <2>2
<1>10. RunsStep BY <1>5, <1>8, <1>9 DEF RunsStep
<1>11. pending' \in [Controller -> SUBSET Read] BY DEF Typed, Stop
<1> QED BY <1>5, <1>10, <1>11, NoRow DEF StepOK

LEMMA LeasesOK ==
    ASSUME Typed, NEW k, Expire(k) \/ Lapse(k)
    PROVE  StepOK
<1>1. UNCHANGED <<task, run, pending, claims>> BY DEF Expire, Lapse, counters
<1> QED BY <1>1, NoRow, NoRunStep DEF StepOK, Typed

-----------------------------------------------------------------------------
(* Every step is of its class.                                             *)

LEMMA NextOK ==
    ASSUME Typed, [Next]_vars
    PROVE  StepOK
<1>1. ASSUME NEW c \in Controller, NEW t \in Task, UserStep(c, t) PROVE StepOK
    BY <1>1, SubmitOK, AnsweredOK, PauseTaskOK, ResumeTaskOK, RetryFailedTaskOK, CancelTaskOK,
       RequestRevisionOK DEF UserStep
<1>2. ASSUME NEW c \in Controller, NEW t \in Task, ClaimReady(c, t) PROVE StepOK
    BY <1>2, ClaimReadyOK
<1>3. ASSUME NEW c \in Controller, NEW t \in Task, ClaimStep(c, t) PROVE StepOK
    BY <1>3, TransitionToReadyOK, LaunchOK, ClassifyOK, ResumeOK, ProceedOK DEF ClaimStep
<1>4. ASSUME NEW c \in Controller, NEW t \in Task, RunStep(c, t) PROVE StepOK
    BY <1>4, BeginOK, StartStepOK, RecordCallOK, DispatchOK, ToolResultOK, EndStepOK, PersistOK,
       SuspendOK, ClearPauseOK, FinishOK, DeliverOK, ResolveDependenciesOK, LoseFenceOK, YieldOK,
       InterruptedOK, CloseOK DEF RunStep, Complete
<1>5. ASSUME NEW c \in Controller, NEW t \in Task, RunFault(c, t) PROVE StepOK
    BY <1>5, UnknownWorkflowOK, DeferOK, AskUserOK, TimedOutOK, FinishOK DEF RunFault, Fail
<1>6. ASSUME NEW c \in Controller, ClaimExisting(c) \/ Crash(c) \/ Stop(c) PROVE StepOK
    BY <1>6, ClaimExistingOK, CrashOK, StopOK
<1>7. ASSUME NEW c \in Controller, NEW why \in Listed, ListTasks(c, why) PROVE StepOK
    BY <1>7, ListTasksOK
<1>8. ASSUME NEW t \in Task, Due(t) PROVE StepOK
    BY <1>8, DueOK
<1>9. ASSUME NEW k \in LiveClaims, Expire(k) \/ Lapse(k) PROVE StepOK
    BY <1>9, LeasesOK
<1>10. CASE UNCHANGED vars
    BY <1>10, NoRow, NoRunStep DEF vars, StepOK, Typed
<1> QED BY <1>1, <1>2, <1>3, <1>4, <1>5, <1>6, <1>7, <1>8, <1>9, <1>10 DEF Next

LEMMA InitTyped == ASSUME Init PROVE Typed
<1>1. \A t \in Task : [status |-> "draft", attempt |-> 1, wf |-> Fresh, due |-> TRUE,
                       stepRun |-> FALSE, base |-> 0] \in Row
    BY DEF Row, Status, Fresh, State
<1>2. task \in [Task -> Row] BY ZenonT(40), <1>1 DEF Init
<1>3. run \in [Controller -> [Task -> Run]] BY NoRunTyped DEF Init
<1>4. pending \in [Controller -> SUBSET Read] /\ claims \in Nat BY DEF Init
<1> QED BY <1>2, <1>3, <1>4 DEF Typed

LEMMA TypedStep == ASSUME Typed, [Next]_vars PROVE Typed'
<1>1. StepOK BY NextOK
<1> QED BY <1>1 DEF StepOK, RowsStep, RunsStep, ClaimsStep, Typed

(* SettledForGood holds: update_task_status is a compare-and-swap on a     *)
(* table in which only failed leads anywhere, and every other write of a   *)
(* status is guarded by the one it replaces or starts a new attempt.       *)
THEOREM TaskSettledForGood == Spec => SettledForGood
<1>1. ASSUME Typed, [Next]_vars
      PROVE  [\A t \in Task :
                LET s == task[t].status IN
                /\ s = "cancelled" => task'[t].status = s
                /\ s \in {"completed", "failed"} =>
                      \/ task'[t].status = s
                      \/ task'[t].attempt > task[t].attempt
                      \/ /\ s = "failed"
                         /\ \E c \in Controller : Reviving(c, t)]_vars
  <2>1. StepOK BY <1>1, NextOK
  <2> QED BY ZenonT(40), <2>1 DEF StepOK, RowsStep, Legal
<1> QED BY <1>1, InitTyped, TypedStep, PTL DEF Spec, SettledForGood

-----------------------------------------------------------------------------
(* Capacity: no two runs have the same claim, so that runs that hold their *)
(* slots hold different ones.                                              *)

ClaimsBounded == \A c \in Controller, t \in Task : run[c][t].claim <= claims
AllSlotted == \A c \in Controller, t \in Task : Slotted(run[c][t])
OwnClaims ==
    \A c, d \in Controller, t, u \in Task :
        run[c][t].claim # 0 /\ run[d][u].claim = run[c][t].claim => c = d /\ t = u

CapInv == Typed /\ ClaimsBounded /\ AllSlotted /\ OwnClaims

LEMMA InitCap == ASSUME Init PROVE CapInv
<1>1. Typed BY InitTyped
<1>2. \A c \in Controller, t \in Task : run[c][t] = NoRun BY DEF Init
<1>3. claims = 0 BY DEF Init
<1>4. NoRun.claim = 0 /\ Slotted(NoRun) BY DEF NoRun, Slotted, CapPc, ClaimPc, BusyPc
<1> HIDE DEF NoRun
<1> QED BY <1>1, <1>2, <1>3, <1>4 DEF CapInv, ClaimsBounded, AllSlotted, OwnClaims

LEMMA CapStep == ASSUME CapInv, [Next]_vars PROVE CapInv'
<1>1. StepOK /\ Typed' BY NextOK, TypedStep DEF CapInv
<1>2. claims \in Nat /\ \A c \in Controller, t \in Task : run[c][t].claim \in Nat
    BY DEF CapInv, Typed, Run
<1>3. CASE RunsStep
    BY <1>1, <1>2, <1>3 DEF RunsStep, CapInv, ClaimsBounded, AllSlotted, OwnClaims
<1>4. CASE ClaimsStep
  <2>1. PICK c \in Controller, t \in Task :
            /\ run'[c][t].claim \in {claims + 1, run[c][t].claim}
            /\ Slotted(run[c][t]) => Slotted(run'[c][t])
            /\ \A d \in Controller, u \in Task : d # c \/ u # t => run'[d][u] = run[d][u]
      BY <1>4 DEF ClaimsStep
  <2>2. claims' = claims + 1 BY <1>4 DEF ClaimsStep
  <2>3. AllSlotted' BY <2>1 DEF AllSlotted, CapInv
  <2>4. ClaimsBounded' BY <1>2, <2>1, <2>2 DEF ClaimsBounded, CapInv
  <2>5. OwnClaims' BY <1>2, <2>1, <2>2 DEF OwnClaims, ClaimsBounded, CapInv
  <2> QED BY <1>1, <2>3, <2>4, <2>5 DEF CapInv
<1> QED BY <1>1, <1>3, <1>4 DEF StepOK

LEMMA Counting ==
    ASSUME CapInv, "timeout" \notin FaultKind
    PROVE  ActiveWithinCapacity
<1> DEFINE B == {p \in Controller \X Task : At(p[1], p[2], BusyPc) /\ Fence(p[1], p[2])}
           Has(p, i) == slot[<<"global", i>>] = run[p[1]][p[2]].claim
           f == [p \in B |-> CHOOSE i \in 1 .. MaxGlobal : Has(p, i)]
<1>1. ASSUME NEW p \in B PROVE \E i \in 1 .. MaxGlobal : Has(p, i)
  <2>1. p[1] \in Controller /\ p[2] \in Task /\ At(p[1], p[2], BusyPc) /\ Held(p[1], p[2])
      BY DEF Fence
  <2>2. run[p[1]][p[2]].slots \cap GlobalSlot # {}
      BY <2>1, BusyCap DEF CapInv, AllSlotted, Slotted, At
  <2>3. PICK s \in run[p[1]][p[2]].slots \cap GlobalSlot : TRUE BY <2>2
  <2>4. s = <<"global", s[2]>> /\ s[2] \in 1 .. MaxGlobal BY <2>3 DEF GlobalSlot
  <2>5. slot[s] = run[p[1]][p[2]].claim BY <2>1, <2>3 DEF Held
  <2> QED BY ZenonT(40), <2>4, <2>5
<1>2. \A p \in B : f[p] \in 1 .. MaxGlobal /\ Has(p, f[p]) BY ZenonT(40), <1>1
<1>3. ASSUME NEW p \in B, NEW q \in B, f[p] = f[q] PROVE p = q
  <2>1. run[p[1]][p[2]].claim = run[q[1]][q[2]].claim BY ZenonT(40), <1>2, <1>3
  <2>2. /\ p[1] \in Controller /\ p[2] \in Task /\ At(p[1], p[2], BusyPc)
        /\ q[1] \in Controller /\ q[2] \in Task
        /\ p = <<p[1], p[2]>> /\ q = <<q[1], q[2]>>
      OBVIOUS
  <2>3. run[p[1]][p[2]].claim # 0
      BY ZenonT(40), <2>2, BusyCap DEF CapInv, AllSlotted, Slotted, At
  <2>4. p[1] = q[1] /\ p[2] = q[2] BY <2>1, <2>2, <2>3 DEF CapInv, OwnClaims
  <2> QED BY <2>2, <2>4
<1>4. f \in Injection(B, 1 .. MaxGlobal)
  <2> HIDE DEF B, Has
  <2>1. \A p \in B : (CHOOSE i \in 1 .. MaxGlobal : Has(p, i)) \in 1 .. MaxGlobal BY <1>1
  <2>2. f \in [B -> 1 .. MaxGlobal] BY <2>1
  <2> HIDE DEF f
  <2>3. \A p, q \in B : f[p] = f[q] => p = q BY <1>3
  <2> QED BY <2>2, <2>3 DEF Injection, IsInjective
<1>5. MaxGlobal \in Nat \ {0} BY TaskAssumption
<1>6. IsFiniteSet(1 .. MaxGlobal) /\ Cardinality(1 .. MaxGlobal) = MaxGlobal
    BY <1>5, FS_Interval
<1> HIDE DEF B, f
<1>7. Cardinality(B) <= MaxGlobal BY <1>4, <1>6, FS_Injection
<1> QED BY <1>7 DEF ActiveWithinCapacity, B

(* ActiveWithinCapacity holds for every number of controllers, tasks and   *)
(* slots, as long as no question times out: a run keeps the slots of its   *)
(* claim from the claim, or from the answer, until it waits or ends.       *)
THEOREM CapacityHolds ==
    ASSUME "timeout" \notin FaultKind
    PROVE  Spec => []ActiveWithinCapacity
<1>1. Init => CapInv BY InitCap
<1>2. CapInv /\ [Next]_vars => CapInv' BY CapStep
<1>3. CapInv => ActiveWithinCapacity BY Counting
<1> QED BY <1>1, <1>2, <1>3, PTL DEF Spec

-----------------------------------------------------------------------------
(* Recovery: why a task whose tool call has no result is not executed      *)
(* again.                                                                  *)

(* Leases are taken from runs that are alive: they run out under a slow    *)
(* run, or a revision takes them.                                          *)
Overtaken == "expire" \in FaultKind \/ "revise" \in RequestKind

(* No controller is stopped and no task asks its user; users resume and    *)
(* retry only where no run is overtaken.                                   *)
Unattended ==
    /\ "stop" \notin FaultKind /\ "ask" \notin RequestKind
    /\ Overtaken => RequestKind \cap {"resume", "retry"} = {}

(* The calls of t that an executor got, that have no result, and that no   *)
(* user has answered for since.                                            *)
Open(t) == {e \in sent \ answered : e[1] = t /\ task[t].base < e[3]}

Holder(c, t) == run[c][t].claim # 0 /\ lease[t] = run[c][t].claim

(* A task with an open call is running with its step run open, which is    *)
(* what _classify_crash_recovery looks for, or waits for its user.         *)
Guarded(row) ==
    \/ row.status = "running" /\ row.stepRun
    \/ row.status \in {"paused", "completed", "failed", "cancelled"}

RowGuarded(t) ==
    /\ task[t].base <= claims
    /\ ~task[t].wf.pause
    /\ \A e \in Open(t) : e[2] = task[t].attempt /\ Guarded(task[t])

(* The labels of a run that is to execute steps: under its lease no call   *)
(* is open but its own.                                                    *)
SafePc == {"claimed", "resuming", "retrying", "launch"} \cup BusyPc

RunGuarded(c, t) ==
    LET r == run[c][t] IN
    /\ r.pc \notin AskPc /\ ~r.wf.pause
    /\ r.stop = "kill" => ~Holder(c, t)
    /\ r.pc \in SafePc /\ Holder(c, t) => \A e \in Open(t) : e[3] = r.claim
    /\ r.pc = "classify" /\ Holder(c, t) /\ Open(t) # {} => task[t].stepRun
    /\ r.pc \in {"step", "recorded", "calling"} /\ Holder(c, t) => task[t].stepRun
    /\ r.pc \notin {"none", "close"} =>
          \A e \in sent \ answered : e[3] = r.claim => r.pc = "calling" /\ e = CallOf(c, t)
    /\ r.pc \in {"resuming", "retrying"} =>
          ~Overtaken /\ (Holder(c, t) \/ task[t].status = "cancelled")
    /\ r.pc = "recorded" => CallOf(c, t) \in called

LEMMA NoRunGuarded ==
    /\ NoRun.pc \notin AskPc /\ ~NoRun.wf.pause /\ NoRun.stop # "kill" /\ NoRun.pc \notin SafePc
    /\ NoRun.pc = "none" /\ NoRun.pc \notin {"step", "recorded", "calling", "resuming", "retrying"}
    BY DEF NoRun, Fresh, AskPc, SafePc, BusyPc

LEMMA Raised ==
    ASSUME NEW a \in Nat, NEW n \in Nat, a <= n, NEW b \in {a, n} PROVE b >= a
    OBVIOUS

(* Nothing is listed as paused, and claims of a resume or a retry are not  *)
(* overtaken.                                                              *)
ReadsGuarded ==
    \A c \in Controller : \A e \in pending[c] :
        /\ e.why # "paused" /\ ~e.wf.pause
        /\ e.why \in {"resume", "retry"} => ~Overtaken

Numbered == sent \subseteq called /\ \A e \in sent : e[3] \in 1 .. claims

RerunInv ==
    /\ Numbered /\ ReadsGuarded
    /\ \A t \in Task : RowGuarded(t)
    /\ \A c \in Controller, t \in Task : RunGuarded(c, t)

(* What a step on row t and run c does to the rest: other rows stay, or    *)
(* turn ready or paused as dependents of t.                                *)
Settles(u) == task'[u] \in {task[u], Move(task[u], "ready"), Move(task[u], "paused")}

Elsewhere(c, t) ==
    /\ \A u \in Task : u # t => Settles(u)
    /\ \A d \in Controller, u \in Task : d # c \/ u # t => run'[d][u] = run[d][u]

(* Its leases stay, are released, are taken from t or are claimed anew.    *)
LeaseMoves(c, t) ==
    \A u \in Task :
        \/ lease'[u] = lease[u]
        \/ lease'[u] = 0 /\ run[c][t].claim # 0 /\ lease[u] = run[c][t].claim
        \/ u = t /\ lease'[t] = 0 /\ (Overtaken \/ task'[t].status = "cancelled")
        \/ u = t /\ lease[t] = 0 /\ lease'[t] = claims + 1

CallMoves(c, t) ==
    /\ called \subseteq called' /\ answered \subseteq answered'
    /\ \/ sent' = sent
       \/ Holder(c, t) /\ CallOf(c, t) \in called /\ sent' = sent \cup {CallOf(c, t)}

(* A user answers for the calls up to now; the step run of t is closed by  *)
(* the holder of its lease only.                                           *)
RowMoves(c, t) ==
    /\ task'[t].base \in {task[t].base, claims}
    /\ task[t].stepRun => task'[t].stepRun \/ Holder(c, t) \/ lease'[t] = 0

LeaseTyped == lease \in [Task -> Nat]

Kept == CapInv /\ LeaseTyped /\ RerunInv /\ StepOK /\ CapInv'

LEMMA RunFacts ==
    ASSUME CapInv, NEW c \in Controller, NEW t \in Task
    PROVE  /\ run[c][t] \in Run /\ task[t] \in Row /\ claims \in Nat
           /\ run[c][t].claim \in 0 .. claims
           /\ run[c][t].pc \notin {"none", "close"} => run[c][t].claim # 0
    BY DEF CapInv, Typed, ClaimsBounded, AllSlotted, Slotted, Run

(* A run that a step leaves alone, or only tells to stop, stays guarded.   *)
LEMMA RunKept ==
    ASSUME Kept, NEW d \in Controller, NEW u \in Task, RunGuarded(d, u),
           run'[d][u].pc = run[d][u].pc, run'[d][u].claim = run[d][u].claim,
           run'[d][u].attempt = run[d][u].attempt, run'[d][u].wf = run[d][u].wf,
           run'[d][u].stop = "kill" => run[d][u].stop = "kill" \/ ~Holder(d, u)',
           Holder(d, u)' => Holder(d, u),
           called \subseteq called', answered \subseteq answered',
           \A e \in sent' : \/ e \in sent
                            \/ e[3] # run[d][u].claim /\ (e[1] = u => ~Holder(d, u)),
           task'[u].base >= task[u].base,
           Holder(d, u)' /\ task[u].stepRun => task'[u].stepRun,
           run[d][u].pc \in {"resuming", "retrying"} /\ Holder(d, u)
               => Holder(d, u)' \/ task'[u].status = "cancelled"
    PROVE  RunGuarded(d, u)'
<1>1. /\ task[u].base \in Nat /\ task'[u].base \in Nat
      /\ task[u].status = "cancelled" => task'[u].status = "cancelled"
    BY ZenonT(40) DEF Kept, CapInv, Typed, Row, StepOK, RowsStep, Legal
<1>2. ASSUME Holder(d, u)' PROVE Open(u)' \subseteq Open(u)
  <2> SUFFICES ASSUME NEW e \in Open(u)' PROVE e \in Open(u) OBVIOUS
  <2>1. e \in sent' /\ e \notin answered' /\ e[1] = u /\ task'[u].base < e[3] BY ZenonT(40) DEF Open
  <2>2. e \in sent /\ e \notin answered BY ZenonT(40), <1>2, <2>1
  <2>3. e[3] \in Nat BY <2>2 DEF Kept, RerunInv, Numbered
  <2>4. task[u].base < e[3] BY <1>1, <2>1, <2>3
  <2> QED BY ZenonT(40), <2>1, <2>2, <2>4 DEF Open
<1>3. \A e \in sent' \ answered' : e[3] = run[d][u].claim => e \in sent \ answered
    OBVIOUS
<1>4. CallOf(d, u)' = CallOf(d, u) BY ZenonT(40) DEF CallOf
<1> QED BY ZenonT(40), <1>1, <1>2, <1>3, <1>4 DEF RunGuarded

(* A row that turns ready was queued, and has no open call.                *)
LEMMA RowKept ==
    ASSUME Kept, NEW u \in Task, Settles(u), RowGuarded(u), claims' \in {claims, claims + 1},
           answered \subseteq answered', \A e \in sent' : e[1] = u => e \in sent
    PROVE  /\ RowGuarded(u)'
           /\ task'[u].base = task[u].base /\ task'[u].stepRun = task[u].stepRun
<1>1. task[u].base \in Nat /\ claims \in Nat /\ task[u] \in Row BY DEF Kept, CapInv, Typed, Row
<1>2. /\ task'[u].base = task[u].base /\ task'[u].stepRun = task[u].stepRun
      /\ task'[u].wf = task[u].wf /\ task'[u].attempt = task[u].attempt
      /\ Guarded(task[u]) => Guarded(task'[u])
    BY <1>1 DEF Settles, Move, AllowedFrom, Guarded, Row
<1>3. Open(u)' \subseteq Open(u) BY <1>2 DEF Open
<1>4. task'[u].base <= claims' BY <1>1, <1>2 DEF RowGuarded
<1>5. \A e \in Open(u)' : e[2] = task'[u].attempt /\ Guarded(task'[u])
    BY <1>2, <1>3 DEF RowGuarded
<1> QED BY ZenonT(40), <1>2, <1>4, <1>5 DEF RowGuarded, Guarded

(* The frame: a step on row t and run c is judged by what it makes of them *)
(* and of what c reads.                                                    *)
LEMMA Frame ==
    ASSUME Kept, NEW c \in Controller, NEW t \in Task,
           Elsewhere(c, t), LeaseMoves(c, t), CallMoves(c, t), RowMoves(c, t),
           claims' \in {claims, claims + 1},
           RowGuarded(t)', RunGuarded(c, t)', ReadsGuarded'
    PROVE  RerunInv'
<1>1. RerunInv /\ CapInv /\ claims \in Nat BY DEF Kept, CapInv, Typed
<1>2. ASSUME NEW e \in sent' PROVE e \in sent \/ (Holder(c, t) /\ e = CallOf(c, t))
    BY DEF CallMoves
<1>3. CallOf(c, t)[1] = t /\ CallOf(c, t)[3] = run[c][t].claim BY ZenonT(40) DEF CallOf
<1>4. Numbered'
  <2> SUFFICES ASSUME NEW e \in sent' PROVE e \in called' /\ e[3] \in 1 .. claims'
      BY DEF Numbered
  <2>2. e \in called' BY <1>1 DEF CallMoves, RerunInv, Numbered
  <2>1. e[3] \in 1 .. claims BY <1>1, <1>2, <1>3, RunFacts DEF RerunInv, Numbered, Holder
  <2> QED BY <1>1, <2>1, <2>2
<1>5. ASSUME NEW u \in Task, u # t
      PROVE  /\ RowGuarded(u)'
             /\ task'[u].base = task[u].base /\ task'[u].stepRun = task[u].stepRun
    BY ZenonT(40), <1>1, <1>2, <1>3, <1>5, RowKept DEF Elsewhere, CallMoves, RerunInv
<1>6. ASSUME NEW u \in Task PROVE RowGuarded(u)'
  <2>1. CASE u = t BY <2>1
  <2>2. CASE u # t BY ZenonT(40), <1>5, <2>2
  <2> QED BY <2>1, <2>2
<1>7. ASSUME NEW d \in Controller, NEW u \in Task PROVE RunGuarded(d, u)'
  <2>1. CASE d = c /\ u = t BY <2>1
  <2>2. CASE d # c \/ u # t
    <3>1. run'[d][u] = run[d][u] /\ RunGuarded(d, u)
      BY ZenonT(40), <1>1, <2>2 DEF Elsewhere, RerunInv
    <3>2. run[c][t].claim # 0 => run[d][u].claim # run[c][t].claim
        BY <1>1, <2>2 DEF CapInv, OwnClaims
    <3>3. Holder(d, u)' => Holder(d, u)
      <4>1. run[d][u].claim \in 0 .. claims BY ZenonT(40), <1>1, RunFacts
      <4> QED BY <1>1, <3>1, <4>1 DEF Holder, LeaseMoves
    <3>4. \A e \in sent' : \/ e \in sent
                           \/ e[3] # run[d][u].claim /\ (e[1] = u => ~Holder(d, u))
        BY ZenonT(40), <1>2, <1>3, <3>2 DEF Holder
    <3>5. task'[u].base >= task[u].base
      <4>1. task[u].base \in Nat /\ task[u].base <= claims
          BY ZenonT(40), <1>1, RunFacts DEF RerunInv, RowGuarded, Row
      <4> QED BY <1>1, <1>5, <4>1 DEF RowMoves
    <3>6. Holder(d, u)' /\ task[u].stepRun => task'[u].stepRun
        BY ZenonT(40), <1>5, <3>1, <3>2, <3>3 DEF Holder, RowMoves
    <3>7. run[d][u].pc \in {"resuming", "retrying"} /\ Holder(d, u)
              => Holder(d, u)' \/ task'[u].status = "cancelled"
        BY ZenonT(40), <3>1, <3>2 DEF Holder, LeaseMoves, RunGuarded
    <3> QED BY ZenonT(40), <3>1, <3>3, <3>4, <3>5, <3>6, <3>7, RunKept DEF CallMoves
  <2> QED BY <2>1, <2>2
<1> QED BY <1>4, <1>6, <1>7 DEF RerunInv

LEMMA OpenShrinks ==
    ASSUME Kept, NEW t \in Task, sent' = sent, answered \subseteq answered',
           task'[t].base \in {task[t].base, claims}
    PROVE  /\ Open(t)' \subseteq Open(t)
           /\ task'[t].base = claims => Open(t)' = {}
<1>1. task[t].base \in Nat /\ claims \in Nat /\ task[t].base <= claims
    BY DEF Kept, CapInv, Typed, Row, RerunInv, RowGuarded
<1>2. \A e \in sent : e[3] \in 1 .. claims BY DEF Kept, RerunInv, Numbered
<1>3. ASSUME NEW e \in Open(t)' PROVE e \in Open(t) /\ task'[t].base # claims
  <2>1. e \in sent /\ e \notin answered /\ e[1] = t /\ task'[t].base < e[3] BY DEF Open
  <2>2. e[3] \in 1 .. claims BY <1>2, <2>1
  <2>3. task[t].base < e[3] /\ task'[t].base # claims BY <1>1, <2>1, <2>2
  <2> QED BY <2>1, <2>3 DEF Open
<1> QED BY <1>3

(* A run that passes assert_current holds the lease.                       *)
LEMMA FenceHolder ==
    ASSUME CapInv, NEW c \in Controller, NEW t \in Task, run[c][t].pc \notin {"none", "close"},
           Fence(c, t)
    PROVE  Holder(c, t)
    BY RunFacts DEF Fence, Held, Holder

(* Under the lease, between calls, no call is open.                        *)
LEMMA NoneOpen ==
    ASSUME RerunInv, NEW c \in Controller, NEW t \in Task, Holder(c, t),
           run[c][t].pc \in SafePc \ {"calling"}
    PROVE  Open(t) = {}
<1>1. RunGuarded(c, t) BY DEF RerunInv
<1>2. run[c][t].pc \notin {"none", "close", "calling"} BY DEF SafePc, BusyPc
<1>3. ASSUME NEW e \in Open(t) PROVE FALSE
  <2>1. e[3] = run[c][t].claim BY ZenonT(40), <1>1 DEF RunGuarded
  <2>2. e \in sent \ answered BY DEF Open
  <2> QED BY ZenonT(40), <1>1, <1>2, <2>1, <2>2 DEF RunGuarded
<1> QED BY <1>3

(* What a transaction that is no dispatch makes of the row of t.           *)
LEMMA RowMoved ==
    ASSUME Kept, NEW t \in Task, sent' = sent, answered \subseteq answered',
           claims' \in {claims, claims + 1},
           task'[t].base \in {task[t].base, claims}, ~task'[t].wf.pause,
           \/ task'[t].base = claims
           \/ Open(t) = {}
           \/ /\ task'[t].attempt = task[t].attempt
              /\ Guarded(task[t]) => Guarded(task'[t])
    PROVE  RowGuarded(t)'
<1>1. task[t].base \in Nat /\ claims \in Nat /\ task[t].base <= claims
    BY ZenonT(40) DEF Kept, CapInv, Typed, Row, RerunInv, RowGuarded
<1>2. task'[t].base <= claims' BY <1>1
<1>3. \A e \in Open(t)' : e[2] = task'[t].attempt /\ Guarded(task'[t])
    BY ZenonT(40), OpenShrinks DEF Kept, RerunInv, RowGuarded
<1> QED BY ZenonT(40), <1>2, <1>3 DEF RowGuarded, Guarded

(* A run that goes on under its claim.                                     *)
LEMMA Advance ==
    ASSUME Kept, NEW c \in Controller, NEW t \in Task, Elsewhere(c, t), RowMoves(c, t),
           UNCHANGED <<lease, sent, pending, claims>>,
           called \subseteq called', answered \subseteq answered',
           run[c][t].pc \notin {"none", "close"},
           run[c][t].pc = "calling" => CallOf(c, t) \in answered',
           run'[c][t].claim = run[c][t].claim,
           run'[c][t].stop \in {run[c][t].stop, "yield"},
           run'[c][t].pc \in {"launch", "working", "step", "recorded", "persist"} \cup EndPc,
           ~run'[c][t].wf.pause,
           \/ run[c][t].pc \in SafePc \/ run'[c][t].pc \in EndPc
           \/ Holder(c, t) => Open(t) = {},
           run'[c][t].pc \in {"step", "recorded"} /\ Holder(c, t) => task'[t].stepRun,
           run'[c][t].pc = "recorded" => CallOf(c, t)' \in called',
           RowGuarded(t)'
    PROVE  RerunInv'
<1>1. RunGuarded(c, t) /\ ReadsGuarded BY ZenonT(40) DEF Kept, RerunInv
<1>2. Holder(c, t)' <=> Holder(c, t) BY ZenonT(40) DEF Holder
<1>3. Open(t)' \subseteq Open(t) BY ZenonT(40), OpenShrinks DEF RowMoves
<1>4. run'[c][t].pc \notin AskPc \cup {"classify", "calling", "resuming", "retrying"}
    BY ZenonT(40) DEF AskPc, EndPc
<1>5. \A e \in sent' \ answered' : e[3] # run'[c][t].claim BY ZenonT(40), <1>1 DEF RunGuarded
<1>6. run'[c][t].pc \in SafePc /\ Holder(c, t)' => \A e \in Open(t)' : e[3] = run'[c][t].claim
  <2>1. SafePc \cap EndPc = {} BY ZenonT(40) DEF SafePc, BusyPc, EndPc
  <2> QED BY ZenonT(40), <1>1, <1>2, <1>3, <2>1 DEF RunGuarded
<1>7. RunGuarded(c, t)' BY ZenonT(40), <1>1, <1>2, <1>4, <1>5, <1>6 DEF RunGuarded
<1>8. ReadsGuarded' BY ZenonT(40), <1>1 DEF ReadsGuarded
<1>9. LeaseMoves(c, t) /\ CallMoves(c, t) BY ZenonT(40) DEF LeaseMoves, CallMoves
<1> QED BY ZenonT(40), <1>7, <1>8, <1>9, Frame

(* A run that is over: its leases stay until Close, or are released.       *)
LEMMA Over ==
    ASSUME Kept, NEW c \in Controller, NEW t \in Task, Elsewhere(c, t), RowMoves(c, t),
           LeaseMoves(c, t), UNCHANGED <<sent, claims>>,
           called \subseteq called', answered \subseteq answered',
           \A d \in Controller : pending'[d] \subseteq pending[d],
           run'[c][t] = NoRun \/ (Leave(c, t) /\ lease' = lease),
           RowGuarded(t)'
    PROVE  RerunInv'
<1>1. RunGuarded(c, t) /\ ReadsGuarded BY ZenonT(40) DEF Kept, RerunInv
<1>2. /\ run'[c][t].pc \in {"none", "close"} /\ ~run'[c][t].wf.pause
      /\ \/ run'[c][t].claim = 0
         \/ /\ run'[c][t].claim = run[c][t].claim
            /\ run'[c][t].stop = run[c][t].stop /\ lease' = lease
  <2>1. CASE run'[c][t] = NoRun BY <2>1 DEF NoRun, Fresh
  <2>2. CASE Leave(c, t) /\ lease' = lease
    <3>1. run'[c][t] = [NoRun EXCEPT !.pc = "close", !.claim = run[c][t].claim,
                                    !.stop = run[c][t].stop]
        BY <2>2 DEF Leave, Kept, CapInv, Typed
    <3> QED BY <2>2, <3>1 DEF NoRun, Fresh
  <2> QED BY ZenonT(40), <2>1, <2>2
<1>3. run'[c][t].stop = "kill" => ~Holder(c, t)' BY ZenonT(40), <1>1, <1>2 DEF RunGuarded, Holder
<1>4. run'[c][t].pc \notin AskPc \cup SafePc \cup {"classify", "calling"}
    BY ZenonT(40), <1>2 DEF AskPc, SafePc, BusyPc
<1>5. RunGuarded(c, t)' BY ZenonT(40), <1>2, <1>3, <1>4 DEF RunGuarded, SafePc, BusyPc
<1>6. ReadsGuarded' BY ZenonT(40), <1>1 DEF ReadsGuarded
<1>7. CallMoves(c, t) BY ZenonT(40) DEF CallMoves
<1> QED BY ZenonT(40), <1>5, <1>6, <1>7, Frame

-----------------------------------------------------------------------------
(* The steps of a run.                                                     *)

OtherRuns(c, t) ==
    \A d \in Controller, u \in Task : d # c \/ u # t => run'[d][u] = run[d][u]
OtherRows(t) == \A u \in Task : u # t => task'[u] = task[u]

LEMMA RunPut ==
    ASSUME CapInv, NEW c \in Controller, NEW t \in Task, NEW q, run' = [run EXCEPT ![c][t] = q]
    PROVE  run'[c][t] = q /\ OtherRuns(c, t)
    BY DEF CapInv, Typed, OtherRuns

LEMMA RowPut ==
    ASSUME CapInv, NEW t \in Task, NEW r, task' = [task EXCEPT ![t] = r]
    PROVE  task'[t] = r /\ OtherRows(t)
    BY DEF CapInv, Typed, OtherRows

LEMMA GotoFacts ==
    ASSUME CapInv, NEW c \in Controller, NEW t \in Task, NEW l, Goto(c, t, l)
    PROVE  /\ OtherRuns(c, t)
           /\ run'[c][t].pc = l /\ run'[c][t].claim = run[c][t].claim
           /\ run'[c][t].stop = run[c][t].stop /\ run'[c][t].wf = run[c][t].wf
           /\ run'[c][t].attempt = run[c][t].attempt
<1>1. run[c][t] \in Run BY RunFacts
<1>2. run' = [run EXCEPT ![c][t] = [run[c][t] EXCEPT !.pc = l]] BY DEF Goto, CapInv, Typed
<1>3. run'[c][t] = [run[c][t] EXCEPT !.pc = l] /\ OtherRuns(c, t) BY ZenonT(40), <1>2, RunPut
<1> QED BY <1>1, <1>3 DEF Run

LEMMA LeaveFacts ==
    ASSUME CapInv, NEW c \in Controller, NEW t \in Task, Leave(c, t)
    PROVE  OtherRuns(c, t)
    BY ZenonT(40), RunPut DEF Leave

LEMMA StepRunFacts ==
    ASSUME CapInv, NEW t \in Task, NEW b, task' = [task EXCEPT ![t].stepRun = b]
    PROVE  /\ OtherRows(t)
           /\ task'[t].stepRun = b /\ task'[t].base = task[t].base
           /\ task'[t].status = task[t].status /\ task'[t].attempt = task[t].attempt
           /\ task'[t].wf = task[t].wf
<1>1. task[t] \in Row BY DEF CapInv, Typed
<1>2. task' = [task EXCEPT ![t] = [task[t] EXCEPT !.stepRun = b]] BY DEF CapInv, Typed
<1>3. task'[t] = [task[t] EXCEPT !.stepRun = b] /\ OtherRows(t) BY ZenonT(40), <1>2, RowPut
<1> QED BY <1>1, <1>3 DEF Row

(* What the invariant says of one run and of its row.                      *)
LEMMA Here ==
    ASSUME RerunInv, NEW c \in Controller, NEW t \in Task
    PROVE  /\ RunGuarded(c, t) /\ RowGuarded(t)
           /\ ~run[c][t].wf.pause /\ ~task[t].wf.pause
    BY ZenonT(40) DEF RerunInv, RunGuarded, RowGuarded

(* A step of the run that leaves the row alone.                            *)
LEMMA SameRow ==
    ASSUME Kept, NEW c \in Controller, NEW t \in Task, task' = task, OtherRuns(c, t), sent' = sent,
           answered \subseteq answered', claims' = claims
    PROVE  Elsewhere(c, t) /\ RowMoves(c, t) /\ RowGuarded(t)'
<1>1. RowGuarded(t)' BY ZenonT(40), RowMoved DEF Kept, RerunInv, RowGuarded
<1> QED BY ZenonT(40), <1>1 DEF Elsewhere, Settles, RowMoves, OtherRuns

LEMMA BeginSafe ==
    ASSUME Kept, NEW c \in Controller, NEW t \in Task, Begin(c, t)
    PROVE  RerunInv'
<1> DEFINE r == [task[t] EXCEPT !.wf = run[c][t].wf]
<1>1. CapInv /\ RerunInv BY DEF Kept
<1>2. /\ run[c][t].pc = "launch" /\ Goto(c, t, "working") /\ task' = [task EXCEPT ![t] = r]
      /\ UNCHANGED <<lease, called, sent, answered, pending, claims>>
    BY DEF Begin, At, leases, history, counters, Kept, CapInv, Typed
<1>3. task'[t] = r /\ OtherRows(t) BY ZenonT(40), <1>1, <1>2, RowPut
<1>4. /\ task'[t].base = task[t].base /\ task'[t].stepRun = task[t].stepRun
      /\ task'[t].status = task[t].status /\ task'[t].attempt = task[t].attempt
      /\ ~task'[t].wf.pause
    BY <1>1, <1>3, RunFacts, Here DEF Row
<1>5. RowGuarded(t)' BY <1>2, <1>4, RowMoved DEF Guarded
<1>6. Elsewhere(c, t) /\ RowMoves(c, t)
    BY <1>1, <1>2, <1>3, <1>4, GotoFacts DEF Elsewhere, Settles, RowMoves, OtherRows, OtherRuns
<1>7. /\ run'[c][t].pc = "working" /\ run'[c][t].claim = run[c][t].claim
      /\ run'[c][t].stop = run[c][t].stop /\ run'[c][t].wf = run[c][t].wf
    BY <1>1, <1>2, GotoFacts
<1> QED BY ZenonT(40), <1>1, <1>2, <1>5, <1>6, <1>7, Here, Advance DEF SafePc

LEMMA StartStepSafe ==
    ASSUME Kept, NEW c \in Controller, NEW t \in Task, StartStep(c, t)
    PROVE  RerunInv'
<1>1. CapInv /\ RerunInv /\ ~run[c][t].wf.pause /\ ~task[t].wf.pause BY Here DEF Kept
<1>2. /\ run[c][t].pc = "working" /\ Goto(c, t, "step")
      /\ task' = [task EXCEPT ![t].stepRun = TRUE]
      /\ UNCHANGED <<lease, called, sent, answered, pending, claims>>
    BY ZenonT(40), <1>1 DEF StartStep, At, leases, history, counters
<1>3. /\ OtherRows(t) /\ task'[t].stepRun /\ task'[t].base = task[t].base
      /\ task'[t].status = task[t].status /\ task'[t].attempt = task[t].attempt
      /\ task'[t].wf = task[t].wf
    BY ZenonT(40), <1>1, <1>2, StepRunFacts
<1>4. RowGuarded(t)' BY <1>1, <1>2, <1>3, RowMoved DEF Guarded
<1>5. Elsewhere(c, t) /\ RowMoves(c, t)
    BY <1>1, <1>2, <1>3, GotoFacts DEF Elsewhere, Settles, RowMoves, OtherRows, OtherRuns
<1>6. /\ run'[c][t].pc = "step" /\ run'[c][t].claim = run[c][t].claim
      /\ run'[c][t].stop = run[c][t].stop /\ run'[c][t].wf = run[c][t].wf
    BY <1>1, <1>2, GotoFacts
<1> QED BY <1>1, <1>2, <1>3, <1>4, <1>5, <1>6, Advance DEF SafePc, BusyPc

LEMMA RecordCallSafe ==
    ASSUME Kept, NEW c \in Controller, NEW t \in Task, RecordCall(c, t)
    PROVE  RerunInv'
<1>1. CapInv /\ RerunInv /\ RunGuarded(c, t) /\ ~run[c][t].wf.pause BY ZenonT(40), Here DEF Kept
<1>2. /\ run[c][t].pc = "step" /\ Goto(c, t, "recorded") /\ called' = called \cup {CallOf(c, t)}
      /\ UNCHANGED <<task, lease, sent, answered, pending, claims>>
    BY ZenonT(40) DEF RecordCall, At, leases, counters
<1>3. Elsewhere(c, t) /\ RowMoves(c, t) /\ RowGuarded(t)'
    BY ZenonT(40), <1>1, <1>2, GotoFacts, SameRow
<1>4. Holder(c, t) => task'[t].stepRun BY ZenonT(40), <1>1, <1>2 DEF RunGuarded
<1>5. CallOf(c, t)' \in called' BY ZenonT(40), <1>1, <1>2, GotoFacts DEF CallOf
<1>6. /\ run'[c][t].pc = "recorded" /\ run'[c][t].claim = run[c][t].claim
      /\ run'[c][t].stop = run[c][t].stop /\ run'[c][t].wf = run[c][t].wf
    BY ZenonT(40), <1>1, <1>2, GotoFacts
<1> QED BY ZenonT(40), <1>1, <1>2, <1>3, <1>4, <1>5, <1>6, Advance DEF SafePc, BusyPc

(* The dispatch: the one step that opens a call.                           *)
LEMMA DispatchSafe ==
    ASSUME Kept, NEW c \in Controller, NEW t \in Task, Dispatch(c, t)
    PROVE  RerunInv'
<1>1. CapInv /\ RerunInv /\ RunGuarded(c, t) /\ RowGuarded(t) /\ ~run[c][t].wf.pause
    BY ZenonT(40), Here DEF Kept
<1>2. /\ run[c][t].pc = "recorded" /\ Fence(c, t) /\ Goto(c, t, "calling")
      /\ sent' = sent \cup {CallOf(c, t)}
      /\ UNCHANGED <<task, lease, called, answered, pending, claims>>
    BY DEF Dispatch, At, leases, counters
<1>3. Holder(c, t) BY ZenonT(40), <1>1, <1>2, FenceHolder
<1>4. /\ OtherRuns(c, t) /\ run'[c][t].pc = "calling" /\ run'[c][t].claim = run[c][t].claim
      /\ run'[c][t].stop = run[c][t].stop /\ run'[c][t].wf = run[c][t].wf
      /\ run'[c][t].attempt = run[c][t].attempt
    BY ZenonT(40), <1>1, <1>2, GotoFacts
<1>5. /\ Elsewhere(c, t) /\ LeaseMoves(c, t) /\ CallMoves(c, t) /\ RowMoves(c, t)
    BY ZenonT(40), <1>1, <1>2, <1>3, <1>4
    DEF Elsewhere, Settles, LeaseMoves, CallMoves, RowMoves, OtherRuns, RunGuarded
<1>6. Open(t)' \subseteq {CallOf(c, t)}
  <2>1. Open(t) = {} BY ZenonT(40), <1>1, <1>2, <1>3, NoneOpen DEF SafePc, BusyPc
  <2> QED BY ZenonT(40), <1>2, <2>1 DEF Open
<1>7. CallOf(c, t)[2] = task[t].attempt /\ CallOf(c, t)[3] = run[c][t].claim
    BY ZenonT(40), <1>2 DEF CallOf, Fence
<1>8. Guarded(task[t])
  <2>1. task[t].stepRun BY ZenonT(40), <1>1, <1>2, <1>3 DEF RunGuarded
  <2>2. task[t].status \in {"running", "paused", "completed", "failed"}
      BY ZenonT(40), <1>1, <1>2, RunFacts DEF Fence, Run, Row, Status
  <2> QED BY <2>1, <2>2 DEF Guarded
<1>9. RowGuarded(t)' BY ZenonT(40), <1>1, <1>2, <1>6, <1>7, <1>8 DEF RowGuarded, Guarded
<1>10. CallOf(c, t)' = CallOf(c, t) /\ (Holder(c, t)' <=> Holder(c, t))
    BY ZenonT(40), <1>2, <1>4 DEF CallOf, Holder
<1>11. RunGuarded(c, t)'
  <2>1. task[t].stepRun BY ZenonT(40), <1>1, <1>2, <1>3 DEF RunGuarded
  <2>2. \A e \in sent' \ answered' : e[3] = run'[c][t].claim => e = CallOf(c, t)
      BY ZenonT(40), <1>1, <1>2, <1>4 DEF RunGuarded
  <2> QED BY ZenonT(40), <1>1, <1>2, <1>4, <1>6, <1>7, <1>10, <2>1, <2>2 DEF RunGuarded, AskPc
<1>12. ReadsGuarded' BY ZenonT(40), <1>1, <1>2 DEF ReadsGuarded, RerunInv
<1> QED BY ZenonT(40), <1>2, <1>5, <1>9, <1>11, <1>12, Frame

LEMMA ToolResultSafe ==
    ASSUME Kept, NEW c \in Controller, NEW t \in Task, ToolResult(c, t)
    PROVE  RerunInv'
<1>1. CapInv /\ RerunInv /\ RunGuarded(c, t) /\ ~run[c][t].wf.pause BY ZenonT(40), Here DEF Kept
<1>2. /\ run[c][t].pc = "calling" /\ answered' = answered \cup {CallOf(c, t)}
      /\ UNCHANGED <<task, lease, called, sent, pending, claims>>
    BY ZenonT(40) DEF ToolResult, At, leases, counters
<1>3. CASE Fence(c, t)
  <2>1. Goto(c, t, "step") BY <1>3 DEF ToolResult
  <2>2. Elsewhere(c, t) /\ RowMoves(c, t) /\ RowGuarded(t)'
      BY ZenonT(40), <1>1, <1>2, <2>1, GotoFacts, SameRow
  <2>3. Holder(c, t) => task'[t].stepRun BY ZenonT(40), <1>1, <1>2 DEF RunGuarded
  <2>4. /\ run'[c][t].pc = "step" /\ run'[c][t].claim = run[c][t].claim
        /\ run'[c][t].stop = run[c][t].stop /\ run'[c][t].wf = run[c][t].wf
      BY ZenonT(40), <1>1, <2>1, GotoFacts
  <2> QED BY ZenonT(40), <1>1, <1>2, <2>2, <2>3, <2>4, Advance DEF SafePc, BusyPc
<1>4. CASE ~Fence(c, t)
  <2>1. Leave(c, t) BY <1>4 DEF ToolResult
  <2>2. Elsewhere(c, t) /\ RowMoves(c, t) /\ RowGuarded(t)'
      BY ZenonT(40), <1>1, <1>2, <2>1, LeaveFacts, SameRow
  <2> QED BY ZenonT(40), <1>2, <2>1, <2>2, Over DEF LeaseMoves
<1> QED BY <1>3, <1>4

LEMMA EndStepSafe ==
    ASSUME Kept, NEW c \in Controller, NEW t \in Task, EndStep(c, t)
    PROVE  RerunInv'
<1>1. CapInv /\ RerunInv /\ ~run[c][t].wf.pause /\ ~task[t].wf.pause BY Here DEF Kept
<1>2. /\ run[c][t].pc = "step" /\ Fence(c, t) /\ Goto(c, t, "persist")
      /\ task' = [task EXCEPT ![t].stepRun = FALSE]
      /\ UNCHANGED <<lease, called, sent, answered, pending, claims>>
    BY DEF EndStep, At, leases, history, counters
<1>3. Holder(c, t) /\ Open(t) = {}
    BY <1>1, <1>2, FenceHolder, NoneOpen DEF SafePc, BusyPc
<1>4. OtherRows(t) /\ task'[t].base = task[t].base /\ task'[t].wf = task[t].wf
    BY ZenonT(40), <1>1, <1>2, StepRunFacts
<1>5. RowGuarded(t)' BY <1>1, <1>2, <1>3, <1>4, RowMoved
<1>6. Elsewhere(c, t) /\ RowMoves(c, t)
    BY <1>1, <1>2, <1>3, <1>4, GotoFacts DEF Elsewhere, Settles, RowMoves, OtherRows, OtherRuns
<1>7. /\ run'[c][t].pc = "persist" /\ run'[c][t].claim = run[c][t].claim
      /\ run'[c][t].stop = run[c][t].stop /\ run'[c][t].wf = run[c][t].wf
    BY <1>1, <1>2, GotoFacts
<1> QED BY <1>1, <1>2, <1>5, <1>6, <1>7, Advance DEF SafePc, BusyPc

LEMMA PersistSafe ==
    ASSUME Kept, NEW c \in Controller, NEW t \in Task, Persist(c, t)
    PROVE  RerunInv'
<1> DEFINE v == NewVersion(run[c][t].wf)
           next == [v EXCEPT !.step = @ + 1]
           r == [task[t] EXCEPT !.wf = next]
           q == [run[c][t] EXCEPT !.wf = next, !.pc = "working"]
<1>1. CapInv /\ RerunInv /\ ~run[c][t].wf.pause /\ ~task[t].wf.pause
      /\ run[c][t] \in Run /\ task[t] \in Row /\ run[c][t].wf \in State
    BY ZenonT(40), Here, RunFacts DEF Kept, Run
<1>2. run[c][t].pc = "persist" /\ UNCHANGED <<lease, called, sent, answered, pending, claims>>
    BY DEF Persist, At, leases, history, counters
<1>3. CASE task[t].wf.ver = run[c][t].wf.ver
  <2>1. task' = [task EXCEPT ![t] = r] /\ run' = [run EXCEPT ![c][t] = q]
      BY <1>3 DEF Persist, Kept, CapInv, Typed
  <2>2. v \in State /\ ~v.pause BY <1>1, StateOps DEF NewVersion, State
  <2> HIDE DEF v
  <2>3. ~next.pause BY <2>2 DEF State
  <2> HIDE DEF next
  <2>4. task'[t] = r /\ OtherRows(t) /\ run'[c][t] = q /\ OtherRuns(c, t)
    <3> HIDE DEF r, q
    <3> QED BY ZenonT(40), <1>1, <2>1, RowPut, RunPut
  <2>5. /\ task'[t].base = task[t].base /\ task'[t].stepRun = task[t].stepRun
        /\ task'[t].status = task[t].status /\ task'[t].attempt = task[t].attempt
        /\ ~task'[t].wf.pause
      BY <1>1, <2>3, <2>4 DEF Row
  <2>6. /\ run'[c][t].pc = "working" /\ run'[c][t].claim = run[c][t].claim
        /\ run'[c][t].stop = run[c][t].stop /\ ~run'[c][t].wf.pause
      BY <1>1, <2>3, <2>4 DEF Run
  <2>7. RowGuarded(t)' BY ZenonT(40), <1>2, <2>5, RowMoved DEF Guarded
  <2>8. Elsewhere(c, t) /\ RowMoves(c, t)
      BY <2>4, <2>5 DEF Elsewhere, Settles, RowMoves, OtherRows, OtherRuns
  <2> QED BY ZenonT(40), <1>2, <2>6, <2>7, <2>8, Advance DEF SafePc, BusyPc
<1>4. CASE task[t].wf.ver # run[c][t].wf.ver
  <2>1. Leave(c, t) /\ task' = task BY <1>4 DEF Persist
  <2>2. Elsewhere(c, t) /\ RowMoves(c, t) /\ RowGuarded(t)'
      BY ZenonT(40), <1>1, <1>2, <2>1, LeaveFacts, SameRow
  <2> QED BY ZenonT(40), <1>2, <2>1, <2>2, Over DEF LeaseMoves
<1> QED BY <1>3, <1>4

(* The run that leaves closes its step run: it holds the lease and has no  *)
(* open call.                                                              *)
LEMMA DeferSafe ==
    ASSUME Kept, NEW c \in Controller, NEW t \in Task, Defer(c, t)
    PROVE  RerunInv'
<1> DEFINE v == NewVersion(run[c][t].wf)
           r == [task[t] EXCEPT !.status = "ready", !.due = FALSE, !.wf = v, !.stepRun = FALSE]
<1>1. CapInv /\ RerunInv /\ ~run[c][t].wf.pause /\ task[t] \in Row /\ run[c][t].wf \in State
    BY ZenonT(40), Here, RunFacts DEF Kept, Run
<1>2. /\ run[c][t].pc = "step" /\ Fence(c, t) /\ Leave(c, t) /\ task' = [task EXCEPT ![t] = r]
      /\ UNCHANGED <<lease, called, sent, answered, pending, claims>>
    BY DEF Defer, At, leases, history
<1>3. Holder(c, t) /\ Open(t) = {}
    BY <1>1, <1>2, FenceHolder, NoneOpen DEF SafePc, BusyPc
<1>4. v \in State /\ ~v.pause BY <1>1, StateOps DEF NewVersion, State
<1> HIDE DEF v
<1>5. task'[t] = r /\ OtherRows(t) BY ZenonT(40), <1>1, <1>2, RowPut
<1>6. task'[t].base = task[t].base /\ ~task'[t].wf.pause BY <1>1, <1>4, <1>5 DEF Row
<1>7. RowGuarded(t)' BY <1>2, <1>3, <1>6, RowMoved
<1>8. Elsewhere(c, t) /\ RowMoves(c, t)
    BY <1>1, <1>2, <1>3, <1>5, <1>6, LeaveFacts
         DEF Elsewhere, Settles, RowMoves, OtherRows, OtherRuns
<1> QED BY <1>2, <1>7, <1>8, Over DEF LeaseMoves

LEMMA YieldSafe ==
    ASSUME Kept, NEW c \in Controller, NEW t \in Task, Yield(c, t)
    PROVE  RerunInv'
<1> DEFINE w == IF task[t].wf.ver = run[c][t].wf.ver
                THEN NewVersion(run[c][t].wf) ELSE task[t].wf
           r == [task[t] EXCEPT !.stepRun = FALSE, !.wf = w]
<1>1. CapInv /\ RerunInv /\ ~run[c][t].wf.pause /\ ~task[t].wf.pause /\ task[t] \in Row
      /\ run[c][t].wf \in State
    BY ZenonT(40), Here, RunFacts DEF Kept, Run
<1>2. /\ run[c][t].pc \in {"working", "step"} /\ Fence(c, t) /\ Leave(c, t)
      /\ task' = [task EXCEPT ![t] = r]
      /\ UNCHANGED <<lease, called, sent, answered, pending, claims>>
    BY DEF Yield, At, leases, history, counters
<1>3. Holder(c, t) /\ Open(t) = {}
    BY <1>1, <1>2, FenceHolder, NoneOpen DEF SafePc, BusyPc
<1>4. ~w.pause BY <1>1 DEF NewVersion, State
<1> HIDE DEF w
<1>5. task'[t] = r /\ OtherRows(t) BY ZenonT(40), <1>1, <1>2, RowPut
<1>6. task'[t].base = task[t].base /\ ~task'[t].wf.pause BY <1>1, <1>4, <1>5 DEF Row
<1>7. RowGuarded(t)' BY <1>2, <1>3, <1>6, RowMoved
<1>8. Elsewhere(c, t) /\ RowMoves(c, t)
    BY <1>1, <1>2, <1>3, <1>5, <1>6, LeaveFacts
         DEF Elsewhere, Settles, RowMoves, OtherRows, OtherRuns
<1> QED BY <1>2, <1>7, <1>8, Over DEF LeaseMoves

(* A run that is killed has lost its lease: it closes no step run.         *)
LEMMA InterruptedSafe ==
    ASSUME Kept, NEW c \in Controller, NEW t \in Task, Interrupted(c, t)
    PROVE  RerunInv'
<1>1. CapInv /\ RerunInv /\ RunGuarded(c, t) BY Here DEF Kept
<1>2. Leave(c, t) /\ UNCHANGED <<lease, called, sent, answered, pending, claims>>
    BY DEF Interrupted, leases, history, counters
<1>3. run[c][t].pc \in RunPc /\ run[c][t].stop = "kill"
    BY <1>1 DEF Interrupted, At, RunGuarded, AskPc
<1>4. ~Fence(c, t)
  <2>1. run[c][t].pc \notin {"none", "close"}
      BY ZenonT(40), <1>3 DEF RunPc, BusyPc, AskPc, EndPc
  <2> QED BY ZenonT(40), <1>1, <1>3, <2>1, FenceHolder DEF RunGuarded
<1>5. task' = task BY <1>4 DEF Interrupted
<1>6. Elsewhere(c, t) /\ RowMoves(c, t) /\ RowGuarded(t)'
    BY <1>1, <1>2, <1>5, LeaveFacts, SameRow
<1> QED BY ZenonT(40), <1>2, <1>6, Over DEF LeaseMoves

LEMMA LoseFenceSafe ==
    ASSUME Kept, NEW c \in Controller, NEW t \in Task, LoseFence(c, t)
    PROVE  RerunInv'
<1>1. CapInv BY DEF Kept
<1>2. Leave(c, t) /\ UNCHANGED <<task, lease, called, sent, pending, claims>>
      /\ answered \subseteq answered'
    BY DEF LoseFence, leases, counters
<1>3. Elsewhere(c, t) /\ RowMoves(c, t) /\ RowGuarded(t)'
    BY <1>1, <1>2, LeaveFacts, SameRow
<1> QED BY ZenonT(40), <1>2, <1>3, Over DEF LeaseMoves

(* Release gives back what the claim of a run still holds.                 *)
LEMMA ReleaseMoves ==
    ASSUME NEW c \in Controller, NEW t \in Task, Release(run[c][t].claim)
    PROVE  LeaseMoves(c, t)
    BY DEF Release, LeaseMoves

LEMMA CloseSafe ==
    ASSUME Kept, NEW c \in Controller, NEW t \in Task, Close(c, t)
    PROVE  RerunInv'
<1>1. /\ Release(run[c][t].claim) /\ run' = [run EXCEPT ![c][t] = NoRun]
      /\ UNCHANGED <<task, called, sent, answered, pending, claims>>
    BY DEF Close, history, counters
<1>2. run'[c][t] = NoRun /\ OtherRuns(c, t) BY ZenonT(40), <1>1, RunPut DEF Kept
<1>3. Elsewhere(c, t) /\ RowMoves(c, t) /\ RowGuarded(t)' BY <1>1, <1>2, SameRow
<1> QED BY ZenonT(40), <1>1, <1>2, <1>3, ReleaseMoves, Over

LEMMA UnknownWorkflowSafe ==
    ASSUME Kept, NEW c \in Controller, NEW t \in Task, UnknownWorkflow(c, t)
    PROVE  RerunInv'
<1> DEFINE q == [run[c][t] EXCEPT !.pc = "report", !.final = "failed"]
           m == Move(task[t], "failed")
<1>1. CapInv /\ RerunInv /\ ~run[c][t].wf.pause /\ ~task[t].wf.pause
      /\ run[c][t] \in Run /\ task[t] \in Row
    BY ZenonT(40), Here, RunFacts DEF Kept
<1>2. /\ run[c][t].pc = "launch" /\ Fence(c, t) /\ run' = [run EXCEPT ![c][t] = q]
      /\ task' = task \/ task' = [task EXCEPT ![t] = m]
      /\ UNCHANGED <<lease, called, sent, answered, pending, claims>>
    BY DEF UnknownWorkflow, At, leases, history
<1>3. Open(t) = {} BY <1>1, <1>2, FenceHolder, NoneOpen DEF SafePc, BusyPc
<1>4. m.base = task[t].base /\ m.stepRun = task[t].stepRun /\ m.wf = task[t].wf
    BY <1>1 DEF Move, Row
<1> HIDE DEF m
<1>5. /\ OtherRows(t) /\ task'[t].base = task[t].base /\ task'[t].stepRun = task[t].stepRun
      /\ task'[t].wf = task[t].wf
    BY <1>1, <1>2, <1>4, RowPut DEF OtherRows
<1>6. run'[c][t] = q /\ OtherRuns(c, t) BY ZenonT(40), <1>1, <1>2, RunPut
<1>7. /\ run'[c][t].pc = "report" /\ run'[c][t].claim = run[c][t].claim
      /\ run'[c][t].stop = run[c][t].stop /\ ~run'[c][t].wf.pause
    BY <1>1, <1>6 DEF Run
<1>8. RowGuarded(t)' BY <1>1, <1>2, <1>3, <1>5, RowMoved
<1>9. Elsewhere(c, t) /\ RowMoves(c, t)
    BY <1>5, <1>6 DEF Elsewhere, Settles, RowMoves, OtherRows, OtherRuns
<1> QED BY ZenonT(40), <1>2, <1>7, <1>8, <1>9, Advance DEF EndPc

LEMMA FinishSafe ==
    ASSUME Kept, NEW c \in Controller, NEW t \in Task, NEW s \in {"completed", "failed"},
           Finish(c, t, s)
    PROVE  RerunInv'
<1>1. CapInv /\ RerunInv /\ ~run[c][t].wf.pause /\ ~task[t].wf.pause
      /\ run[c][t] \in Run /\ task[t] \in Row /\ run[c][t].wf \in State
    BY ZenonT(40), Here, RunFacts DEF Kept, Run
<1>2. /\ run[c][t].pc \in {"working", "step"} /\ Fence(c, t)
      /\ UNCHANGED <<lease, called, sent, answered, pending, claims>>
    BY DEF Finish, At, leases, history
<1>3. Holder(c, t) /\ Open(t) = {}
    BY ZenonT(40), <1>1, <1>2, FenceHolder, NoneOpen DEF SafePc, BusyPc
<1>4. CASE task[t].attempt = run[c][t].seen /\ task[t].status = "running"
  <2> DEFINE w == Unpaused(run[c][t].wf)
             m == Move(task[t], s)
             r == [m EXCEPT !.wf = w, !.stepRun = FALSE]
             q == [run[c][t] EXCEPT !.final = s, !.pc = "deliver"]
  <2>1. task' = [task EXCEPT ![t] = r] /\ run' = [run EXCEPT ![c][t] = q]
      BY <1>4 DEF Finish
  <2>2. ~w.pause BY <1>1 DEF Unpaused, State
  <2>3. m \in Row /\ m.base = task[t].base
      BY <1>1 DEF Move, Row, Status
  <2> HIDE DEF w, m
  <2>4. task'[t] = r /\ OtherRows(t) /\ run'[c][t] = q /\ OtherRuns(c, t)
    <3> HIDE DEF r, q
    <3> QED BY ZenonT(40), <1>1, <2>1, RowPut, RunPut
  <2>5. task'[t].base = task[t].base /\ ~task'[t].wf.pause BY <2>2, <2>3, <2>4 DEF Row
  <2>6. /\ run'[c][t].pc = "deliver" /\ run'[c][t].claim = run[c][t].claim
        /\ run'[c][t].stop = run[c][t].stop /\ ~run'[c][t].wf.pause
      BY <1>1, <2>4 DEF Run
  <2>7. RowGuarded(t)' BY ZenonT(40), <1>2, <1>3, <2>5, RowMoved
  <2>8. Elsewhere(c, t) /\ RowMoves(c, t)
      BY <1>3, <2>4, <2>5 DEF Elsewhere, Settles, RowMoves, OtherRows, OtherRuns
  <2> QED BY ZenonT(40), <1>2, <2>6, <2>7, <2>8, Advance DEF EndPc
<1>5. CASE ~(task[t].attempt = run[c][t].seen /\ task[t].status = "running")
  <2> DEFINE q == [run[c][t] EXCEPT !.final = s, !.stop = "yield", !.pc = "working"]
  <2>1. task' = task /\ run' = [run EXCEPT ![c][t] = q] BY <1>5 DEF Finish
  <2>2. run'[c][t] = q /\ OtherRuns(c, t) BY ZenonT(40), <1>1, <2>1, RunPut
  <2>3. /\ run'[c][t].pc = "working" /\ run'[c][t].claim = run[c][t].claim
        /\ run'[c][t].stop = "yield" /\ ~run'[c][t].wf.pause
      BY <1>1, <2>2 DEF Run
  <2>4. Elsewhere(c, t) /\ RowMoves(c, t) /\ RowGuarded(t)'
      BY <1>2, <2>1, <2>2, SameRow
  <2> QED BY ZenonT(40), <1>2, <1>3, <2>3, <2>4, Advance
<1> QED BY <1>4, <1>5

LEMMA DeliverSafe ==
    ASSUME Kept, NEW c \in Controller, NEW t \in Task, Deliver(c, t)
    PROVE  RerunInv'
<1>1. CapInv /\ RerunInv /\ ~run[c][t].wf.pause BY Here DEF Kept
<1>2. /\ run[c][t].pc \in {"deliver", "report"}
      /\ UNCHANGED <<task, lease, called, sent, answered, pending, claims>>
    BY ZenonT(40) DEF Deliver, At, leases, history, counters
<1>3. CASE At(c, t, {"deliver"})
  <2>1. Goto(c, t, "resolve") BY <1>3 DEF Deliver
  <2>2. Elsewhere(c, t) /\ RowMoves(c, t) /\ RowGuarded(t)'
      BY ZenonT(40), <1>1, <1>2, <2>1, GotoFacts, SameRow
  <2>3. /\ run'[c][t].pc = "resolve" /\ run'[c][t].claim = run[c][t].claim
        /\ run'[c][t].stop = run[c][t].stop /\ run'[c][t].wf = run[c][t].wf
      BY ZenonT(40), <1>1, <2>1, GotoFacts
  <2> QED BY ZenonT(40), <1>1, <1>2, <2>2, <2>3, Advance DEF EndPc
<1>4. CASE ~At(c, t, {"deliver"})
  <2>1. Leave(c, t) BY <1>4 DEF Deliver
  <2>2. Elsewhere(c, t) /\ RowMoves(c, t) /\ RowGuarded(t)'
      BY ZenonT(40), <1>1, <1>2, <2>1, LeaveFacts, SameRow
  <2> QED BY ZenonT(40), <1>2, <2>1, <2>2, Over DEF LeaseMoves
<1> QED BY <1>3, <1>4

-----------------------------------------------------------------------------
(* Steps that leave the runs alone.                                        *)

ReadsSafe(c, S) ==
    \A e \in S : /\ e.why # "paused" /\ ~e.wf.pause
                 /\ e.why \in {"resume", "retry"} => ~Overtaken

LEMMA ReadsPut ==
    ASSUME Kept, NEW c \in Controller, NEW S, ReadsSafe(c, S),
           pending' = [pending EXCEPT ![c] = @ \cup S]
    PROVE  ReadsGuarded'
    BY DEF Kept, CapInv, Typed, RerunInv, ReadsGuarded, ReadsSafe

LEMMA ReadsKept ==
    ASSUME RerunInv, \A d \in Controller : pending'[d] \subseteq pending[d]
    PROVE  ReadsGuarded'
    BY DEF RerunInv, ReadsGuarded

(* Rows and leases: leases run out that no run has, or that an overtaken   *)
(* run has.                                                                *)
LEMMA RunsStay ==
    ASSUME Kept, UNCHANGED <<run, called, sent, answered, claims>>,
           ReadsGuarded', \A u \in Task : RowGuarded(u)',
           \A u \in Task : /\ task'[u].base \in {task[u].base, claims}
                           /\ task'[u].stepRun = task[u].stepRun,
           \A u \in Task : \/ lease'[u] = lease[u]
                           \/ /\ lease'[u] = 0
                              /\ Overtaken \/ \A d \in Controller : run[d][u].claim # lease[u]
    PROVE  RerunInv'
<1>1. CapInv /\ RerunInv BY DEF Kept
<1>2. Numbered' BY ZenonT(40), <1>1 DEF RerunInv, Numbered
<1>3. ASSUME NEW d \in Controller, NEW u \in Task PROVE RunGuarded(d, u)'
  <2>1. RunGuarded(d, u) BY ZenonT(40), <1>1 DEF RerunInv
  <2>2. Holder(d, u)' => Holder(d, u) BY ZenonT(40) DEF Holder
  <2>3. run[d][u].pc \in {"resuming", "retrying"} /\ Holder(d, u) => Holder(d, u)'
      BY ZenonT(40), <2>1 DEF Holder, RunGuarded
  <2>4. task'[u].base >= task[u].base
    <3>1. task[u].base \in Nat /\ task[u].base <= claims /\ claims \in Nat
        BY ZenonT(40), <1>1, RunFacts DEF RerunInv, RowGuarded, Row
    <3> QED BY <3>1
  <2> QED BY ZenonT(40), <2>1, <2>2, <2>3, <2>4, RunKept
<1> QED BY ZenonT(40), <1>2, <1>3 DEF RerunInv

(* A step that only reads rows for a claim.                                *)
LEMMA OnlyReads ==
    ASSUME Kept, UNCHANGED <<task, lease, run, called, sent, answered, claims>>, ReadsGuarded'
    PROVE  RerunInv'
<1>1. \A u \in Task : RowGuarded(u)' BY ZenonT(40), RowKept DEF Kept, RerunInv, Settles
<1> QED BY ZenonT(40), <1>1, RunsStay

(* A step on one row.                                                      *)
LEMMA OnlyRow ==
    ASSUME Kept, NEW t \in Task, UNCHANGED <<lease, run, called, sent, answered, claims>>,
           \A d \in Controller : pending'[d] \subseteq pending[d],
           OtherRows(t), RowGuarded(t)',
           task'[t].base \in {task[t].base, claims}, task'[t].stepRun = task[t].stepRun
    PROVE  RerunInv'
<1>1. RerunInv BY DEF Kept
<1>2. \A u \in Task : RowGuarded(u)'
    BY ZenonT(40), <1>1, RowKept DEF RerunInv, Settles, OtherRows
<1>3. ReadsGuarded' BY ZenonT(40), <1>1, ReadsKept
<1>4. \A u \in Task : /\ task'[u].base \in {task[u].base, claims}
                      /\ task'[u].stepRun = task[u].stepRun
    BY ZenonT(40) DEF OtherRows
<1> QED BY ZenonT(40), <1>2, <1>3, <1>4, RunsStay

(* update_task_status leaves all but the status alone.                     *)
LEMMA MoveFacts ==
    ASSUME NEW r \in Row, NEW s \in Status
    PROVE  /\ Move(r, s) \in Row
           /\ Move(r, s).base = r.base /\ Move(r, s).stepRun = r.stepRun
           /\ Move(r, s).wf = r.wf /\ Move(r, s).attempt = r.attempt
           /\ Move(r, s).status = IF r.status \in AllowedFrom(s) THEN s ELSE r.status
    BY DEF Move, Row

LEMMA SubmitSafe ==
    ASSUME Kept, NEW c \in Controller, NEW t \in Task, Submit(c, t)
    PROVE  RerunInv'
<1>1. CapInv /\ RerunInv /\ RowGuarded(t) /\ ~task[t].wf.pause /\ task[t] \in Row
    BY ZenonT(40), Here, RunFacts DEF Kept
<1>2. /\ task[t].status = "draft" /\ task' = [task EXCEPT ![t] = Move(task[t], "queued")]
      /\ UNCHANGED <<lease, run, called, sent, answered, pending, claims>>
    BY DEF Submit, leases, history
<1>3. task'[t] = Move(task[t], "queued") /\ OtherRows(t) BY ZenonT(40), <1>1, <1>2, RowPut
<1>4. task'[t].base = task[t].base /\ task'[t].stepRun = task[t].stepRun
      /\ task'[t].wf = task[t].wf
    BY <1>1, <1>3, MoveFacts DEF Status
<1>5. Open(t) = {} BY ZenonT(40), <1>1, <1>2 DEF RowGuarded, Guarded
<1>6. RowGuarded(t)' BY ZenonT(40), <1>1, <1>2, <1>4, <1>5, RowMoved
<1> QED BY ZenonT(40), <1>2, <1>3, <1>4, <1>6, OnlyRow

LEMMA TransitionToReadySafe ==
    ASSUME Kept, NEW c \in Controller, NEW t \in Task, TransitionToReady(c, t)
    PROVE  RerunInv'
<1>1. CapInv /\ RerunInv /\ RowGuarded(t) BY Here DEF Kept
<1>2. UNCHANGED <<lease, run, called, sent, answered, pending, claims>>
    BY DEF TransitionToReady, leases, history, counters
<1>3. Settles(t) /\ OtherRows(t)
  <2>1. CASE Met(t)
    <3>1. task' = [task EXCEPT ![t] = Move(task[t], "ready")] BY <2>1 DEF TransitionToReady
    <3> QED BY ZenonT(40), <1>1, <3>1, RowPut DEF Settles
  <2>2. CASE ~Met(t) BY <2>2 DEF TransitionToReady, Settles, OtherRows
  <2> QED BY <2>1, <2>2
<1>4. /\ RowGuarded(t)'
      /\ task'[t].base = task[t].base /\ task'[t].stepRun = task[t].stepRun
    BY ZenonT(40), <1>1, <1>2, <1>3, RowKept
<1> QED BY ZenonT(40), <1>2, <1>3, <1>4, OnlyRow

LEMMA DueSafe ==
    ASSUME Kept, NEW t \in Task, Due(t)
    PROVE  RerunInv'
<1> DEFINE r == [task[t] EXCEPT !.due = TRUE]
<1>1. CapInv /\ RerunInv /\ RowGuarded(t) /\ task[t] \in Row
    BY DEF Kept, RerunInv, CapInv, Typed
<1>2. /\ task' = [task EXCEPT ![t] = r]
      /\ UNCHANGED <<lease, run, called, sent, answered, pending, claims>>
    BY DEF Due, leases, history, counters
<1>3. task'[t] = r /\ OtherRows(t) BY ZenonT(40), <1>1, <1>2, RowPut
<1>4. /\ task'[t].base = task[t].base /\ task'[t].stepRun = task[t].stepRun
      /\ task'[t].wf = task[t].wf /\ task'[t].attempt = task[t].attempt
      /\ task'[t].status = task[t].status
    BY <1>1, <1>3 DEF Row
<1>5. RowGuarded(t)' BY <1>1, <1>2, <1>4, RowMoved DEF RowGuarded, Guarded
<1> QED BY <1>2, <1>3, <1>4, <1>5, OnlyRow

LEMMA ListTasksSafe ==
    ASSUME Kept, NEW c \in Controller, NEW why \in Listed, ListTasks(c, why)
    PROVE  RerunInv'
<1> DEFINE rows == {t \in Task : task[t].status = why /\ (why = "paused" => task[t].wf.pause)}
           S == {[task |-> t, why |-> why, wf |-> task[t].wf, attempt |-> task[t].attempt]
                    : t \in rows}
<1>1. /\ rows # {} /\ pending' = [pending EXCEPT ![c] = @ \cup S]
      /\ UNCHANGED <<task, lease, run, called, sent, answered, claims>>
    BY ZenonT(40) DEF ListTasks, leases, history, counters
<1>2. \A t \in Task : ~task[t].wf.pause BY ZenonT(40) DEF Kept, RerunInv, RowGuarded
<1>3. why = "running" BY ZenonT(40), <1>1, <1>2 DEF Listed
<1>4. ReadsSafe(c, S) BY <1>2, <1>3 DEF ReadsSafe
<1> HIDE DEF S
<1>5. ReadsGuarded' BY ZenonT(40), <1>1, <1>4, ReadsPut
<1> QED BY <1>1, <1>5, OnlyReads

LEMMA ResumeTaskSafe ==
    ASSUME Unattended, Kept, NEW c \in Controller, NEW t \in Task, ResumeTask(c, t)
    PROVE  RerunInv'
<1> DEFINE e == [task |-> t, wf |-> task[t].wf, attempt |-> task[t].attempt,
                 why |-> IF Launched(c, t) /\ run[c][t].stop = "no" THEN "proceed" ELSE "resume"]
<1>1. /\ pending' = [pending EXCEPT ![c] = @ \cup {e}] /\ "resume" \in RequestKind
      /\ UNCHANGED <<task, lease, run, called, sent, answered, claims>>
    BY ZenonT(40) DEF ResumeTask, Request, leases, history
<1>2. ~task[t].wf.pause BY ZenonT(40) DEF Kept, RerunInv, RowGuarded
<1>3. ReadsSafe(c, {e}) BY <1>1, <1>2 DEF ReadsSafe, Unattended
<1> HIDE DEF e
<1>4. ReadsGuarded' BY ZenonT(40), <1>1, <1>3, ReadsPut
<1> QED BY <1>1, <1>4, OnlyReads

LEMMA RetryFailedTaskSafe ==
    ASSUME Unattended, Kept, NEW c \in Controller, NEW t \in Task, RetryFailedTask(c, t)
    PROVE  RerunInv'
<1> DEFINE e == [task |-> t, why |-> "retry", wf |-> Unpaused(task[t].wf),
                 attempt |-> task[t].attempt]
<1>1. /\ pending' = [pending EXCEPT ![c] = @ \cup {e}] /\ "retry" \in RequestKind
      /\ UNCHANGED <<task, lease, run, called, sent, answered, claims>>
    BY ZenonT(40) DEF RetryFailedTask, Request, leases, history
<1>2. ~Unpaused(task[t].wf).pause BY DEF Kept, CapInv, Typed, Row, State, Unpaused
<1>3. ReadsSafe(c, {e}) BY <1>1, <1>2 DEF ReadsSafe, Unattended
<1> HIDE DEF e
<1>4. ReadsGuarded' BY ZenonT(40), <1>1, <1>3, ReadsPut
<1> QED BY <1>1, <1>4, OnlyReads

(* A user has the task go on: the calls up to now are answered for.        *)
LEMMA ProceedSafe ==
    ASSUME Kept, NEW c \in Controller, NEW t \in Task, Proceed(c, t)
    PROVE  RerunInv'
<1> DEFINE m == Move(task[t], "running")
<1>1. PICK e \in pending[c] : Proceed(c, t)!(e) BY ZenonT(40) DEF Proceed
<1>2. CapInv /\ RerunInv /\ RowGuarded(t) /\ ~task[t].wf.pause /\ task[t] \in Row
    BY ZenonT(40), Here, RunFacts DEF Kept
<1>3. /\ \A d \in Controller : pending'[d] \subseteq pending[d]
      /\ UNCHANGED <<lease, run, called, sent, answered, claims>>
    BY ZenonT(40), <1>1 DEF leases, history, counters, Kept, CapInv, Typed
<1>4. CASE task[t].status \in AllowedFrom("running")
  <2>1. task' = [task EXCEPT ![t] = ByUser(m)] BY <1>1, <1>4
  <2>2. m \in Row /\ m.stepRun = task[t].stepRun /\ m.wf = task[t].wf
      BY ZenonT(40), <1>2, MoveFacts DEF Status
  <2> HIDE DEF m
  <2>3. task'[t] = ByUser(m) /\ OtherRows(t) BY ZenonT(40), <1>2, <2>1, RowPut
  <2>4. task'[t].base = claims /\ task'[t].stepRun = task[t].stepRun /\ task'[t].wf = task[t].wf
      BY <2>2, <2>3 DEF ByUser, Row
  <2>5. RowGuarded(t)' BY ZenonT(40), <1>2, <1>3, <2>4, RowMoved
  <2> QED BY ZenonT(40), <1>3, <2>3, <2>4, <2>5, OnlyRow
<1>5. CASE task[t].status \notin AllowedFrom("running")
  <2>1. task' = task BY <1>1, <1>5
  <2> QED BY ZenonT(40), <1>2, <1>3, <2>1, ReadsKept, OnlyReads
<1> QED BY ZenonT(40), <1>4, <1>5

LEMMA LeasesSafe ==
    ASSUME Kept, NEW k, Expire(k) \/ Lapse(k)
    PROVE  RerunInv'
<1>1. /\ Release(k) /\ UNCHANGED <<task, run, pending, called, sent, answered, claims>>
      /\ Overtaken \/ \A c \in Controller, t \in Task : run[c][t].claim # k
    BY DEF Expire, Lapse, history, counters, Fault, Overtaken
<1>2. \A u \in Task : \/ lease'[u] = lease[u]
                      \/ /\ lease'[u] = 0
                         /\ Overtaken \/ \A d \in Controller : run[d][u].claim # lease[u]
    BY ZenonT(40), <1>1 DEF Release
<1>3. \A u \in Task : RowGuarded(u)' BY ZenonT(40), <1>1, RowKept DEF Kept, RerunInv, Settles
<1>4. ReadsGuarded' BY <1>1, ReadsKept DEF Kept
<1> QED BY ZenonT(40), <1>1, <1>2, <1>3, <1>4, RunsStay

-----------------------------------------------------------------------------
(* Claims.                                                                 *)

(* A claim of a free task: the run starts where no call is open, or where  *)
(* it looks for one, or a run that is still active here keeps its own.     *)
LEMMA ClaimSafe ==
    ASSUME Kept, NEW c \in Controller, NEW t \in Task, NEW r \in Run, Claim(c, t, r),
           lease[t] = 0, UNCHANGED <<called, sent, answered>>,
           \A d \in Controller : pending'[d] \subseteq pending[d],
           r.stop = "no", ~r.wf.pause, r.pc \in {"classify", "launch", "claimed", "resuming",
              "retrying"},
           r.pc \in {"resuming", "retrying"} => ~Overtaken,
           OtherRows(t), task'[t].stepRun = task[t].stepRun,
           task'[t].base \in {task[t].base, claims},
           run[c][t] = NoRun =>
               IF r.pc = "classify" THEN Open(t) # {} => task[t].stepRun ELSE Open(t)' = {},
           RowGuarded(t)'
    PROVE  RerunInv'
<1>1. /\ CapInv /\ RerunInv /\ Numbered /\ RunGuarded(c, t) /\ claims \in Nat /\ claims' = claims + 1
      /\ run[c][t].claim \in 0 .. claims /\ task[t].base \in Nat /\ task[t].base <= claims
    BY Here, RunFacts DEF Kept, Claim, RerunInv, RowGuarded, Row
<1>2. ReadsGuarded' BY ZenonT(40), <1>1, ReadsKept
<1>3. CallMoves(c, t) /\ RowMoves(c, t) BY ZenonT(40) DEF CallMoves, RowMoves
<1>4. CASE run[c][t] = NoRun
  <2> DEFINE q == [r EXCEPT !.claim = claims + 1, !.attempt = task[t].attempt,
                            !.slots = FreeSlots(t)]
  <2>1. lease' = [lease EXCEPT ![t] = claims + 1] /\ run' = [run EXCEPT ![c][t] = q]
      BY <1>4 DEF Claim
  <2>2. run'[c][t] = q /\ OtherRuns(c, t)
    <3> HIDE DEF q
    <3> QED BY ZenonT(40), <1>1, <2>1, RunPut
  <2>3. /\ run'[c][t].pc = r.pc /\ run'[c][t].claim = claims + 1
        /\ run'[c][t].stop = "no" /\ run'[c][t].wf = r.wf
      BY <2>2 DEF Run
  <2>4. Elsewhere(c, t) /\ LeaseMoves(c, t)
      BY <2>1, <2>2
           DEF Elsewhere, Settles, LeaseMoves, OtherRows, OtherRuns, CapInv, Kept, LeaseTyped
  <2>5. \A e \in sent' \ answered' : e[3] # claims + 1 BY <1>1 DEF Numbered
  <2>6. Open(t)' \subseteq Open(t) BY ZenonT(40), OpenShrinks
  <2>7. r.pc \in {"resuming", "retrying"} => Holder(c, t)'
    <3>1. lease'[t] = claims + 1 /\ claims + 1 # 0 BY <1>1, <2>1 DEF LeaseTyped, Kept
    <3> QED BY ZenonT(40), <2>3, <3>1 DEF Holder
  <2>8. RunGuarded(c, t)'
    <3>1. r.pc \notin AskPc \cup BusyPc \cup {"none", "close"} BY ZenonT(40) DEF AskPc, BusyPc
    <3>2. r.pc # "classify" => Open(t)' = {} BY ZenonT(40), <1>4
    <3>3. r.pc = "classify" /\ Open(t)' # {} => task'[t].stepRun BY ZenonT(40), <1>4, <2>6
    <3>4. "classify" \notin SafePc /\ {"step", "recorded", "calling"} \subseteq BusyPc
        BY ZenonT(40) DEF SafePc, BusyPc
    <3> QED BY ZenonT(40), <2>3, <2>5, <2>7, <3>1, <3>2, <3>3, <3>4 DEF RunGuarded
  <2> QED BY ZenonT(40), <1>1, <1>2, <1>3, <2>4, <2>8, Frame
<1>5. CASE run[c][t] # NoRun
  <2>1. UNCHANGED <<lease, run>> BY <1>5 DEF Claim, leases
  <2>2. Elsewhere(c, t) /\ LeaseMoves(c, t)
      BY ZenonT(40), <2>1 DEF Elsewhere, Settles, LeaseMoves, OtherRows
  <2>3. task'[t].base >= task[t].base BY ZenonT(40), <1>1, Raised
  <2>4. RunGuarded(c, t)'
    <3>1. Holder(c, t)' <=> Holder(c, t) BY ZenonT(40), <2>1 DEF Holder
    <3> QED BY ZenonT(40), <1>1, <2>1, <2>3, <3>1, RunKept
  <2> QED BY ZenonT(40), <1>1, <1>2, <1>3, <2>2, <2>4, Frame
<1> QED BY ZenonT(40), <1>4, <1>5

LEMMA ClaimReadySafe ==
    ASSUME Kept, NEW c \in Controller, NEW t \in Task, ClaimReady(c, t)
    PROVE  RerunInv'
<1> DEFINE r == [NoRun EXCEPT !.pc = "claimed"]
           m == Move(task[t], "running")
<1>1. CapInv /\ RerunInv /\ RowGuarded(t) /\ ~task[t].wf.pause /\ task[t] \in Row
    BY ZenonT(40), Here, RunFacts DEF Kept
<1>2. /\ task[t].status = "ready" /\ lease[t] = 0 /\ Claim(c, t, r)
      /\ task' = [task EXCEPT ![t] = m] /\ UNCHANGED <<called, sent, answered, pending>>
    BY DEF ClaimReady, Candidate, Claimable, history
<1>3. r \in Run /\ r.stop = "no" /\ ~r.wf.pause /\ r.pc = "claimed"
    BY ZenonT(40) DEF NoRun, Fresh, Run, State, ClaimPc
<1>4. m.base = task[t].base /\ m.stepRun = task[t].stepRun /\ m.wf = task[t].wf
    BY ZenonT(40), <1>1, MoveFacts DEF Status
<1>5. claims' = claims + 1 BY <1>2 DEF Claim
<1> HIDE DEF r, m
<1>6. task'[t] = m /\ OtherRows(t) BY ZenonT(40), <1>1, <1>2, RowPut
<1>7. Open(t) = {} BY ZenonT(40), <1>1, <1>2 DEF RowGuarded, Guarded
<1>8. Open(t)' = {} BY <1>2, <1>4, <1>6, <1>7, OpenShrinks
<1>9. RowGuarded(t)' BY ZenonT(40), <1>1, <1>2, <1>4, <1>5, <1>6, <1>7, RowMoved
<1> QED BY ZenonT(40), <1>2, <1>3, <1>4, <1>6, <1>8, <1>9, ClaimSafe

LEMMA LaunchSafe ==
    ASSUME Kept, NEW c \in Controller, NEW t \in Task, Launch(c, t)
    PROVE  RerunInv'
<1> DEFINE q == [run[c][t] EXCEPT !.pc = "launch", !.wf = task[t].wf, !.seen = task[t].attempt]
<1>1. CapInv /\ RerunInv /\ ~task[t].wf.pause /\ run[c][t] \in Run
    BY ZenonT(40), Here, RunFacts DEF Kept
<1>2. /\ run[c][t].pc = "claimed" /\ run' = [run EXCEPT ![c][t] = q]
      /\ UNCHANGED <<task, lease, called, sent, answered, pending, claims>>
    BY DEF Launch, At, leases, history, counters
<1>3. run'[c][t] = q /\ OtherRuns(c, t) BY ZenonT(40), <1>1, <1>2, RunPut
<1>4. /\ run'[c][t].pc = "launch" /\ run'[c][t].claim = run[c][t].claim
      /\ run'[c][t].stop = run[c][t].stop /\ ~run'[c][t].wf.pause
    BY <1>1, <1>3 DEF Run
<1>5. Elsewhere(c, t) /\ RowMoves(c, t) /\ RowGuarded(t)' BY <1>2, <1>3, SameRow
<1> QED BY ZenonT(40), <1>2, <1>4, <1>5, Advance DEF SafePc

(* What a claim makes of the row: it is left alone, or its calls become    *)
(* the user's.                                                             *)
LEMMA TakenFacts ==
    ASSUME CapInv, NEW c \in Controller, NEW e \in Read, ~e.wf.pause, ~task[e.task].wf.pause,
           e.why # "paused"
    PROVE  /\ Taken(c, e).stepRun = task[e.task].stepRun /\ ~Taken(c, e).wf.pause
           /\ e.why = "running" => Taken(c, e) = task[e.task]
           /\ e.why # "running" => Taken(c, e).base = claims
<1> DEFINE row == ByUser(task[e.task])
           m == Move(row, "running")
<1>1. e.task \in Task /\ task[e.task] \in Row /\ claims \in Nat BY DEF CapInv, Typed, Read
<1>2. /\ row \in Row /\ row.stepRun = task[e.task].stepRun /\ row.wf = task[e.task].wf
      /\ row.base = claims
    BY <1>1 DEF ByUser, Row
<1>3. Taken(c, e) \in {task[e.task], row, [m EXCEPT !.wf = e.wf]}
    BY DEF Taken
<1>4. /\ e.why = "running" => Taken(c, e) = task[e.task]
      /\ e.why # "running" => Taken(c, e) \in {row, [m EXCEPT !.wf = e.wf]}
    BY DEF Taken, Listed
<1> HIDE DEF row
<1>5. m \in Row /\ m.base = row.base /\ m.stepRun = row.stepRun
    BY ZenonT(40), <1>2, MoveFacts DEF Status
<1> HIDE DEF m
<1>6. /\ [m EXCEPT !.wf = e.wf].base = claims /\ [m EXCEPT !.wf = e.wf].wf = e.wf
      /\ [m EXCEPT !.wf = e.wf].stepRun = task[e.task].stepRun
    BY <1>2, <1>5 DEF Row
<1> QED BY ZenonT(40), <1>2, <1>3, <1>4, <1>6

LEMMA ClaimExistingSafe ==
    ASSUME Kept, NEW c \in Controller, ClaimExisting(c)
    PROVE  RerunInv'
<1>1. PICK e \in pending[c] : ClaimExisting(c)!(e) BY ZenonT(40) DEF ClaimExisting
<1> DEFINE t == e.task
           r == [NoRun EXCEPT !.pc = Entry(e.why), !.wf = e.wf, !.seen = e.attempt]
<1>2. CapInv /\ RerunInv BY DEF Kept
<1>3. /\ e \in Read /\ t \in Task /\ e.why # "paused" /\ ~e.wf.pause
      /\ e.why \in {"resume", "retry"} => ~Overtaken
    BY <1>2 DEF CapInv, Typed, Read, RerunInv, ReadsGuarded
<1>4. e.why \in {"running", "resume", "retry", "revise"}
    BY <1>1, <1>3 DEF NextEntry, Read, Listed
<1>5. RowGuarded(t) /\ ~task[t].wf.pause BY ZenonT(40), <1>2, <1>3, Here
<1>6. /\ \A d \in Controller : pending'[d] \subseteq pending[d]
      /\ UNCHANGED <<called, sent, answered>>
    BY <1>1, <1>2 DEF history, CapInv, Typed
<1>7. CASE UNCHANGED <<task, leases, run, claims>>
    BY <1>2, <1>6, <1>7, ReadsKept, OnlyReads DEF leases
<1>8. CASE /\ task[t].status = Demanded(e.why) /\ Claimable(t) /\ Claim(c, t, r)
           /\ task' = [task EXCEPT ![t] = Taken(c, e)]
  <2>1. /\ r \in Run /\ r.stop = "no" /\ ~r.wf.pause
        /\ r.pc = Entry(e.why)
        /\ Entry(e.why) \in {"classify", "launch", "resuming", "retrying"}
        /\ Entry(e.why) = "classify" <=> e.why = "running"
        /\ Entry(e.why) \in {"resuming", "retrying"} <=> e.why \in {"resume", "retry"}
    <3>1. /\ Entry(e.why) \in {"classify", "launch", "resuming", "retrying"}
          /\ Entry(e.why) = "classify" <=> e.why = "running"
          /\ Entry(e.why) \in {"resuming", "retrying"} <=> e.why \in {"resume", "retry"}
        BY <1>4 DEF Entry
    <3> HIDE DEF Entry
    <3> QED BY ZenonT(40), <1>3, <3>1 DEF NoRun, Run, Read, ClaimPc, RunPc
  <2>2. claims' = claims + 1 /\ lease[t] = 0 BY <1>8 DEF Claim, Claimable
  <2> HIDE DEF r
  <2>3. task'[t] = Taken(c, e) /\ OtherRows(t) BY ZenonT(40), <1>2, <1>3, <1>8, RowPut
  <2>4. /\ task'[t].stepRun = task[t].stepRun /\ ~task'[t].wf.pause
        /\ e.why = "running" => task'[t] = task[t]
        /\ e.why # "running" => task'[t].base = claims
      BY ZenonT(40), <1>2, <1>3, <1>5, <2>3, TakenFacts
  <2>5. task'[t].base \in {task[t].base, claims} BY ZenonT(40), <2>4
  <2>6. RowGuarded(t)'
    <3>1. CASE e.why = "running" BY ZenonT(40), <1>3, <1>6, <2>2, <2>4, <2>5, <3>1, RowMoved
    <3>2. CASE e.why # "running" BY ZenonT(40), <1>3, <1>6, <2>2, <2>4, <2>5, <3>2, RowMoved
    <3> QED BY ZenonT(40), <3>1, <3>2
  <2>7. IF r.pc = "classify" THEN Open(t) # {} => task[t].stepRun ELSE Open(t)' = {}
    <3>1. CASE e.why = "running"
      <4>1. task[t].status = "running" BY <1>8, <3>1 DEF Demanded
      <4> QED BY ZenonT(40), <1>5, <2>1, <3>1, <4>1 DEF RowGuarded, Guarded
    <3>2. CASE e.why # "running"
      <4>1. Open(t)' = {} BY ZenonT(40), <1>3, <1>6, <2>4, <2>5, <3>2, OpenShrinks
      <4> QED BY ZenonT(40), <2>1, <3>2, <4>1
    <3> QED BY ZenonT(40), <3>1, <3>2
  <2>8. r.pc \in {"resuming", "retrying"} => ~Overtaken BY ZenonT(40), <1>3, <2>1
  <2>9. /\ r.pc \in {"classify", "launch", "claimed", "resuming", "retrying"}
        /\ r \in Run /\ r.stop = "no" /\ ~r.wf.pause
      BY <2>1
  <2>10. t \in Task /\ Claim(c, t, r) BY ZenonT(40), <1>3, <1>8
  <2> QED BY ZenonT(40), <1>6, <2>2, <2>3, <2>4, <2>5, <2>6, <2>7, <2>8, <2>9, <2>10, ClaimSafe
<1> QED BY <1>1, <1>7, <1>8

(* _classify_crash_recovery finds every open call: the step run is open    *)
(* and the call is of this attempt.                                        *)
LEMMA ClassifyFinds ==
    ASSUME RerunInv, NEW c \in Controller, NEW t \in Task,
           run[c][t].pc = "classify", Holder(c, t), Open(t) # {}
    PROVE  Ambiguous(t)
<1>1. RunGuarded(c, t) /\ RowGuarded(t) /\ sent \subseteq called
  BY ZenonT(40), Here DEF RerunInv, Numbered
<1>2. PICK e \in Open(t) : TRUE OBVIOUS
<1>3. e \in called \ answered /\ e[1] = t BY ZenonT(40), <1>1, <1>2 DEF Open
<1>4. e[2] = task[t].attempt BY ZenonT(40), <1>1, <1>2 DEF RowGuarded
<1>5. task[t].stepRun BY ZenonT(40), <1>1 DEF RunGuarded
<1> QED BY ZenonT(40), <1>3, <1>4, <1>5 DEF Ambiguous

LEMMA ClassifySafe ==
    ASSUME Kept, NEW c \in Controller, NEW t \in Task, Classify(c, t)
    PROVE  RerunInv'
<1>1. /\ CapInv /\ RerunInv /\ RowGuarded(t) /\ ~run[c][t].wf.pause /\ ~task[t].wf.pause
      /\ task[t] \in Row
    BY ZenonT(40), Here, RunFacts DEF Kept
<1>2. run[c][t].pc = "classify" /\ UNCHANGED <<called, sent, answered, claims>>
    BY DEF Classify, At, history, counters
<1>3. CASE ~Ambiguous(t)
  <2>1. Goto(c, t, "launch") /\ UNCHANGED <<task, lease, pending>>
      BY <1>3 DEF Classify, leases
  <2>2. Elsewhere(c, t) /\ RowMoves(c, t) /\ RowGuarded(t)'
      BY ZenonT(40), <1>1, <1>2, <2>1, GotoFacts, SameRow
  <2>3. /\ run'[c][t].pc = "launch" /\ run'[c][t].claim = run[c][t].claim
        /\ run'[c][t].stop = run[c][t].stop /\ run'[c][t].wf = run[c][t].wf
      BY ZenonT(40), <1>1, <2>1, GotoFacts
  <2>4. Holder(c, t) => Open(t) = {} BY ZenonT(40), <1>1, <1>2, <1>3, ClassifyFinds
  <2> QED BY ZenonT(40), <1>1, <1>2, <2>1, <2>2, <2>3, <2>4, Advance
<1>4. CASE Ambiguous(t) /\ Fence(c, t)
  <2> DEFINE m == Move(task[t], "failed")
             r == [m EXCEPT !.stepRun = FALSE]
  <2>1. /\ task' = [task EXCEPT ![t] = r] /\ Release(run[c][t].claim)
        /\ run' = [run EXCEPT ![c][t] = NoRun] /\ pending' = pending
      BY <1>4 DEF Classify
  <2>2. Holder(c, t) BY ZenonT(40), <1>1, <1>2, <1>4, FenceHolder
  <2>3. /\ m \in Row /\ m.base = task[t].base /\ m.wf = task[t].wf /\ m.attempt = task[t].attempt
        /\ Guarded(task[t]) => m.status \in {"paused", "completed", "failed", "cancelled"}
      BY ZenonT(40), <1>1, MoveFacts DEF Status, AllowedFrom, Guarded
  <2> HIDE DEF m
  <2>4. /\ r.base = task[t].base /\ r.wf = task[t].wf /\ r.attempt = task[t].attempt
        /\ r.status = m.status
      BY <2>3 DEF Row
  <2> HIDE DEF r
  <2>5. task'[t] = r /\ OtherRows(t) BY ZenonT(40), <1>1, <2>1, RowPut
  <2>6. run'[c][t] = NoRun /\ OtherRuns(c, t) BY ZenonT(40), <1>1, <2>1, RunPut
  <2>7. RowGuarded(t)' BY ZenonT(40), <1>1, <1>2, <2>3, <2>4, <2>5, RowMoved DEF Guarded
  <2>8. Elsewhere(c, t) /\ RowMoves(c, t)
      BY ZenonT(40), <2>2, <2>4, <2>5, <2>6 DEF Elsewhere, Settles, RowMoves, OtherRows, OtherRuns
  <2> QED BY ZenonT(40), <1>2, <2>1, <2>6, <2>7, <2>8, ReleaseMoves, Over
<1>5. CASE Ambiguous(t) /\ ~Fence(c, t)
  <2>1. /\ run' = [run EXCEPT ![c][t] = NoRun] /\ UNCHANGED <<task, lease>>
        /\ pending' = [pending EXCEPT ![c] = {e \in @ : e.why \notin Listed}]
      BY <1>5 DEF Classify, leases
  <2>2. run'[c][t] = NoRun /\ OtherRuns(c, t) BY ZenonT(40), <1>1, <2>1, RunPut
  <2>3. \A d \in Controller : pending'[d] \subseteq pending[d]
      BY <1>1, <2>1 DEF CapInv, Typed
  <2>4. Elsewhere(c, t) /\ RowMoves(c, t) /\ RowGuarded(t)' BY <1>2, <2>1, <2>2, SameRow
  <2> QED BY ZenonT(40), <1>2, <2>1, <2>2, <2>3, <2>4, Over DEF LeaseMoves
<1> QED BY <1>3, <1>4, <1>5

(* A user's resume or retry: the claim is still held, or a cancellation    *)
(* took it.                                                                *)
LEMMA ResumeSafe ==
    ASSUME Kept, NEW c \in Controller, NEW t \in Task, Resume(c, t)
    PROVE  RerunInv'
<1> DEFINE row == Move(task[t], "running")
<1>1. /\ CapInv /\ RerunInv /\ RunGuarded(c, t) /\ ~run[c][t].wf.pause /\ ~task[t].wf.pause
      /\ task[t] \in Row /\ run[c][t] \in Run
    BY ZenonT(40), Here, RunFacts DEF Kept
<1>2. /\ run[c][t].pc \in {"resuming", "retrying"}
      /\ UNCHANGED <<pending, called, sent, answered, claims>>
    BY DEF Resume, At, history, counters
<1>3. CASE row.status = "running" /\ task[t].status # "running"
  <2> DEFINE w == IF At(c, t, {"retrying"}) THEN run[c][t].wf ELSE task[t].wf
             r == [row EXCEPT !.wf = w]
             n == IF At(c, t, {"retrying"}) THEN task[t].attempt ELSE run[c][t].seen
             q == [run[c][t] EXCEPT !.pc = "launch", !.seen = n]
  <2>1. task' = [task EXCEPT ![t] = r] /\ run' = [run EXCEPT ![c][t] = q] /\ lease' = lease
      BY <1>3 DEF Resume, leases
  <2>2. ~w.pause BY ZenonT(40), <1>1
  <2>3. /\ row \in Row /\ row.base = task[t].base /\ row.stepRun = task[t].stepRun
        /\ task[t].status # "cancelled"
    <3>1. /\ row \in Row /\ row.base = task[t].base /\ row.stepRun = task[t].stepRun
          /\ row.status = IF task[t].status \in AllowedFrom("running") THEN "running"
                          ELSE task[t].status
        BY ZenonT(40), <1>1, MoveFacts DEF Status
    <3> HIDE DEF row
    <3> QED BY ZenonT(40), <1>3, <3>1 DEF AllowedFrom
  <2>4. Open(t) = {}
    <3>1. Holder(c, t) BY ZenonT(40), <1>1, <1>2, <2>3 DEF RunGuarded
    <3> QED BY ZenonT(40), <1>1, <1>2, <3>1, NoneOpen DEF SafePc, BusyPc
  <2> HIDE DEF w, row, n
  <2>5. task'[t] = r /\ OtherRows(t) /\ run'[c][t] = q /\ OtherRuns(c, t)
    <3> HIDE DEF r, q
    <3> QED BY ZenonT(40), <1>1, <2>1, RowPut, RunPut
  <2>6. task'[t].base = task[t].base /\ task'[t].stepRun = task[t].stepRun /\ ~task'[t].wf.pause
      BY <2>2, <2>3, <2>5 DEF Row
  <2>7. /\ run'[c][t].pc = "launch" /\ run'[c][t].claim = run[c][t].claim
        /\ run'[c][t].stop = run[c][t].stop /\ ~run'[c][t].wf.pause
      BY <1>1, <2>5 DEF Run
  <2>8. RowGuarded(t)' BY ZenonT(40), <1>2, <2>4, <2>6, RowMoved
  <2>9. Elsewhere(c, t) /\ RowMoves(c, t)
      BY <2>5, <2>6 DEF Elsewhere, Settles, RowMoves, OtherRows, OtherRuns
  <2> QED BY ZenonT(40), <1>2, <2>1, <2>7, <2>8, <2>9, Advance DEF SafePc
<1>4. CASE ~(row.status = "running" /\ task[t].status # "running")
  <2>1. /\ Release(run[c][t].claim) /\ run' = [run EXCEPT ![c][t] = NoRun] /\ task' = task
      BY <1>4 DEF Resume
  <2>2. run'[c][t] = NoRun /\ OtherRuns(c, t) BY ZenonT(40), <1>1, <2>1, RunPut
  <2>3. Elsewhere(c, t) /\ RowMoves(c, t) /\ RowGuarded(t)' BY <1>2, <2>1, <2>2, SameRow
  <2> QED BY ZenonT(40), <1>2, <2>1, <2>2, <2>3, ReleaseMoves, Over
<1> QED BY <1>3, <1>4

(* A run that is told to stop.                                             *)
LEMMA StopFacts ==
    ASSUME CapInv, NEW c \in Controller, NEW t \in Task, NEW s,
           run' = run \/ run' = [run EXCEPT ![c][t].stop = s]
    PROVE  /\ OtherRuns(c, t)
           /\ run'[c][t].pc = run[c][t].pc /\ run'[c][t].claim = run[c][t].claim
           /\ run'[c][t].wf = run[c][t].wf /\ run'[c][t].attempt = run[c][t].attempt
           /\ run'[c][t].stop \in {run[c][t].stop, s}
<1>1. CASE run' = run BY <1>1 DEF OtherRuns
<1>2. CASE run' = [run EXCEPT ![c][t].stop = s]
  <2>1. run[c][t] \in Run BY RunFacts
  <2>2. run' = [run EXCEPT ![c][t] = [run[c][t] EXCEPT !.stop = s]] BY <1>2 DEF CapInv, Typed
  <2>3. run'[c][t] = [run[c][t] EXCEPT !.stop = s] /\ OtherRuns(c, t) BY ZenonT(40), <2>2, RunPut
  <2> QED BY <2>1, <2>3 DEF Run
<1> QED BY ZenonT(40), <1>1, <1>2

LEMMA PauseTaskSafe ==
    ASSUME Kept, NEW c \in Controller, NEW t \in Task, PauseTask(c, t)
    PROVE  RerunInv'
<1> DEFINE m == Move(task[t], "paused")
<1>1. /\ CapInv /\ RerunInv /\ RunGuarded(c, t) /\ ~task[t].wf.pause /\ task[t] \in Row
    BY ZenonT(40), Here, RunFacts DEF Kept
<1>2. /\ task[t].status = "running" /\ task' = [task EXCEPT ![t] = m]
      /\ run' = run \/ run' = [run EXCEPT ![c][t].stop = "yield"]
      /\ UNCHANGED <<lease, pending, called, sent, answered, claims>>
    BY DEF PauseTask, leases, history
<1>3. /\ m.base = task[t].base /\ m.stepRun = task[t].stepRun /\ m.wf = task[t].wf
      /\ m.attempt = task[t].attempt /\ m.status = "paused"
    BY <1>1, <1>2, MoveFacts DEF Status, AllowedFrom
<1> HIDE DEF m
<1>4. task'[t] = m /\ OtherRows(t) BY ZenonT(40), <1>1, <1>2, RowPut
<1>5. /\ OtherRuns(c, t)
      /\ run'[c][t].pc = run[c][t].pc /\ run'[c][t].claim = run[c][t].claim
      /\ run'[c][t].wf = run[c][t].wf /\ run'[c][t].attempt = run[c][t].attempt
      /\ run'[c][t].stop \in {run[c][t].stop, "yield"}
    BY <1>1, <1>2, StopFacts
<1>6. RowGuarded(t)' BY <1>1, <1>2, <1>3, <1>4, RowMoved DEF Guarded
<1>7. Elsewhere(c, t) /\ RowMoves(c, t) /\ LeaseMoves(c, t) /\ CallMoves(c, t)
    BY <1>2, <1>3, <1>4, <1>5
    DEF Elsewhere, Settles, RowMoves, LeaseMoves, CallMoves, OtherRows, OtherRuns
<1>8. RunGuarded(c, t)'
  <2>1. Holder(c, t)' <=> Holder(c, t) BY <1>2, <1>5 DEF Holder
  <2>2. task'[t].base >= task[t].base BY <1>1, <1>3, <1>4 DEF Row
  <2> QED BY ZenonT(40), <1>1, <1>2, <1>3, <1>4, <1>5, <2>1, <2>2, RunKept
<1>9. ReadsGuarded' BY <1>1, <1>2, ReadsKept
<1> QED BY <1>2, <1>6, <1>7, <1>8, <1>9, Frame

(* A revision or a cancellation takes the lease and stops the local run.   *)
LEMMA TakeLease ==
    ASSUME Kept, NEW c \in Controller, NEW t \in Task, OtherRows(t),
           UNCHANGED <<called, sent, answered, claims>>,
           lease' = [lease EXCEPT ![t] = 0],
           run' = run \/ run' = [run EXCEPT ![c][t].stop = "kill"],
           task'[t].base \in {task[t].base, claims},
           Overtaken \/ task'[t].status = "cancelled",
           RowGuarded(t)', ReadsGuarded'
    PROVE  RerunInv'
<1>1. /\ CapInv /\ RerunInv /\ RunGuarded(c, t) /\ LeaseTyped
      /\ claims \in Nat /\ task[t].base \in Nat /\ task[t].base <= claims
    BY Here, RunFacts DEF Kept, RowGuarded, Row
<1>2. /\ OtherRuns(c, t)
      /\ run'[c][t].pc = run[c][t].pc /\ run'[c][t].claim = run[c][t].claim
      /\ run'[c][t].wf = run[c][t].wf /\ run'[c][t].attempt = run[c][t].attempt
    BY <1>1, StopFacts
<1>3. lease'[t] = 0 /\ \A u \in Task : u # t => lease'[u] = lease[u] BY <1>1 DEF LeaseTyped
<1>4. Elsewhere(c, t) /\ RowMoves(c, t) /\ LeaseMoves(c, t) /\ CallMoves(c, t)
    BY <1>2, <1>3 DEF Elsewhere, Settles, RowMoves, LeaseMoves, CallMoves, OtherRows, OtherRuns
<1>5. ~Holder(c, t)' BY <1>3 DEF Holder
<1>6. task'[t].base >= task[t].base BY <1>1
<1>7. RunGuarded(c, t)'
  <2>1. run[c][t].pc \in {"resuming", "retrying"} /\ Holder(c, t) => task'[t].status = "cancelled"
      BY <1>1 DEF RunGuarded
  <2> QED BY ZenonT(40), <1>1, <1>2, <1>5, <1>6, <2>1, RunKept
<1> QED BY <1>4, <1>7, Frame

LEMMA RequestRevisionSafe ==
    ASSUME Kept, NEW c \in Controller, NEW t \in Task, NEW n \in 0 .. (NSteps - 1),
           RequestRevision(c, t, n)
    PROVE  RerunInv'
<1> DEFINE w == [rev |-> task[t].attempt + 1, step |-> n, ver |-> task[t].wf.ver, pause |-> FALSE]
           k == task[t].attempt + 1
           row == [task[t] EXCEPT !.status = "running", !.attempt = k, !.wf = w,
                                  !.stepRun = FALSE, !.base = claims]
           e == [task |-> t, why |-> "revise", wf |-> row.wf, attempt |-> row.attempt]
<1>1. CapInv /\ RerunInv /\ task[t] \in Row BY ZenonT(40), Here, RunFacts DEF Kept
<1>2. /\ Overtaken /\ task' = [task EXCEPT ![t] = row] /\ lease' = [lease EXCEPT ![t] = 0]
      /\ run' = run \/ run' = [run EXCEPT ![c][t].stop = "kill"]
      /\ pending' = [pending EXCEPT ![c] = @ \cup {e}]
      /\ UNCHANGED <<called, sent, answered, claims>>
    BY <1>1 DEF RequestRevision, Request, Overtaken, history, Row
<1>3. row.base = claims /\ row.wf = w BY <1>1 DEF Row
<1>4. ~w.pause OBVIOUS
<1> HIDE DEF row, w
<1>5. task'[t] = row /\ OtherRows(t) BY ZenonT(40), <1>1, <1>2, RowPut
<1>6. RowGuarded(t)' BY <1>2, <1>3, <1>4, <1>5, RowMoved
<1>7. ReadsSafe(c, {e}) BY <1>3, <1>4 DEF ReadsSafe
<1> HIDE DEF e
<1>8. ReadsGuarded' BY ZenonT(40), <1>2, <1>7, ReadsPut
<1> QED BY ZenonT(40), <1>2, <1>3, <1>5, <1>6, <1>8, TakeLease

LEMMA CancelTaskSafe ==
    ASSUME Kept, NEW c \in Controller, NEW t \in Task, CancelTask(c, t)
    PROVE  RerunInv'
<1> DEFINE m == Move(task[t], "cancelled")
           w == NewVersion(Unpaused(task[t].wf))
           row == [m EXCEPT !.wf = w, !.stepRun = FALSE]
<1>1. CapInv /\ RerunInv /\ task[t] \in Row /\ task[t].wf \in State
    BY ZenonT(40), Here, RunFacts DEF Kept, Row
<1>2. /\ task[t].status \notin {"completed", "failed"} /\ task' = [task EXCEPT ![t] = row]
      /\ lease' = [lease EXCEPT ![t] = 0]
      /\ run' = run \/ run' = [run EXCEPT ![c][t].stop = "kill"]
      /\ UNCHANGED <<pending, called, sent, answered, claims>>
    BY DEF CancelTask, history
<1>3. /\ m \in Row /\ m.base = task[t].base /\ m.attempt = task[t].attempt
      /\ m.status = "cancelled"
    BY <1>1, <1>2, MoveFacts DEF Status, AllowedFrom, Row
<1>4. ~w.pause
  <2>1. Unpaused(task[t].wf) \in State /\ ~Unpaused(task[t].wf).pause
      BY <1>1, StateOps DEF Unpaused, State
  <2> HIDE DEF Unpaused
  <2> QED BY <2>1 DEF NewVersion, State
<1> HIDE DEF m, w
<1>5. task'[t] = row /\ OtherRows(t) BY ZenonT(40), <1>1, <1>2, RowPut
<1>6. /\ task'[t].base = task[t].base /\ task'[t].attempt = task[t].attempt
      /\ task'[t].status = "cancelled" /\ task'[t].wf = w
    BY <1>3, <1>5 DEF Row
<1>7. RowGuarded(t)' BY <1>2, <1>4, <1>6, RowMoved DEF Guarded
<1>8. ReadsGuarded' BY <1>1, <1>2, ReadsKept
<1> QED BY ZenonT(40), <1>2, <1>5, <1>6, <1>7, <1>8, TakeLease

LEMMA CrashSafe ==
    ASSUME Kept, NEW c \in Controller, Crash(c)
    PROVE  RerunInv'
<1>1. CapInv /\ RerunInv BY DEF Kept
<1>2. /\ run' = [run EXCEPT ![c] = [t \in Task |-> NoRun]]
      /\ pending' = [pending EXCEPT ![c] = {}]
      /\ UNCHANGED <<task, lease, called, sent, answered, claims>>
    BY DEF Crash, leases, history
<1>3. Numbered' BY <1>1, <1>2 DEF RerunInv, Numbered
<1>4. ReadsGuarded' BY <1>1, <1>2, ReadsKept DEF CapInv, Typed
<1>5. \A u \in Task : RowGuarded(u)' BY ZenonT(40), <1>1, <1>2, RowKept DEF RerunInv, Settles
<1>6. ASSUME NEW d \in Controller, NEW u \in Task PROVE RunGuarded(d, u)'
  <2>1. CASE d = c
    <3>1. run'[d][u] = NoRun BY <1>1, <1>2, <2>1 DEF CapInv, Typed
    <3> QED BY ZenonT(40), <3>1, NoRunGuarded DEF RunGuarded
  <2>2. CASE d # c
    <3>1. run'[d][u] = run[d][u] /\ RunGuarded(d, u)
        BY <1>1, <1>2, <2>2 DEF CapInv, Typed, RerunInv
    <3>2. Holder(d, u)' <=> Holder(d, u) BY <1>2, <3>1 DEF Holder
    <3>3. task'[u].base >= task[u].base BY <1>1, <1>2, RunFacts DEF Row
    <3> QED BY ZenonT(40), <1>2, <3>1, <3>2, <3>3, RunKept
  <2> QED BY <2>1, <2>2
<1> QED BY <1>3, <1>4, <1>5, <1>6 DEF RerunInv

LEMMA ResolveDependenciesSafe ==
    ASSUME Kept, NEW c \in Controller, NEW t \in Task, ResolveDependencies(c, t)
    PROVE  RerunInv'
<1>1. CapInv /\ RerunInv /\ RowGuarded(t) BY Here DEF Kept
<1>2. Leave(c, t) /\ UNCHANGED <<lease, pending, called, sent, answered, claims>>
    BY ZenonT(40) DEF ResolveDependencies, leases, history, counters
<1>3. \A u \in Task : Settles(u)
  <2> TAKE u \in Task
  <2>1. task'[u] \in {task[u], Move(task[u], "ready"), Move(task[u], "paused")}
    <3> HIDE DEF Move, Met
    <3> QED BY ZenonT(40) DEF ResolveDependencies
  <2> QED BY <2>1 DEF Settles
<1>4. RowGuarded(t)' /\ task'[t].base = task[t].base /\ task'[t].stepRun = task[t].stepRun
    BY ZenonT(40), <1>1, <1>2, <1>3, RowKept
<1>5. Elsewhere(c, t) /\ RowMoves(c, t) /\ LeaseMoves(c, t)
    BY ZenonT(40), <1>1, <1>2, <1>3, <1>4, LeaveFacts DEF Elsewhere, RowMoves, LeaseMoves, OtherRuns
<1> QED BY ZenonT(40), <1>2, <1>4, <1>5, Over

-----------------------------------------------------------------------------
(* The lease rows.                                                         *)
LEMMA LeaseStep ==
    ASSUME Typed, LeaseTyped, [Next]_vars
    PROVE  LeaseTyped'
<1>1. claims \in Nat BY DEF Typed
<1>2. ASSUME NEW k, Release(k) PROVE LeaseTyped' BY <1>2 DEF Release, LeaseTyped
<1>3. ASSUME NEW t \in Task, lease' = [lease EXCEPT ![t] = claims + 1] PROVE LeaseTyped'
    BY <1>1, <1>3 DEF LeaseTyped
<1>4. ASSUME NEW t \in Task, lease' = [lease EXCEPT ![t] = 0] PROVE LeaseTyped'
    BY <1>4 DEF LeaseTyped
<1>5. CASE lease' = lease BY <1>5 DEF LeaseTyped
<1>6. ASSUME NEW c \in Controller, NEW t \in Task, NEW r, Claim(c, t, r) PROVE LeaseTyped'
    BY <1>3, <1>5, <1>6 DEF Claim, leases
<1>7. ASSUME NEW c \in Controller, NEW t \in Task, UserStep(c, t) PROVE LeaseTyped'
    BY ZenonT(40), <1>4, <1>5, <1>7
         DEF UserStep, Submit, Answered, PauseTask, ResumeTask, RetryFailedTask,
       CancelTask, RequestRevision, leases
<1>8. ASSUME NEW c \in Controller, NEW t \in Task, ClaimReady(c, t) PROVE LeaseTyped'
    BY <1>6, <1>8 DEF ClaimReady
<1>9. ASSUME NEW c \in Controller, NEW t \in Task, ClaimStep(c, t) PROVE LeaseTyped'
    BY <1>2, <1>5, <1>9 DEF ClaimStep, TransitionToReady, Launch, Classify, Resume, Proceed, leases
<1>10. ASSUME NEW c \in Controller, NEW t \in Task, RunStep(c, t) PROVE LeaseTyped'
    BY ZenonT(40), <1>2, <1>5, <1>10
         DEF RunStep, Begin, StartStep, RecordCall, Dispatch, ToolResult, EndStep,
       Persist, Suspend, ClearPause, Complete, Finish, Deliver, ResolveDependencies, LoseFence,
       Yield, Interrupted, Close, leases
<1>11. ASSUME NEW c \in Controller, NEW t \in Task, RunFault(c, t) PROVE LeaseTyped'
    BY <1>5, <1>11 DEF RunFault, UnknownWorkflow, Defer, AskUser, TimedOut, Fail, Finish, leases
<1>12. ASSUME NEW c \in Controller, ClaimExisting(c) PROVE LeaseTyped'
  <2>1. PICK e \in pending[c] : ClaimExisting(c)!(e) BY ZenonT(40), <1>12 DEF ClaimExisting
  <2>2. e.task \in Task BY DEF Typed, Read
  <2> QED BY <1>5, <1>6, <2>1, <2>2 DEF leases
<1>13. ASSUME NEW c \in Controller, Crash(c) \/ Stop(c) \/ \E why \in Listed : ListTasks(c, why)
       PROVE  LeaseTyped'
    BY <1>5, <1>13 DEF Crash, Stop, ListTasks, leases
<1>14. ASSUME NEW t \in Task, Due(t) PROVE LeaseTyped' BY <1>5, <1>14 DEF Due, leases
<1>15. ASSUME NEW k, Expire(k) \/ Lapse(k) PROVE LeaseTyped' BY <1>2, <1>15 DEF Expire, Lapse
<1>16. CASE UNCHANGED vars BY <1>5, <1>16 DEF vars
<1> QED BY ZenonT(40), <1>7, <1>8, <1>9, <1>10, <1>11, <1>12, <1>13, <1>14, <1>15, <1>16 DEF Next

LEMMA InitRerun == ASSUME Init PROVE LeaseTyped /\ RerunInv
<1>1. LeaseTyped /\ Numbered /\ ReadsGuarded
    BY ZenonT(40) DEF Init, LeaseTyped, Numbered, ReadsGuarded
<1>2. ASSUME NEW t \in Task PROVE RowGuarded(t) BY DEF Init, RowGuarded, Open, Fresh
<1>3. ASSUME NEW c \in Controller, NEW t \in Task PROVE RunGuarded(c, t)
  <2>1. run[c][t] = NoRun BY ZenonT(40) DEF Init
  <2> QED BY ZenonT(40), <2>1, NoRunGuarded DEF RunGuarded
<1> QED BY <1>1, <1>2, <1>3 DEF RerunInv

LEMMA RerunStep ==
    ASSUME Unattended, CapInv, LeaseTyped, RerunInv, [Next]_vars
    PROVE  RerunInv'
<1>1. Kept BY NextOK, CapStep DEF Kept, CapInv
<1>2. ASSUME NEW c \in Controller, NEW t \in Task
      PROVE  ~(Answered(c, t) \/ Suspend(c, t) \/ ClearPause(c, t) \/ AskUser(c, t) \/ TimedOut(c, t))
  <2>1. run[c][t].pc \notin AskPc BY ZenonT(40), Here DEF RunGuarded
  <2> QED
    BY <2>1 DEF Answered, Suspend, ClearPause, AskUser, TimedOut, At, AskPc, Request, Unattended
<1>3. ASSUME NEW c \in Controller, NEW t \in Task, UserStep(c, t) PROVE RerunInv'
    BY ZenonT(40), <1>1, <1>2, <1>3, SubmitSafe, PauseTaskSafe, ResumeTaskSafe, RetryFailedTaskSafe,
       CancelTaskSafe, RequestRevisionSafe
    DEF UserStep
<1>4. ASSUME NEW c \in Controller, NEW t \in Task, ClaimStep(c, t) PROVE RerunInv'
    BY <1>1, <1>4, TransitionToReadySafe, LaunchSafe, ClassifySafe, ResumeSafe, ProceedSafe
    DEF ClaimStep
<1>5. ASSUME NEW c \in Controller, NEW t \in Task, RunStep(c, t) PROVE RerunInv'
    BY ZenonT(40), <1>1, <1>2, <1>5, BeginSafe, StartStepSafe, RecordCallSafe, DispatchSafe,
       ToolResultSafe,
       EndStepSafe, PersistSafe, FinishSafe, DeliverSafe, ResolveDependenciesSafe, LoseFenceSafe,
       YieldSafe, InterruptedSafe, CloseSafe
    DEF RunStep, Complete
<1>6. ASSUME NEW c \in Controller, NEW t \in Task, RunFault(c, t) PROVE RerunInv'
    BY <1>1, <1>2, <1>6, UnknownWorkflowSafe, DeferSafe, FinishSafe DEF RunFault, Fail
<1>7. ASSUME NEW c \in Controller, Stop(c) PROVE FALSE BY <1>7 DEF Stop, Fault, Unattended
<1>8. CASE UNCHANGED vars
    BY ZenonT(40), <1>1, <1>8, ReadsKept, OnlyReads DEF vars
<1>9. CASE Next
    BY ZenonT(40), <1>1, <1>3, <1>4, <1>5, <1>6, <1>7, <1>9, ClaimReadySafe, ClaimExistingSafe,
       CrashSafe,
       ListTasksSafe, DueSafe, LeasesSafe
    DEF Next
<1> QED BY <1>8, <1>9

(* A run that executes steps under its fence holds the lease, and then no  *)
(* open call is of another claim.                                          *)
LEMMA RerunSafe ==
    ASSUME CapInv, RerunInv
    PROVE  NoBlindRerun
<1> SUFFICES ASSUME NEW c \in Controller, NEW t \in Task, At(c, t, BusyPc), Fence(c, t),
                    NEW e \in sent \ answered, e[1] = t, task[t].base < e[3]
             PROVE  ~(e[3] < run[c][t].claim)
    BY ZenonT(40) DEF NoBlindRerun
<1>1. run[c][t].pc \in SafePc /\ run[c][t].pc \notin {"none", "close"}
  BY ZenonT(40) DEF At, SafePc, BusyPc
<1>2. Holder(c, t) BY ZenonT(40), <1>1, FenceHolder
<1>3. e \in Open(t) /\ RunGuarded(c, t) BY ZenonT(40), Here DEF Open
<1>4. run[c][t].claim \in 0 .. claims /\ claims \in Nat BY ZenonT(40), RunFacts
<1>5. e[3] = run[c][t].claim BY ZenonT(40), <1>1, <1>2, <1>3 DEF RunGuarded
<1> QED BY <1>4, <1>5

(* NoBlindRerun holds: a task whose executor got a call and left no result *)
(* keeps its step run open, so that _classify_crash_recovery finds the     *)
(* call, whoever claims the task next.  Unattended says for which          *)
(* requests and faults.                                                    *)
THEOREM TaskNoBlindRerun ==
    ASSUME Unattended
    PROVE  Spec => []NoBlindRerun
<1>1. Init => CapInv /\ LeaseTyped /\ RerunInv BY InitCap, InitRerun
<1>2. CapInv /\ LeaseTyped /\ RerunInv /\ [Next]_vars => (CapInv /\ LeaseTyped /\ RerunInv)'
    BY CapStep, LeaseStep, RerunStep DEF CapInv
<1>3. CapInv /\ RerunInv => NoBlindRerun BY RerunSafe
<1> QED BY <1>1, <1>2, <1>3, PTL DEF Spec

=============================================================================
