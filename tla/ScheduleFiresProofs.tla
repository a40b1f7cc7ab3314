------------------------ MODULE ScheduleFiresProofs ------------------------
(***************************************************************************)
(* Theorems about ScheduleFires, for every number of controllers, every    *)
(* period, backoff and limit, and however users and faults interfere.      *)
(*                                                                         *)
(* The invariant says where a process may be only once the task of its     *)
(* fire exists.  A step is described by what it does to the tasks, the     *)
(* ledger, the terminal events and the processes, and every action is      *)
(* shown to do no more.                                                    *)
(***************************************************************************)
EXTENDS ScheduleFires, FiniteSetTheorems, TLAPS

(* More time for a leaf than the provers have by default, and more tries. *)
USE SMTT(30), ZenonT(30), SMTT(40), SMTT(50)

Schedules == [enabled : BOOLEAN, reason : {"none", "auto", "user"}, next : Int, errors : Int]
Event == [pc : {"none", "published", "read", "done"}, next : Int]
Catchup == [status : {"completed", "active"}, cutoff : Int, budget : Int,
            by : SUBSET Controller, dead : BOOLEAN, epoch : Int, caught : SUBSET (Int \X Int)]

(* Where a process is after its submission and before its fire is settled. *)
Hot == {"mark", "link", "activate", "settle"}
Then == {"idle", "fired", "complete", "backlog"}
Cold == Then \cup {"boot", "due", "fetch", "assign", "reread", "reserve", "claim", "recheck",
                   "submit", "advance", "error", "release", "wait", "prepare", "scan", "book",
                   "restore", "skip", "jump", "leave", "lost"}
Process == [pc : Cold \cup Hot, at : Int, errors : Int, then : Then, orig : Int, left : Int,
            epoch : Int, resume : BOOLEAN]

Typed ==
    /\ now \in Int /\ sched \in Schedules /\ catchup \in Catchup
    /\ fire \in [Fire -> FireRow] /\ task \in [Fire -> TaskStatus]
    /\ event \in [Fire -> Event]
    /\ proc \in [Proc -> Process]

Submitted ==
    \A p \in Proc : proc[p].pc \in Hot =>
                       /\ KeyOf(p) \in Fire => task[KeyOf(p)] # "absent"
                       /\ proc[p].pc = "mark" => p[2] = "timer"
Reported ==
    \A f \in Fire : event[f].pc \in {"published", "read"} => task[f] # "absent"

IInv == Typed /\ Submitted /\ Reported /\ DispatchedHasTask

(* What a step does: tasks never vanish; a fire turns dispatched, an event *)
(* is published and a process goes on past its submission only where there *)
(* is a task.                                                              *)
TaskOK ==
    /\ task' \in [Fire -> TaskStatus]
    /\ \A f \in Fire : task[f] # "absent" => task'[f] # "absent"
FireOK ==
    /\ fire' \in [Fire -> FireRow]
    /\ \A f \in Fire : fire'[f].status = "dispatched" /\ fire[f].status # "dispatched"
                          => task[f] # "absent"
EventOK ==
    /\ event' \in [Fire -> Event]
    /\ \A f \in Fire : event'[f].pc \in {"published", "read"}
                       /\ event[f].pc \notin {"published", "read"} => task[f] # "absent"
ProcOK ==
    /\ proc' \in [Proc -> Process]
    /\ \A p \in Proc :
          proc'[p].pc \in Hot =>
             \/ /\ proc[p].pc \in Hot /\ proc'[p].at = proc[p].at
                /\ proc'[p].pc = "mark" => proc[p].pc = "mark"
             \/ /\ KeyOf(p)' \in Fire => task'[KeyOf(p)'] # "absent"
                /\ proc'[p].pc = "mark" => p[2] = "timer"
RestOK == now' \in Int /\ sched' \in Schedules /\ catchup' \in Catchup

StepOK == TaskOK /\ FireOK /\ EventOK /\ ProcOK /\ RestOK

-----------------------------------------------------------------------------
LEMMA SameTask == ASSUME Typed, task' = task PROVE TaskOK BY DEF Typed, TaskOK
LEMMA SameFire == ASSUME Typed, fire' = fire PROVE FireOK BY DEF Typed, FireOK
LEMMA SameEvent == ASSUME Typed, event' = event PROVE EventOK BY DEF Typed, EventOK
LEMMA SameProc == ASSUME Typed, proc' = proc PROVE ProcOK BY DEF Typed, ProcOK

LEMMA InvStep == ASSUME IInv, StepOK PROVE IInv'
<1>1. Typed' BY DEF StepOK, TaskOK, FireOK, EventOK, ProcOK, RestOK, Typed
<1>2. \A f \in Fire : task[f] # "absent" => task'[f] # "absent" BY DEF StepOK, TaskOK
<1>3. Submitted'
  <2> SUFFICES ASSUME NEW p \in Proc, proc'[p].pc \in Hot
               PROVE  /\ KeyOf(p)' \in Fire => task'[KeyOf(p)'] # "absent"
                      /\ proc'[p].pc = "mark" => p[2] = "timer"
      BY DEF Submitted
  <2>1. CASE /\ proc[p].pc \in Hot /\ proc'[p].at = proc[p].at
             /\ proc'[p].pc = "mark" => proc[p].pc = "mark"
    <3>1. KeyOf(p)' = KeyOf(p) BY <2>1 DEF KeyOf, Mine
    <3> QED BY <1>2, <2>1, <3>1 DEF IInv, Submitted
  <2> QED BY <2>1 DEF StepOK, ProcOK
<1>4. Reported' BY <1>2 DEF IInv, Reported, StepOK, EventOK
<1>5. DispatchedHasTask' BY <1>2 DEF IInv, DispatchedHasTask, StepOK, FireOK
<1> QED BY <1>1, <1>3, <1>4, <1>5 DEF IInv

(* A process moves to a place before its submission or after its release.  *)
LEMMA PutProc ==
    ASSUME Typed, NEW p \in Proc, NEW q \in Process, q.pc \in Cold,
           proc' = [proc EXCEPT ![p] = q]
    PROVE  ProcOK
<1>1. \A l \in Cold : l \notin Hot BY DEF Cold, Then, Hot
<1> QED BY <1>1 DEF Typed, ProcOK

LEMMA GotoCold ==
    ASSUME Typed, NEW p \in Proc, NEW l \in Cold, Goto(p, l)
    PROVE  ProcOK
<1> DEFINE q == [proc[p] EXCEPT !.pc = l]
<1>1. proc[p] \in Process BY DEF Typed
<1>2. q \in Process /\ q.pc \in Cold BY <1>1 DEF Process
<1>3. proc' = [proc EXCEPT ![p] = q] BY DEF Goto, Typed
<1> HIDE DEF q
<1> QED BY ZenonT(40), <1>2, <1>3, PutProc

LEMMA IdleProcess == Idle \in Process /\ Boot \in Process /\ Idle.pc \in Cold /\ Boot.pc \in Cold
<1>1. Idle \in Process /\ Idle.pc \in Cold BY DEF Idle, Process, Cold, Then
<1>2. "boot" \in Cold BY DEF Cold
<1>3. Boot \in Process /\ Boot.pc \in Cold BY <1>1, <1>2 DEF Boot, Process
<1> QED BY <1>1, <1>3

LEMMA Processes ==
    ASSUME NEW c \in Controller PROVE Timer(c) \in Proc /\ Trigger(c) \in Proc
    BY DEF Timer, Trigger, Proc

(* The arithmetic of occurrences.                                          *)
LEMMA NextFireInt == ASSUME NEW t \in Int PROVE NextFire(t) \in Int
<1>1. Period \in Nat \ {0} BY ScheduleAssumption
<1>2. t \div Period \in Int BY <1>1
<1> QED BY <1>1, <1>2 DEF NextFire

(* There are finitely many fires, so that the ones replaced can be counted.*)
LEMMA ReplacedCount == Cardinality(Replaced) \in Nat
<1>1. IsFiniteSet(Fire)
  <2> DEFINE R == {Recurring(t) : t \in 1 .. Horizon}
             f == [x \in R |-> x.at]
             g == [x \in ManualFire |-> x.at]
  <2>1. Horizon \in Int
    <3>1. Cardinality(Controller) \in Nat BY ScheduleAssumption, FS_CardinalityType
    <3>2. Period \in Nat /\ (Cardinality(Controller) + 1) * Period \in Nat
        BY <3>1, ScheduleAssumption
    <3> QED BY <3>2, ScheduleAssumption DEF Horizon
  <2>2. IsFiniteSet(1 .. Horizon) BY <2>1, FS_Interval
  <2>3. IsFiniteSet(1 .. MaxDisturbed) BY ScheduleAssumption, FS_Interval
  <2>4. f \in Injection(R, 1 .. Horizon) BY DEF Recurring, Injection, IsInjective
  <2>5. g \in Injection(ManualFire, 1 .. MaxDisturbed)
      BY DEF Manual, ManualFire, Injection, IsInjective
  <2>6. IsFiniteSet(R) BY <2>2, <2>4, FS_Injection
  <2>7. IsFiniteSet(ManualFire) BY <2>3, <2>5, FS_Injection
  <2> QED BY ZenonT(40), <2>6, <2>7, FS_Union DEF Fire
<1>2. Replaced \in SUBSET Fire BY DEF Replaced
<1> QED BY <1>1, <1>2, FS_Subset, FS_CardinalityType

-----------------------------------------------------------------------------
(* Firing what is due.                                                     *)

(* Steps that only move a process, and steps that also move the schedule.  *)
LEMMA OnlyProc ==
    ASSUME Typed, ProcOK, UNCHANGED <<now, ledger, task, event, catchup>>
    PROVE  StepOK
    BY SameTask, SameFire, SameEvent DEF StepOK, RestOK, Typed, ledger

LEMMA OnlySchedule ==
    ASSUME Typed, ProcOK, sched' \in Schedules, UNCHANGED <<now, fire, task, event, catchup>>
    PROVE  StepOK
    BY SameTask, SameFire, SameEvent DEF StepOK, RestOK, Typed

LEMMA TickOK ==
    ASSUME Typed, NEW c \in Controller, Tick(c)
    PROVE  StepOK
    BY Processes, GotoCold, OnlyProc DEF Tick, Cold

LEMMA ThenCold == \A p \in Proc : Typed => proc[p].then \in Cold /\ proc[p] \in Process
    BY DEF Typed, Process, Cold

LEMMA AcquireOK ==
    ASSUME Typed, NEW p \in Proc, Acquire(p)
    PROVE  StepOK
<1>1. ProcOK
  <2>1. CASE MayAcquire(p) /\ p[2] = "timer" BY <2>1, GotoCold DEF Acquire, Cold
  <2>2. CASE MayAcquire(p) /\ p[2] # "timer" BY <2>2, GotoCold DEF Acquire, Cold
  <2>3. CASE ~MayAcquire(p) BY <2>3, ThenCold, GotoCold DEF Acquire
  <2> QED BY <2>1, <2>2, <2>3
<1> QED BY <1>1, OnlyProc DEF Acquire

(* A process moves on and takes note of a number.                          *)
LEMMA NoteAt ==
    ASSUME Typed, NEW p \in Proc, NEW l \in Cold, NEW n \in Int,
           \/ proc' = [proc EXCEPT ![p].pc = l, ![p].at = n]
           \/ proc' = [proc EXCEPT ![p].pc = l, ![p].errors = n]
           \/ proc' = [proc EXCEPT ![p].pc = l, ![p].orig = n]
           \/ proc' = [proc EXCEPT ![p].pc = l, ![p].left = n]
    PROVE  ProcOK
<1> DEFINE a == [proc[p] EXCEPT !.pc = l, !.at = n]
           e == [proc[p] EXCEPT !.pc = l, !.errors = n]
           o == [proc[p] EXCEPT !.pc = l, !.orig = n]
           w == [proc[p] EXCEPT !.pc = l, !.left = n]
<1>1. proc[p] \in Process BY ThenCold
<1>2. /\ a \in Process /\ a.pc \in Cold /\ e \in Process /\ e.pc \in Cold
      /\ o \in Process /\ o.pc \in Cold /\ w \in Process /\ w.pc \in Cold
    BY ZenonT(40), <1>1 DEF Process
<1>3. PICK q \in {a, e, o, w} : proc' = [proc EXCEPT ![p] = q]
    BY ZenonT(40) DEF Typed
<1> HIDE DEF a, e, o, w
<1> QED BY ZenonT(40), <1>2, <1>3, PutProc

LEMMA FetchOK ==
    ASSUME Typed, NEW p \in Proc, Fetch(p)
    PROVE  StepOK
<1>1. sched.next \in Int BY DEF Typed, Schedules
<1>2. ProcOK
  <2>1. CASE ~sched.enabled BY <2>1, GotoCold DEF Fetch, Cold
  <2>2. CASE sched.enabled /\ sched.next = 0
    <3>1. Goto(p, "assign") \/ Goto(p, "release") BY <2>2 DEF Fetch
    <3> QED BY <3>1, GotoCold DEF Cold
  <2>3. CASE sched.enabled /\ sched.next # 0
    <3>1. proc' = [proc EXCEPT ![p].pc = "claim", ![p].at = sched.next] /\ "claim" \in Cold
        BY <2>3 DEF Fetch, Cold
    <3> QED BY ZenonT(40), <1>1, <3>1, NoteAt
  <2> QED BY <2>1, <2>2, <2>3
<1> QED BY <1>2, OnlyProc DEF Fetch

LEMMA AssignNextOK ==
    ASSUME Typed, NEW p \in Proc, AssignNext(p)
    PROVE  StepOK
<1>1. sched \in Schedules /\ now \in Int BY DEF Typed
<1>2. [sched EXCEPT !.next = now] \in Schedules BY <1>1 DEF Schedules
<1>3. (IF sched.enabled THEN "reread" ELSE "release") \in Cold BY DEF Cold
<1>4. ProcOK BY <1>3, GotoCold DEF AssignNext
<1> QED BY <1>2, <1>4, OnlySchedule DEF AssignNext

LEMMA ClaimRefusedOK ==
    ASSUME Typed, NEW p \in Proc, ClaimRefused(p)
    PROVE  StepOK
    BY GotoCold, OnlyProc DEF ClaimRefused, Cold

LEMMA ClaimSettledOK ==
    ASSUME Typed, NEW p \in Proc, ClaimSettled(p)
    PROVE  StepOK
<1>1. sched.errors \in Int /\ "advance" \in Cold BY DEF Typed, Schedules, Cold
<1>2. ProcOK BY ZenonT(40), <1>1, NoteAt DEF ClaimSettled
<1> QED BY <1>2, OnlyProc DEF ClaimSettled

(* One row of the ledger changes; it does not turn dispatched.             *)
LEMMA PutFire ==
    ASSUME Typed, NEW f, NEW r \in FireRow,
           f \in Fire /\ r.status = "dispatched" /\ fire[f].status # "dispatched"
              => task[f] # "absent",
           fire' = [fire EXCEPT ![f] = r]
    PROVE  FireOK
    BY ZenonT(40) DEF Typed, FireOK

LEMMA ClaimAgainOK ==
    ASSUME Typed, NEW p \in Proc, ClaimAgain(p)
    PROVE  StepOK
<1> DEFINE r == [status |-> "claimed", linked |-> TRUE, terminal |-> FALSE]
<1>1. sched.errors \in Int /\ "submit" \in Cold BY DEF Typed, Schedules, Cold
<1>2. ProcOK BY ZenonT(40), <1>1, NoteAt DEF ClaimAgain
<1>3. r \in FireRow /\ r.status # "dispatched" BY DEF FireRow
<1>4. fire' = [fire EXCEPT ![Mine(p)] = r] BY DEF ClaimAgain
<1> HIDE DEF r
<1>5. FireOK BY ZenonT(40), <1>3, <1>4, PutFire
<1> QED BY <1>2, <1>5, SameTask, SameEvent DEF ClaimAgain, StepOK, RestOK, Typed

(* The rows a schedule is given.                                           *)
LEMMA ScheduleRows ==
    ASSUME Typed, NEW e \in Int, NEW n \in Int
    PROVE  /\ [enabled |-> FALSE, reason |-> "auto", next |-> 0, errors |-> e] \in Schedules
           /\ [sched EXCEPT !.errors = e] \in Schedules
           /\ [sched EXCEPT !.next = n] \in Schedules
           /\ [sched EXCEPT !.next = n, !.errors = e] \in Schedules
           /\ [sched EXCEPT !.errors = e, !.next = n] \in Schedules
<1>1. sched \in Schedules BY DEF Typed
<1>2. [enabled |-> FALSE, reason |-> "auto", next |-> 0, errors |-> e] \in Schedules
    BY DEF Schedules
<1>3. [sched EXCEPT !.errors = e] \in Schedules BY <1>1 DEF Schedules
<1>4. [sched EXCEPT !.next = n] \in Schedules BY <1>1 DEF Schedules
<1>5. [sched EXCEPT !.next = n, !.errors = e] \in Schedules BY ZenonT(40), <1>1 DEF Schedules
<1>6. [sched EXCEPT !.errors = e, !.next = n] \in Schedules BY ZenonT(40), <1>1 DEF Schedules
<1> QED BY <1>2, <1>3, <1>4, <1>5, <1>6

LEMMA ClaimFreshOK ==
    ASSUME Typed, NEW p \in Proc, ClaimFresh(p)
    PROVE  StepOK
<1> DEFINE errors == sched.errors + Cardinality(Replaced)
           full == Cardinality(ActiveAfter) >= MaxConcurrent
           l == IF Replaced # {} THEN "recheck" ELSE IF full THEN "advance" ELSE "submit"
<1>1. errors \in Int BY ReplacedCount DEF Typed, Schedules
<1>2. l \in Cold BY DEF Cold
<1>3. proc' = [proc EXCEPT ![p].pc = l, ![p].errors = errors] BY ZenonT(40) DEF ClaimFresh, Typed
<1>4. ProcOK
  <2> HIDE DEF l, errors
  <2> QED BY ZenonT(40), <1>1, <1>2, <1>3, NoteAt
<1>5. TaskOK BY ZenonT(40) DEF ClaimFresh, Typed, TaskOK, TaskStatus, Terminal
<1>6. FireOK
  <2>1. ASSUME NEW f \in Fire
        PROVE  /\ fire'[f] \in FireRow
               /\ fire'[f].status = "dispatched" => fire[f].status = "dispatched"
    <3>1. fire[f] \in FireRow BY DEF Typed
    <3>2. CASE f = Mine(p)
      <4>1. fire'[f] = [status |-> IF full THEN "skipped" ELSE "claimed",
                        linked |-> fire[f].linked, terminal |-> full /\ fire[f].terminal]
          BY ZenonT(40), <3>2 DEF ClaimFresh
      <4> QED BY <3>1, <4>1 DEF FireRow
    <3>3. CASE f # Mine(p) /\ f \in Replaced /\ fire[f].linked
      <4>1. fire'[f] = [fire[f] EXCEPT !.status = IF fire[f].terminal THEN fire[f].status
                                                  ELSE "failed",
                                       !.terminal = TRUE]
          BY ZenonT(40), <3>3 DEF ClaimFresh
      <4> QED BY ZenonT(40), <3>1, <4>1 DEF FireRow
    <3>4. CASE f # Mine(p) /\ ~(f \in Replaced /\ fire[f].linked)
        BY ZenonT(40), <3>1, <3>4 DEF ClaimFresh
    <3> QED BY <3>2, <3>3, <3>4
  <2>2. DOMAIN fire' = Fire /\ fire' = [f \in Fire |-> fire'[f]] BY ZenonT(40) DEF ClaimFresh
  <2>3. fire' \in [Fire -> FireRow] BY <2>1, <2>2
  <2> QED BY <2>1, <2>3 DEF FireOK
<1>7. sched' \in Schedules
  <2>1. \/ sched' = [enabled |-> FALSE, reason |-> "auto", next |-> 0, errors |-> errors]
        \/ sched' = [sched EXCEPT !.errors = errors]
      BY ZenonT(40) DEF ClaimFresh
  <2> HIDE DEF errors
  <2> QED BY ZenonT(40), <1>1, <2>1, ScheduleRows
<1>8. catchup' \in Catchup
  <2>1. proc[p].epoch \in Int /\ proc[p].at \in Int BY ThenCold DEF Process
  <2> DEFINE more == catchup.caught \cup {<<proc[p].epoch, proc[p].at>>}
  <2>2. more \in SUBSET (Int \X Int) BY <2>1 DEF Typed, Catchup
  <2>3. catchup' = catchup \/ catchup' = [catchup EXCEPT !.caught = more]
      BY ZenonT(40) DEF ClaimFresh, Typed, Catchup
  <2> HIDE DEF more
  <2> QED BY <2>2, <2>3 DEF Typed, Catchup
<1> QED BY ZenonT(40), <1>4, <1>5, <1>6, <1>7, <1>8, SameEvent DEF ClaimFresh, StepOK, RestOK, Typed

LEMMA RecheckOK ==
    ASSUME Typed, NEW p \in Proc, Recheck(p)
    PROVE  StepOK
<1>1. (IF ~sched.enabled THEN "release"
       ELSE IF fire[Mine(p)].status = "skipped" THEN "advance" ELSE "submit") \in Cold
    BY DEF Cold
<1> QED BY <1>1, GotoCold, OnlyProc DEF Recheck

(* The submission leaves a task behind.                                    *)
LEMMA CreatedTask ==
    ASSUME Typed, NEW p \in Proc
    PROVE  /\ task' = Created(p) => TaskOK
           /\ KeyOf(p) \in Fire => Created(p)[KeyOf(p)] # "absent"
    BY DEF Created, Typed, TaskOK, TaskStatus, Terminal

LEMMA GotoKeeps ==
    ASSUME Typed, NEW p \in Proc, NEW l \in Hot, Goto(p, l)
    PROVE  /\ proc' \in [Proc -> Process]
           /\ \A q \in Proc : proc'[q].at = proc[q].at /\ (q # p => proc'[q].pc = proc[q].pc)
           /\ proc'[p].pc = l
<1> DEFINE r == [proc[p] EXCEPT !.pc = l]
<1>1. r \in Process /\ r.at = proc[p].at /\ r.pc = l BY ThenCold DEF Process
<1>2. proc' = [proc EXCEPT ![p] = r] BY DEF Goto, Typed
<1> HIDE DEF r
<1> QED BY <1>1, <1>2 DEF Typed

LEMMA SubmitOK ==
    ASSUME Typed, NEW p \in Proc, Submit(p)
    PROVE  StepOK
<1> DEFINE l == AfterSubmit(p)
<1>1. l \in Hot /\ (l = "mark" => p[2] = "timer") BY DEF AfterSubmit, Hot
<1>2. Goto(p, l) BY DEF Submit
<1> HIDE DEF l
<1>3. /\ proc' \in [Proc -> Process] /\ proc'[p].pc = l
      /\ \A q \in Proc : proc'[q].at = proc[q].at /\ (q # p => proc'[q].pc = proc[q].pc)
    BY <1>1, <1>2, GotoKeeps
<1>4. KeyOf(p)' = KeyOf(p) BY <1>3 DEF KeyOf, Mine
<1>5. task' = Created(p) BY DEF Submit
<1>6. ProcOK BY <1>1, <1>3, <1>4, <1>5, CreatedTask DEF ProcOK
<1> QED BY <1>5, <1>6, CreatedTask, SameFire, SameEvent DEF Submit, ledger, StepOK, RestOK, Typed

LEMMA LeaseLostOK ==
    ASSUME Typed, NEW p \in Proc, LeaseLost(p)
    PROVE  StepOK
    BY GotoCold, OnlyProc DEF LeaseLost, Cold

LEMMA SubmitErrorOK ==
    ASSUME Typed, NEW p \in Proc, SubmitError(p)
    PROVE  StepOK
<1>1. TaskOK BY CreatedTask, SameTask DEF SubmitError
<1>2. ProcOK BY GotoCold DEF SubmitError, Cold
<1> QED BY <1>1, <1>2, SameFire, SameEvent DEF SubmitError, ledger, StepOK, RestOK, Typed

(* Settling a fire is where its task must exist.                           *)
LEMMA MarkDispatchedOK ==
    ASSUME Typed, Submitted, NEW p \in Proc, MarkDispatched(p)
    PROVE  StepOK
<1> DEFINE r == [fire[Mine(p)] EXCEPT !.status = "dispatched", !.linked = TRUE]
<1>1. ProcOK BY GotoCold DEF MarkDispatched, Cold
<1>2. Mine(p) \in Fire => task[Mine(p)] # "absent"
    BY DEF Submitted, MarkDispatched, At, Hot, KeyOf
<1>3. FireOK
  <2>1. CASE Mine(p) \notin Fire \/ fire' = fire
    <3>1. fire' = fire BY <2>1 DEF MarkDispatched, Typed
    <3> QED BY <3>1, SameFire
  <2>2. CASE Mine(p) \in Fire /\ fire' # fire
    <3>1. fire[Mine(p)] \in FireRow BY <2>2 DEF Typed
    <3>2. r \in FireRow BY ZenonT(40), <3>1 DEF FireRow
    <3>3. fire' = [fire EXCEPT ![Mine(p)] = r] BY ZenonT(40), <2>2 DEF MarkDispatched, Typed
    <3> HIDE DEF r
    <3> QED BY ZenonT(40), <1>2, <3>2, <3>3, PutFire
  <2> QED BY <2>1, <2>2
<1> QED BY <1>1, <1>3, SameTask, SameEvent DEF MarkDispatched, StepOK, RestOK, Typed

LEMMA AdvanceOK ==
    ASSUME Typed, NEW p \in Proc, Advance(p)
    PROVE  StepOK
<1>1. proc[p].at \in Int /\ proc[p].errors \in Int BY ThenCold DEF Process
<1>2. NextFire(proc[p].at) \in Int BY <1>1, NextFireInt
<1>3. sched' \in Schedules
  <2>1. [sched EXCEPT !.next = NextFire(proc[p].at), !.errors = proc[p].errors] \in Schedules
      BY ZenonT(40), <1>1, <1>2, ScheduleRows
  <2> QED BY <2>1 DEF Advance, Typed
<1>4. ProcOK BY GotoCold DEF Advance, Cold
<1> QED BY <1>3, <1>4, OnlySchedule DEF Advance

(* A fire fails, or is left as it is.                                      *)
LEMMA FailFire ==
    ASSUME Typed, NEW f, NEW B \in BOOLEAN,
           fire' = [fire EXCEPT ![f] =
                      IF B THEN [fire[f] EXCEPT !.status = "failed", !.terminal = FALSE]
                      ELSE fire[f]]
    PROVE  FireOK
<1>1. CASE f \notin Fire \/ ~B
  <2>1. fire' = fire BY <1>1 DEF Typed
  <2> QED BY <2>1, SameFire
<1>2. CASE f \in Fire /\ B
  <2> DEFINE r == [fire[f] EXCEPT !.status = "failed", !.terminal = FALSE]
  <2>1. fire[f] \in FireRow BY <1>2 DEF Typed
  <2>2. r \in FireRow /\ r.status = "failed" BY ZenonT(40), <2>1 DEF FireRow
  <2>3. fire' = [fire EXCEPT ![f] = r] BY <1>2
  <2> HIDE DEF r
  <2> QED BY ZenonT(40), <2>2, <2>3, PutFire
<1> QED BY <1>1, <1>2

LEMMA MarkFailedOK ==
    ASSUME Typed, NEW p \in Proc, MarkFailed(p)
    PROVE  StepOK
<1>1. ProcOK BY GotoCold DEF MarkFailed, Cold
<1>2. FireOK
  <2>1. CASE Claimable(p)
    <3> DEFINE B == fire[Mine(p)].status = "claimed"
    <3>1. fire' = [fire EXCEPT ![Mine(p)] =
                     IF B THEN [fire[Mine(p)] EXCEPT !.status = "failed", !.terminal = FALSE]
                     ELSE fire[Mine(p)]]
        BY <2>1 DEF MarkFailed
    <3>2. B \in BOOLEAN OBVIOUS
    <3> HIDE DEF B
    <3> QED BY ZenonT(40), <3>1, <3>2, FailFire
  <2>2. CASE ~Claimable(p) BY <2>2, SameFire DEF MarkFailed, ledger
  <2> QED BY <2>1, <2>2
<1>3. sched' \in Schedules
  <2>1. CASE Claimable(p)
    <3> DEFINE errors == proc[p].errors + 1
               off == errors >= MaxErrors
    <3>1. sched' = [enabled |-> ~off, reason |-> IF off THEN "auto" ELSE "none",
                    next |-> IF off THEN 0 ELSE now + Backoff, errors |-> errors]
        BY <2>1 DEF MarkFailed
    <3>2. proc[p].errors \in Int BY ThenCold DEF Process
    <3>3. errors \in Int /\ off \in BOOLEAN /\ now + Backoff \in Int
        BY <3>2, ScheduleAssumption DEF Typed
    <3> HIDE DEF errors, off
    <3> QED BY <3>1, <3>3 DEF Schedules
  <2>2. CASE ~Claimable(p) BY <2>2 DEF MarkFailed, ledger, Typed
  <2> QED BY <2>1, <2>2
<1> QED BY <1>1, <1>2, <1>3, SameTask, SameEvent DEF MarkFailed, StepOK, RestOK, Typed

LEMMA ReleaseOK ==
    ASSUME Typed, NEW p \in Proc, Release(p)
    PROVE  StepOK
<1> DEFINE l == proc[p].then
           a == [proc[p] EXCEPT !.pc = l]
           b == [a EXCEPT !.at = 0]
           r == [b EXCEPT !.errors = 0]
<1>1. r \in Process /\ r.pc \in Cold
  <2>1. proc[p] \in Process /\ l \in Cold BY ThenCold
  <2> HIDE DEF l
  <2>2. a \in Process /\ a.pc = l BY <2>1 DEF Process
  <2> HIDE DEF a
  <2>3. b \in Process /\ b.pc = l BY <2>2 DEF Process
  <2> HIDE DEF b
  <2> QED BY <2>1, <2>3 DEF Process
<1>2. proc' = [proc EXCEPT ![p] = IF l = "idle" THEN Idle ELSE r] BY DEF Release
<1> HIDE DEF l, r
<1>3. ProcOK BY ZenonT(40), <1>1, <1>2, IdleProcess, PutProc
<1> QED BY <1>3, OnlyProc DEF Release

-----------------------------------------------------------------------------
(* Manual fires.                                                           *)

LEMMA TriggerNowOK ==
    ASSUME Typed, NEW c \in Controller, TriggerNow(c)
    PROVE  StepOK
    BY Processes, GotoCold, OnlyProc DEF TriggerNow, Cold

LEMMA ManualAt == \A f \in ManualFire : f \in Fire /\ f.at \in Int
    BY DEF ManualFire, Manual, Fire

(* A row keeps its status, or takes one that asks for no task.             *)
LEMMA PatchFire ==
    ASSUME Typed, NEW f,
           \/ fire' = [fire EXCEPT ![f].terminal = FALSE]
           \/ fire' = [fire EXCEPT ![f].linked = TRUE]
           \/ fire' = [fire EXCEPT ![f].status = "skipped"]
           \/ fire' = [fire EXCEPT ![f].status = "claimed"]
    PROVE  FireOK
<1>1. CASE f \notin Fire
  <2>1. fire' = fire BY <1>1 DEF Typed
  <2> QED BY <2>1, SameFire
<1>2. CASE f \in Fire
  <2> DEFINE a == [fire[f] EXCEPT !.terminal = FALSE]
             b == [fire[f] EXCEPT !.linked = TRUE]
             c == [fire[f] EXCEPT !.status = "skipped"]
             d == [fire[f] EXCEPT !.status = "claimed"]
  <2>1. fire[f] \in FireRow BY <1>2 DEF Typed
  <2>2. \A r \in {a, b, c, d} :
           r \in FireRow /\ (r.status = "dispatched" => fire[f].status = "dispatched")
      BY ZenonT(40), <2>1 DEF FireRow
  <2>3. PICK r \in {a, b, c, d} : fire' = [fire EXCEPT ![f] = r] BY <1>2 DEF Typed
  <2> HIDE DEF a, b, c, d
  <2> QED BY ZenonT(40), <2>2, <2>3, PutFire
<1> QED BY <1>1, <1>2

LEMMA ClaimManualOK ==
    ASSUME Typed, NEW p \in Proc, ClaimManual(p)
    PROVE  StepOK
<1> DEFINE full == Cardinality({f \in Fire : task[f] \in {"active", "paused"}}) >= MaxConcurrent
<1>1. FireOK /\ ProcOK
  <2>1. CASE Goto(p, "release") /\ UNCHANGED fire BY <2>1, GotoCold, SameFire DEF Cold
  <2>2. ASSUME NEW f \in Pending,
               fire' = [fire EXCEPT ![f].terminal = FALSE],
               proc' = [proc EXCEPT ![p].pc = "submit", ![p].at = f.at]
        PROVE  FireOK /\ ProcOK
    <3>1. f.at \in Int /\ "submit" \in Cold BY ManualAt DEF Pending, Cold
    <3> QED BY ZenonT(40), <2>2, <3>1, PatchFire, NoteAt
  <2>3. ASSUME NEW f \in Unused,
               fire' = [fire EXCEPT ![f].status = IF full THEN "skipped" ELSE "claimed"],
               proc' = [proc EXCEPT ![p].pc = IF full THEN "release" ELSE "submit",
                                    ![p].at = f.at]
        PROVE  FireOK /\ ProcOK
    <3>1. f.at \in Int /\ (IF full THEN "release" ELSE "submit") \in Cold
        BY ManualAt DEF Unused, Cold
    <3>2. ProcOK BY ZenonT(40), <2>3, <3>1, NoteAt
    <3>3. \/ fire' = [fire EXCEPT ![f].status = "skipped"]
          \/ fire' = [fire EXCEPT ![f].status = "claimed"]
        BY ZenonT(40), <2>3
    <3> QED BY <3>2, <3>3, PatchFire
  <2> QED BY ZenonT(40), <2>1, <2>2, <2>3 DEF ClaimManual
<1> QED BY <1>1, SameTask, SameEvent DEF ClaimManual, StepOK, RestOK, Typed

(* Between submission and settlement a process keeps its fire.             *)
LEMMA GotoHot ==
    ASSUME Typed, NEW p \in Proc, proc[p].pc \in Hot, NEW l \in Hot, l # "mark", Goto(p, l)
    PROVE  ProcOK
<1>1. /\ proc' \in [Proc -> Process] /\ proc'[p].pc = l
      /\ \A q \in Proc : proc'[q].at = proc[q].at /\ (q # p => proc'[q].pc = proc[q].pc)
    BY GotoKeeps
<1> QED BY <1>1 DEF ProcOK

LEMMA LinkManualOK ==
    ASSUME Typed, NEW p \in Proc, LinkManual(p)
    PROVE  StepOK
<1>1. FireOK /\ ProcOK
  <2>1. CASE Goto(p, "release") /\ UNCHANGED fire BY <2>1, GotoCold, SameFire DEF Cold
  <2>2. CASE fire' = [fire EXCEPT ![KeyOf(p)].linked = TRUE] /\ Goto(p, "activate")
    <3>1. FireOK BY ZenonT(40), <2>2, PatchFire
    <3>2. ProcOK BY <2>2, GotoHot DEF LinkManual, At, Hot
    <3> QED BY <3>1, <3>2
  <2> QED BY <2>1, <2>2 DEF LinkManual
<1> QED BY <1>1, SameTask, SameEvent DEF LinkManual, StepOK, RestOK, Typed

(* Tasks change status.                                                    *)
LEMMA PutTask ==
    ASSUME Typed, NEW f, NEW s \in TaskStatus \ {"absent"}, task' = [task EXCEPT ![f] = s]
    PROVE  TaskOK
    BY ZenonT(40) DEF Typed, TaskOK

LEMMA ActivateOK ==
    ASSUME Typed, NEW p \in Proc, Activate(p)
    PROVE  StepOK
<1>1. TaskOK
  <2>1. task' = [task EXCEPT ![KeyOf(p)] = "active"] \/ task' = task BY ZenonT(40) DEF Activate, Typed
  <2>2. "active" \in TaskStatus \ {"absent"} BY DEF TaskStatus
  <2> QED BY <2>1, <2>2, PutTask, SameTask
<1>2. ProcOK BY GotoHot DEF Activate, At, Hot
<1> QED BY <1>1, <1>2, SameFire, SameEvent DEF Activate, ledger, StepOK, RestOK, Typed

LEMMA SettleManualOK ==
    ASSUME Typed, Submitted, NEW p \in Proc, SettleManual(p)
    PROVE  StepOK
<1> DEFINE r == [fire[KeyOf(p)] EXCEPT !.status = "dispatched"]
<1>1. ProcOK BY GotoCold DEF SettleManual, Cold
<1>2. KeyOf(p) \in Fire => task[KeyOf(p)] # "absent" BY DEF Submitted, SettleManual, At, Hot
<1>3. FireOK
  <2>1. CASE KeyOf(p) \notin Fire \/ fire' = fire
    <3>1. fire' = fire BY <2>1 DEF SettleManual, Typed
    <3> QED BY <3>1, SameFire
  <2>2. CASE KeyOf(p) \in Fire /\ fire' # fire
    <3>1. fire[KeyOf(p)] \in FireRow BY <2>2 DEF Typed
    <3>2. r \in FireRow BY <3>1 DEF FireRow
    <3>3. fire' = [fire EXCEPT ![KeyOf(p)] = r] BY <2>2 DEF SettleManual, Typed
    <3> HIDE DEF r
    <3> QED BY ZenonT(40), <1>2, <3>2, <3>3, PutFire
  <2> QED BY <2>1, <2>2
<1> QED BY <1>1, <1>3, SameTask, SameEvent DEF SettleManual, StepOK, RestOK, Typed

LEMMA MarkManualFailedOK ==
    ASSUME Typed, NEW p \in Proc, MarkManualFailed(p)
    PROVE  StepOK
<1> DEFINE B == task[KeyOf(p)] = "absent" /\ Holds(p) /\ fire[KeyOf(p)].status = "claimed"
<1>1. fire' = [fire EXCEPT ![KeyOf(p)] =
                 IF B THEN [fire[KeyOf(p)] EXCEPT !.status = "failed", !.terminal = FALSE]
                 ELSE fire[KeyOf(p)]]
    BY DEF MarkManualFailed
<1>2. B \in BOOLEAN OBVIOUS
<1> HIDE DEF B
<1>3. FireOK BY ZenonT(40), <1>1, <1>2, FailFire
<1>4. ProcOK BY GotoCold DEF MarkManualFailed, Cold
<1> QED BY <1>3, <1>4, SameTask, SameEvent DEF MarkManualFailed, StepOK, RestOK, Typed

-----------------------------------------------------------------------------
(* Tasks and their results.                                                *)

LEMMA TaskEndsOK ==
    ASSUME Typed, NEW f \in Fire, NEW s \in Terminal, TaskEnds(f, s)
    PROVE  StepOK
<1> DEFINE e == [event[f] EXCEPT !.pc = "published"]
<1>1. s \in TaskStatus \ {"absent"} BY DEF Terminal, TaskStatus
<1>2. TaskOK BY ZenonT(40), <1>1, PutTask DEF TaskEnds
<1>3. e \in Event BY DEF Typed, Event
<1>4. task[f] # "absent" BY DEF TaskEnds
<1>5. event' = [event EXCEPT ![f] = e] BY DEF TaskEnds, Typed
<1> HIDE DEF e
<1>6. EventOK BY <1>3, <1>4, <1>5 DEF EventOK, Typed
<1>7. UNCHANGED <<now, sched, fire, proc, catchup>> BY DEF TaskEnds, ledger
<1> QED BY <1>2, <1>6, <1>7, SameFire, SameProc DEF StepOK, RestOK, Typed

LEMMA TaskPausesOK ==
    ASSUME Typed, NEW f \in Fire, TaskPauses(f) \/ TaskResumes(f)
    PROVE  StepOK
<1>1. {"paused", "active"} \subseteq TaskStatus \ {"absent"} BY DEF TaskStatus
<1>2. TaskOK BY ZenonT(40), <1>1, PutTask DEF TaskPauses, TaskResumes
<1>3. UNCHANGED <<now, sched, fire, event, proc, catchup>> BY DEF TaskPauses, TaskResumes, ledger
<1> QED BY <1>2, <1>3, SameFire, SameEvent, SameProc DEF StepOK, RestOK, Typed

LEMMA ReadResultOK ==
    ASSUME Typed, Reported, NEW f \in Fire, ReadResult(f)
    PROVE  StepOK
<1> DEFINE n == IF /\ RetryFailed /\ task[f] = "failed"
                   /\ f.kind = "recurring" /\ sched.errors + 1 < MaxErrors
                THEN now + Backoff ELSE sched.next
           e == [pc |-> "read", next |-> n]
<1>1. n \in Int BY ScheduleAssumption DEF Typed, Schedules
<1>2. event' = [event EXCEPT ![f] = e] BY DEF ReadResult
<1> HIDE DEF n
<1>3. e \in Event BY <1>1 DEF Event
<1> HIDE DEF e
<1>4. task[f] # "absent" BY DEF Reported, ReadResult
<1>5. EventOK BY <1>2, <1>3, <1>4 DEF EventOK, Typed
<1>6. UNCHANGED <<now, sched, fire, task, proc, catchup>> BY DEF ReadResult, ledger
<1> QED BY <1>5, <1>6, SameTask, SameFire, SameProc DEF StepOK, RestOK, Typed

LEMMA ProjectResultOK ==
    ASSUME Typed, Reported, NEW f \in Fire, ProjectResult(f)
    PROVE  StepOK
<1> DEFINE e == [pc |-> "done", next |-> 0]
<1>1. EventOK
  <2>1. event' = [event EXCEPT ![f] = e] BY DEF ProjectResult
  <2>2. e \in Event /\ e.pc = "done" BY DEF Event
  <2> HIDE DEF e
  <2> QED BY <2>1, <2>2 DEF EventOK, Typed
<1>2. task[f] # "absent" BY DEF Reported, ProjectResult
<1>3. FireOK /\ sched' \in Schedules
  <2>1. CASE ~fire[f].linked \/ fire[f].terminal
      BY <2>1, SameFire DEF ProjectResult, ledger, Typed
  <2>2. CASE ~(~fire[f].linked \/ fire[f].terminal)
    <3> DEFINE failed == task[f] = "failed"
               errors == IF failed THEN sched.errors + 1 ELSE 0
               off == failed /\ errors >= MaxErrors /\ (sched.enabled \/ sched.reason = "auto")
               s == IF task[f] = "completed" \/ (task[f] = "cancelled" /\ f.kind = "recurring")
                    THEN "dispatched" ELSE "failed"
               r == [fire[f] EXCEPT !.terminal = TRUE, !.status = s]
               n == IF failed /\ f.kind = "recurring" /\ sched.enabled
                    THEN event[f].next ELSE sched.next
    <3>1. FireOK
      <4>1. fire' = [fire EXCEPT ![f] = r] BY ZenonT(40), <2>2 DEF ProjectResult, Typed
      <4>2. fire[f] \in FireRow /\ s \in {"dispatched", "failed"} BY DEF Typed
      <4> HIDE DEF s
      <4>3. r \in FireRow BY ZenonT(40), <4>2 DEF FireRow
      <4> HIDE DEF r
      <4> QED BY ZenonT(40), <1>2, <4>1, <4>3, PutFire
    <3>2. sched' \in Schedules
      <4>1. errors \in Int BY DEF Typed, Schedules
      <4>2. event[f] \in Event BY DEF Typed
      <4>3. n \in Int BY <4>2 DEF Typed, Schedules, Event
      <4>4. \/ sched' = [enabled |-> FALSE, reason |-> "auto", next |-> 0, errors |-> errors]
            \/ sched' = [sched EXCEPT !.errors = errors, !.next = n]
          BY <2>2 DEF ProjectResult
      <4> HIDE DEF errors, n
      <4> QED BY ZenonT(40), <4>1, <4>3, <4>4, ScheduleRows
    <3> QED BY <3>1, <3>2
  <2> QED BY <2>1, <2>2
<1> QED BY <1>1, <1>3, SameTask, SameProc DEF ProjectResult, StepOK, RestOK, Typed

-----------------------------------------------------------------------------
(* The owner, the clock and the leases.                                    *)

LEMMA ScheduleOnly ==
    ASSUME Typed, sched' \in Schedules, UNCHANGED <<now, fire, task, event, proc, catchup>>
    PROVE  StepOK
    BY SameProc, OnlySchedule

LEMMA EditOK ==
    ASSUME Typed, Disable \/ Enable
    PROVE  StepOK
<1>1. sched \in Schedules BY DEF Typed
<1>2. [sched EXCEPT !.enabled = FALSE, !.reason = "user"] \in Schedules
    BY ZenonT(40), <1>1 DEF Schedules
<1> DEFINE a == [sched EXCEPT !.enabled = TRUE, !.reason = "none"]
<1>3. a \in Schedules BY ZenonT(40), <1>1 DEF Schedules
<1>4. [a EXCEPT !.errors = 0] \in Schedules
  <2> HIDE DEF a
  <2> QED BY <1>3 DEF Schedules
<1> QED BY <1>2, <1>4, ScheduleOnly DEF Disable, Enable

LEMMA NotifyChangedOK ==
    ASSUME Typed, NotifyChanged
    PROVE  StepOK
<1> DEFINE n == IF sched.enabled THEN NextFire(now) ELSE 0
<1>1. n \in Int BY NextFireInt DEF Typed
<1>2. sched' = [sched EXCEPT !.next = n] BY DEF NotifyChanged
<1> HIDE DEF n
<1>3. sched' \in Schedules BY ZenonT(40), <1>1, <1>2, ScheduleRows
<1> QED BY <1>3, ScheduleOnly DEF NotifyChanged

LEMMA ClockOK ==
    ASSUME Typed, Clock
    PROVE  StepOK
<1>1. now' \in Int BY DEF Clock, Typed
<1> QED BY <1>1, SameTask, SameFire, SameEvent, SameProc DEF Clock, ledger, StepOK, RestOK, Typed

LEMMA ExpireOK ==
    ASSUME Typed, Expire
    PROVE  StepOK
    BY SameProc, OnlyProc DEF Expire

-----------------------------------------------------------------------------
(* Catching up on start.                                                   *)

(* A process and the catch-up epoch move.                                  *)
LEMMA OnlyCatchup ==
    ASSUME Typed, ProcOK, catchup' \in Catchup, UNCHANGED <<now, ledger, task, event>>
    PROVE  StepOK
    BY SameTask, SameFire, SameEvent DEF StepOK, RestOK, Typed, ledger

LEMMA LapseOK ==
    ASSUME Typed, Lapse \/ ExpireCatchup
    PROVE  StepOK
<1>1. catchup \in Catchup BY DEF Typed
<1>2. [catchup EXCEPT !.dead = FALSE] \in Catchup BY ZenonT(40), <1>1 DEF Catchup
<1>3. [catchup EXCEPT !.by = {}] \in Catchup BY <1>1 DEF Catchup
<1> QED BY ZenonT(40), <1>2, <1>3, SameProc, OnlyCatchup DEF Lapse, ExpireCatchup

LEMMA StartOK ==
    ASSUME Typed, NEW c \in Controller, Start(c)
    PROVE  StepOK
<1>1. NextFire(now) \in Int BY NextFireInt DEF Typed
<1>2. [sched EXCEPT !.next = NextFire(now)] \in Schedules BY ZenonT(40), <1>1, ScheduleRows
<1>3. sched' \in Schedules BY <1>2 DEF Start, Typed
<1>4. ProcOK BY Processes, GotoCold DEF Start, GotoTimer, Cold
<1> QED BY <1>3, <1>4, OnlySchedule DEF Start

LEMMA JoinOK ==
    ASSUME Typed, NEW c \in Controller, Join(c)
    PROVE  StepOK
<1> DEFINE p == Timer(c)
           q == [proc[p] EXCEPT !.pc = "wait", !.resume = TRUE]
<1>1. p \in Proc /\ proc[p] \in Process BY Processes, ThenCold
<1>2. "wait" \in Cold BY DEF Cold
<1>3. q \in Process /\ q.pc \in Cold BY ZenonT(40), <1>1, <1>2 DEF Process
<1>4. proc' = [proc EXCEPT ![p] = q] BY ZenonT(40), <1>1 DEF Join, Typed
<1> HIDE DEF p, q
<1>5. ProcOK BY ZenonT(40), <1>1, <1>3, <1>4, PutProc
<1> QED BY <1>5, OnlyProc DEF Join

LEMMA AcquireCatchupOK ==
    ASSUME Typed, NEW c \in Controller, AcquireCatchup(c)
    PROVE  StepOK
<1>1. catchup' \in Catchup BY DEF AcquireCatchup, Typed, Catchup
<1>2. ProcOK BY Processes, GotoCold DEF AcquireCatchup, GotoTimer, Cold
<1> QED BY <1>1, <1>2, OnlyCatchup DEF AcquireCatchup

LEMMA PrepareOK ==
    ASSUME Typed, NEW c \in Controller, Prepare(c)
    PROVE  StepOK
<1> DEFINE p == Timer(c)
           a == [proc[p] EXCEPT !.pc = "scan"]
           b == [a EXCEPT !.left = catchup'.budget]
           q == [b EXCEPT !.resume = FALSE]
           begun == [catchup EXCEPT !.status = "active", !.cutoff = now]
           filled == [begun EXCEPT !.budget = MaxMissed]
           opened == [filled EXCEPT !.epoch = catchup.epoch + 1]
<1>1. p \in Proc /\ proc[p] \in Process BY Processes, ThenCold
<1>2. {"scan", "lost", "leave"} \subseteq Cold BY DEF Cold
<1>3. opened \in Catchup
  <2>1. catchup \in Catchup /\ now \in Int /\ MaxMissed \in Int
      BY ScheduleAssumption DEF Typed
  <2>2. catchup.epoch + 1 \in Int BY <2>1 DEF Catchup
  <2>3. begun \in Catchup BY ZenonT(40), <2>1 DEF Catchup
  <2> HIDE DEF begun
  <2>4. filled \in Catchup BY <2>1, <2>3 DEF Catchup
  <2> HIDE DEF filled
  <2> QED BY <2>2, <2>4 DEF Catchup
<1>4. catchup' \in Catchup
  <2>1. catchup' = catchup \/ catchup' = opened BY DEF Prepare
  <2> HIDE DEF opened
  <2> QED BY <1>3, <2>1 DEF Typed
<1>5. q \in Process /\ q.pc \in Cold
  <2>1. catchup'.budget \in Int BY <1>4 DEF Catchup
  <2>2. a \in Process /\ a.pc = "scan" BY <1>1, <1>2 DEF Process
  <2> HIDE DEF a
  <2>3. b \in Process /\ b.pc = "scan" BY <2>1, <2>2 DEF Process
  <2> HIDE DEF b
  <2> QED BY ZenonT(40), <1>2, <2>3 DEF Process
<1>6. ProcOK
  <2>1. \/ proc' = [proc EXCEPT ![p] = q]
        \/ Goto(p, "lost") \/ Goto(p, "leave")
      BY ZenonT(40), <1>1 DEF Prepare, GotoTimer, Typed
  <2> HIDE DEF p, q
  <2> QED BY <1>1, <1>2, <1>5, <2>1, PutProc, GotoCold
<1> QED BY <1>4, <1>6, OnlyCatchup DEF Prepare

LEMMA ScanOK ==
    ASSUME Typed, NEW c \in Controller, Scan(c)
    PROVE  StepOK
<1>1. Timer(c) \in Proc /\ sched.next \in Int /\ "book" \in Cold /\ "backlog" \in Cold
    BY Processes DEF Typed, Schedules, Cold, Then
<1>2. ProcOK BY <1>1, NoteAt, GotoCold DEF Scan, GotoTimer
<1> QED BY <1>2, OnlyProc DEF Scan

LEMMA ReserveOK ==
    ASSUME Typed, NEW c \in Controller, Reserve(c)
    PROVE  StepOK
<1> DEFINE p == Timer(c)
           n == catchup.budget - 1
           a == [proc[p] EXCEPT !.pc = "due", !.then = "fired"]
           b == [a EXCEPT !.left = n]
           q == [b EXCEPT !.epoch = catchup.epoch]
<1>1. p \in Proc /\ proc[p] \in Process BY Processes, ThenCold
<1>2. "due" \in Cold /\ "lost" \in Cold /\ "fired" \in Then BY DEF Cold, Then
<1>3. n \in Int /\ catchup.epoch \in Int BY DEF Typed, Catchup
<1>4. q \in Process /\ q.pc \in Cold
  <2> HIDE DEF n
  <2>1. a \in Process /\ a.pc = "due" BY ZenonT(40), <1>1, <1>2 DEF Process
  <2> HIDE DEF a
  <2>2. b \in Process /\ b.pc = "due" BY <1>3, <2>1 DEF Process
  <2> HIDE DEF b
  <2> QED BY <1>2, <1>3, <2>2 DEF Process
<1>5. ProcOK
  <2>1. proc' = [proc EXCEPT ![p] = q] \/ Goto(p, "lost") BY DEF Reserve, GotoTimer
  <2> HIDE DEF p, q
  <2> QED BY <1>1, <1>2, <1>4, <2>1, PutProc, GotoCold
<1>6. catchup' \in Catchup
  <2>1. catchup' = catchup \/ catchup' = [catchup EXCEPT !.budget = n] BY DEF Reserve
  <2> HIDE DEF n
  <2> QED BY <1>3, <2>1 DEF Typed, Catchup
<1> QED BY <1>5, <1>6, OnlyCatchup DEF Reserve

LEMMA FiredOK ==
    ASSUME Typed, NEW c \in Controller, Fired(c)
    PROVE  StepOK
<1> DEFINE p == Timer(c)
           l == IF sched.enabled /\ sched.next = proc[p].orig THEN "restore" ELSE "scan"
           a == [proc[p] EXCEPT !.then = "idle"]
           d == [a EXCEPT !.orig = 0]
           b == [d EXCEPT !.epoch = 0]
           q == [b EXCEPT !.pc = l]
<1>1. p \in Proc /\ proc[p] \in Process BY Processes, ThenCold
<1>2. l \in Cold /\ "idle" \in Then BY DEF Cold, Then
<1>3. q \in Process /\ q.pc \in Cold
  <2> HIDE DEF l
  <2>1. a \in Process BY <1>1, <1>2 DEF Process
  <2> HIDE DEF a
  <2>2. d \in Process BY <2>1 DEF Process
  <2> HIDE DEF d
  <2>3. b \in Process BY <2>2 DEF Process
  <2> HIDE DEF b
  <2> QED BY <1>2, <2>3 DEF Process
<1>4. proc' = [proc EXCEPT ![p] = q] BY DEF Fired
<1> HIDE DEF p, q
<1>5. ProcOK BY ZenonT(40), <1>1, <1>3, <1>4, PutProc
<1> QED BY <1>5, OnlyProc DEF Fired

LEMMA RestoreOK ==
    ASSUME Typed, NEW c \in Controller, Restore(c)
    PROVE  StepOK
<1> DEFINE n == catchup.budget + 1
<1>1. Timer(c) \in Proc /\ n \in Int /\ "scan" \in Cold /\ "lost" \in Cold
    BY Processes DEF Typed, Catchup, Cold
<1>2. ProcOK
  <2>1. \/ proc' = [proc EXCEPT ![Timer(c)].pc = "scan", ![Timer(c)].left = n]
        \/ Goto(Timer(c), "lost")
      BY DEF Restore, GotoTimer
  <2> HIDE DEF n
  <2> QED BY <1>1, <2>1, NoteAt, GotoCold
<1>3. catchup' \in Catchup
  <2>1. catchup' = catchup \/ catchup' = [catchup EXCEPT !.budget = n] BY DEF Restore
  <2> HIDE DEF n
  <2> QED BY <1>1, <2>1 DEF Typed, Catchup
<1> QED BY <1>2, <1>3, OnlyCatchup DEF Restore

LEMMA BacklogOK ==
    ASSUME Typed, NEW c \in Controller, Backlog(c)
    PROVE  StepOK
<1>1. Timer(c) \in Proc /\ "complete" \in Cold /\ "skip" \in Cold BY Processes DEF Cold, Then
<1>2. ProcOK BY <1>1, GotoCold DEF Backlog, GotoTimer
<1> QED BY <1>2, OnlyProc DEF Backlog

LEMMA SkipReadOK ==
    ASSUME Typed, NEW c \in Controller, SkipRead(c)
    PROVE  StepOK
<1> DEFINE p == Timer(c)
           a == [proc[p] EXCEPT !.pc = "jump", !.at = sched.next]
           b == [a EXCEPT !.errors = sched.errors]
           d == [proc[p] EXCEPT !.pc = "release", !.then = "complete"]
<1>1. p \in Proc /\ proc[p] \in Process BY Processes, ThenCold
<1>2. "jump" \in Cold /\ "release" \in Cold /\ "complete" \in Then BY DEF Cold, Then
<1>3. sched.next \in Int /\ sched.errors \in Int BY DEF Typed, Schedules
<1>4. b \in Process /\ b.pc \in Cold
  <2>1. a \in Process /\ a.pc = "jump" BY ZenonT(40), <1>1, <1>2, <1>3 DEF Process
  <2> HIDE DEF a
  <2> QED BY <1>2, <1>3, <2>1 DEF Process
<1>5. d \in Process /\ d.pc \in Cold BY ZenonT(40), <1>1, <1>2 DEF Process
<1>6. proc' = [proc EXCEPT ![p] = IF Due(now) THEN b ELSE d] BY DEF SkipRead
<1> HIDE DEF p, b, d
<1>7. ProcOK BY ZenonT(40), <1>1, <1>4, <1>5, <1>6, PutProc
<1> QED BY <1>7, OnlyProc DEF SkipRead

LEMMA SkipMissedOK ==
    ASSUME Typed, NEW c \in Controller, SkipMissed(c)
    PROVE  StepOK
<1> DEFINE p == Timer(c)
           t == IF sched'.enabled /\ sched'.next \in 1 .. now THEN "backlog" ELSE "complete"
           q == [proc[p] EXCEPT !.pc = "release", !.then = t]
<1>1. p \in Proc /\ proc[p] \in Process BY Processes, ThenCold
<1>2. "release" \in Cold /\ t \in Then BY DEF Cold, Then
<1>3. ProcOK
  <2>1. proc' = [proc EXCEPT ![p] = q] BY DEF SkipMissed
  <2> HIDE DEF t
  <2>2. q \in Process /\ q.pc \in Cold BY ZenonT(40), <1>1, <1>2 DEF Process
  <2> HIDE DEF p, q
  <2> QED BY ZenonT(40), <1>1, <2>1, <2>2, PutProc
<1>4. sched' \in Schedules
  <2>1. proc[p].errors \in Int /\ NextFire(now) \in Int BY <1>1, NextFireInt DEF Process, Typed
  <2>2. [sched EXCEPT !.next = NextFire(now), !.errors = proc[p].errors] \in Schedules
      BY ZenonT(40), <2>1, ScheduleRows
  <2> QED BY <2>2 DEF SkipMissed, Typed
<1> QED BY <1>3, <1>4, OnlySchedule DEF SkipMissed

LEMMA CompleteCatchupOK ==
    ASSUME Typed, NEW c \in Controller, CompleteCatchup(c)
    PROVE  StepOK
<1>1. Timer(c) \in Proc /\ "leave" \in Cold /\ "lost" \in Cold BY Processes DEF Cold
<1>2. ProcOK BY <1>1, GotoCold DEF CompleteCatchup, GotoTimer
<1>3. catchup \in Catchup BY DEF Typed
<1>4. [catchup EXCEPT !.status = "completed"] \in Catchup BY <1>3 DEF Catchup
<1>5. catchup' \in Catchup BY <1>3, <1>4 DEF CompleteCatchup
<1> QED BY <1>2, <1>5, OnlyCatchup DEF CompleteCatchup

LEMMA LeaveCatchupOK ==
    ASSUME Typed, NEW c \in Controller, LeaveCatchup(c)
    PROVE  StepOK
<1> DEFINE p == Timer(c)
           q == [Idle EXCEPT !.pc = "wait", !.resume = TRUE]
<1>1. p \in Proc /\ "wait" \in Cold BY Processes DEF Cold
<1>2. q \in Process /\ q.pc \in Cold BY ZenonT(40), <1>1, IdleProcess DEF Process
<1>3. proc' = [proc EXCEPT ![p] = IF AtTimer(c, "leave") THEN Idle ELSE q] BY DEF LeaveCatchup
<1>4. catchup' \in Catchup
  <2> DEFINE w == catchup.by \ {c}
  <2>1. catchup \in Catchup /\ w \in SUBSET Controller BY DEF Typed, Catchup
  <2>2. catchup' = [catchup EXCEPT !.by = w] BY DEF LeaveCatchup
  <2> HIDE DEF w
  <2> QED BY <2>1, <2>2 DEF Catchup
<1> HIDE DEF p, q
<1>5. ProcOK BY ZenonT(40), <1>1, <1>2, <1>3, IdleProcess, PutProc
<1> QED BY <1>4, <1>5, OnlyCatchup DEF LeaveCatchup

LEMMA CrashOK ==
    ASSUME Typed, NEW c \in Controller, Crash(c)
    PROVE  StepOK
<1>1. ProcOK
  <2>1. Timer(c) \in Proc /\ Trigger(c) \in Proc BY Processes
  <2>2. \A l \in Cold : l \notin Hot BY DEF Cold, Then, Hot
  <2>3. proc' = [proc EXCEPT ![Timer(c)] = Boot, ![Trigger(c)] = Idle] BY DEF Crash
  <2> QED BY <2>1, <2>2, <2>3, IdleProcess DEF Typed, ProcOK
<1>2. EventOK
  <2> DEFINE e == [pc |-> "done", next |-> 0]
  <2>1. PICK lost \in SUBSET {f \in Fire : event[f].pc \in {"published", "read"}} :
           event' = [f \in Fire |-> IF f \in lost THEN e ELSE event[f]]
      BY DEF Crash
  <2>2. e \in Event /\ e.pc = "done" BY DEF Event
  <2> HIDE DEF e
  <2> QED BY <2>1, <2>2 DEF EventOK, Typed
<1>3. catchup' \in Catchup
  <2> DEFINE w == catchup.by \ {c}
             d == catchup.dead \/ c \in catchup.by
  <2>1. catchup \in Catchup /\ w \in SUBSET Controller BY DEF Typed, Catchup
  <2>2. d \in BOOLEAN OBVIOUS
  <2>3. catchup' = [catchup EXCEPT !.by = w, !.dead = d] BY DEF Crash
  <2> HIDE DEF w, d
  <2> QED BY ZenonT(40), <2>1, <2>2, <2>3 DEF Catchup
<1> QED BY <1>1, <1>2, <1>3, SameTask, SameFire DEF Crash, ledger, StepOK, RestOK, Typed

-----------------------------------------------------------------------------
LEMMA FireStepOK ==
    ASSUME IInv, NEW p \in Proc, FireStep(p)
    PROVE  StepOK
<1>1. Typed /\ Submitted BY DEF IInv
<1> QED BY <1>1, AcquireOK, FetchOK, AssignNextOK, ClaimRefusedOK, ClaimSettledOK, ClaimAgainOK,
           ClaimFreshOK, RecheckOK, SubmitOK, LeaseLostOK, MarkDispatchedOK, AdvanceOK,
           MarkFailedOK, ReleaseOK, ClaimManualOK, LinkManualOK, ActivateOK, SettleManualOK,
           MarkManualFailedOK
        DEF FireStep

LEMMA TimerStepOK ==
    ASSUME IInv, NEW c \in Controller, TimerStep(c)
    PROVE  StepOK
<1>1. Typed BY DEF IInv
<1> QED BY <1>1, Processes, FireStepOK, TickOK, StartOK, JoinOK, AcquireCatchupOK, PrepareOK,
           ScanOK, ReserveOK, FiredOK, RestoreOK, BacklogOK, SkipReadOK, SkipMissedOK,
           CompleteCatchupOK, LeaveCatchupOK
        DEF TimerStep

LEMMA NextStepOK ==
    ASSUME IInv, [Next]_vars
    PROVE  StepOK
<1>1. Typed /\ Reported BY DEF IInv
<1>2. ASSUME NEW c \in Controller,
             TimerStep(c) \/ FireStep(Trigger(c)) \/ TriggerNow(c) \/ Crash(c)
      PROVE  StepOK
    BY <1>1, <1>2, Processes, TimerStepOK, FireStepOK, TriggerNowOK, CrashOK
<1>3. ASSUME NEW p \in Proc, SubmitError(p) PROVE StepOK BY <1>1, <1>3, SubmitErrorOK
<1>4. ASSUME NEW f \in Fire,
             \/ \E s \in Terminal : TaskEnds(f, s)
             \/ TaskPauses(f) \/ TaskResumes(f) \/ ReadResult(f) \/ ProjectResult(f)
      PROVE  StepOK
    BY <1>1, <1>4, TaskEndsOK, TaskPausesOK, ReadResultOK, ProjectResultOK
<1>5. CASE Disable \/ Enable \/ NotifyChanged \/ Clock \/ Lapse \/ Expire \/ ExpireCatchup
    BY <1>1, <1>5, EditOK, NotifyChangedOK, ClockOK, LapseOK, ExpireOK
<1>6. CASE UNCHANGED vars
  <2>1. UNCHANGED <<now, ledger, task, event, catchup>> /\ proc' = proc BY <1>6 DEF vars, ledger
  <2> QED BY <1>1, <2>1, SameProc, OnlyProc
<1> QED BY <1>2, <1>3, <1>4, <1>5, <1>6 DEF Next

LEMMA NextOK == ASSUME IInv, [Next]_vars PROVE IInv'
    BY NextStepOK, InvStep

LEMMA InitOK == ASSUME Init PROVE IInv
<1> USE ScheduleAssumption
<1>1. now \in Int BY DEF Init
<1>2. sched \in Schedules BY DEF Init, Schedules
<1>3. catchup \in Catchup BY DEF Init, Catchup
<1>4. fire \in [Fire -> FireRow] /\ task \in [Fire -> TaskStatus]
    BY DEF Init, NoFire, FireRow, TaskStatus
<1>5. event \in [Fire -> Event] BY DEF Init, NoEvent, Event
<1>6. proc \in [Proc -> Process] /\ \A p \in Proc : proc[p].pc \in Cold
    BY ZenonT(40), IdleProcess DEF Init
<1>7. Submitted
  <2>1. \A l \in Cold : l \notin Hot BY DEF Cold, Then, Hot
  <2> QED BY <1>6, <2>1 DEF Submitted
<1>8. Reported BY DEF Init, NoEvent, Reported
<1>9. DispatchedHasTask BY DEF Init, NoFire, DispatchedHasTask
<1> QED BY <1>1, <1>2, <1>3, <1>4, <1>5, <1>6, <1>7, <1>8, <1>9 DEF IInv, Typed

(* Whatever crashes, lapses, edits and triggers happen, the ledger never   *)
(* says that a fire was dispatched before its task is stored, so that no   *)
(* controller ever moves the schedule past an occurrence on the strength   *)
(* of a dispatch that did not happen (mark_dispatched, settle_manual_      *)
(* dispatched and the projection of results).                              *)
THEOREM FireDispatched == Spec => []DispatchedHasTask
<1>1. Init => IInv BY InitOK
<1>2. IInv /\ [Next]_vars => IInv' BY NextOK
<1>3. IInv => DispatchedHasTask BY DEF IInv
<1> QED BY <1>1, <1>2, <1>3, PTL DEF Spec

-----------------------------------------------------------------------------
(* No occurrence of a schedule is passed over in silence.                  *)
(*                                                                         *)
(* A process that is about to move the schedule may have lost its lease    *)
(* long ago, so what it once read of its fire must still be true: the      *)
(* invariant says what that is, and that the ledger never takes it back.   *)

(* What holds of the fire of a process, by where the process is.           *)
Claiming(p) == proc[p].pc = "recheck" \/ (p[2] = "timer" /\ proc[p].pc \in {"submit", "error"})
Placed(p) ==
    /\ proc[p].pc = "reserve" => p[2] = "trigger"
    /\ Mine(p) \in Fire =>
          /\ proc[p].pc = "advance" => \/ task[Mine(p)] # "absent"
                                       \/ fire[Mine(p)].status = "skipped"
          /\ Claiming(p) => fire[Mine(p)].status # "absent"
Settled == \A p \in Proc : Placed(p)

(* Where nothing is asked of the fire.                                     *)
Loud == {"reserve", "advance", "recheck", "submit", "error"}

(* A row of the ledger is never deleted, and a skipped one stays skipped   *)
(* unless there is a task.                                                 *)
FireKept ==
    \A f \in Fire :
        /\ fire'[f].status = "absent" => fire[f].status = "absent"
        /\ fire[f].status = "skipped" => fire'[f].status = "skipped" \/ task[f] # "absent"
Moves == \A q \in Proc : proc'[q] = proc[q] \/ proc'[q].pc \notin Loud \/ Placed(q)'

-----------------------------------------------------------------------------
LEMMA SettledStep ==
    ASSUME StepOK, Settled, FireKept, Moves
    PROVE  Settled'
<1> SUFFICES ASSUME NEW q \in Proc PROVE Placed(q)' BY DEF Settled
<1>1. CASE proc'[q] = proc[q]
  <2>1. Mine(q)' = Mine(q) /\ (Claiming(q)' <=> Claiming(q)) BY <1>1 DEF Mine, Claiming
  <2>2. Placed(q) BY DEF Settled
  <2>3. \A f \in Fire : task[f] # "absent" => task'[f] # "absent" BY DEF StepOK, TaskOK
  <2> QED BY ZenonT(40), <1>1, <2>1, <2>2, <2>3 DEF Placed, FireKept
<1>2. CASE proc'[q].pc \notin Loud BY <1>2 DEF Placed, Loud, Claiming
<1> QED BY <1>1, <1>2 DEF Moves

LEMMA KeepFire == ASSUME fire' = fire PROVE FireKept BY DEF FireKept
LEMMA KeepProc == ASSUME proc' = proc PROVE Moves BY DEF Moves

(* One process moves.                                                      *)
LEMMA MoveTo ==
    ASSUME Typed, NEW p \in Proc, NEW l, Goto(p, l)
    PROVE  /\ proc'[p].pc = l /\ proc'[p].at = proc[p].at
           /\ \A q \in Proc : q # p => proc'[q] = proc[q]
<1>1. proc[p] \in Process BY ThenCold
<1>2. [proc[p] EXCEPT !.pc = l].pc = l /\ [proc[p] EXCEPT !.pc = l].at = proc[p].at
    BY <1>1 DEF Process
<1>3. proc' = [proc EXCEPT ![p] = [proc[p] EXCEPT !.pc = l]] BY DEF Goto
<1> QED BY <1>2, <1>3 DEF Typed

LEMMA MoveQuiet ==
    ASSUME Typed, NEW p \in Proc, NEW l, l \notin Loud, Goto(p, l)
    PROVE  Moves
    BY MoveTo DEF Moves

LEMMA NoteTo ==
    ASSUME Typed, NEW p \in Proc, NEW l, NEW n,
           proc' = [proc EXCEPT ![p].pc = l, ![p].at = n]
    PROVE  proc'[p].pc = l /\ \A q \in Proc : q # p => proc'[q] = proc[q]
<1> DEFINE a == [proc[p] EXCEPT !.pc = l, !.at = n]
<1>1. proc[p] \in Process BY ThenCold
<1>2. a.pc = l BY <1>1 DEF Process
<1>3. proc' = [proc EXCEPT ![p] = a] BY ZenonT(40) DEF Typed
<1> HIDE DEF a
<1> QED BY <1>2, <1>3 DEF Typed

LEMMA ErrorsTo ==
    ASSUME Typed, NEW p \in Proc, NEW l, NEW n,
           proc' = [proc EXCEPT ![p].pc = l, ![p].errors = n]
    PROVE  /\ proc'[p].pc = l /\ proc'[p].at = proc[p].at
           /\ \A q \in Proc : q # p => proc'[q] = proc[q]
<1> DEFINE e == [proc[p] EXCEPT !.pc = l, !.errors = n]
<1>1. proc[p] \in Process BY ThenCold
<1>2. e.pc = l /\ e.at = proc[p].at BY <1>1 DEF Process
<1>3. proc' = [proc EXCEPT ![p] = e] BY ZenonT(40) DEF Typed
<1> HIDE DEF e
<1> QED BY <1>2, <1>3 DEF Typed

-----------------------------------------------------------------------------
(* Each step of a fire keeps the ledger, and puts its process where it may *)
(* be.                                                                     *)

LEMMA AcquireSettles ==
    ASSUME Typed, NEW p \in Proc, Acquire(p)
    PROVE  FireKept /\ Moves
<1>1. FireKept BY KeepFire DEF Acquire, ledger
<1>2. Moves
  <2>1. CASE MayAcquire(p) /\ p[2] = "timer" BY <2>1, MoveQuiet DEF Acquire, Loud
  <2>2. CASE MayAcquire(p) /\ p[2] # "timer"
    <3>1. p[2] = "trigger" BY <2>2 DEF Proc
    <3>2. Goto(p, "reserve") BY <2>2 DEF Acquire
    <3>3. proc'[p].pc = "reserve" /\ \A q \in Proc : q # p => proc'[q] = proc[q]
        BY <3>2, MoveTo
    <3> QED BY <3>1, <3>3 DEF Moves, Placed, Claiming
  <2>3. CASE ~MayAcquire(p)
    <3>1. proc[p].then \notin Loud BY ThenCold DEF Process, Then, Loud
    <3> QED BY <2>3, <3>1, MoveQuiet DEF Acquire
  <2> QED BY <2>1, <2>2, <2>3
<1> QED BY <1>1, <1>2

LEMMA FetchSettles ==
    ASSUME Typed, NEW p \in Proc, Fetch(p) \/ AssignNext(p)
    PROVE  FireKept /\ Moves
<1>1. FireKept BY KeepFire DEF Fetch, AssignNext, ledger
<1>2. {"release", "assign", "reread", "claim"} \cap Loud = {} BY DEF Loud
<1>3. ASSUME NEW n, proc' = [proc EXCEPT ![p].pc = "claim", ![p].at = n]
      PROVE  Moves
    BY ZenonT(40), <1>2, <1>3, NoteTo DEF Moves
<1>4. CASE AssignNext(p)
  <2>1. Goto(p, "reread") \/ Goto(p, "release") BY <1>4 DEF AssignNext
  <2>2. "release" \notin Loud /\ "reread" \notin Loud BY <1>2
  <2> QED BY <1>1, <2>1, <2>2, MoveQuiet
<1>5. CASE Fetch(p)
  <2>1. \/ Goto(p, "release") \/ Goto(p, "assign")
        \/ proc' = [proc EXCEPT ![p].pc = "claim", ![p].at = sched.next]
      BY <1>5 DEF Fetch
  <2>2. "release" \notin Loud /\ "assign" \notin Loud BY <1>2
  <2> QED BY <1>1, <1>3, <2>1, <2>2, MoveQuiet
<1> QED BY <1>4, <1>5

LEMMA ClaimRefusedSettles ==
    ASSUME Typed, NEW p \in Proc, ClaimRefused(p) \/ LeaseLost(p) \/ Advance(p)
    PROVE  FireKept /\ Moves
<1>1. FireKept BY KeepFire DEF ClaimRefused, LeaseLost, Advance, ledger
<1>2. "release" \notin Loud /\ Goto(p, "release") BY DEF Loud, ClaimRefused, LeaseLost, Advance
<1> QED BY <1>1, <1>2, MoveQuiet

LEMMA ClaimSettledSettles ==
    ASSUME Typed, DispatchedHasTask, NEW p \in Proc, ClaimSettled(p)
    PROVE  FireKept /\ Moves
<1>1. FireKept BY KeepFire DEF ClaimSettled, ledger
<1>2. /\ proc'[p].pc = "advance" /\ proc'[p].at = proc[p].at
      /\ \A q \in Proc : q # p => proc'[q] = proc[q]
    BY ZenonT(40), ErrorsTo DEF ClaimSettled
<1>3. Mine(p)' = Mine(p) BY <1>2 DEF Mine
<1>4. Placed(p)'
    BY <1>2, <1>3 DEF Placed, Claiming, ClaimSettled, DispatchedHasTask, ledger
<1> QED BY <1>1, <1>2, <1>4 DEF Moves

LEMMA ClaimAgainSettles ==
    ASSUME Typed, NEW p \in Proc, ClaimAgain(p)
    PROVE  FireKept /\ Moves
<1> DEFINE r == [status |-> "claimed", linked |-> TRUE, terminal |-> FALSE]
<1>1. r.status = "claimed" /\ fire' = [fire EXCEPT ![Mine(p)] = r] BY DEF ClaimAgain
<1> HIDE DEF r
<1>2. FireKept BY <1>1 DEF FireKept, ClaimAgain, Typed
<1>3. /\ proc'[p].pc = "submit" /\ proc'[p].at = proc[p].at
      /\ \A q \in Proc : q # p => proc'[q] = proc[q]
    BY ZenonT(40), ErrorsTo DEF ClaimAgain
<1>4. Mine(p)' = Mine(p) BY <1>3 DEF Mine
<1>5. Placed(p)' BY ZenonT(40), <1>1, <1>3, <1>4 DEF Placed, Typed
<1> QED BY <1>2, <1>3, <1>5 DEF Moves

LEMMA ClaimFreshSettles ==
    ASSUME Typed, NEW p \in Proc, ClaimFresh(p)
    PROVE  FireKept /\ Moves
<1> DEFINE full == Cardinality(ActiveAfter) >= MaxConcurrent
           errors == sched.errors + Cardinality(Replaced)
           l == IF Replaced # {} THEN "recheck" ELSE IF full THEN "advance" ELSE "submit"
<1>1. ASSUME NEW f \in Fire, f = Mine(p)
      PROVE  fire'[f].status = IF full THEN "skipped" ELSE "claimed"
    BY ZenonT(40), <1>1 DEF ClaimFresh
<1>2. ASSUME NEW f \in Fire, f # Mine(p)
      PROVE  /\ fire'[f].status # "absent" \/ fire[f].status = "absent"
             /\ fire'[f].status = fire[f].status \/ task[f] # "absent"
  <2>1. fire[f] \in FireRow BY DEF Typed
  <2>2. CASE f \in Replaced /\ fire[f].linked
    <3>1. fire'[f] = [fire[f] EXCEPT !.status = IF fire[f].terminal THEN fire[f].status
                                                ELSE "failed",
                                     !.terminal = TRUE]
        BY ZenonT(40), <1>2, <2>2 DEF ClaimFresh
    <3>2. fire'[f].status \in {fire[f].status, "failed"} BY <2>1, <3>1 DEF FireRow
    <3>3. task[f] # "absent" BY <2>2 DEF Replaced
    <3> QED BY <3>2, <3>3
  <2>3. CASE ~(f \in Replaced /\ fire[f].linked) BY ZenonT(40), <1>2, <2>3 DEF ClaimFresh
  <2> QED BY ZenonT(40), <2>2, <2>3
<1>3. FireKept BY ZenonT(40), <1>1, <1>2 DEF FireKept, ClaimFresh
<1>4. proc' = [proc EXCEPT ![p].pc = l, ![p].errors = errors] BY ZenonT(40) DEF ClaimFresh, Typed
<1>5. l \in {"recheck", "advance", "submit"} /\ (l = "advance" => full) OBVIOUS
<1> HIDE DEF l, errors
<1>6. /\ proc'[p].pc = l /\ proc'[p].at = proc[p].at
      /\ \A q \in Proc : q # p => proc'[q] = proc[q]
    BY ZenonT(40), <1>4, ErrorsTo
<1>7. Mine(p)' = Mine(p) BY <1>6 DEF Mine
<1>8. Placed(p)' BY <1>1, <1>5, <1>6, <1>7 DEF Placed
<1> QED BY <1>3, <1>6, <1>8 DEF Moves

LEMMA RecheckSettles ==
    ASSUME Typed, Settled, NEW p \in Proc, Recheck(p)
    PROVE  FireKept /\ Moves
<1> DEFINE l == IF ~sched.enabled THEN "release"
                ELSE IF fire[Mine(p)].status = "skipped" THEN "advance" ELSE "submit"
<1>1. FireKept /\ fire' = fire BY KeepFire DEF Recheck, ledger
<1>2. Goto(p, l) BY DEF Recheck
<1>3. /\ l \in {"release", "advance", "submit"}
      /\ l = "advance" => fire[Mine(p)].status = "skipped"
    OBVIOUS
<1> HIDE DEF l
<1>4. /\ proc'[p].pc = l /\ proc'[p].at = proc[p].at
      /\ \A q \in Proc : q # p => proc'[q] = proc[q]
    BY <1>2, MoveTo
<1>5. Mine(p)' = Mine(p) BY <1>4 DEF Mine
<1>6. Mine(p) \in Fire => fire[Mine(p)].status # "absent"
    BY ZenonT(40) DEF Settled, Placed, Claiming, Recheck, At
<1>7. Placed(p)' BY ZenonT(40), <1>1, <1>3, <1>4, <1>5, <1>6 DEF Placed
<1> QED BY <1>1, <1>4, <1>7 DEF Moves

LEMMA SubmitSettles ==
    ASSUME Typed, NEW p \in Proc, Submit(p)
    PROVE  FireKept /\ Moves
<1>1. FireKept BY KeepFire DEF Submit, ledger
<1>2. AfterSubmit(p) \notin Loud BY DEF AfterSubmit, Loud
<1> QED BY <1>1, <1>2, MoveQuiet DEF Submit

LEMMA SubmitErrorSettles ==
    ASSUME Typed, Settled, NEW p \in Proc, SubmitError(p)
    PROVE  FireKept /\ Moves
<1>1. FireKept /\ fire' = fire BY KeepFire DEF SubmitError, ledger
<1>2. /\ proc'[p].pc = "error" /\ proc'[p].at = proc[p].at
      /\ \A q \in Proc : q # p => proc'[q] = proc[q]
    BY MoveTo DEF SubmitError
<1>3. Mine(p)' = Mine(p) BY <1>2 DEF Mine
<1>4. Placed(p)' BY ZenonT(40), <1>1, <1>2, <1>3 DEF Settled, Placed, Claiming, SubmitError, At
<1> QED BY <1>1, <1>2, <1>4 DEF Moves

LEMMA MarkDispatchedSettles ==
    ASSUME Typed, Submitted, NEW p \in Proc, MarkDispatched(p)
    PROVE  FireKept /\ Moves
<1>1. task' = task BY DEF MarkDispatched
<1>2. CASE Holds(p) /\ fire[Mine(p)].status = "claimed"
  <2>1. fire' = [fire EXCEPT ![Mine(p)] =
                   [fire[Mine(p)] EXCEPT !.status = "dispatched", !.linked = TRUE]]
      BY ZenonT(40), <1>2 DEF MarkDispatched, Typed
  <2>2. Mine(p) \in Fire => fire'[Mine(p)].status = "dispatched" BY <2>1 DEF Typed, FireRow
  <2>3. FireKept BY <1>2, <2>1, <2>2 DEF FireKept, Typed
  <2>4. /\ proc'[p].pc = "advance" /\ proc'[p].at = proc[p].at
        /\ \A q \in Proc : q # p => proc'[q] = proc[q]
      BY <1>2, MoveTo DEF MarkDispatched
  <2>5. Mine(p)' = Mine(p) BY <2>4 DEF Mine
  <2>6. Mine(p) \in Fire => task[Mine(p)] # "absent"
      BY DEF Submitted, MarkDispatched, At, Hot, KeyOf
  <2>7. Placed(p)' BY ZenonT(40), <1>1, <2>4, <2>5, <2>6 DEF Placed, Claiming
  <2> QED BY <2>3, <2>4, <2>7 DEF Moves
<1>3. CASE ~(Holds(p) /\ fire[Mine(p)].status = "claimed")
    BY <1>3, KeepFire, MoveQuiet DEF MarkDispatched, Loud
<1> QED BY <1>2, <1>3

(* A row that is claimed changes its status.                               *)
LEMMA FireLeaves ==
    ASSUME Typed, NEW f, NEW r, r.status # "absent",
           \/ f \notin Fire \/ fire[f].status # "skipped" \/ r.status = "skipped"
           \/ task[f] # "absent",
           fire' = [fire EXCEPT ![f] = r]
    PROVE  FireKept
    BY DEF FireKept, Typed

LEMMA FailKeeps ==
    ASSUME Typed, NEW f, NEW B \in BOOLEAN, B => fire[f].status = "claimed",
           fire' = [fire EXCEPT ![f] =
                      IF B THEN [fire[f] EXCEPT !.status = "failed", !.terminal = FALSE]
                      ELSE fire[f]]
    PROVE  FireKept
<1>1. CASE f \notin Fire \/ ~B
  <2>1. fire' = fire BY <1>1 DEF Typed
  <2> QED BY <2>1, KeepFire
<1>2. CASE f \in Fire /\ B
  <2> DEFINE r == [fire[f] EXCEPT !.status = "failed", !.terminal = FALSE]
  <2>1. fire[f] \in FireRow BY <1>2 DEF Typed
  <2>2. r.status = "failed" BY <2>1 DEF FireRow
  <2>3. fire' = [fire EXCEPT ![f] = r] BY <1>2
  <2> HIDE DEF r
  <2> QED BY ZenonT(40), <1>2, <2>2, <2>3, FireLeaves
<1> QED BY <1>1, <1>2

LEMMA MarkFailedSettles ==
    ASSUME Typed, NEW p \in Proc, MarkFailed(p) \/ MarkManualFailed(p)
    PROVE  FireKept /\ Moves
<1>1. Moves BY MoveQuiet DEF MarkFailed, MarkManualFailed, Loud
<1>2. CASE MarkFailed(p)
  <2>1. CASE Claimable(p)
    <3> DEFINE B == fire[Mine(p)].status = "claimed"
    <3>1. fire' = [fire EXCEPT ![Mine(p)] =
                     IF B THEN [fire[Mine(p)] EXCEPT !.status = "failed", !.terminal = FALSE]
                     ELSE fire[Mine(p)]]
        BY <1>2, <2>1 DEF MarkFailed
    <3>2. B \in BOOLEAN /\ (B => fire[Mine(p)].status = "claimed") OBVIOUS
    <3> HIDE DEF B
    <3> QED BY ZenonT(40), <1>1, <3>1, <3>2, FailKeeps
  <2>2. CASE ~Claimable(p) BY <1>1, <1>2, <2>2, KeepFire DEF MarkFailed, ledger
  <2> QED BY <2>1, <2>2
<1>3. CASE MarkManualFailed(p)
  <2> DEFINE B == task[KeyOf(p)] = "absent" /\ Holds(p) /\ fire[KeyOf(p)].status = "claimed"
  <2>1. fire' = [fire EXCEPT ![KeyOf(p)] =
                   IF B THEN [fire[KeyOf(p)] EXCEPT !.status = "failed", !.terminal = FALSE]
                   ELSE fire[KeyOf(p)]]
      BY <1>3 DEF MarkManualFailed
  <2>2. B \in BOOLEAN /\ (B => fire[KeyOf(p)].status = "claimed") OBVIOUS
  <2> HIDE DEF B
  <2> QED BY ZenonT(40), <1>1, <2>1, <2>2, FailKeeps
<1> QED BY <1>2, <1>3

LEMMA ReleaseSettles ==
    ASSUME Typed, NEW p \in Proc, Release(p)
    PROVE  FireKept /\ Moves
<1> DEFINE l == proc[p].then
           a == [proc[p] EXCEPT !.pc = l]
           b == [a EXCEPT !.at = 0]
           r == [b EXCEPT !.errors = 0]
<1>1. FireKept BY KeepFire DEF Release, ledger
<1>2. proc[p] \in Process /\ l \notin Loud BY ThenCold DEF Process, Then, Loud
<1>3. r.pc = l
  <2>1. l \in Cold BY ThenCold
  <2> HIDE DEF l
  <2>2. a \in Process /\ a.pc = l BY <1>2, <2>1 DEF Process
  <2> HIDE DEF a
  <2>3. b \in Process /\ b.pc = l BY <2>2 DEF Process
  <2> HIDE DEF b
  <2> QED BY <2>3 DEF Process
<1>4. proc' = [proc EXCEPT ![p] = IF l = "idle" THEN Idle ELSE r] BY DEF Release
<1>5. Idle.pc \notin Loud BY DEF Idle, Loud
<1> HIDE DEF l, r
<1>6. Moves BY <1>2, <1>3, <1>4, <1>5 DEF Moves, Typed
<1> QED BY <1>1, <1>6

LEMMA ClaimManualSettles ==
    ASSUME Typed, Settled, NEW p \in Proc, ClaimManual(p)
    PROVE  FireKept /\ Moves
<1>1. p[2] = "trigger" BY DEF Settled, Placed, ClaimManual, At
<1>2. ASSUME NEW l \in {"release", "submit"}, NEW n,
             proc' = [proc EXCEPT ![p].pc = l, ![p].at = n]
      PROVE  Moves
  <2>1. proc'[p].pc = l /\ \A q \in Proc : q # p => proc'[q] = proc[q] BY ZenonT(40), <1>2, NoteTo
  <2>2. Placed(p)' BY <1>1, <2>1 DEF Placed, Claiming
  <2> QED BY <2>1, <2>2 DEF Moves
<1>3. ASSUME NEW f \in Fire, NEW s \in {"skipped", "claimed"}, fire[f].status = "absent",
             fire' = [fire EXCEPT ![f].status = s]
      PROVE  FireKept
  <2>1. fire[f] \in FireRow BY DEF Typed
  <2>2. [fire[f] EXCEPT !.status = s].status = s BY <2>1 DEF FireRow
  <2>3. fire' = [fire EXCEPT ![f] = [fire[f] EXCEPT !.status = s]] BY <1>3
  <2> QED BY ZenonT(40), <1>3, <2>2, <2>3, FireLeaves
<1>4. ASSUME NEW f \in Fire, fire[f].status = "claimed",
             fire' = [fire EXCEPT ![f].terminal = FALSE]
      PROVE  FireKept
  <2>1. fire[f] \in FireRow BY DEF Typed
  <2>2. [fire[f] EXCEPT !.terminal = FALSE].status = "claimed" BY <1>4, <2>1 DEF FireRow
  <2>3. fire' = [fire EXCEPT ![f] = [fire[f] EXCEPT !.terminal = FALSE]] BY <1>4
  <2> QED BY ZenonT(40), <1>4, <2>2, <2>3, FireLeaves
<1> DEFINE full == Cardinality({f \in Fire : task[f] \in {"active", "paused"}}) >= MaxConcurrent
<1>5. CASE Goto(p, "release") /\ UNCHANGED fire BY <1>5, KeepFire, MoveQuiet DEF Loud
<1>6. ASSUME NEW f \in Pending,
             fire' = [fire EXCEPT ![f].terminal = FALSE],
             proc' = [proc EXCEPT ![p].pc = "submit", ![p].at = f.at]
      PROVE  FireKept /\ Moves
  <2>1. f \in Fire /\ fire[f].status = "claimed" BY ManualAt DEF Pending
  <2> QED BY ZenonT(40), <1>2, <1>4, <1>6, <2>1
<1>7. ASSUME NEW f \in Unused,
             fire' = [fire EXCEPT ![f].status = IF full THEN "skipped" ELSE "claimed"],
             proc' = [proc EXCEPT ![p].pc = IF full THEN "release" ELSE "submit", ![p].at = f.at]
      PROVE  FireKept /\ Moves
  <2> DEFINE s == IF full THEN "skipped" ELSE "claimed"
             l == IF full THEN "release" ELSE "submit"
  <2>1. f \in Fire /\ fire[f].status = "absent" BY ManualAt DEF Unused
  <2>2. s \in {"skipped", "claimed"} /\ l \in {"release", "submit"} OBVIOUS
  <2>3. fire' = [fire EXCEPT ![f].status = s] /\ proc' = [proc EXCEPT ![p].pc = l, ![p].at = f.at]
      BY <1>7
  <2> HIDE DEF s, l
  <2> QED BY ZenonT(40), <1>2, <1>3, <2>1, <2>2, <2>3
<1> QED BY ZenonT(40), <1>5, <1>6, <1>7 DEF ClaimManual

LEMMA ManualSettles ==
    ASSUME Typed, NEW p \in Proc, LinkManual(p) \/ Activate(p) \/ SettleManual(p)
    PROVE  FireKept /\ Moves
<1>1. "release" \notin Loud /\ "activate" \notin Loud /\ "settle" \notin Loud BY DEF Loud
<1>2. Moves BY <1>1, MoveQuiet DEF LinkManual, Activate, SettleManual
<1>3. CASE fire' = fire BY <1>2, <1>3, KeepFire
<1>4. ASSUME fire' # fire PROVE FireKept
  <2> DEFINE f == KeyOf(p)
             a == [fire[f] EXCEPT !.linked = TRUE]
             b == [fire[f] EXCEPT !.status = "dispatched"]
  <2>1. fire[f].status = "claimed" BY <1>4 DEF LinkManual, Activate, SettleManual, ledger
  <2>2. fire' = [fire EXCEPT ![f] = a] \/ fire' = [fire EXCEPT ![f] = b]
      BY <1>4 DEF LinkManual, Activate, SettleManual, ledger
  <2>3. f \in Fire BY <1>4, <2>2 DEF Typed
  <2>4. fire[f] \in FireRow BY <2>3 DEF Typed
  <2>5. a.status = "claimed" /\ b.status = "dispatched" BY <2>1, <2>4 DEF FireRow
  <2> HIDE DEF f, a, b
  <2> QED BY <2>1, <2>2, <2>5, FireLeaves
<1> QED BY <1>2, <1>3, <1>4

LEMMA FireStepSettles ==
    ASSUME IInv, Settled, NEW p \in Proc, FireStep(p)
    PROVE  FireKept /\ Moves
<1>1. Typed /\ Submitted /\ DispatchedHasTask BY DEF IInv
<1> QED BY <1>1, AcquireSettles, FetchSettles, ClaimRefusedSettles, ClaimSettledSettles,
           ClaimAgainSettles, ClaimFreshSettles, RecheckSettles, SubmitSettles,
           MarkDispatchedSettles, MarkFailedSettles, ReleaseSettles, ClaimManualSettles,
           ManualSettles
        DEF FireStep

-----------------------------------------------------------------------------
(* The other steps ask nothing of a fire.                                  *)

LEMMA ProjectResultSettles ==
    ASSUME Typed, Reported, NEW f \in Fire, ProjectResult(f)
    PROVE  FireKept /\ Moves
<1>1. Moves BY KeepProc DEF ProjectResult
<1>2. CASE ~fire[f].linked \/ fire[f].terminal BY <1>1, <1>2, KeepFire DEF ProjectResult, ledger
<1>3. CASE ~(~fire[f].linked \/ fire[f].terminal)
  <2> DEFINE s == IF task[f] = "completed" \/ (task[f] = "cancelled" /\ f.kind = "recurring")
                  THEN "dispatched" ELSE "failed"
             r == [fire[f] EXCEPT !.terminal = TRUE, !.status = s]
  <2>1. fire' = [fire EXCEPT ![f] = r] BY ZenonT(40), <1>3 DEF ProjectResult, Typed
  <2>2. fire[f] \in FireRow /\ s # "absent" BY DEF Typed
  <2> HIDE DEF s
  <2>3. r.status # "absent" BY <2>2 DEF FireRow
  <2> HIDE DEF r
  <2>4. task[f] # "absent" BY DEF Reported, ProjectResult
  <2> QED BY ZenonT(40), <1>1, <2>1, <2>3, <2>4, FireLeaves
<1> QED BY <1>2, <1>3

LEMMA TaskSettles ==
    ASSUME NEW f \in Fire,
           \/ \E s \in Terminal : TaskEnds(f, s)
           \/ TaskPauses(f) \/ TaskResumes(f) \/ ReadResult(f)
    PROVE  FireKept /\ Moves
<1>1. fire' = fire /\ proc' = proc
    BY ZenonT(40) DEF TaskEnds, TaskPauses, TaskResumes, ReadResult, ledger
<1> QED BY <1>1, KeepFire, KeepProc

LEMMA RestSettles ==
    ASSUME \/ Disable \/ Enable \/ NotifyChanged \/ Clock \/ Lapse \/ Expire \/ ExpireCatchup
           \/ UNCHANGED vars
    PROVE  FireKept /\ Moves
<1>1. fire' = fire /\ proc' = proc
    BY ZenonT(40) DEF Disable, Enable, NotifyChanged, Clock, Lapse, Expire, ExpireCatchup, ledger, vars
<1> QED BY <1>1, KeepFire, KeepProc

(* A process is given a new record.                                        *)
LEMMA PutQuiet ==
    ASSUME Typed, NEW p \in Proc, NEW q, q.pc \notin Loud, proc' = [proc EXCEPT ![p] = q]
    PROVE  Moves
    BY DEF Moves, Typed

LEMMA QuietPlaces ==
    /\ {"due", "wait", "prepare", "scan", "lost", "leave", "book", "backlog"} \cap Loud = {}
    /\ {"restore", "skip", "complete", "jump", "release", "idle", "boot"} \cap Loud = {}
    BY DEF Loud

LEMMA CatchupGoes ==
    ASSUME Typed, NEW c \in Controller,
           \/ Tick(c) \/ TriggerNow(c) \/ Start(c) \/ Join(c) \/ AcquireCatchup(c) \/ Scan(c)
           \/ Restore(c) \/ Backlog(c) \/ CompleteCatchup(c)
    PROVE  FireKept /\ Moves
<1>1. fire' = fire
    BY DEF Tick, TriggerNow, Start, Join, AcquireCatchup, Scan, Restore, Backlog,
           CompleteCatchup, ledger
<1>2. Timer(c) \in Proc /\ Trigger(c) \in Proc BY Processes
<1>3. CASE Tick(c) \/ TriggerNow(c) \/ Start(c) \/ AcquireCatchup(c) \/ Backlog(c)
           \/ CompleteCatchup(c)
  <2>1. PICK p \in {Timer(c), Trigger(c)},
             l \in {"due", "wait", "prepare", "complete", "skip", "leave", "lost"} : Goto(p, l)
      BY <1>3 DEF Tick, TriggerNow, Start, AcquireCatchup, Backlog, CompleteCatchup, GotoTimer
  <2>2. l \notin Loud BY <2>1, QuietPlaces
  <2> QED BY <1>1, <1>2, <2>1, <2>2, KeepFire, MoveQuiet
<1>4. CASE Join(c) \/ Scan(c) \/ Restore(c)
  <2> DEFINE p == Timer(c)
             a == [proc[p] EXCEPT !.pc = "wait", !.resume = TRUE]
             b == [proc[p] EXCEPT !.pc = "book", !.orig = sched.next]
             d == [proc[p] EXCEPT !.pc = "scan", !.left = catchup.budget + 1]
  <2>1. proc[p] \in Process BY <1>2, ThenCold
  <2>2. a.pc = "wait" /\ b.pc = "book" /\ d.pc = "scan" BY <2>1 DEF Process
  <2>3. \/ \E q \in {a, b, d} : proc' = [proc EXCEPT ![p] = q]
        \/ \E l \in {"backlog", "lost"} : Goto(p, l)
      BY ZenonT(40), <1>4 DEF Join, Scan, Restore, GotoTimer, Typed
  <2> HIDE DEF p, a, b, d
  <2>4. \A q \in {a, b, d} : q.pc \notin Loud BY <2>2, QuietPlaces
  <2>5. \A l \in {"backlog", "lost"} : l \notin Loud BY QuietPlaces
  <2>6. p \in Proc BY <1>2 DEF p
  <2>7. Moves BY <2>3, <2>4, <2>5, <2>6, PutQuiet, MoveQuiet
  <2> QED BY <1>1, <2>7, KeepFire
<1> QED BY <1>3, <1>4

LEMMA PrepareSettles ==
    ASSUME Typed, NEW c \in Controller, Prepare(c)
    PROVE  FireKept /\ Moves
<1> DEFINE p == Timer(c)
           a == [proc[p] EXCEPT !.pc = "scan"]
           b == [a EXCEPT !.left = catchup'.budget]
           q == [b EXCEPT !.resume = FALSE]
<1>1. fire' = fire BY DEF Prepare, ledger
<1>2. p \in Proc /\ proc[p] \in Process BY Processes, ThenCold
<1>3. q.pc = "scan"
  <2>1. a.pc = "scan" /\ DOMAIN a = DOMAIN proc[p] BY <1>2 DEF Process
  <2>2. {"pc", "left", "resume"} \subseteq DOMAIN proc[p] BY <1>2 DEF Process
  <2> HIDE DEF a
  <2>3. b.pc = "scan" /\ DOMAIN b = DOMAIN proc[p] BY <2>1, <2>2
  <2> HIDE DEF b
  <2> QED BY <2>2, <2>3
<1>4. proc' = [proc EXCEPT ![p] = q] \/ Goto(p, "lost") \/ Goto(p, "leave")
    BY ZenonT(40), <1>2 DEF Prepare, GotoTimer, Typed
<1>5. "scan" \notin Loud /\ "lost" \notin Loud /\ "leave" \notin Loud BY QuietPlaces
<1> HIDE DEF p, q
<1> QED BY <1>1, <1>2, <1>3, <1>4, <1>5, KeepFire, PutQuiet, MoveQuiet

LEMMA ReserveSettles ==
    ASSUME Typed, NEW c \in Controller, Reserve(c)
    PROVE  FireKept /\ Moves
<1> DEFINE p == Timer(c)
           a == [proc[p] EXCEPT !.pc = "due", !.then = "fired"]
           b == [a EXCEPT !.left = catchup.budget - 1]
           q == [b EXCEPT !.epoch = catchup.epoch]
<1>1. fire' = fire BY DEF Reserve, ledger
<1>2. p \in Proc /\ proc[p] \in Process BY Processes, ThenCold
<1>3. q.pc = "due"
  <2>1. a.pc = "due" /\ DOMAIN a = DOMAIN proc[p] BY <1>2 DEF Process
  <2>2. {"pc", "left", "epoch"} \subseteq DOMAIN proc[p] BY <1>2 DEF Process
  <2> HIDE DEF a
  <2>3. b.pc = "due" /\ DOMAIN b = DOMAIN proc[p] BY <2>1, <2>2
  <2> HIDE DEF b
  <2> QED BY <2>2, <2>3
<1>4. proc' = [proc EXCEPT ![p] = q] \/ Goto(p, "lost") BY DEF Reserve, GotoTimer
<1>5. "due" \notin Loud /\ "lost" \notin Loud BY QuietPlaces
<1> HIDE DEF p, q
<1> QED BY <1>1, <1>2, <1>3, <1>4, <1>5, KeepFire, PutQuiet, MoveQuiet

LEMMA FiredSettles ==
    ASSUME Typed, NEW c \in Controller, Fired(c)
    PROVE  FireKept /\ Moves
<1> DEFINE p == Timer(c)
           l == IF sched.enabled /\ sched.next = proc[p].orig THEN "restore" ELSE "scan"
           a == [proc[p] EXCEPT !.then = "idle", !.orig = 0]
           b == [a EXCEPT !.epoch = 0]
           q == [b EXCEPT !.pc = l]
<1>1. fire' = fire BY DEF Fired, ledger
<1>2. p \in Proc /\ proc[p] \in Process BY Processes, ThenCold
<1>3. proc' = [proc EXCEPT ![p] = q] BY DEF Fired
<1>4. l \notin Loud BY QuietPlaces
<1> HIDE DEF l
<1>5. q.pc = l
  <2>1. "pc" \in DOMAIN a BY <1>2 DEF Process
  <2> HIDE DEF a
  <2>2. "pc" \in DOMAIN b BY <2>1
  <2> HIDE DEF b
  <2> QED BY <2>2
<1> HIDE DEF p, q
<1> QED BY ZenonT(40), <1>1, <1>2, <1>3, <1>4, <1>5, KeepFire, PutQuiet

LEMMA SkipSettles ==
    ASSUME Typed, NEW c \in Controller, SkipRead(c) \/ SkipMissed(c)
    PROVE  FireKept /\ Moves
<1> DEFINE p == Timer(c)
           a == [proc[p] EXCEPT !.pc = "jump", !.at = sched.next]
           b == [a EXCEPT !.errors = sched.errors]
           d == [proc[p] EXCEPT !.pc = "release", !.then = "complete"]
           t == IF sched'.enabled /\ sched'.next \in 1 .. now THEN "backlog" ELSE "complete"
           q == [proc[p] EXCEPT !.pc = "release", !.then = t]
<1>1. fire' = fire BY DEF SkipRead, SkipMissed, ledger
<1>2. p \in Proc /\ proc[p] \in Process BY Processes, ThenCold
<1>3. b.pc = "jump"
  <2>1. a.pc = "jump" /\ {"pc", "errors"} \subseteq DOMAIN a BY <1>2 DEF Process
  <2> HIDE DEF a
  <2> QED BY <2>1
<1>4. d.pc = "release" BY <1>2 DEF Process
<1>5. q.pc = "release"
  <2> HIDE DEF t
  <2> QED BY <1>2 DEF Process
<1>6. CASE SkipRead(c)
  <2>1. proc' = [proc EXCEPT ![p] = IF Due(now) THEN b ELSE d] BY <1>6 DEF SkipRead
  <2> HIDE DEF p, b, d
  <2> QED BY ZenonT(40), <1>1, <1>2, <1>3, <1>4, <2>1, QuietPlaces, KeepFire, PutQuiet
<1>7. CASE SkipMissed(c)
  <2>1. proc' = [proc EXCEPT ![p] = q] BY <1>7 DEF SkipMissed
  <2> HIDE DEF p, q
  <2> QED BY ZenonT(40), <1>1, <1>2, <1>5, <2>1, QuietPlaces, KeepFire, PutQuiet
<1> QED BY <1>6, <1>7

LEMMA LeaveSettles ==
    ASSUME Typed, NEW c \in Controller, LeaveCatchup(c) \/ Crash(c)
    PROVE  FireKept /\ Moves
<1> DEFINE q == [Idle EXCEPT !.pc = "wait", !.resume = TRUE]
<1>1. fire' = fire BY DEF LeaveCatchup, Crash, ledger
<1>2. Timer(c) \in Proc /\ Trigger(c) \in Proc BY Processes
<1>3. q.pc = "wait" /\ Idle.pc = "idle" /\ Boot.pc = "boot" BY DEF Idle, Boot
<1>4. CASE LeaveCatchup(c)
  <2>1. proc' = [proc EXCEPT ![Timer(c)] = IF AtTimer(c, "leave") THEN Idle ELSE q]
      BY <1>4 DEF LeaveCatchup
  <2> HIDE DEF q
  <2> QED BY ZenonT(40), <1>1, <1>2, <1>3, <2>1, QuietPlaces, KeepFire, PutQuiet
<1>5. CASE Crash(c)
  <2>1. proc' = [proc EXCEPT ![Timer(c)] = Boot, ![Trigger(c)] = Idle] BY <1>5 DEF Crash
  <2>2. Idle.pc \notin Loud /\ Boot.pc \notin Loud BY <1>3, QuietPlaces
  <2>3. Moves BY <1>2, <2>1, <2>2 DEF Moves, Typed
  <2> QED BY <1>1, <2>3, KeepFire
<1> QED BY <1>4, <1>5

LEMMA NextSettles ==
    ASSUME IInv, Settled, [Next]_vars
    PROVE  Settled'
<1>1. Typed /\ Reported BY DEF IInv
<1>2. ASSUME NEW c \in Controller,
             TimerStep(c) \/ FireStep(Trigger(c)) \/ TriggerNow(c) \/ Crash(c)
      PROVE  FireKept /\ Moves
    BY <1>1, <1>2, Processes, FireStepSettles, CatchupGoes, PrepareSettles, ReserveSettles,
       FiredSettles, SkipSettles, LeaveSettles
    DEF TimerStep
<1>3. ASSUME NEW p \in Proc, SubmitError(p) PROVE FireKept /\ Moves
    BY <1>1, <1>3, SubmitErrorSettles
<1>4. ASSUME NEW f \in Fire,
             \/ \E s \in Terminal : TaskEnds(f, s)
             \/ TaskPauses(f) \/ TaskResumes(f) \/ ReadResult(f) \/ ProjectResult(f)
      PROVE  FireKept /\ Moves
    BY <1>1, <1>4, TaskSettles, ProjectResultSettles
<1>5. ASSUME \/ Disable \/ Enable \/ NotifyChanged \/ Clock \/ Lapse \/ Expire
             \/ ExpireCatchup \/ UNCHANGED vars
      PROVE  FireKept /\ Moves
    BY <1>5, RestSettles
<1>6. FireKept /\ Moves BY <1>2, <1>3, <1>4, <1>5 DEF Next
<1> QED BY <1>6, NextStepOK, SettledStep

-----------------------------------------------------------------------------
(* Which steps move the schedule.                                          *)

Stays == sched'.next = sched.next \/ sched'.next = 0

LEMMA FireStays ==
    ASSUME Typed, NEW p \in Proc, FireStep(p), ~AssignNext(p), ~Advance(p), ~MarkFailed(p)
    PROVE  Stays
<1>1. CASE ClaimFresh(p)
  <2> DEFINE errors == sched.errors + Cardinality(Replaced)
  <2>1. \/ sched' = [enabled |-> FALSE, reason |-> "auto", next |-> 0, errors |-> errors]
        \/ sched' = [sched EXCEPT !.errors = errors]
      BY ZenonT(40), <1>1 DEF ClaimFresh
  <2> HIDE DEF errors
  <2> QED BY <2>1 DEF Typed, Schedules, Stays
<1>2. CASE ~ClaimFresh(p)
  <2>1. sched' = sched
      BY ZenonT(40), <1>2 DEF FireStep, Acquire, Fetch, ClaimRefused, ClaimSettled, ClaimAgain,
         Recheck, Submit, LeaseLost, MarkDispatched, Release, ClaimManual, LinkManual, Activate,
         SettleManual, MarkManualFailed, ledger
  <2> QED BY <2>1 DEF Stays
<1> QED BY <1>1, <1>2

LEMMA TimerStays ==
    ASSUME Typed, NEW c \in Controller,
           TimerStep(c) \/ TriggerNow(c) \/ Crash(c), ~FireStep(Timer(c)), ~SkipMissed(c)
    PROVE  Stays \/ sched.next = 0
    BY ZenonT(40)
         DEF TimerStep, Tick, TriggerNow, Crash, Start, Join, AcquireCatchup, Prepare, Scan,
       Reserve, Fired, Restore, Backlog, SkipRead, CompleteCatchup, LeaveCatchup, ledger, Stays

LEMMA EditStays == ASSUME Typed, Disable \/ Enable PROVE Stays
<1>1. sched \in Schedules BY DEF Typed
<1>2. [sched EXCEPT !.enabled = FALSE, !.reason = "user"].next = sched.next BY <1>1 DEF Schedules
<1> DEFINE a == [sched EXCEPT !.enabled = TRUE, !.reason = "none"]
<1>3. a.next = sched.next /\ {"next", "errors"} \subseteq DOMAIN a BY <1>1 DEF Schedules
<1>4. [a EXCEPT !.errors = 0].next = sched.next
  <2> HIDE DEF a
  <2> QED BY <1>3
<1> QED BY ZenonT(40), <1>2, <1>4 DEF Disable, Enable, Stays

(* The fire of a process that moves the schedule is settled.               *)
LEMMA AdvanceMoves ==
    ASSUME Typed, Settled, NEW p \in Proc, Advance(p), NEW t \in 1 .. Horizon, sched.next = t
    PROVE  \/ Stays \/ task[Recurring(t)] # "absent"
           \/ fire'[Recurring(t)].status = "skipped"
<1>1. CASE Holds(p) /\ sched.next = proc[p].at
  <2>1. Mine(p) = Recurring(t) /\ Mine(p) \in Fire BY <1>1 DEF Mine, Fire
  <2>2. fire' = fire /\ proc[p].pc = "advance" BY DEF Advance, At
  <2> QED BY ZenonT(40), <2>1, <2>2 DEF Settled, Placed
<1>2. CASE ~(Holds(p) /\ sched.next = proc[p].at) BY <1>2 DEF Advance, Stays
<1> QED BY ZenonT(40), <1>1, <1>2

LEMMA MarkFailedMoves ==
    ASSUME Typed, Settled, DispatchedHasTask, NEW p \in Proc, MarkFailed(p),
           NEW t \in 1 .. Horizon, sched.next = t
    PROVE  \/ Stays \/ task[Recurring(t)] # "absent"
           \/ fire'[Recurring(t)].status \in {"skipped", "failed"}
<1>1. CASE Claimable(p)
  <2> DEFINE f == Mine(p)
             r == [fire[f] EXCEPT !.status = "failed", !.terminal = FALSE]
  <2>1. f = Recurring(t) /\ f \in Fire BY <1>1 DEF Claimable, Mine, Fire
  <2>2. fire[f] \in FireRow BY <2>1 DEF Typed
  <2>3. fire' = [fire EXCEPT ![f] = IF fire[f].status = "claimed" THEN r ELSE fire[f]]
      BY <1>1 DEF MarkFailed
  <2>4. r.status = "failed" BY <2>2 DEF FireRow
  <2>5. fire[f].status # "absent"
      BY <2>1 DEF MarkFailed, At, Settled, Placed, Claiming
  <2>6. fire[f].status \in {"claimed", "dispatched", "skipped", "failed"}
      BY <2>2, <2>5 DEF FireRow
  <2> HIDE DEF f, r
  <2>7. fire'[f] = IF fire[f].status = "claimed" THEN r ELSE fire[f] BY <2>1, <2>3 DEF Typed
  <2>8. CASE fire[f].status = "dispatched" BY <2>1, <2>8 DEF DispatchedHasTask
  <2>9. CASE fire[f].status # "dispatched" BY <2>1, <2>4, <2>6, <2>7, <2>9
  <2> QED BY <2>8, <2>9
<1>2. CASE ~Claimable(p) BY <1>2 DEF MarkFailed, ledger, Stays
<1> QED BY <1>1, <1>2

LEMMA InitSettled == ASSUME Init PROVE Settled
<1>1. \A p \in Proc : proc[p].pc \in {"idle", "boot"} BY DEF Init, Idle, Boot
<1> QED BY <1>1 DEF Settled, Placed, Claiming

(* The step that NoOccurrenceLost is about, for one occurrence.            *)
Accounted(t) ==
    \/ task[Recurring(t)] # "absent"
    \/ fire'[Recurring(t)].status \in {"skipped", "failed"}
    \/ notify' # notify
    \/ \E c \in Controller : AtTimer(c, "jump") /\ ~AtTimer(c, "jump")'
    \/ \E f \in Fire : event[f].pc = "read" /\ event'[f].pc = "done"
    \/ \E p \in Proc : At(p, "assign") /\ ~At(p, "assign")'

LEMMA StepAccounted ==
    ASSUME IInv, Settled, Next, NEW t \in 1 .. Horizon, sched.next = t, ~Accounted(t)
    PROVE  Stays
<1>1. Typed /\ DispatchedHasTask BY DEF IInv
<1>2. ASSUME NEW p \in Proc, FireStep(p) PROVE Stays
  <2>1. CASE AssignNext(p)
    <3> DEFINE l == IF sched.enabled THEN "reread" ELSE "release"
    <3>1. At(p, "assign") /\ Goto(p, l) BY <2>1 DEF AssignNext
    <3>2. l # "assign" OBVIOUS
    <3> HIDE DEF l
    <3>3. proc'[p].pc = l BY <1>1, <3>1, MoveTo
    <3> QED BY ZenonT(40), <3>1, <3>2, <3>3 DEF Accounted, At
  <2>2. CASE Advance(p) BY ZenonT(40), <1>1, <2>2, AdvanceMoves DEF Accounted
  <2>3. CASE MarkFailed(p) BY ZenonT(40), <1>1, <2>3, MarkFailedMoves DEF Accounted
  <2> QED BY <1>1, <1>2, <2>1, <2>2, <2>3, FireStays
<1>3. ASSUME NEW c \in Controller,
             TimerStep(c) \/ FireStep(Trigger(c)) \/ TriggerNow(c) \/ Crash(c)
      PROVE  Stays
  <2>1. CASE SkipMissed(c)
    <3> DEFINE p == Timer(c)
               n == IF sched'.enabled /\ sched'.next \in 1 .. now THEN "backlog" ELSE "complete"
               q == [proc[p] EXCEPT !.pc = "release", !.then = n]
    <3>1. p \in Proc /\ proc[p] \in Process BY <1>1, Processes, ThenCold
    <3>2. proc' = [proc EXCEPT ![p] = q] BY <2>1 DEF SkipMissed
    <3>3. q.pc = "release"
      <4> HIDE DEF n
      <4> QED BY <3>1 DEF Process
    <3> HIDE DEF q
    <3>4. proc'[p].pc = "release" BY <1>1, <3>1, <3>2, <3>3 DEF Typed
    <3> QED BY <2>1, <3>4 DEF SkipMissed, Accounted, AtTimer, At
  <2>2. Timer(c) \in Proc /\ Trigger(c) \in Proc BY Processes
  <2>3. sched.next # 0 OBVIOUS
  <2> QED BY <1>1, <1>2, <1>3, <2>1, <2>2, <2>3, TimerStays
<1>4. ASSUME NEW p \in Proc, SubmitError(p) PROVE Stays
    BY <1>4 DEF SubmitError, ledger, Stays
<1>5. ASSUME NEW f \in Fire,
             \/ \E s \in Terminal : TaskEnds(f, s)
             \/ TaskPauses(f) \/ TaskResumes(f) \/ ReadResult(f)
      PROVE  Stays
    BY ZenonT(40), <1>5 DEF TaskEnds, TaskPauses, TaskResumes, ReadResult, ledger, Stays
<1>6. ASSUME NEW f \in Fire, ProjectResult(f) PROVE Stays
  <2>1. event[f].pc = "read" /\ event' = [event EXCEPT ![f] = [pc |-> "done", next |-> 0]]
      BY <1>6 DEF ProjectResult
  <2>2. event'[f].pc = "done" BY <1>1, <2>1 DEF Typed
  <2> QED BY <2>1, <2>2 DEF Accounted
<1>7. CASE Disable \/ Enable BY <1>1, <1>7, EditStays
<1>8. CASE NotifyChanged
  <2>1. PICK n : notify' = n /\ n = notify - 1 /\ notify > 0 BY <1>8 DEF NotifyChanged
  <2> QED BY <2>1 DEF Accounted
<1>9. CASE Clock \/ Lapse \/ Expire \/ ExpireCatchup
    BY ZenonT(40), <1>9 DEF Clock, Lapse, Expire, ExpireCatchup, ledger, Stays
<1> QED BY <1>3, <1>4, <1>5, <1>6, <1>7, <1>8, <1>9 DEF Next

(* However controllers fence one another, stall and die, whatever users    *)
(* trigger and edit, an occurrence is left behind only once it has its     *)
(* task, was skipped for max_concurrent_runs or failed, or for one of the  *)
(* reasons that NoOccurrenceLost names (advance_schedule and mark_failed). *)
THEOREM OccurrenceSettled == Spec => NoOccurrenceLost
<1>1. Init => IInv /\ Settled BY InitOK, InitSettled
<1>2. IInv /\ Settled /\ [Next]_vars => IInv' /\ Settled' BY NextOK, NextSettles
<1>3. IInv /\ Settled /\ [Next]_vars
         => [\A t \in 1 .. Horizon : sched.next = t /\ sched'.next > t => Accounted(t)]_vars
  <2> SUFFICES ASSUME IInv, Settled, Next, NEW t \in 1 .. Horizon, sched.next = t,
                      sched'.next > t, ~Accounted(t)
               PROVE  FALSE
      OBVIOUS
  <2>1. Stays BY StepAccounted
  <2> QED BY <2>1 DEF Stays
<1> QED BY <1>1, <1>2, <1>3, PTL DEF Spec, NoOccurrenceLost, Accounted

=============================================================================
