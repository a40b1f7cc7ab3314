---------------------------- MODULE DirectTurns ----------------------------
(***************************************************************************)
(* Durable direct turns of one conversation: the request rows and their    *)
(* fenced updates (cognis/store/direct_turns.py), the claim, recovery and  *)
(* execution loop of every controller (cognis/core/direct_turn_runtime.py) *)
(* and the execution of a claimed turn with its durable checkpoints        *)
(* (cognis/core/turn_scheduler.py, cognis/core/agent_loop.py).             *)
(*                                                                         *)
(* A controller here is one incarnation of a process: a crash is final and *)
(* a restart is another controller that boots.  Every database transaction *)
(* and every external call is a step of its own, so anything may happen in *)
(* between.  The canonical history (Intaris) and the executors are         *)
(* external: an append travels on "wire" until it lands, and a tool call   *)
(* that was sent cannot be taken back.                                     *)
(***************************************************************************)
EXTENDS Integers, FiniteSets

CONSTANTS Controller,            \* controller incarnations
          NTurns,                \* turns the conversation may see
          Call,                  \* tool calls the model may issue
          SystemTurn,            \* turns without a user message: system_initiated, is_retry
          Peers,                 \* TRUE in HA mode: several controllers at once
          ControllerMaxAttempts, \* DIRECT_TURN_CONTROLLER_MAX_ATTEMPTS
          TransientMaxAttempts,  \* DIRECT_TURN_TRANSIENT_MAX_ATTEMPTS
          FaultKind,             \* which faults the environment may inject
          MaxFaults,             \* bound: how many of them
          MaxToken               \* bound: how many fences are granted

Turn == 1 .. NTurns

AllFaults == {"crash", "expire", "transient", "controller", "renewal", "reconcile",
              "recovery", "busy", "drain", "stop", "drop"}

ASSUME TurnAssumption ==
    /\ NTurns \in Nat \ {0}
    /\ SystemTurn \subseteq Turn
    /\ Peers \in BOOLEAN
    /\ ControllerMaxAttempts \in Nat \ {0}
    /\ TransientMaxAttempts \in Nat \ {0}
    /\ FaultKind \subseteq AllFaults
    /\ MaxFaults \in Nat
    /\ MaxToken \in Nat
    /\ {"none", "operator"} \cap Controller = {}

VARIABLES row,      \* row[t]: the request row of turn t
          lease,    \* the conversation's coordination lease
          proc,     \* proc[c]: what controller c is doing
          todo,     \* todo[c]: stale rows c listed and has not looked at yet
          snap,     \* snap[c]: the listed copy of the row c is recovering
          wire,     \* appends on their way to the canonical history
          history,  \* events in the canonical history
          issued,   \* issued[k]: the turn and fence that issued tool call k
          sent,     \* tool calls handed to an executor
          results,  \* tool calls whose result is canonical
          faults    \* faults injected so far

vars == <<row, lease, proc, todo, snap, wire, history, issued, sent, results, faults>>
tools == <<issued, sent, results>>
external == <<wire, history, issued, sent, results>>

Claimable == {"queued", "recoverable"}
Active == {"claimed", "running", "absorbing"}
Terminal == {"completed", "failed", "cancelled", "absorbed", "ambiguous"}
Nonterminal == Claimable \cup Active
Status == Nonterminal \cup Terminal \cup {"absent"}

AppendPhase == {"user_append_pending", "user_append_uncertain", "user_appended"}
(* intaris_append is split by its event_types: tool_call or tool_result    *)
(* events, an assistant_message, a user message absorbed into the turn, or *)
(* only the notice of a failed step.                                       *)
IntarisAppend == {"append_tool", "append_assistant", "append_user", "append_notice"}
Phase == AppendPhase \cup IntarisAppend \cup
    {"none", "claimed", "model_wait", "tool_in_flight", "tool_result_persisted",
     "tool_recovery_result_persisted", "model_response", "canonical_user_append",
     "recovered_pre_model", "recovered_model_boundary", "recovered_uncommitted_absorb",
     "local_turn_busy", "controller_error", "terminal"}

(* The outcome document: phase, user_append_phase, the calls of the live   *)
(* tool dispatch groups, and whether it carries an interruption_reason.    *)
Out(p, a) == [phase |-> p, append |-> a, journal |-> {}, note |-> FALSE]
Outcome == [phase : Phase, append : AppendPhase \cup {"none"},
            journal : SUBSET Call, note : BOOLEAN]

(* attempt_count matters only up to the larger of its two limits.          *)
AttemptCap == IF ControllerMaxAttempts >= TransientMaxAttempts
              THEN ControllerMaxAttempts ELSE TransientMaxAttempts
Attempt(n) == IF n < AttemptCap THEN n + 1 ELSE n

Row == [status : Status, owner : Controller \cup {"none", "operator"},
        token : 0 .. MaxToken, cancel : BOOLEAN,
        attempts : 0 .. AttemptCap, out : Outcome]
NoRow == [status |-> "absent", owner |-> "none", token |-> 0, cancel |-> FALSE,
          attempts |-> 0, out |-> Out("none", "none")]
NoIssue == [turn |-> 0, token |-> 0]

(* Before the turn task is launched; in the turn task, outside and inside  *)
(* the agent loop.                                                         *)
PreLaunchPc == {"start", "reconcile", "launch"}
TaskPc == {"uncertain", "append", "appending", "appended", "running", "responded", "failing"}
LoopPc == {"model", "calling", "recorded", "bound", "waiting", "resulted", "interim",
           "interimwait", "answer", "answerwait", "absorbing", "absorbsend", "absorbwait",
           "absorbnext"}
RunPc == TaskPc \cup LoopPc \cup {"flushing"}
ExecPc == PreLaunchPc \cup RunPc \cup {"cancelling"}
ToolRecoveryPc == {"tools", "cleared"}
Pc == ExecPc \cup ToolRecoveryPc \cup
    {"off", "idle", "recovering", "held", "decided", "acquired", "releasing",
     "draining", "down"}

Idle == [pc |-> "idle", turn |-> 1, token |-> 0, app |-> "none", warned |-> FALSE,
         found |-> "none", batch |-> {}, calls |-> {}]

Event == [turn : Turn, kind : {"own", "absorbed", "interim", "final"}, key : 0 .. MaxToken]

Init ==
    /\ row = [t \in Turn |-> NoRow]
    /\ lease = [owner |-> "none", token |-> 0, live |-> FALSE]
    /\ proc = [c \in Controller |-> [Idle EXCEPT !.pc = "off"]]
    /\ todo = [c \in Controller |-> {}]
    /\ snap = [c \in Controller |-> NoRow]
    /\ wire = {}
    /\ history = {}
    /\ issued = [k \in Call |-> NoIssue]
    /\ sent = {}
    /\ results = {}
    /\ faults = 0

Fault(kind) ==
    /\ kind \in FaultKind
    /\ faults < MaxFaults
    /\ faults' = faults + 1

-----------------------------------------------------------------------------
(* The lease, as LeaseStore describes it, and the predicates built on it.  *)

MayAcquire(o) == lease.token = 0 \/ lease.owner = o \/ ~lease.live

(* _lease_predicate for the lease c holds.                                 *)
Current(c) == lease = [owner |-> c, token |-> proc[c].token, live |-> TRUE]

(* _owns_live_fence together with the lease predicate: the guard of every  *)
(* owned fenced update.                                                    *)
Owns(c, t) ==
    /\ row[t].status \in Active
    /\ row[t].owner = c
    /\ row[t].token = proc[c].token
    /\ Current(c)

StaleByOwner(t) == row[t].status \in Active /\ lease.owner # row[t].owner

(* list_stale_active: an active row whose exact lease tuple is not live.   *)
Stale(t) ==
    /\ row[t].status \in Active
    /\ lease # [owner |-> row[t].owner, token |-> row[t].token, live |-> TRUE]

Grant(o) ==
    /\ MayAcquire(o)
    /\ lease.token < MaxToken
    /\ lease' = [owner |-> o, token |-> lease.token + 1, live |-> TRUE]

At(c, labels) == proc[c].pc \in labels
Goto(c, l) == proc' = [proc EXCEPT ![c].pc = l]
MyTurn(c) == proc[c].turn

IsHeadButForRetries(t) == \A u \in 1 .. (t - 1) : row[u].status \notin Active \cup {"queued"}

(* The FIFO predicate: no earlier request of the conversation is open.     *)
IsHead(t) == \A u \in 1 .. (t - 1) : row[u].status \notin Nonterminal

-----------------------------------------------------------------------------
(* Admission, cancellation and the operator.                               *)

Admit(t) ==
    /\ row[t].status = "absent"
    /\ \A u \in 1 .. (t - 1) : row[u].status # "absent"
    /\ row' = [row EXCEPT ![t].status = "queued"]
    /\ UNCHANGED <<lease, proc, todo, snap, external, faults>>

CancelledAtOnce(r) ==
    IF r.status \in Nonterminal THEN [r EXCEPT !.status = "cancelled", !.cancel = TRUE] ELSE r

(* Idle work is cancelled at once, active work only flagged.               *)
Cancelled(r) ==
    CASE r.status \in Claimable -> [r EXCEPT !.status = "cancelled", !.cancel = TRUE]
      [] r.status \in Active -> [r EXCEPT !.cancel = TRUE]
      [] OTHER -> r

RequestCancel(t) ==
    /\ row[t].status \in Nonterminal
    /\ row' = [row EXCEPT ![t] = Cancelled(row[t])]
    /\ UNCHANGED <<lease, proc, todo, snap, external, faults>>

(* cancel_conversation with clear_queue.                                   *)
CancelConversation ==
    /\ \E t \in Turn : row[t].status \in Nonterminal /\ ~row[t].cancel
    /\ row' = [t \in Turn |-> Cancelled(row[t])]
    /\ UNCHANGED <<lease, proc, todo, snap, external, faults>>

(* resolve_stale_tool_ambiguous: the operator takes an expired lease, ends *)
(* the turn under the new fence and expires the lease again, atomically.   *)
ResolveStaleToolAmbiguous(t) ==
    /\ row[t].status \in Active
    /\ row[t].out.phase = "tool_in_flight"
    /\ ~lease.live
    /\ lease.token < MaxToken
    /\ lease' = [owner |-> "operator", token |-> lease.token + 1, live |-> FALSE]
    /\ row' = [row EXCEPT ![t] = [@ EXCEPT !.status = "ambiguous", !.owner = "operator",
                                           !.token = lease.token + 1,
                                           !.out = Out("terminal", "none")]]
    /\ UNCHANGED <<proc, todo, snap, external, faults>>

-----------------------------------------------------------------------------
(* Stale recovery: _recover_stale.  Rows are listed once; each is then     *)
(* judged by its listed copy, however much later its turn comes.           *)

ListStale(c) ==
    /\ At(c, {"idle"})
    /\ todo' = [todo EXCEPT ![c] = {[turn |-> t, row |-> row[t]] : t \in {u \in Turn : Stale(u)}}]
    /\ todo'[c] # {}
    /\ Goto(c, "recovering")
    /\ UNCHANGED <<row, lease, snap, external, faults>>

(* The loop takes the listed rows in admission order.                      *)
NextListed(c, s) == s \in todo[c] /\ \A r \in todo[c] : s.turn <= r.turn

AcquireForRecovery(c) ==
    /\ At(c, {"recovering"})
    /\ \E s \in todo[c] :
          /\ NextListed(c, s)
          /\ Grant(c)
          /\ todo' = [todo EXCEPT ![c] = @ \ {s}]
          /\ snap' = [snap EXCEPT ![c] = s.row]
          /\ proc' = [proc EXCEPT ![c] = [@ EXCEPT !.pc = "held", !.turn = s.turn,
                                                   !.token = lease.token + 1]]
    /\ UNCHANGED <<row, external, faults>>

(* Another controller holds the lease: the row is left for the next pass.  *)
SkipStale(c) ==
    /\ At(c, {"recovering"})
    /\ ~MayAcquire(c)
    /\ \E s \in todo[c] :
          /\ NextListed(c, s)
          /\ todo' = [todo EXCEPT ![c] = @ \ {s}]
          /\ Goto(c, IF todo[c] = {s} THEN "idle" ELSE "recovering")
    /\ UNCHANGED <<row, lease, snap, external, faults>>

(* What every stale update of the store compares: a newer fence than the   *)
(* row's, and the lease predicate.  The listed copy is not compared.       *)
Supersedes(c, t) == row[t].token \in 1 .. (proc[c].token - 1) /\ Current(c)

CancelStaleActive(c) ==
    LET t == MyTurn(c) IN
    /\ At(c, {"held"})
    /\ snap[c].cancel
    /\ row' = IF row[t].status \in Active /\ row[t].cancel /\ Supersedes(c, t)
              THEN [row EXCEPT ![t] = [@ EXCEPT !.status = "cancelled", !.owner = "none",
                                                !.out = Out("terminal", "none")]]
              ELSE row
    /\ Goto(c, "releasing")
    /\ UNCHANGED <<lease, todo, snap, external, faults>>

BeginToolRecovery(c) ==
    LET t == MyTurn(c)
        taken == /\ row[t].status \in Active
                 /\ row[t].out.phase = "tool_in_flight"
                 /\ Supersedes(c, t)
    IN
    /\ At(c, {"held"})
    /\ ~snap[c].cancel
    /\ snap[c].out.phase = "tool_in_flight"
    /\ row' = IF taken
              THEN [row EXCEPT ![t] = [@ EXCEPT !.owner = c, !.token = proc[c].token]]
              ELSE row
    /\ proc' = [proc EXCEPT ![c] = [@ EXCEPT !.pc = IF taken THEN "tools" ELSE "releasing",
                                             !.calls = IF taken THEN row[t].out.journal ELSE {}]]
    /\ UNCHANGED <<lease, todo, snap, external, faults>>

(* recover_tool_calls settles each journalled call: the executor's result, *)
(* or an interrupted one, becomes canonical.                               *)
SettleToolCall(c, k) ==
    /\ At(c, {"tools"})
    /\ k \in proc[c].calls \ results
    /\ results' = results \cup {k}
    /\ UNCHANGED <<row, lease, proc, todo, snap, wire, history, issued, sent, faults>>

(* The handler fails or its deadline passes: mark_tool_recovery_terminal.  *)
ToolRecoveryFails(c, status) ==
    LET t == MyTurn(c) IN
    /\ At(c, {"tools"})
    /\ Fault("recovery")
    /\ Owns(c, t)
    /\ row' = [row EXCEPT ![t] = [@ EXCEPT !.status = status, !.out = Out("terminal", "none")]]
    /\ Goto(c, "releasing")
    /\ UNCHANGED <<lease, todo, snap, external>>

ClearToolDispatchEarly(c) ==
    LET t == MyTurn(c) IN
    /\ At(c, {"tools"})
    /\ Owns(c, t)
    /\ row' = [row EXCEPT ![t].out = [@ EXCEPT !.phase = "tool_recovery_result_persisted",
                                               !.journal = {}]]
    /\ Goto(c, "cleared")
    /\ UNCHANGED <<lease, todo, snap, external, faults>>

(* The tool_recovery_result_persisted checkpoint releases every group.     *)
ClearToolDispatch(c) ==
    LET t == MyTurn(c) IN
    /\ At(c, {"tools"})
    /\ proc[c].calls \subseteq results
    /\ Owns(c, t)
    /\ row' = [row EXCEPT ![t].out = [@ EXCEPT !.phase = "tool_recovery_result_persisted",
                                               !.journal = {}]]
    /\ Goto(c, "cleared")
    /\ UNCHANGED <<lease, todo, snap, external, faults>>

FinishToolRecovery(c) ==
    LET t == MyTurn(c) IN
    /\ At(c, {"cleared"})
    /\ Owns(c, t)
    /\ row' = [row EXCEPT ![t] =
          IF row[t].cancel
          THEN [@ EXCEPT !.status = "cancelled", !.owner = "none", !.token = 0,
                         !.out = Out("terminal", "none")]
          ELSE [@ EXCEPT !.status = "recoverable", !.owner = "none", !.token = 0,
                         !.out = [Out("user_appended", "user_appended") EXCEPT !.note = TRUE]]]
    /\ Goto(c, "releasing")
    /\ UNCHANGED <<lease, todo, snap, external, faults>>

QuarantineSkipped(s) == FALSE

(* INTARIS_TAKEOVER_QUARANTINE_SECONDS outlasts an append request, so the  *)
(* quarantine has elapsed when the listed attempt has none on the wire.    *)
Quarantined(s) ==
    /\ s.out.phase \in IntarisAppend \cup {"canonical_user_append"}
    /\ \E w \in wire : w.key = s.token

LeaveQuarantined(c) ==
    /\ At(c, {"held"})
    /\ ~snap[c].cancel
    /\ Quarantined(snap[c])
    /\ Goto(c, "releasing")
    /\ UNCHANGED <<row, lease, todo, snap, external, faults>>

ReconciledByAnyEvent(t, p) == \E e \in history : e.turn = t

(* _reconcile_direct_turn_append: is an event of the expected type, tagged *)
(* with this turn, in the history?                                         *)
Reconciled(t, p) ==
    \E e \in history :
        /\ e.turn = t
        /\ e.kind \in IF p \in {"append_assistant", "model_response"}
                      THEN {"interim", "final"} ELSE {"own", "absorbed"}

NeedsReading(p) == p \in {"append_assistant", "append_user", "append_notice",
                          "model_response", "canonical_user_append", "user_append_uncertain"}

(* What the read may find.  Notices are not in the modelled history:       *)
(* whether one landed is left open.                                        *)
Findings(t, p) ==
    IF ~NeedsReading(p) THEN {"none"}
    ELSE IF p = "append_notice" THEN {"yes", "no"}
    ELSE IF Reconciled(t, p) THEN {"yes"} ELSE {"no"}

Judge(c, found) ==
    /\ At(c, {"held"})
    /\ ~snap[c].cancel
    /\ snap[c].out.phase # "tool_in_flight"
    /\ ~Quarantined(snap[c])
    /\ proc' = [proc EXCEPT ![c] = [@ EXCEPT !.pc = "decided", !.found = found]]
    /\ UNCHANGED <<row, lease, todo, snap, external>>

Reconcile(c) ==
    /\ \E found \in Findings(MyTurn(c), snap[c].out.phase) : Judge(c, found)
    /\ UNCHANGED faults

ReconcileFails(c) ==
    /\ NeedsReading(snap[c].out.phase)
    /\ Judge(c, "error")
    /\ Fault("reconcile")

Requeue(from, out) == [from |-> from, to |-> "recoverable", out |-> out]
Settle(from, to) == [from |-> from, to |-> to, out |-> Out("terminal", "none")]
MarkStaleAmbiguous == Settle({"running", "absorbing"}, "ambiguous")
RecoverStaleAbsorbing == Requeue({"absorbing"}, Out("recovered_uncommitted_absorb", "none"))

(* A listed row whose own user append is uncertain.                        *)
AppendVerdict(s, found) ==
    LET p == IF found = "yes" THEN "user_appended" ELSE "user_append_pending" IN
    CASE found = "error" -> MarkStaleAmbiguous
      [] found # "error" /\ s.status = "absorbing" ->
            IF found = "yes" THEN Settle({"absorbing"}, "absorbed") ELSE RecoverStaleAbsorbing
      [] OTHER -> Requeue({s.status}, Out(p, p))

(* A listed row that had started to run the model.                         *)
RunningVerdict(s, found) ==
    LET p == s.out.phase
        assistant == p \in {"append_assistant", "model_response"}
    IN
    CASE p = "append_tool" -> MarkStaleAmbiguous
      [] assistant /\ found = "yes" -> Settle({"running"}, "completed")
      [] p \in {"append_user", "append_notice"} /\ found = "yes" ->
            Requeue({"running"}, Out("user_appended", "none"))
      [] p \in IntarisAppend /\ found = "error" -> MarkStaleAmbiguous
      [] p = "model_response" /\ found # "yes" -> MarkStaleAmbiguous
      [] OTHER -> Requeue({"running"}, Out("recovered_model_boundary", s.out.append))

(* The branches of _recover_stale, in the order the code tries them.  An   *)
(* absorbing row is in canonical_user_append until it is settled, so the   *)
(* code's reading of an absorbing row in intaris_append never happens.     *)
Verdict(s, found) ==
    LET p == s.out.phase IN
    IF p = "user_appended"
    THEN IF s.status = "absorbing" THEN MarkStaleAmbiguous
         ELSE Requeue({s.status}, Out("user_appended", "user_appended"))
    ELSE IF p \in {"canonical_user_append", "user_append_uncertain"}
    THEN AppendVerdict(s, found)
    ELSE IF s.status = "claimed"
    THEN Requeue({"claimed"}, Out("recovered_pre_model", s.out.append))
    ELSE IF s.status = "absorbing" THEN RecoverStaleAbsorbing
    ELSE RunningVerdict(s, found)

RecoverStaleAnyStatus(c) ==
    LET t == MyTurn(c)
        v == Verdict(snap[c], proc[c].found)
    IN
    /\ At(c, {"decided"})
    /\ row' = IF ~row[t].cancel /\ Supersedes(c, t)
              THEN [row EXCEPT ![t] = [@ EXCEPT !.status = v.to, !.out = v.out,
                                                !.owner = IF v.to = "recoverable" THEN "none"
                                                          ELSE row[t].owner]]
              ELSE row
    /\ Goto(c, "releasing")
    /\ UNCHANGED <<lease, todo, snap, external, faults>>

(* recover_stale_claim, recover_stale_running, recover_stale_absorbing,    *)
(* mark_stale_ambiguous, reconcile_stale_absorbed, reconcile_stale_completed *)
RecoverStale(c) ==
    LET t == MyTurn(c)
        v == Verdict(snap[c], proc[c].found)
        applies == row[t].status \in v.from /\ ~row[t].cancel /\ Supersedes(c, t)
    IN
    /\ At(c, {"decided"})
    /\ row' = IF applies
              THEN [row EXCEPT ![t] = [@ EXCEPT !.status = v.to, !.out = v.out,
                                                !.owner = IF v.to = "recoverable" THEN "none"
                                                          ELSE row[t].owner]]
              ELSE row
    /\ Goto(c, "releasing")
    /\ UNCHANGED <<lease, todo, snap, external, faults>>

-----------------------------------------------------------------------------
(* Claiming: run_once.  claim checks again all that list_claimable_heads   *)
(* said, so listing and acquiring are one step.                            *)

AcquireForClaim(c, t) ==
    /\ At(c, {"idle"})
    /\ row[t].status \in Claimable
    /\ IsHead(t)
    /\ Grant(c)
    /\ proc' = [proc EXCEPT ![c] = [@ EXCEPT !.pc = "acquired", !.turn = t,
                                             !.token = lease.token + 1]]
    /\ UNCHANGED <<row, todo, snap, external, faults>>

PriorAppend(o) ==
    IF o.append = "none" /\ o.phase \in AppendPhase THEN o.phase ELSE o.append

Claim(c) ==
    LET t == MyTurn(c)
        claimed == row[t].status \in Claimable /\ IsHead(t) /\ Current(c)
    IN
    /\ At(c, {"acquired"})
    /\ row' = IF claimed
              THEN [row EXCEPT ![t] = [@ EXCEPT !.status = "claimed", !.owner = c,
                                                !.token = proc[c].token,
                                                !.attempts = Attempt(row[t].attempts)]]
              ELSE row
    /\ proc' = [proc EXCEPT ![c] = [@ EXCEPT !.pc = IF claimed THEN "start" ELSE "releasing",
                                             !.app = PriorAppend(row[t].out),
                                             !.warned = row[t].out.note]]
    /\ UNCHANGED <<lease, todo, snap, external, faults>>

Release(c) ==
    /\ At(c, {"releasing", "draining"})
    /\ lease' = IF lease.owner = c /\ lease.token = proc[c].token
                THEN [lease EXCEPT !.live = FALSE] ELSE lease
    /\ proc' = [proc EXCEPT ![c] = [Idle EXCEPT !.pc =
          IF At(c, {"draining"}) THEN "down" ELSE IF todo[c] # {} THEN "recovering" ELSE "idle"]]
    /\ snap' = [snap EXCEPT ![c] = NoRow]
    /\ UNCHANGED <<row, todo, external, faults>>

-----------------------------------------------------------------------------
(* Executing a claimed turn: _execute, _execute_claimed_direct_turn and    *)
(* _run_turn.                                                              *)

(* The store's checkpoint: live dispatch groups keep tool_in_flight.       *)
Checkpointed(o, p, a) ==
    IF o.journal = {} THEN Out(p, a)
    ELSE [Out("tool_in_flight", a) EXCEPT !.journal = o.journal]

(* DirectTurnExecutionFence.checkpoint: written under the fence, and the   *)
(* answer tells the execution of a durable cancellation.                   *)
Checkpoint(c, p, a, l) ==
    LET t == MyTurn(c) IN
    /\ Owns(c, t)
    /\ row' = [row EXCEPT ![t].out = Checkpointed(@, p, a)]
    /\ proc' = [proc EXCEPT ![c] = [@ EXCEPT !.app = a,
                                             !.pc = IF row[t].cancel THEN "cancelling" ELSE l]]

(* _mark_terminal and mark_recoverable: owned, fenced.                     *)
EndAt(c, status, o, l) ==
    LET t == MyTurn(c) IN
    /\ Owns(c, t)
    /\ row' = [row EXCEPT ![t] = [@ EXCEPT !.status = status, !.out = o,
                                           !.owner = IF status = "recoverable" THEN "none"
                                                                               ELSE row[t].owner]]
    /\ Goto(c, l)

End(c, status, o) == EndAt(c, status, o, "releasing")
MarkTerminal(c, status) == End(c, status, Out("terminal", "none"))

(* The first checkpoint keeps what the last attempt recorded of the user   *)
(* append, with its metadata.                                              *)
FirstCheckpoint(c) ==
    LET t == MyTurn(c)
        o == row[t].out
        app == proc[c].app
    IN
    /\ At(c, {"start"})
    /\ Owns(c, t)
    /\ row' = [row EXCEPT ![t].out =
          IF app = "none" THEN Checkpointed(o, "claimed", "none")
          ELSE [Checkpointed(o, o.phase, app) EXCEPT !.note = o.note]]
    /\ Goto(c, IF row[t].cancel THEN "cancelling"
               ELSE IF app = "user_append_uncertain" THEN "reconcile" ELSE "launch")
    /\ UNCHANGED <<lease, todo, snap, external, faults>>

(* materialize_claimed_payload raises a permanent error.                   *)
PayloadError(c) ==
    /\ At(c, {"start"})
    /\ MarkTerminal(c, "failed")
    /\ UNCHANGED <<lease, todo, snap, external, faults>>

(* An uncertain user append is read back before the turn runs again.  This *)
(* checkpoint goes to the store directly and does not look at cancel.      *)
ReconcileOwnAppend(c) ==
    LET t == MyTurn(c)
        p == IF Reconciled(t, "user_append_uncertain")
             THEN "user_appended" ELSE "user_append_pending"
    IN
    /\ At(c, {"reconcile"})
    /\ Owns(c, t)
    /\ row' = [row EXCEPT ![t].out = Checkpointed(@, p, p)]
    /\ proc' = [proc EXCEPT ![c] = [@ EXCEPT !.app = p, !.pc = "launch"]]
    /\ UNCHANGED <<lease, todo, snap, external, faults>>

ReconcileOwnAppendFails(c) ==
    /\ At(c, {"reconcile"})
    /\ Fault("reconcile")
    /\ End(c, "recoverable", [row[MyTurn(c)].out EXCEPT !.phase = "user_append_uncertain"])
    /\ UNCHANGED <<lease, todo, snap, external>>

(* LocalDirectTurnBusy: a process-local operation holds the conversation.  *)
LocalBusy(c) ==
    /\ At(c, {"launch"})
    /\ Fault("busy")
    /\ End(c, "recoverable", [row[MyTurn(c)].out EXCEPT !.phase = "local_turn_busy"])
    /\ UNCHANGED <<lease, todo, snap, external>>

(* Resumed and system turns go straight to the model, without mark_running *)
Resumes(c) == proc[c].app = "user_appended" \/ MyTurn(c) \in SystemTurn

Launch(c) ==
    /\ At(c, {"launch"})
    /\ IF Resumes(c)
       THEN /\ proc' = [proc EXCEPT ![c] = [@ EXCEPT !.app = "user_appended", !.pc = "model"]]
            /\ UNCHANGED row
       ELSE Checkpoint(c, "user_append_pending", "user_append_pending", "uncertain")
    /\ UNCHANGED <<lease, todo, snap, external, faults>>

BeginUserAppend(c) ==
    /\ At(c, {"uncertain"})
    /\ Checkpoint(c, "user_append_uncertain", "user_append_uncertain", "append")
    /\ UNCHANGED <<lease, todo, snap, external, faults>>

(* An append request: it travels until it lands or is lost.  Nothing ties  *)
(* it to the fence.  The user append has an idempotency key per turn (key  *)
(* 0); every other append has a fresh one per attempt.                     *)
SendAppend(c, events, l) ==
    /\ wire' = wire \cup (events \ history)
    /\ Goto(c, l)
    /\ UNCHANGED <<row, lease, todo, snap, history, tools, faults>>

OwnEvent(t) == [turn |-> t, kind |-> "own", key |-> 0]
MyEvent(c, kind) == [turn |-> MyTurn(c), kind |-> kind, key |-> proc[c].token]

SendUserAppend(c) ==
    /\ At(c, {"append"})
    /\ SendAppend(c, {OwnEvent(MyTurn(c))}, "appending")

UserAppended(c) ==
    /\ At(c, {"appending"})
    /\ OwnEvent(MyTurn(c)) \in history
    /\ Checkpoint(c, "user_appended", "user_appended", "appended")
    /\ UNCHANGED <<lease, todo, snap, external, faults>>

MarkStarted(c) ==
    LET t == MyTurn(c) IN
    /\ At(c, {"appended"})
    /\ Owns(c, t)
    /\ row' = [row EXCEPT ![t].status = "started"]
    /\ Goto(c, "running")
    /\ UNCHANGED <<lease, todo, snap, external, faults>>

MarkRunning(c) ==
    LET t == MyTurn(c) IN
    /\ At(c, {"appended"})
    /\ Owns(c, t)
    /\ row[t].status = "claimed"
    /\ row' = [row EXCEPT ![t].status = "running"]
    /\ Goto(c, "running")
    /\ UNCHANGED <<lease, todo, snap, external, faults>>

ModelWait(c) ==
    /\ At(c, {"running"})
    /\ Checkpoint(c, "model_wait", proc[c].app, "model")
    /\ UNCHANGED <<lease, todo, snap, external, faults>>

-----------------------------------------------------------------------------
(* The model loop: tool calls, assistant messages, absorbed messages.      *)

(* The tool_call events are made canonical before the call is journalled.  *)
CallTool(c, k) ==
    /\ At(c, {"model"})
    /\ issued[k] = NoIssue
    /\ LET t == MyTurn(c) IN
          /\ Owns(c, t)
          /\ row' = [row EXCEPT ![t].out = Checkpointed(@, "append_tool", proc[c].app)]
          /\ proc' = [proc EXCEPT ![c] = [@ EXCEPT !.calls = {k},
                                                   !.pc = IF row[t].cancel THEN "cancelling"
                                                                           ELSE "calling"]]
          /\ issued' = [issued EXCEPT ![k] = [turn |-> t, token |-> proc[c].token]]
    /\ UNCHANGED <<lease, todo, snap, wire, history, sent, results, faults>>

(* Replaces the dispatch group of this session and turn.                   *)
RecordToolDispatch(c) ==
    LET t == MyTurn(c) IN
    /\ At(c, {"calling"})
    /\ Owns(c, t)
    /\ row' = [row EXCEPT ![t].out =
          [Out("tool_in_flight", proc[c].app) EXCEPT !.journal = proc[c].calls]]
    /\ Goto(c, IF row[t].cancel THEN "cancelling" ELSE "recorded")
    /\ UNCHANGED <<lease, todo, snap, external, faults>>

(* merge_tool_dispatch: the last fenced look before the frame is sent.  A  *)
(* call without a journalled descriptor is not sent.                       *)
BindToolDispatch(c) ==
    LET t == MyTurn(c) IN
    /\ At(c, {"recorded"})
    /\ Owns(c, t)
    /\ Goto(c, IF row[t].cancel THEN "cancelling"
               ELSE IF proc[c].calls \subseteq row[t].out.journal THEN "bound" ELSE "resulted")
    /\ UNCHANGED <<row, lease, todo, snap, external, faults>>

SendTool(c) ==
    /\ At(c, {"bound"})
    /\ sent' = sent \cup proc[c].calls
    /\ Goto(c, "waiting")
    /\ UNCHANGED <<row, lease, todo, snap, wire, history, issued, results, faults>>

(* The executor answers, or reports that the outcome cannot be known: both *)
(* become the canonical result.                                            *)
ToolReturns(c) ==
    /\ At(c, {"waiting"})
    /\ results' = results \cup proc[c].calls
    /\ Goto(c, "resulted")
    /\ UNCHANGED <<row, lease, todo, snap, wire, history, issued, sent, faults>>

CompleteToolDispatch(c) ==
    LET t == MyTurn(c) IN
    /\ At(c, {"resulted"})
    /\ Owns(c, t)
    /\ row' = [row EXCEPT ![t].out = Out("tool_result_persisted", proc[c].app)]
    /\ proc' = [proc EXCEPT ![c] = [@ EXCEPT !.calls = {},
                                             !.pc = IF row[t].cancel THEN "cancelling"
                                                                     ELSE "model"]]
    /\ UNCHANGED <<lease, todo, snap, external, faults>>

(* Every model cycle with content appends an assistant_message: one that   *)
(* the loop goes on from, to call tools, to absorb input or to be reminded *)
(* of open work ("interim"), as much as the last one ("answer").  Bound:   *)
(* one interim message per attempt.                                        *)
BeginAssistant(c, l) ==
    /\ At(c, {"model"})
    /\ l = "interim" => MyEvent(c, "interim") \notin history
    /\ Checkpoint(c, "append_assistant", proc[c].app, l)
    /\ UNCHANGED <<lease, todo, snap, external, faults>>

SendInterim(c) ==
    /\ At(c, {"interim"})
    /\ SendAppend(c, {MyEvent(c, "interim")}, "interimwait")

InterimAppended(c) ==
    /\ At(c, {"interimwait"})
    /\ MyEvent(c, "interim") \in history
    /\ Owns(c, MyTurn(c))
    /\ Goto(c, "model")
    /\ UNCHANGED <<row, lease, todo, snap, external, faults>>

SendAnswer(c) ==
    /\ At(c, {"answer"})
    /\ SendAppend(c, {MyEvent(c, "final")}, "answerwait")

ModelResponse(c) ==
    /\ At(c, {"answerwait"})
    /\ MyEvent(c, "final") \in history
    /\ Checkpoint(c, "model_response", proc[c].app, "responded")
    /\ UNCHANGED <<lease, todo, snap, external, faults>>

Complete(c) ==
    /\ At(c, {"responded"})
    /\ MarkTerminal(c, "completed")
    /\ UNCHANGED <<lease, todo, snap, external, faults>>

(* An automatic continuation: the successor is admitted and the            *)
(* predecessor completed in one transaction.                               *)
Handoff(c, n) ==
    LET t == MyTurn(c) IN
    /\ At(c, {"responded"})
    /\ row[n].status = "absent"
    /\ \A u \in 1 .. (n - 1) : row[u].status # "absent"
    /\ Owns(c, t)
    /\ ~row[t].cancel
    /\ row' = [row EXCEPT ![t].status = "completed", ![t].out = Out("terminal", "none"),
                          ![n].status = "queued"]
    /\ Goto(c, "releasing")
    /\ UNCHANGED <<lease, todo, snap, external, faults>>

BeginAbsorbUnfenced(c, u) ==
    /\ At(c, {"model", "absorbing"})
    /\ u # MyTurn(c)
    /\ row[u].status \in Claimable
    /\ \A v \in 1 .. (u - 1) : row[v].status \notin Claimable
    /\ row' = [row EXCEPT ![u] = [@ EXCEPT !.status = "absorbing", !.owner = c,
                                           !.token = proc[c].token,
                                           !.attempts = Attempt(row[u].attempts),
                                           !.out = Out("canonical_user_append", "none")]]
    /\ proc' = [proc EXCEPT ![c] = [@ EXCEPT !.batch = proc[c].batch \cup {u},
                                             !.pc = "absorbing"]]
    /\ UNCHANGED <<lease, todo, snap, external, faults>>

(* Pending requests join the running turn, in order, at a model boundary.  *)
BeginAbsorb(c, u) ==
    /\ At(c, {"model", "absorbing"})
    /\ u # MyTurn(c)
    /\ row[u].status \in Claimable
    /\ \A v \in 1 .. (u - 1) : row[v].status \notin Claimable
    /\ Current(c)
    /\ row' = [row EXCEPT ![u] = [@ EXCEPT !.status = "absorbing", !.owner = c,
                                           !.token = proc[c].token,
                                           !.attempts = Attempt(row[u].attempts),
                                           !.out = Out("canonical_user_append", "none")]]
    /\ proc' = [proc EXCEPT ![c] = [@ EXCEPT !.batch = proc[c].batch \cup {u},
                                             !.pc = "absorbing"]]
    /\ UNCHANGED <<lease, todo, snap, external, faults>>

(* The absorbed requests are persisted one by one: the request is          *)
(* checkpointed again, then the absorbing turn.                            *)
NextAbsorbed(c, u) == u \in proc[c].batch /\ \A v \in proc[c].batch : u <= v

AbsorbAppend(c, u) ==
    /\ At(c, {"absorbing", "absorbnext"})
    /\ NextAbsorbed(c, u)
    /\ Owns(c, u)
    /\ Checkpoint(c, "append_user", proc[c].app, "absorbsend")
    /\ UNCHANGED <<lease, todo, snap, external, faults>>

AbsorbedEvent(c, u) == [turn |-> u, kind |-> "absorbed", key |-> proc[c].token]

SendAbsorbed(c, u) ==
    /\ At(c, {"absorbsend"})
    /\ NextAbsorbed(c, u)
    /\ SendAppend(c, {AbsorbedEvent(c, u)}, "absorbwait")

MarkAbsorbed(c, u) ==
    /\ At(c, {"absorbwait"})
    /\ NextAbsorbed(c, u)
    /\ AbsorbedEvent(c, u) \in history
    /\ Owns(c, u)
    /\ row[u].status = "absorbing"
    /\ row' = [row EXCEPT ![u] = [@ EXCEPT !.status = "absorbed",
                                           !.out = Out("terminal", "none")]]
    /\ proc' = [proc EXCEPT ![c] = [@ EXCEPT !.batch = proc[c].batch \ {u},
                                             !.pc = IF proc[c].batch = {u} THEN "model"
                                                                           ELSE "absorbnext"]]
    /\ UNCHANGED <<lease, todo, snap, external, faults>>

-----------------------------------------------------------------------------
(* How an execution ends otherwise: _settle_durable_direct_turn, the       *)
(* handlers of _execute, the renewal and cancellation watchers.            *)

(* An exception in the agent loop: an emergency flush records the failure, *)
(* with an interrupted result for a call still open, as far as it can, and *)
(* the turn passes its model_response checkpoint like any other.           *)
StepFails(c) ==
    /\ At(c, LoopPc)
    /\ Checkpoint(c, IF proc[c].calls = {} THEN "append_notice" ELSE "append_tool",
                  proc[c].app, "flushing")
    /\ UNCHANGED <<lease, todo, snap, external, faults>>

Flush(c, done) ==
    /\ At(c, {"flushing"})
    /\ results' = IF done THEN results \cup proc[c].calls ELSE results
    /\ Checkpoint(c, "model_response", proc[c].app, "failing")
    /\ UNCHANGED <<lease, todo, snap, wire, history, issued, sent, faults>>

AlwaysCancelled(c) == "cancelled"

FailedOrCancelled(c) == IF row[MyTurn(c)].cancel THEN "cancelled" ELSE "failed"

SettleFailed(c) ==
    /\ At(c, TaskPc)
    /\ MarkTerminal(c, FailedOrCancelled(c))
    /\ UNCHANGED <<lease, todo, snap, external, faults>>

(* settle_transient_failure: retried with the reason noted, unless the     *)
(* attempts are used up or a cancellation is pending.  executor_unavailable *)
(* is retried without limit.                                               *)
SettleTransient(c, unavailable) ==
    LET r == row[MyTurn(c)] IN
    /\ At(c, TaskPc)
    /\ Fault("transient")
    /\ IF r.cancel \/ (r.attempts >= TransientMaxAttempts /\ ~unavailable)
       THEN MarkTerminal(c, FailedOrCancelled(c))
       ELSE End(c, "recoverable", [Out(proc[c].app, proc[c].app) EXCEPT !.note = TRUE])
    /\ UNCHANGED <<lease, todo, snap, external>>

(* An unexpected exception, such as a database error while settling.  The  *)
(* dispatch groups stay in the outcome when the append state is recorded.  *)
ControllerError(c) ==
    LET r == row[MyTurn(c)] IN
    /\ At(c, PreLaunchPc \cup RunPc)
    /\ Fault("controller")
    /\ IF r.attempts >= ControllerMaxAttempts THEN MarkTerminal(c, "failed")
       ELSE End(c, "recoverable",
                IF PriorAppend(r.out) = "none" THEN Out("controller_error", "none")
                ELSE [r.out EXCEPT !.phase = "controller_error"])
    /\ UNCHANGED <<lease, todo, snap, external>>

(* renew raises: ownership counts as lost although the lease is live.  The *)
(* turn task is cancelled, and once launched it settles as cancelled.      *)
RenewalError(c) ==
    /\ At(c, PreLaunchPc \cup RunPc)
    /\ Fault("renewal")
    /\ IF At(c, RunPc) THEN MarkTerminal(c, "cancelled")
       ELSE Goto(c, "releasing") /\ UNCHANGED row
    /\ UNCHANGED <<lease, todo, snap, external>>

(* _watch_cancellation sees the durable flag.                              *)
WatchCancellation(c) ==
    /\ At(c, PreLaunchPc \cup RunPc)
    /\ row[MyTurn(c)].cancel
    /\ Goto(c, "cancelling")
    /\ UNCHANGED <<row, lease, todo, snap, external, faults>>

SettleCancelled(c) ==
    /\ At(c, {"cancelling"})
    /\ MarkTerminal(c, "cancelled")
    /\ UNCHANGED <<lease, todo, snap, external, faults>>

(* Any fenced step that finds the fence lost, or a renewal that returns    *)
(* nothing: the execution stops without writing.                           *)
StaleExit(c) ==
    /\ At(c, ExecPc \cup ToolRecoveryPc)
    /\ \/ ~Owns(c, MyTurn(c))
       \/ \E u \in proc[c].batch : ~Owns(c, u)
    /\ Goto(c, "releasing")
    /\ UNCHANGED <<row, lease, todo, snap, external, faults>>

DrainSilently(c) ==
    /\ At(c, RunPc)
    /\ Fault("drain")
    /\ ~row[MyTurn(c)].cancel
    /\ EndAt(c, "recoverable", Out(proc[c].app, proc[c].app), "draining")
    /\ UNCHANGED <<lease, todo, snap, external>>

(* interrupt_active_turns_and_wait during a drain: the turn is handed back *)
(* with the reason noted, and the process goes away.                       *)
Drain(c) ==
    /\ At(c, RunPc)
    /\ Fault("drain")
    /\ ~row[MyTurn(c)].cancel
    /\ EndAt(c, "recoverable", [Out(proc[c].app, proc[c].app) EXCEPT !.note = TRUE], "draining")
    /\ UNCHANGED <<lease, todo, snap, external>>

(* runtime.stop cancels what the drain did not hand back in time: a turn   *)
(* not yet launched, or one the sweep had to skip.                         *)
Stop(c) ==
    /\ At(c, PreLaunchPc \cup RunPc)
    /\ Fault("stop")
    /\ EndAt(c, "cancelled", Out("terminal", "none"), "draining")
    /\ UNCHANGED <<lease, todo, snap, external>>

-----------------------------------------------------------------------------
(* The environment.                                                        *)

Boot(c) ==
    /\ At(c, {"off"})
    /\ Peers \/ \A d \in Controller : At(d, {"off", "down"})
    /\ Goto(c, "idle")
    /\ UNCHANGED <<row, lease, todo, snap, external, faults>>

Crash(c) ==
    /\ ~At(c, {"off", "down"})
    /\ Fault("crash")
    /\ proc' = [proc EXCEPT ![c] = [Idle EXCEPT !.pc = "down"]]
    /\ todo' = [todo EXCEPT ![c] = {}]
    /\ snap' = [snap EXCEPT ![c] = NoRow]
    /\ UNCHANGED <<row, lease, external>>

(* A lease whose holder is gone runs out; one whose holder is alive does   *)
(* so only when renewal fails in time, which counts as a fault.            *)
Held == \E c \in Controller : Current(c) /\ ~At(c, {"off", "down", "idle", "recovering"})

Expire ==
    /\ lease.live
    /\ IF Held THEN Fault("expire") ELSE UNCHANGED faults
    /\ lease' = [lease EXCEPT !.live = FALSE]
    /\ UNCHANGED <<row, proc, todo, snap, external>>

Land(w) ==
    /\ w \in wire
    /\ wire' = wire \ {w}
    /\ history' = history \cup {w}
    /\ UNCHANGED <<row, lease, proc, todo, snap, tools, faults>>

Drop(w) ==
    /\ w \in wire
    /\ Fault("drop")
    /\ wire' = wire \ {w}
    /\ UNCHANGED <<row, lease, proc, todo, snap, history, tools>>

-----------------------------------------------------------------------------

Recovery(c) ==
    \/ ListStale(c) \/ AcquireForRecovery(c) \/ SkipStale(c)
    \/ CancelStaleActive(c) \/ BeginToolRecovery(c)
    \/ \E k \in Call : SettleToolCall(c, k)
    \/ \E status \in {"failed", "ambiguous"} : ToolRecoveryFails(c, status)
    \/ ClearToolDispatch(c) \/ FinishToolRecovery(c)
    \/ LeaveQuarantined(c) \/ Reconcile(c) \/ ReconcileFails(c) \/ RecoverStale(c)

Claiming(c) ==
    \/ \E t \in Turn : AcquireForClaim(c, t)
    \/ Claim(c) \/ Release(c)

Starting(c) ==
    \/ FirstCheckpoint(c) \/ PayloadError(c) \/ ReconcileOwnAppend(c)
    \/ ReconcileOwnAppendFails(c) \/ LocalBusy(c) \/ Launch(c) \/ BeginUserAppend(c)
    \/ SendUserAppend(c) \/ UserAppended(c) \/ MarkRunning(c) \/ ModelWait(c)

Running(c) ==
    \/ \E k \in Call : CallTool(c, k)
    \/ RecordToolDispatch(c) \/ BindToolDispatch(c) \/ SendTool(c) \/ ToolReturns(c)
    \/ CompleteToolDispatch(c)
    \/ \E l \in {"interim", "answer"} : BeginAssistant(c, l)
    \/ SendInterim(c) \/ InterimAppended(c) \/ SendAnswer(c) \/ ModelResponse(c)
    \/ Complete(c)
    \/ \E n \in Turn : Handoff(c, n)
    \/ \E u \in Turn :
          BeginAbsorb(c, u) \/ AbsorbAppend(c, u) \/ SendAbsorbed(c, u) \/ MarkAbsorbed(c, u)

Ending(c) ==
    \/ StepFails(c)
    \/ \E done \in BOOLEAN : Flush(c, done)
    \/ SettleFailed(c) \/ ControllerError(c) \/ RenewalError(c)
    \/ \E unavailable \in BOOLEAN : SettleTransient(c, unavailable)
    \/ WatchCancellation(c) \/ SettleCancelled(c) \/ StaleExit(c) \/ Drain(c)
    \/ Stop(c)

Step(c) == Recovery(c) \/ Claiming(c) \/ Starting(c) \/ Running(c) \/ Ending(c)

Requests ==
    \/ \E t \in Turn : Admit(t) \/ RequestCancel(t) \/ ResolveStaleToolAmbiguous(t)
    \/ CancelConversation

Environment ==
    \/ \E c \in Controller : Boot(c) \/ Crash(c)
    \/ Expire
    \/ \E w \in wire : Land(w) \/ Drop(w)

Next == Requests \/ Environment \/ \E c \in Controller : Step(c)

Spec == Init /\ [][Next]_vars

-----------------------------------------------------------------------------
(* Type correctness of the rows, the lease and the processes.              *)
Proc == [pc : Pc, turn : Turn, token : 0 .. MaxToken, app : AppendPhase \cup {"none"},
         warned : BOOLEAN, found : {"none", "yes", "no", "error"},
         batch : SUBSET Turn, calls : SUBSET Call]

TypeOK ==
    /\ row \in [Turn -> Row]
    /\ lease \in [owner : Controller \cup {"none", "operator"}, token : 0 .. MaxToken,
                  live : BOOLEAN]
    /\ proc \in [Controller -> Proc]
    /\ todo \in [Controller -> SUBSET [turn : Turn, row : Row]]
    /\ snap \in [Controller -> Row]
    /\ wire \subseteq Event
    /\ history \subseteq Event
    /\ issued \in [Call -> [turn : Turn \cup {0}, token : 0 .. MaxToken]]
    /\ sent \subseteq Call
    /\ results \subseteq Call
    /\ faults \in 0 .. MaxFaults

-----------------------------------------------------------------------------
(* Safety.                                                                 *)

(* A turn is executed only at the head of its conversation: while a row is *)
(* claimed or running, every earlier request is settled for good.  claim   *)
(* tests this once; nothing that follows may reopen an earlier request.    *)
HeadOnly ==
    \A t \in Turn : row[t].status \in {"claimed", "running"} =>
        \A u \in 1 .. (t - 1) : row[u].status \in Terminal

(* While a controller's lease is live, what it is executing, recovering or *)
(* absorbing is still its own: no recovery pass, cancellation, operator or *)
(* handoff takes or ends a row under a live fence.  This is what entitles  *)
(* _execute to treat a failed fenced write as a lost lease.                *)
FenceHolds ==
    \A c \in Controller : At(c, ExecPc \cup ToolRecoveryPc) /\ Current(c) =>
        /\ Owns(c, MyTurn(c))
        /\ \A u \in proc[c].batch : Owns(c, u) /\ row[u].status = "absorbing"

(* A settled row is never written again by a late execution, recovery pass *)
(* or cancellation.                                                        *)
SettledForGood ==
    [][\A t \in Turn : row[t].status \in Terminal => row'[t] = row[t]]_vars

(* Crashes, retries, recovery and absorption never put the message of one  *)
(* request into the conversation twice, be it as its own turn or inside    *)
(* another one.                                                            *)
MessageOnce ==
    \A e, f \in history :
        /\ e.turn = f.turn
        /\ {e.kind, f.kind} \subseteq {"own", "absorbed"}
        => e = f

(* Where the model of a later attempt takes decisions.                     *)
ModelPc == LoopPc \cup {"responded"}

Unsettled(c) == {k \in sent \ results :
                    issued[k].turn = MyTurn(c) /\ issued[k].token < proc[c].token}

(* After crashes, lost leases and failed recoveries, a later attempt runs  *)
(* the model only when every tool call an earlier attempt handed to an     *)
(* executor has a result in the canonical history.                         *)
ToolCallsSettled ==
    \A c \in Controller : At(c, ModelPc) /\ Owns(c, MyTurn(c)) => Unsettled(c) = {}

(* A later attempt never runs the model blindly: a call without a result   *)
(* is possible only if the model is told of the interruption (the          *)
(* interruption_reason of a drained turn).                                 *)
NoBlindRerun ==
    \A c \in Controller : At(c, ModelPc) /\ Owns(c, MyTurn(c)) =>
        Unsettled(c) = {} \/ proc[c].warned

(* What a settled row says is in the canonical history: a completed turn   *)
(* has assistant output; an absorbed request has its message there and was *)
(* not answered on its own as well.                                        *)
Output(t) == {e \in history : e.turn = t /\ e.kind \in {"interim", "final"}}
Message(t) == {e \in history : e.turn = t /\ e.kind \in {"own", "absorbed"}}

SettledIsCanonical ==
    \A t \in Turn :
        /\ row[t].status = "completed" => Output(t) # {}
        /\ row[t].status = "absorbed" => Message(t) # {} /\ Output(t) = {}

(* A turn ends as cancelled only when somebody asked for it.               *)
CancelledWasRequested ==
    \A t \in Turn : row[t].status = "cancelled" => row[t].cancel

-----------------------------------------------------------------------------
(* The conversation seen from outside.                                     *)
StageOf(status) ==
    CASE status = "absent" -> "absent"
      [] status \in Claimable -> "waiting"
      [] status \in {"claimed", "running"} -> "executing"
      [] status = "absorbing" -> "merging"
      [] OTHER -> "over"

Fifo == INSTANCE ConversationFifo WITH stage <- [t \in Turn |-> StageOf(row[t].status)]

(* However claims, recovery, absorption, cancellation and handoff of       *)
(* several controllers interleave and fail, the conversation behaves as    *)
(* one first-in-first-out queue that executes a single turn at a time.     *)
ImplementsFifo == Fifo!Spec

-----------------------------------------------------------------------------
(* Liveness.  A live controller's loop is woken every                      *)
(* DIRECT_TURN_RECOVERY_INTERVAL_SECONDS and its tasks run on (WF of its   *)
(* steps); a stopped controller is replaced (WF of Boot); a lease nobody   *)
(* renews runs out by the database clock; a request on the wire ends.      *)
Orphaned == ~Held /\ Expire
Lands == \E w \in wire : Land(w)

FairSpec ==
    /\ Spec
    /\ \A c \in Controller : WF_vars(Step(c)) /\ WF_vars(Boot(c))
    /\ WF_vars(Orphaned)
    /\ WF_vars(Lands)

(* Every admitted turn is settled in the end, whatever crashed on the way  *)
(* and whoever was first in the queue, unless the bounded supply of fences *)
(* of the instance is used up first.                                       *)
EventuallySettled ==
    \A t \in Turn : row[t].status \in Nonterminal ~>
        (row[t].status \in Terminal \/ lease.token = MaxToken)

-----------------------------------------------------------------------------
(* Claims of docs, comments and tests that the code does not keep.         *)

(* A turn whose final answer is canonical is not run again.                *)
NoRerunAfterAnswer ==
    \A c \in Controller : At(c, ModelPc) /\ Owns(c, MyTurn(c)) =>
        \A e \in history : e.turn = MyTurn(c) /\ e.kind = "final" => e.key = proc[c].token

(* When the history cannot be read, recovery settles the request, so that  *)
(* it does not keep later requests from being claimed.                     *)
FailedReconciliationIsolated ==
    [][\A c \in Controller :
          At(c, {"decided"}) /\ proc[c].found = "error" /\ proc'[c].pc = "releasing" =>
              row'[MyTurn(c)].status \notin Active \/ row'[MyTurn(c)].cancel]_vars

=============================================================================
