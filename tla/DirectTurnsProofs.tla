------------------------- MODULE DirectTurnsProofs --------------------------
(***************************************************************************)
(* What holds of DirectTurns for any number of controllers, turns and tool *)
(* calls, any faults and any bounds: type correctness, the safety          *)
(* properties of the queue and of the fence, and that it implements        *)
(* ConversationFifo.                                                       *)
(*                                                                         *)
(* Steps are classified by what they do to a controller (Work, Leave) and  *)
(* to the rows (RowStep); the inductive invariant IInv is proved once per  *)
(* class.  Then every step is shown to be of one of the classes: those of  *)
(* an execution first, then recovery, claiming and the environment.        *)
(***************************************************************************)
EXTENDS DirectTurns, TLAPS

(* More time for a leaf than the provers have by default, and more tries. *)
USE SMTT(30), ZenonT(30), SMTT(40), SMTT(50)

Busy == ExecPc \cup ToolRecoveryPc
Done == {"releasing", "draining"}

(* Every request before an admitted one is admitted.                       *)
Ordered ==
    \A t \in Turn : row[t].status # "absent" =>
        \A u \in 1 .. (t - 1) : row[u].status # "absent"

(* What recovery listed was active.                                        *)
ListedAt(c) ==
    /\ \A s \in todo[c] : s.row.status \in Active
    /\ At(c, {"held", "decided"}) => snap[c].status \in Active

Listed == \A c \in Controller : ListedAt(c)

(* A controller absorbs other requests than its own, and only while it     *)
(* executes.                                                               *)
BatchedAt(c) ==
    /\ proc[c].turn \notin proc[c].batch
    /\ ~At(c, Busy \cup Done) => proc[c].batch = {}

Batched == \A c \in Controller : BatchedAt(c)

(* FenceHolds for one controller, and what it executes was claimed.        *)
Fenced(c) ==
    At(c, Busy) /\ Current(c) =>
        /\ Owns(c, MyTurn(c))
        /\ \A u \in proc[c].batch : Owns(c, u) /\ row[u].status = "absorbing"
        /\ At(c, ExecPc) => row[MyTurn(c)].status \in {"claimed", "running"}

AllFenced == \A c \in Controller : Fenced(c)

IInv == TypeOK /\ Ordered /\ HeadOnly /\ Listed /\ Batched /\ AllFenced

-----------------------------------------------------------------------------
(* What a step does to a row, to all rows, and to the controller.          *)

Same(t) ==
    /\ row'[t].status = row[t].status
    /\ row'[t].owner = row[t].owner
    /\ row'[t].token = row[t].token
    /\ row[t].status \in Terminal => row'[t] = row[t]

RowsKept == \A t \in Turn : Same(t)
OnlyRow(t) == \A u \in Turn \ {t} : row'[u] = row[u]

Ends(t) == row[t].status \in Active /\ row'[t].status \in Terminal \cup {"recoverable"}
Drops(t) == row[t].status \in Claimable /\ row'[t].status = "cancelled"
Enters(t) ==
    /\ row[t].status = "absent" /\ row'[t].status = "queued"
    /\ \A u \in 1 .. (t - 1) : row[u].status # "absent"
Starts(t) == row[t].status \in Claimable /\ row'[t].status = "claimed" /\ IsHead(t)
Runs(t) == row[t].status = "claimed" /\ row'[t].status = "running"
Joins(t) ==
    /\ row[t].status \in Claimable /\ row'[t].status = "absorbing"
    /\ \A u \in 1 .. (t - 1) : row[u].status \notin Claimable
    /\ \E u \in 1 .. (t - 1) : row[u].status \in {"claimed", "running"}

Changes(t) == Ends(t) \/ Drops(t) \/ Enters(t) \/ Starts(t) \/ Runs(t) \/ Joins(t)

Retaken(t) == row[t].status \in Active /\ row'[t].status = row[t].status

RowStep ==
    \/ \A t \in Turn : Same(t) \/ Drops(t)
    \/ \E t \in Turn : Retaken(t) /\ OnlyRow(t)
    \/ \E t \in Turn : Changes(t) /\ OnlyRow(t)
    \/ \E t, n \in Turn : /\ t # n
                          /\ row[t].status \in {"claimed", "running"} /\ Ends(t)
                          /\ row'[t].status \in Terminal
                          /\ Enters(n)
                          /\ \A u \in Turn \ {t, n} : row'[u] = row[u]

MovesOnly(c) == \A d \in Controller \ {c} : proc'[d] = proc[d]
SameTurn(c) ==
    /\ proc'[c].turn = proc[c].turn
    /\ proc'[c].token = proc[c].token
    /\ proc'[c].batch = proc[c].batch

(* The controller goes on with the turn it has.                            *)
Work(c) ==
    /\ At(c, Busy) /\ proc'[c].pc \in Busy
    /\ proc'[c].pc \in ExecPc => At(c, ExecPc)
    /\ SameTurn(c) /\ MovesOnly(c) /\ RowsKept
    /\ UNCHANGED <<lease, todo, snap>>

(* The controller is done with it, and may have ended the row.             *)
Leave(c) ==
    /\ proc'[c].pc \in Done
    /\ SameTurn(c) /\ MovesOnly(c)
    /\ row' = row \/ (Current(c) /\ Ends(MyTurn(c)) /\ OnlyRow(MyTurn(c)))
    /\ UNCHANGED <<lease, todo, snap>>

RestOK ==
    /\ wire \subseteq Event
    /\ history \subseteq Event
    /\ issued \in [Call -> [turn : Turn \cup {0}, token : 0 .. MaxToken]]
    /\ sent \subseteq Call
    /\ results \subseteq Call
    /\ faults \in 0 .. MaxFaults

-----------------------------------------------------------------------------
(* Facts about the constants of the model.                                 *)

(* The labels a controller may be at, and which of them are disjoint.      *)
LEMMA PcFacts ==
    /\ ExecPc \subseteq Busy /\ Busy \subseteq Pc /\ Done \subseteq Pc /\ Done \cap Busy = {}
    /\ {"off", "down", "idle", "recovering", "held", "decided", "acquired"}
            \subseteq Pc \ (Busy \cup Done)
    /\ PreLaunchPc \cup RunPc \cup {"cancelling"} \subseteq ExecPc
    /\ TaskPc \cup LoopPc \cup {"flushing"} \subseteq RunPc
    /\ ToolRecoveryPc \subseteq Busy
BY DEF Busy, Done, Pc, ExecPc, RunPc, TaskPc, LoopPc, PreLaunchPc, ToolRecoveryPc

(* The status sets of the store are disjoint.                              *)
LEMMA StatusFacts ==
    /\ Status = Active \cup Terminal \cup Claimable \cup {"absent"}
    /\ Nonterminal = Active \cup Claimable
    /\ Active \cap Terminal = {} /\ Claimable \cap Terminal = {} /\ Active \cap Claimable = {}
    /\ "absent" \notin Active \cup Terminal \cup Claimable
    /\ {"claimed", "running", "absorbing"} = Active /\ {"queued", "recoverable"} = Claimable
    /\ {"completed", "failed", "cancelled", "absorbed", "ambiguous"} = Terminal
BY DEF Status, Active, Terminal, Claimable, Nonterminal

(* The outcome documents the store writes are well formed.                 *)
LEMMA OutType ==
    ASSUME NEW p \in Phase, NEW a \in AppendPhase \cup {"none"}, NEW j \in SUBSET Call
    PROVE  /\ Out(p, a) \in Outcome
           /\ [Out(p, a) EXCEPT !.note = TRUE] \in Outcome
           /\ [Out(p, a) EXCEPT !.journal = j] \in Outcome
BY ZenonT(40) DEF Out, Outcome

(* AppendPhase values are phases.                                          *)
LEMMA PhaseFacts ==
    /\ AppendPhase \cup {"none"} \subseteq Phase
    /\ IntarisAppend \subseteq Phase
    /\ {"claimed", "model_wait", "tool_in_flight", "tool_result_persisted",
        "tool_recovery_result_persisted", "model_response", "canonical_user_append",
        "recovered_pre_model", "recovered_model_boundary", "recovered_uncommitted_absorb",
        "local_turn_busy", "controller_error", "terminal"} \subseteq Phase
    /\ {"user_append_pending", "user_append_uncertain", "user_appended"} = AppendPhase
    /\ {"append_tool", "append_assistant", "append_user", "append_notice"} = IntarisAppend
BY DEF Phase, AppendPhase, IntarisAppend

(* A checkpoint writes a well-formed outcome.                              *)
LEMMA CheckpointedType ==
    ASSUME NEW o \in Outcome, NEW p \in Phase, NEW a \in AppendPhase \cup {"none"}
    PROVE  Checkpointed(o, p, a) \in Outcome
<1>1. o.journal \in SUBSET Call /\ "tool_in_flight" \in Phase
  BY PhaseFacts DEF Outcome
<1> QED
  BY ZenonT(40), <1>1, OutType DEF Checkpointed

-----------------------------------------------------------------------------
(* Writing one row, one outcome, one controller.                           *)

(* One row is replaced.                                                    *)
LEMMA PutRow ==
    ASSUME TypeOK, NEW t \in Turn, NEW r \in Row, row' = [row EXCEPT ![t] = r]
    PROVE  row' \in [Turn -> Row] /\ row'[t] = r /\ OnlyRow(t)
BY DEF TypeOK, OnlyRow

(* The outcome of an active row is replaced.                               *)
LEMMA PutOut ==
    ASSUME TypeOK, NEW t \in Turn, NEW o \in Outcome, row[t].status \in Active,
           row' = [row EXCEPT ![t].out = o]
    PROVE  row' \in [Turn -> Row] /\ RowsKept
<1>1. row[t] \in Row
  BY DEF TypeOK
<1> DEFINE r == [row[t] EXCEPT !.out = o]
<1>2. r \in Row /\ r.status = row[t].status /\ r.owner = row[t].owner /\ r.token = row[t].token
  BY <1>1 DEF Row
<1>3. row' = [row EXCEPT ![t] = r]
  OBVIOUS
<1> HIDE DEF r
<1>4. row' \in [Turn -> Row] /\ row'[t] = r /\ OnlyRow(t)
  BY ZenonT(40), <1>2, <1>3, PutRow
<1> QED
  BY <1>2, <1>4, StatusFacts DEF RowsKept, Same, OnlyRow

(* One controller moves.                                                   *)
LEMMA PutProc ==
    ASSUME TypeOK, NEW c \in Controller, NEW p \in Proc, proc' = [proc EXCEPT ![c] = p]
    PROVE  proc' \in [Controller -> Proc] /\ proc'[c] = p /\ MovesOnly(c)
BY DEF TypeOK, MovesOnly

(* One controller moves to another label and keeps the rest.               *)
LEMMA GotoType ==
    ASSUME TypeOK, NEW c \in Controller, NEW l \in Pc, Goto(c, l)
    PROVE  /\ proc' \in [Controller -> Proc]
           /\ proc'[c].pc = l
           /\ SameTurn(c)
           /\ MovesOnly(c)
<1>1. proc[c] \in Proc
  BY DEF TypeOK
<1> DEFINE p == [proc[c] EXCEPT !.pc = l]
<1>2. /\ p \in Proc /\ p.pc = l
      /\ p.turn = proc[c].turn /\ p.token = proc[c].token /\ p.batch = proc[c].batch
  BY <1>1 DEF Proc
<1>3. proc' = [proc EXCEPT ![c] = p]
  BY DEF Goto
<1> HIDE DEF p
<1> QED
  BY ZenonT(40), <1>2, <1>3, PutProc DEF SameTurn

(* A controller's new state that keeps the turn, the fence and the batch.  *)
Moved(q, p, l) ==
    /\ p \in Proc /\ p.pc = l
    /\ p.turn = q.turn /\ p.token = q.token /\ p.batch = q.batch

(* The fields steps change together with the label are not the turn.       *)
LEMMA ProcMoves ==
    ASSUME NEW q \in Proc, NEW l \in Pc, NEW a \in AppendPhase \cup {"none"},
           NEW k \in SUBSET Call, NEW w \in BOOLEAN, NEW f \in {"none", "yes", "no", "error"}
    PROVE  /\ Moved(q, [q EXCEPT !.pc = l], l)
           /\ Moved(q, [q EXCEPT !.app = a, !.pc = l], l)
           /\ Moved(q, [q EXCEPT !.calls = k, !.pc = l], l)
           /\ Moved(q, [q EXCEPT !.pc = l, !.calls = k], l)
           /\ Moved(q, [q EXCEPT !.pc = l, !.found = f], l)
           /\ Moved(q, [q EXCEPT !.pc = l, !.app = a, !.warned = w], l)
BY ZenonT(40) DEF Moved, Proc

(* A move, for the whole function.                                         *)
LEMMA PutMoved ==
    ASSUME TypeOK, NEW c \in Controller, NEW l, NEW p, Moved(proc[c], p, l),
           proc' = [proc EXCEPT ![c] = p]
    PROVE  /\ proc' \in [Controller -> Proc]
           /\ proc'[c].pc = l
           /\ SameTurn(c)
           /\ MovesOnly(c)
BY ZenonT(40), PutProc DEF Moved, SameTurn

-----------------------------------------------------------------------------
(* The fenced updates every execution step is built from.                  *)

(* A checkpoint of the fence is work on the turn.                          *)
LEMMA CheckpointWork ==
    ASSUME TypeOK, NEW c \in Controller, NEW p \in Phase, NEW a \in AppendPhase \cup {"none"},
           NEW l \in ExecPc, At(c, ExecPc), Checkpoint(c, p, a, l),
           UNCHANGED <<lease, todo, snap>>
    PROVE  row' \in [Turn -> Row] /\ proc' \in [Controller -> Proc] /\ Work(c)
<1> DEFINE t == MyTurn(c)
           o == Checkpointed(row[t].out, p, a)
           pc == IF row[t].cancel THEN "cancelling" ELSE l
           q == [proc[c] EXCEPT !.app = a, !.pc = pc]
<1>1. proc[c] \in Proc /\ t \in Turn /\ row[t] \in Row
  BY DEF TypeOK, Proc, MyTurn
<1>2. o \in Outcome /\ pc \in ExecPc
  BY <1>1, CheckpointedType, PcFacts DEF Row
<1>3. /\ row[t].status \in Active
      /\ row' = [row EXCEPT ![t].out = o]
      /\ proc' = [proc EXCEPT ![c] = q]
  BY DEF Checkpoint, Owns
<1>4. Moved(proc[c], q, pc)
  BY ZenonT(40), <1>1, <1>2, ProcMoves, PcFacts
<1> HIDE DEF t, o, pc, q
<1>5. row' \in [Turn -> Row] /\ RowsKept
  BY ZenonT(40), <1>1, <1>2, <1>3, PutOut
<1>6. proc' \in [Controller -> Proc] /\ proc'[c].pc = pc /\ SameTurn(c) /\ MovesOnly(c)
  BY ZenonT(40), <1>3, <1>4, PutMoved
<1> QED
  BY <1>2, <1>5, <1>6, PcFacts DEF Work, At

(* A turn that is ended, or handed back, is left.                          *)
LEMMA EndLeave ==
    ASSUME TypeOK, NEW c \in Controller, NEW status \in Terminal \cup {"recoverable"},
           NEW o \in Outcome, NEW l \in Done, EndAt(c, status, o, l),
           UNCHANGED <<lease, todo, snap>>
    PROVE  row' \in [Turn -> Row] /\ proc' \in [Controller -> Proc] /\ Leave(c)
<1> DEFINE t == MyTurn(c)
           r == [row[t] EXCEPT !.status = status, !.out = o,
                               !.owner = IF status = "recoverable" THEN "none" ELSE row[t].owner]
<1>1. t \in Turn /\ row[t] \in Row
  BY DEF TypeOK, Proc, MyTurn
<1>2. r \in Row /\ r.status = status
  <2>1. status \in Status /\ row[t].owner \in Controller \cup {"none", "operator"}
    BY <1>1, StatusFacts DEF Row
  <2> HIDE DEF t
  <2> QED
    BY ZenonT(40), <1>1, <2>1 DEF Row
<1>3. /\ row[t].status \in Active /\ Current(c)
      /\ row' = [row EXCEPT ![t] = r]
      /\ Goto(c, l)
  BY DEF EndAt, Owns
<1> HIDE DEF r
<1>4. row' \in [Turn -> Row] /\ row'[t] = r /\ OnlyRow(t)
  BY ZenonT(40), <1>1, <1>2, <1>3, PutRow
<1>5. proc' \in [Controller -> Proc] /\ proc'[c].pc = l /\ SameTurn(c) /\ MovesOnly(c)
  BY <1>3, GotoType, PcFacts
<1> QED
  BY <1>2, <1>3, <1>4, <1>5 DEF Leave, Ends

-----------------------------------------------------------------------------
(* One proof per class of steps.                                           *)

(* A step on the rows keeps the queue in order and settled rows settled.   *)
LEMMA RowsInv ==
    ASSUME TypeOK, Ordered, HeadOnly, RowStep
    PROVE  /\ Ordered' /\ HeadOnly'
           /\ \A t \in Turn : row[t].status \in Terminal => row'[t] = row[t]
<1>1. \A t \in Turn : Same(t) \/ Changes(t) \/ Retaken(t)
  BY DEF RowStep, OnlyRow, Same, Changes
<1>2. \A t \in Turn : \A u \in 1 .. (t - 1) : u \in Turn
  BY TurnAssumption DEF Turn
<1>3. \A t \in Turn : row[t].status \in Terminal => row'[t] = row[t]
  BY <1>1, StatusFacts
     DEF Same, Retaken, Changes, Ends, Drops, Enters, Starts, Runs, Joins
<1>4. \A t \in Turn : row[t].status # "absent" => row'[t].status # "absent"
  BY <1>1, StatusFacts
     DEF Same, Retaken, Changes, Ends, Drops, Enters, Starts, Runs, Joins
<1>5. \A t \in Turn : row'[t].status # "absent" =>
          row[t].status # "absent" \/ \A u \in 1 .. (t - 1) : row[u].status # "absent"
  BY <1>1 DEF Same, Retaken, Changes, Ends, Drops, Enters, Starts, Runs, Joins, Active, Claimable
<1>6. Ordered'
  BY <1>2, <1>4, <1>5 DEF Ordered
<1>7. \A t \in Turn : row'[t].status \in {"claimed", "running"} =>
          row[t].status \in {"claimed", "running"} \/ (row[t].status \in Claimable /\ IsHead(t))
  BY <1>1, StatusFacts DEF Same, Retaken, Changes, Ends, Drops, Enters, Starts, Runs, Joins
<1>8. \A t \in Turn : row[t].status \in Claimable /\ IsHead(t) =>
          \A u \in 1 .. (t - 1) : row[u].status \in Terminal
  BY <1>2, StatusFacts DEF TypeOK, Row, Ordered, IsHead
<1>9. HeadOnly'
  BY <1>2, <1>3, <1>7, <1>8 DEF HeadOnly
<1> QED
  BY <1>3, <1>6, <1>9

(* A controller keeps what it owns through the steps of others.            *)
LEMMA OtherFenced ==
    ASSUME TypeOK, NEW d \in Controller, Fenced(d), proc'[d] = proc[d],
           \/ lease' = lease /\ \A t \in Turn : Same(t) \/ row[t].status \notin Active
           \/ lease'.owner # d
           \/ ~lease'.live
           \/ ~Current(d) /\ lease' = lease
    PROVE  Fenced(d)'
<1>1. MyTurn(d) \in Turn /\ proc[d].batch \subseteq Turn
  BY DEF TypeOK, Proc, MyTurn
<1>2. ASSUME lease'.owner # d \/ ~lease'.live \/ (~Current(d) /\ lease' = lease)
      PROVE  ~Current(d)'
  BY <1>2 DEF Current
<1>3. CASE lease' = lease /\ \A t \in Turn : Same(t) \/ row[t].status \notin Active
  <2>1. SUFFICES ASSUME At(d, Busy)', Current(d)'
                 PROVE  /\ Owns(d, MyTurn(d))'
                        /\ \A u \in proc'[d].batch : Owns(d, u)' /\ row'[u].status = "absorbing"
                        /\ At(d, ExecPc)' => row'[MyTurn(d)'].status \in {"claimed", "running"}
    BY DEF Fenced
  <2>2. At(d, Busy) /\ Current(d)
    BY <1>3, <2>1 DEF At, Current
  <2> QED
    BY <1>1, <1>3, <2>1, <2>2 DEF Fenced, Owns, Same, At, MyTurn
<1> QED
  BY <1>2, <1>3 DEF Fenced

(* Working on a turn keeps the invariant.                                  *)
LEMMA WorkInv ==
    ASSUME IInv, TypeOK', NEW c \in Controller, Work(c)
    PROVE  IInv' /\ RowStep
<1>1. RowStep
  BY DEF Work, RowsKept, RowStep
<1>2. Ordered' /\ HeadOnly'
  BY <1>1, RowsInv DEF IInv
<1>3. \A d \in Controller \ {c} : Fenced(d)'
  BY OtherFenced DEF IInv, AllFenced, Work, MovesOnly, RowsKept
<1>4. Fenced(c)'
  <2>1. MyTurn(c) \in Turn /\ proc[c].batch \subseteq Turn
    BY DEF IInv, TypeOK, Proc, MyTurn
  <2> QED
    BY <2>1 DEF IInv, AllFenced, Fenced, Work, SameTurn, RowsKept, Same, At, Current, Owns, MyTurn
<1>5. Listed'
  <2>1. ~At(c, {"held", "decided"})'
    BY PcFacts DEF Work, At
  <2> QED
    BY <2>1 DEF IInv, Listed, ListedAt, Work, MovesOnly, At
<1>6. Batched'
  BY DEF IInv, Batched, BatchedAt, Work, MovesOnly, SameTurn, At
<1> QED
  BY <1>1, <1>2, <1>3, <1>4, <1>5, <1>6 DEF IInv, AllFenced

(* Leaving a turn keeps the invariant.                                     *)
LEMMA LeaveInv ==
    ASSUME IInv, TypeOK', NEW c \in Controller, Leave(c)
    PROVE  IInv' /\ RowStep
<1>1. MyTurn(c) \in Turn
  BY DEF IInv, TypeOK, Proc, MyTurn
<1>2. RowStep
  BY <1>1 DEF Leave, RowStep, Same, Changes
<1>3. Ordered' /\ HeadOnly'
  BY <1>2, RowsInv DEF IInv
<1>4. ASSUME NEW d \in Controller \ {c} PROVE Fenced(d)'
  <2>1. Fenced(d) /\ proc'[d] = proc[d] /\ lease' = lease
    BY DEF IInv, AllFenced, Leave, MovesOnly
  <2>2. row' = row \/ Current(c)
    BY DEF Leave
  <2>3. Current(c) => ~Current(d)
    BY DEF Current
  <2>4. row' = row => \A t \in Turn : Same(t)
    BY DEF Same
  <2> QED
    BY <2>1, <2>2, <2>3, <2>4, OtherFenced DEF IInv
<1>5. ~At(c, Busy)' /\ ~At(c, {"held", "decided"})' /\ At(c, Busy \cup Done)'
  BY PcFacts DEF Leave, At
<1>6. Fenced(c)'
  BY <1>5 DEF Fenced
<1>7. Listed'
  BY <1>5 DEF IInv, Listed, ListedAt, Leave, MovesOnly, At
<1>8. Batched'
  BY <1>5 DEF IInv, Batched, BatchedAt, Leave, MovesOnly, SameTurn, At
<1> QED
  BY <1>2, <1>3, <1>4, <1>6, <1>7, <1>8 DEF IInv, AllFenced

(* What a step that changes only rows and controllers must show.           *)
LEMMA TypeFrame ==
    ASSUME TypeOK, row' \in [Turn -> Row], proc' \in [Controller -> Proc],
           UNCHANGED <<lease, todo, snap>>, RestOK'
    PROVE  TypeOK'
BY DEF TypeOK, RestOK

(* Most steps leave the history and the tools alone.                       *)
LEMMA RestSame ==
    ASSUME TypeOK, UNCHANGED external, UNCHANGED faults \/ \E kind \in AllFaults : Fault(kind)
    PROVE  RestOK'
<1>1. faults' \in 0 .. MaxFaults
  BY TurnAssumption DEF TypeOK, Fault
<1> QED
  BY <1>1 DEF TypeOK, RestOK, external

(* A checkpoint step keeps the invariant.                                  *)
LEMMA CheckpointInv ==
    ASSUME IInv, NEW c \in Controller, NEW p \in Phase, NEW a \in AppendPhase \cup {"none"},
           NEW l \in ExecPc, At(c, ExecPc), Checkpoint(c, p, a, l),
           UNCHANGED <<lease, todo, snap>>, RestOK'
    PROVE  IInv' /\ RowStep
<1>1. row' \in [Turn -> Row] /\ proc' \in [Controller -> Proc] /\ Work(c)
  BY CheckpointWork DEF IInv
<1> QED
  BY <1>1, TypeFrame, WorkInv DEF IInv

(* So does a step that ends the turn or hands it back.                     *)
LEMMA EndInv ==
    ASSUME IInv, NEW c \in Controller, NEW status \in Terminal \cup {"recoverable"},
           NEW o \in Outcome, NEW l \in Done, EndAt(c, status, o, l),
           UNCHANGED <<lease, todo, snap>>, RestOK'
    PROVE  IInv' /\ RowStep
<1>1. row' \in [Turn -> Row] /\ proc' \in [Controller -> Proc] /\ Leave(c)
  BY EndLeave DEF IInv
<1> QED
  BY <1>1, TypeFrame, LeaveInv DEF IInv

(* So does a step that writes no row and stays with the turn.              *)
LEMMA GotoInv ==
    ASSUME IInv, NEW c \in Controller, NEW l \in ExecPc, At(c, ExecPc), Goto(c, l),
           UNCHANGED <<row, lease, todo, snap>>, RestOK'
    PROVE  IInv' /\ RowStep
<1>1. /\ proc' \in [Controller -> Proc] /\ proc'[c].pc = l
      /\ SameTurn(c) /\ MovesOnly(c)
  BY GotoType, PcFacts DEF IInv
<1>2. RowsKept
  BY DEF RowsKept, Same
<1>3. Work(c)
  BY <1>1, <1>2, PcFacts DEF Work, At
<1> QED
  BY ZenonT(40), <1>1, <1>3, TypeFrame, WorkInv DEF IInv, TypeOK

(* So does a step that writes no row and gives the turn up.                *)
LEMMA GiveUpInv ==
    ASSUME IInv, NEW c \in Controller, NEW l \in Done, Goto(c, l),
           UNCHANGED <<row, lease, todo, snap>>, RestOK'
    PROVE  IInv' /\ RowStep
<1>1. /\ proc' \in [Controller -> Proc] /\ proc'[c].pc = l
      /\ SameTurn(c) /\ MovesOnly(c)
  BY GotoType, PcFacts DEF IInv
<1>2. Leave(c)
  BY <1>1 DEF Leave
<1> QED
  BY ZenonT(40), <1>1, <1>2, TypeFrame, LeaveInv DEF IInv, TypeOK

(* So does a step that rewrites the outcome of the turn under the fence.   *)
LEMMA OutcomeInv ==
    ASSUME IInv, NEW c \in Controller, NEW o \in Outcome, NEW q, NEW l \in Busy,
           At(c, Busy), l \in ExecPc => At(c, ExecPc),
           Owns(c, MyTurn(c)), row' = [row EXCEPT ![MyTurn(c)].out = o],
           Moved(proc[c], q, l), proc' = [proc EXCEPT ![c] = q],
           UNCHANGED <<lease, todo, snap>>, RestOK'
    PROVE  IInv' /\ RowStep
<1>1. MyTurn(c) \in Turn /\ row[MyTurn(c)].status \in Active
  BY DEF IInv, TypeOK, Proc, MyTurn, Owns
<1>2. row' \in [Turn -> Row] /\ RowsKept
  BY ZenonT(40), <1>1, PutOut DEF IInv
<1>3. proc' \in [Controller -> Proc] /\ proc'[c].pc = l /\ SameTurn(c) /\ MovesOnly(c)
  BY ZenonT(40), PutMoved DEF IInv
<1>4. Work(c)
  BY <1>2, <1>3 DEF Work, At
<1> QED
  BY <1>2, <1>3, <1>4, TypeFrame, WorkInv DEF IInv

(* So does a stale update: a row replaced under a newer fence.             *)
LEMMA StaleInv ==
    ASSUME IInv, NEW c \in Controller, NEW r \in Row, Current(c),
           row[MyTurn(c)].status \in Active, r.status \in Terminal \cup {"recoverable"},
           row' = [row EXCEPT ![MyTurn(c)] = r], Goto(c, "releasing"),
           UNCHANGED <<lease, todo, snap>>, RestOK'
    PROVE  IInv' /\ RowStep
<1>1. MyTurn(c) \in Turn
  BY DEF IInv, TypeOK, Proc, MyTurn
<1>2. row' \in [Turn -> Row] /\ row'[MyTurn(c)] = r /\ OnlyRow(MyTurn(c))
  BY ZenonT(40), <1>1, PutRow DEF IInv
<1>3. "releasing" \in Done
  BY DEF Done
<1>4. /\ proc' \in [Controller -> Proc] /\ proc'[c].pc = "releasing"
      /\ SameTurn(c) /\ MovesOnly(c)
  BY <1>3, GotoType, PcFacts DEF IInv
<1>5. Leave(c)
  BY <1>2, <1>3, <1>4 DEF Leave, Ends
<1> QED
  BY <1>2, <1>4, <1>5, TypeFrame, LeaveInv DEF IInv

(* For the steps of a controller that are of no class: what is left to     *)
(* show is about that controller and about the rows.                       *)
LEMMA Assemble ==
    ASSUME IInv, TypeOK', RowStep, NEW c \in Controller, MovesOnly(c),
           \A d \in Controller \ {c} : todo'[d] = todo[d] /\ snap'[d] = snap[d],
           \/ lease' = lease /\ (Current(c) \/ \A t \in Turn : Same(t))
           \/ lease'.owner = c
           \/ ~lease'.live,
           Fenced(c)', ListedAt(c)', BatchedAt(c)'
    PROVE  IInv' /\ RowStep
<1>1. Ordered' /\ HeadOnly'
  BY RowsInv DEF IInv
<1>2. ASSUME NEW d \in Controller \ {c}
      PROVE  Fenced(d)' /\ ListedAt(d)' /\ BatchedAt(d)'
  <2>1. proc'[d] = proc[d] /\ Fenced(d) /\ ListedAt(d) /\ BatchedAt(d)
    BY ZenonT(40) DEF MovesOnly, IInv, AllFenced, Listed, Batched
  <2>2. Current(c) => ~Current(d)
    BY DEF Current
  <2>3. Fenced(d)'
    BY <2>1, <2>2, OtherFenced DEF IInv
  <2> QED
    BY ZenonT(40), <2>1, <2>3 DEF ListedAt, BatchedAt, At
<1> QED
  BY <1>1, <1>2 DEF IInv, AllFenced, Listed, Batched

(* What a controller knows is well formed.                                 *)
LEMMA ProcFacts ==
    ASSUME TypeOK, NEW c \in Controller
    PROVE  /\ proc[c] \in Proc /\ proc[c].pc \in Pc /\ MyTurn(c) \in Turn
           /\ proc[c].token \in 0 .. MaxToken
           /\ proc[c].app \in AppendPhase \cup {"none"} /\ proc[c].app \in Phase
           /\ proc[c].calls \subseteq Call /\ proc[c].batch \subseteq Turn
           /\ row[MyTurn(c)] \in Row /\ row[MyTurn(c)].out \in Outcome
           /\ row[MyTurn(c)].cancel \in BOOLEAN
           /\ snap[c] \in Row /\ snap[c].out \in Outcome
BY PhaseFacts DEF TypeOK, Proc, MyTurn, Row

(* The outcomes steps write are outcomes.                                  *)
LEMMA OutcomeFacts ==
    /\ Out("terminal", "none") \in Outcome
    /\ Out("controller_error", "none") \in Outcome
    /\ \A o \in Outcome : /\ [o EXCEPT !.phase = "controller_error"] \in Outcome
                          /\ [o EXCEPT !.phase = "user_append_uncertain"] \in Outcome
                          /\ [o EXCEPT !.phase = "local_turn_busy"] \in Outcome
<1>1. Out("terminal", "none") \in Outcome /\ Out("controller_error", "none") \in Outcome
  BY ZenonT(40), OutType, PhaseFacts
<1>2. \A o \in Outcome, p \in Phase : [o EXCEPT !.phase = p] \in Outcome
  BY DEF Outcome
<1> QED
  BY <1>1, <1>2, PhaseFacts

(* attempt_count stays in range.                                           *)
LEMMA AttemptType ==
    ASSUME NEW n \in 0 .. AttemptCap
    PROVE  Attempt(n) \in 0 .. AttemptCap
BY TurnAssumption DEF AttemptCap, Attempt

(* A step of a controller that has no turn afterwards and writes no row.   *)
LEMMA CalmInv ==
    ASSUME IInv, TypeOK', NEW c \in Controller, MovesOnly(c), row' = row,
           \A d \in Controller \ {c} : todo'[d] = todo[d] /\ snap'[d] = snap[d],
           lease' = lease \/ lease'.owner = c \/ ~lease'.live,
           proc'[c].pc \notin Busy, proc'[c].batch = {}, ListedAt(c)'
    PROVE  IInv' /\ RowStep
<1>1. \A t \in Turn : Same(t)
  BY DEF Same
<1>2. RowStep
  BY <1>1 DEF RowStep
<1>3. Fenced(c)' /\ BatchedAt(c)'
  BY DEF Fenced, BatchedAt, At
<1> QED
  BY <1>1, <1>2, <1>3, Assemble

(* A step outside the controllers.                                         *)
LEMMA OutsideInv ==
    ASSUME IInv, TypeOK', RowStep, UNCHANGED <<proc, todo, snap>>,
           \/ lease' = lease /\ \A t \in Turn : Same(t) \/ row[t].status \notin Active
           \/ ~lease'.live
    PROVE  IInv' /\ RowStep
<1>1. Ordered' /\ HeadOnly'
  BY RowsInv DEF IInv
<1>2. ASSUME NEW d \in Controller PROVE Fenced(d)'
  BY OtherFenced DEF IInv, AllFenced
<1>3. Listed' /\ Batched'
  BY DEF IInv, Listed, ListedAt, Batched, BatchedAt, At
<1> QED
  BY <1>1, <1>2, <1>3 DEF IInv, AllFenced

(* A controller without work.                                              *)
LEMMA IdleType ==
    ASSUME NEW l \in Pc
    PROVE  LET q == [Idle EXCEPT !.pc = l] IN q \in Proc /\ q.pc = l /\ q.batch = {} /\ q.turn = 1
<1>1. 1 \in Turn /\ 0 \in 0 .. MaxToken
  BY TurnAssumption DEF Turn
<1>2. "idle" \in Pc
  BY PcFacts
<1>3. Idle \in Proc /\ Idle.batch = {} /\ Idle.turn = 1
  BY <1>1, <1>2 DEF Idle, Proc
<1>4. ASSUME NEW p \in Proc
      PROVE  LET q == [p EXCEPT !.pc = l]
             IN  q \in Proc /\ q.pc = l /\ q.batch = p.batch /\ q.turn = p.turn
  BY DEF Proc
<1> QED
  BY <1>3, <1>4

(* A row not yet admitted is a row.                                        *)
LEMMA NoRowType == NoRow \in Row /\ NoRow.status = "absent"
<1>1. Out("none", "none") \in Outcome /\ "absent" \in Status
  BY ZenonT(40), OutType, PhaseFacts, StatusFacts
<1>2. 0 \in 0 .. AttemptCap /\ 0 \in 0 .. MaxToken
  BY TurnAssumption DEF AttemptCap
<1> QED
  BY <1>1, <1>2 DEF NoRow, Row

-----------------------------------------------------------------------------
(* The steps of a controller that executes a turn.                         *)

(* How an execution ends, by failure, cancellation, drain or a lost lease. *)
LEMMA EndingInv ==
    ASSUME IInv, NEW c \in Controller, Ending(c)
    PROVE  IInv' /\ RowStep
<1> DEFINE o == row[MyTurn(c)].out
           a == proc[c].app
<1>1. TypeOK
  BY DEF IInv
<1>2. /\ a \in AppendPhase \cup {"none"} /\ a \in Phase /\ o \in Outcome
      /\ proc[c].calls \subseteq Call
  BY <1>1, ProcFacts
<1>3. "releasing" \in Done /\ "draining" \in Done /\ LoopPc \subseteq ExecPc
      /\ {"flushing", "failing", "cancelling"} \subseteq ExecPc
      /\ {"failed", "cancelled"} \subseteq Terminal
  BY PcFacts, StatusFacts DEF Done, ExecPc, RunPc, TaskPc
<1>4. AllFaults = {"crash", "expire", "transient", "controller", "renewal", "reconcile",
                   "recovery", "busy", "drain", "stop", "drop"}
  BY DEF AllFaults
<1>5. FailedOrCancelled(c) \in Terminal
  BY <1>3 DEF FailedOrCancelled
<1>6. [Out(a, a) EXCEPT !.note = TRUE] \in Outcome
  BY ZenonT(40), <1>2, OutType
<1>7. CASE StepFails(c)
  <2>1. RestOK' /\ UNCHANGED <<lease, todo, snap>> /\ At(c, ExecPc)
    BY <1>1, <1>3, <1>7, RestSame DEF StepFails, At
  <2>2. CASE proc[c].calls = {}
    <3>1. Checkpoint(c, "append_notice", a, "flushing")
      BY <1>7, <2>2 DEF StepFails
    <3> QED
      BY ZenonT(40), <1>2, <1>3, <2>1, <3>1, CheckpointInv, PhaseFacts
  <2>3. CASE proc[c].calls # {}
    <3>1. Checkpoint(c, "append_tool", a, "flushing")
      BY <1>7, <2>3 DEF StepFails
    <3> QED
      BY <1>2, <1>3, <2>1, <3>1, CheckpointInv, PhaseFacts
  <2> QED
    BY <2>2, <2>3
<1>8. ASSUME NEW done \in BOOLEAN, Flush(c, done)
      PROVE  IInv' /\ RowStep
  <2>1. RestOK'
    BY ZenonT(40), <1>1, <1>2, <1>8 DEF Flush, RestOK, TypeOK
  <2>2. At(c, ExecPc)
    BY ZenonT(40), <1>3, <1>8 DEF Flush, At
  <2> QED
    BY <1>2, <1>3, <1>8, <2>1, <2>2, CheckpointInv, PhaseFacts DEF Flush
<1>9. CASE SettleFailed(c)
  BY <1>1, <1>3, <1>5, <1>9, RestSame, OutcomeFacts, EndInv DEF SettleFailed, MarkTerminal, End
<1>10. CASE ControllerError(c)
  <2>1. RestOK' /\ UNCHANGED <<lease, todo, snap>>
    BY <1>1, <1>4, <1>10, RestSame DEF ControllerError
  <2>2. \/ EndAt(c, "failed", Out("terminal", "none"), "releasing")
        \/ EndAt(c, "recoverable", Out("controller_error", "none"), "releasing")
        \/ EndAt(c, "recoverable", [o EXCEPT !.phase = "controller_error"], "releasing")
    BY <1>10 DEF ControllerError, MarkTerminal, End
  <2>3. [o EXCEPT !.phase = "controller_error"] \in Outcome
    BY ZenonT(40), <1>2, OutcomeFacts
  <2> HIDE DEF o
  <2> QED
    BY <1>3, <2>1, <2>2, <2>3, OutcomeFacts, EndInv
<1>11. CASE RenewalError(c)
  <2>1. RestOK' /\ UNCHANGED <<lease, todo, snap>>
    BY <1>1, <1>4, <1>11, RestSame DEF RenewalError
  <2>2. \/ EndAt(c, "cancelled", Out("terminal", "none"), "releasing")
        \/ Goto(c, "releasing") /\ UNCHANGED row
    BY <1>11 DEF RenewalError, MarkTerminal, End
  <2> QED
    BY <1>3, <2>1, <2>2, OutcomeFacts, EndInv, GiveUpInv
<1>12. ASSUME NEW unavailable \in BOOLEAN, SettleTransient(c, unavailable)
       PROVE  IInv' /\ RowStep
  <2>1. RestOK' /\ UNCHANGED <<lease, todo, snap>>
    BY <1>1, <1>4, <1>12, RestSame DEF SettleTransient
  <2>2. \/ EndAt(c, FailedOrCancelled(c), Out("terminal", "none"), "releasing")
        \/ EndAt(c, "recoverable", [Out(a, a) EXCEPT !.note = TRUE], "releasing")
    BY <1>12 DEF SettleTransient, MarkTerminal, End
  <2> QED
    BY <1>3, <1>5, <1>6, <2>1, <2>2, OutcomeFacts, EndInv
<1>13. CASE WatchCancellation(c)
  <2>1. At(c, ExecPc)
    BY <1>13 DEF WatchCancellation, At, ExecPc
  <2> QED
    BY <1>1, <1>3, <1>13, <2>1, RestSame, GotoInv DEF WatchCancellation
<1>14. CASE SettleCancelled(c)
  BY <1>1, <1>3, <1>14, RestSame, OutcomeFacts, EndInv DEF SettleCancelled, MarkTerminal, End
<1>15. CASE StaleExit(c)
  BY ZenonT(40), <1>1, <1>3, <1>15, RestSame, GiveUpInv DEF StaleExit
<1>16. CASE Drain(c)
  BY <1>1, <1>3, <1>4, <1>6, <1>16, RestSame, EndInv DEF Drain
<1>17. CASE Stop(c)
  BY <1>1, <1>3, <1>4, <1>17, RestSame, OutcomeFacts, EndInv DEF Stop
<1> QED
  BY <1>7, <1>8, <1>9, <1>10, <1>11, <1>12, <1>13, <1>14, <1>15, <1>16, <1>17 DEF Ending

(* mark_running.                                                           *)
LEMMA MarkRunningInv ==
    ASSUME IInv, NEW c \in Controller, MarkRunning(c)
    PROVE  IInv' /\ RowStep
<1> DEFINE t == MyTurn(c)
           r == [row[t] EXCEPT !.status = "running"]
<1>1. TypeOK /\ RestOK' /\ UNCHANGED <<lease, todo, snap>>
  BY RestSame DEF IInv, MarkRunning
<1>2. t \in Turn /\ row[t] \in Row /\ proc[c].batch \subseteq Turn
  BY <1>1, ProcFacts
<1>3. /\ At(c, {"appended"}) /\ Owns(c, t) /\ row[t].status = "claimed"
      /\ row' = [row EXCEPT ![t] = r] /\ Goto(c, "running")
  BY DEF MarkRunning
<1>4. /\ r \in Row /\ r.status = "running" /\ r.owner = row[t].owner /\ r.token = row[t].token
  BY <1>2, StatusFacts DEF Row
<1>5. {"appended", "running"} \subseteq ExecPc
  BY DEF ExecPc, RunPc, TaskPc
<1> HIDE DEF r
<1>6. row' \in [Turn -> Row] /\ row'[t] = r /\ OnlyRow(t)
  BY ZenonT(40), <1>1, <1>2, <1>3, <1>4, PutRow
<1>7. /\ proc' \in [Controller -> Proc] /\ proc'[c].pc = "running"
      /\ SameTurn(c) /\ MovesOnly(c)
  BY <1>1, <1>3, <1>5, GotoType, PcFacts
<1>8. TypeOK'
  BY <1>1, <1>6, <1>7, TypeFrame
<1>9. RowStep
  BY ZenonT(40), <1>2, <1>3, <1>4, <1>6 DEF RowStep, Changes, Runs
<1>10. Current(c) /\ Fenced(c) /\ BatchedAt(c) /\ ListedAt(c)
  BY <1>3 DEF Owns, IInv, AllFenced, Batched, Listed
<1>11. \A u \in proc[c].batch : Owns(c, u) /\ row[u].status = "absorbing" /\ row'[u] = row[u]
  BY ZenonT(40), <1>2, <1>3, <1>5, <1>6, <1>10, PcFacts DEF Fenced, At, OnlyRow
<1>12. Fenced(c)'
  <2>1. MyTurn(c)' = t /\ proc'[c].batch = proc[c].batch
    BY <1>7 DEF SameTurn, MyTurn
  <2>2. row'[t].status = "running" /\ row'[t].status \in Active
        /\ row'[t].owner = c /\ row'[t].token = proc'[c].token /\ Current(c)'
    BY <1>1, <1>3, <1>4, <1>6, <1>7, StatusFacts DEF Owns, Current, SameTurn
  <2>3. \A u \in proc[c].batch : Owns(c, u)' /\ row'[u].status = "absorbing"
    BY ZenonT(40), <1>1, <1>7, <1>11 DEF Owns, Current, SameTurn
  <2>4. Owns(c, MyTurn(c))' /\ row'[MyTurn(c)'].status = "running"
    BY ZenonT(40), <2>1, <2>2 DEF Owns
  <2> QED  BY ZenonT(40), <2>1, <2>3, <2>4 DEF Fenced
<1>13. BatchedAt(c)' /\ ListedAt(c)'
  BY <1>1, <1>5, <1>7, <1>10, PcFacts DEF BatchedAt, ListedAt, SameTurn, At
<1> QED
  BY <1>1, <1>7, <1>8, <1>9, <1>10, <1>12, <1>13, Assemble

(* begin_absorb: a waiting request joins the turn that executes before it. *)
LEMMA BeginAbsorbInv ==
    ASSUME IInv, NEW c \in Controller, NEW u \in Turn, BeginAbsorb(c, u)
    PROVE  IInv' /\ RowStep
<1> DEFINE t == MyTurn(c)
           r == [row[u] EXCEPT !.status = "absorbing", !.owner = c, !.token = proc[c].token,
                               !.attempts = Attempt(row[u].attempts),
                               !.out = Out("canonical_user_append", "none")]
           q == [proc[c] EXCEPT !.batch = proc[c].batch \cup {u}, !.pc = "absorbing"]
<1>1. TypeOK /\ RestOK' /\ UNCHANGED <<lease, todo, snap>>
  BY RestSame DEF IInv, BeginAbsorb
<1>2. /\ t \in Turn /\ proc[c] \in Proc /\ proc[c].batch \subseteq Turn
      /\ row[u] \in Row /\ proc[c].token \in 0 .. MaxToken
  BY ZenonT(40), <1>1, ProcFacts DEF TypeOK
<1>3. /\ At(c, {"model", "absorbing"}) /\ u # t /\ row[u].status \in Claimable
      /\ \A v \in 1 .. (u - 1) : row[v].status \notin Claimable
      /\ Current(c)
      /\ row' = [row EXCEPT ![u] = r] /\ proc' = [proc EXCEPT ![c] = q]
  BY DEF BeginAbsorb
<1>4. {"model", "absorbing"} \subseteq ExecPc
  BY DEF ExecPc, RunPc, LoopPc
<1>5. r \in Row /\ r.status = "absorbing" /\ r.owner = c /\ r.token = proc[c].token
  <2>1. row[u].attempts \in 0 .. AttemptCap
    BY <1>2 DEF Row
  <2>2. Attempt(row[u].attempts) \in 0 .. AttemptCap /\ "absorbing" \in Status
        /\ Out("canonical_user_append", "none") \in Outcome
    BY ZenonT(40), <2>1, AttemptType, OutType, PhaseFacts, StatusFacts
  <2> QED
    BY ZenonT(40), <1>2, <2>2 DEF Row
<1>6. /\ q \in Proc /\ q.pc = "absorbing" /\ q.turn = t /\ q.token = proc[c].token
      /\ q.batch = proc[c].batch \cup {u}
  BY ZenonT(40), <1>2, <1>4, PcFacts DEF Proc, MyTurn
<1> HIDE DEF r, q
<1>7. row' \in [Turn -> Row] /\ row'[u] = r /\ OnlyRow(u)
  BY ZenonT(40), <1>1, <1>3, <1>5, PutRow
<1>8. proc' \in [Controller -> Proc] /\ proc'[c] = q /\ MovesOnly(c)
  BY ZenonT(40), <1>1, <1>3, <1>6, PutProc
<1>9. TypeOK'
  BY <1>1, <1>7, <1>8, TypeFrame
<1>10. /\ Owns(c, t) /\ row[t].status \in {"claimed", "running"}
       /\ \A v \in proc[c].batch : Owns(c, v) /\ row[v].status = "absorbing"
  BY ZenonT(40), <1>3, <1>4, PcFacts DEF IInv, AllFenced, Fenced, At
<1>11. t \in 1 .. (u - 1)
  <2>1. u \notin 1 .. (t - 1)
    BY ZenonT(40), <1>2, <1>3, <1>10, StatusFacts DEF IInv, HeadOnly
  <2> QED
    BY <1>2, <1>3, <2>1, TurnAssumption DEF Turn
<1>12. RowStep
  BY ZenonT(40), <1>3, <1>5, <1>7, <1>10, <1>11 DEF RowStep, Changes, Joins
<1>13. Fenced(c)'
  <2>1. Current(c)' /\ MyTurn(c)' = t
    BY ZenonT(40), <1>1, <1>3, <1>6, <1>8 DEF Current, MyTurn
  <2>2. Owns(c, t)' /\ row'[t].status \in {"claimed", "running"}
    BY <1>2, <1>3, <1>6, <1>7, <1>8, <1>10, <2>1 DEF Owns, OnlyRow
  <2>3. Owns(c, u)' /\ row'[u].status = "absorbing"
    BY ZenonT(40), <1>5, <1>6, <1>7, <1>8, <2>1, StatusFacts DEF Owns
  <2>4. \A v \in proc[c].batch \ {u} : Owns(c, v)' /\ row'[v].status = "absorbing"
    BY ZenonT(40), <1>2, <1>6, <1>7, <1>8, <1>10, <2>1 DEF Owns, OnlyRow
  <2> QED
    BY ZenonT(40), <1>6, <1>8, <2>1, <2>2, <2>3, <2>4 DEF Fenced
<1>14. BatchedAt(c) /\ ListedAt(c)
  BY DEF IInv, Batched, Listed
<1>15. BatchedAt(c)' /\ ListedAt(c)'
  BY ZenonT(40), <1>1, <1>3, <1>4, <1>6, <1>8, <1>14, PcFacts DEF BatchedAt, ListedAt, At, MyTurn
<1> QED
  BY ZenonT(40), <1>1, <1>3, <1>8, <1>9, <1>12, <1>13, <1>15, Assemble

(* mark_absorbed: the request ends inside the turn that absorbed it.       *)
LEMMA MarkAbsorbedInv ==
    ASSUME IInv, NEW c \in Controller, NEW u \in Turn, MarkAbsorbed(c, u)
    PROVE  IInv' /\ RowStep
<1> DEFINE t == MyTurn(c)
           r == [row[u] EXCEPT !.status = "absorbed", !.out = Out("terminal", "none")]
           pc == IF proc[c].batch = {u} THEN "model" ELSE "absorbnext"
           q == [proc[c] EXCEPT !.batch = proc[c].batch \ {u}, !.pc = pc]
<1>1. TypeOK /\ RestOK' /\ UNCHANGED <<lease, todo, snap>>
  BY RestSame DEF IInv, MarkAbsorbed
<1>2. t \in Turn /\ proc[c] \in Proc /\ proc[c].batch \subseteq Turn /\ row[u] \in Row
  BY ZenonT(40), <1>1, ProcFacts DEF TypeOK
<1>3. /\ At(c, {"absorbwait"}) /\ u \in proc[c].batch /\ Owns(c, u)
      /\ row' = [row EXCEPT ![u] = r] /\ proc' = [proc EXCEPT ![c] = q]
  BY DEF MarkAbsorbed, NextAbsorbed
<1>4. {"absorbwait", "model", "absorbnext"} \subseteq ExecPc
  BY DEF ExecPc, RunPc, LoopPc
<1>5. r \in Row /\ r.status = "absorbed"
  BY ZenonT(40), <1>2, OutcomeFacts, StatusFacts DEF Row
<1>6. /\ q \in Proc /\ q.pc = pc /\ q.turn = t /\ q.token = proc[c].token
      /\ q.batch = proc[c].batch \ {u} /\ pc \in ExecPc
  BY ZenonT(40), <1>2, <1>4, PcFacts DEF Proc, MyTurn
<1> HIDE DEF r, q, pc
<1>7. row' \in [Turn -> Row] /\ row'[u] = r /\ OnlyRow(u)
  BY ZenonT(40), <1>1, <1>3, <1>5, PutRow
<1>8. proc' \in [Controller -> Proc] /\ proc'[c] = q /\ MovesOnly(c)
  BY ZenonT(40), <1>1, <1>3, <1>6, PutProc
<1>9. TypeOK'
  BY <1>1, <1>7, <1>8, TypeFrame
<1>10. Current(c) /\ BatchedAt(c) /\ ListedAt(c)
  BY <1>3 DEF Owns, IInv, Batched, Listed
<1>11. /\ Owns(c, t) /\ row[t].status \in {"claimed", "running"}
       /\ \A v \in proc[c].batch : Owns(c, v) /\ row[v].status = "absorbing"
  BY ZenonT(40), <1>3, <1>4, <1>10, PcFacts DEF IInv, AllFenced, Fenced, At
<1>12. u # t
  BY <1>3, <1>10 DEF BatchedAt, MyTurn
<1>13. RowStep
  BY ZenonT(40), <1>3, <1>5, <1>7, StatusFacts DEF RowStep, Changes, Ends, Owns
<1>14. Fenced(c)'
  BY ZenonT(40), <1>1, <1>2, <1>6, <1>7, <1>8, <1>10, <1>11, <1>12
     DEF Fenced, Owns, Current, OnlyRow, MyTurn
<1>15. BatchedAt(c)' /\ ListedAt(c)'
  BY ZenonT(40), <1>1, <1>6, <1>8, <1>10, PcFacts DEF BatchedAt, ListedAt, At, MyTurn
<1> QED
  BY ZenonT(40), <1>1, <1>8, <1>9, <1>10, <1>13, <1>14, <1>15, Assemble

(* handoff: the successor is admitted as the predecessor completes.        *)
LEMMA HandoffInv ==
    ASSUME IInv, NEW c \in Controller, NEW n \in Turn, Handoff(c, n)
    PROVE  IInv' /\ RowStep
<1> DEFINE t == MyTurn(c)
           r == [row[t] EXCEPT !.status = "completed", !.out = Out("terminal", "none")]
           m == [row[n] EXCEPT !.status = "queued"]
<1>1. TypeOK /\ RestOK' /\ UNCHANGED <<lease, todo, snap>>
  BY RestSame DEF IInv, Handoff
<1>2. t \in Turn /\ row[t] \in Row /\ row[n] \in Row
  BY ZenonT(40), <1>1, ProcFacts DEF TypeOK
<1>3. /\ At(c, {"responded"}) /\ row[n].status = "absent"
      /\ \A u \in 1 .. (n - 1) : row[u].status # "absent"
      /\ Owns(c, t) /\ Goto(c, "releasing")
  BY DEF Handoff
<1>4. t # n
  BY <1>3, StatusFacts DEF Owns
<1>5. row'[t] = r /\ row'[n] = m /\ row' = [row EXCEPT ![t] = r, ![n] = m]
  BY ZenonT(40), <1>1, <1>2, <1>4 DEF Handoff, TypeOK
<1>6. r \in Row /\ r.status = "completed" /\ m \in Row /\ m.status = "queued"
  BY ZenonT(40), <1>2, OutcomeFacts, StatusFacts DEF Row
<1> HIDE DEF r, m
<1>7. row' \in [Turn -> Row] /\ \A u \in Turn \ {t, n} : row'[u] = row[u]
  BY <1>1, <1>2, <1>5, <1>6 DEF TypeOK
<1>8. /\ proc' \in [Controller -> Proc] /\ proc'[c].pc = "releasing"
      /\ SameTurn(c) /\ MovesOnly(c)
  BY ZenonT(40), <1>1, <1>3, GotoType, PcFacts DEF Done
<1>9. TypeOK'
  BY <1>1, <1>7, <1>8, TypeFrame
<1>10. Current(c) /\ BatchedAt(c) /\ ListedAt(c)
  BY <1>3 DEF Owns, IInv, Batched, Listed
<1>11. "responded" \in ExecPc /\ "responded" \in Busy
  BY PcFacts DEF ExecPc, RunPc, TaskPc
<1>12. row[t].status \in {"claimed", "running"}
  BY <1>3, <1>10, <1>11 DEF IInv, AllFenced, Fenced, At
<1>13. RowStep
  BY <1>2, <1>3, <1>4, <1>5, <1>6, <1>7, <1>12, StatusFacts DEF RowStep, Ends, Enters
<1>14. ~At(c, Busy)' /\ ~At(c, {"held", "decided"})' /\ At(c, Busy \cup Done)'
  BY <1>8, PcFacts DEF At, Done
<1>15. Fenced(c)' /\ BatchedAt(c)' /\ ListedAt(c)'
  BY ZenonT(40), <1>1, <1>8, <1>10, <1>14 DEF Fenced, BatchedAt, ListedAt, SameTurn
<1> QED
  BY ZenonT(40), <1>1, <1>8, <1>9, <1>10, <1>13, <1>15, Assemble

(* From the claim to the first call of the model.                          *)
LEMMA StartingInv ==
    ASSUME IInv, NEW c \in Controller, Starting(c)
    PROVE  IInv' /\ RowStep
<1> DEFINE t == MyTurn(c)
           o == row[t].out
           a == proc[c].app
<1>1. TypeOK
  BY DEF IInv
<1>2. /\ a \in AppendPhase \cup {"none"} /\ a \in Phase /\ o \in Outcome /\ proc[c] \in Proc
      /\ t \in Turn /\ o.phase \in Phase /\ o.note \in BOOLEAN
  BY ZenonT(40), <1>1, ProcFacts DEF Outcome
<1>3. /\ {"start", "reconcile", "launch", "uncertain", "append", "appending", "appended",
          "running", "model", "cancelling"} \subseteq ExecPc
      /\ "releasing" \in Done /\ "failed" \in Terminal
  BY StatusFacts DEF Done, ExecPc, PreLaunchPc, RunPc, TaskPc, LoopPc
<1>4. {"reconcile", "busy"} \subseteq AllFaults
  BY DEF AllFaults
<1>5. CASE FirstCheckpoint(c)
  <2> DEFINE n == IF a = "none" THEN Checkpointed(o, "claimed", "none")
                  ELSE [Checkpointed(o, o.phase, a) EXCEPT !.note = o.note]
             l == IF row[t].cancel THEN "cancelling"
                  ELSE IF a = "user_append_uncertain" THEN "reconcile" ELSE "launch"
             q == [proc[c] EXCEPT !.pc = l]
  <2>1. n \in Outcome
    <3>1. /\ Checkpointed(o, "claimed", "none") \in Outcome
          /\ Checkpointed(o, o.phase, a) \in Outcome
      BY <1>2, CheckpointedType, PhaseFacts
    <3>2. ASSUME NEW x \in Outcome PROVE [x EXCEPT !.note = o.note] \in Outcome
      BY <1>2 DEF Outcome
    <3> QED
      BY <3>1, <3>2
  <2>2. l \in ExecPc /\ l \in Busy /\ At(c, ExecPc) /\ At(c, Busy)
    BY <1>3, <1>5, PcFacts DEF FirstCheckpoint, At
  <2>3. Moved(proc[c], q, l)
    BY ZenonT(40), <1>2, <2>2, ProcMoves, PcFacts
  <2>4. /\ Owns(c, MyTurn(c)) /\ row' = [row EXCEPT ![MyTurn(c)].out = n]
        /\ proc' = [proc EXCEPT ![c] = q] /\ UNCHANGED <<lease, todo, snap>> /\ RestOK'
    BY <1>1, <1>5, RestSame DEF FirstCheckpoint, Goto
  <2> HIDE DEF n, l, q
  <2> QED
    BY ZenonT(40), <2>1, <2>2, <2>3, <2>4, OutcomeInv
<1>6. CASE PayloadError(c)
  BY <1>1, <1>3, <1>6, RestSame, OutcomeFacts, EndInv DEF PayloadError, MarkTerminal, End
<1>7. CASE ReconcileOwnAppend(c)
  <2> DEFINE p == IF Reconciled(t, "user_append_uncertain")
                  THEN "user_appended" ELSE "user_append_pending"
             n == Checkpointed(o, p, p)
             q == [proc[c] EXCEPT !.app = p, !.pc = "launch"]
  <2>1. p \in AppendPhase /\ p \in Phase
    BY PhaseFacts
  <2>2. n \in Outcome
    BY <1>2, <2>1, CheckpointedType
  <2>3. Moved(proc[c], q, "launch")
    BY ZenonT(40), <1>2, <1>3, <2>1, ProcMoves, PcFacts
  <2>4. /\ Owns(c, MyTurn(c)) /\ row' = [row EXCEPT ![MyTurn(c)].out = n]
        /\ proc' = [proc EXCEPT ![c] = q] /\ UNCHANGED <<lease, todo, snap>> /\ RestOK'
    BY <1>1, <1>7, RestSame DEF ReconcileOwnAppend
  <2>5. "launch" \in Busy /\ At(c, ExecPc) /\ At(c, Busy)
    BY <1>3, <1>7, PcFacts DEF ReconcileOwnAppend, At
  <2> HIDE DEF n, q
  <2> QED
    BY ZenonT(40), <2>2, <2>3, <2>4, <2>5, OutcomeInv
<1>8. CASE ReconcileOwnAppendFails(c)
  BY ZenonT(40), <1>1, <1>2, <1>3, <1>4, <1>8, RestSame, OutcomeFacts, EndInv
     DEF ReconcileOwnAppendFails, End
<1>9. CASE LocalBusy(c)
  BY ZenonT(40), <1>1, <1>2, <1>3, <1>4, <1>9, RestSame, OutcomeFacts, EndInv DEF LocalBusy, End
<1>10. CASE Launch(c)
  <2>1. UNCHANGED <<lease, todo, snap>> /\ RestOK' /\ At(c, ExecPc)
    BY <1>1, <1>3, <1>10, RestSame DEF Launch, At
  <2>2. CASE Resumes(c)
    <3> DEFINE q == [proc[c] EXCEPT !.app = "user_appended", !.pc = "model"]
    <3>1. Moved(proc[c], q, "model")
      BY ZenonT(40), <1>2, <1>3, ProcMoves, PcFacts, PhaseFacts
    <3>2. proc' = [proc EXCEPT ![c] = q] /\ UNCHANGED row
      BY <1>10, <2>2 DEF Launch
    <3> HIDE DEF q
    <3>3. proc' \in [Controller -> Proc] /\ proc'[c].pc = "model" /\ SameTurn(c) /\ MovesOnly(c)
      BY ZenonT(40), <1>1, <3>1, <3>2, PutMoved
    <3>4. Work(c)
      BY ZenonT(40), <1>3, <2>1, <3>2, <3>3, PcFacts DEF Work, At, RowsKept, Same
    <3> QED
      BY ZenonT(40), <1>1, <2>1, <3>2, <3>3, <3>4, TypeFrame, WorkInv DEF TypeOK
  <2>3. CASE ~Resumes(c)
    BY <1>3, <1>10, <2>1, <2>3, CheckpointInv, PhaseFacts DEF Launch
  <2> QED
    BY <2>2, <2>3
<1>11. CASE BeginUserAppend(c)
  BY <1>1, <1>3, <1>11, RestSame, CheckpointInv, PhaseFacts DEF BeginUserAppend, At
<1>12. CASE SendUserAppend(c)
  <2>1. OwnEvent(t) \in Event
    BY <1>2, TurnAssumption DEF OwnEvent, Event
  <2>2. RestOK'
    BY <1>1, <1>12, <2>1 DEF SendUserAppend, SendAppend, RestOK, TypeOK, tools
  <2> QED
    BY <1>3, <1>12, <2>2, GotoInv DEF SendUserAppend, SendAppend, At
<1>13. CASE UserAppended(c)
  BY ZenonT(40), <1>1, <1>3, <1>13, RestSame, CheckpointInv, PhaseFacts DEF UserAppended, At
<1>14. CASE ModelWait(c)
  BY ZenonT(40), <1>1, <1>2, <1>3, <1>14, RestSame, CheckpointInv, PhaseFacts DEF ModelWait, At
<1> QED
  BY <1>5, <1>6, <1>7, <1>8, <1>9, <1>10, <1>11, <1>12, <1>13, <1>14, MarkRunningInv DEF Starting

(* A fenced step from one place of the execution to another that rewrites  *)
(* the outcome.                                                            *)
LEMMA RewriteInv ==
    ASSUME IInv, NEW c \in Controller, NEW o \in Outcome, NEW q, NEW l \in ExecPc,
           At(c, ExecPc), Owns(c, MyTurn(c)), row' = [row EXCEPT ![MyTurn(c)].out = o],
           Moved(proc[c], q, l), proc' = [proc EXCEPT ![c] = q],
           UNCHANGED <<lease, todo, snap>>, RestOK'
    PROVE  IInv' /\ RowStep
<1>1. At(c, Busy) /\ l \in Busy
  BY PcFacts DEF At
<1> QED
  BY ZenonT(40), <1>1, OutcomeInv

(* The model loop.                                                         *)
LEMMA RunningInv ==
    ASSUME IInv, NEW c \in Controller, Running(c)
    PROVE  IInv' /\ RowStep
<1> DEFINE t == MyTurn(c)
           o == row[t].out
           a == proc[c].app
           k == proc[c].calls
<1>1. TypeOK
  BY DEF IInv
<1>2. /\ a \in AppendPhase \cup {"none"} /\ a \in Phase /\ o \in Outcome /\ proc[c] \in Proc
      /\ t \in Turn /\ k \subseteq Call /\ proc[c].token \in 0 .. MaxToken
  BY <1>1, ProcFacts
<1>3. /\ {"model", "calling", "recorded", "bound", "waiting", "resulted", "interim",
          "interimwait", "answer", "answerwait", "responded", "absorbing", "absorbsend",
          "absorbwait", "absorbnext", "cancelling"} \subseteq ExecPc
      /\ "releasing" \in Done /\ "completed" \in Terminal
  BY StatusFacts DEF Done, ExecPc, PreLaunchPc, RunPc, TaskPc, LoopPc
<1>4. ASSUME NEW kind \in {"own", "absorbed", "interim", "final"}, NEW u \in Turn
      PROVE  [turn |-> u, kind |-> kind, key |-> proc[c].token] \in Event
  BY <1>2 DEF Event
<1>5. ASSUME NEW e \in Event, NEW l, SendAppend(c, {e}, l)
      PROVE  RestOK' /\ UNCHANGED <<row, lease, todo, snap>> /\ Goto(c, l)
  BY <1>1, <1>5 DEF SendAppend, RestOK, TypeOK, tools
<1>6. ASSUME NEW j \in Call, CallTool(c, j) PROVE IInv' /\ RowStep
  <2> DEFINE n == Checkpointed(o, "append_tool", a)
             l == IF row[t].cancel THEN "cancelling" ELSE "calling"
             q == [proc[c] EXCEPT !.calls = {j}, !.pc = l]
  <2>1. n \in Outcome
    BY ZenonT(40), <1>2, CheckpointedType, PhaseFacts
  <2>2. l \in ExecPc
    BY <1>3
  <2>3. Moved(proc[c], q, l)
    BY ZenonT(40), <1>2, <2>2, ProcMoves, PcFacts
  <2>4. /\ Owns(c, MyTurn(c)) /\ row' = [row EXCEPT ![MyTurn(c)].out = n]
        /\ proc' = [proc EXCEPT ![c] = q] /\ UNCHANGED <<lease, todo, snap>> /\ At(c, ExecPc)
    BY <1>3, <1>6 DEF CallTool, At
  <2>5. RestOK'
    <3>1. issued' = [issued EXCEPT ![j] = [turn |-> t, token |-> proc[c].token]]
      BY <1>6 DEF CallTool
    <3>2. UNCHANGED <<wire, history, sent, results, faults>>
      BY <1>6 DEF CallTool
    <3>3. [turn |-> t, token |-> proc[c].token] \in [turn : Turn \cup {0}, token : 0 .. MaxToken]
      BY ZenonT(40), <1>2
    <3> HIDE DEF t
    <3> QED
      BY ZenonT(40), <1>1, <3>1, <3>2, <3>3 DEF RestOK, TypeOK
  <2> HIDE DEF n, l, q
  <2> QED
    BY ZenonT(40), <2>1, <2>2, <2>3, <2>4, <2>5, RewriteInv
<1>7. CASE RecordToolDispatch(c)
  <2> DEFINE n == [Out("tool_in_flight", a) EXCEPT !.journal = k]
             l == IF row[t].cancel THEN "cancelling" ELSE "recorded"
             q == [proc[c] EXCEPT !.pc = l]
  <2>1. n \in Outcome
    BY ZenonT(40), <1>2, OutType, PhaseFacts
  <2>2. l \in ExecPc
    BY <1>3
  <2>3. Moved(proc[c], q, l)
    BY ZenonT(40), <1>2, <2>2, ProcMoves, PcFacts
  <2>4. /\ Owns(c, MyTurn(c)) /\ row' = [row EXCEPT ![MyTurn(c)].out = n]
        /\ proc' = [proc EXCEPT ![c] = q] /\ UNCHANGED <<lease, todo, snap>> /\ RestOK'
        /\ At(c, ExecPc)
    BY <1>1, <1>3, <1>7, RestSame DEF RecordToolDispatch, Goto, At
  <2> HIDE DEF n, l, q
  <2> QED
    BY ZenonT(40), <2>1, <2>2, <2>3, <2>4, RewriteInv
<1>8. CASE BindToolDispatch(c)
  <2> DEFINE l == IF row[t].cancel THEN "cancelling"
                  ELSE IF k \subseteq row[t].out.journal THEN "bound" ELSE "resulted"
  <2>1. l \in ExecPc
    BY <1>3
  <2>2. /\ Goto(c, l) /\ UNCHANGED <<row, lease, todo, snap>> /\ RestOK' /\ At(c, ExecPc)
    BY <1>1, <1>3, <1>8, RestSame DEF BindToolDispatch, At
  <2> HIDE DEF l
  <2> QED
    BY <2>1, <2>2, GotoInv
<1>9. CASE SendTool(c)
  <2>1. RestOK'
    BY ZenonT(40), <1>1, <1>2, <1>9 DEF SendTool, RestOK, TypeOK
  <2> QED
    BY <1>3, <1>9, <2>1, GotoInv DEF SendTool, At
<1>10. CASE ToolReturns(c)
  <2>1. RestOK'
    BY <1>1, <1>2, <1>10 DEF ToolReturns, RestOK, TypeOK
  <2> QED
    BY ZenonT(40), <1>3, <1>10, <2>1, GotoInv DEF ToolReturns, At
<1>11. CASE CompleteToolDispatch(c)
  <2> DEFINE n == Out("tool_result_persisted", a)
             l == IF row[t].cancel THEN "cancelling" ELSE "model"
             q == [proc[c] EXCEPT !.calls = {}, !.pc = l]
  <2>1. n \in Outcome
    BY ZenonT(40), <1>2, OutType, PhaseFacts
  <2>2. l \in ExecPc
    BY <1>3
  <2>3. Moved(proc[c], q, l)
    BY ZenonT(40), <1>2, <2>2, ProcMoves, PcFacts
  <2>4. /\ Owns(c, MyTurn(c)) /\ row' = [row EXCEPT ![MyTurn(c)].out = n]
        /\ proc' = [proc EXCEPT ![c] = q] /\ UNCHANGED <<lease, todo, snap>> /\ RestOK'
        /\ At(c, ExecPc)
    BY <1>1, <1>3, <1>11, RestSame DEF CompleteToolDispatch, At
  <2> HIDE DEF n, l, q
  <2> QED
    BY ZenonT(40), <2>1, <2>2, <2>3, <2>4, RewriteInv
<1>12. ASSUME NEW l \in {"interim", "answer"}, BeginAssistant(c, l) PROVE IInv' /\ RowStep
  <2>1. RestOK' /\ UNCHANGED <<lease, todo, snap>> /\ At(c, ExecPc) /\ l \in ExecPc
    BY ZenonT(40), <1>1, <1>3, <1>12, RestSame DEF BeginAssistant, At
  <2>2. Checkpoint(c, "append_assistant", a, l)
    BY <1>12 DEF BeginAssistant
  <2> QED
    BY ZenonT(40), <1>2, <2>1, <2>2, CheckpointInv, PhaseFacts
<1>13. CASE SendInterim(c)
  <2>1. MyEvent(c, "interim") \in Event
    BY <1>2, <1>4 DEF MyEvent
  <2> QED
    BY ZenonT(40), <1>3, <1>5, <1>13, <2>1, GotoInv DEF SendInterim, At
<1>14. CASE InterimAppended(c)
  BY ZenonT(40), <1>1, <1>3, <1>14, RestSame, GotoInv DEF InterimAppended, At
<1>15. CASE SendAnswer(c)
  <2>1. MyEvent(c, "final") \in Event
    BY <1>2, <1>4 DEF MyEvent
  <2> QED
    BY ZenonT(40), <1>3, <1>5, <1>15, <2>1, GotoInv DEF SendAnswer, At
<1>16. CASE ModelResponse(c)
  BY ZenonT(40), <1>1, <1>2, <1>3, <1>16, RestSame, CheckpointInv, PhaseFacts DEF ModelResponse, At
<1>17. CASE Complete(c)
  BY <1>1, <1>3, <1>17, RestSame, OutcomeFacts, EndInv DEF Complete, MarkTerminal, End
<1>18. ASSUME NEW u \in Turn, AbsorbAppend(c, u) PROVE IInv' /\ RowStep
  BY ZenonT(40), <1>1, <1>2, <1>3, <1>18, RestSame, CheckpointInv, PhaseFacts DEF AbsorbAppend, At
<1>19. ASSUME NEW u \in Turn, SendAbsorbed(c, u) PROVE IInv' /\ RowStep
  <2>1. AbsorbedEvent(c, u) \in Event
    BY <1>4 DEF AbsorbedEvent
  <2> QED
    BY ZenonT(40), <1>3, <1>5, <1>19, <2>1, GotoInv DEF SendAbsorbed, At
<1> QED
  BY <1>6, <1>7, <1>8, <1>9, <1>10, <1>11, <1>12, <1>13, <1>14, <1>15, <1>16, <1>17, <1>18,
     <1>19, HandoffInv, BeginAbsorbInv, MarkAbsorbedInv DEF Running


-----------------------------------------------------------------------------
(* The steps of recovery and claiming, the requests and the environment.   *)

(* A grant is a lease of its taker.                                        *)
LEMMA GrantType ==
    ASSUME TypeOK, NEW c \in Controller, Grant(c)
    PROVE  /\ lease' \in [owner : Controller \cup {"none", "operator"}, token : 0 .. MaxToken,
                          live : BOOLEAN]
           /\ lease'.owner = c
           /\ lease.token + 1 \in 0 .. MaxToken
<1>1. lease.token + 1 \in 0 .. MaxToken
  BY TurnAssumption DEF TypeOK, Grant
<1> QED
  BY <1>1 DEF Grant

(* A verdict replaces an active row by a settled or recoverable one.       *)
LEMMA VerdictType ==
    ASSUME NEW s \in Row, s.status \in Active, NEW found
    PROVE  LET v == Verdict(s, found) IN
           v.from \subseteq Active /\ v.to \in Terminal \cup {"recoverable"} /\ v.out \in Outcome
<1>1. s.out.append \in AppendPhase \cup {"none"}
  BY DEF Row, Outcome
<1>2. /\ Out("terminal", "none") \in Outcome
      /\ Out("recovered_uncommitted_absorb", "none") \in Outcome
      /\ Out("user_appended", "user_appended") \in Outcome
      /\ Out("user_append_pending", "user_append_pending") \in Outcome
      /\ Out("user_appended", "none") \in Outcome
      /\ Out("recovered_pre_model", s.out.append) \in Outcome
      /\ Out("recovered_model_boundary", s.out.append) \in Outcome
  BY ZenonT(40), <1>1, OutType, PhaseFacts
<1> DEFINE Good(v) == /\ v.from \subseteq Active /\ v.to \in Terminal \cup {"recoverable"}
                      /\ v.out \in Outcome
<1>3. \A from \in SUBSET Active, o \in Outcome : Good(Requeue(from, o))
  BY DEF Requeue
<1>4. \A from \in SUBSET Active, to \in Terminal : Good(Settle(from, to))
  BY ZenonT(40), <1>2 DEF Settle
<1>5. Good(MarkStaleAmbiguous)
  BY ZenonT(40), <1>4, StatusFacts DEF MarkStaleAmbiguous
<1>6. Good(RecoverStaleAbsorbing)
  BY ZenonT(40), <1>2, <1>3, StatusFacts DEF RecoverStaleAbsorbing
<1>7. Good(AppendVerdict(s, found))
  <2>1. Good(Settle({"absorbing"}, "absorbed"))
    BY <1>4, StatusFacts
  <2>2. /\ Good(Requeue({s.status}, Out("user_appended", "user_appended")))
        /\ Good(Requeue({s.status}, Out("user_append_pending", "user_append_pending")))
    BY ZenonT(40), <1>2, <1>3
  <2> HIDE DEF Good
  <2>3. CASE found = "error"
    BY <1>5, <2>3 DEF AppendVerdict
  <2>4. CASE found # "error" /\ s.status = "absorbing"
    BY <1>6, <2>1, <2>4 DEF AppendVerdict
  <2>5. CASE found # "error" /\ s.status # "absorbing"
    BY <2>2, <2>5 DEF AppendVerdict
  <2> QED
    BY <2>3, <2>4, <2>5
<1>8. Good(RunningVerdict(s, found))
  <2>1. Good(Settle({"running"}, "completed"))
    BY ZenonT(40), <1>4, StatusFacts
  <2>2. /\ Good(Requeue({"running"}, Out("user_appended", "none")))
        /\ Good(Requeue({"running"}, Out("recovered_model_boundary", s.out.append)))
    BY ZenonT(40), <1>2, <1>3, StatusFacts
  <2>3. \/ RunningVerdict(s, found) = MarkStaleAmbiguous
        \/ RunningVerdict(s, found) = Settle({"running"}, "completed")
        \/ RunningVerdict(s, found) = Requeue({"running"}, Out("user_appended", "none"))
        \/ RunningVerdict(s, found) =
              Requeue({"running"}, Out("recovered_model_boundary", s.out.append))
    BY DEF RunningVerdict, IntarisAppend
  <2> HIDE DEF Good
  <2> QED
    BY ZenonT(40), <1>5, <2>1, <2>2, <2>3
<1>9. /\ Good(Requeue({s.status}, Out("user_appended", "user_appended")))
      /\ Good(Requeue({"claimed"}, Out("recovered_pre_model", s.out.append)))
  BY ZenonT(40), <1>2, <1>3, StatusFacts
<1>10. Good(Verdict(s, found))
  <2> HIDE DEF Good
  <2> QED
    BY <1>5, <1>6, <1>7, <1>8, <1>9 DEF Verdict
<1> QED
  BY <1>10

(* Listing stale rows and acquiring the lease for one of them.             *)
LEMMA ListingInv ==
    ASSUME IInv, NEW c \in Controller,
           ListStale(c) \/ AcquireForRecovery(c) \/ SkipStale(c)
    PROVE  IInv' /\ RowStep
<1>1. TypeOK /\ ListedAt(c) /\ BatchedAt(c) /\ proc[c] \in Proc
  BY ZenonT(40), ProcFacts DEF IInv, Listed, Batched
<1>2. {"idle", "recovering", "held"} \subseteq Pc \ (Busy \cup Done)
  BY PcFacts
<1>3. CASE ListStale(c)
  <2> DEFINE new == {[turn |-> t, row |-> row[t]] : t \in {u \in Turn : Stale(u)}}
  <2>1. todo' = [todo EXCEPT ![c] = new] /\ Goto(c, "recovering")
        /\ UNCHANGED <<row, lease, snap>> /\ UNCHANGED external /\ UNCHANGED faults
    BY ZenonT(40), <1>3 DEF ListStale
  <2>2. new \subseteq [turn : Turn, row : Row] /\ \A s \in new : s.row.status \in Active
    BY <1>1 DEF TypeOK, Stale
  <2> HIDE DEF new
  <2>3. todo' \in [Controller -> SUBSET [turn : Turn, row : Row]] /\ todo'[c] = new
        /\ \A d \in Controller \ {c} : todo'[d] = todo[d]
    BY <1>1, <2>1, <2>2 DEF TypeOK
  <2>4. proc' \in [Controller -> Proc] /\ proc'[c].pc = "recovering"
        /\ SameTurn(c) /\ MovesOnly(c)
    BY ZenonT(40), <1>1, <1>2, <2>1, GotoType
  <2>5. TypeOK'
    BY <1>1, <2>1, <2>3, <2>4 DEF TypeOK, external
  <2>6. ListedAt(c)'
    BY ZenonT(40), <2>2, <2>3, <2>4 DEF ListedAt, At
  <2>7. proc'[c].batch = {}
    BY ZenonT(40), <1>1, <1>2, <1>3, <2>4 DEF ListStale, BatchedAt, At, SameTurn
  <2> QED
    BY ZenonT(40), <1>2, <2>1, <2>3, <2>4, <2>5, <2>6, <2>7, CalmInv
<1>4. CASE AcquireForRecovery(c)
  <2>1. PICK s \in todo[c] :
           /\ Grant(c)
           /\ todo' = [todo EXCEPT ![c] = @ \ {s}]
           /\ snap' = [snap EXCEPT ![c] = s.row]
           /\ proc' = [proc EXCEPT ![c] = [@ EXCEPT !.pc = "held", !.turn = s.turn,
                                                    !.token = lease.token + 1]]
    BY ZenonT(40), <1>4 DEF AcquireForRecovery
  <2>2. At(c, {"recovering"}) /\ UNCHANGED row /\ UNCHANGED external /\ UNCHANGED faults
    BY ZenonT(40), <1>4 DEF AcquireForRecovery
  <2> DEFINE q == [proc[c] EXCEPT !.pc = "held", !.turn = s.turn, !.token = lease.token + 1]
  <2>3. s.turn \in Turn /\ s.row \in Row /\ s.row.status \in Active
    BY <1>1, <2>1 DEF TypeOK, ListedAt
  <2>4. /\ lease' \in [owner : Controller \cup {"none", "operator"}, token : 0 .. MaxToken,
                       live : BOOLEAN]
        /\ lease'.owner = c
        /\ lease.token + 1 \in 0 .. MaxToken
    BY <1>1, <2>1, GrantType
  <2>5. q \in Proc /\ q.pc = "held" /\ q.batch = proc[c].batch
    BY ZenonT(40), <1>1, <1>2, <2>3, <2>4 DEF Proc
  <2>6. proc' = [proc EXCEPT ![c] = q]
    BY <2>1
  <2> HIDE DEF q
  <2>7. proc' \in [Controller -> Proc] /\ proc'[c] = q /\ MovesOnly(c)
    BY ZenonT(40), <1>1, <2>5, <2>6, PutProc
  <2>8. /\ todo' \in [Controller -> SUBSET [turn : Turn, row : Row]]
        /\ todo'[c] = todo[c] \ {s} /\ \A d \in Controller \ {c} : todo'[d] = todo[d]
    BY <1>1, <2>1 DEF TypeOK
  <2>9. /\ snap' \in [Controller -> Row]
        /\ snap'[c] = s.row /\ \A d \in Controller \ {c} : snap'[d] = snap[d]
    BY <1>1, <2>1, <2>3 DEF TypeOK
  <2>10. TypeOK'
    BY ZenonT(40), <1>1, <2>2, <2>4, <2>7, <2>8, <2>9 DEF TypeOK, external
  <2>11. ListedAt(c)'
    BY <1>1, <2>3, <2>8, <2>9 DEF ListedAt
  <2>12. proc'[c].batch = {}
    BY ZenonT(40), <1>1, <1>2, <2>2, <2>5, <2>7 DEF BatchedAt, At
  <2> QED
    BY ZenonT(40), <1>2, <2>2, <2>4, <2>5, <2>7, <2>8, <2>9, <2>10, <2>11, <2>12, CalmInv
<1>5. CASE SkipStale(c)
  <2>1. PICK s \in todo[c] :
           /\ todo' = [todo EXCEPT ![c] = @ \ {s}]
           /\ Goto(c, IF todo[c] = {s} THEN "idle" ELSE "recovering")
    BY ZenonT(40), <1>5 DEF SkipStale
  <2> DEFINE l == IF todo[c] = {s} THEN "idle" ELSE "recovering"
  <2>2. At(c, {"recovering"}) /\ UNCHANGED <<row, lease, snap>> /\ UNCHANGED external
        /\ UNCHANGED faults
    BY <1>5 DEF SkipStale
  <2>3. l \in {"idle", "recovering"}
    OBVIOUS
  <2>4. Goto(c, l)
    BY <2>1
  <2> HIDE DEF l
  <2>5. proc' \in [Controller -> Proc] /\ proc'[c].pc = l /\ SameTurn(c) /\ MovesOnly(c)
    BY <1>1, <1>2, <2>3, <2>4, GotoType
  <2>6. /\ todo' \in [Controller -> SUBSET [turn : Turn, row : Row]]
        /\ todo'[c] = todo[c] \ {s} /\ \A d \in Controller \ {c} : todo'[d] = todo[d]
    BY <1>1, <2>1 DEF TypeOK
  <2>7. TypeOK'
    BY <1>1, <2>2, <2>5, <2>6 DEF TypeOK, external
  <2>8. ListedAt(c)'
    BY ZenonT(40), <1>1, <2>3, <2>5, <2>6 DEF ListedAt, At
  <2>9. proc'[c].batch = {}
    BY ZenonT(40), <1>1, <1>2, <2>2, <2>5 DEF BatchedAt, At, SameTurn
  <2> QED
    BY ZenonT(40), <1>2, <2>2, <2>3, <2>5, <2>6, <2>7, <2>8, <2>9, CalmInv
<1> QED
  BY <1>3, <1>4, <1>5

(* begin_tool_recovery: the row is taken over under the newer fence.       *)
LEMMA BeginToolRecoveryInv ==
    ASSUME IInv, NEW c \in Controller, BeginToolRecovery(c)
    PROVE  IInv' /\ RowStep
<1> DEFINE t == MyTurn(c)
           taken == /\ row[t].status \in Active
                    /\ row[t].out.phase = "tool_in_flight"
                    /\ Supersedes(c, t)
<1>1. TypeOK /\ RestOK' /\ UNCHANGED <<lease, todo, snap>> /\ At(c, {"held"})
  BY RestSame DEF IInv, BeginToolRecovery
<1>2. t \in Turn /\ row[t] \in Row /\ proc[c] \in Proc /\ row[t].out.journal \subseteq Call
      /\ proc[c].token \in 0 .. MaxToken
  BY ZenonT(40), <1>1, ProcFacts DEF Outcome
<1>3. "tools" \in Busy /\ "tools" \notin ExecPc /\ "releasing" \in Done /\ "tools" \in Pc
      /\ "releasing" \in Pc /\ "held" \notin Busy \cup Done
  BY PcFacts DEF Busy, ToolRecoveryPc, ExecPc, PreLaunchPc, RunPc, TaskPc, LoopPc, Done
<1>4. CASE taken
  <2> DEFINE r == [row[t] EXCEPT !.owner = c, !.token = proc[c].token]
             q == [proc[c] EXCEPT !.pc = "tools", !.calls = row[t].out.journal]
  <2>1. row' = [row EXCEPT ![t] = r] /\ proc' = [proc EXCEPT ![c] = q]
    BY <1>4 DEF BeginToolRecovery
  <2>2. r \in Row /\ r.status = row[t].status /\ r.owner = c /\ r.token = proc[c].token
    BY ZenonT(40), <1>2 DEF Row
  <2>3. Moved(proc[c], q, "tools")
    BY ZenonT(40), <1>2, <1>3, ProcMoves
  <2>4. row[t].status \in Active /\ Current(c)
    BY <1>4 DEF Supersedes
  <2> HIDE DEF r, q, taken
  <2>5. row' \in [Turn -> Row] /\ row'[t] = r /\ OnlyRow(t)
    BY ZenonT(40), <1>1, <1>2, <2>1, <2>2, PutRow
  <2>6. /\ proc' \in [Controller -> Proc] /\ proc'[c].pc = "tools"
        /\ SameTurn(c) /\ MovesOnly(c)
    BY ZenonT(40), <1>1, <2>1, <2>3, PutMoved
  <2>7. TypeOK'
    BY <1>1, <2>5, <2>6, TypeFrame
  <2>8. RowStep
    BY ZenonT(40), <1>2, <2>2, <2>4, <2>5, StatusFacts DEF RowStep, Retaken, OnlyRow
  <2>9. BatchedAt(c) /\ ListedAt(c)
    BY DEF IInv, Batched, Listed
  <2>10. proc'[c].batch = {}
    BY ZenonT(40), <1>1, <1>3, <2>6, <2>9 DEF BatchedAt, SameTurn, At
  <2>11. Fenced(c)'
    BY ZenonT(40), <1>1, <1>3, <2>2, <2>4, <2>5, <2>6, <2>10 DEF Fenced, Owns, Current, SameTurn, MyTurn, At
  <2>12. BatchedAt(c)' /\ ListedAt(c)'
    BY ZenonT(40), <1>1, <2>6, <2>9, <2>10 DEF BatchedAt, ListedAt, At
  <2> QED
    BY ZenonT(40), <1>1, <2>4, <2>6, <2>7, <2>8, <2>11, <2>12, Assemble
<1>5. CASE ~taken
  <2> DEFINE q == [proc[c] EXCEPT !.pc = "releasing", !.calls = {}]
  <2>1. row' = row /\ proc' = [proc EXCEPT ![c] = q]
    BY ZenonT(40), <1>5 DEF BeginToolRecovery
  <2>2. Moved(proc[c], q, "releasing")
    BY ZenonT(40), <1>2, <1>3, ProcMoves
  <2> HIDE DEF q, taken
  <2>3. /\ proc' \in [Controller -> Proc] /\ proc'[c].pc = "releasing"
        /\ SameTurn(c) /\ MovesOnly(c)
    BY ZenonT(40), <1>1, <2>1, <2>2, PutMoved
  <2>4. Leave(c)
    BY <1>1, <1>3, <2>1, <2>3 DEF Leave
  <2> QED
    BY ZenonT(40), <1>1, <2>1, <2>3, <2>4, TypeFrame, LeaveInv DEF TypeOK
<1> QED
  BY <1>4, <1>5

(* A row whose status and outcome are replaced is a row.                   *)
LEMMA RowEnds ==
    ASSUME NEW r \in Row, NEW x \in Status, NEW o \in Outcome
    PROVE  /\ [r EXCEPT !.status = x, !.out = o] \in Row
           /\ [r EXCEPT !.status = x, !.out = o].status = x
BY ZenonT(40) DEF Row

(* The recovery of a stale row.                                            *)
LEMMA RecoveryInv ==
    ASSUME IInv, NEW c \in Controller, Recovery(c)
    PROVE  IInv' /\ RowStep
<1> DEFINE t == MyTurn(c)
<1>1. TypeOK /\ ListedAt(c) /\ BatchedAt(c)
  BY DEF IInv, Listed, Batched
<1>2. /\ t \in Turn /\ row[t] \in Row /\ row[t].out \in Outcome /\ proc[c] \in Proc
      /\ snap[c] \in Row
  BY ZenonT(40), <1>1, ProcFacts
<1>3. /\ "releasing" \in Done /\ {"tools", "cleared"} \subseteq Busy
      /\ "cleared" \notin ExecPc /\ {"held", "decided"} \subseteq Pc \ (Busy \cup Done)
  BY PcFacts DEF Busy, ToolRecoveryPc, ExecPc, PreLaunchPc, RunPc, TaskPc, LoopPc, Done
<1>4. {"recovery", "reconcile"} \subseteq AllFaults
  BY DEF AllFaults
<1>5. CASE CancelStaleActive(c)
  <2>1. UNCHANGED <<lease, todo, snap>> /\ RestOK' /\ Goto(c, "releasing")
    BY <1>1, <1>5, RestSame DEF CancelStaleActive
  <2> DEFINE r == [row[t] EXCEPT !.status = "cancelled", !.owner = "none",
                                 !.out = Out("terminal", "none")]
  <2>2. r \in Row /\ r.status \in Terminal
    BY ZenonT(40), <1>2, OutcomeFacts, StatusFacts DEF Row
  <2>3. \/ row' = row
        \/ row[t].status \in Active /\ Current(c) /\ row' = [row EXCEPT ![t] = r]
    BY <1>5 DEF CancelStaleActive, Supersedes
  <2> HIDE DEF r
  <2> QED
    BY <1>3, <2>1, <2>2, <2>3, StaleInv, GiveUpInv
<1>6. ASSUME NEW k \in Call, SettleToolCall(c, k) PROVE IInv' /\ RowStep
  <2>1. At(c, Busy) /\ UNCHANGED <<row, lease, proc, todo, snap>>
    BY ZenonT(40), <1>3, <1>6 DEF SettleToolCall, At
  <2>2. TypeOK'
    BY ZenonT(40), <1>1, <1>6 DEF SettleToolCall, TypeOK
  <2>3. Work(c)
    BY <2>1 DEF Work, At, SameTurn, MovesOnly, RowsKept, Same
  <2> QED
    BY <2>2, <2>3, WorkInv
<1>7. ASSUME NEW status \in {"failed", "ambiguous"}, ToolRecoveryFails(c, status)
      PROVE  IInv' /\ RowStep
  <2>1. UNCHANGED <<lease, todo, snap>> /\ RestOK' /\ Goto(c, "releasing")
    BY <1>1, <1>4, <1>7, RestSame DEF ToolRecoveryFails
  <2> DEFINE r == [row[t] EXCEPT !.status = status, !.out = Out("terminal", "none")]
  <2>2. r \in Row /\ r.status \in Terminal
    <3>1. status \in Terminal /\ status \in Status
      BY StatusFacts
    <3>2. Out("terminal", "none") \in Outcome
      BY OutcomeFacts
    <3> QED
      BY ZenonT(40), <1>2, <3>1, <3>2, RowEnds
  <2>3. row[t].status \in Active /\ Current(c) /\ row' = [row EXCEPT ![t] = r]
    BY <1>7 DEF ToolRecoveryFails, Owns
  <2> HIDE DEF r
  <2> QED
    BY ZenonT(40), <2>1, <2>2, <2>3, StaleInv
<1>8. CASE ClearToolDispatch(c)
  <2> DEFINE o == [row[t].out EXCEPT !.phase = "tool_recovery_result_persisted",
                                     !.journal = {}]
             q == [proc[c] EXCEPT !.pc = "cleared"]
  <2>1. o \in Outcome
    BY ZenonT(40), <1>2, PhaseFacts DEF Outcome
  <2>2. Moved(proc[c], q, "cleared")
    BY ZenonT(40), <1>2, <1>3, ProcMoves, PcFacts
  <2>3. /\ Owns(c, MyTurn(c)) /\ row' = [row EXCEPT ![MyTurn(c)].out = o]
        /\ proc' = [proc EXCEPT ![c] = q] /\ UNCHANGED <<lease, todo, snap>> /\ RestOK'
        /\ At(c, Busy)
    BY <1>1, <1>3, <1>8, RestSame DEF ClearToolDispatch, Goto, At
  <2> HIDE DEF o, q
  <2> QED
    BY ZenonT(40), <1>3, <2>1, <2>2, <2>3, OutcomeInv
<1>9. CASE FinishToolRecovery(c)
  <2>1. UNCHANGED <<lease, todo, snap>> /\ RestOK' /\ Goto(c, "releasing")
    BY <1>1, <1>9, RestSame DEF FinishToolRecovery
  <2> DEFINE o == [Out("user_appended", "user_appended") EXCEPT !.note = TRUE]
             r1 == [row[t] EXCEPT !.status = "cancelled", !.owner = "none", !.token = 0,
                                  !.out = Out("terminal", "none")]
             r2 == [row[t] EXCEPT !.status = "recoverable", !.owner = "none", !.token = 0,
                                  !.out = o]
  <2>2. o \in Outcome
    BY ZenonT(40), OutType, PhaseFacts
  <2>3. /\ row[t].status \in Active /\ Current(c)
        /\ row' = [row EXCEPT ![t] = IF row[t].cancel THEN r1 ELSE r2]
    BY <1>9 DEF FinishToolRecovery, Owns
  <2>4. 0 \in 0 .. MaxToken
    BY TurnAssumption
  <2> HIDE DEF o
  <2>5. r1 \in Row /\ r1.status = "cancelled" /\ r2 \in Row /\ r2.status = "recoverable"
    BY ZenonT(40), <1>2, <2>2, <2>4, OutcomeFacts, StatusFacts DEF Row
  <2> HIDE DEF r1, r2
  <2>6. CASE row[t].cancel
    BY ZenonT(40), <2>1, <2>3, <2>5, <2>6, StaleInv, StatusFacts
  <2>7. CASE ~row[t].cancel
    BY ZenonT(40), <2>1, <2>3, <2>5, <2>7, StaleInv
  <2> QED
    BY <2>6, <2>7
<1>10. CASE LeaveQuarantined(c)
  BY <1>1, <1>3, <1>10, RestSame, GiveUpInv DEF LeaveQuarantined
<1>11. ASSUME NEW found \in {"none", "yes", "no", "error"}, Judge(c, found),
              UNCHANGED faults \/ Fault("reconcile")
       PROVE  IInv' /\ RowStep
  <2> DEFINE q == [proc[c] EXCEPT !.pc = "decided", !.found = found]
  <2>1. /\ proc' = [proc EXCEPT ![c] = q] /\ At(c, {"held"})
        /\ UNCHANGED <<row, lease, todo, snap>> /\ UNCHANGED external
    BY <1>11 DEF Judge
  <2>2. Moved(proc[c], q, "decided")
    BY ZenonT(40), <1>2, <1>3, ProcMoves
  <2> HIDE DEF q
  <2>3. proc' \in [Controller -> Proc] /\ proc'[c].pc = "decided" /\ SameTurn(c) /\ MovesOnly(c)
    BY ZenonT(40), <1>1, <2>1, <2>2, PutMoved
  <2>4. RestOK'
    BY <1>1, <1>4, <1>11, <2>1, RestSame
  <2>5. TypeOK'
    BY ZenonT(40), <1>1, <2>1, <2>3, <2>4, TypeFrame DEF TypeOK
  <2>6. ListedAt(c)' /\ proc'[c].batch = {}
    BY ZenonT(40), <1>1, <1>3, <2>1, <2>3 DEF ListedAt, BatchedAt, At, SameTurn
  <2> QED
    BY ZenonT(40), <1>3, <2>1, <2>3, <2>5, <2>6, CalmInv
<1>12. CASE Reconcile(c)
  <2>1. Findings(MyTurn(c), snap[c].out.phase) \subseteq {"none", "yes", "no", "error"}
    BY DEF Findings
  <2> QED
    BY <1>11, <1>12, <2>1 DEF Reconcile
<1>13. CASE ReconcileFails(c)
  BY <1>11, <1>13 DEF ReconcileFails
<1>14. CASE RecoverStale(c)
  <2> DEFINE v == Verdict(snap[c], proc[c].found)
             applies == row[t].status \in v.from /\ ~row[t].cancel /\ Supersedes(c, t)
             r == [row[t] EXCEPT !.status = v.to, !.out = v.out,
                                 !.owner = IF v.to = "recoverable" THEN "none"
                                                                   ELSE row[t].owner]
  <2>1. UNCHANGED <<lease, todo, snap>> /\ RestOK' /\ Goto(c, "releasing")
    BY <1>1, <1>14, RestSame DEF RecoverStale
  <2>2. snap[c].status \in Active
    BY <1>1, <1>14 DEF RecoverStale, ListedAt, At
  <2>3. row' = IF applies THEN [row EXCEPT ![t] = r] ELSE row
    BY <1>14 DEF RecoverStale
  <2>4. v.from \subseteq Active /\ v.to \in Terminal \cup {"recoverable"} /\ v.out \in Outcome
    BY ZenonT(40), <1>2, <2>2, VerdictType
  <2>5. applies => row[t].status \in Active /\ Current(c)
    BY ZenonT(40), <2>4 DEF Supersedes
  <2> HIDE DEF v, applies
  <2>6. r \in Row /\ r.status = v.to
    <3>1. v.to \in Status /\ row[t].owner \in Controller \cup {"none", "operator"}
      BY <1>2, <2>4, StatusFacts DEF Row
    <3> HIDE DEF t
    <3> QED
      BY ZenonT(40), <1>2, <2>4, <3>1 DEF Row
  <2> HIDE DEF r
  <2>7. CASE applies
    BY ZenonT(40), <2>1, <2>3, <2>4, <2>5, <2>6, <2>7, StaleInv
  <2>8. CASE ~applies
    BY <1>3, <2>1, <2>3, <2>8, GiveUpInv
  <2> QED
    BY <2>7, <2>8
<1> QED
  BY <1>5, <1>6, <1>7, <1>8, <1>9, <1>10, <1>12, <1>13, <1>14, ListingInv,
     BeginToolRecoveryInv DEF Recovery

(* Acquiring the lease, claiming the head and releasing the lease.         *)
LEMMA ClaimingInv ==
    ASSUME IInv, NEW c \in Controller, Claiming(c)
    PROVE  IInv' /\ RowStep
<1>1. TypeOK /\ ListedAt(c) /\ BatchedAt(c) /\ proc[c] \in Proc
  BY ProcFacts DEF IInv, Listed, Batched
<1>2. /\ {"idle", "recovering", "down", "acquired"} \subseteq Pc \ (Busy \cup Done)
      /\ "start" \in ExecPc /\ "start" \in Busy /\ "start" \in Pc
      /\ "releasing" \in Done /\ "releasing" \in Pc
  BY PcFacts DEF ExecPc, PreLaunchPc, Done
<1>3. ASSUME NEW t \in Turn, AcquireForClaim(c, t) PROVE IInv' /\ RowStep
  <2> DEFINE q == [proc[c] EXCEPT !.pc = "acquired", !.turn = t, !.token = lease.token + 1]
  <2>1. /\ Grant(c) /\ proc' = [proc EXCEPT ![c] = q] /\ At(c, {"idle"})
        /\ UNCHANGED <<row, todo, snap>> /\ UNCHANGED external /\ UNCHANGED faults
    BY <1>3 DEF AcquireForClaim
  <2>2. /\ lease' \in [owner : Controller \cup {"none", "operator"}, token : 0 .. MaxToken,
                       live : BOOLEAN]
        /\ lease'.owner = c
        /\ lease.token + 1 \in 0 .. MaxToken
    BY <1>1, <2>1, GrantType
  <2>3. q \in Proc /\ q.pc = "acquired" /\ q.batch = proc[c].batch
    BY ZenonT(40), <1>1, <1>2, <2>2 DEF Proc
  <2> HIDE DEF q
  <2>4. proc' \in [Controller -> Proc] /\ proc'[c] = q /\ MovesOnly(c)
    BY ZenonT(40), <1>1, <2>1, <2>3, PutProc
  <2>5. TypeOK'
    BY <1>1, <2>1, <2>2, <2>4 DEF TypeOK, external
  <2>6. ListedAt(c)' /\ proc'[c].batch = {}
    BY ZenonT(40), <1>1, <1>2, <2>1, <2>3, <2>4 DEF ListedAt, BatchedAt, At
  <2> QED
    BY ZenonT(40), <1>2, <2>1, <2>2, <2>3, <2>4, <2>5, <2>6, CalmInv
<1>4. CASE Claim(c)
  <2> DEFINE t == MyTurn(c)
             claimed == row[t].status \in Claimable /\ IsHead(t) /\ Current(c)
             a == PriorAppend(row[t].out)
             w == row[t].out.note
  <2>1. t \in Turn /\ row[t] \in Row /\ row[t].attempts \in 0 .. AttemptCap
        /\ row[t].out \in Outcome /\ w \in BOOLEAN /\ proc[c].token \in 0 .. MaxToken
    BY ZenonT(40), <1>1, ProcFacts DEF Row, Outcome
  <2>2. a \in AppendPhase \cup {"none"}
    BY ZenonT(40), <2>1 DEF PriorAppend, Outcome
  <2>3. RestOK' /\ UNCHANGED <<lease, todo, snap>> /\ At(c, {"acquired"})
    BY <1>1, <1>4, RestSame DEF Claim
  <2>4. CASE claimed
    <3> DEFINE r == [row[t] EXCEPT !.status = "claimed", !.owner = c, !.token = proc[c].token,
                                   !.attempts = Attempt(row[t].attempts)]
               q == [proc[c] EXCEPT !.pc = "start", !.app = a, !.warned = w]
    <3>1. row' = [row EXCEPT ![t] = r] /\ proc' = [proc EXCEPT ![c] = q]
      BY <1>4, <2>4 DEF Claim
    <3>2. r \in Row /\ r.status = "claimed" /\ r.owner = c /\ r.token = proc[c].token
      <4>1. Attempt(row[t].attempts) \in 0 .. AttemptCap /\ "claimed" \in Status
        BY ZenonT(40), <2>1, AttemptType, StatusFacts
      <4> QED
        BY ZenonT(40), <2>1, <4>1 DEF Row
    <3>3. Moved(proc[c], q, "start")
      <4> HIDE DEF a, w
      <4> QED
        BY ZenonT(40), <1>1, <1>2, <2>1, <2>2, ProcMoves
    <3>4. row[t].status \in Claimable /\ IsHead(t) /\ Current(c)
      BY <2>4
    <3> HIDE DEF r, q, claimed, a, w
    <3>5. row' \in [Turn -> Row] /\ row'[t] = r /\ OnlyRow(t)
      BY ZenonT(40), <1>1, <2>1, <3>1, <3>2, PutRow
    <3>6. /\ proc' \in [Controller -> Proc] /\ proc'[c].pc = "start"
          /\ SameTurn(c) /\ MovesOnly(c)
      BY ZenonT(40), <1>1, <3>1, <3>3, PutMoved
    <3>7. TypeOK'
      BY ZenonT(40), <1>1, <2>3, <3>5, <3>6, TypeFrame
    <3>8. RowStep
      BY ZenonT(40), <2>1, <3>2, <3>4, <3>5 DEF RowStep, Changes, Starts
    <3>9. proc'[c].batch = {}
      BY ZenonT(40), <1>1, <1>2, <2>3, <3>6 DEF BatchedAt, SameTurn, At
    <3>10. Fenced(c)'
      BY ZenonT(40), <2>3, <3>2, <3>4, <3>5, <3>6, <3>9, StatusFacts
         DEF Fenced, Owns, Current, SameTurn, MyTurn
    <3>11. BatchedAt(c)' /\ ListedAt(c)'
      BY ZenonT(40), <1>1, <2>3, <3>6, <3>9 DEF BatchedAt, ListedAt, At
    <3> QED
      BY ZenonT(40), <2>3, <3>4, <3>6, <3>7, <3>8, <3>10, <3>11, Assemble
  <2>5. CASE ~claimed
    <3> DEFINE q == [proc[c] EXCEPT !.pc = "releasing", !.app = a, !.warned = w]
    <3>1. row' = row /\ proc' = [proc EXCEPT ![c] = q]
      BY ZenonT(40), <1>4, <2>5 DEF Claim
    <3>2. Moved(proc[c], q, "releasing")
      <4> HIDE DEF a, w
      <4> QED
        BY ZenonT(40), <1>1, <1>2, <2>1, <2>2, ProcMoves
    <3> HIDE DEF q, claimed, a, w
    <3>3. /\ proc' \in [Controller -> Proc] /\ proc'[c].pc = "releasing"
          /\ SameTurn(c) /\ MovesOnly(c)
      BY ZenonT(40), <1>1, <3>1, <3>2, PutMoved
    <3>4. Leave(c)
      BY ZenonT(40), <1>2, <2>3, <3>1, <3>3 DEF Leave
    <3> QED
      BY ZenonT(40), <1>1, <2>3, <3>1, <3>3, <3>4, TypeFrame, LeaveInv DEF TypeOK
  <2> QED
    BY <2>4, <2>5
<1>5. CASE Release(c)
  <2> DEFINE l == IF At(c, {"draining"}) THEN "down"
                  ELSE IF todo[c] # {} THEN "recovering" ELSE "idle"
             q == [Idle EXCEPT !.pc = l]
  <2>1. /\ proc' = [proc EXCEPT ![c] = q] /\ snap' = [snap EXCEPT ![c] = NoRow]
        /\ UNCHANGED <<row, todo>> /\ UNCHANGED external /\ UNCHANGED faults
        /\ \/ lease' = lease
           \/ lease' = [lease EXCEPT !.live = FALSE]
    BY <1>5 DEF Release
  <2>2. l \in {"down", "recovering", "idle"}
    OBVIOUS
  <2> HIDE DEF l
  <2>3. q \in Proc /\ q.pc = l /\ q.batch = {}
    BY <1>2, <2>2, IdleType
  <2>4. /\ lease' \in [owner : Controller \cup {"none", "operator"}, token : 0 .. MaxToken,
                       live : BOOLEAN]
        /\ lease' = lease \/ ~lease'.live
    BY ZenonT(40), <1>1, <2>1 DEF TypeOK
  <2> HIDE DEF q
  <2>5. proc' \in [Controller -> Proc] /\ proc'[c] = q /\ MovesOnly(c)
    BY ZenonT(40), <1>1, <2>1, <2>3, PutProc
  <2>6. /\ snap' \in [Controller -> Row] /\ \A d \in Controller \ {c} : snap'[d] = snap[d]
    BY <1>1, <2>1, NoRowType DEF TypeOK
  <2>7. TypeOK'
    BY <1>1, <2>1, <2>4, <2>5, <2>6 DEF TypeOK, external
  <2>8. ListedAt(c)'
    BY <1>1, <2>1, <2>2, <2>3, <2>5 DEF ListedAt, At
  <2> QED
    BY <1>2, <2>1, <2>2, <2>3, <2>4, <2>5, <2>6, <2>7, <2>8, CalmInv
<1> QED
  BY <1>3, <1>4, <1>5 DEF Claiming

(* What a cancellation request makes of a row.                             *)
LEMMA CancelledType ==
    ASSUME NEW r \in Row
    PROVE  /\ Cancelled(r) \in Row
           /\ r.status \in Claimable => Cancelled(r).status = "cancelled"
           /\ r.status \notin Claimable =>
                 /\ Cancelled(r).status = r.status
                 /\ Cancelled(r).owner = r.owner /\ Cancelled(r).token = r.token
           /\ r.status \in Terminal => Cancelled(r) = r
<1>1. "cancelled" \in Status
  BY StatusFacts
<1>2. /\ [r EXCEPT !.status = "cancelled", !.cancel = TRUE] \in Row
      /\ [r EXCEPT !.status = "cancelled", !.cancel = TRUE].status = "cancelled"
      /\ [r EXCEPT !.cancel = TRUE] \in Row
      /\ [r EXCEPT !.cancel = TRUE].status = r.status
      /\ [r EXCEPT !.cancel = TRUE].owner = r.owner
      /\ [r EXCEPT !.cancel = TRUE].token = r.token
  BY ZenonT(40), <1>1 DEF Row
<1>3. CASE r.status \in Claimable
  <2>1. Cancelled(r) = [r EXCEPT !.status = "cancelled", !.cancel = TRUE]
    BY <1>3, StatusFacts DEF Cancelled
  <2> QED
    BY <1>2, <1>3, <2>1, StatusFacts
<1>4. CASE r.status \in Active
  <2>1. Cancelled(r) = [r EXCEPT !.cancel = TRUE]
    BY <1>4, StatusFacts DEF Cancelled
  <2> QED
    BY <1>2, <1>4, <2>1, StatusFacts
<1>5. CASE r.status \notin Claimable /\ r.status \notin Active
  <2>1. Cancelled(r) = r
    BY <1>5 DEF Cancelled
  <2> QED
    BY <1>5, <2>1
<1> QED
  BY <1>3, <1>4, <1>5

(* Admission, cancellation and the operator.                               *)
LEMMA RequestsInv ==
    ASSUME IInv, Requests
    PROVE  IInv' /\ RowStep
<1>1. TypeOK /\ RestOK' /\ UNCHANGED <<proc, todo, snap>>
  <2>1. TypeOK /\ UNCHANGED <<proc, todo, snap>> /\ UNCHANGED external /\ UNCHANGED faults
    BY ZenonT(40) DEF IInv, Requests, Admit, RequestCancel, CancelConversation,
                 ResolveStaleToolAmbiguous
  <2> QED
    BY <2>1, RestSame
<1>2. ASSUME NEW t \in Turn, Admit(t) PROVE IInv' /\ RowStep
  <2> DEFINE r == [row[t] EXCEPT !.status = "queued"]
  <2>1. /\ row' = [row EXCEPT ![t] = r] /\ UNCHANGED lease /\ row[t].status = "absent"
        /\ \A u \in 1 .. (t - 1) : row[u].status # "absent"
    BY <1>2 DEF Admit
  <2>2. r \in Row /\ r.status = "queued"
    BY <1>1, StatusFacts DEF TypeOK, Row
  <2> HIDE DEF r
  <2>3. row' \in [Turn -> Row] /\ row'[t] = r /\ OnlyRow(t)
    BY ZenonT(40), <1>1, <2>1, <2>2, PutRow
  <2>4. TypeOK'
    BY ZenonT(40), <1>1, <2>1, <2>3, TypeFrame DEF TypeOK
  <2>5. RowStep
    BY <2>1, <2>2, <2>3 DEF RowStep, Changes, Enters
  <2>6. \A u \in Turn : Same(u) \/ row[u].status \notin Active
    BY <2>1, <2>3, StatusFacts DEF OnlyRow, Same
  <2> QED
    BY <1>1, <2>1, <2>4, <2>5, <2>6, OutsideInv
<1>3. ASSUME UNCHANGED lease,
             \A u \in Turn : row'[u] = row[u] \/ row'[u] = Cancelled(row[u]),
             row' \in [Turn -> Row]
      PROVE  IInv' /\ RowStep
  <2>1. \A u \in Turn : Same(u) \/ Drops(u)
    BY <1>1, <1>3, CancelledType DEF TypeOK, Same, Drops
  <2>2. RowStep
    BY ZenonT(40), <2>1 DEF RowStep
  <2>3. \A u \in Turn : Same(u) \/ row[u].status \notin Active
    BY ZenonT(40), <2>1, StatusFacts DEF Drops
  <2>4. TypeOK'
    BY ZenonT(40), <1>1, <1>3, TypeFrame DEF TypeOK
  <2> QED
    BY <1>1, <1>3, <2>2, <2>3, <2>4, OutsideInv
<1>4. ASSUME NEW t \in Turn, RequestCancel(t) PROVE IInv' /\ RowStep
  <2>1. row' = [row EXCEPT ![t] = Cancelled(row[t])] /\ UNCHANGED lease
    BY <1>4 DEF RequestCancel
  <2>2. Cancelled(row[t]) \in Row
    BY <1>1, CancelledType DEF TypeOK
  <2>3. row' \in [Turn -> Row] /\ row'[t] = Cancelled(row[t]) /\ OnlyRow(t)
    BY ZenonT(40), <1>1, <2>1, <2>2, PutRow
  <2> QED
    BY <1>3, <2>1, <2>3 DEF OnlyRow
<1>5. CASE CancelConversation
  <2>1. row' = [t \in Turn |-> Cancelled(row[t])] /\ UNCHANGED lease
    BY <1>5 DEF CancelConversation
  <2>2. \A t \in Turn : Cancelled(row[t]) \in Row
    BY <1>1, CancelledType DEF TypeOK
  <2> QED
    BY <1>3, <2>1, <2>2
<1>6. ASSUME NEW t \in Turn, ResolveStaleToolAmbiguous(t) PROVE IInv' /\ RowStep
  <2> DEFINE r == [row[t] EXCEPT !.status = "ambiguous", !.owner = "operator",
                                 !.token = lease.token + 1, !.out = Out("terminal", "none")]
  <2>1. /\ row' = [row EXCEPT ![t] = r] /\ row[t].status \in Active /\ lease.token < MaxToken
        /\ lease' = [owner |-> "operator", token |-> lease.token + 1, live |-> FALSE]
    BY <1>6 DEF ResolveStaleToolAmbiguous
  <2>2. lease.token + 1 \in 0 .. MaxToken
    BY <1>1, <2>1, TurnAssumption DEF TypeOK
  <2>3. r \in Row /\ r.status \in Terminal
    <3>1. row[t] \in Row /\ "ambiguous" \in Status /\ "ambiguous" \in Terminal
      BY <1>1, StatusFacts DEF TypeOK
    <3> QED
      BY ZenonT(40), <2>2, <3>1, OutcomeFacts DEF Row
  <2> HIDE DEF r
  <2>4. row' \in [Turn -> Row] /\ row'[t] = r /\ OnlyRow(t)
    BY ZenonT(40), <1>1, <2>1, <2>3, PutRow
  <2>5. TypeOK'
    BY <1>1, <2>1, <2>2, <2>4 DEF TypeOK, RestOK
  <2>6. RowStep
    BY <2>1, <2>3, <2>4 DEF RowStep, Changes, Ends
  <2>7. ~lease'.live
    BY <2>1
  <2> QED
    BY <1>1, <2>5, <2>6, <2>7, OutsideInv
<1> QED
  BY <1>2, <1>4, <1>5, <1>6 DEF Requests

(* Boot, crash, expiry and the wire.                                       *)
LEMMA EnvironmentInv ==
    ASSUME IInv, Environment
    PROVE  IInv' /\ RowStep
<1>1. TypeOK
  BY DEF IInv
<1>2. {"off", "down", "idle"} \subseteq Pc \ (Busy \cup Done)
  BY PcFacts
<1>3. ASSUME NEW kind, Fault(kind) PROVE faults' \in 0 .. MaxFaults
  BY <1>1, <1>3, TurnAssumption DEF TypeOK, Fault
<1>4. ASSUME NEW c \in Controller, Boot(c) PROVE IInv' /\ RowStep
  <2>1. /\ Goto(c, "idle") /\ At(c, {"off"}) /\ UNCHANGED <<row, lease, todo, snap>>
        /\ UNCHANGED external /\ UNCHANGED faults
    BY <1>4 DEF Boot
  <2>2. proc' \in [Controller -> Proc] /\ proc'[c].pc = "idle" /\ SameTurn(c) /\ MovesOnly(c)
    BY <1>1, <1>2, <2>1, GotoType
  <2>3. TypeOK'
    BY <1>1, <2>1, <2>2 DEF TypeOK, external
  <2>4. ListedAt(c)' /\ proc'[c].batch = {}
    BY ZenonT(40), <1>2, <2>1, <2>2 DEF IInv, Listed, ListedAt, Batched, BatchedAt, At, SameTurn
  <2> QED
    BY ZenonT(40), <1>2, <2>1, <2>2, <2>3, <2>4, CalmInv
<1>5. ASSUME NEW c \in Controller, Crash(c) PROVE IInv' /\ RowStep
  <2> DEFINE q == [Idle EXCEPT !.pc = "down"]
  <2>1. /\ proc' = [proc EXCEPT ![c] = q] /\ todo' = [todo EXCEPT ![c] = {}]
        /\ snap' = [snap EXCEPT ![c] = NoRow] /\ UNCHANGED <<row, lease>>
        /\ UNCHANGED external /\ Fault("crash")
    BY <1>5 DEF Crash
  <2>2. q \in Proc /\ q.pc = "down" /\ q.batch = {}
    BY <1>2, IdleType
  <2> HIDE DEF q
  <2>3. proc' \in [Controller -> Proc] /\ proc'[c] = q /\ MovesOnly(c)
    BY ZenonT(40), <1>1, <2>1, <2>2, PutProc
  <2>4. /\ snap' \in [Controller -> Row]
        /\ todo' \in [Controller -> SUBSET [turn : Turn, row : Row]] /\ todo'[c] = {}
        /\ \A d \in Controller \ {c} : snap'[d] = snap[d] /\ todo'[d] = todo[d]
    BY <1>1, <2>1, NoRowType DEF TypeOK
  <2>5. TypeOK'
    BY <1>1, <1>3, <2>1, <2>3, <2>4 DEF TypeOK, external
  <2>6. ListedAt(c)'
    BY <2>2, <2>3, <2>4 DEF ListedAt, At
  <2> QED
    BY ZenonT(40), <1>2, <2>1, <2>2, <2>3, <2>4, <2>5, <2>6, CalmInv
<1>6. row' = row => RowStep
  BY ZenonT(40) DEF RowStep, Same
<1>7. CASE Expire
  <2>1. /\ lease' = [lease EXCEPT !.live = FALSE] /\ UNCHANGED <<row, proc, todo, snap>>
        /\ UNCHANGED external /\ (UNCHANGED faults \/ Fault("expire"))
    BY <1>7 DEF Expire
  <2>2. TypeOK' /\ ~lease'.live
    BY ZenonT(40), <1>1, <1>3, <2>1 DEF TypeOK, external
  <2> QED
    BY <1>6, <2>1, <2>2, OutsideInv
<1>8. ASSUME NEW w \in wire, Land(w) \/ Drop(w) PROVE IInv' /\ RowStep
  <2>1. /\ UNCHANGED <<row, lease, proc, todo, snap>> /\ UNCHANGED tools
        /\ wire' = wire \ {w} /\ (history' = history \/ history' = history \cup {w})
        /\ (UNCHANGED faults \/ Fault("drop"))
    BY <1>8 DEF Land, Drop
  <2>2. TypeOK'
    BY <1>1, <1>3, <2>1 DEF TypeOK, tools
  <2>3. \A t \in Turn : Same(t)
    BY <2>1 DEF Same
  <2> QED
    BY <1>6, <2>1, <2>2, <2>3, OutsideInv
<1> QED
  BY <1>4, <1>5, <1>7, <1>8 DEF Environment

-----------------------------------------------------------------------------
(* The theorems.                                                           *)

(* The invariant holds initially.                                          *)
LEMMA InitInv == Init => IInv
<1> SUFFICES ASSUME Init PROVE IInv
  OBVIOUS
<1> DEFINE q == [Idle EXCEPT !.pc = "off"]
<1>1. q \in Proc /\ q.pc = "off" /\ q.batch = {}
  BY IdleType, PcFacts
<1>2. proc = [c \in Controller |-> q]
  BY DEF Init
<1> HIDE DEF q
<1>3. 0 \in 0 .. MaxToken /\ 0 \in 0 .. MaxFaults
  BY TurnAssumption
<1>4. TypeOK
  BY <1>1, <1>2, <1>3, NoRowType DEF Init, TypeOK, NoIssue
<1>5. \A t \in Turn : row[t].status = "absent"
  BY NoRowType DEF Init
<1>6. Ordered /\ HeadOnly
  BY <1>5 DEF Ordered, HeadOnly
<1>7. \A c \in Controller : ~At(c, Busy \cup Done \cup {"held", "decided"})
                            /\ proc[c].batch = {} /\ todo[c] = {}
  BY <1>1, <1>2, PcFacts DEF Init, At
<1>8. Listed /\ Batched /\ AllFenced
  BY ZenonT(40), <1>7 DEF Listed, ListedAt, Batched, BatchedAt, AllFenced, Fenced, At
<1> QED
  BY <1>4, <1>6, <1>8 DEF IInv

(* Every step keeps it, and treats the rows in one of the ways of RowStep. *)
LEMMA NextInv == IInv /\ [Next]_vars => IInv' /\ RowStep
<1> SUFFICES ASSUME IInv, [Next]_vars PROVE IInv' /\ RowStep
  OBVIOUS
<1>1. CASE Next
  BY <1>1, RequestsInv, EnvironmentInv, RecoveryInv, ClaimingInv, StartingInv, RunningInv,
     EndingInv DEF Next, Step
<1>2. CASE UNCHANGED vars
  <2>1. UNCHANGED <<row, lease, proc, todo, snap>> /\ TypeOK'
    BY ZenonT(40), <1>2 DEF vars, IInv, TypeOK
  <2>2. \A t \in Turn : Same(t)
    BY <2>1 DEF Same
  <2> QED
    BY ZenonT(40), <2>1, <2>2, OutsideInv DEF RowStep
<1> QED
  BY <1>1, <1>2

(* The invariant holds in every reachable state.                           *)
LEMMA Invariance == Spec => []IInv
<1>1. IInv /\ [Next]_vars => IInv'
  BY NextInv
<1> QED
  BY <1>1, InitInv, PTL DEF Spec

(* Rows, lease and processes are always well formed.                       *)
THEOREM TypeCorrect == Spec => []TypeOK
BY Invariance, PTL DEF IInv

(* Only the head of a conversation executes: whatever crashes, expires or  *)
(* is cancelled, every request before a claimed or running one is settled. *)
THEOREM HeadOnlyHolds == Spec => []HeadOnly
BY Invariance, PTL DEF IInv

(* A controller whose lease is live owns what it executes, recovers and    *)
(* absorbs: a failed fenced write does mean that the lease is lost.        *)
THEOREM FenceHoldsAlways == Spec => []FenceHolds
<1>1. IInv => FenceHolds
  BY ZenonT(40) DEF IInv, AllFenced, Fenced, FenceHolds, Busy
<1> QED
  BY <1>1, Invariance, PTL

(* A settled row is never written again.                                   *)
THEOREM SettledForGoodHolds == Spec => SettledForGood
<1> DEFINE Kept == \A t \in Turn : row[t].status \in Terminal => row'[t] = row[t]
<1>1. IInv /\ [Next]_vars => [Kept]_vars
  BY NextInv, RowsInv DEF IInv
<1> QED
  BY <1>1, Invariance, PTL DEF Spec, SettledForGood

-----------------------------------------------------------------------------
(* Refinement.                                                             *)

(* The stage of a row tells which kind of status it has.                   *)
LEMMA StageFacts ==
    ASSUME NEW x \in Status
    PROVE  /\ (StageOf(x) = "absent") <=> (x = "absent")
           /\ (StageOf(x) = "waiting") <=> (x \in Claimable)
           /\ (StageOf(x) = "executing") <=> (x \in {"claimed", "running"})
           /\ (StageOf(x) = "merging") <=> (x = "absorbing")
           /\ (StageOf(x) = "over") <=> (x \in Terminal)
<1>1. CASE x = "absent"
  BY <1>1, StatusFacts DEF StageOf
<1>2. CASE x \in Claimable
  <2>1. StageOf(x) = "waiting"
    BY <1>2, StatusFacts DEF StageOf
  <2> QED
    BY <1>2, <2>1, StatusFacts
<1>3. CASE x \in {"claimed", "running"}
  BY <1>3, StatusFacts DEF StageOf
<1>4. CASE x = "absorbing"
  BY <1>4, StatusFacts DEF StageOf
<1>5. CASE x \in Terminal
  <2>1. StageOf(x) = "over"
    BY <1>5, StatusFacts DEF StageOf
  <2> QED
    BY <1>5, <2>1, StatusFacts
<1> QED
  BY ZenonT(40), <1>1, <1>2, <1>3, <1>4, <1>5, StatusFacts

Stages == [t \in Turn |-> StageOf(row[t].status)]

(* A step on the rows is a step of the first-in-first-out queue, or none.  *)
LEMMA FifoStep ==
    ASSUME TypeOK, TypeOK', Ordered, RowStep
    PROVE  Fifo!Next \/ Stages' = Stages
<1> DEFINE S == Stages
<1>1. Fifo!Slot = Turn /\ \A t \in Turn : \A u \in 1 .. (t - 1) : u \in Turn
  BY TurnAssumption DEF Fifo!Slot, Turn
<1>2. \A t \in Turn :
        /\ row[t].status \in Status /\ row'[t].status \in Status
        /\ S[t] = StageOf(row[t].status) /\ S'[t] = StageOf(row'[t].status)
  BY ZenonT(40) DEF TypeOK, Row, Stages
<1>3. S = [t \in Turn |-> S[t]] /\ S' = [t \in Turn |-> S'[t]]
  BY ZenonT(40) DEF Stages
<1> HIDE DEF S
<1>4. ASSUME NEW t \in Turn, Same(t) \/ Retaken(t) \/ Runs(t) PROVE S'[t] = S[t]
  <2>1. CASE row'[t].status = row[t].status
    BY <1>2, <2>1
  <2>2. CASE row[t].status = "claimed" /\ row'[t].status = "running"
    BY <1>2, <2>2, StageFacts
  <2> QED
    BY ZenonT(40), <1>4, <2>1, <2>2 DEF Same, Retaken, Runs
<1>5. ASSUME NEW t \in Turn, OnlyRow(t), NEW x, S'[t] = x
      PROVE  S' = [S EXCEPT ![t] = x]
  <2>1. \A u \in Turn \ {t} : S'[u] = S[u]
    BY ZenonT(40), <1>2, <1>5 DEF OnlyRow
  <2> QED
    BY <1>3, <1>5, <2>1
<1>6. CASE \A t \in Turn : Same(t) \/ Drops(t)
  <2> DEFINE D == {t \in Turn : Drops(t)}
  <2>1. \A t \in D : S[t] = "waiting" /\ S'[t] = "over"
    BY <1>2, StageFacts, StatusFacts DEF Drops
  <2>2. \A t \in Turn \ D : S'[t] = S[t]
    BY <1>4, <1>6
  <2>3. CASE D = {}
    BY <1>3, <2>2, <2>3 DEF S
  <2>4. CASE D # {}
    <3>1. S' = [t \in Turn |-> IF t \in D THEN "over" ELSE S[t]]
      BY <1>3, <2>1, <2>2
    <3>2. D \subseteq Turn
      OBVIOUS
    <3> HIDE DEF D
    <3>3. Fifo!Finish(D)
      BY ZenonT(40), <1>1, <2>1, <2>4, <3>1 DEF Fifo!Finish, S, Stages
    <3> QED
      BY <1>1, <3>2, <3>3 DEF Fifo!Next
  <2> QED
    BY <2>3, <2>4
<1>7. CASE \E t \in Turn : Retaken(t) /\ OnlyRow(t)
  <2>1. \A t \in Turn : S'[t] = S[t]
    BY ZenonT(40), <1>2, <1>4, <1>7 DEF OnlyRow
  <2> QED
    BY <1>3, <2>1 DEF S
<1>8. ASSUME NEW t \in Turn, Changes(t), OnlyRow(t) PROVE Fifo!Next \/ Stages' = Stages
  <2>1. CASE Ends(t) /\ row'[t].status = "recoverable"
    <3>1. S[t] \in {"executing", "merging"} /\ S'[t] = "waiting"
      BY <1>2, <2>1, StageFacts, StatusFacts DEF Ends
    <3>2. Fifo!Requeue(t)
      BY ZenonT(40), <1>5, <1>8, <3>1 DEF Fifo!Requeue, S, Stages
    <3> QED
      BY <1>1, <3>2 DEF Fifo!Next
  <2>2. CASE (Ends(t) /\ row'[t].status \in Terminal) \/ Drops(t)
    <3>1. S[t] \in {"waiting", "executing", "merging"} /\ S'[t] = "over"
      BY <1>2, <2>2, StageFacts, StatusFacts DEF Ends, Drops
    <3>2. \A u \in Turn \ {t} : S'[u] = S[u]
      BY ZenonT(40), <1>2, <1>8 DEF OnlyRow
    <3>3. S' = [u \in Turn |-> IF u \in {t} THEN "over" ELSE S[u]]
      BY <1>3, <3>1, <3>2
    <3>4. Fifo!Finish({t})
      BY ZenonT(40), <1>1, <3>1, <3>3 DEF Fifo!Finish, S, Stages
    <3> QED
      BY <1>1, <3>4 DEF Fifo!Next
  <2>3. CASE Enters(t)
    <3>1. S[t] = "absent" /\ S'[t] = "waiting" /\ \A u \in 1 .. (t - 1) : S[u] # "absent"
      BY <1>1, <1>2, <2>3, StageFacts, StatusFacts DEF Enters
    <3>2. Fifo!Admit(t)
      BY ZenonT(40), <1>5, <1>8, <3>1 DEF Fifo!Admit, Fifo!Admissible, Fifo!Earlier, S, Stages
    <3> QED
      BY <1>1, <3>2 DEF Fifo!Next
  <2>4. CASE Starts(t)
    <3>1. \A u \in 1 .. (t - 1) : row[u].status \in Terminal
      BY ZenonT(40), <1>1, <1>2, <2>4, StatusFacts DEF Starts, IsHead, Ordered
    <3>2. S[t] = "waiting" /\ S'[t] = "executing" /\ \A u \in 1 .. (t - 1) : S[u] = "over"
      BY <1>1, <1>2, <2>4, <3>1, StageFacts, StatusFacts DEF Starts
    <3>3. Fifo!Start(t)
      BY ZenonT(40), <1>5, <1>8, <3>2 DEF Fifo!Start, Fifo!Earlier, S, Stages
    <3> QED
      BY <1>1, <3>3 DEF Fifo!Next
  <2>5. CASE Runs(t)
    <3>1. \A u \in Turn : S'[u] = S[u]
      BY ZenonT(40), <1>2, <1>4, <1>8, <2>5 DEF OnlyRow
    <3> QED
      BY <1>3, <3>1 DEF S
  <2>6. CASE Joins(t)
    <3>1. /\ S[t] = "waiting" /\ S'[t] = "merging"
          /\ \A u \in 1 .. (t - 1) : S[u] # "waiting"
          /\ \E u \in 1 .. (t - 1) : S[u] = "executing"
      BY <1>1, <1>2, <2>6, StageFacts, StatusFacts DEF Joins
    <3>2. Fifo!Merge(t)
      BY ZenonT(40), <1>5, <1>8, <3>1 DEF Fifo!Merge, Fifo!Earlier, S, Stages
    <3> QED
      BY <1>1, <3>2 DEF Fifo!Next
  <2> QED
    BY ZenonT(40), <1>8, <2>1, <2>2, <2>3, <2>4, <2>5, <2>6 DEF Changes, Ends
<1>9. ASSUME NEW t \in Turn, NEW n \in Turn, t # n,
             row[t].status \in {"claimed", "running"}, row'[t].status \in Terminal, Enters(n),
             \A u \in Turn \ {t, n} : row'[u] = row[u]
      PROVE  Fifo!Next
  <2>1. S[t] = "executing" /\ S'[t] = "over" /\ S[n] = "absent" /\ S'[n] = "waiting"
    BY <1>2, <1>9, StageFacts, StatusFacts DEF Enters
  <2>2. \A u \in 1 .. (n - 1) : S[u] # "absent"
    BY <1>1, <1>2, <1>9, StageFacts, StatusFacts DEF Enters
  <2>3. \A u \in Turn \ {t, n} : S'[u] = S[u]
    BY ZenonT(40), <1>2, <1>9
  <2>4. S' = [S EXCEPT ![t] = "over", ![n] = "waiting"]
    BY <1>3, <1>9, <2>1, <2>3
  <2>5. Fifo!Handoff(t, n)
    BY ZenonT(40), <2>1, <2>2, <2>4 DEF Fifo!Handoff, Fifo!Admissible, Fifo!Earlier, S, Stages
  <2> QED
    BY <1>1, <2>5 DEF Fifo!Next
<1> QED
  BY ZenonT(40), <1>6, <1>7, <1>8, <1>9 DEF RowStep

(* A conversation served by any number of controllers, with any crashes,   *)
(* expiries, retries and cancellations, is one first-in-first-out queue.   *)
THEOREM Refinement == Spec => ImplementsFifo
<1>1. Init => Fifo!Init
  <2>1. StageOf("absent") = "absent"
    BY StageFacts, StatusFacts
  <2> QED
    BY <2>1, NoRowType DEF Init, Fifo!Init, Fifo!Slot, Turn
<1>2. IInv /\ [Next]_vars => [Fifo!Next]_Stages
  BY NextInv, FifoStep DEF IInv
<1>3. IInv /\ [Next]_vars => [Fifo!Next]_([t \in Turn |-> StageOf(row[t].status)])
  BY <1>2 DEF Stages
<1> QED
  BY <1>1, <1>3, Invariance, PTL DEF Spec, ImplementsFifo, Fifo!Spec

=============================================================================
