-------------------------- MODULE DirectTurnsOnce ---------------------------
(***************************************************************************)
(* With a single controller at a time (Peers = FALSE), a message is in the *)
(* canonical history once, as its own turn or inside another one, whatever *)
(* appends are retried, recovered or absorbed, for any number of           *)
(* controllers that follow one another, of turns and of faults.            *)
(***************************************************************************)
EXTENDS DirectTurnsHistory

(* More time for a leaf than the provers have by default, and more tries. *)
USE SMTT(30), ZenonT(30), SMTT(40), SMTT(50)

-----------------------------------------------------------------------------
(* The inductive invariant behind MessageOnce.                             *)

OneAlive ==
    \A c, d \in Controller : ~At(c, {"off", "down"}) /\ ~At(d, {"off", "down"}) => c = d

(* The listed copy of a row is still true, or the row is settled.          *)
Fresh(t, r) ==
    \/ row[t].status \in Terminal
    \/ row[t].status = r.status /\ row[t].token = r.token /\ row[t].out = r.out

RecoveryPc == {"recovering", "held", "decided", "releasing", "tools", "cleared"}
LookingPc == {"held", "decided", "tools", "cleared"}

ListAt(c) ==
    \A s \in todo[c] :
        /\ At(c, RecoveryPc)
        /\ Fresh(s.turn, s.row)
        /\ \A r \in todo[c] : s.turn = r.turn => s = r
        /\ At(c, LookingPc) => s.turn # MyTurn(c)

CopyAt(c) == At(c, {"held", "decided"}) => Fresh(MyTurn(c), snap[c])

(* The requests of the batch wait for their message to land; the message   *)
(* of the turn itself was never absorbed.                                  *)
MineAt(c) ==
    /\ At(c, ExecPc) =>
          /\ \A u \in proc[c].batch :
                row[u].status = "absorbing" /\ row[u].token = proc[c].token
          /\ \A e \in Events : e.kind = "absorbed" => e.turn # MyTurn(c)
    /\ At(c, ToolRecoveryPc) => row[MyTurn(c)].status # "absorbing"

(* An absorbing request that recovery did not find in the history is not   *)
(* on its way there either.                                                *)
NotFoundAt(c) ==
    At(c, {"decided"}) /\ row[MyTurn(c)].status = "absorbing"
        /\ proc[c].found \in {"no", "none"} =>
        \A e \in Events : e.kind = "absorbed" => e.turn # MyTurn(c)

OnceAt(c) == ListAt(c) /\ CopyAt(c) /\ MineAt(c) /\ NotFoundAt(c)

(* The row of an absorbed message is settled, or still absorbing under the *)
(* fence that sent it.                                                     *)
Tracked ==
    \A e \in Events : e.kind = "absorbed" =>
        \/ row[e.turn].status \in Terminal
        \/ row[e.turn].status = "absorbing" /\ row[e.turn].token = e.key

OwnKey == \A e \in Events : e.kind = "own" => e.key = 0

OnceSent ==
    \A e, f \in Events :
        e.turn = f.turn /\ {e.kind, f.kind} \subseteq {"own", "absorbed"} => e = f

AbsorbingPhase ==
    \A t \in Turn : row[t].status = "absorbing" => row[t].out.phase = "canonical_user_append"

OnceInv ==
    /\ OneAlive /\ Tracked /\ OwnKey /\ OnceSent /\ AbsorbingPhase
    /\ \A c \in Controller : OnceAt(c)

-----------------------------------------------------------------------------
(* What a step may do to a row.                                            *)

Stays(t) ==
    row'[t].status = row[t].status /\ row'[t].token = row[t].token /\ row'[t].out = row[t].out

NoneAbsorbed(t) == \A e \in Events : e.kind = "absorbed" => e.turn # t

Tame(t) ==
    \/ Stays(t)
    \/ row'[t].status \in Terminal
    \/ row[t].status # "absorbing" /\ row'[t].status # "absorbing"
    \/ row'[t].status = "recoverable" /\ NoneAbsorbed(t)
    \/ /\ row[t].status \in Claimable /\ row'[t].status = "absorbing"
       /\ row'[t].out.phase = "canonical_user_append"

LEMMA TameOnce ==
    ASSUME IInv, RowStep, Tracked, AbsorbingPhase, \A t \in Turn : Tame(t)
    PROVE  /\ \A e \in Events : e.kind = "absorbed" =>
                 \/ row'[e.turn].status \in Terminal
                 \/ row'[e.turn].status = "absorbing" /\ row'[e.turn].token = e.key
           /\ AbsorbingPhase'
<1>1. \A t \in Turn : row[t].status \in Terminal => row'[t] = row[t]
  BY RowsInv DEF IInv
<1>2. \A e \in Events : e.turn \in Turn  BY DEF IInv, TypeOK, Event, Events
<1>3. ASSUME NEW e \in Events, e.kind = "absorbed"
      PROVE  \/ row'[e.turn].status \in Terminal
             \/ row'[e.turn].status = "absorbing" /\ row'[e.turn].token = e.key
  <2>1. CASE row[e.turn].status \in Terminal  BY <1>1, <1>2, <2>1
  <2>2. CASE row[e.turn].status = "absorbing" /\ row[e.turn].token = e.key
    BY <1>2, <1>3, <2>2, StatusFacts DEF Tame, Stays, NoneAbsorbed
  <2> QED  BY <1>3, <2>1, <2>2 DEF Tracked
<1>4. AbsorbingPhase'
  BY StatusFacts DEF AbsorbingPhase, Tame, Stays
<1> QED  BY <1>3, <1>4

(* A copy stays true when its row is left alone or settled.                *)
LEMMA FreshStays ==
    ASSUME IInv, RowStep, NEW t \in Turn, NEW r, r.status \in Active, Fresh(t, r),
           Stays(t) \/ row'[t].status \in Terminal \/ row[t].status \notin Active
    PROVE  \/ row'[t].status \in Terminal
           \/ row'[t].status = r.status /\ row'[t].token = r.token /\ row'[t].out = r.out
<1>1. row[t].status \in Terminal => row'[t] = row[t]  BY RowsInv DEF IInv
<1> QED  BY <1>1, StatusFacts DEF Fresh, Stays

(* While one controller is alive the others have nothing.                  *)
LEMMA OthersOnce ==
    ASSUME OnceInv, NEW c \in Controller, ~At(c, {"off", "down"}), MovesOnly(c),
           \A d \in Controller \ {c} : todo'[d] = todo[d] /\ snap'[d] = snap[d]
    PROVE  OneAlive' /\ \A d \in Controller \ {c} : OnceAt(d)'
<1>1. \A d \in Controller \ {c} : proc'[d] = proc[d] /\ At(d, {"off", "down"})
  BY DEF OnceInv, OneAlive, MovesOnly
<1>2. OneAlive'  BY <1>1 DEF OneAlive, At
<1>3. {"off", "down"} \cap (ExecPc \cup ToolRecoveryPc \cup RecoveryPc) = {}
  BY PcFacts DEF RecoveryPc, Busy
<1>4. ASSUME NEW d \in Controller \ {c} PROVE OnceAt(d)'
  <2>1. todo'[d] = {}
    BY <1>1, <1>3 DEF OnceInv, OnceAt, ListAt, At
  <2>2. proc'[d].pc \in {"off", "down"}  BY <1>1 DEF At
  <2> QED  BY <1>3, <2>1, <2>2 DEF OnceAt, ListAt, CopyAt, MineAt, NotFoundAt, At
<1> QED  BY <1>2, <1>4

(* A step of a controller that sends nothing.                              *)
LEMMA OnceCombine ==
    ASSUME IInv, RowStep, OnceInv, NEW c \in Controller, ~At(c, {"off", "down"}),
           MovesOnly(c), \A d \in Controller \ {c} : todo'[d] = todo[d] /\ snap'[d] = snap[d],
           \A t \in Turn : Tame(t), Events' \subseteq Events, OnceAt(c)'
    PROVE  OnceInv'
<1>1. OneAlive' /\ \A d \in Controller : OnceAt(d)'  BY OthersOnce
<1>2. Tracked' /\ AbsorbingPhase'
  BY TameOnce DEF OnceInv, Tracked
<1>3. OwnKey' /\ OnceSent'  BY DEF OnceInv, OwnKey, OnceSent
<1> QED  BY <1>1, <1>2, <1>3 DEF OnceInv

-----------------------------------------------------------------------------
(* A controller that executes a turn goes on with it or leaves, and may    *)
(* write the row of the turn.                                              *)

LEMMA ExecOnce ==
    ASSUME IInv, RowStep, OnceInv, NEW c \in Controller, NEW l, Label(c, l), At(c, ExecPc),
           l \in ExecPc \cup Done, UNCHANGED <<todo, snap>>, Events' \subseteq Events,
           \/ row' = row
           \/ /\ OnlyRow(MyTurn(c)) /\ row[MyTurn(c)].status # "absorbing"
              /\ row'[MyTurn(c)].status # "absorbing"
    PROVE  OnceInv'
<1> DEFINE t == MyTurn(c)
<1>1. /\ {"off", "down", "held", "decided"} \cap (ExecPc \cup Done) = {}
      /\ ToolRecoveryPc \cap (ExecPc \cup Done) = {} /\ Done \cap ExecPc = {}
      /\ RecoveryPc \cap ExecPc = {}
  BY DEF RecoveryPc, Done, ToolRecoveryPc, ExecPc, RunPc, TaskPc, LoopPc, PreLaunchPc
<1>2. /\ \A u \in proc[c].batch : row[u].status = "absorbing" /\ row[u].token = proc[c].token
      /\ \A e \in Events : e.kind = "absorbed" => e.turn # t
      /\ todo[c] = {}
  BY <1>1 DEF OnceInv, OnceAt, MineAt, ListAt, At
<1>3. t \in Turn /\ proc[c].batch \subseteq Turn /\ t \notin proc[c].batch
  BY ZenonT(40), ProcFacts DEF IInv, Batched, BatchedAt, MyTurn
<1>4. \A u \in Turn : Tame(u)
  BY DEF Tame, Stays, OnlyRow
<1>5. \A u \in proc[c].batch : row'[u] = row[u]
  BY <1>3 DEF OnlyRow
<1>6. OnceAt(c)'
  <2>1. MineAt(c)'
    BY <1>1, <1>2, <1>5 DEF MineAt, Label, SameTurn, At, MyTurn
  <2> QED  BY <1>1, <1>2, <2>1 DEF OnceAt, ListAt, CopyAt, NotFoundAt, Label, At
<1>7. ~At(c, {"off", "down"})  BY <1>1 DEF At
<1> QED  BY <1>4, <1>6, <1>7, OnceCombine DEF Label

(* What the controller owns as its turn is not being absorbed.             *)
LEMMA OwnTurn ==
    ASSUME IInv, NEW c \in Controller, At(c, ExecPc), Owns(c, MyTurn(c))
    PROVE  row[MyTurn(c)].status \in {"claimed", "running"}
BY PcFacts DEF IInv, AllFenced, Fenced, Owns, At

LEMMA OutOnce ==
    ASSUME IInv, RowStep, OnceInv, NEW c \in Controller, NEW o, NEW l, Label(c, l),
           At(c, ExecPc), l \in ExecPc, Owns(c, MyTurn(c)), OutSet(MyTurn(c), o),
           UNCHANGED <<todo, snap, wire, history>>
    PROVE  OnceInv'
<1>1. row[MyTurn(c)].status # "absorbing"  BY OwnTurn
<1>2. OnlyRow(MyTurn(c)) /\ row'[MyTurn(c)].status # "absorbing"  BY <1>1 DEF OutSet
<1>3. Events' \subseteq Events  BY DEF Events
<1> QED  BY <1>1, <1>2, <1>3, ExecOnce

LEMMA CheckpointOnce ==
    ASSUME IInv, RowStep, OnceInv, NEW c \in Controller, NEW p, NEW a, NEW l,
           Checkpoint(c, p, a, l), At(c, ExecPc), l \in ExecPc,
           UNCHANGED <<todo, snap, wire, history>>
    PROVE  OnceInv'
<1> DEFINE m == IF row[MyTurn(c)].cancel THEN "cancelling" ELSE l
<1>1. /\ OutSet(MyTurn(c), Checkpointed(row[MyTurn(c)].out, p, a)) /\ Label(c, m)
      /\ Owns(c, MyTurn(c))
  BY CheckpointFlat DEF IInv, CheckpointEffect
<1>2. m \in ExecPc  BY PcFacts
<1> HIDE DEF m
<1> QED  BY <1>1, <1>2, OutOnce

LEMMA EndOnce ==
    ASSUME IInv, RowStep, OnceInv, NEW c \in Controller, NEW s, NEW o, NEW l \in Done,
           EndAt(c, s, o, l), At(c, ExecPc), s # "absorbing",
           UNCHANGED <<todo, snap, wire, history>>
    PROVE  OnceInv'
<1>1. /\ RowSet(MyTurn(c), s, o) /\ Label(c, l) /\ Owns(c, MyTurn(c))
  BY EndFlat DEF IInv
<1>2. row[MyTurn(c)].status # "absorbing"  BY <1>1, OwnTurn
<1>3. OnlyRow(MyTurn(c)) /\ row'[MyTurn(c)].status # "absorbing"  BY <1>1 DEF RowSet
<1>4. Events' \subseteq Events  BY DEF Events
<1> QED  BY <1>1, <1>2, <1>3, <1>4, ExecOnce

LEMMA GotoOnce ==
    ASSUME IInv, RowStep, OnceInv, NEW c \in Controller, NEW l, Goto(c, l), At(c, ExecPc),
           l \in ExecPc \cup Done, UNCHANGED <<row, todo, snap, wire, history>>
    PROVE  OnceInv'
<1>1. Label(c, l)  BY GotoFlat DEF IInv
<1>2. Events' \subseteq Events  BY DEF Events
<1> QED  BY <1>1, <1>2, ExecOnce

(* A request is sent: nothing of the kind is on its way or has landed.     *)
LEMMA SendOnce ==
    ASSUME IInv, RowStep, OnceInv, HistInv, NEW c \in Controller, NEW e, NEW l,
           SendAppend(c, {e}, l), At(c, ExecPc), l \in ExecPc,
           \/ e.kind \in {"interim", "final"}
           \/ e = OwnEvent(MyTurn(c))
           \/ \E u \in proc[c].batch : e = AbsorbedEvent(c, u)
    PROVE  OnceInv'
<1> DEFINE t == MyTurn(c)
<1>1. /\ Label(c, l) /\ UNCHANGED <<row, todo, snap, history>>
      /\ wire' = wire \cup ({e} \ history)
  BY GotoFlat DEF SendAppend, IInv
<1>2. Events' \subseteq Events \cup {e}  BY <1>1 DEF Events
<1>3. /\ {"off", "down", "held", "decided"} \cap ExecPc = {} /\ ToolRecoveryPc \cap ExecPc = {}
      /\ RecoveryPc \cap ExecPc = {}
  BY DEF RecoveryPc, ToolRecoveryPc, ExecPc, RunPc, TaskPc, LoopPc, PreLaunchPc
<1>4. /\ \A u \in proc[c].batch : row[u].status = "absorbing" /\ row[u].token = proc[c].token
      /\ \A f \in Events : f.kind = "absorbed" => f.turn # t
      /\ todo[c] = {}
  BY <1>3 DEF OnceInv, OnceAt, MineAt, ListAt, At
<1>5. t \notin proc[c].batch  BY DEF IInv, Batched, BatchedAt, MyTurn
<1>6. e.kind = "absorbed" => /\ row[e.turn].status = "absorbing" /\ row[e.turn].token = e.key
                             /\ e.turn \in proc[c].batch /\ e = AbsorbedEvent(c, e.turn)
  BY <1>4 DEF OwnEvent, AbsorbedEvent
<1>7. e.kind = "own" => e = OwnEvent(t)
  BY DEF OwnEvent, AbsorbedEvent
<1>8. Tracked' /\ OwnKey' /\ AbsorbingPhase'
  BY <1>1, <1>2, <1>6, <1>7 DEF OnceInv, Tracked, OwnKey, AbsorbingPhase, OwnEvent
<1>9. ASSUME NEW f \in Events, e.turn = f.turn, {e.kind, f.kind} \subseteq {"own", "absorbed"}
      PROVE  e = f
  <2>1. CASE e.kind = "own" /\ f.kind = "own"
    <3>1. f.key = 0 /\ f \in Event /\ e = OwnEvent(t)
      BY <1>7, <2>1 DEF OnceInv, OwnKey, Events, IInv, TypeOK
    <3>2. f = [turn |-> f.turn, kind |-> f.kind, key |-> f.key]  BY <3>1 DEF Event
    <3> QED  BY <1>9, <2>1, <3>1, <3>2 DEF OwnEvent
  <2>2. CASE e.kind = "own" /\ f.kind = "absorbed"
    BY <1>4, <1>7, <1>9, <2>2 DEF OwnEvent
  <2>3. CASE e.kind = "absorbed" /\ f.kind = "own"
    BY ZenonT(40), <1>6, <1>9, <2>3 DEF HistInv, RepliesBegun, Begun
  <2>4. CASE e.kind = "absorbed" /\ f.kind = "absorbed"
    <3>1. f \in Event  BY DEF Events, IInv, TypeOK
    <3>2. f = [turn |-> f.turn, kind |-> f.kind, key |-> f.key]  BY <3>1 DEF Event
    <3>3. f.key = row[f.turn].token
      BY ZenonT(40), <1>6, <1>9, <2>4, StatusFacts DEF OnceInv, Tracked
    <3>4. e = [turn |-> e.turn, kind |-> "absorbed", key |-> proc[c].token]
      BY <1>6, <2>4 DEF AbsorbedEvent
    <3> QED  BY <1>4, <1>6, <1>9, <2>4, <3>2, <3>3, <3>4
  <2> QED  BY <1>9, <2>1, <2>2, <2>3, <2>4
<1>10. OnceSent'  BY <1>2, <1>9 DEF OnceInv, OnceSent
<1>11. OnceAt(c)'
  <2>1. MineAt(c)'
    BY ZenonT(40), <1>1, <1>2, <1>3, <1>4, <1>5, <1>6 DEF MineAt, Label, SameTurn, At, MyTurn
  <2> QED  BY <1>1, <1>3, <1>4, <2>1 DEF OnceAt, ListAt, CopyAt, NotFoundAt, Label, At
<1>12. ~At(c, {"off", "down"})  BY <1>3 DEF At
<1>13. OneAlive' /\ \A d \in Controller : OnceAt(d)'
  BY <1>1, <1>11, <1>12, OthersOnce DEF Label
<1> QED  BY <1>8, <1>10, <1>13 DEF OnceInv

-----------------------------------------------------------------------------
(* Every step keeps the invariant.                                         *)

LEMMA StartingOnce ==
    ASSUME IInv, RowStep, OnceInv, HistInv, NEW c \in Controller, Starting(c)
    PROVE  OnceInv'
<1> DEFINE t == MyTurn(c)
<1>1. TypeOK /\ t \in Turn  BY ProcFacts DEF IInv
<1>2. "releasing" \in Done
      /\ {"start", "reconcile", "launch", "uncertain", "append", "appending", "appended",
          "running", "model", "cancelling"} \subseteq ExecPc
  BY DEF Done, ExecPc, RunPc, TaskPc, LoopPc, PreLaunchPc
<1>3. CASE FirstCheckpoint(c)
  <2> DEFINE l == IF row[t].cancel THEN "cancelling"
                  ELSE IF proc[c].app = "user_append_uncertain" THEN "reconcile" ELSE "launch"
             o == IF proc[c].app = "none" THEN Checkpointed(row[t].out, "claimed", "none")
                  ELSE [Checkpointed(row[t].out, row[t].out.phase, proc[c].app)
                           EXCEPT !.note = row[t].out.note]
  <2>1. /\ Goto(c, l) /\ row' = [row EXCEPT ![t].out = o] /\ Owns(c, t) /\ At(c, ExecPc)
        /\ UNCHANGED <<todo, snap, wire, history>>
    BY <1>2, <1>3 DEF FirstCheckpoint, external, At
  <2>2. l \in ExecPc  BY <1>2
  <2> HIDE DEF l, o
  <2>3. OutSet(t, o) /\ Label(c, l)  BY ZenonT(40), <1>1, <2>1, OutFlat, GotoFlat
  <2> QED  BY <2>1, <2>2, <2>3, OutOnce
<1>4. CASE ReconcileOwnAppend(c)
  <2> DEFINE p == IF Reconciled(t, "user_append_uncertain")
                  THEN "user_appended" ELSE "user_append_pending"
             o == Checkpointed(row[t].out, p, p)
  <2>1. /\ proc' = [proc EXCEPT ![c] = [proc[c] EXCEPT !.app = p, !.pc = "launch"]]
        /\ row' = [row EXCEPT ![t].out = o]
    BY <1>4 DEF ReconcileOwnAppend
  <2>2. UNCHANGED <<todo, snap, wire, history>> /\ Owns(c, t) /\ At(c, ExecPc)
    BY <1>2, <1>4 DEF ReconcileOwnAppend, external, At
  <2> HIDE DEF p, o
  <2>3. Label(c, "launch") /\ OutSet(t, o)  BY ZenonT(40), <1>1, <2>1, AppFlat, OutFlat DEF AppEffect
  <2> QED  BY <1>2, <2>2, <2>3, OutOnce
<1>5. CASE PayloadError(c)
  BY <1>2, <1>5, EndOnce DEF PayloadError, MarkTerminal, End, external, At
<1>6. CASE ReconcileOwnAppendFails(c)
  BY <1>2, <1>6, EndOnce DEF ReconcileOwnAppendFails, End, external, At
<1>7. CASE LocalBusy(c)
  BY <1>2, <1>7, EndOnce DEF LocalBusy, End, external, At
<1>8. CASE Launch(c)
  <2>1. CASE Resumes(c)
    <3>1. Label(c, "model")  BY ZenonT(40), <1>1, <1>8, <2>1, AppFlat DEF Launch, AppEffect
    <3>2. /\ UNCHANGED <<row, todo, snap>> /\ Events' \subseteq Events /\ At(c, ExecPc)
      BY <1>2, <1>8, <2>1 DEF Launch, external, Events, At
    <3> QED  BY <1>2, <3>1, <3>2, ExecOnce
  <2>2. CASE ~Resumes(c)
    BY <1>2, <1>8, <2>2, CheckpointOnce DEF Launch, At, external
  <2> QED  BY <2>1, <2>2
<1>9. CASE BeginUserAppend(c)
  BY <1>2, <1>9, CheckpointOnce DEF BeginUserAppend, At, external
<1>10. CASE SendUserAppend(c)
  BY ZenonT(40), <1>2, <1>10, SendOnce DEF SendUserAppend, At
<1>11. CASE UserAppended(c)
  BY <1>2, <1>11, CheckpointOnce DEF UserAppended, At, external
<1>12. CASE MarkRunning(c)
  <2>1. UNCHANGED <<todo, snap>> /\ Events' \subseteq Events /\ At(c, ExecPc)
    BY <1>2, <1>12 DEF MarkRunning, At, external, Events
  <2>2. Label(c, "running") /\ RowSet(t, "running", row[t].out) /\ row[t].status = "claimed"
    BY ZenonT(40), <1>1, <1>12, MarkRunningFlat DEF MarkRunningEffect
  <2> QED  BY ZenonT(40), <1>2, <2>1, <2>2, ExecOnce DEF RowSet
<1>13. CASE ModelWait(c)
  BY <1>2, <1>13, CheckpointOnce DEF ModelWait, At, external
<1> QED
  BY <1>3, <1>4, <1>5, <1>6, <1>7, <1>8, <1>9, <1>10, <1>11, <1>12, <1>13 DEF Starting

LEMMA EndingOnce ==
    ASSUME IInv, RowStep, OnceInv, NEW c \in Controller, Ending(c)
    PROVE  OnceInv'
<1> DEFINE t == MyTurn(c)
<1>1. {"releasing", "draining"} = Done /\ TaskPc \cup LoopPc \cup {"flushing"} \subseteq ExecPc
      /\ PreLaunchPc \cup RunPc \subseteq ExecPc /\ {"failing", "cancelling"} \subseteq ExecPc
  BY PcFacts DEF Done, ExecPc, RunPc, TaskPc
<1>2. FailedOrCancelled(c) \in {"failed", "cancelled"}  BY DEF FailedOrCancelled
<1>3. CASE StepFails(c)
  BY ZenonT(40), <1>1, <1>3, CheckpointOnce DEF StepFails, At, external
<1>4. ASSUME NEW done \in BOOLEAN, Flush(c, done) PROVE OnceInv'
  BY <1>1, <1>4, CheckpointOnce DEF Flush, At
<1>5. CASE SettleFailed(c)
  BY <1>1, <1>2, <1>5, EndOnce DEF SettleFailed, MarkTerminal, End, external, At
<1>6. ASSUME NEW unavailable \in BOOLEAN, SettleTransient(c, unavailable) PROVE OnceInv'
  BY <1>1, <1>2, <1>6, EndOnce DEF SettleTransient, MarkTerminal, End, external, At
<1>7. CASE ControllerError(c)
  BY <1>1, <1>7, EndOnce DEF ControllerError, MarkTerminal, End, external, At
<1>8. CASE RenewalError(c)
  <2>1. At(c, ExecPc)  BY <1>1, <1>8 DEF RenewalError, At
  <2> QED
    BY <1>1, <1>8, <2>1, EndOnce, GotoOnce DEF RenewalError, MarkTerminal, End, external
<1>9. CASE WatchCancellation(c)
  BY ZenonT(40), <1>1, <1>9, GotoOnce DEF WatchCancellation, external, At
<1>10. CASE SettleCancelled(c)
  BY ZenonT(40), <1>1, <1>10, EndOnce DEF SettleCancelled, MarkTerminal, End, external, At
<1>11. CASE StaleExit(c)
  <2>1. Goto(c, "releasing") /\ UNCHANGED <<row, todo, snap, wire, history>>
    BY ZenonT(40), <1>11 DEF StaleExit, external
  <2>2. CASE At(c, ExecPc)  BY <1>1, <2>1, <2>2, GotoOnce
  <2>3. CASE At(c, ToolRecoveryPc)
    <3>1. Label(c, "releasing") /\ Events' = Events
      BY <2>1, GotoFlat DEF IInv, Events
    <3>2. "releasing" \notin ExecPc \cup ToolRecoveryPc \cup LookingPc /\ "releasing" \in RecoveryPc
      BY PcFacts, <1>1 DEF LookingPc, RecoveryPc, Busy
    <3>3. OnceAt(c)  BY DEF OnceInv
    <3>4. OnceAt(c)'
      BY ZenonT(40), <2>1, <3>1, <3>2, <3>3
         DEF OnceAt, ListAt, CopyAt, MineAt, NotFoundAt, Fresh, Label, At, LookingPc
    <3>5. ~At(c, {"off", "down"})  BY <2>3, PcFacts DEF At, ToolRecoveryPc
    <3> QED  BY <2>1, <3>1, <3>4, <3>5, OnceCombine DEF Label, Tame, Stays
  <2> QED  BY ZenonT(40), <1>11, <2>2, <2>3 DEF StaleExit, At
<1>12. CASE Drain(c)
  BY <1>1, <1>12, EndOnce DEF Drain, external, At
<1>13. CASE Stop(c)
  BY <1>1, <1>13, EndOnce DEF Stop, external, At
<1> QED
  BY <1>3, <1>4, <1>5, <1>6, <1>7, <1>8, <1>9, <1>10, <1>11, <1>12, <1>13 DEF Ending

LEMMA RunningOnce ==
    ASSUME IInv, RowStep, OnceInv, HistInv, NEW c \in Controller, Running(c)
    PROVE  OnceInv'
<1> DEFINE t == MyTurn(c)
<1>1. TypeOK /\ t \in Turn  BY ProcFacts DEF IInv
<1>2. "releasing" \in Done
      /\ {"model", "calling", "recorded", "bound", "waiting", "resulted", "interim",
          "interimwait", "answer", "answerwait", "responded", "absorbing", "absorbsend",
          "absorbwait", "absorbnext", "cancelling"} \subseteq ExecPc
  BY DEF Done, ExecPc, RunPc, TaskPc, LoopPc
<1>3. ASSUME NEW k \in Call, CallTool(c, k) PROVE OnceInv'
  <2> DEFINE l == IF row[t].cancel THEN "cancelling" ELSE "calling"
             o == Checkpointed(row[t].out, "append_tool", proc[c].app)
  <2>1. /\ proc' = [proc EXCEPT ![c] = [proc[c] EXCEPT !.calls = {k}, !.pc = l]]
        /\ row' = [row EXCEPT ![t].out = o]
    BY <1>3 DEF CallTool
  <2>2. At(c, ExecPc) /\ Owns(c, t) /\ UNCHANGED <<todo, snap, wire, history>>
    BY <1>2, <1>3 DEF CallTool, At
  <2>3. l \in ExecPc  BY <1>2
  <2> HIDE DEF l, o
  <2>4. Label(c, l) /\ OutSet(t, o)  BY ZenonT(40), <1>1, <2>1, CallsFlat, OutFlat DEF CallsEffect
  <2> QED  BY <2>2, <2>3, <2>4, OutOnce
<1>4. CASE CompleteToolDispatch(c)
  <2> DEFINE l == IF row[t].cancel THEN "cancelling" ELSE "model"
             o == Out("tool_result_persisted", proc[c].app)
  <2>1. /\ proc' = [proc EXCEPT ![c] = [proc[c] EXCEPT !.calls = {}, !.pc = l]]
        /\ row' = [row EXCEPT ![t].out = o]
    BY <1>4 DEF CompleteToolDispatch
  <2>2. At(c, ExecPc) /\ Owns(c, t) /\ UNCHANGED <<todo, snap, wire, history>>
    BY <1>2, <1>4 DEF CompleteToolDispatch, At, external
  <2>3. l \in ExecPc  BY <1>2
  <2> HIDE DEF l, o
  <2>4. Label(c, l) /\ OutSet(t, o)  BY ZenonT(40), <1>1, <2>1, CallsFlat, OutFlat DEF CallsEffect
  <2> QED  BY <2>2, <2>3, <2>4, OutOnce
<1>5. CASE RecordToolDispatch(c)
  <2> DEFINE l == IF row[t].cancel THEN "cancelling" ELSE "recorded"
             o == [Out("tool_in_flight", proc[c].app) EXCEPT !.journal = proc[c].calls]
  <2>1. /\ Goto(c, l) /\ row' = [row EXCEPT ![t].out = o] /\ At(c, ExecPc) /\ Owns(c, t)
        /\ UNCHANGED <<todo, snap, wire, history>>
    BY <1>2, <1>5 DEF RecordToolDispatch, At, external
  <2>2. l \in ExecPc  BY <1>2
  <2> HIDE DEF l, o
  <2>3. OutSet(t, o) /\ Label(c, l)  BY ZenonT(40), <1>1, <2>1, OutFlat, GotoFlat
  <2> QED  BY <2>1, <2>2, <2>3, OutOnce
<1>6. CASE BindToolDispatch(c)
  BY ZenonT(40), <1>2, <1>6, GotoOnce DEF BindToolDispatch, At, external
<1>7. CASE SendTool(c)
  BY ZenonT(40), <1>2, <1>7, GotoOnce DEF SendTool, At
<1>8. CASE ToolReturns(c)
  BY <1>2, <1>8, GotoOnce DEF ToolReturns, At
<1>9. ASSUME NEW l \in {"interim", "answer"}, BeginAssistant(c, l) PROVE OnceInv'
  BY <1>2, <1>9, CheckpointOnce DEF BeginAssistant, At, external
<1>10. CASE SendInterim(c)
  BY ZenonT(40), <1>2, <1>10, SendOnce DEF SendInterim, MyEvent, At
<1>11. CASE InterimAppended(c)
  BY ZenonT(40), <1>2, <1>11, GotoOnce DEF InterimAppended, At, external
<1>12. CASE SendAnswer(c)
  BY ZenonT(40), <1>2, <1>12, SendOnce DEF SendAnswer, MyEvent, At
<1>13. CASE ModelResponse(c)
  BY ZenonT(40), <1>2, <1>13, CheckpointOnce DEF ModelResponse, At, external
<1>14. CASE Complete(c)
  BY ZenonT(40), <1>2, <1>14, EndOnce DEF Complete, MarkTerminal, End, external, At
<1>15. ASSUME NEW n \in Turn, Handoff(c, n) PROVE OnceInv'
  <2>1. /\ row[n].status = "absent" /\ row'[n].status = "queued" /\ row'[t].status = "completed"
        /\ \A u \in Turn \ {t, n} : row'[u] = row[u]
        /\ Label(c, "releasing") /\ At(c, {"responded"})
    BY ZenonT(40), <1>1, <1>15, HandoffFlat DEF HandoffEffect
  <2>2. UNCHANGED <<todo, snap>> /\ Events' \subseteq Events
    BY <1>15 DEF Handoff, external, Events
  <2>3. \A u \in Turn : Tame(u)  BY ZenonT(40), <2>1, StatusFacts DEF Tame, Stays
  <2>4. /\ "responded" \notin RecoveryPc \cup {"off", "down"}
        /\ "releasing" \notin ExecPc \cup ToolRecoveryPc \cup {"held", "decided"}
    BY PcFacts DEF RecoveryPc, Done, Busy
  <2>5. todo[c] = {}  BY ZenonT(40), <2>1, <2>4 DEF OnceInv, OnceAt, ListAt, At
  <2>6. OnceAt(c)'
    BY ZenonT(40), <2>1, <2>2, <2>4, <2>5 DEF OnceAt, ListAt, CopyAt, MineAt, NotFoundAt, Label, At
  <2>7. ~At(c, {"off", "down"})  BY <2>1 DEF At
  <2> QED  BY ZenonT(40), <2>1, <2>2, <2>3, <2>6, <2>7, OnceCombine DEF Label
(* The batch grows or shrinks by one request.                              *)
<1>16. ASSUME NEW u \in Turn, At(c, ExecPc), proc'[c].pc \in ExecPc, MovesOnly(c), OnlyRow(u),
              Tame(u), proc'[c].turn = t, proc'[c].token = proc[c].token,
              UNCHANGED <<todo, snap, wire, history>>,
              \/ /\ proc'[c].batch = proc[c].batch \cup {u}
                 /\ row'[u].status = "absorbing" /\ row'[u].token = proc[c].token
              \/ proc'[c].batch = proc[c].batch \ {u}
       PROVE  OnceInv'
  <2>1. /\ {"off", "down", "held", "decided"} \cap ExecPc = {} /\ ToolRecoveryPc \cap ExecPc = {}
        /\ RecoveryPc \cap ExecPc = {}
    BY DEF RecoveryPc, ToolRecoveryPc, ExecPc, RunPc, TaskPc, LoopPc, PreLaunchPc
  <2>2. /\ \A v \in proc[c].batch : row[v].status = "absorbing" /\ row[v].token = proc[c].token
        /\ \A e \in Events : e.kind = "absorbed" => e.turn # t
        /\ todo[c] = {} /\ proc[c].batch \subseteq Turn
    BY ZenonT(40), <1>1, <1>16, <2>1, ProcFacts DEF OnceInv, OnceAt, MineAt, ListAt, At
  <2>3. \A v \in Turn : Tame(v)  BY ZenonT(40), <1>16 DEF Tame, Stays, OnlyRow
  <2>4. Events' = Events  BY ZenonT(40), <1>16 DEF Events
  <2>5. \A v \in proc'[c].batch : row'[v].status = "absorbing" /\ row'[v].token = proc'[c].token
    BY ZenonT(40), <1>16, <2>2 DEF OnlyRow
  <2>6. MineAt(c)'
    BY ZenonT(40), <1>16, <2>1, <2>2, <2>4, <2>5 DEF MineAt, At, MyTurn
  <2>7. OnceAt(c)'
    BY ZenonT(40), <1>16, <2>1, <2>2, <2>6 DEF OnceAt, ListAt, CopyAt, NotFoundAt, At
  <2>8. ~At(c, {"off", "down"})  BY ZenonT(40), <1>16, <2>1 DEF At
  <2> QED  BY ZenonT(40), <1>16, <2>3, <2>4, <2>7, <2>8, OnceCombine
<1>17. ASSUME NEW u \in Turn, BeginAbsorb(c, u) PROVE OnceInv'
  <2>1. /\ row[u].status \in Claimable /\ OnlyRow(u) /\ row'[u].status = "absorbing"
        /\ row'[u].token = proc[c].token /\ row'[u].out = Out("canonical_user_append", "none")
        /\ MovesOnly(c) /\ proc'[c].pc = "absorbing" /\ proc'[c].turn = t
        /\ proc'[c].token = proc[c].token /\ proc'[c].batch = proc[c].batch \cup {u}
        /\ At(c, {"model", "absorbing"})
    <3>1. BeginAbsorbEffect(c, u)  BY <1>1, <1>17, BeginAbsorbFlat
    <3> QED  BY ZenonT(40), <3>1 DEF MyTurn, BeginAbsorbEffect
  <2>2. Tame(u)
    <3>1. row'[u].out.phase = "canonical_user_append"  BY <2>1 DEF Out
    <3> QED  BY ZenonT(40), <2>1, <3>1 DEF Tame
  <2>3. UNCHANGED <<todo, snap, wire, history>>  BY <1>17 DEF BeginAbsorb, external
  <2> QED  BY ZenonT(40), <1>2, <1>16, <2>1, <2>2, <2>3 DEF At
<1>18. ASSUME NEW u \in Turn, AbsorbAppend(c, u) PROVE OnceInv'
  BY ZenonT(40), <1>2, <1>18, CheckpointOnce DEF AbsorbAppend, At, external
<1>19. ASSUME NEW u \in Turn, SendAbsorbed(c, u) PROVE OnceInv'
  BY ZenonT(40), <1>2, <1>19, SendOnce DEF SendAbsorbed, NextAbsorbed, At
<1>20. ASSUME NEW u \in Turn, MarkAbsorbed(c, u) PROVE OnceInv'
  <2>1. /\ RowSet(u, "absorbed", Out("terminal", "none"))
        /\ MovesOnly(c) /\ proc'[c].pc \in {"model", "absorbnext"} /\ proc'[c].turn = t
        /\ proc'[c].token = proc[c].token /\ proc'[c].batch = proc[c].batch \ {u}
        /\ At(c, {"absorbwait"})
    BY ZenonT(40), <1>1, <1>20, MarkAbsorbedFlat DEF MyTurn, MarkAbsorbedEffect
  <2>2. Tame(u) /\ OnlyRow(u)  BY ZenonT(40), <2>1, StatusFacts DEF Tame, RowSet
  <2>3. UNCHANGED <<todo, snap, wire, history>>  BY <1>20 DEF MarkAbsorbed, external
  <2> QED  BY ZenonT(40), <1>2, <1>16, <2>1, <2>2, <2>3 DEF At
<1> QED
  BY <1>3, <1>4, <1>5, <1>6, <1>7, <1>8, <1>9, <1>10, <1>11, <1>12, <1>13, <1>14, <1>15, <1>17,
     <1>18, <1>19, <1>20 DEF Running

(* A controller leaves the row it looks at: the rest of its list stays     *)
(* true.                                                                   *)
LEMMA ListStays ==
    ASSUME IInv, RowStep, OnceInv, NEW c \in Controller, At(c, LookingPc), OnlyRow(MyTurn(c)),
           todo' = todo, proc'[c].pc \in RecoveryPc, proc'[c].turn = proc[c].turn
    PROVE  ListAt(c)'
<1>1. ListAt(c)  BY ZenonT(40) DEF OnceInv, OnceAt
<1>2. \A s \in todo[c] : s.turn \in Turn  BY DEF IInv, TypeOK
<1>3. \A s \in todo[c] : /\ s.turn # MyTurn(c) /\ Fresh(s.turn, s.row)
                         /\ \A r \in todo[c] : s.turn = r.turn => s = r
  BY ZenonT(40), <1>1 DEF ListAt
<1>4. \A s \in todo[c] : row'[s.turn] = row[s.turn]  BY ZenonT(40), <1>2, <1>3 DEF OnlyRow
<1> QED  BY ZenonT(40), <1>3, <1>4 DEF ListAt, Fresh, At, MyTurn

(* A controller settles or hands back the row it looks at and lets go.     *)
LEMMA LetGoOnce ==
    ASSUME IInv, RowStep, OnceInv, NEW c \in Controller, At(c, LookingPc),
           Label(c, "releasing"), OnlyRow(MyTurn(c)), Tame(MyTurn(c)),
           UNCHANGED <<todo, snap, wire, history>>
    PROVE  OnceInv'
<1>1. /\ "releasing" \notin ExecPc \cup ToolRecoveryPc \cup {"held", "decided"}
      /\ "releasing" \in RecoveryPc /\ LookingPc \cap {"off", "down"} = {}
  BY PcFacts DEF RecoveryPc, LookingPc, Done, Busy
<1>2. ListAt(c)'  BY <1>1, ListStays DEF Label, SameTurn
<1>3. OnceAt(c)'  BY ZenonT(40), <1>1, <1>2 DEF OnceAt, CopyAt, MineAt, NotFoundAt, Label, At
<1>4. \A t \in Turn : Tame(t)  BY ZenonT(40) DEF Tame, Stays, OnlyRow
<1>5. Events' \subseteq Events /\ ~At(c, {"off", "down"})  BY ZenonT(40), <1>1 DEF Events, At
<1> QED  BY ZenonT(40), <1>3, <1>4, <1>5, OnceCombine DEF Label

(* An absorbing request goes back to the queue only when its message was   *)
(* not found.                                                              *)
LEMMA VerdictOnce ==
    ASSUME NEW s \in Row, s.status = "absorbing", s.out.phase = "canonical_user_append",
           NEW found \in {"none", "yes", "no", "error"}
    PROVE  Verdict(s, found).to \in Terminal \/ found \in {"none", "no"}
<1>1. Verdict(s, found) = AppendVerdict(s, found)  BY DEF Verdict
<1>2. CASE found = "error"
  BY <1>1, <1>2, StatusFacts DEF AppendVerdict, MarkStaleAmbiguous, Settle
<1>3. CASE found = "yes"
  BY <1>1, <1>3, StatusFacts DEF AppendVerdict, Settle
<1> QED  BY <1>2, <1>3

(* What recovery reads of an absorbing request whose quarantine is over.   *)
LEMMA JudgeOnce ==
    ASSUME IInv, RowStep, OnceInv, NEW c \in Controller, NEW f, Judge(c, f),
           f \in {"no", "none"} => f \in Findings(MyTurn(c), snap[c].out.phase)
    PROVE  OnceInv'
<1> DEFINE t == MyTurn(c)
<1>1. /\ At(c, {"held"}) /\ ~Quarantined(snap[c]) /\ Label(c, "decided") /\ proc'[c].found = f
      /\ UNCHANGED <<row, todo, snap, wire, history>> /\ t \in Turn /\ TypeOK
  BY ZenonT(40), JudgeFlat, ProcFacts DEF IInv, Judge, external, JudgeEffect
<1>2. /\ {"held", "decided"} \cap (ExecPc \cup ToolRecoveryPc \cup {"off", "down"}) = {}
      /\ {"held", "decided"} \subseteq LookingPc \cap RecoveryPc
  BY PcFacts DEF RecoveryPc, LookingPc, Busy
<1>3. OnceAt(c)  BY DEF OnceInv
<1>4. ListAt(c)'  BY ZenonT(40), <1>1, <1>2, ListStays DEF Label, SameTurn, OnlyRow, At
<1>5. CopyAt(c)'  BY ZenonT(40), <1>1, <1>3 DEF OnceAt, CopyAt, Fresh, Label, SameTurn, At, MyTurn
<1>6. MineAt(c)'  BY ZenonT(40), <1>1, <1>2 DEF MineAt, Label, At
<1>7. ASSUME row[t].status = "absorbing", f \in {"no", "none"}, NEW e \in Events,
             e.kind = "absorbed", e.turn = t
      PROVE  FALSE
  <2>1. row[t].token = snap[c].token /\ row[t].out = snap[c].out
    BY ZenonT(40), <1>1, <1>3, <1>7, StatusFacts DEF OnceAt, CopyAt, Fresh, At
  <2>2. snap[c].out.phase = "canonical_user_append"
    BY ZenonT(40), <1>1, <1>7, <2>1 DEF OnceInv, AbsorbingPhase
  <2>3. e.key = snap[c].token
    BY ZenonT(40), <1>7, <2>1, StatusFacts DEF OnceInv, Tracked
  <2>4. e \in history  BY ZenonT(40), <1>1, <1>7, <2>2, <2>3 DEF Quarantined, Events
  <2>5. Reconciled(t, snap[c].out.phase)  BY <1>7, <2>2, <2>4 DEF Reconciled
  <2> QED  BY ZenonT(40), <1>7, <2>2, <2>5 DEF Findings, NeedsReading
<1>8. NotFoundAt(c)'
  BY ZenonT(40), <1>1, <1>7 DEF NotFoundAt, Label, SameTurn, At, MyTurn, Events
<1>9. OnceAt(c)'  BY <1>4, <1>5, <1>6, <1>8 DEF OnceAt
<1>10. Events' \subseteq Events /\ ~At(c, {"off", "down"}) /\ \A u \in Turn : Tame(u)
  BY ZenonT(40), <1>1, <1>2 DEF Events, At, Tame, Stays
<1> QED  BY <1>1, <1>9, <1>10, OnceCombine DEF Label

LEMMA RecoveryOnce ==
    ASSUME IInv, RowStep, OnceInv, NEW c \in Controller, Recovery(c)
    PROVE  OnceInv'
<1> DEFINE t == MyTurn(c)
<1>1. TypeOK /\ t \in Turn  BY ZenonT(40), ProcFacts DEF IInv
<1>2. /\ (RecoveryPc \cup {"idle"}) \cap (ExecPc \cup {"off", "down"}) = {}
      /\ LookingPc \subseteq RecoveryPc /\ {"held", "decided"} \cup ToolRecoveryPc = LookingPc
      /\ {"idle", "recovering", "releasing"} \cap LookingPc = {}
  BY DEF RecoveryPc, LookingPc, ToolRecoveryPc, ExecPc, RunPc, TaskPc, LoopPc, PreLaunchPc
<1>3. OnceAt(c)  BY DEF OnceInv
(* The list of the controller is made, or shortened.                       *)
<1>4. ASSUME NEW l \in {"idle", "recovering"}, MovesOnly(c), proc'[c].pc = l,
             At(c, {"idle", "recovering"}), UNCHANGED <<row, snap, wire, history>>,
             \A d \in Controller \ {c} : todo'[d] = todo[d],
             l = "idle" => todo'[c] = {},
             \A s \in todo'[c] : /\ Fresh(s.turn, s.row)
                                 /\ \A r \in todo'[c] : s.turn = r.turn => s = r
      PROVE  OnceInv'
  <2>1. ListAt(c)'
    BY ZenonT(40), <1>2, <1>4 DEF ListAt, Fresh, At, RecoveryPc
  <2>4. l \notin ExecPc \cup LookingPc \cup ToolRecoveryPc \cup {"held", "decided"}
    BY ZenonT(40), <1>2, <1>4 DEF RecoveryPc
  <2>2. OnceAt(c)'
    BY ZenonT(40), <1>4, <2>1, <2>4 DEF OnceAt, CopyAt, MineAt, NotFoundAt, At
  <2>3. Events' \subseteq Events /\ ~At(c, {"off", "down"}) /\ \A u \in Turn : Tame(u)
    BY ZenonT(40), <1>2, <1>4 DEF Events, At, Tame, Stays
  <2> QED  BY <1>4, <2>2, <2>3, OnceCombine
<1>5. CASE ListStale(c)
  <2>1. /\ At(c, {"idle"}) /\ MovesOnly(c) /\ proc'[c].pc = "recovering"
        /\ UNCHANGED <<row, snap, wire, history>>
        /\ \A d \in Controller \ {c} : todo'[d] = todo[d]
        /\ todo'[c] = {[turn |-> u, row |-> row[u]] : u \in {v \in Turn : Stale(v)}}
    BY ZenonT(40), <1>1, <1>5, ListStaleFlat DEF Label, external, ListStaleEffect
  <2>2. \A s \in todo'[c] : s.row = row[s.turn] /\ s = [turn |-> s.turn, row |-> row[s.turn]]
    BY <2>1
  <2>3. \A s \in todo'[c] : /\ Fresh(s.turn, s.row)
                            /\ \A r \in todo'[c] : s.turn = r.turn => s = r
    BY <2>2 DEF Fresh
  <2> QED  BY ZenonT(40), <1>4, <2>1, <2>3 DEF At
<1>6. CASE AcquireForRecovery(c)
  <2>1. PICK s \in todo[c] : /\ todo'[c] = todo[c] \ {s} /\ snap'[c] = s.row
                             /\ proc'[c].turn = s.turn
    BY ZenonT(40), <1>1, <1>6, AcquireForRecoveryFlat DEF AcquireForRecoveryEffect
  <2>2. /\ At(c, {"recovering"}) /\ UNCHANGED <<row, wire, history>> /\ MovesOnly(c)
        /\ \A d \in Controller \ {c} : todo'[d] = todo[d] /\ snap'[d] = snap[d]
        /\ proc'[c].pc = "held"
    BY ZenonT(40), <1>1, <1>6, AcquireForRecoveryFlat DEF external, AcquireForRecoveryEffect
  <2>3. ListAt(c)'
    BY <1>2, <1>3, <2>1, <2>2 DEF OnceAt, ListAt, Fresh, At, MyTurn, LookingPc
  <2>4. CopyAt(c)'
    BY ZenonT(40), <1>3, <2>1, <2>2 DEF OnceAt, ListAt, CopyAt, Fresh, MyTurn
  <2>5. OnceAt(c)'
    BY ZenonT(40), <1>2, <2>2, <2>3, <2>4 DEF OnceAt, MineAt, NotFoundAt, At, LookingPc, ToolRecoveryPc
  <2>6. Events' \subseteq Events /\ ~At(c, {"off", "down"}) /\ \A u \in Turn : Tame(u)
    BY ZenonT(40), <2>2 DEF Events, At, Tame, Stays
  <2> QED  BY ZenonT(40), <2>2, <2>5, <2>6, OnceCombine
<1>7. CASE SkipStale(c)
  <2>1. /\ At(c, {"recovering"}) /\ UNCHANGED <<row, snap, wire, history>> /\ MovesOnly(c)
        /\ \A d \in Controller \ {c} : todo'[d] = todo[d] /\ todo'[c] \subseteq todo[c]
        /\ proc'[c].pc = IF todo'[c] = {} THEN "idle" ELSE "recovering"
    BY ZenonT(40), <1>1, <1>7, SkipStaleFlat DEF Label, external, SkipStaleEffect
  <2>2. /\ todo'[c] \subseteq todo[c]  BY <1>1, <1>7, SkipStaleFlat DEF SkipStaleEffect
  <2> QED  BY ZenonT(40), <1>3, <1>4, <2>1, <2>2 DEF At, OnceAt, ListAt
<1>8. CASE CancelStaleActive(c)
  <2>1. /\ Label(c, "releasing") /\ At(c, {"held"})
        /\ row' = row \/ RowSet(t, "cancelled", Out("terminal", "none"))
    BY <1>1, <1>8, CancelStaleFlat DEF CancelStaleEffect
  <2>2. OnlyRow(t) /\ Tame(t)  BY ZenonT(40), <2>1, StatusFacts DEF RowSet, OnlyRow, Tame, Stays
  <2>3. UNCHANGED <<todo, snap, wire, history>> /\ At(c, LookingPc)
    BY <1>2, <1>8, <2>1 DEF CancelStaleActive, external, At
  <2> QED  BY <2>1, <2>2, <2>3, LetGoOnce
(* The row is taken over, or the calls of the turn are settled.            *)
<1>9. ASSUME NEW l \in ToolRecoveryPc, At(c, LookingPc), MovesOnly(c), SameTurn(c),
             proc'[c].pc = l, OnlyRow(t), row[t].status # "absorbing",
             row'[t].status # "absorbing", UNCHANGED <<todo, snap, wire, history>>
      PROVE  OnceInv'
  <2>1. l \in RecoveryPc \cap LookingPc /\ l \notin {"held", "decided"} /\ l \notin ExecPc
    BY ZenonT(40), <1>2, <1>9 DEF ToolRecoveryPc
  <2>2. ListAt(c)'  BY ZenonT(40), <1>9, <2>1, ListStays DEF SameTurn
  <2>3. OnceAt(c)'
    BY ZenonT(40), <1>9, <2>1, <2>2 DEF OnceAt, CopyAt, MineAt, NotFoundAt, SameTurn, At, MyTurn
  <2>4. Events' \subseteq Events /\ ~At(c, {"off", "down"}) /\ \A u \in Turn : Tame(u)
    BY ZenonT(40), <1>2, <1>9 DEF Events, At, Tame, Stays, OnlyRow
  <2> QED  BY ZenonT(40), <1>9, <2>3, <2>4, OnceCombine
<1>10. CASE BeginToolRecovery(c)
  <2>1. At(c, {"held"}) /\ MovesOnly(c) /\ SameTurn(c)
    BY ZenonT(40), <1>1, <1>10, BeginToolRecoveryFlat DEF BeginToolRecoveryEffect
  <2>2. UNCHANGED <<todo, snap, wire, history>> /\ At(c, LookingPc)
    BY <1>2, <1>10, <2>1 DEF BeginToolRecovery, external, At
  <2>3. CASE row' = row /\ proc'[c].pc = "releasing"
    BY ZenonT(40), <2>1, <2>2, <2>3, LetGoOnce DEF Label, OnlyRow, Tame, Stays
  <2>4. CASE /\ row[t].out.phase = "tool_in_flight" /\ OnlyRow(t)
             /\ row'[t].status = row[t].status /\ proc'[c].pc = "tools"
    <3>1. row[t].status # "absorbing"
      BY ZenonT(40), <1>1, <2>4 DEF OnceInv, AbsorbingPhase
    <3> QED  BY ZenonT(40), <1>9, <2>1, <2>2, <2>4, <3>1 DEF ToolRecoveryPc
  <2> QED  BY ZenonT(40), <1>1, <1>10, <2>3, <2>4, BeginToolRecoveryFlat DEF BeginToolRecoveryEffect
<1>11. At(c, ToolRecoveryPc) => row[t].status # "absorbing"
  BY <1>3 DEF OnceAt, MineAt
<1>12. ASSUME NEW k \in Call, SettleToolCall(c, k) PROVE OnceInv'
  <2>1. UNCHANGED <<row, proc, todo, snap, wire, history>> /\ At(c, {"tools"})
    BY <1>12 DEF SettleToolCall
  <2> QED
    BY ZenonT(40), <1>2, <1>9, <1>11, <2>1 DEF MovesOnly, SameTurn, OnlyRow, At, ToolRecoveryPc
<1>13. ASSUME NEW s \in {"failed", "ambiguous"}, ToolRecoveryFails(c, s) PROVE OnceInv'
  <2>1. At(c, {"tools"}) /\ RowSet(t, s, Out("terminal", "none")) /\ Label(c, "releasing")
    BY <1>1, <1>13, ToolRecoveryFailsFlat DEF ToolRecoveryFailsEffect
  <2>2. UNCHANGED <<todo, snap, wire, history>> /\ At(c, LookingPc)
    BY <1>13, <2>1 DEF ToolRecoveryFails, external, At, LookingPc
  <2>3. OnlyRow(t) /\ Tame(t)  BY ZenonT(40), <1>13, <2>1, StatusFacts DEF RowSet, Tame
  <2> QED  BY <2>1, <2>2, <2>3, LetGoOnce
<1>14. CASE ClearToolDispatch(c)
  <2>1. At(c, {"tools"}) /\ OutSet(t, row'[t].out) /\ Label(c, "cleared")
    BY ZenonT(40), <1>1, <1>14, ClearToolDispatchFlat DEF ClearToolDispatchEffect
  <2>2. UNCHANGED <<todo, snap, wire, history>> /\ At(c, LookingPc) /\ At(c, ToolRecoveryPc)
    BY <1>14, <2>1 DEF ClearToolDispatch, external, At, LookingPc, ToolRecoveryPc
  <2> QED  BY ZenonT(40), <1>9, <1>11, <2>1, <2>2 DEF OutSet, Label, ToolRecoveryPc
<1>15. CASE FinishToolRecovery(c)
  <2>1. /\ At(c, {"cleared"}) /\ OnlyRow(t) /\ Label(c, "releasing")
        /\ row'[t].status \in {"cancelled", "recoverable"}
    BY ZenonT(40), <1>1, <1>15, FinishToolRecoveryFlat DEF FinishToolRecoveryEffect
  <2>2. /\ UNCHANGED <<todo, snap, wire, history>> /\ At(c, LookingPc) /\ At(c, ToolRecoveryPc)
    BY <1>15, <2>1 DEF FinishToolRecovery, external, At, LookingPc, ToolRecoveryPc
  <2>3. Tame(t)  BY ZenonT(40), <1>11, <2>1, <2>2 DEF Tame
  <2> QED  BY <2>1, <2>2, <2>3, LetGoOnce
<1>16. CASE LeaveQuarantined(c)
  <2>1. Label(c, "releasing") /\ At(c, LookingPc) /\ UNCHANGED <<row, todo, snap, wire, history>>
    BY ZenonT(40), <1>1, <1>16, GotoFlat DEF LeaveQuarantined, external, At, LookingPc
  <2> QED  BY ZenonT(40), <2>1, LetGoOnce DEF OnlyRow, Tame, Stays
<1>17. CASE Reconcile(c)
  BY <1>17, JudgeOnce DEF Reconcile
<1>18. CASE ReconcileFails(c)
  BY <1>18, JudgeOnce DEF ReconcileFails
<1>19. CASE RecoverStale(c)
  <2> DEFINE v == Verdict(snap[c], proc[c].found)
  <2>1. /\ At(c, {"decided"}) /\ Label(c, "releasing")
        /\ row' = row \/ (row[t].status \in v.from /\ RowSet(t, v.to, v.out))
    BY ZenonT(40), <1>1, <1>19, RecoverStaleFlat DEF RecoverStaleEffect
  <2>2. UNCHANGED <<todo, snap, wire, history>> /\ At(c, LookingPc)
    BY <1>2, <1>19, <2>1 DEF RecoverStale, external, At
  <2>3. snap[c] \in Row /\ snap[c].status \in Active
        /\ proc[c].found \in {"none", "yes", "no", "error"}
    BY ZenonT(40), <1>1, <2>1, ProcFacts DEF IInv, Listed, ListedAt, At, Proc
  <2>4. v.from \subseteq Active /\ v.to \in Terminal \cup {"recoverable"}
    BY ZenonT(40), <2>3, VerdictType
  <2>5. ASSUME row[t].status \in v.from, RowSet(t, v.to, v.out) PROVE Tame(t)
    <3>1. row[t].status = snap[c].status /\ row[t].out = snap[c].out
      BY ZenonT(40), <1>3, <2>1, <2>4, <2>5, StatusFacts DEF OnceAt, CopyAt, Fresh, At
    <3>2. CASE row[t].status # "absorbing"
      BY ZenonT(40), <2>4, <2>5, <3>2, StatusFacts DEF Tame, RowSet
    <3>3. CASE row[t].status = "absorbing" /\ v.to \in Terminal
      BY ZenonT(40), <2>5, <3>3 DEF Tame, RowSet
    <3>4. CASE row[t].status = "absorbing" /\ v.to \notin Terminal
      <4>1. snap[c].out.phase = "canonical_user_append"
        BY ZenonT(40), <1>1, <3>1, <3>4 DEF OnceInv, AbsorbingPhase
      <4>2. proc[c].found \in {"none", "no"}
        BY ZenonT(40), <2>3, <3>1, <3>4, <4>1, VerdictOnce
      <4>3. NoneAbsorbed(t)
        BY ZenonT(40), <1>3, <2>1, <3>4, <4>2 DEF OnceAt, NotFoundAt, NoneAbsorbed
      <4> QED  BY ZenonT(40), <2>4, <2>5, <3>4, <4>3 DEF Tame, RowSet
    <3> QED  BY ZenonT(40), <3>2, <3>3, <3>4
  <2>6. OnlyRow(t) /\ Tame(t)  BY ZenonT(40), <2>1, <2>5 DEF RowSet, OnlyRow, Tame, Stays
  <2> QED  BY ZenonT(40), <2>1, <2>2, <2>6, LetGoOnce
<1> QED
  BY <1>5, <1>6, <1>7, <1>8, <1>10, <1>12, <1>13, <1>14, <1>15, <1>16, <1>17, <1>18, <1>19
     DEF Recovery

LEMMA ClaimingOnce ==
    ASSUME IInv, RowStep, OnceInv, NEW c \in Controller, Claiming(c)
    PROVE  OnceInv'
<1>1. TypeOK /\ MyTurn(c) \in Turn  BY ProcFacts DEF IInv
<1>2. /\ {"acquired", "idle"} \cap (RecoveryPc \cup ExecPc) = {}
      /\ ToolRecoveryPc \subseteq LookingPc
      /\ {"acquired", "idle", "recovering", "down", "releasing"}
             \cap (ExecPc \cup LookingPc \cup {"held", "decided"}) = {}
      /\ {"start", "down"} \cap (RecoveryPc \cup LookingPc \cup {"held", "decided"}) = {}
  BY DEF RecoveryPc, LookingPc, ToolRecoveryPc, ExecPc, RunPc, TaskPc, LoopPc, PreLaunchPc
<1>3. OnceAt(c)  BY DEF OnceInv
(* The controller is where it executes and recovers nothing.               *)
<1>4. ASSUME MovesOnly(c), UNCHANGED <<row, todo, wire, history>>, ~At(c, {"off", "down"}),
             \A d \in Controller \ {c} : snap'[d] = snap[d],
             proc'[c].pc \in {"acquired", "idle", "recovering", "down", "releasing"},
             todo[c] = {} \/ (proc'[c].pc = "recovering" /\ At(c, RecoveryPc))
      PROVE  OnceInv'
  <2>1. ListAt(c)'
    BY ZenonT(40), <1>2, <1>3, <1>4 DEF OnceAt, ListAt, Fresh, At, RecoveryPc
  <2>2. OnceAt(c)'
    BY ZenonT(40), <1>2, <1>4, <2>1 DEF OnceAt, CopyAt, MineAt, NotFoundAt, At
  <2>3. Events' \subseteq Events /\ \A u \in Turn : Tame(u)
    BY <1>4 DEF Events, Tame, Stays
  <2> QED  BY ZenonT(40), <1>4, <2>2, <2>3, OnceCombine
<1>5. ASSUME NEW t \in Turn, AcquireForClaim(c, t) PROVE OnceInv'
  <2>1. MovesOnly(c) /\ proc'[c].pc = "acquired"
    BY <1>1, <1>5, AcquireForClaimFlat DEF AcquireForClaimEffect
  <2>2. At(c, {"idle"}) /\ UNCHANGED <<row, todo, snap, wire, history>>
    BY <1>5 DEF AcquireForClaim, external
  <2>3. todo[c] = {} /\ ~At(c, {"off", "down"})
    BY ZenonT(40), <1>2, <1>3, <2>2 DEF OnceAt, ListAt, At
  <2> QED  BY ZenonT(40), <1>4, <2>1, <2>2, <2>3
<1>6. CASE Claim(c)
  <2> DEFINE t == MyTurn(c)
  <2>1. At(c, {"acquired"}) /\ MovesOnly(c) /\ SameTurn(c)  BY ZenonT(40), <1>1, <1>6, ClaimFlat DEF ClaimEffect
  <2>2. UNCHANGED <<todo, snap, wire, history>>  BY <1>6 DEF Claim, external
  <2>3. todo[c] = {} /\ ~At(c, {"off", "down"}) /\ proc[c].batch = {}
    BY ZenonT(40), <1>2, <1>3, <2>1, PcFacts DEF OnceAt, ListAt, At, IInv, Batched, BatchedAt
  <2>4. CASE row' = row /\ proc'[c].pc = "releasing"
    BY <1>4, <2>1, <2>2, <2>3, <2>4
  <2>5. CASE /\ row[t].status \in Claimable /\ OnlyRow(t) /\ row'[t].status = "claimed"
             /\ proc'[c].pc = "start"
    <3>1. \A u \in Turn : Tame(u)  BY ZenonT(40), <2>5, StatusFacts DEF Tame, Stays, OnlyRow
    <3>2. NoneAbsorbed(t)
      BY ZenonT(40), <2>5, StatusFacts DEF OnceInv, Tracked, NoneAbsorbed
    <3>3. Events' = Events  BY <2>2 DEF Events
    <3>4. OnceAt(c)'
      BY ZenonT(40), <1>2, <2>1, <2>2, <2>3, <2>5, <3>2, <3>3
         DEF OnceAt, ListAt, CopyAt, MineAt, NotFoundAt, NoneAbsorbed, SameTurn, At, MyTurn
    <3> QED  BY ZenonT(40), <2>1, <2>2, <2>3, <3>1, <3>3, <3>4, OnceCombine
  <2> QED  BY ZenonT(40), <1>1, <1>6, <2>4, <2>5, ClaimFlat DEF ClaimEffect
<1>7. CASE Release(c)
  <2>1. /\ At(c, Done) /\ UNCHANGED <<row, todo, wire, history>> /\ MovesOnly(c)
        /\ \A d \in Controller \ {c} : snap'[d] = snap[d]
        /\ proc'[c].pc = (IF At(c, {"draining"}) THEN "down"
                          ELSE IF todo[c] # {} THEN "recovering" ELSE "idle")
    BY ZenonT(40), <1>1, <1>7, ReleaseFlat DEF external, ReleaseEffect
  <2>2. At(c, {"draining"}) => todo[c] = {}
    BY <1>3 DEF OnceAt, ListAt, At, RecoveryPc
  <2>3. ~At(c, {"off", "down"})  BY <2>1 DEF Done, At
  <2>4. ~At(c, {"draining"}) => At(c, RecoveryPc)  BY <2>1 DEF Done, At, RecoveryPc
  <2> QED  BY ZenonT(40), <1>4, <2>1, <2>2, <2>3, <2>4
<1> QED  BY <1>5, <1>6, <1>7 DEF Claiming

(* A step outside the controllers: it leaves active rows alone but for     *)
(* their cancel flag, or settles them.                                     *)
LEMMA OutsideOnce ==
    ASSUME IInv, RowStep, OnceInv, UNCHANGED <<proc, todo, snap>>, Events' \subseteq Events,
           \A t \in Turn :
              \/ Stays(t)
              \/ row'[t].status \in Terminal /\ row[t].status # "absorbing"
              \/ row[t].status = "absent" /\ row'[t].status = "queued"
    PROVE  OnceInv'
<1>1. \A t \in Turn : Tame(t)  BY ZenonT(40) DEF Tame
<1>2. Tracked' /\ AbsorbingPhase'  BY ZenonT(40), <1>1, TameOnce DEF OnceInv, Tracked
<1>3. OwnKey' /\ OnceSent' /\ OneAlive'
  BY ZenonT(40) DEF OnceInv, OwnKey, OnceSent, OneAlive, At
<1>4. ASSUME NEW c \in Controller PROVE OnceAt(c)'
  <2>1. OnceAt(c) /\ ListedAt(c) /\ MyTurn(c) \in Turn /\ proc[c].batch \subseteq Turn
        /\ \A s \in todo[c] : s.turn \in Turn
    <3>1. OnceAt(c)  BY ZenonT(40) DEF OnceInv
    <3>2. ListedAt(c)  BY ZenonT(40) DEF OnceInv, IInv, Listed
    <3>3. MyTurn(c) \in Turn /\ proc[c].batch \subseteq Turn  BY ProcFacts DEF OnceInv, IInv
    <3>4. todo[c] \subseteq [turn : Turn, row : Row]  BY DEF OnceInv, IInv, TypeOK
    <3> QED  BY <3>1, <3>2, <3>3, <3>4
  <2>2. \A t \in Turn : Stays(t) \/ row'[t].status \in Terminal \/ row[t].status \notin Active
    BY ZenonT(40), StatusFacts
  <2>3. ListAt(c)'
    <3>1. \A s \in todo[c] : Fresh(s.turn, s.row)'
      BY ZenonT(40), <2>1, <2>2, FreshStays DEF OnceAt, ListAt, ListedAt, Fresh
    <3> QED  BY ZenonT(40), <2>1, <3>1 DEF OnceAt, ListAt, Fresh, At, MyTurn
  <2>4. CopyAt(c)'
    <3>1. CASE At(c, {"held", "decided"})
      <4>1. Fresh(MyTurn(c), snap[c]) /\ snap[c].status \in Active
        BY ZenonT(40), <2>1, <3>1 DEF OnceAt, CopyAt, ListedAt
      <4>2. \/ row'[MyTurn(c)].status \in Terminal
            \/ /\ row'[MyTurn(c)].status = snap[c].status /\ row'[MyTurn(c)].token = snap[c].token
               /\ row'[MyTurn(c)].out = snap[c].out
        BY ZenonT(40), <2>1, <2>2, <4>1, FreshStays
      <4> QED  BY ZenonT(40), <4>2 DEF CopyAt, Fresh, MyTurn
    <3>2. CASE ~At(c, {"held", "decided"})  BY <3>2 DEF CopyAt, At
    <3> QED  BY <3>1, <3>2
  <2>5. \A t \in Turn : row[t].status = "absorbing" =>
            row'[t].status = "absorbing" /\ row'[t].token = row[t].token
    BY DEF Stays
  <2>6. \A t \in Turn : row'[t].status = "absorbing" => row[t].status = "absorbing"
    BY StatusFacts DEF Stays
  <2>7. MineAt(c)' /\ NotFoundAt(c)'
    BY ZenonT(40), <2>1, <2>5, <2>6 DEF OnceAt, MineAt, NotFoundAt, At, MyTurn
  <2> QED  BY <2>3, <2>4, <2>7 DEF OnceAt
<1> QED  BY ZenonT(40), <1>2, <1>3, <1>4 DEF OnceInv

LEMMA RequestsOnce ==
    ASSUME IInv, RowStep, OnceInv, Requests
    PROVE  OnceInv'
<1>1. TypeOK /\ row \in [Turn -> Row]  BY DEF IInv, TypeOK
<1>2. ASSUME NEW t \in Turn, Admit(t) PROVE OnceInv'
  <2>1. /\ row' = [row EXCEPT ![t].status = "queued"] /\ row[t].status = "absent"
        /\ UNCHANGED <<proc, todo, snap>> /\ Events' \subseteq Events
    BY <1>2 DEF Admit, external, Events
  <2>2. row'[t].status = "queued" /\ \A u \in Turn \ {t} : row'[u] = row[u]
    BY <1>1, <2>1 DEF Row
  <2> QED  BY <2>1, <2>2, OutsideOnce DEF Stays
<1>3. ASSUME \A t \in Turn : row'[t] = row[t] \/ row'[t] = Cancelled(row[t]),
             UNCHANGED <<proc, todo, snap, wire, history>>
      PROVE  OnceInv'
  <2>1. ASSUME NEW t \in Turn
        PROVE  Stays(t) \/ (row'[t].status \in Terminal /\ row[t].status # "absorbing")
    <3>1. CancelledEffect(row[t])  BY <1>1, CancelledFlat
    <3>2. row'[t] = row[t] \/ row'[t] = Cancelled(row[t])  BY <1>3
    <3>3. "absorbing" \notin Claimable /\ "cancelled" \in Terminal  BY DEF Claimable, Terminal
    <3> HIDE DEF Cancelled
    <3> QED  BY <3>1, <3>2, <3>3 DEF Stays, CancelledEffect
  <2>2. Events' \subseteq Events  BY <1>3 DEF Events
  <2> QED  BY <1>3, <2>1, <2>2, OutsideOnce
<1>4. ASSUME NEW t \in Turn, RequestCancel(t) PROVE OnceInv'
  <2>1. \A u \in Turn : row'[u] = row[u] \/ row'[u] = Cancelled(row[u])
    BY <1>1, <1>4 DEF RequestCancel
  <2> QED  BY <1>3, <1>4, <2>1 DEF RequestCancel, external
<1>5. CASE CancelConversation
  BY <1>3, <1>5 DEF CancelConversation, external
<1>6. ASSUME NEW t \in Turn, ResolveStaleToolAmbiguous(t) PROVE OnceInv'
  <2>1. /\ OnlyRow(t) /\ row'[t].status = "ambiguous" /\ row[t].out.phase = "tool_in_flight"
        /\ UNCHANGED <<proc, todo, snap>> /\ Events' \subseteq Events
    BY <1>1, <1>6, ResolveFlat DEF external, Events, ResolveEffect
  <2>2. row[t].status # "absorbing"  BY <2>1 DEF OnceInv, AbsorbingPhase
  <2> QED  BY <2>1, <2>2, StatusFacts, OutsideOnce DEF OnlyRow, Stays
<1> QED  BY <1>2, <1>4, <1>5, <1>6 DEF Requests

LEMMA EnvironmentOnce ==
    ASSUME IInv, RowStep, OnceInv, ~Peers, Environment
    PROVE  OnceInv'
<1>1. TypeOK  BY DEF IInv
<1>2. {"off", "idle", "down"} \cap (ExecPc \cup RecoveryPc \cup LookingPc \cup ToolRecoveryPc) = {}
  BY PcFacts DEF RecoveryPc, LookingPc, Busy
<1>3. ASSUME NEW c \in Controller, Boot(c) PROVE OnceInv'
  <2>1. /\ At(c, {"off"}) /\ \A d \in Controller : At(d, {"off", "down"})
        /\ UNCHANGED <<row, todo, snap, wire, history>> /\ Goto(c, "idle")
    BY <1>3 DEF Boot, external
  <2>2. Label(c, "idle")  BY <1>1, <2>1, GotoFlat
  <2>3. \A d \in Controller : todo[d] = {}
    BY ZenonT(40), <1>2, <2>1 DEF OnceInv, OnceAt, ListAt, At
  <2>4. \A d \in Controller : proc'[d].pc \in {"off", "down", "idle"}
    BY <2>1, <2>2 DEF Label, MovesOnly, At
  <2>5. \A d \in Controller : OnceAt(d)'
    BY ZenonT(40), <1>2, <2>1, <2>3, <2>4
       DEF OnceAt, ListAt, CopyAt, MineAt, NotFoundAt, At, LookingPc
  <2>6. OneAlive'  BY ZenonT(40), <2>1, <2>2 DEF OneAlive, Label, MovesOnly, At
  <2>7. Events' = Events  BY <2>1 DEF Events
  <2>8. Tracked' /\ OwnKey' /\ OnceSent' /\ AbsorbingPhase'
    BY ZenonT(40), <2>1, <2>7 DEF OnceInv, Tracked, OwnKey, OnceSent, AbsorbingPhase
  <2> QED  BY <2>5, <2>6, <2>8 DEF OnceInv
<1>4. ASSUME NEW c \in Controller, Crash(c) PROVE OnceInv'
  <2>1. /\ UNCHANGED <<row, wire, history>> /\ MovesOnly(c)
        /\ \A d \in Controller \ {c} : todo'[d] = todo[d] /\ snap'[d] = snap[d]
        /\ todo'[c] = {} /\ proc'[c].pc = "down" /\ ~At(c, {"off", "down"})
    BY ZenonT(40), <1>1, <1>4, CrashFlat DEF external, Crash, CrashEffect
  <2>2. OnceAt(c)'
    BY ZenonT(40), <1>2, <2>1 DEF OnceAt, ListAt, CopyAt, MineAt, NotFoundAt, At, LookingPc
  <2>3. Events' \subseteq Events /\ \A t \in Turn : Tame(t)
    BY <2>1 DEF Events, Tame, Stays
  <2> QED  BY ZenonT(40), <2>1, <2>2, <2>3, OnceCombine
<1>5. CASE Expire
  BY <1>5, OutsideOnce DEF Expire, external, Events, Stays
<1>6. ASSUME NEW w \in wire, Land(w) \/ Drop(w) PROVE OnceInv'
  <2>1. UNCHANGED <<row, proc, todo, snap>> /\ Events' \subseteq Events
    BY <1>6 DEF Land, Drop, Events
  <2> QED  BY ZenonT(40), <2>1, OutsideOnce DEF Stays
<1> QED  BY <1>3, <1>4, <1>5, <1>6 DEF Environment

LEMMA NextOnce ==
    ASSUME IInv, HistInv, OnceInv, ~Peers, [Next]_vars
    PROVE  OnceInv'
<1>1. RowStep  BY NextInv
<1>2. CASE UNCHANGED vars
  BY <1>1, <1>2, OutsideOnce DEF vars, Events, Stays
<1>3. CASE Next
  BY <1>1, <1>3, RecoveryOnce, ClaimingOnce, StartingOnce, RunningOnce, EndingOnce,
     RequestsOnce, EnvironmentOnce DEF Next, Step
<1> QED  BY <1>2, <1>3

LEMMA OnceInvariance ==
    ASSUME ~Peers
    PROVE  Spec => []OnceInv
<1>1. Init => OnceInv
  <2> SUFFICES ASSUME Init PROVE OnceInv  OBVIOUS
  <2>1. \A t \in Turn : row[t].status = "absent"  BY NoRowType DEF Init
  <2>2. \A c \in Controller : proc[c].pc = "off" /\ todo[c] = {}  BY DEF Init, Idle
  <2>3. "off" \notin ExecPc \cup ToolRecoveryPc  BY PcFacts DEF Busy
  <2>4. Events = {}  BY DEF Init, Events
  <2> QED
    BY ZenonT(40), <2>1, <2>2, <2>3, <2>4
       DEF OnceInv, OneAlive, Tracked, OwnKey, OnceSent, AbsorbingPhase, OnceAt, ListAt, CopyAt,
           MineAt, NotFoundAt, At
<1>2. IInv /\ HistInv /\ OnceInv /\ [Next]_vars => OnceInv'  BY NextOnce
<1> QED  BY <1>1, <1>2, Invariance, HistInvariance, PTL DEF Spec

(* With one controller at a time, whatever crashes, is lost, retried or    *)
(* taken over, the message of a request is in the canonical history once:  *)
(* the idempotency key of the user append covers its own turn, and         *)
(* _recover_stale sends an absorbed request back to the queue only when    *)
(* its message neither landed nor can land any more.                       *)
THEOREM MessageOnceHolds ==
    ASSUME ~Peers
    PROVE  Spec => []MessageOnce
<1>1. OnceInv => MessageOnce  BY DEF OnceInv, OnceSent, Events, MessageOnce
<1> QED  BY <1>1, OnceInvariance, PTL

=============================================================================
