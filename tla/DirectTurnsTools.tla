-------------------------- MODULE DirectTurnsTools --------------------------
(***************************************************************************)
(* What one attempt of a turn leaves to the next.  With a single           *)
(* controller at a time (Peers = FALSE), a later attempt runs the model    *)
(* only when every tool call of the earlier ones has its result.           *)
(***************************************************************************)
EXTENDS DirectTurnsOnce

(* More time for a leaf than the provers have by default, and more tries. *)
USE SMTT(30), ZenonT(30), SMTT(40), SMTT(50)

-----------------------------------------------------------------------------
(* The inductive invariant behind ToolCallsSettled.  A call handed to an   *)
(* executor stays journalled in its row until its result is canonical, the *)
(* controller that works on the row knows what is journalled, and recovery *)
(* reads the journal before it hands the row back.                         *)

(* The steps that have calls open; everywhere else calls is empty.         *)
ToolPc == {"calling", "recorded", "bound", "waiting", "resulted", "flushing", "failing",
           "cancelling"}
CalmPc == ExecPc \ ToolPc

Journalled ==
    \A k \in sent \ results :
        row[issued[k].turn].status \in Terminal \/ k \in row[issued[k].turn].out.journal

Tidy(t) ==
    row[t].out.journal # {} =>
        row[t].out.phase = "tool_in_flight" /\ row[t].status \in {"claimed", "running"}

(* A call that was sent was issued for a turn.                             *)
SentIssued == \A k \in sent : issued[k].turn \in Turn

Settled(c) == row[MyTurn(c)].status \in Terminal
Journal(c) == row[MyTurn(c)].out.journal

CallsAt(c) ==
    /\ At(c, Busy) => Settled(c) \/ Journal(c) \subseteq proc[c].calls
    /\ At(c, ExecPc) =>
          \A k \in proc[c].calls : issued[k] = [turn |-> MyTurn(c), token |-> proc[c].token]
    /\ At(c, CalmPc \cup {"off", "idle", "recovering", "acquired"}) => proc[c].calls = {}
    /\ At(c, {"calling", "recorded", "bound"}) => proc[c].calls \cap sent = {}
    /\ At(c, {"bound"}) => Settled(c) \/ proc[c].calls \subseteq Journal(c)
    /\ At(c, {"resulted"}) => proc[c].calls \cap sent \subseteq results
    /\ At(c, {"cleared"}) => Settled(c) \/ Journal(c) = {}
    /\ At(c, {"decided"}) => snap[c].out.phase # "tool_in_flight"

ToolsInv ==
    /\ Journalled /\ SentIssued
    /\ \A t \in Turn : Tidy(t)
    /\ \A c \in Controller : CallsAt(c)

(* What a step may do to a row, seen from the journal.                     *)
Kept(t) ==
    /\ row'[t].status \in Terminal \/ row[t].out.journal \subseteq row'[t].out.journal
    /\ row'[t].out.journal # {} =>
          row'[t].out.phase = "tool_in_flight" /\ row'[t].status \in {"claimed", "running"}

LEMMA SameKept ==
    ASSUME ToolsInv, NEW t \in Turn, row'[t] = row[t]
    PROVE  Kept(t)
BY DEF Kept, ToolsInv, Tidy

(* While the calls stay as they are, kept rows are all the journal needs.  *)
LEMMA KeptTools ==
    ASSUME IInv, RowStep, ToolsInv, UNCHANGED <<issued, sent>>,
           results \subseteq results', \A t \in Turn : Kept(t)
    PROVE  Journalled' /\ SentIssued' /\ \A t \in Turn : Tidy(t)'
<1>1. \A k \in sent : issued[k].turn \in Turn
  BY DEF ToolsInv, SentIssued
<1>2. \A t \in Turn : row[t].status \in Terminal => row'[t].status \in Terminal
  BY RowsInv DEF IInv
<1>3. Journalled'  BY <1>1, <1>2 DEF ToolsInv, Journalled, Kept
<1> QED  BY <1>3 DEF ToolsInv, SentIssued, Tidy, Kept

(* While one controller is alive the others have no calls.                 *)
LEMMA ToolsCombine ==
    ASSUME OneAlive, ToolsInv, NEW c \in Controller, ~At(c, {"off", "down"}), MovesOnly(c),
           Journalled' /\ SentIssued' /\ \A t \in Turn : Tidy(t)', CallsAt(c)'
    PROVE  ToolsInv'
<1>1. \A d \in Controller \ {c} : proc'[d] = proc[d] /\ At(d, {"off", "down"})
  BY DEF OneAlive, MovesOnly
<1>2. {"off", "down"} \cap (Busy \cup CalmPc \cup ExecPc) = {}  BY PcFacts DEF CalmPc
<1>3. \A d \in Controller \ {c} : CallsAt(d)'
  BY ZenonT(40), <1>1, <1>2 DEF ToolsInv, CallsAt, At
<1> QED  BY <1>3 DEF ToolsInv

-----------------------------------------------------------------------------
(* A controller that executes a turn goes on with the calls it has.        *)

LEMMA ExecTools ==
    ASSUME IInv, RowStep, OneAlive, ToolsInv, NEW c \in Controller, NEW l,
           Label(c, l), At(c, ExecPc), proc'[c].calls = proc[c].calls,
           \/ l \in Done \cup {"flushing", "failing", "cancelling"}
           \/ l \in CalmPc /\ proc[c].calls = {},
           OnlyRow(MyTurn(c)), Kept(MyTurn(c)),
           \/ row'[MyTurn(c)].status \in Terminal
           \/ row'[MyTurn(c)].out.journal = Journal(c),
           UNCHANGED <<issued, sent>>, results \subseteq results'
    PROVE  ToolsInv'
<1> DEFINE t == MyTurn(c)
<1>1. t \in Turn  BY ProcFacts DEF IInv
<1>2. \A u \in Turn : Kept(u)  BY SameKept DEF OnlyRow
<1>3. Journalled' /\ SentIssued' /\ \A u \in Turn : Tidy(u)'  BY <1>2, KeptTools
<1>4. /\ {"flushing", "failing", "cancelling"} \subseteq ExecPc /\ Done \cap Busy = {}
      /\ ExecPc \subseteq Busy /\ CalmPc \subseteq ExecPc
      /\ CalmPc \cap (ToolPc \cup {"cleared", "decided", "off", "idle", "recovering", "acquired"}) = {}
      /\ {"off", "down"} \cap Busy = {}
      /\ (Done \cup {"flushing", "failing", "cancelling"}) \cap
            (CalmPc \cup {"off", "idle", "recovering", "acquired", "calling", "recorded", "bound",
                          "resulted", "cleared", "decided"}) = {}
  BY PcFacts DEF CalmPc, ToolPc, Done, Busy, ExecPc, RunPc, TaskPc, LoopPc, PreLaunchPc,
                 ToolRecoveryPc
<1>5. row[t].status \in Terminal => row'[t] = row[t]  BY <1>1, RowsInv DEF IInv
<1>6. /\ Settled(c) \/ Journal(c) \subseteq proc[c].calls
      /\ \A k \in proc[c].calls : issued[k] = [turn |-> t, token |-> proc[c].token]
  BY <1>4 DEF ToolsInv, CallsAt, At
<1>7. Settled(c)' \/ Journal(c)' \subseteq proc'[c].calls
  BY ZenonT(40), <1>5, <1>6 DEF Settled, Journal, Label, SameTurn, MyTurn
<1>8. CASE l \in CalmPc /\ proc[c].calls = {}
  <2>1. CallsAt(c)'
    BY <1>4, <1>7, <1>8 DEF CallsAt, ToolPc, Label, At
  <2> QED  BY <1>3, <1>4, <2>1, ToolsCombine DEF Label, At
<1>9. CASE l \in Done \cup {"flushing", "failing", "cancelling"}
  <2>1. CallsAt(c)'
    BY ZenonT(40), <1>4, <1>6, <1>7, <1>9 DEF CallsAt, Label, SameTurn, At, MyTurn
  <2> QED  BY <1>3, <1>4, <2>1, ToolsCombine DEF Label, At
<1> QED  BY <1>8, <1>9

(* A checkpoint keeps the journal.                                         *)
LEMMA CheckpointedJournal ==
    ASSUME NEW o, NEW p, NEW a
    PROVE  LET q == Checkpointed(o, p, a) IN
           q.journal = o.journal /\ (q.journal # {} => q.phase = "tool_in_flight")
<1>1. CASE o.journal = {}
  BY <1>1 DEF Checkpointed, Out
<1>2. CASE o.journal # {}
  <2> DEFINE j == o.journal
             x == [Out("tool_in_flight", a) EXCEPT !.journal = j]
  <2>1. x.journal = j /\ x.phase = "tool_in_flight"
    <3> HIDE DEF j
    <3> QED  BY ZenonT(40) DEF Out
  <2>2. Checkpointed(o, p, a) = x  BY <1>2 DEF Checkpointed
  <2> HIDE DEF x
  <2> QED  BY <2>1, <2>2
<1> QED  BY <1>1, <1>2

LEMMA OutTools ==
    ASSUME IInv, RowStep, OneAlive, ToolsInv, NEW c \in Controller, NEW o, NEW l,
           Label(c, l), At(c, ExecPc), proc'[c].calls = proc[c].calls, Owns(c, MyTurn(c)),
           l \in {"flushing", "failing", "cancelling"} \/ (l \in CalmPc /\ At(c, CalmPc)),
           OutSet(MyTurn(c), o), o.journal = Journal(c),
           o.journal # {} => o.phase = "tool_in_flight",
           UNCHANGED <<issued, sent>>, results \subseteq results'
    PROVE  ToolsInv'
<1>1. row[MyTurn(c)].status \in {"claimed", "running"}  BY OwnTurn
<1>2. OnlyRow(MyTurn(c)) /\ Kept(MyTurn(c)) /\ row'[MyTurn(c)].out.journal = Journal(c)
  BY <1>1 DEF OutSet, Kept, Journal
<1>3. At(c, CalmPc) => proc[c].calls = {}  BY ZenonT(40) DEF ToolsInv, CallsAt, At
<1> QED  BY <1>2, <1>3, ExecTools

LEMMA CheckpointTools ==
    ASSUME IInv, RowStep, OneAlive, ToolsInv, NEW c \in Controller,
           NEW p, NEW a, NEW l, Checkpoint(c, p, a, l), At(c, ExecPc),
           l \in {"flushing", "failing"} \/ (l \in CalmPc /\ At(c, CalmPc)),
           UNCHANGED <<issued, sent>>, results \subseteq results'
    PROVE  ToolsInv'
<1> DEFINE t == MyTurn(c)
           m == IF row[t].cancel THEN "cancelling" ELSE l
           o == Checkpointed(row[t].out, p, a)
<1>1. /\ OutSet(t, o) /\ Label(c, m) /\ Owns(c, t) /\ proc'[c].calls = proc[c].calls
  BY CheckpointFlat DEF IInv, CheckpointEffect
<1>2. o.journal = Journal(c) /\ (o.journal # {} => o.phase = "tool_in_flight")
  BY CheckpointedJournal DEF Journal
<1>3. m \in {"flushing", "failing", "cancelling"} \/ (m \in CalmPc /\ At(c, CalmPc))  OBVIOUS
<1> HIDE DEF m, o
<1> QED  BY <1>1, <1>2, <1>3, OutTools

(* The row is settled, or handed back before anything was journalled.      *)
LEMMA EndTools ==
    ASSUME IInv, RowStep, OneAlive, ToolsInv, NEW c \in Controller,
           NEW s, NEW o, NEW l \in Done, EndAt(c, s, o, l), At(c, ExecPc),
           \/ s \in Terminal /\ o = Out("terminal", "none")
           \/ At(c, PreLaunchPc) /\ o.journal = Journal(c),
           UNCHANGED <<issued, sent, results>>
    PROVE  ToolsInv'
<1> DEFINE t == MyTurn(c)
<1>1. RowSet(t, s, o) /\ Label(c, l) /\ Owns(c, t) /\ proc'[c].calls = proc[c].calls
  BY EndFlat DEF IInv, SameMemo
<1>2. ASSUME At(c, PreLaunchPc) PROVE Journal(c) = {}
  <2>1. PreLaunchPc \subseteq CalmPc /\ CalmPc \subseteq Busy
    BY PcFacts DEF CalmPc, ToolPc, ExecPc, PreLaunchPc
  <2>2. row[t].status \notin Terminal  BY <1>1, StatusFacts DEF Owns
  <2> QED  BY ZenonT(40), <1>2, <2>1, <2>2 DEF ToolsInv, CallsAt, Settled, At
<1>3. OnlyRow(t) /\ Kept(t) /\ (row'[t].status \in Terminal \/ row'[t].out.journal = Journal(c))
  BY <1>1, <1>2 DEF RowSet, Kept, Journal, Out
<1> QED  BY <1>1, <1>3, ExecTools

LEMMA GotoTools ==
    ASSUME IInv, RowStep, OneAlive, ToolsInv, NEW c \in Controller, NEW l,
           Goto(c, l), At(c, ExecPc),
           l \in Done \cup {"flushing", "failing", "cancelling"} \/ (l \in CalmPc /\ At(c, CalmPc)),
           UNCHANGED <<row, issued, sent, results>>
    PROVE  ToolsInv'
<1>1. Label(c, l) /\ proc'[c].calls = proc[c].calls  BY GotoFlat DEF IInv, SameMemo
<1>2. MyTurn(c) \in Turn  BY ProcFacts DEF IInv
<1>3. OnlyRow(MyTurn(c)) /\ Kept(MyTurn(c)) /\ row'[MyTurn(c)].out.journal = Journal(c)
  BY <1>2, SameKept DEF OnlyRow, Journal
<1>4. At(c, CalmPc) => proc[c].calls = {}  BY ZenonT(40) DEF ToolsInv, CallsAt, At
<1> QED  BY ZenonT(40), <1>1, <1>3, <1>4, ExecTools

(* A controller stops working on a row.                                    *)
LEMMA LeaveTools ==
    ASSUME IInv, RowStep, OneAlive, ToolsInv, NEW c \in Controller, Label(c, "releasing"),
           ~At(c, {"off", "down"}), \A u \in Turn : Kept(u), UNCHANGED <<issued, sent, results>>
    PROVE  ToolsInv'
<1>1. Journalled' /\ SentIssued' /\ \A u \in Turn : Tidy(u)'  BY KeptTools
<1>2. "releasing" \notin Busy \cup CalmPc \cup ExecPc  BY PcFacts DEF CalmPc, Done
<1>3. CallsAt(c)'  BY <1>2 DEF CallsAt, Label, At
<1> QED  BY <1>1, <1>3, ToolsCombine DEF Label

-----------------------------------------------------------------------------
(* Every step keeps the invariant.                                         *)

LEMMA StartingTools ==
    ASSUME IInv, RowStep, OneAlive, ToolsInv, NEW c \in Controller, Starting(c)
    PROVE  ToolsInv'
<1> DEFINE t == MyTurn(c)
<1>1. TypeOK /\ t \in Turn  BY ProcFacts DEF IInv
<1>2. /\ "releasing" \in Done /\ CalmPc \subseteq ExecPc
      /\ {"start", "reconcile", "launch", "uncertain", "append", "appending", "appended",
          "running", "model"} \subseteq CalmPc
      /\ {"start", "reconcile", "launch"} = PreLaunchPc
  BY DEF Done, CalmPc, ToolPc, ExecPc, RunPc, TaskPc, LoopPc, PreLaunchPc
<1>3. CASE FirstCheckpoint(c)
  <2> DEFINE l == IF row[t].cancel THEN "cancelling"
                  ELSE IF proc[c].app = "user_append_uncertain" THEN "reconcile" ELSE "launch"
             n == row[t].out.note
             x == Checkpointed(row[t].out, row[t].out.phase, proc[c].app)
             o == IF proc[c].app = "none" THEN Checkpointed(row[t].out, "claimed", "none")
                  ELSE [x EXCEPT !.note = n]
  <2>1. /\ Goto(c, l) /\ row' = [row EXCEPT ![t].out = o] /\ Owns(c, t)
        /\ At(c, ExecPc) /\ At(c, CalmPc) /\ UNCHANGED <<issued, sent, results>>
    BY <1>2, <1>3 DEF FirstCheckpoint, external, At
  <2>2. l = "cancelling" \/ l \in CalmPc  BY <1>2
  <2>3. o.journal = Journal(c) /\ (o.journal # {} => o.phase = "tool_in_flight")
    <3>1. CASE proc[c].app = "none"
      BY <3>1, CheckpointedJournal DEF Journal
    <3>2. CASE proc[c].app # "none"
      <4>1. x.journal = Journal(c) /\ (x.journal # {} => x.phase = "tool_in_flight")
        BY CheckpointedJournal DEF Journal
      <4>2. o = [x EXCEPT !.note = n]  BY <3>2
      <4>3. x \in Outcome
        BY ZenonT(40), <1>1, ProcFacts, CheckpointedType DEF TypeOK, Row, Outcome
      <4> HIDE DEF x, n
      <4>4. o.journal = x.journal /\ o.phase = x.phase
        BY <4>2, <4>3 DEF Outcome
      <4> QED  BY <4>1, <4>4
    <3> QED  BY ZenonT(40), <3>1, <3>2
  <2> HIDE DEF l, o
  <2>4. OutSet(t, o) /\ Label(c, l) /\ proc'[c].calls = proc[c].calls
    BY ZenonT(40), <1>1, <2>1, OutFlat, GotoFlat DEF SameMemo
  <2> QED  BY <2>1, <2>2, <2>3, <2>4, OutTools
<1>4. CASE ReconcileOwnAppend(c)
  <2> DEFINE p == IF Reconciled(t, "user_append_uncertain")
                  THEN "user_appended" ELSE "user_append_pending"
             o == Checkpointed(row[t].out, p, p)
  <2>1. /\ proc' = [proc EXCEPT ![c] = [proc[c] EXCEPT !.app = p, !.pc = "launch"]]
        /\ row' = [row EXCEPT ![t].out = o]
    BY <1>4 DEF ReconcileOwnAppend
  <2>2. UNCHANGED <<issued, sent, results>> /\ Owns(c, t) /\ At(c, ExecPc) /\ At(c, CalmPc)
    BY <1>2, <1>4 DEF ReconcileOwnAppend, external, At
  <2>3. o.journal = Journal(c) /\ (o.journal # {} => o.phase = "tool_in_flight")
    BY CheckpointedJournal DEF Journal
  <2> HIDE DEF p, o
  <2>4. Label(c, "launch") /\ OutSet(t, o) /\ proc'[c].calls = proc[c].calls
    BY ZenonT(40), <1>1, <2>1, AppFlat, OutFlat DEF AppEffect
  <2> QED  BY ZenonT(40), <1>2, <2>2, <2>3, <2>4, OutTools
<1>5. CASE PayloadError(c)
  <2>1. "failed" \in Terminal  BY StatusFacts
  <2> QED  BY <1>2, <1>5, <2>1, EndTools DEF PayloadError, MarkTerminal, End, external, At
(* Handed back before the launch, with the outcome but for its phase.      *)
<1>6. ASSUME NEW p, At(c, PreLaunchPc), End(c, "recoverable", [row[t].out EXCEPT !.phase = p]),
             UNCHANGED <<issued, sent, results>>
      PROVE  ToolsInv'
  <2> DEFINE o == [row[t].out EXCEPT !.phase = p]
  <2>1. o.journal = Journal(c)
    <3>1. row[t].out \in Outcome  BY <1>1, ProcFacts
    <3> QED  BY <3>1 DEF Outcome, Journal
  <2>2. EndAt(c, "recoverable", o, "releasing")  BY <1>6 DEF End
  <2> HIDE DEF o
  <2> QED  BY <1>2, <1>6, <2>1, <2>2, EndTools DEF At
<1>7. CASE ReconcileOwnAppendFails(c)
  BY <1>2, <1>6, <1>7 DEF ReconcileOwnAppendFails, external, At
<1>8. CASE LocalBusy(c)
  BY <1>2, <1>6, <1>8 DEF LocalBusy, external, At
<1>9. CASE Launch(c)
  <2>1. At(c, CalmPc) /\ At(c, ExecPc) /\ UNCHANGED <<issued, sent, results>>
    BY <1>2, <1>9 DEF Launch, external, At
  <2>2. CASE Resumes(c)
    <3>3. /\ proc' = [proc EXCEPT ![c] = [proc[c] EXCEPT !.app = "user_appended", !.pc = "model"]]
          /\ UNCHANGED row
      BY <1>9, <2>2 DEF Launch
    <3>1. Label(c, "model") /\ proc'[c].calls = proc[c].calls /\ UNCHANGED row
      BY ZenonT(40), <1>1, <3>3, AppFlat DEF AppEffect
    <3>2. OnlyRow(t) /\ Kept(t) /\ row'[t].out.journal = Journal(c) /\ proc[c].calls = {}
      BY ZenonT(40), <1>1, <2>1, <3>1, SameKept DEF OnlyRow, Journal, ToolsInv, CallsAt, At
    <3> QED  BY ZenonT(40), <1>2, <2>1, <3>1, <3>2, ExecTools
  <2>3. CASE ~Resumes(c)
    BY <1>2, <1>9, <2>1, <2>3, CheckpointTools DEF Launch
  <2> QED  BY <2>2, <2>3
<1>10. CASE BeginUserAppend(c)
  BY <1>2, <1>10, CheckpointTools DEF BeginUserAppend, At, external
<1>11. CASE SendUserAppend(c)
  BY <1>2, <1>11, GotoTools DEF SendUserAppend, SendAppend, tools, At
<1>12. CASE UserAppended(c)
  BY <1>2, <1>12, CheckpointTools DEF UserAppended, At, external
<1>13. CASE MarkRunning(c)
  <2>1. /\ UNCHANGED <<issued, sent, results>> /\ At(c, ExecPc) /\ At(c, CalmPc)
    BY <1>2, <1>13 DEF MarkRunning, At, external
  <2>2. /\ Label(c, "running") /\ RowSet(t, "running", row[t].out)
        /\ proc'[c].calls = proc[c].calls
    BY ZenonT(40), <1>1, <1>13, MarkRunningFlat DEF SameMemo, MarkRunningEffect
  <2>3. OnlyRow(t) /\ Kept(t) /\ row'[t].out.journal = Journal(c) /\ proc[c].calls = {}
    BY ZenonT(40), <1>1, <2>1, <2>2 DEF RowSet, Kept, Journal, ToolsInv, Tidy, CallsAt, At
  <2> QED  BY ZenonT(40), <1>2, <2>1, <2>2, <2>3, ExecTools
<1>14. CASE ModelWait(c)
  BY <1>2, <1>14, CheckpointTools DEF ModelWait, At, external
<1> QED
  BY <1>3, <1>4, <1>5, <1>7, <1>8, <1>9, <1>10, <1>11, <1>12, <1>13, <1>14 DEF Starting

(* The journal of a turn is complete when no turn is handed back without   *)
(* it: no transient failure, controller error or drain.                    *)
Unplanned == FaultKind \cap {"transient", "controller", "drain"} = {}

LEMMA EndingTools ==
    ASSUME IInv, RowStep, OneAlive, ToolsInv, Unplanned, NEW c \in Controller, Ending(c)
    PROVE  ToolsInv'
<1> DEFINE t == MyTurn(c)
<1>1. /\ {"releasing", "draining"} = Done /\ PreLaunchPc \cup RunPc \subseteq ExecPc
      /\ TaskPc \cup LoopPc \cup {"flushing"} \subseteq ExecPc
      /\ {"failing", "cancelling"} \subseteq ExecPc
      /\ {"failed", "cancelled"} \subseteq Terminal
  BY PcFacts, StatusFacts DEF Done, ExecPc, RunPc, TaskPc
<1>2. FailedOrCancelled(c) \in {"failed", "cancelled"}  BY DEF FailedOrCancelled
<1>3. CASE StepFails(c)
  BY <1>1, <1>3, CheckpointTools DEF StepFails, At, external
<1>4. ASSUME NEW done \in BOOLEAN, Flush(c, done) PROVE ToolsInv'
  BY <1>1, <1>4, CheckpointTools DEF Flush, At
<1>5. CASE SettleFailed(c)
  BY <1>1, <1>2, <1>5, EndTools DEF SettleFailed, MarkTerminal, End, external, At
<1>6. CASE RenewalError(c)
  <2>1. At(c, ExecPc)  BY <1>1, <1>6 DEF RenewalError, At
  <2> QED
    BY <1>1, <1>6, <2>1, EndTools, GotoTools DEF RenewalError, MarkTerminal, End, external
<1>7. CASE WatchCancellation(c)
  BY ZenonT(40), <1>1, <1>7, GotoTools DEF WatchCancellation, external, At
<1>8. CASE SettleCancelled(c)
  BY ZenonT(40), <1>1, <1>8, EndTools DEF SettleCancelled, MarkTerminal, End, external, At
<1>9. CASE StaleExit(c)
  <2>1. Goto(c, "releasing") /\ UNCHANGED <<row, issued, sent, results>>
    BY <1>9 DEF StaleExit, external
  <2>2. CASE At(c, ExecPc)  BY <1>1, <2>1, <2>2, GotoTools
  <2>3. CASE At(c, ToolRecoveryPc)
    <3>1. Label(c, "releasing") /\ ~At(c, {"off", "down"}) /\ \A u \in Turn : Kept(u)
      BY <2>1, <2>3, PcFacts, GotoFlat, SameKept DEF IInv, At, ToolRecoveryPc
    <3> QED  BY <2>1, <3>1, LeaveTools
  <2> QED  BY <1>9, <2>2, <2>3 DEF StaleExit, At
<1>10. CASE Stop(c)
  BY <1>1, <1>10, EndTools DEF Stop, external, At
<1> QED
  BY <1>3, <1>4, <1>5, <1>6, <1>7, <1>8, <1>9, <1>10
     DEF Ending, Unplanned, SettleTransient, ControllerError, Drain, Fault

(* A controller in the agent loop changes its calls, its results or the    *)
(* journal of its turn.                                                    *)
LEMMA LoopTools ==
    ASSUME IInv, RowStep, OneAlive, ToolsInv, NEW c \in Controller, NEW l \in ExecPc,
           Label(c, l), At(c, ExecPc), OnlyRow(MyTurn(c)),
           Journalled', SentIssued', Tidy(MyTurn(c))', CallsAt(c)'
    PROVE  ToolsInv'
<1>1. \A t \in Turn : Tidy(t)'  BY ZenonT(40) DEF ToolsInv, Tidy, OnlyRow, Label, SameTurn, MyTurn
<1>2. ~At(c, {"off", "down"})  BY ZenonT(40), PcFacts DEF At
<1> QED  BY <1>1, <1>2, ToolsCombine DEF Label

(* What the controller knows of its calls while it is in the agent loop.   *)
LEMMA LoopFacts ==
    ASSUME IInv, ToolsInv, NEW c \in Controller, At(c, ExecPc)
    PROVE  /\ MyTurn(c) \in Turn /\ Tidy(MyTurn(c)) /\ At(c, Busy) /\ proc[c].calls \subseteq Call
           /\ Settled(c) \/ Journal(c) \subseteq proc[c].calls
           /\ \A k \in proc[c].calls : issued[k] = [turn |-> MyTurn(c), token |-> proc[c].token]
           /\ Owns(c, MyTurn(c)) => /\ ~Settled(c) /\ row[MyTurn(c)].status \in {"claimed", "running"}
                                    /\ Journal(c) \subseteq proc[c].calls
<1>1. MyTurn(c) \in Turn /\ At(c, Busy) /\ proc[c].calls \subseteq Call
  BY ProcFacts, PcFacts DEF IInv, At
<1>2. Owns(c, MyTurn(c)) => ~Settled(c) /\ row[MyTurn(c)].status \in {"claimed", "running"}
  BY OwnTurn, StatusFacts DEF Settled
<1> QED  BY ZenonT(40), <1>1, <1>2 DEF ToolsInv, CallsAt

LEMMA RunningTools ==
    ASSUME IInv, RowStep, OneAlive, ToolsInv, NEW c \in Controller, Running(c)
    PROVE  ToolsInv'
<1> DEFINE t == MyTurn(c)
<1>1. TypeOK /\ t \in Turn  BY ProcFacts DEF IInv
<1>2. /\ "releasing" \in Done /\ CalmPc \subseteq ExecPc
      /\ {"model", "interim", "interimwait", "answer", "answerwait", "responded", "absorbing",
          "absorbsend", "absorbwait", "absorbnext"} \subseteq CalmPc
      /\ {"calling", "recorded", "bound", "waiting", "resulted", "cancelling"} \subseteq ExecPc
      /\ {"calling", "recorded", "bound", "waiting", "resulted", "cancelling"} \cap
            (CalmPc \cup {"off", "idle", "recovering", "acquired"}) = {}
      /\ CalmPc \cap {"calling", "recorded", "bound", "resulted", "cleared", "decided"} = {}
      /\ ExecPc \subseteq Busy
  BY DEF Done, Busy, CalmPc, ToolPc, ExecPc, RunPc, TaskPc, LoopPc, PreLaunchPc
<1>3. "completed" \in Terminal  BY StatusFacts
<1>4. ASSUME NEW k \in Call, CallTool(c, k) PROVE ToolsInv'
  <2> DEFINE l == IF row[t].cancel THEN "cancelling" ELSE "calling"
             o == Checkpointed(row[t].out, "append_tool", proc[c].app)
             n == [turn |-> t, token |-> proc[c].token]
  <2>1. /\ proc' = [proc EXCEPT ![c] = [proc[c] EXCEPT !.calls = {k}, !.pc = l]]
        /\ row' = [row EXCEPT ![t].out = o] /\ issued' = [issued EXCEPT ![k] = n]
    BY <1>4 DEF CallTool
  <2>2. /\ At(c, ExecPc) /\ At(c, CalmPc) /\ Owns(c, t) /\ UNCHANGED <<sent, results>>
        /\ issued[k] = NoIssue
    BY <1>2, <1>4 DEF CallTool, At
  <2>3. l \in {"cancelling", "calling"}  OBVIOUS
  <2>4. o.journal = Journal(c) /\ (o.journal # {} => o.phase = "tool_in_flight")
    BY CheckpointedJournal DEF Journal
  <2>5. issued'[k] = n /\ \A j \in Call \ {k} : issued'[j] = issued[j]
    BY <1>1, <2>1 DEF TypeOK
  <2>6. n.turn = t /\ n.token = proc[c].token  OBVIOUS
  <2> HIDE DEF l, o, n
  <2>7. Label(c, l) /\ OutSet(t, o) /\ proc'[c].calls = {k}
    BY ZenonT(40), <1>1, <2>1, CallsFlat, OutFlat DEF CallsEffect
  <2>8. Journal(c) = {} /\ row[t].status \in {"claimed", "running"}
    BY ZenonT(40), <2>2, LoopFacts DEF ToolsInv, CallsAt, At
  <2>9. k \notin sent /\ sent \subseteq Call
    BY <1>1, <2>2, TurnAssumption DEF ToolsInv, SentIssued, NoIssue, Turn, TypeOK
  <2>10. Journalled'
    <3>1. \A j \in sent : issued'[j] = issued[j] /\ issued[j].turn \in Turn
      BY <2>5, <2>9 DEF ToolsInv, SentIssued
    <3>2. \A u \in Turn : row'[u].status = row[u].status /\ row'[u].out.journal = row[u].out.journal
      BY <2>4, <2>7 DEF OutSet, OnlyRow, Journal
    <3> QED  BY <2>2, <3>1, <3>2 DEF ToolsInv, Journalled
  <2>11. SentIssued'
    BY <2>2, <2>5, <2>9 DEF ToolsInv, SentIssued
  <2>12. Tidy(t)'
    BY ZenonT(40), <2>4, <2>7, <2>8 DEF Tidy, OutSet, Label, SameTurn, MyTurn
  <2>13. CallsAt(c)'
    <3>1. Journal(c)' = {} /\ t' = t
      BY ZenonT(40), <2>4, <2>7, <2>8 DEF Journal, OutSet, Label, SameTurn, MyTurn
    <3>2. proc'[c].calls \cap sent' = {}  BY ZenonT(40), <2>2, <2>7, <2>9
    <3>3. \A j \in proc'[c].calls : issued'[j] = [turn |-> t, token |-> proc[c].token]
      BY <2>5, <2>7 DEF n
    <3> QED
      BY ZenonT(40), <1>2, <2>3, <2>7, <3>1, <3>2, <3>3 DEF CallsAt, Label, SameTurn, At
  <2> QED
    BY ZenonT(40), <1>2, <2>2, <2>3, <2>7, <2>10, <2>11, <2>12, <2>13, LoopTools DEF OutSet
<1>5. CASE RecordToolDispatch(c)
  <2> DEFINE l == IF row[t].cancel THEN "cancelling" ELSE "recorded"
             k == proc[c].calls
             o == [Out("tool_in_flight", proc[c].app) EXCEPT !.journal = k]
  <2>1. /\ Goto(c, l) /\ row' = [row EXCEPT ![t].out = o] /\ At(c, ExecPc) /\ Owns(c, t)
        /\ At(c, {"calling"}) /\ UNCHANGED <<issued, sent, results>>
    BY <1>2, <1>5 DEF RecordToolDispatch, At, external
  <2>2. l \in {"cancelling", "recorded"}  OBVIOUS
  <2>3. o.journal = k /\ o.phase = "tool_in_flight"
    <3> HIDE DEF k
    <3> QED  BY ZenonT(40) DEF Out
  <2>4. k = proc[c].calls  OBVIOUS
  <2> HIDE DEF l, o, k
  <2>5. OutSet(t, o) /\ Label(c, l) /\ proc'[c].calls = k
    BY ZenonT(40), <1>1, <2>1, <2>4, OutFlat, GotoFlat DEF SameMemo
  <2>6. /\ Journal(c) \subseteq k /\ row[t].status \in {"claimed", "running"} /\ k \cap sent = {}
        /\ \A j \in k : issued[j] = [turn |-> t, token |-> proc[c].token]
    <3>1. proc[c].calls \cap sent = {}  BY ZenonT(40), <2>1 DEF ToolsInv, CallsAt, At
    <3> QED  BY <2>1, <2>4, <3>1, LoopFacts
  <2>7. Kept(t)  BY ZenonT(40), <2>3, <2>5, <2>6 DEF Kept, OutSet, Journal
  <2>8. Journalled' /\ SentIssued' /\ \A u \in Turn : Tidy(u)'
    BY <2>1, <2>5, <2>7, SameKept, KeptTools DEF OutSet, OnlyRow
  <2>9. CallsAt(c)'
    <3>1. Journal(c)' = k /\ t' = t
      BY ZenonT(40), <2>3, <2>5 DEF Journal, OutSet, Label, SameTurn, MyTurn
    <3> QED
      BY <1>2, <2>1, <2>2, <2>5, <2>6, <3>1 DEF CallsAt, Label, SameTurn, At
  <2> QED
    BY <1>1, <1>2, <2>1, <2>2, <2>5, <2>8, <2>9, ToolsCombine, PcFacts DEF Label, At
(* Sending and answering leave the row alone.                              *)
<1>6. ASSUME NEW l \in {"bound", "waiting", "resulted", "cancelling"}, Goto(c, l), At(c, ExecPc),
             UNCHANGED <<row, issued>>, results \subseteq results', Journalled', SentIssued',
             l = "bound" => /\ proc[c].calls \subseteq Journal(c)
                            /\ proc[c].calls \cap sent' = {},
             l = "resulted" => proc[c].calls \cap sent' \subseteq results'
      PROVE  ToolsInv'
  <2>1. Label(c, l) /\ proc'[c].calls = proc[c].calls  BY ZenonT(40), <1>1, <1>6, GotoFlat DEF SameMemo
  <2>2. /\ Settled(c) \/ Journal(c) \subseteq proc[c].calls
        /\ \A j \in proc[c].calls : issued[j] = [turn |-> t, token |-> proc[c].token]
        /\ Tidy(t)
    BY ZenonT(40), <1>6, LoopFacts
  <2>3. t' = t /\ Journal(c)' = Journal(c) /\ Settled(c)' = Settled(c) /\ Tidy(t)' /\ OnlyRow(t)
    BY ZenonT(40), <1>1, <1>6, <2>1, <2>2 DEF Label, SameTurn, MyTurn, Journal, Settled, Tidy, OnlyRow
  <2>4. CallsAt(c)'
    BY ZenonT(40), <1>2, <1>6, <2>1, <2>2, <2>3 DEF CallsAt, Label, SameTurn, At
  <2> QED  BY ZenonT(40), <1>2, <1>6, <2>1, <2>3, <2>4, LoopTools
<1>7. CASE BindToolDispatch(c)
  <2> DEFINE l == IF row[t].cancel THEN "cancelling"
                  ELSE IF proc[c].calls \subseteq row[t].out.journal THEN "bound" ELSE "resulted"
  <2>1. /\ At(c, {"recorded"}) /\ Goto(c, l) /\ UNCHANGED <<row, issued, sent, results>>
    BY <1>7 DEF BindToolDispatch, external
  <2>2. At(c, ExecPc) /\ proc[c].calls \cap sent = {}
    BY ZenonT(40), <1>2, <2>1 DEF ToolsInv, CallsAt, At
  <2>3. l \in {"bound", "resulted", "cancelling"} /\ (l = "bound" => proc[c].calls \subseteq Journal(c))
    BY DEF Journal
  <2>4. Journalled' /\ SentIssued'
    BY <2>1, KeptTools, SameKept
  <2> HIDE DEF l
  <2> QED  BY ZenonT(40), <1>6, <2>1, <2>2, <2>3, <2>4
<1>8. CASE SendTool(c)
  <2>1. /\ At(c, {"bound"}) /\ sent' = sent \cup proc[c].calls /\ Goto(c, "waiting")
        /\ UNCHANGED <<row, issued, results>>
    BY <1>8 DEF SendTool
  <2>2. Settled(c) \/ proc[c].calls \subseteq Journal(c)
    BY ZenonT(40), <2>1 DEF ToolsInv, CallsAt, At
  <2>3. \A j \in proc[c].calls : issued[j].turn = t
    <3>1. At(c, ExecPc)  BY <1>2, <2>1 DEF At
    <3>2. \A j \in proc[c].calls : issued[j] = [turn |-> MyTurn(c), token |-> proc[c].token]
      BY ZenonT(40), <3>1, LoopFacts
    <3> QED  BY <3>2
  <2>4. Journalled' /\ SentIssued'
    <3>1. \A k \in proc[c].calls : row[issued[k].turn].status \in Terminal
                                   \/ k \in row[issued[k].turn].out.journal
      BY <2>2, <2>3 DEF Settled, Journal
    <3>2. Journalled'  BY ZenonT(40), <2>1, <3>1 DEF ToolsInv, Journalled
    <3> QED  BY <1>1, <2>1, <2>3, <3>2 DEF ToolsInv, SentIssued
  <2>5. At(c, ExecPc)  BY <1>2, <2>1 DEF At
  <2> QED  BY <1>6, <2>1, <2>4, <2>5
<1>9. CASE ToolReturns(c)
  <2>1. /\ At(c, {"waiting"}) /\ results' = results \cup proc[c].calls /\ Goto(c, "resulted")
        /\ UNCHANGED <<row, issued, sent>>
    BY <1>9 DEF ToolReturns
  <2>2. At(c, ExecPc) /\ Journalled' /\ SentIssued'
    BY ZenonT(40), <1>2, <2>1 DEF ToolsInv, Journalled, SentIssued, At
  <2> QED  BY <1>6, <2>1, <2>2
<1>10. CASE CompleteToolDispatch(c)
  <2> DEFINE l == IF row[t].cancel THEN "cancelling" ELSE "model"
             o == Out("tool_result_persisted", proc[c].app)
  <2>1. /\ proc' = [proc EXCEPT ![c] = [proc[c] EXCEPT !.calls = {}, !.pc = l]]
        /\ row' = [row EXCEPT ![t].out = o]
    BY <1>10 DEF CompleteToolDispatch
  <2>2. /\ At(c, ExecPc) /\ At(c, {"resulted"}) /\ Owns(c, t) /\ UNCHANGED <<issued, sent, results>>
    BY <1>2, <1>10 DEF CompleteToolDispatch, At, external
  <2>3. l \in {"cancelling", "model"} /\ o.journal = {}  BY DEF Out
  <2> HIDE DEF l, o
  <2>4. Label(c, l) /\ OutSet(t, o) /\ proc'[c].calls = {}
    BY ZenonT(40), <1>1, <2>1, CallsFlat, OutFlat DEF CallsEffect
  <2>5. Journal(c) \cap sent \subseteq results
    BY ZenonT(40), <2>2, LoopFacts DEF ToolsInv, CallsAt
  <2>6. Journalled'
    <3>1. \A j \in sent : issued[j].turn \in Turn  BY DEF ToolsInv, SentIssued
    <3>2. \A u \in Turn : /\ row'[u].status = row[u].status
                          /\ u # t => row'[u].out.journal = row[u].out.journal
      BY ZenonT(40), <2>4 DEF OutSet, OnlyRow
    <3> QED  BY ZenonT(40), <2>2, <2>5, <3>1, <3>2 DEF ToolsInv, Journalled, Journal
  <2>7. SentIssued'  BY <2>2 DEF ToolsInv, SentIssued
  <2>8. Journal(c)' = {} /\ t' = t /\ Tidy(t)'
    BY ZenonT(40), <2>3, <2>4 DEF Journal, Tidy, OutSet, Label, SameTurn, MyTurn
  <2>9. CallsAt(c)'
    BY ZenonT(40), <1>2, <2>3, <2>4, <2>8 DEF CallsAt, Label, At
  <2> QED
    BY ZenonT(40), <1>2, <2>2, <2>3, <2>4, <2>6, <2>7, <2>8, <2>9, LoopTools DEF OutSet
<1>11. ASSUME NEW l \in {"interim", "answer"}, BeginAssistant(c, l) PROVE ToolsInv'
  BY ZenonT(40), <1>2, <1>11, CheckpointTools DEF BeginAssistant, At, external
<1>12. CASE SendInterim(c)
  BY ZenonT(40), <1>2, <1>12, GotoTools DEF SendInterim, SendAppend, tools, At
<1>13. CASE InterimAppended(c)
  BY <1>2, <1>13, GotoTools DEF InterimAppended, At, external
<1>14. CASE SendAnswer(c)
  BY ZenonT(40), <1>2, <1>14, GotoTools DEF SendAnswer, SendAppend, tools, At
<1>15. CASE ModelResponse(c)
  BY ZenonT(40), <1>2, <1>15, CheckpointTools DEF ModelResponse, At, external
<1>16. CASE Complete(c)
  BY <1>2, <1>3, <1>16, EndTools DEF Complete, MarkTerminal, End, external, At
<1>17. ASSUME NEW n \in Turn, Handoff(c, n) PROVE ToolsInv'
  <2>1. /\ row[n].status = "absent" /\ row'[n].status = "queued" /\ row'[n].out = row[n].out
        /\ row'[t].status = "completed" /\ row'[t].out = Out("terminal", "none")
        /\ \A u \in Turn \ {t, n} : row'[u] = row[u]
        /\ Label(c, "releasing") /\ At(c, {"responded"})
    BY ZenonT(40), <1>1, <1>17, HandoffFlat DEF HandoffEffect
  <2>2. UNCHANGED <<issued, sent, results>>  BY <1>17 DEF Handoff, external
  <2>3. Kept(t)  BY <1>3, <2>1 DEF Kept, Out
  <2>4. Kept(n)  BY ZenonT(40), <2>1 DEF Kept, ToolsInv, Tidy
  <2>5. \A u \in Turn : Kept(u)  BY ZenonT(40), <2>1, <2>3, <2>4, SameKept
  <2> QED  BY ZenonT(40), <2>1, <2>2, <2>5, LeaveTools DEF At
(* The batch grows or shrinks by one request.                              *)
<1>18. ASSUME NEW u \in Turn, u # t, At(c, CalmPc), proc'[c].pc \in CalmPc, MovesOnly(c),
              OnlyRow(u), row'[u].status \in Terminal \/ row[u].status \in Claimable,
              row'[u].out.journal = {}, proc'[c].turn = proc[c].turn,
              proc'[c].calls = proc[c].calls, UNCHANGED <<issued, sent, results>>
       PROVE  ToolsInv'
  <2>1. Kept(u)  BY ZenonT(40), <1>18, StatusFacts DEF Kept, ToolsInv, Tidy
  <2>2. Journalled' /\ SentIssued' /\ \A v \in Turn : Tidy(v)'
    BY ZenonT(40), <1>18, <2>1, SameKept, KeptTools DEF OnlyRow
  <2>3. Journal(c)' = Journal(c) /\ Settled(c)' = Settled(c)
    BY ZenonT(40), <1>1, <1>18 DEF Journal, Settled, MyTurn, OnlyRow
  <2>4. proc[c].calls = {} /\ (Settled(c) \/ Journal(c) \subseteq proc[c].calls)
    BY ZenonT(40), <1>2, <1>18 DEF ToolsInv, CallsAt, At
  <2>5. CallsAt(c)'
    BY ZenonT(40), <1>2, <1>18, <2>3, <2>4 DEF CallsAt, At
  <2>6. ~At(c, {"off", "down"})  BY ZenonT(40), <1>2, <1>18, PcFacts DEF At
  <2> QED  BY <1>18, <2>2, <2>5, <2>6, ToolsCombine
<1>19. ASSUME NEW u \in Turn, BeginAbsorb(c, u) PROVE ToolsInv'
  <2>1. /\ row[u].status \in Claimable /\ OnlyRow(u) /\ u # t
        /\ row'[u].out = Out("canonical_user_append", "none")
        /\ MovesOnly(c) /\ proc'[c].pc = "absorbing" /\ proc'[c].turn = proc[c].turn
        /\ proc'[c].calls = proc[c].calls /\ At(c, {"model", "absorbing"})
    BY ZenonT(40), <1>1, <1>19, BeginAbsorbFlat DEF SameMemo, BeginAbsorbEffect
  <2>2. UNCHANGED <<issued, sent, results>>  BY <1>19 DEF BeginAbsorb, external
  <2> QED  BY <1>2, <1>18, <2>1, <2>2 DEF At, Out
<1>20. ASSUME NEW u \in Turn, AbsorbAppend(c, u) PROVE ToolsInv'
  BY ZenonT(40), <1>2, <1>20, CheckpointTools DEF AbsorbAppend, At, external
<1>21. ASSUME NEW u \in Turn, SendAbsorbed(c, u) PROVE ToolsInv'
  BY ZenonT(40), <1>2, <1>21, GotoTools DEF SendAbsorbed, SendAppend, tools, At
<1>22. ASSUME NEW u \in Turn, MarkAbsorbed(c, u) PROVE ToolsInv'
  <2>1. /\ RowSet(u, "absorbed", Out("terminal", "none")) /\ u \in proc[c].batch
        /\ MovesOnly(c) /\ proc'[c].pc \in {"model", "absorbnext"}
        /\ proc'[c].turn = proc[c].turn
        /\ proc'[c].calls = proc[c].calls /\ At(c, {"absorbwait"})
    BY ZenonT(40), <1>1, <1>22, MarkAbsorbedFlat DEF SameMemo, MarkAbsorbedEffect
  <2>2. UNCHANGED <<issued, sent, results>>  BY <1>22 DEF MarkAbsorbed, external
  <2>3. u # t /\ "absorbed" \in Terminal
    BY ZenonT(40), <2>1, StatusFacts DEF IInv, Batched, BatchedAt, MyTurn
  <2> QED  BY <1>2, <1>18, <2>1, <2>2, <2>3 DEF At, RowSet, Out
<1> QED
  BY <1>4, <1>5, <1>7, <1>8, <1>9, <1>10, <1>11, <1>12, <1>13, <1>14, <1>15, <1>16, <1>17,
     <1>19, <1>20, <1>21, <1>22 DEF Running

LEMMA RecoveryTools ==
    ASSUME IInv, RowStep, OnceInv, ToolsInv, NEW c \in Controller, Recovery(c)
    PROVE  ToolsInv'
<1> DEFINE t == MyTurn(c)
<1>1. TypeOK /\ t \in Turn /\ OneAlive  BY ProcFacts DEF IInv, OnceInv
<1>2. /\ {"idle", "recovering", "held", "decided", "tools", "cleared"}
             \cap (CalmPc \cup ExecPc \cup {"off", "down"}) = {}
      /\ {"idle", "recovering", "held", "decided"} \cap Busy = {}
      /\ {"tools", "cleared"} \subseteq Busy
  BY PcFacts DEF CalmPc, Busy, ToolRecoveryPc, ExecPc, RunPc, TaskPc, LoopPc, PreLaunchPc
<1>3. CallsAt(c) /\ CopyAt(c) /\ Tidy(t)  BY <1>1 DEF ToolsInv, OnceInv, OnceAt
(* The controller goes on with no row or with one it only reads.           *)
<1>4. ASSUME NEW l \in {"idle", "recovering", "held", "decided"}, MovesOnly(c), proc'[c].pc = l,
             proc'[c].calls = proc[c].calls, At(c, {"idle", "recovering", "held"}),
             l \in {"idle", "recovering"} => At(c, {"idle", "recovering"}),
             l = "decided" => snap'[c].out.phase # "tool_in_flight",
             UNCHANGED <<row, issued, sent, results>>
      PROVE  ToolsInv'
  <2>1. Journalled' /\ SentIssued' /\ \A u \in Turn : Tidy(u)'
    BY <1>4, SameKept, KeptTools
  <2>2. CallsAt(c)'  BY ZenonT(40), <1>2, <1>3, <1>4 DEF CallsAt, At
  <2>3. ~At(c, {"off", "down"})  BY <1>4 DEF At
  <2> QED  BY ZenonT(40), <1>1, <1>4, <2>1, <2>2, <2>3, ToolsCombine
<1>5. CASE ListStale(c)
  <2>1. /\ At(c, {"idle"}) /\ MovesOnly(c) /\ proc'[c].pc = "recovering"
        /\ proc'[c].calls = proc[c].calls /\ UNCHANGED <<row, issued, sent, results>>
    BY ZenonT(40), <1>1, <1>5, ListStaleFlat DEF Label, SameMemo, external, ListStaleEffect
  <2> QED  BY <1>4, <2>1 DEF At
<1>6. CASE AcquireForRecovery(c)
  <2>1. /\ At(c, {"recovering"}) /\ MovesOnly(c) /\ proc'[c].pc = "held"
        /\ proc'[c].calls = proc[c].calls /\ UNCHANGED <<row, issued, sent, results>>
    BY ZenonT(40), <1>1, <1>6, AcquireForRecoveryFlat DEF SameMemo, external, AcquireForRecoveryEffect
  <2> QED  BY ZenonT(40), <1>4, <2>1 DEF At
<1>7. CASE SkipStale(c)
  <2>1. /\ At(c, {"recovering"}) /\ MovesOnly(c) /\ proc'[c].pc \in {"idle", "recovering"}
        /\ proc'[c].calls = proc[c].calls /\ UNCHANGED <<row, issued, sent, results>>
    BY ZenonT(40), <1>1, <1>7, SkipStaleFlat DEF Label, SameMemo, external, SkipStaleEffect
  <2> QED  BY ZenonT(40), <1>4, <2>1 DEF At
(* The controller writes the row it looks at and lets go.                  *)
<1>8. ASSUME Label(c, "releasing"), OnlyRow(t), Kept(t), At(c, LookingPc),
             UNCHANGED <<issued, sent, results>>
      PROVE  ToolsInv'
  <2>1. \A u \in Turn : Kept(u)  BY ZenonT(40), <1>8, SameKept DEF OnlyRow
  <2>2. ~At(c, {"off", "down"})  BY ZenonT(40), <1>8 DEF At, LookingPc
  <2> QED  BY <1>1, <1>8, <2>1, <2>2, LeaveTools
<1>9. row' = row => OnlyRow(t) /\ Kept(t)  BY <1>1, SameKept DEF OnlyRow
<1>10. CASE CancelStaleActive(c)
  <2>1. /\ Label(c, "releasing") /\ At(c, {"held"})
        /\ row' = row \/ RowSet(t, "cancelled", Out("terminal", "none"))
    BY <1>1, <1>10, CancelStaleFlat DEF CancelStaleEffect
  <2>2. OnlyRow(t) /\ Kept(t)
    <3>1. Out("terminal", "none").journal = {} /\ "cancelled" \in Terminal
      BY StatusFacts DEF Out
    <3> QED  BY ZenonT(40), <1>9, <2>1, <3>1 DEF RowSet, Kept
  <2>3. UNCHANGED <<issued, sent, results>> /\ At(c, LookingPc)
    BY <1>10, <2>1 DEF CancelStaleActive, external, At, LookingPc
  <2> QED  BY <1>8, <2>1, <2>2, <2>3
<1>11. CASE BeginToolRecovery(c)
  <2>1. /\ At(c, {"held"}) /\ MovesOnly(c) /\ SameTurn(c)
    BY ZenonT(40), <1>1, <1>11, BeginToolRecoveryFlat DEF BeginToolRecoveryEffect
  <2>2. UNCHANGED <<issued, sent, results>> /\ At(c, LookingPc) /\ ~At(c, {"off", "down"})
    BY <1>11, <2>1 DEF BeginToolRecovery, external, At, LookingPc
  <2>3. CASE row' = row /\ proc'[c].pc = "releasing"
    BY ZenonT(40), <1>8, <1>9, <2>1, <2>2, <2>3 DEF Label
  <2>4. CASE /\ OnlyRow(t) /\ row'[t].status = row[t].status /\ row'[t].out = row[t].out
             /\ proc'[c].pc = "tools" /\ proc'[c].calls = row[t].out.journal
    <3>1. Kept(t)  BY ZenonT(40), <1>3, <2>4 DEF Kept, Tidy
    <3>2. Journalled' /\ SentIssued' /\ \A u \in Turn : Tidy(u)'
      BY ZenonT(40), <2>2, <2>4, <3>1, SameKept, KeptTools DEF OnlyRow
    <3>3. Journal(c)' = proc'[c].calls
      BY ZenonT(40), <2>1, <2>4 DEF Journal, SameTurn, MyTurn
    <3>4. CallsAt(c)'  BY ZenonT(40), <1>2, <2>4, <3>3 DEF CallsAt, At
    <3> QED  BY <1>1, <2>1, <2>2, <3>2, <3>4, ToolsCombine
  <2> QED  BY ZenonT(40), <1>1, <1>11, <2>3, <2>4, BeginToolRecoveryFlat DEF BeginToolRecoveryEffect
<1>12. ASSUME NEW k \in Call, SettleToolCall(c, k) PROVE ToolsInv'
  <2>1. /\ UNCHANGED <<row, proc, snap, issued, sent>> /\ results \subseteq results'
        /\ At(c, {"tools"})
    BY <1>12 DEF SettleToolCall
  <2>2. Journalled' /\ SentIssued' /\ \A u \in Turn : Tidy(u)'
    BY <2>1, SameKept, KeptTools
  <2>3. CallsAt(c)'  BY ZenonT(40), <1>2, <1>3, <2>1 DEF CallsAt, At, Settled, Journal, MyTurn
  <2>4. MovesOnly(c) /\ ~At(c, {"off", "down"})  BY ZenonT(40), <2>1 DEF MovesOnly, At
  <2> QED  BY <1>1, <2>2, <2>3, <2>4, ToolsCombine
<1>13. ASSUME NEW s \in {"failed", "ambiguous"}, ToolRecoveryFails(c, s) PROVE ToolsInv'
  <2>1. At(c, {"tools"}) /\ RowSet(t, s, Out("terminal", "none")) /\ Label(c, "releasing")
    BY <1>1, <1>13, ToolRecoveryFailsFlat DEF ToolRecoveryFailsEffect
  <2>2. UNCHANGED <<issued, sent, results>> /\ At(c, LookingPc)
    BY <1>13, <2>1 DEF ToolRecoveryFails, external, At, LookingPc
  <2>3. OnlyRow(t) /\ Kept(t)  BY <1>13, <2>1, StatusFacts DEF RowSet, Kept, Out
  <2> QED  BY <1>8, <2>1, <2>2, <2>3
<1>14. CASE ClearToolDispatch(c)
  <2>1. /\ At(c, {"tools"}) /\ proc[c].calls \subseteq results /\ Owns(c, t)
        /\ OutSet(t, row'[t].out) /\ row'[t].out.journal = {}
        /\ Label(c, "cleared") /\ proc'[c].calls = proc[c].calls
    BY ZenonT(40), <1>1, <1>14, ClearToolDispatchFlat DEF SameMemo, ClearToolDispatchEffect
  <2>2. UNCHANGED <<issued, sent, results>>  BY <1>14 DEF ClearToolDispatch, external
  <2>3. Journal(c) \subseteq results
    <3>1. ~Settled(c)  BY ZenonT(40), <2>1, StatusFacts DEF Settled, Owns
    <3> QED  BY ZenonT(40), <1>2, <1>3, <2>1, <3>1 DEF CallsAt, At
  <2>4. Journalled'
    <3>1. \A j \in sent : issued[j].turn \in Turn  BY DEF ToolsInv, SentIssued
    <3>2. \A u \in Turn : /\ row'[u].status = row[u].status
                          /\ u # t => row'[u].out.journal = row[u].out.journal
      BY ZenonT(40), <2>1 DEF OutSet, OnlyRow
    <3> QED  BY ZenonT(40), <2>2, <2>3, <3>1, <3>2 DEF ToolsInv, Journalled, Journal
  <2>5. SentIssued' /\ \A u \in Turn : Tidy(u)'
    BY ZenonT(40), <2>1, <2>2 DEF ToolsInv, SentIssued, Tidy, OutSet, OnlyRow
  <2>6. Journal(c)' = {}
    BY ZenonT(40), <2>1 DEF Journal, Label, SameTurn, MyTurn
  <2>7. CallsAt(c)'  BY ZenonT(40), <1>2, <2>1, <2>6 DEF CallsAt, Label, At
  <2>8. MovesOnly(c) /\ ~At(c, {"off", "down"})  BY ZenonT(40), <2>1 DEF Label, At
  <2> QED  BY <1>1, <2>4, <2>5, <2>7, <2>8, ToolsCombine
<1>15. CASE FinishToolRecovery(c)
  <2>1. /\ At(c, {"cleared"}) /\ OnlyRow(t) /\ Owns(c, t) /\ Label(c, "releasing")
        /\ row'[t].out.journal = {}
    BY ZenonT(40), <1>1, <1>15, FinishToolRecoveryFlat DEF FinishToolRecoveryEffect
  <2>2. /\ UNCHANGED <<issued, sent, results>> /\ At(c, LookingPc)
    BY <1>15, <2>1 DEF FinishToolRecovery, external, At, LookingPc
  <2>3. Journal(c) = {}
    <3>1. ~Settled(c)  BY ZenonT(40), <2>1, StatusFacts DEF Settled, Owns
    <3> QED  BY ZenonT(40), <1>3, <2>1, <3>1 DEF CallsAt, At
  <2>4. Kept(t)  BY ZenonT(40), <2>1, <2>3 DEF Kept, Journal
  <2> QED  BY ZenonT(40), <1>8, <2>1, <2>2, <2>4
<1>16. CASE LeaveQuarantined(c)
  <2>1. /\ Label(c, "releasing") /\ At(c, LookingPc) /\ row' = row
        /\ UNCHANGED <<issued, sent, results>>
    BY ZenonT(40), <1>1, <1>16, GotoFlat DEF LeaveQuarantined, external, At, LookingPc
  <2> QED  BY <1>8, <1>9, <2>1
<1>17. ASSUME NEW f, Judge(c, f) PROVE ToolsInv'
  <2>1. /\ At(c, {"held"}) /\ snap[c].out.phase # "tool_in_flight" /\ Label(c, "decided")
        /\ proc'[c].calls = proc[c].calls
    BY ZenonT(40), <1>1, <1>17, JudgeFlat DEF JudgeEffect
  <2>2. UNCHANGED <<row, snap, issued, sent, results>>  BY <1>17 DEF Judge, external
  <2> QED  BY <1>4, <2>1, <2>2 DEF Label, At
<1>18. CASE Reconcile(c)
  BY <1>17, <1>18 DEF Reconcile
<1>19. CASE ReconcileFails(c)
  BY <1>17, <1>19 DEF ReconcileFails
<1>20. CASE RecoverStale(c)
  <2> DEFINE v == Verdict(snap[c], proc[c].found)
  <2>1. /\ At(c, {"decided"}) /\ Label(c, "releasing")
        /\ row' = row \/ (row[t].status \in v.from /\ RowSet(t, v.to, v.out))
    BY ZenonT(40), <1>1, <1>20, RecoverStaleFlat DEF RecoverStaleEffect
  <2>2. UNCHANGED <<issued, sent, results>> /\ At(c, LookingPc)
    BY <1>20, <2>1 DEF RecoverStale, external, At, LookingPc
  <2>3. /\ snap[c] \in Row /\ snap[c].status \in Active
        /\ proc[c].found \in {"none", "yes", "no", "error"}
    BY ZenonT(40), <1>1, <2>1, ProcFacts DEF IInv, Listed, ListedAt, At, Proc, TypeOK
  <2>4. v.from \subseteq Active /\ v.out.journal = {}
    BY ZenonT(40), <2>3, VerdictType, VerdictFacts
  <2>5. ASSUME row[t].status \in v.from, RowSet(t, v.to, v.out) PROVE Kept(t)
    <3>1. row[t].out = snap[c].out
      BY ZenonT(40), <1>3, <2>1, <2>4, <2>5, StatusFacts DEF CopyAt, Fresh, At
    <3>2. row[t].out.journal = {}
      BY ZenonT(40), <1>3, <2>1, <3>1 DEF CallsAt, Tidy, At
    <3> QED  BY ZenonT(40), <2>4, <2>5, <3>2 DEF Kept, RowSet
  <2>6. OnlyRow(t) /\ Kept(t)  BY ZenonT(40), <1>9, <2>1, <2>5 DEF RowSet
  <2> QED  BY ZenonT(40), <1>8, <2>1, <2>2, <2>6
<1> QED
  BY <1>5, <1>6, <1>7, <1>10, <1>11, <1>12, <1>13, <1>14, <1>15, <1>16, <1>18, <1>19, <1>20
     DEF Recovery

LEMMA ClaimingTools ==
    ASSUME IInv, RowStep, OnceInv, ToolsInv, NEW c \in Controller, Claiming(c)
    PROVE  ToolsInv'
<1> DEFINE t == MyTurn(c)
<1>1. TypeOK /\ t \in Turn /\ OneAlive  BY ProcFacts DEF IInv, OnceInv
<1>2. /\ {"acquired", "idle", "recovering", "down"} \cap (CalmPc \cup Busy \cup ExecPc) = {}
      /\ "start" \in CalmPc /\ CalmPc \subseteq ExecPc
      /\ CalmPc \cap {"calling", "recorded", "bound", "resulted", "cleared", "decided"} = {}
  BY PcFacts DEF CalmPc, ToolPc, Busy, ExecPc, PreLaunchPc, RunPc, TaskPc, LoopPc
<1>3. CallsAt(c)  BY DEF ToolsInv
<1>4. ASSUME MovesOnly(c), ~At(c, {"off", "down"}), UNCHANGED <<row, issued, sent, results>>,
             proc'[c].pc \in {"acquired", "idle", "recovering", "down"}, proc'[c].calls = {}
      PROVE  ToolsInv'
  <2>1. Journalled' /\ SentIssued' /\ \A u \in Turn : Tidy(u)'
    BY ZenonT(40), <1>4, SameKept, KeptTools
  <2>2. CallsAt(c)'  BY ZenonT(40), <1>2, <1>4 DEF CallsAt, At
  <2> QED  BY ZenonT(40), <1>1, <1>4, <2>1, <2>2, ToolsCombine
<1>5. ASSUME NEW u \in Turn, AcquireForClaim(c, u) PROVE ToolsInv'
  <2>1. MovesOnly(c) /\ proc'[c].pc = "acquired" /\ proc'[c].calls = proc[c].calls
    BY ZenonT(40), <1>1, <1>5, AcquireForClaimFlat DEF SameMemo, AcquireForClaimEffect
  <2>2. At(c, {"idle"}) /\ UNCHANGED <<row, issued, sent, results>>
    BY <1>5 DEF AcquireForClaim, external
  <2>3. proc[c].calls = {}  BY ZenonT(40), <1>3, <2>2 DEF CallsAt, At
  <2> QED  BY ZenonT(40), <1>4, <2>1, <2>2, <2>3 DEF At
<1>6. CASE Claim(c)
  <2>1. /\ At(c, {"acquired"}) /\ MovesOnly(c) /\ SameTurn(c) /\ proc'[c].calls = proc[c].calls
    BY ZenonT(40), <1>1, <1>6, ClaimFlat DEF ClaimEffect
  <2>2. UNCHANGED <<issued, sent, results>> /\ ~At(c, {"off", "down"})
    BY <1>6, <2>1 DEF Claim, external, At
  <2>3. CASE row' = row /\ proc'[c].pc = "releasing"
    BY ZenonT(40), <1>1, <2>1, <2>2, <2>3, SameKept, LeaveTools DEF Label
  <2>4. CASE /\ row[t].status \in Claimable /\ OnlyRow(t) /\ row'[t].out = row[t].out
             /\ proc'[c].pc = "start"
    <3>1. Journal(c) = {} /\ proc[c].calls = {}
      BY ZenonT(40), <1>1, <1>3, <2>1, <2>4, StatusFacts DEF ToolsInv, Tidy, Journal, CallsAt, At
    <3>2. \A u \in Turn : Kept(u)
      BY ZenonT(40), <2>4, <3>1, SameKept DEF Kept, Journal, OnlyRow
    <3>3. Journalled' /\ SentIssued' /\ \A u \in Turn : Tidy(u)'
      BY <2>2, <3>2, KeptTools
    <3>4. Journal(c)' = {}  BY ZenonT(40), <2>1, <2>4, <3>1 DEF Journal, SameTurn, MyTurn
    <3>5. CallsAt(c)'  BY ZenonT(40), <1>2, <2>1, <2>4, <3>1, <3>4 DEF CallsAt, At
    <3> QED  BY <1>1, <2>1, <2>2, <3>3, <3>5, ToolsCombine
  <2> QED  BY ZenonT(40), <1>1, <1>6, <2>3, <2>4, ClaimFlat DEF ClaimEffect
<1>7. CASE Release(c)
  <2>1. /\ At(c, Done) /\ UNCHANGED <<row, issued, sent, results>> /\ MovesOnly(c)
        /\ proc'[c].pc \in {"down", "recovering", "idle"} /\ proc'[c].calls = {}
    BY ZenonT(40), <1>1, <1>7, ReleaseFlat DEF external, ReleaseEffect
  <2> QED  BY ZenonT(40), <1>4, <2>1 DEF At, Done
<1> QED  BY <1>5, <1>6, <1>7 DEF Claiming

(* A step outside the controllers leaves outcomes alone or settles rows.   *)
LEMMA OutsideTools ==
    ASSUME IInv, RowStep, ToolsInv, UNCHANGED <<proc, snap, issued, sent, results>>,
           \A t \in Turn :
              \/ row'[t].out = row[t].out /\ row'[t].status = row[t].status
              \/ row'[t].status \in Terminal /\ row'[t].out.journal = {}
              \/ row'[t].out = row[t].out /\ row[t].status \notin {"claimed", "running"}
    PROVE  ToolsInv'
<1>1. \A t \in Turn : Kept(t)  BY ZenonT(40) DEF Kept, ToolsInv, Tidy
<1>2. Journalled' /\ SentIssued' /\ \A t \in Turn : Tidy(t)'  BY ZenonT(40), <1>1, KeptTools
<1>3. \A t \in Turn : row[t].status \in Terminal => row'[t] = row[t]  BY ZenonT(40), RowsInv DEF IInv
<1>4. ASSUME NEW c \in Controller PROVE CallsAt(c)'
  <2>1. CallsAt(c) /\ MyTurn(c) \in Turn  BY ZenonT(40), ProcFacts DEF ToolsInv, IInv
  <2>2. \/ Settled(c)'
        \/ Settled(c)' = Settled(c) /\ Journal(c)' = Journal(c)
    BY <1>3, <2>1 DEF Settled, Journal, MyTurn
  <2> QED  BY ZenonT(40), <2>1, <2>2 DEF CallsAt, At, MyTurn
<1> QED  BY ZenonT(40), <1>2, <1>4 DEF ToolsInv

LEMMA RequestsTools ==
    ASSUME IInv, RowStep, ToolsInv, Requests
    PROVE  ToolsInv'
<1>1. TypeOK /\ row \in [Turn -> Row]  BY DEF IInv, TypeOK
<1>2. ASSUME NEW t \in Turn, Admit(t) PROVE ToolsInv'
  <2>1. /\ row' = [row EXCEPT ![t].status = "queued"] /\ row[t].status = "absent"
        /\ UNCHANGED <<proc, snap, issued, sent, results>>
    BY <1>2 DEF Admit, external
  <2>2. row'[t].out = row[t].out /\ \A u \in Turn \ {t} : row'[u] = row[u]
    BY <1>1, <2>1 DEF Row
  <2> QED  BY <2>1, <2>2, OutsideTools
<1>3. ASSUME \A t \in Turn : row'[t] = row[t] \/ row'[t] = Cancelled(row[t]),
             UNCHANGED <<proc, snap, issued, sent, results>>
      PROVE  ToolsInv'
  <2>1. \A t \in Turn :
           /\ row'[t].out = row[t].out
           /\ row'[t].status = row[t].status \/ row[t].status \notin {"claimed", "running"}
    BY <1>1, <1>3, CancelledFlat, StatusFacts DEF CancelledEffect
  <2> QED  BY ZenonT(40), <1>3, <2>1, OutsideTools
<1>4. ASSUME NEW t \in Turn, RequestCancel(t) PROVE ToolsInv'
  <2>1. \A u \in Turn : row'[u] = row[u] \/ row'[u] = Cancelled(row[u])
    BY <1>1, <1>4 DEF RequestCancel
  <2> QED  BY ZenonT(40), <1>3, <1>4, <2>1 DEF RequestCancel, external
<1>5. CASE CancelConversation
  BY <1>3, <1>5 DEF CancelConversation, external
<1>6. ASSUME NEW t \in Turn, ResolveStaleToolAmbiguous(t) PROVE ToolsInv'
  <2>1. /\ OnlyRow(t) /\ row'[t].status = "ambiguous" /\ row'[t].out = Out("terminal", "none")
        /\ UNCHANGED <<proc, snap, issued, sent, results>>
    BY ZenonT(40), <1>1, <1>6, ResolveFlat DEF external, ResolveEffect
  <2>2. row'[t].status \in Terminal /\ row'[t].out.journal = {}
    BY <2>1, StatusFacts DEF Out
  <2> QED  BY <2>1, <2>2, OutsideTools DEF OnlyRow
<1> QED  BY <1>2, <1>4, <1>5, <1>6 DEF Requests

LEMMA EnvironmentTools ==
    ASSUME IInv, RowStep, OnceInv, ToolsInv, ~Peers, Environment
    PROVE  ToolsInv'
<1>1. TypeOK /\ OneAlive  BY DEF IInv, OnceInv
<1>2. {"off", "idle", "down"} \cap (CalmPc \cup Busy \cup ExecPc) = {}  BY PcFacts DEF CalmPc
<1>3. ASSUME NEW c \in Controller, Boot(c) PROVE ToolsInv'
  <2>1. /\ At(c, {"off"}) /\ \A d \in Controller : At(d, {"off", "down"})
        /\ UNCHANGED <<row, snap, issued, sent, results>> /\ Goto(c, "idle")
    BY <1>3 DEF Boot, external
  <2>2. Label(c, "idle") /\ proc'[c].calls = proc[c].calls  BY ZenonT(40), <1>1, <2>1, GotoFlat DEF SameMemo
  <2>3. Journalled' /\ SentIssued' /\ \A u \in Turn : Tidy(u)'  BY <2>1, SameKept, KeptTools
  <2>4. \A d \in Controller \ {c} : proc'[d] = proc[d]  BY ZenonT(40), <2>2 DEF Label, MovesOnly
  <2>5. \A d \in Controller : CallsAt(d)'
    BY ZenonT(40), <1>2, <2>1, <2>2, <2>4 DEF ToolsInv, CallsAt, Label, At
  <2> QED  BY <2>3, <2>5 DEF ToolsInv
<1>4. ASSUME NEW c \in Controller, Crash(c) PROVE ToolsInv'
  <2>1. /\ UNCHANGED <<row, issued, sent, results>> /\ MovesOnly(c)
        /\ proc'[c].pc = "down" /\ ~At(c, {"off", "down"})
    BY ZenonT(40), <1>1, <1>4, CrashFlat DEF external, Crash, CrashEffect
  <2>2. CallsAt(c)'  BY ZenonT(40), <1>2, <2>1 DEF CallsAt, At
  <2>3. Journalled' /\ SentIssued' /\ \A u \in Turn : Tidy(u)'  BY <2>1, SameKept, KeptTools
  <2> QED  BY ZenonT(40), <1>1, <2>1, <2>2, <2>3, ToolsCombine
<1>5. CASE Expire
  BY <1>5, OutsideTools DEF Expire, external
<1>6. ASSUME NEW w \in wire, Land(w) \/ Drop(w) PROVE ToolsInv'
  BY ZenonT(40), <1>6, OutsideTools DEF Land, Drop, tools
<1> QED  BY <1>3, <1>4, <1>5, <1>6 DEF Environment

LEMMA NextTools ==
    ASSUME IInv, OnceInv, ToolsInv, ~Peers, Unplanned, [Next]_vars
    PROVE  ToolsInv'
<1>1. RowStep /\ OneAlive  BY NextInv DEF OnceInv
<1>2. CASE UNCHANGED vars
  BY ZenonT(40), <1>1, <1>2, OutsideTools DEF vars
<1>3. CASE Next
  BY <1>1, <1>3, RecoveryTools, ClaimingTools, StartingTools, RunningTools, EndingTools,
     RequestsTools, EnvironmentTools DEF Next, Step
<1> QED  BY <1>2, <1>3

LEMMA ToolsInvariance ==
    ASSUME ~Peers, Unplanned
    PROVE  Spec => []ToolsInv
<1>1. Init => ToolsInv
  <2> SUFFICES ASSUME Init PROVE ToolsInv  OBVIOUS
  <2>1. \A t \in Turn : row[t].out.journal = {}  BY ZenonT(40) DEF Init, NoRow, Out
  <2>2. \A c \in Controller : proc[c].pc = "off" /\ proc[c].calls = {}  BY DEF Init, Idle
  <2>3. "off" \notin Busy \cup ExecPc \cup CalmPc  BY PcFacts DEF CalmPc
  <2> QED
    BY ZenonT(40), <2>1, <2>2, <2>3 DEF Init, ToolsInv, Journalled, SentIssued, Tidy, CallsAt, At
<1>2. IInv /\ OnceInv /\ ToolsInv /\ [Next]_vars => ToolsInv'  BY NextTools
<1> QED  BY <1>1, <1>2, Invariance, OnceInvariance, PTL DEF Spec

(* With one controller at a time and no turn handed back on purpose,       *)
(* whatever crashes, expires, is lost or fails while recovering: a later   *)
(* attempt runs the model only when every call an earlier one sent has a   *)
(* canonical result.  record_tool_dispatch journals a call before it is    *)
(* sent, checkpoints keep the journal, and recovery settles what is in it. *)
THEOREM ToolCallsSettledHolds ==
    ASSUME ~Peers, Unplanned
    PROVE  Spec => []ToolCallsSettled
<1>1. IInv /\ ToolsInv => ToolCallsSettled
  <2> SUFFICES ASSUME IInv, ToolsInv, NEW c \in Controller, At(c, ModelPc), Owns(c, MyTurn(c)),
                      NEW k \in Unsettled(c)
               PROVE  FALSE
    BY DEF ToolCallsSettled
  <2>1. At(c, ExecPc)  BY PcFacts DEF ModelPc, RunPc, TaskPc, At
  <2>2. /\ Journal(c) \subseteq proc[c].calls /\ ~Settled(c)
        /\ \A j \in proc[c].calls : issued[j] = [turn |-> MyTurn(c), token |-> proc[c].token]
    BY ZenonT(40), <2>1, LoopFacts
  <2>3. k \in sent \ results /\ issued[k].turn = MyTurn(c) /\ issued[k].token < proc[c].token
    BY ZenonT(40) DEF Unsettled
  <2>4. k \in Journal(c)  BY ZenonT(40), <2>2, <2>3 DEF ToolsInv, Journalled, Settled, Journal
  <2>5. issued[k].token = proc[c].token
    <3>1. issued[k] = [turn |-> MyTurn(c), token |-> proc[c].token]  BY ZenonT(40), <2>2, <2>4
    <3> QED  BY <3>1
  <2>6. proc[c].token \in Nat  BY DEF IInv, TypeOK, Proc
  <2> QED  BY <2>3, <2>5, <2>6
<1> QED  BY <1>1, Invariance, ToolsInvariance, PTL

=============================================================================
