-------------------------- MODULE DirectTurnsRerun --------------------------
(***************************************************************************)
(* What a later attempt of a turn is told of the tool calls of an earlier  *)
(* one, for any number of controllers, turns and planned interruptions: a  *)
(* call without a result is possible only if the model is warned.          *)
(***************************************************************************)
EXTENDS DirectTurnsHistory

(* More time for a leaf than the provers have by default, and more tries. *)
USE SMTT(30), ZenonT(30), SMTT(40), SMTT(50)

(* Turns are handed back on purpose only: no process dies or loses its     *)
(* lease in the middle of one, and no unexpected exception ends one.       *)
Planned == FaultKind \cap {"crash", "expire", "renewal", "controller"} = {}

-----------------------------------------------------------------------------
(* The inductive invariant behind NoBlindRerun.                            *)

(* A controller that works on a row holds the lease.                       *)
Engaged(c) == ~At(c, {"off", "down", "idle", "recovering"})
Leads(c) == Engaged(c) => Current(c) /\ proc[c].token > 0

(* The agent loop runs only after the user message is canonical, and the   *)
(* calls it is about to send are its own.                                  *)
AppendedAt(c) == At(c, {"appended", "running"} \cup LoopPc) => proc[c].app = "user_appended"
IssuedAt(c) ==
    At(c, {"calling", "recorded", "bound"}) =>
        \A k \in proc[c].calls : issued[k] = [turn |-> MyTurn(c), token |-> proc[c].token]

(* A claimed or running row is executed by somebody.                       *)
Worked(t) ==
    row[t].status \in {"claimed", "running"} =>
        \E c \in Controller : At(c, ExecPc) /\ MyTurn(c) = t

(* The next attempt will be warned and goes straight to the model.         *)
Telling(o) == o.note /\ PriorAppend(o) = "user_appended"

(* An execution that goes straight to the model, or is there already.      *)
Knows(c) ==
    /\ At(c, ExecPc \ {"reconcile", "uncertain", "append", "appending", "cancelling"})
    /\ proc[c].app = "user_appended"
    /\ At(c, {"start"}) => Telling(row[MyTurn(c)].out)
    /\ At(c, {"launch"}) => row[MyTurn(c)].out.note /\ row[MyTurn(c)].out.append = "user_appended"

Carries(c, k) ==
    \/ At(c, {"cancelling"})
    \/ Knows(c) /\ (issued[k].token = proc[c].token \/ proc[c].warned)

(* An open call belongs to a turn that is settled, will tell the next      *)
(* attempt, or is executed by one that knows.                              *)
ToldBy(t, k) ==
    \/ row[t].status \in Terminal
    \/ row[t].status = "recoverable" /\ Telling(row[t].out)
    \/ \E c \in Controller : At(c, ExecPc) /\ MyTurn(c) = t /\ Carries(c, k)

Told(k) == issued[k].turn \in Turn /\ Begun(issued[k].turn) /\ ToldBy(issued[k].turn, k)

RerunInv ==
    /\ \A c \in Controller : Leads(c) /\ AppendedAt(c) /\ IssuedAt(c)
    /\ \A t \in Turn : Worked(t)
    /\ \A k \in sent \ results : Told(k)

BegunKept == \A t \in Turn : Begun(t) => Begun(t)'

-----------------------------------------------------------------------------
(* A controller that works on a row does so alone.                         *)
LEMMA Alone ==
    ASSUME IInv, RerunInv, NEW c \in Controller, Engaged(c)
    PROVE  /\ Current(c) /\ proc[c].token > 0
           /\ \A d \in Controller : Engaged(d) => d = c
           /\ \A d \in Controller : At(d, ExecPc) => d = c
           /\ At(c, ExecPc) => /\ Owns(c, MyTurn(c))
                               /\ row[MyTurn(c)].status \in {"claimed", "running"}
                               /\ \A u \in proc[c].batch : Owns(c, u)
<1>1. \A d \in Controller : Engaged(d) => Current(d) /\ proc[d].token > 0
  BY DEF RerunInv, Leads
<1>2. \A d \in Controller : Engaged(d) => d = c
  BY <1>1 DEF Current
<1>3. \A d \in Controller : At(d, ExecPc) => Engaged(d) /\ At(d, Busy)
  BY PcFacts DEF Engaged, At
<1>4. At(c, Busy) => Fenced(c)  BY DEF IInv, AllFenced
<1> QED  BY <1>1, <1>2, <1>3, <1>4 DEF Fenced

LEMMA ExecEngaged ==
    ASSUME NEW c \in Controller, At(c, ExecPc)
    PROVE  Engaged(c)
BY PcFacts DEF Engaged, At

(* The other controllers do not work on any row.                           *)
LEMMA OthersRerun ==
    ASSUME IInv, RerunInv, NEW c \in Controller, Engaged(c), MovesOnly(c)
    PROVE  \A d \in Controller \ {c} :
              /\ ~Engaged(d)' /\ ~At(d, ExecPc)'
              /\ Leads(d)' /\ AppendedAt(d)' /\ IssuedAt(d)'
<1>1. \A d \in Controller \ {c} : proc'[d] = proc[d] /\ ~Engaged(d)
  BY Alone DEF MovesOnly
<1>2. \A d \in Controller \ {c} : ~Engaged(d)'
  BY <1>1 DEF Engaged, At
<1>3. {"off", "down", "idle", "recovering"} \cap (ExecPc \cup {"appended", "running"} \cup LoopPc) = {}
  BY PcFacts DEF RunPc, TaskPc
<1>4. \A d \in Controller \ {c} : At(d, {"off", "down", "idle", "recovering"})'
  BY <1>2 DEF Engaged, At
<1> QED  BY <1>2, <1>3, <1>4 DEF Leads, AppendedAt, IssuedAt, At

(* An execution goes on with its turn.                                     *)
LEMMA ExecRerun ==
    ASSUME IInv, RowStep, BegunKept, RerunInv, NEW c \in Controller,
           At(c, ExecPc \ {"cancelling"}), proc'[c].pc \in ExecPc, MovesOnly(c),
           proc'[c].turn = proc[c].turn, proc'[c].token = proc[c].token,
           proc'[c].warned = proc[c].warned, lease' = lease,
           \A t \in Turn : \/ row'[t] = row[t]
                           \/ t = MyTurn(c) /\ row'[t].status \in {"claimed", "running"}
                           \/ row'[t].status \in {"absorbing", "absorbed"},
           AppendedAt(c)', IssuedAt(c)', Knows(c) => Knows(c)' \/ At(c, {"cancelling"})',
           \A k \in sent' \ results' :
              \/ k \in sent \ results /\ issued'[k] = issued[k]
              \/ /\ issued'[k] = [turn |-> MyTurn(c), token |-> proc[c].token]
                 /\ Begun(MyTurn(c)) /\ (Knows(c)' \/ At(c, {"cancelling"})')
    PROVE  RerunInv'
<1> DEFINE t == MyTurn(c)
<1>1. /\ Engaged(c) /\ Engaged(c)' /\ At(c, ExecPc) /\ At(c, ExecPc)' /\ t \in Turn
      /\ MyTurn(c)' = t
  BY ZenonT(40), ExecEngaged, PcFacts, ProcFacts DEF IInv, At, Engaged, MyTurn
<1>2. /\ Current(c) /\ proc[c].token > 0 /\ row[t].status \in {"claimed", "running"}
      /\ \A d \in Controller : At(d, ExecPc) => d = c
  BY <1>1, Alone
<1>3. Leads(c)'  BY <1>2 DEF Leads, Current
<1>4. \A d \in Controller : Leads(d)' /\ AppendedAt(d)' /\ IssuedAt(d)'
  BY <1>1, <1>3, OthersRerun
<1>5. \A u \in Turn : Worked(u)'
  <2>1. ASSUME NEW u \in Turn, u # t, row'[u].status \in {"claimed", "running"} PROVE FALSE
    <3>1. row[u].status \in {"claimed", "running"}  BY <2>1
    <3>2. PICK d \in Controller : At(d, ExecPc) /\ MyTurn(d) = u  BY <3>1 DEF RerunInv, Worked
    <3> QED  BY <1>2, <2>1, <3>2
  <2> QED  BY <1>1, <2>1 DEF Worked
<1>6. ASSUME NEW k \in sent' \ results' PROVE Told(k)'
  <2>1. CASE k \in sent \ results /\ issued'[k] = issued[k]
    <3> DEFINE u == issued[k].turn
    <3>1. u \in Turn /\ Begun(u) /\ ToldBy(u, k)  BY <2>1 DEF RerunInv, Told
    <3>2. Begun(u)' /\ issued'[k].turn = u /\ issued'[k].token = issued[k].token
      BY <2>1, <3>1 DEF BegunKept
    <3>3. CASE row[u].status \in Terminal
      <4>1. row'[u].status \in Terminal  BY ZenonT(40), <3>1, <3>3, RowsInv DEF IInv
      <4> QED  BY ZenonT(40), <3>1, <3>2, <4>1 DEF Told, ToldBy
    <3>4. CASE row[u].status = "recoverable" /\ Telling(row[u].out)
      <4>1. row'[u] = row[u]  BY ZenonT(40), <1>2, <3>1, <3>2, <3>4 DEF Begun
      <4> QED  BY ZenonT(40), <3>1, <3>2, <3>4, <4>1 DEF Told, ToldBy
    <3>5. CASE \E d \in Controller : At(d, ExecPc) /\ MyTurn(d) = u /\ Carries(d, k)
      <4>1. u = t /\ Carries(c, k)  BY <1>2, <3>5
      <4>2. Knows(c) /\ (issued[k].token = proc[c].token \/ proc[c].warned)
        BY <4>1 DEF Carries, At
      <4>3. Carries(c, k)'
        BY ZenonT(40), <3>2, <4>2 DEF Carries
      <4> QED  BY ZenonT(40), <1>1, <3>1, <3>2, <4>1, <4>3 DEF Told, ToldBy
    <3> QED  BY ZenonT(40), <3>1, <3>3, <3>4, <3>5 DEF ToldBy
  <2>2. CASE /\ issued'[k] = [turn |-> t, token |-> proc[c].token]
             /\ Begun(t) /\ (Knows(c)' \/ At(c, {"cancelling"})')
    <3>1. issued'[k].turn = t /\ issued'[k].token = proc[c].token  BY <2>2
    <3>2. Carries(c, k)' /\ Begun(t)'  BY <1>1, <2>2, <3>1 DEF Carries, BegunKept
    <3> QED  BY ZenonT(40), <1>1, <3>1, <3>2 DEF Told, ToldBy
  <2> QED  BY <2>1, <2>2
<1> QED  BY <1>4, <1>5, <1>6 DEF RerunInv

(* A controller lets go of its row: settled, handed back with the reason   *)
(* noted, or one that was only being absorbed.                             *)
LEMMA LeaveRerun ==
    ASSUME IInv, RowStep, BegunKept, RerunInv, NEW c \in Controller, Engaged(c),
           proc'[c].pc \in Done, MovesOnly(c), proc'[c].token = proc[c].token, lease' = lease,
           UNCHANGED <<issued, sent, results>>,
           \A u \in Turn \ {MyTurn(c)} : row'[u] = row[u] \/ row'[u].status = "queued",
           LET r == row'[MyTurn(c)] IN
              \/ r = row[MyTurn(c)] /\ ~At(c, ExecPc)
              \/ r.status \in Terminal
              \/ r.status = "recoverable" /\ row[MyTurn(c)].status = "absorbing"
              \/ r.status = "recoverable" /\ Telling(r.out)
              \/ /\ r.status = "recoverable" /\ At(c, ExecPc \ {"cancelling"})
                 /\ Knows(c) => Telling(r.out)
    PROVE  RerunInv'
<1> DEFINE t == MyTurn(c)
           r == row'[t]
<1>1. Engaged(c)' /\ ~At(c, ExecPc \cup LoopPc \cup {"appended", "running", "calling", "recorded", "bound"})'
      /\ t \in Turn
  BY ZenonT(40), PcFacts, ProcFacts DEF IInv, Engaged, At, Done, RunPc, TaskPc, LoopPc
<1>2. /\ Current(c) /\ proc[c].token > 0
      /\ At(c, ExecPc) => row[t].status \in {"claimed", "running"}
      /\ \A d \in Controller : At(d, ExecPc) => d = c
  BY ZenonT(40), Alone
<1>3. Leads(c)' /\ AppendedAt(c)' /\ IssuedAt(c)'
  BY <1>1, <1>2 DEF Leads, Current, AppendedAt, IssuedAt, At
<1>4. \A d \in Controller : Leads(d)' /\ AppendedAt(d)' /\ IssuedAt(d)'
  BY <1>3, OthersRerun
<1>5. ASSUME NEW u \in Turn PROVE Worked(u)'
  <2>1. ASSUME row'[u].status \in {"claimed", "running"} PROVE FALSE
    <3>1. row[u].status \in {"claimed", "running"} /\ (u = t => ~At(c, ExecPc))
      BY ZenonT(40), <2>1, StatusFacts
    <3>2. PICK d \in Controller : At(d, ExecPc) /\ MyTurn(d) = u  BY <3>1 DEF RerunInv, Worked
    <3> QED  BY <1>2, <3>1, <3>2
  <2> QED  BY <2>1 DEF Worked
<1>6. ASSUME NEW k \in sent' \ results' PROVE Told(k)'
  <2> DEFINE u == issued[k].turn
  <2>1. u \in Turn /\ Begun(u) /\ ToldBy(u, k)  BY ZenonT(40), <1>6 DEF RerunInv, Told
  <2>2. Begun(u)' /\ issued'[k] = issued[k]  BY ZenonT(40), <2>1 DEF BegunKept
  <2>3. row[u].status \in Terminal => row'[u] = row[u]  BY ZenonT(40), <2>1, RowsInv DEF IInv
  <2>4. row[u].status # "absorbing" /\ row[u].status # "absent"  BY ZenonT(40), <2>1 DEF Begun
  <2>5. CASE row[u].status \in Terminal
    BY ZenonT(40), <2>1, <2>2, <2>3, <2>5 DEF Told, ToldBy
  <2>6. CASE row[u].status = "recoverable" /\ Telling(row[u].out)
    <3>1. row'[u].status # "queued"
      BY ZenonT(40), <2>1, <2>6, StatusFacts
         DEF RowStep, Same, Drops, Retaken, Changes, Ends, Enters, Starts, Runs, Joins, OnlyRow
    <3>2. row'[u] = row[u] \/ row'[u].status \in Terminal
             \/ (row'[u].status = "recoverable" /\ Telling(row'[u].out))
      BY ZenonT(40), <1>2, <2>1, <2>6, <3>1 DEF At
    <3> QED  BY ZenonT(40), <2>1, <2>2, <2>6, <3>2 DEF Told, ToldBy
  <2>7. CASE \E d \in Controller : At(d, ExecPc) /\ MyTurn(d) = u /\ Carries(d, k)
    <3>1. u = t /\ At(c, ExecPc) /\ Carries(c, k)  BY ZenonT(40), <1>2, <2>7
    <3>2. r.status \in Terminal \/ (r.status = "recoverable" /\ Telling(r.out))
      BY <2>4, <3>1 DEF Carries, At
    <3> QED  BY ZenonT(40), <2>1, <2>2, <3>1, <3>2 DEF Told, ToldBy
  <2> QED  BY ZenonT(40), <2>1, <2>5, <2>6, <2>7 DEF ToldBy
<1> QED  BY ZenonT(40), <1>4, <1>5, <1>6 DEF RerunInv

(* A controller that executes nothing, before or after the step, moves.    *)
LEMMA StillRerun ==
    ASSUME IInv, RowStep, BegunKept, RerunInv, NEW c \in Controller, MovesOnly(c),
           ~At(c, ExecPc), proc'[c].pc \notin ExecPc, \A d \in Controller : Leads(d)',
           UNCHANGED <<issued, sent>>, results \subseteq results',
           \A u \in Turn : /\ row'[u].status = row[u].status
                           /\ row[u].status = "recoverable" => row'[u] = row[u],
           row' = row \/ Engaged(c)
    PROVE  RerunInv'
<1>1. \A d \in Controller : At(d, ExecPc) => d # c /\ proc'[d] = proc[d] /\ row' = row
  BY Alone DEF MovesOnly
<1>2. {"appended", "running", "calling", "recorded", "bound"} \cup LoopPc \subseteq ExecPc
  BY DEF ExecPc, RunPc, TaskPc, LoopPc
<1>3. \A d \in Controller : AppendedAt(d)' /\ IssuedAt(d)'
  <2>1. ASSUME NEW d \in Controller, d # c PROVE AppendedAt(d)' /\ IssuedAt(d)'
    BY <2>1 DEF RerunInv, MovesOnly, AppendedAt, IssuedAt, At, MyTurn
  <2>2. AppendedAt(c)' /\ IssuedAt(c)'  BY <1>2 DEF AppendedAt, IssuedAt, At
  <2> QED  BY <2>1, <2>2
<1>4. \A t \in Turn : Worked(t)'
  BY <1>1 DEF RerunInv, Worked, At, MyTurn
<1>5. ASSUME NEW k \in sent' \ results' PROVE Told(k)'
  <2> DEFINE u == issued[k].turn
  <2>1. u \in Turn /\ Begun(u) /\ ToldBy(u, k)  BY <1>5 DEF RerunInv, Told
  <2>2. Begun(u)' /\ issued'[k] = issued[k]  BY <2>1 DEF BegunKept
  <2>3. \A d \in Controller : At(d, ExecPc) /\ MyTurn(d) = u /\ Carries(d, k) =>
           At(d, ExecPc)' /\ MyTurn(d)' = u /\ Carries(d, k)'
    BY ZenonT(40), <1>1, <2>2 DEF At, MyTurn, Carries, Knows
  <2> QED  BY ZenonT(40), <2>1, <2>2, <2>3 DEF Told, ToldBy
<1> QED  BY <1>3, <1>4, <1>5 DEF RerunInv

-----------------------------------------------------------------------------
(* The usual ways in which an execution goes on or ends.                   *)

(* Past the launch, an execution that keeps its append state keeps what it *)
(* knows.                                                                  *)
LatePc == ExecPc \ (PreLaunchPc \cup {"uncertain", "append", "appending", "cancelling"})

LEMMA LateFacts ==
    /\ LatePc = {"appended", "running", "responded", "failing", "flushing"} \cup LoopPc
    /\ LatePc \subseteq ExecPc \ {"start", "launch", "reconcile", "uncertain", "append",
                                  "appending", "cancelling"}
    /\ {"model", "calling", "recorded", "bound", "waiting", "resulted", "interim", "interimwait",
        "answer", "answerwait", "absorbing", "absorbsend", "absorbwait", "absorbnext"} = LoopPc
BY DEF LatePc, ExecPc, PreLaunchPc, RunPc, TaskPc, LoopPc

LEMMA KeepsKnowing ==
    ASSUME NEW c \in Controller, Knows(c), At(c, ExecPc \ {"start", "launch"}),
           proc'[c].app = proc[c].app, proc'[c].pc \in LatePc
    PROVE  Knows(c)'
BY LateFacts DEF Knows, At

(* The execution writes at most the outcome of its row and goes on.        *)
LEMMA GoOnRerun ==
    ASSUME IInv, RowStep, BegunKept, RerunInv, NEW c \in Controller, NEW l \in ExecPc,
           Label(c, l), At(c, ExecPc \ {"cancelling"}), proc'[c].warned = proc[c].warned,
           row' = row \/ OutSet(MyTurn(c), row'[MyTurn(c)].out),
           UNCHANGED <<lease, issued, sent>>, results \subseteq results',
           l \in {"appended", "running"} \cup LoopPc => proc'[c].app = "user_appended",
           l \in {"calling", "recorded", "bound"} =>
              At(c, {"calling", "recorded", "bound"}) /\ proc'[c].calls = proc[c].calls,
           Knows(c) => Knows(c)' \/ l = "cancelling"
    PROVE  RerunInv'
<1>1. At(c, ExecPc) /\ MyTurn(c) \in Turn  BY ZenonT(40), ProcFacts DEF IInv, At
<1>2. row[MyTurn(c)].status \in {"claimed", "running"}  BY ZenonT(40), <1>1, Alone, ExecEngaged
<1>3. \A t \in Turn : row'[t] = row[t] \/ (t = MyTurn(c) /\ row'[t].status \in {"claimed", "running"})
  BY ZenonT(40), <1>2 DEF OutSet, OnlyRow
<1>4. AppendedAt(c)'  BY DEF AppendedAt, Label, At
<1>5. IssuedAt(c)'
  <2>1. IssuedAt(c)  BY DEF RerunInv
  <2> QED  BY ZenonT(40), <2>1 DEF IssuedAt, Label, SameTurn, At, MyTurn
<1>6. Knows(c) => Knows(c)' \/ At(c, {"cancelling"})'  BY DEF Label, At
<1> QED  BY ZenonT(40), <1>3, <1>4, <1>5, <1>6, ExecRerun DEF Label, SameTurn

LEMMA CheckpointRerun ==
    ASSUME IInv, RowStep, BegunKept, RerunInv, NEW c \in Controller,
           NEW p, NEW a, NEW l \in ExecPc, Checkpoint(c, p, a, l),
           At(c, ExecPc \ {"cancelling"}), UNCHANGED <<lease, issued, sent>>,
           results \subseteq results', l \notin {"calling", "recorded", "bound"},
           l \in {"appended", "running"} \cup LoopPc => a = "user_appended",
           Knows(c) => /\ a = proc[c].app /\ At(c, LatePc) /\ l \in LatePc
    PROVE  RerunInv'
<1> DEFINE m == IF row[MyTurn(c)].cancel THEN "cancelling" ELSE l
           o == Checkpointed(row[MyTurn(c)].out, p, a)
<1>1. /\ OutSet(MyTurn(c), o) /\ Label(c, m) /\ proc'[c].app = a
      /\ proc'[c].warned = proc[c].warned /\ proc'[c].calls = proc[c].calls
  BY ZenonT(40), CheckpointFlat DEF IInv, CheckpointEffect
<1>2. m \in ExecPc /\ (m = "cancelling" \/ m = l) /\ "cancelling" \notin {"appended", "running"} \cup LoopPc
  BY PcFacts DEF ExecPc, LoopPc
<1> HIDE DEF m, o
<1>3. OutSet(MyTurn(c), row'[MyTurn(c)].out)  BY ZenonT(40), <1>1 DEF OutSet
<1>4. Knows(c) => Knows(c)' \/ m = "cancelling"
  <2> SUFFICES ASSUME Knows(c), m # "cancelling" PROVE Knows(c)'  OBVIOUS
  <2>1. At(c, ExecPc \ {"start", "launch"})  BY LateFacts DEF At
  <2> QED  BY ZenonT(40), <1>1, <1>2, <2>1, KeepsKnowing DEF Label
<1> QED  BY ZenonT(40), <1>1, <1>2, <1>3, <1>4, GoOnRerun

LEMMA GotoRerun ==
    ASSUME IInv, RowStep, BegunKept, RerunInv, NEW c \in Controller, NEW l \in ExecPc,
           Goto(c, l), At(c, ExecPc \ {"cancelling"}), UNCHANGED <<row, lease, issued, sent>>,
           results \subseteq results',
           l \in {"appended", "running"} \cup LoopPc => At(c, {"appended", "running"} \cup LoopPc),
           l \in {"calling", "recorded", "bound"} => At(c, {"calling", "recorded", "bound"}),
           Knows(c) => l = "cancelling" \/ (At(c, LatePc) /\ l \in LatePc)
    PROVE  RerunInv'
<1>1. /\ Label(c, l) /\ proc'[c].app = proc[c].app /\ proc'[c].warned = proc[c].warned
      /\ proc'[c].calls = proc[c].calls
  BY ZenonT(40), GotoFlat DEF IInv, SameMemo
<1>2. Knows(c) => Knows(c)' \/ l = "cancelling"
  <2> SUFFICES ASSUME Knows(c), l # "cancelling" PROVE Knows(c)'  OBVIOUS
  <2>1. At(c, ExecPc \ {"start", "launch"})  BY LateFacts DEF At
  <2> QED  BY ZenonT(40), <1>1, <2>1, KeepsKnowing DEF Label
<1>3. AppendedAt(c)  BY DEF RerunInv
<1> QED  BY ZenonT(40), <1>1, <1>2, <1>3, GoOnRerun DEF AppendedAt

LEMMA EndRerun ==
    ASSUME IInv, RowStep, BegunKept, RerunInv, NEW c \in Controller,
           NEW s, NEW o, NEW l \in Done, EndAt(c, s, o, l), At(c, ExecPc),
           \/ s \in Terminal
           \/ s = "recoverable" /\ ~At(c, {"cancelling"}) /\ (Knows(c) => Telling(o)),
           UNCHANGED <<lease, issued, sent, results>>
    PROVE  RerunInv'
<1>1. RowSet(MyTurn(c), s, o) /\ Label(c, l)  BY EndFlat DEF IInv
<1>2. Engaged(c)  BY ExecEngaged
<1>3. s = "recoverable" => At(c, ExecPc \ {"cancelling"}) \/ s \in Terminal  BY DEF At
<1> QED  BY ZenonT(40), <1>1, <1>2, <1>3, LeaveRerun DEF RowSet, OnlyRow, Label, SameTurn

-----------------------------------------------------------------------------
(* Every step keeps the invariant.                                         *)

LEMMA CheckpointedAppend ==
    ASSUME NEW o, NEW p, NEW a
    PROVE  Checkpointed(o, p, a).append = a
<1> DEFINE j == o.journal
           x == [Out("tool_in_flight", a) EXCEPT !.journal = j]
<1>1. x.append = a
  <2> HIDE DEF j
  <2> QED  BY ZenonT(40) DEF Out
<1>2. Out(p, a).append = a  BY DEF Out
<1>3. Checkpointed(o, p, a) = x \/ Checkpointed(o, p, a) = Out(p, a)  BY DEF Checkpointed
<1> HIDE DEF x
<1> QED  BY <1>1, <1>2, <1>3

LEMMA StartingRerun ==
    ASSUME IInv, RowStep, BegunKept, RerunInv, NEW c \in Controller, Starting(c)
    PROVE  RerunInv'
<1> DEFINE t == MyTurn(c)
<1>1. TypeOK /\ t \in Turn /\ row[t].out \in Outcome  BY ProcFacts DEF IInv
<1>2. /\ "releasing" \in Done
      /\ {"start", "reconcile", "launch", "uncertain", "append", "appending", "appended",
          "running", "model", "cancelling"} \subseteq ExecPc
      /\ {"start", "reconcile", "launch", "uncertain", "append", "appending", "cancelling"}
            \cap ({"appended", "running", "calling", "recorded", "bound"} \cup LoopPc) = {}
      /\ "model" \in LoopPc
  BY DEF Done, ExecPc, RunPc, TaskPc, LoopPc, PreLaunchPc
<1>3. At(c, {"reconcile", "uncertain", "append", "appending"}) => ~Knows(c)  BY DEF Knows, At
<1>4. "failed" \in Terminal  BY StatusFacts
<1>5. CASE FirstCheckpoint(c)
  <2> DEFINE l == IF row[t].cancel THEN "cancelling"
                  ELSE IF proc[c].app = "user_append_uncertain" THEN "reconcile" ELSE "launch"
             n == row[t].out.note
             x == Checkpointed(row[t].out, row[t].out.phase, proc[c].app)
             o == IF proc[c].app = "none" THEN Checkpointed(row[t].out, "claimed", "none")
                  ELSE [x EXCEPT !.note = n]
  <2>1. /\ Goto(c, l) /\ row' = [row EXCEPT ![t].out = o] /\ At(c, {"start"})
        /\ UNCHANGED <<lease, issued, sent, results>>
    BY <1>5 DEF FirstCheckpoint, external
  <2>2. l \in {"cancelling", "reconcile", "launch"}  OBVIOUS
  <2>3. proc[c].app = "user_appended" =>
           l # "reconcile" /\ o.append = "user_appended" /\ o.note = n
    <3> SUFFICES ASSUME proc[c].app = "user_appended"
                 PROVE  l # "reconcile" /\ o.append = "user_appended" /\ o.note = n
      OBVIOUS
    <3>1. x \in Outcome /\ x.append = "user_appended"
      BY <1>1, ProcFacts, CheckpointedType, CheckpointedAppend DEF TypeOK, Row, Outcome
    <3>2. o = [x EXCEPT !.note = n] /\ l # "reconcile"  OBVIOUS
    <3> HIDE DEF x, n, o, l
    <3>3. o.append = x.append /\ o.note = n  BY <3>1, <3>2 DEF Outcome
    <3> QED  BY <3>1, <3>2, <3>3
  <2>4. n = row[t].out.note  OBVIOUS
  <2> HIDE DEF l, o, n
  <2>5. /\ OutSet(t, o) /\ Label(c, l) /\ proc'[c].app = proc[c].app
        /\ proc'[c].warned = proc[c].warned
    BY ZenonT(40), <1>1, <2>1, OutFlat, GotoFlat DEF SameMemo
  <2>6. ASSUME Knows(c), l # "cancelling" PROVE Knows(c)'
    <3>1. proc[c].app = "user_appended" /\ n  BY <2>1, <2>4, <2>6 DEF Knows, Telling
    <3>2. l = "launch" /\ row'[t].out = o /\ o.append = "user_appended" /\ o.note
      BY ZenonT(40), <2>2, <2>3, <2>5, <2>6, <3>1 DEF OutSet
    <3>3. proc'[c].pc = "launch" /\ MyTurn(c)' = t  BY ZenonT(40), <2>5, <3>2 DEF Label, SameTurn, MyTurn
    <3> QED  BY ZenonT(40), <1>2, <2>5, <3>1, <3>2, <3>3 DEF Knows, At
  <2>7. row' = row \/ OutSet(t, row'[t].out)  BY ZenonT(40), <2>5 DEF OutSet
  <2>8. At(c, ExecPc \ {"cancelling"})  BY <1>2, <2>1 DEF At
  <2> QED  BY ZenonT(40), <1>2, <2>1, <2>2, <2>5, <2>6, <2>7, <2>8, GoOnRerun
<1>6. CASE ReconcileOwnAppend(c)
  <2> DEFINE p == IF Reconciled(t, "user_append_uncertain")
                  THEN "user_appended" ELSE "user_append_pending"
             o == Checkpointed(row[t].out, p, p)
  <2>1. /\ proc' = [proc EXCEPT ![c] = [proc[c] EXCEPT !.app = p, !.pc = "launch"]]
        /\ row' = [row EXCEPT ![t].out = o]
    BY <1>6 DEF ReconcileOwnAppend
  <2>2. /\ UNCHANGED <<lease, issued, sent, results>> /\ ~Knows(c)
        /\ At(c, ExecPc \ {"cancelling"})
    BY <1>2, <1>3, <1>6 DEF ReconcileOwnAppend, external, At
  <2> HIDE DEF p, o
  <2>3. Label(c, "launch") /\ OutSet(t, o) /\ proc'[c].warned = proc[c].warned
    BY ZenonT(40), <1>1, <2>1, AppFlat, OutFlat DEF AppEffect
  <2>4. OutSet(t, row'[t].out)  BY ZenonT(40), <2>3 DEF OutSet
  <2> QED  BY ZenonT(40), <1>2, <2>2, <2>3, <2>4, GoOnRerun
<1>7. CASE PayloadError(c)
  BY <1>2, <1>4, <1>7, EndRerun DEF PayloadError, MarkTerminal, End, external, At
<1>8. CASE ReconcileOwnAppendFails(c)
  BY <1>2, <1>3, <1>8, EndRerun DEF ReconcileOwnAppendFails, End, external, At
<1>9. CASE LocalBusy(c)
  <2> DEFINE o == [row[t].out EXCEPT !.phase = "local_turn_busy"]
  <2>1. /\ At(c, {"launch"}) /\ EndAt(c, "recoverable", o, "releasing")
        /\ UNCHANGED <<lease, issued, sent, results>>
    BY <1>9 DEF LocalBusy, End, external
  <2>2. o.note = row[t].out.note /\ o.append = row[t].out.append
    BY <1>1 DEF Outcome
  <2> HIDE DEF o
  <2>3. Knows(c) => Telling(o)  BY ZenonT(40), <2>1, <2>2 DEF Knows, Telling, PriorAppend
  <2> QED  BY <1>2, <2>1, <2>3, EndRerun DEF At
<1>10. CASE Launch(c)
  <2>1. /\ At(c, ExecPc \ {"cancelling"}) /\ UNCHANGED <<lease, issued, sent, results>>
    BY <1>2, <1>10 DEF Launch, external, At
  <2>2. CASE Resumes(c)
    <3>1. /\ proc' = [proc EXCEPT ![c] = [proc[c] EXCEPT !.app = "user_appended", !.pc = "model"]]
          /\ UNCHANGED row
      BY <1>10, <2>2 DEF Launch
    <3>2. Label(c, "model") /\ proc'[c].app = "user_appended" /\ proc'[c].warned = proc[c].warned
      BY ZenonT(40), <1>1, <3>1, AppFlat DEF AppEffect
    <3>3. Knows(c)'  BY ZenonT(40), <1>2, <3>2 DEF Knows, Label, At
    <3> QED  BY <1>2, <2>1, <3>1, <3>2, <3>3, GoOnRerun
  <2>3. CASE ~Resumes(c)
    <3>1. ~Knows(c)  BY ZenonT(40), <2>3 DEF Resumes, Knows
    <3> QED  BY <1>2, <1>10, <2>1, <2>3, <3>1, CheckpointRerun DEF Launch
  <2> QED  BY <2>2, <2>3
<1>11. CASE BeginUserAppend(c)
  BY <1>2, <1>3, <1>11, CheckpointRerun DEF BeginUserAppend, At, external
<1>12. CASE SendUserAppend(c)
  BY ZenonT(40), <1>2, <1>3, <1>12, GotoRerun DEF SendUserAppend, SendAppend, tools, At
<1>13. CASE UserAppended(c)
  BY <1>2, <1>3, <1>13, CheckpointRerun DEF UserAppended, At, external
<1>14. CASE MarkRunning(c)
  <2>1. At(c, {"appended"}) /\ UNCHANGED <<lease, issued, sent, results>>
    BY <1>14 DEF MarkRunning, external
  <2>2. /\ Label(c, "running") /\ RowSet(t, "running", row[t].out)
        /\ proc'[c].app = proc[c].app /\ proc'[c].warned = proc[c].warned
    BY ZenonT(40), <1>1, <1>14, MarkRunningFlat DEF SameMemo, MarkRunningEffect
  <2>3. AppendedAt(c)  BY DEF RerunInv
  <2>4. AppendedAt(c)' /\ IssuedAt(c)'
    BY ZenonT(40), <2>1, <2>2, <2>3 DEF AppendedAt, IssuedAt, Label, At
  <2>5. Knows(c)'  BY ZenonT(40), <2>1, <2>2, <2>3, LateFacts DEF Knows, AppendedAt, Label, At
  <2>6. At(c, ExecPc \ {"cancelling"})  BY <1>2, <2>1 DEF At
  <2>7. \A u \in Turn : row'[u] = row[u] \/ (u = t /\ row'[u].status = "running")
    BY <2>2 DEF RowSet, OnlyRow
  <2> QED  BY ZenonT(40), <1>2, <2>1, <2>2, <2>4, <2>5, <2>6, <2>7, ExecRerun DEF Label, SameTurn
<1>15. CASE ModelWait(c)
  <2>1. AppendedAt(c)  BY DEF RerunInv
  <2>2. /\ Checkpoint(c, "model_wait", proc[c].app, "model") /\ At(c, {"running"})
        /\ UNCHANGED <<lease, issued, sent, results>>
    BY <1>15 DEF ModelWait, external
  <2>3. proc[c].app = "user_appended"  BY <2>1, <2>2 DEF AppendedAt, At
  <2>4. At(c, LatePc) /\ "model" \in LatePc /\ At(c, ExecPc \ {"cancelling"})
    BY <1>2, <2>2, LateFacts DEF At
  <2> QED  BY ZenonT(40), <1>2, <2>2, <2>3, <2>4, CheckpointRerun
<1> QED
  BY <1>5, <1>6, <1>7, <1>8, <1>9, <1>10, <1>11, <1>12, <1>13, <1>14, <1>15 DEF Starting

LEMMA EndingRerun ==
    ASSUME IInv, RowStep, BegunKept, RerunInv, Planned, NEW c \in Controller, Ending(c)
    PROVE  RerunInv'
<1> DEFINE t == MyTurn(c)
<1>1. /\ {"releasing", "draining"} = Done /\ PreLaunchPc \cup RunPc \subseteq ExecPc \ {"cancelling"}
      /\ TaskPc \cup LoopPc \cup {"flushing"} \subseteq ExecPc \ {"cancelling"}
      /\ {"flushing", "failing", "cancelling"} \subseteq ExecPc
      /\ {"flushing", "failing", "cancelling"} \cap
            ({"appended", "running", "calling", "recorded", "bound"} \cup LoopPc) = {}
      /\ {"failed", "cancelled"} \subseteq Terminal
      /\ LoopPc \cup {"flushing", "failing"} \subseteq LatePc
  BY ZenonT(40), PcFacts, StatusFacts, LateFacts DEF Done, ExecPc, PreLaunchPc, RunPc, TaskPc, LoopPc
<1>2. FailedOrCancelled(c) \in {"failed", "cancelled"}  BY DEF FailedOrCancelled
(* A turn handed back with the reason noted.                               *)
<1>3. ASSUME NEW l \in Done, At(c, RunPc), UNCHANGED <<lease, issued, sent, results>>,
             EndAt(c, "recoverable", [Out(proc[c].app, proc[c].app) EXCEPT !.note = TRUE], l)
      PROVE  RerunInv'
  <2> DEFINE a == proc[c].app
             o == [Out(a, a) EXCEPT !.note = TRUE]
  <2>1. o.note /\ o.append = a
    <3> HIDE DEF a
    <3> QED  BY ZenonT(40) DEF Out
  <2>2. EndAt(c, "recoverable", o, l)  BY <1>3
  <2> HIDE DEF o
  <2>3. Knows(c) => Telling(o)  BY ZenonT(40), <2>1 DEF Knows, Telling, PriorAppend
  <2> QED  BY <1>1, <1>3, <2>2, <2>3, EndRerun DEF At
<1>4. CASE StepFails(c)
  BY ZenonT(40), <1>1, <1>4, CheckpointRerun DEF StepFails, At, external
<1>5. ASSUME NEW done \in BOOLEAN, Flush(c, done) PROVE RerunInv'
  BY ZenonT(40), <1>1, <1>5, CheckpointRerun DEF Flush, At
<1>6. CASE SettleFailed(c)
  BY ZenonT(40), <1>1, <1>2, <1>6, EndRerun DEF SettleFailed, MarkTerminal, End, external, At
<1>7. ASSUME NEW u \in BOOLEAN, SettleTransient(c, u) PROVE RerunInv'
  <2>1. At(c, TaskPc) /\ At(c, RunPc) /\ UNCHANGED <<lease, issued, sent, results>>
    BY <1>7, PcFacts DEF SettleTransient, external, At
  <2>2. \/ MarkTerminal(c, FailedOrCancelled(c))
        \/ End(c, "recoverable", [Out(proc[c].app, proc[c].app) EXCEPT !.note = TRUE])
    BY <1>7 DEF SettleTransient
  <2>3. CASE MarkTerminal(c, FailedOrCancelled(c))
    BY ZenonT(40), <1>1, <1>2, <2>1, <2>3, EndRerun DEF MarkTerminal, End, At
  <2>4. CASE End(c, "recoverable", [Out(proc[c].app, proc[c].app) EXCEPT !.note = TRUE])
    BY <1>1, <1>3, <2>1, <2>4 DEF End
  <2> QED  BY <2>2, <2>3, <2>4
<1>8. CASE WatchCancellation(c)
  BY ZenonT(40), <1>1, <1>8, GotoRerun DEF WatchCancellation, external, At
<1>9. CASE SettleCancelled(c)
  BY ZenonT(40), <1>1, <1>9, EndRerun DEF SettleCancelled, MarkTerminal, End, external, At
(* While the fence holds nobody leaves because it was lost; a recovery     *)
(* pass may be left at any time.                                           *)
<1>10. CASE StaleExit(c)
  <2>1. /\ Goto(c, "releasing") /\ UNCHANGED <<row, lease, issued, sent, results>>
        /\ At(c, ExecPc) \/ At(c, ToolRecoveryPc)
        /\ ~Owns(c, t) \/ \E u \in proc[c].batch : ~Owns(c, u)
    BY ZenonT(40), <1>10 DEF StaleExit, external, At
  <2>2. Engaged(c)  BY ZenonT(40), <2>1, PcFacts DEF Engaged, At, ToolRecoveryPc
  <2>3. ~At(c, ExecPc)  BY ZenonT(40), <2>1, <2>2, Alone
  <2>4. Label(c, "releasing")  BY <2>1, GotoFlat DEF IInv
  <2> QED  BY ZenonT(40), <1>1, <2>1, <2>2, <2>3, <2>4, LeaveRerun DEF Label, SameTurn
<1>11. CASE Drain(c)
  BY <1>1, <1>3, <1>11 DEF Drain, external
<1>12. CASE Stop(c)
  BY ZenonT(40), <1>1, <1>12, EndRerun DEF Stop, external, At
<1> QED
  BY <1>4, <1>5, <1>6, <1>7, <1>8, <1>9, <1>10, <1>11, <1>12
     DEF Ending, Planned, ControllerError, RenewalError, Fault

LEMMA RunningRerun ==
    ASSUME IInv, HistInv, RowStep, BegunKept, RerunInv, NEW c \in Controller, Running(c)
    PROVE  RerunInv'
<1> DEFINE t == MyTurn(c)
<1>1. TypeOK /\ t \in Turn /\ issued \in [Call -> [turn : Turn \cup {0}, token : 0 .. MaxToken]]
  BY ZenonT(40), ProcFacts DEF IInv, TypeOK
<1>2. /\ "releasing" \in Done
      /\ LoopPc \cup {"responded"} \subseteq LatePc \cap (ExecPc \ {"cancelling"})
      /\ "cancelling" \in ExecPc \ ({"appended", "running"} \cup LoopPc)
      /\ "responded" \notin {"appended", "running", "calling", "recorded", "bound"} \cup LoopPc
      /\ {"completed", "absorbed"} \subseteq Terminal
  BY LateFacts, StatusFacts DEF Done, ExecPc, RunPc, TaskPc, LoopPc
<1>3. At(c, LoopPc) => proc[c].app = "user_appended"  BY DEF RerunInv, AppendedAt, At
<1>4. At(c, LoopPc \cup {"responded"}) => At(c, LatePc) /\ At(c, ExecPc \ {"cancelling"})
  BY <1>2 DEF At
(* The outcome of the turn is replaced, and the loop goes on.              *)
<1>5. ASSUME NEW o, NEW l \in LoopPc \cup {"cancelling"}, At(c, LoopPc), OutSet(t, o), Label(c, l),
             proc'[c].app = proc[c].app, proc'[c].warned = proc[c].warned,
             UNCHANGED <<lease, issued, sent, results>>,
             l \in {"calling", "recorded", "bound"} =>
                At(c, {"calling", "recorded", "bound"}) /\ proc'[c].calls = proc[c].calls
      PROVE  RerunInv'
  <2>1. OutSet(t, row'[t].out) /\ l \in ExecPc /\ At(c, ExecPc \ {"cancelling"}) /\ At(c, LoopPc)
    BY ZenonT(40), <1>2, <1>4, <1>5, LateFacts DEF OutSet, At
  <2>2. l \in LoopPc => Knows(c)'
    BY ZenonT(40), <1>2, <1>3, <1>5, LateFacts DEF Knows, Label, At
  <2>3. l \in {"appended", "running"} \cup LoopPc => proc'[c].app = "user_appended"
    BY ZenonT(40), <1>3, <1>5
  <2>4. Knows(c) => Knows(c)' \/ l = "cancelling"  BY ZenonT(40), <1>5, <2>2
  <2> QED  BY ZenonT(40), <1>5, <2>1, <2>3, <2>4, GoOnRerun
<1>6. ASSUME NEW k \in Call, CallTool(c, k) PROVE RerunInv'
  <2> DEFINE l == IF row[t].cancel THEN "cancelling" ELSE "calling"
             o == Checkpointed(row[t].out, "append_tool", proc[c].app)
             i == [turn |-> t, token |-> proc[c].token]
  <2>1. /\ At(c, {"model"}) /\ issued[k] = NoIssue /\ row' = [row EXCEPT ![t].out = o]
        /\ proc' = [proc EXCEPT ![c] = [proc[c] EXCEPT !.calls = {k}, !.pc = l]]
        /\ issued' = [issued EXCEPT ![k] = i] /\ UNCHANGED <<lease, sent, results>>
    BY <1>6 DEF CallTool
  <2>2. l \in {"calling", "cancelling"} /\ i = [turn |-> MyTurn(c), token |-> proc[c].token]
    OBVIOUS
  <2> HIDE DEF l, o, i
  <2>3. /\ Label(c, l) /\ proc'[c].calls = {k} /\ proc'[c].app = proc[c].app
        /\ proc'[c].warned = proc[c].warned /\ OutSet(t, o)
    BY ZenonT(40), <1>1, <2>1, CallsFlat, OutFlat DEF CallsEffect
  <2>4. /\ issued'[k] = i /\ \A j \in Call \ {k} : issued'[j] = issued[j]  BY <1>1, <2>1
  <2>5. k \notin sent \ results
    BY <2>1 DEF RerunInv, Told, NoIssue, Turn
  <2>6. \A j \in sent' \ results' : j \in sent \ results /\ issued'[j] = issued[j]
    BY <1>1, <2>1, <2>4, <2>5 DEF TypeOK
  <2>7. At(c, LoopPc) /\ At(c, ExecPc \ {"cancelling"}) /\ l \in ExecPc
    BY <1>2, <2>1, <2>2, LateFacts DEF At
  <2>8. proc[c].app = "user_appended"  BY ZenonT(40), <1>3, <2>7
  <2>9. AppendedAt(c)' /\ (Knows(c)' \/ At(c, {"cancelling"})')
    BY ZenonT(40), <1>2, <2>2, <2>3, <2>8, LateFacts DEF AppendedAt, Knows, Label, At
  <2>10. IssuedAt(c)'
    <3>1. MyTurn(c)' = t /\ proc'[c].token = proc[c].token
      BY <2>3 DEF Label, SameTurn, MyTurn
    <3> QED  BY ZenonT(40), <2>2, <2>3, <2>4, <3>1 DEF IssuedAt
  <2>11. \A u \in Turn : row'[u] = row[u] \/ (u = t /\ row'[u].status \in {"claimed", "running"})
    BY ZenonT(40), <1>1, <2>3, <2>7, Alone, ExecEngaged DEF OutSet, OnlyRow, At
  <2> QED  BY ZenonT(40), <2>1, <2>3, <2>6, <2>7, <2>9, <2>10, <2>11, ExecRerun DEF Label, SameTurn
<1>7. CASE RecordToolDispatch(c)
  <2> DEFINE l == IF row[t].cancel THEN "cancelling" ELSE "recorded"
             o == [Out("tool_in_flight", proc[c].app) EXCEPT !.journal = proc[c].calls]
  <2>1. /\ At(c, {"calling"}) /\ Goto(c, l) /\ row' = [row EXCEPT ![t].out = o]
        /\ UNCHANGED <<lease, issued, sent, results>>
    BY <1>7 DEF RecordToolDispatch, external
  <2>2. l \in {"cancelling", "recorded"}  OBVIOUS
  <2> HIDE DEF l, o
  <2>3. OutSet(t, o) /\ Label(c, l) /\ SameMemo(c)  BY ZenonT(40), <1>1, <2>1, OutFlat, GotoFlat
  <2>4. At(c, LoopPc) /\ At(c, {"calling", "recorded", "bound"}) /\ l \in LoopPc \cup {"cancelling"}
    BY <2>1, <2>2 DEF At, LoopPc
  <2> QED  BY <1>5, <2>1, <2>3, <2>4 DEF SameMemo
<1>8. CASE CompleteToolDispatch(c)
  <2> DEFINE l == IF row[t].cancel THEN "cancelling" ELSE "model"
             o == Out("tool_result_persisted", proc[c].app)
  <2>1. /\ At(c, {"resulted"}) /\ row' = [row EXCEPT ![t].out = o]
        /\ proc' = [proc EXCEPT ![c] = [proc[c] EXCEPT !.calls = {}, !.pc = l]]
        /\ UNCHANGED <<lease, issued, sent, results>>
    BY <1>8 DEF CompleteToolDispatch, external
  <2>2. l \in {"cancelling", "model"}  OBVIOUS
  <2> HIDE DEF l, o
  <2>3. /\ OutSet(t, o) /\ Label(c, l) /\ proc'[c].app = proc[c].app
        /\ proc'[c].warned = proc[c].warned
    BY ZenonT(40), <1>1, <2>1, OutFlat, CallsFlat DEF CallsEffect
  <2>4. At(c, LoopPc) /\ l \in LoopPc \cup {"cancelling"}  BY <2>1, <2>2 DEF At, LoopPc
  <2> QED  BY <1>5, <2>1, <2>2, <2>3, <2>4
(* Steps that only move on.                                                *)
<1>9. ASSUME NEW l \in LoopPc \cup {"cancelling"}, Goto(c, l), At(c, LoopPc),
             UNCHANGED <<row, lease, issued, sent>>, results \subseteq results',
             l \in {"calling", "recorded", "bound"} => At(c, {"calling", "recorded", "bound"})
      PROVE  RerunInv'
  <2>1. At(c, LatePc) /\ At(c, ExecPc \ {"cancelling"}) /\ l \in ExecPc
        /\ (l \in LatePc \/ l = "cancelling") /\ At(c, {"appended", "running"} \cup LoopPc)
    BY ZenonT(40), <1>2, <1>4, <1>9, LateFacts DEF At
  <2> QED  BY <1>2, <1>9, <2>1, GotoRerun
<1>10. CASE BindToolDispatch(c)
  <2> DEFINE l == IF row[t].cancel THEN "cancelling"
                  ELSE IF proc[c].calls \subseteq row[t].out.journal THEN "bound" ELSE "resulted"
  <2>1. /\ At(c, {"recorded"}) /\ Goto(c, l) /\ UNCHANGED <<row, lease, issued, sent, results>>
    BY ZenonT(40), <1>10 DEF BindToolDispatch, external
  <2>2. l \in LoopPc \cup {"cancelling"}  BY DEF LoopPc
  <2> HIDE DEF l
  <2>3. At(c, LoopPc) /\ At(c, {"calling", "recorded", "bound"})  BY <2>1 DEF At, LoopPc
  <2> QED  BY <1>9, <2>1, <2>2, <2>3
(* The calls that leave are those of this attempt.                         *)
<1>11. CASE SendTool(c)
  <2>1. /\ At(c, {"bound"}) /\ Goto(c, "waiting") /\ sent' = sent \cup proc[c].calls
        /\ UNCHANGED <<row, lease, issued, results>>
    BY ZenonT(40), <1>11 DEF SendTool
  <2>2. /\ At(c, LoopPc) /\ At(c, ExecPc \ {"cancelling"}) /\ "waiting" \in LoopPc
        /\ "waiting" \in ExecPc /\ At(c, ExecPc)
    BY ZenonT(40), <1>2, <2>1, LateFacts DEF At, LoopPc
  <2>3. Label(c, "waiting") /\ SameMemo(c)  BY <1>1, <2>1, GotoFlat
  <2>4. /\ \A k \in proc[c].calls : issued[k] = [turn |-> t, token |-> proc[c].token]
    BY ZenonT(40), <2>1 DEF RerunInv, IssuedAt, At
  <2>5. Begun(t)  BY <2>2 DEF HistInv, BegunAt
  <2>6. AppendedAt(c)' /\ IssuedAt(c)' /\ Knows(c)'
    BY ZenonT(40), <1>2, <1>3, <2>2, <2>3, LateFacts DEF AppendedAt, IssuedAt, Knows, Label, SameMemo, At
  <2> QED
    BY ZenonT(40), <2>1, <2>2, <2>3, <2>4, <2>5, <2>6, ExecRerun DEF Label, SameTurn, SameMemo
<1>12. CASE ToolReturns(c)
  BY ZenonT(40), <1>9, <1>12 DEF ToolReturns, At, LoopPc
<1>13. CASE SendInterim(c)
  BY ZenonT(40), <1>9, <1>13 DEF SendInterim, SendAppend, tools, At, LoopPc
<1>14. CASE InterimAppended(c)
  BY ZenonT(40), <1>9, <1>14 DEF InterimAppended, external, At, LoopPc
<1>15. CASE SendAnswer(c)
  BY ZenonT(40), <1>9, <1>15 DEF SendAnswer, SendAppend, tools, At, LoopPc
<1>16. ASSUME NEW u \in Turn, SendAbsorbed(c, u) PROVE RerunInv'
  BY ZenonT(40), <1>9, <1>16 DEF SendAbsorbed, SendAppend, tools, At, LoopPc
(* Checkpoints of the loop.                                                *)
<1>17. ASSUME NEW p, NEW l \in LatePc, Checkpoint(c, p, proc[c].app, l), At(c, LoopPc),
              UNCHANGED <<lease, issued, sent, results>>, l \notin {"calling", "recorded", "bound"}
       PROVE  RerunInv'
  <2>1. l \in ExecPc /\ At(c, LatePc) /\ At(c, ExecPc \ {"cancelling"})
    BY <1>4, <1>17, LateFacts DEF At
  <2> QED  BY ZenonT(40), <1>3, <1>17, <2>1, CheckpointRerun
<1>18. ASSUME NEW l \in {"interim", "answer"}, BeginAssistant(c, l) PROVE RerunInv'
  BY ZenonT(40), <1>2, <1>17, <1>18 DEF BeginAssistant, external, At, LoopPc
<1>19. CASE ModelResponse(c)
  BY ZenonT(40), <1>2, <1>17, <1>19 DEF ModelResponse, external, At, LoopPc
<1>20. ASSUME NEW u \in Turn, AbsorbAppend(c, u) PROVE RerunInv'
  BY ZenonT(40), <1>2, <1>17, <1>20 DEF AbsorbAppend, external, At, LoopPc
<1>21. CASE Complete(c)
  BY <1>2, <1>21, EndRerun DEF Complete, MarkTerminal, End, external, At
<1>22. ASSUME NEW n \in Turn, Handoff(c, n) PROVE RerunInv'
  <2>1. /\ row'[t].status = "completed" /\ row'[n].status = "queued"
        /\ \A u \in Turn \ {t, n} : row'[u] = row[u]
        /\ Label(c, "releasing") /\ At(c, {"responded"})
    BY ZenonT(40), <1>1, <1>22, HandoffFlat DEF HandoffEffect
  <2>2. UNCHANGED <<lease, issued, sent, results>>  BY <1>22 DEF Handoff, external
  <2>3. At(c, ExecPc)  BY <1>2, <2>1 DEF At
  <2>4. Engaged(c)  BY <2>3, ExecEngaged
  <2> QED  BY ZenonT(40), <1>2, <2>1, <2>2, <2>4, LeaveRerun DEF Label, SameTurn
(* Requests join the turn.                                                 *)
<1>23. ASSUME NEW u \in Turn, NEW s \in {"absorbing", "absorbed"}, NEW l \in LoopPc,
              OnlyRow(u), row'[u].status = s, MovesOnly(c), SameMemo(c), proc'[c].pc = l,
              proc'[c].turn = proc[c].turn, proc'[c].token = proc[c].token,
              At(c, LoopPc), l \notin {"calling", "recorded", "bound"},
              UNCHANGED <<lease, issued, sent, results>>
       PROVE  RerunInv'
  <2>1. At(c, ExecPc \ {"cancelling"}) /\ l \in ExecPc
    BY ZenonT(40), <1>2, <1>4, <1>23, LateFacts DEF At
  <2>2. AppendedAt(c)' /\ IssuedAt(c)' /\ Knows(c)'
    BY ZenonT(40), <1>2, <1>3, <1>23, LateFacts DEF AppendedAt, IssuedAt, Knows, SameMemo, At
  <2> QED  BY ZenonT(40), <1>23, <2>1, <2>2, ExecRerun DEF OnlyRow, SameMemo
<1>24. ASSUME NEW u \in Turn, BeginAbsorb(c, u) PROVE RerunInv'
  <2>1. BeginAbsorbEffect(c, u) /\ UNCHANGED <<lease, issued, sent, results>>
    BY ZenonT(40), <1>1, <1>24, BeginAbsorbFlat DEF BeginAbsorb, external
  <2> QED  BY ZenonT(40), <1>23, <2>1 DEF BeginAbsorbEffect, At, LoopPc
<1>25. ASSUME NEW u \in Turn, MarkAbsorbed(c, u) PROVE RerunInv'
  <2>1. MarkAbsorbedEffect(c, u) /\ UNCHANGED <<lease, issued, sent, results>>
    BY ZenonT(40), <1>1, <1>25, MarkAbsorbedFlat DEF MarkAbsorbed, external
  <2> QED  BY ZenonT(40), <1>23, <2>1 DEF MarkAbsorbedEffect, RowSet, At, LoopPc
<1> QED
  BY ZenonT(40), <1>6, <1>7, <1>8, <1>10, <1>11, <1>12, <1>13, <1>14, <1>15, <1>16, <1>18, <1>19, <1>20,
     <1>21, <1>22, <1>24, <1>25 DEF Running

(* While a controller recovers, claims or releases, nobody executes.       *)
LEMMA Unworked ==
    ASSUME IInv, RerunInv, NEW c \in Controller, Engaged(c), ~At(c, ExecPc)
    PROVE  /\ \A d \in Controller : ~At(d, ExecPc)
           /\ \A u \in Turn : row[u].status \notin {"claimed", "running"}
<1>1. \A d \in Controller : ~At(d, ExecPc)  BY ZenonT(40), Alone
<1> QED  BY <1>1 DEF RerunInv, Worked

LEMMA EngagedStill ==
    ASSUME IInv, RowStep, BegunKept, RerunInv, NEW c \in Controller, MovesOnly(c),
           Engaged(c), ~At(c, ExecPc), proc'[c].pc \notin ExecPc, proc'[c].token = proc[c].token,
           UNCHANGED <<lease, issued, sent>>, results \subseteq results',
           \A u \in Turn : /\ row'[u].status = row[u].status
                           /\ row[u].status = "recoverable" => row'[u] = row[u]
    PROVE  RerunInv'
<1>1. Current(c) /\ proc[c].token > 0  BY ZenonT(40), Alone
<1>2. Leads(c)'  BY ZenonT(40), <1>1 DEF Leads, Current
<1>3. \A d \in Controller : Leads(d)'  BY ZenonT(40), <1>2, OthersRerun
<1> QED  BY ZenonT(40), <1>3, StillRerun

LEMMA IdleStill ==
    ASSUME IInv, RowStep, BegunKept, RerunInv, NEW c \in Controller, MovesOnly(c),
           ~Engaged(c), proc'[c].pc \in {"off", "down", "idle", "recovering"},
           UNCHANGED <<row, lease, issued, sent, results>>
    PROVE  RerunInv'
<1>1. ~At(c, ExecPc) /\ proc'[c].pc \notin ExecPc  BY ExecEngaged, PcFacts
<1>2. \A d \in Controller : Leads(d)'
  BY ZenonT(40) DEF RerunInv, MovesOnly, Leads, Engaged, Current, At
<1> QED  BY ZenonT(40), <1>1, <1>2, StillRerun

(* The lease is granted to a controller only while nobody works.           *)
LEMMA GrantRerun ==
    ASSUME IInv, RowStep, BegunKept, RerunInv, NEW c \in Controller, MovesOnly(c),
           ~Engaged(c), Grant(c), proc'[c].pc \notin ExecPc, proc'[c].token = lease.token + 1,
           UNCHANGED <<row, issued, sent, results>>
    PROVE  RerunInv'
<1>1. lease.token \in Nat  BY DEF IInv, TypeOK
<1>2. Leads(c)'  BY <1>1 DEF Leads, Grant, Current
<1>3. \A d \in Controller : ~Engaged(d)
  <2> SUFFICES ASSUME NEW d \in Controller, Engaged(d) PROVE FALSE  OBVIOUS
  <2>1. Current(d) /\ proc[d].token > 0  BY ZenonT(40) DEF RerunInv, Leads
  <2>2. lease.owner = d /\ lease.live /\ lease.token > 0  BY ZenonT(40), <2>1 DEF Current
  <2> QED  BY <2>2 DEF Grant, MayAcquire
<1>4. \A d \in Controller \ {c} : Leads(d)'
  BY <1>3 DEF MovesOnly, Leads, Engaged, At
<1>5. ~At(c, ExecPc)  BY ZenonT(40), ExecEngaged
<1> QED  BY ZenonT(40), <1>2, <1>4, <1>5, StillRerun

LEMMA RecoveryRerun ==
    ASSUME IInv, RowStep, BegunKept, RerunInv, NEW c \in Controller, Recovery(c)
    PROVE  RerunInv'
<1> DEFINE t == MyTurn(c)
<1>1. TypeOK /\ t \in Turn  BY ZenonT(40), ProcFacts DEF IInv
<1>2. /\ {"recovering", "idle", "held", "decided", "tools", "cleared", "releasing"} \cap ExecPc = {}
      /\ "releasing" \in Done
  BY DEF Done, ExecPc, RunPc, TaskPc, LoopPc, PreLaunchPc
<1>3. At(c, {"held", "decided", "tools", "cleared"}) =>
         /\ Engaged(c) /\ ~At(c, ExecPc)
         /\ \A u \in Turn : row[u].status \notin {"claimed", "running"}
  <2> SUFFICES ASSUME At(c, {"held", "decided", "tools", "cleared"})
               PROVE  /\ Engaged(c) /\ ~At(c, ExecPc)
                      /\ \A u \in Turn : row[u].status \notin {"claimed", "running"}
    OBVIOUS
  <2>1. Engaged(c) /\ ~At(c, ExecPc)  BY <1>2 DEF Engaged, At
  <2> QED  BY <2>1, Unworked
<1>4. CASE ListStale(c)
  <2>1. ListStaleEffect(c)  BY <1>1, <1>4, ListStaleFlat
  <2> QED  BY ZenonT(40), <2>1, IdleStill DEF ListStaleEffect, Label, external, Engaged, At
<1>5. CASE SkipStale(c)
  <2>1. SkipStaleEffect(c)  BY <1>1, <1>5, SkipStaleFlat
  <2>2. /\ MovesOnly(c) /\ proc'[c].pc \in {"idle", "recovering"} /\ ~Engaged(c)
        /\ UNCHANGED <<row, lease, issued, sent, results>>
    BY ZenonT(40), <2>1 DEF SkipStaleEffect, Label, external, Engaged, At
  <2> QED  BY <2>2, IdleStill
<1>6. CASE AcquireForRecovery(c)
  <2>1. AcquireForRecoveryEffect(c)  BY <1>1, <1>6, AcquireForRecoveryFlat
  <2>2. /\ MovesOnly(c) /\ ~Engaged(c) /\ Grant(c) /\ proc'[c].pc \notin ExecPc
        /\ proc'[c].token = lease.token + 1 /\ UNCHANGED <<row, issued, sent, results>>
    BY ZenonT(40), <1>2, <2>1 DEF AcquireForRecoveryEffect, external, Engaged, At
  <2> QED  BY ZenonT(40), <2>2, GrantRerun
(* The controller lets go of the row it looked at.                         *)
<1>7. ASSUME At(c, {"held", "decided", "tools", "cleared"}), Label(c, "releasing"),
             UNCHANGED <<lease, issued, sent, results>>,
             \/ row' = row
             \/ /\ OnlyRow(t)
                /\ \/ row'[t].status \in Terminal
                   \/ row'[t].status = "recoverable" /\ row[t].status = "absorbing"
                   \/ row'[t].status = "recoverable" /\ Telling(row'[t].out)
      PROVE  RerunInv'
  BY ZenonT(40), <1>2, <1>3, <1>7, LeaveRerun DEF Label, SameTurn, OnlyRow
<1>8. CASE CancelStaleActive(c)
  <2>1. CancelStaleEffect(c) /\ UNCHANGED <<lease, issued, sent, results>>
    BY ZenonT(40), <1>1, <1>8, CancelStaleFlat DEF CancelStaleActive, external
  <2>2. "cancelled" \in Terminal  BY StatusFacts
  <2> QED  BY ZenonT(40), <1>7, <2>1, <2>2 DEF CancelStaleEffect, RowSet, At
<1>9. CASE BeginToolRecovery(c)
  <2>1. BeginToolRecoveryEffect(c) /\ UNCHANGED <<lease, issued, sent, results>>
    BY ZenonT(40), <1>1, <1>9, BeginToolRecoveryFlat DEF BeginToolRecovery, external
  <2>2. /\ At(c, {"held", "decided", "tools", "cleared"}) /\ MovesOnly(c)
        /\ proc'[c].pc \in {"tools", "releasing"} /\ proc'[c].token = proc[c].token
    BY ZenonT(40), <2>1 DEF BeginToolRecoveryEffect, SameTurn, At
  <2>3. \A u \in Turn : /\ row'[u].status = row[u].status
                        /\ row[u].status = "recoverable" => row'[u] = row[u]
    BY ZenonT(40), <2>1, StatusFacts DEF BeginToolRecoveryEffect, OnlyRow
  <2> QED  BY ZenonT(40), <1>2, <1>3, <2>1, <2>2, <2>3, EngagedStill
<1>10. ASSUME NEW k \in Call, SettleToolCall(c, k) PROVE RerunInv'
  <2>1. /\ At(c, {"held", "decided", "tools", "cleared"}) /\ At(c, {"tools"})
        /\ UNCHANGED <<row, lease, proc, issued, sent>> /\ results \subseteq results'
    BY ZenonT(40), <1>10 DEF SettleToolCall, At
  <2> QED  BY ZenonT(40), <1>2, <1>3, <2>1, EngagedStill DEF MovesOnly, At
<1>11. ASSUME NEW s \in {"failed", "ambiguous"}, ToolRecoveryFails(c, s) PROVE RerunInv'
  <2>1. ToolRecoveryFailsEffect(c, s) /\ UNCHANGED <<lease, issued, sent, results>>
    BY ZenonT(40), <1>1, <1>11, ToolRecoveryFailsFlat DEF ToolRecoveryFails, external
  <2>2. s \in Terminal  BY StatusFacts
  <2> QED  BY ZenonT(40), <1>7, <2>1, <2>2 DEF ToolRecoveryFailsEffect, RowSet, At
<1>12. CASE ClearToolDispatch(c)
  <2>1. ClearToolDispatchEffect(c) /\ UNCHANGED <<lease, issued, sent, results>>
    BY ZenonT(40), <1>1, <1>12, ClearToolDispatchFlat DEF ClearToolDispatch, external
  <2>2. /\ At(c, {"held", "decided", "tools", "cleared"}) /\ MovesOnly(c) /\ Owns(c, t)
        /\ proc'[c].pc = "cleared" /\ proc'[c].token = proc[c].token /\ OutSet(t, row'[t].out)
    BY ZenonT(40), <2>1 DEF ClearToolDispatchEffect, Label, SameTurn, At
  <2>3. \A u \in Turn : /\ row'[u].status = row[u].status
                        /\ row[u].status = "recoverable" => row'[u] = row[u]
    BY ZenonT(40), <2>2, StatusFacts DEF OutSet, OnlyRow, Owns
  <2> QED  BY ZenonT(40), <1>2, <1>3, <2>1, <2>2, <2>3, EngagedStill
<1>13. CASE FinishToolRecovery(c)
  <2>1. FinishToolRecoveryEffect(c) /\ UNCHANGED <<lease, issued, sent, results>>
    BY ZenonT(40), <1>1, <1>13, FinishToolRecoveryFlat DEF FinishToolRecovery, external
  <2>2. "cancelled" \in Terminal  BY StatusFacts
  <2>3. row'[t].status \in Terminal \/ (row'[t].status = "recoverable" /\ Telling(row'[t].out))
    BY ZenonT(40), <2>1, <2>2 DEF FinishToolRecoveryEffect, Telling, PriorAppend
  <2> QED  BY ZenonT(40), <1>7, <2>1, <2>3 DEF FinishToolRecoveryEffect, At
<1>14. CASE LeaveQuarantined(c)
  <2>1. /\ At(c, {"held"}) /\ Goto(c, "releasing") /\ UNCHANGED <<row, lease, issued, sent, results>>
    BY <1>14 DEF LeaveQuarantined, external
  <2>2. Label(c, "releasing")  BY <1>1, <2>1, GotoFlat
  <2> QED  BY ZenonT(40), <1>7, <2>1, <2>2 DEF At
<1>15. ASSUME NEW f, Judge(c, f) PROVE RerunInv'
  <2>1. JudgeEffect(c, f) /\ UNCHANGED <<row, lease, issued, sent, results>>
    BY ZenonT(40), <1>1, <1>15, JudgeFlat DEF Judge, external
  <2>2. /\ At(c, {"held", "decided", "tools", "cleared"}) /\ MovesOnly(c)
        /\ proc'[c].pc = "decided" /\ proc'[c].token = proc[c].token
    BY ZenonT(40), <2>1 DEF JudgeEffect, Label, SameTurn, At
  <2> QED  BY ZenonT(40), <1>2, <1>3, <2>1, <2>2, EngagedStill
<1>16. CASE RecoverStale(c)
  <2> DEFINE v == Verdict(snap[c], proc[c].found)
  <2>1. RecoverStaleEffect(c) /\ UNCHANGED <<lease, issued, sent, results>>
    BY ZenonT(40), <1>1, <1>16, RecoverStaleFlat DEF RecoverStale, external
  <2>2. snap[c] \in Row /\ snap[c].status \in Active
    BY ZenonT(40), <1>1, <2>1, ProcFacts DEF RecoverStaleEffect, IInv, Listed, ListedAt, At
  <2>3. v.from \subseteq Active /\ v.to \in Terminal \cup {"recoverable"}
    BY ZenonT(40), <2>2, VerdictType
  <2>4. /\ At(c, {"held", "decided", "tools", "cleared"}) /\ Label(c, "releasing")
        /\ row' = row \/ (row[t].status \in v.from /\ RowSet(t, v.to, v.out))
    BY ZenonT(40), <2>1 DEF RecoverStaleEffect, At
  <2> HIDE DEF v
  <2>5. row' = row \/ (row[t].status = "absorbing" /\ RowSet(t, v.to, v.out))
    BY ZenonT(40), <1>1, <1>3, <2>3, <2>4, StatusFacts
  <2> QED  BY ZenonT(40), <1>7, <2>1, <2>3, <2>4, <2>5 DEF RowSet
<1> QED
  BY ZenonT(40), <1>4, <1>5, <1>6, <1>8, <1>9, <1>10, <1>11, <1>12, <1>13, <1>14, <1>15, <1>16
     DEF Recovery, Reconcile, ReconcileFails

LEMMA ClaimingRerun ==
    ASSUME IInv, RowStep, BegunKept, RerunInv, NEW c \in Controller, Claiming(c)
    PROVE  RerunInv'
<1>1. TypeOK /\ MyTurn(c) \in Turn  BY ZenonT(40), ProcFacts DEF IInv
<1>2. /\ {"idle", "acquired", "releasing", "draining", "down", "recovering"} \cap ExecPc = {}
      /\ {"releasing", "draining"} = Done /\ "start" \in ExecPc
      /\ "start" \notin {"appended", "running", "calling", "recorded", "bound"} \cup LoopPc
  BY DEF Done, ExecPc, RunPc, TaskPc, LoopPc, PreLaunchPc
<1>3. ASSUME NEW t \in Turn, AcquireForClaim(c, t) PROVE RerunInv'
  <2>1. AcquireForClaimEffect(c, t)  BY <1>1, <1>3, AcquireForClaimFlat
  <2>2. At(c, {"idle"}) /\ Grant(c) /\ UNCHANGED <<row, issued, sent, results>>
    BY <1>3 DEF AcquireForClaim, external
  <2>3. ~Engaged(c) /\ proc'[c].pc \notin ExecPc
    BY ZenonT(40), <1>2, <2>1, <2>2 DEF AcquireForClaimEffect, Engaged, At
  <2> QED  BY <2>1, <2>2, <2>3, GrantRerun DEF AcquireForClaimEffect
(* The attempt is told what the row says.                                  *)
<1>4. CASE Claim(c)
  <2> DEFINE t == MyTurn(c)
  <2>1. ClaimEffect(c) /\ UNCHANGED <<lease, issued, sent, results>>
    BY ZenonT(40), <1>1, <1>4, ClaimFlat DEF Claim, external
  <2>2. /\ At(c, {"acquired"}) /\ MovesOnly(c) /\ SameTurn(c) /\ Engaged(c) /\ ~At(c, ExecPc)
    BY ZenonT(40), <1>2, <2>1 DEF ClaimEffect, Engaged, At
  <2>3. CASE row' = row /\ proc'[c].pc = "releasing"
    BY ZenonT(40), <1>2, <2>1, <2>2, <2>3, LeaveRerun DEF SameTurn
  <2>4. CASE /\ row[t].status \in Claimable /\ OnlyRow(t)
             /\ row'[t].status = "claimed" /\ row'[t].out = row[t].out
             /\ proc'[c].pc = "start" /\ proc'[c].app = PriorAppend(row[t].out)
             /\ proc'[c].warned = row[t].out.note
    <3>1. /\ \A d \in Controller : ~At(d, ExecPc)
          /\ \A u \in Turn : row[u].status \notin {"claimed", "running"}
      BY ZenonT(40), <2>2, Unworked
    <3>2. /\ MyTurn(c)' = t /\ At(c, ExecPc)' /\ proc'[c].token = proc[c].token
      BY ZenonT(40), <1>2, <2>2, <2>4 DEF SameTurn, MyTurn, At
    <3>3. Current(c) /\ proc[c].token > 0  BY ZenonT(40), <2>2, Alone
    <3>4. Leads(c)' /\ AppendedAt(c)' /\ IssuedAt(c)'
      BY ZenonT(40), <1>2, <2>1, <2>4, <3>2, <3>3 DEF Leads, Current, AppendedAt, IssuedAt, At
    <3>5. \A d \in Controller : Leads(d)' /\ AppendedAt(d)' /\ IssuedAt(d)'
      BY <2>2, <3>4, OthersRerun
    <3>6. \A u \in Turn : Worked(u)'
      BY ZenonT(40), <1>1, <2>4, <3>1, <3>2 DEF Worked, OnlyRow
    <3>7. ASSUME NEW k \in sent' \ results' PROVE Told(k)'
      <4> DEFINE u == issued[k].turn
      <4>1. u \in Turn /\ Begun(u) /\ ToldBy(u, k)  BY <2>1, <3>7 DEF RerunInv, Told
      <4>2. Begun(u)' /\ issued'[k] = issued[k]  BY <2>1, <4>1 DEF BegunKept
      <4>3. row[u].status \in Terminal \/ (row[u].status = "recoverable" /\ Telling(row[u].out))
        BY ZenonT(40), <3>1, <4>1 DEF ToldBy
      <4>4. CASE u # t
        <5>1. row'[u] = row[u]  BY ZenonT(40), <2>4, <4>1, <4>4 DEF OnlyRow
        <5> QED  BY ZenonT(40), <4>1, <4>2, <4>3, <5>1 DEF Told, ToldBy
      <4>5. CASE u = t
        <5>1. row[t].status = "recoverable" /\ Telling(row[t].out)
          BY ZenonT(40), <2>4, <4>3, <4>5, StatusFacts
        <5>2. /\ proc'[c].app = "user_appended" /\ proc'[c].warned /\ Telling(row'[t].out)
          BY ZenonT(40), <2>4, <5>1 DEF Telling
        <5>3. Knows(c)'
          BY ZenonT(40), <1>2, <2>4, <3>2, <5>2 DEF Knows, At
        <5>4. Carries(c, k)'  BY <5>2, <5>3 DEF Carries
        <5> QED  BY ZenonT(40), <3>2, <4>1, <4>2, <4>5, <5>4 DEF Told, ToldBy
      <4> QED  BY <4>4, <4>5
    <3> QED  BY <3>5, <3>6, <3>7 DEF RerunInv
  <2> QED  BY ZenonT(40), <2>1, <2>3, <2>4 DEF ClaimEffect
<1>5. CASE Release(c)
  <2>1. ReleaseEffect(c)  BY <1>1, <1>5, ReleaseFlat
  <2>2. /\ At(c, Done) /\ MovesOnly(c) /\ UNCHANGED <<row, issued, sent, results>>
        /\ proc'[c].pc \in {"down", "recovering", "idle"}
    BY ZenonT(40), <2>1 DEF ReleaseEffect, external
  <2>3. /\ Engaged(c) /\ ~At(c, ExecPc) /\ proc'[c].pc \notin ExecPc /\ ~Engaged(c)'
    BY ZenonT(40), <1>2, <2>2 DEF Engaged, At
  <2>4. \A d \in Controller : Leads(d)'  BY ZenonT(40), <2>2, <2>3, OthersRerun DEF Leads
  <2> QED  BY ZenonT(40), <2>2, <2>3, <2>4, StillRerun
<1> QED  BY <1>3, <1>4, <1>5 DEF Claiming

(* A step outside the controllers settles rows, or leaves their outcomes.  *)
LEMMA OutsideRerun ==
    ASSUME IInv, RowStep, BegunKept, RerunInv, UNCHANGED <<proc, issued, sent, results>>,
           \A c \in Controller : Leads(c)',
           \A u \in Turn : \/ row'[u].status = row[u].status /\ row'[u].out = row[u].out
                           \/ row[u].status = "absent" /\ row'[u].status = "queued"
                           \/ row[u].status \in Claimable /\ row'[u].status \in Terminal
                           \/ row'[u].status \in Terminal /\ \A c \in Controller : ~Engaged(c)
    PROVE  RerunInv'
<1>1. \A c \in Controller : AppendedAt(c)' /\ IssuedAt(c)'
  BY ZenonT(40) DEF RerunInv, AppendedAt, IssuedAt, At, MyTurn
<1>2. \A u \in Turn : Worked(u)'
  <2> SUFFICES ASSUME NEW u \in Turn, row'[u].status \in {"claimed", "running"}
               PROVE  \E c \in Controller : At(c, ExecPc)' /\ MyTurn(c)' = u
    BY ZenonT(40) DEF Worked
  <2>1. row[u].status \in {"claimed", "running"}  BY ZenonT(40), StatusFacts
  <2> QED  BY ZenonT(40), <2>1 DEF RerunInv, Worked, At, MyTurn
<1>3. \A c \in Controller : At(c, ExecPc) => row'[MyTurn(c)].out = row[MyTurn(c)].out
  <2> SUFFICES ASSUME NEW c \in Controller, At(c, ExecPc)
               PROVE  row'[MyTurn(c)].out = row[MyTurn(c)].out
    OBVIOUS
  <2>1. Engaged(c) /\ MyTurn(c) \in Turn  BY ZenonT(40), ExecEngaged, ProcFacts DEF IInv
  <2>2. row[MyTurn(c)].status \in {"claimed", "running"}  BY ZenonT(40), <2>1, Alone
  <2> QED  BY ZenonT(40), <2>1, <2>2, StatusFacts
<1>4. ASSUME NEW k \in sent' \ results' PROVE Told(k)'
  <2> DEFINE u == issued[k].turn
  <2>1. u \in Turn /\ Begun(u) /\ ToldBy(u, k)  BY ZenonT(40), <1>4 DEF RerunInv, Told
  <2>2. Begun(u)' /\ issued'[k] = issued[k]  BY <2>1 DEF BegunKept
  <2>3. CASE row[u].status \in Terminal
    <3>1. row'[u].status \in Terminal  BY ZenonT(40), <2>1, <2>3, StatusFacts
    <3> QED  BY ZenonT(40), <2>1, <2>2, <3>1 DEF Told, ToldBy
  <2>4. CASE row[u].status = "recoverable" /\ Telling(row[u].out)
    <3>1. row'[u].status \in Terminal \/ (row'[u].status = "recoverable" /\ Telling(row'[u].out))
      BY ZenonT(40), <2>1, <2>4
    <3> QED  BY ZenonT(40), <2>1, <2>2, <3>1 DEF Told, ToldBy
  <2>5. CASE \E c \in Controller : At(c, ExecPc) /\ MyTurn(c) = u /\ Carries(c, k)
    <3>1. PICK c \in Controller : At(c, ExecPc) /\ MyTurn(c) = u /\ Carries(c, k)  BY ZenonT(40), <2>5
    <3>2. At(c, ExecPc)' /\ MyTurn(c)' = u  BY ZenonT(40), <3>1 DEF At, MyTurn
    <3>3. row'[u].out = row[u].out  BY ZenonT(40), <1>3, <3>1
    <3>4. Knows(c) => Knows(c)'  BY ZenonT(40), <3>1, <3>2, <3>3 DEF Knows, At
    <3>5. Carries(c, k)'  BY ZenonT(40), <2>2, <3>1, <3>4 DEF Carries, At
    <3> QED  BY ZenonT(40), <2>1, <2>2, <3>2, <3>5 DEF Told, ToldBy
  <2> QED  BY ZenonT(40), <2>1, <2>3, <2>4, <2>5 DEF ToldBy
<1> QED  BY ZenonT(40), <1>1, <1>2, <1>4 DEF RerunInv

LEMMA RequestsRerun ==
    ASSUME IInv, RowStep, BegunKept, RerunInv, Requests
    PROVE  RerunInv'
<1>1. TypeOK /\ row \in [Turn -> Row]  BY DEF IInv, TypeOK
<1>2. ASSUME UNCHANGED <<proc, lease>> PROVE \A c \in Controller : Leads(c)'
  BY ZenonT(40), <1>2 DEF RerunInv, Leads, Engaged, Current, At
<1>3. ASSUME NEW t \in Turn, Admit(t) PROVE RerunInv'
  <2>1. /\ row' = [row EXCEPT ![t].status = "queued"] /\ row[t].status = "absent"
        /\ UNCHANGED <<proc, lease, issued, sent, results>>
    BY <1>3 DEF Admit, external
  <2>2. \A u \in Turn : row'[u] = row[u] \/ (row[u].status = "absent" /\ row'[u].status = "queued")
    BY <1>1, <2>1 DEF Row
  <2> QED  BY <1>2, <2>1, <2>2, OutsideRerun
<1>4. ASSUME \A t \in Turn : row'[t] = row[t] \/ row'[t] = Cancelled(row[t]),
             UNCHANGED <<proc, lease, issued, sent, results>>
      PROVE  RerunInv'
  <2>1. \A t \in Turn : \/ row'[t].status = row[t].status /\ row'[t].out = row[t].out
                        \/ row[t].status \in Claimable /\ row'[t].status = "cancelled"
    BY ZenonT(40), <1>1, <1>4, CancelledFlat DEF CancelledEffect
  <2>2. "cancelled" \in Terminal  BY StatusFacts
  <2> QED  BY ZenonT(40), <1>2, <1>4, <2>1, <2>2, OutsideRerun
<1>5. ASSUME NEW t \in Turn, RequestCancel(t) PROVE RerunInv'
  <2>1. \A u \in Turn : row'[u] = row[u] \/ row'[u] = Cancelled(row[u])
    BY <1>1, <1>5 DEF RequestCancel
  <2> QED  BY <1>4, <1>5, <2>1 DEF RequestCancel, external
<1>6. CASE CancelConversation
  BY <1>4, <1>6 DEF CancelConversation, external
(* The operator finds an expired lease: nobody works.                      *)
<1>7. ASSUME NEW t \in Turn, ResolveStaleToolAmbiguous(t) PROVE RerunInv'
  <2>1. ResolveEffect(t)  BY <1>1, <1>7, ResolveFlat
  <2>2. \A c \in Controller : ~Engaged(c) /\ ~Engaged(c)'
    BY <2>1 DEF ResolveEffect, RerunInv, Leads, Current, Engaged, At
  <2>3. \A u \in Turn : row'[u] = row[u] \/ row'[u].status \in Terminal
    BY ZenonT(40), <2>1, StatusFacts DEF ResolveEffect, OnlyRow
  <2> QED  BY ZenonT(40), <2>1, <2>2, <2>3, OutsideRerun DEF ResolveEffect, external, Leads
<1> QED  BY <1>3, <1>5, <1>6, <1>7 DEF Requests

LEMMA EnvironmentRerun ==
    ASSUME IInv, RowStep, BegunKept, RerunInv, Planned, Environment
    PROVE  RerunInv'
<1>1. ASSUME NEW c \in Controller, Boot(c) PROVE RerunInv'
  <2>1. /\ At(c, {"off"}) /\ Goto(c, "idle") /\ UNCHANGED <<row, lease, issued, sent, results>>
    BY <1>1 DEF Boot, external
  <2>2. Label(c, "idle") /\ ~Engaged(c)  BY ZenonT(40), <2>1, GotoFlat DEF IInv, Engaged, At
  <2> QED  BY ZenonT(40), <2>1, <2>2, IdleStill DEF Label
(* A lease that nobody gives up runs out only when nobody works under it.  *)
<1>2. CASE Expire
  <2>1. /\ ~Held /\ UNCHANGED <<row, proc, issued, sent, results>>
    BY <1>2 DEF Expire, Planned, Fault, external
  <2>2. \A c \in Controller : ~Engaged(c)
    BY ZenonT(40), <2>1 DEF RerunInv, Leads, Held, Engaged
  <2>3. \A c \in Controller : Leads(c)'  BY <2>1, <2>2 DEF Leads, Engaged, At
  <2> QED  BY <2>1, <2>3, OutsideRerun
<1>3. ASSUME NEW w \in wire, Land(w) \/ Drop(w) PROVE RerunInv'
  <2>1. UNCHANGED <<row, proc, lease, issued, sent, results>>
    BY <1>3 DEF Land, Drop, tools
  <2>2. \A c \in Controller : Leads(c)'
    BY ZenonT(40), <2>1 DEF RerunInv, Leads, Engaged, Current, At
  <2> QED  BY <2>1, <2>2, OutsideRerun
<1> QED  BY <1>1, <1>2, <1>3 DEF Environment, Crash, Planned, Fault

LEMMA NextBegun ==
    ASSUME IInv, HistInv, [Next]_vars
    PROVE  BegunKept
<1>1. IInv' /\ RowStep  BY NextInv
<1>2. CASE UNCHANGED vars
  BY ZenonT(40), <1>2 DEF vars, BegunKept, Begun
<1>3. CASE Next
  <2>1. HistStep
    BY <1>3, RecoveryHist, ClaimingHist, StartingHist, RunningHist, EndingHist, RequestsHist,
       EnvironmentHist DEF Next, Step, StepHist
  <2> QED  BY <1>1, <2>1, BegunStays DEF BegunKept
<1> QED  BY <1>2, <1>3

LEMMA NextRerun ==
    ASSUME IInv, HistInv, RerunInv, Planned, [Next]_vars
    PROVE  RerunInv'
<1>1. RowStep /\ BegunKept  BY NextInv, NextBegun
<1>2. CASE UNCHANGED vars
  <2>1. \A c \in Controller : Leads(c)'
    BY ZenonT(40), <1>2 DEF vars, RerunInv, Leads, Engaged, Current, At
  <2> QED  BY ZenonT(40), <1>1, <1>2, <2>1, OutsideRerun DEF vars
<1>3. CASE Next
  BY <1>1, <1>3, RecoveryRerun, ClaimingRerun, StartingRerun, RunningRerun, EndingRerun,
     RequestsRerun, EnvironmentRerun DEF Next, Step
<1> QED  BY <1>2, <1>3

(* An execution that runs the model under its fence knows of every call an *)
(* earlier attempt left open.                                              *)
LEMMA RerunTold ==
    ASSUME IInv, RerunInv
    PROVE  NoBlindRerun
<1> SUFFICES ASSUME NEW c \in Controller, At(c, ModelPc), Owns(c, MyTurn(c)),
                    NEW k \in Unsettled(c)
             PROVE  proc[c].warned
  BY DEF NoBlindRerun
<1>1. At(c, ExecPc) /\ ~At(c, {"cancelling"})
  BY ZenonT(40) DEF ModelPc, At, ExecPc, RunPc, TaskPc, LoopPc
<1>2. \A d \in Controller : At(d, ExecPc) => d = c  BY ZenonT(40), <1>1, ExecEngaged, Alone
<1>3. /\ k \in sent \ results /\ issued[k].turn = MyTurn(c)
      /\ issued[k].token < proc[c].token
  BY DEF Unsettled
<1>4. ToldBy(MyTurn(c), k)  BY ZenonT(40), <1>3 DEF RerunInv, Told
<1>5. Carries(c, k)  BY ZenonT(40), <1>2, <1>4, StatusFacts DEF ToldBy, Owns
<1>6. proc[c].token \in Int  BY ProcFacts DEF IInv
<1> QED  BY <1>1, <1>3, <1>5, <1>6 DEF Carries

(* Unless a process dies, loses its lease or fails in the middle of a      *)
(* turn, an attempt that runs the model with a call of an earlier attempt  *)
(* still open has been told of the interruption: however often turns are   *)
(* drained, retried after a transient failure, handed back as busy or      *)
(* stopped, and whichever controller takes them up.                        *)
THEOREM NoBlindRerunHolds ==
    ASSUME Planned
    PROVE  Spec => []NoBlindRerun
<1>1. Init => RerunInv
  <2> SUFFICES ASSUME Init PROVE RerunInv  OBVIOUS
  <2>1. \A t \in Turn : row[t].status = "absent"  BY NoRowType DEF Init
  <2>2. \A c \in Controller : proc[c].pc = "off"  BY DEF Init, Idle
  <2>3. sent = {} /\ "off" \notin LoopPc  BY DEF Init, LoopPc
  <2> QED
    BY ZenonT(40), <2>1, <2>2, <2>3 DEF RerunInv, Leads, Engaged, AppendedAt, IssuedAt, Worked, At
<1>2. IInv /\ HistInv /\ RerunInv /\ [Next]_vars => RerunInv'  BY NextRerun
<1>3. IInv /\ RerunInv => NoBlindRerun  BY RerunTold
<1> QED  BY <1>1, <1>2, <1>3, Invariance, HistInvariance, PTL DEF Spec

=============================================================================
