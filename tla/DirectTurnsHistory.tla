------------------------- MODULE DirectTurnsHistory -------------------------
(***************************************************************************)
(* What the request rows say and what the canonical history holds, for any *)
(* number of controllers, turns and faults: a completed turn has output,   *)
(* an absorbed request is there and was not answered, a turn ends as       *)
(* cancelled only on request.                                              *)
(***************************************************************************)
EXTENDS DirectTurnsProofs

(* More time for a leaf than the provers have by default, and more tries. *)
USE SMTT(30), ZenonT(30), SMTT(40), SMTT(50)

-----------------------------------------------------------------------------
(* The updates of rows and controllers, field by field.                    *)

Label(c, l) == MovesOnly(c) /\ SameTurn(c) /\ proc'[c].pc = l
SameMemo(c) ==
    /\ proc'[c].app = proc[c].app /\ proc'[c].warned = proc[c].warned
    /\ proc'[c].found = proc[c].found /\ proc'[c].calls = proc[c].calls
OutSet(t, o) ==
    /\ OnlyRow(t)
    /\ row'[t].status = row[t].status /\ row'[t].owner = row[t].owner
    /\ row'[t].token = row[t].token /\ row'[t].cancel = row[t].cancel /\ row'[t].out = o
RowSet(t, s, o) ==
    /\ OnlyRow(t)
    /\ row'[t].status = s /\ row'[t].out = o
    /\ row'[t].token = row[t].token /\ row'[t].cancel = row[t].cancel

LEMMA GotoFlat ==
    ASSUME TypeOK, NEW c \in Controller, NEW l, Goto(c, l)
    PROVE  Label(c, l) /\ SameMemo(c)
<1>1. proc \in [Controller -> Proc] /\ proc[c] \in Proc  BY DEF TypeOK
<1>2. proc' = [proc EXCEPT ![c] = [proc[c] EXCEPT !.pc = l]]  BY DEF Goto
<1> DEFINE q == [proc[c] EXCEPT !.pc = l]
<1>3. /\ q.pc = l /\ q.turn = proc[c].turn /\ q.token = proc[c].token /\ q.batch = proc[c].batch
      /\ q.app = proc[c].app /\ q.warned = proc[c].warned
      /\ q.found = proc[c].found /\ q.calls = proc[c].calls
  BY ZenonT(40), <1>1 DEF Proc
<1> HIDE DEF q
<1>4. proc'[c] = q /\ MovesOnly(c)  BY <1>1, <1>2 DEF MovesOnly, q
<1> QED  BY <1>3, <1>4 DEF Label, SameMemo, SameTurn

LEMMA OutFlat ==
    ASSUME TypeOK, NEW t \in Turn, NEW o, row' = [row EXCEPT ![t].out = o]
    PROVE  OutSet(t, o)
<1>1. row \in [Turn -> Row] /\ row[t] \in Row  BY DEF TypeOK
<1> DEFINE r == [row[t] EXCEPT !.out = o]
<1>2. /\ r.status = row[t].status /\ r.owner = row[t].owner /\ r.token = row[t].token
      /\ r.cancel = row[t].cancel /\ r.out = o
  BY <1>1 DEF Row
<1>3. row' = [row EXCEPT ![t] = r]  OBVIOUS
<1> HIDE DEF r
<1>4. row'[t] = r /\ OnlyRow(t)  BY <1>1, <1>3 DEF OnlyRow
<1> QED  BY <1>2, <1>4 DEF OutSet

CheckpointEffect(c, p, a, l) ==
    /\ Owns(c, MyTurn(c))
    /\ OutSet(MyTurn(c), Checkpointed(row[MyTurn(c)].out, p, a))
    /\ Label(c, IF row[MyTurn(c)].cancel THEN "cancelling" ELSE l)
    /\ proc'[c].app = a /\ proc'[c].warned = proc[c].warned
    /\ proc'[c].found = proc[c].found /\ proc'[c].calls = proc[c].calls

LEMMA CheckpointFlat ==
    ASSUME TypeOK, NEW c \in Controller, NEW p, NEW a, NEW l, Checkpoint(c, p, a, l)
    PROVE  CheckpointEffect(c, p, a, l)
<1> DEFINE t == MyTurn(c)
           o == Checkpointed(row[t].out, p, a)
           pc == IF row[t].cancel THEN "cancelling" ELSE l
           q == [proc[c] EXCEPT !.app = a, !.pc = pc]
<1>1. proc \in [Controller -> Proc] /\ proc[c] \in Proc /\ t \in Turn
  BY ProcFacts DEF TypeOK
<1>2. row' = [row EXCEPT ![t].out = o] /\ proc' = [proc EXCEPT ![c] = q] /\ Owns(c, t)
  BY DEF Checkpoint
<1>3. /\ q.pc = pc /\ q.turn = proc[c].turn /\ q.token = proc[c].token /\ q.batch = proc[c].batch
      /\ q.app = a /\ q.warned = proc[c].warned
      /\ q.found = proc[c].found /\ q.calls = proc[c].calls
  BY ZenonT(40), <1>1 DEF Proc
<1> HIDE DEF q, o, pc
<1>4. proc'[c] = q /\ MovesOnly(c)  BY <1>1, <1>2 DEF MovesOnly
<1>5. OutSet(t, o)  BY ZenonT(40), <1>1, <1>2, OutFlat
<1> QED  BY <1>2, <1>3, <1>4, <1>5 DEF Label, SameTurn, o, pc, CheckpointEffect

LEMMA EndFlat ==
    ASSUME TypeOK, NEW c \in Controller, NEW s, NEW o, NEW l, EndAt(c, s, o, l)
    PROVE  /\ Owns(c, MyTurn(c)) /\ RowSet(MyTurn(c), s, o)
           /\ Label(c, l) /\ SameMemo(c)
<1> DEFINE t == MyTurn(c)
           w == IF s = "recoverable" THEN "none" ELSE row[t].owner
           r == [row[t] EXCEPT !.status = s, !.out = o, !.owner = w]
<1>1. row \in [Turn -> Row] /\ row[t] \in Row /\ t \in Turn  BY ProcFacts DEF TypeOK
<1>2. row' = [row EXCEPT ![t] = r] /\ Goto(c, l) /\ Owns(c, t)  BY DEF EndAt
<1> HIDE DEF w
<1>3. r.status = s /\ r.out = o /\ r.token = row[t].token /\ r.cancel = row[t].cancel
  BY ZenonT(40), <1>1 DEF Row
<1> HIDE DEF r
<1>4. row'[t] = r /\ OnlyRow(t)  BY <1>1, <1>2 DEF OnlyRow
<1> QED  BY <1>2, <1>3, <1>4, GotoFlat DEF RowSet

(* Steps that are neither a checkpoint, an end nor a mere move.            *)
ClaimEffect(c) ==
    LET t == MyTurn(c) IN
    /\ At(c, {"acquired"}) /\ MovesOnly(c) /\ SameTurn(c)
    /\ proc'[c].calls = proc[c].calls /\ proc'[c].found = proc[c].found
    /\ \/ /\ row[t].status \in Claimable /\ IsHead(t) /\ Current(c) /\ OnlyRow(t)
          /\ row'[t].status = "claimed" /\ row'[t].owner = c
          /\ row'[t].token = proc[c].token
          /\ row'[t].cancel = row[t].cancel /\ row'[t].out = row[t].out
          /\ proc'[c].pc = "start" /\ proc'[c].app = PriorAppend(row[t].out)
          /\ proc'[c].warned = row[t].out.note
       \/ row' = row /\ proc'[c].pc = "releasing"

LEMMA ClaimFlat ==
    ASSUME TypeOK, NEW c \in Controller, Claim(c)
    PROVE  ClaimEffect(c)
<1> DEFINE t == MyTurn(c)
           claimed == row[t].status \in Claimable /\ IsHead(t) /\ Current(c)
           a == PriorAppend(row[t].out)
           w == row[t].out.note
           l == IF claimed THEN "start" ELSE "releasing"
           n == Attempt(row[t].attempts)
           r == [row[t] EXCEPT !.status = "claimed", !.owner = c, !.token = proc[c].token,
                               !.attempts = n]
           q == [proc[c] EXCEPT !.pc = l, !.app = a, !.warned = w]
<1>1. /\ t \in Turn /\ row[t] \in Row /\ proc[c] \in Proc /\ row \in [Turn -> Row]
      /\ proc \in [Controller -> Proc]
  BY ProcFacts DEF TypeOK
<1>2. /\ row' = IF claimed THEN [row EXCEPT ![t] = r] ELSE row
      /\ proc' = [proc EXCEPT ![c] = q] /\ At(c, {"acquired"})
  BY DEF Claim
<1> HIDE DEF n
<1>3. /\ r.status = "claimed" /\ r.owner = c /\ r.token = proc[c].token
      /\ r.cancel = row[t].cancel /\ r.out = row[t].out
  <2> HIDE DEF t
  <2> QED  BY ZenonT(40), <1>1 DEF Row
<1>4. l = IF claimed THEN "start" ELSE "releasing"  OBVIOUS
<1> HIDE DEF r, l, a, w, claimed
<1>5. /\ q.pc = l /\ q.app = a /\ q.warned = w /\ q.turn = proc[c].turn
      /\ q.token = proc[c].token /\ q.batch = proc[c].batch
      /\ q.calls = proc[c].calls /\ q.found = proc[c].found
  BY ZenonT(40), <1>1 DEF Proc
<1> HIDE DEF q
<1>6. proc'[c] = q /\ MovesOnly(c)  BY <1>1, <1>2 DEF MovesOnly
<1>7. claimed => row'[t] = r /\ OnlyRow(t)  BY <1>1, <1>2 DEF OnlyRow
<1>8. SameTurn(c)  BY <1>5, <1>6 DEF SameTurn
<1>9. CASE claimed
  BY <1>2, <1>3, <1>4, <1>5, <1>6, <1>7, <1>8, <1>9 DEF a, w, claimed, ClaimEffect
<1>10. CASE ~claimed
  BY <1>2, <1>4, <1>5, <1>6, <1>8, <1>10 DEF ClaimEffect
<1> QED  BY <1>9, <1>10

BeginAbsorbEffect(c, u) ==
    /\ At(c, {"model", "absorbing"}) /\ u # MyTurn(c) /\ Current(c)
    /\ row[u].status \in Claimable /\ OnlyRow(u)
    /\ row'[u].status = "absorbing" /\ row'[u].owner = c /\ row'[u].token = proc[c].token
    /\ row'[u].cancel = row[u].cancel
    /\ row'[u].out = Out("canonical_user_append", "none")
    /\ MovesOnly(c) /\ SameMemo(c) /\ proc'[c].pc = "absorbing"
    /\ proc'[c].turn = proc[c].turn /\ proc'[c].token = proc[c].token
    /\ proc'[c].batch = proc[c].batch \cup {u}

LEMMA BeginAbsorbFlat ==
    ASSUME TypeOK, NEW c \in Controller, NEW u \in Turn, BeginAbsorb(c, u)
    PROVE  BeginAbsorbEffect(c, u)
<1> DEFINE o == Out("canonical_user_append", "none")
           n == Attempt(row[u].attempts)
           b == proc[c].batch \cup {u}
           r == [row[u] EXCEPT !.status = "absorbing", !.owner = c, !.token = proc[c].token,
                               !.attempts = n, !.out = o]
           q == [proc[c] EXCEPT !.batch = b, !.pc = "absorbing"]
<1>1. /\ row[u] \in Row /\ proc[c] \in Proc /\ row \in [Turn -> Row]
      /\ proc \in [Controller -> Proc]
  BY DEF TypeOK
<1>2. /\ row' = [row EXCEPT ![u] = r] /\ proc' = [proc EXCEPT ![c] = q]
      /\ At(c, {"model", "absorbing"}) /\ u # MyTurn(c) /\ Current(c)
      /\ row[u].status \in Claimable
  BY DEF BeginAbsorb
<1> HIDE DEF n, o, b
<1>3. /\ r.status = "absorbing" /\ r.owner = c /\ r.token = proc[c].token
      /\ r.cancel = row[u].cancel /\ r.out = o
  BY ZenonT(40), <1>1 DEF Row
<1>4. /\ q.pc = "absorbing" /\ q.app = proc[c].app /\ q.warned = proc[c].warned
      /\ q.turn = proc[c].turn /\ q.token = proc[c].token /\ q.batch = b
      /\ q.calls = proc[c].calls /\ q.found = proc[c].found
  BY ZenonT(40), <1>1 DEF Proc
<1> HIDE DEF r, q
<1>5. proc'[c] = q /\ MovesOnly(c) /\ row'[u] = r /\ OnlyRow(u)
  BY <1>1, <1>2 DEF MovesOnly, OnlyRow
<1> QED  BY <1>2, <1>3, <1>4, <1>5 DEF SameMemo, o, b, BeginAbsorbEffect

MarkAbsorbedEffect(c, u) ==
    /\ At(c, {"absorbwait"}) /\ AbsorbedEvent(c, u) \in history
    /\ row[u].status = "absorbing" /\ Owns(c, u) /\ u \in proc[c].batch
    /\ RowSet(u, "absorbed", Out("terminal", "none"))
    /\ MovesOnly(c) /\ SameMemo(c)
    /\ proc'[c].pc \in {"model", "absorbnext"}
    /\ proc'[c].turn = proc[c].turn /\ proc'[c].token = proc[c].token
    /\ proc'[c].batch = proc[c].batch \ {u}

LEMMA MarkAbsorbedFlat ==
    ASSUME TypeOK, NEW c \in Controller, NEW u \in Turn, MarkAbsorbed(c, u)
    PROVE  MarkAbsorbedEffect(c, u)
<1> DEFINE o == Out("terminal", "none")
           b == proc[c].batch \ {u}
           l == IF proc[c].batch = {u} THEN "model" ELSE "absorbnext"
           r == [row[u] EXCEPT !.status = "absorbed", !.out = o]
           q == [proc[c] EXCEPT !.batch = b, !.pc = l]
<1>1. /\ row[u] \in Row /\ proc[c] \in Proc /\ row \in [Turn -> Row]
      /\ proc \in [Controller -> Proc]
  BY DEF TypeOK
<1>2. /\ row' = [row EXCEPT ![u] = r] /\ proc' = [proc EXCEPT ![c] = q]
      /\ At(c, {"absorbwait"}) /\ AbsorbedEvent(c, u) \in history
      /\ row[u].status = "absorbing" /\ Owns(c, u) /\ u \in proc[c].batch
  BY DEF MarkAbsorbed, NextAbsorbed
<1>3. l \in {"model", "absorbnext"}  OBVIOUS
<1> HIDE DEF l, o, b
<1>4. r.status = "absorbed" /\ r.token = row[u].token /\ r.cancel = row[u].cancel /\ r.out = o
  BY ZenonT(40), <1>1 DEF Row
<1>5. /\ q.pc = l /\ q.app = proc[c].app /\ q.warned = proc[c].warned
      /\ q.turn = proc[c].turn /\ q.token = proc[c].token /\ q.batch = b
      /\ q.calls = proc[c].calls /\ q.found = proc[c].found
  BY ZenonT(40), <1>1 DEF Proc
<1> HIDE DEF r, q
<1>6. proc'[c] = q /\ MovesOnly(c) /\ row'[u] = r /\ OnlyRow(u)
  BY <1>1, <1>2 DEF MovesOnly, OnlyRow
<1> QED  BY <1>2, <1>3, <1>4, <1>5, <1>6 DEF SameMemo, RowSet, o, b, MarkAbsorbedEffect

HandoffEffect(c, n) ==
    LET t == MyTurn(c) IN
    /\ At(c, {"responded"}) /\ Owns(c, t) /\ t # n /\ row[n].status = "absent"
    /\ \A u \in Turn \ {t, n} : row'[u] = row[u]
    /\ row'[t].status = "completed" /\ row'[t].out = Out("terminal", "none")
    /\ row'[t].token = row[t].token /\ row'[t].cancel = row[t].cancel
    /\ row'[n].status = "queued" /\ row'[n].out = row[n].out
    /\ row'[n].token = row[n].token /\ row'[n].cancel = row[n].cancel
    /\ Label(c, "releasing") /\ SameMemo(c)

LEMMA HandoffFlat ==
    ASSUME TypeOK, NEW c \in Controller, NEW n \in Turn, Handoff(c, n)
    PROVE  HandoffEffect(c, n)
<1> DEFINE t == MyTurn(c)
           o == Out("terminal", "none")
           r == [row[t] EXCEPT !.status = "completed", !.out = o]
           m == [row[n] EXCEPT !.status = "queued"]
<1>1. t \in Turn /\ row[t] \in Row /\ row[n] \in Row /\ row \in [Turn -> Row]
  BY ProcFacts DEF TypeOK
<1>2. At(c, {"responded"}) /\ row[n].status = "absent" /\ Owns(c, t) /\ Goto(c, "releasing")
  BY DEF Handoff
<1>3. t # n  BY <1>2, StatusFacts DEF Owns
<1>4. row'[t] = r /\ row'[n] = m /\ row' = [row EXCEPT ![t] = r, ![n] = m]
  BY ZenonT(40), <1>1, <1>3 DEF Handoff
<1> HIDE DEF o
<1>5. /\ r.status = "completed" /\ r.out = o /\ r.token = row[t].token /\ r.cancel = row[t].cancel
      /\ m.status = "queued" /\ m.out = row[n].out /\ m.token = row[n].token
      /\ m.cancel = row[n].cancel
  <2> HIDE DEF t
  <2> QED  BY ZenonT(40), <1>1 DEF Row
<1> HIDE DEF r, m
<1>6. \A u \in Turn \ {t, n} : row'[u] = row[u]  BY <1>1, <1>4
<1>7. Label(c, "releasing") /\ SameMemo(c)  BY <1>2, GotoFlat
<1> QED  BY ZenonT(40), <1>2, <1>3, <1>4, <1>5, <1>6, <1>7 DEF o, HandoffEffect

(* The outcome of the turn, the calls or the append state, and the label.  *)
CallsEffect(c, k, l) ==
    /\ Label(c, l) /\ proc'[c].calls = k
    /\ proc'[c].app = proc[c].app /\ proc'[c].warned = proc[c].warned
    /\ proc'[c].found = proc[c].found

LEMMA CallsFlat ==
    ASSUME TypeOK, NEW c \in Controller, NEW k, NEW l,
           proc' = [proc EXCEPT ![c] = [proc[c] EXCEPT !.calls = k, !.pc = l]]
    PROVE  CallsEffect(c, k, l)
<1> DEFINE q == [proc[c] EXCEPT !.calls = k, !.pc = l]
<1>1. proc \in [Controller -> Proc] /\ proc[c] \in Proc  BY DEF TypeOK
<1>2. /\ q.pc = l /\ q.turn = proc[c].turn /\ q.token = proc[c].token /\ q.batch = proc[c].batch
      /\ q.app = proc[c].app /\ q.warned = proc[c].warned /\ q.found = proc[c].found
      /\ q.calls = k
  BY ZenonT(40), <1>1 DEF Proc
<1>3. proc' = [proc EXCEPT ![c] = q]  OBVIOUS
<1> HIDE DEF q
<1>4. proc'[c] = q /\ MovesOnly(c)  BY <1>1, <1>3 DEF MovesOnly
<1> QED  BY <1>2, <1>4 DEF Label, SameTurn, CallsEffect

AppEffect(c, a, l) ==
    /\ Label(c, l) /\ proc'[c].app = a
    /\ proc'[c].calls = proc[c].calls /\ proc'[c].warned = proc[c].warned
    /\ proc'[c].found = proc[c].found

LEMMA AppFlat ==
    ASSUME TypeOK, NEW c \in Controller, NEW a, NEW l,
           proc' = [proc EXCEPT ![c] = [proc[c] EXCEPT !.app = a, !.pc = l]]
    PROVE  AppEffect(c, a, l)
<1> DEFINE q == [proc[c] EXCEPT !.app = a, !.pc = l]
<1>1. proc \in [Controller -> Proc] /\ proc[c] \in Proc  BY DEF TypeOK
<1>2. /\ q.pc = l /\ q.turn = proc[c].turn /\ q.token = proc[c].token /\ q.batch = proc[c].batch
      /\ q.app = a /\ q.warned = proc[c].warned /\ q.found = proc[c].found
      /\ q.calls = proc[c].calls
  BY ZenonT(40), <1>1 DEF Proc
<1>3. proc' = [proc EXCEPT ![c] = q]  OBVIOUS
<1> HIDE DEF q
<1>4. proc'[c] = q /\ MovesOnly(c)  BY <1>1, <1>3 DEF MovesOnly
<1> QED  BY <1>2, <1>4 DEF Label, SameTurn, AppEffect

MarkRunningEffect(c) ==
    LET t == MyTurn(c) IN
    /\ At(c, {"appended"}) /\ Owns(c, t) /\ row[t].status = "claimed"
    /\ RowSet(t, "running", row[t].out) /\ row'[t].owner = row[t].owner
    /\ Label(c, "running") /\ SameMemo(c)

LEMMA MarkRunningFlat ==
    ASSUME TypeOK, NEW c \in Controller, MarkRunning(c)
    PROVE  MarkRunningEffect(c)
<1> DEFINE t == MyTurn(c)
           r == [row[t] EXCEPT !.status = "running"]
<1>1. t \in Turn /\ row[t] \in Row /\ row \in [Turn -> Row]  BY ProcFacts DEF TypeOK
<1>2. /\ At(c, {"appended"}) /\ Owns(c, t) /\ row[t].status = "claimed"
      /\ row' = [row EXCEPT ![t] = r] /\ Goto(c, "running")
  BY DEF MarkRunning
<1>3. /\ r.status = "running" /\ r.owner = row[t].owner /\ r.token = row[t].token
      /\ r.cancel = row[t].cancel /\ r.out = row[t].out
  <2> HIDE DEF t
  <2> QED  BY ZenonT(40), <1>1 DEF Row
<1> HIDE DEF r
<1>4. row'[t] = r /\ OnlyRow(t)  BY <1>1, <1>2 DEF OnlyRow
<1> QED  BY <1>2, <1>3, <1>4, GotoFlat DEF RowSet, MarkRunningEffect

-----------------------------------------------------------------------------
(* The same for recovery and claiming.                                     *)

Acquires(c, l, t) ==
    proc' = [proc EXCEPT ![c] = [proc[c] EXCEPT !.pc = l, !.turn = t, !.token = lease.token + 1]]

AcquireEffect(c, t, l) ==
    /\ MovesOnly(c) /\ SameMemo(c)
    /\ proc'[c].pc = l /\ proc'[c].turn = t /\ proc'[c].token = lease.token + 1
    /\ proc'[c].batch = proc[c].batch

LEMMA AcquireFlat ==
    ASSUME TypeOK, NEW c \in Controller, NEW t, NEW l, Acquires(c, l, t)
    PROVE  AcquireEffect(c, t, l)
<1> DEFINE n == lease.token + 1
           q == [proc[c] EXCEPT !.pc = l, !.turn = t, !.token = n]
<1>1. proc \in [Controller -> Proc] /\ proc[c] \in Proc  BY DEF TypeOK
<1>2. proc' = [proc EXCEPT ![c] = q]  BY DEF Acquires
<1> HIDE DEF n
<1>3. /\ q.pc = l /\ q.turn = t /\ q.token = n /\ q.batch = proc[c].batch
      /\ q.app = proc[c].app /\ q.warned = proc[c].warned /\ q.found = proc[c].found
      /\ q.calls = proc[c].calls
  BY ZenonT(40), <1>1 DEF Proc
<1> HIDE DEF q
<1>4. proc'[c] = q /\ MovesOnly(c)  BY <1>1, <1>2 DEF MovesOnly
<1> QED  BY <1>3, <1>4 DEF SameMemo, n, AcquireEffect

AcquireForClaimEffect(c, t) ==
    /\ MovesOnly(c) /\ SameMemo(c)
    /\ proc'[c].pc = "acquired" /\ proc'[c].turn = t
    /\ proc'[c].token = lease.token + 1 /\ proc'[c].batch = proc[c].batch

LEMMA AcquireForClaimFlat ==
    ASSUME TypeOK, NEW c \in Controller, NEW t \in Turn, AcquireForClaim(c, t)
    PROVE  AcquireForClaimEffect(c, t)
<1>1. Acquires(c, "acquired", t)  BY DEF AcquireForClaim, Acquires
<1> QED  BY <1>1, AcquireFlat DEF AcquireEffect, AcquireForClaimEffect

ListStaleEffect(c) ==
    /\ At(c, {"idle"}) /\ Label(c, "recovering") /\ SameMemo(c)
    /\ todo'[c] = {[turn |-> t, row |-> row[t]] : t \in {u \in Turn : Stale(u)}}
    /\ \A d \in Controller \ {c} : todo'[d] = todo[d]
    /\ UNCHANGED <<row, lease, snap, external, faults>>

LEMMA ListStaleFlat ==
    ASSUME TypeOK, NEW c \in Controller, ListStale(c)
    PROVE  ListStaleEffect(c)
<1> DEFINE new == {[turn |-> t, row |-> row[t]] : t \in {u \in Turn : Stale(u)}}
<1>1. /\ At(c, {"idle"}) /\ todo' = [todo EXCEPT ![c] = new] /\ Goto(c, "recovering")
      /\ UNCHANGED <<row, lease, snap, external, faults>>
  BY DEF ListStale
<1>2. todo'[c] = new /\ \A d \in Controller \ {c} : todo'[d] = todo[d]
  <2> HIDE DEF new
  <2> QED  BY <1>1 DEF TypeOK
<1> QED  BY <1>1, <1>2, GotoFlat DEF ListStaleEffect

AcquireForRecoveryEffect(c) ==
    /\ At(c, {"recovering"}) /\ UNCHANGED <<row, external, faults>> /\ Grant(c)
    /\ \A d \in Controller \ {c} : todo'[d] = todo[d] /\ snap'[d] = snap[d]
    /\ MovesOnly(c) /\ SameMemo(c)
    /\ proc'[c].pc = "held" /\ proc'[c].token = lease.token + 1
    /\ proc'[c].batch = proc[c].batch
    /\ \E s \in todo[c] : /\ todo'[c] = todo[c] \ {s} /\ snap'[c] = s.row
                          /\ proc'[c].turn = s.turn

LEMMA AcquireForRecoveryFlat ==
    ASSUME TypeOK, NEW c \in Controller, AcquireForRecovery(c)
    PROVE  AcquireForRecoveryEffect(c)
<1>1. PICK s \in todo[c] :
         /\ Grant(c)
         /\ todo' = [todo EXCEPT ![c] = @ \ {s}]
         /\ snap' = [snap EXCEPT ![c] = s.row]
         /\ Acquires(c, "held", s.turn)
  BY ZenonT(40) DEF AcquireForRecovery, Acquires
<1>2. At(c, {"recovering"}) /\ UNCHANGED <<row, external, faults>>
  BY DEF AcquireForRecovery
<1>3. /\ todo'[c] = todo[c] \ {s} /\ snap'[c] = s.row
      /\ \A d \in Controller \ {c} : todo'[d] = todo[d] /\ snap'[d] = snap[d]
  BY <1>1 DEF TypeOK
<1>4. /\ MovesOnly(c) /\ SameMemo(c)
      /\ proc'[c].pc = "held" /\ proc'[c].turn = s.turn /\ proc'[c].token = lease.token + 1
      /\ proc'[c].batch = proc[c].batch
  BY <1>1, AcquireFlat DEF AcquireEffect
<1> QED  BY <1>1, <1>2, <1>3, <1>4 DEF AcquireForRecoveryEffect

SkipStaleEffect(c) ==
    /\ At(c, {"recovering"}) /\ UNCHANGED <<row, lease, snap, external, faults>>
    /\ \A d \in Controller \ {c} : todo'[d] = todo[d]
    /\ todo'[c] \subseteq todo[c]
    /\ Label(c, IF todo'[c] = {} THEN "idle" ELSE "recovering") /\ SameMemo(c)

LEMMA SkipStaleFlat ==
    ASSUME TypeOK, NEW c \in Controller, SkipStale(c)
    PROVE  SkipStaleEffect(c)
<1>1. PICK s \in todo[c] :
         /\ todo' = [todo EXCEPT ![c] = @ \ {s}]
         /\ Goto(c, IF todo[c] = {s} THEN "idle" ELSE "recovering")
  BY ZenonT(40) DEF SkipStale
<1>2. At(c, {"recovering"}) /\ UNCHANGED <<row, lease, snap, external, faults>>
  BY DEF SkipStale
<1>3. todo'[c] = todo[c] \ {s} /\ \A d \in Controller \ {c} : todo'[d] = todo[d]
  BY <1>1 DEF TypeOK
<1>4. todo'[c] = {} <=> todo[c] = {s}  BY <1>3
<1>5. /\ Label(c, IF todo[c] = {s} THEN "idle" ELSE "recovering") /\ SameMemo(c)
  BY <1>1, GotoFlat
<1> QED  BY <1>2, <1>3, <1>4, <1>5 DEF SkipStaleEffect

CancelStaleEffect(c) ==
    LET t == MyTurn(c) IN
    /\ At(c, {"held"}) /\ Label(c, "releasing") /\ SameMemo(c)
    /\ \/ row' = row
       \/ /\ row[t].status \in Active /\ row[t].cancel /\ Supersedes(c, t)
          /\ RowSet(t, "cancelled", Out("terminal", "none"))

LEMMA CancelStaleFlat ==
    ASSUME TypeOK, NEW c \in Controller, CancelStaleActive(c)
    PROVE  CancelStaleEffect(c)
<1> DEFINE t == MyTurn(c)
           o == Out("terminal", "none")
           r == [row[t] EXCEPT !.status = "cancelled", !.owner = "none", !.out = o]
<1>1. t \in Turn /\ row[t] \in Row /\ row \in [Turn -> Row]  BY ProcFacts DEF TypeOK
<1>2. /\ At(c, {"held"}) /\ Goto(c, "releasing")
      /\ \/ row' = row
         \/ /\ row[t].status \in Active /\ row[t].cancel /\ Supersedes(c, t)
            /\ row' = [row EXCEPT ![t] = r]
  BY DEF CancelStaleActive
<1> HIDE DEF o
<1>3. r.status = "cancelled" /\ r.token = row[t].token /\ r.cancel = row[t].cancel /\ r.out = o
  <2> HIDE DEF t
  <2> QED  BY ZenonT(40), <1>1 DEF Row
<1> HIDE DEF r
<1>4. row' = [row EXCEPT ![t] = r] => row'[t] = r /\ OnlyRow(t)  BY <1>1 DEF OnlyRow
<1>5. Label(c, "releasing") /\ SameMemo(c)  BY <1>2, GotoFlat
<1> QED  BY <1>2, <1>3, <1>4, <1>5 DEF RowSet, o, CancelStaleEffect

BeginToolRecoveryEffect(c) ==
    LET t == MyTurn(c) IN
    /\ At(c, {"held"}) /\ MovesOnly(c) /\ SameTurn(c)
    /\ proc'[c].app = proc[c].app /\ proc'[c].warned = proc[c].warned
    /\ proc'[c].found = proc[c].found
    /\ \/ /\ row[t].status \in Active /\ row[t].out.phase = "tool_in_flight"
          /\ Supersedes(c, t) /\ OnlyRow(t)
          /\ row'[t].status = row[t].status /\ row'[t].cancel = row[t].cancel
          /\ row'[t].out = row[t].out
          /\ row'[t].owner = c /\ row'[t].token = proc[c].token
          /\ proc'[c].pc = "tools" /\ proc'[c].calls = row[t].out.journal
       \/ row' = row /\ proc'[c].pc = "releasing" /\ proc'[c].calls = {}

LEMMA BeginToolRecoveryFlat ==
    ASSUME TypeOK, NEW c \in Controller, BeginToolRecovery(c)
    PROVE  BeginToolRecoveryEffect(c)
<1> DEFINE t == MyTurn(c)
           taken == /\ row[t].status \in Active
                    /\ row[t].out.phase = "tool_in_flight"
                    /\ Supersedes(c, t)
           r == [row[t] EXCEPT !.owner = c, !.token = proc[c].token]
           l == IF taken THEN "tools" ELSE "releasing"
           k == IF taken THEN row[t].out.journal ELSE {}
           q == [proc[c] EXCEPT !.pc = l, !.calls = k]
<1>1. /\ t \in Turn /\ row[t] \in Row /\ row \in [Turn -> Row]
      /\ proc[c] \in Proc /\ proc \in [Controller -> Proc]
  BY ProcFacts DEF TypeOK
<1>2. /\ At(c, {"held"}) /\ proc' = [proc EXCEPT ![c] = q]
      /\ row' = IF taken THEN [row EXCEPT ![t] = r] ELSE row
  BY DEF BeginToolRecovery
<1>3. /\ r.status = row[t].status /\ r.cancel = row[t].cancel /\ r.out = row[t].out
      /\ r.owner = c /\ r.token = proc[c].token
  <2> HIDE DEF t
  <2> QED  BY ZenonT(40), <1>1 DEF Row
<1>4. l = (IF taken THEN "tools" ELSE "releasing") /\ k = IF taken THEN row[t].out.journal ELSE {}
  OBVIOUS
<1> HIDE DEF r, l, k, taken
<1>5. /\ q.pc = l /\ q.turn = proc[c].turn /\ q.token = proc[c].token /\ q.batch = proc[c].batch
      /\ q.app = proc[c].app /\ q.warned = proc[c].warned /\ q.found = proc[c].found
      /\ q.calls = k
  BY ZenonT(40), <1>1 DEF Proc
<1> HIDE DEF q
<1>6. proc'[c] = q /\ MovesOnly(c)  BY <1>1, <1>2 DEF MovesOnly
<1>7. SameTurn(c)  BY <1>5, <1>6 DEF SameTurn
<1>8. CASE taken
  <2>1. row'[t] = r /\ OnlyRow(t)  BY <1>1, <1>2, <1>8 DEF OnlyRow
  <2> QED  BY ZenonT(40), <1>2, <1>3, <1>4, <1>5, <1>6, <1>7, <1>8, <2>1 DEF taken, BeginToolRecoveryEffect
<1>9. CASE ~taken
  BY <1>2, <1>4, <1>5, <1>6, <1>7, <1>9 DEF BeginToolRecoveryEffect
<1> QED  BY <1>8, <1>9

ToolRecoveryFailsEffect(c, s) ==
    /\ At(c, {"tools"}) /\ Owns(c, MyTurn(c))
    /\ RowSet(MyTurn(c), s, Out("terminal", "none"))
    /\ Label(c, "releasing") /\ SameMemo(c)

LEMMA ToolRecoveryFailsFlat ==
    ASSUME TypeOK, NEW c \in Controller, NEW s, ToolRecoveryFails(c, s)
    PROVE  ToolRecoveryFailsEffect(c, s)
<1> DEFINE t == MyTurn(c)
           o == Out("terminal", "none")
           r == [row[t] EXCEPT !.status = s, !.out = o]
<1>1. t \in Turn /\ row[t] \in Row /\ row \in [Turn -> Row]  BY ProcFacts DEF TypeOK
<1>2. /\ At(c, {"tools"}) /\ Owns(c, t) /\ Goto(c, "releasing")
      /\ row' = [row EXCEPT ![t] = r]
  BY DEF ToolRecoveryFails
<1> HIDE DEF o
<1>3. r.status = s /\ r.token = row[t].token /\ r.cancel = row[t].cancel /\ r.out = o
  <2> HIDE DEF t
  <2> QED  BY ZenonT(40), <1>1 DEF Row
<1> HIDE DEF r
<1>4. row'[t] = r /\ OnlyRow(t)  BY <1>1, <1>2 DEF OnlyRow
<1> QED  BY <1>2, <1>3, <1>4, GotoFlat DEF RowSet, o, ToolRecoveryFailsEffect

ClearToolDispatchEffect(c) ==
    LET t == MyTurn(c) IN
    /\ At(c, {"tools"}) /\ Owns(c, t) /\ proc[c].calls \subseteq results
    /\ OutSet(t, row'[t].out)
    /\ row'[t].out.phase = "tool_recovery_result_persisted" /\ row'[t].out.journal = {}
    /\ Label(c, "cleared") /\ SameMemo(c)

LEMMA ClearToolDispatchFlat ==
    ASSUME TypeOK, NEW c \in Controller, ClearToolDispatch(c)
    PROVE  ClearToolDispatchEffect(c)
<1> DEFINE t == MyTurn(c)
           o == [row[t].out EXCEPT !.phase = "tool_recovery_result_persisted", !.journal = {}]
<1>1. t \in Turn /\ row[t].out \in Outcome  BY ProcFacts
<1>2. /\ At(c, {"tools"}) /\ Owns(c, t) /\ proc[c].calls \subseteq results /\ Goto(c, "cleared")
      /\ row' = [row EXCEPT ![t].out = o]
  BY DEF ClearToolDispatch
<1>3. o.phase = "tool_recovery_result_persisted" /\ o.journal = {}
  <2> HIDE DEF t
  <2> QED  BY ZenonT(40), <1>1 DEF Outcome
<1> HIDE DEF o
<1>4. OutSet(t, o)  BY ZenonT(40), <1>1, <1>2, OutFlat
<1>5. row'[t].out = o  BY <1>4 DEF OutSet
<1> QED  BY <1>2, <1>3, <1>4, <1>5, GotoFlat DEF ClearToolDispatchEffect

FinishToolRecoveryEffect(c) ==
    LET t == MyTurn(c) IN
    /\ At(c, {"cleared"}) /\ Owns(c, t) /\ OnlyRow(t)
    /\ row'[t].cancel = row[t].cancel /\ row'[t].token = 0 /\ row'[t].out.journal = {}
    /\ \/ row[t].cancel /\ row'[t].status = "cancelled"
       \/ /\ row'[t].status = "recoverable" /\ row'[t].out.note
          /\ row'[t].out.append = "user_appended"
    /\ Label(c, "releasing") /\ SameMemo(c)

LEMMA FinishToolRecoveryFlat ==
    ASSUME TypeOK, NEW c \in Controller, FinishToolRecovery(c)
    PROVE  FinishToolRecoveryEffect(c)
<1> DEFINE t == MyTurn(c)
           o == Out("terminal", "none")
           n == [Out("user_appended", "user_appended") EXCEPT !.note = TRUE]
           r == [row[t] EXCEPT !.status = "cancelled", !.owner = "none", !.token = 0, !.out = o]
           s == [row[t] EXCEPT !.status = "recoverable", !.owner = "none", !.token = 0, !.out = n]
<1>1. t \in Turn /\ row[t] \in Row /\ row \in [Turn -> Row]  BY ProcFacts DEF TypeOK
<1>2. /\ At(c, {"cleared"}) /\ Owns(c, t) /\ Goto(c, "releasing")
      /\ row' = [row EXCEPT ![t] = IF row[t].cancel THEN r ELSE s]
  BY DEF FinishToolRecovery
<1>3. o.journal = {} /\ n.journal = {} /\ n.note /\ n.append = "user_appended"  BY DEF Out
<1> HIDE DEF o, n
<1>4. /\ r.status = "cancelled" /\ r.token = 0 /\ r.cancel = row[t].cancel /\ r.out = o
      /\ s.status = "recoverable" /\ s.token = 0 /\ s.cancel = row[t].cancel /\ s.out = n
  <2> HIDE DEF t
  <2> QED  BY ZenonT(40), <1>1 DEF Row
<1> HIDE DEF r, s
<1>5. row'[t] = (IF row[t].cancel THEN r ELSE s) /\ OnlyRow(t)  BY <1>1, <1>2 DEF OnlyRow
<1> QED  BY <1>2, <1>3, <1>4, <1>5, GotoFlat DEF FinishToolRecoveryEffect

JudgeEffect(c, f) ==
    /\ At(c, {"held"}) /\ ~snap[c].cancel /\ snap[c].out.phase # "tool_in_flight"
    /\ ~Quarantined(snap[c])
    /\ Label(c, "decided") /\ proc'[c].found = f
    /\ proc'[c].app = proc[c].app /\ proc'[c].warned = proc[c].warned
    /\ proc'[c].calls = proc[c].calls

LEMMA JudgeFlat ==
    ASSUME TypeOK, NEW c \in Controller, NEW f, Judge(c, f)
    PROVE  JudgeEffect(c, f)
<1> DEFINE q == [proc[c] EXCEPT !.pc = "decided", !.found = f]
<1>1. proc \in [Controller -> Proc] /\ proc[c] \in Proc  BY DEF TypeOK
<1>2. /\ proc' = [proc EXCEPT ![c] = q]
      /\ At(c, {"held"}) /\ ~snap[c].cancel /\ snap[c].out.phase # "tool_in_flight"
      /\ ~Quarantined(snap[c])
  BY DEF Judge
<1>3. /\ q.pc = "decided" /\ q.turn = proc[c].turn /\ q.token = proc[c].token
      /\ q.batch = proc[c].batch /\ q.app = proc[c].app /\ q.warned = proc[c].warned
      /\ q.found = f /\ q.calls = proc[c].calls
  BY ZenonT(40), <1>1 DEF Proc
<1> HIDE DEF q
<1>4. proc'[c] = q /\ MovesOnly(c)  BY <1>1, <1>2 DEF MovesOnly
<1> QED  BY <1>2, <1>3, <1>4 DEF Label, SameTurn, JudgeEffect

RecoverStaleEffect(c) ==
    LET t == MyTurn(c)
        v == Verdict(snap[c], proc[c].found)
    IN
    /\ At(c, {"decided"}) /\ Label(c, "releasing") /\ SameMemo(c)
    /\ \/ row' = row
       \/ row[t].status \in v.from /\ Supersedes(c, t) /\ RowSet(t, v.to, v.out)

LEMMA RecoverStaleFlat ==
    ASSUME TypeOK, NEW c \in Controller, RecoverStale(c)
    PROVE  RecoverStaleEffect(c)
<1> DEFINE t == MyTurn(c)
           v == Verdict(snap[c], proc[c].found)
           w == IF v.to = "recoverable" THEN "none" ELSE row[t].owner
           r == [row[t] EXCEPT !.status = v.to, !.out = v.out, !.owner = w]
<1>1. t \in Turn /\ row[t] \in Row /\ row \in [Turn -> Row]  BY ProcFacts DEF TypeOK
<1>2. /\ At(c, {"decided"}) /\ Goto(c, "releasing")
      /\ \/ row' = row
         \/ row[t].status \in v.from /\ Supersedes(c, t) /\ row' = [row EXCEPT ![t] = r]
  BY DEF RecoverStale
<1> HIDE DEF w, v
<1>3. /\ r.status = v.to /\ r.out = v.out /\ r.token = row[t].token
      /\ r.cancel = row[t].cancel
  <2> HIDE DEF t
  <2> QED  BY ZenonT(40), <1>1 DEF Row
<1> HIDE DEF r
<1>4. row' = [row EXCEPT ![t] = r] => row'[t] = r /\ OnlyRow(t)  BY <1>1 DEF OnlyRow
<1>5. Label(c, "releasing") /\ SameMemo(c)  BY <1>2, GotoFlat
<1> QED  BY <1>2, <1>3, <1>4, <1>5 DEF RowSet, v, RecoverStaleEffect

ReleaseEffect(c) ==
    /\ At(c, Done) /\ UNCHANGED <<row, todo, external, faults>>
    /\ lease'.owner = lease.owner /\ lease'.token = lease.token
    /\ lease'.live => lease.live
    /\ lease' = lease \/ Current(c) \/ ~lease.live
    /\ MovesOnly(c) /\ \A d \in Controller \ {c} : snap'[d] = snap[d]
    /\ proc'[c].pc = (IF At(c, {"draining"}) THEN "down"
                      ELSE IF todo[c] # {} THEN "recovering" ELSE "idle")
    /\ proc'[c].calls = {} /\ proc'[c].batch = {} /\ proc'[c].turn = 1
    /\ proc'[c].token = 0

LEMMA ReleaseFlat ==
    ASSUME TypeOK, NEW c \in Controller, Release(c)
    PROVE  ReleaseEffect(c)
<1> DEFINE l == IF At(c, {"draining"}) THEN "down"
                ELSE IF todo[c] # {} THEN "recovering" ELSE "idle"
           q == [Idle EXCEPT !.pc = l]
<1>1. /\ proc \in [Controller -> Proc] /\ snap \in [Controller -> Row]
      /\ lease \in [owner : Controller \cup {"none", "operator"}, token : 0 .. MaxToken,
                    live : BOOLEAN]
  BY DEF TypeOK
<1>2. /\ At(c, Done) /\ proc' = [proc EXCEPT ![c] = q] /\ snap' = [snap EXCEPT ![c] = NoRow]
      /\ lease' = IF lease.owner = c /\ lease.token = proc[c].token
                  THEN [lease EXCEPT !.live = FALSE] ELSE lease
      /\ UNCHANGED <<row, todo, external, faults>>
  BY DEF Release, Done
<1>3. /\ lease'.owner = lease.owner /\ lease'.token = lease.token
      /\ lease'.live => lease.live
      /\ lease' = lease \/ Current(c) \/ ~lease.live
  BY <1>1, <1>2 DEF Current
<1> HIDE DEF l
<1>4. q.pc = l /\ q.calls = {} /\ q.batch = {} /\ q.turn = 1 /\ q.token = 0
  BY DEF Idle
<1> HIDE DEF q
<1>5. proc'[c] = q /\ MovesOnly(c) /\ \A d \in Controller \ {c} : snap'[d] = snap[d]
  BY <1>1, <1>2 DEF MovesOnly
<1> QED  BY <1>2, <1>3, <1>4, <1>5 DEF l, ReleaseEffect

CrashEffect(c) ==
    /\ UNCHANGED <<row, lease, external>> /\ MovesOnly(c) /\ Fault("crash")
    /\ \A d \in Controller \ {c} : todo'[d] = todo[d] /\ snap'[d] = snap[d]
    /\ todo'[c] = {}
    /\ proc'[c].pc = "down" /\ proc'[c].calls = {} /\ proc'[c].batch = {}
    /\ proc'[c].turn = 1 /\ proc'[c].token = 0

LEMMA CrashFlat ==
    ASSUME TypeOK, NEW c \in Controller, Crash(c)
    PROVE  CrashEffect(c)
<1> DEFINE q == [Idle EXCEPT !.pc = "down"]
<1>1. /\ proc' = [proc EXCEPT ![c] = q] /\ todo' = [todo EXCEPT ![c] = {}]
      /\ snap' = [snap EXCEPT ![c] = NoRow] /\ UNCHANGED <<row, lease, external>>
      /\ Fault("crash")
  BY DEF Crash
<1>2. q.pc = "down" /\ q.calls = {} /\ q.batch = {} /\ q.turn = 1 /\ q.token = 0
  BY DEF Idle
<1> HIDE DEF q
<1> QED  BY <1>1, <1>2 DEF TypeOK, MovesOnly, CrashEffect

(* A request for cancellation keeps everything but the flag and, for work  *)
(* nobody holds, the status.                                               *)
CancelledEffect(r) ==
    /\ Cancelled(r).out = r.out /\ Cancelled(r).token = r.token
    /\ r.cancel => Cancelled(r).cancel
    /\ \/ Cancelled(r).status = r.status
       \/ /\ r.status \in Claimable /\ Cancelled(r).status = "cancelled"
          /\ Cancelled(r).cancel

LEMMA CancelledFlat ==
    ASSUME NEW r \in Row
    PROVE  CancelledEffect(r)
<1> DEFINE a == [r EXCEPT !.status = "cancelled", !.cancel = TRUE]
           b == [r EXCEPT !.cancel = TRUE]
<1>1. /\ a.status = "cancelled" /\ a.cancel /\ a.out = r.out /\ a.token = r.token
      /\ b.status = r.status /\ b.cancel /\ b.out = r.out /\ b.token = r.token
  BY ZenonT(40) DEF Row
<1>2. (Cancelled(r) = a /\ r.status \in Claimable) \/ Cancelled(r) = b \/ Cancelled(r) = r
  BY DEF Cancelled
<1> HIDE DEF a, b
<1> QED  BY <1>1, <1>2 DEF CancelledEffect

ResolveEffect(t) ==
    /\ row[t].status \in Active /\ row[t].out.phase = "tool_in_flight" /\ ~lease.live
    /\ OnlyRow(t) /\ row'[t].status = "ambiguous" /\ row'[t].cancel = row[t].cancel
    /\ row'[t].out = Out("terminal", "none")
    /\ ~lease'.live /\ UNCHANGED <<proc, todo, snap, external, faults>>

LEMMA ResolveFlat ==
    ASSUME TypeOK, NEW t \in Turn, ResolveStaleToolAmbiguous(t)
    PROVE  ResolveEffect(t)
<1> DEFINE o == Out("terminal", "none")
           n == lease.token + 1
           r == [row[t] EXCEPT !.status = "ambiguous", !.owner = "operator", !.token = n,
                               !.out = o]
<1>1. row \in [Turn -> Row] /\ row[t] \in Row  BY DEF TypeOK
<1>2. /\ row[t].status \in Active /\ row[t].out.phase = "tool_in_flight" /\ ~lease.live
      /\ row' = [row EXCEPT ![t] = r] /\ ~lease'.live
      /\ UNCHANGED <<proc, todo, snap, external, faults>>
  BY DEF ResolveStaleToolAmbiguous
<1> HIDE DEF o, n
<1>3. r.status = "ambiguous" /\ r.cancel = row[t].cancel /\ r.out = o
  BY ZenonT(40), <1>1 DEF Row
<1> HIDE DEF r
<1>4. row'[t] = r /\ OnlyRow(t)  BY <1>1, <1>2 DEF OnlyRow
<1> QED  BY <1>2, <1>3, <1>4 DEF o, ResolveEffect

(* What a verdict settles, and on which evidence.                          *)
LEMMA VerdictFacts ==
    ASSUME NEW s \in Row, s.status \in Active, NEW found
    PROVE  LET v == Verdict(s, found) IN
           /\ v.to \notin {"cancelled", "failed"} /\ v.out.journal = {}
           /\ v.to = "absorbed" =>
                 /\ v.from = {"absorbing"} /\ found = "yes"
                 /\ s.out.phase \in {"canonical_user_append", "user_append_uncertain"}
           /\ v.to = "completed" =>
                 /\ v.from = {"running"} /\ found = "yes"
                 /\ s.out.phase \in {"append_assistant", "model_response"}
           /\ v.to = "recoverable" => v.from = {s.status} \/ s.status # "running"
<1> DEFINE Good(v) ==
           /\ v.to \notin {"cancelled", "failed"} /\ v.out.journal = {}
           /\ v.to = "absorbed" =>
                 /\ v.from = {"absorbing"} /\ found = "yes"
                 /\ s.out.phase \in {"canonical_user_append", "user_append_uncertain"}
           /\ v.to = "completed" =>
                 /\ v.from = {"running"} /\ found = "yes"
                 /\ s.out.phase \in {"append_assistant", "model_response"}
           /\ v.to = "recoverable" => v.from = {s.status} \/ s.status # "running"
<1>1. \A p, a : Out(p, a).journal = {}  BY DEF Out
<1>2. \A p, a : Good(Requeue({s.status}, Out(p, a)))
  BY <1>1 DEF Requeue
<1>3. Good(MarkStaleAmbiguous)  BY <1>1 DEF MarkStaleAmbiguous, Settle
<1>4. s.status = "absorbing" => Good(RecoverStaleAbsorbing)
  BY <1>2 DEF RecoverStaleAbsorbing
<1>5. ASSUME s.out.phase \in {"canonical_user_append", "user_append_uncertain"}
      PROVE  Good(AppendVerdict(s, found))
  <2>1. found = "yes" => Good(Settle({"absorbing"}, "absorbed"))
    BY <1>1, <1>5 DEF Settle
  <2> HIDE DEF Good
  <2>2. CASE found = "error"  BY <1>3, <2>2 DEF AppendVerdict
  <2>3. CASE found # "error" /\ s.status = "absorbing"
    BY <1>4, <2>1, <2>3 DEF AppendVerdict
  <2>4. CASE found # "error" /\ s.status # "absorbing"
    BY <1>2, <2>4 DEF AppendVerdict
  <2> QED  BY <2>2, <2>3, <2>4
<1>6. ASSUME s.status = "running" PROVE Good(RunningVerdict(s, found))
  <2>1. \/ RunningVerdict(s, found) = MarkStaleAmbiguous
        \/ /\ RunningVerdict(s, found) = Settle({"running"}, "completed")
           /\ found = "yes" /\ s.out.phase \in {"append_assistant", "model_response"}
        \/ RunningVerdict(s, found) = Requeue({"running"}, Out("user_appended", "none"))
        \/ RunningVerdict(s, found) =
              Requeue({"running"}, Out("recovered_model_boundary", s.out.append))
    BY DEF RunningVerdict, IntarisAppend
  <2>2. found = "yes" /\ s.out.phase \in {"append_assistant", "model_response"} =>
            Good(Settle({"running"}, "completed"))
    BY <1>1 DEF Settle
  <2> HIDE DEF Good
  <2> QED  BY <1>2, <1>3, <1>6, <2>1, <2>2
<1>7. s.status \in {"claimed", "running", "absorbing"}  BY StatusFacts
<1>8. Good(Verdict(s, found))
  <2> HIDE DEF Good
  <2> QED  BY <1>2, <1>3, <1>4, <1>5, <1>6, <1>7 DEF Verdict
<1> QED  BY <1>8

-----------------------------------------------------------------------------
(* The inductive invariant behind SettledIsCanonical.                      *)

Events == wire \cup history

(* The turn has been the head of its conversation, so it cannot be         *)
(* absorbed any more.                                                      *)
Begun(t) ==
    /\ row[t].status \notin {"absent", "absorbing", "absorbed"}
    /\ \A u \in 1 .. (t - 1) : row[u].status \in Terminal

RepliesBegun == \A e \in Events : e.kind # "absorbed" => Begun(e.turn)

(* Nothing is executed that has not begun; the answer of a turn that is    *)
(* about to complete is canonical; and so is what a recovery pass found.   *)
BegunAt(c) == At(c, ExecPc) => Begun(MyTurn(c))
AnsweredAt(c) == At(c, {"responded"}) => MyEvent(c, "final") \in history
FoundAt(c) ==
    At(c, {"decided"}) /\ proc[c].found = "yes" =>
        /\ snap[c].out.phase \in {"append_assistant", "model_response"} => Output(MyTurn(c)) # {}
        /\ snap[c].out.phase \in {"canonical_user_append", "user_append_uncertain"} =>
              Message(MyTurn(c)) # {}

HistInv ==
    /\ RepliesBegun
    /\ \A c \in Controller : BegunAt(c) /\ AnsweredAt(c) /\ FoundAt(c)
    /\ SettledIsCanonical

(* What a step may do.                                                     *)
SettlesTruly(t) ==
    /\ row'[t].status = "absorbed" =>
          row[t].status = "absorbed" \/ (row[t].status = "absorbing" /\ Message(t)' # {})
    /\ row'[t].status = "completed" => row[t].status = "completed" \/ Output(t)' # {}

Moves(c) ==
    /\ At(c, ExecPc)' => \/ At(c, ExecPc) /\ MyTurn(c)' = MyTurn(c)
                         \/ row'[MyTurn(c)'].status = "claimed"
    /\ AnsweredAt(c)'
    /\ FoundAt(c)'

HistStep ==
    /\ \A t \in Turn : SettlesTruly(t)
    /\ history \subseteq history'
    /\ \A e \in Events' :
          \/ e \in Events
          \/ e.kind = "absorbed"
          \/ \E c \in Controller : At(c, ExecPc) /\ e.turn = MyTurn(c)
    /\ \A c \in Controller : Moves(c) \/ (proc'[c] = proc[c] /\ snap'[c] = snap[c])

(* A begun turn stays begun.                                               *)
LEMMA BegunStays ==
    ASSUME IInv, IInv', RowStep, HistStep, NEW t \in Turn, Begun(t)
    PROVE  Begun(t)'
<1>1. \A u \in 1 .. (t - 1) : u \in Turn  BY TurnAssumption DEF Turn
<1>2. \A u \in Turn : row[u].status \in Terminal => row'[u] = row[u]
  BY RowsInv DEF IInv
<1>3. \A u \in 1 .. (t - 1) : row'[u].status \in Terminal
  BY <1>1, <1>2 DEF Begun
<1>4. Same(t) \/ Changes(t) \/ Retaken(t)
  BY DEF RowStep, OnlyRow, Same, Changes
<1>5. row'[t].status \notin {"absent", "absorbing"}
  BY <1>1, <1>4, StatusFacts
     DEF Begun, Same, Retaken, Changes, Ends, Drops, Enters, Starts, Runs, Joins
<1>6. row'[t].status # "absorbed"
  BY DEF HistStep, SettlesTruly, Begun
<1> QED  BY <1>3, <1>5, <1>6 DEF Begun

(* Such a step keeps the invariant.                                        *)
LEMMA HistCombine ==
    ASSUME IInv, IInv', RowStep, HistInv, HistStep
    PROVE  HistInv'
<1>1. \A c \in Controller : MyTurn(c) \in Turn /\ MyTurn(c)' \in Turn
  BY DEF IInv, TypeOK, Proc, MyTurn
<1>2. \A e \in Events \cup Events' : e.turn \in Turn
  BY DEF IInv, TypeOK, Event, Events
<1>3. \A t \in Turn : Begun(t) => Begun(t)'  BY BegunStays
<1>4. RepliesBegun'
  BY <1>1, <1>2, <1>3 DEF HistInv, HistStep, RepliesBegun, BegunAt
<1>5. \A t \in Turn : Output(t) \subseteq Output(t)' /\ Message(t) \subseteq Message(t)'
  BY DEF HistStep, Output, Message
<1>6. ASSUME NEW c \in Controller PROVE BegunAt(c)' /\ AnsweredAt(c)' /\ FoundAt(c)'
  <2>1. BegunAt(c) /\ AnsweredAt(c) /\ FoundAt(c)  BY DEF HistInv
  <2>2. CASE Moves(c)
    <3>1. \A t \in Turn : row'[t].status = "claimed" => Begun(t)'
      BY DEF IInv, HeadOnly, Begun
    <3>2. BegunAt(c)'
      BY <1>1, <1>3, <2>1, <2>2, <3>1 DEF Moves, BegunAt, Begun
    <3> QED  BY <2>2, <3>2 DEF Moves
  <2>3. CASE proc'[c] = proc[c] /\ snap'[c] = snap[c]
    <3>1. MyTurn(c)' = MyTurn(c) /\ (At(c, ExecPc)' <=> At(c, ExecPc))
      BY <2>3 DEF MyTurn, At
    <3>2. BegunAt(c)'
      BY <1>1, <1>3, <2>1, <3>1 DEF BegunAt, Begun
    <3>3. AnsweredAt(c)'
      BY ZenonT(40), <2>1, <2>3 DEF AnsweredAt, HistStep, MyEvent, MyTurn, At
    <3>4. FoundAt(c)'
      BY ZenonT(40), <1>1, <1>5, <2>1, <2>3 DEF FoundAt, MyTurn, At
    <3> QED  BY <3>2, <3>3, <3>4
  <2> QED  BY <2>2, <2>3 DEF HistStep
<1>7. SettledIsCanonical'
  <2>1. SUFFICES ASSUME NEW t \in Turn
                 PROVE  /\ row'[t].status = "completed" => Output(t)' # {}
                        /\ row'[t].status = "absorbed" => Message(t)' # {} /\ Output(t)' = {}
    BY DEF SettledIsCanonical, Output, Message
  <2>2. SettlesTruly(t) /\ Output(t) \subseteq Output(t)' /\ Message(t) \subseteq Message(t)'
    BY <1>5 DEF HistStep
  <2>3. row[t].status = "completed" => Output(t) # {}
    BY DEF HistInv, SettledIsCanonical
  <2>4. row[t].status = "absorbed" => Message(t) # {}
    BY DEF HistInv, SettledIsCanonical
  <2>5. row'[t].status = "absorbed" => Output(t)' = {}
    BY <1>4 DEF RepliesBegun, Begun, Events, Output
  <2> QED  BY <2>2, <2>3, <2>4, <2>5 DEF SettlesTruly
<1> QED  BY <1>4, <1>6, <1>7 DEF HistInv

-----------------------------------------------------------------------------
(* CancelledWasRequested, when neither a renewal that raises nor a stop of *)
(* the process ends turns as cancelled.                                    *)

Requested == FaultKind \cap {"renewal", "stop"} = {}

CancelInv ==
    /\ CancelledWasRequested
    /\ \A c \in Controller : At(c, {"cancelling"}) => row[MyTurn(c)].cancel

CancelStep ==
    /\ \A t \in Turn : row[t].cancel => row'[t].cancel
    /\ \A t \in Turn : row'[t].status = "cancelled" => row[t].status = "cancelled" \/ row'[t].cancel
    /\ \A c \in Controller : At(c, {"cancelling"})' =>
          MyTurn(c)' = MyTurn(c) /\ (At(c, {"cancelling"}) \/ row[MyTurn(c)].cancel)

LEMMA CancelCombine ==
    ASSUME IInv, CancelInv, CancelStep
    PROVE  CancelInv'
<1>1. \A c \in Controller : MyTurn(c) \in Turn  BY DEF IInv, TypeOK, Proc, MyTurn
<1> QED  BY <1>1 DEF CancelInv, CancelStep, CancelledWasRequested

(* What the walk over the steps shows of each.                             *)
StepHist == HistStep /\ (Requested /\ CancelInv => CancelStep)

(* A controller goes on or leaves, and the rows keep their status or end   *)
(* in one that says nothing of the history.                                *)
LEMMA PlainHist ==
    ASSUME NEW c \in Controller, NEW l, Label(c, l), UNCHANGED <<snap, wire, history>>,
           l \notin {"responded", "decided"}, l \in ExecPc => At(c, ExecPc),
           \A t \in Turn : \/ row'[t].status = row[t].status
                           \/ row'[t].status \notin {"absorbed", "completed"}
    PROVE  HistStep
<1>1. \A t \in Turn : SettlesTruly(t)  BY DEF SettlesTruly
<1>2. Events' = Events  BY DEF Events
<1>3. Moves(c)
  BY ZenonT(40) DEF Moves, Label, SameTurn, At, MyTurn, AnsweredAt, FoundAt
<1>4. \A d \in Controller \ {c} : proc'[d] = proc[d] /\ snap'[d] = snap[d]
  BY DEF Label, MovesOnly
<1> QED  BY <1>1, <1>2, <1>3, <1>4 DEF HistStep

LEMMA PlainCancel ==
    ASSUME NEW c \in Controller, NEW l, Label(c, l),
           l = "cancelling" => At(c, {"cancelling"}) \/ row[MyTurn(c)].cancel,
           \A t \in Turn : row'[t].cancel = row[t].cancel,
           \A t \in Turn : row'[t].status = "cancelled" => row[t].status = "cancelled" \/ row[t].cancel
    PROVE  CancelStep
BY DEF CancelStep, Label, MovesOnly, SameTurn, At, MyTurn

LEMMA CheckpointHist ==
    ASSUME TypeOK, NEW c \in Controller, NEW p, NEW a, NEW l, Checkpoint(c, p, a, l),
           At(c, ExecPc), l \notin {"responded", "decided", "cancelling"},
           UNCHANGED <<snap, wire, history>>
    PROVE  StepHist
<1> DEFINE m == IF row[MyTurn(c)].cancel THEN "cancelling" ELSE l
<1>1. OutSet(MyTurn(c), Checkpointed(row[MyTurn(c)].out, p, a)) /\ Label(c, m)
  BY ZenonT(40), CheckpointFlat DEF CheckpointEffect
<1>2. \A t \in Turn : row'[t].status = row[t].status /\ row'[t].cancel = row[t].cancel
  BY ZenonT(40), <1>1 DEF OutSet, OnlyRow
<1>3. m \notin {"responded", "decided"} /\ (m = "cancelling" => row[MyTurn(c)].cancel)
  OBVIOUS
<1> HIDE DEF m
<1> QED  BY ZenonT(40), <1>1, <1>2, <1>3, PlainHist, PlainCancel DEF StepHist

LEMMA EndHist ==
    ASSUME TypeOK, NEW c \in Controller, NEW s, NEW o, NEW l \in Done, EndAt(c, s, o, l),
           s \notin {"absorbed", "completed"},
           Requested /\ CancelInv /\ s = "cancelled" => row[MyTurn(c)].cancel,
           UNCHANGED <<snap, wire, history>>
    PROVE  StepHist
<1>1. RowSet(MyTurn(c), s, o) /\ Label(c, l)  BY EndFlat
<1>2. \A t \in Turn : row'[t].cancel = row[t].cancel  BY <1>1 DEF RowSet, OnlyRow
<1>3. l \notin {"responded", "decided", "cancelling"} /\ l \notin ExecPc
  BY PcFacts DEF Done
<1>4. \A t \in Turn : row'[t].status = row[t].status \/ (t = MyTurn(c) /\ row'[t].status = s)
  BY <1>1 DEF RowSet, OnlyRow
<1>5. HistStep  BY <1>1, <1>3, <1>4, PlainHist
<1>6. Requested /\ CancelInv => CancelStep  BY <1>1, <1>2, <1>3, <1>4, PlainCancel
<1> QED  BY <1>5, <1>6 DEF StepHist

LEMMA GotoHist ==
    ASSUME TypeOK, NEW c \in Controller, NEW l, Goto(c, l), UNCHANGED <<row, snap, wire, history>>,
           l \notin {"responded", "decided"}, l \in ExecPc => At(c, ExecPc),
           l = "cancelling" => row[MyTurn(c)].cancel
    PROVE  StepHist
BY GotoFlat, PlainHist, PlainCancel DEF StepHist

(* A request is sent to the history.                                       *)
LEMMA SendHist ==
    ASSUME TypeOK, NEW c \in Controller, NEW events, NEW l, SendAppend(c, events, l),
           l \notin {"responded", "decided", "cancelling"}, At(c, ExecPc),
           \A e \in events : e.kind = "absorbed" \/ e.turn = MyTurn(c)
    PROVE  StepHist
<1>1. /\ Label(c, l) /\ row' = row /\ snap' = snap /\ history' = history
      /\ wire' = wire \cup (events \ history)
  BY GotoFlat DEF SendAppend
<1>2. \A t \in Turn : SettlesTruly(t)  BY <1>1 DEF SettlesTruly
<1>3. \A d \in Controller \ {c} : proc'[d] = proc[d]  BY <1>1 DEF Label, MovesOnly
<1>4. Moves(c)  BY ZenonT(40), <1>1 DEF Moves, Label, SameTurn, At, MyTurn, AnsweredAt, FoundAt
<1>5. \A e \in Events' : e \in Events \/ e \in events  BY <1>1 DEF Events
<1>6. HistStep  BY ZenonT(40), <1>1, <1>2, <1>3, <1>4, <1>5 DEF HistStep
<1> QED  BY <1>1, <1>6, PlainCancel DEF StepHist

-----------------------------------------------------------------------------
(* Every step of a controller that executes a turn.                        *)

LEMMA StartingHist ==
    ASSUME IInv, HistInv, NEW c \in Controller, Starting(c)
    PROVE  StepHist
<1> DEFINE t == MyTurn(c)
<1>1. TypeOK /\ t \in Turn  BY ProcFacts DEF IInv
<1>2. "releasing" \in Done
      /\ {"start", "reconcile", "launch", "uncertain", "append", "appending", "appended",
          "running", "model", "cancelling"} \subseteq ExecPc
  BY DEF Done, ExecPc, RunPc, TaskPc, LoopPc, PreLaunchPc
<1>3. CASE FirstCheckpoint(c)
  <2> DEFINE l == IF row[t].cancel THEN "cancelling"
                  ELSE IF proc[c].app = "user_append_uncertain" THEN "reconcile" ELSE "launch"
             o == IF proc[c].app = "none" THEN Checkpointed(row[t].out, "claimed", "none")
                  ELSE [Checkpointed(row[t].out, row[t].out.phase, proc[c].app)
                           EXCEPT !.note = row[t].out.note]
  <2>1. Goto(c, l) /\ row' = [row EXCEPT ![t].out = o] /\ UNCHANGED <<snap, wire, history>>
        /\ At(c, ExecPc)
    BY <1>2, <1>3 DEF FirstCheckpoint, external, At
  <2>2. l \in {"cancelling", "reconcile", "launch"} /\ (l = "cancelling" => row[t].cancel)
    OBVIOUS
  <2> HIDE DEF l, o
  <2>3. OutSet(t, o) /\ Label(c, l)  BY ZenonT(40), <1>1, <2>1, OutFlat, GotoFlat
  <2>4. \A u \in Turn : row'[u].status = row[u].status /\ row'[u].cancel = row[u].cancel
    BY <2>3 DEF OutSet, OnlyRow
  <2> QED  BY <2>1, <2>2, <2>3, <2>4, PlainHist, PlainCancel DEF StepHist
<1>4. CASE ReconcileOwnAppend(c)
  <2> DEFINE p == IF Reconciled(t, "user_append_uncertain")
                  THEN "user_appended" ELSE "user_append_pending"
             o == Checkpointed(row[t].out, p, p)
  <2>1. /\ proc' = [proc EXCEPT ![c] = [proc[c] EXCEPT !.app = p, !.pc = "launch"]]
        /\ row' = [row EXCEPT ![t].out = o]
    BY <1>4 DEF ReconcileOwnAppend
  <2>2. UNCHANGED <<snap, wire, history>> /\ At(c, ExecPc)
    BY <1>2, <1>4 DEF ReconcileOwnAppend, external, At
  <2> HIDE DEF p, o
  <2>3. Label(c, "launch")  BY ZenonT(40), <1>1, <2>1, AppFlat DEF AppEffect
  <2>4. OutSet(t, o)  BY ZenonT(40), <1>1, <2>1, OutFlat
  <2>5. \A u \in Turn : row'[u].status = row[u].status /\ row'[u].cancel = row[u].cancel
    BY <2>4 DEF OutSet, OnlyRow
  <2> QED  BY <2>2, <2>3, <2>5, PlainHist, PlainCancel DEF StepHist
<1>5. CASE PayloadError(c)
  BY <1>1, <1>2, <1>5, EndHist DEF PayloadError, MarkTerminal, End, external
<1>6. CASE ReconcileOwnAppendFails(c)
  BY <1>1, <1>2, <1>6, EndHist DEF ReconcileOwnAppendFails, End, external
<1>7. CASE LocalBusy(c)
  BY <1>1, <1>2, <1>7, EndHist DEF LocalBusy, End, external
<1>8. CASE Launch(c)
  <2>1. CASE Resumes(c)
    <3>1. Label(c, "model")  BY ZenonT(40), <1>1, <1>8, <2>1, AppFlat DEF Launch, AppEffect
    <3>2. UNCHANGED <<row, snap, wire, history>> /\ At(c, ExecPc)
      BY <1>2, <1>8, <2>1 DEF Launch, external, At
    <3> QED  BY <3>1, <3>2, PlainHist, PlainCancel DEF StepHist
  <2>2. CASE ~Resumes(c)
    BY <1>1, <1>2, <1>8, <2>2, CheckpointHist DEF Launch, At, external
  <2> QED  BY <2>1, <2>2
<1>9. CASE BeginUserAppend(c)
  BY <1>1, <1>2, <1>9, CheckpointHist DEF BeginUserAppend, At, external
<1>10. CASE SendUserAppend(c)
  BY <1>1, <1>2, <1>10, SendHist DEF SendUserAppend, OwnEvent, At
<1>11. CASE UserAppended(c)
  BY <1>1, <1>2, <1>11, CheckpointHist DEF UserAppended, At, external
<1>12. CASE MarkRunning(c)
  <2>1. UNCHANGED <<snap, wire, history>> /\ At(c, ExecPc)
    BY <1>2, <1>12 DEF MarkRunning, At, external
  <2>2. Label(c, "running") /\ RowSet(t, "running", row[t].out)
    BY ZenonT(40), <1>1, <1>12, MarkRunningFlat DEF MarkRunningEffect
  <2>3. \A u \in Turn : /\ row'[u].cancel = row[u].cancel
                        /\ row'[u].status = row[u].status \/ row'[u].status = "running"
    BY <2>2 DEF RowSet, OnlyRow
  <2> QED  BY ZenonT(40), <2>1, <2>2, <2>3, PlainHist, PlainCancel DEF StepHist
<1>13. CASE ModelWait(c)
  BY <1>1, <1>2, <1>13, CheckpointHist DEF ModelWait, At, external
<1> QED
  BY <1>3, <1>4, <1>5, <1>6, <1>7, <1>8, <1>9, <1>10, <1>11, <1>12, <1>13 DEF Starting

LEMMA EndingHist ==
    ASSUME IInv, HistInv, NEW c \in Controller, Ending(c)
    PROVE  StepHist
<1> DEFINE t == MyTurn(c)
<1>1. TypeOK /\ t \in Turn  BY ProcFacts DEF IInv
<1>2. {"releasing", "draining"} = Done /\ LoopPc \cup {"flushing"} \subseteq ExecPc
      /\ "releasing" \notin ExecPc
  BY PcFacts DEF Done, ExecPc, RunPc
<1>3. CASE StepFails(c)
  <2>1. At(c, ExecPc)  BY <1>2, <1>3 DEF StepFails, At
  <2> QED  BY <1>1, <1>3, <2>1, CheckpointHist DEF StepFails, external
<1>4. ASSUME NEW done \in BOOLEAN, Flush(c, done) PROVE StepHist
  BY <1>1, <1>2, <1>4, CheckpointHist DEF Flush, At
<1>5. FailedOrCancelled(c) \in {"failed", "cancelled"}
      /\ (FailedOrCancelled(c) = "cancelled" => row[t].cancel)
  BY DEF FailedOrCancelled
<1>6. CASE SettleFailed(c)
  BY <1>1, <1>2, <1>5, <1>6, EndHist DEF SettleFailed, MarkTerminal, End, external
<1>7. ASSUME NEW unavailable \in BOOLEAN, SettleTransient(c, unavailable) PROVE StepHist
  BY <1>1, <1>2, <1>5, <1>7, EndHist DEF SettleTransient, MarkTerminal, End, external
<1>8. CASE ControllerError(c)
  BY <1>1, <1>2, <1>8, EndHist DEF ControllerError, MarkTerminal, End, external
<1>9. CASE RenewalError(c)
  <2>1. ~Requested  BY <1>9 DEF RenewalError, Fault, Requested
  <2> QED
    BY <1>1, <1>2, <1>9, <2>1, EndHist, GotoHist DEF RenewalError, MarkTerminal, End, external
<1>10. CASE WatchCancellation(c)
  <2>1. At(c, ExecPc) /\ row[t].cancel  BY ZenonT(40), <1>10 DEF WatchCancellation, ExecPc, At
  <2> QED  BY <1>1, <1>10, <2>1, GotoHist DEF WatchCancellation, external
<1>11. CASE SettleCancelled(c)
  <2>1. CancelInv => row[t].cancel  BY <1>11 DEF SettleCancelled, CancelInv
  <2> QED  BY <1>1, <1>2, <1>11, <2>1, EndHist DEF SettleCancelled, MarkTerminal, End, external
<1>12. CASE StaleExit(c)
  BY <1>1, <1>2, <1>12, GotoHist DEF StaleExit, external
<1>13. CASE Drain(c)
  BY <1>1, <1>2, <1>13, EndHist DEF Drain, external
<1>14. CASE Stop(c)
  <2>1. ~Requested  BY <1>14 DEF Stop, Fault, Requested
  <2> QED  BY <1>1, <1>2, <1>14, <2>1, EndHist DEF Stop, external
<1> QED
  BY <1>3, <1>4, <1>6, <1>7, <1>8, <1>9, <1>10, <1>11, <1>12, <1>13, <1>14 DEF Ending

LEMMA RunningHist ==
    ASSUME IInv, HistInv, NEW c \in Controller, Running(c)
    PROVE  StepHist
<1> DEFINE t == MyTurn(c)
<1>1. TypeOK /\ t \in Turn /\ row[t] \in Row /\ proc \in [Controller -> Proc]
      /\ row \in [Turn -> Row]
  BY ZenonT(40), ProcFacts DEF IInv, TypeOK
<1>2. "releasing" \in Done /\ "releasing" \notin ExecPc
      /\ {"model", "calling", "recorded", "bound", "waiting", "resulted", "interim",
          "interimwait", "answer", "answerwait", "responded", "absorbing", "absorbsend",
          "absorbwait", "absorbnext", "cancelling"} \subseteq ExecPc
  BY PcFacts DEF Done, ExecPc, RunPc, TaskPc, LoopPc
(* The outcome of the turn and the calls are replaced.                     *)
<1>3. ASSUME NEW o, NEW k, NEW l \in {"calling", "model", "recorded"},
             At(c, {"model", "calling", "resulted"}),
             row' = [row EXCEPT ![t].out = o],
             proc' = [proc EXCEPT ![c] = [proc[c] EXCEPT
                          !.calls = k, !.pc = IF row[t].cancel THEN "cancelling" ELSE l]],
             UNCHANGED <<snap, wire, history>>
      PROVE  StepHist
  <2> DEFINE b == IF row[t].cancel THEN "cancelling" ELSE l
  <2>1. b \notin {"responded", "decided"} /\ (b = "cancelling" => row[t].cancel)  BY <1>3
  <2>2. Label(c, b)  BY ZenonT(40), <1>1, <1>3, CallsFlat DEF CallsEffect
  <2> HIDE DEF b
  <2>3. OutSet(t, o)  BY ZenonT(40), <1>1, <1>3, OutFlat
  <2>4. \A u \in Turn : row'[u].status = row[u].status /\ row'[u].cancel = row[u].cancel
    BY ZenonT(40), <2>3 DEF OutSet, OnlyRow
  <2>5. At(c, ExecPc)  BY <1>2, <1>3 DEF At
  <2> QED  BY <1>3, <2>1, <2>2, <2>4, <2>5, PlainHist, PlainCancel DEF StepHist
<1>4. ASSUME NEW k \in Call, CallTool(c, k) PROVE StepHist
  BY ZenonT(40), <1>3, <1>4 DEF CallTool, At
<1>5. CASE CompleteToolDispatch(c)
  BY ZenonT(40), <1>3, <1>5 DEF CompleteToolDispatch, At, external
<1>6. CASE RecordToolDispatch(c)
  <2> DEFINE l == IF row[t].cancel THEN "cancelling" ELSE "recorded"
             o == [Out("tool_in_flight", proc[c].app) EXCEPT !.journal = proc[c].calls]
  <2>1. /\ Goto(c, l) /\ row' = [row EXCEPT ![t].out = o] /\ UNCHANGED <<snap, wire, history>>
        /\ At(c, ExecPc)
    BY <1>2, <1>6 DEF RecordToolDispatch, At, external
  <2>2. l \notin {"responded", "decided"} /\ (l = "cancelling" => row[t].cancel)  OBVIOUS
  <2> HIDE DEF l, o
  <2>3. OutSet(t, o) /\ Label(c, l)  BY ZenonT(40), <1>1, <2>1, OutFlat, GotoFlat
  <2>4. \A u \in Turn : row'[u].status = row[u].status /\ row'[u].cancel = row[u].cancel
    BY <2>3 DEF OutSet, OnlyRow
  <2> QED  BY <2>1, <2>2, <2>3, <2>4, PlainHist, PlainCancel DEF StepHist
<1>7. CASE BindToolDispatch(c)
  BY ZenonT(40), <1>1, <1>2, <1>7, GotoHist DEF BindToolDispatch, At, external
<1>8. CASE SendTool(c)
  BY ZenonT(40), <1>1, <1>2, <1>8, GotoHist DEF SendTool, At
<1>9. CASE ToolReturns(c)
  BY ZenonT(40), <1>1, <1>2, <1>9, GotoHist DEF ToolReturns, At
<1>10. ASSUME NEW l \in {"interim", "answer"}, BeginAssistant(c, l) PROVE StepHist
  BY <1>1, <1>2, <1>10, CheckpointHist DEF BeginAssistant, At, external
<1>11. CASE SendInterim(c)
  BY <1>1, <1>2, <1>11, SendHist DEF SendInterim, MyEvent, At
<1>12. CASE InterimAppended(c)
  BY <1>1, <1>2, <1>12, GotoHist DEF InterimAppended, At, external
<1>13. CASE SendAnswer(c)
  BY <1>1, <1>2, <1>13, SendHist DEF SendAnswer, MyEvent, At
<1>14. CASE ModelResponse(c)
  <2> DEFINE l == IF row[t].cancel THEN "cancelling" ELSE "responded"
             o == Checkpointed(row[t].out, "model_response", proc[c].app)
  <2>1. OutSet(t, o) /\ Label(c, l)
    BY ZenonT(40), <1>1, <1>14, CheckpointFlat DEF ModelResponse, CheckpointEffect
  <2>2. /\ MyEvent(c, "final") \in history /\ At(c, ExecPc) /\ UNCHANGED <<snap, wire, history>>
    BY <1>2, <1>14 DEF ModelResponse, At, external
  <2>3. \A u \in Turn : row'[u].status = row[u].status /\ row'[u].cancel = row[u].cancel
    BY ZenonT(40), <2>1 DEF OutSet, OnlyRow
  <2>4. l # "decided" /\ (l = "cancelling" => row[t].cancel)  OBVIOUS
  <2> HIDE DEF l, o
  <2>5. MyEvent(c, "final")' = MyEvent(c, "final") /\ MyTurn(c)' = MyTurn(c)
    BY ZenonT(40), <2>1 DEF Label, SameTurn, MyEvent, MyTurn
  <2>6. Moves(c)
    BY ZenonT(40), <2>1, <2>2, <2>4, <2>5 DEF Moves, AnsweredAt, FoundAt, Label, At
  <2>7. \A u \in Turn : SettlesTruly(u)  BY <2>3 DEF SettlesTruly
  <2>8. HistStep  BY ZenonT(40), <2>1, <2>2, <2>6, <2>7 DEF HistStep, Events, Label, MovesOnly
  <2> QED  BY <2>1, <2>3, <2>4, <2>8, PlainCancel DEF StepHist
(* A turn completes: its answer is canonical.                              *)
<1>15. ASSUME At(c, {"responded"}), row'[t].status = "completed", Label(c, "releasing"),
              \A u \in Turn \ {t} : row'[u].status = row[u].status \/ row'[u].status = "queued",
              \A u \in Turn : row'[u].cancel = row[u].cancel, UNCHANGED <<snap, wire, history>>
       PROVE  StepHist
  <2>1. MyEvent(c, "final") \in history  BY ZenonT(40), <1>15 DEF HistInv, AnsweredAt
  <2>2. Output(t)' # {}  BY <1>15, <2>1 DEF Output, MyEvent, Label, SameTurn, MyTurn
  <2>3. \A u \in Turn : SettlesTruly(u)
    <3>1. \A u \in Turn \ {t} : SettlesTruly(u)  BY ZenonT(40), <1>15 DEF SettlesTruly
    <3>2. SettlesTruly(t)  BY ZenonT(40), <1>15, <2>2 DEF SettlesTruly
    <3> QED  BY <3>1, <3>2
  <2>4. Moves(c)  BY ZenonT(40), <1>2, <1>15 DEF Moves, AnsweredAt, FoundAt, Label, At
  <2>5. HistStep  BY ZenonT(40), <1>15, <2>3, <2>4 DEF HistStep, Events, Label, MovesOnly
  <2> QED  BY <1>15, <2>5, PlainCancel DEF StepHist
<1>16. CASE Complete(c)
  <2>1. RowSet(t, "completed", Out("terminal", "none")) /\ Label(c, "releasing")
        /\ At(c, {"responded"}) /\ UNCHANGED <<snap, wire, history>>
    BY <1>1, <1>16, EndFlat DEF Complete, MarkTerminal, End, external
  <2> QED  BY ZenonT(40), <1>15, <2>1 DEF RowSet, OnlyRow
<1>17. ASSUME NEW n \in Turn, Handoff(c, n) PROVE StepHist
  <2>1. At(c, {"responded"}) /\ UNCHANGED <<snap, wire, history>>
    BY <1>17 DEF Handoff, external
  <2>2. /\ row'[t].status = "completed" /\ row'[n].status = "queued"
        /\ \A u \in Turn \ {t, n} : row'[u] = row[u]
        /\ \A u \in Turn : row'[u].cancel = row[u].cancel
        /\ Label(c, "releasing")
    BY ZenonT(40), <1>1, <1>17, HandoffFlat DEF HandoffEffect
  <2> QED  BY ZenonT(40), <1>15, <2>1, <2>2
<1>18. ASSUME NEW u \in Turn, BeginAbsorb(c, u) PROVE StepHist
  <2>1. /\ OnlyRow(u) /\ row'[u].status = "absorbing" /\ row'[u].cancel = row[u].cancel
        /\ MovesOnly(c) /\ proc'[c].pc = "absorbing" /\ proc'[c].turn = proc[c].turn
    BY ZenonT(40), <1>1, <1>18, BeginAbsorbFlat DEF BeginAbsorbEffect
  <2>2. At(c, ExecPc) /\ UNCHANGED <<snap, wire, history>>
    BY <1>2, <1>18 DEF BeginAbsorb, At, external
  <2>3. \A v \in Turn : SettlesTruly(v)  BY <2>1 DEF SettlesTruly, OnlyRow
  <2>4. Moves(c)  BY ZenonT(40), <2>1, <2>2 DEF Moves, AnsweredAt, FoundAt, At, MyTurn
  <2>5. HistStep  BY ZenonT(40), <2>1, <2>2, <2>3, <2>4 DEF HistStep, Events, MovesOnly
  <2>6. CancelStep  BY ZenonT(40), <2>1 DEF CancelStep, OnlyRow, MovesOnly, At, MyTurn
  <2> QED  BY <2>5, <2>6 DEF StepHist
<1>19. ASSUME NEW u \in Turn, AbsorbAppend(c, u) PROVE StepHist
  BY <1>1, <1>2, <1>19, CheckpointHist DEF AbsorbAppend, At, external
<1>20. ASSUME NEW u \in Turn, SendAbsorbed(c, u) PROVE StepHist
  BY <1>1, <1>2, <1>20, SendHist DEF SendAbsorbed, AbsorbedEvent, At
<1>21. ASSUME NEW u \in Turn, MarkAbsorbed(c, u) PROVE StepHist
  <2>1. /\ row[u].status = "absorbing" /\ RowSet(u, "absorbed", Out("terminal", "none"))
        /\ MovesOnly(c) /\ proc'[c].turn = proc[c].turn
        /\ proc'[c].pc \in {"model", "absorbnext"}
    BY ZenonT(40), <1>1, <1>21, MarkAbsorbedFlat DEF MarkAbsorbedEffect
  <2>2. /\ At(c, ExecPc) /\ UNCHANGED <<snap, wire, history>>
        /\ AbsorbedEvent(c, u) \in history
    BY <1>2, <1>21 DEF MarkAbsorbed, At, external
  <2>3. Message(u)' # {}  BY <2>2 DEF Message, AbsorbedEvent
  <2>4. \A v \in Turn : SettlesTruly(v)
    <3>1. \A v \in Turn \ {u} : SettlesTruly(v)  BY ZenonT(40), <2>1 DEF SettlesTruly, RowSet, OnlyRow
    <3>2. SettlesTruly(u)  BY ZenonT(40), <2>1, <2>3 DEF SettlesTruly, RowSet
    <3> QED  BY <3>1, <3>2
  <2>5. Moves(c)  BY ZenonT(40), <2>1, <2>2 DEF Moves, AnsweredAt, FoundAt, At, MyTurn
  <2>6. HistStep  BY ZenonT(40), <2>1, <2>2, <2>4, <2>5 DEF HistStep, Events, MovesOnly
  <2>7. CancelStep  BY <2>1 DEF CancelStep, RowSet, OnlyRow, MovesOnly, At, MyTurn
  <2> QED  BY <2>6, <2>7 DEF StepHist
<1> QED
  BY <1>4, <1>5, <1>6, <1>7, <1>8, <1>9, <1>10, <1>11, <1>12, <1>13, <1>14, <1>16, <1>17, <1>18,
     <1>19, <1>20, <1>21 DEF Running

-----------------------------------------------------------------------------
(* Recovery, claiming, the requests and the environment.                   *)

(* A controller moves on to where it executes nothing.                     *)
LEMMA CalmHist ==
    ASSUME NEW c \in Controller, MovesOnly(c), UNCHANGED <<wire, history>>,
           \A d \in Controller \ {c} : snap'[d] = snap[d],
           proc'[c].pc \notin ExecPc \cup {"decided"},
           \A t \in Turn : SettlesTruly(t) /\ row'[t].cancel = row[t].cancel,
           \A t \in Turn : row'[t].status = "cancelled" => row[t].status = "cancelled" \/ row[t].cancel
    PROVE  StepHist
<1>1. "responded" \in ExecPc /\ "cancelling" \in ExecPc  BY DEF ExecPc, RunPc, TaskPc
<1>2. Moves(c)  BY ZenonT(40), <1>1 DEF Moves, AnsweredAt, FoundAt, At
<1>3. HistStep  BY ZenonT(40), <1>2 DEF HistStep, Events, MovesOnly
<1>4. CancelStep  BY <1>1 DEF CancelStep, MovesOnly, At, MyTurn
<1> QED  BY <1>3, <1>4 DEF StepHist

(* A row is settled on what the history says, or on request.               *)
LEMMA RowSettles ==
    ASSUME NEW t \in Turn, OnlyRow(t), row'[t].cancel = row[t].cancel, SettlesTruly(t),
           row'[t].status = "cancelled" => row[t].cancel
    PROVE  /\ \A u \in Turn : SettlesTruly(u) /\ row'[u].cancel = row[u].cancel
           /\ \A u \in Turn : row'[u].status = "cancelled" => row[u].status = "cancelled" \/ row[u].cancel
BY ZenonT(40) DEF OnlyRow, SettlesTruly

LEMMA RowsSettle ==
    ASSUME row' = row
    PROVE  /\ \A u \in Turn : SettlesTruly(u) /\ row'[u].cancel = row[u].cancel
           /\ \A u \in Turn : row'[u].status = "cancelled" => row[u].status = "cancelled" \/ row[u].cancel
BY DEF SettlesTruly

(* What a recovery pass read is what the verdict is based on.              *)
LEMMA JudgeHist ==
    ASSUME TypeOK, NEW c \in Controller, NEW f, Judge(c, f),
           f = "yes" => f \in Findings(MyTurn(c), snap[c].out.phase)
    PROVE  StepHist
<1> DEFINE t == MyTurn(c)
           p == snap[c].out.phase
<1>1. Label(c, "decided") /\ proc'[c].found = f  BY JudgeFlat DEF JudgeEffect
<1>2. UNCHANGED <<row, snap, wire, history>>  BY DEF Judge, external
<1>3. f = "yes" /\ p \in {"append_assistant", "model_response", "canonical_user_append",
                          "user_append_uncertain"} => Reconciled(t, p)
  BY DEF Findings, NeedsReading
<1>4. f = "yes" /\ p \in {"append_assistant", "model_response"} => Output(t) # {}
  BY <1>3 DEF Reconciled, Output
<1>5. f = "yes" /\ p \in {"canonical_user_append", "user_append_uncertain"} => Message(t) # {}
  BY <1>3 DEF Reconciled, Message
<1>6. MyTurn(c)' = MyTurn(c)  BY <1>1 DEF Label, SameTurn, MyTurn
<1>7. FoundAt(c)'
  <2>1. \A u : Output(u)' = Output(u) /\ Message(u)' = Message(u)
    BY <1>2 DEF Output, Message
  <2> QED  BY ZenonT(40), <1>1, <1>2, <1>4, <1>5, <1>6, <2>1 DEF FoundAt
<1>8. "decided" \notin ExecPc /\ "decided" # "cancelling"  BY PcFacts
<1>9. Moves(c)  BY ZenonT(40), <1>1, <1>7, <1>8 DEF Moves, AnsweredAt, Label, At
<1>10. HistStep  BY ZenonT(40), <1>1, <1>2, <1>9, RowsSettle DEF HistStep, Events, Label, MovesOnly
<1> QED  BY <1>1, <1>2, <1>10, PlainCancel DEF StepHist

LEMMA RecoveryHist ==
    ASSUME IInv, HistInv, NEW c \in Controller, Recovery(c)
    PROVE  StepHist
<1> DEFINE t == MyTurn(c)
<1>1. TypeOK /\ t \in Turn  BY ProcFacts DEF IInv
<1>2. {"idle", "recovering", "releasing", "held", "tools", "cleared"} \cap (ExecPc \cup {"decided"}) = {}
  BY DEF ExecPc, RunPc, TaskPc, LoopPc, PreLaunchPc
<1>3. CASE ListStale(c)
  BY ZenonT(40), <1>1, <1>2, <1>3, ListStaleFlat, RowsSettle, CalmHist DEF Label, external, ListStaleEffect
<1>4. CASE AcquireForRecovery(c)
  BY ZenonT(60), <1>1, <1>2, <1>4, AcquireForRecoveryFlat, RowsSettle, CalmHist DEF external, AcquireForRecoveryEffect
<1>5. CASE SkipStale(c)
  <2>1. /\ MovesOnly(c) /\ UNCHANGED <<row, snap, wire, history>>
        /\ proc'[c].pc \in {"idle", "recovering"}
    BY ZenonT(40), <1>1, <1>5, SkipStaleFlat DEF Label, external, SkipStaleEffect
  <2> QED  BY ZenonT(40), <1>2, <2>1, RowsSettle, CalmHist
<1>6. CASE CancelStaleActive(c)
  <2>1. /\ Label(c, "releasing") /\ UNCHANGED <<snap, wire, history>>
        /\ row' = row \/ (RowSet(t, "cancelled", Out("terminal", "none")) /\ row[t].cancel)
    BY ZenonT(40), <1>1, <1>6, CancelStaleFlat DEF CancelStaleActive, external, CancelStaleEffect
  <2>2. ASSUME RowSet(t, "cancelled", Out("terminal", "none")), row[t].cancel
        PROVE  /\ \A u \in Turn : SettlesTruly(u) /\ row'[u].cancel = row[u].cancel
               /\ \A u \in Turn : row'[u].status = "cancelled" =>
                     row[u].status = "cancelled" \/ row[u].cancel
    <3>1. SettlesTruly(t)  BY ZenonT(40), <2>2 DEF SettlesTruly, RowSet
    <3> QED  BY ZenonT(40), <1>1, <2>2, <3>1, RowSettles DEF RowSet
  <2> QED  BY ZenonT(40), <1>2, <2>1, <2>2, RowsSettle, CalmHist DEF Label
<1>7. CASE BeginToolRecovery(c)
  <2>1. /\ MovesOnly(c) /\ proc'[c].pc \in {"tools", "releasing"}
        /\ \A u \in Turn : row'[u].status = row[u].status /\ row'[u].cancel = row[u].cancel
    BY ZenonT(40), <1>1, <1>7, BeginToolRecoveryFlat DEF OnlyRow, BeginToolRecoveryEffect
  <2>2. UNCHANGED <<snap, wire, history>>  BY <1>7 DEF BeginToolRecovery, external
  <2>3. \A u \in Turn : SettlesTruly(u)  BY ZenonT(40), <2>1 DEF SettlesTruly
  <2> QED  BY <1>2, <2>1, <2>2, <2>3, CalmHist
<1>8. ASSUME NEW k \in Call, SettleToolCall(c, k) PROVE StepHist
  <2>1. UNCHANGED <<row, proc, snap, wire, history>> /\ At(c, {"tools"})
    BY ZenonT(40), <1>8 DEF SettleToolCall
  <2> QED  BY ZenonT(40), <1>2, <2>1, RowsSettle, CalmHist DEF MovesOnly, At
<1>9. ASSUME NEW s \in {"failed", "ambiguous"}, ToolRecoveryFails(c, s) PROVE StepHist
  <2>1. RowSet(t, s, Out("terminal", "none")) /\ Label(c, "releasing")
        /\ UNCHANGED <<snap, wire, history>>
    BY ZenonT(40), <1>1, <1>9, ToolRecoveryFailsFlat DEF ToolRecoveryFails, external, ToolRecoveryFailsEffect
  <2>2. SettlesTruly(t)  BY ZenonT(40), <1>9, <2>1 DEF SettlesTruly, RowSet
  <2> QED  BY ZenonT(40), <1>1, <1>2, <1>9, <2>1, <2>2, RowSettles, CalmHist DEF RowSet, Label
<1>10. CASE ClearToolDispatch(c)
  <2>1. OutSet(t, row'[t].out) /\ Label(c, "cleared") /\ UNCHANGED <<snap, wire, history>>
    BY ZenonT(40), <1>1, <1>10, ClearToolDispatchFlat DEF ClearToolDispatch, external, ClearToolDispatchEffect
  <2>2. \A u \in Turn : row'[u].status = row[u].status /\ row'[u].cancel = row[u].cancel
    BY ZenonT(40), <2>1 DEF OutSet, OnlyRow
  <2>3. \A u \in Turn : SettlesTruly(u)  BY <2>2 DEF SettlesTruly
  <2> QED  BY ZenonT(40), <1>2, <2>1, <2>2, <2>3, CalmHist DEF Label
<1>11. CASE FinishToolRecovery(c)
  <2>1. /\ OnlyRow(t) /\ row'[t].cancel = row[t].cancel /\ Label(c, "releasing")
        /\ (row[t].cancel /\ row'[t].status = "cancelled") \/ row'[t].status = "recoverable"
        /\ UNCHANGED <<snap, wire, history>>
    BY ZenonT(40), <1>1, <1>11, FinishToolRecoveryFlat DEF FinishToolRecovery, external, FinishToolRecoveryEffect
  <2>2. SettlesTruly(t)  BY ZenonT(40), <2>1 DEF SettlesTruly
  <2> QED  BY ZenonT(40), <1>1, <1>2, <2>1, <2>2, RowSettles, CalmHist DEF Label
<1>12. CASE LeaveQuarantined(c)
  BY <1>1, <1>2, <1>12, GotoHist DEF LeaveQuarantined, external
<1>13. CASE Reconcile(c)
  BY <1>1, <1>13, JudgeHist DEF Reconcile
<1>14. CASE ReconcileFails(c)
  BY <1>1, <1>14, JudgeHist DEF ReconcileFails
<1>15. CASE RecoverStale(c)
  <2> DEFINE v == Verdict(snap[c], proc[c].found)
  <2>1. /\ At(c, {"decided"}) /\ Label(c, "releasing") /\ UNCHANGED <<snap, wire, history>>
        /\ row' = row \/ (row[t].status \in v.from /\ RowSet(t, v.to, v.out))
    BY ZenonT(40), <1>1, <1>15, RecoverStaleFlat DEF RecoverStale, external, RecoverStaleEffect
  <2>2. snap[c] \in Row /\ snap[c].status \in Active
    BY ZenonT(40), <1>1, <2>1, ProcFacts DEF IInv, Listed, ListedAt, At
  <2>3. /\ v.to # "cancelled"
        /\ v.to = "absorbed" =>
              /\ v.from = {"absorbing"} /\ proc[c].found = "yes"
              /\ snap[c].out.phase \in {"canonical_user_append", "user_append_uncertain"}
        /\ v.to = "completed" =>
              /\ proc[c].found = "yes"
              /\ snap[c].out.phase \in {"append_assistant", "model_response"}
    BY <2>2, VerdictFacts
  <2> HIDE DEF v
  <2>4. ASSUME row[t].status \in v.from, RowSet(t, v.to, v.out)
        PROVE  /\ \A u \in Turn : SettlesTruly(u) /\ row'[u].cancel = row[u].cancel
               /\ \A u \in Turn : row'[u].status = "cancelled" =>
                     row[u].status = "cancelled" \/ row[u].cancel
    <3>1. FoundAt(c)  BY DEF HistInv
    <3>2. v.to = "absorbed" => row[t].status = "absorbing" /\ Message(t) # {}
      BY ZenonT(40), <2>1, <2>3, <2>4, <3>1 DEF FoundAt
    <3>3. v.to = "completed" => Output(t) # {}
      BY ZenonT(40), <2>1, <2>3, <3>1 DEF FoundAt
    <3>4. \A u : (Message(u))' = Message(u) /\ (Output(u))' = Output(u)
      BY ZenonT(40), <2>1 DEF Message, Output
    <3>5. SettlesTruly(t)
      BY ZenonT(40), <2>1, <2>4, <3>2, <3>3, <3>4 DEF SettlesTruly, RowSet, Label, SameTurn, MyTurn
    <3> QED  BY ZenonT(40), <1>1, <2>3, <2>4, <3>5, RowSettles DEF RowSet
  <2> QED  BY ZenonT(40), <1>2, <2>1, <2>4, RowsSettle, CalmHist DEF Label
<1> QED
  BY <1>3, <1>4, <1>5, <1>6, <1>7, <1>8, <1>9, <1>10, <1>11, <1>12, <1>13, <1>14, <1>15
     DEF Recovery

LEMMA ClaimingHist ==
    ASSUME IInv, HistInv, NEW c \in Controller, Claiming(c)
    PROVE  StepHist
<1>1. TypeOK /\ MyTurn(c) \in Turn  BY ZenonT(40), ProcFacts DEF IInv
<1>2. {"acquired", "idle", "recovering", "down", "releasing"} \cap (ExecPc \cup {"decided"}) = {}
  BY DEF ExecPc, RunPc, TaskPc, LoopPc, PreLaunchPc
<1>3. ASSUME NEW t \in Turn, AcquireForClaim(c, t) PROVE StepHist
  <2>1. MovesOnly(c) /\ proc'[c].pc = "acquired"
    BY <1>1, <1>3, AcquireForClaimFlat DEF AcquireForClaimEffect
  <2>2. UNCHANGED <<row, snap, wire, history>>  BY <1>3 DEF AcquireForClaim, external
  <2> QED  BY <1>2, <2>1, <2>2, RowsSettle, CalmHist
<1>4. CASE Claim(c)
  <2> DEFINE t == MyTurn(c)
  <2>1. /\ MovesOnly(c) /\ SameTurn(c) /\ UNCHANGED <<snap, wire, history>>
        /\ \/ /\ OnlyRow(t) /\ row'[t].status = "claimed" /\ row'[t].cancel = row[t].cancel
              /\ proc'[c].pc = "start"
           \/ row' = row /\ proc'[c].pc = "releasing"
    BY ZenonT(40), <1>1, <1>4, ClaimFlat DEF Claim, external, ClaimEffect
  <2>2. CASE row' = row /\ proc'[c].pc = "releasing"
    BY ZenonT(40), <1>2, <2>1, <2>2, RowsSettle, CalmHist
  <2>3. CASE /\ OnlyRow(t) /\ row'[t].status = "claimed" /\ row'[t].cancel = row[t].cancel
             /\ proc'[c].pc = "start"
    <3>1. SettlesTruly(t)  BY ZenonT(40), <2>3 DEF SettlesTruly
    <3>2. /\ \A u \in Turn : SettlesTruly(u) /\ row'[u].cancel = row[u].cancel
          /\ \A u \in Turn : row'[u].status = "cancelled" =>
                row[u].status = "cancelled" \/ row[u].cancel
      BY ZenonT(40), <1>1, <2>3, <3>1, RowSettles
    <3>3. Moves(c)
      BY ZenonT(40), <2>1, <2>3 DEF Moves, AnsweredAt, FoundAt, At, MyTurn, SameTurn
    <3>4. HistStep  BY ZenonT(40), <2>1, <3>2, <3>3 DEF HistStep, Events, MovesOnly
    <3>5. Label(c, "start")  BY ZenonT(40), <2>1, <2>3 DEF Label
    <3> QED  BY ZenonT(40), <3>2, <3>4, <3>5, PlainCancel DEF StepHist
  <2> QED  BY ZenonT(40), <2>1, <2>2, <2>3
<1>5. CASE Release(c)
  <2>1. /\ UNCHANGED <<row, wire, history>> /\ MovesOnly(c)
        /\ \A d \in Controller \ {c} : snap'[d] = snap[d]
        /\ proc'[c].pc \in {"down", "recovering", "idle"}
    BY ZenonT(40), <1>1, <1>5, ReleaseFlat DEF external, ReleaseEffect
  <2> QED  BY ZenonT(40), <1>2, <2>1, RowsSettle, CalmHist
<1> QED  BY <1>3, <1>4, <1>5 DEF Claiming

(* A step outside the controllers.                                         *)
LEMMA OutsideHist ==
    ASSUME UNCHANGED <<proc, snap>>, \A t \in Turn : SettlesTruly(t),
           history \subseteq history', Events' \subseteq Events,
           \A t \in Turn : /\ row[t].cancel => row'[t].cancel
                           /\ row'[t].status = "cancelled" => row[t].status = "cancelled" \/ row'[t].cancel
    PROVE  StepHist
<1>1. HistStep  BY ZenonT(40) DEF HistStep
<1>2. CancelStep  BY DEF CancelStep, At, MyTurn
<1> QED  BY <1>1, <1>2 DEF StepHist

LEMMA RequestsHist ==
    ASSUME IInv, Requests
    PROVE  StepHist
<1>1. TypeOK /\ row \in [Turn -> Row]  BY DEF IInv, TypeOK
<1>2. ASSUME NEW t \in Turn, Admit(t) PROVE StepHist
  <2>1. row' = [row EXCEPT ![t].status = "queued"] /\ UNCHANGED <<proc, snap, wire, history>>
    BY <1>2 DEF Admit, external
  <2>2. \A u \in Turn : /\ row'[u].cancel = row[u].cancel
                        /\ row'[u].status \in {row[u].status, "queued"}
    BY <1>1, <2>1 DEF Row
  <2> QED  BY <2>1, <2>2, OutsideHist DEF SettlesTruly, Events
<1>3. ASSUME \A t \in Turn : row'[t] = row[t] \/ row'[t] = Cancelled(row[t]),
             UNCHANGED <<proc, snap, wire, history>>
      PROVE  StepHist
  <2>1. \A t \in Turn : /\ row[t].cancel => row'[t].cancel
                        /\ row'[t].status = row[t].status
                              \/ (row'[t].status = "cancelled" /\ row'[t].cancel)
    BY <1>1, <1>3, CancelledFlat DEF CancelledEffect
  <2> QED  BY ZenonT(40), <1>3, <2>1, OutsideHist DEF SettlesTruly, Events
<1>4. ASSUME NEW t \in Turn, RequestCancel(t) PROVE StepHist
  <2>1. \A u \in Turn : row'[u] = row[u] \/ row'[u] = Cancelled(row[u])
    BY <1>1, <1>4 DEF RequestCancel
  <2> QED  BY <1>3, <1>4, <2>1 DEF RequestCancel, external
<1>5. CASE CancelConversation
  BY <1>3, <1>5 DEF CancelConversation, external
<1>6. ASSUME NEW t \in Turn, ResolveStaleToolAmbiguous(t) PROVE StepHist
  <2>1. /\ OnlyRow(t) /\ row'[t].status = "ambiguous" /\ row'[t].cancel = row[t].cancel
        /\ UNCHANGED <<proc, snap, wire, history>>
    BY ZenonT(40), <1>1, <1>6, ResolveFlat DEF external, ResolveEffect
  <2>2. \A u \in Turn : row'[u].cancel = row[u].cancel
                        /\ row'[u].status \in {row[u].status, "ambiguous"}
    BY ZenonT(40), <2>1 DEF OnlyRow
  <2> QED  BY ZenonT(40), <2>1, <2>2, OutsideHist DEF SettlesTruly, Events
<1> QED  BY <1>2, <1>4, <1>5, <1>6 DEF Requests

LEMMA EnvironmentHist ==
    ASSUME IInv, Environment
    PROVE  StepHist
<1>1. TypeOK  BY DEF IInv
<1>2. {"idle", "down"} \cap (ExecPc \cup {"decided"}) = {}
  BY DEF ExecPc, RunPc, TaskPc, LoopPc, PreLaunchPc
<1>3. ASSUME NEW c \in Controller, Boot(c) PROVE StepHist
  BY <1>1, <1>2, <1>3, GotoHist DEF Boot, external
<1>4. ASSUME NEW c \in Controller, Crash(c) PROVE StepHist
  BY ZenonT(40), <1>1, <1>2, <1>4, CrashFlat, RowsSettle, CalmHist DEF external, CrashEffect
<1>5. CASE Expire
  BY <1>5, RowsSettle, OutsideHist DEF Expire, external, Events
<1>6. ASSUME NEW w \in wire, Land(w) \/ Drop(w) PROVE StepHist
  <2>1. UNCHANGED <<row, proc, snap>> /\ history \subseteq history' /\ Events' \subseteq Events
    BY <1>6 DEF Land, Drop, Events
  <2> QED  BY ZenonT(40), <2>1, RowsSettle, OutsideHist
<1> QED  BY <1>3, <1>4, <1>5, <1>6 DEF Environment

(* Every step keeps both invariants.                                       *)
LEMMA NextHist ==
    ASSUME IInv, HistInv, [Next]_vars
    PROVE  HistInv' /\ (Requested /\ CancelInv => CancelInv')
<1>1. IInv' /\ RowStep  BY NextInv
<1>2. CASE UNCHANGED vars
  BY ZenonT(40), <1>2 DEF vars, HistInv, RepliesBegun, Events, Begun, BegunAt, AnsweredAt, FoundAt, MyEvent,
              SettledIsCanonical, CancelInv, CancelledWasRequested, At, MyTurn, Output, Message
<1>3. CASE Next
  <2>1. StepHist
    BY <1>3, RecoveryHist, ClaimingHist, StartingHist, RunningHist, EndingHist, RequestsHist,
       EnvironmentHist DEF Next, Step
  <2> QED  BY <1>1, <2>1, HistCombine, CancelCombine DEF StepHist
<1> QED  BY <1>2, <1>3

LEMMA HistInvariance == Spec => []HistInv
<1>1. Init => HistInv
  <2> SUFFICES ASSUME Init PROVE HistInv  OBVIOUS
  <2>1. \A t \in Turn : row[t].status = "absent"  BY NoRowType DEF Init
  <2>2. \A c \in Controller : proc[c].pc = "off"  BY DEF Init, Idle
  <2>3. "off" \notin ExecPc  BY PcFacts
  <2>4. Events = {}  BY DEF Init, Events
  <2> QED
    BY ZenonT(40), <2>1, <2>2, <2>3, <2>4
       DEF HistInv, RepliesBegun, BegunAt, AnsweredAt, FoundAt, At, SettledIsCanonical
<1>2. IInv /\ HistInv /\ [Next]_vars => HistInv'  BY NextHist
<1> QED  BY <1>1, <1>2, Invariance, PTL DEF Spec

(* What a settled row says is in the canonical history, for any number of  *)
(* controllers, turns and faults: complete and handoff follow an answer    *)
(* that landed, reconcile_stale_completed and reconcile_stale_absorbed an  *)
(* event that was read, and mark_absorbed a message that landed.           *)
THEOREM SettledIsCanonicalHolds == Spec => []SettledIsCanonical
<1>1. HistInv => SettledIsCanonical  BY DEF HistInv
<1> QED  BY <1>1, HistInvariance, PTL

(* Unless a renewal raises or the process is stopped with a turn in hand,  *)
(* a row is marked cancelled only when its cancel flag was set: by the     *)
(* execution, by stale recovery, after tool recovery or at once.           *)
THEOREM CancelledWasRequestedHolds ==
    ASSUME Requested
    PROVE  Spec => []CancelledWasRequested
<1>1. Init => CancelInv
  <2> SUFFICES ASSUME Init PROVE CancelInv  OBVIOUS
  <2>1. \A t \in Turn : row[t].status = "absent"  BY NoRowType DEF Init
  <2>2. \A c \in Controller : proc[c].pc = "off"  BY DEF Init, Idle
  <2> QED  BY <2>1, <2>2 DEF CancelInv, CancelledWasRequested, At
<1>2. IInv /\ HistInv /\ CancelInv /\ [Next]_vars => CancelInv'  BY NextHist
<1>3. CancelInv => CancelledWasRequested  BY DEF CancelInv
<1> QED  BY <1>1, <1>2, <1>3, Invariance, HistInvariance, PTL DEF Spec

=============================================================================
