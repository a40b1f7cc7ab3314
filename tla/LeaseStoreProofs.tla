-------------------------- MODULE LeaseStoreProofs --------------------------
(***************************************************************************)
(* Proofs, for any set of resources and owners, of the safety properties   *)
(* of LeaseStore.                                                          *)
(***************************************************************************)
EXTENDS LeaseStore, TLAPS

(* The inductive invariant.  WrittenBounded is the strengthening that      *)
(* WritesInFenceOrder needs: no write carries a fence the row never had.   *)
WrittenBounded == \A r \in Resource : written[r] <= row[r].token

IInv == TypeOK /\ FenceUnique /\ WrittenBounded

(* A grant (acquire, takeover) keeps the invariant: its fence is new.      *)
LEMMA AdvanceIInv ==
    ASSUME IInv, NEW r \in Resource, NEW o \in Owner, NEW ttl \in 1 .. MaxTTL,
           Advance(r, o, ttl), UNCHANGED written,
           held' \in SUBSET (held \cup {LeaseOf(r, o, row[r].token + 1)})
    PROVE  IInv'
<1>1. row[r].token + 1 \in 1 .. MaxToken
  BY LeaseAssumption DEF IInv, TypeOK, Advance
<1>2. TypeOK'
  BY <1>1, LeaseAssumption DEF IInv, TypeOK, Advance, LeaseOf, Lease
<1>3. row'[r] = [owner |-> o, token |-> row[r].token + 1]
      /\ \A s \in Resource \ {r} : row'[s] = row[s]
  BY DEF IInv, TypeOK, Advance
<1>4. \A l \in held : l \in Lease
  BY DEF IInv, TypeOK
<1>5. FenceUnique'
  BY <1>1, <1>3, <1>4, LeaseAssumption DEF IInv, TypeOK, FenceUnique, LeaseOf, Lease
<1>6. WrittenBounded'
  BY <1>3, LeaseAssumption DEF IInv, TypeOK, WrittenBounded
<1> QED  BY <1>2, <1>5, <1>6 DEF IInv

(* The invariant holds initially and every step keeps it.                  *)
LEMMA IInvInductive ==
    /\ Init => IInv
    /\ IInv /\ [Next]_vars => IInv'
<1>1. Init => IInv
  BY LeaseAssumption DEF Init, IInv, TypeOK, FenceUnique, WrittenBounded
<1>2. ASSUME IInv, [Next]_vars PROVE IInv'
  <2>0. held \subseteq Lease  BY <1>2 DEF IInv, TypeOK
  <2>1. ASSUME NEW r \in Resource, NEW o \in Owner, NEW ttl \in 1 .. MaxTTL,
               Acquire(r, o, ttl) \/ AcquireUnanswered(r, o, ttl) \/ Takeover(r, o, ttl)
        PROVE  IInv'
    <3>1. Advance(r, o, ttl) /\ UNCHANGED written
          /\ held' \in SUBSET (held \cup {LeaseOf(r, o, row[r].token + 1)})
      BY <2>1 DEF Acquire, AcquireUnanswered, Takeover, Grant
    <3> QED  BY <3>1, <1>2, AdvanceIInv
  <2>2. ASSUME NEW l \in held, NEW ttl \in 1 .. MaxTTL, Renew(l, ttl) PROVE IInv'
    BY <1>2, <2>0, <2>2, LeaseAssumption
    DEF IInv, TypeOK, FenceUnique, WrittenBounded, Renew, Lease
  <2>3. ASSUME NEW l \in held, Release(l) PROVE IInv'
    BY <1>2, <2>0, <2>3, LeaseAssumption
    DEF IInv, TypeOK, FenceUnique, WrittenBounded, Release, Lease
  <2>4. ASSUME NEW l \in held, FencedWrite(l) PROVE IInv'
    BY <1>2, <2>0, <2>4, LeaseAssumption
    DEF IInv, TypeOK, FenceUnique, WrittenBounded, FencedWrite, IsCurrent, Lease
  <2>5. ASSUME NEW l \in held, Forget(l) PROVE IInv'
    BY <1>2, <2>0, <2>5 DEF IInv, TypeOK, FenceUnique, WrittenBounded, Forget
  <2>6. ASSUME NEW r \in Resource, Revoke(r) PROVE IInv'
    BY <1>2, <2>0, <2>6, LeaseAssumption
    DEF IInv, TypeOK, FenceUnique, WrittenBounded, Revoke, Lease
  <2>7. CASE Tick
    BY <1>2, <2>0, <2>7, LeaseAssumption
    DEF IInv, TypeOK, FenceUnique, WrittenBounded, Tick
  <2>8. CASE UNCHANGED vars
    BY <1>2, <2>8 DEF IInv, TypeOK, FenceUnique, WrittenBounded, vars
  <2> QED  BY <1>2, <2>1, <2>2, <2>3, <2>4, <2>5, <2>6, <2>7, <2>8 DEF Next
<1> QED  BY <1>1, <1>2

(* The lease table stays well typed: no transaction of lease_store.py      *)
(* leaves a fencing token, an owner or a remaining lifetime out of range.  *)
THEOREM LeaseTypeCorrect == Spec => []TypeOK
<1>1. IInv => TypeOK  BY DEF IInv
<1> QED  BY <1>1, IInvInductive, PTL DEF Spec

(* No fence is handed to two owners, for any number of resources and       *)
(* controllers.                                                            *)
THEOREM FenceUniqueHolds == Spec => []FenceUnique
<1>1. IInv => FenceUnique  BY DEF IInv
<1> QED  BY <1>1, IInvInductive, PTL DEF Spec

(* A superseded holder never writes after its successor did.               *)
THEOREM WritesInFenceOrderHolds == Spec => WritesInFenceOrder
<1>1. ASSUME IInv, [Next]_vars
      PROVE  [\A r \in Resource : written[r] <= written'[r]]_vars
  <2>1. ASSUME NEW l \in held, FencedWrite(l)
        PROVE  \A r \in Resource : written[r] <= written'[r]
    BY <1>1, <2>1, LeaseAssumption
    DEF IInv, TypeOK, WrittenBounded, FencedWrite, IsCurrent, Lease
  <2>2. ASSUME UNCHANGED written PROVE \A r \in Resource : written[r] <= written'[r]
    BY <1>1, <2>2, LeaseAssumption DEF IInv, TypeOK
  <2> QED
    BY <1>1, <2>1, <2>2
    DEF Next, Acquire, AcquireUnanswered, Takeover, Grant, Renew, Release, Forget, Revoke, Tick, vars
<1> QED  BY <1>1, IInvInductive, PTL DEF Spec, WritesInFenceOrder

(* A lease that stopped being current never becomes current again.         *)
THEOREM NeverCurrentAgainHolds == Spec => NeverCurrentAgain
<1>1. ASSUME IInv, [Next]_vars
      PROVE  [\A l \in held : ~IsCurrent(l) => ~IsCurrent(l)']_vars
  <2> SUFFICES ASSUME NEW l \in held, ~IsCurrent(l), Next PROVE ~IsCurrent(l)'
    BY <1>1
  <2>0. held \subseteq Lease  BY <1>1 DEF IInv, TypeOK
  <2>1. ASSUME NEW r \in Resource, NEW o \in Owner, NEW ttl \in 1 .. MaxTTL,
               Advance(r, o, ttl)
        PROVE  ~IsCurrent(l)'
    BY <1>1, <2>0, <2>1, LeaseAssumption DEF IInv, TypeOK, FenceUnique, Advance, IsCurrent, Lease
  <2>2. ASSUME NEW m \in held, NEW ttl \in 1 .. MaxTTL, Renew(m, ttl) PROVE ~IsCurrent(l)'
    BY <1>1, <2>0, <2>2, LeaseAssumption DEF IInv, TypeOK, FenceUnique, Renew, IsCurrent, Lease
  <2>3. ASSUME NEW m \in held, Release(m) PROVE ~IsCurrent(l)'
    BY <1>1, <2>0, <2>3, LeaseAssumption DEF IInv, TypeOK, Release, IsCurrent, Lease
  <2>4. ASSUME NEW r \in Resource, Revoke(r) PROVE ~IsCurrent(l)'
    BY <1>1, <2>0, <2>4, LeaseAssumption DEF IInv, TypeOK, Revoke, IsCurrent, Lease
  <2>5. CASE Tick
    BY <1>1, <2>0, <2>5, LeaseAssumption DEF IInv, TypeOK, Tick, IsCurrent, Lease
  <2>6. ASSUME UNCHANGED <<row, left>> PROVE ~IsCurrent(l)'
    BY <2>6 DEF IsCurrent
  <2> QED
    BY <2>1, <2>2, <2>3, <2>4, <2>5, <2>6
    DEF Next, Acquire, AcquireUnanswered, Takeover, Grant, FencedWrite, Forget
<1> QED  BY <1>1, IInvInductive, PTL DEF Spec, NeverCurrentAgain

=============================================================================
