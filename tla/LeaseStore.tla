----------------------------- MODULE LeaseStore -----------------------------
(***************************************************************************)
(* The database lease store of cognis/store/coordination.py: one row per   *)
(* resource holding an owner, a fencing token and an expiry.  Every method *)
(* of DatabaseLeaseStore is one SQL statement in one transaction, so every *)
(* method is one action.  Lease values handed to callers live on after     *)
(* they stop being current: "held" keeps them, so that a stale caller may  *)
(* still renew, release or try to write.                                   *)
(***************************************************************************)
EXTENDS Integers, FiniteSets

CONSTANTS Resource,   \* resource keys (conversations, tasks, executors, ...)
          Owner,      \* controller incarnations
          MaxTTL,     \* longest lease, in clock ticks
          MaxToken    \* bound: how many grants a resource sees

ASSUME LeaseAssumption ==
    /\ MaxTTL \in Nat \ {0}
    /\ MaxToken \in Nat \ {0}
    /\ {"none", "revoked"} \cap Owner = {}

VARIABLES row,      \* row[r]: owner and fencing token of the lease row
          left,     \* left[r]: ticks until lease_expires_at; 0 is expired
          held,     \* lease values callers still hold
          written   \* written[r]: token of the last fenced write

vars == <<row, left, held, written>>

Lease == [res : Resource, owner : Owner, token : 1 .. MaxToken]

LeaseOf(r, o, k) == [res |-> r, owner |-> o, token |-> k]

(* owner_id, fencing_token and lease_expires_at > now all match.           *)
IsCurrent(l) ==
    /\ row[l.res] = [owner |-> l.owner, token |-> l.token]
    /\ left[l.res] > 0

Init ==
    /\ row = [r \in Resource |-> [owner |-> "none", token |-> 0]]
    /\ left = [r \in Resource |-> 0]
    /\ held = {}
    /\ written = [r \in Resource |-> 0]

(* The upsert's WHERE clause: no row yet, the same owner, or expired.      *)
MayAcquire(r, o) ==
    \/ row[r].token = 0
    \/ row[r].owner = o
    \/ left[r] = 0

AdvanceReusingToken(r, o, ttl) ==
    /\ row[r].token < MaxToken
    /\ row' = [row EXCEPT ![r] = [owner |-> o,
            token |-> IF row[r].owner = o THEN row[r].token ELSE row[r].token + 1]]
    /\ left' = [left EXCEPT ![r] = ttl]

Advance(r, o, ttl) ==
    /\ row[r].token < MaxToken
    /\ row' = [row EXCEPT ![r] = [owner |-> o, token |-> row[r].token + 1]]
    /\ left' = [left EXCEPT ![r] = ttl]

Grant(r, o, ttl) ==
    /\ Advance(r, o, ttl)
    /\ held' = held \cup {LeaseOf(r, o, row[r].token + 1)}
    /\ UNCHANGED written

Acquire(r, o, ttl) ==
    /\ MayAcquire(r, o)
    /\ Grant(r, o, ttl)

(* The connection fails after the commit: acquire returns None, or retries *)
(* as the same owner, and the committed fence belongs to no caller.        *)
AcquireUnanswered(r, o, ttl) ==
    /\ MayAcquire(r, o)
    /\ Advance(r, o, ttl)
    /\ UNCHANGED <<held, written>>

(* takeover replaces any owner, live or not.                               *)
Takeover(r, o, ttl) == Grant(r, o, ttl)

RenewExpired(l, ttl) ==
    /\ row[l.res] = [owner |-> l.owner, token |-> l.token]
    /\ left' = [left EXCEPT ![l.res] = ttl]
    /\ UNCHANGED <<row, held, written>>

Renew(l, ttl) ==
    /\ IsCurrent(l)
    /\ left' = [left EXCEPT ![l.res] = ttl]
    /\ UNCHANGED <<row, held, written>>

(* release compares the owner and the token, not the expiry.               *)
Release(l) ==
    /\ left' = [left EXCEPT ![l.res] =
            IF row[l.res] = [owner |-> l.owner, token |-> l.token] THEN 0 ELSE @]
    /\ held' = held \ {l}
    /\ UNCHANGED <<row, written>>

RevokeAbsent(r) ==
    /\ row' = [row EXCEPT ![r] = [owner |-> "revoked", token |-> row[r].token + 1]]
    /\ left' = [left EXCEPT ![r] = 0]
    /\ UNCHANGED <<held, written>>

Revoke(r) ==
    /\ row[r].token \in 1 .. (MaxToken - 1)
    /\ row' = [row EXCEPT ![r] = [owner |-> "revoked", token |-> row[r].token + 1]]
    /\ left' = [left EXCEPT ![r] = 0]
    /\ UNCHANGED <<held, written>>

FencedWriteByOwner(l) ==
    /\ row[l.res].owner = l.owner
    /\ left[l.res] > 0
    /\ written' = [written EXCEPT ![l.res] = l.token]
    /\ UNCHANGED <<row, left, held>>

(* A consumer's transaction that calls is_current_in_session, which locks  *)
(* the lease row, before it writes.                                        *)
FencedWrite(l) ==
    /\ IsCurrent(l)
    /\ written' = [written EXCEPT ![l.res] = l.token]
    /\ UNCHANGED <<row, left, held>>

(* A caller crashes or drops its lease without releasing it.               *)
Forget(l) ==
    /\ held' = held \ {l}
    /\ UNCHANGED <<row, left, written>>

TickStopped ==
    /\ left' = [r \in Resource |-> IF left[r] > 1 THEN left[r] - 1 ELSE left[r]]
    /\ UNCHANGED <<row, held, written>>

(* The database clock.                                                     *)
Tick ==
    /\ left' = [r \in Resource |-> IF left[r] > 0 THEN left[r] - 1 ELSE 0]
    /\ UNCHANGED <<row, held, written>>

Next ==
    \/ \E r \in Resource, o \in Owner, ttl \in 1 .. MaxTTL :
          \/ Acquire(r, o, ttl)
          \/ AcquireUnanswered(r, o, ttl)
          \/ Takeover(r, o, ttl)
    \/ \E l \in held : \E ttl \in 1 .. MaxTTL : Renew(l, ttl)
    \/ \E l \in held : Release(l) \/ FencedWrite(l) \/ Forget(l)
    \/ \E r \in Resource : Revoke(r)
    \/ Tick

Spec == Init /\ [][Next]_vars /\ WF_vars(Tick)

-----------------------------------------------------------------------------

(* The type of the lease table and of what callers hold.                   *)
TypeOK ==
    /\ row \in [Resource -> [owner : Owner \cup {"none", "revoked"}, token : 0 .. MaxToken]]
    /\ left \in [Resource -> 0 .. MaxTTL]
    /\ held \in SUBSET Lease
    /\ written \in [Resource -> 0 .. MaxToken]

(* No fence is ever handed to two owners, and no caller holds a fence      *)
(* ahead of the row: acquire and takeover always advance fencing_token.    *)
FenceUnique ==
    /\ \A l \in held : l.token <= row[l.res].token
    /\ \A l \in held : l.token = row[l.res].token => l.owner = row[l.res].owner
    /\ \A l, m \in held : l.res = m.res /\ l.token = m.token => l.owner = m.owner

(* A lease that stopped being current - expired, released, taken over or   *)
(* revoked - never becomes current again, whatever its holder still does:  *)
(* renew accepts only the current unexpired owner/fence tuple.             *)
NeverCurrentAgain ==
    [][\A l \in held : ~IsCurrent(l) => ~IsCurrent(l)']_vars

(* Fenced writes reach a resource in fence order: a superseded holder      *)
(* never writes after its successor did (is_current_in_session).           *)
WritesInFenceOrder ==
    [][\A r \in Resource : written[r] <= written'[r]]_vars


(* A grant whose answer was lost, or whose holder crashed, does not hold   *)
(* its resource for ever: it expires unless somebody holds it again.       *)
OrphanExpires ==
    \A r \in Resource :
        (left[r] > 0 /\ \A l \in held : ~(l.res = r /\ IsCurrent(l)))
            ~> (left[r] = 0 \/ \E l \in held : l.res = r /\ IsCurrent(l))

=============================================================================
