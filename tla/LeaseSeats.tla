----------------------------- MODULE LeaseSeats -----------------------------
(***************************************************************************)
(* Floating concurrency seats (src/server/modules/lease): the lease table  *)
(* of one tenant, the transactions that acquire, renew, release and        *)
(* force-release a seat, the reclaim worker, and the license status that   *)
(* operators change meanwhile.                                             *)
(*                                                                         *)
(* PostgreSQL runs the transactions at READ COMMITTED, so every statement  *)
(* sees what is committed when it starts: each statement of the acquire    *)
(* path that reads or writes shared state is a step of its own.  A write   *)
(* becomes visible at COMMIT, and now() is the instant the transaction     *)
(* began, however long it then waits for a lock.                           *)
(*                                                                         *)
(* A lease row is identified by its acquire token: the index               *)
(* lease_nonce_uniq admits one row per (tenant, nonce) and no statement    *)
(* deletes rows.  The generation column is left out: no caller of          *)
(* LeaseRepo.renew passes the generation it expects.                       *)
(***************************************************************************)
EXTENDS Naturals, FiniteSets

CONSTANTS
  Licenses,        \* licenses of the tenant
  Holders,         \* derived holder keys
  Nonces,          \* acquire tokens, hence lease rows
  Requests,        \* request handlers running at the same time
  None,            \* "no value"
  NoncesFor,       \* NoncesFor[l]: the tokens clients present for license l
  MaxConcurrent,   \* MaxConcurrent[l]: base cap; 0 stands for the NULL column
  Overage,         \* Overage[l]: soft-cap allowance above the base cap
  LicenseExpiry,   \* LicenseExpiry[l]: license.expires_at
  Policy,          \* Policy[l]: the lease_policy_on_* columns
  Heartbeat, Ttl, Grace,   \* lease timings, as resolveTimings returns them
  SweepBatch,      \* most leases one sweep statement reclaims
  Operated,        \* bound: the licenses whose status changes
  MaxClock,        \* bound: the last instant of the model
  MaxTx            \* bound: a request lasts at most this long

TtlFloor == 3   \* TTL_HEARTBEAT_MULTIPLE

ASSUME TimingAssumption ==
  /\ Heartbeat \in Nat \ {0} /\ Ttl \in Nat /\ Grace \in Nat
  /\ Ttl >= TtlFloor * Heartbeat
ASSUME BoundAssumption ==
  /\ SweepBatch \in Nat \ {0} /\ MaxClock \in Nat /\ MaxTx \in Nat
ASSUME CapAssumption ==
  /\ MaxConcurrent \in [Licenses -> Nat]
  /\ Overage \in [Licenses -> Nat]
  /\ LicenseExpiry \in [Licenses -> Nat]
ASSUME PolicyAssumption ==
  Policy \in [Licenses -> [{"revoked", "suspended", "expired"}
                             -> {"reclaim", "timer"}]]
ASSUME TokenAssumption == NoncesFor \in [Licenses -> SUBSET Nonces]
ASSUME OperatedAssumption == Operated \subseteq Licenses

VARIABLES
  clock,       \* server time
  licStatus,   \* license.status
  revokedAt,   \* when a license was revoked (history, for properties only)
  lease,       \* the committed lease rows, by token
  metered,     \* leases with a committed "lease.overage" audit entry
  handleExp,   \* latest expiry of a signed handle delivered for a lease
  lock,        \* lock[l]: the request that holds l's advisory lock
  req          \* the request handlers

vars == <<clock, licStatus, revokedAt, lease, metered, handleExp, lock, req>>

-----------------------------------------------------------------------------
LicenseStatus == {"active", "suspended", "revoked"}

Lease == [license : Licenses, holder : Holders, overage : BOOLEAN,
          status : {"live", "released", "reclaimed"},
          expires : Nat, ended : Nat]

ASSUME NoneAssumption ==
  None \notin Licenses \union Holders \union Nonces \union Requests \union Lease

(* Where a handler stands: "renewing" belongs to renew, the others to      *)
(* acquire.                                                                *)
Phases == {"idle", "prepared", "tokenNew", "counted", "replaying",
           "inserted", "aborted", "renewing"}

Request == [pc : Phases, license : Licenses \union {None},
            holder : Holders \union {None}, nonce : Nonces \union {None},
            target : Nonces \union {None},   \* the lease row in hand
            since : Nat,                     \* arrival
            at : Nat,                        \* now() of the transaction
            seen : Nat,                      \* expires_at as it was read
            used : Nat]                      \* live count, under the lock

Idle == [pc |-> "idle", license |-> None, holder |-> None, nonce |-> None,
         target |-> None, since |-> 0, at |-> 0, seen |-> 0, used |-> 0]

(* Phases in which a transaction holds the license's advisory lock.        *)
UnderLock == {"tokenNew", "counted", "replaying", "inserted", "aborted"}

TypeOK ==
  /\ clock \in 0..MaxClock
  /\ licStatus \in [Licenses -> LicenseStatus]
  /\ revokedAt \in [Licenses -> Nat]
  /\ lease \in [Nonces -> Lease \union {None}]
  /\ metered \in SUBSET Nonces
  /\ handleExp \in [Nonces -> Nat]
  /\ lock \in [Licenses -> Requests \union {None}]
  /\ req \in [Requests -> Request]

Init ==
  /\ clock = 0
  /\ licStatus = [l \in Licenses |-> "active"]
  /\ revokedAt = [l \in Licenses |-> 0]
  /\ lease = [n \in Nonces |-> None]
  /\ metered = {}
  /\ handleExp = [n \in Nonces |-> 0]
  /\ lock = [l \in Licenses |-> None]
  /\ req = [p \in Requests |-> Idle]

-----------------------------------------------------------------------------
IsLive(n) == lease[n] # None /\ lease[n].status = "live"
LiveOn(l) == {n \in Nonces : IsLive(n) /\ lease[n].license = l}
HeldBy(l, h) == {n \in LiveOn(l) : lease[n].holder = h}
EffectiveCap(l) == MaxConcurrent[l] + Overage[l]
IsOverageSeat(l, liveBefore) == liveBefore >= MaxConcurrent[l]

Expired(l) == LicenseExpiry[l] <= clock
EntitledAndActive(l) ==
  /\ MaxConcurrent[l] > 0
  /\ licStatus[l] = "active"
  /\ ~Expired(l)

BoundedHandleExpiry_NoLeaseBound(leaseExpiry) == clock + Heartbeat
BoundedHandleExpiry_NoHeartbeat(leaseExpiry) == leaseExpiry
(* boundedHandleExpiry: min(lease expiry, issue time + heartbeat).         *)
BoundedHandleExpiry(leaseExpiry) ==
  IF leaseExpiry <= clock + Heartbeat THEN leaseExpiry ELSE clock + Heartbeat

Later(a, b) == IF a >= b THEN a ELSE b

(* A response carrying a fresh handle for lease n leaves the server.       *)
DeliverHandle(n, leaseExpiry) ==
  handleExp' = [handleExp EXCEPT
                  ![n] = Later(@, BoundedHandleExpiry(leaseExpiry))]

Becomes(p, r) == req' = [req EXCEPT ![p] = r]

(* COMMIT and ROLLBACK release the transaction's advisory lock.            *)
FreeLock(p) == [l \in Licenses |-> IF lock[l] = p THEN None ELSE lock[l]]

(* A lease row that stops being live records when.                         *)
Ended(row, status) == [row EXCEPT !.status = status, !.ended = clock]

-----------------------------------------------------------------------------
(* Acquire, phase A: one read transaction resolves the license and refuses *)
(* a request that is not entitled or not active.  A refusal changes        *)
(* nothing.  The optional node-lock gate that follows only reads, and can  *)
(* only refuse (Rollback).                                                 *)
AcquirePrepare(p, l, h, n) ==
  /\ req[p].pc = "idle"
  /\ n \in NoncesFor[l]
  /\ EntitledAndActive(l)
  /\ Becomes(p, [Idle EXCEPT !.pc = "prepared", !.license = l, !.holder = h,
                             !.nonce = n, !.since = clock])
  /\ UNCHANGED <<clock, licStatus, revokedAt, lease, metered, handleExp, lock>>

(* Acquire, phase B: BEGIN (which fixes now(), some time since arrival),   *)
(* pg_advisory_xact_lock(license), and SELECT ... WHERE nonce: a known      *)
(* token replays its lease whatever that lease's status, license or holder. *)
(* Asking for the lock any earlier than this SELECT would change nothing.  *)
AcquireLock_NotExclusive(p) ==
  /\ req[p].pc = "prepared"
  /\ lock' = [lock EXCEPT ![req[p].license] = p]
  /\ \E now \in req[p].since..clock :
       LET n == req[p].nonce IN
         IF lease[n] # None
         THEN Becomes(p, [req[p] EXCEPT !.pc = "replaying", !.target = n,
                                        !.at = now, !.seen = lease[n].expires])
         ELSE Becomes(p, [req[p] EXCEPT !.pc = "tokenNew", !.at = now])
  /\ UNCHANGED <<clock, licStatus, revokedAt, lease, metered, handleExp>>

AcquireLock(p) ==
  /\ req[p].pc = "prepared"
  /\ lock[req[p].license] = None
  /\ lock' = [lock EXCEPT ![req[p].license] = p]
  /\ \E now \in req[p].since..clock :
       LET n == req[p].nonce IN
         IF lease[n] # None
         THEN Becomes(p, [req[p] EXCEPT !.pc = "replaying", !.target = n,
                                        !.at = now, !.seen = lease[n].expires])
         ELSE Becomes(p, [req[p] EXCEPT !.pc = "tokenNew", !.at = now])
  /\ UNCHANGED <<clock, licStatus, revokedAt, lease, metered, handleExp>>

(* SELECT ... WHERE license, holder, status = 'live': the holder's live    *)
(* lease is replayed, its expiry untouched.                                *)
AcquireByHolder(p) ==
  /\ req[p].pc = "tokenNew"
  /\ \E n \in HeldBy(req[p].license, req[p].holder) :
       Becomes(p, [req[p] EXCEPT !.pc = "replaying", !.target = n,
                                 !.seen = lease[n].expires])
  /\ UNCHANGED <<clock, licStatus, revokedAt, lease, metered, handleExp, lock>>

(* The seat gate, on what SELECT count(star) returned.                     *)
Full_OffByOne(l, used) == used > EffectiveCap(l)
Full(l, used) == used >= EffectiveCap(l)

(* The holder has none (nobody else can give it one under the lock), and   *)
(* the live leases are counted: at the effective cap the acquire is        *)
(* refused and rolls back.                                                 *)
AcquireCount(p) ==
  /\ req[p].pc = "tokenNew"
  /\ HeldBy(req[p].license, req[p].holder) = {}
  /\ LET l == req[p].license
         used == Cardinality(LiveOn(l)) IN
       IF Full(l, used)
       THEN /\ Becomes(p, Idle)
            /\ lock' = FreeLock(p)
       ELSE /\ Becomes(p, [req[p] EXCEPT !.pc = "counted", !.used = used])
            /\ UNCHANGED lock
  /\ UNCHANGED <<clock, licStatus, revokedAt, lease, metered, handleExp>>

(* INSERT.  The unique index makes it wait for another uncommitted row     *)
(* with the same token, and fail if that row was committed after this      *)
(* transaction looked for it.  The failure aborts the transaction, so the  *)
(* handler's SELECT for the original lease fails too.                      *)
AcquireInsert(p) ==
  /\ req[p].pc = "counted"
  /\ LET n == req[p].nonce IN
       /\ \A q \in Requests \ {p} :
            ~(req[q].pc = "inserted" /\ req[q].target = n)
       /\ IF lease[n] = None
          THEN Becomes(p, [req[p] EXCEPT !.pc = "inserted", !.target = n])
          ELSE Becomes(p, [req[p] EXCEPT !.pc = "aborted"])
  /\ UNCHANGED <<clock, licStatus, revokedAt, lease, metered, handleExp, lock>>

(* Sign the handle, write the audit entries, COMMIT: a new seat.           *)
AcquireCommitNew(p) ==
  /\ req[p].pc = "inserted"
  /\ LET r == req[p]
         over == IsOverageSeat(r.license, r.used) IN
       /\ lease' = [lease EXCEPT ![r.target] =
            [license |-> r.license, holder |-> r.holder, overage |-> over,
             status |-> "live", expires |-> r.at + Ttl, ended |-> 0]]
       /\ metered' = IF over THEN metered \union {r.target} ELSE metered
       /\ DeliverHandle(r.target, r.at + Ttl)
  /\ lock' = FreeLock(p)
  /\ Becomes(p, Idle)
  /\ UNCHANGED <<clock, licStatus, revokedAt>>

(* The same for a replay: the lease as it was read is signed and returned. *)
AcquireCommitReplay(p) ==
  /\ req[p].pc = "replaying"
  /\ DeliverHandle(req[p].target, req[p].seen)
  /\ lock' = FreeLock(p)
  /\ Becomes(p, Idle)
  /\ UNCHANGED <<clock, licStatus, revokedAt, lease, metered>>

-----------------------------------------------------------------------------
(* Renew: the transaction reads the lease and its license, and refuses a   *)
(* revoked one.                                                            *)
RenewRead(p, n) ==
  /\ req[p].pc = "idle"
  /\ lease[n] # None
  /\ licStatus[lease[n].license] # "revoked"
  /\ Becomes(p, [Idle EXCEPT !.pc = "renewing", !.target = n,
                             !.since = clock, !.at = clock])
  /\ UNCHANGED <<clock, licStatus, revokedAt, lease, metered, handleExp, lock>>

Renewable_AnyStatus(row, now) == row.expires > now
Renewable(row, now) == row.status = "live" /\ row.expires > now

(* The guarded UPDATE, the handle, the audit entry and COMMIT.  The row    *)
(* stays locked from the UPDATE to COMMIT, so nobody can tell them apart.  *)
RenewCommit(p) ==
  /\ req[p].pc = "renewing"
  /\ LET n == req[p].target IN
       /\ Renewable(lease[n], req[p].at)
       /\ lease' = [lease EXCEPT ![n].expires = req[p].at + Ttl]
       /\ DeliverHandle(n, req[p].at + Ttl)
  /\ Becomes(p, Idle)
  /\ UNCHANGED <<clock, licStatus, revokedAt, metered, lock>>

(* The UPDATE matched no row: 409 lease_not_renewable.                     *)
RenewRefuse(p) ==
  /\ req[p].pc = "renewing"
  /\ ~Renewable(lease[req[p].target], req[p].at)
  /\ Becomes(p, Idle)
  /\ UNCHANGED <<clock, licStatus, revokedAt, lease, metered, handleExp, lock>>

(* Any fault before COMMIT (the signer's 503, the node-lock gate's 409, an *)
(* aborted transaction, a lost connection) rolls the request back.         *)
Rollback(p) ==
  /\ req[p].pc # "idle"
  /\ Becomes(p, Idle)
  /\ lock' = FreeLock(p)
  /\ UNCHANGED <<clock, licStatus, revokedAt, lease, metered, handleExp>>

-----------------------------------------------------------------------------
(* One guarded UPDATE each; a lease that is not live is left alone.        *)
Release(n) ==
  /\ IsLive(n)
  /\ lease' = [lease EXCEPT ![n] = Ended(@, "released")]
  /\ UNCHANGED <<clock, licStatus, revokedAt, metered, handleExp, lock, req>>

ForceRelease(n) ==
  /\ IsLive(n)
  /\ lease' = [lease EXCEPT ![n] = Ended(@, "reclaimed")]
  /\ UNCHANGED <<clock, licStatus, revokedAt, metered, handleExp, lock, req>>

(* Leases past expiry and grace; leases whose license state says reclaim.  *)
GraceDue == {n \in Nonces : IsLive(n) /\ lease[n].expires + Grace < clock}

PolicyDueOn_NoRevoke(l) ==
  \/ licStatus[l] = "suspended" /\ Policy[l]["suspended"] = "reclaim"
  \/ LicenseExpiry[l] < clock /\ Policy[l]["expired"] = "reclaim"
PolicyDueOn(l) ==
  \/ licStatus[l] = "revoked" /\ Policy[l]["revoked"] = "reclaim"
  \/ licStatus[l] = "suspended" /\ Policy[l]["suspended"] = "reclaim"
  \/ LicenseExpiry[l] < clock /\ Policy[l]["expired"] = "reclaim"
PolicyDue == {n \in Nonces : IsLive(n) /\ PolicyDueOn(lease[n].license)}

(* ORDER BY expires_at LIMIT SweepBatch: the batches that may be chosen.   *)
OldestFirst_LimitFirst(due) ==
  {S \cap due : S \in {T \in SUBSET {n \in Nonces : IsLive(n)} :
     /\ Cardinality(T) <= SweepBatch
     /\ Cardinality(T) < SweepBatch => T = {n \in Nonces : IsLive(n)}
     /\ \A s \in T : \A d \in Nonces \ T :
          IsLive(d) => lease[s].expires >= lease[d].expires}}
OldestFirst(due) ==
  {S \in SUBSET due :
     /\ Cardinality(S) <= SweepBatch
     /\ Cardinality(S) < SweepBatch => S = due
     /\ \A s \in S : \A d \in due \ S : lease[s].expires <= lease[d].expires}

(* One run of the reclaim worker for the tenant: both statements and their *)
(* audit entries are one transaction.  A fault leaves everything as it is. *)
ReclaimSweep ==
  /\ GraceDue \union PolicyDue # {}
  /\ \E byGrace \in OldestFirst(GraceDue) :
       \E byPolicy \in OldestFirst(PolicyDue \ byGrace) :
         lease' = [n \in Nonces |->
                     IF n \in byGrace \union byPolicy
                     THEN Ended(lease[n], "reclaimed") ELSE lease[n]]
  /\ UNCHANGED <<clock, licStatus, revokedAt, metered, handleExp, lock, req>>

-----------------------------------------------------------------------------
(* License lifecycle, driven by operators and by billing.                  *)
SuspendLicense(l) ==
  /\ licStatus[l] = "active"
  /\ licStatus' = [licStatus EXCEPT ![l] = "suspended"]
  /\ UNCHANGED <<clock, revokedAt, lease, metered, handleExp, lock, req>>

ReinstateLicense(l) ==
  /\ licStatus[l] = "suspended"
  /\ licStatus' = [licStatus EXCEPT ![l] = "active"]
  /\ UNCHANGED <<clock, revokedAt, lease, metered, handleExp, lock, req>>

RevokeLicense(l) ==
  /\ licStatus[l] # "revoked"
  /\ licStatus' = [licStatus EXCEPT ![l] = "revoked"]
  /\ revokedAt' = [revokedAt EXCEPT ![l] = clock]
  /\ UNCHANGED <<clock, lease, metered, handleExp, lock, req>>

(* Time passes.  MaxTx bounds how long a request is under way; the clock   *)
(* stops at MaxClock.                                                      *)
Tick ==
  /\ clock < MaxClock
  /\ \A p \in Requests :
       req[p].pc = "idle" \/ clock < req[p].since + MaxTx
  /\ clock' = clock + 1
  /\ UNCHANGED <<licStatus, revokedAt, lease, metered, handleExp, lock, req>>

-----------------------------------------------------------------------------
AcquireStep(p) ==
  \/ AcquireLock(p) \/ AcquireByHolder(p) \/ AcquireCount(p)
  \/ AcquireInsert(p) \/ AcquireCommitNew(p) \/ AcquireCommitReplay(p)

RenewStep(p) == RenewCommit(p) \/ RenewRefuse(p)

Finish(p) == AcquireStep(p) \/ RenewStep(p) \/ Rollback(p)

Handler(p) ==
  \/ \E l \in Licenses, h \in Holders, n \in Nonces : AcquirePrepare(p, l, h, n)
  \/ \E n \in Nonces : RenewRead(p, n)
  \/ Finish(p)

Environment ==
  \/ \E n \in Nonces : Release(n) \/ ForceRelease(n)
  \/ \E l \in Operated :
       SuspendLicense(l) \/ ReinstateLicense(l) \/ RevokeLicense(l)
  \/ Tick

Next ==
  \/ \E p \in Requests : Handler(p)
  \/ ReclaimSweep
  \/ Environment

Spec == Init /\ [][Next]_vars

(* The worker runs on a timer for as long as the process lives, and node's *)
(* event loop drives every accepted request to its end.  Clients, operators *)
(* and the clock owe nothing.                                              *)
FairSpec ==
  /\ Spec
  /\ WF_vars(ReclaimSweep)
  /\ \A p \in Requests : WF_vars(Finish(p))
-----------------------------------------------------------------------------
(* Seats never exceed the effective cap, whatever acquires race for the    *)
(* last one (FR-003).                                                      *)
CapRespected ==
  \A l \in Licenses : Cardinality(LiveOn(l)) <= EffectiveCap(l)

(* A holder occupies at most one seat of a license (FR-023), even without  *)
(* the partial unique index that backs the code up.                        *)
OneLivePerHolder ==
  \A m, n \in Nonces :
    (IsLive(m) /\ IsLive(n) /\ m # n)
      => (lease[m].license # lease[n].license
            \/ lease[m].holder # lease[n].holder)

(* Every seat above the base cap has been metered for true-up (FR-013):    *)
(* the live seats with no overage entry always fit the base cap, whatever  *)
(* the order in which base and overage seats came and went.                *)
UnmeteredWithinBase ==
  \A l \in Licenses : Cardinality(LiveOn(l) \ metered) <= MaxConcurrent[l]

(* The three facts above, with what makes them inductive: who holds the    *)
(* lock, and that a count taken under it can only go stale downwards.      *)
RequestShape ==
  \A p \in Requests :
    /\ req[p].pc \notin {"idle", "renewing"} =>
         /\ req[p].license \in Licenses
         /\ req[p].holder \in Holders
         /\ req[p].nonce \in Nonces
    /\ req[p].pc \in {"replaying", "renewing"} =>
         req[p].target \in Nonces /\ lease[req[p].target] # None
    /\ req[p].pc = "inserted" =>
         req[p].target = req[p].nonce /\ lease[req[p].nonce] = None

LockHeld ==
  \A p \in Requests : req[p].pc \in UnderLock => lock[req[p].license] = p

PendingUnique ==
  \A p, q \in Requests :
    (req[p].pc = "inserted" /\ req[q].pc = "inserted" /\ p # q)
      => req[p].nonce # req[q].nonce

CountStands ==
  \A p \in Requests :
    req[p].pc \in {"counted", "inserted"} =>
      /\ HeldBy(req[p].license, req[p].holder) = {}
      /\ Cardinality(LiveOn(req[p].license)) <= req[p].used
      /\ req[p].used < EffectiveCap(req[p].license)

LiveFinite == \A l \in Licenses : IsFiniteSet(LiveOn(l))

SeatInv ==
  /\ TypeOK /\ RequestShape /\ LockHeld /\ PendingUnique /\ CountStands
  /\ LiveFinite /\ CapRespected /\ OneLivePerHolder /\ UnmeteredWithinBase

(* A lease that has ended stays ended, with the holder and the times it    *)
(* ended with (FR-011): no late renew, replay or sweep brings it back.     *)
NoRevival ==
  [][\A n \in Nonces :
       (lease[n] # None /\ ~IsLive(n)) => lease'[n] = lease[n]]_vars

(* A seat the timer gives back is dark: no handle ever delivered for it is *)
(* still valid offline, so the cap also bounds the holders that can prove  *)
(* a seat offline.  Rests on MaxTx <= Grace, since a slow renew commits an *)
(* expiry counted from its own begin.                                      *)
TimerReclaimSafe ==
  \A n \in Nonces :
    (lease[n] # None /\ ~IsLive(n) /\ lease[n].expires + Grace < lease[n].ended)
      => handleExp[n] < clock

(* Revoking a license ends offline use of its seats within one heartbeat   *)
(* of the last request admitted before the revoke (FR-022, FR-024), if no  *)
(* two licenses share a token.                                             *)
RevocationWindow ==
  \A n \in Nonces :
    (lease[n] # None /\ licStatus[lease[n].license] = "revoked")
      => handleExp[n] <= revokedAt[lease[n].license] + MaxTx + Heartbeat

(* A lapsed seat comes back (FR-010).                                      *)
LapsedReclaimed ==
  \A n \in Nonces :
    (IsLive(n) /\ lease[n].expires + Grace < clock) ~> ~IsLive(n)

(* A revoked license ends up with no seats and stays that way, although a  *)
(* request admitted before the revoke may still add one after it (FR-024). *)
RevokedDrains ==
  \A l \in Licenses :
    (licStatus[l] = "revoked" /\ Policy[l]["revoked"] = "reclaim")
      ~> [](LiveOn(l) = {})

(* The acquire, renew and reclaim transactions implement the seat pool.    *)
Pool == INSTANCE SeatPool WITH
  Seats <- Nonces,
  Capacity <- [l \in Licenses |-> EffectiveCap(l)],
  occupied <- [l \in Licenses |-> {<<n, lease[n].holder>> : n \in LiveOn(l)}],
  spent <- {n \in Nonces : lease[n] # None /\ ~IsLive(n)}
ImplementsSeatPool == Pool!Spec

=============================================================================
