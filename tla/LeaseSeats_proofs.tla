-------------------------- MODULE LeaseSeats_proofs --------------------------
(***************************************************************************)
(* For every set of licenses, holders, tokens and request handlers, and    *)
(* every cap: the seat accounting of LeaseSeats is right.  SeatInv is      *)
(* inductive; its heart is CountStands, which says that a live count read  *)
(* under the advisory lock stays an upper bound until the insert commits.  *)
(***************************************************************************)
EXTENDS LeaseSeats, FiniteSetTheorems, TLAPS

(* What every step but the commit of a new seat does to the lease table:   *)
(* rows stay what they are, and may only stop being live.                  *)
OnlyEnds ==
  \A n \in Nonces :
    /\ lease'[n] # None <=> lease[n] # None
    /\ lease[n] # None => /\ lease'[n].license = lease[n].license
                          /\ lease'[n].holder = lease[n].holder
                          /\ lease'[n].status = "live" => lease[n].status = "live"

(* Then no license gains a live seat.                                      *)
LEMMA LiveShrinks ==
  ASSUME OnlyEnds, NEW l, NEW h
  PROVE  /\ LiveOn(l)' \subseteq LiveOn(l)
         /\ HeldBy(l, h)' \subseteq HeldBy(l, h)
BY DEF OnlyEnds, LiveOn, HeldBy, IsLive

(* A step that leaves the rows alone only ends leases, none of them.       *)
LEMMA UnchangedOnlyEnds == UNCHANGED lease => OnlyEnds
BY DEF OnlyEnds

(* Ending a row, or moving its expiry, keeps the rest of it.               *)
LEMMA EndedRow ==
  ASSUME NEW row \in Lease, NEW s \in {"released", "reclaimed"}, clock \in Nat
  PROVE  /\ Ended(row, s) \in Lease
         /\ Ended(row, s).license = row.license
         /\ Ended(row, s).holder = row.holder
         /\ Ended(row, s).status = s
BY DEF Ended, Lease

(* Delivering a handle (signLeaseHandle) records an instant.               *)
LEMMA HandleExpiryType ==
  ASSUME NEW e \in Nat, clock \in Nat, handleExp \in [Nonces -> Nat],
         NEW n \in Nonces, DeliverHandle(n, e)
  PROVE  handleExp' \in [Nonces -> Nat]
BY TimingAssumption DEF DeliverHandle, BoundedHandleExpiry, Later

(* A handler that moves to a well-typed request keeps req well typed.      *)
LEMMA BecomesType ==
  ASSUME req \in [Requests -> Request], NEW p \in Requests, NEW r \in Request,
         Becomes(p, r)
  PROVE  req' \in [Requests -> Request]
BY DEF Becomes

(* COMMIT or ROLLBACK leaves every lock free or with a request.            *)
LEMMA FreeLockType ==
  ASSUME NEW p \in Requests, lock \in [Licenses -> Requests \union {None}]
  PROVE  /\ FreeLock(p) \in [Licenses -> Requests \union {None}]
         /\ \A l \in Licenses : lock[l] # p => FreeLock(p)[l] = lock[l]
BY DEF FreeLock

-----------------------------------------------------------------------------
(* Every action keeps the type invariant.                                  *)
LEMMA TypeStep ==
  ASSUME TypeOK, RequestShape, LiveFinite, [Next]_vars
  PROVE  TypeOK'
<1> USE DEF TypeOK
<1>idle. Idle \in Request
  BY DEF Idle, Request, Phases
<1>c. clock \in Nat
  BY BoundAssumption
<1>r. ASSUME NEW p \in Requests
      PROVE  req[p] \in Request
  OBVIOUS
<1>1. ASSUME NEW p \in Requests, NEW l \in Licenses, NEW h \in Holders,
             NEW n \in Nonces, AcquirePrepare(p, l, h, n)
      PROVE  TypeOK'
  <2>1. [Idle EXCEPT !.pc = "prepared", !.license = l, !.holder = h,
                     !.nonce = n, !.since = clock] \in Request
    BY <1>c DEF Idle, Request, Phases
  <2>2. QED BY <1>1, <2>1, BecomesType DEF AcquirePrepare
<1>2. ASSUME NEW p \in Requests, AcquireLock(p)
      PROVE  TypeOK'
  <2>1. req[p].license \in Licenses /\ req[p].nonce \in Nonces
    BY <1>2 DEF AcquireLock, RequestShape
  <2>2. req' \in [Requests -> Request]
    <3> PICK now \in req[p].since..clock :
          LET n == req[p].nonce IN
            IF lease[n] # None
            THEN Becomes(p, [req[p] EXCEPT !.pc = "replaying", !.target = n,
                                           !.at = now, !.seen = lease[n].expires])
            ELSE Becomes(p, [req[p] EXCEPT !.pc = "tokenNew", !.at = now])
      BY <1>2 DEF AcquireLock
    <3>1. now \in Nat
      BY <1>c, <1>r DEF Request
    <3>2. lease[req[p].nonce] # None => lease[req[p].nonce].expires \in Nat
      BY <2>1 DEF Lease
    <3>3. lease[req[p].nonce] # None =>
            [req[p] EXCEPT !.pc = "replaying", !.target = req[p].nonce,
                !.at = now, !.seen = lease[req[p].nonce].expires] \in Request
      BY <1>r, <2>1, <3>1, <3>2 DEF Request, Phases
    <3>4. [req[p] EXCEPT !.pc = "tokenNew", !.at = now] \in Request
      BY <1>r, <3>1 DEF Request, Phases
    <3>5. QED BY <3>3, <3>4, BecomesType
  <2>3. QED BY <1>2, <2>1, <2>2 DEF AcquireLock
<1>3. ASSUME NEW p \in Requests, AcquireByHolder(p)
      PROVE  TypeOK'
  <2> PICK n \in HeldBy(req[p].license, req[p].holder) :
        Becomes(p, [req[p] EXCEPT !.pc = "replaying", !.target = n,
                                  !.seen = lease[n].expires])
    BY <1>3 DEF AcquireByHolder
  <2>1. n \in Nonces /\ lease[n].expires \in Nat
    BY DEF HeldBy, LiveOn, IsLive, Lease
  <2>2. [req[p] EXCEPT !.pc = "replaying", !.target = n,
                       !.seen = lease[n].expires] \in Request
    BY <1>r, <2>1 DEF Request, Phases
  <2>3. QED BY <1>3, <2>2, BecomesType DEF AcquireByHolder
<1>4. ASSUME NEW p \in Requests, AcquireCount(p)
      PROVE  TypeOK'
  <2> DEFINE used == Cardinality(LiveOn(req[p].license))
  <2>1. req[p].license \in Licenses
    BY <1>4 DEF AcquireCount, RequestShape
  <2>2. used \in Nat
    BY <2>1, FS_CardinalityType DEF LiveFinite
  <2>3. [req[p] EXCEPT !.pc = "counted", !.used = used] \in Request
    BY <1>r, <2>2 DEF Request, Phases
  <2>4. req' \in [Requests -> Request]
    BY <1>4, <1>idle, <2>3, BecomesType DEF AcquireCount
  <2>5. QED BY <1>4, <2>4, FreeLockType DEF AcquireCount
<1>5. ASSUME NEW p \in Requests, AcquireInsert(p)
      PROVE  TypeOK'
  <2>1. req[p].nonce \in Nonces
    BY <1>5 DEF AcquireInsert, RequestShape
  <2>2. /\ [req[p] EXCEPT !.pc = "inserted", !.target = req[p].nonce] \in Request
        /\ [req[p] EXCEPT !.pc = "aborted"] \in Request
    BY <1>r, <2>1 DEF Request, Phases
  <2>3. QED BY <1>5, <2>2, BecomesType DEF AcquireInsert
<1>6. ASSUME NEW p \in Requests, AcquireCommitNew(p)
      PROVE  TypeOK'
  <2>1. /\ req[p].license \in Licenses /\ req[p].holder \in Holders
        /\ req[p].target \in Nonces /\ req[p].at + Ttl \in Nat
    BY <1>6, <1>r, TimingAssumption DEF AcquireCommitNew, RequestShape, Request
  <2>2. handleExp' \in [Nonces -> Nat]
    BY <1>6, <1>c, <2>1, HandleExpiryType DEF AcquireCommitNew
  <2>3. lease' \in [Nonces -> Lease \union {None}]
    BY <1>6, <2>1 DEF AcquireCommitNew, Lease, IsOverageSeat
  <2>4. metered' \in SUBSET Nonces
    BY <1>6, <2>1 DEF AcquireCommitNew
  <2>5. req' \in [Requests -> Request]
    BY <1>6, <1>idle, BecomesType DEF AcquireCommitNew
  <2>6. QED BY <1>6, <2>2, <2>3, <2>4, <2>5, FreeLockType DEF AcquireCommitNew
<1>7. ASSUME NEW p \in Requests, AcquireCommitReplay(p)
      PROVE  TypeOK'
  <2>1. req[p].target \in Nonces /\ req[p].seen \in Nat
    BY <1>7, <1>r DEF AcquireCommitReplay, RequestShape, Request
  <2>2. handleExp' \in [Nonces -> Nat]
    BY <1>7, <1>c, <2>1, HandleExpiryType DEF AcquireCommitReplay
  <2>3. req' \in [Requests -> Request]
    BY <1>7, <1>idle, BecomesType DEF AcquireCommitReplay
  <2>4. QED BY <1>7, <2>2, <2>3, FreeLockType DEF AcquireCommitReplay
<1>8. ASSUME NEW p \in Requests, NEW n \in Nonces, RenewRead(p, n)
      PROVE  TypeOK'
  <2>1. [Idle EXCEPT !.pc = "renewing", !.target = n, !.since = clock,
                     !.at = clock] \in Request
    BY <1>c DEF Idle, Request, Phases
  <2>2. QED BY <1>8, <2>1, BecomesType DEF RenewRead
<1>9. ASSUME NEW p \in Requests, RenewCommit(p)
      PROVE  TypeOK'
  <2>1. /\ req[p].target \in Nonces /\ lease[req[p].target] # None
        /\ req[p].at + Ttl \in Nat
    BY <1>9, <1>r, TimingAssumption DEF RenewCommit, RequestShape, Request
  <2>2. handleExp' \in [Nonces -> Nat]
    BY <1>9, <1>c, <2>1, HandleExpiryType DEF RenewCommit
  <2>3. lease' \in [Nonces -> Lease \union {None}]
    BY <1>9, <2>1 DEF RenewCommit, Lease
  <2>4. req' \in [Requests -> Request]
    BY <1>9, <1>idle, BecomesType DEF RenewCommit
  <2>5. QED BY <1>9, <2>2, <2>3, <2>4 DEF RenewCommit
<1>10. ASSUME NEW p \in Requests, RenewRefuse(p) \/ Rollback(p)
       PROVE  TypeOK'
  <2>1. req' \in [Requests -> Request]
    BY <1>10, <1>idle, BecomesType DEF RenewRefuse, Rollback
  <2>2. QED BY <1>10, <2>1, FreeLockType DEF RenewRefuse, Rollback
<1>11. ASSUME NEW n \in Nonces, Release(n) \/ ForceRelease(n)
       PROVE  TypeOK'
  <2>1. lease[n] \in Lease
    BY <1>11 DEF Release, ForceRelease, IsLive
  <2>2. QED BY <1>11, <1>c, <2>1, EndedRow DEF Release, ForceRelease
<1>12. CASE ReclaimSweep
  <2>1. \A n \in GraceDue \union PolicyDue :
          n \in Nonces /\ Ended(lease[n], "reclaimed") \in Lease
    BY <1>c, EndedRow DEF GraceDue, PolicyDue, IsLive
  <2>2. QED BY <1>12, <2>1 DEF ReclaimSweep, OldestFirst
<1>13. ASSUME NEW l \in Licenses,
              SuspendLicense(l) \/ ReinstateLicense(l) \/ RevokeLicense(l)
       PROVE  TypeOK'
  BY <1>13, <1>c DEF SuspendLicense, ReinstateLicense, RevokeLicense, LicenseStatus
<1>14. CASE Tick
  BY <1>14, BoundAssumption DEF Tick
<1>15. CASE UNCHANGED vars
  BY <1>15 DEF vars
<1> QED
  BY <1>1, <1>2, <1>3, <1>4, <1>5, <1>6, <1>7, <1>8, <1>9, <1>10, <1>11, <1>12,
     <1>13, <1>14, <1>15, OperatedAssumption
  DEF Next, Handler, Finish, AcquireStep, RenewStep, Environment

-----------------------------------------------------------------------------
(* Only the commit of a new seat makes a row live; no other step meters.   *)
LEMMA StepOnlyEnds ==
  ASSUME TypeOK, RequestShape, [Next]_vars,
         \A p \in Requests : ~AcquireCommitNew(p)
  PROVE  OnlyEnds /\ metered' = metered
<1> USE DEF TypeOK
<1>1. CASE UNCHANGED <<lease, metered>>
  BY <1>1, UnchangedOnlyEnds
<1>2. ASSUME NEW p \in Requests, RenewCommit(p)
      PROVE  OnlyEnds /\ metered' = metered
  <2> DEFINE n == req[p].target
             row == [lease[n] EXCEPT !.expires = req[p].at + Ttl]
  <2>1. n \in Nonces /\ lease[n] \in Lease /\ req[p].at + Ttl \in Nat
    BY <1>2, TimingAssumption DEF RenewCommit, RequestShape, Request
  <2>2. /\ row \in Lease /\ row.license = lease[n].license
        /\ row.holder = lease[n].holder /\ row.status = lease[n].status
    BY <2>1 DEF Lease
  <2>3. lease' = [lease EXCEPT ![n] = row]
    BY <1>2 DEF RenewCommit
  <2>4. lease'[n] = row /\ \A m \in Nonces : m # n => lease'[m] = lease[m]
    BY <2>1, <2>3
  <2>5. row # None /\ lease[n] # None
    BY <2>1, <2>2, NoneAssumption
  <2>6. metered' = metered
    BY <1>2 DEF RenewCommit
  <2> HIDE DEF n, row
  <2>7. QED BY <2>2, <2>4, <2>5, <2>6 DEF OnlyEnds
<1>3. ASSUME NEW n \in Nonces, Release(n) \/ ForceRelease(n)
      PROVE  OnlyEnds /\ metered' = metered
  <2>1. lease[n] \in Lease /\ clock \in Nat
    BY <1>3, BoundAssumption DEF Release, ForceRelease, IsLive
  <2>2. QED BY <1>3, <2>1, EndedRow, NoneAssumption
            DEF Release, ForceRelease, OnlyEnds
<1>4. CASE ReclaimSweep
  <2>1. clock \in Nat
    BY BoundAssumption
  <2>2. \A n \in GraceDue \union PolicyDue :
          /\ n \in Nonces /\ lease[n] \in Lease
          /\ Ended(lease[n], "reclaimed") \in Lease
          /\ Ended(lease[n], "reclaimed").license = lease[n].license
          /\ Ended(lease[n], "reclaimed").holder = lease[n].holder
          /\ Ended(lease[n], "reclaimed").status = "reclaimed"
    BY <2>1, EndedRow DEF GraceDue, PolicyDue, IsLive
  <2>3. QED BY <1>4, <2>2, NoneAssumption DEF ReclaimSweep, OldestFirst, OnlyEnds
<1> QED
  BY <1>1, <1>2, <1>3, <1>4
  DEF Next, Handler, Finish, AcquireStep, RenewStep, Environment, vars,
      AcquirePrepare, AcquireLock, AcquireByHolder, AcquireCount, AcquireInsert,
      AcquireCommitReplay, RenewRead, RenewRefuse, Rollback, SuspendLicense,
      ReinstateLicense, RevokeLicense, Tick

(* A new seat: exactly one row becomes live, on the license whose lock the *)
(* request holds.                                                          *)
LEMMA CommitAddsOne ==
  ASSUME TypeOK, RequestShape, NEW p \in Requests, AcquireCommitNew(p),
         NEW l \in Licenses
  PROVE  /\ req[p].license \in Licenses /\ req[p].nonce \in Nonces
         /\ req[p].nonce \notin LiveOn(l)
         /\ lease[req[p].nonce] = None /\ lease'[req[p].nonce] # None
         /\ \A n \in Nonces : n # req[p].nonce => lease'[n] = lease[n]
         /\ lease'[req[p].nonce].holder = req[p].holder
         /\ lease'[req[p].nonce].license = req[p].license
         /\ l # req[p].license => LiveOn(l)' = LiveOn(l)
         /\ l = req[p].license => LiveOn(l)' = LiveOn(l) \union {req[p].nonce}
<1> DEFINE row == [license |-> req[p].license, holder |-> req[p].holder,
                   overage |-> IsOverageSeat(req[p].license, req[p].used),
                   status |-> "live", expires |-> req[p].at + Ttl, ended |-> 0]
<1>1. /\ req[p].license \in Licenses /\ req[p].nonce \in Nonces
      /\ req[p].holder \in Holders
      /\ lease[req[p].nonce] = None
      /\ req[p].target = req[p].nonce
  BY DEF AcquireCommitNew, RequestShape
<1>2. lease' = [lease EXCEPT ![req[p].nonce] = row]
  BY <1>1 DEF AcquireCommitNew
<1>3. row \in Lease
  BY <1>1, TimingAssumption DEF Lease, IsOverageSeat, TypeOK, Request
<1>4. row # None
  BY <1>3, NoneAssumption
<1>5. /\ lease'[req[p].nonce] = row
      /\ \A n \in Nonces : n # req[p].nonce => lease'[n] = lease[n]
  BY <1>1, <1>2 DEF TypeOK
<1>6. row.status = "live" /\ row.license = req[p].license
        /\ row.holder = req[p].holder
  OBVIOUS
<1> HIDE DEF row
<1>7. QED BY <1>1, <1>4, <1>5, <1>6 DEF LiveOn, IsLive

-----------------------------------------------------------------------------
(* RequestShape, for one handler record.                                   *)
Shaped(r) ==
  /\ r.pc \notin {"idle", "renewing"} =>
       r.license \in Licenses /\ r.holder \in Holders /\ r.nonce \in Nonces
  /\ r.pc \in {"replaying", "renewing"} =>
       r.target \in Nonces /\ lease[r.target] # None
  /\ r.pc = "inserted" => r.target = r.nonce /\ lease[r.nonce] = None

(* A handler between its statements always knows its license, holder and   *)
(* token, the row it replays or renews exists, and the row it is about to  *)
(* insert does not.                                                        *)
LEMMA RequestShapeStep ==
  ASSUME TypeOK, RequestShape, PendingUnique, [Next]_vars
  PROVE  RequestShape'
<1>idle. Idle.pc = "idle"
  BY DEF Idle
<1>1. ASSUME NEW p \in Requests, AcquireCommitNew(p)
      PROVE  RequestShape'
  <2>1. req' = [req EXCEPT ![p] = Idle]
    BY <1>1 DEF AcquireCommitNew, Becomes
  <2>2. ASSUME NEW q \in Requests, q # p
        PROVE  req'[q] = req[q]
    BY <2>1, <2>2 DEF TypeOK
  <2>3. req'[p].pc = "idle"
    BY <2>1, <1>idle DEF TypeOK
  <2>4. \A n \in Nonces : n # req[p].nonce => lease'[n] = lease[n]
    BY <1>1, CommitAddsOne, <1>1 DEF AcquireCommitNew, RequestShape, TypeOK
  <2>5. lease[req[p].nonce] = None /\ lease'[req[p].nonce] # None
    <3>1. PICK l \in Licenses : l = req[p].license
      BY <1>1 DEF AcquireCommitNew, RequestShape
    <3>2. QED BY <1>1, <3>1, CommitAddsOne
  <2>6. \A q \in Requests : q # p /\ req[q].pc = "inserted"
          => req[q].nonce # req[p].nonce
    BY <1>1 DEF AcquireCommitNew, PendingUnique
  <2>7. QED BY <2>2, <2>3, <2>4, <2>5, <2>6 DEF RequestShape
<1>2. CASE \A p \in Requests : ~AcquireCommitNew(p)
  <2>1. \A n \in Nonces : lease'[n] # None <=> lease[n] # None
    BY <1>2, StepOnlyEnds DEF OnlyEnds
  <2>2. CASE UNCHANGED req
    BY <2>1, <2>2 DEF RequestShape
  <2>3. ASSUME NEW p \in Requests, NEW r, Becomes(p, r), Shaped(r)
        PROVE  RequestShape'
    <3>1. /\ req'[p] = r
          /\ \A q \in Requests : q # p => req'[q] = req[q]
      BY <2>3 DEF Becomes, TypeOK
    <3>2. QED BY <2>1, <2>3, <3>1 DEF RequestShape, Shaped
  <2>i. Shaped(Idle)
    BY <1>idle DEF Shaped
  <2>r. ASSUME NEW p \in Requests
        PROVE  Shaped(req[p]) /\ req[p] \in Request
    BY DEF Shaped, RequestShape, TypeOK
  <2>4. ASSUME NEW p \in Requests, NEW l \in Licenses, NEW h \in Holders,
               NEW n \in Nonces, AcquirePrepare(p, l, h, n)
        PROVE  RequestShape'
    <3>1. Shaped([Idle EXCEPT !.pc = "prepared", !.license = l, !.holder = h,
                              !.nonce = n, !.since = clock])
      BY DEF Shaped, Idle
    <3>2. QED BY <2>3, <2>4, <3>1 DEF AcquirePrepare
  <2>5. ASSUME NEW p \in Requests, AcquireLock(p)
        PROVE  RequestShape'
    <3>1. PICK now \in req[p].since..clock :
            LET n == req[p].nonce IN
              IF lease[n] # None
              THEN Becomes(p, [req[p] EXCEPT !.pc = "replaying", !.target = n,
                                             !.at = now, !.seen = lease[n].expires])
              ELSE Becomes(p, [req[p] EXCEPT !.pc = "tokenNew", !.at = now])
      BY <2>5 DEF AcquireLock
    <3>2. req[p].pc = "prepared"
      BY <2>5 DEF AcquireLock
    <3>3. lease[req[p].nonce] # None =>
            Shaped([req[p] EXCEPT !.pc = "replaying", !.target = req[p].nonce,
                        !.at = now, !.seen = lease[req[p].nonce].expires])
      BY <2>r, <3>2 DEF Shaped, Request
    <3>4. Shaped([req[p] EXCEPT !.pc = "tokenNew", !.at = now])
      BY <2>r, <3>2 DEF Shaped, Request
    <3>5. QED BY <2>3, <3>1, <3>3, <3>4
  <2>6. ASSUME NEW p \in Requests, AcquireByHolder(p)
        PROVE  RequestShape'
    <3>1. PICK n \in HeldBy(req[p].license, req[p].holder) :
            Becomes(p, [req[p] EXCEPT !.pc = "replaying", !.target = n,
                                      !.seen = lease[n].expires])
      BY <2>6 DEF AcquireByHolder
    <3>2. n \in Nonces /\ lease[n] # None /\ req[p].pc = "tokenNew"
      BY <2>6 DEF HeldBy, LiveOn, IsLive, AcquireByHolder
    <3>3. Shaped([req[p] EXCEPT !.pc = "replaying", !.target = n,
                                !.seen = lease[n].expires])
      BY <2>r, <3>2 DEF Shaped, Request
    <3>4. QED BY <2>3, <3>1, <3>3
  <2>7. ASSUME NEW p \in Requests, AcquireCount(p)
        PROVE  RequestShape'
    <3>1. \A u : Shaped([req[p] EXCEPT !.pc = "counted", !.used = u])
      BY <2>r, <2>7 DEF Shaped, Request, AcquireCount
    <3>2. QED BY <2>3, <2>i, <2>7, <3>1 DEF AcquireCount
  <2>8. ASSUME NEW p \in Requests, AcquireInsert(p)
        PROVE  RequestShape'
    <3>1. lease[req[p].nonce] = None =>
            Shaped([req[p] EXCEPT !.pc = "inserted", !.target = req[p].nonce])
      BY <2>r, <2>8 DEF Shaped, Request, AcquireInsert
    <3>2. Shaped([req[p] EXCEPT !.pc = "aborted"])
      BY <2>r, <2>8 DEF Shaped, Request, AcquireInsert
    <3>3. QED BY <2>3, <2>8, <3>1, <3>2 DEF AcquireInsert
  <2>9. ASSUME NEW p \in Requests, NEW n \in Nonces, RenewRead(p, n)
        PROVE  RequestShape'
    <3>1. Shaped([Idle EXCEPT !.pc = "renewing", !.target = n,
                              !.since = clock, !.at = clock])
      BY <2>9 DEF Shaped, Idle, RenewRead
    <3>2. QED BY <2>3, <2>9, <3>1 DEF RenewRead
  <2>10. QED
    BY <1>2, <2>2, <2>3, <2>i, <2>4, <2>5, <2>6, <2>7, <2>8, <2>9
    DEF Next, Handler, Finish, AcquireStep, RenewStep, Environment, vars,
        AcquireCommitReplay, RenewCommit, RenewRefuse, Rollback, Release,
        ForceRelease, ReclaimSweep, SuspendLicense, ReinstateLicense,
        RevokeLicense, Tick
<1> QED BY <1>1, <1>2

(* The advisory lock admits one transaction per license.                   *)
LEMMA LockHeldStep ==
  ASSUME TypeOK, RequestShape, LockHeld, [Next]_vars
  PROVE  LockHeld'
<1> USE DEF TypeOK
<1>idle. Idle.pc = "idle"
  BY DEF Idle
<1>1. CASE UNCHANGED <<req, lock>>
  BY <1>1 DEF LockHeld, UnderLock
<1>2. ASSUME NEW p \in Requests, Becomes(p, Idle), lock' = FreeLock(p)
      PROVE  LockHeld'
  BY <1>2, <1>idle DEF LockHeld, UnderLock, Becomes, FreeLock, RequestShape
<1>3. ASSUME NEW p \in Requests, UNCHANGED lock, Becomes(p, Idle)
      PROVE  LockHeld'
  BY <1>3, <1>idle DEF LockHeld, UnderLock, Becomes
<1>4. ASSUME NEW p \in Requests, NEW l \in Licenses, NEW h \in Holders,
             NEW n \in Nonces, AcquirePrepare(p, l, h, n)
      PROVE  LockHeld'
  BY <1>4 DEF AcquirePrepare, LockHeld, UnderLock, Becomes, Idle
<1>5. ASSUME NEW p \in Requests, AcquireLock(p)
      PROVE  LockHeld'
  <2>1. req[p] \in Request /\ req[p].license \in Licenses
    BY <1>5 DEF AcquireLock, RequestShape
  <2>2. /\ \A q \in Requests : q # p => req'[q] = req[q]
        /\ req'[p].license = req[p].license
    <3>1. \/ \E n, s, e : Becomes(p, [req[p] EXCEPT !.pc = "replaying", !.target = n,
                                                   !.at = s, !.seen = e])
          \/ \E s : Becomes(p, [req[p] EXCEPT !.pc = "tokenNew", !.at = s])
      BY <1>5 DEF AcquireLock
    <3>2. CASE \E n, s, e : Becomes(p, [req[p] EXCEPT !.pc = "replaying", !.target = n,
                                                    !.at = s, !.seen = e])
      BY <2>1, <3>2 DEF Becomes, Request
    <3>3. CASE \E s : Becomes(p, [req[p] EXCEPT !.pc = "tokenNew", !.at = s])
      BY <2>1, <3>3 DEF Becomes, Request
    <3> QED
      BY <3>1, <3>2, <3>3
  <2>3. lock' = [lock EXCEPT ![req[p].license] = p] /\ lock[req[p].license] = None
    BY <1>5 DEF AcquireLock
  <2>4. QED BY <2>1, <2>2, <2>3, NoneAssumption DEF LockHeld, RequestShape, UnderLock
<1>6. ASSUME NEW p \in Requests, AcquireByHolder(p) \/ AcquireInsert(p)
      PROVE  LockHeld'
  <2>1. /\ \A q \in Requests : q # p => req'[q] = req[q]
        /\ req'[p].license = req[p].license /\ UNCHANGED lock
    <3>0. req[p] \in Request
      OBVIOUS
    <3>1. CASE AcquireByHolder(p)
      <4>1. PICK n : Becomes(p, [req[p] EXCEPT !.pc = "replaying", !.target = n,
                                               !.seen = lease[n].expires])
        BY <3>1 DEF AcquireByHolder
      <4> DEFINE e == lease[n].expires
      <4>2. Becomes(p, [req[p] EXCEPT !.pc = "replaying", !.target = n, !.seen = e])
        BY <4>1
      <4> HIDE DEF e
      <4>3. UNCHANGED lock
        BY <3>1 DEF AcquireByHolder
      <4> QED BY <3>0, <4>2, <4>3 DEF Becomes, Request
    <3>2. CASE AcquireInsert(p)
      <4>1. \/ Becomes(p, [req[p] EXCEPT !.pc = "inserted", !.target = req[p].nonce])
            \/ Becomes(p, [req[p] EXCEPT !.pc = "aborted"])
        BY <3>2 DEF AcquireInsert
      <4>2. UNCHANGED lock
        BY <3>2 DEF AcquireInsert
      <4> QED BY <3>0, <4>1, <4>2 DEF Becomes, Request
    <3> QED BY <1>6, <3>1, <3>2
  <2>2. req[p].pc \in UnderLock
    BY <1>6 DEF AcquireByHolder, AcquireInsert, UnderLock
  <2>3. QED BY <2>1, <2>2 DEF LockHeld
<1>7. ASSUME NEW p \in Requests, AcquireCount(p), ~Becomes(p, Idle)
      PROVE  LockHeld'
  <2>1. /\ \A q \in Requests : q # p => req'[q] = req[q]
        /\ req'[p].license = req[p].license /\ UNCHANGED lock
    <3>0. req[p] \in Request
      OBVIOUS
    <3>1. UNCHANGED lock /\ \E u : Becomes(p, [req[p] EXCEPT !.pc = "counted", !.used = u])
      BY <1>7 DEF AcquireCount
    <3> QED BY <3>0, <3>1 DEF Becomes, Request
  <2>2. req[p].pc \in UnderLock
    BY <1>7 DEF AcquireCount, UnderLock
  <2>3. QED BY <2>1, <2>2 DEF LockHeld
<1>8. ASSUME NEW p \in Requests, NEW n \in Nonces, RenewRead(p, n)
      PROVE  LockHeld'
  BY <1>8 DEF RenewRead, LockHeld, UnderLock, Becomes, Idle
<1> QED
  BY <1>1, <1>2, <1>3, <1>4, <1>5, <1>6, <1>7, <1>8
  DEF Next, Handler, Finish, AcquireStep, RenewStep, Environment, vars,
      AcquireCount, AcquireCommitNew, AcquireCommitReplay, RenewCommit,
      RenewRefuse, Rollback, Release, ForceRelease, ReclaimSweep,
      SuspendLicense, ReinstateLicense, RevokeLicense, Tick

(* A step leaves a handler as it was, except the one it belongs to: how    *)
(* that one may reach the phases the count depends on.                     *)
LEMMA PhaseStep ==
  ASSUME TypeOK, [Next]_vars, NEW q \in Requests,
         req'[q].pc \in {"counted", "inserted"}
  PROVE  \/ req'[q] = req[q]
         \/ AcquireCount(q) /\ ~Becomes(q, Idle)
         \/ AcquireInsert(q) /\ lease[req[q].nonce] = None
<1> USE DEF TypeOK
<1>1. CASE UNCHANGED req
  BY <1>1
<1>2. ASSUME NEW p \in Requests, NEW r, Becomes(p, r)
      PROVE  /\ req'[p] = r
             /\ \A o \in Requests : o # p => req'[o] = req[o]
  BY <1>2 DEF Becomes
<1>3. ASSUME NEW p \in Requests, Becomes(p, Idle)
      PROVE  req'[q] = req[q]
  BY <1>2, <1>3 DEF Idle
<1>4. ASSUME NEW p \in Requests, NEW l \in Licenses, NEW h \in Holders,
             NEW n \in Nonces, AcquirePrepare(p, l, h, n)
      PROVE  req'[q] = req[q]
  <2>1. req' = [req EXCEPT ![p] = [Idle EXCEPT !.pc = "prepared", !.license = l,
                      !.holder = h, !.nonce = n, !.since = clock]]
    BY <1>4 DEF AcquirePrepare, Becomes
  <2>2. [Idle EXCEPT !.pc = "prepared", !.license = l, !.holder = h,
                     !.nonce = n, !.since = clock].pc = "prepared"
    BY DEF Idle
  <2>3. QED BY <2>1, <2>2
<1>5. ASSUME NEW p \in Requests, AcquireLock(p) \/ AcquireByHolder(p)
      PROVE  req'[q] = req[q]
  <2>1. CASE p = q
    <3>1. req[p] \in Request
      OBVIOUS
    <3>2. CASE AcquireLock(p)
      <4>1. PICK now \in req[p].since..clock :
              LET n == req[p].nonce IN
                IF lease[n] # None
                THEN Becomes(p, [req[p] EXCEPT !.pc = "replaying", !.target = n,
                                               !.at = now, !.seen = lease[n].expires])
                ELSE Becomes(p, [req[p] EXCEPT !.pc = "tokenNew", !.at = now])
        BY <3>2 DEF AcquireLock
      <4>2. CASE lease[req[p].nonce] # None
        <5> DEFINE e == lease[req[p].nonce].expires
        <5>1. Becomes(p, [req[p] EXCEPT !.pc = "replaying",
                            !.target = req[p].nonce, !.at = now, !.seen = e])
          BY <4>1, <4>2
        <5> HIDE DEF e
        <5>2. QED BY <2>1, <3>1, <5>1 DEF Becomes, Request
      <4>3. CASE lease[req[p].nonce] = None
        <5>1. Becomes(p, [req[p] EXCEPT !.pc = "tokenNew", !.at = now])
          BY <4>1, <4>3
        <5>2. [req[p] EXCEPT !.pc = "tokenNew", !.at = now].pc = "tokenNew"
          BY <3>1 DEF Request
        <5>3. req'[q].pc = "tokenNew"
          BY <1>2, <2>1, <5>1, <5>2
        <5>4. QED BY <5>3
      <4>4. QED BY <4>2, <4>3
    <3>3. CASE AcquireByHolder(p)
      BY <2>1, <3>1, <3>3 DEF AcquireByHolder, Becomes, Request
    <3>4. QED BY <1>5, <3>2, <3>3
  <2>2. CASE p # q
    BY <1>5, <2>2 DEF AcquireLock, AcquireByHolder, Becomes
  <2>3. QED BY <2>1, <2>2
<1>6. ASSUME NEW p \in Requests, NEW n \in Nonces, RenewRead(p, n)
      PROVE  req'[q] = req[q]
  <2>1. req' = [req EXCEPT ![p] = [Idle EXCEPT !.pc = "renewing", !.target = n,
                      !.since = clock, !.at = clock]]
    BY <1>6 DEF RenewRead, Becomes
  <2>2. [Idle EXCEPT !.pc = "renewing", !.target = n, !.since = clock,
                     !.at = clock].pc = "renewing"
    BY DEF Idle
  <2>3. QED BY <2>1, <2>2
<1>7. ASSUME NEW p \in Requests, AcquireInsert(p)
      PROVE  req'[q] = req[q] \/ (p = q /\ lease[req[q].nonce] = None)
  BY <1>2, <1>7 DEF AcquireInsert, Request
<1>8. ASSUME NEW p \in Requests, AcquireCount(p), ~Becomes(p, Idle)
      PROVE  req'[q] = req[q] \/ p = q
  BY <1>2, <1>8 DEF AcquireCount
<1> QED
  BY <1>1, <1>3, <1>4, <1>5, <1>6, <1>7, <1>8
  DEF Next, Handler, Finish, AcquireStep, RenewStep, Environment, vars,
      AcquireCommitNew, AcquireCommitReplay, RenewCommit, RenewRefuse,
      Rollback, Release, ForceRelease, ReclaimSweep, SuspendLicense,
      ReinstateLicense, RevokeLicense, Tick

(* The unique index admits one pending row per token.                      *)
LEMMA PendingUniqueStep ==
  ASSUME TypeOK, RequestShape, PendingUnique, [Next]_vars
  PROVE  PendingUnique'
<1> SUFFICES ASSUME NEW p \in Requests, NEW q \in Requests, p # q,
                    req'[p].pc = "inserted", req'[q].pc = "inserted"
             PROVE  req'[p].nonce # req'[q].nonce
  BY DEF PendingUnique
<1>1. ASSUME NEW a \in Requests, AcquireInsert(a), lease[req[a].nonce] = None
      PROVE  /\ req'[a].nonce = req[a].nonce
             /\ \A o \in Requests : o # a => req'[o] = req[o]
             /\ \A o \in Requests : o # a /\ req[o].pc = "inserted"
                  => req[o].nonce # req[a].nonce
  <2>1. /\ req[a] \in Request
        /\ req' = [req EXCEPT ![a] =
                     [req[a] EXCEPT !.pc = "inserted", !.target = req[a].nonce]]
    BY <1>1 DEF AcquireInsert, Becomes, TypeOK
  <2>2. req'[a].nonce = req[a].nonce
    BY <2>1 DEF Request, TypeOK
  <2>3. \A o \in Requests : o # a /\ req[o].pc = "inserted"
          => req[o].nonce # req[a].nonce
    BY <1>1 DEF AcquireInsert, RequestShape
  <2>4. QED BY <2>1, <2>2, <2>3 DEF TypeOK
<1>2. ASSUME NEW a \in Requests, AcquireCount(a), ~Becomes(a, Idle)
      PROVE  req'[a].pc = "counted"
  BY <1>2 DEF AcquireCount, Becomes, TypeOK, Request
<1>3. QED BY <1>1, <1>2, PhaseStep DEF PendingUnique

(* Nobody else adds a seat to a license whose lock is held, so what was    *)
(* counted under the lock can only go down.                                *)
LEMMA CountStandsStep ==
  ASSUME TypeOK, RequestShape, LockHeld, LiveFinite, CountStands, [Next]_vars
  PROVE  CountStands'
<1> SUFFICES ASSUME NEW q \in Requests, req'[q].pc \in {"counted", "inserted"},
                    NEW l, l = req'[q].license, NEW h, h = req'[q].holder
             PROVE  /\ HeldBy(l, h)' = {}
                    /\ Cardinality(LiveOn(l)') <= req'[q].used
                    /\ req'[q].used < EffectiveCap(l)
  BY DEF CountStands, EffectiveCap
<1>1. /\ req[q].license = l /\ req[q].holder = h /\ l \in Licenses
      /\ HeldBy(l, h) = {} /\ Cardinality(LiveOn(l)) <= req'[q].used
      /\ req'[q].used < EffectiveCap(l) /\ req'[q].used \in Nat
      /\ req[q].pc \in UnderLock
  <2>1. CASE req'[q] = req[q]
    BY <2>1 DEF CountStands, RequestShape, TypeOK, Request, UnderLock
  <2>2. CASE AcquireCount(q) /\ ~Becomes(q, Idle)
    <3> DEFINE k == req[q].license
               used == Cardinality(LiveOn(k))
    <3>1. k \in Licenses /\ req[q] \in Request
      BY <2>2 DEF AcquireCount, RequestShape, TypeOK
    <3>2. /\ HeldBy(k, req[q].holder) = {} /\ req[q].pc = "tokenNew"
          /\ ~(Full(k, used))
          /\ req'[q] = [req[q] EXCEPT !.pc = "counted", !.used = used]
      BY <2>2 DEF AcquireCount, Becomes, TypeOK
    <3>3. used \in Nat /\ EffectiveCap(k) \in Nat
      BY <3>1, FS_CardinalityType, CapAssumption DEF LiveFinite, EffectiveCap
    <3> HIDE DEF used
    <3>4. /\ req'[q].license = k /\ req'[q].holder = req[q].holder
          /\ req'[q].used = used
      BY <3>1, <3>2 DEF Request
    <3>5. k = l /\ req[q].holder = h
      BY <3>4
    <3>6. /\ used <= req'[q].used /\ req'[q].used < EffectiveCap(k)
          /\ req'[q].used \in Nat
      BY <3>2, <3>3, <3>4 DEF Full
    <3>7. QED BY <3>1, <3>2, <3>5, <3>6 DEF UnderLock, used
  <2>3. CASE AcquireInsert(q) /\ lease[req[q].nonce] = None
    <3>1. /\ req[q].pc = "counted" /\ req[q] \in Request
          /\ req'[q] = [req[q] EXCEPT !.pc = "inserted", !.target = req[q].nonce]
      BY <2>3 DEF AcquireInsert, Becomes, TypeOK
    <3>2. /\ req[q].license = l /\ req[q].holder = h
          /\ req'[q].used = req[q].used
      BY <3>1 DEF Request
    <3>3. QED BY <3>1, <3>2 DEF CountStands, RequestShape, Request, UnderLock
  <2>4. QED BY <2>1, <2>2, <2>3, PhaseStep
<1>2. CASE \A p \in Requests : ~AcquireCommitNew(p)
  <2>1. LiveOn(l)' \subseteq LiveOn(l) /\ HeldBy(l, h)' \subseteq HeldBy(l, h)
    BY <1>2, StepOnlyEnds, LiveShrinks
  <2>2. /\ Cardinality(LiveOn(l)') <= Cardinality(LiveOn(l))
        /\ Cardinality(LiveOn(l)') \in Nat /\ Cardinality(LiveOn(l)) \in Nat
    BY <1>1, <2>1, FS_Subset, FS_CardinalityType DEF LiveFinite
  <2>3. QED BY <1>1, <2>1, <2>2
<1>3. ASSUME NEW p \in Requests, AcquireCommitNew(p)
      PROVE  LiveOn(l)' = LiveOn(l) /\ HeldBy(l, h)' = {}
  <2>1. p # q
    BY <1>3, <1>1 DEF AcquireCommitNew, Becomes, Idle, TypeOK
  <2>2. l # req[p].license
    BY <1>1, <1>3, <2>1 DEF LockHeld, AcquireCommitNew, UnderLock
  <2>3. LiveOn(l)' = LiveOn(l)
    BY <1>1, <1>3, <2>2, CommitAddsOne
  <2>4. \A n \in LiveOn(l) : n # req[p].nonce /\ lease'[n] = lease[n]
    BY <1>1, <1>3, CommitAddsOne DEF LiveOn
  <2>5. QED BY <1>1, <2>3, <2>4 DEF HeldBy
<1> QED BY <1>1, <1>2, <1>3

(* The cap, one live lease per holder, and overage metering.               *)
LEMMA SeatsStep ==
  ASSUME TypeOK, RequestShape, LockHeld, LiveFinite, CountStands,
         CapRespected, OneLivePerHolder, UnmeteredWithinBase, [Next]_vars
  PROVE  LiveFinite' /\ CapRespected' /\ OneLivePerHolder' /\ UnmeteredWithinBase'
<1>cap. \A l \in Licenses : MaxConcurrent[l] \in Nat /\ EffectiveCap(l) \in Nat
  BY CapAssumption DEF EffectiveCap
<1>1. CASE \A p \in Requests : ~AcquireCommitNew(p)
  <2>1. /\ OnlyEnds /\ metered' = metered
        /\ \A l \in Licenses : LiveOn(l)' \subseteq LiveOn(l)
    BY <1>1, StepOnlyEnds, LiveShrinks
  <2>2. ASSUME NEW l \in Licenses
        PROVE  /\ IsFiniteSet(LiveOn(l)')
               /\ Cardinality(LiveOn(l)') <= EffectiveCap(l)
               /\ Cardinality((LiveOn(l) \ metered)') <= MaxConcurrent[l]
    <3>1. /\ IsFiniteSet(LiveOn(l)) /\ IsFiniteSet(LiveOn(l) \ metered)
          /\ Cardinality(LiveOn(l)) <= EffectiveCap(l)
          /\ Cardinality(LiveOn(l) \ metered) <= MaxConcurrent[l]
      BY FS_Subset DEF LiveFinite, CapRespected, UnmeteredWithinBase
    <3>2. /\ IsFiniteSet(LiveOn(l)')
          /\ Cardinality(LiveOn(l)') <= Cardinality(LiveOn(l))
          /\ IsFiniteSet((LiveOn(l) \ metered)')
          /\ Cardinality((LiveOn(l) \ metered)') <= Cardinality(LiveOn(l) \ metered)
      BY <2>1, <3>1, FS_Subset
    <3>3. QED BY <1>cap, <3>1, <3>2, FS_CardinalityType
  <2>3. OneLivePerHolder'
    BY <2>1 DEF OnlyEnds, OneLivePerHolder, IsLive
  <2>4. QED BY <2>2, <2>3 DEF LiveFinite, CapRespected, UnmeteredWithinBase, EffectiveCap
<1>2. ASSUME NEW p \in Requests, AcquireCommitNew(p)
      PROVE  LiveFinite' /\ CapRespected' /\ OneLivePerHolder' /\ UnmeteredWithinBase'
  <2> PICK k \in Licenses, t \in Nonces, h \in Holders :
        k = req[p].license /\ t = req[p].nonce /\ h = req[p].holder
    BY <1>2 DEF AcquireCommitNew, RequestShape
  <2>1. /\ t \notin LiveOn(k)
        /\ LiveOn(k)' = LiveOn(k) \union {t}
        /\ \A l \in Licenses : l # k => LiveOn(l)' = LiveOn(l)
        /\ \A n \in Nonces : n # t => lease'[n] = lease[n]
        /\ lease'[t].holder = h /\ lease'[t].license = k
    BY <1>2, CommitAddsOne
  <2>2. /\ HeldBy(k, h) = {}
        /\ Cardinality(LiveOn(k)) <= req[p].used
        /\ req[p].used < EffectiveCap(k) /\ req[p].used \in Nat
    BY <1>2 DEF CountStands, AcquireCommitNew, TypeOK, Request
  <2>3. /\ IsFiniteSet(LiveOn(k)) /\ Cardinality(LiveOn(k)) \in Nat
        /\ IsFiniteSet(LiveOn(k)')
        /\ Cardinality(LiveOn(k)') = Cardinality(LiveOn(k)) + 1
    <3>1. IsFiniteSet(LiveOn(k))
      BY DEF LiveFinite
    <3>2. Cardinality(LiveOn(k)) \in Nat
      BY <3>1, FS_CardinalityType
    <3>3. /\ IsFiniteSet(LiveOn(k) \union {t})
          /\ Cardinality(LiveOn(k) \union {t}) = Cardinality(LiveOn(k)) + 1
      BY <2>1, <3>1, FS_AddElement
    <3>4. QED BY <2>1, <3>1, <3>2, <3>3
  <2>4. metered' = IF req[p].used >= MaxConcurrent[k] THEN metered \union {t}
                   ELSE metered
    BY <1>2 DEF AcquireCommitNew, RequestShape, IsOverageSeat
  <2>5. LiveFinite'
    BY <2>1, <2>3 DEF LiveFinite
  <2>6. CapRespected'
    <3>1. Cardinality(LiveOn(k)') <= EffectiveCap(k)
      BY <1>cap, <2>2, <2>3
    <3>2. \A l \in Licenses : l # k => Cardinality(LiveOn(l)') <= EffectiveCap(l)
      BY <2>1 DEF CapRespected
    <3>3. QED BY <3>1, <3>2 DEF CapRespected, EffectiveCap
  <2>7. OneLivePerHolder'
    <3>1. \A n \in Nonces : n # t /\ IsLive(n) /\ lease[n].license = k
            => lease[n].holder # h
      BY <2>2 DEF HeldBy, LiveOn
    <3>2. \A n \in Nonces : n # t => (IsLive(n)' <=> IsLive(n))
      BY <2>1 DEF IsLive
    <3>3. QED BY <2>1, <3>1, <3>2 DEF OneLivePerHolder
  <2>8. Cardinality((LiveOn(k) \ metered)') <= MaxConcurrent[k]
    <3>1. CASE req[p].used >= MaxConcurrent[k]
      <4>1. (LiveOn(k) \ metered)' \subseteq LiveOn(k) \ metered
        BY <2>1, <2>4, <3>1
      <4>2. IsFiniteSet(LiveOn(k) \ metered)
        BY <2>3, FS_Subset
      <4>3. /\ Cardinality((LiveOn(k) \ metered)') <= Cardinality(LiveOn(k) \ metered)
            /\ Cardinality((LiveOn(k) \ metered)') \in Nat
            /\ Cardinality(LiveOn(k) \ metered) \in Nat
        BY <4>1, <4>2, FS_Subset, FS_CardinalityType
      <4>4. QED BY <1>cap, <4>3 DEF UnmeteredWithinBase
    <3>2. CASE ~(req[p].used >= MaxConcurrent[k])
      <4>1. /\ Cardinality((LiveOn(k) \ metered)') <= Cardinality(LiveOn(k)')
            /\ Cardinality((LiveOn(k) \ metered)') \in Nat
        BY <2>3, FS_Subset, FS_CardinalityType
      <4>2. Cardinality(LiveOn(k)') <= MaxConcurrent[k]
        BY <1>cap, <2>2, <2>3, <3>2
      <4>3. QED BY <1>cap, <2>3, <4>1, <4>2
    <3>3. QED BY <3>1, <3>2
  <2>9. ASSUME NEW l \in Licenses, l # k
        PROVE  Cardinality((LiveOn(l) \ metered)') <= MaxConcurrent[l]
    <3>1. t \notin LiveOn(l)
      BY <1>2, CommitAddsOne
    <3>2. (LiveOn(l) \ metered)' = LiveOn(l) \ metered
      BY <2>1, <2>4, <2>9, <3>1
    <3>3. QED BY <3>2 DEF UnmeteredWithinBase
  <2>10. UnmeteredWithinBase'
    BY <2>8, <2>9 DEF UnmeteredWithinBase
  <2>11. QED BY <2>5, <2>6, <2>7, <2>10
<1> QED BY <1>1, <1>2

-----------------------------------------------------------------------------
(* An empty lease table satisfies the invariant.                           *)
LEMMA InitSeatInv == Init => SeatInv
<1> SUFFICES ASSUME Init PROVE SeatInv
  OBVIOUS
<1>1. TypeOK
  BY BoundAssumption DEF Init, TypeOK, Idle, Request, Phases, LicenseStatus
<1>2. /\ \A l \in Licenses : LiveOn(l) = {} /\ LiveOn(l) \ metered = {}
      /\ \A n \in Nonces : ~IsLive(n)
      /\ \A p \in Requests : req[p].pc = "idle"
  BY DEF Init, LiveOn, IsLive, Idle
<1>3. /\ LiveFinite /\ CapRespected /\ UnmeteredWithinBase
  <2>1. IsFiniteSet({}) /\ Cardinality({}) = 0
    BY FS_EmptySet
  <2>2. \A l \in Licenses : MaxConcurrent[l] \in Nat /\ EffectiveCap(l) \in Nat
    BY CapAssumption DEF EffectiveCap
  <2>3. ASSUME NEW l \in Licenses
        PROVE  /\ IsFiniteSet(LiveOn(l)) /\ Cardinality(LiveOn(l)) = 0
               /\ Cardinality(LiveOn(l) \ metered) = 0
    <3>1. LiveOn(l) = {} /\ LiveOn(l) \ metered = {}
      BY <1>2
    <3>2. QED BY <2>1, <3>1
  <2>4. ASSUME NEW l \in Licenses
        PROVE  /\ Cardinality(LiveOn(l)) <= EffectiveCap(l)
               /\ Cardinality(LiveOn(l) \ metered) <= MaxConcurrent[l]
    <3>1. Cardinality(LiveOn(l)) = 0 /\ Cardinality(LiveOn(l) \ metered) = 0
      BY <2>3
    <3>2. QED BY <2>2, <3>1
  <2>5. QED BY <2>3, <2>4 DEF LiveFinite, CapRespected, UnmeteredWithinBase
<1>4. /\ RequestShape /\ LockHeld /\ PendingUnique /\ CountStands
      /\ OneLivePerHolder
  BY <1>2 DEF RequestShape, LockHeld, UnderLock, PendingUnique, CountStands,
              OneLivePerHolder
<1>5. QED BY <1>1, <1>3, <1>4 DEF SeatInv

(* SeatInv is an invariant of every instance: the conjuncts above are      *)
(* inductive together.                                                     *)
THEOREM SeatInvariant == Spec => []SeatInv
<1>1. Init => SeatInv
  BY InitSeatInv
<1>2. SeatInv /\ [Next]_vars => SeatInv'
  <2> SUFFICES ASSUME SeatInv, [Next]_vars PROVE SeatInv'
    OBVIOUS
  <2> USE DEF SeatInv
  <2>1. TypeOK'
    BY TypeStep
  <2>2. RequestShape'
    BY RequestShapeStep
  <2>3. LockHeld'
    BY LockHeldStep
  <2>4. PendingUnique'
    BY PendingUniqueStep
  <2>5. CountStands'
    BY CountStandsStep
  <2>6. LiveFinite' /\ CapRespected' /\ OneLivePerHolder' /\ UnmeteredWithinBase'
    BY SeatsStep
  <2>7. QED BY <2>1, <2>2, <2>3, <2>4, <2>5, <2>6
<1>3. QED BY <1>1, <1>2, PTL DEF Spec

(* Every variable keeps its type, for any number of requests and tokens.   *)
THEOREM TypeCorrect == Spec => []TypeOK
<1>1. SeatInv => TypeOK
  BY DEF SeatInv
<1>2. QED BY <1>1, SeatInvariant, PTL

(* The effective cap is never exceeded, whatever acquires race (FR-003).   *)
THEOREM CapIsRespected == Spec => []CapRespected
<1>1. SeatInv => CapRespected
  BY DEF SeatInv
<1>2. QED BY <1>1, SeatInvariant, PTL

(* A holder never occupies two seats of one license (FR-023).              *)
THEOREM HolderHasOneSeat == Spec => []OneLivePerHolder
<1>1. SeatInv => OneLivePerHolder
  BY DEF SeatInv
<1>2. QED BY <1>1, SeatInvariant, PTL

(* Seats in use that were never metered always fit the base cap (FR-013).  *)
THEOREM OverageIsMetered == Spec => []UnmeteredWithinBase
<1>1. SeatInv => UnmeteredWithinBase
  BY DEF SeatInv
<1>2. QED BY <1>1, SeatInvariant, PTL

-----------------------------------------------------------------------------
(* An ended lease is never touched again (FR-011): no step, late renew or  *)
(* replayed acquire included, changes a row that is not live.              *)
THEOREM EndedStaysEnded == Spec => NoRevival
<1> DEFINE Keeps == \A n \in Nonces :
                      (lease[n] # None /\ ~IsLive(n)) => lease'[n] = lease[n]
<1>1. SeatInv /\ [Next]_vars => [Keeps]_vars
  <2> SUFFICES ASSUME SeatInv, [Next]_vars PROVE Keeps
    OBVIOUS
  <2> USE DEF SeatInv
  <2>1. ASSUME NEW p \in Requests, AcquireCommitNew(p)
        PROVE  Keeps
    <3>1. /\ req[p].target = req[p].nonce /\ req[p].nonce \in Nonces
          /\ lease[req[p].nonce] = None
      BY <2>1 DEF AcquireCommitNew, RequestShape
    <3>2. \A n \in Nonces : n # req[p].nonce => lease'[n] = lease[n]
      BY <2>1, <3>1 DEF AcquireCommitNew, TypeOK
    <3>3. QED BY <3>1, <3>2
  <2>2. ASSUME NEW p \in Requests, RenewCommit(p)
        PROVE  Keeps
    <3>1. /\ req[p].target \in Nonces /\ lease[req[p].target] # None
          /\ lease[req[p].target].status = "live"
      BY <2>2 DEF RenewCommit, Renewable, RequestShape
    <3>2. \A n \in Nonces : n # req[p].target => lease'[n] = lease[n]
      BY <2>2, <3>1 DEF RenewCommit, TypeOK
    <3>3. QED BY <3>1, <3>2 DEF IsLive
  <2>3. ASSUME NEW n \in Nonces, Release(n) \/ ForceRelease(n)
        PROVE  Keeps
    BY <2>3 DEF Release, ForceRelease, TypeOK
  <2>4. CASE ReclaimSweep
    BY <2>4 DEF ReclaimSweep, OldestFirst, GraceDue, PolicyDue
  <2>5. CASE UNCHANGED lease
    BY <2>5
  <2> QED
    BY <2>1, <2>2, <2>3, <2>4, <2>5
    DEF Next, Handler, Finish, AcquireStep, RenewStep, Environment, vars,
        AcquirePrepare, AcquireLock, AcquireByHolder, AcquireCount, AcquireInsert,
        AcquireCommitReplay, RenewRead, RenewRefuse, Rollback, SuspendLicense,
        ReinstateLicense, RevokeLicense, Tick
<1>2. QED BY <1>1, SeatInvariant, PTL DEF Spec, NoRevival

-----------------------------------------------------------------------------
(* The refinement mapping of Pool, by name.                                *)
Occupied == [l \in Licenses |-> {<<n, lease[n].holder>> : n \in LiveOn(l)}]
Spent == {n \in Nonces : lease[n] # None /\ ~IsLive(n)}

(* There are no more occupancies than live rows.                           *)
LEMMA OccupiedSize ==
  ASSUME NEW l \in Licenses, IsFiniteSet(LiveOn(l))
  PROVE  /\ IsFiniteSet(Occupied[l])
         /\ Cardinality(Occupied[l]) <= Cardinality(LiveOn(l))
<1> DEFINE f == [n \in LiveOn(l) |-> <<n, lease[n].holder>>]
<1>1. f \in Surjection(LiveOn(l), Occupied[l])
  BY DEF Surjection, Occupied
<1> HIDE DEF f
<1>2. QED BY <1>1, FS_Surjection

(* A commit of a new seat is a Grant of the pool.                          *)
LEMMA CommitIsGrant ==
  ASSUME SeatInv, NEW p \in Requests, AcquireCommitNew(p)
  PROVE  \E l \in Licenses, s \in Nonces, h \in Holders : Pool!Grant(l, s, h)
<1> USE DEF SeatInv
<1> PICK k \in Licenses, t \in Nonces, h \in Holders :
      k = req[p].license /\ t = req[p].nonce /\ h = req[p].holder
  BY DEF AcquireCommitNew, RequestShape
<1>1. /\ lease[t] = None /\ lease'[t] # None
      /\ \A l \in Licenses : t \notin LiveOn(l)
      /\ LiveOn(k)' = LiveOn(k) \union {t}
      /\ \A l \in Licenses : l # k => LiveOn(l)' = LiveOn(l)
      /\ \A n \in Nonces : n # t => lease'[n] = lease[n]
      /\ lease'[t].holder = h
  BY CommitAddsOne
<1>2. /\ HeldBy(k, h) = {}
      /\ Cardinality(LiveOn(k)) <= req[p].used
      /\ req[p].used < EffectiveCap(k) /\ req[p].used \in Nat
  BY DEF CountStands, AcquireCommitNew, TypeOK, Request
<1>3. t \notin Spent /\ \A l \in Licenses : \A o \in Occupied[l] : o[1] # t
  BY <1>1 DEF Spent, Occupied
<1>4. \A o \in Occupied[k] : o[2] # h
  BY <1>2 DEF Occupied, HeldBy
<1>5. Cardinality(Occupied[k]) < EffectiveCap(k)
  <2>1. IsFiniteSet(LiveOn(k)) /\ Cardinality(LiveOn(k)) \in Nat
    BY FS_CardinalityType DEF LiveFinite
  <2>2. /\ IsFiniteSet(Occupied[k])
        /\ Cardinality(Occupied[k]) <= Cardinality(LiveOn(k))
    BY <2>1, OccupiedSize
  <2>3. Cardinality(Occupied[k]) \in Nat
    BY <2>2, FS_CardinalityType
  <2>4. EffectiveCap(k) \in Nat
    BY CapAssumption DEF EffectiveCap
  <2>5. QED BY <1>2, <2>1, <2>2, <2>3, <2>4
<1>6. Occupied' = [Occupied EXCEPT ![k] = @ \union {<<t, h>>}]
  <2>1. ASSUME NEW l \in Licenses, l # k
        PROVE  Occupied'[l] = Occupied[l]
    <3>1. LiveOn(l)' = LiveOn(l) /\ \A n \in LiveOn(l) : lease'[n] = lease[n]
      BY <1>1, <2>1 DEF LiveOn
    <3>2. QED BY <3>1 DEF Occupied
  <2>2. Occupied'[k] = Occupied[k] \union {<<t, h>>}
    <3>1. \A n \in LiveOn(k) : lease'[n] = lease[n]
      BY <1>1 DEF LiveOn
    <3>2. QED BY <1>1, <3>1 DEF Occupied
  <2>3. QED BY <2>1, <2>2 DEF Occupied
<1>7. Spent' = Spent
  <2>1. IsLive(t)'
    BY <1>1 DEF LiveOn
  <2>2. QED BY <1>1, <2>1 DEF Spent, IsLive
<1>8. Pool!Grant(k, t, h)
  <2>1. Pool!Cardinality(Occupied[k]) = Cardinality(Occupied[k])
    BY DEF Pool!Cardinality, Cardinality, Pool!IsFiniteSet, IsFiniteSet
  <2>2. QED BY <1>3, <1>4, <1>5, <1>6, <1>7, <2>1 DEF Pool!Grant, Occupied, Spent
<1>9. QED BY <1>8

(* Any other step ends a set of seats, or changes none.                    *)
LEMMA OtherIsEnd ==
  ASSUME SeatInv, OnlyEnds
  PROVE  \/ \E S \in SUBSET Nonces : Pool!End(S)
         \/ Occupied' = Occupied /\ Spent' = Spent
<1> PICK S : S = {n \in Nonces : IsLive(n) /\ ~IsLive(n)'}
  OBVIOUS
<1>1. \A n \in Nonces : IsLive(n) => lease[n].license \in Licenses
  BY DEF SeatInv, TypeOK, IsLive, Lease
<1>2. ASSUME NEW l \in Licenses
      PROVE  LiveOn(l)' = LiveOn(l) \ S
  BY DEF LiveOn, OnlyEnds, IsLive
<1>3. ASSUME NEW l \in Licenses
      PROVE  Occupied'[l] = {o \in Occupied[l] : o[1] \notin S}
  <2>1. \A n \in LiveOn(l) \ S : lease'[n].holder = lease[n].holder
    BY DEF LiveOn, IsLive, OnlyEnds
  <2>2. Occupied'[l] = {<<n, lease'[n].holder>> : n \in LiveOn(l) \ S}
    BY <1>2 DEF Occupied
  <2>3. Occupied[l] = {<<n, lease[n].holder>> : n \in LiveOn(l)}
    BY DEF Occupied
  <2>4. QED BY <2>1, <2>2, <2>3
<1>4. Spent' = Spent \union S
  BY DEF Spent, OnlyEnds, IsLive
<1>5. Occupied' = [l \in Licenses |-> {o \in Occupied[l] : o[1] \notin S}]
  <2>1. Occupied' = [l \in Licenses |-> Occupied'[l]]
    BY DEF Occupied
  <2>2. QED BY <1>3, <2>1
<1>6. \A s \in S : \E l \in Licenses : \E o \in Occupied[l] : o[1] = s
  <2>1. ASSUME NEW s \in S
        PROVE  <<s, lease[s].holder>> \in Occupied[lease[s].license]
    BY <1>1 DEF Occupied, LiveOn
  <2>2. \A s \in S : lease[s].license \in Licenses /\ <<s, lease[s].holder>>[1] = s
    BY <1>1
  <2>3. QED BY <2>1, <2>2
<1>7. CASE S = {}
  <2>1. Occupied = [l \in Licenses |-> {o \in Occupied[l] : TRUE}]
    BY DEF Occupied
  <2>2. QED BY <1>4, <1>5, <1>7, <2>1
<1>8. CASE S # {}
  <2>1. Pool!End(S)
    BY <1>4, <1>5, <1>6, <1>8 DEF Pool!End, Occupied, Spent
  <2>2. QED BY <2>1
<1>9. QED BY <1>7, <1>8

(* The lease transactions, their locks, counts and crashes included,       *)
(* implement the abstract seat pool: for every instance, each step grants  *)
(* one free seat within the cap, ends seats for good, or changes nothing.  *)
THEOREM LeasesImplementSeatPool == Spec => ImplementsSeatPool
<1>1. Init => Pool!Init
  BY DEF Init, Pool!Init, LiveOn, IsLive
<1>2. SeatInv /\ [Next]_vars => [Pool!Next]_(Pool!vars)
  <2> SUFFICES ASSUME SeatInv, [Next]_vars
               PROVE  Pool!Next \/ UNCHANGED Pool!vars
    OBVIOUS
  <2>1. CASE \E p \in Requests : AcquireCommitNew(p)
    BY <2>1, CommitIsGrant DEF Pool!Next
  <2>2. CASE \A p \in Requests : ~AcquireCommitNew(p)
    <3>1. OnlyEnds
      BY <2>2, StepOnlyEnds DEF SeatInv
    <3>2. (Occupied' = Occupied /\ Spent' = Spent) => UNCHANGED Pool!vars
      BY DEF Pool!vars, Occupied, Spent
    <3>3. QED BY <3>1, <3>2, OtherIsEnd DEF Pool!Next
  <2>3. QED BY <2>1, <2>2
<1>3. QED BY <1>1, <1>2, SeatInvariant, PTL DEF Spec, ImplementsSeatPool, Pool!Spec
-----------------------------------------------------------------------------
(***************************************************************************)
(* How long a handle outlives its seat, for every number of requests and   *)
(* every timing of the leases.                                             *)
(*                                                                         *)
(* Expiries do not only grow: a slow renew commits, after a quick one, an  *)
(* expiry counted from its own earlier begin.  TimeInv says how far back   *)
(* that can go: a request lasts at most MaxTx, so what a lease has ever    *)
(* promised is at most its present expiry and MaxTx.                       *)
(***************************************************************************)

RowTimes(n) ==
  /\ handleExp[n] <= clock + Heartbeat
  /\ lease[n] # None => /\ handleExp[n] <= lease[n].expires + MaxTx
                        /\ lease[n].expires <= clock + Ttl
                        /\ lease[n].ended <= clock

RequestTimes(r) ==
  r.pc # "idle" =>
    /\ r.since <= clock /\ clock <= r.since + MaxTx
    /\ r.pc # "prepared" => r.since <= r.at /\ r.at <= clock
    /\ r.pc = "replaying" => /\ r.seen <= clock + Ttl
                             /\ r.seen <= lease[r.target].expires + MaxTx

TimeInv ==
  /\ \A n \in Nonces : RowTimes(n)
  /\ \A p \in Requests : RequestTimes(req[p])

LEMMA Numbers ==
  /\ Heartbeat \in Nat /\ Ttl \in Nat /\ Grace \in Nat /\ MaxTx \in Nat /\ MaxClock \in Nat
  /\ Heartbeat <= Ttl
BY TimingAssumption, BoundAssumption DEF TtlFloor

LEMMA Instants ==
  ASSUME TypeOK
  PROVE  /\ clock \in Nat
         /\ \A n \in Nonces : /\ handleExp[n] \in Nat
                              /\ lease[n] # None => /\ lease[n] \in Lease /\ lease[n].expires \in Nat
                                                    /\ lease[n].ended \in Nat
         /\ \A p \in Requests : /\ req[p] \in Request /\ req[p].since \in Nat
                                /\ req[p].at \in Nat /\ req[p].seen \in Nat
BY Numbers DEF TypeOK, Lease, Request

(* The requests other than p, and p itself once it is idle.                *)
LEMMA Others ==
  ASSUME TypeOK, NEW p \in Requests, NEW r, Becomes(p, r)
  PROVE  req'[p] = r /\ \A q \in Requests \ {p} : req'[q] = req[q]
BY DEF TypeOK, Becomes

LEMMA IdleTimes == RequestTimes(Idle) /\ RequestTimes(Idle)'
BY DEF RequestTimes, Idle

(* A step that leaves the rows, the handles and the clock as they are.     *)
LEMMA QuietStep ==
  ASSUME SeatInv, TimeInv, UNCHANGED <<clock, lease, handleExp>>,
         NEW p \in Requests, NEW r, Becomes(p, r), RequestTimes(r)
  PROVE  TimeInv'
<1>1. req'[p] = r /\ \A q \in Requests \ {p} : req'[q] = req[q]
  BY Others DEF SeatInv
<1>2. \A q \in Requests : RequestTimes(req[q])'
  BY <1>1 DEF TimeInv, RequestTimes
<1> QED
  BY <1>2 DEF TimeInv, RowTimes

LEMMA AcquireTimes ==
  ASSUME SeatInv, TimeInv, NEW p \in Requests,
         \/ \E l \in Licenses, h \in Holders, n \in Nonces : AcquirePrepare(p, l, h, n)
         \/ AcquireLock(p) \/ AcquireByHolder(p) \/ AcquireCount(p) \/ AcquireInsert(p)
  PROVE  TimeInv'
<1>0. /\ TypeOK /\ clock \in Nat /\ req[p] \in Request /\ RequestTimes(req[p])
      /\ UNCHANGED <<clock, lease, handleExp>>
  BY Instants DEF SeatInv, TimeInv, AcquirePrepare, AcquireLock, AcquireByHolder, AcquireCount,
                  AcquireInsert
<1>1. ASSUME NEW l \in Licenses, NEW h \in Holders, NEW n \in Nonces, AcquirePrepare(p, l, h, n)
      PROVE  TimeInv'
  <2> DEFINE r == [Idle EXCEPT !.pc = "prepared", !.license = l, !.holder = h, !.nonce = n,
                               !.since = clock]
  <2>1. r.pc = "prepared" /\ r.since = clock
    BY DEF Idle
  <2>2. RequestTimes(r)
    BY <1>0, <2>1, Numbers DEF RequestTimes
  <2> QED
    BY <1>0, <1>1, <2>2, QuietStep DEF AcquirePrepare
<1>2. ASSUME AcquireLock(p) PROVE TimeInv'
  <2>1. PICK now \in req[p].since .. clock :
          LET n == req[p].nonce IN
            IF lease[n] # None
            THEN Becomes(p, [req[p] EXCEPT !.pc = "replaying", !.target = n,
                                           !.at = now, !.seen = lease[n].expires])
            ELSE Becomes(p, [req[p] EXCEPT !.pc = "tokenNew", !.at = now])
    BY <1>2 DEF AcquireLock
  <2>2. /\ req[p].pc = "prepared" /\ req[p].nonce \in Nonces
        /\ now \in Nat /\ req[p].since <= now /\ now <= clock
    <3>1. req[p].since \in Nat
      BY <1>0, Instants
    <3>2. now \in Nat /\ req[p].since <= now /\ now <= clock
      BY <1>0, <3>1
    <3>3. req[p].pc = "prepared"
      BY <1>2 DEF AcquireLock
    <3> QED
      BY <3>2, <3>3 DEF SeatInv, RequestShape
  <2>3. CASE lease[req[p].nonce] # None
    <3> DEFINE n == req[p].nonce
               r == [req[p] EXCEPT !.pc = "replaying", !.target = n, !.at = now,
                                   !.seen = lease[n].expires]
    <3>1. /\ r.pc = "replaying" /\ r.target = n /\ r.at = now /\ r.seen = lease[n].expires
          /\ r.since = req[p].since
      BY <1>0 DEF Request
    <3>2. lease[n].expires <= clock + Ttl /\ lease[n].expires \in Nat
      BY <1>0, <2>2, <2>3, Instants DEF TimeInv, RowTimes
    <3>3. RequestTimes(r)
      BY <1>0, <2>2, <3>1, <3>2, Numbers DEF RequestTimes
    <3>4. Becomes(p, r)
      BY <2>1, <2>3
    <3> HIDE DEF r
    <3> QED
      BY <1>0, <3>3, <3>4, QuietStep
  <2>4. CASE lease[req[p].nonce] = None
    <3> DEFINE r == [req[p] EXCEPT !.pc = "tokenNew", !.at = now]
    <3>1. r.pc = "tokenNew" /\ r.at = now /\ r.since = req[p].since
      BY <1>0 DEF Request
    <3>2. RequestTimes(r)
      BY <1>0, <2>2, <3>1 DEF RequestTimes
    <3> QED
      BY <1>0, <2>1, <2>4, <3>2, QuietStep
  <2> QED
    BY <2>3, <2>4
<1>3. ASSUME AcquireByHolder(p) PROVE TimeInv'
  <2>1. PICK n \in HeldBy(req[p].license, req[p].holder) :
          Becomes(p, [req[p] EXCEPT !.pc = "replaying", !.target = n, !.seen = lease[n].expires])
    BY <1>3 DEF AcquireByHolder
  <2> DEFINE r == [req[p] EXCEPT !.pc = "replaying", !.target = n, !.seen = lease[n].expires]
  <2>2. n \in Nonces /\ lease[n] # None /\ req[p].pc = "tokenNew"
    BY <1>3 DEF HeldBy, LiveOn, IsLive, AcquireByHolder
  <2>3. /\ r.pc = "replaying" /\ r.target = n /\ r.at = req[p].at /\ r.seen = lease[n].expires
        /\ r.since = req[p].since
    BY <1>0 DEF Request
  <2>4. lease[n].expires <= clock + Ttl /\ lease[n].expires \in Nat
    BY <1>0, <2>2, Instants DEF TimeInv, RowTimes
  <2>5. RequestTimes(r)
    BY <1>0, <2>2, <2>3, <2>4, Numbers DEF RequestTimes
  <2> QED
    BY <1>0, <2>1, <2>5, QuietStep
<1>4. ASSUME NEW r, Becomes(p, r), r = Idle \/ (/\ r.since = req[p].since /\ r.at = req[p].at
                                                /\ r.pc \in {"counted", "inserted", "aborted"}
                                                /\ req[p].pc \in {"tokenNew", "counted"})
      PROVE  TimeInv'
  <2>1. RequestTimes(r)
    BY <1>0, <1>4, IdleTimes DEF RequestTimes
  <2> QED
    BY <1>0, <1>4, <2>1, QuietStep
<1>5. ASSUME AcquireCount(p) PROVE TimeInv'
  <2>1. PICK u : \/ Becomes(p, Idle)
                 \/ Becomes(p, [req[p] EXCEPT !.pc = "counted", !.used = u])
    BY <1>5 DEF AcquireCount
  <2> DEFINE r == [req[p] EXCEPT !.pc = "counted", !.used = u]
  <2>2. r.since = req[p].since /\ r.at = req[p].at /\ r.pc = "counted" /\ req[p].pc = "tokenNew"
    BY <1>0, <1>5 DEF Request, AcquireCount
  <2> HIDE DEF r
  <2> QED
    BY <1>4, <2>1, <2>2 DEF r
<1>6. ASSUME AcquireInsert(p) PROVE TimeInv'
  <2> DEFINE r == [req[p] EXCEPT !.pc = "inserted", !.target = req[p].nonce]
             s == [req[p] EXCEPT !.pc = "aborted"]
  <2>1. /\ r.since = req[p].since /\ r.at = req[p].at /\ r.pc = "inserted"
        /\ s.since = req[p].since /\ s.at = req[p].at /\ s.pc = "aborted"
        /\ req[p].pc = "counted" /\ (Becomes(p, r) \/ Becomes(p, s))
    BY <1>0, <1>6 DEF Request, AcquireInsert
  <2> HIDE DEF r, s
  <2> QED
    BY <1>4, <2>1
<1> QED
  BY <1>1, <1>2, <1>3, <1>5, <1>6

LEMMA RenewReadTimes ==
  ASSUME SeatInv, TimeInv, NEW p \in Requests, NEW n \in Nonces, RenewRead(p, n)
  PROVE  TimeInv'
<1> DEFINE r == [Idle EXCEPT !.pc = "renewing", !.target = n, !.since = clock, !.at = clock]
<1>1. r.pc = "renewing" /\ r.since = clock /\ r.at = clock /\ Becomes(p, r)
  BY DEF Idle, RenewRead
<1>2. clock \in Nat
  BY Instants DEF SeatInv
<1> HIDE DEF r
<1>3. RequestTimes(r)
  BY <1>1, <1>2, Numbers DEF RequestTimes
<1> QED
  BY <1>1, <1>3, QuietStep DEF RenewRead

(* A request that ends without delivering anything.                        *)
LEMMA EndTimes ==
  ASSUME SeatInv, TimeInv, NEW p \in Requests, RenewRefuse(p) \/ Rollback(p)
  PROVE  TimeInv'
BY IdleTimes, QuietStep DEF RenewRefuse, Rollback

(* No handle outlives the heartbeat or the expiry it was given for.        *)
LEMMA HandleBound ==
  ASSUME SeatInv, NEW n \in Nonces, NEW e \in Nat, DeliverHandle(n, e)
  PROVE  /\ \A m \in Nonces \ {n} : handleExp'[m] = handleExp[m]
         /\ \/ handleExp'[n] = handleExp[n]
            \/ handleExp'[n] <= e /\ handleExp'[n] <= clock + Heartbeat
         /\ handleExp'[n] \in Nat /\ handleExp[n] \in Nat
<1>1. clock \in Nat /\ handleExp \in [Nonces -> Nat]
  BY Instants DEF SeatInv, TypeOK
<1> QED
  BY <1>1, Numbers DEF DeliverHandle, BoundedHandleExpiry, Later

(* A lease written now, by a request under way: whatever was promised for  *)
(* it before is within MaxTx of its new expiry.                            *)
LEMMA WriteTimes ==
  ASSUME SeatInv, TimeInv, TypeOK', UNCHANGED clock, NEW p \in Requests, Becomes(p, Idle),
         req[p].pc \in {"inserted", "renewing"}, NEW n \in Nonces,
         DeliverHandle(n, req[p].at + Ttl),
         lease'[n] # None, lease'[n].expires = req[p].at + Ttl, lease'[n].ended <= clock,
         \A m \in Nonces \ {n} : lease'[m] = lease[m]
  PROVE  TimeInv'
<1>0. /\ TypeOK /\ clock \in Nat /\ req[p].since \in Nat /\ req[p].at \in Nat
      /\ req[p].since <= req[p].at /\ req[p].at <= clock /\ clock <= req[p].since + MaxTx
  BY Instants DEF SeatInv, TimeInv, RequestTimes
<1>1. clock + Ttl <= lease'[n].expires + MaxTx /\ lease'[n].expires <= clock + Ttl
      /\ lease'[n].expires \in Nat
  BY <1>0, Numbers
<1>2. ASSUME NEW m \in Nonces PROVE RowTimes(m)'
  <2>1. req[p].at + Ttl \in Nat
    BY <1>0, Numbers
  <2>2. CASE m # n
    BY <2>1, <2>2, HandleBound DEF TimeInv, RowTimes
  <2>3. CASE m = n
    <3>1. /\ handleExp[n] <= clock + Heartbeat /\ handleExp[n] \in Nat /\ handleExp'[n] \in Nat
          /\ handleExp'[n] <= clock + Heartbeat
      BY <1>0, <2>1, HandleBound, Numbers DEF TimeInv, RowTimes
    <3>2. handleExp'[n] <= lease'[n].expires + MaxTx
      BY <1>0, <1>1, <3>1, Numbers
    <3> QED
      BY <1>1, <2>3, <3>1, <3>2 DEF RowTimes
  <2> QED
    BY <2>2, <2>3
<1>3. ASSUME NEW q \in Requests PROVE RequestTimes(req[q])'
  <2>1. CASE q = p
    BY <1>0, <2>1, Others, IdleTimes DEF RequestTimes
  <2>2. CASE q # p
    <3>1. req'[q] = req[q] /\ RequestTimes(req[q]) /\ req[q].seen \in Nat
      BY <1>0, <2>2, Others, Instants DEF TimeInv
    <3>2. req[q].pc = "replaying" => req[q].seen <= lease'[req[q].target].expires + MaxTx
      <4>1. req[q].pc = "replaying" => req[q].target \in Nonces /\ req[q].seen <= clock + Ttl
        BY <3>1 DEF RequestTimes, SeatInv, RequestShape
      <4>2. CASE req[q].target = n
        BY <1>0, <1>1, <3>1, <4>1, <4>2, Numbers
      <4>3. CASE req[q].target # n
        BY <3>1, <4>1, <4>3 DEF RequestTimes
      <4> QED
        BY <4>2, <4>3
    <3> QED
      BY <3>1, <3>2 DEF RequestTimes
  <2> QED
    BY <2>1, <2>2
<1> QED
  BY <1>2, <1>3 DEF TimeInv

LEMMA NewLeaseTimes ==
  ASSUME SeatInv, TimeInv, TypeOK', NEW p \in Requests, AcquireCommitNew(p)
  PROVE  TimeInv'
<1> DEFINE n == req[p].target
           row == [license |-> req[p].license, holder |-> req[p].holder,
                   overage |-> IsOverageSeat(req[p].license, req[p].used),
                   status |-> "live", expires |-> req[p].at + Ttl, ended |-> 0]
<1>1. /\ req[p].pc = "inserted" /\ n \in Nonces /\ Becomes(p, Idle) /\ UNCHANGED clock
      /\ DeliverHandle(n, req[p].at + Ttl) /\ lease' = [lease EXCEPT ![n] = row]
  BY DEF AcquireCommitNew, SeatInv, RequestShape
<1>2. row.expires = req[p].at + Ttl /\ row.ended = 0
  OBVIOUS
<1>3. row # None
  <2>1. req[p].license \in Licenses /\ req[p].holder \in Holders /\ req[p].at \in Nat
    BY <1>1, Instants DEF SeatInv, RequestShape
  <2>2. row \in Lease
    BY <2>1, Numbers DEF Lease, IsOverageSeat
  <2> QED
    BY <2>2, NoneAssumption
<1> HIDE DEF row
<1>4. lease'[n] = row /\ \A m \in Nonces \ {n} : lease'[m] = lease[m]
  BY <1>1 DEF SeatInv, TypeOK
<1>5. clock \in Nat
  BY Instants DEF SeatInv
<1> QED
  BY <1>1, <1>2, <1>3, <1>4, <1>5, WriteTimes

LEMMA RenewTimes ==
  ASSUME SeatInv, TimeInv, TypeOK', NEW p \in Requests, RenewCommit(p)
  PROVE  TimeInv'
<1> DEFINE n == req[p].target
           row == [lease[n] EXCEPT !.expires = req[p].at + Ttl]
<1>1. /\ req[p].pc = "renewing" /\ n \in Nonces /\ lease[n] # None /\ lease[n] \in Lease
      /\ Becomes(p, Idle) /\ UNCHANGED clock
      /\ DeliverHandle(n, req[p].at + Ttl) /\ lease' = [lease EXCEPT ![n] = row]
  BY Instants DEF RenewCommit, SeatInv, RequestShape
<1>2. row.expires = req[p].at + Ttl /\ row.ended = lease[n].ended /\ row \in Lease
  BY <1>1, Instants, Numbers DEF SeatInv, Lease
<1> HIDE DEF row
<1>3. lease'[n] = row /\ \A m \in Nonces \ {n} : lease'[m] = lease[m] /\ row # None
  BY <1>1, <1>2, NoneAssumption DEF SeatInv, TypeOK
<1>4. lease'[n] # None /\ lease'[n].ended <= clock
  BY <1>1, <1>2, <1>3, NoneAssumption DEF TimeInv, RowTimes
<1> QED
  BY <1>1, <1>2, <1>3, <1>4, WriteTimes

(* A replay delivers what it read of the lease, which may have moved.      *)
LEMMA ReplayTimes ==
  ASSUME SeatInv, TimeInv, NEW p \in Requests, AcquireCommitReplay(p)
  PROVE  TimeInv'
<1> DEFINE n == req[p].target
<1>0. /\ TypeOK /\ req[p].pc = "replaying" /\ n \in Nonces /\ lease[n] # None
      /\ req[p].seen \in Nat /\ req[p].seen <= lease[n].expires + MaxTx
      /\ UNCHANGED <<clock, lease>> /\ DeliverHandle(n, req[p].seen) /\ Becomes(p, Idle)
  BY Instants DEF AcquireCommitReplay, SeatInv, RequestShape, TimeInv, RequestTimes
<1>1. ASSUME NEW m \in Nonces PROVE RowTimes(m)'
  <2>1. CASE m # n
    BY <1>0, <2>1, HandleBound DEF TimeInv, RowTimes
  <2>2. CASE m = n
    <3>1. /\ RowTimes(n) /\ handleExp'[n] \in Nat /\ clock \in Nat /\ lease[n].expires \in Nat
      BY <1>0, Instants, HandleBound DEF TimeInv
    <3>2. handleExp'[n] <= lease[n].expires + MaxTx /\ handleExp'[n] <= clock + Heartbeat
      BY <1>0, <3>1, HandleBound, Numbers DEF RowTimes
    <3> QED
      BY <1>0, <2>2, <3>1, <3>2 DEF RowTimes
  <2> QED
    BY <2>1, <2>2
<1>2. \A q \in Requests : RequestTimes(req[q])'
  BY <1>0, Others, IdleTimes DEF TimeInv, RequestTimes
<1> QED
  BY <1>1, <1>2 DEF TimeInv

(* Leases that end keep their expiry, and end now.                         *)
LEMMA EndedTimes ==
  ASSUME SeatInv, TimeInv, UNCHANGED <<clock, handleExp, req>>,
         \A n \in Nonces : \/ lease'[n] = lease[n]
                           \/ /\ lease[n] # None /\ lease'[n].ended = clock
                              /\ lease'[n].expires = lease[n].expires
  PROVE  TimeInv'
<1>1. TypeOK /\ clock \in Nat
  BY Instants DEF SeatInv
<1>2. ASSUME NEW n \in Nonces PROVE RowTimes(n)'
  BY <1>1 DEF TimeInv, RowTimes
<1>3. ASSUME NEW q \in Requests PROVE RequestTimes(req[q])'
  <2>1. req[q].pc = "replaying" => req[q].target \in Nonces
    BY DEF SeatInv, RequestShape
  <2>2. RequestTimes(req[q]) /\ req'[q] = req[q]
    BY DEF TimeInv
  <2>3. req[q].pc = "replaying" => lease'[req[q].target].expires = lease[req[q].target].expires
    BY <2>1
  <2> QED
    BY <2>2, <2>3 DEF RequestTimes
<1> QED
  BY <1>2, <1>3 DEF TimeInv

LEMMA ReleaseTimes ==
  ASSUME SeatInv, TimeInv, (\E n \in Nonces : Release(n) \/ ForceRelease(n)) \/ ReclaimSweep
  PROVE  TimeInv'
<1>1. UNCHANGED <<clock, handleExp, req>>
  BY DEF Release, ForceRelease, ReclaimSweep
<1>2. ASSUME NEW row \in Lease, NEW st PROVE Ended(row, st).ended = clock /\ Ended(row, st).expires = row.expires
  BY DEF Ended, Lease
<1>3. ASSUME NEW n \in Nonces
      PROVE  \/ lease'[n] = lease[n]
             \/ lease[n] # None /\ \E st : lease'[n] = Ended(lease[n], st)
  BY DEF Release, ForceRelease, ReclaimSweep, OldestFirst, GraceDue, PolicyDue, IsLive, SeatInv,
         TypeOK
<1>4. \A n \in Nonces : lease[n] # None => lease[n] \in Lease
  BY Instants DEF SeatInv
<1> QED
  BY <1>1, <1>2, <1>3, <1>4, EndedTimes

LEMMA TickTimes ==
  ASSUME SeatInv, TimeInv, Tick
  PROVE  TimeInv'
<1>0. TypeOK /\ clock \in Nat /\ clock' = clock + 1 /\ UNCHANGED <<lease, handleExp, req>>
  BY Instants DEF SeatInv, Tick
<1>1. ASSUME NEW n \in Nonces PROVE RowTimes(n)'
  BY <1>0, Instants, Numbers DEF TimeInv, RowTimes
<1>2. ASSUME NEW q \in Requests PROVE RequestTimes(req[q])'
  BY <1>0, Instants, Numbers DEF TimeInv, RequestTimes, Tick
<1> QED
  BY <1>1, <1>2 DEF TimeInv

LEMMA OperatorTimes ==
  ASSUME TimeInv, \/ UNCHANGED vars
                  \/ \E l \in Licenses : SuspendLicense(l) \/ ReinstateLicense(l) \/ RevokeLicense(l)
  PROVE  TimeInv'
<1>1. UNCHANGED <<clock, lease, handleExp, req>>
  BY DEF vars, SuspendLicense, ReinstateLicense, RevokeLicense
<1> QED
  BY <1>1 DEF TimeInv, RowTimes, RequestTimes

LEMMA NextTimeInv ==
  ASSUME SeatInv, SeatInv', TimeInv, [Next]_vars
  PROVE  TimeInv'
<1>0. TypeOK'
  BY DEF SeatInv
<1>1. ASSUME NEW p \in Requests, Handler(p) PROVE TimeInv'
  BY <1>0, <1>1, AcquireTimes, RenewReadTimes, EndTimes, NewLeaseTimes, RenewTimes, ReplayTimes
     DEF Handler, Finish, AcquireStep, RenewStep
<1>2. CASE Environment
  BY <1>2, ReleaseTimes, OperatorTimes, TickTimes, OperatedAssumption DEF Environment
<1> QED
  BY <1>1, <1>2, ReleaseTimes, OperatorTimes DEF Next

LEMMA InitTimeInv == Init => TimeInv
BY Numbers, IdleTimes DEF Init, TimeInv, RowTimes

THEOREM TimesHold == Spec => [](SeatInv /\ TimeInv)
<1>1. SeatInv /\ SeatInv' /\ TimeInv /\ [Next]_vars => TimeInv'
  BY NextTimeInv
<1> QED
  BY <1>1, InitTimeInv, SeatInvariant, PTL DEF Spec

(* A seat the timer takes back is dark: every handle ever delivered for it *)
(* has run out, if the grace covers the longest request.                   *)
THEOREM TimerReclaimIsSafe ==
  ASSUME MaxTx <= Grace
  PROVE  Spec => []TimerReclaimSafe
<1>1. SeatInv /\ TimeInv => TimerReclaimSafe
  <2> SUFFICES ASSUME SeatInv, TimeInv, NEW n \in Nonces, lease[n] # None,
                      lease[n].expires + Grace < lease[n].ended
               PROVE  handleExp[n] < clock
    BY DEF TimerReclaimSafe
  <2>1. /\ TypeOK /\ clock \in Nat /\ handleExp[n] \in Nat /\ lease[n].expires \in Nat
        /\ lease[n].ended \in Nat
    BY Instants DEF SeatInv
  <2> QED
    BY <2>1, Numbers DEF TimeInv, RowTimes
<1> QED
  BY <1>1, TimesHold, PTL
-----------------------------------------------------------------------------
(* No token is presented for two licenses.                                 *)
TokensApart == \A k, l \in Licenses : k # l => NoncesFor[k] \intersect NoncesFor[l] = {}

(* The license a request is about, known to be not revoked when the        *)
(* request came in.                                                        *)
ServesOf(r) == IF r.pc \in {"replaying", "renewing"} THEN lease[r.target].license ELSE r.license

Admitted(r) ==
  /\ r.pc # "idle" /\ licStatus[ServesOf(r)] = "revoked" => r.since <= revokedAt[ServesOf(r)]
  /\ r.pc \notin {"idle", "renewing"} => r.nonce \in NoncesFor[r.license]

RevokeInv ==
  /\ \A n \in Nonces : lease[n] # None => n \in NoncesFor[lease[n].license]
  /\ \A p \in Requests : Admitted(req[p])
  /\ RevocationWindow

LEMMA IdleAdmitted == Admitted(Idle) /\ Admitted(Idle)'
BY DEF Admitted, Idle

(* A step that delivers nothing and changes no row and no license.         *)
LEMMA QuietAdmits ==
  ASSUME SeatInv, RevokeInv, UNCHANGED <<licStatus, revokedAt, lease, handleExp>>,
         NEW p \in Requests, NEW r, Becomes(p, r), Admitted(r)
  PROVE  RevokeInv'
<1>1. req'[p] = r /\ \A q \in Requests \ {p} : req'[q] = req[q]
  BY Others DEF SeatInv
<1>2. \A q \in Requests : Admitted(req[q])'
  BY <1>1 DEF RevokeInv, Admitted, ServesOf
<1> QED
  BY <1>2 DEF RevokeInv, RevocationWindow

LEMMA AcquireAdmits ==
  ASSUME TokensApart, SeatInv, RevokeInv, NEW p \in Requests,
         \/ \E l \in Licenses, h \in Holders, n \in Nonces : AcquirePrepare(p, l, h, n)
         \/ AcquireLock(p) \/ AcquireByHolder(p) \/ AcquireCount(p) \/ AcquireInsert(p)
         \/ \E n \in Nonces : RenewRead(p, n)
         \/ RenewRefuse(p) \/ Rollback(p)
  PROVE  RevokeInv'
<1>0. /\ TypeOK /\ req[p] \in Request /\ Admitted(req[p])
      /\ UNCHANGED <<licStatus, revokedAt, lease, handleExp>>
  BY Instants DEF SeatInv, RevokeInv, AcquirePrepare, AcquireLock, AcquireByHolder, AcquireCount,
                  AcquireInsert, RenewRead, RenewRefuse, Rollback
<1>1. ASSUME NEW r, Becomes(p, r), req[p].pc \notin {"idle", "replaying", "renewing"},
             r.since = req[p].since, r.nonce = req[p].nonce, r.license = req[p].license,
             \/ r.pc \in {"tokenNew", "counted", "inserted", "aborted"}
             \/ r.pc = "replaying" /\ lease[r.target].license = req[p].license
      PROVE  RevokeInv'
  <2>1. Admitted(r)
    BY <1>0, <1>1 DEF Admitted, ServesOf
  <2> QED
    BY <1>0, <1>1, <2>1, QuietAdmits
<1>2. ASSUME NEW l \in Licenses, NEW h \in Holders, NEW n \in Nonces, AcquirePrepare(p, l, h, n)
      PROVE  RevokeInv'
  <2> DEFINE r == [Idle EXCEPT !.pc = "prepared", !.license = l, !.holder = h, !.nonce = n,
                               !.since = clock]
  <2>1. r.pc = "prepared" /\ r.license = l /\ r.nonce = n /\ Becomes(p, r)
    BY <1>2 DEF Idle, AcquirePrepare
  <2>2. n \in NoncesFor[l] /\ licStatus[l] = "active"
    BY <1>2 DEF AcquirePrepare, EntitledAndActive
  <2> HIDE DEF r
  <2>3. Admitted(r)
    BY <2>1, <2>2 DEF Admitted, ServesOf
  <2> QED
    BY <1>0, <2>1, <2>3, QuietAdmits
<1>3. ASSUME AcquireLock(p) PROVE RevokeInv'
  <2>1. PICK now : LET n == req[p].nonce IN
                     IF lease[n] # None
                     THEN Becomes(p, [req[p] EXCEPT !.pc = "replaying", !.target = n,
                                                    !.at = now, !.seen = lease[n].expires])
                     ELSE Becomes(p, [req[p] EXCEPT !.pc = "tokenNew", !.at = now])
    BY <1>3 DEF AcquireLock
  <2> DEFINE n == req[p].nonce
             r == [req[p] EXCEPT !.pc = "replaying", !.target = n, !.at = now,
                                 !.seen = lease[n].expires]
             s == [req[p] EXCEPT !.pc = "tokenNew", !.at = now]
  <2>2. /\ r.pc = "replaying" /\ r.target = n /\ r.nonce = req[p].nonce
        /\ r.since = req[p].since /\ r.license = req[p].license
        /\ s.pc = "tokenNew" /\ s.since = req[p].since /\ s.license = req[p].license
        /\ s.nonce = req[p].nonce
    BY <1>0 DEF Request
  <2>3. req[p].pc = "prepared" /\ n \in Nonces /\ req[p].license \in Licenses
    BY <1>3 DEF AcquireLock, SeatInv, RequestShape
  <2>4. (lease[n] # None /\ Becomes(p, r)) \/ Becomes(p, s)
    BY <2>1
  <2>5. lease[n] # None => lease[n].license = req[p].license
    <3>1. n \in NoncesFor[req[p].license]
      BY <1>0, <2>3 DEF Admitted
    <3>2. lease[n] # None => lease[n].license \in Licenses /\ n \in NoncesFor[lease[n].license]
      BY <1>0, <2>3, Instants DEF RevokeInv, Lease
    <3> QED
      BY <2>3, <3>1, <3>2 DEF TokensApart
  <2> HIDE DEF r, s
  <2>6. CASE Becomes(p, s)
    BY <1>1, <2>2, <2>3, <2>6
  <2>7. CASE lease[n] # None /\ Becomes(p, r)
    BY <1>1, <2>2, <2>3, <2>5, <2>7
  <2> QED
    BY <2>4, <2>6, <2>7
<1>4. ASSUME AcquireByHolder(p) PROVE RevokeInv'
  <2>1. PICK n \in HeldBy(req[p].license, req[p].holder) :
          Becomes(p, [req[p] EXCEPT !.pc = "replaying", !.target = n, !.seen = lease[n].expires])
    BY <1>4 DEF AcquireByHolder
  <2> DEFINE r == [req[p] EXCEPT !.pc = "replaying", !.target = n, !.seen = lease[n].expires]
  <2>2. /\ r.pc = "replaying" /\ r.target = n /\ r.nonce = req[p].nonce
        /\ r.since = req[p].since /\ r.license = req[p].license
    BY <1>0 DEF Request
  <2>3. lease[n].license = req[p].license /\ req[p].pc = "tokenNew"
    BY <1>4 DEF HeldBy, LiveOn, AcquireByHolder
  <2>4. Becomes(p, r)
    BY <2>1
  <2> HIDE DEF r
  <2> QED
    BY <1>1, <2>2, <2>3, <2>4
<1>5. ASSUME Becomes(p, Idle) PROVE RevokeInv'
  BY <1>0, <1>5, IdleAdmitted, QuietAdmits
<1>6. ASSUME AcquireCount(p) PROVE RevokeInv'
  <2>1. PICK u : Becomes(p, Idle) \/ Becomes(p, [req[p] EXCEPT !.pc = "counted", !.used = u])
    BY <1>6 DEF AcquireCount
  <2> DEFINE r == [req[p] EXCEPT !.pc = "counted", !.used = u]
  <2>2. /\ r.since = req[p].since /\ r.nonce = req[p].nonce /\ r.license = req[p].license
        /\ r.pc = "counted" /\ req[p].pc = "tokenNew" /\ (Becomes(p, Idle) \/ Becomes(p, r))
    BY <1>0, <1>6, <2>1 DEF Request, AcquireCount
  <2> HIDE DEF r
  <2>3. CASE Becomes(p, r)
    BY <1>1, <2>2, <2>3
  <2> QED
    BY <1>5, <2>2, <2>3
<1>7. ASSUME AcquireInsert(p) PROVE RevokeInv'
  <2> DEFINE r == [req[p] EXCEPT !.pc = "inserted", !.target = req[p].nonce]
             s == [req[p] EXCEPT !.pc = "aborted"]
  <2>1. /\ r.since = req[p].since /\ r.nonce = req[p].nonce /\ r.license = req[p].license
        /\ s.since = req[p].since /\ s.nonce = req[p].nonce /\ s.license = req[p].license
        /\ r.pc = "inserted" /\ s.pc = "aborted" /\ req[p].pc = "counted"
        /\ (Becomes(p, r) \/ Becomes(p, s))
    BY <1>0, <1>7 DEF Request, AcquireInsert
  <2> HIDE DEF r, s
  <2>2. CASE Becomes(p, r)
    BY <1>1, <2>1, <2>2
  <2>3. CASE Becomes(p, s)
    BY <1>1, <2>1, <2>3
  <2> QED
    BY <2>1, <2>2, <2>3
<1>8. ASSUME NEW n \in Nonces, RenewRead(p, n) PROVE RevokeInv'
  <2> DEFINE r == [Idle EXCEPT !.pc = "renewing", !.target = n, !.since = clock, !.at = clock]
  <2>1. r.pc = "renewing" /\ r.target = n /\ Becomes(p, r)
    BY <1>8 DEF Idle, RenewRead
  <2> HIDE DEF r
  <2>2. Admitted(r)
    BY <1>8, <2>1 DEF Admitted, ServesOf, RenewRead
  <2> QED
    BY <1>0, <2>1, <2>2, QuietAdmits
<1> QED
  BY <1>2, <1>3, <1>4, <1>5, <1>6, <1>7, <1>8 DEF RenewRefuse, Rollback

(* A request that ends with a handle of the license it is about.           *)
LEMMA DeliverAdmits ==
  ASSUME SeatInv, TimeInv, TimeInv', TypeOK', RevokeInv, UNCHANGED <<clock, licStatus, revokedAt>>,
         NEW p \in Requests, Becomes(p, Idle), req[p].pc # "idle", NEW n \in Nonces,
         lease'[n] # None, lease'[n].license = ServesOf(req[p]),
         n \in NoncesFor[lease'[n].license],
         lease[n] # None => lease'[n].license = lease[n].license,
         \A m \in Nonces \ {n} : lease'[m] = lease[m] /\ handleExp'[m] = handleExp[m]
  PROVE  RevokeInv'
<1>0. /\ TypeOK /\ clock \in Nat /\ req[p].since \in Nat /\ clock <= req[p].since + MaxTx
      /\ req'[p] = Idle /\ \A q \in Requests \ {p} : req'[q] = req[q]
  BY Instants, Others DEF SeatInv, TimeInv, RequestTimes
<1>1. ASSUME NEW q \in Requests PROVE Admitted(req[q])'
  <2>1. CASE q = p
    BY <1>0, <2>1, IdleAdmitted DEF Admitted
  <2>2. CASE q # p
    <3>1. req[q].pc \in {"replaying", "renewing"} =>
            req[q].target \in Nonces /\ lease[req[q].target] # None
      BY DEF SeatInv, RequestShape
    <3>2. req'[q] = req[q] /\ Admitted(req[q])
      BY <1>0, <2>2 DEF RevokeInv
    <3>3. ServesOf(req[q])' = ServesOf(req[q])
      BY <3>1, <3>2 DEF ServesOf
    <3> QED
      BY <3>2, <3>3 DEF Admitted
  <2> QED
    BY <2>1, <2>2
<1>2. ASSUME licStatus[lease'[n].license] = "revoked"
      PROVE  handleExp'[n] <= revokedAt[lease'[n].license] + MaxTx + Heartbeat
  <2> DEFINE since == revokedAt[lease'[n].license]
  <2>1. req[p].since <= since
    BY <1>2 DEF RevokeInv, Admitted
  <2>2. handleExp'[n] <= clock + Heartbeat
    BY DEF TimeInv, RowTimes
  <2>3. handleExp'[n] \in Nat /\ since \in Nat
    <3>1. lease'[n].license \in Licenses
      BY DEF TypeOK, Lease
    <3> QED
      BY <1>0, <3>1 DEF TypeOK
  <2> HIDE DEF since
  <2>4. handleExp'[n] <= since + MaxTx + Heartbeat
    BY <1>0, <2>1, <2>2, <2>3, Numbers
  <2> QED
    BY <2>4 DEF since
<1>3. RevocationWindow'
  BY <1>2 DEF RevokeInv, RevocationWindow
<1> QED
  BY <1>1, <1>3 DEF RevokeInv

LEMMA CommitAdmits ==
  ASSUME SeatInv, SeatInv', TimeInv, TimeInv', RevokeInv, NEW p \in Requests,
         AcquireCommitNew(p) \/ AcquireCommitReplay(p) \/ RenewCommit(p)
  PROVE  RevokeInv'
<1> DEFINE n == req[p].target
<1>0. /\ TypeOK /\ TypeOK' /\ n \in Nonces /\ Becomes(p, Idle) /\ UNCHANGED <<clock, licStatus, revokedAt>>
      /\ req[p].pc \in {"inserted", "replaying", "renewing"} /\ Admitted(req[p])
  BY DEF SeatInv, RequestShape, AcquireCommitNew, AcquireCommitReplay, RenewCommit, RevokeInv
<1>1. \E e : DeliverHandle(n, e)
  BY DEF AcquireCommitNew, AcquireCommitReplay, RenewCommit
<1>2. \A m \in Nonces \ {n} : handleExp'[m] = handleExp[m]
  BY <1>0, <1>1 DEF DeliverHandle, TypeOK
<1>3. CASE AcquireCommitNew(p)
  <2>1. PICK l \in Licenses : l = req[p].license
    BY <1>3 DEF AcquireCommitNew, SeatInv, RequestShape
  <2>2. /\ n = req[p].nonce /\ lease[n] = None /\ lease'[n] # None
        /\ lease'[n].license = req[p].license /\ \A m \in Nonces \ {n} : lease'[m] = lease[m]
    BY <1>3, <2>1, CommitAddsOne DEF SeatInv, RequestShape, AcquireCommitNew
  <2>3. ServesOf(req[p]) = req[p].license /\ n \in NoncesFor[req[p].license]
    BY <1>0, <1>3, <2>2 DEF ServesOf, Admitted, AcquireCommitNew
  <2> QED
    BY <1>0, <1>2, <2>2, <2>3, DeliverAdmits
<1>4. CASE AcquireCommitReplay(p) \/ RenewCommit(p)
  <2>1. lease[n] # None /\ req[p].pc \in {"replaying", "renewing"}
    BY <1>4 DEF AcquireCommitReplay, RenewCommit, SeatInv, RequestShape
  <2>2. /\ lease'[n] # None /\ lease'[n].license = lease[n].license
        /\ \A m \in Nonces \ {n} : lease'[m] = lease[m]
    <3>1. CASE AcquireCommitReplay(p)
      BY <2>1, <3>1 DEF AcquireCommitReplay
    <3>2. CASE RenewCommit(p)
      <4> DEFINE row == [lease[n] EXCEPT !.expires = req[p].at + Ttl]
      <4>1. lease[n] \in Lease /\ row \in Lease /\ row.license = lease[n].license
        BY <1>0, <2>1, Instants, Numbers DEF Lease
      <4>2. lease' = [lease EXCEPT ![n] = row]
        BY <3>2 DEF RenewCommit
      <4> HIDE DEF row
      <4> QED
        BY <1>0, <4>1, <4>2, NoneAssumption DEF TypeOK
    <3> QED
      BY <1>4, <3>1, <3>2
  <2>3. ServesOf(req[p]) = lease[n].license
    BY <2>1 DEF ServesOf
  <2>4. n \in NoncesFor[lease[n].license]
    BY <1>0, <2>1 DEF RevokeInv
  <2> QED
    BY <1>0, <1>2, <2>1, <2>2, <2>3, <2>4, DeliverAdmits
<1> QED
  BY <1>3, <1>4

(* Rows that end stay of their license.                                    *)
LEMMA ReleaseAdmits ==
  ASSUME SeatInv, RevokeInv, (\E n \in Nonces : Release(n) \/ ForceRelease(n)) \/ ReclaimSweep
  PROVE  RevokeInv'
<1>0. TypeOK /\ UNCHANGED <<licStatus, revokedAt, handleExp, req>>
  BY DEF SeatInv, Release, ForceRelease, ReclaimSweep
<1>1. \A n \in Nonces : lease[n] # None => lease[n] \in Lease
  BY <1>0, Instants
<1>2. ASSUME NEW row \in Lease, NEW st PROVE Ended(row, st).license = row.license
  BY DEF Ended, Lease
<1>3. ASSUME NEW n \in Nonces
      PROVE  \/ lease'[n] = lease[n]
             \/ lease[n] # None /\ \E st : lease'[n] = Ended(lease[n], st)
  BY <1>0 DEF Release, ForceRelease, ReclaimSweep, OldestFirst, GraceDue, PolicyDue, IsLive, TypeOK
<1>4. ASSUME NEW n \in Nonces
      PROVE  /\ lease'[n] # None => lease[n] # None
             /\ lease[n] # None => lease'[n].license = lease[n].license
  <2>1. CASE lease'[n] = lease[n]
    BY <2>1
  <2>2. CASE lease[n] # None /\ \E st : lease'[n] = Ended(lease[n], st)
    BY <1>1, <1>2, <2>2
  <2> QED
    BY <1>3, <2>1, <2>2
<1>5. ASSUME NEW q \in Requests PROVE Admitted(req[q])'
  <2>1. req[q].pc \in {"replaying", "renewing"} =>
          req[q].target \in Nonces /\ lease[req[q].target] # None
    BY DEF SeatInv, RequestShape
  <2>2. ServesOf(req[q])' = ServesOf(req[q])
    BY <1>0, <1>4, <2>1 DEF ServesOf
  <2> QED
    BY <1>0, <2>2 DEF RevokeInv, Admitted
<1> QED
  BY <1>0, <1>4, <1>5 DEF RevokeInv, RevocationWindow

(* The operator's revocation: everything delivered so far runs out within  *)
(* a heartbeat, and every request under way came in before it.             *)
LEMMA OperatorAdmits ==
  ASSUME SeatInv, TimeInv, RevokeInv,
         \/ UNCHANGED vars \/ Tick
         \/ \E l \in Licenses : SuspendLicense(l) \/ ReinstateLicense(l) \/ RevokeLicense(l)
  PROVE  RevokeInv'
<1>0. TypeOK /\ clock \in Nat /\ UNCHANGED <<lease, handleExp, req>>
  BY Instants DEF SeatInv, vars, Tick, SuspendLicense, ReinstateLicense, RevokeLicense
<1>1. ASSUME UNCHANGED revokedAt,
             \A l \in Licenses : licStatus'[l] = "revoked" => licStatus[l] = "revoked"
      PROVE  RevokeInv'
  <2>1. ASSUME NEW q \in Requests PROVE Admitted(req[q])'
    <3>1. req[q].pc # "idle" => ServesOf(req[q]) \in Licenses
      BY <1>0, Instants DEF SeatInv, RequestShape, ServesOf, Lease
    <3> QED
      BY <1>0, <1>1, <3>1 DEF RevokeInv, Admitted, ServesOf
  <2>2. RevocationWindow'
    BY <1>0, <1>1, Instants DEF RevokeInv, RevocationWindow, Lease
  <2> QED
    BY <1>0, <2>1, <2>2 DEF RevokeInv
<1>2. ASSUME NEW l \in Licenses, RevokeLicense(l) PROVE RevokeInv'
  <2>1. /\ \A k \in Licenses \ {l} : licStatus'[k] = licStatus[k] /\ revokedAt'[k] = revokedAt[k]
        /\ revokedAt'[l] = clock
    BY <1>0, <1>2 DEF RevokeLicense, TypeOK
  <2>2. ASSUME NEW q \in Requests PROVE Admitted(req[q])'
    <3>1. req[q].pc # "idle" => ServesOf(req[q]) \in Licenses
      BY <1>0, Instants DEF SeatInv, RequestShape, ServesOf, Lease
    <3>2. req[q].pc # "idle" => req[q].since <= clock
      BY DEF TimeInv, RequestTimes
    <3> QED
      BY <1>0, <2>1, <3>1, <3>2 DEF RevokeInv, Admitted, ServesOf
  <2>3. ASSUME NEW n \in Nonces, lease[n] # None, licStatus'[lease[n].license] = "revoked"
        PROVE  handleExp[n] <= revokedAt'[lease[n].license] + MaxTx + Heartbeat
    <3>1. lease[n].license \in Licenses /\ handleExp[n] \in Nat /\ handleExp[n] <= clock + Heartbeat
      BY <1>0, <2>3, Instants DEF TimeInv, RowTimes, Lease
    <3>2. CASE lease[n].license = l
      BY <1>0, <2>1, <3>1, <3>2, Numbers
    <3>3. CASE lease[n].license # l
      BY <2>1, <2>3, <3>1, <3>3 DEF RevokeInv, RevocationWindow
    <3> QED
      BY <3>2, <3>3
  <2> QED
    BY <1>0, <2>2, <2>3 DEF RevokeInv, RevocationWindow
<1>3. ASSUME NEW l \in Licenses, SuspendLicense(l) \/ ReinstateLicense(l) PROVE RevokeInv'
  <2>1. UNCHANGED revokedAt /\ \A k \in Licenses : licStatus'[k] = "revoked" => licStatus[k] = "revoked"
    BY <1>0, <1>3 DEF SuspendLicense, ReinstateLicense, TypeOK
  <2> QED
    BY <1>1, <2>1
<1>4. CASE UNCHANGED vars \/ Tick
  BY <1>1, <1>4 DEF vars, Tick
<1> QED
  BY <1>2, <1>3, <1>4

LEMMA NextRevokeInv ==
  ASSUME TokensApart, SeatInv, SeatInv', TimeInv, TimeInv', RevokeInv, [Next]_vars
  PROVE  RevokeInv'
<1>1. ASSUME NEW p \in Requests, Handler(p) PROVE RevokeInv'
  BY <1>1, AcquireAdmits, CommitAdmits DEF Handler, Finish, AcquireStep, RenewStep
<1>2. CASE Environment
  BY <1>2, ReleaseAdmits, OperatorAdmits, OperatedAssumption DEF Environment
<1> QED
  BY <1>1, <1>2, ReleaseAdmits, OperatorAdmits DEF Next

LEMMA InitRevokeInv == Init => RevokeInv
BY IdleAdmitted DEF Init, RevokeInv, RevocationWindow

(* Revoking a license ends the offline use of its seats one heartbeat      *)
(* after the last request let in before it, if no token is presented for   *)
(* two licenses (FR-022, FR-024).                                          *)
THEOREM RevocationIsBounded ==
  ASSUME TokensApart
  PROVE  Spec => []RevocationWindow
<1>1. /\ SeatInv /\ TimeInv /\ SeatInv' /\ TimeInv' /\ RevokeInv /\ [Next]_vars => RevokeInv'
  BY NextRevokeInv
<1>2. RevokeInv => RevocationWindow
  BY DEF RevokeInv
<1> QED
  BY <1>1, <1>2, InitRevokeInv, TimesHold, PTL DEF Spec
=============================================================================
