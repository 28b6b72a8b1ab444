-------------------------- MODULE Activation_proofs --------------------------
(***************************************************************************)
(* For every set of machines, tokens and handlers, and every seat limit:   *)
(* the seats of Activation are right.  The inductive invariant says what a *)
(* transaction that holds the license's row lock knows: what it read of    *)
(* the active rows (Alone) still stands when it writes, since only         *)
(* deactivations, which free seats, happen without the lock.               *)
(***************************************************************************)
EXTENDS Activation, FiniteSetTheorems, WellFoundedInduction, TLAPS

UnderLock == {"locked", "fresh", "matched"}

Shaped(r) ==
  /\ r.pc \notin {"idle", "deactivating"} =>
       r.license \in Licenses /\ r.nonce \in Nonces /\ r.machine \in Fingerprints
  /\ r.pc \in {"checked", "locked", "fresh"} => r.row = None
  /\ r.pc \in UnderLock => licStatus[r.license] = "active"
  /\ r.pc = "deactivating" => r.row \in Rows /\ act[r.row] # None
  /\ r.pc = "matched" /\ r.row # None =>
       r.row \in Rows /\ act[r.row] # None /\ act[r.row].license = r.license

(* No other active row is of this machine, and without a row to take over  *)
(* none is near it and there is a seat left.                               *)
Alone(r) ==
  r.pc = "matched" =>
    /\ \A s \in ActiveOn(r.license) : s # r.row => act[s].machine # r.machine
    /\ r.row = None =>
         /\ \A s \in ActiveOn(r.license) : overlapCount(r.machine, act[s].machine) < FpMin
         /\ Cardinality(ActiveOn(r.license)) < MaxActivations[r.license]

Holds(p, r) == r.pc \in UnderLock => lock[r.license] = p

CapHeld ==
  \A l \in Licenses : /\ IsFiniteSet(ActiveOn(l))
                      /\ Cardinality(ActiveOn(l)) <= MaxActivations[l]

ActivationInv ==
  /\ TypeOK /\ CapHeld /\ OneSeatPerMachine
  /\ \A p \in Requests : Shaped(req[p]) /\ Alone(req[p]) /\ Holds(p, req[p])

LEMMA IdleFits ==
  /\ Idle \in Request
  /\ Shaped(Idle) /\ Alone(Idle) /\ Shaped(Idle)' /\ Alone(Idle)'
  /\ \A p : Holds(p, Idle) /\ Holds(p, Idle)'
BY DEF Idle, Request, Phases, Shaped, Alone, Holds, UnderLock

(* COMMIT or ROLLBACK frees no lock of another transaction.                *)
LEMMA FreeLockOthers ==
  ASSUME TypeOK, NEW p \in Requests
  PROVE  /\ FreeLock(p) \in [Licenses -> Requests \union {None}]
         /\ \A l \in Licenses : lock[l] # p => FreeLock(p)[l] = lock[l]
BY DEF FreeLock, TypeOK

LEMMA InitActivationInv == Init => ActivationInv
<1> SUFFICES ASSUME Init PROVE ActivationInv
  OBVIOUS
<1>1. TypeOK
  BY IdleFits DEF Init, TypeOK
<1>2. \A l \in Licenses : ActiveOn(l) = {}
  BY DEF Init, ActiveOn, IsActive
<1>3. CapHeld
  BY <1>2, FS_EmptySet, CapAssumption DEF CapHeld
<1>4. \A p \in Requests : req[p] = Idle
  BY DEF Init
<1> QED
  BY <1>1, <1>3, <1>4, IdleFits DEF Init, ActivationInv, OneSeatPerMachine, IsActive

(* A step of p changes active rows of no license but the one it has        *)
(* locked; elsewhere rows only stop being active.                          *)
LEMMA StepKeeps ==
  ASSUME ActivationInv, TypeOK', CapHeld', OneSeatPerMachine', UNCHANGED licStatus,
         NEW p \in Requests, NEW r, Becomes(p, r), Shaped(r)', Alone(r)', Holds(p, r)',
         \A s \in Rows : act[s] # None => act'[s] # None /\ act'[s].license = act[s].license,
         \A l \in Licenses : lock[l] \in Requests \ {p} => lock'[l] = lock[l],
         \A l \in Licenses : lock[l] # p =>
           \A s \in ActiveOn(l)' : s \in ActiveOn(l) /\ act'[s].machine = act[s].machine
  PROVE  ActivationInv'
<1>1. req'[p] = r /\ \A q \in Requests \ {p} : req'[q] = req[q]
  BY DEF ActivationInv, TypeOK, Becomes
<1>2. ASSUME NEW q \in Requests, q # p
      PROVE  Shaped(req[q])' /\ Alone(req[q])' /\ Holds(q, req[q])'
  <2>1. req'[q] = req[q] /\ Shaped(req[q]) /\ Alone(req[q]) /\ Holds(q, req[q])
    BY <1>1, <1>2 DEF ActivationInv
  <2>2. Shaped(req[q])'
    BY <2>1 DEF Shaped
  <2>3. Holds(q, req[q])'
    BY <1>2, <2>1 DEF Holds, Shaped, UnderLock
  <2>4. Alone(req[q])'
    <3> SUFFICES ASSUME req[q].pc = "matched" PROVE Alone(req[q])'
      BY <2>1 DEF Alone
    <3>1. PICK l \in Licenses : l = req[q].license /\ lock[l] # p
      BY <1>2, <2>1 DEF Holds, Shaped, UnderLock
    <3>2. \A s \in ActiveOn(l)' : s \in ActiveOn(l) /\ act'[s].machine = act[s].machine
      BY <3>1
    <3>3. ActiveOn(l)' \subseteq ActiveOn(l)
      BY <3>2
    <3>4. /\ Cardinality(ActiveOn(l)') <= Cardinality(ActiveOn(l)) /\ MaxActivations[l] \in Nat
          /\ Cardinality(ActiveOn(l)) \in Nat /\ Cardinality(ActiveOn(l)') \in Nat
      BY <3>1, <3>3, FS_Subset, FS_CardinalityType, CapAssumption DEF ActivationInv, CapHeld
    <3>5. req[q].row = None => Cardinality(ActiveOn(l)') < MaxActivations[l]
      BY <2>1, <3>1, <3>4 DEF Alone
    <3> QED
      BY <2>1, <3>1, <3>2, <3>5 DEF Alone
  <2> QED
    BY <2>2, <2>3, <2>4
<1>3. Shaped(req[p])' /\ Alone(req[p])' /\ Holds(p, req[p])'
  BY <1>1 DEF Shaped, Alone, Holds
<1> QED
  BY <1>2, <1>3 DEF ActivationInv

(* Steps that only read the rows.                                          *)
LEMMA ReadStep ==
  ASSUME ActivationInv, UNCHANGED <<licStatus, expired, tooOld, act, made>>,
         NEW p \in Requests, NEW r \in Request, Becomes(p, r), Shaped(r), Alone(r),
         \/ UNCHANGED lock /\ Holds(p, r)
         \/ lock' = FreeLock(p) /\ r.pc \notin UnderLock
         \/ lock[r.license] = None /\ r.license \in Licenses /\ lock' = [lock EXCEPT ![r.license] = p]
  PROVE  ActivationInv'
<1>1. TypeOK
  BY DEF ActivationInv
<1>2. lock' \in [Licenses -> Requests \union {None}]
  BY <1>1, FreeLockOthers DEF TypeOK
<1>3. TypeOK'
  BY <1>1, <1>2 DEF TypeOK, Becomes
<1>4. \A l \in Licenses : ActiveOn(l)' = ActiveOn(l)
  BY DEF ActiveOn, IsActive
<1>5. CapHeld' /\ OneSeatPerMachine'
  BY <1>4 DEF ActivationInv, CapHeld, OneSeatPerMachine, IsActive
<1>6. Shaped(r)' /\ Alone(r)'
  <2>1. Shaped(r)'
    BY DEF Shaped
  <2>2. r.pc = "matched" => ActiveOn(r.license)' = ActiveOn(r.license)
    BY DEF ActiveOn, IsActive
  <2> QED
    BY <2>1, <2>2 DEF Alone
<1>7. Holds(p, r)'
  BY <1>1 DEF Holds, TypeOK
<1>8. \A l \in Licenses : lock[l] \in Requests \ {p} => lock'[l] = lock[l]
  BY <1>1, FreeLockOthers, NoneAssumption DEF TypeOK
<1> QED
  BY <1>3, <1>4, <1>5, <1>6, <1>7, <1>8, StepKeeps

(* Taking the row lock: the license is active and the lock was free.       *)
LEMMA LockStep ==
  ASSUME ActivationInv, NEW p \in Requests, NEW l \in Licenses, NEW f \in Fingerprints,
         NEW n \in Nonces, Lock(p, l, f, n)
  PROVE  ActivationInv'
<1> DEFINE r == [Idle EXCEPT !.pc = "locked", !.license = l, !.machine = f, !.nonce = n]
<1>1. /\ r \in Request /\ r.pc = "locked" /\ r.license = l /\ r.machine = f /\ r.nonce = n
      /\ r.row = None
  BY DEF Idle, Request, Phases
<1>2. /\ UNCHANGED <<licStatus, expired, tooOld, act, made>> /\ Becomes(p, r)
      /\ lock[l] = None /\ lock' = [lock EXCEPT ![l] = p] /\ licStatus[l] = "active"
  BY DEF Lock
<1> HIDE DEF r
<1>3. Shaped(r) /\ Alone(r)
  BY <1>1, <1>2 DEF Shaped, Alone, UnderLock
<1> QED
  BY <1>1, <1>2, <1>3, ReadStep

(* A request that gives up, or that had its answer stored.                 *)
LEMMA StopStep ==
  ASSUME ActivationInv, UNCHANGED <<licStatus, expired, tooOld, act, made>>,
         NEW p \in Requests, Becomes(p, Idle), lock' = FreeLock(p)
  PROVE  ActivationInv'
<1>1. Idle.pc \notin UnderLock
  BY DEF Idle, UnderLock
<1> QED
  BY <1>1, IdleFits, ReadStep

LEMMA ArriveStep ==
  ASSUME ActivationInv, NEW p \in Requests, Arrive(p) \/ ActivateFile(p)
  PROVE  ActivationInv'
<1>0. req[p] \in Request /\ Shaped(req[p])
  BY DEF ActivationInv, TypeOK
<1>1. ASSUME NEW l \in Licenses, NEW f \in Fingerprints, NEW n \in Nonces, AirGapCheck(p, l, f, n)
      PROVE  ActivationInv'
  <2> DEFINE r == [Idle EXCEPT !.pc = "checked", !.license = l, !.machine = f, !.nonce = n]
  <2>1. /\ r \in Request /\ r.pc = "checked" /\ r.license = l /\ r.machine = f /\ r.nonce = n
        /\ r.row = None
    BY DEF Idle, Request, Phases
  <2>2. UNCHANGED <<licStatus, expired, tooOld, act, made, lock>> /\ Becomes(p, r)
    BY <1>1 DEF AirGapCheck
  <2> HIDE DEF r
  <2>3. Shaped(r) /\ Alone(r) /\ Holds(p, r)
    BY <2>1 DEF Shaped, Alone, Holds, UnderLock
  <2> QED
    BY <2>1, <2>2, <2>3, ReadStep
<1>2. ASSUME NEW s \in Rows, DeactivateRead(p, s) PROVE ActivationInv'
  <2> DEFINE r == [Idle EXCEPT !.pc = "deactivating", !.row = s]
  <2>1. r \in Request /\ r.pc = "deactivating" /\ r.row = s
    BY DEF Idle, Request, Phases
  <2>2. /\ UNCHANGED <<licStatus, expired, tooOld, act, made, lock>> /\ Becomes(p, r)
        /\ act[s] # None
    BY <1>2 DEF DeactivateRead, IsActive
  <2> HIDE DEF r
  <2>3. Shaped(r) /\ Alone(r) /\ Holds(p, r)
    BY <2>1, <2>2 DEF Shaped, Alone, Holds, UnderLock
  <2> QED
    BY <2>1, <2>2, <2>3, ReadStep
<1>3. ASSUME ActivateFile(p) PROVE ActivationInv'
  BY <1>0, <1>3, LockStep DEF ActivateFile, Shaped
<1> QED
  BY <1>1, <1>2, <1>3, LockStep DEF Arrive, ActivateOnline

LEMMA NonceStep ==
  ASSUME ActivationInv, NEW p \in Requests, ActivateNonce(p)
  PROVE  ActivationInv'
<1>0. /\ req[p] \in Request /\ Shaped(req[p]) /\ Holds(p, req[p]) /\ req[p].pc = "locked"
      /\ UNCHANGED <<licStatus, expired, tooOld, act, made>>
  BY DEF ActivationInv, TypeOK, ActivateNonce
<1> DEFINE r == [req[p] EXCEPT !.pc = "fresh"]
<1>1. /\ r \in Request /\ r.pc = "fresh" /\ r.license = req[p].license /\ r.row = req[p].row
      /\ r.machine = req[p].machine /\ r.nonce = req[p].nonce
  BY <1>0 DEF Request, Phases
<1>2. (Becomes(p, r) /\ UNCHANGED lock) \/ (Becomes(p, Idle) /\ lock' = FreeLock(p))
  BY DEF ActivateNonce
<1> HIDE DEF r
<1>3. CASE Becomes(p, r) /\ UNCHANGED lock
  <2>1. Shaped(r) /\ Alone(r) /\ Holds(p, r)
    BY <1>0, <1>1 DEF Shaped, Alone, Holds, UnderLock
  <2> QED
    BY <1>0, <1>1, <1>3, <2>1, ReadStep
<1> QED
  BY <1>0, <1>2, <1>3, StopStep

-----------------------------------------------------------------------------
(* The nearest of the rows that are near enough: there is one whenever     *)
(* there are any, for the overlaps are bounded by the machine's signals.   *)
LEMMA NearestExists ==
  ASSUME NEW f \in Fingerprints, NEW near \in SUBSET Rows, near # {}
  PROVE  \E r \in near : \A s \in near :
           overlapCount(f, act[r].machine) >= overlapCount(f, act[s].machine)
<1> DEFINE missing(r) == Cardinality(f) - overlapCount(f, act[r].machine)
           T == {missing(r) : r \in near}
<1>1. ASSUME NEW r \in Rows
      PROVE  /\ overlapCount(f, act[r].machine) \in Nat /\ Cardinality(f) \in Nat
             /\ missing(r) \in Nat
  <2>1. IsFiniteSet(f)
    BY FingerprintAssumption
  <2>2. /\ IsFiniteSet(f \intersect act[r].machine)
        /\ Cardinality(f \intersect act[r].machine) <= Cardinality(f)
    BY <2>1, FS_Subset
  <2>3. Cardinality(f) \in Nat /\ Cardinality(f \intersect act[r].machine) \in Nat
    BY <2>1, <2>2, FS_CardinalityType
  <2> QED
    BY <2>2, <2>3 DEF overlapCount
<1>2. T \subseteq Nat /\ T # {}
  BY <1>1
<1>3. PICK x \in T : \A y \in T : ~(<<y, x>> \in OpToRel(<, Nat))
  BY <1>2, NatLessThanWellFounded, WFMin, Zenon
<1>4. \A y \in T : ~(y < x)
  BY <1>2, <1>3, Zenon DEF OpToRel
<1>5. PICK r \in near : x = missing(r)
  BY <1>3
<1>6. ASSUME NEW s \in near
      PROVE  overlapCount(f, act[r].machine) >= overlapCount(f, act[s].machine)
  <2>1. ~(missing(s) < missing(r))
    BY <1>4, <1>5
  <2>2. /\ overlapCount(f, act[r].machine) \in Nat /\ overlapCount(f, act[s].machine) \in Nat
        /\ Cardinality(f) \in Nat
    BY <1>1
  <2> QED
    BY <2>1, <2>2
<1> QED
  BY <1>6

(* What the SELECT of the active rows tells.                               *)
LEMMA MatchTells ==
  ASSUME TypeOK, OneSeatPerMachine, NEW l \in Licenses, NEW f \in Fingerprints
  PROVE  /\ Matches(l, f) \subseteq ActiveOn(l)
         /\ \A r \in Matches(l, f), s \in ActiveOn(l) : s # r => act[s].machine # f
         /\ Matches(l, f) = {} =>
              \A s \in ActiveOn(l) : /\ act[s].machine # f
                                     /\ overlapCount(f, act[s].machine) < FpMin
<1> DEFINE exact == {r \in ActiveOn(l) : act[r].machine = f}
           near  == {r \in ActiveOn(l) : overlapCount(f, act[r].machine) >= FpMin}
<1>1. /\ exact # {} => Matches(l, f) = exact
      /\ exact = {} => Matches(l, f) = {r \in near : \A s \in near :
                          overlapCount(f, act[r].machine) >= overlapCount(f, act[s].machine)}
  BY DEF Matches
<1>2. Matches(l, f) \subseteq ActiveOn(l)
  BY <1>1
<1>3. ASSUME NEW r \in Matches(l, f), NEW s \in ActiveOn(l), s # r PROVE act[s].machine # f
  <2> SUFFICES ASSUME act[s].machine = f PROVE FALSE
    OBVIOUS
  <2>1. s \in exact
    OBVIOUS
  <2>2. r \in ActiveOn(l) /\ act[r].machine = f
    BY <1>1, <2>1
  <2> QED
    BY <1>3, <2>2 DEF OneSeatPerMachine, ActiveOn
<1>4. ASSUME Matches(l, f) = {}, NEW s \in ActiveOn(l)
      PROVE  act[s].machine # f /\ overlapCount(f, act[s].machine) < FpMin
  <2>1. exact = {}
    BY <1>1, <1>4
  <2>2. near = {}
    <3>1. near \in SUBSET Rows
      BY DEF ActiveOn
    <3> HIDE DEF near
    <3> QED
      BY <1>1, <1>4, <2>1, <3>1, NearestExists
  <2>3. overlapCount(f, act[s].machine) \in Nat /\ FpMin \in Nat
    <3>1. IsFiniteSet(f \intersect act[s].machine)
      BY FingerprintAssumption, FS_Subset
    <3> QED
      BY <3>1, FingerprintAssumption, FS_CardinalityType DEF overlapCount
  <2> QED
    BY <2>1, <2>2, <2>3
<1> QED
  BY <1>2, <1>3, <1>4

LEMMA MatchStep ==
  ASSUME ActivationInv, NEW p \in Requests, ActivateMatch(p)
  PROVE  ActivationInv'
<1> DEFINE l == req[p].license
           f == req[p].machine
<1>0. /\ req[p] \in Request /\ Shaped(req[p]) /\ Holds(p, req[p]) /\ req[p].pc = "fresh"
      /\ UNCHANGED <<licStatus, expired, tooOld, act, made>> /\ TypeOK /\ OneSeatPerMachine
  BY DEF ActivationInv, TypeOK, ActivateMatch
<1>1. l \in Licenses /\ f \in Fingerprints /\ req[p].row = None
  BY <1>0 DEF Shaped
<1>2. ASSUME NEW s \in Matches(l, f), Becomes(p, [req[p] EXCEPT !.pc = "matched", !.row = s]),
             UNCHANGED lock
      PROVE  ActivationInv'
  <2> DEFINE r == [req[p] EXCEPT !.pc = "matched", !.row = s]
  <2>1. s \in ActiveOn(l) /\ s \in Rows /\ act[s] # None /\ act[s].license = l
    BY <1>0, <1>1, MatchTells DEF ActiveOn, IsActive
  <2>2. /\ r \in Request /\ r.pc = "matched" /\ r.row = s /\ r.license = l /\ r.machine = f
        /\ r.nonce = req[p].nonce
    BY <1>0, <2>1 DEF Request, Phases
  <2>3. Becomes(p, r)
    BY <1>2
  <2> HIDE DEF r
  <2>4. Alone(r)
    BY <1>0, <1>1, <2>1, <2>2, MatchTells, NoneAssumption DEF Alone
  <2>5. Shaped(r) /\ Holds(p, r)
    BY <1>0, <2>1, <2>2 DEF Shaped, Holds, UnderLock
  <2> QED
    BY <1>0, <1>2, <2>2, <2>3, <2>4, <2>5, ReadStep
<1>3. ASSUME Matches(l, f) = {}, SeatLeft(l),
             Becomes(p, [req[p] EXCEPT !.pc = "matched"]), UNCHANGED lock
      PROVE  ActivationInv'
  <2> DEFINE r == [req[p] EXCEPT !.pc = "matched"]
  <2>1. /\ r \in Request /\ r.pc = "matched" /\ r.row = None /\ r.license = l /\ r.machine = f
        /\ r.nonce = req[p].nonce
    BY <1>0, <1>1 DEF Request, Phases
  <2>2. Becomes(p, r)
    BY <1>3
  <2> HIDE DEF r
  <2>3. Alone(r)
    BY <1>0, <1>1, <1>3, <2>1, MatchTells DEF Alone, SeatLeft
  <2>4. Shaped(r) /\ Holds(p, r)
    BY <1>0, <2>1 DEF Shaped, Holds, UnderLock
  <2> QED
    BY <1>0, <1>3, <2>1, <2>2, <2>3, <2>4, ReadStep
<1>4. CASE Becomes(p, Idle) /\ lock' = FreeLock(p)
  BY <1>0, <1>4, StopStep
<1> QED
  BY <1>2, <1>3, <1>4 DEF ActivateMatch

(* What the three writes have in common: the request ends, its own rows    *)
(* and those of other licenses are as StepKeeps asks.                      *)
LEMMA WriteStep ==
  ASSUME ActivationInv, TypeOK', CapHeld', OneSeatPerMachine', UNCHANGED licStatus,
         NEW p \in Requests, Becomes(p, Idle), lock' = FreeLock(p) \/ UNCHANGED lock,
         \A s \in Rows : act[s] # None => act'[s] # None /\ act'[s].license = act[s].license,
         \A l \in Licenses : lock[l] # p =>
           \A s \in ActiveOn(l)' : s \in ActiveOn(l) /\ act'[s].machine = act[s].machine
  PROVE  ActivationInv'
<1>1. TypeOK
  BY DEF ActivationInv
<1>2. \A l \in Licenses : lock[l] \in Requests \ {p} => lock'[l] = lock[l]
  BY <1>1, FreeLockOthers
<1> QED
  BY <1>2, IdleFits, StepKeeps

LEMMA DeactivateStep ==
  ASSUME ActivationInv, NEW p \in Requests, DeactivateWrite(p)
  PROVE  ActivationInv'
<1>0. TypeOK /\ CapHeld /\ OneSeatPerMachine /\ Shaped(req[p]) /\ Becomes(p, Idle)
      /\ UNCHANGED <<licStatus, expired, tooOld, lock, made>>
  BY DEF ActivationInv, DeactivateWrite
<1>1. PICK t \in Rows : t = req[p].row /\ act[t] # None /\ act[t] \in Activ
  BY <1>0 DEF Shaped, TypeOK, DeactivateWrite
<1>2. PICK row \in Activ : /\ act' = [act EXCEPT ![t] = row] /\ row.license = act[t].license
                           /\ row.status = "deactivated"
  <2>1. LET row == [act[t] EXCEPT !.status = "deactivated"]
        IN  row \in Activ /\ row.license = act[t].license /\ row.status = "deactivated"
    BY <1>1 DEF Activ
  <2> QED
    BY <1>1, <2>1 DEF DeactivateWrite
<1>3. /\ act'[t] = row /\ row # None /\ act' \in [Rows -> Activ \union {None}]
      /\ \A s \in Rows \ {t} : act'[s] = act[s]
  BY <1>0, <1>1, <1>2, NoneAssumption DEF TypeOK
<1>4. TypeOK'
  BY <1>0, <1>3, IdleFits DEF TypeOK, Becomes
<1>5. \A l \in Licenses : ActiveOn(l)' = ActiveOn(l) \ {t}
  BY <1>2, <1>3 DEF ActiveOn, IsActive
<1>6. CapHeld'
  <2>1. ASSUME NEW l \in Licenses
        PROVE  IsFiniteSet(ActiveOn(l)') /\ Cardinality(ActiveOn(l)') <= MaxActivations[l]
    <3>1. IsFiniteSet(ActiveOn(l)) /\ ActiveOn(l)' \subseteq ActiveOn(l)
      BY <1>0, <1>5 DEF CapHeld
    <3>2. /\ IsFiniteSet(ActiveOn(l)') /\ Cardinality(ActiveOn(l)') <= Cardinality(ActiveOn(l))
          /\ Cardinality(ActiveOn(l)') \in Nat /\ Cardinality(ActiveOn(l)) \in Nat
      BY <3>1, FS_Subset, FS_CardinalityType
    <3> QED
      BY <1>0, <3>2, CapAssumption DEF CapHeld
  <2> QED
    BY <2>1 DEF CapHeld
<1>7. OneSeatPerMachine'
  BY <1>0, <1>2, <1>3 DEF OneSeatPerMachine, IsActive
<1> QED
  BY <1>0, <1>1, <1>2, <1>3, <1>4, <1>5, <1>6, <1>7, WriteStep

LEMMA RefreshStep ==
  ASSUME ActivationInv, NEW p \in Requests, ActivateRefresh(p)
  PROVE  ActivationInv'
<1>0. /\ TypeOK /\ CapHeld /\ OneSeatPerMachine /\ Becomes(p, Idle) /\ lock' = FreeLock(p)
      /\ Shaped(req[p]) /\ Alone(req[p]) /\ Holds(p, req[p]) /\ req[p].pc = "matched"
      /\ UNCHANGED <<licStatus, expired, tooOld, made>>
  BY DEF ActivationInv, ActivateRefresh
<1>1. PICK t \in Rows, k \in Licenses, f \in Fingerprints, n \in Nonces :
        /\ t = req[p].row /\ k = req[p].license /\ f = req[p].machine /\ n = req[p].nonce
        /\ act[t] # None /\ act[t] \in Activ /\ act[t].license = k
        /\ act' = [act EXCEPT ![t] = [@ EXCEPT !.machine = f, !.nonce = n]]
  BY <1>0 DEF ActivateRefresh, Shaped, TypeOK
<1>2. lock[k] = p
  BY <1>0, <1>1 DEF Holds, UnderLock
<1>3. PICK row \in Activ : /\ act' = [act EXCEPT ![t] = row] /\ row.license = k
                           /\ row.status = act[t].status /\ row.machine = f
  <2> DEFINE new == [act[t] EXCEPT !.machine = f, !.nonce = n]
  <2>1. new \in Activ /\ new.license = k /\ new.status = act[t].status /\ new.machine = f
    BY <1>1 DEF Activ
  <2>2. act' = [act EXCEPT ![t] = new]
    BY <1>1
  <2> HIDE DEF new
  <2> QED
    BY <2>1, <2>2
<1>4. /\ act'[t] = row /\ row # None /\ act' \in [Rows -> Activ \union {None}]
      /\ \A s \in Rows \ {t} : act'[s] = act[s]
  <2>1. act \in [Rows -> Activ \union {None}]
    BY <1>0 DEF TypeOK
  <2>2. act' = [act EXCEPT ![t] = row]
    BY <1>3
  <2>3. row # None
    BY NoneAssumption
  <2> QED
    BY <2>1, <2>2, <2>3
<1>5. TypeOK'
  BY <1>0, <1>4, IdleFits, FreeLockOthers DEF TypeOK, Becomes
<1>6. \A l \in Licenses : ActiveOn(l)' = ActiveOn(l)
  BY <1>1, <1>3, <1>4 DEF ActiveOn, IsActive
<1>7. CapHeld'
  BY <1>0, <1>6 DEF CapHeld
<1>8. OneSeatPerMachine'
  <2>1. ASSUME NEW s \in Rows, s # t, IsActive(s)
        PROVE  act[s].license # k \/ act[s].machine # f
    BY <1>0, <1>1, <2>1 DEF Alone, ActiveOn
  <2> QED
    BY <1>0, <1>1, <1>3, <1>4, <2>1 DEF OneSeatPerMachine, IsActive
<1>9. ASSUME NEW l \in Licenses, lock[l] # p, NEW s \in ActiveOn(l)'
      PROVE  s \in ActiveOn(l) /\ act'[s].machine = act[s].machine
  BY <1>1, <1>2, <1>4, <1>6, <1>9 DEF ActiveOn
<1> QED
  BY <1>0, <1>1, <1>3, <1>4, <1>5, <1>7, <1>8, <1>9, WriteStep

(* A new row: on a license that is active and locked, within its limit,    *)
(* for a machine that has no active row and is near none.                  *)
LEMMA InsertTells ==
  ASSUME ActivationInv, NEW p \in Requests, ActivateInsert(p)
  PROVE  \E t \in Rows, k \in Licenses, row \in Activ :
           /\ k = req[p].license /\ act[t] = None /\ act' = [act EXCEPT ![t] = row]
           /\ row.license = k /\ row.status = "active" /\ row.machine = req[p].machine
           /\ act'[t] = row /\ row # None /\ \A s \in Rows \ {t} : act'[s] = act[s]
           /\ lock[k] = p /\ licStatus[k] = "active"
           /\ \A s \in ActiveOn(k) : /\ act[s].machine # row.machine
                                     /\ overlapCount(row.machine, act[s].machine) < FpMin
           /\ Cardinality(ActiveOn(k)) < MaxActivations[k]
           /\ ActiveOn(k)' = ActiveOn(k) \union {t}
           /\ \A l \in Licenses \ {k} : ActiveOn(l)' = ActiveOn(l)
<1>0. /\ TypeOK /\ Shaped(req[p]) /\ Alone(req[p]) /\ Holds(p, req[p])
      /\ req[p].pc = "matched" /\ req[p].row = None
  BY DEF ActivationInv, ActivateInsert
<1>1. PICK k \in Licenses, f \in Fingerprints, n \in Nonces :
        k = req[p].license /\ f = req[p].machine /\ n = req[p].nonce
  BY <1>0 DEF Shaped
<1>2. PICK t \in Rows :
        /\ act[t] = None
        /\ act' = [act EXCEPT ![t] = [license |-> k, machine |-> f, nonce |-> n,
                                      status |-> "active"]]
  BY <1>1 DEF ActivateInsert
<1>3. PICK row \in Activ : /\ act' = [act EXCEPT ![t] = row]
                           /\ row.license = k /\ row.status = "active" /\ row.machine = f
  <2>1. LET row == [license |-> k, machine |-> f, nonce |-> n, status |-> "active"]
        IN  row \in Activ /\ row.license = k /\ row.status = "active" /\ row.machine = f
    BY DEF Activ
  <2> QED
    BY <1>2, <2>1
<1>4. act'[t] = row /\ row # None /\ \A s \in Rows \ {t} : act'[s] = act[s]
  BY <1>0, <1>3, NoneAssumption DEF TypeOK
<1>5. lock[k] = p /\ licStatus[k] = "active"
  BY <1>0, <1>1 DEF Holds, Shaped, UnderLock
<1>6. /\ \A s \in ActiveOn(k) : act[s].machine # f /\ overlapCount(f, act[s].machine) < FpMin
      /\ Cardinality(ActiveOn(k)) < MaxActivations[k]
  BY <1>0, <1>1, NoneAssumption DEF Alone, ActiveOn
<1>7. ActiveOn(k)' = ActiveOn(k) \union {t}
  BY <1>2, <1>3, <1>4 DEF ActiveOn, IsActive
<1>8. \A l \in Licenses \ {k} : ActiveOn(l)' = ActiveOn(l)
  BY <1>2, <1>3, <1>4 DEF ActiveOn, IsActive
<1> WITNESS t \in Rows, k \in Licenses, row \in Activ
<1> QED
  BY <1>1, <1>2, <1>3, <1>4, <1>5, <1>6, <1>7, <1>8

LEMMA InsertStep ==
  ASSUME ActivationInv, NEW p \in Requests, ActivateInsert(p)
  PROVE  ActivationInv'
<1>0. /\ TypeOK /\ CapHeld /\ OneSeatPerMachine /\ Becomes(p, Idle) /\ lock' = FreeLock(p)
      /\ UNCHANGED <<licStatus, expired, tooOld>> /\ made' \in [Nonces -> Nat]
  <2>1. made \in [Nonces -> Nat] /\ TypeOK /\ CapHeld /\ OneSeatPerMachine
    BY DEF ActivationInv, TypeOK
  <2>2. /\ Becomes(p, Idle) /\ lock' = FreeLock(p) /\ UNCHANGED <<licStatus, expired, tooOld>>
        /\ made' = [made EXCEPT ![req[p].nonce] = @ + 1]
    BY DEF ActivateInsert
  <2>3. PICK n \in Nonces : n = req[p].nonce
    BY DEF ActivationInv, ActivateInsert, Shaped
  <2>4. made' = [made EXCEPT ![n] = made[n] + 1] /\ made[n] + 1 \in Nat
    BY <2>1, <2>2, <2>3
  <2>5. made' \in [Nonces -> Nat]
    BY <2>1, <2>3, <2>4
  <2> QED
    BY <2>1, <2>2, <2>5
<1>1. PICK t \in Rows, k \in Licenses, row \in Activ :
           /\ act[t] = None /\ act' = [act EXCEPT ![t] = row]
           /\ row.license = k /\ row.status = "active"
           /\ act'[t] = row /\ row # None /\ \A s \in Rows \ {t} : act'[s] = act[s]
           /\ lock[k] = p
           /\ \A s \in ActiveOn(k) : act[s].machine # row.machine
           /\ Cardinality(ActiveOn(k)) < MaxActivations[k]
           /\ ActiveOn(k)' = ActiveOn(k) \union {t}
           /\ \A l \in Licenses \ {k} : ActiveOn(l)' = ActiveOn(l)
  BY InsertTells
<1>2. TypeOK'
  BY <1>0, <1>1, IdleFits, FreeLockOthers DEF TypeOK, Becomes
<1>3. CapHeld'
  <2>1. IsFiniteSet(ActiveOn(k)) /\ t \notin ActiveOn(k)
    BY <1>0, <1>1 DEF CapHeld, ActiveOn, IsActive
  <2>2. /\ IsFiniteSet(ActiveOn(k)') /\ Cardinality(ActiveOn(k)') = Cardinality(ActiveOn(k)) + 1
    BY <1>1, <2>1, FS_AddElement
  <2>3. Cardinality(ActiveOn(k)) \in Nat /\ MaxActivations[k] \in Nat
    BY <2>1, FS_CardinalityType, CapAssumption
  <2>4. Cardinality(ActiveOn(k)') <= MaxActivations[k]
    BY <1>1, <2>2, <2>3
  <2> QED
    BY <1>0, <1>1, <2>2, <2>4 DEF CapHeld
<1>4. OneSeatPerMachine'
  BY <1>0, <1>1 DEF OneSeatPerMachine, IsActive, ActiveOn
<1>5. ASSUME NEW l \in Licenses, lock[l] # p, NEW s \in ActiveOn(l)'
      PROVE  s \in ActiveOn(l) /\ act'[s].machine = act[s].machine
  BY <1>1, <1>5 DEF ActiveOn, IsActive
<1>6. \A s \in Rows : act[s] # None => act'[s] # None /\ act'[s].license = act[s].license
  BY <1>1
<1> QED
  BY <1>0, <1>2, <1>3, <1>4, <1>5, <1>6, WriteStep

-----------------------------------------------------------------------------
(* An operator, or time: a license whose row is locked keeps its status.   *)
LEMMA OutsideStep ==
  ASSUME ActivationInv, Environment \/ UNCHANGED vars
  PROVE  ActivationInv'
<1>0. /\ TypeOK /\ UNCHANGED <<act, lock, req, made>>
      /\ \A l \in Licenses : lock[l] # None => licStatus'[l] = licStatus[l]
  BY DEF ActivationInv, TypeOK, Environment, vars, suspendLicense, reinstateLicense,
         revokeLicense, Expire, FileAges
<1>1. TypeOK'
  <2>1. licStatus' \in [Licenses -> {"active", "suspended", "revoked"}]
    BY <1>0 DEF TypeOK, Environment, vars, suspendLicense, reinstateLicense, revokeLicense,
                Expire, FileAges
  <2>2. expired' \in SUBSET Licenses /\ tooOld' \in SUBSET FileNonces
    BY <1>0 DEF TypeOK, Environment, vars, suspendLicense, reinstateLicense, revokeLicense,
                Expire, FileAges
  <2> QED
    BY <1>0, <2>1, <2>2 DEF TypeOK
<1>2. \A l \in Licenses : ActiveOn(l)' = ActiveOn(l)
  BY <1>0 DEF ActiveOn, IsActive
<1>3. CapHeld' /\ OneSeatPerMachine'
  BY <1>0, <1>2 DEF ActivationInv, CapHeld, OneSeatPerMachine, IsActive
<1>4. ASSUME NEW p \in Requests PROVE Shaped(req[p])' /\ Alone(req[p])' /\ Holds(p, req[p])'
  <2>1. req'[p] = req[p] /\ Shaped(req[p]) /\ Alone(req[p]) /\ Holds(p, req[p])
    BY <1>0 DEF ActivationInv
  <2>2. Holds(p, req[p])'
    BY <1>0, <2>1 DEF Holds
  <2>3. req[p].pc \in UnderLock => req[p].license \in Licenses /\ lock[req[p].license] # None
    BY <2>1, NoneAssumption DEF Holds, Shaped, UnderLock
  <2>4. Shaped(req[p])'
    BY <1>0, <2>1, <2>3 DEF Shaped
  <2>5. Alone(req[p])'
    BY <1>0, <1>2, <2>1, <2>3 DEF Alone, UnderLock
  <2> QED
    BY <2>2, <2>4, <2>5
<1> QED
  BY <1>1, <1>3, <1>4 DEF ActivationInv

LEMMA NextActivationInv == ActivationInv /\ [Next]_vars => ActivationInv'
<1> SUFFICES ASSUME ActivationInv, [Next]_vars PROVE ActivationInv'
  OBVIOUS
<1>1. ASSUME NEW p \in Requests, Rollback(p) PROVE ActivationInv'
  BY <1>1, StopStep DEF Rollback
<1>2. ASSUME NEW p \in Requests, Finish(p) PROVE ActivationInv'
  BY <1>1, <1>2, ArriveStep, NonceStep, MatchStep, RefreshStep, InsertStep, DeactivateStep
     DEF Finish
<1> QED
  BY <1>2, ArriveStep, OutsideStep DEF Next

THEOREM ActivationInvariant == Spec => []ActivationInv
BY InitActivationInv, NextActivationInv, PTL DEF Spec

(* Every variable keeps its type.                                          *)
THEOREM ActivationTypeCorrect == Spec => []TypeOK
<1>1. ActivationInv => TypeOK
  BY DEF ActivationInv
<1> QED
  BY <1>1, ActivationInvariant, PTL

(* The same machine never holds two seats of a license, without the        *)
(* unique index that backs the code up.                                    *)
THEOREM MachineHasOneSeat == Spec => []OneSeatPerMachine
<1>1. ActivationInv => OneSeatPerMachine
  BY DEF ActivationInv
<1> QED
  BY <1>1, ActivationInvariant, PTL

-----------------------------------------------------------------------------
(* What every step but the INSERT does to the rows.                        *)
OnlyEnds ==
  \A s \in Rows :
    /\ act[s] = None <=> act'[s] = None
    /\ act[s] # None => act'[s].license = act[s].license
    /\ IsActive(s)' => IsActive(s)

LEMMA StepOnlyEnds ==
  ASSUME ActivationInv, [Next]_vars, \A p \in Requests : ~ActivateInsert(p)
  PROVE  OnlyEnds
<1>1. CASE UNCHANGED act
  BY <1>1 DEF OnlyEnds, IsActive
<1>2. ASSUME NEW t \in Rows, NEW row \in Activ, act[t] \in Activ, act' = [act EXCEPT ![t] = row],
             row.license = act[t].license, row.status = "active" => act[t].status = "active"
      PROVE  OnlyEnds
  <2>1. act'[t] = row /\ row # None /\ act[t] # None /\ \A s \in Rows \ {t} : act'[s] = act[s]
    BY <1>2, NoneAssumption DEF ActivationInv, TypeOK
  <2> QED
    BY <1>2, <2>1 DEF OnlyEnds, IsActive
<1>3. ASSUME NEW p \in Requests, DeactivateWrite(p) PROVE OnlyEnds
  <2>1. PICK t \in Rows : t = req[p].row /\ act[t] \in Activ
    BY <1>3 DEF DeactivateWrite, ActivationInv, Shaped, TypeOK
  <2> DEFINE row == [act[t] EXCEPT !.status = "deactivated"]
  <2>2. row \in Activ /\ row.license = act[t].license /\ row.status = "deactivated"
    BY <2>1 DEF Activ
  <2>3. act' = [act EXCEPT ![t] = row]
    BY <1>3, <2>1 DEF DeactivateWrite
  <2>4. row.license = act[t].license /\ (row.status = "active" => act[t].status = "active")
    BY <2>2
  <2> HIDE DEF row
  <2>5. act[t] \in Activ /\ row \in Activ
    BY <2>1, <2>2
  <2> QED
    BY <1>2, <2>3, <2>4, <2>5
<1>4. ASSUME NEW p \in Requests, ActivateRefresh(p) PROVE OnlyEnds
  <2>1. PICK t \in Rows : /\ t = req[p].row /\ act[t] \in Activ
                          /\ req[p].machine \in Fingerprints /\ req[p].nonce \in Nonces
    BY <1>4 DEF ActivateRefresh, ActivationInv, Shaped, TypeOK
  <2> DEFINE row == [act[t] EXCEPT !.machine = req[p].machine, !.nonce = req[p].nonce]
  <2>2. row \in Activ /\ row.license = act[t].license /\ row.status = act[t].status
    BY <2>1 DEF Activ
  <2>3. act' = [act EXCEPT ![t] = row]
    BY <1>4, <2>1 DEF ActivateRefresh
  <2>4. row.license = act[t].license /\ (row.status = "active" => act[t].status = "active")
    BY <2>2
  <2> HIDE DEF row
  <2>5. act[t] \in Activ /\ row \in Activ
    BY <2>1, <2>2
  <2> QED
    BY <1>2, <2>3, <2>4, <2>5
<1>5. CASE Environment
  BY <1>1, <1>5 DEF Environment, suspendLicense, reinstateLicense, revokeLicense, Expire, FileAges
<1>6. ASSUME NEW p \in Requests, Arrive(p) PROVE OnlyEnds
  <2>1. ASSUME NEW l, NEW f, NEW n, AirGapCheck(p, l, f, n) PROVE UNCHANGED act
    BY <2>1 DEF AirGapCheck
  <2>2. ASSUME NEW l, NEW f, NEW n, ActivateOnline(p, l, f, n) PROVE UNCHANGED act
    BY <2>2 DEF ActivateOnline, Lock
  <2>3. ASSUME NEW r, DeactivateRead(p, r) PROVE UNCHANGED act
    BY <2>3 DEF DeactivateRead
  <2> QED
    BY <1>1, <1>6, <2>1, <2>2, <2>3 DEF Arrive
<1>7. ASSUME NEW p \in Requests, Finish(p) PROVE OnlyEnds
  BY <1>1, <1>3, <1>4, <1>7 DEF Finish, Lock, ActivateFile, ActivateNonce, ActivateMatch, Rollback
<1> QED
  BY <1>1, <1>5, <1>6, <1>7 DEF Next, vars

(* A license that is not active gains no seat, and a machine that drifted  *)
(* gets no new row while it still matches an active one.                   *)
THEOREM SeatsNeedActiveLicense == Spec => SeatOnlyOnActiveLicense
<1>1. ActivationInv /\ [Next]_vars =>
        [\A r \in Rows : (act[r] = None /\ act'[r] # None)
                           => licStatus[act'[r].license] = "active"]_vars
  BY InsertTells, StepOnlyEnds DEF OnlyEnds
<1> QED
  BY <1>1, ActivationInvariant, PTL DEF Spec, SeatOnlyOnActiveLicense

THEOREM DriftKeepsTheSeat == Spec => DriftTakesNoSeat
<1>1. ActivationInv /\ [Next]_vars =>
        [\A r, s \in Rows :
           (act[r] = None /\ act'[r] # None /\ IsActive(s) /\ act[s].license = act'[r].license)
             => overlapCount(act'[r].machine, act[s].machine) < FpMin]_vars
  <2> SUFFICES ASSUME ActivationInv, [Next]_vars, NEW r \in Rows, NEW s \in Rows,
                      act[r] = None, act'[r] # None, IsActive(s),
                      act[s].license = act'[r].license
               PROVE  overlapCount(act'[r].machine, act[s].machine) < FpMin
    OBVIOUS
  <2>1. PICK p \in Requests : ActivateInsert(p)
    BY StepOnlyEnds DEF OnlyEnds
  <2>2. PICK t \in Rows, k \in Licenses, row \in Activ :
          /\ act[t] = None /\ act'[t] = row /\ row.license = k
          /\ \A q \in Rows \ {t} : act'[q] = act[q]
          /\ \A q \in ActiveOn(k) : overlapCount(row.machine, act[q].machine) < FpMin
    BY <2>1, InsertTells
  <2>3. r = t
    BY <2>2
  <2>4. s \in ActiveOn(k)
    BY <2>2, <2>3 DEF ActiveOn
  <2> QED
    BY <2>2, <2>3, <2>4
<1> QED
  BY <1>1, ActivationInvariant, PTL DEF Spec, DriftTakesNoSeat

-----------------------------------------------------------------------------
(* The refinement mapping of Pool, by name.                                *)
Occupied == [l \in Licenses |-> {<<r, r>> : r \in ActiveOn(l)}]
Spent == {r \in Rows : act[r] # None /\ ~IsActive(r)}

(* There are no more occupancies than active rows.                         *)
LEMMA OccupiedSize ==
  ASSUME NEW l \in Licenses, IsFiniteSet(ActiveOn(l))
  PROVE  IsFiniteSet(Occupied[l]) /\ Cardinality(Occupied[l]) <= Cardinality(ActiveOn(l))
<1> DEFINE f == [r \in ActiveOn(l) |-> <<r, r>>]
<1>1. f \in Surjection(ActiveOn(l), Occupied[l])
  BY DEF Surjection, Occupied
<1> HIDE DEF f
<1> QED
  BY <1>1, FS_Surjection

LEMMA InsertIsGrant ==
  ASSUME ActivationInv, NEW p \in Requests, ActivateInsert(p)
  PROVE  \E l \in Licenses, s \in Rows : Pool!Grant(l, s, s)
<1>1. PICK t \in Rows, k \in Licenses, row \in Activ :
           /\ act[t] = None /\ act'[t] = row /\ row # None /\ row.status = "active"
           /\ \A s \in Rows \ {t} : act'[s] = act[s]
           /\ Cardinality(ActiveOn(k)) < MaxActivations[k]
           /\ ActiveOn(k)' = ActiveOn(k) \union {t}
           /\ \A l \in Licenses \ {k} : ActiveOn(l)' = ActiveOn(l)
  BY InsertTells
<1>2. t \notin Spent /\ \A l \in Licenses : \A o \in Occupied[l] : o[1] # t /\ o[2] # t
  BY <1>1 DEF Spent, Occupied, ActiveOn, IsActive
<1>3. Cardinality(Occupied[k]) < MaxActivations[k]
  <2>1. IsFiniteSet(ActiveOn(k))
    BY DEF ActivationInv, CapHeld
  <2>2. /\ Cardinality(Occupied[k]) <= Cardinality(ActiveOn(k))
        /\ Cardinality(Occupied[k]) \in Nat /\ Cardinality(ActiveOn(k)) \in Nat
    BY <2>1, OccupiedSize, FS_CardinalityType
  <2> QED
    BY <1>1, <2>2, CapAssumption
<1>4. Occupied' = [Occupied EXCEPT ![k] = @ \union {<<t, t>>}]
  BY <1>1 DEF Occupied
<1>5. Spent' = Spent
  BY <1>1 DEF Spent, IsActive
<1>6. Pool!Cardinality(Occupied[k]) = Cardinality(Occupied[k])
  BY DEF Pool!Cardinality, Cardinality, Pool!IsFiniteSet, IsFiniteSet
<1>7. Pool!Grant(k, t, t)
  BY <1>2, <1>3, <1>4, <1>5, <1>6 DEF Pool!Grant, Occupied, Spent
<1> QED
  BY <1>7

LEMMA OtherIsEnd ==
  ASSUME ActivationInv, OnlyEnds
  PROVE  (\E S \in SUBSET Rows : Pool!End(S)) \/ (Occupied' = Occupied /\ Spent' = Spent)
<1> PICK S : S = {r \in Rows : IsActive(r) /\ ~IsActive(r)'}
  OBVIOUS
<1>1. \A r \in Rows : IsActive(r) => act[r].license \in Licenses
  BY DEF ActivationInv, TypeOK, IsActive, Activ
<1>2. ASSUME NEW l \in Licenses PROVE ActiveOn(l)' = ActiveOn(l) \ S
  BY DEF ActiveOn, OnlyEnds, IsActive
<1>3. Spent' = Spent \union S
  BY DEF Spent, OnlyEnds, IsActive
<1>4. Occupied' = [l \in Licenses |-> {o \in Occupied[l] : o[1] \notin S}]
  BY <1>2 DEF Occupied
<1>5. \A s \in S : \E l \in Licenses : \E o \in Occupied[l] : o[1] = s
  <2>1. ASSUME NEW s \in S
        PROVE  <<s, s>> \in Occupied[act[s].license] /\ act[s].license \in Licenses
    BY <1>1 DEF Occupied, ActiveOn
  <2> QED
    BY <2>1
<1>6. CASE S = {}
  <2>1. Occupied = [l \in Licenses |-> {o \in Occupied[l] : TRUE}]
    BY DEF Occupied
  <2> QED
    BY <1>3, <1>4, <1>6, <2>1
<1>7. CASE S # {}
  <2>1. Pool!End(S)
    BY <1>3, <1>4, <1>5, <1>7 DEF Pool!End, Occupied, Spent
  <2> QED
    BY <2>1
<1> QED
  BY <1>6, <1>7

(* Activation, its lock, its replays and its crashes included, implements  *)
(* the abstract seat pool: a license never has more active machines than   *)
(* it sells, and a seat given up stays given up.                           *)
THEOREM ActivationImplementsSeatPool == Spec => ImplementsSeatPool
<1>1. Init => Pool!Init
  BY DEF Init, Pool!Init, ActiveOn, IsActive
<1>2. ActivationInv /\ [Next]_vars => [Pool!Next]_(Pool!vars)
  <2> SUFFICES ASSUME ActivationInv, [Next]_vars PROVE Pool!Next \/ UNCHANGED Pool!vars
    OBVIOUS
  <2>1. CASE \E p \in Requests : ActivateInsert(p)
    BY <2>1, InsertIsGrant DEF Pool!Next
  <2>2. CASE \A p \in Requests : ~ActivateInsert(p)
    <3>1. OnlyEnds
      BY <2>2, StepOnlyEnds
    <3>2. (Occupied' = Occupied /\ Spent' = Spent) => UNCHANGED Pool!vars
      BY DEF Pool!vars, Occupied, Spent
    <3> QED
      BY <3>1, <3>2, OtherIsEnd DEF Pool!Next
  <2> QED
    BY <2>1, <2>2
<1> QED
  BY <1>1, <1>2, ActivationInvariant, PTL DEF Spec, ImplementsSeatPool, Pool!Spec
-----------------------------------------------------------------------------
(* A file that is too old, that made nothing and that nobody has in hand:  *)
(* the check lets it in no more, and a token that does not come in a file  *)
(* is another one.                                                         *)
Expired(n) ==
  /\ n \in tooOld /\ Carrying(n) = {} /\ made[n] = 0
  /\ \A p \in Requests : req[p].nonce # n

(* Rows and requests get no token that is in none of them.                 *)
LEMMA TokensComeFromRequests ==
  ASSUME ActivationInv, NEW n \in FileNonces, Expired(n),
         NEW p \in Requests, Arrive(p) \/ Finish(p)
  PROVE  Expired(n)'
<1>0. n \in Nonces /\ n # None /\ n \in tooOld' /\ Idle.nonce # n
  BY FileAssumption, NoneAssumption
     DEF Expired, Arrive, Finish, AirGapCheck, ActivateOnline, Lock, ActivateFile, ActivateNonce,
         ActivateMatch, ActivateRefresh, ActivateInsert, Rollback, DeactivateRead, DeactivateWrite, Idle
<1>1. req \in [Requests -> Request] /\ act \in [Rows -> Activ \union {None}] /\ made \in [Nonces -> Nat]
  BY DEF ActivationInv, TypeOK
<1>2. ASSUME NEW q, Becomes(p, q), q.nonce # n PROVE \A o \in Requests : req'[o].nonce # n
  BY <1>1, <1>2 DEF Becomes, Expired
<1>3. ASSUME UNCHANGED <<act, made>>, NEW q, Becomes(p, q), q.nonce # n PROVE Expired(n)'
  BY <1>0, <1>2, <1>3 DEF Expired, Carrying
<1>4. ASSUME NEW l \in Licenses, NEW f \in Fingerprints, NEW m \in Nonces \ {n}
      PROVE  /\ [Idle EXCEPT !.pc = "checked", !.license = l, !.machine = f, !.nonce = m].nonce # n
             /\ [Idle EXCEPT !.pc = "locked", !.license = l, !.machine = f, !.nonce = m].nonce # n
  BY DEF Idle
<1>5. CASE Arrive(p)
  <2>1. ASSUME NEW l \in Licenses, NEW f \in Fingerprints, NEW m \in Nonces,
               AirGapCheck(p, l, f, m)
        PROVE  Expired(n)'
    <3>1. m # n
      BY <2>1 DEF AirGapCheck, Expired
    <3> QED
      BY <1>3, <1>4, <2>1, <3>1 DEF AirGapCheck
  <2>2. ASSUME NEW l \in Licenses, NEW f \in Fingerprints, NEW m \in Nonces,
               ActivateOnline(p, l, f, m)
        PROVE  Expired(n)'
    <3>1. m # n
      BY <2>2 DEF ActivateOnline
    <3> QED
      BY <1>3, <1>4, <2>2, <3>1 DEF ActivateOnline, Lock
  <2>3. ASSUME NEW r \in Rows, DeactivateRead(p, r) PROVE Expired(n)'
    <3>1. [Idle EXCEPT !.pc = "deactivating", !.row = r].nonce # n
      BY <1>0 DEF Idle
    <3> QED
      BY <1>3, <2>3, <3>1 DEF DeactivateRead
  <2> QED
    BY <1>5, <2>1, <2>2, <2>3 DEF Arrive
<1>6. CASE Finish(p)
  <2>0. PICK q : q = req[p]
    OBVIOUS
  <2>1. q \in Request /\ q.nonce # n /\ Shaped(q)
    BY <1>1, <2>0 DEF Expired, ActivationInv
  <2>2. \A r : [q EXCEPT !.pc = "fresh"].nonce # n /\ [q EXCEPT !.pc = "matched"].nonce # n
                /\ [q EXCEPT !.pc = "matched", !.row = r].nonce # n
    BY <2>1 DEF Request
  <2>3. CASE ActivateFile(p)
    <3>1. q.license \in Licenses /\ q.machine \in Fingerprints /\ q.nonce \in Nonces \ {n}
      BY <2>0, <2>1, <2>3 DEF ActivateFile, Shaped
    <3> QED
      BY <1>3, <1>4, <2>0, <2>3, <3>1 DEF ActivateFile, Lock
  <2>4. CASE ActivateNonce(p)
    BY <1>0, <1>3, <2>0, <2>2, <2>4 DEF ActivateNonce
  <2>5. CASE ActivateMatch(p)
    BY <1>0, <1>3, <2>0, <2>2, <2>5 DEF ActivateMatch
  <2>6. CASE Rollback(p)
    BY <1>0, <1>3, <2>6 DEF Rollback
  <2>7. ASSUME ActivateRefresh(p) \/ ActivateInsert(p) \/ DeactivateWrite(p) PROVE Expired(n)'
    <3>1. \A o \in Requests : req'[o].nonce # n
      BY <1>0, <1>2, <2>7 DEF ActivateRefresh, ActivateInsert, DeactivateWrite
    <3>2. made'[n] = made[n]
      BY <1>0, <1>1, <2>0, <2>1, <2>7 DEF ActivateRefresh, ActivateInsert, DeactivateWrite
    <3>3. ASSUME NEW r \in Rows, act'[r] # None PROVE act'[r].nonce # n
      <4>0. act[r] # None => act[r].nonce # n
        BY DEF Expired, Carrying
      <4>1. CASE ActivateRefresh(p)
        <5>1. q.row \in Rows /\ act[q.row] # None
          BY <2>0, <2>1, <4>1 DEF ActivateRefresh, Shaped
        <5>2. act[q.row] \in Activ /\ act[q.row].nonce # n
          BY <1>1, <5>1 DEF Expired, Carrying
        <5>3. act' = [act EXCEPT ![q.row] = [@ EXCEPT !.machine = q.machine, !.nonce = q.nonce]]
          BY <2>0, <4>1 DEF ActivateRefresh
        <5>4. act'[q.row].nonce = q.nonce /\ (r # q.row => act'[r] = act[r])
          BY <1>1, <5>1, <5>2, <5>3 DEF Activ
        <5> QED
          BY <2>1, <3>3, <4>0, <5>4
      <4>2. CASE ActivateInsert(p)
        BY <1>1, <2>0, <2>1, <3>3, <4>0, <4>2 DEF ActivateInsert
      <4>3. CASE DeactivateWrite(p)
        <5>1. q.row \in Rows /\ act[q.row] # None
          BY <2>0, <2>1, <4>3 DEF DeactivateWrite, Shaped
        <5>2. act[q.row] \in Activ /\ act[q.row].nonce # n
          BY <1>1, <5>1 DEF Expired, Carrying
        <5>3. act' = [act EXCEPT ![q.row].status = "deactivated"]
          BY <2>0, <4>3 DEF DeactivateWrite
        <5>4. act'[q.row].nonce = act[q.row].nonce /\ (r # q.row => act'[r] = act[r])
          BY <1>1, <5>1, <5>2, <5>3 DEF Activ
        <5> QED
          BY <3>3, <4>0, <5>2, <5>4
      <4> QED
        BY <2>7, <4>1, <4>2, <4>3
    <3>4. Carrying(n)' = {}
      BY <3>3 DEF Carrying
    <3> QED
      BY <1>0, <3>1, <3>2, <3>4 DEF Expired
  <2> QED
    BY <1>6, <2>3, <2>4, <2>5, <2>6, <2>7 DEF Finish
<1> QED
  BY <1>5, <1>6

LEMMA ExpiredStays ==
  ASSUME ActivationInv, [Next]_vars, NEW n \in FileNonces, Expired(n)
  PROVE  Expired(n)'
<1>1. CASE Environment
  BY <1>1 DEF Environment, suspendLicense, reinstateLicense, revokeLicense, Expire, FileAges, Expired, Carrying
<1>2. CASE UNCHANGED vars
  BY <1>2 DEF vars, Expired, Carrying
<1> QED
  BY <1>1, <1>2, TokensComeFromRequests DEF Next

(* The file of an air-gapped machine, once it is too old and nobody is     *)
(* working on it, activates nothing any more.                              *)
THEOREM ExpiredFilesStayDead == Spec => StaleFileNeverActivates
<1>1. ASSUME NEW n \in FileNonces
      PROVE  Spec => []((n \in tooOld /\ Carrying(n) = {} /\ made[n] = 0
                           /\ \A p \in Requests : req[p].nonce # n)
                         => [](made[n] = 0 /\ Carrying(n) = {}))
  <2>1. ActivationInv /\ [Next]_vars /\ Expired(n) => Expired(n)'
    BY ExpiredStays
  <2>2. Expired(n) => made[n] = 0 /\ Carrying(n) = {}
    BY DEF Expired
  <2>3. (n \in tooOld /\ Carrying(n) = {} /\ made[n] = 0 /\ \A p \in Requests : req[p].nonce # n)
          => Expired(n)
    BY DEF Expired
  <2> QED
    BY <2>1, <2>2, <2>3, ActivationInvariant, PTL DEF Spec
<1> QED
  BY <1>1 DEF StaleFileNeverActivates
=============================================================================
