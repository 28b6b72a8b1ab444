----------------------------- MODULE Activation -----------------------------
(***************************************************************************)
(* Machine activation (src/server/modules/activation): the activation rows *)
(* of one tenant, online and air-gap activation, deactivation, and the     *)
(* license lifecycle (src/server/modules/issuance) they run against.       *)
(*                                                                         *)
(* activate() is one transaction that holds the license's row lock from    *)
(* its first statement to COMMIT; deactivate() never asks for that lock.   *)
(* A step is one statement that reads or writes shared state; the signing  *)
(* call between the reads and the write is a point where a step of         *)
(* somebody else fits.  A transaction's last write and its COMMIT are one  *)
(* step: nobody can see between them.                                      *)
(*                                                                         *)
(* Machines are the sets of signal hashes they present: machine_id is an   *)
(* injective hash of that set.                                             *)
(***************************************************************************)
EXTENDS Naturals, FiniteSets

CONSTANTS
  Licenses,        \* licenses of the tenant
  Fingerprints,    \* sets of signal hashes that machines present
  FpMin,           \* K of the K-of-N match
  MaxActivations,  \* MaxActivations[l]: the license's seat limit
  Nonces,          \* single-use activation tokens of clients
  FileNonces,      \* the tokens that travel in air-gap request files
  Rows,            \* identities of activation rows
  Requests,        \* handlers running at the same time
  None

ASSUME CapAssumption == MaxActivations \in [Licenses -> Nat \ {0}]
ASSUME FingerprintAssumption ==
  FpMin \in Nat \ {0} /\ \A f \in Fingerprints : IsFiniteSet(f)
ASSUME FileAssumption == FileNonces \subseteq Nonces

VARIABLES
  licStatus,   \* license.status
  expired,     \* the licenses past expires_at
  tooOld,      \* the request files past the freshness window
  act,         \* the activation table
  lock,        \* lock[l]: the transaction that holds license row l
  req,         \* the handlers
  made         \* made[n]: how many rows token n created (history)

vars == <<licStatus, expired, tooOld, act, lock, req, made>>

-----------------------------------------------------------------------------
Activ == [license : Licenses, machine : Fingerprints, nonce : Nonces,
          status : {"active", "deactivated"}]

ASSUME NoneAssumption ==
  None \notin Licenses \union Nonces \union Rows \union Requests \union Activ

Phases == {"idle", "checked", "locked", "fresh", "matched", "deactivating"}

Request == [pc : Phases, license : Licenses \union {None},
            machine : Fingerprints \union {{}}, nonce : Nonces \union {None},
            row : Rows \union {None}]   \* the row to refresh or deactivate

Idle == [pc |-> "idle", license |-> None, machine |-> {}, nonce |-> None,
         row |-> None]

TypeOK ==
  /\ licStatus \in [Licenses -> {"active", "suspended", "revoked"}]
  /\ expired \in SUBSET Licenses
  /\ tooOld \in SUBSET FileNonces
  /\ act \in [Rows -> Activ \union {None}]
  /\ lock \in [Licenses -> Requests \union {None}]
  /\ req \in [Requests -> Request]
  /\ made \in [Nonces -> Nat]

Init ==
  /\ licStatus = [l \in Licenses |-> "active"]
  /\ expired = {}
  /\ tooOld = {}
  /\ act = [r \in Rows |-> None]
  /\ lock = [l \in Licenses |-> None]
  /\ req = [p \in Requests |-> Idle]
  /\ made = [n \in Nonces |-> 0]

-----------------------------------------------------------------------------
IsActive(r) == act[r] # None /\ act[r].status = "active"
ActiveOn(l) == {r \in Rows : IsActive(r) /\ act[r].license = l}
Carrying(n) == {r \in Rows : act[r] # None /\ act[r].nonce = n}

Becomes(p, r) == req' = [req EXCEPT ![p] = r]
FreeLock(p) == [l \in Licenses |-> IF lock[l] = p THEN None ELSE lock[l]]

overlapCount(f, g) == Cardinality(f \intersect g)

(* chooseMatch: the active rows a returning machine may take over.  An     *)
(* exact machine wins, then the largest overlap of at least FpMin.  Ties   *)
(* go to the latest updated_at, the begin time of whichever transaction    *)
(* wrote the row last: that order is left open here.                       *)
Matches_ExactOnly(l, f) == {r \in ActiveOn(l) : act[r].machine = f}
Matches(l, f) ==
  LET exact == {r \in ActiveOn(l) : act[r].machine = f}
      near  == {r \in ActiveOn(l) : overlapCount(f, act[r].machine) >= FpMin}
  IN  IF exact # {} THEN exact
      ELSE {r \in near : \A s \in near :
              overlapCount(f, act[r].machine) >= overlapCount(f, act[s].machine)}

-----------------------------------------------------------------------------
(* processAirGapRequest, before it calls activate: a transaction of its    *)
(* own looks the token up, and only an unseen token's file has to be       *)
(* fresh.                                                                  *)
AirGapCheck_NoFreshness(p, l, f, n) ==
  /\ req[p].pc = "idle"
  /\ n \in FileNonces
  /\ Becomes(p, [Idle EXCEPT !.pc = "checked", !.license = l, !.machine = f,
                             !.nonce = n])
  /\ UNCHANGED <<licStatus, expired, tooOld, act, lock, made>>

AirGapCheck(p, l, f, n) ==
  /\ req[p].pc = "idle"
  /\ n \in FileNonces
  /\ Carrying(n) # {} \/ n \notin tooOld
  /\ Becomes(p, [Idle EXCEPT !.pc = "checked", !.license = l, !.machine = f,
                             !.nonce = n])
  /\ UNCHANGED <<licStatus, expired, tooOld, act, lock, made>>

(* activate: enough signals, SELECT ... FOR UPDATE on the license, and the *)
(* license must be active and unexpired.  A refusal changes nothing.       *)
Lock_NotExclusive(p, l, f, n) ==
  /\ Cardinality(f) >= FpMin
  /\ licStatus[l] = "active" /\ l \notin expired
  /\ lock' = [lock EXCEPT ![l] = p]
  /\ Becomes(p, [Idle EXCEPT !.pc = "locked", !.license = l, !.machine = f,
                             !.nonce = n])
  /\ UNCHANGED <<licStatus, expired, tooOld, act, made>>

Lock(p, l, f, n) ==
  /\ Cardinality(f) >= FpMin
  /\ lock[l] = None
  /\ licStatus[l] = "active" /\ l \notin expired
  /\ lock' = [lock EXCEPT ![l] = p]
  /\ Becomes(p, [Idle EXCEPT !.pc = "locked", !.license = l, !.machine = f,
                             !.nonce = n])
  /\ UNCHANGED <<licStatus, expired, tooOld, act, made>>

ActivateOnline(p, l, f, n) ==
  /\ req[p].pc = "idle"
  /\ n \notin FileNonces
  /\ Lock(p, l, f, n)

ActivateFile(p) ==
  /\ req[p].pc = "checked"
  /\ Lock(p, req[p].license, req[p].machine, req[p].nonce)

(* SELECT ... WHERE nonce.  The same license and machine get the stored    *)
(* result back, whatever became of the row; anybody else is refused.       *)
ActivateNonce(p) ==
  /\ req[p].pc = "locked"
  /\ IF Carrying(req[p].nonce) = {}
     THEN /\ Becomes(p, [req[p] EXCEPT !.pc = "fresh"])
          /\ UNCHANGED lock
     ELSE /\ Becomes(p, Idle)
          /\ lock' = FreeLock(p)
  /\ UNCHANGED <<licStatus, expired, tooOld, act, made>>

(* The seat limit, on the active rows the transaction selected.            *)
SeatLeft_OffByOne(l) == Cardinality(ActiveOn(l)) <= MaxActivations[l]
SeatLeft(l) == Cardinality(ActiveOn(l)) < MaxActivations[l]

(* SELECT the license's active rows and choose a match; with none, the     *)
(* seat limit applies.                                                     *)
ActivateMatch(p) ==
  /\ req[p].pc = "fresh"
  /\ LET l == req[p].license
         f == req[p].machine IN
       \/ \E r \in Matches(l, f) :
            /\ Becomes(p, [req[p] EXCEPT !.pc = "matched", !.row = r])
            /\ UNCHANGED lock
       \/ /\ Matches(l, f) = {}
          /\ SeatLeft(l)
          /\ Becomes(p, [req[p] EXCEPT !.pc = "matched"])
          /\ UNCHANGED lock
       \/ /\ Matches(l, f) = {}
          /\ ~SeatLeft(l)
          /\ Becomes(p, Idle)
          /\ lock' = FreeLock(p)
  /\ UNCHANGED <<licStatus, expired, tooOld, act, made>>

(* Sign, then UPDATE the matched row (by id alone), audit and COMMIT.  The *)
(* unique index on the token sends the loser of a race to Rollback.        *)
ActivateRefresh(p) ==
  /\ req[p].pc = "matched" /\ req[p].row # None
  /\ Carrying(req[p].nonce) \subseteq {req[p].row}
  /\ act' = [act EXCEPT ![req[p].row] =
               [@ EXCEPT !.machine = req[p].machine, !.nonce = req[p].nonce]]
  /\ Becomes(p, Idle)
  /\ lock' = FreeLock(p)
  /\ UNCHANGED <<licStatus, expired, tooOld, made>>

(* Sign, then INSERT a new row, audit and COMMIT: a seat is taken.         *)
ActivateInsert(p) ==
  /\ req[p].pc = "matched" /\ req[p].row = None
  /\ Carrying(req[p].nonce) = {}
  /\ \E r \in Rows :
       /\ act[r] = None
       /\ act' = [act EXCEPT ![r] =
            [license |-> req[p].license, machine |-> req[p].machine,
             nonce |-> req[p].nonce, status |-> "active"]]
  /\ made' = [made EXCEPT ![req[p].nonce] = @ + 1]
  /\ Becomes(p, Idle)
  /\ lock' = FreeLock(p)
  /\ UNCHANGED <<licStatus, expired, tooOld>>

(* A fault before COMMIT: the signer's 503, the token's unique violation,  *)
(* a lost connection.                                                      *)
Rollback(p) ==
  /\ req[p].pc # "idle"
  /\ Becomes(p, Idle)
  /\ lock' = FreeLock(p)
  /\ UNCHANGED <<licStatus, expired, tooOld, act, made>>

-----------------------------------------------------------------------------
(* deactivate: SELECT status, then an UPDATE by id when it was active.     *)
DeactivateRead(p, r) ==
  /\ req[p].pc = "idle"
  /\ IsActive(r)
  /\ Becomes(p, [Idle EXCEPT !.pc = "deactivating", !.row = r])
  /\ UNCHANGED <<licStatus, expired, tooOld, act, lock, made>>

DeactivateWrite(p) ==
  /\ req[p].pc = "deactivating"
  /\ act' = [act EXCEPT ![req[p].row].status = "deactivated"]
  /\ Becomes(p, Idle)
  /\ UNCHANGED <<licStatus, expired, tooOld, lock, made>>

-----------------------------------------------------------------------------
(* The license lifecycle: each operation locks the license row first, so   *)
(* it waits for a transaction that holds it.                               *)
suspendLicense_NoLock(l) ==
  /\ licStatus[l] = "active"
  /\ licStatus' = [licStatus EXCEPT ![l] = "suspended"]
  /\ UNCHANGED <<expired, tooOld, act, lock, req, made>>

suspendLicense(l) ==
  /\ lock[l] = None
  /\ licStatus[l] = "active"
  /\ licStatus' = [licStatus EXCEPT ![l] = "suspended"]
  /\ UNCHANGED <<expired, tooOld, act, lock, req, made>>

reinstateLicense(l) ==
  /\ lock[l] = None
  /\ licStatus[l] = "suspended"
  /\ licStatus' = [licStatus EXCEPT ![l] = "active"]
  /\ UNCHANGED <<expired, tooOld, act, lock, req, made>>

revokeLicense(l) ==
  /\ lock[l] = None
  /\ licStatus[l] # "revoked"
  /\ licStatus' = [licStatus EXCEPT ![l] = "revoked"]
  /\ UNCHANGED <<expired, tooOld, act, lock, req, made>>

(* Time passes: a license expires, a request file gets too old.            *)
Expire(l) ==
  /\ l \notin expired
  /\ expired' = expired \union {l}
  /\ UNCHANGED <<licStatus, tooOld, act, lock, req, made>>

FileAges(n) ==
  /\ n \notin tooOld
  /\ tooOld' = tooOld \union {n}
  /\ UNCHANGED <<licStatus, expired, act, lock, req, made>>

-----------------------------------------------------------------------------
Arrive(p) ==
  \/ \E l \in Licenses, f \in Fingerprints, n \in Nonces :
       AirGapCheck(p, l, f, n) \/ ActivateOnline(p, l, f, n)
  \/ \E r \in Rows : DeactivateRead(p, r)

Finish(p) ==
  \/ ActivateFile(p) \/ ActivateNonce(p) \/ ActivateMatch(p)
  \/ ActivateRefresh(p) \/ ActivateInsert(p) \/ Rollback(p)
  \/ DeactivateWrite(p)

Environment ==
  \/ \E l \in Licenses :
       suspendLicense(l) \/ reinstateLicense(l) \/ revokeLicense(l) \/ Expire(l)
  \/ \E n \in FileNonces : FileAges(n)

Next == (\E p \in Requests : Arrive(p) \/ Finish(p)) \/ Environment

Spec == Init /\ [][Next]_vars
-----------------------------------------------------------------------------
(* However many machines race for the last seats, no license has more      *)
(* active machines than it sells (FR-003, FR-004), and a seat given up is  *)
(* never silently taken again: with each row as its own holder, activation *)
(* implements the seat pool.                                               *)
Pool == INSTANCE SeatPool WITH
  Seats <- Rows,
  Holders <- Rows,
  Capacity <- MaxActivations,
  occupied <- [l \in Licenses |-> {<<r, r>> : r \in ActiveOn(l)}],
  spent <- {r \in Rows : act[r] # None /\ ~IsActive(r)}
ImplementsSeatPool == Pool!Spec

(* The same machine never holds two seats of a license, even without the   *)
(* partial unique index that backs the code up.                            *)
OneSeatPerMachine ==
  \A r, s \in Rows :
    (IsActive(r) /\ IsActive(s) /\ r # s)
      => (act[r].license # act[s].license \/ act[r].machine # act[s].machine)

(* A machine whose fingerprint drifted keeps its seat (FR-005): a new row  *)
(* never appears next to an active one that it still matches K of N.       *)
DriftTakesNoSeat ==
  [][\A r, s \in Rows :
       (act[r] = None /\ act'[r] # None /\ IsActive(s)
          /\ act[s].license = act'[r].license)
         => overlapCount(act'[r].machine, act[s].machine) < FpMin]_vars

(* A suspended or revoked license gains no seat (FR-008), however the      *)
(* operator's change falls among the activation's statements.              *)
SeatOnlyOnActiveLicense ==
  [][\A r \in Rows :
       (act[r] = None /\ act'[r] # None)
         => licStatus[act'[r].license] = "active"]_vars

(* The freshness of an air-gap file (FR-008): once a file nobody has       *)
(* processed is too old and nobody is processing it, it never activates    *)
(* anything, although the freshness check and the activation are separate  *)
(* transactions.                                                           *)
StaleFileNeverActivates ==
  \A n \in FileNonces :
    []((n \in tooOld /\ Carrying(n) = {} /\ made[n] = 0
          /\ \A p \in Requests : req[p].nonce # n)
         => [](made[n] = 0 /\ Carrying(n) = {}))

-----------------------------------------------------------------------------
(* What the documents say and the code does not do.                        *)

(* spec.md of machine activation, FR-009: "no replayed request ever        *)
(* creates a second activation or seat".  A refresh overwrites the token   *)
(* that made the row, so a late duplicate of the first request is new.     *)
NonceMakesOneSeat == \A n \in Nonces : made[n] <= 1
=============================================================================
