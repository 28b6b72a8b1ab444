-------------------------------- MODULE Crl --------------------------------
(***************************************************************************)
(* The signed revocation list of one product (crl.ts, crl-worker.ts and    *)
(* revocation-list.ts of src/server/modules/enforcement): every server     *)
(* runs a worker that publishes a new version when the revoked ids changed *)
(* or the last version is due for renewal, and clients fetch versions and  *)
(* keep the newest.                                                        *)
(*                                                                         *)
(* publishIfStale is one READ COMMITTED transaction, and each SELECT in it *)
(* sees what is committed by then; it projects the revoked ids twice, once *)
(* to decide and once to sign.  Only one unique index orders two workers.  *)
(***************************************************************************)
EXTENDS Naturals, Sequences, FiniteSets

CONSTANTS
  Licenses,      \* licenses of the product
  Activations,   \* machines activated under them
  Workers,       \* running servers, one worker each
  Clients,
  MaxDue,        \* bound: how often a list falls due unchanged
  MaxFaults      \* bound: how many sweeps fail

VARIABLES
  license,      \* license[l]: its status
  activation,   \* activation[a]: its status
  published,    \* published[v]: version v of the list
  due,          \* the latest version's next_update has passed
  dues,         \* how often that happened
  faults,       \* how many sweeps failed
  worker,       \* the workers
  trusted       \* trusted[c]: the version client c goes by, 0 for none

vars == <<license, activation, published, due, dues, faults, worker, trusted>>
-----------------------------------------------------------------------------
Ids == Licenses \union Activations

Revoked ==
  {l \in Licenses : license[l] = "revoked"} \union
  {a \in Activations : activation[a] = "deactivated"}

Latest == Len(published)
Listed(v) == IF v = 0 THEN {} ELSE published[v]

Worker == [pc : {"idle", "counting", "deciding", "projecting", "collecting",
                 "numbering", "signing"},
           ids : SUBSET Ids, version : Nat]

Idle == [pc |-> "idle", ids |-> {}, version |-> 0]

TypeOK ==
  /\ license \in [Licenses -> {"active", "suspended", "revoked"}]
  /\ activation \in [Activations -> {"active", "deactivated"}]
  /\ published \in Seq(SUBSET Ids)
  /\ due \in BOOLEAN /\ dues \in 0 .. MaxDue /\ faults \in 0 .. MaxFaults
  /\ worker \in [Workers -> Worker]
  /\ trusted \in [Clients -> 0 .. Latest]

Init ==
  /\ license = [l \in Licenses |-> "active"]
  /\ activation = [a \in Activations |-> "active"]
  /\ published = <<>>
  /\ due = FALSE /\ dues = 0 /\ faults = 0
  /\ worker = [w \in Workers |-> Idle]
  /\ trusted = [c \in Clients |-> 0]
-----------------------------------------------------------------------------
Becomes(w, r) == worker' = [worker EXCEPT ![w] = r]

(* projectRevokedIds: first the licenses, then the activations.            *)
RevokedLicenses == {l \in Licenses : license[l] = "revoked"}
DeactivatedMachines == {a \in Activations : activation[a] = "deactivated"}

Project(w, from, to) ==
  /\ worker[w].pc = from
  /\ Becomes(w, [worker[w] EXCEPT !.pc = to, !.ids = RevokedLicenses])
  /\ UNCHANGED <<license, activation, published, due, dues, faults, trusted>>

Collect(w, from, to) ==
  /\ worker[w].pc = from
  /\ Becomes(w, [worker[w] EXCEPT !.pc = to,
                   !.ids = @ \union DeactivatedMachines])
  /\ UNCHANGED <<license, activation, published, due, dues, faults, trusted>>

(* A sweep reaches the product, and projects.                              *)
Sweep(w)  == Project(w, "idle", "counting")
Count(w)  == Collect(w, "counting", "deciding")

(* Compare with the latest version: nothing to do, or a new one.           *)
NeedsPublishing(w) ==
  \/ Latest = 0 /\ worker[w].ids # {}
  \/ Latest # 0 /\ (worker[w].ids # Listed(Latest) \/ due)

Decide(w) ==
  /\ worker[w].pc = "deciding"
  /\ Becomes(w, IF NeedsPublishing(w)
                THEN [Idle EXCEPT !.pc = "projecting"] ELSE Idle)
  /\ UNCHANGED <<license, activation, published, due, dues, faults, trusted>>

(* generateCrl: project again, number, sign, and INSERT.                   *)
ProjectAgain(w) == Project(w, "projecting", "collecting")
CollectAgain(w) == Collect(w, "collecting", "numbering")

Number(w) ==
  /\ worker[w].pc = "numbering"
  /\ Becomes(w, [worker[w] EXCEPT !.pc = "signing", !.version = Latest + 1])
  /\ UNCHANGED <<license, activation, published, due, dues, faults, trusted>>

(* The unique index on the version lets one of two racing workers through. *)
Insert(w) ==
  /\ worker[w].pc = "signing"
  /\ worker[w].version = Latest + 1
  /\ published' = Append(published, worker[w].ids)
  /\ due' = FALSE
  /\ Becomes(w, Idle)
  /\ UNCHANGED <<license, activation, dues, faults, trusted>>

(* ... and aborts the other, which logs it; its next sweep looks again.    *)
LoseRace(w) ==
  /\ worker[w].pc = "signing"
  /\ worker[w].version # Latest + 1
  /\ Becomes(w, Idle)
  /\ UNCHANGED <<license, activation, published, due, dues, faults, trusted>>

(* So does a signer fault or a lost connection.                            *)
Fail(w) ==
  /\ worker[w].pc # "idle"
  /\ faults < MaxFaults
  /\ faults' = faults + 1
  /\ Becomes(w, Idle)
  /\ UNCHANGED <<license, activation, published, due, dues, trusted>>
-----------------------------------------------------------------------------
(* next_update passes.                                                     *)
FallDue ==
  /\ Latest # 0 /\ ~due /\ dues < MaxDue
  /\ due' = TRUE /\ dues' = dues + 1
  /\ UNCHANGED <<license, activation, published, faults, worker, trusted>>

(* getRevocationList hands out the latest version; caches on the way may   *)
(* still serve an older one.  A client keeps the newer of two.             *)
isFresherCrlVersion(current, candidate) == candidate > current

Fetch_AnyVersion(c, v) ==
  /\ v # trusted[c]
  /\ trusted' = [trusted EXCEPT ![c] = v]
  /\ UNCHANGED <<license, activation, published, due, dues, faults, worker>>

Fetch(c, v) ==
  /\ isFresherCrlVersion(trusted[c], v)
  /\ trusted' = [trusted EXCEPT ![c] = v]
  /\ UNCHANGED <<license, activation, published, due, dues, faults, worker>>

SetLicense(l, from, to) ==
  /\ license[l] \in from
  /\ license' = [license EXCEPT ![l] = to]
  /\ UNCHANGED <<activation, published, due, dues, faults, worker, trusted>>

suspendLicense(l)   == SetLicense(l, {"active"}, "suspended")
reinstateLicense(l) == SetLicense(l, {"suspended"}, "active")
revokeLicense(l)    == SetLicense(l, {"active", "suspended"}, "revoked")

deactivate(a) ==
  /\ activation[a] = "active"
  /\ activation' = [activation EXCEPT ![a] = "deactivated"]
  /\ UNCHANGED <<license, published, due, dues, faults, worker, trusted>>
-----------------------------------------------------------------------------
publishIfStale(w) ==
  \/ Sweep(w) \/ Count(w) \/ Decide(w)
  \/ ProjectAgain(w) \/ CollectAgain(w) \/ Number(w) \/ Insert(w)
  \/ LoseRace(w)

Next ==
  \/ \E w \in Workers : publishIfStale(w) \/ Fail(w)
  \/ FallDue
  \/ \E c \in Clients, v \in 1 .. Latest : Fetch(c, v)
  \/ \E l \in Licenses :
       suspendLicense(l) \/ reinstateLicense(l) \/ revokeLicense(l)
  \/ \E a \in Activations : deactivate(a)

Spec == Init /\ [][Next]_vars

(* The interval timer keeps sweeping and a sweep runs to its end, if it    *)
(* does not fail; a client that keeps fetching gets the latest version.    *)
Fairness ==
  /\ \A w \in Workers : WF_vars(publishIfStale(w))
  /\ \A c \in Clients : WF_vars(Latest # 0 /\ Fetch(c, Latest))

FairSpec == Spec /\ Fairness
-----------------------------------------------------------------------------
(* Every revocation reaches every client that keeps fetching, and stays    *)
(* (FR-009, FR-010): whichever worker wins which race, although a list can *)
(* be overtaken between its projection and its version number, and though *)
(* caches still serve old versions (the anti-downgrade check, FR-022).     *)
RevocationReachesClients ==
  \A i \in Ids, c \in Clients :
    (i \in Revoked) ~> [](i \in Listed(trusted[c]))

(* No version, whatever was projected when, ever lists a license or a      *)
(* machine in good standing: it goes out late, never in error (FR-009).    *)
(* Clients keep old versions for ever, so this rests on revocations being  *)
(* final (lifecycle.ts) and on a new row for a machine that comes back.    *)
ListsOnlyRevoked == \A v \in 1 .. Latest : Listed(v) \subseteq Revoked
-----------------------------------------------------------------------------
(* What the documents say and the code does not do.                        *)

(* FR-022: "an older signed list MUST NOT supersede a newer one".  A list  *)
(* is numbered after its projection, so a worker can publish an older      *)
(* projection under a newer number than another worker's.                  *)
NewerCoversOlder ==
  \A u, v \in 1 .. Latest : u < v => Listed(u) \subseteq Listed(v)
=============================================================================
