------------------------------ MODULE Signing ------------------------------
(***************************************************************************)
(* Signing keys of one product (src/server/modules/signing): the custody   *)
(* of the master key, the registry of key versions and its changes, and    *)
(* the key ring that verifiers pin.                                        *)
(*                                                                         *)
(* Every change of the registry is one READ COMMITTED transaction of an    *)
(* admin's request.  What a transaction has written and not committed is   *)
(* kept with the request; the rows it has updated are locked.  An index    *)
(* allows one active key: an INSERT of a second one waits for the          *)
(* transaction that is changing the first and fails when that stays.       *)
(***************************************************************************)
EXTENDS Integers, FiniteSets

CONSTANTS
  Admins,          \* key-management requests handled at the same time
  Keys,            \* the key versions that can be generated
  Shares,          \* the custodian shares of the master key
  Threshold,       \* shares that reconstruct it
  OverlapSeconds,  \* how long a superseded key stays trusted
  MaxTime,         \* bound on the clock
  MaxRestarts,     \* bound on the restarts of the server
  None

ASSUME CustodyAssumption ==
  /\ IsFiniteSet(Shares)
  /\ Threshold \in 2 .. Cardinality(Shares)
ASSUME SigningBounds ==
  /\ {OverlapSeconds, MaxTime, MaxRestarts} \subseteq Nat
  /\ None \notin Nat

VARIABLES
  now,        \* the clock
  masterKey,  \* what custody holds: the shares it was made from, {} = locked
  keys,       \* signing_key: keys[k] is the row of k, or None
  change,     \* change[a]: the open transaction of a's request
  outage,     \* no key is active since the active one was revoked (history)
  restarts    \* restarts so far

signingVars == <<now, masterKey, keys, change, outage, restarts>>
-----------------------------------------------------------------------------
Time == 0 .. MaxTime

(* A row of signing_key; its private key is wrapped under master.          *)
SigningKey == [status : {"active", "rotating", "retired", "revoked"},
               validFrom : Time, validUntil : Nat \union {None},
               master : SUBSET Shares]

ASSUME NoneIsNoKey == None \notin SigningKey

Change == [pc : {"idle", "provision", "demote", "insert"}, at : Time,
           rows : SUBSET Keys, status : {"active", "rotating"}]
NoChange == [pc |-> "idle", at |-> 0, rows |-> {}, status |-> "active"]

Present == {k \in Keys : keys[k] # None}
Active == {k \in Present : keys[k].status = "active"}
Unused == Keys \ Present
Busy == {a \in Admins : change[a].pc # "idle"}

(* Rows another transaction has updated and not committed.                 *)
Locked_Own(a) == UNION {change[b].rows : b \in {c \in Admins : change[c].pc = "insert"}}
Locked(a) == UNION {change[b].rows : b \in {c \in Admins \ {a} : change[c].pc = "insert"}}

SigningTypeOK ==
  /\ now \in Time /\ restarts \in 0 .. MaxRestarts /\ outage \in BOOLEAN
  /\ masterKey \subseteq Shares
  /\ keys \in [Keys -> SigningKey \union {None}]
  /\ change \in [Admins -> Change]

(* Shamir's scheme: enough shares give the master key, here the set of all *)
(* shares, and fewer give another key of the same length.  A lone share is *)
(* not tried.                                                              *)
shamirCombine(shares) ==
  CASE Cardinality(shares) < 2          -> {}
    [] Cardinality(shares) >= Threshold -> Shares
    [] OTHER -> shares

(* The boot unlocks custody from the shares it is given.                   *)
createSigningModule(shares) == masterKey' = shamirCombine(shares)

SigningInit ==
  /\ now = 0 /\ restarts = 0 /\ outage = FALSE
  /\ \E shares \in SUBSET Shares : masterKey = shamirCombine(shares)
  /\ keys = [k \in Keys |-> None]
  /\ change = [a \in Admins |-> NoChange]
-----------------------------------------------------------------------------
(* The bound on the keys generated.                                        *)
Room == Cardinality(Busy) < Cardinality(Unused)

(* provisionKey: whether the product has an active key, then the INSERT.   *)
ProvisionRead(a) ==
  /\ change[a].pc = "idle" /\ masterKey # {} /\ Room
  /\ change' = [change EXCEPT ![a] =
       [pc |-> "provision", at |-> now, rows |-> {},
        status |-> IF Active # {} THEN "rotating" ELSE "active"]]
  /\ UNCHANGED <<now, masterKey, keys, outage, restarts>>

(* The row of a key generated by a's request.                              *)
Row(a, status) == [status |-> status, validFrom |-> change[a].at,
                   validUntil |-> None, master |-> masterKey]

(* signing_key_one_active.                                                 *)
OneActive_NoIndex(a) == TRUE
OneActive(a) == Active \subseteq change[a].rows

Finish(a) == change' = [change EXCEPT ![a] = NoChange]

ProvisionInsert(a, k) ==
  /\ change[a].pc = "provision"
  /\ change[a].status = "active" => Active \intersect Locked(a) = {}
  /\ IF change[a].status = "active" => OneActive(a)
     THEN /\ keys' = [keys EXCEPT ![k] = Row(a, change[a].status)]
          /\ outage' = (outage /\ change[a].status = "rotating")
     ELSE UNCHANGED <<keys, outage>>
  /\ Finish(a)
  /\ UNCHANGED <<now, masterKey, restarts>>

(* rotateKey: the UPDATE finds the active key, waits for whoever changes   *)
(* it, and demotes it if it still is active.                               *)
RotateFind(a) ==
  /\ change[a].pc = "idle" /\ masterKey # {} /\ Room
  /\ change' = [change EXCEPT ![a] =
       [pc |-> "demote", at |-> now, rows |-> Active, status |-> "active"]]
  /\ UNCHANGED <<now, masterKey, keys, outage, restarts>>

RotateDemote(a) ==
  /\ change[a].pc = "demote"
  /\ change[a].rows \intersect Locked(a) = {}
  /\ change' = [change EXCEPT ![a].pc = "insert",
                              ![a].rows = @ \intersect Active]
  /\ UNCHANGED <<now, masterKey, keys, outage, restarts>>

ValidUntil_FromInsert(a) == change[a].at
ValidUntil(a) == change[a].at + OverlapSeconds

RotateInsert(a, k) ==
  /\ change[a].pc = "insert"
  /\ Active \intersect Locked(a) = {}
  /\ IF OneActive(a)
     THEN /\ keys' = [j \in Keys |->
               CASE j = k -> Row(a, "active")
                 [] j \in change[a].rows ->
                      [keys[j] EXCEPT !.status = "rotating", !.validUntil = ValidUntil(a)]
                 [] OTHER -> keys[j]]
          /\ outage' = FALSE
     ELSE UNCHANGED <<keys, outage>>
  /\ Finish(a)
  /\ UNCHANGED <<now, masterKey, restarts>>

(* One UPDATE, which waits for a rotation that is demoting the key.        *)
revokeKey(k) ==
  /\ k \in Present /\ keys[k].status # "revoked"
  /\ \A a \in Admins : change[a].pc = "insert" => k \notin change[a].rows
  /\ keys' = [keys EXCEPT ![k].status = "revoked", ![k].validUntil = now]
  /\ outage' = (outage \/ keys[k].status = "active")
  /\ UNCHANGED <<now, masterKey, change, restarts>>

retireKey(k) ==
  /\ k \in Present /\ keys[k].status = "rotating"
  /\ keys' = [keys EXCEPT ![k].status = "retired"]
  /\ UNCHANGED <<now, masterKey, change, outage, restarts>>
-----------------------------------------------------------------------------
(* The signer: the active key, if custody can unwrap it.                   *)
CanSign(k) == masterKey # {} /\ k \in Active /\ keys[k].master = masterKey

(* product_keyring, and the window the verifier holds a key to.            *)
keyring == {k \in Present : keys[k].status # "revoked"}

KeyValid(k) ==
  /\ k \in keyring
  /\ now >= keys[k].validFrom
  /\ keys[k].validUntil # None => now < keys[k].validUntil
-----------------------------------------------------------------------------
Tick ==
  /\ now < MaxTime /\ now' = now + 1
  /\ UNCHANGED <<masterKey, keys, change, outage, restarts>>

(* Open transactions are rolled back and custody starts over.              *)
RestartSigning ==
  /\ restarts < MaxRestarts /\ restarts' = restarts + 1
  /\ \E shares \in SUBSET Shares : createSigningModule(shares)
  /\ change' = [a \in Admins |-> NoChange]
  /\ UNCHANGED <<now, keys, outage>>

(* A generated key has an id of its own.                                   *)
ChangeStep(a) ==
  \/ RotateDemote(a)
  \/ \E k \in Unused : ProvisionInsert(a, k) \/ RotateInsert(a, k)

SigningStep ==
  \/ \E a \in Admins : ProvisionRead(a) \/ RotateFind(a) \/ ChangeStep(a)
  \/ \E k \in Keys : revokeKey(k) \/ retireKey(k)

SigningNext == Tick \/ RestartSigning \/ SigningStep

SigningSpec == SigningInit /\ [][SigningNext]_signingVars

(* A handler that is running runs on.                                      *)
SigningFairSpec == SigningSpec /\ \A a \in Admins : WF_signingVars(ChangeStep(a))
-----------------------------------------------------------------------------
(* Once a product has a key there is exactly one active key to sign with,  *)
(* whatever rotations and provisions run at the same time, until the       *)
(* active key itself is revoked.                                           *)
Signable ==
  Present # {} => Cardinality(Active) = IF outage THEN 0 ELSE 1

(* Rotation leaves what was signed verifiable: a key is good against the   *)
(* key ring of the day until it is revoked, or until a key activated later *)
(* has been there for the whole overlap.                                   *)
StaysTrusted ==
  \A k \in Present :
    \/ KeyValid(k) \/ keys[k].status = "revoked"
    \/ \E j \in Present \ {k} :
         /\ keys[j].validFrom >= keys[k].validFrom
         /\ now >= keys[j].validFrom + OverlapSeconds

(* Every change is answered, whatever rows it has to wait for.             *)
ChangesEnd == \A a \in Admins : change[a].pc # "idle" ~> change[a].pc = "idle"
-----------------------------------------------------------------------------
(* What the comments say and the code does not do.                         *)

(* custody.ts:106-109: custody is locked unless the boot was given enough  *)
(* shares.  Fewer than enough, but two or more, combine to a key as well,  *)
(* though not to the right one.                                            *)
LockedBelowThreshold == masterKey # {} => masterKey = Shares
=============================================================================
