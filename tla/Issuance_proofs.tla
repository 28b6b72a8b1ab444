-------------------------- MODULE Issuance_proofs ---------------------------
(***************************************************************************)
(* For every set of keys, requests and shares, and every overlap: however  *)
(* the key-management transactions overlap, a product keeps one active key *)
(* and what a key signed stays verifiable.  The first rests on the rows a  *)
(* rotation has demoted and not committed being locked (Demoted), the      *)
(* second on when a key is superseded (Superseded).                        *)
(***************************************************************************)
EXTENDS Issuance, FiniteSetTheorems, TLAPS

(* A provision has no rows and knew a key if it means to add a spare one;  *)
(* a rotation past its UPDATE holds rows that are active still.            *)
Demoted ==
  \A a \in Admins :
    /\ change[a].pc = "provision" => change[a].rows = {}
    /\ change[a].pc = "provision" /\ change[a].status = "rotating" => Present # {}
    /\ change[a].pc = "insert" => change[a].rows \subseteq Active

(* Signable without cardinalities.                                         *)
OneActiveKey ==
  /\ outage => Active = {}
  /\ Present # {} /\ ~outage => \E k \in Keys : Active = {k}

(* Nobody acts on the future, and a rotation dates its key after those it  *)
(* replaces.                                                               *)
Dated ==
  /\ \A k \in Present : keys[k].validFrom <= now
  /\ \A a \in Admins :
       /\ change[a].at <= now
       /\ change[a].pc \in {"demote", "insert"} =>
            \A j \in change[a].rows : j \in Present /\ keys[j].validFrom <= change[a].at

(* The end of a key's validity is its revocation, or the overlap after a   *)
(* later key.                                                              *)
Superseded ==
  \A k \in Present :
    keys[k].validUntil # None /\ keys[k].status # "revoked" =>
      \E j \in Present \ {k} :
        /\ keys[j].validFrom >= keys[k].validFrom
        /\ keys[k].validUntil = keys[j].validFrom + OverlapSeconds

KeysInv == SigningTypeOK /\ Demoted /\ OneActiveKey /\ Dated /\ Superseded

USE CustodyAssumption, SigningBounds, NoneIsNoKey
-----------------------------------------------------------------------------
(* What custody combines comes from the shares there are.                  *)
LEMMA CombinedType ==
  ASSUME NEW shares \in SUBSET Shares
  PROVE  shamirCombine(shares) \subseteq Shares
BY DEF shamirCombine

LEMMA InitKeysInv == SigningInit => KeysInv
<1> SUFFICES ASSUME SigningInit PROVE KeysInv
  OBVIOUS
<1>0. MaxTime \in Nat /\ MaxRestarts \in Nat
  OBVIOUS
<1>1. SigningTypeOK
  <2>1. masterKey \subseteq Shares
    BY CombinedType DEF SigningInit
  <2>2. NoChange \in Change
    BY <1>0 DEF NoChange, Change, Time
  <2>3. now \in Time /\ restarts \in 0 .. MaxRestarts
    BY <1>0 DEF SigningInit, Time
  <2> QED
    BY <2>1, <2>2, <2>3 DEF SigningInit, SigningTypeOK
<1>2. Present = {} /\ Active = {}
  BY DEF SigningInit, Present, Active
<1>3. Demoted /\ Dated
  BY <1>2 DEF SigningInit, Demoted, Dated, NoChange
<1> QED
  BY <1>1, <1>2, <1>3 DEF SigningInit, KeysInv, OneActiveKey, Superseded

(* The key a request generates is a row, active or spare.                  *)
LEMMA RowType ==
  ASSUME SigningTypeOK, NEW a \in Admins, NEW s \in {"active", "rotating"}
  PROVE  /\ Row(a, s) \in SigningKey /\ Row(a, s) # None
         /\ Row(a, s).status = s /\ Row(a, s).validFrom = change[a].at
         /\ Row(a, s).validUntil = None
BY DEF Row, SigningKey, SigningTypeOK, Change

(* Steps of provisionKey and rotateKey that write no row.                  *)
LEMMA ReadStep ==
  ASSUME KeysInv, NEW a \in Admins,
         ProvisionRead(a) \/ RotateFind(a) \/ RotateDemote(a)
  PROVE  KeysInv'
<1>1. CASE ProvisionRead(a)
  BY <1>1 DEF ProvisionRead, KeysInv, SigningTypeOK, Change, Demoted, OneActiveKey, Dated,
              Superseded, Present, Active, Time
<1>2. CASE RotateFind(a)
  BY <1>2 DEF RotateFind, KeysInv, SigningTypeOK, Change, Demoted, OneActiveKey, Dated,
              Superseded, Present, Active, Time
<1>3. CASE RotateDemote(a)
  <2>1. /\ Present' = Present /\ Active' = Active /\ UNCHANGED <<now, keys, outage>>
        /\ \A b \in Admins \ {a} : change'[b] = change[b]
        /\ change'[a].pc = "insert" /\ change'[a].at = change[a].at
        /\ change'[a].rows = change[a].rows \intersect Active
    <3>1. /\ UNCHANGED <<now, keys, outage>>
          /\ change' = [change EXCEPT ![a].pc = "insert", ![a].rows = @ \intersect Active]
      BY <1>3 DEF RotateDemote
    <3>2. Present' = Present /\ Active' = Active
      BY <3>1 DEF Present, Active
    <3>3. change \in [Admins -> Change]
      BY DEF KeysInv, SigningTypeOK
    <3>4. change' = [change EXCEPT ![a] = [change[a] EXCEPT !.pc = "insert",
                                                            !.rows = @ \intersect Active]]
      BY <3>1
    <3>5. \A b \in Admins \ {a} : change'[b] = change[b]
      BY <3>1, <3>3
    <3>6. change'[a] = [change[a] EXCEPT !.pc = "insert", !.rows = @ \intersect Active]
      BY <3>3, <3>4
    <3>7. change[a] \in Change
      BY <3>3
    <3>8. /\ change'[a].pc = "insert" /\ change'[a].at = change[a].at
          /\ change'[a].rows = change[a].rows \intersect Active
      BY <3>6, <3>7 DEF Change
    <3> QED
      BY <3>1, <3>2, <3>5, <3>8
  <2>2. SigningTypeOK'
    <3>1. /\ UNCHANGED <<now, masterKey, keys, outage, restarts>>
          /\ change' = [change EXCEPT ![a] = [change[a] EXCEPT !.pc = "insert",
                                                              !.rows = @ \intersect Active]]
      BY <1>3 DEF RotateDemote
    <3>2. change \in [Admins -> Change]
      BY DEF KeysInv, SigningTypeOK
    <3>3. [change[a] EXCEPT !.pc = "insert", !.rows = @ \intersect Active] \in Change
      BY <3>2 DEF Change
    <3>4. change' \in [Admins -> Change]
      BY <3>1, <3>2, <3>3
    <3> QED
      BY <3>1, <3>4 DEF KeysInv, SigningTypeOK
  <2>3. Demoted' /\ Dated'
    BY <1>3, <2>1 DEF RotateDemote, Demoted, Dated, KeysInv
  <2> QED
    BY <2>1, <2>2, <2>3 DEF KeysInv, OneActiveKey, Superseded
<1> QED
  BY <1>1, <1>2, <1>3

(* The INSERT of provisionKey: an active key only where none is.           *)
LEMMA ProvisionStep ==
  ASSUME KeysInv, NEW a \in Admins, NEW k \in Unused, ProvisionInsert(a, k)
  PROVE  KeysInv'
<1> DEFINE status == change[a].status
<1>0. k \in Keys /\ k \notin Present /\ status \in {"active", "rotating"}
  BY DEF KeysInv, SigningTypeOK, Change, Unused
<1>1. SigningTypeOK'
  <2>1. Row(a, status) \in SigningKey
    BY <1>0, RowType DEF KeysInv
  <2>2. NoChange \in Change
    BY DEF NoChange, Change, Time
  <2>3. keys' \in [Keys -> SigningKey \union {None}] /\ outage' \in BOOLEAN
    BY <1>0, <2>1 DEF ProvisionInsert, KeysInv, SigningTypeOK
  <2>4. change' \in [Admins -> Change]
    BY <2>2 DEF ProvisionInsert, Finish, KeysInv, SigningTypeOK
  <2> QED
    BY <2>3, <2>4 DEF ProvisionInsert, KeysInv, SigningTypeOK
<1>2. CASE ~(status = "active" => OneActive(a))
  BY <1>1, <1>2 DEF ProvisionInsert, KeysInv, SigningTypeOK, Finish, NoChange, Demoted,
     OneActiveKey, Dated, Superseded, Present, Active, Time
<1>3. CASE status = "active" => OneActive(a)
  <2>1. /\ keys' = [keys EXCEPT ![k] = Row(a, status)]
        /\ outage' = (outage /\ status = "rotating")
        /\ change' = [change EXCEPT ![a] = NoChange] /\ now' = now
    BY <1>3 DEF ProvisionInsert, Finish
  <2>2. Present' = Present \union {k}
    BY <1>0, <2>1, RowType DEF Present, KeysInv, SigningTypeOK
  <2>3. Active' = IF status = "active" THEN Active \union {k} ELSE Active
    BY <1>0, <2>1, <2>2, RowType DEF Active, Present, KeysInv, SigningTypeOK
  <2>4. OneActiveKey'
    <3>1. CASE status = "active"
      BY <3>1, <1>0, <1>3, <2>1, <2>3 DEF OneActive, OneActiveKey, KeysInv, Demoted, ProvisionInsert
    <3>2. CASE status = "rotating"
      BY <3>2, <2>1, <2>2, <2>3 DEF OneActiveKey, KeysInv, Demoted, ProvisionInsert
    <3> QED
      BY <3>1, <3>2, <1>0
  <2>5. Demoted'
    BY <2>1, <2>2, <2>3 DEF Demoted, KeysInv, NoChange, SigningTypeOK
  <2>6. Dated' /\ Superseded'
    BY <1>0, <1>1, <2>1, <2>2, RowType
       DEF Dated, Superseded, KeysInv, NoChange, SigningTypeOK, Present, SigningKey, Time, Change
  <2> QED
    BY <1>1, <2>4, <2>5, <2>6 DEF KeysInv
<1> QED
  BY <1>2, <1>3

(* The INSERT of rotateKey: the new key is active, those it had demoted    *)
(* are superseded by it.                                                   *)
LEMMA RotateStep ==
  ASSUME KeysInv, NEW a \in Admins, NEW k \in Unused, RotateInsert(a, k)
  PROVE  KeysInv'
<1> DEFINE rows == change[a].rows
           at == change[a].at
<1>0. /\ k \in Keys /\ k \notin Present /\ rows \subseteq Active /\ k \notin rows
      /\ at \in Time /\ at \in Nat /\ ValidUntil(a) \in Nat /\ ValidUntil(a) = at + OverlapSeconds
  <2>1. k \in Keys /\ k \notin Present
    BY DEF Unused
  <2>2. rows \subseteq Active
    BY DEF RotateInsert, KeysInv, Demoted
  <2>3. at \in Time /\ at \in Nat
    BY DEF KeysInv, SigningTypeOK, Change, Time
  <2>4. OverlapSeconds \in Nat
    OBVIOUS
  <2> QED
    BY <2>1, <2>2, <2>3, <2>4 DEF Active, ValidUntil
<1>1. Row(a, "active") \in SigningKey /\ Row(a, "active") # None
      /\ Row(a, "active").status = "active" /\ Row(a, "active").validFrom = at
      /\ Row(a, "active").validUntil = None
  BY RowType DEF KeysInv
<1>2. change' = [change EXCEPT ![a] = NoChange] /\ UNCHANGED <<now, masterKey, restarts>>
  BY DEF RotateInsert, Finish
<1>3. change' \in [Admins -> Change]
  BY <1>2 DEF KeysInv, SigningTypeOK, NoChange, Change, Time
<1>4. CASE ~OneActive(a)
  <2>1. UNCHANGED <<keys, outage>>
    BY <1>4 DEF RotateInsert
  <2> QED
    BY <1>2, <1>3, <2>1 DEF KeysInv, SigningTypeOK, NoChange, Demoted,
       OneActiveKey, Dated, Superseded, Present, Active, Time
<1>5. CASE OneActive(a)
  <2>0. outage' = FALSE /\ rows = Active
    BY <1>0, <1>5 DEF RotateInsert, OneActive
  <2>1. keys'[k] = Row(a, "active")
    BY <1>0, <1>5 DEF RotateInsert
  <2>2. ASSUME NEW j \in rows
        PROVE  /\ keys'[j] = [keys[j] EXCEPT !.status = "rotating", !.validUntil = ValidUntil(a)]
               /\ keys'[j] \in SigningKey /\ keys'[j] # None
               /\ keys'[j].status = "rotating" /\ keys'[j].validUntil = ValidUntil(a)
               /\ keys'[j].validFrom = keys[j].validFrom
    <3>1. j \in Keys /\ j # k /\ keys[j] \in SigningKey
      BY <1>0, <2>2 DEF KeysInv, SigningTypeOK, Active, Present
    <3>2. keys'[j] = [keys[j] EXCEPT !.status = "rotating", !.validUntil = ValidUntil(a)]
      BY <1>0, <1>5, <2>2, <3>1 DEF RotateInsert
    <3> QED
      BY <1>0, <3>1, <3>2 DEF SigningKey
  <2>3. ASSUME NEW j \in Keys, j # k, j \notin rows
        PROVE  keys'[j] = keys[j]
    BY <1>0, <1>5, <2>3 DEF RotateInsert
  <2>4. keys' \in [Keys -> SigningKey \union {None}]
    <3>1. keys' = [j \in Keys |-> keys'[j]]
      BY <1>5 DEF RotateInsert
    <3>2. \A j \in Keys : keys'[j] \in SigningKey \union {None}
      BY <1>1, <2>1, <2>2, <2>3 DEF KeysInv, SigningTypeOK
    <3> QED
      BY <3>1, <3>2
  <2>5. SigningTypeOK'
    BY <1>2, <1>3, <2>0, <2>4 DEF KeysInv, SigningTypeOK
  <2>6. Present' = Present \union {k} /\ Active' = {k}
    <3>1. rows \subseteq Present
      BY <1>0 DEF Active
    <3>2. \A j \in Keys : keys'[j] # None <=> keys[j] # None \/ j = k
      BY <1>1, <2>1, <2>2, <2>3, <3>1 DEF Present
    <3>3. Present' = Present \union {k}
      BY <1>0, <3>2 DEF Present
    <3>4. \A j \in Present \ rows : keys'[j] = keys[j]
      BY <1>0, <2>3 DEF Present
    <3>5. \A j \in rows : keys'[j].status = "rotating"
      BY <2>2
    <3>6. \A j \in Present' : keys'[j].status = "active" <=> j = k
      BY <1>0, <1>1, <2>0, <2>1, <3>3, <3>4, <3>5 DEF Active
    <3> QED
      BY <3>3, <3>6 DEF Active
  <2>7. OneActiveKey'
    BY <1>0, <2>0, <2>6 DEF OneActiveKey
  <2>8. Demoted'
    <3>1. ASSUME NEW b \in Admins, b # a, change[b].pc = "insert"
          PROVE  change[b].rows = {}
      <4>1. change[b].rows \subseteq Locked(a) /\ change[b].rows \subseteq Active
        BY <3>1 DEF Locked, KeysInv, Demoted
      <4> QED
        BY <4>1 DEF RotateInsert
    <3> QED
      BY <1>2, <2>6, <3>1 DEF KeysInv, Demoted, NoChange, SigningTypeOK
  <2>9. Dated'
    <3>1. \A j \in Present : keys'[j].validFrom = keys[j].validFrom
      BY <1>0, <2>2, <2>3 DEF Present
    <3>2. at <= now /\ 0 <= now /\ now' = now
      BY <1>2 DEF KeysInv, Dated, SigningTypeOK, Time
    <3>3. \A j \in Present' : keys'[j].validFrom <= now'
      BY <1>1, <2>1, <2>6, <3>1, <3>2 DEF KeysInv, Dated
    <3>4. change'[a] = NoChange /\ \A b \in Admins \ {a} : change'[b] = change[b]
      BY <1>2 DEF KeysInv, SigningTypeOK
    <3> QED
      BY <2>6, <3>1, <3>2, <3>3, <3>4 DEF KeysInv, Dated, NoChange
  <2>10. Superseded'
    <3> SUFFICES ASSUME NEW j \in Present', keys'[j].validUntil # None, keys'[j].status # "revoked"
                 PROVE  \E i \in Present' \ {j} :
                          /\ keys'[i].validFrom >= keys'[j].validFrom
                          /\ keys'[j].validUntil = keys'[i].validFrom + OverlapSeconds
      BY DEF Superseded
    <3>1. j # k
      BY <1>1, <2>1
    <3>2. CASE j \in rows
      <4>1. j \in Present /\ keys[j].validFrom <= at
        BY <3>2 DEF KeysInv, Dated, RotateInsert
      <4>2. keys'[k].validFrom = at /\ keys'[j].validFrom = keys[j].validFrom
            /\ keys'[j].validUntil = at + OverlapSeconds
        BY <1>0, <1>1, <2>1, <2>2, <3>2
      <4>3. keys[j].validFrom \in Nat
        BY <4>1 DEF KeysInv, SigningTypeOK, Present, SigningKey, Time
      <4> QED
        BY <1>0, <2>6, <3>1, <4>1, <4>2, <4>3
    <3>3. CASE j \notin rows
      <4>1. j \in Present /\ keys'[j] = keys[j]
        BY <2>3, <2>6, <3>1, <3>3 DEF Present
      <4>2. PICK i \in Present \ {j} :
              /\ keys[i].validFrom >= keys[j].validFrom
              /\ keys[j].validUntil = keys[i].validFrom + OverlapSeconds
        BY <4>1 DEF KeysInv, Superseded
      <4>3. i \in Keys /\ i # k /\ keys'[i].validFrom = keys[i].validFrom
        BY <1>0, <2>2, <2>3 DEF Present
      <4> QED
        BY <2>6, <4>1, <4>2, <4>3
    <3> QED
      BY <3>2, <3>3
  <2> QED
    BY <2>5, <2>7, <2>8, <2>9, <2>10 DEF KeysInv
<1> QED
  BY <1>4, <1>5

(* A key revoked or retired: no rotation holds it, and only an active one  *)
(* leaves the product without.                                             *)
LEMMA EndStep ==
  ASSUME KeysInv, NEW k \in Keys, revokeKey(k) \/ retireKey(k)
  PROVE  KeysInv'
<1>1. PICK row \in SigningKey :
        /\ keys[k] # None /\ keys' = [keys EXCEPT ![k] = row]
        /\ row.validFrom = keys[k].validFrom
        /\ row.status \in {"revoked", "retired"}
        /\ row.status = "retired" => row.validUntil = keys[k].validUntil /\ keys[k].status = "rotating"
  <2>1. keys[k] # None /\ keys[k] \in SigningKey
    BY DEF revokeKey, retireKey, Present, KeysInv, SigningTypeOK
  <2>2. CASE revokeKey(k)
    <3> DEFINE row == [keys[k] EXCEPT !.status = "revoked", !.validUntil = now]
    <3>1. now \in Nat
      BY DEF KeysInv, SigningTypeOK, Time
    <3>2. row \in SigningKey /\ row.validFrom = keys[k].validFrom /\ row.status = "revoked"
      BY <2>1, <3>1 DEF SigningKey
    <3>3. keys' = [keys EXCEPT ![k] = row]
      BY <2>2 DEF revokeKey
    <3> QED
      BY <2>1, <3>2, <3>3
  <2>3. CASE retireKey(k)
    <3> DEFINE row == [keys[k] EXCEPT !.status = "retired"]
    <3>1. /\ row \in SigningKey /\ row.validFrom = keys[k].validFrom /\ row.status = "retired"
          /\ row.validUntil = keys[k].validUntil
      BY <2>1 DEF SigningKey
    <3>2. keys' = [keys EXCEPT ![k] = row] /\ keys[k].status = "rotating"
      BY <2>3 DEF retireKey
    <3> QED
      BY <2>1, <3>1, <3>2
  <2> QED
    BY <2>2, <2>3
<1>2. UNCHANGED <<now, masterKey, change, restarts>>
  BY DEF revokeKey, retireKey
<1>3. Present' = Present /\ Active' = Active \ {k}
  BY <1>1 DEF Present, Active, KeysInv, SigningTypeOK
<1>4. outage' = (outage \/ k \in Active) /\ outage' \in BOOLEAN
  BY <1>1 DEF revokeKey, retireKey, Active, Present, KeysInv, SigningTypeOK
<1>5. SigningTypeOK'
  BY <1>1, <1>2, <1>4 DEF KeysInv, SigningTypeOK
<1>6. OneActiveKey'
  BY <1>3, <1>4 DEF KeysInv, OneActiveKey, Active
<1>7. Demoted'
  <2>1. ASSUME NEW a \in Admins, change[a].pc = "insert" PROVE k \notin change[a].rows
    <3>1. change[a].rows \subseteq Active
      BY <2>1 DEF KeysInv, Demoted
    <3> QED
      BY <2>1, <3>1 DEF revokeKey, retireKey, Active
  <2> QED
    BY <1>2, <1>3, <2>1 DEF KeysInv, Demoted
<1>8. Dated'
  BY <1>1, <1>2, <1>3 DEF KeysInv, Dated, SigningTypeOK, Present
<1>9. Superseded'
  BY <1>1, <1>2, <1>3 DEF KeysInv, Superseded, SigningTypeOK, Present
<1> QED
  BY <1>5, <1>6, <1>7, <1>8, <1>9 DEF KeysInv
-----------------------------------------------------------------------------
(* Every step of key management keeps KeysInv.                             *)
LEMMA NextKeysInv == KeysInv /\ [SigningNext]_signingVars => KeysInv'
<1> SUFFICES ASSUME KeysInv, [SigningNext]_signingVars PROVE KeysInv'
  OBVIOUS
<1>1. CASE Tick
  <2>1. now' \in Time /\ now' > now
    BY <1>1 DEF Tick, KeysInv, SigningTypeOK, Time
  <2>2. Present' = Present /\ Active' = Active
    BY <1>1 DEF Tick, Present, Active
  <2>3. Dated'
    BY <1>1, <2>1, <2>2
       DEF Tick, KeysInv, SigningTypeOK, Dated, Time, SigningKey, Change, Present
  <2> QED
    BY <1>1, <2>1, <2>2, <2>3 DEF Tick, KeysInv, SigningTypeOK, Demoted, OneActiveKey, Superseded
<1>2. CASE RestartSigning
  <2>1. Present' = Present /\ Active' = Active /\ UNCHANGED <<now, keys, outage>>
    BY <1>2 DEF RestartSigning, Present, Active
  <2>2. masterKey' \subseteq Shares
    BY <1>2, CombinedType DEF RestartSigning, createSigningModule
  <2>3. restarts' \in 0 .. MaxRestarts
    BY <1>2 DEF RestartSigning, KeysInv, SigningTypeOK
  <2>4. \A a \in Admins : change'[a] = NoChange
    BY <1>2 DEF RestartSigning
  <2>5. change' \in [Admins -> Change]
    <3>1. NoChange \in Change
      BY DEF NoChange, Change, Time
    <3> QED
      BY <1>2, <3>1 DEF RestartSigning
  <2>6. Demoted' /\ Dated'
    BY <2>1, <2>4 DEF KeysInv, SigningTypeOK, Demoted, Dated, NoChange, Time
  <2> QED
    BY <2>1, <2>2, <2>3, <2>5, <2>6 DEF KeysInv, SigningTypeOK, OneActiveKey, Superseded
<1>3. CASE SigningStep
  BY <1>3, ReadStep, ProvisionStep, RotateStep, EndStep DEF SigningStep, ChangeStep
<1>4. CASE UNCHANGED signingVars
  BY <1>4 DEF signingVars, KeysInv, SigningTypeOK, Demoted, OneActiveKey, Dated, Superseded,
              Present, Active
<1> QED
  BY <1>1, <1>2, <1>3, <1>4 DEF SigningNext

THEOREM KeysInvariant == SigningSpec => []KeysInv
<1> QED
  BY InitKeysInv, NextKeysInv, PTL DEF SigningSpec

(* Key management keeps to its types.                                      *)
THEOREM KeysTypeCorrect == SigningSpec => []SigningTypeOK
<1>1. KeysInv => SigningTypeOK
  BY DEF KeysInv
<1> QED
  BY <1>1, KeysInvariant, PTL

(* However provisions, rotations, revocations and restarts overlap, a      *)
(* product with a key has exactly one active key, until that is revoked.   *)
THEOREM AlwaysSignable == SigningSpec => []Signable
<1>1. KeysInv => Signable
  BY FS_EmptySet, FS_Singleton DEF KeysInv, OneActiveKey, Signable
<1> QED
  BY <1>1, KeysInvariant, PTL

(* A signature verifies against the key ring until its key is revoked, or  *)
(* the whole overlap has passed since a later key was activated.           *)
THEOREM SignaturesStayTrusted == SigningSpec => []StaysTrusted
<1>1. KeysInv => StaysTrusted
  <2> SUFFICES ASSUME KeysInv, NEW k \in Present, keys[k].status # "revoked", ~KeyValid(k)
               PROVE  \E j \in Present \ {k} :
                        /\ keys[j].validFrom >= keys[k].validFrom
                        /\ now >= keys[j].validFrom + OverlapSeconds
    BY DEF StaysTrusted
  <2>1. keys[k] \in SigningKey /\ now \in Nat
    BY DEF KeysInv, SigningTypeOK, Present, Time
  <2>2. now >= keys[k].validFrom
    BY <2>1 DEF KeysInv, Dated, SigningKey, Time
  <2>3. keys[k].validUntil # None /\ ~(now < keys[k].validUntil)
    BY <2>2 DEF KeyValid, keyring
  <2>4. keys[k].validUntil \in Nat
    BY <2>1, <2>3 DEF SigningKey
  <2> QED
    BY <2>1, <2>3, <2>4 DEF KeysInv, Superseded
<1> QED
  BY <1>1, KeysInvariant, PTL
-----------------------------------------------------------------------------
(***************************************************************************)
(* Licenses, for every number of customers, licenses and operators.  The   *)
(* row lock is what OneUpdater says; under it Shaped keeps true what the   *)
(* life cycle was told when it read the license, up to its UPDATE.         *)
(***************************************************************************)
USE IssuanceAssumption, NoneIsNoLicense

Actions == {"issued", "revoked", "suspended", "reinstated", "transferred"}

(* What a handler has in hand at each of its stops.                        *)
Fits(q) ==
  /\ q.pc \in {"customer", "sign", "insert", "erase"} => q.customer \in Customers
  /\ q.pc = "insert" => q.key \in Keys
  /\ q.pc = "update" =>
       /\ q.license \in Issued
       /\ q.op \in {"revoke", "suspend", "reinstate", "transfer"}
       /\ q.op = "transfer" => q.customer \in Customers
       /\ Allowed(q.op, license[q.license])

Shaped == \A r \in Requests : Fits(request[r])

OneUpdater ==
  \A r, o \in Requests :
    request[r].pc = "update" /\ request[o].pc = "update" /\ request[r].license = request[o].license
      => r = o

(* The entry that gives the status after n entries.                        *)
LastOf(log, n, m) ==
  /\ m \in 1 .. n /\ log[m] # "transferred"
  /\ \A j \in m + 1 .. n : log[j] = "transferred"

(* A log that tells the life of a row.                                     *)
Tells(log, row) ==
  /\ log \in Seq(Actions) /\ Len(log) >= 1
  /\ \A n \in 1 .. Len(log) : \E m \in 1 .. n : LastOf(log, n, m)
  /\ \A i \in 2 .. Len(log) :
       log[i] \in DOMAIN EntryOp /\ Allowed(EntryOp[log[i]], Replay(log, i - 1))
  /\ row.status = Replay(log, Len(log)).status
  /\ row.transferCount = Replay(log, Len(log)).transferCount

TrailsTell ==
  \A l \in Licenses : IF license[l] = None THEN audit[l] = <<>> ELSE Tells(audit[l], license[l])

Typed == TypeOK /\ audit \in [Licenses -> Seq(Actions)]

IssuanceInv == Typed /\ Shaped /\ OneUpdater /\ TrailsTell /\ OwnersKept
-----------------------------------------------------------------------------
(* The last entry that is no transfer decides.                             *)
LEMMA LastStatusIs ==
  ASSUME NEW log, NEW n \in Nat, NEW m, LastOf(log, n, m)
  PROVE  LastStatus(log, n) = m
<1> DEFINE statuses == {i \in 1 .. n : log[i] # "transferred"}
           Latest(i) == \A j \in statuses : j <= i
<1>1. m \in statuses /\ Latest(m)
  BY DEF LastOf
<1>2. \A i \in statuses : Latest(i) => i = m
  BY <1>1
<1>3. (CHOOSE i \in statuses : Latest(i)) = m
  <2> HIDE DEF statuses, Latest
  <2> QED
    BY <1>1, <1>2
<1> QED
  BY <1>3 DEF LastStatus

LEMMA TransferCounts ==
  ASSUME NEW log \in Seq(Actions), NEW a \in Actions
  PROVE  /\ \A n \in 0 .. Len(log) : Transfers(Append(log, a), n) = Transfers(log, n)
         /\ Transfers(log, Len(log)) \in Nat
         /\ Transfers(Append(log, a), Len(log) + 1) =
              Transfers(log, Len(log)) + (IF a = "transferred" THEN 1 ELSE 0)
<1> DEFINE At(s, n) == {i \in 1 .. n : s[i] = "transferred"}
           more == Append(log, a)
           len == Len(log)
<1>1. /\ len \in Nat
      /\ \A i \in 1 .. len : more[i] = log[i]
      /\ more[len + 1] = a
  OBVIOUS
<1>2. \A n \in 0 .. len : At(more, n) = At(log, n)
  BY <1>1
<1>3. IsFiniteSet(At(log, len))
  <2>1. IsFiniteSet(1 .. len)
    BY <1>1, FS_Interval
  <2> QED
    BY <2>1, FS_Subset
<1>4. Cardinality(At(log, len)) \in Nat
  BY <1>3, FS_CardinalityType
<1>7. \A s, n : Transfers(s, n) = Cardinality(At(s, n))
  BY DEF Transfers
<1>8. Transfers(log, len) \in Nat
  BY <1>4, <1>7
<1>9. \A n \in 0 .. len : Transfers(more, n) = Transfers(log, n)
  BY <1>2, <1>7
<1> HIDE DEF At
<1> SUFFICES Transfers(more, len + 1) = Transfers(log, len) + (IF a = "transferred" THEN 1 ELSE 0)
  BY <1>8, <1>9
<1>5. CASE a = "transferred"
  <2>1. At(more, len + 1) = At(log, len) \cup {len + 1}
    BY <1>1, <1>5 DEF At
  <2>2. len + 1 \notin At(log, len)
    BY <1>1 DEF At
  <2>3. Cardinality(At(more, len + 1)) = Cardinality(At(log, len)) + 1
    BY <1>3, <2>1, <2>2, FS_AddElement
  <2> QED
    BY <1>5, <1>7, <2>3
<1>6. CASE a # "transferred"
  <2>1. At(more, len + 1) = At(log, len)
    BY <1>1, <1>6 DEF At
  <2>2. Transfers(more, len + 1) = Transfers(log, len)
    BY <1>7, <2>1
  <2> QED
    BY <1>6, <1>8, <2>2
<1> QED
  BY <1>5, <1>6

(* An entry more changes nothing of the past.                              *)
LEMMA PastStands ==
  ASSUME NEW log \in Seq(Actions), NEW a \in Actions, NEW n \in 1 .. Len(log),
         NEW m \in 1 .. n, LastOf(log, n, m)
  PROVE  LastOf(Append(log, a), n, m) /\ Replay(Append(log, a), n) = Replay(log, n)
<1>1. \A i \in 1 .. n : Append(log, a)[i] = log[i]
  OBVIOUS
<1>2. LastOf(Append(log, a), n, m)
  BY <1>1 DEF LastOf
<1>3. LastStatus(log, n) = m /\ LastStatus(Append(log, a), n) = m
  BY <1>2, LastStatusIs
<1>4. Transfers(Append(log, a), n) = Transfers(log, n)
  BY TransferCounts
<1> QED
  BY <1>1, <1>2, <1>3, <1>4 DEF Replay

(* And it is the last word on the status, unless it is a transfer.         *)
LEMMA LastWord ==
  ASSUME NEW log \in Seq(Actions), NEW a \in Actions, Len(log) >= 1,
         NEW m \in 1 .. Len(log), LastOf(log, Len(log), m)
  PROVE  /\ \E k \in 1 .. Len(log) + 1 : LastOf(Append(log, a), Len(log) + 1, k)
         /\ Replay(Append(log, a), Len(log) + 1).status =
              IF a = "transferred" THEN Replay(log, Len(log)).status ELSE StatusOf(a)
<1> DEFINE more == Append(log, a)
           len == Len(log)
<1>1. /\ len \in Nat
      /\ \A i \in 1 .. len : more[i] = log[i]
      /\ more[len + 1] = a
  OBVIOUS
<1>2. LastStatus(log, len) = m /\ m \in 1 .. len /\ log[m] # "transferred"
  BY <1>1, LastStatusIs DEF LastOf
<1>3. CASE a = "transferred"
  <2>1. \A j \in m + 1 .. len + 1 : more[j] = "transferred"
    BY <1>1, <1>3 DEF LastOf
  <2>2. LastOf(more, len + 1, m)
    BY <1>1, <1>2, <2>1 DEF LastOf
  <2>3. LastStatus(more, len + 1) = m
    BY <1>1, <2>2, LastStatusIs
  <2> QED
    BY <1>1, <1>2, <1>3, <2>2, <2>3 DEF Replay
<1>4. CASE a # "transferred"
  <2>1. LastOf(more, len + 1, len + 1)
    BY <1>1, <1>4 DEF LastOf
  <2>2. LastStatus(more, len + 1) = len + 1
    BY <1>1, <2>1, LastStatusIs
  <2> QED
    BY <1>1, <1>4, <2>1, <2>2 DEF Replay
<1> QED
  BY <1>3, <1>4

(* What is allowed depends on the status and the transfers alone.          *)
LEMMA AllowedDepends ==
  ASSUME NEW row, NEW other, row.status = other.status, row.transferCount = other.transferCount,
         NEW op \in {"revoke", "suspend", "reinstate", "transfer"}, Allowed(op, row)
  PROVE  Allowed(op, other)
BY DEF Allowed

LEMMA FirstEntry ==
  ASSUME NEW row, row.status = "active", row.transferCount = 0
  PROVE  Tells(Append(<<>>, "issued"), row)
<1> DEFINE log == <<"issued">>
<1>1. Append(<<>>, "issued") = log /\ log \in Seq(Actions) /\ Len(log) = 1 /\ log[1] = "issued"
  BY DEF Actions
<1>2. LastOf(log, 1, 1)
  BY <1>1 DEF LastOf
<1>3. LastStatus(log, 1) = 1
  BY <1>2, LastStatusIs
<1>4. {i \in 1 .. 1 : log[i] = "transferred"} = {}
  BY <1>1
<1>5. Transfers(log, 1) = 0
  BY <1>4, FS_EmptySet DEF Transfers
<1>6. Replay(log, 1) = [status |-> "active", transferCount |-> 0]
  BY <1>1, <1>3, <1>5 DEF Replay, StatusOf
<1>7. \A n \in 1 .. Len(log) : \E m \in 1 .. n : LastOf(log, n, m)
  BY <1>1, <1>2
<1>8. \A i \in 2 .. Len(log) :
        log[i] \in DOMAIN EntryOp /\ Allowed(EntryOp[log[i]], Replay(log, i - 1))
  BY <1>1
<1>9. row.status = Replay(log, Len(log)).status /\ row.transferCount = Replay(log, Len(log)).transferCount
  BY <1>1, <1>6
<1> HIDE DEF log
<1>10. Tells(log, row)
  BY <1>1, <1>7, <1>8, <1>9 DEF Tells
<1> QED
  BY <1>1, <1>10

(* One more allowed step of the life cycle.                                *)
LEMMA NextEntry ==
  ASSUME NEW log, NEW row, NEW a \in DOMAIN EntryOp, NEW after, Tells(log, row),
         Allowed(EntryOp[a], row),
         after.status = (IF a = "transferred" THEN row.status ELSE StatusOf(a)),
         after.transferCount = row.transferCount + (IF a = "transferred" THEN 1 ELSE 0)
  PROVE  Tells(Append(log, a), after)
<1> DEFINE more == Append(log, a)
           len == Len(log)
<1>1. log \in Seq(Actions) /\ a \in Actions /\ len >= 1 /\ len \in Nat
  BY DEF Tells, EntryOp, Actions
<1>2. /\ more \in Seq(Actions) /\ Len(more) = len + 1 /\ more[len + 1] = a
      /\ \A i \in 1 .. len : more[i] = log[i]
  BY <1>1
<1>t. /\ \A n \in 1 .. len : \E m \in 1 .. n : LastOf(log, n, m)
      /\ \A i \in 2 .. len : log[i] \in DOMAIN EntryOp /\ Allowed(EntryOp[log[i]], Replay(log, i - 1))
      /\ row.status = Replay(log, len).status
      /\ row.transferCount = Replay(log, len).transferCount
  BY DEF Tells
<1> HIDE DEF more, len
<1>3. PICK m \in 1 .. len : LastOf(log, len, m)
  BY <1>1, <1>t
<1>4. \A n \in 1 .. len : /\ \E k \in 1 .. n : LastOf(more, n, k)
                          /\ Replay(more, n) = Replay(log, n)
  BY <1>1, <1>t, PastStands DEF more, len
<1>5. /\ \E k \in 1 .. len + 1 : LastOf(more, len + 1, k)
      /\ Replay(more, len + 1).status = after.status
  BY <1>1, <1>3, <1>t, LastWord DEF more, len
<1>6. Replay(more, len + 1).transferCount = after.transferCount
  BY <1>1, <1>t, TransferCounts DEF Replay, more, len
<1>7. Allowed(EntryOp[a], Replay(more, len))
  <2>1. Replay(more, len) = Replay(log, len)
    BY <1>1, <1>4
  <2>2. EntryOp[a] \in {"revoke", "suspend", "reinstate", "transfer"}
    BY DEF EntryOp
  <2> QED
    BY <1>t, <2>1, <2>2, AllowedDepends
<1>8. \A i \in 2 .. len + 1 :
        more[i] \in DOMAIN EntryOp /\ Allowed(EntryOp[more[i]], Replay(more, i - 1))
  <2> SUFFICES ASSUME NEW i \in 2 .. len + 1
               PROVE  more[i] \in DOMAIN EntryOp /\ Allowed(EntryOp[more[i]], Replay(more, i - 1))
    OBVIOUS
  <2>1. CASE i = len + 1
    BY <1>1, <1>2, <1>7, <2>1
  <2>2. CASE i \in 2 .. len
    <3>1. i - 1 \in 1 .. len
      BY <1>1, <2>2
    <3>2. i \in 1 .. len /\ i \in 2 .. len
      BY <1>1, <2>2
    <3>3. more[i] = log[i] /\ Replay(more, i - 1) = Replay(log, i - 1)
      BY <1>2, <1>4, <3>1, <3>2
    <3> QED
      BY <1>t, <3>2, <3>3
  <2> QED
    BY <1>1, <2>1, <2>2
<1>9. \A n \in 1 .. len + 1 : \E k \in 1 .. n : LastOf(more, n, k)
  <2>1. \A n \in 1 .. len + 1 : n \in 1 .. len \/ n = len + 1
    BY <1>1
  <2> QED
    BY <1>4, <1>5, <2>1
<1>10. Len(more) >= 1
  BY <1>1, <1>2
<1> QED
  BY <1>2, <1>5, <1>6, <1>8, <1>9, <1>10 DEF Tells, more
-----------------------------------------------------------------------------
(* Licensing leaves the keys to key management: what is proved of the keys *)
(* holds with licenses signed beside.                                      *)
LEMMA NextIsKeyStep == [Next]_vars => [SigningNext]_signingVars
BY DEF Next, vars, SigningNext, archivePlan, Restart, createCustomer, Begin, Step, IssuePlan,
       IssueCustomer, IssueSign, IssueInsert, LifecycleLock, LifecycleUpdate, TransferUpdate,
       EraseRead, EraseWrite

THEOREM LicensingKeepsKeys == Spec => SigningSpec
<1>1. Init => SigningInit
  BY DEF Init
<1> QED
  BY <1>1, NextIsKeyStep, PTL DEF Spec, SigningSpec

LEMMA IdleFits ==
  /\ Idle \in Request /\ Idle.pc = "idle"
  /\ Fits(Idle) /\ Fits(Idle)'
BY DEF Idle, Request, Fits

(* One request takes a step that writes no license.                        *)
LEMMA OneMoves ==
  ASSUME Typed, Shaped, OneUpdater, UNCHANGED license,
         NEW r \in Requests, NEW q \in Request, request' = [request EXCEPT ![r] = q], Fits(q),
         q.pc = "update" => lockLicense(r, q.license)
  PROVE  request' \in [Requests -> Request] /\ Shaped' /\ OneUpdater'
<1>1. /\ request' \in [Requests -> Request] /\ request'[r] = q
      /\ \A o \in Requests \ {r} : request'[o] = request[o]
  BY DEF Typed, TypeOK
<1>2. \A v : Fits(v) => Fits(v)'
  BY DEF Fits, Issued
<1>3. Shaped'
  BY <1>1, <1>2 DEF Shaped
<1>4. OneUpdater'
  BY <1>1 DEF OneUpdater, lockLicense
<1> QED
  BY <1>1, <1>3, <1>4

(* One request is done that wrote a license: a new one, or the one it has  *)
(* locked.                                                                 *)
LEMMA OneWrites ==
  ASSUME Typed, Shaped, OneUpdater, NEW r \in Requests, Done(r),
         NEW l \in Licenses, NEW row \in License, license' = [license EXCEPT ![l] = row],
         l \notin Issued \/ (request[r].pc = "update" /\ request[r].license = l)
  PROVE  request' \in [Requests -> Request] /\ Shaped' /\ OneUpdater'
<1>1. /\ request' \in [Requests -> Request] /\ request'[r] = Idle
      /\ \A o \in Requests \ {r} : request'[o] = request[o]
  BY IdleFits DEF Typed, TypeOK, Done
<1>2. \A m \in Issued : m \in Issued'
  BY NoneIsNoLicense DEF Issued, Typed, TypeOK
<1>3. ASSUME NEW o \in Requests \ {r} PROVE Fits(request[o])'
  <2>1. Fits(request[o])
    BY DEF Shaped
  <2>2. request[o].pc = "update" => request[o].license \in Issued /\ request[o].license # l
    BY <2>1 DEF Fits, OneUpdater
  <2>3. request[o].pc = "update" => license'[request[o].license] = license[request[o].license]
    BY <2>2 DEF Typed, TypeOK, Issued
  <2> QED
    BY <1>1, <1>2, <2>1, <2>3 DEF Fits
<1>4. Shaped'
  BY <1>1, <1>3, IdleFits DEF Shaped
<1>5. OneUpdater'
  BY <1>1, IdleFits DEF OneUpdater
<1> QED
  BY <1>1, <1>4, <1>5
-----------------------------------------------------------------------------
(* What a step does to the requests, with the license left alone.          *)
LEMMA IssueReads ==
  ASSUME IssuanceInv, NEW r \in Requests, (\E c \in Customers : IssuePlan(r, c)) \/ IssueCustomer(r) \/ IssueSign(r)
  PROVE  request' \in [Requests -> Request] /\ Shaped' /\ OneUpdater'
<1>0. Typed /\ Shaped /\ OneUpdater /\ request[r] \in Request /\ Fits(request[r])
  BY DEF IssuanceInv, Typed, TypeOK, Shaped
<1>1. ASSUME NEW c \in Customers, IssuePlan(r, c)
      PROVE  request' \in [Requests -> Request] /\ Shaped' /\ OneUpdater'
  <2> DEFINE q == [Idle EXCEPT !.pc = "customer", !.customer = c]
  <2>1. q \in Request /\ q.pc = "customer" /\ q.customer = c
    BY DEF Idle, Request
  <2>2. Fits(q)
    BY <2>1 DEF Fits
  <2>3. request' = [request EXCEPT ![r] = q] /\ UNCHANGED license
    BY <1>1 DEF IssuePlan
  <2> HIDE DEF q
  <2> QED
    BY <1>0, <2>1, <2>2, <2>3, OneMoves
<1>2. ASSUME Done(r), UNCHANGED license
      PROVE  request' \in [Requests -> Request] /\ Shaped' /\ OneUpdater'
  BY <1>0, <1>2, IdleFits, OneMoves DEF Done
<1>3. CASE IssueCustomer(r)
  <2> DEFINE q == [request[r] EXCEPT !.pc = "sign"]
  <2>1. q \in Request /\ q.pc = "sign" /\ q.customer = request[r].customer
    BY <1>0 DEF Request
  <2>2. Fits(q)
    BY <1>0, <1>3, <2>1 DEF Fits, IssueCustomer
  <2>3. /\ request' = [request EXCEPT ![r] = q] \/ Done(r)
        /\ UNCHANGED license
    BY <1>3 DEF IssueCustomer, Done
  <2> HIDE DEF q
  <2> QED
    BY <1>0, <1>2, <2>1, <2>2, <2>3, OneMoves
<1>4. CASE IssueSign(r)
  <2>1. UNCHANGED license
    BY <1>4 DEF IssueSign
  <2>2. ASSUME NEW k \in Keys, request' = [request EXCEPT ![r].pc = "insert", ![r].key = k]
        PROVE  request' \in [Requests -> Request] /\ Shaped' /\ OneUpdater'
    <3> DEFINE q == [request[r] EXCEPT !.pc = "insert", !.key = k]
    <3>1. q \in Request /\ q.pc = "insert" /\ q.customer = request[r].customer /\ q.key = k
      BY <1>0 DEF Request
    <3>2. Fits(q)
      BY <1>0, <1>4, <3>1 DEF Fits, IssueSign
    <3>3. request' = [request EXCEPT ![r] = q]
      BY <1>0, <2>2 DEF Typed, TypeOK
    <3> HIDE DEF q
    <3> QED
      BY <1>0, <2>1, <3>1, <3>2, <3>3, OneMoves
  <2>3. (\E k \in Keys : request' = [request EXCEPT ![r].pc = "insert", ![r].key = k]) \/ Done(r)
    BY <1>4 DEF IssueSign, Active, Present
  <2> QED
    BY <1>2, <2>1, <2>2, <2>3
<1> QED
  BY <1>1, <1>3, <1>4

LEMMA OtherReads ==
  ASSUME IssuanceInv, NEW r \in Requests,
         \/ \E c \in Customers : EraseRead(r, c)
         \/ EraseWrite(r)
         \/ \E l \in Licenses, op \in {"revoke", "suspend", "reinstate", "transfer"},
               c \in Customers \union {None} : LifecycleLock(r, l, op, c)
  PROVE  request' \in [Requests -> Request] /\ Shaped' /\ OneUpdater'
<1>0. Typed /\ Shaped /\ OneUpdater
  BY DEF IssuanceInv
<1>1. ASSUME NEW c \in Customers, EraseRead(r, c)
      PROVE  request' \in [Requests -> Request] /\ Shaped' /\ OneUpdater'
  <2>1. PICK held \in BOOLEAN : held = (HeldBy(c) # {})
    OBVIOUS
  <2> DEFINE q == [Idle EXCEPT !.pc = "erase", !.op = "erase", !.customer = c, !.held = held]
  <2>2. q \in Request /\ q.pc = "erase" /\ q.customer = c
    BY DEF Idle, Request
  <2>3. Fits(q)
    BY <2>2 DEF Fits
  <2>4. request' = [request EXCEPT ![r] = q] /\ UNCHANGED license
    BY <1>1, <2>1 DEF EraseRead
  <2> HIDE DEF q
  <2> QED
    BY <1>0, <2>2, <2>3, <2>4, OneMoves
<1>2. CASE EraseWrite(r)
  BY <1>0, <1>2, IdleFits, OneMoves DEF EraseWrite, Done
<1>3. ASSUME NEW l \in Licenses, NEW op \in {"revoke", "suspend", "reinstate", "transfer"},
             NEW c \in Customers \union {None}, LifecycleLock(r, l, op, c)
      PROVE  request' \in [Requests -> Request] /\ Shaped' /\ OneUpdater'
  <2> DEFINE q == [Idle EXCEPT !.pc = "update", !.op = op, !.license = l, !.customer = c]
  <2>1. q \in Request /\ q.pc = "update" /\ q.op = op /\ q.license = l /\ q.customer = c
    BY DEF Idle, Request
  <2>2. /\ l \in Issued /\ Allowed(op, license[l]) /\ lockLicense(r, l)
        /\ op = "transfer" => c \in Customers
        /\ UNCHANGED license /\ request' = [request EXCEPT ![r] = q]
    BY <1>3 DEF LifecycleLock
  <2>3. Fits(q)
    BY <2>1, <2>2 DEF Fits
  <2> HIDE DEF q
  <2> QED
    BY <1>0, <2>1, <2>2, <2>3, OneMoves
<1> QED
  BY <1>1, <1>2, <1>3
-----------------------------------------------------------------------------
(* A row inserted or changed, with the entry that goes with it.            *)
LEMMA TrailGrows ==
  ASSUME Typed, TrailsTell, NEW l \in Licenses, NEW row \in License, NEW a \in Actions,
         license' = [license EXCEPT ![l] = row], writeAudit(l, a),
         Tells(Append(audit[l], a), row)
  PROVE  /\ license' \in [Licenses -> License \union {None}]
         /\ audit' \in [Licenses -> Seq(Actions)]
         /\ TrailsTell'
<1>1. /\ license' \in [Licenses -> License \union {None}]
      /\ license'[l] = row /\ row # None
      /\ \A m \in Licenses \ {l} : license'[m] = license[m]
  BY DEF Typed, TypeOK
<1>2. /\ audit' \in [Licenses -> Seq(Actions)] /\ audit'[l] = Append(audit[l], a)
      /\ \A m \in Licenses \ {l} : audit'[m] = audit[m]
  BY DEF Typed, writeAudit
<1>3. TrailsTell'
  BY <1>1, <1>2 DEF TrailsTell
<1> QED
  BY <1>1, <1>2, <1>3

LEMMA OwnerStays ==
  ASSUME Typed, OwnersKept, NEW l \in Licenses, NEW row \in License,
         license' = [license EXCEPT ![l] = row], CustomerExists(row.customer), UNCHANGED customer
  PROVE  OwnersKept'
BY DEF Typed, TypeOK, OwnersKept, CustomerExists, Issued

Written ==
  /\ license' \in [Licenses -> License \union {None}]
  /\ audit' \in [Licenses -> Seq(Actions)]
  /\ request' \in [Requests -> Request]
  /\ Shaped' /\ OneUpdater' /\ TrailsTell' /\ OwnersKept'

LEMMA NothingWritten ==
  ASSUME IssuanceInv, NEW r \in Requests, Done(r), UNCHANGED <<license, audit, customer>>
  PROVE  Written
<1>1. request' \in [Requests -> Request] /\ Shaped' /\ OneUpdater'
  BY IdleFits, OneMoves DEF IssuanceInv, Done
<1>2. TrailsTell' /\ OwnersKept'
  BY DEF IssuanceInv, TrailsTell, OwnersKept, Issued
<1> QED
  BY <1>1, <1>2 DEF IssuanceInv, Typed, TypeOK, Written

LEMMA InsertWrites ==
  ASSUME IssuanceInv, NEW r \in Requests, NEW l \in Licenses, IssueInsert(r, l)
  PROVE  Written
<1>0. Typed /\ Shaped /\ OneUpdater /\ TrailsTell /\ OwnersKept /\ Fits(request[r])
  BY DEF IssuanceInv, Shaped
<1> DEFINE c == request[r].customer
           row == [customer |-> c, status |-> "active", transferCount |-> 0, key |-> request[r].key]
<1>1. Done(r) /\ l \notin Issued /\ UNCHANGED customer /\ request[r].pc = "insert"
  BY DEF IssueInsert
<1>2. CASE ~CustomerExists(c)
  BY <1>1, <1>2, NothingWritten DEF IssueInsert
<1>3. CASE CustomerExists(c)
  <2>1. license' = [license EXCEPT ![l] = row] /\ writeAudit(l, "issued")
    BY <1>3 DEF IssueInsert
  <2>2. row \in License /\ row.status = "active" /\ row.transferCount = 0 /\ row.customer = c
    BY <1>0, <1>1 DEF Fits, License
  <2> HIDE DEF row
  <2>3. Tells(Append(audit[l], "issued"), row)
    BY <1>0, <1>1, <2>2, FirstEntry DEF TrailsTell, Issued
  <2>4. "issued" \in Actions
    BY DEF Actions
  <2>5. request' \in [Requests -> Request] /\ Shaped' /\ OneUpdater'
    BY <1>0, <1>1, <2>1, <2>2, OneWrites
  <2>6. OwnersKept'
    BY <1>0, <1>1, <1>3, <2>1, <2>2, OwnerStays
  <2> QED
    BY <1>0, <2>1, <2>2, <2>3, <2>4, <2>5, <2>6, TrailGrows DEF Written
<1> QED
  BY <1>2, <1>3

(* The row a request has locked is as it read it, and its customer there.  *)
LEMMA LockedRow ==
  ASSUME IssuanceInv, NEW r \in Requests, request[r].pc = "update", NEW l, l = request[r].license
  PROVE  /\ l \in Licenses /\ license[l] \in License
         /\ request[r].op \in {"revoke", "suspend", "reinstate", "transfer"}
         /\ Allowed(request[r].op, license[l])
         /\ request[r].op = "transfer" => request[r].customer \in Customers
         /\ Tells(audit[l], license[l])
         /\ CustomerExists(license[l].customer)
<1>1. Fits(request[r])
  BY DEF IssuanceInv, Shaped
<1>2. l \in Issued /\ license[l] # None
  BY <1>1 DEF Fits, Issued
<1> QED
  BY <1>1, <1>2 DEF Fits, Issued, IssuanceInv, Typed, TypeOK, TrailsTell, OwnersKept, CustomerExists

LEMMA UpdateWrites ==
  ASSUME IssuanceInv, NEW r \in Requests, LifecycleUpdate(r)
  PROVE  Written
<1> DEFINE l == request[r].license
           op == request[r].op
           a == AuditAction[op]
           row == [license[l] EXCEPT !.status = StatusAfter[op]]
<1>0. Typed /\ Shaped /\ OneUpdater /\ TrailsTell /\ OwnersKept
  BY DEF IssuanceInv
<1>1. Done(r) /\ UNCHANGED customer /\ request[r].pc = "update" /\ op # "transfer"
  BY DEF LifecycleUpdate
<1>2. license' = [license EXCEPT ![l] = row] /\ writeAudit(l, a)
  BY DEF LifecycleUpdate
<1>3. /\ l \in Licenses /\ license[l] \in License /\ op \in {"revoke", "suspend", "reinstate"}
      /\ Allowed(op, license[l]) /\ Tells(audit[l], license[l])
      /\ CustomerExists(license[l].customer)
  BY <1>1, LockedRow
<1>4. /\ a \in DOMAIN EntryOp /\ a \in Actions /\ EntryOp[a] = op /\ a # "transferred"
      /\ StatusOf(a) = StatusAfter[op] /\ StatusAfter[op] \in {"active", "suspended", "revoked"}
  BY <1>3 DEF AuditAction, EntryOp, Actions, StatusOf, StatusAfter
<1>5. /\ row \in License /\ row.status = StatusOf(a) /\ row.customer = license[l].customer
      /\ row.transferCount = license[l].transferCount /\ row.transferCount \in Nat
  BY <1>3, <1>4 DEF License
<1> HIDE DEF row, a, op, l
<1>6. Tells(Append(audit[l], a), row)
  BY <1>3, <1>4, <1>5, NextEntry
<1>7. request' \in [Requests -> Request] /\ Shaped' /\ OneUpdater'
  BY <1>0, <1>1, <1>2, <1>3, <1>5, OneWrites DEF l
<1>8. OwnersKept'
  BY <1>0, <1>1, <1>2, <1>3, <1>5, OwnerStays
<1> QED
  BY <1>0, <1>2, <1>3, <1>4, <1>5, <1>6, <1>7, <1>8, TrailGrows DEF Written

LEMMA TransferWrites ==
  ASSUME IssuanceInv, NEW r \in Requests, TransferUpdate(r)
  PROVE  Written
<1> DEFINE l == request[r].license
           c == request[r].customer
           row == [license[l] EXCEPT !.customer = c, !.transferCount = @ + 1]
<1>0. Typed /\ Shaped /\ OneUpdater /\ TrailsTell /\ OwnersKept
  BY DEF IssuanceInv
<1>1. Done(r) /\ UNCHANGED customer /\ request[r].pc = "update" /\ request[r].op = "transfer"
  BY DEF TransferUpdate
<1>2. CASE ~CustomerExists(c)
  BY <1>1, <1>2, NothingWritten DEF TransferUpdate
<1>3. CASE CustomerExists(c)
  <2>1. /\ l \in Licenses /\ license[l] \in License /\ c \in Customers
        /\ Allowed("transfer", license[l]) /\ Tells(audit[l], license[l])
    BY <1>1, LockedRow
  <2>2. license[l].transferCount \in Nat /\ license[l].transferCount < TransferLimit
    BY <2>1 DEF Allowed, License
  <2>3. license' = [license EXCEPT ![l] = row] /\ writeAudit(l, "transferred")
    BY <1>0, <1>3, <2>1 DEF TransferUpdate, Typed, TypeOK
  <2>4. /\ row \in License /\ row.status = license[l].status /\ row.customer = c
        /\ row.transferCount = license[l].transferCount + 1
    <3>1. license[l].transferCount + 1 \in 0 .. TransferLimit
      BY <2>2
    <3> QED
      BY <2>1, <3>1 DEF License
  <2>5. /\ "transferred" \in DOMAIN EntryOp /\ "transferred" \in Actions
        /\ EntryOp["transferred"] = "transfer"
    BY DEF EntryOp, Actions
  <2> HIDE DEF row, l, c
  <2>6. Tells(Append(audit[l], "transferred"), row)
    BY <2>1, <2>4, <2>5, NextEntry
  <2>7. request' \in [Requests -> Request] /\ Shaped' /\ OneUpdater'
    BY <1>0, <1>1, <2>1, <2>3, <2>4, OneWrites DEF l
  <2>8. OwnersKept'
    BY <1>0, <1>1, <1>3, <2>1, <2>3, <2>4, OwnerStays
  <2> QED
    BY <1>0, <2>1, <2>3, <2>4, <2>5, <2>6, <2>7, <2>8, TrailGrows DEF Written
<1> QED
  BY <1>2, <1>3
-----------------------------------------------------------------------------
(* An erasure deletes a customer nobody holds a license of.                *)
LEMMA EraseKeepsOwners ==
  ASSUME IssuanceInv, NEW r \in Requests, EraseWrite(r)
  PROVE  /\ customer' \in [Customers -> {"active", "anonymized", "deleted", None}]
         /\ OwnersKept'
<1> DEFINE c == request[r].customer
<1>1. /\ customer \in [Customers -> {"active", "anonymized", "deleted", None}]
      /\ license \in [Licenses -> License \union {None}]
      /\ OwnersKept /\ c \in Customers
  BY DEF IssuanceInv, Typed, TypeOK, Shaped, Fits, EraseWrite
<1>2. /\ UNCHANGED license
      /\ \A d \in Customers \ {c} : customer'[d] = customer[d]
      /\ customer'[c] \in {customer[c], "anonymized", "deleted"}
      /\ customer'[c] = "deleted" => HeldBy(c) = {} \/ customer[c] = "deleted"
      /\ customer' \in [Customers -> {"active", "anonymized", "deleted", None}]
  BY <1>1 DEF EraseWrite
<1>3. ASSUME NEW l \in Issued'
      PROVE  customer'[license'[l].customer] \in {"active", "anonymized"}
  <2>1. l \in Issued /\ license'[l] = license[l] /\ license[l].customer \in Customers
    BY <1>1, <1>2, <1>3 DEF Issued, License
  <2>2. customer[license[l].customer] \in {"active", "anonymized"}
    BY <1>1, <2>1 DEF OwnersKept
  <2>3. license[l].customer = c => l \in HeldBy(c)
    BY <2>1 DEF HeldBy
  <2> QED
    BY <1>2, <2>1, <2>2, <2>3
<1> QED
  BY <1>2, <1>3 DEF OwnersKept

LEMMA InitIssuanceInv == Init => IssuanceInv
<1> SUFFICES ASSUME Init PROVE IssuanceInv
  OBVIOUS
<1>1. SigningTypeOK
  BY InitKeysInv DEF Init, KeysInv
<1>2. Typed
  <2>1. customer \in [Customers -> {"active", "anonymized", "deleted", None}] /\ archived \in BOOLEAN
    BY DEF Init
  <2>2. license \in [Licenses -> License \union {None}] /\ request \in [Requests -> Request]
    BY IdleFits DEF Init
  <2>3. <<>> \in Seq(Actions)
    OBVIOUS
  <2>4. audit \in [Licenses -> Seq(Actions)]
    BY <2>3 DEF Init
  <2> QED
    BY <1>1, <2>1, <2>2, <2>4 DEF Typed, TypeOK
<1>4. \A r \in Requests : request[r] = Idle
  BY DEF Init
<1>5. Shaped /\ OneUpdater
  BY <1>4, IdleFits DEF Shaped, OneUpdater
<1>3. TrailsTell /\ OwnersKept
  BY DEF Init, TrailsTell, OwnersKept, Issued
<1> QED
  BY <1>2, <1>3, <1>5 DEF IssuanceInv

LEMMA NextIssuanceInv == IssuanceInv /\ SigningTypeOK' /\ [Next]_vars => IssuanceInv'
<1> SUFFICES ASSUME IssuanceInv, SigningTypeOK', [Next]_vars PROVE IssuanceInv'
  OBVIOUS
<1>0. Typed /\ Shaped /\ OneUpdater /\ TrailsTell /\ OwnersKept
  BY DEF IssuanceInv
<1>1. ASSUME UNCHANGED <<license, audit>>, archived' \in BOOLEAN,
             customer' \in [Customers -> {"active", "anonymized", "deleted", None}], OwnersKept',
             request' \in [Requests -> Request], Shaped', OneUpdater'
      PROVE  IssuanceInv'
  BY <1>0, <1>1 DEF IssuanceInv, Typed, TypeOK, TrailsTell
<1>2. UNCHANGED <<license, customer>> => OwnersKept'
  BY <1>0 DEF OwnersKept, Issued
<1>3. UNCHANGED <<license, request>> =>
        request' \in [Requests -> Request] /\ Shaped' /\ OneUpdater'
  BY <1>0 DEF Typed, TypeOK, Shaped, Fits, OneUpdater, Issued
<1>4. UNCHANGED archived => archived' \in BOOLEAN
  BY <1>0 DEF Typed, TypeOK
<1>5. UNCHANGED customer => customer' \in [Customers -> {"active", "anonymized", "deleted", None}]
  BY <1>0 DEF Typed, TypeOK
<1>6. CASE UNCHANGED issuanceVars
  BY <1>1, <1>2, <1>3, <1>4, <1>5, <1>6 DEF issuanceVars
<1>7. CASE archivePlan
  BY <1>1, <1>2, <1>3, <1>5, <1>7 DEF archivePlan
<1>8. CASE Restart
  <2>1. request' \in [Requests -> Request] /\ Shaped' /\ OneUpdater'
    BY <1>8, IdleFits DEF Restart, Shaped, OneUpdater
  <2>2. UNCHANGED <<license, audit, archived, customer>>
    BY <1>8 DEF Restart
  <2> QED
    BY <1>1, <1>2, <1>4, <1>5, <2>1, <2>2
<1>9. ASSUME NEW c \in Customers, createCustomer(c) PROVE IssuanceInv'
  <2>1. customer' \in [Customers -> {"active", "anonymized", "deleted", None}] /\ OwnersKept'
    BY <1>0, <1>9 DEF createCustomer, OwnersKept, Issued, Typed, TypeOK, License
  <2>2. UNCHANGED <<license, audit, archived, request>>
    BY <1>9 DEF createCustomer
  <2> QED
    BY <1>1, <1>3, <1>4, <2>1, <2>2
<1>10. ASSUME NEW r \in Requests, UNCHANGED <<license, audit, archived, customer>>,
              request' \in [Requests -> Request], Shaped', OneUpdater'
       PROVE  IssuanceInv'
  BY <1>1, <1>2, <1>4, <1>5, <1>10
<1>11. ASSUME NEW r \in Requests, Begin(r) PROVE IssuanceInv'
  <2>1. UNCHANGED <<license, audit, archived, customer>>
    BY <1>11 DEF Begin, IssuePlan, EraseRead, LifecycleLock
  <2> QED
    BY <1>10, <1>11, <2>1, IssueReads, OtherReads DEF Begin
<1>12. ASSUME NEW r \in Requests, IssueCustomer(r) \/ IssueSign(r) PROVE IssuanceInv'
  <2>1. UNCHANGED <<license, audit, archived, customer>>
    BY <1>12 DEF IssueCustomer, IssueSign
  <2> QED
    BY <1>10, <1>12, <2>1, IssueReads
<1>13. ASSUME NEW r \in Requests, EraseWrite(r) PROVE IssuanceInv'
  <2>1. UNCHANGED <<license, audit, archived>>
    BY <1>13 DEF EraseWrite
  <2> QED
    BY <1>1, <1>4, <1>13, <2>1, EraseKeepsOwners, OtherReads
<1>14. ASSUME NEW r \in Requests,
              (\E l \in Licenses : IssueInsert(r, l)) \/ LifecycleUpdate(r) \/ TransferUpdate(r)
       PROVE  IssuanceInv'
  <2>1. UNCHANGED <<archived, customer>>
    BY <1>14 DEF IssueInsert, LifecycleUpdate, TransferUpdate
  <2>2. Written
    BY <1>14, InsertWrites, UpdateWrites, TransferWrites
  <2> QED
    BY <1>4, <1>5, <2>1, <2>2 DEF Written, IssuanceInv, Typed, TypeOK
<1> QED
  BY <1>6, <1>7, <1>8, <1>9, <1>11, <1>12, <1>13, <1>14 DEF Next, Step, vars

THEOREM IssuanceInvariant == Spec => []IssuanceInv
<1>1. KeysInv => SigningTypeOK
  BY DEF KeysInv
<1> QED
  BY <1>1, InitIssuanceInv, NextIssuanceInv, LicensingKeepsKeys, KeysInvariant, PTL DEF Spec

(* Every variable of licensing keeps its type.                             *)
THEOREM IssuanceTypeCorrect == Spec => []TypeOK
<1>1. IssuanceInv => TypeOK
  BY DEF IssuanceInv, Typed
<1> QED
  BY <1>1, IssuanceInvariant, PTL

(* However issuing, transfers and erasures race, whoever holds a license   *)
(* is a customer there is: anonymized perhaps, never deleted.              *)
THEOREM OwnersAreKept == Spec => []OwnersKept
<1>1. IssuanceInv => OwnersKept
  BY DEF IssuanceInv
<1> QED
  BY <1>1, IssuanceInvariant, PTL

(* However operators race, the audit trail of each license, replayed,      *)
(* takes allowed steps only and ends at the row there is.                  *)
THEOREM TrailsReplay == Spec => []AuditReplays
<1>1. IssuanceInv => AuditReplays
  BY DEF IssuanceInv, TrailsTell, Tells, AuditReplays, Issued
<1> QED
  BY <1>1, IssuanceInvariant, PTL
=============================================================================
