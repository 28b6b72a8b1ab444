---------------------------- MODULE DbPool_proofs ----------------------------
(***************************************************************************)
(* For every number of requests and connections: no request takes a        *)
(* connection of the pool with it, and with fewer requests than            *)
(* connections somebody can always go on.  PoolInv is inductive.  It ties  *)
(* the place a request has reached in its script to what it holds.         *)
(***************************************************************************)
EXTENDS DbPool, FiniteSetTheorems, TLAPS

Ops == {"begin", "lock", "read", "commit"}

(* A script is a sequence of transactions, each with its lock first.       *)
WellFormed(s) ==
  /\ s \in Seq(Ops)
  /\ Len(s) > 0 /\ s[1] = "begin" /\ s[Len(s)] = "commit"
  /\ \A i \in 1 .. Len(s) - 1 :
       /\ s[i] = "commit" <=> s[i + 1] = "begin"
       /\ s[i] \in {"lock", "read"} => s[i + 1] \in {"read", "commit"}

(* Every handler's script is one.                                          *)
LEMMA ScriptWellFormed == \A h \in Handlers : WellFormed(Script[h])
<1>1. WellFormed(activate)
  BY DEF WellFormed, activate, Authenticate, Ops
<1>2. WellFormed(deactivate)
  BY DEF WellFormed, deactivate, Authenticate, Ops
<1>3. WellFormed(runEnforcement)
  BY DEF WellFormed, runEnforcement, Authenticate, Ops
<1>4. WellFormed(acquireLease)
  BY DEF WellFormed, acquireLease, Authenticate, Ops
<1>5. WellFormed(renewLease)
  BY DEF WellFormed, renewLease, Authenticate, Ops
<1>6. WellFormed(publishIfStale)
  BY DEF WellFormed, publishIfStale, Ops
<1>7. WellFormed(applyProvision)
  BY DEF WellFormed, applyProvision, Ops
<1>8. WellFormed(revokeLicense)
  BY DEF WellFormed, revokeLicense, requireRole, Ops
<1> QED
  BY <1>1, <1>2, <1>3, <1>4, <1>5, <1>6, <1>7, <1>8 DEF Handlers, Script

(* A request is in a transaction from the step after "begin" on.           *)
TxShape == \A r \in Requests : Busy(r) => (InTx(r) <=> Op(r) # "begin")

(* Only a request that asks for a connection waits in the queue, once.     *)
QueueShape ==
  /\ \A i, j \in DOMAIN queue : queue[i] = queue[j] => i = j
  /\ \A r \in Requests : Waiting(r) => Busy(r) /\ Op(r) \in {"begin", "read"}

(* Whoever holds a lock is past the statement that took it.                *)
LockShape ==
  \A l \in Locks : lock[l] # None =>
    /\ Busy(lock[l]) /\ Op(lock[l]) \in {"read", "commit"}

PoolInv == TypeOK /\ NoLeak /\ TxShape /\ QueueShape /\ LockShape

-----------------------------------------------------------------------------
(* The operation a busy request is at, and the one after it.               *)
LEMMA OpType ==
  ASSUME TypeOK, NEW r \in Requests, Busy(r)
  PROVE  /\ kind[r] \in Handlers
         /\ WellFormed(Script[kind[r]])
         /\ pc[r] \in 1 .. Len(Script[kind[r]])
         /\ Op(r) \in Ops
         /\ Op(r) # "commit" => pc[r] + 1 \in 1 .. Len(Script[kind[r]])
<1>1. kind[r] \in Handlers /\ pc[r] \in DOMAIN Script[kind[r]]
  BY DEF TypeOK, Busy
<1>2. WellFormed(Script[kind[r]])
  BY <1>1, ScriptWellFormed
<1> QED
  BY <1>1, <1>2 DEF WellFormed, Op

(* Finitely many connections are open, for there are finitely many         *)
(* requests.                                                               *)
LEMMA OpenFinite ==
  ASSUME TypeOK
  PROVE  IsFiniteSet(open) /\ Cardinality(open) \in Nat
<1>1. IsFiniteSet(Requests \X {"tx", "read"})
  <2>1. IsFiniteSet({"tx", "read"})
    <3>1. IsFiniteSet({"tx"})
      BY FS_Singleton
    <3>2. IsFiniteSet({"tx"} \cup {"read"})
      BY <3>1, FS_AddElement
    <3>3. {"tx", "read"} = {"tx"} \cup {"read"}
      OBVIOUS
    <3> QED
      BY <3>2, <3>3
  <2> QED
    BY <2>1, RequestsAssumption, FS_Product
<1>2. IsFiniteSet(open)
  BY <1>1, FS_Subset DEF TypeOK
<1> QED
  BY <1>2, FS_CardinalityType

(* Giving connections back keeps within the pool.                          *)
LEMMA OpenShrinks ==
  ASSUME TypeOK, Cardinality(open) <= PoolMax, open' \subseteq open
  PROVE  Cardinality(open') <= PoolMax
<1>1. IsFiniteSet(open)
  BY OpenFinite
<1>2. /\ Cardinality(open') <= Cardinality(open)
      /\ Cardinality(open') \in Nat /\ Cardinality(open) \in Nat
  BY <1>1, FS_Subset, FS_CardinalityType
<1> QED
  BY <1>2, PoolAssumption
-----------------------------------------------------------------------------
(* A step of request r leaves every other request where it was.            *)
OthersKeep(r) ==
  \A q \in Requests \ {r} :
    /\ Busy(q)' <=> Busy(q)
    /\ Busy(q) => Op(q)' = Op(q)
    /\ InTx(q)' <=> InTx(q)
    /\ Reading(q)' <=> Reading(q)

(* A new request has its script before it.                                 *)
LEMMA StartStep ==
  ASSUME PoolInv, NEW r \in Requests, NEW h \in Kinds, NEW l \in Locks,
         Start(r, h, l)
  PROVE  PoolInv'
<1> USE DEF PoolInv
<1>1. h \in Handlers /\ WellFormed(Script[h])
  BY KindsAssumption, ScriptWellFormed
<1>2. Busy(r)' /\ Op(r)' = "begin" /\ 1 \in DOMAIN Script[h]
  BY <1>1, KindsAssumption
     DEF Start, Busy, Op, TypeOK, WellFormed
<1>3. ~InTx(r) /\ ~Reading(r) /\ ~Waiting(r)
  BY DEF Start, NoLeak, QueueShape
<1>4. OthersKeep(r)
  BY DEF Start, OthersKeep, Busy, Op, InTx, Reading, TypeOK
<1>5. TypeOK'
  BY <1>1, <1>2 DEF Start, TypeOK, Busy
<1>6. NoLeak'
  BY <1>2, <1>3, <1>4
     DEF Start, NoLeak, OthersKeep, InTx, Reading, Waiting
<1>7. TxShape'
  BY <1>2, <1>3, <1>4 DEF Start, TxShape, OthersKeep, InTx
<1>8. QueueShape'
  BY <1>3, <1>4 DEF Start, QueueShape, OthersKeep, Waiting
<1>9. LockShape'
  BY <1>3, <1>4 DEF Start, LockShape, OthersKeep, TypeOK
<1> QED
  BY <1>5, <1>6, <1>7, <1>8, <1>9

(* A request that asks for a connection waits for it.                      *)
LEMMA ConnectStep ==
  ASSUME PoolInv, NEW r \in Requests, Connect(r)
  PROVE  PoolInv'
<1> USE DEF PoolInv
<1>1. /\ queue \in Seq(Requests)
      /\ queue' = Append(queue, r)
      /\ UNCHANGED <<kind, pc, on, open, lock>>
      /\ ~Waiting(r) /\ ~Reading(r) /\ Busy(r) /\ Op(r) \in {"begin", "read"}
  BY DEF Connect, TypeOK
<1>2. \A q \in Requests : Waiting(q)' <=> Waiting(q) \/ q = r
  BY <1>1 DEF Waiting
<1>3. TypeOK'
  BY <1>1 DEF TypeOK, Busy
<1>4. NoLeak' /\ TxShape' /\ LockShape'
  BY <1>1, <1>2 DEF NoLeak, TxShape, LockShape, InTx, Reading, Busy, Op
<1>5. QueueShape'
  <2>1. \A i \in DOMAIN queue : queue[i] # r
    BY <1>1 DEF Waiting
  <2>2. \A i, j \in DOMAIN queue' : queue'[i] = queue'[j] => i = j
    BY <1>1, <2>1 DEF QueueShape
  <2> QED
    BY <1>1, <1>2, <2>2 DEF QueueShape, Busy, Op
<1> QED
  BY <1>3, <1>4, <1>5

(* The head of the queue gets what it waits for.                           *)
LEMMA GrantStep ==
  ASSUME PoolInv, Grant
  PROVE  PoolInv'
<1> USE DEF PoolInv
<1>0. PICK r \in Requests : r = Head(queue)
  BY DEF Grant, TypeOK
<1>1. /\ queue \in Seq(Requests) /\ queue # <<>>
      /\ r \in Requests /\ Waiting(r)
      /\ open' = open \union {<<r, Slot(r)>>}
      /\ pc' = IF Op(r) = "begin" THEN [pc EXCEPT ![r] = @ + 1] ELSE pc
      /\ queue' = Tail(queue)
      /\ UNCHANGED <<kind, on, lock>>
      /\ Cardinality(open) < PoolMax
  <2>1. queue \in Seq(Requests) /\ queue # <<>>
    BY DEF Grant, TypeOK
  <2>2. 1 \in DOMAIN queue /\ queue[1] = r /\ r \in Requests
    BY <1>0, <2>1
  <2> QED
    BY <1>0, <2>1, <2>2 DEF Grant, Waiting
<1>2. Busy(r) /\ Op(r) \in {"begin", "read"} /\ ~Reading(r)
  BY <1>1 DEF QueueShape, NoLeak
<1>3. \A q \in Requests : Waiting(q)' <=> Waiting(q) /\ q # r
  <2>1. \A i \in DOMAIN queue' : i + 1 \in DOMAIN queue /\ queue'[i] = queue[i + 1]
    BY <1>1
  <2>2. \A i \in DOMAIN queue : i = 1 \/ (i - 1 \in DOMAIN queue' /\ queue'[i - 1] = queue[i])
    BY <1>1
  <2>3. 1 \in DOMAIN queue /\ queue[1] = r
    BY <1>0, <1>1
  <2>4. \A i \in DOMAIN queue : queue[i] = r => i = 1
    BY <2>3 DEF QueueShape
  <2>5. \A i \in DOMAIN queue' : i + 1 # 1
    BY <1>1
  <2> QED
    BY <2>1, <2>2, <2>3, <2>4, <2>5 DEF Waiting
<1>4. OthersKeep(r)
  BY <1>1 DEF OthersKeep, Busy, Op, InTx, Reading, TypeOK, Slot
<1>5. Busy(r)' /\ pc'[r] \in DOMAIN Script[kind[r]]
  <2>1. pc[r] \in DOMAIN Script[kind[r]] /\ pc[r] \in Nat /\ kind[r] # None
    BY <1>2 DEF Busy, TypeOK
  <2>2. Busy(r)'
    BY <1>1, <2>1 DEF Busy
  <2>3. CASE Op(r) = "begin"
    <3>1. pc'[r] = pc[r] + 1
      BY <1>1, <2>3 DEF TypeOK
    <3>2. pc[r] + 1 \in 1 .. Len(Script[kind[r]])
      BY <1>2, <2>3, OpType
    <3>3. DOMAIN Script[kind[r]] = 1 .. Len(Script[kind[r]])
      BY <1>2, OpType DEF WellFormed
    <3> QED
      BY <2>2, <3>1, <3>2, <3>3
  <2>4. CASE Op(r) # "begin"
    BY <1>1, <2>1, <2>2, <2>4
  <2> QED
    BY <2>3, <2>4
<1>6. TypeOK'
  <2>1. queue' \in Seq(Requests)
    BY <1>1
  <2>2. open' \in SUBSET (Requests \X {"tx", "read"})
    BY <1>1 DEF TypeOK, Slot
  <2>3. pc' \in [Requests -> Nat]
    BY <1>1 DEF TypeOK
  <2>4. \A q \in Requests :
          Busy(q)' => pc'[q] \in DOMAIN Script[kind'[q]] /\ on'[q] \in Locks
    BY <1>1, <1>5 DEF TypeOK, Busy
  <2> QED
    BY <1>1, <2>1, <2>2, <2>3, <2>4 DEF TypeOK
<1>7. Cardinality(open') <= PoolMax
  <2>1. IsFiniteSet(open) /\ Cardinality(open) \in Nat
    BY OpenFinite
  <2>2. Cardinality(open') \in {Cardinality(open), Cardinality(open) + 1}
    BY <1>1, <2>1, FS_AddElement
  <2> QED
    BY <1>1, <2>1, <2>2, PoolAssumption
<1>8. QueueShape'
  <2>1. \A i, j \in DOMAIN queue' : queue'[i] = queue'[j] => i = j
    <3>1. \A i \in DOMAIN queue' :
            i \in Nat /\ i + 1 \in DOMAIN queue /\ queue'[i] = queue[i + 1]
      BY <1>1
    <3> QED
      BY <3>1 DEF QueueShape
  <2> QED
    BY <1>3, <1>4, <2>1 DEF QueueShape, OthersKeep
<1>9. CASE Op(r) = "begin"
  <2>1. /\ pc' = [pc EXCEPT ![r] = @ + 1]
        /\ open' = open \union {<<r, "tx">>}
    BY <1>1, <1>9 DEF Slot
  <2>2. Op(r)' \in {"lock", "read", "commit"}
    <3>1. /\ pc[r] \in 1 .. Len(Script[kind[r]]) - 1
          /\ Script[kind[r]][pc[r] + 1] \in Ops
      BY <1>1, <1>2, <1>9, OpType DEF WellFormed
    <3>2. Script[kind[r]][pc[r] + 1] # "begin"
      BY <1>1, <1>2, <1>9, <3>1, OpType DEF WellFormed, Op
    <3>3. Op(r)' = Script[kind[r]][pc[r] + 1]
      BY <1>1, <2>1 DEF Op, TypeOK
    <3> QED
      BY <3>1, <3>2, <3>3 DEF Ops
  <2>3. InTx(r)' /\ ~Reading(r)'
    BY <1>1, <1>2, <2>1 DEF InTx, Reading
  <2>4. TxShape' /\ LockShape'
    BY <1>1, <1>2, <1>4, <1>5, <1>9, <2>2, <2>3
       DEF TxShape, LockShape, OthersKeep, TypeOK
  <2>5. \A q \in Requests :
          /\ InTx(q)' => Busy(q)'
          /\ Reading(q)' => InTx(q)' /\ Op(q)' = "read" /\ ~Waiting(q)'
    <3> TAKE q \in Requests
    <3>1. CASE q = r
      BY <1>5, <2>3, <3>1
    <3>2. CASE q # r
      BY <1>3, <1>4, <3>2 DEF OthersKeep, NoLeak
    <3> QED
      BY <3>1, <3>2
  <2> QED
    BY <1>6, <1>7, <1>8, <2>4, <2>5 DEF NoLeak
<1>10. CASE Op(r) = "read"
  <2>1. pc' = pc /\ open' = open \union {<<r, "read">>} /\ Op(r)' = Op(r)
    BY <1>1, <1>10 DEF Slot, Op
  <2>2. InTx(r)' /\ ~Waiting(r)' /\ InTx(r)
    BY <1>1, <1>2, <1>3, <1>10, <2>1 DEF InTx, TxShape
  <2>3. TxShape' /\ LockShape'
    BY <1>1, <1>2, <1>4, <1>5, <1>10, <2>1, <2>2
       DEF TxShape, LockShape, OthersKeep, TypeOK
  <2>4. \A q \in Requests :
          /\ InTx(q)' => Busy(q)'
          /\ Reading(q)' => InTx(q)' /\ Op(q)' = "read" /\ ~Waiting(q)'
    <3> TAKE q \in Requests
    <3>1. CASE q = r
      BY <1>5, <1>10, <2>1, <2>2, <3>1
    <3>2. CASE q # r
      BY <1>3, <1>4, <3>2 DEF OthersKeep, NoLeak
    <3> QED
      BY <3>1, <3>2
  <2> QED
    BY <1>6, <1>7, <1>8, <2>3, <2>4 DEF NoLeak
<1> QED
  BY <1>2, <1>9, <1>10

(* What a step that ends request r, or moves it on, has to show once its   *)
(* effect on r is known.                                                   *)
Settles(r) ==
  /\ Busy(r)' => /\ InTx(r)' <=> Op(r)' # "begin"
                 /\ pc'[r] \in DOMAIN Script[kind'[r]] /\ on'[r] \in Locks
  /\ ~Busy(r)' => ~InTx(r)'
  /\ ~Reading(r)'
  /\ \A l \in Locks : lock'[l] = r => Busy(r)' /\ Op(r)' \in {"read", "commit"}

(* A step of a request that is not in the queue keeps PoolInv, if it only  *)
(* gives connections and locks back, or takes a free lock for itself.      *)
LEMMA SettledStep ==
  ASSUME PoolInv, NEW r \in Requests, ~Waiting(r), OthersKeep(r), Settles(r),
         open' \subseteq open, queue' = queue,
         kind' \in [Requests -> Handlers \union {None}],
         pc' \in [Requests -> Nat],
         on' \in [Requests -> Locks \union {None}],
         lock' \in [Locks -> Requests \union {None}],
         \A q \in Requests \ {r} : Busy(q) => /\ kind'[q] = kind[q]
                                             /\ pc'[q] = pc[q] /\ on'[q] = on[q],
         \A l \in Locks : lock'[l] \in {lock[l], r, None}
  PROVE  PoolInv'
<1> USE DEF PoolInv
<1>1. \A q \in Requests : Waiting(q)' <=> Waiting(q)
  BY DEF Waiting
<1>2. TypeOK'
  <2>1. \A q \in Requests :
          Busy(q)' => pc'[q] \in DOMAIN Script[kind'[q]] /\ on'[q] \in Locks
    <3> TAKE q \in Requests
    <3>1. CASE q = r
      BY <3>1 DEF Settles
    <3>2. CASE q # r
      BY <3>2 DEF OthersKeep, TypeOK
    <3> QED
      BY <3>1, <3>2
  <2>2. open' \in SUBSET (Requests \X {"tx", "read"}) /\ queue' \in Seq(Requests)
    BY DEF TypeOK
  <2> QED
    BY <2>1, <2>2 DEF TypeOK
<1>3. Cardinality(open') <= PoolMax
  BY OpenShrinks DEF NoLeak
<1>4. \A q \in Requests :
        /\ InTx(q)' => Busy(q)'
        /\ Reading(q)' => InTx(q)' /\ Op(q)' = "read" /\ ~Waiting(q)'
  <2> TAKE q \in Requests
  <2>1. CASE q = r
    BY <2>1 DEF Settles
  <2>2. CASE q # r
    BY <1>1, <2>2 DEF OthersKeep, NoLeak
  <2> QED
    BY <2>1, <2>2
<1>5. TxShape'
  BY DEF TxShape, OthersKeep, Settles
<1>6. QueueShape'
  <2>1. \A q \in Requests : Waiting(q)' => Busy(q)' /\ Op(q)' \in {"begin", "read"}
    BY <1>1 DEF QueueShape, OthersKeep
  <2> QED
    BY <2>1 DEF QueueShape
<1>7. LockShape'
  <2>1. \A l \in Locks, q \in Requests :
          lock'[l] = q => Busy(q)' /\ Op(q)' \in {"read", "commit"}
    <3> TAKE l \in Locks, q \in Requests
    <3>1. CASE q = r
      BY <3>1 DEF Settles
    <3>2. CASE q # r
      BY <3>2, RequestsAssumption DEF LockShape, OthersKeep
    <3> QED
      BY <3>1, <3>2
  <2> QED
    BY <2>1 DEF LockShape, Busy, Op
<1> QED
  BY <1>2, <1>3, <1>4, <1>5, <1>6, <1>7 DEF NoLeak

(* The nested transaction is over: the script goes on in the outer one.    *)
LEMMA EndReadStep ==
  ASSUME PoolInv, NEW r \in Requests, EndRead(r)
  PROVE  PoolInv'
<1> USE DEF PoolInv
<1>1. /\ Busy(r) /\ InTx(r) /\ Op(r) = "read" /\ ~Waiting(r)
      /\ open' = open \ {<<r, "read">>}
      /\ pc' = [pc EXCEPT ![r] = @ + 1]
      /\ UNCHANGED <<kind, on, queue, lock>>
  BY DEF EndRead, NoLeak
<1>2. /\ Op(r)' \in {"read", "commit"} /\ pc'[r] \in DOMAIN Script[kind[r]]
      /\ pc' \in [Requests -> Nat]
  BY <1>1, OpType DEF WellFormed, Op, TypeOK
<1>3. OthersKeep(r)
  BY <1>1 DEF OthersKeep, Busy, Op, InTx, Reading, TypeOK
<1>4. Settles(r)
  BY <1>1, <1>2 DEF Settles, Busy, InTx, Reading, TypeOK
<1> QED
  BY <1>1, <1>2, <1>3, <1>4, SettledStep DEF TypeOK

(* A free lock is taken, and the script goes on to what it protects.       *)
LEMMA LockStep ==
  ASSUME PoolInv, NEW r \in Requests, Lock(r)
  PROVE  PoolInv'
<1> USE DEF PoolInv
<1>1. /\ Busy(r) /\ InTx(r) /\ Op(r) = "lock" /\ ~Waiting(r) /\ ~Reading(r)
      /\ lock' = [lock EXCEPT ![on[r]] = r]
      /\ pc' = [pc EXCEPT ![r] = @ + 1]
      /\ UNCHANGED <<kind, on, open, queue>>
  BY DEF Lock, TxShape, QueueShape, NoLeak
<1>2. /\ Op(r)' \in {"read", "commit"} /\ pc'[r] \in DOMAIN Script[kind[r]]
      /\ pc' \in [Requests -> Nat]
  BY <1>1, OpType DEF WellFormed, Op, TypeOK
<1>3. OthersKeep(r)
  BY <1>1 DEF OthersKeep, Busy, Op, InTx, Reading, TypeOK
<1>4. Settles(r)
  BY <1>1, <1>2 DEF Settles, Busy, InTx, Reading, TypeOK
<1>5. /\ lock' \in [Locks -> Requests \union {None}]
      /\ \A l \in Locks : lock'[l] \in {lock[l], r, None}
  BY <1>1 DEF TypeOK
<1> QED
  BY <1>1, <1>2, <1>3, <1>4, <1>5, SettledStep DEF TypeOK

(* COMMIT or ROLLBACK leaves every lock free or with a request.            *)
LEMMA FreeLockType ==
  ASSUME TypeOK, NEW r \in Requests
  PROVE  /\ FreeLock(r) \in [Locks -> Requests \union {None}]
         /\ \A l \in Locks : FreeLock(r)[l] # r /\ FreeLock(r)[l] \in {lock[l], None}
BY RequestsAssumption DEF TypeOK, FreeLock

(* COMMIT gives back the connection and the lock, and ends the request or  *)
(* starts its next transaction.                                            *)
LEMMA CommitStep ==
  ASSUME PoolInv, NEW r \in Requests, Commit(r)
  PROVE  PoolInv'
<1> USE DEF PoolInv
<1>1. /\ Busy(r) /\ InTx(r) /\ Op(r) = "commit" /\ ~Waiting(r) /\ ~Reading(r)
      /\ open' = open \ {<<r, "tx">>}
      /\ lock' = FreeLock(r)
      /\ queue' = queue
  BY DEF Commit, TxShape, QueueShape, NoLeak
<1>2. ~InTx(r)' /\ ~Reading(r)'
  BY <1>1 DEF InTx, Reading
<1>3. /\ lock' \in [Locks -> Requests \union {None}]
      /\ \A l \in Locks : lock'[l] # r /\ lock'[l] \in {lock[l], r, None}
  BY <1>1, FreeLockType
<1>4. CASE pc[r] = Len(Script[kind[r]])
  <2>1. Finished(r)
    BY <1>4 DEF Commit
  <2>2. ~Busy(r)'
    BY <2>1 DEF Finished, Busy, TypeOK
  <2>3. OthersKeep(r)
    BY <1>1, <2>1 DEF Finished, OthersKeep, Busy, Op, InTx, Reading, TypeOK
  <2>4. Settles(r)
    BY <1>2, <1>3, <2>2 DEF Settles
  <2> QED
    BY <1>1, <1>3, <2>1, <2>3, <2>4, SettledStep DEF Finished, TypeOK
<1>5. CASE pc[r] # Len(Script[kind[r]])
  <2>1. pc' = [pc EXCEPT ![r] = @ + 1] /\ UNCHANGED <<kind, on>>
    BY <1>5 DEF Commit
  <2>2. /\ Op(r)' = "begin" /\ pc'[r] \in DOMAIN Script[kind[r]]
        /\ pc' \in [Requests -> Nat]
    <3>1. pc[r] \in 1 .. Len(Script[kind[r]]) - 1
      BY <1>1, <1>5, OpType DEF WellFormed
    <3> QED
      BY <1>1, <2>1, <3>1, OpType DEF WellFormed, Op, TypeOK
  <2>3. OthersKeep(r)
    BY <1>1, <2>1 DEF OthersKeep, Busy, Op, InTx, Reading, TypeOK
  <2>4. Settles(r)
    BY <1>1, <1>2, <1>3, <2>1, <2>2 DEF Settles, Busy, TypeOK
  <2> QED
    BY <1>1, <1>3, <2>1, <2>2, <2>3, <2>4, SettledStep DEF TypeOK
<1> QED
  BY <1>4, <1>5

(* However a request ends, it gives back all that it holds.                *)
LEMMA LeaveStep ==
  ASSUME PoolInv, NEW r \in Requests, Leave(r)
  PROVE  PoolInv'
<1> USE DEF PoolInv
<1>1. /\ ~Waiting(r)
      /\ open' = open \ {<<r, "tx">>, <<r, "read">>}
      /\ lock' = FreeLock(r)
      /\ queue' = queue
      /\ Finished(r)
  BY DEF Leave
<1>2. ~InTx(r)' /\ ~Reading(r)' /\ ~Busy(r)'
  BY <1>1 DEF InTx, Reading, Finished, Busy, TypeOK
<1>3. /\ lock' \in [Locks -> Requests \union {None}]
      /\ \A l \in Locks : lock'[l] # r /\ lock'[l] \in {lock[l], r, None}
  BY <1>1, FreeLockType
<1>4. OthersKeep(r)
  BY <1>1 DEF Finished, OthersKeep, Busy, Op, InTx, Reading, TypeOK
<1>5. Settles(r)
  BY <1>2, <1>3 DEF Settles
<1> QED
  BY <1>1, <1>3, <1>4, <1>5, SettledStep DEF Finished, TypeOK

(* PoolInv holds at the start, and every step keeps it.                    *)
LEMMA InitPoolInv == Init => PoolInv
<1> SUFFICES ASSUME Init PROVE PoolInv
  OBVIOUS
<1>1. TypeOK /\ TxShape /\ QueueShape /\ LockShape
  BY DEF Init, TypeOK, TxShape, QueueShape, LockShape, Busy, Waiting
<1>2. NoLeak
  BY FS_EmptySet, PoolAssumption DEF Init, NoLeak, InTx, Reading
<1> QED
  BY <1>1, <1>2 DEF PoolInv

(* A step that changes nothing keeps the invariant.                        *)
LEMMA StutterStep == PoolInv /\ UNCHANGED vars => PoolInv'
BY DEF vars, PoolInv, TypeOK, NoLeak, TxShape, QueueShape, LockShape,
       Busy, Op, Waiting, InTx, Reading

(* In every reachable state, a request holds exactly what its place in its *)
(* script says (withTenant acquires once and releases in finally).         *)
THEOREM PoolInvariant == Spec => []PoolInv
<1>1. PoolInv /\ [Next]_vars => PoolInv'
  <2> SUFFICES ASSUME PoolInv, [Next]_vars PROVE PoolInv'
    OBVIOUS
  <2>1. CASE \E r \in Requests, h \in Kinds, l \in Locks : Start(r, h, l)
    BY <2>1, StartStep
  <2>2. CASE \E r \in Requests : Progress(r)
    BY <2>2, ConnectStep, EndReadStep, LockStep, CommitStep DEF Progress
  <2>3. CASE \E r \in Requests : Leave(r)
    BY <2>3, LeaveStep
  <2>4. CASE Grant
    BY <2>4, GrantStep
  <2>5. CASE UNCHANGED vars
    BY <2>5, StutterStep
  <2> QED
    BY <2>1, <2>2, <2>3, <2>4, <2>5 DEF Next
<1> QED
  BY <1>1, InitPoolInv, PTL DEF Spec

(* No request ever takes a connection with it, however it ends.            *)
THEOREM PoolNeverLeaks == Spec => []NoLeak
BY PoolInvariant, PTL DEF PoolInv

(* With fewer requests than connections nobody is needed to break a        *)
(* standstill, because there is none.  The head of the queue could wait    *)
(* for ever only if every connection were held by a request that holds     *)
(* one and waits, and there are too few requests for that.                 *)
LEMMA RoomMeansProgress == PoolInv => NotStuck
<1> SUFFICES ASSUME PoolInv, Cardinality(Requests) < PoolMax,
                    NEW b \in Requests, Busy(b),
                    \A r \in Requests : ~CanStep(r)
             PROVE  FALSE
  BY DEF NotStuck
<1> USE DEF PoolInv
<1>1. \A r \in Requests : ~Reading(r)
  BY DEF CanStep, NoLeak
<1>2. Cardinality(open) < PoolMax
  <2>1. open \subseteq Requests \X {"tx"}
    BY <1>1 DEF TypeOK, Reading
  <2>2. /\ IsFiniteSet(Requests \X {"tx"})
        /\ Cardinality(Requests \X {"tx"}) = Cardinality(Requests)
    <3>1. IsFiniteSet({"tx"}) /\ Cardinality({"tx"}) = 1
      BY FS_Singleton
    <3>2. Cardinality(Requests) \in Nat
      BY RequestsAssumption, FS_CardinalityType
    <3> QED
      BY <3>1, <3>2, RequestsAssumption, FS_Product
  <2>3. Cardinality(open) <= Cardinality(Requests)
    BY <2>1, <2>2, FS_Subset
  <2> QED
    BY <2>3, OpenFinite, RequestsAssumption, FS_CardinalityType, PoolAssumption
<1>3. queue = <<>>
  <2> SUFFICES ASSUME queue # <<>> PROVE FALSE
    OBVIOUS
  <2>1. Head(queue) \in Requests /\ Waiting(Head(queue))
    BY DEF TypeOK, Waiting
  <2> QED
    BY <1>2, <2>1 DEF CanStep, QueueShape
<1>4. \A r \in Requests : ~Waiting(r)
  BY <1>3 DEF Waiting
<1>5. Op(b) = "lock" /\ lock[on[b]] # None
  BY <1>4 DEF CanStep
<1> QED
  <2>1. on[b] \in Locks /\ lock[on[b]] \in Requests
    BY <1>5 DEF TypeOK
  <2>2. Busy(lock[on[b]]) /\ Op(lock[on[b]]) \in {"read", "commit"}
    BY <1>5, <2>1 DEF LockShape
  <2> QED
    BY <1>4, <2>1, <2>2 DEF CanStep

(* If fewer requests than connections are in flight, the server never      *)
(* comes to a standstill (db/client.ts makePool, withTenant).              *)
THEOREM RoomyPoolNeverStuck == Spec => []NotStuck
BY PoolInvariant, RoomMeansProgress, PTL
=============================================================================
