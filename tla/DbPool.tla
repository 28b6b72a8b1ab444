------------------------------- MODULE DbPool -------------------------------
(***************************************************************************)
(* The connection pool every request of the server shares (pg.Pool, made   *)
(* by db/client.ts with no connection timeout) and the row locks its       *)
(* transactions wait for.                                                  *)
(*                                                                         *)
(* withTenant() keeps one connection from BEGIN to COMMIT.  Some handlers  *)
(* call a function in the middle of their transaction that opens a         *)
(* transaction of its own: the signer reads the active signing key that    *)
(* way, and runEnforcement the effective plan.  Such a request holds one   *)
(* connection while it waits for a second one.                             *)
(*                                                                         *)
(* A handler is the sequence of things it waits for; what it computes is   *)
(* left out.  "begin" and "commit" bracket a transaction, "lock" waits for *)
(* the row (or advisory) lock it works under, "read" is a nested           *)
(* transaction.                                                            *)
(***************************************************************************)
EXTENDS Naturals, Sequences, FiniteSets

CONSTANTS
  Requests,   \* requests in flight at the same time
  Kinds,      \* the handlers they ask for
  Locks,      \* rows that transactions lock: licenses, subscriptions
  PoolMax,    \* DB_POOL_MAX
  None

ASSUME PoolAssumption == PoolMax \in Nat \ {0}
ASSUME RequestsAssumption == IsFiniteSet(Requests) /\ None \notin Requests

VARIABLES
  kind,    \* kind[r]: the handler that serves request r, None when idle
  pc,      \* pc[r]: how far it got in its script
  on,      \* on[r]: the lock its transaction works under
  open,    \* connections in use: <<r, "tx">> and <<r, "read">>
  queue,   \* requests that wait in pool.connect(), first come first served
  lock     \* lock[l]: the request whose transaction holds l

vars == <<kind, pc, on, open, queue, lock>>
-----------------------------------------------------------------------------
(* The handlers.                                                           *)

Authenticate == <<"begin", "commit">>   \* the API key, before the handler
requireRole  == <<"begin", "commit">> \o <<"begin", "commit">>   \* session, role

activate       == Authenticate \o <<"begin", "lock", "read", "commit">>
deactivate     == Authenticate \o <<"begin", "lock", "commit">>
runEnforcement == Authenticate \o <<"begin", "read", "read", "commit">>
acquireLease   == Authenticate \o <<"begin", "commit">>
                               \o <<"begin", "lock", "read", "commit">>
renewLease     == Authenticate \o <<"begin", "lock", "read", "commit">>
publishIfStale == <<"begin", "read", "commit">>
applyProvision == <<"begin", "commit">> \o <<"begin", "read", "read", "commit">>
revokeLicense  == requireRole \o <<"begin", "lock", "commit">>

Script ==
  [activate |-> activate, deactivate |-> deactivate,
   runEnforcement |-> runEnforcement, acquireLease |-> acquireLease,
   renewLease |-> renewLease, publishIfStale |-> publishIfStale,
   applyProvision |-> applyProvision, revokeLicense |-> revokeLicense]

Handlers == DOMAIN Script
ASSUME KindsAssumption == Kinds \subseteq Handlers /\ None \notin Handlers

Busy(r)     == kind[r] # None
Op(r)       == Script[kind[r]][pc[r]]
Slot(r)     == IF Op(r) = "begin" THEN "tx" ELSE "read"
Waiting(r)  == \E i \in DOMAIN queue : queue[i] = r
InTx(r)     == <<r, "tx">> \in open
Reading(r)  == <<r, "read">> \in open
FreeLock(r) == [l \in Locks |-> IF lock[l] = r THEN None ELSE lock[l]]

TypeOK ==
  /\ kind \in [Requests -> Handlers \union {None}]
  /\ pc \in [Requests -> Nat]
  /\ \A r \in Requests :
       Busy(r) => pc[r] \in DOMAIN Script[kind[r]] /\ on[r] \in Locks
  /\ on \in [Requests -> Locks \union {None}]
  /\ open \in SUBSET (Requests \X {"tx", "read"})
  /\ queue \in Seq(Requests)
  /\ lock \in [Locks -> Requests \union {None}]

Init ==
  /\ kind = [r \in Requests |-> None]
  /\ pc = [r \in Requests |-> 0]
  /\ on = [r \in Requests |-> None]
  /\ open = {}
  /\ queue = <<>>
  /\ lock = [l \in Locks |-> None]
-----------------------------------------------------------------------------
Start(r, h, l) ==
  /\ ~Busy(r)
  /\ kind' = [kind EXCEPT ![r] = h]
  /\ pc' = [pc EXCEPT ![r] = 1]
  /\ on' = [on EXCEPT ![r] = l]
  /\ UNCHANGED <<open, queue, lock>>

(* pool.connect(): the request joins the queue ...                         *)
Connect(r) ==
  /\ Busy(r) /\ ~Waiting(r) /\ ~Reading(r)
  /\ Op(r) \in {"begin", "read"}
  /\ queue' = Append(queue, r)
  /\ UNCHANGED <<kind, pc, on, open, lock>>

(* ... and its head gets a connection as soon as one is free.              *)
Grant ==
  /\ queue # <<>>
  /\ Cardinality(open) < PoolMax
  /\ LET r == Head(queue) IN
       /\ open' = open \union {<<r, Slot(r)>>}
       /\ pc' = IF Op(r) = "begin" THEN [pc EXCEPT ![r] = @ + 1] ELSE pc
  /\ queue' = Tail(queue)
  /\ UNCHANGED <<kind, on, lock>>

(* The nested transaction commits and gives its connection back.           *)
EndRead(r) ==
  /\ Reading(r)
  /\ open' = open \ {<<r, "read">>}
  /\ pc' = [pc EXCEPT ![r] = @ + 1]
  /\ UNCHANGED <<kind, on, queue, lock>>

(* SELECT ... FOR UPDATE, a guarded UPDATE or pg_advisory_xact_lock.       *)
Lock(r) ==
  /\ Busy(r) /\ Op(r) = "lock"
  /\ lock[on[r]] = None
  /\ lock' = [lock EXCEPT ![on[r]] = r]
  /\ pc' = [pc EXCEPT ![r] = @ + 1]
  /\ UNCHANGED <<kind, on, open, queue>>

Finished(r) ==
  /\ kind' = [kind EXCEPT ![r] = None]
  /\ pc' = [pc EXCEPT ![r] = 0]
  /\ on' = [on EXCEPT ![r] = None]

(* COMMIT, and client.release() in withTenant's finally.  An authenticated *)
(* request, or a lease acquisition, goes on to its next transaction.       *)
Commit_KeepsLock(r) ==
  /\ Busy(r) /\ Op(r) = "commit"
  /\ open' = open \ {<<r, "tx">>}
  /\ IF pc[r] = Len(Script[kind[r]]) THEN Finished(r)
     ELSE pc' = [pc EXCEPT ![r] = @ + 1] /\ UNCHANGED <<kind, on>>
  /\ UNCHANGED <<queue, lock>>

Commit(r) ==
  /\ Busy(r) /\ Op(r) = "commit"
  /\ open' = open \ {<<r, "tx">>}
  /\ lock' = FreeLock(r)
  /\ IF pc[r] = Len(Script[kind[r]]) THEN Finished(r)
     ELSE pc' = [pc EXCEPT ![r] = @ + 1] /\ UNCHANGED <<kind, on>>
  /\ UNCHANGED queue

(* A refusal, a replay or a fault ends the request before its script does: *)
(* the nested transaction and the outer one both release in finally.       *)
(* Nothing interrupts a wait: neither the pool nor the lock has a timeout. *)
(* A refusal's audit entry, a transaction of its own afterwards that works *)
(* under no lock, is left out.                                             *)
Leave(r) ==
  /\ InTx(r) /\ ~Waiting(r)
  /\ Op(r) = "lock" => lock[on[r]] = None
  /\ open' = open \ {<<r, "tx">>, <<r, "read">>}
  /\ lock' = FreeLock(r)
  /\ Finished(r)
  /\ UNCHANGED queue
-----------------------------------------------------------------------------
Progress(r) == Connect(r) \/ EndRead(r) \/ Lock(r) \/ Commit(r)

Next ==
  \/ \E r \in Requests : \/ \E h \in Kinds, l \in Locks : Start(r, h, l)
                         \/ Progress(r)
                         \/ Leave(r)
  \/ Grant

Spec == Init /\ [][Next]_vars

(* The server and the database run: a request that can go on does, a free  *)
(* connection is handed to the first in the queue, and PostgreSQL queues   *)
(* the waiters of a lock, so none waits for ever while it keeps coming     *)
(* free.                                                                   *)
Fairness ==
  /\ WF_vars(Grant)
  /\ \A r \in Requests :
       /\ WF_vars(Connect(r)) /\ WF_vars(EndRead(r)) /\ WF_vars(Commit(r))
       /\ SF_vars(Lock(r))

FairSpec == Spec /\ Fairness
-----------------------------------------------------------------------------
(* A connection is in use only by a request that is in the middle of a     *)
(* transaction, and a nested one only while its outer one is open: however *)
(* a request ends, it takes no connection of the pool with it.             *)
NoLeak ==
  /\ Cardinality(open) <= PoolMax
  /\ \A r \in Requests :
       /\ InTx(r) => Busy(r)
       /\ Reading(r) => InTx(r) /\ Op(r) = "read" /\ ~Waiting(r)

(* What keeps a request from making its next step: an empty pool for the   *)
(* head of the queue, a place further back in it, or somebody else's lock. *)
CanStep(r) ==
  /\ Busy(r)
  /\ \/ Reading(r)
     \/ Waiting(r) /\ r = Head(queue) /\ Cardinality(open) < PoolMax
     \/ ~Waiting(r) /\ Op(r) # "lock"
     \/ Op(r) = "lock" /\ lock[on[r]] = None

(* With fewer requests than connections, nested transactions and locks     *)
(* never add up to a standstill: if somebody is being served, somebody can *)
(* go on.                                                                  *)
NotStuck ==
  Cardinality(Requests) < PoolMax =>
    ((\E r \in Requests : Busy(r)) => \E r \in Requests : CanStep(r))

(* ... and then every request is answered, whoever it shares locks with.   *)
EveryRequestAnswered == \A r \in Requests : Busy(r) ~> ~Busy(r)

-----------------------------------------------------------------------------
(* What the documents say and the code does not do.                        *)

(* SC-002 of machine activation: "For a license with S free seats, exactly *)
(* S of any number of concurrent activation attempts succeed".  So every   *)
(* attempt is answered, however many there are.  The code answers none of  *)
(* them once each connection of the pool is held by an attempt that waits  *)
(* for the license lock or for a second connection.                        *)
ConcurrentActivationsFinish ==
  \A r \in Requests : (kind[r] = "activate") ~> ~Busy(r)
=============================================================================
