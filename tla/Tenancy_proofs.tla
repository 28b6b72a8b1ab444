--------------------------- MODULE Tenancy_proofs ---------------------------
(***************************************************************************)
(* What is kept for the tenants.  For every set of users and updates a     *)
(* tenant keeps an active owner; for every set of tenants, operations and  *)
(* quotas a reseller keeps its quota but for the requests that race for    *)
(* its last place; for every set of hosts and calls a host has one holder  *)
(* and only a bound domain is shown; and for every set of producers,       *)
(* batches and sweeps a tenant's usage is counted once, outlives its       *)
(* events and is not passed over.                                          *)
(***************************************************************************)
EXTENDS AdminUsers, Branding, Usage, FiniteSetTheorems,
        WellFoundedInduction, TLAPS

(* An update that is running has the row of its target, which exists, and  *)
(* those of the owners it has counted, who are active owners still.  What  *)
(* it is about to write leaves an owner.                                   *)
UpdateInv(x) ==
  LET run == update[x]
  IN  run.pc # "idle" =>
        /\ run.target \in Users /\ run.account \in Account
        /\ rowLock[run.target] = x /\ user[run.target] # NoOne
        /\ \A u \in run.owners : rowLock[u] = x /\ u \in activeOwners
        /\ run.pc = "write" => \/ run.account = ActiveOwner
                               \/ run.target \notin activeOwners
                               \/ run.owners \ {run.target} # {}

UsersInv == UsersTypeOK /\ (\A x \in Updates : UpdateInv(x)) /\ OwnerRemains

LEMMA InitUsersInv == UsersInit => UsersInv
<1> SUFFICES ASSUME UsersInit PROVE UsersInv
  OBVIOUS
<1>1. ActiveOwner \in Account /\ NoUpdate \in Update
  BY DEF ActiveOwner, Account, Roles, UserStatus, NoUpdate, Update
<1>2. UsersTypeOK
  BY <1>1 DEF UsersInit, UsersTypeOK
<1>3. OwnerRemains
  BY DEF UsersInit, OwnerRemains, activeOwners
<1> QED
  BY <1>2, <1>3 DEF UsersInit, UsersInv, UpdateInv, NoUpdate

(* A new user, of whom no update is under way.                             *)
LEMMA CreateUserStep ==
  ASSUME UsersInv, NEW u \in Users, NEW role \in Roles, NEW status \in UserStatus,
         createUser(u, role, status)
  PROVE  UsersInv'
<1>1. user' = [user EXCEPT ![u] = [role |-> role, status |-> status]] /\ user[u] = NoOne
      /\ UNCHANGED <<rowLock, update>>
  BY DEF createUser
<1>2. UsersTypeOK'
  BY <1>1 DEF UsersInv, UsersTypeOK, Account
<1>3. activeOwners \subseteq activeOwners'
  BY <1>1, NoOneAssumption DEF activeOwners, UsersInv, UsersTypeOK, ActiveOwner, Account, Roles, UserStatus
<1>4. OwnerRemains'
  BY <1>3 DEF UsersInv, OwnerRemains
<1>5. ASSUME NEW x \in Updates PROVE UpdateInv(x)'
  <2>1. update[x].pc # "idle" => update[x].target # u
    BY <1>1 DEF UsersInv, UpdateInv
  <2>2. \A v \in Users \ {u} : user'[v] = user[v]
    BY <1>1 DEF UsersInv, UsersTypeOK
  <2>3. \A v \in Users \ {u} : v \in activeOwners' <=> v \in activeOwners
    BY <2>2 DEF activeOwners
  <2> QED
    BY <1>1, <1>3, <2>1, <2>2, <2>3 DEF UsersInv, UpdateInv
<1> QED
  BY <1>2, <1>4, <1>5 DEF UsersInv

(* Taking a free row takes no row from another update.                     *)
LEMMA LockStep ==
  ASSUME UsersInv, NEW x \in Updates, NEW u \in Users, ~Locked(x, u),
         rowLock' = [rowLock EXCEPT ![u] = x], UNCHANGED user,
         NEW run \in Update, update' = [update EXCEPT ![x] = run], UpdateInv(x)'
  PROVE  UsersInv'
<1>1. UsersTypeOK'
  BY DEF UsersInv, UsersTypeOK
<1>2. activeOwners' = activeOwners
  BY DEF activeOwners
<1>3. ASSUME NEW y \in Updates, y # x PROVE UpdateInv(y)'
  <2>1. update'[y] = update[y]
    BY <1>3 DEF UsersInv, UsersTypeOK
  <2>2. \A v \in Users : rowLock[v] = y => rowLock'[v] = y
    BY <1>3, NoOneAssumption DEF Locked, UsersInv, UsersTypeOK
  <2>3. update[y].owners \subseteq Users
    BY DEF UsersInv, UsersTypeOK, Update
  <2> QED
    BY <1>2, <2>1, <2>2, <2>3 DEF UsersInv, UpdateInv
<1> QED
  BY <1>1, <1>2, <1>3 DEF UsersInv, OwnerRemains

(* An update that was not to remove an owner leaves one where one was.     *)
LEMMA LockUserStep ==
  ASSUME UsersInv, NEW x \in Updates, NEW u \in Users, NEW change \in Changes,
         LockUser(x, u, change)
  PROVE  UsersInv'
<1> DEFINE account == Changed(user[u], change)
           removes == RemovesOwner(user[u], change)
           run == [NoUpdate EXCEPT !.target = u, !.account = account,
                                   !.pc = IF removes THEN "owners" ELSE "write",
                                   !.rows = IF removes THEN activeOwners ELSE {}]
<1>1. /\ ~Locked(x, u) /\ user[u] # NoOne /\ UNCHANGED user
      /\ rowLock' = [rowLock EXCEPT ![u] = x] /\ update' = [update EXCEPT ![x] = run]
  BY DEF LockUser
<1>2. user[u] \in Account
  BY <1>1 DEF UsersInv, UsersTypeOK
<1>3. account \in Account
  BY <1>2 DEF Changed, Changes, Account, Roles, UserStatus
<1>4. /\ run \in Update /\ run.target = u /\ run.account = account /\ run.owners = {}
      /\ run.pc = IF removes THEN "owners" ELSE "write"
  BY <1>3 DEF NoUpdate, Update, activeOwners
<1>5. ~removes => account = ActiveOwner \/ user[u] # ActiveOwner
  BY <1>2, NoOneAssumption DEF RemovesOwner, Changed, Changes, ActiveOwner, Account, Roles, UserStatus
<1>6. activeOwners' = activeOwners
  BY <1>1 DEF activeOwners
<1>7. update'[x] = run /\ rowLock'[u] = x
  BY <1>1 DEF UsersInv, UsersTypeOK
<1>8. UpdateInv(x)'
  <2>1. /\ update'[x].target = u /\ update'[x].account = account /\ update'[x].owners = {}
        /\ update'[x].pc = "write" => ~removes
    BY <1>4, <1>7
  <2>2. ~removes => account = ActiveOwner \/ u \notin activeOwners'
    BY <1>5, <1>6 DEF activeOwners
  <2>3. user'[u] # NoOne
    BY <1>1
  <2> HIDE DEF account, removes
  <2> QED
    BY <1>3, <1>7, <2>1, <2>2, <2>3 DEF UpdateInv
<1> QED
  BY <1>1, <1>4, <1>8, LockStep

LEMMA LockOwnerStep ==
  ASSUME UsersInv, NEW x \in Updates, NEW u \in Users, LockOwner(x, u)
  PROVE  UsersInv'
<1> DEFINE run == [update[x] EXCEPT
                     !.rows = @ \ {u},
                     !.owners = IF u \in activeOwners THEN @ \union {u} ELSE @]
<1>1. /\ ~Locked(x, u) /\ UNCHANGED user /\ update[x].pc = "owners"
      /\ rowLock' = [rowLock EXCEPT ![u] = x] /\ update' = [update EXCEPT ![x] = run]
  BY DEF LockOwner, UsersInv, UsersTypeOK, Update
<1>2. update[x] \in Update
  BY DEF UsersInv, UsersTypeOK
<1>3. /\ run \in Update /\ run.target = update[x].target /\ run.account = update[x].account
      /\ run.pc = "owners"
      /\ run.owners = IF u \in activeOwners THEN update[x].owners \union {u} ELSE update[x].owners
  BY <1>1, <1>2 DEF Update
<1>4. update'[x] = run /\ rowLock'[u] = x /\ \A v \in Users : rowLock[v] = x => rowLock'[v] = x
  BY <1>1 DEF UsersInv, UsersTypeOK
<1>5. activeOwners' = activeOwners /\ update[x].owners \subseteq Users
  BY <1>1, <1>2 DEF activeOwners, Update
<1>6. UpdateInv(x)'
  BY <1>1, <1>3, <1>4, <1>5 DEF UsersInv, UpdateInv
<1> QED
  BY <1>1, <1>3, <1>6, LockStep

(* The end of an update frees its own rows.                                *)
LEMMA FinishStep ==
  ASSUME UsersInv, NEW x \in Updates, Finish(x)
  PROVE  /\ rowLock' \in [Users -> Updates \union {NoOne}]
         /\ update' \in [Updates -> Update] /\ update'[x].pc = "idle"
         /\ \A y \in Updates \ {x} : update'[y] = update[y]
         /\ \A y \in Updates \ {x}, u \in Users : rowLock[u] = y => rowLock'[u] = y
<1>1. NoUpdate \in Update /\ NoUpdate.pc = "idle"
  BY DEF NoUpdate, Update
<1> QED
  BY <1>1 DEF Finish, Release, UsersInv, UsersTypeOK

(* The write: what it takes from the tenant's owners is not all of them.   *)
LEMMA WriteUserStep ==
  ASSUME UsersInv, NEW x \in Updates, WriteUser(x)
  PROVE  UsersInv'
<1> DEFINE u == update[x].target
           account == update[x].account
<1>1. /\ update[x].pc = "write" /\ user' = [user EXCEPT ![u] = account] /\ Finish(x)
      /\ UpdateInv(x) /\ u \in Users /\ account \in Account /\ rowLock[u] = x
      /\ update[x].owners \subseteq Users
  BY DEF WriteUser, UsersInv, UpdateInv, UsersTypeOK, Update
<1>2. UsersTypeOK'
  BY <1>1, FinishStep DEF UsersInv, UsersTypeOK
<1>3. user'[u] = account /\ \A v \in Users \ {u} : user'[v] = user[v]
  BY <1>1 DEF UsersInv, UsersTypeOK
<1>4. \A v \in Users \ {u} : v \in activeOwners' <=> v \in activeOwners
  BY <1>3 DEF activeOwners
<1>5. OwnerRemains'
  <2>1. CASE account = ActiveOwner
    BY <1>1, <1>3, <2>1 DEF OwnerRemains, activeOwners
  <2>2. CASE u \notin activeOwners
    BY <1>4, <2>2 DEF UsersInv, OwnerRemains, activeOwners
  <2>3. CASE update[x].owners \ {u} # {}
    BY <1>1, <1>4, <2>3 DEF UpdateInv, OwnerRemains
  <2> QED
    BY <1>1, <2>1, <2>2, <2>3 DEF UpdateInv
<1>6. ASSUME NEW y \in Updates, y # x PROVE UpdateInv(y)'
  <2>1. update'[y] = update[y] /\ \A v \in Users : rowLock[v] = y => rowLock'[v] = y
    BY <1>1, <1>6, FinishStep
  <2>2. update[y].pc # "idle" => update[y].target # u /\ \A v \in update[y].owners : v # u
    BY <1>1, <1>6 DEF UsersInv, UpdateInv
  <2>3. update[y].owners \subseteq Users
    BY DEF UsersInv, UsersTypeOK, Update
  <2> QED
    BY <1>3, <1>4, <2>1, <2>2, <2>3 DEF UsersInv, UpdateInv
<1>7. UpdateInv(x)'
  BY <1>1, FinishStep DEF UpdateInv
<1> QED
  BY <1>2, <1>5, <1>6, <1>7 DEF UsersInv

(* An update that decides to go on has counted another owner; one that     *)
(* stops changes nothing.                                                  *)
LEMMA StopOrGoOn ==
  ASSUME UsersInv, NEW x \in Updates, DecideOwners(x) \/ AbortUpdate(x)
  PROVE  UsersInv'
<1>1. activeOwners' = activeOwners /\ UNCHANGED user
  BY DEF DecideOwners, AbortUpdate, activeOwners
<1>2. CASE Finish(x)
  <2>1. ASSUME NEW y \in Updates, y # x PROVE UpdateInv(y)'
    <3>1. update'[y] = update[y] /\ \A v \in Users : rowLock[v] = y => rowLock'[v] = y
      BY <1>2, <2>1, FinishStep
    <3>2. update[y].owners \subseteq Users
      BY DEF UsersInv, UsersTypeOK, Update
    <3> QED
      BY <1>1, <3>1, <3>2 DEF UsersInv, UpdateInv
  <2>2. UpdateInv(x)'
    BY <1>2, FinishStep DEF UpdateInv
  <2> QED
    BY <1>1, <1>2, <2>1, <2>2, FinishStep DEF UsersInv, UsersTypeOK, OwnerRemains
<1>3. CASE /\ update[x].pc = "owners" /\ ~LastOwner(x)
           /\ update' = [update EXCEPT ![x].pc = "write"] /\ UNCHANGED rowLock
  <2>1. update[x] \in Update /\ UpdateInv(x)
    BY DEF UsersInv, UsersTypeOK
  <2>2. /\ update' \in [Updates -> Update] /\ update'[x].pc = "write"
        /\ update'[x].target = update[x].target /\ update'[x].account = update[x].account
        /\ update'[x].owners = update[x].owners
        /\ \A y \in Updates \ {x} : update'[y] = update[y]
    BY <1>3, <2>1 DEF UsersInv, UsersTypeOK, Update
  <2>3. UpdateInv(x)'
    BY <1>1, <1>3, <2>1, <2>2 DEF UpdateInv, LastOwner
  <2> QED
    BY <1>1, <1>3, <2>2, <2>3 DEF UsersInv, UsersTypeOK, UpdateInv, OwnerRemains
<1> QED
  BY <1>2, <1>3 DEF DecideOwners, AbortUpdate

LEMMA NextUsersInv == UsersInv /\ [UsersNext]_usersVars => UsersInv'
<1> SUFFICES ASSUME UsersInv, [UsersNext]_usersVars PROVE UsersInv'
  OBVIOUS
<1>1. CASE UNCHANGED usersVars
  BY <1>1 DEF usersVars, UsersInv, UsersTypeOK, UpdateInv, OwnerRemains, activeOwners
<1> QED
  BY <1>1, CreateUserStep, LockUserStep, LockOwnerStep, StopOrGoOn, WriteUserStep
     DEF UsersNext, UpdateStep

(* Whichever owners demote or deactivate one another at the same time, the *)
(* tenant keeps an active owner.                                           *)
THEOREM OwnersRemain == UsersSpec => []OwnerRemains
<1>1. UsersInv => OwnerRemains
  BY DEF UsersInv
<1> QED
  BY <1>1, InitUsersInv, NextUsersInv, PTL DEF UsersSpec
-----------------------------------------------------------------------------
(* A request that will put its tenant under p whatever it finds, and one   *)
(* that will make a new tenant for p.                                      *)
LinksTo(o, p) ==
  o.to = p /\ (o.pc \in {"link", "move"} \/ (o.pc \in {"source", "dest"} /\ o.source = p))
MakesFor(o, p) == o.to = p /\ o.pc = "provision"

Linking(p) == {r \in Operations : LinksTo(op[r], p)}
Making(p) == {r \in Operations : MakesFor(op[r], p)}
Coming(p) == {op[r].tenant : r \in Linking(p)}
Load(p) == SubTenants(p) \union Coming(p)

(* What a request past its checks relies on.                               *)
OpOK(o) ==
  /\ o.pc \in {"create", "already", "parent"} => o.tenant \in Tenants /\ o.quota \in Quotas
  /\ o.pc \in {"link", "source", "dest", "room", "move"} => o.tenant \in tenant
  /\ o.pc \in {"count", "provision", "link", "room", "status"} =>
       o.to \in Tenants /\ reseller[o.to] # None
  /\ o.pc = "dest" => o.to \in Tenants
  /\ o.pc = "move" /\ o.to # None => o.to \in Tenants /\ reseller[o.to] # None
  /\ o.pc \in {"count", "room"} => o.quota \in Quotas /\ o.quota <= peak[o.to]
  /\ o.pc = "status" => o.status \in {"active", "suspended", "offboarding"}

RowsOK ==
  /\ \A p \in Tenants : reseller[p] # None => reseller[p].quota <= peak[p]
  /\ \A t \in Tenants \ tenant : parent[t] = None

(* The heart: the tenants under p, those that will be whatever happens and *)
(* those still to be made were let in by a count that found room, all but  *)
(* as many as there are requests.                                          *)
Reserved(p) ==
  IF reseller[p] = None THEN Load(p) = {} /\ Making(p) = {}
  ELSE /\ IsFiniteSet(Load(p))
       /\ Cardinality(Load(p)) + Cardinality(Making(p)) <= peak[p] - 1 + Cardinality(Operations)

QuotaInv ==
  /\ ResellerTypeOK /\ RowsOK
  /\ \A r \in Operations : OpOK(op[r])
  /\ \A p \in Tenants : Reserved(p)

LEMMA Bounds ==
  /\ Quotas \subseteq Nat /\ IsFiniteSet(Operations) /\ Cardinality(Operations) \in Nat
  /\ \A r \in Operations : Cardinality(Operations) >= 1
<1>1. Quotas \subseteq Nat /\ IsFiniteSet(Operations) /\ Cardinality(Operations) \in Nat
  BY ResellerAssumption, FS_CardinalityType
<1>2. ASSUME NEW r \in Operations PROVE Cardinality(Operations) >= 1
  BY <1>1, FS_EmptySet
<1> QED
  BY <1>1, <1>2

(* A value of peak, before or after a step.                                *)
LEMMA PeakRange ==
  ASSUME NEW f \in [Tenants -> Quotas \union {0}], NEW p \in Tenants
  PROVE  f[p] \in Nat
<1>1. Quotas \union {0} \subseteq Nat
  BY Bounds
<1>2. f[p] \in Quotas \union {0}
  OBVIOUS
<1> QED
  BY <1>1, <1>2

LEMMA InitQuotaInv == ResellerInit => QuotaInv
<1> SUFFICES ASSUME ResellerInit PROVE QuotaInv
  OBVIOUS
<1>1. ResellerTypeOK
  BY DEF ResellerInit, ResellerTypeOK, Quiet, Operation
<1>2. \A r \in Operations : op[r] = Quiet
  BY DEF ResellerInit
<1>3. ASSUME NEW p \in Tenants PROVE Reserved(p)
  BY <1>2, NoResellerAssumption
     DEF ResellerInit, Reserved, Load, SubTenants, Coming, Linking, LinksTo, Making, MakesFor, Quiet
<1> QED
  BY <1>1, <1>2, <1>3 DEF ResellerInit, QuotaInv, RowsOK, OpOK, Quiet

(* What was reserved for p stays enough while p's load does not grow.      *)
LEMMA LoadShrinks ==
  ASSUME QuotaInv, NEW p \in Tenants, ResellerTypeOK',
         Load(p)' \subseteq Load(p), Making(p)' \subseteq Making(p),
         reseller'[p] = None <=> reseller[p] = None, peak[p] <= peak'[p]
  PROVE  Reserved(p)'
<1>1. CASE reseller[p] = None
  BY <1>1 DEF QuotaInv, Reserved
<1>2. CASE reseller[p] # None
  <2>1. /\ IsFiniteSet(Load(p)') /\ Cardinality(Load(p)') <= Cardinality(Load(p))
        /\ Cardinality(Load(p)) \in Nat /\ Cardinality(Load(p)') \in Nat
    BY <1>2, FS_Subset, FS_CardinalityType DEF QuotaInv, Reserved
  <2>2. IsFiniteSet(Making(p))
    BY Bounds, FS_Subset DEF Making
  <2>3. /\ Cardinality(Making(p)') <= Cardinality(Making(p))
        /\ Cardinality(Making(p)) \in Nat /\ Cardinality(Making(p)') \in Nat
    BY <2>2, FS_Subset, FS_CardinalityType
  <2>4. peak[p] \in Nat /\ peak'[p] \in Nat
    BY PeakRange DEF QuotaInv, ResellerTypeOK
  <2> QED
    BY <1>2, <2>1, <2>3, <2>4, Bounds DEF QuotaInv, Reserved
<1> QED
  BY <1>1, <1>2

(* Rows are kept, quotas in force only make peaks higher.                  *)
Grows ==
  /\ tenant \subseteq tenant'
  /\ \A p \in Tenants : reseller[p] # None => reseller'[p] # None /\ peak[p] <= peak'[p]

LEMMA OpStays ==
  ASSUME QuotaInv, ResellerTypeOK', Grows, NEW o \in Operation, OpOK(o)
  PROVE  OpOK(o)'
<1>1. \A p \in Tenants : peak[p] \in Nat /\ peak'[p] \in Nat
  BY PeakRange DEF QuotaInv, ResellerTypeOK
<1>2. o.quota \in Quotas => o.quota \in Nat
  BY Bounds
<1> QED
  BY <1>1, <1>2 DEF OpOK, Grows

(* A step of one request that writes no table.                             *)
LEMMA OpOnly ==
  ASSUME QuotaInv, NEW r \in Operations, NEW o \in Operation, Go(r, o),
         UNCHANGED <<tenant, reseller, parent, peak>>, OpOK(o),
         \A p \in Tenants : LinksTo(o, p) => o.tenant \in Load(p),
         \A p \in Tenants : MakesFor(o, p) => MakesFor(op[r], p)
  PROVE  QuotaInv'
<1>1. /\ op' \in [Operations -> Operation] /\ op'[r] = o
      /\ \A s \in Operations \ {r} : op'[s] = op[s]
  BY DEF Go, QuotaInv, ResellerTypeOK
<1>2. ResellerTypeOK' /\ RowsOK'
  BY <1>1 DEF QuotaInv, ResellerTypeOK, RowsOK
<1>3. \A s \in Operations : OpOK(op[s])'
  BY <1>1 DEF QuotaInv, OpOK
<1>4. ASSUME NEW p \in Tenants PROVE Reserved(p)'
  <2>1. SubTenants(p)' = SubTenants(p)
    BY DEF SubTenants
  <2>2. Coming(p)' \subseteq Load(p)
    <3> SUFFICES ASSUME NEW s \in Operations, LinksTo(op'[s], p) PROVE op'[s].tenant \in Load(p)
      BY DEF Coming, Linking
    <3> QED
      BY <1>1 DEF Load, Coming, Linking
  <2>3. Making(p)' \subseteq Making(p)
    BY <1>1 DEF Making
  <2>4. Load(p)' \subseteq Load(p) /\ peak[p] <= peak'[p]
    <3>1. peak[p] \in Nat
      BY PeakRange DEF QuotaInv, ResellerTypeOK
    <3> QED
      BY <2>1, <2>2, <3>1 DEF Load
  <2> QED
    BY <1>2, <2>3, <2>4, LoadShrinks
<1> QED
  BY <1>2, <1>3, <1>4 DEF QuotaInv

LEMMA QuietOK ==
  /\ Quiet \in Operation /\ OpOK(Quiet)
  /\ \A p : ~LinksTo(Quiet, p) /\ ~MakesFor(Quiet, p)
BY DEF Quiet, Operation, OpOK, LinksTo, MakesFor

(* The handler of r gives up, or its process stops.                        *)
LEMMA GiveUp ==
  ASSUME QuotaInv, NEW r \in Operations, End(r), UNCHANGED <<tenant, reseller, parent, peak>>
  PROVE  QuotaInv'
BY QuietOK, OpOnly DEF End

(* The requests begin: a move that leaves its tenant where it is has it in *)
(* the load of its reseller from then on.                                  *)
LEMMA BeginStep ==
  ASSUME QuotaInv, NEW r \in Operations,
         \/ \E t \in Tenants, q \in Quotas : OnboardExisting(r, t, q)
         \/ \E t \in Tenants : ProvisionRead(r, t)
         \/ \E p \in Tenants, to \in {"active", "suspended", "offboarding"} : StatusRead(r, p, to)
         \/ \E t \in Tenants, to \in Tenants \union {None} : MoveRead(r, t, to)
  PROVE  QuotaInv'
<1>0. ResellerTypeOK /\ RowsOK
  BY DEF QuotaInv
<1>1. ASSUME NEW t \in Tenants, NEW q \in Quotas, OnboardExisting(r, t, q) PROVE QuotaInv'
  <2> DEFINE o == [Quiet EXCEPT !.pc = "already", !.tenant = t, !.quota = q]
  <2>1. o \in Operation /\ o.pc = "already" /\ o.tenant = t /\ o.quota = q
    BY DEF Quiet, Operation
  <2>2. OpOK(o) /\ \A p : ~LinksTo(o, p) /\ ~MakesFor(o, p)
    BY <2>1 DEF OpOK, LinksTo, MakesFor
  <2> QED
    BY <1>1, <2>1, <2>2, OpOnly DEF OnboardExisting
<1>2. ASSUME NEW p \in Tenants, ProvisionRead(r, p) PROVE QuotaInv'
  <2> DEFINE o == [Quiet EXCEPT !.pc = "count", !.to = p, !.quota = reseller[p].quota]
  <2>1. reseller[p] # None /\ reseller[p].quota \in Quotas /\ reseller[p].quota <= peak[p]
    BY <1>0, <1>2 DEF ProvisionRead, Resellers, ResellerTypeOK, ResellerRow, RowsOK
  <2>2. o \in Operation /\ o.pc = "count" /\ o.to = p /\ o.quota = reseller[p].quota
    BY <2>1 DEF Quiet, Operation
  <2>3. OpOK(o) /\ \A c : ~LinksTo(o, c) /\ ~MakesFor(o, c)
    BY <2>1, <2>2 DEF OpOK, LinksTo, MakesFor
  <2> QED
    BY <1>2, <2>2, <2>3, OpOnly DEF ProvisionRead
<1>3. ASSUME NEW p \in Tenants, NEW to \in {"active", "suspended", "offboarding"},
             StatusRead(r, p, to)
      PROVE  QuotaInv'
  <2> DEFINE o == [Quiet EXCEPT !.pc = "status", !.to = p, !.status = to]
  <2>1. o \in Operation /\ o.pc = "status" /\ o.to = p /\ o.status = to
    BY DEF Quiet, Operation
  <2>2. reseller[p] # None
    BY <1>3 DEF StatusRead, Resellers
  <2>3. OpOK(o) /\ \A c : ~LinksTo(o, c) /\ ~MakesFor(o, c)
    BY <2>1, <2>2 DEF OpOK, LinksTo, MakesFor
  <2> QED
    BY <1>3, <2>1, <2>3, OpOnly DEF StatusRead
<1>4. ASSUME NEW t \in Tenants, NEW to \in Tenants \union {None}, MoveRead(r, t, to)
      PROVE  QuotaInv'
  <2> DEFINE pc == IF parent[t] # None THEN "source" ELSE IF to # None THEN "dest" ELSE "move"
             o == [Quiet EXCEPT !.tenant = t, !.to = to, !.source = parent[t], !.pc = pc]
  <2>1. /\ o \in Operation /\ o.pc = pc /\ o.to = to /\ o.tenant = t /\ o.source = parent[t]
    BY <1>0 DEF Quiet, Operation, ResellerTypeOK
  <2>2. t \in tenant
    BY <1>4 DEF MoveRead
  <2>3. OpOK(o)
    BY <2>1, <2>2 DEF OpOK
  <2>4. ASSUME NEW p \in Tenants PROVE ~MakesFor(o, p) /\ (LinksTo(o, p) => t \in SubTenants(p))
    BY <2>1, <2>2, NoResellerAssumption DEF LinksTo, MakesFor, SubTenants
  <2>5. Go(r, o) /\ UNCHANGED <<tenant, reseller, parent, peak>>
    BY <1>4 DEF MoveRead
  <2>6. \A p \in Tenants : LinksTo(o, p) => o.tenant \in Load(p)
    BY <2>1, <2>4 DEF Load
  <2> HIDE DEF o
  <2> QED
    BY <2>1, <2>3, <2>4, <2>5, <2>6, OpOnly
<1> QED
  BY <1>1, <1>2, <1>3, <1>4

(* The checks that only read: each passes on what it was given.            *)
LEMMA CheckStep ==
  ASSUME QuotaInv, NEW r \in Operations,
         \/ OnboardAlready(r) \/ OnboardParent(r) \/ MoveSource(r) \/ MoveDestination(r)
  PROVE  QuotaInv'
<1>0. /\ op[r] \in Operation /\ OpOK(op[r]) /\ UNCHANGED <<tenant, reseller, parent, peak>>
      /\ ResellerTypeOK /\ RowsOK
  BY DEF QuotaInv, ResellerTypeOK, OnboardAlready, OnboardParent, MoveSource, MoveDestination
<1>1. ASSUME NEW pc \in {"parent", "create"}, Proceed(r, pc), op[r].pc \in {"already", "parent"}
      PROVE  QuotaInv'
  <2> DEFINE o == [op[r] EXCEPT !.pc = pc]
  <2>1. o \in Operation /\ o.pc = pc /\ o.tenant = op[r].tenant /\ o.quota = op[r].quota
    BY <1>0 DEF Operation
  <2>2. OpOK(o) /\ \A p : ~LinksTo(o, p) /\ ~MakesFor(o, p)
    BY <1>0, <1>1, <2>1 DEF OpOK, LinksTo, MakesFor
  <2> QED
    BY <1>0, <1>1, <2>1, <2>2, OpOnly DEF Proceed
<1>2. ASSUME MoveSource(r), ~End(r) PROVE QuotaInv'
  <2> DEFINE pc == IF op[r].to = None THEN "move" ELSE "dest"
             o == [op[r] EXCEPT !.pc = pc]
  <2>1. Go(r, o) /\ op[r].pc = "source"
    BY <1>2 DEF MoveSource, Proceed, At
  <2>2. /\ o \in Operation /\ o.pc = pc /\ o.tenant = op[r].tenant /\ o.to = op[r].to
        /\ o.source = op[r].source
    BY <1>0 DEF Operation
  <2>3. OpOK(o)
    BY <1>0, <2>1, <2>2 DEF OpOK, Operation
  <2>4. ASSUME NEW p \in Tenants PROVE ~MakesFor(o, p) /\ (LinksTo(o, p) => LinksTo(op[r], p))
    BY <2>1, <2>2, NoResellerAssumption DEF LinksTo, MakesFor
  <2> QED
    BY <1>0, <2>1, <2>2, <2>3, <2>4, OpOnly DEF Load, Coming, Linking
<1>3. ASSUME MoveDestination(r), ~End(r) PROVE QuotaInv'
  <2> DEFINE dest == reseller[op[r].to]
             pc == IF op[r].to = op[r].source THEN "move" ELSE "room"
             o == [op[r] EXCEPT !.pc = pc, !.quota = dest.quota]
  <2>1. Go(r, o) /\ op[r].pc = "dest" /\ dest # None /\ op[r].to \in Tenants
    BY <1>0, <1>3 DEF MoveDestination, Receives, At, OpOK
  <2>2. dest.quota \in Quotas /\ dest.quota <= peak[op[r].to]
    BY <1>0, <2>1 DEF ResellerTypeOK, ResellerRow, RowsOK
  <2>3. /\ o \in Operation /\ o.pc = pc /\ o.tenant = op[r].tenant /\ o.to = op[r].to
        /\ o.source = op[r].source /\ o.quota = dest.quota
    BY <1>0, <2>2 DEF Operation
  <2>4. OpOK(o)
    BY <1>0, <2>1, <2>2, <2>3 DEF OpOK
  <2>5. ASSUME NEW p \in Tenants PROVE ~MakesFor(o, p) /\ (LinksTo(o, p) => LinksTo(op[r], p))
    BY <2>1, <2>3 DEF LinksTo, MakesFor
  <2> QED
    BY <1>0, <2>1, <2>3, <2>4, <2>5, OpOnly DEF Load, Coming, Linking
<1>4. ASSUME End(r) PROVE QuotaInv'
  BY <1>0, <1>4, GiveUp
<1> QED
  BY <1>1, <1>2, <1>3, <1>4 DEF OnboardAlready, OnboardParent, MoveSource, MoveDestination, At

(* A count that finds room lets one more in: however many requests link to *)
(* p or make a tenant for it, the bound holds.                             *)
LEMMA Admits ==
  ASSUME NEW S, NEW L \in SUBSET Operations, NEW M \in SUBSET Operations, L \intersect M = {},
         NEW f \in [Operations -> Tenants \union {None}],
         IsFiniteSet(S), NEW n \in Int, Cardinality(S) <= n
  PROVE  LET T == S \union {f[r] : r \in L}
         IN  IsFiniteSet(T) /\ Cardinality(T) + Cardinality(M) <= n + Cardinality(Operations)
<1> DEFINE C == {f[r] : r \in L}
           g == [r \in L |-> f[r]]
<1>1. IsFiniteSet(L) /\ IsFiniteSet(M)
  BY Bounds, FS_Subset
<1>2. g \in Surjection(L, C)
  BY DEF Surjection
<1>3. IsFiniteSet(C) /\ Cardinality(C) <= Cardinality(L)
  BY <1>1, <1>2, FS_Surjection
<1>4. /\ IsFiniteSet(S \union C)
      /\ Cardinality(S \union C) = Cardinality(S) + Cardinality(C) - Cardinality(S \intersect C)
  BY <1>3, FS_Union
<1>5. IsFiniteSet(S \intersect C)
  BY <1>3, FS_Intersection
<1>6. IsFiniteSet(L \union M) /\ Cardinality(L \union M) = Cardinality(L) + Cardinality(M)
  <2>1. /\ IsFiniteSet(L \union M)
        /\ Cardinality(L \union M) = Cardinality(L) + Cardinality(M) - Cardinality(L \intersect M)
    BY <1>1, FS_Union
  <2>2. Cardinality(L \intersect M) = 0
    BY FS_EmptySet
  <2>3. Cardinality(L) \in Nat /\ Cardinality(M) \in Nat
    BY <1>1, FS_CardinalityType
  <2> QED
    BY <2>1, <2>2, <2>3
<1>7. Cardinality(L \union M) <= Cardinality(Operations)
  BY Bounds, FS_Subset
<1>8. /\ Cardinality(S) \in Nat /\ Cardinality(C) \in Nat /\ Cardinality(L) \in Nat
      /\ Cardinality(M) \in Nat /\ Cardinality(S \intersect C) \in Nat
      /\ Cardinality(S \union C) \in Nat
  BY <1>1, <1>3, <1>4, <1>5, FS_CardinalityType
<1> QED
  BY <1>3, <1>4, <1>6, <1>7, <1>8, Bounds

(* A step that writes a table, and ends or moves on the request r.         *)
LEMMA WriteStep ==
  ASSUME QuotaInv, NEW r \in Operations, NEW o \in Operation, Go(r, o), OpOK(o)',
         ResellerTypeOK', RowsOK', Grows, \A p \in Tenants : Reserved(p)'
  PROVE  QuotaInv'
<1>1. \A s \in Operations \ {r} : op'[s] = op[s] /\ op[s] \in Operation
  BY DEF Go, QuotaInv, ResellerTypeOK
<1>2. op'[r] = o
  BY DEF Go, QuotaInv, ResellerTypeOK
<1>3. ASSUME NEW s \in Operations PROVE OpOK(op[s])'
  <2>1. CASE s = r
    BY <1>2, <2>1 DEF OpOK
  <2>2. CASE s # r
    <3>1. OpOK(op[s]) /\ op'[s] = op[s] /\ op[s] \in Operation
      BY <1>1, <2>2 DEF QuotaInv
    <3> QED
      BY <3>1, OpStays DEF OpOK
  <2> QED
    BY <2>1, <2>2
<1> QED
  BY <1>3 DEF QuotaInv

LEMMA CountStep ==
  ASSUME QuotaInv, NEW r \in Operations, ProvisionCount(r) \/ MoveCount(r)
  PROVE  QuotaInv'
<1>0. /\ op[r] \in Operation /\ OpOK(op[r]) /\ UNCHANGED <<tenant, reseller, parent, peak>>
      /\ op[r].pc \in {"count", "room"}
  BY DEF QuotaInv, ResellerTypeOK, ProvisionCount, MoveCount, At
<1> DEFINE to == op[r].to
           pc == IF op[r].pc = "count" THEN "provision" ELSE "move"
<1>1. CASE End(r)
  BY <1>0, <1>1, GiveUp
<1>2. CASE ~End(r)
  <2>1. Go(r, [op[r] EXCEPT !.pc = pc]) /\ ~QuotaExceeded(countSubTenants(to), op[r].quota)
    BY <1>2 DEF ProvisionCount, MoveCount, Proceed, At
  <2>2. to \in Tenants /\ reseller[to] # None /\ op[r].quota \in Nat /\ op[r].quota <= peak[to]
        /\ peak[to] \in Nat
    BY <1>0, Bounds, PeakRange DEF OpOK, QuotaInv, ResellerTypeOK
  <2>3. PICK o \in Operation : Go(r, o) /\ o.pc = pc /\ o.to = to /\ o.tenant = op[r].tenant
    <3>1. LET o == [op[r] EXCEPT !.pc = pc]
          IN  o \in Operation /\ o.pc = pc /\ o.to = to /\ o.tenant = op[r].tenant
      BY <1>0 DEF Operation
    <3> QED
      BY <2>1, <3>1
  <2>4. /\ op' \in [Operations -> Operation] /\ op'[r] = o
        /\ \A s \in Operations \ {r} : op'[s] = op[s]
    BY <2>3 DEF Go, QuotaInv, ResellerTypeOK
  <2>5. OpOK(o)
    BY <1>0, <2>2, <2>3 DEF OpOK
  <2>6. ResellerTypeOK' /\ RowsOK' /\ Grows
    <3>1. \A p \in Tenants : peak[p] \in Nat
      BY PeakRange DEF QuotaInv, ResellerTypeOK
    <3> QED
      BY <1>0, <2>4, <3>1 DEF QuotaInv, ResellerTypeOK, RowsOK, Grows
  <2>7. ASSUME NEW p \in Tenants, p # to PROVE Reserved(p)'
    <3>1. SubTenants(p)' = SubTenants(p) /\ ~LinksTo(o, p) /\ ~MakesFor(o, p)
      BY <1>0, <2>3, <2>7 DEF SubTenants, LinksTo, MakesFor
    <3>2. Coming(p)' \subseteq Coming(p) /\ Making(p)' \subseteq Making(p)
      BY <2>4, <3>1 DEF Coming, Linking, Making
    <3>3. peak[p] <= peak'[p] /\ (reseller'[p] = None <=> reseller[p] = None)
      BY <1>0, PeakRange DEF QuotaInv, ResellerTypeOK
    <3>4. Load(p)' \subseteq Load(p)
      BY <3>1, <3>2 DEF Load
    <3> QED
      BY <2>6, <3>2, <3>3, <3>4, LoadShrinks
  <2>8. ASSUME NEW p \in Tenants, p = to PROVE Reserved(p)'
    <3> DEFINE S == SubTenants(p)
               L == {s \in Operations : LinksTo(op'[s], p)}
               M == {s \in Operations : MakesFor(op'[s], p)}
               f == [s \in Operations |-> op'[s].tenant]
               n == peak[p] - 1
    <3>1. IsFiniteSet(S) /\ Cardinality(S) \in Nat
      <4>1. IsFiniteSet(Load(p))
        BY <2>2, <2>8 DEF QuotaInv, Reserved
      <4> QED
        BY <4>1, FS_Subset, FS_CardinalityType DEF Load
    <3>2. Cardinality(S) <= n /\ n \in Int
      BY <2>1, <2>2, <2>8, <3>1 DEF QuotaExceeded, countSubTenants
    <3>3. L \in SUBSET Operations /\ M \in SUBSET Operations /\ L \intersect M = {}
      BY DEF LinksTo, MakesFor
    <3>4. f \in [Operations -> Tenants \union {None}]
      BY <2>4 DEF Operation
    <3>5. /\ IsFiniteSet(S \union {f[s] : s \in L})
          /\ Cardinality(S \union {f[s] : s \in L}) + Cardinality(M) <= n + Cardinality(Operations)
      <4> HIDE DEF S, L, M, f, n
      <4> QED
        BY <3>1, <3>2, <3>3, <3>4, Admits
    <3>6. S \union {f[s] : s \in L} = Load(p)' /\ M = Making(p)'
      BY <1>0 DEF Load, SubTenants, Coming, Linking, Making
    <3> QED
      BY <1>0, <2>2, <2>8, <3>5, <3>6 DEF Reserved
  <2>9. OpOK(o)'
    BY <2>3, <2>5, <2>6, OpStays
  <2>10. \A p \in Tenants : Reserved(p)'
    BY <2>7, <2>8
  <2> QED
    BY <2>3, <2>6, <2>9, <2>10, WriteStep
<1> QED
  BY <1>1, <1>2

(* A tenant that is new is under none.                                     *)
LEMMA NewTenant ==
  ASSUME QuotaInv, NEW t \in Tenants, provisionTenant(t), UNCHANGED parent,
         NEW p \in Tenants
  PROVE  SubTenants(p)' = SubTenants(p)
BY NoResellerAssumption DEF provisionTenant, QuotaInv, RowsOK, SubTenants

(* The two steps that make a tenant: one to be a reseller, one whose place *)
(* under its reseller is already reserved.                                 *)
LEMMA MakeStep ==
  ASSUME QuotaInv, NEW r \in Operations, NEW t \in Tenants,
         (\E q \in Quotas : OnboardNew(r, t, q)) \/ ProvisionTenant(r, t)
  PROVE  QuotaInv'
<1>0. /\ provisionTenant(t) /\ UNCHANGED <<reseller, parent, peak>>
      /\ tenant' = tenant \union {t} /\ t \notin tenant
      /\ op[r] \in Operation /\ OpOK(op[r]) /\ ResellerTypeOK /\ RowsOK
  BY DEF OnboardNew, ProvisionTenant, provisionTenant, QuotaInv, ResellerTypeOK
<1>1. \A p \in Tenants : SubTenants(p)' = SubTenants(p)
  BY <1>0, NewTenant
<1>2. Grows /\ RowsOK'
  <2>1. \A p \in Tenants : peak[p] \in Nat
    BY <1>0, PeakRange DEF ResellerTypeOK
  <2> QED
    BY <1>0, <2>1 DEF Grows, RowsOK
<1>3. ASSUME NEW o \in Operation, Go(r, o)
      PROVE  /\ ResellerTypeOK' /\ op'[r] = o /\ op' \in [Operations -> Operation]
             /\ \A s \in Operations \ {r} : op'[s] = op[s]
  BY <1>0, <1>3 DEF Go, ResellerTypeOK
<1>4. ASSUME NEW q \in Quotas, OnboardNew(r, t, q) PROVE QuotaInv'
  <2>1. PICK o \in Operation : Go(r, o) /\ o.pc = "create" /\ o.tenant = t /\ o.quota = q
    <3>1. LET o == [Quiet EXCEPT !.pc = "create", !.tenant = t, !.quota = q]
          IN  o \in Operation /\ o.pc = "create" /\ o.tenant = t /\ o.quota = q
      BY DEF Quiet, Operation
    <3> QED
      BY <1>4, <3>1 DEF OnboardNew
  <2>2. OpOK(o)' /\ \A p : ~LinksTo(o, p) /\ ~MakesFor(o, p)
    BY <2>1 DEF OpOK, LinksTo, MakesFor
  <2>3. ASSUME NEW p \in Tenants PROVE Reserved(p)'
    <3>1. Coming(p)' \subseteq Coming(p) /\ Making(p)' \subseteq Making(p)
      BY <1>3, <2>1, <2>2 DEF Coming, Linking, Making
    <3>2. peak[p] \in Nat
      BY <1>0, PeakRange DEF ResellerTypeOK
    <3> QED
      BY <1>0, <1>1, <1>3, <2>1, <3>1, <3>2, LoadShrinks DEF Load
  <2> QED
    BY <1>2, <1>3, <2>1, <2>2, <2>3, WriteStep
<1>5. ASSUME ProvisionTenant(r, t) PROVE QuotaInv'
  <2>0. op[r].pc = "provision" /\ op[r].to \in Tenants /\ reseller[op[r].to] # None
    BY <1>0, <1>5 DEF ProvisionTenant, At, OpOK
  <2>1. PICK o \in Operation : Go(r, o) /\ o.pc = "link" /\ o.tenant = t /\ o.to = op[r].to
    <3>1. LET o == [op[r] EXCEPT !.pc = "link", !.tenant = t]
          IN  o \in Operation /\ o.pc = "link" /\ o.tenant = t /\ o.to = op[r].to
      BY <1>0 DEF Operation
    <3> QED
      BY <1>5, <3>1 DEF ProvisionTenant
  <2>2. OpOK(o)'
    BY <1>0, <2>0, <2>1 DEF OpOK
  <2>3. ASSUME NEW p \in Tenants, p # op[r].to PROVE Reserved(p)'
    <3>1. ~LinksTo(o, p) /\ ~MakesFor(o, p)
      BY <2>1, <2>3 DEF LinksTo, MakesFor
    <3>2. Coming(p)' \subseteq Coming(p) /\ Making(p)' \subseteq Making(p)
      BY <1>3, <2>1, <3>1 DEF Coming, Linking, Making
    <3>3. peak[p] \in Nat
      BY <1>0, PeakRange DEF ResellerTypeOK
    <3> QED
      BY <1>0, <1>1, <1>3, <2>1, <3>2, <3>3, LoadShrinks DEF Load
  <2>4. ASSUME NEW p \in Tenants, p = op[r].to PROVE Reserved(p)'
    <3>1. MakesFor(op[r], p) /\ ~MakesFor(o, p)
      BY <2>0, <2>1, <2>4 DEF MakesFor
    <3>2. Coming(p)' \subseteq Coming(p) \union {t} /\ Making(p)' = Making(p) \ {r} /\ r \in Making(p)
      BY <1>3, <2>1, <3>1 DEF Coming, Linking, Making
    <3>3. Load(p)' \subseteq Load(p) \union {t}
      BY <1>1, <3>2 DEF Load
    <3>4. /\ IsFiniteSet(Load(p))
          /\ Cardinality(Load(p)) + Cardinality(Making(p)) <= peak[p] - 1 + Cardinality(Operations)
      BY <2>0, <2>4 DEF QuotaInv, Reserved
    <3>5. /\ IsFiniteSet(Load(p) \union {t}) /\ Cardinality(Load(p) \union {t}) <= Cardinality(Load(p)) + 1
          /\ Cardinality(Load(p)) \in Nat
      <4>1. Cardinality(Load(p)) \in Nat
        BY <3>4, FS_CardinalityType
      <4>2. /\ IsFiniteSet(Load(p) \union {t})
            /\ \/ Cardinality(Load(p) \union {t}) = Cardinality(Load(p))
               \/ Cardinality(Load(p) \union {t}) = Cardinality(Load(p)) + 1
        BY <3>4, FS_AddElement
      <4> QED
        BY <4>1, <4>2
    <3>6. /\ IsFiniteSet(Load(p)') /\ Cardinality(Load(p)') <= Cardinality(Load(p) \union {t})
          /\ Cardinality(Load(p)') \in Nat /\ Cardinality(Load(p) \union {t}) \in Nat
      BY <3>3, <3>5, FS_Subset, FS_CardinalityType
    <3>7. IsFiniteSet(Making(p))
      BY Bounds, FS_Subset DEF Making
    <3>8. Cardinality(Making(p)') = Cardinality(Making(p)) - 1 /\ Cardinality(Making(p)) \in Nat
      BY <3>2, <3>7, FS_RemoveElement, FS_CardinalityType
    <3>9. peak[p] \in Nat
      BY <1>0, PeakRange DEF ResellerTypeOK
    <3> QED
      BY <1>0, <2>0, <2>4, <3>4, <3>5, <3>6, <3>8, <3>9, Bounds DEF Reserved
  <2> QED
    BY <1>2, <1>3, <2>1, <2>2, <2>3, <2>4, WriteStep
<1> QED
  BY <1>4, <1>5

(* A link puts under p a tenant that was in its load.                      *)
LEMMA LinkStep ==
  ASSUME QuotaInv, NEW r \in Operations, ProvisionLink(r) \/ MoveLink(r)
  PROVE  QuotaInv'
<1> DEFINE t == op[r].tenant
           to == op[r].to
<1>0. /\ op[r] \in Operation /\ OpOK(op[r]) /\ ResellerTypeOK /\ RowsOK
      /\ UNCHANGED <<tenant, reseller, peak>> /\ End(r) /\ op[r].pc \in {"link", "move"}
      /\ t \in tenant /\ t \in Tenants /\ to \in Tenants \union {None}
  BY DEF ProvisionLink, MoveLink, At, QuotaInv, ResellerTypeOK, OpOK, Operation
<1>1. parent' = [parent EXCEPT ![t] = to] \/ parent' = parent
  BY <1>0, NoResellerAssumption DEF ProvisionLink, MoveLink, setParentReseller, OpOK, At
<1>2. parent' \in [Tenants -> Tenants \union {None}] /\ RowsOK'
  BY <1>0, <1>1 DEF ResellerTypeOK, RowsOK
<1>3. /\ op' \in [Operations -> Operation] /\ op'[r] = Quiet
      /\ \A s \in Operations \ {r} : op'[s] = op[s]
  BY <1>0, QuietOK DEF End, Go, ResellerTypeOK
<1>4. ResellerTypeOK'
  BY <1>0, <1>2, <1>3 DEF ResellerTypeOK
<1>5. ASSUME NEW p \in Tenants PROVE Reserved(p)'
  <2>1. SubTenants(p)' \subseteq SubTenants(p) \union (IF p = to THEN {t} ELSE {})
    BY <1>0, <1>1 DEF SubTenants, ResellerTypeOK
  <2>2. p = to => t \in Coming(p)
    BY <1>0 DEF Coming, Linking, LinksTo
  <2>3. Coming(p)' \subseteq Coming(p) /\ Making(p)' \subseteq Making(p)
    BY <1>3, QuietOK DEF Coming, Linking, Making
  <2>4. peak[p] \in Nat
    BY <1>0, PeakRange DEF ResellerTypeOK
  <2> QED
    BY <1>0, <1>4, <2>1, <2>2, <2>3, <2>4, LoadShrinks DEF Load
<1>6. Grows
  <2>1. \A p \in Tenants : peak[p] \in Nat
    BY <1>0, PeakRange DEF ResellerTypeOK
  <2> QED
    BY <1>0, <2>1 DEF Grows
<1>7. OpOK(Quiet)'
  BY DEF OpOK, Quiet
<1> QED
  BY <1>0, <1>2, <1>4, <1>5, <1>6, <1>7, QuietOK, WriteStep DEF End

(* A tenant that becomes a reseller had nothing under it or on its way.    *)
LEMMA CreateStep ==
  ASSUME QuotaInv, NEW r \in Operations, createReseller(r)
  PROVE  QuotaInv'
<1> DEFINE t == op[r].tenant
           q == op[r].quota
<1>0. /\ op[r] \in Operation /\ ResellerTypeOK /\ RowsOK /\ UNCHANGED <<tenant, parent>>
      /\ End(r) /\ t \in Tenants /\ q \in Quotas /\ q \in Nat
  BY Bounds DEF createReseller, At, QuotaInv, ResellerTypeOK, OpOK
<1>1. CASE reseller[t] # None
  BY <1>0, <1>1, GiveUp DEF createReseller
<1>2. CASE reseller[t] = None
  <2>1. PICK row \in ResellerRow : reseller' = [reseller EXCEPT ![t] = row] /\ row.quota = q
    <3>1. LET row == [status |-> "active", quota |-> q] IN row \in ResellerRow /\ row.quota = q
      BY <1>0 DEF ResellerRow
    <3> QED
      BY <1>2, <3>1 DEF createReseller
  <2>2. peak' = [peak EXCEPT ![t] = q]
    BY <1>2 DEF createReseller
  <2>3. /\ op' \in [Operations -> Operation] /\ op'[r] = Quiet
        /\ \A s \in Operations \ {r} : op'[s] = op[s]
    BY <1>0, QuietOK DEF End, Go, ResellerTypeOK
  <2>4. /\ reseller'[t] = row /\ row # None /\ peak'[t] = q
        /\ \A p \in Tenants \ {t} : reseller'[p] = reseller[p] /\ peak'[p] = peak[p]
    BY <1>0, <2>1, <2>2, NoResellerAssumption DEF ResellerTypeOK
  <2>5. ResellerTypeOK'
    BY <1>0, <2>1, <2>2, <2>3 DEF ResellerTypeOK
  <2>6. \A p \in Tenants : peak[p] \in Nat
    BY <1>0, PeakRange DEF ResellerTypeOK
  <2>7. RowsOK' /\ Grows
    BY <1>0, <1>2, <2>1, <2>4, <2>6 DEF RowsOK, Grows
  <2>8. ASSUME NEW p \in Tenants PROVE Reserved(p)'
    <3>1. Load(p)' \subseteq Load(p) /\ Making(p)' \subseteq Making(p)
      BY <1>0, <2>3, QuietOK DEF Load, SubTenants, Coming, Linking, Making
    <3>2. CASE p # t
      BY <2>4, <2>5, <2>6, <3>1, <3>2, LoadShrinks
    <3>3. CASE p = t
      <4>1. Load(p)' = {} /\ Making(p)' = {}
        BY <1>2, <3>1, <3>3 DEF QuotaInv, Reserved
      <4>2. IsFiniteSet({}) /\ Cardinality({}) = 0
        BY FS_EmptySet
      <4>3. Cardinality(Load(p)') = 0 /\ Cardinality(Making(p)') = 0 /\ IsFiniteSet(Load(p)')
        BY <4>1, <4>2
      <4> QED
        BY <1>0, <2>4, <3>3, <4>3, Bounds DEF Reserved
    <3> QED
      BY <3>2, <3>3
  <2>9. OpOK(Quiet)'
    BY DEF OpOK, Quiet
  <2> QED
    BY <1>0, <2>5, <2>7, <2>8, <2>9, QuietOK, WriteStep DEF End
<1> QED
  BY <1>1, <1>2

(* Neither a status nor a quota changes which tenants are under a reseller. *)
LEMMA StatusStep ==
  ASSUME QuotaInv, NEW r \in Operations, setStatus(r)
  PROVE  QuotaInv'
<1> DEFINE to == op[r].to
           st == op[r].status
<1>0. /\ ResellerTypeOK /\ RowsOK /\ UNCHANGED <<tenant, parent, peak>> /\ End(r)
      /\ to \in Tenants /\ reseller[to] # None /\ st \in {"active", "suspended", "offboarding"}
  BY DEF setStatus, At, QuotaInv, OpOK
<1>1. reseller[to] \in ResellerRow
  BY <1>0 DEF ResellerTypeOK
<1>2. PICK row \in ResellerRow :
        reseller' = [reseller EXCEPT ![to] = row] /\ row.quota = reseller[to].quota
  <2>1. LET row == [reseller[to] EXCEPT !.status = st]
        IN  row \in ResellerRow /\ row.quota = reseller[to].quota
    BY <1>0, <1>1 DEF ResellerRow
  <2> QED
    BY <2>1 DEF setStatus
<1>3. /\ reseller'[to] = row /\ row # None
      /\ \A p \in Tenants \ {to} : reseller'[p] = reseller[p]
  BY <1>0, <1>2, NoResellerAssumption DEF ResellerTypeOK
<1>4. /\ op' \in [Operations -> Operation] /\ op'[r] = Quiet
      /\ \A s \in Operations \ {r} : op'[s] = op[s]
  BY <1>0, QuietOK DEF End, Go, ResellerTypeOK
<1>5. ResellerTypeOK'
  BY <1>0, <1>2, <1>4 DEF ResellerTypeOK
<1>6. \A p \in Tenants : peak[p] \in Nat
  BY <1>0, PeakRange DEF ResellerTypeOK
<1>7. RowsOK' /\ Grows
  BY <1>0, <1>2, <1>3, <1>6 DEF RowsOK, Grows
<1>8. ASSUME NEW p \in Tenants PROVE Reserved(p)'
  <2>1. Load(p)' \subseteq Load(p) /\ Making(p)' \subseteq Making(p)
    BY <1>0, <1>4, QuietOK DEF Load, SubTenants, Coming, Linking, Making
  <2> QED
    BY <1>0, <1>3, <1>5, <1>6, <2>1, LoadShrinks
<1>9. OpOK(Quiet)'
  BY DEF OpOK, Quiet
<1> QED
  BY <1>0, <1>5, <1>7, <1>8, <1>9, QuietOK, WriteStep DEF End

LEMMA QuotaStep ==
  ASSUME QuotaInv, NEW t \in Tenants, NEW q \in Quotas, setQuota(t, q)
  PROVE  QuotaInv'
<1>0. /\ ResellerTypeOK /\ RowsOK /\ UNCHANGED <<tenant, parent, op>> /\ reseller[t] # None
      /\ q \in Nat /\ peak[t] \in Nat
  BY Bounds, PeakRange DEF setQuota, Resellers, QuotaInv, ResellerTypeOK
<1>1. PICK row \in ResellerRow : reseller' = [reseller EXCEPT ![t] = row] /\ row.quota = q
  <2>1. LET row == [reseller[t] EXCEPT !.quota = q] IN row \in ResellerRow /\ row.quota = q
    BY <1>0 DEF ResellerTypeOK, ResellerRow
  <2> QED
    BY <2>1 DEF setQuota
<1>2. PICK m \in Quotas \union {0} : /\ peak' = [peak EXCEPT ![t] = m]
                                     /\ peak[t] <= m /\ q <= m
  <2>1. LET m == IF q > peak[t] THEN q ELSE peak[t]
        IN  m \in Quotas \union {0} /\ peak[t] <= m /\ q <= m
    BY <1>0 DEF ResellerTypeOK
  <2> QED
    BY <2>1 DEF setQuota
<1>3. /\ reseller'[t] = row /\ row # None /\ peak'[t] = m
      /\ \A p \in Tenants \ {t} : reseller'[p] = reseller[p] /\ peak'[p] = peak[p]
  BY <1>0, <1>1, <1>2, NoResellerAssumption DEF ResellerTypeOK
<1>4. ResellerTypeOK'
  BY <1>0, <1>1, <1>2 DEF ResellerTypeOK
<1>5. \A p \in Tenants : peak[p] \in Nat /\ peak[p] <= peak'[p]
  BY <1>0, <1>2, <1>3, PeakRange DEF ResellerTypeOK
<1>6. RowsOK' /\ Grows
  BY <1>0, <1>1, <1>2, <1>3, <1>5 DEF RowsOK, Grows
<1>7. ASSUME NEW p \in Tenants PROVE Reserved(p)'
  <2>1. Load(p)' = Load(p) /\ Making(p)' = Making(p)
    BY <1>0 DEF Load, SubTenants, Coming, Linking, Making
  <2> QED
    BY <1>0, <1>3, <1>4, <1>5, <2>1, LoadShrinks
<1>8. ASSUME NEW s \in Operations PROVE OpOK(op[s])'
  <2>1. op[s] \in Operation /\ OpOK(op[s]) /\ op'[s] = op[s]
    BY <1>0 DEF QuotaInv, ResellerTypeOK
  <2> QED
    BY <1>4, <1>6, <2>1, OpStays DEF OpOK
<1> QED
  BY <1>4, <1>6, <1>7, <1>8 DEF QuotaInv

LEMMA NextQuotaInv == QuotaInv /\ [ResellerNext]_resellerVars => QuotaInv'
<1> SUFFICES ASSUME QuotaInv, [ResellerNext]_resellerVars PROVE QuotaInv'
  OBVIOUS
<1>1. CASE UNCHANGED resellerVars
  <2>0. UNCHANGED <<tenant, reseller, parent, op, peak>>
    BY <1>1 DEF resellerVars
  <2>1. ResellerTypeOK' /\ RowsOK'
    BY <2>0 DEF QuotaInv, ResellerTypeOK, RowsOK
  <2>2. \A r \in Operations : OpOK(op[r])'
    BY <2>0 DEF QuotaInv, OpOK
  <2>3. ASSUME NEW p \in Tenants PROVE Reserved(p)'
    <3>1. Load(p)' = Load(p) /\ Making(p)' = Making(p)
      BY <2>0 DEF Load, SubTenants, Coming, Linking, Making
    <3> QED
      BY <2>0, <3>1 DEF QuotaInv, Reserved
  <2> QED
    BY <2>1, <2>2, <2>3 DEF QuotaInv
<1>2. CASE ResellerNext
  <2>1. ASSUME NEW r \in Operations, Onboard(r) PROVE QuotaInv'
    BY <2>1, MakeStep, BeginStep, CheckStep, CreateStep DEF Onboard
  <2>2. ASSUME NEW r \in Operations, Provision(r) PROVE QuotaInv'
    BY <2>2, BeginStep, MakeStep, CountStep, LinkStep DEF Provision
  <2>3. ASSUME NEW r \in Operations, Transition(r) PROVE QuotaInv'
    BY <2>3, BeginStep, StatusStep DEF Transition
  <2>4. ASSUME NEW r \in Operations, Move(r) PROVE QuotaInv'
    BY <2>4, BeginStep, CheckStep, CountStep, LinkStep DEF Move
  <2>5. ASSUME NEW r \in Operations, Abandon(r) PROVE QuotaInv'
    BY <2>5, GiveUp DEF Abandon
  <2> QED
    BY <1>2, <2>1, <2>2, <2>3, <2>4, <2>5, QuotaStep DEF ResellerNext
<1> QED
  BY <1>1, <1>2

(* However many requests race for the last places of a reseller, it never  *)
(* has more tenants than the largest quota it was given and one for every  *)
(* other request that can be under way.                                    *)
THEOREM QuotaIsHeld == ResellerSpec => []QuotaHeld
<1>1. ASSUME QuotaInv PROVE QuotaHeld
  <2> SUFFICES ASSUME NEW p \in Tenants, reseller[p] # None
               PROVE  countSubTenants(p) <= peak[p] + Cardinality(Operations) - 1
    BY DEF QuotaHeld
  <2>1. /\ IsFiniteSet(Load(p))
        /\ Cardinality(Load(p)) + Cardinality(Making(p)) <= peak[p] - 1 + Cardinality(Operations)
    BY <1>1 DEF QuotaInv, Reserved
  <2>2. IsFiniteSet(Making(p))
    BY Bounds, FS_Subset DEF Making
  <2>3. /\ Cardinality(SubTenants(p)) <= Cardinality(Load(p)) /\ Cardinality(SubTenants(p)) \in Nat
        /\ Cardinality(Load(p)) \in Nat /\ Cardinality(Making(p)) \in Nat
    BY <2>1, <2>2, FS_Subset, FS_CardinalityType DEF Load
  <2>4. peak[p] \in Nat
    BY <1>1, PeakRange DEF QuotaInv, ResellerTypeOK
  <2> QED
    BY <2>1, <2>3, <2>4, Bounds DEF countSubTenants
<1>2. QuotaInv => QuotaHeld
  BY <1>1
<1> QED
  BY <1>2, InitQuotaInv, NextQuotaInv, PTL DEF ResellerSpec
-----------------------------------------------------------------------------
(* Brandings.  A binding, once active, is for good; so what a handler read *)
(* of an active one stays true, and all it takes is that a profile's       *)
(* domain is one that its own tenant has bound.                            *)
HostsUnique ==
  \A b, o \in Bindings :
    /\ binding[b] # None /\ binding[b].status \in Bound
    /\ binding[o] # None /\ binding[o].status \in Bound /\ binding[b].host = binding[o].host
    => b = o

BoundTo(t, h) ==
  \E b \in Bindings :
    binding[b] \in Binding /\ binding[b] = [tenant |-> t, host |-> h, status |-> "active"]

ProfilesBacked ==
  \A t \in Tenants : profile[t].domain # None => BoundTo(t, profile[t].domain)

CallOK(q) ==
  /\ q.pc \in {"insert", "owner", "update", "backed", "set", "parent", "layer", "own", "inherited"}
       => q.tenant \in Tenants
  /\ q.pc = "insert" => q.host \in Hosts
  /\ q.pc \in {"owner", "update"} =>
       /\ q.binding \in Bindings /\ q.to \in Bound
       /\ binding[q.binding] # None /\ binding[q.binding].host = q.host
  /\ (q.pc \in {"parent", "layer"} /\ q.to = None) \/ q.pc \in {"set", "own", "inherited"} =>
       (q.host # None => BoundTo(q.tenant, q.host))
  /\ q.pc \in {"own", "inherited"} => (q.layer.domain # None => BoundTo(q.parent, q.layer.domain))
  /\ q.pc = "shown" => (q.host # None => BoundTo(q.from, q.host))

CallsOK == \A c \in Calls : CallOK(call[c])

BrandingInv == BrandingTypeOK /\ HostsUnique /\ ProfilesBacked /\ CallsOK

BindingsStand ==
  \A b \in Bindings : binding[b] # None =>
    /\ binding'[b] # None /\ binding'[b].host = binding[b].host
    /\ binding[b].status = "active" => binding'[b] = binding[b]

LEMMA BackedStands ==
  ASSUME BindingsStand, NEW t, NEW h, BoundTo(t, h)
  PROVE  BoundTo(t, h)'
<1>1. PICK b \in Bindings :
        binding[b] \in Binding /\ binding[b] = [tenant |-> t, host |-> h, status |-> "active"]
  BY DEF BoundTo
<1>2. binding[b] # None
  BY <1>1, NoBindingAssumption
<1>3. binding'[b] = binding[b]
  BY <1>1, <1>2 DEF BindingsStand
<1> QED
  BY <1>1, <1>3 DEF BoundTo

LEMMA WaitingOK ==
  /\ Waiting \in Call /\ CallOK(Waiting) /\ Waiting.pc = "idle"
  /\ Unset \in Profile /\ Unset.domain = None
<1>1. Unset \in Profile /\ Unset.domain = None
  BY DEF Unset, Profile
<1>2. Waiting \in Call /\ Waiting.pc = "idle"
  BY <1>1 DEF Waiting, Call
<1> QED
  BY <1>1, <1>2 DEF CallOK

LEMMA CallStands ==
  ASSUME BindingsStand, NEW q, CallOK(q)
  PROVE  CallOK(q)'
BY BackedStands DEF CallOK, BindingsStand

(* One call goes on, and what it knows is right.                           *)
LEMMA CallMoves ==
  ASSUME BrandingInv, BindingsStand, NEW c \in Calls, NEW q \in Call, Set(c, q), CallOK(q)
  PROVE  call' \in [Calls -> Call] /\ CallsOK'
<1>1. call \in [Calls -> Call] /\ call' = [call EXCEPT ![c] = q]
  BY DEF BrandingInv, BrandingTypeOK, Set
<1>2. call' \in [Calls -> Call] /\ call'[c] = q /\ \A d \in Calls \ {c} : call'[d] = call[d]
  BY <1>1
<1>3. CallOK(q)'
  BY CallStands
<1>4. ASSUME NEW d \in Calls \ {c} PROVE CallOK(call[d])'
  <2>1. PICK v : v = call[d]
    OBVIOUS
  <2>2. CallOK(v)'
    BY <2>1, CallStands DEF BrandingInv, CallsOK
  <2>3. call'[d] = v
    BY <1>2, <2>1
  <2> QED
    BY <2>2, <2>3
<1> QED
  BY <1>2, <1>3, <1>4 DEF CallsOK

(* A step that only reads.                                                 *)
LEMMA CallReads ==
  ASSUME BrandingInv, NEW c \in Calls, NEW q \in Call, Set(c, q), CallOK(q),
         UNCHANGED <<binding, profile>>
  PROVE  BrandingInv'
<1>1. BindingsStand
  BY DEF BindingsStand
<1>2. call' \in [Calls -> Call] /\ CallsOK'
  BY <1>1, CallMoves
<1>3. HostsUnique' /\ ProfilesBacked'
  BY DEF BrandingInv, HostsUnique, ProfilesBacked, BoundTo
<1> QED
  BY <1>2, <1>3 DEF BrandingInv, BrandingTypeOK

LEMMA ReturnReads ==
  ASSUME BrandingInv, NEW c \in Calls, Return(c), UNCHANGED <<binding, profile>>
  PROVE  BrandingInv'
BY WaitingOK, CallReads DEF Return

(* A step that goes on with what it has.                                   *)
LEMMA ContinueReads ==
  ASSUME BrandingInv, NEW c \in Calls, UNCHANGED <<binding, profile>>,
         NEW pc \in {"update", "backed", "set"}, Continue(c, pc),
         pc = "update" => call[c].pc = "owner",
         pc = "backed" => call[c].pc = "layer",
         pc = "set" => /\ call[c].pc = "backed"
                       /\ call[c].host # None => Backed(call[c].tenant, call[c].host)
  PROVE  BrandingInv'
<1>1. PICK o, q : o = call[c] /\ q = [o EXCEPT !.pc = pc]
  OBVIOUS
<1>2. o \in Call /\ CallOK(o)
  BY <1>1 DEF BrandingInv, BrandingTypeOK, CallsOK
<1>3. /\ q \in Call /\ q.pc = pc /\ q.tenant = o.tenant /\ q.host = o.host /\ q.binding = o.binding
      /\ q.to = o.to
  BY <1>1, <1>2 DEF Call
<1>4. CallOK(q)
  <2>1. pc = "set" /\ o.host # None => BoundTo(o.tenant, o.host)
    BY <1>1, <1>2 DEF CallOK, Call, Backed, BoundTo, Binding
  <2> QED
    BY <1>1, <1>2, <1>3, <2>1 DEF CallOK
<1>5. Set(c, q)
  BY <1>1 DEF Continue
<1> QED
  BY <1>3, <1>4, <1>5, CallReads

(* The first read of a request.                                            *)
LEMMA StartReads ==
  ASSUME BrandingInv, NEW c \in Calls,
         \/ \E t \in Tenants, h \in Hosts : Initiate(c, t, h)
         \/ \E b \in Bindings, to \in Bound : BindingRead(c, b, to)
         \/ \E t \in Tenants, h \in Hosts \union {None}, locked \in BOOLEAN :
              SetBrandingOfReseller(c, t, h, locked)
         \/ \E t \in Tenants, h \in Hosts \union {None} : SetBranding(c, t, h)
         \/ \E t \in Tenants : GetProfile(c, t)
  PROVE  BrandingInv'
<1>1. ASSUME NEW t \in Tenants, NEW h \in Hosts, Initiate(c, t, h) PROVE BrandingInv'
  <2>1. PICK q : q = [Waiting EXCEPT !.pc = "insert", !.tenant = t, !.host = h]
    OBVIOUS
  <2>2. q \in Call /\ q.pc = "insert" /\ q.tenant = t /\ q.host = h
    BY ZenonT(40), <2>1, WaitingOK DEF Call
  <2> QED
    BY <1>1, <2>1, <2>2, CallReads DEF Initiate, CallOK
<1>2. ASSUME NEW b \in Bindings, NEW to \in Bound, BindingRead(c, b, to) PROVE BrandingInv'
  <2>1. PICK t, q : /\ t = binding[b].tenant
                    /\ q = [Waiting EXCEPT !.pc = "owner", !.tenant = t, !.binding = b, !.to = to,
                                           !.host = binding[b].host]
    OBVIOUS
  <2>2. binding[b] \in Binding /\ Set(c, q) /\ UNCHANGED <<binding, profile>>
    BY <1>2, <2>1 DEF BindingRead, BrandingInv, BrandingTypeOK
  <2>3. t \in Tenants /\ binding[b].host \in Hosts /\ binding[b] # None
    BY <1>2, <2>1, <2>2 DEF Binding, BindingRead
  <2>4. /\ q \in Call /\ q.pc = "owner" /\ q.tenant = t /\ q.binding = b /\ q.to = to
        /\ q.host = binding[b].host
    BY ZenonT(40), <2>1, <2>3, WaitingOK DEF Call
  <2> QED
    BY <2>2, <2>3, <2>4, CallReads DEF CallOK
<1>3. ASSUME NEW t \in Tenants, NEW h \in Hosts \union {None}, NEW locked \in BOOLEAN,
             SetBrandingOfReseller(c, t, h, locked)
      PROVE  BrandingInv'
  <2>1. PICK q : q = [Waiting EXCEPT !.pc = "backed", !.tenant = t, !.host = h, !.locked = locked]
    OBVIOUS
  <2>2. q \in Call /\ q.pc = "backed" /\ q.tenant = t
    BY ZenonT(40), <2>1, WaitingOK DEF Call
  <2> QED
    BY <1>3, <2>1, <2>2, CallReads DEF SetBrandingOfReseller, CallOK
<1>4. ASSUME NEW t \in Tenants, NEW h \in Hosts \union {None}, SetBranding(c, t, h)
      PROVE  BrandingInv'
  <2>1. PICK q : q = [Waiting EXCEPT !.pc = "parent", !.tenant = t, !.host = h, !.to = "active"]
    OBVIOUS
  <2>2. q \in Call /\ q.pc = "parent" /\ q.tenant = t /\ q.to = "active"
    BY ZenonT(40), <2>1, WaitingOK DEF Call, Bound
  <2>3. "active" # None
    BY NoBindingAssumption DEF Bound
  <2> QED
    BY <1>4, <2>1, <2>2, <2>3, CallReads DEF SetBranding, CallOK
<1>5. ASSUME NEW t \in Tenants, GetProfile(c, t) PROVE BrandingInv'
  <2>1. PICK h, q : /\ h = profile[t].domain
                    /\ q = [Waiting EXCEPT !.pc = "parent", !.tenant = t, !.host = h]
    OBVIOUS
  <2>2. h \in Hosts \union {None} /\ (h # None => BoundTo(t, h))
    BY <2>1 DEF BrandingInv, BrandingTypeOK, ProfilesBacked, Profile
  <2>3. q \in Call /\ q.pc = "parent" /\ q.tenant = t /\ q.host = h
    BY ZenonT(40), <2>1, <2>2, WaitingOK DEF Call
  <2>4. Set(c, q) /\ UNCHANGED <<binding, profile>>
    BY <1>5, <2>1 DEF GetProfile
  <2> QED
    BY <2>2, <2>3, <2>4, CallReads DEF CallOK
<1> QED
  BY <1>1, <1>2, <1>3, <1>4, <1>5

(* The reads that resolve a branding.                                      *)
LEMMA ResolveReads ==
  ASSUME BrandingInv, ResellerTypeOK, NEW c \in Calls,
         GetParent(c) \/ GetLayer(c) \/ GetOwn(c) \/ GetInherited(c)
  PROVE  BrandingInv'
<1>1. PICK o : o = call[c]
  OBVIOUS
<1>2. o \in Call /\ CallOK(o)
  BY <1>1 DEF BrandingInv, BrandingTypeOK, CallsOK
<1>3. CASE GetParent(c)
  <2>1. PICK p, q : p = parent[o.tenant] /\ q = [o EXCEPT !.pc = "layer", !.parent = p]
    OBVIOUS
  <2>2. o.pc = "parent" /\ Set(c, q) /\ UNCHANGED <<binding, profile>>
    BY <1>1, <1>3, <2>1 DEF GetParent, Is
  <2>3. p \in Tenants \union {None}
    BY <1>2, <2>1, <2>2 DEF CallOK, ResellerTypeOK
  <2>4. q \in Call /\ q.pc = "layer" /\ q.tenant = o.tenant /\ q.host = o.host /\ q.to = o.to
    BY <1>2, <2>1, <2>3 DEF Call
  <2>5. CallOK(q)
    BY <1>2, <2>2, <2>4 DEF CallOK
  <2> QED
    BY <2>2, <2>4, <2>5, CallReads
<1>4. CASE GetLayer(c)
  <2>1. PICK l, q : /\ l = IF o.parent = None THEN Unset ELSE profile[o.parent]
                    /\ q = [o EXCEPT !.pc = "own", !.layer = l]
    OBVIOUS
  <2>2. o.pc = "layer" /\ o.to = None /\ Set(c, q) /\ UNCHANGED <<binding, profile>>
    BY <1>1, <1>4, <2>1 DEF GetLayer, Is
  <2>3. l \in Profile /\ (l.domain # None => BoundTo(o.parent, l.domain))
    <3>1. o.parent \in Tenants \union {None}
      BY <1>2 DEF Call
    <3> QED
      BY <2>1, <3>1, WaitingOK DEF BrandingInv, BrandingTypeOK, ProfilesBacked
  <2>4. /\ q \in Call /\ q.pc = "own" /\ q.tenant = o.tenant /\ q.host = o.host
        /\ q.parent = o.parent /\ q.layer = l
    BY <1>2, <2>1, <2>3 DEF Call
  <2>5. CallOK(q)
    BY <1>2, <2>2, <2>3, <2>4 DEF CallOK
  <2> QED
    BY <2>2, <2>4, <2>5, CallReads
<1>5. CASE GetOwn(c)
  <2>1. PICK a, q : a = HasActive(o.tenant) /\ q = [o EXCEPT !.pc = "inherited", !.active = a]
    OBVIOUS
  <2>2. o.pc = "own" /\ Set(c, q) /\ UNCHANGED <<binding, profile>>
    BY <1>1, <1>5, <2>1 DEF GetOwn, Is
  <2>3. a \in BOOLEAN
    BY <2>1 DEF HasActive
  <2>4. /\ q \in Call /\ q.pc = "inherited" /\ q.tenant = o.tenant /\ q.host = o.host
        /\ q.parent = o.parent /\ q.layer = o.layer
    BY <1>2, <2>1, <2>3 DEF Call
  <2>5. CallOK(q)
    BY <1>2, <2>2, <2>4 DEF CallOK
  <2> QED
    BY <2>2, <2>4, <2>5, CallReads
<1>6. CASE GetInherited(c)
  <2>1. PICK field, from, host, q :
          /\ field = resolveField(o)
          /\ from = IF o.active \/ HasActive(o.parent) THEN field.from ELSE None
          /\ host = IF o.active \/ HasActive(o.parent) THEN field.host ELSE None
          /\ q = [o EXCEPT !.pc = "shown", !.from = from, !.host = host]
    OBVIOUS
  <2>2. o.pc = "inherited" /\ Set(c, q) /\ UNCHANGED <<binding, profile>>
    BY <1>1, <1>6, <2>1 DEF GetInherited, Is
  <2>3. /\ o.tenant \in Tenants /\ o.host \in Hosts \union {None} /\ o.parent \in Tenants \union {None}
        /\ o.layer.domain \in Hosts \union {None}
        /\ o.host # None => BoundTo(o.tenant, o.host)
        /\ o.layer.domain # None => BoundTo(o.parent, o.layer.domain)
    BY <1>2, <2>2 DEF CallOK, Call, Profile
  <2>4. /\ field.from \in Tenants \union {None} /\ field.host \in Hosts \union {None}
        /\ field.host # None => BoundTo(field.from, field.host)
    BY <2>1, <2>3 DEF resolveField
  <2>5. /\ from \in Tenants \union {None} /\ host \in Hosts \union {None}
        /\ host # None => BoundTo(from, host)
    BY <2>1, <2>4
  <2>6. q \in Call /\ q.pc = "shown" /\ q.from = from /\ q.host = host
    <3>1. q = [o EXCEPT !.pc = "shown", !.from = from, !.host = host]
      BY <2>1
    <3>2. o \in Call /\ from \in Tenants \union {None} /\ host \in Hosts \union {None}
      BY <1>2, <2>5
    <3> QED
      BY ZenonT(40), <3>1, <3>2 DEF Call
  <2>7. CallOK(q)
    BY <2>5, <2>6 DEF CallOK
  <2> QED
    BY <2>2, <2>6, <2>7, CallReads
<1> QED
  BY <1>3, <1>4, <1>5, <1>6

(* The three writes.                                                       *)
LEMMA InsertKeepsHosts ==
  ASSUME BrandingInv, NEW c \in Calls, NEW b \in Bindings, InitiateInsert(c, b)
  PROVE  BrandingInv'
<1>1. PICK row : row = [tenant |-> call[c].tenant, host |-> call[c].host, status |-> "pending"]
  OBVIOUS
<1>2. /\ binding[b] = None /\ binding' = [binding EXCEPT ![b] = row] /\ UNCHANGED profile
      /\ call[c].pc = "insert" /\ Return(c)
  BY <1>1 DEF InitiateInsert, Is
<1>3. row \in Binding /\ row.status \notin Bound
  BY <1>1, <1>2 DEF BrandingInv, CallsOK, CallOK, Binding, Bound
<1>4. /\ binding' \in [Bindings -> Binding \union {None}] /\ binding'[b] = row
      /\ \A o \in Bindings \ {b} : binding'[o] = binding[o]
  BY <1>2, <1>3 DEF BrandingInv, BrandingTypeOK
<1>5. BindingsStand
  BY <1>2, <1>4 DEF BindingsStand
<1>6. call' \in [Calls -> Call] /\ CallsOK'
  BY <1>2, <1>5, WaitingOK, CallMoves DEF Return
<1>7. HostsUnique'
  BY <1>3, <1>4 DEF BrandingInv, HostsUnique
<1>8. ProfilesBacked'
  BY <1>2, <1>5, BackedStands DEF BrandingInv, ProfilesBacked
<1> QED
  BY <1>2, <1>4, <1>6, <1>7, <1>8 DEF BrandingInv, BrandingTypeOK

LEMMA UpdateKeepsHosts ==
  ASSUME BrandingInv, NEW c \in Calls, BindingUpdate(c)
  PROVE  BrandingInv'
<1>1. PICK b, to, h : b = call[c].binding /\ to = call[c].to /\ h = call[c].host
  OBVIOUS
<1>2. /\ b \in Bindings /\ to \in Bound /\ binding[b] \in Binding /\ binding[b].host = h
      /\ Return(c) /\ UNCHANGED profile
  BY <1>1 DEF BindingUpdate, Is, BrandingInv, BrandingTypeOK, CallsOK, CallOK
<1>3. \/ UNCHANGED binding
      \/ /\ binding[b].status = Before[to] /\ HostIndex(b, h)
         /\ binding' = [binding EXCEPT ![b].status = to]
  BY <1>1 DEF BindingUpdate
<1>4. CASE UNCHANGED binding
  BY <1>2, <1>4, ReturnReads
<1>5. CASE /\ binding[b].status = Before[to] /\ HostIndex(b, h)
           /\ binding' = [binding EXCEPT ![b].status = to]
  <2>1. PICK row : row = [binding[b] EXCEPT !.status = to]
    OBVIOUS
  <2>2. /\ row \in Binding /\ row # None /\ row.host = h /\ binding[b].status # "active"
    <3>1. row \in Binding /\ row.host = h
      BY <1>2, <2>1 DEF Binding, Bound
    <3>2. Before[to] # "active"
      BY <1>2 DEF Before, Bound
    <3> QED
      BY <1>5, <3>1, <3>2, NoBindingAssumption
  <2>3. /\ binding' \in [Bindings -> Binding \union {None}] /\ binding'[b] = row
        /\ \A o \in Bindings \ {b} : binding'[o] = binding[o]
    BY <1>2, <1>5, <2>1, <2>2 DEF BrandingInv, BrandingTypeOK
  <2>4. BindingsStand
    BY <1>2, <2>2, <2>3 DEF BindingsStand
  <2>5. call' \in [Calls -> Call] /\ CallsOK'
    BY <1>2, <2>4, WaitingOK, CallMoves DEF Return
  <2>6. HostsUnique'
    BY <1>5, <2>2, <2>3 DEF BrandingInv, HostsUnique, HostIndex
  <2>7. ProfilesBacked'
    BY <1>2, <2>4, BackedStands DEF BrandingInv, ProfilesBacked
  <2> QED
    BY <1>2, <2>3, <2>5, <2>6, <2>7 DEF BrandingInv, BrandingTypeOK
<1> QED
  BY <1>3, <1>4, <1>5

LEMMA ProfileKeepsHosts ==
  ASSUME BrandingInv, NEW c \in Calls, setProfile(c)
  PROVE  BrandingInv'
<1>1. PICK t, h, row : /\ t = call[c].tenant /\ h = call[c].host
                       /\ row = [domain |-> h, locked |-> call[c].locked]
  OBVIOUS
<1>2. /\ call[c].pc = "set" /\ profile' = [profile EXCEPT ![t] = row]
      /\ UNCHANGED binding /\ Return(c)
  BY <1>1 DEF setProfile, Is
<1>3. /\ t \in Tenants /\ row \in Profile /\ row.domain = h
      /\ h # None => BoundTo(t, h)
  BY <1>1, <1>2 DEF BrandingInv, BrandingTypeOK, CallsOK, CallOK, Call, Profile
<1>4. BindingsStand
  BY <1>2 DEF BindingsStand
<1>5. call' \in [Calls -> Call] /\ CallsOK'
  BY <1>2, <1>4, WaitingOK, CallMoves DEF Return
<1>6. /\ profile' \in [Tenants -> Profile] /\ profile'[t] = row
      /\ \A u \in Tenants \ {t} : profile'[u] = profile[u]
  BY <1>2, <1>3 DEF BrandingInv, BrandingTypeOK
<1>7. ProfilesBacked'
  BY <1>3, <1>4, <1>6, BackedStands DEF BrandingInv, ProfilesBacked
<1>8. HostsUnique'
  BY <1>2 DEF BrandingInv, HostsUnique
<1> QED
  BY <1>2, <1>5, <1>6, <1>7, <1>8 DEF BrandingInv, BrandingTypeOK

LEMMA InitBrandingInv == BrandingInit => BrandingInv
<1> SUFFICES ASSUME BrandingInit PROVE BrandingInv
  OBVIOUS
<1>1. /\ binding = [b \in Bindings |-> None] /\ profile = [t \in Tenants |-> Unset]
      /\ call = [c \in Calls |-> Waiting]
  BY DEF BrandingInit
<1>2. BrandingTypeOK
  BY <1>1, WaitingOK DEF BrandingTypeOK
<1>3. HostsUnique
  BY <1>1 DEF HostsUnique
<1>4. ProfilesBacked /\ CallsOK
  BY <1>1, WaitingOK DEF ProfilesBacked, CallsOK
<1> QED
  BY <1>2, <1>3, <1>4 DEF BrandingInv

LEMMA NextBrandingInv == BrandingInv /\ ResellerTypeOK /\ [BrandingNext]_brandingVars => BrandingInv'
<1> SUFFICES ASSUME BrandingInv, ResellerTypeOK, [BrandingNext]_brandingVars PROVE BrandingInv'
  OBVIOUS
<1>1. CASE UNCHANGED brandingVars
  BY <1>1 DEF brandingVars, BrandingInv, BrandingTypeOK, HostsUnique, ProfilesBacked, CallsOK, CallOK, BoundTo
<1>2. ASSUME NEW c \in Calls, BrandingStep(c) PROVE BrandingInv'
  <2>1. CASE checkDnsChallenge(c) \/ Shown(c)
    BY <2>1, ReturnReads DEF checkDnsChallenge, Shown
  <2>2. CASE BindingOwner(c)
    BY <2>2, ReturnReads, ContinueReads DEF BindingOwner, Is
  <2>3. CASE SetBrandingLocks(c)
    BY <2>3, ReturnReads, ContinueReads DEF SetBrandingLocks, Is
  <2>4. CASE assertBrandingFieldsBacked(c)
    BY <2>4, ReturnReads, ContinueReads DEF assertBrandingFieldsBacked, Is
  <2>5. CASE \/ \E t \in Tenants, h \in Hosts : Initiate(c, t, h)
             \/ \E b \in Bindings, to \in Bound : BindingRead(c, b, to)
             \/ \E t \in Tenants, h \in Hosts \union {None}, locked \in BOOLEAN :
                  SetBrandingOfReseller(c, t, h, locked)
             \/ \E t \in Tenants, h \in Hosts \union {None} : SetBranding(c, t, h)
             \/ \E t \in Tenants : GetProfile(c, t)
    BY <2>5, StartReads
  <2>6. CASE GetParent(c) \/ GetLayer(c) \/ GetOwn(c) \/ GetInherited(c)
    BY <2>6, ResolveReads
  <2>7. CASE (\E b \in Bindings : InitiateInsert(c, b)) \/ BindingUpdate(c) \/ setProfile(c)
    BY <2>7, InsertKeepsHosts, UpdateKeepsHosts, ProfileKeepsHosts
  <2> QED
    BY <1>2, <2>1, <2>2, <2>3, <2>4, <2>5, <2>6, <2>7 DEF BrandingStep
<1> QED
  BY <1>1, <1>2 DEF BrandingNext

(* The inductive invariant of brandings, whatever the hierarchy does.      *)
THEOREM BrandingInvariant == BrandingSpec => []BrandingInv
<1>1. QuotaInv => ResellerTypeOK
  BY DEF QuotaInv
<1> QED
  BY <1>1, InitQuotaInv, NextQuotaInv, InitBrandingInv, NextBrandingInv, PTL DEF BrandingSpec, ResellerSpec

(* A domain that is shown is one that the tenant it comes from, the tenant *)
(* itself or its reseller, has actively bound, and nobody else however the *)
(* claims of its host overlap: it was bound when it was read, bindings     *)
(* stand, and a host has one holder.                                       *)
THEOREM ShownDomainIsBound == BrandingSpec => []ShownIsBound
<1>1. BrandingInv => ShownIsBound
  <2> SUFFICES ASSUME BrandingInv, NEW c \in Calls, call[c].pc = "shown", call[c].host # None
               PROVE  /\ \E b \in Bindings : binding[b] =
                           [tenant |-> call[c].from, host |-> call[c].host, status |-> "active"]
                      /\ ~HeldByOther(call[c].from, call[c].host)
    BY DEF ShownIsBound
  <2>1. PICK b \in Bindings :
          /\ binding[b] \in Binding
          /\ binding[b] = [tenant |-> call[c].from, host |-> call[c].host, status |-> "active"]
    BY DEF BrandingInv, CallsOK, CallOK, BoundTo
  <2>2. binding[b] # None
    BY <2>1, NoBindingAssumption
  <2>3. ~HeldByOther(call[c].from, call[c].host)
    BY <2>1, <2>2 DEF BrandingInv, HostsUnique, HeldByOther, Bound
  <2> QED
    BY <2>1, <2>3
<1> QED
  BY <1>1, BrandingInvariant, PTL
-----------------------------------------------------------------------------
(***************************************************************************)
(* Usage.  What a bucket's total stands for is said by Standing: a bucket  *)
(* is whole, every row that ever went into its total is still in the raw   *)
(* table, or it is closed and nothing will be added to it again, or a      *)
(* prune overtook a reader of it (tainted).  A sweep may only leave behind *)
(* what the watermark will not pass, which is what Scanned says.           *)
(***************************************************************************)
LEMMA UsageBounds ==
  /\ BucketSecs \in Nat /\ BucketSecs > 0 /\ RetentionSecs \in Nat /\ RetentionSecs > 0
  /\ MaxBatch \in Nat /\ MaxBatch > 0 /\ MaxTime \in Nat /\ MaxTime > 0
  /\ MaxEvents \in Nat /\ FutureSkewSecs \in Nat /\ MaxRequests \in Nat /\ MaxFaults \in Nat
  /\ NoValue \notin Nat /\ NoValue \notin Metered /\ Fractions \subseteq {0, 1}
BY BoundsAssumption

(* Buckets do not overlap: what starts before a bucket ends before it.     *)
LEMMA BucketsApart ==
  ASSUME NEW x \in Int, NEW y \in Int
  PROVE  /\ bucketStartFor(x) \in Int /\ bucketStartFor(x) <= x
         /\ x < bucketStartFor(x) + BucketSecs
         /\ bucketStartFor(x) < bucketStartFor(y) =>
              bucketStartFor(x) + BucketSecs <= bucketStartFor(y)
<1> DEFINE B == BucketSecs
<1>0. B \in Nat /\ B > 0
  BY UsageBounds
<1>1. ASSUME NEW z \in Int
      PROVE  /\ z % B \in Int /\ 0 <= z % B /\ z % B < B /\ z \div B \in Int
             /\ z - (z % B) = B * (z \div B)
  <2> HIDE DEF B
  <2> QED
    BY <1>0
<1>2. ASSUME NEW m \in Int, NEW n \in Int, B * m < B * n
      PROVE  B * m + B <= B * n
  <2> HIDE DEF B
  <2>1. m < n
    <3> SUFFICES ASSUME n <= m PROVE B * n <= B * m
      BY <1>0, <1>2
    <3>1. m - n \in Nat
      OBVIOUS
    <3>2. B * (m - n) >= 0
      BY <3>1, <1>0
    <3>3. B * (m - n) = B * m - B * n
      BY <1>0
    <3> QED
      BY <3>2, <3>3, <1>0
  <2>2. n - m - 1 \in Nat
    BY <2>1
  <2>3. B * (n - m - 1) >= 0
    BY <2>2, <1>0
  <2>4. B * (n - m - 1) = B * n - B * m - B
    BY <1>0
  <2> QED
    BY <2>3, <2>4, <1>0
<1>3. bucketStartFor(x) = B * (x \div B) /\ bucketStartFor(y) = B * (y \div B)
  BY <1>1 DEF bucketStartFor
<1> QED
  <2>1. bucketStartFor(x) = x - (x % B)
    BY DEF bucketStartFor
  <2>2. /\ x % B \in Int /\ 0 <= x % B /\ x % B < B
        /\ x \div B \in Int /\ y \div B \in Int
    BY <1>1
  <2>3. bucketStartFor(x) < bucketStartFor(y) => bucketStartFor(x) + B <= bucketStartFor(y)
    BY <1>2, <1>3, <2>2
  <2> HIDE DEF B
  <2>4. bucketStartFor(x) \in Int /\ bucketStartFor(x) <= x /\ x < bucketStartFor(x) + B
    BY <2>1, <2>2, <1>0
  <2> QED
    BY <2>3, <2>4 DEF B

(* Later instants are in later buckets.                                    *)
LEMMA BucketsInOrder ==
  ASSUME NEW x \in Int, NEW y \in Int
  PROVE  /\ x <= y => bucketStartFor(x) <= bucketStartFor(y)
         /\ bucketStartFor(x) < bucketStartFor(y) <=> x < bucketStartFor(y)
<1>1. \A z \in Int : bucketStartFor(z) \in Int /\ bucketStartFor(z) <= z
  BY BucketsApart
<1>2. bucketStartFor(x) < bucketStartFor(y) => bucketStartFor(x) + BucketSecs <= bucketStartFor(y)
  BY BucketsApart
<1>3. bucketStartFor(y) < bucketStartFor(x) => bucketStartFor(y) + BucketSecs <= bucketStartFor(x)
  BY BucketsApart
<1>4. x < bucketStartFor(x) + BucketSecs /\ y < bucketStartFor(y) + BucketSecs
  BY BucketsApart
<1> QED
  BY <1>1, <1>2, <1>3, <1>4, UsageBounds
-----------------------------------------------------------------------------
(***************************************************************************)
(* Sums.  A fold over a set is a function on its subsets, which has to be  *)
(* shown to exist before anything can be said of its values.               *)
(***************************************************************************)
Pick(s) == CHOOSE x \in s : TRUE

IsSum(S, f, g) ==
  g = [s \in SUBSET S |-> IF s = {} THEN 0 ELSE f[Pick(s)] + g[s \ {Pick(s)}]]

Unfolds(s, f, g) == g[s] = IF s = {} THEN 0 ELSE f[Pick(s)] + g[s \ {Pick(s)}]

LEMMA SumUnfolds ==
  ASSUME NEW S, NEW f, NEW g, IsSum(S, f, g), NEW s \in SUBSET S
  PROVE  Unfolds(s, f, g)
BY DEF IsSum, Unfolds

LEMMA PickIsIn ==
  ASSUME NEW s, s # {}
  PROVE  Pick(s) \in s /\ s \ {Pick(s)} \in SUBSET s /\ s \ {Pick(s)} # s
BY DEF Pick

(* Among the subsets of a finite set that have a property, one has none of *)
(* its own proper subsets among them.                                      *)
LEMMA SmallestSubset ==
  ASSUME NEW S, IsFiniteSet(S), NEW D \in SUBSET SUBSET S, D # {}
  PROVE  \E T \in D : \A U \in SUBSET T : U # T => U \notin D
<1>1. D \subseteq FiniteSubsetsOf(S)
  <2>1. \A T \in SUBSET S : IsFiniteSet(T)
    BY FS_Subset
  <2> QED
    BY <2>1 DEF FiniteSubsetsOf
<1>2. PICK T \in D : \A U \in D : ~(<<U, T>> \in StrictSubsetOrdering(S))
  BY <1>1, FS_StrictSubsetOrderingWellFounded, WFMin
<1>3. ASSUME NEW U \in SUBSET T, U # T PROVE U \notin D
  <2>1. U \in SUBSET S /\ T \in SUBSET S
    BY <1>3
  <2>2. <<U, T>> \in StrictSubsetOrdering(S)
    BY <1>3, <2>1 DEF StrictSubsetOrdering
  <2> QED
    BY <1>2, <2>2
<1> QED
  BY <1>3

LEMMA SumsAgree ==
  ASSUME NEW S, IsFiniteSet(S), NEW f,
         NEW T \in SUBSET S, NEW U \in SUBSET S, NEW g, NEW h, IsSum(T, f, g), IsSum(U, f, h),
         NEW s \in SUBSET T, s \in SUBSET U
  PROVE  g[s] = h[s]
<1> DEFINE D == {d \in SUBSET S : d \subseteq T /\ d \subseteq U /\ g[d] # h[d]}
<1> SUFFICES ASSUME D # {} PROVE FALSE
  OBVIOUS
<1>1. PICK d \in D : \A e \in SUBSET d : e # d => e \notin D
  <2>1. D \in SUBSET SUBSET S
    OBVIOUS
  <2> HIDE DEF D
  <2> QED
    BY <2>1, SmallestSubset
<1>2. d \in SUBSET T /\ d \in SUBSET U /\ g[d] # h[d]
  OBVIOUS
<1>3. Unfolds(d, f, g) /\ Unfolds(d, f, h)
  BY <1>2, SumUnfolds
<1>4. d # {}
  BY <1>2, <1>3 DEF Unfolds
<1>5. PICK e : e = d \ {Pick(d)}
  OBVIOUS
<1>6. e \in SUBSET d /\ e # d
  BY <1>4, <1>5, PickIsIn
<1>7. g[e] = h[e]
  BY <1>1, <1>2, <1>6
<1> QED
  BY <1>2, <1>3, <1>4, <1>5, <1>7 DEF Unfolds

LEMMA SumExists ==
  ASSUME NEW S, IsFiniteSet(S), NEW f
  PROVE  \E g : IsSum(S, f, g)
<1> DEFINE D == {d \in SUBSET S : ~\E g : IsSum(d, f, g)}
<1> SUFFICES ASSUME D # {} PROVE FALSE
  OBVIOUS
<1>1. PICK T \in D : \A U \in SUBSET T : U # T => U \notin D
  <2>1. D \in SUBSET SUBSET S
    OBVIOUS
  <2> HIDE DEF D
  <2> QED
    BY <2>1, SmallestSubset
<1> DEFINE G(u) == CHOOSE g : IsSum(u, f, g)
           val == [s \in SUBSET T |->
                     IF s = {} THEN 0
                     ELSE f[Pick(s)] + G(s \ {Pick(s)})[s \ {Pick(s)}]]
<1>2. T \in SUBSET S
  OBVIOUS
<1>3. ASSUME NEW u \in SUBSET T, u # T PROVE IsSum(u, f, G(u))
  <2>1. \E g : IsSum(u, f, g)
    BY <1>1, <1>2, <1>3
  <2> QED
    BY <2>1
<1>4. ASSUME NEW u \in SUBSET T, u # T PROVE val[u] = G(u)[u]
  <2>1. val[u] = IF u = {} THEN 0 ELSE f[Pick(u)] + G(u \ {Pick(u)})[u \ {Pick(u)}]
    OBVIOUS
  <2> HIDE DEF val, G
  <2>2. IsSum(u, f, G(u)) /\ u \in SUBSET u
    BY <1>3, <1>4
  <2>3. G(u)[u] = IF u = {} THEN 0 ELSE f[Pick(u)] + G(u)[u \ {Pick(u)}]
    BY <2>2, SumUnfolds DEF Unfolds
  <2>4. CASE u = {}
    BY <2>1, <2>3, <2>4
  <2>5. CASE u # {}
    <3>1. PICK e : e = u \ {Pick(u)}
      OBVIOUS
    <3>2. e \in SUBSET u /\ e # u /\ e \in SUBSET T /\ e # T
      BY <1>4, <2>5, <3>1, PickIsIn
    <3>3. IsSum(e, f, G(e))
      BY <1>3, <3>2
    <3>4. e \in SUBSET S /\ u \in SUBSET S /\ e \in SUBSET e
      BY <1>2, <3>2, <1>4
    <3>5. G(u)[e] = G(e)[e]
      <4>1. PICK g, h : g = G(u) /\ h = G(e)
        OBVIOUS
      <4>2. IsSum(u, f, g) /\ IsSum(e, f, h)
        BY <2>2, <3>3, <4>1
      <4>3. g[e] = h[e]
        BY <3>2, <3>4, <4>2, SumsAgree
      <4> QED
        BY <4>1, <4>3
    <3> QED
      BY <2>1, <2>3, <2>5, <3>1, <3>5
  <2> QED
    BY <2>4, <2>5
<1>5. IsSum(T, f, val)
  <2>1. ASSUME NEW s \in SUBSET T, s # {}
        PROVE  val[s \ {Pick(s)}] = G(s \ {Pick(s)})[s \ {Pick(s)}]
    <3>1. s \ {Pick(s)} \in SUBSET T /\ s \ {Pick(s)} # T
      BY <2>1, PickIsIn
    <3> QED
      BY <1>4, <3>1
  <2> DEFINE rhs == [s \in SUBSET T |->
                       IF s = {} THEN 0 ELSE f[Pick(s)] + val[s \ {Pick(s)}]]
  <2>2. ASSUME NEW s \in SUBSET T PROVE val[s] = rhs[s]
    <3>1. val[s] = IF s = {} THEN 0 ELSE f[Pick(s)] + G(s \ {Pick(s)})[s \ {Pick(s)}]
      OBVIOUS
    <3> HIDE DEF val, G
    <3>2. rhs[s] = IF s = {} THEN 0 ELSE f[Pick(s)] + val[s \ {Pick(s)}]
      OBVIOUS
    <3> HIDE DEF rhs
    <3> QED
      BY <2>1, <3>1, <3>2
  <2>3. val = rhs
    BY <2>2
  <2> HIDE DEF val
  <2> QED
    BY <2>3 DEF IsSum
<1> QED
  BY <1>5

LEMMA SumsAreInts ==
  ASSUME NEW S, IsFiniteSet(S), NEW f, \A x \in S : f[x] \in Int, NEW g, IsSum(S, f, g)
  PROVE  g[S] \in Int
<1> DEFINE D == {d \in SUBSET S : g[d] \notin Int}
<1> SUFFICES ASSUME D # {} PROVE FALSE
  OBVIOUS
<1>1. PICK d \in D : \A e \in SUBSET d : e # d => e \notin D
  <2>1. D \in SUBSET SUBSET S
    OBVIOUS
  <2> HIDE DEF D
  <2> QED
    BY <2>1, SmallestSubset
<1>2. d \in SUBSET S /\ g[d] \notin Int
  OBVIOUS
<1>3. Unfolds(d, f, g)
  BY <1>2, SumUnfolds
<1>4. d # {}
  BY <1>2, <1>3 DEF Unfolds
<1>5. PICK e : e = d \ {Pick(d)}
  OBVIOUS
<1>6. e \in SUBSET d /\ e # d /\ Pick(d) \in S
  BY <1>2, <1>4, <1>5, PickIsIn
<1>7. g[e] \in Int
  BY <1>1, <1>2, <1>6
<1> QED
  BY <1>2, <1>3, <1>4, <1>5, <1>6, <1>7 DEF Unfolds

(* The two sums of the module.                                             *)
Sum(S, f) == (CHOOSE g : IsSum(S, f, g))[S]

LEMMA SumOfInts ==
  ASSUME NEW S, IsFiniteSet(S), NEW f, \A x \in S : f[x] \in Int
  PROVE  Sum(S, f) \in Int
<1>1. IsSum(S, f, CHOOSE g : IsSum(S, f, g))
  BY SumExists
<1> QED
  BY <1>1, SumsAreInts DEF Sum

LEMMA SumOfOne ==
  ASSUME NEW x, NEW f, f[x] \in Int
  PROVE  Sum({x}, f) = f[x]
<1> DEFINE g == CHOOSE h : IsSum({x}, f, h)
<1>1. IsSum({x}, f, g)
  BY SumExists, FS_Singleton
<1> HIDE DEF g
<1>2. Pick({x}) = x /\ {x} \ {x} = {}
  BY DEF Pick
<1>3. g[{x}] = f[x] + g[{}]
  BY <1>1, <1>2, SumUnfolds DEF Unfolds
<1>4. g[{}] = 0
  BY <1>1, SumUnfolds DEF Unfolds
<1> QED
  BY <1>2, <1>3, <1>4 DEF g, Sum

LEMMA NetIsInt ==
  ASSUME NEW rows \in SUBSET Row, IsFiniteSet(rows)
  PROVE  sumNet(rows) \in Int
<1> DEFINE f == [r \in rows |-> r.ev.qty]
<1>1. \A r \in rows : f[r] \in Int
  BY DEF Row, Event
<1>2. \A s \in SUBSET rows : s # {} => Pick(s).ev.qty = f[Pick(s)]
  BY PickIsIn
<1>3. \A g : IsSum(rows, f, g) <=>
        g = [s \in SUBSET rows |-> IF s = {} THEN 0 ELSE Pick(s).ev.qty + g[s \ {Pick(s)}]]
  <2> HIDE DEF f
  <2> QED
    BY <1>2 DEF IsSum
<1>4. sumNet(rows) = Sum(rows, f)
  <2>1. sumNet(rows) = (CHOOSE g :
          g = [s \in SUBSET rows |-> IF s = {} THEN 0 ELSE Pick(s).ev.qty + g[s \ {Pick(s)}]])[rows]
    BY DEF sumNet, MapThenSumSet, MapThenFoldSet, Pick
  <2> HIDE DEF f
  <2> QED
    BY <1>3, <2>1 DEF Sum
<1> HIDE DEF f
<1> QED
  BY <1>1, <1>4, SumOfInts

LEMMA QueryOfOne ==
  ASSUME NEW b, rollup[b].value \in Int
  PROVE  MapThenSumSet(LAMBDA c : rollup[c].value, {b}) = rollup[b].value
<1> DEFINE f == [c \in {b} |-> rollup[c].value]
<1>1. \A s \in SUBSET {b} : s # {} => rollup[Pick(s)].value = f[Pick(s)]
  BY PickIsIn
<1> DEFINE P(g) == g = [s \in SUBSET {b} |->
                          IF s = {} THEN 0 ELSE rollup[Pick(s)].value + g[s \ {Pick(s)}]]
<1>2. \A g : IsSum({b}, f, g) <=> P(g)
  <2> HIDE DEF f
  <2> QED
    BY <1>1 DEF IsSum
<1>3. MapThenSumSet(LAMBDA c : rollup[c].value, {b}) = Sum({b}, f)
  <2>1. MapThenSumSet(LAMBDA c : rollup[c].value, {b}) = (CHOOSE g : P(g))[{b}]
    BY DEF MapThenSumSet, MapThenFoldSet, Pick
  <2> HIDE DEF f, P
  <2>2. Sum({b}, f) = (CHOOSE g : IsSum({b}, f, g))[{b}]
    BY DEF Sum
  <2>3. (CHOOSE g : P(g)) = (CHOOSE g : IsSum({b}, f, g))
    BY <1>2, Zenon
  <2> QED
    BY <2>1, <2>2, <2>3
<1>4. f[b] = rollup[b].value
  OBVIOUS
<1> HIDE DEF f
<1> QED
  BY <1>3, <1>4, SumOfOne

(* Maxima.                                                                 *)
LEMMA MaxIs ==
  ASSUME NEW S \in SUBSET Int, IsFiniteSet(S), S # {}
  PROVE  Max(S) \in S /\ \A y \in S : Max(S) >= y
<1> DEFINE Above(x) == {y \in S : y > x}
           D == {Above(x) : x \in S}
<1>1. PICK T \in D : \A U \in SUBSET T : U # T => U \notin D
  <2>1. D \in SUBSET SUBSET S /\ D # {}
    OBVIOUS
  <2> HIDE DEF D
  <2> QED
    BY <2>1, SmallestSubset
<1>2. PICK x \in S : T = Above(x)
  OBVIOUS
<1>3. ASSUME NEW y \in S, y > x PROVE FALSE
  <2>1. Above(y) \in D
    OBVIOUS
  <2>3. Above(y) \subseteq Above(x)
    <3>1. ASSUME NEW z \in S, z > y PROVE z > x
      <4>1. x \in Int /\ y \in Int /\ z \in Int
        OBVIOUS
      <4> HIDE DEF D
      <4> QED
        BY <1>3, <3>1, <4>1
    <3> QED
      BY <3>1
  <2>2. y \in Above(x) /\ y \notin Above(y)
    BY <1>3
  <2> HIDE DEF D, Above
  <2> QED
    BY <1>1, <1>2, <2>1, <2>2, <2>3
<1>4. \A y \in S : x >= y
  BY <1>3
<1> QED
  BY <1>4 DEF Max

LEMMA MaxOfTwo ==
  ASSUME NEW x \in Int, NEW y \in Int
  PROVE  /\ Max({x, y}) \in {x, y} /\ Max({x, y}) >= x /\ Max({x, y}) >= y
         /\ Min({x, y}) \in {x, y} /\ Min({x, y}) <= x /\ Min({x, y}) <= y
BY DEF Max, Min

LEMMA FiniteImage ==
  ASSUME NEW S, IsFiniteSet(S), NEW f
  PROVE  IsFiniteSet({f[x] : x \in S})
<1> DEFINE T == {f[x] : x \in S}
           h == [x \in S |-> f[x]]
<1>1. h \in Surjection(S, T)
  BY DEF Surjection
<1> HIDE DEF T, h
<1>2. IsFiniteSet(T)
  BY <1>1, FS_Surjection
<1> QED
  BY <1>2 DEF T
-----------------------------------------------------------------------------
(***************************************************************************)
(* What is kept.                                                           *)
(***************************************************************************)
Buckets == {<<t, e, bucketStartFor(x)>> : t \in Metered, e \in Entitlements, x \in Int}

(* The rows somebody has read or accepted and not written yet.             *)
Reading == sweep.rows \union UNION {request[p] : p \in {q \in Producers : request[q] # NoValue}}

SweepShape ==
  /\ sweep.pc = "idle" => sweep = NoSweep
  /\ sweep.pc = "tenants" => sweep.rows = {} /\ sweep.tenant = NoValue
  /\ sweep.pc = "fold" => sweep.tenant \in sweep.todo /\ sweep.rows = Of(sweep.tenant, sweep.rows)

Finite ==
  /\ IsFiniteSet(raw) /\ IsFiniteSet(folded) /\ IsFiniteSet(unique) /\ IsFiniteSet(sweep.rows)
  /\ \A p \in Producers : request[p] # NoValue => IsFiniteSet(request[p])

UsageTyped == TypeOK /\ SweepShape /\ Finite /\ DOMAIN rollup \subseteq Buckets

(* A set of values has the values of the rows that went into it.           *)
Matched(b) ==
  Distinct(b) => {v \in unique : v.bucket = b} =
                 {[bucket |-> b, dim |-> r.ev.dim] : r \in In(b, folded)}

Whole(b) == In(b, folded) \subseteq raw /\ Matched(b)
Gone(b) == b[3] < firstOpenBucket /\ In(b, raw \union Reading) = {}
Standing(b) == b \in tainted \/ Whole(b) \/ Gone(b)
Standings == \A b \in Buckets : Standing(b)

(* What a sweep has read is still there.                                   *)
NotOvertaken == \A r \in sweep.rows : r \in raw \/ BucketOf(r) \in tainted

(* One row for a key of a tenant.                                          *)
Keyed(rows) ==
  \A r, s \in rows : r.ev.tenant = s.ev.tenant /\ r.ev.key = s.ev.key => r = s
Keys == Keyed(raw) /\ \A p \in Producers : request[p] # NoValue => Keyed(request[p])

Totals == \A b \in DOMAIN rollup : b \notin tainted => rollup[b].value = FoldedNet(b)

AccountsInv == Standings /\ NotOvertaken /\ Keys /\ Totals /\ AccruedOnce

UsageInv == UsageTyped /\ AccountsInv

LEMMA StampType ==
  ASSUME NEW at \in Stamp
  PROVE  /\ at \in Nat /\ Ms(at) \in Stamp /\ Ms(at) <= at
BY UsageBounds DEF Stamp, Ms

LEMMA RowShape ==
  ASSUME NEW r \in Row
  PROVE  /\ r.ev \in Event /\ r.ev.tenant \in Metered /\ r.ev.ent \in Entitlements
         /\ r.ev.time \in Int /\ r.at \in Stamp /\ BucketOf(r) \in Buckets
         /\ BucketOf(r)[1] = r.ev.tenant /\ BucketOf(r)[2] = r.ev.ent
         /\ BucketOf(r)[3] = bucketStartFor(r.ev.time)
BY DEF Row, Event, BucketOf, Buckets

LEMMA ReadingIs ==
  ASSUME UsageTyped
  PROVE  /\ Reading \subseteq Row
         /\ \A r : r \in Reading <=>
              \/ r \in sweep.rows
              \/ \E p \in Producers : request[p] # NoValue /\ r \in request[p]
<1>1. sweep.rows \subseteq Row /\ \A p \in Producers : request[p] # NoValue => request[p] \subseteq Row
  BY DEF UsageTyped, TypeOK, SweepState
<1> QED
  BY <1>1 DEF Reading
-----------------------------------------------------------------------------
(***************************************************************************)
(* Types.                                                                  *)
(***************************************************************************)
LEMMA SinceType == ASSUME UsageTyped PROVE since \in Watermark /\ since \in Nat
BY StampType DEF UsageTyped, TypeOK, Watermark

LEMMA NoSweepType == NoSweep \in SweepState
<1>1. 0 \in Stamp /\ Ms(0) = 0
  BY UsageBounds DEF Stamp, Ms
<1>2. 0 \in Watermark
  BY <1>1 DEF Watermark
<1> QED
  BY <1>2 DEF NoSweep, SweepState

(* What a batch means for the watermark.                                   *)
LEMMA LastIs ==
  ASSUME UsageTyped, NEW last, last = Max({since} \union {Ms(r.at) : r \in sweep.rows})
  PROVE  /\ last \in {since} \union {Ms(r.at) : r \in sweep.rows}
         /\ last \in Watermark
<1> DEFINE M == {Ms(r.at) : r \in sweep.rows}
<1>1. \A r \in sweep.rows : r.at \in Stamp
  BY RowShape DEF UsageTyped, TypeOK, SweepState
<1>2. IsFiniteSet(M)
  <2> DEFINE f == [r \in sweep.rows |-> Ms(r.at)]
  <2>1. M = {f[r] : r \in sweep.rows}
    OBVIOUS
  <2> HIDE DEF M, f
  <2> QED
    BY <2>1, FiniteImage DEF UsageTyped, Finite
<1>3. M \subseteq Watermark /\ since \in Watermark
  BY <1>1 DEF UsageTyped, TypeOK, Watermark
<1>4. Watermark \subseteq Int
  BY StampType DEF Stamp, Watermark
<1>5. IsFiniteSet({since} \union M)
  BY <1>2, FS_Singleton, FS_Union
<1> HIDE DEF M
<1>6. {since} \union M \subseteq Int /\ {since} \union M # {}
  BY <1>3, <1>4
<1>7. Max({since} \union M) \in {since} \union M
  BY <1>5, <1>6, MaxIs
<1> QED
  BY <1>3, <1>7 DEF M

LEMMA DoneType ==
  ASSUME UsageTyped, sweep.pc = "fold"
  PROVE  /\ Done(sweep) \in SweepState /\ Done(sweep).pc = "tenants"
         /\ Done(sweep).rows = {} /\ Done(sweep).tenant = NoValue
         /\ Done(sweep).todo = sweep.todo \ {sweep.tenant}
<1> DEFINE last == Max({since} \union {Ms(r.at) : r \in sweep.rows})
<1>1. last \in Watermark
  BY LastIs
<1>2. sweep \in SweepState
  BY DEF UsageTyped, TypeOK
<1>3. ASSUME NEW x \in Watermark, NEW y \in Watermark
      PROVE  Max({x, y}) \in Watermark /\ Min({x, y}) \in Watermark
  <2>1. x \in Int /\ y \in Int
    BY StampType DEF Watermark
  <2> QED
    BY <2>1, MaxOfTwo
<1> HIDE DEF last
<1>4. /\ Max({sweep.globalMax, last}) \in Watermark
      /\ sweep.cappedMin # NoValue => Min({sweep.cappedMin, last}) \in Watermark
  BY <1>1, <1>2, <1>3 DEF SweepState
<1>5. Done(sweep) = [sweep EXCEPT
        !.pc = "tenants", !.todo = @ \ {sweep.tenant}, !.tenant = NoValue, !.rows = {},
        !.globalMax = Max({@, last}),
        !.cappedMin = CASE Cardinality(sweep.rows) < MaxBatch -> @
                        [] @ = NoValue -> last
                        [] OTHER -> Min({@, last})]
  BY DEF Done, last
<1>6. PICK min, max : /\ max = Max({sweep.globalMax, last})
                       /\ min = CASE Cardinality(sweep.rows) < MaxBatch -> sweep.cappedMin
                                  [] sweep.cappedMin = NoValue -> last
                                  [] OTHER -> Min({sweep.cappedMin, last})
  OBVIOUS
<1>7. min \in Watermark \union {NoValue} /\ max \in Watermark
  BY <1>1, <1>2, <1>4, <1>6 DEF SweepState
<1>8. PICK todo : todo = sweep.todo \ {sweep.tenant}
  OBVIOUS
<1>9. todo \in SUBSET Metered
  BY <1>2, <1>8 DEF SweepState
<1>10. Done(sweep) = [sweep EXCEPT !.pc = "tenants", !.todo = todo, !.tenant = NoValue,
                       !.rows = {}, !.globalMax = max, !.cappedMin = min]
  BY <1>5, <1>6, <1>8
<1>11. Done(sweep) = [pc |-> "tenants", todo |-> todo, tenant |-> NoValue, rows |-> {},
                      globalMax |-> max, cappedMin |-> min]
  BY <1>2, <1>10 DEF SweepState
<1> QED
  BY <1>7, <1>8, <1>9, <1>11 DEF SweepState

LEMMA SweepGoesOn ==
  ASSUME UsageTyped, NEW s \in SweepState, s.pc = "tenants", s.rows = {}, s.tenant = NoValue, GoOn(s)
  PROVE  /\ sweep' \in SweepState /\ since' \in Watermark /\ SweepShape' /\ sweep'.rows = {}
<1>1. CASE s.todo = {}
  <2>1. sweep' = NoSweep /\ since' = nextSince(s)
    BY <1>1 DEF GoOn
  <2>2. since' \in Watermark
    BY <2>1 DEF nextSince, SweepState
  <2>3. NoSweep.pc = "idle" /\ NoSweep.rows = {}
    BY DEF NoSweep
  <2> QED
    BY <2>1, <2>2, <2>3, NoSweepType DEF SweepShape
<1>2. CASE s.todo # {}
  <2>1. sweep' = s /\ since' = since
    BY <1>2 DEF GoOn
  <2> QED
    BY <2>1, SinceType DEF SweepShape
<1> QED
  BY <1>1, <1>2

(* The rows an ingest appends.                                             *)
Accepted(batch, f) ==
  {[ev |-> batch[i], at |-> 2 * now + f] : i \in {j \in DOMAIN batch : Eligible(batch[j])}}

LEMMA AcceptedType ==
  ASSUME UsageTyped, NEW batch \in Batches, NEW f \in Fractions
  PROVE  /\ Accepted(batch, f) \subseteq Row /\ IsFiniteSet(Accepted(batch, f))
         /\ Keyed(Accepted(batch, f))
         /\ \A r \in Accepted(batch, f) :
              /\ r.at = 2 * now + f
              /\ r.ev.time \in Int /\ r.ev.time >= now - RetentionSecs
<1>1. batch \in Seq(Event) /\ now \in Time /\ f \in {0, 1}
  BY BatchesAssumption, UsageBounds DEF UsageTyped, TypeOK
<1>2. 2 * now + f \in Stamp
  BY <1>1, UsageBounds DEF Time, Stamp
<1>3. DOMAIN batch = 1 .. Len(batch) /\ Len(batch) \in Nat /\ \A i \in DOMAIN batch : batch[i] \in Event
  BY <1>1
<1> DEFINE I == {j \in DOMAIN batch : Eligible(batch[j])}
           g == [i \in I |-> [ev |-> batch[i], at |-> 2 * now + f]]
<1>4. Accepted(batch, f) \subseteq Row
  BY <1>2, <1>3 DEF Accepted, Row
<1>5. IsFiniteSet(I)
  <2>1. IsFiniteSet(DOMAIN batch)
    BY <1>3, FS_Interval
  <2> QED
    BY <2>1, FS_Subset
<1>6. IsFiniteSet(Accepted(batch, f))
  <2>1. Accepted(batch, f) = {g[i] : i \in I}
    BY DEF Accepted
  <2> HIDE DEF I, g
  <2> QED
    BY <1>5, <2>1, FiniteImage
<1>7. Keyed(Accepted(batch, f))
  <2> SUFFICES ASSUME NEW i \in I, NEW j \in I, batch[i].tenant = batch[j].tenant, batch[i].key = batch[j].key
               PROVE  batch[i] = batch[j]
    BY DEF Keyed, Accepted
  <2> QED
    BY BatchesAssumption
<1>8. ASSUME NEW e \in Event, Eligible(e)
      PROVE  e.time \in Int /\ e.time >= now - RetentionSecs
  <2>1. e.time \in Int /\ now \in Int /\ RetentionSecs \in Int
    BY <1>1, UsageBounds DEF Time, Event
  <2>2. ~(e.time < now - RetentionSecs)
    BY <1>8 DEF Eligible, classifyAcceptance
  <2> QED
    BY <2>1, <2>2
<1>9. ASSUME NEW r \in Accepted(batch, f)
      PROVE  r.at = 2 * now + f /\ r.ev.time \in Int /\ r.ev.time >= now - RetentionSecs
  <2>1. PICK i \in I : r = [ev |-> batch[i], at |-> 2 * now + f]
    BY <1>9 DEF Accepted
  <2> QED
    BY <1>3, <1>8, <2>1
<1> QED
  BY <1>4, <1>6, <1>7, <1>9

LEMMA IngestTyped ==
  ASSUME UsageTyped, NEW p \in Producers, NEW batch \in Batches, ingestBatch(p, batch)
  PROVE  UsageTyped'
<1>1. PICK f \in Fractions : request' = [request EXCEPT ![p] = Accepted(batch, f)]
  BY DEF ingestBatch, Accepted
<1>2. Accepted(batch, f) \subseteq Row /\ IsFiniteSet(Accepted(batch, f))
  BY AcceptedType
<1>3. request' \in [Producers -> (SUBSET Row) \union {NoValue}]
  BY <1>1, <1>2 DEF UsageTyped, TypeOK
<1>4. \A q \in Producers : request'[q] # NoValue => IsFiniteSet(request'[q])
  BY <1>1, <1>2 DEF UsageTyped, TypeOK, Finite
<1>5. requests' \in 0 .. MaxRequests
  BY UsageBounds DEF ingestBatch, UsageTyped, TypeOK
<1> QED
  BY <1>3, <1>4, <1>5
     DEF ingestBatch, UsageTyped, TypeOK, Finite, SweepShape

LEMMA AppendTyped ==
  ASSUME UsageTyped, NEW p \in Producers, appendBatch(p)
  PROVE  UsageTyped'
<1>1. request[p] \subseteq Row /\ IsFiniteSet(request[p])
  BY DEF appendBatch, UsageTyped, TypeOK, Finite
<1>2. Fresh(request[p]) \subseteq Row /\ IsFiniteSet(Fresh(request[p]))
  <2>1. Fresh(request[p]) \in SUBSET request[p]
    BY DEF Fresh
  <2> QED
    BY <1>1, <2>1, FS_Subset
<1>3. raw' = raw \union Fresh(request[p]) /\ late' \subseteq late \union Fresh(request[p])
      /\ request' = [request EXCEPT ![p] = NoValue]
  BY DEF appendBatch
<1>4. raw' \subseteq Row /\ IsFiniteSet(raw') /\ late' \subseteq Row
  BY <1>2, <1>3, FS_Union DEF UsageTyped, TypeOK, Finite
<1>5. /\ request' \in [Producers -> (SUBSET Row) \union {NoValue}]
      /\ \A q \in Producers : request'[q] # NoValue => IsFiniteSet(request'[q])
  BY <1>3 DEF UsageTyped, TypeOK, Finite
<1> QED
  BY <1>4, <1>5 DEF appendBatch, UsageTyped, TypeOK, Finite, SweepShape

LEMMA BeginTyped ==
  ASSUME UsageTyped, SweepBegin
  PROVE  UsageTyped'
<1>1. sweep' = [NoSweep EXCEPT !.pc = "tenants", !.globalMax = since,
                  !.todo = {r.ev.tenant : r \in {x \in raw : Due(x)}}]
  BY DEF SweepBegin
<1>2. {r.ev.tenant : r \in {x \in raw : Due(x)}} \subseteq Metered
  BY RowShape DEF UsageTyped, TypeOK
<1>3. sweep' \in SweepState /\ sweep'.pc = "tenants" /\ sweep'.rows = {} /\ sweep'.tenant = NoValue
  BY <1>1, <1>2, SinceType, UsageBounds DEF NoSweep, SweepState
<1> QED
  BY <1>3, FS_EmptySet DEF SweepBegin, UsageTyped, TypeOK, Finite, SweepShape

LEMMA SelectTyped ==
  ASSUME UsageTyped, NEW t \in Metered, selectRawSince(t)
  PROVE  /\ UsageTyped' /\ sweep'.rows \subseteq raw
<1>1. PICK S : /\ S \subseteq Of(t, raw) /\ sweep' = [sweep EXCEPT !.pc = "fold", !.tenant = t, !.rows = S]
               /\ t \in sweep.todo
  BY DEF selectRawSince, Oldest
<1>2. S \subseteq raw /\ S = Of(t, S) /\ IsFiniteSet(S)
  <2>1. S \in SUBSET raw /\ S = Of(t, S)
    BY <1>1 DEF Of
  <2> QED
    BY <2>1, FS_Subset DEF UsageTyped, Finite
<1>3. sweep \in SweepState
  BY DEF UsageTyped, TypeOK
<1>4. S \subseteq Row
  BY <1>2 DEF UsageTyped, TypeOK
<1>5. /\ sweep' \in SweepState /\ sweep'.pc = "fold" /\ sweep'.rows = S /\ sweep'.tenant = t
      /\ sweep'.todo = sweep.todo
  BY <1>1, <1>3, <1>4 DEF SweepState
<1> QED
  BY <1>1, <1>2, <1>5 DEF selectRawSince, UsageTyped, TypeOK, Finite, SweepShape

LEMMA TickTyped == ASSUME UsageTyped, Tick PROVE UsageTyped'
<1>1. now' \in Time
  BY UsageBounds DEF Tick, UsageTyped, TypeOK, Time
<1> QED
  BY <1>1 DEF Tick, UsageTyped, TypeOK, Finite, SweepShape

LEMMA FaultsType ==
  ASSUME UsageTyped, faults < MaxFaults, faults' = faults + 1
  PROVE  faults' \in 0 .. MaxFaults
BY UsageBounds DEF UsageTyped, TypeOK

LEMMA RestartTyped == ASSUME UsageTyped, Restart PROVE UsageTyped'
<1>1. 0 \in Watermark
  BY NoSweepType DEF NoSweep, SweepState
<1>2. request' = [q \in Producers |-> NoValue] /\ sweep' = NoSweep /\ since' = 0 /\ faults' \in 0 .. MaxFaults
  BY FaultsType DEF Restart
<1>3. NoSweep.rows = {} /\ NoSweep.pc = "idle"
  BY DEF NoSweep
<1>4. /\ request' \in [Producers -> (SUBSET Row) \union {NoValue}]
      /\ \A q \in Producers : request'[q] = NoValue
  BY <1>2
<1> QED
  BY <1>1, <1>2, <1>3, <1>4, NoSweepType, FS_EmptySet
     DEF Restart, UsageTyped, TypeOK, Finite, SweepShape

LEMMA FailsTyped ==
  ASSUME UsageTyped, NEW t \in Metered, SweepFails(t)
  PROVE  UsageTyped' /\ sweep'.rows = {}
<1> DEFINE s == [sweep EXCEPT !.pc = "tenants", !.todo = @ \ {t}, !.tenant = NoValue, !.rows = {}]
<1>1. sweep \in SweepState
  BY DEF UsageTyped, TypeOK
<1>2. s \in SweepState /\ s.pc = "tenants" /\ s.rows = {} /\ s.tenant = NoValue
  BY <1>1 DEF SweepState
<1>3. GoOn(s) /\ late' = late \union Of(t, raw) /\ faults' \in 0 .. MaxFaults
  BY FaultsType DEF SweepFails
<1> HIDE DEF s
<1>4. sweep' \in SweepState /\ since' \in Watermark /\ SweepShape' /\ sweep'.rows = {}
  BY <1>2, <1>3, SweepGoesOn
<1>5. late' \subseteq Row
  BY <1>3 DEF UsageTyped, TypeOK, Of
<1> QED
  BY <1>3, <1>4, <1>5, FS_EmptySet DEF SweepFails, UsageTyped, TypeOK, Finite

LEMMA PruneTyped ==
  ASSUME UsageTyped, NEW t \in Metered, pruneTenant(t)
  PROVE  UsageTyped'
<1>1. raw' \in SUBSET raw /\ late' \in SUBSET late /\ unique' \in SUBSET unique
  BY DEF pruneTenant
<1>2. raw' \subseteq Row /\ late' \subseteq Row /\ IsFiniteSet(raw') /\ IsFiniteSet(unique')
  BY <1>1, FS_Subset DEF UsageTyped, TypeOK, Finite
<1> QED
  BY <1>2 DEF pruneTenant, UsageTyped, TypeOK, Finite, SweepShape

LEMMA EraseTyped ==
  ASSUME UsageTyped, NEW t \in Metered, eraseTenantUsage(t)
  PROVE  UsageTyped'
<1>1. /\ raw' \in SUBSET raw /\ late' \in SUBSET late /\ folded' \in SUBSET folded
      /\ unique' \in SUBSET unique
  BY DEF eraseTenantUsage
<1>2. /\ raw' \subseteq Row /\ late' \subseteq Row /\ folded' \subseteq Row
      /\ IsFiniteSet(raw') /\ IsFiniteSet(folded') /\ IsFiniteSet(unique')
  BY <1>1, FS_Subset DEF UsageTyped, TypeOK, Finite
<1>3. rollup' = [b \in {c \in DOMAIN rollup : c[1] # t} |-> rollup[b]]
  BY DEF eraseTenantUsage
<1>4. DOMAIN rollup' \subseteq DOMAIN rollup /\ \A b \in DOMAIN rollup' : rollup'[b] = rollup[b]
  BY <1>3
<1>5. faults' \in 0 .. MaxFaults
  BY FaultsType DEF eraseTenantUsage
<1> QED
  BY <1>2, <1>4, <1>5 DEF eraseTenantUsage, UsageTyped, TypeOK, Finite, SweepShape

LEMMA ValueType ==
  ASSUME NEW b, NEW values, IsFiniteSet(values), NEW rows \in SUBSET Row, IsFiniteSet(rows)
  PROVE  Value(b, values, rows) \in Int
<1>1. uniqueCount(b, values) \in Int
  BY FS_Subset, FS_CardinalityType DEF uniqueCount
<1>2. sumNet(In(b, rows)) \in Int
  <2>1. In(b, rows) \in SUBSET rows
    BY DEF In
  <2> QED
    BY <2>1, FS_Subset, NetIsInt
<1> QED
  BY <1>1, <1>2 DEF Value

Touched == {BucketOf(r) : r \in sweep.rows}

(* What the roll-up of a tenant writes.                                    *)
LEMMA FoldWrites ==
  ASSUME UsageTyped, rollupTenant
  PROVE  /\ unique' = insertUniqueValues(sweep.rows)
         /\ DOMAIN rollup' = DOMAIN rollup \union Touched
         /\ \A b \in DOMAIN rollup' :
              rollup'[b] = IF b \in Touched THEN rollupBucket(b, unique') ELSE rollup[b]
         /\ folded' = folded \union {r \in raw : BucketOf(r) \in Touched
              /\ (Distinct(BucketOf(r)) => r \in sweep.rows)}
         /\ sweep.pc = "fold" /\ GoOn(Done(sweep))
         /\ late' = late \union Split(sweep)
         /\ UNCHANGED <<now, requests, request, raw, faults, tainted>>
<1>1. rollup' = [b \in DOMAIN rollup \union Touched |->
                   IF b \in Touched THEN rollupBucket(b, unique') ELSE rollup[b]]
  BY DEF rollupTenant, upsertRollup, Touched
<1>2. /\ DOMAIN rollup' = DOMAIN rollup \union Touched
      /\ \A b \in DOMAIN rollup' :
           rollup'[b] = IF b \in Touched THEN rollupBucket(b, unique') ELSE rollup[b]
  BY <1>1
<1> QED
  BY <1>2 DEF rollupTenant, Touched

LEMMA FoldTyped ==
  ASSUME UsageTyped, rollupTenant
  PROVE  UsageTyped' /\ sweep'.rows = {}
<1>1. sweep.rows \subseteq Row /\ IsFiniteSet(sweep.rows) /\ raw \subseteq Row /\ IsFiniteSet(raw)
  BY DEF UsageTyped, TypeOK, SweepState, Finite
<1>2. IsFiniteSet(unique')
  <2> DEFINE R == {x \in sweep.rows : Distinct(BucketOf(x))}
             f == [r \in R |-> [bucket |-> BucketOf(r), dim |-> r.ev.dim]]
  <2>1. IsFiniteSet(R)
    BY <1>1, FS_Subset
  <2>2. insertUniqueValues(sweep.rows) = unique \union {f[r] : r \in R}
    BY DEF insertUniqueValues
  <2> HIDE DEF R, f
  <2>3. IsFiniteSet({f[r] : r \in R})
    BY <2>1, FiniteImage
  <2>4. IsFiniteSet(unique)
    BY DEF UsageTyped, Finite
  <2>5. IsFiniteSet(unique \union {f[r] : r \in R})
    BY <2>3, <2>4, FS_Union
  <2> QED
    BY <2>2, <2>5, FoldWrites
<1>3. ASSUME NEW b PROVE rollupBucket(b, unique') \in Total
  <2>1. Value(b, unique', raw) \in Int
    BY <1>1, <1>2, ValueType
  <2>2. Cardinality(In(b, raw)) \in Nat
    <3>1. In(b, raw) \in SUBSET raw
      BY DEF In
    <3> QED
      BY <1>1, <3>1, FS_Subset, FS_CardinalityType
  <2>3. isOverQuota(Value(b, unique', raw), Allowance[b[2]]) \in BOOLEAN
    BY DEF isOverQuota
  <2> QED
    BY <2>1, <2>2, <2>3 DEF rollupBucket, Total
<1>4. \A b \in DOMAIN rollup' : rollup'[b] \in Total
  BY <1>3, FoldWrites DEF UsageTyped, TypeOK
<1>5. DOMAIN rollup' \subseteq Buckets
  BY <1>1, RowShape, FoldWrites DEF Touched, UsageTyped
<1>6. folded' \subseteq Row /\ IsFiniteSet(folded')
  <2>1. PICK N \in SUBSET raw : folded' = folded \union N
    BY FoldWrites
  <2>2. IsFiniteSet(N) /\ N \subseteq Row
    BY <1>1, <2>1, FS_Subset
  <2> QED
    BY <2>1, <2>2, FS_Union DEF UsageTyped, TypeOK, Finite
<1>7. sweep' \in SweepState /\ since' \in Watermark /\ SweepShape' /\ sweep'.rows = {}
  BY FoldWrites, DoneType, SweepGoesOn
<1>8. late' \subseteq Row
  <2>1. Split(sweep) \subseteq Row
    BY <1>1 DEF Split, Of
  <2> QED
    BY <2>1, FoldWrites DEF UsageTyped, TypeOK
<1> QED
  BY <1>2, <1>4, <1>5, <1>6, <1>7, <1>8, FoldWrites, FS_EmptySet DEF UsageTyped, TypeOK, Finite
-----------------------------------------------------------------------------
(***************************************************************************)
(* Accounts.                                                               *)
(***************************************************************************)
LEMMA OpenBucket ==
  ASSUME UsageTyped
  PROVE  /\ firstOpenBucket \in Int /\ now \in Nat
         /\ \A x \in Int : /\ x >= now - RetentionSecs => bucketStartFor(x) >= firstOpenBucket
                           /\ x < firstOpenBucket <=> bucketStartFor(x) < firstOpenBucket
<1>1. now \in Nat /\ now - RetentionSecs \in Int
  BY UsageBounds DEF UsageTyped, TypeOK, Time
<1>2. firstOpenBucket \in Int
  BY <1>1, BucketsApart DEF firstOpenBucket
<1>3. ASSUME NEW x \in Int
      PROVE  /\ x >= now - RetentionSecs => bucketStartFor(x) >= firstOpenBucket
             /\ x < firstOpenBucket <=> bucketStartFor(x) < firstOpenBucket
  <2>1. bucketStartFor(x) \in Int
    BY BucketsApart
  <2> QED
    BY <1>1, <2>1, BucketsInOrder DEF firstOpenBucket
<1> QED
  BY <1>1, <1>2, <1>3

(* A step that writes no total and takes no row away keeps the accounts,   *)
(* if the rows it lets in belong to open buckets.                          *)
Harmless ==
  /\ UNCHANGED <<rollup, unique, folded, tainted>>
  /\ raw \subseteq raw' /\ now <= now'
  /\ \A r \in raw' \union Reading' :
       r \in raw \union Reading \/ bucketStartFor(r.ev.time) >= firstOpenBucket

LEMMA HarmlessStands ==
  ASSUME UsageTyped, UsageTyped', Standings, Harmless
  PROVE  Standings'
<1> SUFFICES ASSUME NEW b \in Buckets PROVE Standing(b)'
  BY DEF Standings
<1>1. firstOpenBucket \in Int /\ firstOpenBucket' \in Int /\ firstOpenBucket <= firstOpenBucket'
  <2>1. now \in Int /\ now' \in Int /\ RetentionSecs \in Int /\ now <= now'
    BY UsageBounds DEF Harmless, UsageTyped, TypeOK, Time
  <2>2. now - RetentionSecs \in Int /\ now' - RetentionSecs \in Int
        /\ now - RetentionSecs <= now' - RetentionSecs
    <3>1. \A m, n, k \in Int : m <= n => m - k \in Int /\ n - k \in Int /\ m - k <= n - k
      OBVIOUS
    <3> QED
      BY <2>1, <3>1
  <2> QED
    BY <2>2, BucketsInOrder, BucketsApart DEF firstOpenBucket
<1>2. Standing(b)
  BY DEF Standings
<1>3. b \in tainted => Standing(b)'
  BY DEF Standing, Harmless
<1>4. Whole(b) => Standing(b)'
  BY DEF Standing, Whole, Matched, Harmless, In
<1>5. ASSUME Gone(b) PROVE Gone(b)'
  <2>1. b[3] \in Int
    BY BucketsApart DEF Buckets
  <2>2. b[3] < firstOpenBucket'
    BY <1>1, <1>5, <2>1 DEF Gone
  <2>3. ASSUME NEW r \in raw' \union Reading', BucketOf(r) = b PROVE FALSE
    <3>1. r \in raw \union Reading \/ bucketStartFor(r.ev.time) >= firstOpenBucket
      BY <2>3 DEF Harmless
    <3>2. r \notin raw \union Reading
      BY <1>5, <2>3 DEF Gone, In
    <3>3. b[3] = bucketStartFor(r.ev.time)
      BY <2>3 DEF BucketOf
    <3> QED
      BY <1>1, <1>5, <2>1, <3>1, <3>2, <3>3 DEF Gone
  <2> QED
    BY <2>2, <2>3 DEF Gone, In
<1> QED
  BY <1>2, <1>3, <1>4, <1>5 DEF Standing

LEMMA SameTotals ==
  ASSUME Totals, UNCHANGED <<rollup, folded, tainted>>
  PROVE  Totals'
BY DEF Totals, FoldedNet, Value, In, uniqueCount

LEMMA IngestCounts ==
  ASSUME UsageInv, NEW p \in Producers, NEW batch \in Batches, ingestBatch(p, batch), UsageTyped'
  PROVE  AccountsInv'
<1>0. UsageTyped /\ AccountsInv
  BY DEF UsageInv
<1>1. PICK f \in Fractions : request' = [request EXCEPT ![p] = Accepted(batch, f)]
  BY DEF ingestBatch, Accepted
<1>2. UNCHANGED <<now, raw, rollup, unique, sweep, folded, tainted>>
  BY DEF ingestBatch
<1>3. \A q \in Producers : request'[q] = IF q = p THEN Accepted(batch, f) ELSE request[q]
  BY <1>0, <1>1 DEF UsageTyped, TypeOK
<1>4. \A r \in Accepted(batch, f) : bucketStartFor(r.ev.time) >= firstOpenBucket
  BY <1>0, AcceptedType, OpenBucket
<1>5. Harmless
  <2>1. \A r \in Reading' : r \in Reading \/ r \in Accepted(batch, f)
    <3>1. \A r : r \in Reading' <=>
             \/ r \in sweep'.rows
             \/ \E q \in Producers : request'[q] # NoValue /\ r \in request'[q]
      BY DEF Reading
    <3> QED
      BY <1>0, <1>2, <1>3, <3>1, ReadingIs
  <2>2. now \in Nat
    BY <1>0, OpenBucket
  <2> QED
    BY <1>2, <1>4, <2>1, <2>2 DEF Harmless
<1>6. Standings'
  BY <1>0, <1>5, HarmlessStands DEF AccountsInv
<1>7. Keys'
  BY <1>0, <1>2, <1>3, AcceptedType DEF AccountsInv, Keys, Keyed
<1>8. Totals'
  BY <1>0, <1>2, SameTotals DEF AccountsInv
<1> QED
  BY <1>0, <1>2, <1>6, <1>7, <1>8 DEF AccountsInv, NotOvertaken, AccruedOnce

(* The clock, a restart, and what a sweep does but write totals.           *)
LEMMA CalmCounts ==
  ASSUME UsageInv, UsageTyped', UNCHANGED <<raw, rollup, unique, folded, tainted>>, now <= now',
         \A q \in Producers : request'[q] = request[q] \/ request'[q] = NoValue,
         sweep'.rows \subseteq sweep.rows \union raw
  PROVE  AccountsInv'
<1>0. UsageTyped /\ AccountsInv
  BY DEF UsageInv
<1>1. \A r \in Reading' : r \in Reading \/ r \in raw
  <2>1. \A r : r \in Reading' <=>
           \/ r \in sweep'.rows
           \/ \E q \in Producers : request'[q] # NoValue /\ r \in request'[q]
    BY DEF Reading
  <2> QED
    BY <1>0, <2>1, ReadingIs
<1>2. Harmless
  BY <1>1 DEF Harmless
<1>3. Standings'
  BY <1>0, <1>2, HarmlessStands DEF AccountsInv
<1>4. Totals'
  BY <1>0, SameTotals DEF AccountsInv
<1>5. Keys'
  BY <1>0 DEF AccountsInv, Keys, Keyed
<1>6. NotOvertaken'
  BY <1>0 DEF AccountsInv, NotOvertaken
<1> QED
  BY <1>0, <1>3, <1>4, <1>5, <1>6 DEF AccountsInv, AccruedOnce

LEMMA AppendCounts ==
  ASSUME UsageInv, NEW p \in Producers, appendBatch(p), UsageTyped'
  PROVE  AccountsInv'
<1>0. UsageTyped /\ AccountsInv
  BY DEF UsageInv
<1>1. PICK new : new = Fresh(request[p])
  OBVIOUS
<1>2. /\ raw' = raw \union new /\ request[p] # NoValue /\ request' = [request EXCEPT ![p] = NoValue]
      /\ UNCHANGED <<now, rollup, unique, sweep, folded, tainted>>
  BY <1>1 DEF appendBatch
<1>3. /\ new \subseteq request[p] /\ Keyed(request[p])
      /\ \A r \in new : r \in Reading /\ r \in Row
      /\ \A r \in new, s \in raw : s.ev.tenant = r.ev.tenant => s.ev.key # r.ev.key
  BY <1>0, <1>1, <1>2, ReadingIs DEF Fresh, AccountsInv, Keys
<1>4. \A q \in Producers : request'[q] = IF q = p THEN NoValue ELSE request[q]
  BY <1>0, <1>2 DEF UsageTyped, TypeOK
<1>5. Harmless
  <2>1. \A r \in Reading' : r \in Reading
    <3>1. \A r : r \in Reading' <=>
             \/ r \in sweep'.rows
             \/ \E q \in Producers : request'[q] # NoValue /\ r \in request'[q]
      BY DEF Reading
    <3> QED
      BY <1>0, <1>2, <1>4, <3>1, ReadingIs
  <2>2. now \in Nat
    BY <1>0, OpenBucket
  <2> QED
    BY <1>2, <1>3, <2>1, <2>2 DEF Harmless
<1>6. Standings'
  BY <1>0, <1>5, HarmlessStands DEF AccountsInv
<1>7. Totals'
  BY <1>0, <1>2, SameTotals DEF AccountsInv
<1>8. Keys'
  <2>1. Keyed(raw')
    BY <1>0, <1>2, <1>3 DEF AccountsInv, Keys, Keyed
  <2> QED
    BY <1>0, <1>4, <2>1 DEF AccountsInv, Keys, Keyed
<1>9. NotOvertaken'
  BY <1>0, <1>2 DEF AccountsInv, NotOvertaken
<1>10. ASSUME NEW r \in raw \union folded, NEW s \in new, r.ev = s.ev
       PROVE  BucketOf(s) \in tainted
  <2>1. r \notin raw
    BY <1>3, <1>10
  <2>2. BucketOf(r) = BucketOf(s) /\ BucketOf(s) \in Buckets /\ s \in Reading
    BY <1>3, <1>10, RowShape DEF BucketOf
  <2>3. r \in In(BucketOf(s), folded) /\ s \in In(BucketOf(s), raw \union Reading)
    BY <1>10, <2>1, <2>2 DEF In
  <2>4. Standing(BucketOf(s))
    BY <1>0, <2>2 DEF AccountsInv, Standings
  <2> QED
    BY <2>1, <2>3, <2>4 DEF Standing, Whole, Gone
<1>11. AccruedOnce'
  <2> SUFFICES ASSUME NEW r \in raw' \union folded', NEW s \in raw' \union folded', r.ev = s.ev, r # s
               PROVE  BucketOf(r) \in tainted'
    BY DEF AccruedOnce
  <2>1. BucketOf(r) = BucketOf(s)
    BY DEF BucketOf
  <2>2. CASE r \in raw \union folded /\ s \in raw \union folded
    BY <1>0, <1>2, <2>2 DEF AccountsInv, AccruedOnce
  <2>3. CASE r \in raw \union folded /\ s \in new
    BY <1>2, <1>10, <2>1, <2>3
  <2>4. CASE r \in new /\ s \in raw \union folded
    BY <1>2, <1>10, <2>1, <2>4
  <2>5. CASE r \in new /\ s \in new
    BY <1>3, <2>5 DEF Keyed
  <2> QED
    BY <1>2, <2>2, <2>3, <2>4, <2>5
<1> QED
  BY <1>6, <1>7, <1>8, <1>9, <1>11 DEF AccountsInv

(* A prune takes whole buckets, and taints those that somebody reads.      *)
LEMMA PruneCounts ==
  ASSUME UsageInv, NEW t \in Metered, pruneTenant(t), UsageTyped'
  PROVE  AccountsInv'
<1>0. UsageTyped /\ AccountsInv
  BY DEF UsageInv
<1>1. PICK gone : gone = {r \in Of(t, raw) : r.ev.time < firstOpenBucket}
  OBVIOUS
<1>2. /\ raw' = raw \ gone
      /\ unique' = {v \in unique : v.bucket[1] = t => v.bucket[3] >= firstOpenBucket}
      /\ tainted' = tainted \union
           {BucketOf(r) : r \in {x \in Of(t, Reading) : x.ev.time < firstOpenBucket}}
      /\ UNCHANGED <<now, request, rollup, sweep, folded>>
  BY <1>1 DEF pruneTenant, InFlight, Reading
<1>3. Reading' = Reading /\ firstOpenBucket' = firstOpenBucket
  BY <1>2 DEF Reading, firstOpenBucket
<1>4. ASSUME NEW r \in Row
      PROVE  /\ r.ev.time < firstOpenBucket <=> BucketOf(r)[3] < firstOpenBucket
             /\ r.ev.tenant = BucketOf(r)[1]
  BY <1>0, RowShape, OpenBucket
<1>5. raw \subseteq Row /\ folded \subseteq Row /\ Reading \subseteq Row
  BY <1>0, ReadingIs DEF UsageTyped, TypeOK
<1>6. ASSUME NEW b \in Buckets, b[1] = t, b[3] < firstOpenBucket
      PROVE  Standing(b)'
  <2>1. In(b, raw') = {}
    BY <1>1, <1>2, <1>4, <1>5, <1>6 DEF In, Of
  <2>2. ASSUME NEW r \in In(b, Reading) PROVE b \in tainted'
    <3>1. r \in Of(t, Reading) /\ r.ev.time < firstOpenBucket /\ BucketOf(r) = b
      BY <1>4, <1>5, <1>6, <2>2 DEF In, Of
    <3> QED
      BY <1>2, <3>1
  <2> QED
    BY <1>3, <1>6, <2>1, <2>2 DEF Standing, Gone, In
<1>7. ASSUME NEW b \in Buckets, ~(b[1] = t /\ b[3] < firstOpenBucket)
      PROVE  Standing(b)'
  <2>1. In(b, raw') = In(b, raw)
    BY <1>1, <1>2, <1>4, <1>5, <1>7 DEF In, Of
  <2>2. {v \in unique' : v.bucket = b} = {v \in unique : v.bucket = b}
    <3>1. b[3] \in Int /\ firstOpenBucket \in Int
      BY <1>0, OpenBucket, BucketsApart DEF Buckets
    <3> QED
      BY <1>2, <1>7, <3>1
  <2>3. Standing(b)
    BY <1>0 DEF AccountsInv, Standings
  <2>4. In(b, raw' \union Reading') = In(b, raw \union Reading) /\ In(b, folded') = In(b, folded)
    BY <1>2, <1>3, <2>1 DEF In
  <2>5. Whole(b) => Whole(b)'
    <3>1. In(b, folded) \subseteq raw => In(b, folded') \subseteq raw'
      BY <2>1, <2>4, <1>2 DEF In
    <3>2. Matched(b) => Matched(b)'
      BY <2>2, <2>4 DEF Matched
    <3> QED
      BY <3>1, <3>2 DEF Whole
  <2>6. Gone(b) => Gone(b)'
    BY <1>3, <2>4 DEF Gone
  <2> QED
    BY <1>2, <2>3, <2>5, <2>6 DEF Standing
<1>8. Standings'
  BY <1>6, <1>7 DEF Standings
<1>9. NotOvertaken'
  <2> SUFFICES ASSUME NEW r \in sweep.rows, r \notin raw', BucketOf(r) \notin tainted'
               PROVE  FALSE
    BY <1>2 DEF NotOvertaken
  <2>1. r \in raw /\ r \in gone
    BY <1>0, <1>2 DEF AccountsInv, NotOvertaken
  <2>2. r \in Of(t, Reading) /\ r.ev.time < firstOpenBucket
    BY <1>0, <1>1, <2>1, ReadingIs DEF Of
  <2> QED
    BY <1>2, <2>2
<1>10. Keys'
  BY <1>0, <1>2 DEF AccountsInv, Keys, Keyed
<1>11. Totals'
  BY <1>0, <1>2 DEF AccountsInv, Totals, FoldedNet, Value, In, uniqueCount
<1>12. AccruedOnce'
  BY <1>0, <1>2 DEF AccountsInv, AccruedOnce
<1> QED
  BY <1>8, <1>9, <1>10, <1>11, <1>12 DEF AccountsInv

(* An erasure leaves nothing of the tenant, but what others have read.     *)
LEMMA EraseCounts ==
  ASSUME UsageInv, NEW t \in Metered, eraseTenantUsage(t), UsageTyped'
  PROVE  AccountsInv'
<1>0. UsageTyped /\ AccountsInv
  BY DEF UsageInv
<1>1. /\ raw' = raw \ Of(t, raw) /\ folded' = folded \ Of(t, folded)
      /\ unique' = {v \in unique : v.bucket[1] # t}
      /\ tainted' = tainted \union {BucketOf(r) : r \in Of(t, Reading)}
      /\ rollup' = [b \in {c \in DOMAIN rollup : c[1] # t} |-> rollup[b]]
      /\ UNCHANGED <<now, request, sweep>>
  BY DEF eraseTenantUsage, InFlight, Reading
<1>2. Reading' = Reading /\ firstOpenBucket' = firstOpenBucket
  BY <1>1 DEF Reading, firstOpenBucket
<1>3. raw \subseteq Row /\ folded \subseteq Row /\ Reading \subseteq Row
      /\ \A r \in Row : BucketOf(r)[1] = r.ev.tenant
  BY <1>0, ReadingIs, RowShape DEF UsageTyped, TypeOK
<1>4. ASSUME NEW b \in Buckets, b[1] = t PROVE Standing(b)'
  <2>1. In(b, folded') = {}
    BY <1>1, <1>3, <1>4 DEF In, Of
  <2>2. {v \in unique' : v.bucket = b} = {}
    BY <1>1, <1>4
  <2> QED
    BY <2>1, <2>2 DEF Standing, Whole, Matched
<1>5. ASSUME NEW b \in Buckets, b[1] # t
      PROVE  /\ In(b, folded') = In(b, folded) /\ In(b, raw') = In(b, raw)
             /\ {v \in unique' : v.bucket = b} = {v \in unique : v.bucket = b}
  BY <1>1, <1>3, <1>5 DEF In, Of
<1>6. ASSUME NEW b \in Buckets, b[1] # t PROVE Standing(b)'
  <2>1. Standing(b)
    BY <1>0 DEF AccountsInv, Standings
  <2>2. Matched(b) => Matched(b)'
    BY <1>5, <1>6 DEF Matched
  <2>3. In(b, folded) \subseteq raw => In(b, folded') \subseteq raw'
    BY <1>1, <1>5, <1>6 DEF In
  <2>4. In(b, raw \union Reading) = {} => In(b, raw' \union Reading') = {}
    BY <1>1, <1>2 DEF In
  <2> QED
    BY <1>1, <1>2, <2>1, <2>2, <2>3, <2>4 DEF Standing, Whole, Gone
<1>7. Standings'
  BY <1>4, <1>6 DEF Standings
<1>8. NotOvertaken'
  <2> SUFFICES ASSUME NEW r \in sweep.rows, r \notin raw', BucketOf(r) \notin tainted'
               PROVE  FALSE
    BY <1>1 DEF NotOvertaken
  <2>1. r \in Of(t, raw)
    BY <1>0, <1>1 DEF AccountsInv, NotOvertaken
  <2>2. r \in Of(t, Reading)
    BY <1>0, <2>1, ReadingIs DEF Of
  <2> QED
    BY <1>1, <2>2
<1>9. Keys'
  BY <1>0, <1>1 DEF AccountsInv, Keys, Keyed
<1>10. Totals'
  <2> SUFFICES ASSUME NEW b \in DOMAIN rollup', b \notin tainted'
               PROVE  rollup'[b].value = FoldedNet(b)'
    BY DEF Totals
  <2>1. b \in DOMAIN rollup /\ b[1] # t /\ rollup'[b] = rollup[b] /\ b \notin tainted /\ b \in Buckets
    BY <1>0, <1>1 DEF UsageTyped
  <2>2. In(b, folded') = In(b, folded)
    BY <1>5, <2>1
  <2>3. rollup[b].value = FoldedNet(b)
    BY <1>0, <2>1 DEF AccountsInv, Totals
  <2> QED
    BY <2>1, <2>2, <2>3 DEF FoldedNet, Value, uniqueCount
<1>11. AccruedOnce'
  BY <1>0, <1>1 DEF AccountsInv, AccruedOnce
<1> QED
  BY <1>7, <1>8, <1>9, <1>10, <1>11 DEF AccountsInv

(* A roll-up adds the rows of its buckets that are still there.            *)
LEMMA FoldCounts ==
  ASSUME UsageInv, rollupTenant, UsageTyped'
  PROVE  AccountsInv'
<1>0. UsageTyped /\ AccountsInv
  BY DEF UsageInv
<1>1. PICK new : new = {r \in raw : BucketOf(r) \in Touched
                          /\ (Distinct(BucketOf(r)) => r \in sweep.rows)}
  OBVIOUS
<1>2. /\ unique' = insertUniqueValues(sweep.rows) /\ folded' = folded \union new
      /\ DOMAIN rollup' = DOMAIN rollup \union Touched
      /\ \A b \in DOMAIN rollup' :
           rollup'[b] = IF b \in Touched THEN rollupBucket(b, unique') ELSE rollup[b]
      /\ UNCHANGED <<now, request, raw, tainted>>
  BY <1>0, <1>1, FoldWrites
<1>3. sweep'.rows = {} /\ firstOpenBucket' = firstOpenBucket
  BY <1>0, <1>2, FoldTyped DEF firstOpenBucket
<1>4. \A r \in Reading' : r \in Reading
  <2>1. \A r : r \in Reading' <=>
           \/ r \in sweep'.rows
           \/ \E q \in Producers : request'[q] # NoValue /\ r \in request'[q]
    BY DEF Reading
  <2> QED
    BY <1>0, <1>2, <1>3, <2>1, ReadingIs
<1>5. raw \subseteq Row /\ folded \subseteq Row /\ sweep.rows \subseteq Row
      /\ \A r \in sweep.rows : r \in Reading
  BY <1>0, ReadingIs DEF UsageTyped, TypeOK, SweepState
<1>6. ASSUME NEW b
      PROVE  {v \in unique' : v.bucket = b} = {v \in unique : v.bucket = b} \union
               {[bucket |-> b, dim |-> r.ev.dim] : r \in {x \in In(b, sweep.rows) : Distinct(b)}}
  <2>1. unique' = unique \union {[bucket |-> BucketOf(r), dim |-> r.ev.dim] :
                   r \in {x \in sweep.rows : Distinct(BucketOf(x))}}
    BY <1>2 DEF insertUniqueValues
  <2> QED
    BY <2>1 DEF In
(* A bucket nobody tainted and somebody has read is whole, then and after. *)
<1>7. ASSUME NEW b \in Touched, b \notin tainted
      PROVE  /\ Whole(b)' /\ (~Distinct(b) => In(b, folded') = In(b, raw))
  <2>1. PICK r \in sweep.rows : BucketOf(r) = b
    BY DEF Touched
  <2>2. b \in Buckets
    BY <1>5, <2>1, RowShape
  <2>3. ~Gone(b)
    BY <1>5, <2>1 DEF Gone, In
  <2>4. Whole(b)
    BY <1>0, <1>7, <2>2, <2>3 DEF AccountsInv, Standings, Standing
  <2>5. In(b, folded') \subseteq raw'
    BY <1>1, <1>2, <2>4 DEF Whole, In
  <2>6. ~Distinct(b) => In(b, folded') = In(b, raw)
    BY <1>1, <1>2, <1>7, <2>4 DEF Whole, In
  <2>7. Matched(b)'
    <3> SUFFICES ASSUME Distinct(b)
                 PROVE  {v \in unique' : v.bucket = b} =
                        {[bucket |-> b, dim |-> s.ev.dim] : s \in In(b, folded')}
      BY DEF Matched, Distinct, In
    <3>1. In(b, folded') = In(b, folded) \union In(b, sweep.rows)
      <4>1. \A s \in In(b, sweep.rows) : s \in raw
        BY <1>0, <1>7 DEF AccountsInv, NotOvertaken, In
      <4> QED
        BY <1>1, <1>2, <1>7, <4>1 DEF In
    <3>2. {v \in unique : v.bucket = b} = {[bucket |-> b, dim |-> s.ev.dim] : s \in In(b, folded)}
      BY <2>4 DEF Whole, Matched
    <3>3. {x \in In(b, sweep.rows) : Distinct(b)} = In(b, sweep.rows)
      OBVIOUS
    <3> QED
      BY <1>6, <3>1, <3>2, <3>3
  <2> QED
    BY <2>5, <2>6, <2>7 DEF Whole
<1>8. ASSUME NEW b \in Buckets, b \notin Touched
      PROVE  /\ In(b, folded') = In(b, folded)
             /\ {v \in unique' : v.bucket = b} = {v \in unique : v.bucket = b}
  <2>1. In(b, sweep.rows) = {}
    BY <1>8 DEF In, Touched
  <2> QED
    BY <1>1, <1>2, <1>6, <1>8, <2>1 DEF In
<1>9. Standings'
  <2> SUFFICES ASSUME NEW b \in Buckets PROVE Standing(b)'
    BY DEF Standings
  <2>1. CASE b \in tainted
    BY <1>2, <2>1 DEF Standing
  <2>2. CASE b \notin tainted /\ b \in Touched
    BY <1>7, <2>2 DEF Standing
  <2>3. CASE b \notin tainted /\ b \notin Touched
    <3>1. Standing(b)
      BY <1>0 DEF AccountsInv, Standings
    <3>2. Whole(b) => Whole(b)'
      <4>1. Matched(b) => Matched(b)'
        BY <1>8, <2>3 DEF Matched, Distinct
      <4>2. In(b, folded) \subseteq raw => In(b, folded') \subseteq raw'
        BY <1>2, <1>8, <2>3
      <4> QED
        BY <4>1, <4>2 DEF Whole
    <3>3. Gone(b) => Gone(b)'
      BY <1>2, <1>3, <1>4 DEF Gone, In
    <3> QED
      BY <2>3, <3>1, <3>2, <3>3 DEF Standing
  <2> QED
    BY <2>1, <2>2, <2>3
<1>10. Totals'
  <2> SUFFICES ASSUME NEW b \in DOMAIN rollup', b \notin tainted
               PROVE  rollup'[b].value = FoldedNet(b)'
    BY <1>2 DEF Totals
  <2>1. b \in Buckets
    BY DEF UsageTyped
  <2>2. CASE b \in Touched
    <3>1. rollup'[b].value = Value(b, unique', raw)
      <4>1. rollup'[b] = rollupBucket(b, unique')
        BY <1>2, <2>2
      <4>2. \A values : rollupBucket(b, values).value = Value(b, values, raw)
        BY DEF rollupBucket
      <4> QED
        BY <4>1, <4>2
    <3>2. CASE ~Distinct(b)
      <4>1. In(b, folded') = In(b, raw)
        BY <1>7, <2>2, <3>2
      <4> QED
        BY <3>1, <3>2, <4>1 DEF FoldedNet, Value, Distinct
    <3>3. CASE Distinct(b)
      <4>1. {v \in unique' : v.bucket = b} =
            {[bucket |-> b, dim |-> s.ev.dim] : s \in In(b, folded')}
        BY <1>7, <2>2, <3>3 DEF Whole, Matched, Distinct, In
      <4>2. FoldedNet(b)' = Cardinality({v \in
              {[bucket |-> b, dim |-> s.ev.dim] : s \in In(b, folded')} : v.bucket = b})
        BY <3>3 DEF FoldedNet, Value, Distinct, uniqueCount, In
      <4>3. rollup'[b].value = Cardinality({v \in unique' : v.bucket = b})
        BY <3>1, <3>3 DEF Value, uniqueCount
      <4>4. {v \in {v \in unique' : v.bucket = b} : v.bucket = b} = {v \in unique' : v.bucket = b}
        OBVIOUS
      <4> QED
        BY <4>1, <4>2, <4>3, <4>4
    <3> QED
      BY <3>2, <3>3
  <2>3. CASE b \notin Touched
    <3>1. rollup'[b].value = rollup[b].value /\ b \in DOMAIN rollup
      BY <1>2, <2>3
    <3>2. rollup[b].value = FoldedNet(b)
      BY <1>0, <3>1 DEF AccountsInv, Totals
    <3>3. In(b, folded') = In(b, folded)
      BY <1>8, <2>1, <2>3
    <3> QED
      BY <3>1, <3>2, <3>3 DEF FoldedNet, Value, Distinct, uniqueCount
  <2> QED
    BY <2>2, <2>3
<1>11. AccruedOnce'
  BY <1>0, <1>1, <1>2 DEF AccountsInv, AccruedOnce
<1>12. NotOvertaken' /\ Keys'
  BY <1>0, <1>2, <1>3 DEF AccountsInv, NotOvertaken, Keys, Keyed
<1> QED
  BY <1>9, <1>10, <1>11, <1>12 DEF AccountsInv
-----------------------------------------------------------------------------
LEMMA InitUsageInv == Init => UsageInv
<1> SUFFICES ASSUME Init PROVE UsageInv
  OBVIOUS
<1>1. DOMAIN rollup = {}
  BY DEF Init
<1>2. sweep = NoSweep /\ NoSweep \in SweepState /\ NoSweep.rows = {} /\ NoSweep.pc = "idle"
  BY NoSweepType DEF Init, NoSweep
<1>3. since \in Watermark
  BY NoSweepType DEF Init, NoSweep, SweepState
<1>4. \A p \in Producers : request[p] = NoValue
  BY DEF Init
<1>5. TypeOK
  BY <1>1, <1>2, <1>3, UsageBounds DEF Init, TypeOK, Time
<1>6. UsageTyped
  BY <1>1, <1>2, <1>4, <1>5, FS_EmptySet DEF Init, UsageTyped, SweepShape, Finite
<1>7. Standings
  BY DEF Init, Standings, Standing, Whole, Matched, In
<1> QED
  BY <1>1, <1>2, <1>4, <1>6, <1>7
     DEF Init, UsageInv, AccountsInv, NotOvertaken, Keys, Keyed, Totals, AccruedOnce

LEMMA NextUsageInv == UsageInv /\ [Next]_vars => UsageInv'
<1> SUFFICES ASSUME UsageInv, [Next]_vars PROVE UsageInv'
  OBVIOUS
<1>0. UsageTyped /\ now \in Nat /\ now <= now
  BY OpenBucket DEF UsageInv
<1>1. CASE Tick
  <2>1. UsageTyped' /\ now <= now'
    BY <1>0, <1>1, TickTyped DEF Tick
  <2> QED
    BY <1>1, <2>1, CalmCounts DEF Tick, UsageInv
<1>2. CASE Restart
  <2>1. UsageTyped' /\ sweep'.rows = {} /\ \A q \in Producers : request'[q] = NoValue
    BY <1>0, <1>2, RestartTyped DEF Restart, NoSweep
  <2> QED
    BY <1>0, <1>2, <2>1, CalmCounts DEF Restart, UsageInv
<1>3. CASE SweepBegin
  <2>1. UsageTyped' /\ sweep'.rows = {}
    BY <1>0, <1>3, BeginTyped DEF SweepBegin, NoSweep
  <2> QED
    BY <1>0, <1>3, <2>1, CalmCounts DEF SweepBegin, UsageInv
<1>4. CASE rollupTenant
  BY <1>0, <1>4, FoldTyped, FoldCounts DEF UsageInv
<1>5. ASSUME NEW t \in Metered, selectRawSince(t) PROVE UsageInv'
  <2>1. UsageTyped' /\ sweep'.rows \subseteq raw
    BY <1>0, <1>5, SelectTyped
  <2> QED
    BY <1>0, <1>5, <2>1, CalmCounts DEF selectRawSince, UsageInv
<1>6. ASSUME NEW p \in Producers, appendBatch(p) PROVE UsageInv'
  BY <1>0, <1>6, AppendTyped, AppendCounts DEF UsageInv
<1>7. ASSUME NEW p \in Producers, NEW b \in Batches, ingestBatch(p, b) PROVE UsageInv'
  BY <1>0, <1>7, IngestTyped, IngestCounts DEF UsageInv
<1>8. ASSUME NEW t \in Metered, SweepFails(t) PROVE UsageInv'
  <2>1. UsageTyped' /\ sweep'.rows = {}
    BY <1>0, <1>8, FailsTyped
  <2> QED
    BY <1>0, <1>8, <2>1, CalmCounts DEF SweepFails, UsageInv
<1>9. ASSUME NEW t \in Metered, pruneTenant(t) PROVE UsageInv'
  BY <1>0, <1>9, PruneTyped, PruneCounts DEF UsageInv
<1>10. ASSUME NEW t \in Metered, eraseTenantUsage(t) PROVE UsageInv'
  BY <1>0, <1>10, EraseTyped, EraseCounts DEF UsageInv
<1>11. CASE UNCHANGED vars
  <2>1. UsageTyped'
    BY <1>0, <1>11 DEF vars, UsageTyped, TypeOK, SweepShape, Finite
  <2> QED
    BY <1>0, <1>11, <2>1, CalmCounts DEF vars, UsageInv
<1> QED
  BY <1>1, <1>2, <1>3, <1>4, <1>5, <1>6, <1>7, <1>8, <1>9, <1>10, <1>11 DEF Next, Sweep

(* What is kept about the usage: its types, and what every total stands    *)
(* for.                                                                    *)
THEOREM UsageInvariant == Spec => []UsageInv
<1>1. Init => UsageInv
  BY InitUsageInv
<1>2. UsageInv /\ [Next]_vars => UsageInv'
  BY NextUsageInv
<1> QED
  BY <1>1, <1>2, PTL DEF Spec

(* Every variable of the usage module keeps its type.                      *)
THEOREM UsageTypeCorrect == Spec => []TypeOK
<1>1. UsageInv => TypeOK
  BY DEF UsageInv, UsageTyped
<1> QED
  BY <1>1, UsageInvariant, PTL

(* An event that is reported again, whenever and in whatever batch, adds   *)
(* no second row, for any number of tenants, producers, batches and        *)
(* sweeps, save in a bucket that a prune took while somebody read it       *)
(* (appendBatch's ON CONFLICT, and classifyAcceptance against the prune).  *)
THEOREM EventsCountOnce == Spec => []AccruedOnce
<1>1. UsageInv => AccruedOnce
  BY DEF UsageInv, AccountsInv
<1> QED
  BY <1>1, UsageInvariant, PTL

(* A bucket's query reads the one row of that bucket.                      *)
LEMMA ReadsOneBucket ==
  ASSUME UsageTyped, NEW b \in DOMAIN rollup
  PROVE  readRollups(b[1], b[2], b[3], b[3] + BucketSecs) = {b}
<1>1. b \in Buckets /\ DOMAIN rollup \subseteq Buckets
  BY DEF UsageTyped
<1>2. PICK t \in Metered, e \in Entitlements, x \in Int : b = <<t, e, bucketStartFor(x)>>
  BY <1>1 DEF Buckets
<1>3. bucketStartFor(x) < bucketStartFor(x) + BucketSecs /\ bucketStartFor(x) \in Int
  <2>1. bucketStartFor(x) \in Int
    BY BucketsApart
  <2> QED
    BY <2>1, UsageBounds
<1>4. ASSUME NEW c \in Buckets, c[1] = b[1], c[2] = b[2], c[3] >= b[3], c[3] < b[3] + BucketSecs
      PROVE  c = b
  <2>1. PICK u \in Metered, f \in Entitlements, y \in Int : c = <<u, f, bucketStartFor(y)>>
    BY <1>4 DEF Buckets
  <2>2. bucketStartFor(y) \in Int /\ ~(bucketStartFor(x) < bucketStartFor(y))
    <3>1. /\ bucketStartFor(y) \in Int
          /\ bucketStartFor(x) < bucketStartFor(y) =>
               bucketStartFor(x) + BucketSecs <= bucketStartFor(y)
      BY BucketsApart
    <3>2. bucketStartFor(x) + BucketSecs \in Int
      BY <1>3, UsageBounds
    <3> QED
      BY <1>2, <1>4, <2>1, <3>1, <3>2
  <2>3. bucketStartFor(y) = bucketStartFor(x)
    BY <1>2, <1>3, <1>4, <2>1, <2>2
  <2> QED
    BY <1>2, <1>4, <2>1, <2>3
<1>5. b \in readRollups(b[1], b[2], b[3], b[3] + BucketSecs)
  BY <1>2, <1>3 DEF readRollups
<1> QED
  BY <1>1, <1>4, <1>5 DEF readRollups

(* What an operator is shown of a bucket is the total of every event ever  *)
(* folded into it, and an application is never shown less than zero, for   *)
(* every aggregation, bucket length and retention: queryUsage reads what   *)
(* upsertRollup wrote, and a prune takes rows of closed buckets only.      *)
THEOREM TotalsOutliveEvents == Spec => []TotalsSurvive
<1>1. UsageInv => TotalsSurvive
  <2> SUFFICES ASSUME UsageInv, NEW b \in DOMAIN rollup, b \notin tainted
               PROVE  /\ operatorRead("admin", b[1], b[2], b[3], b[3] + BucketSecs) =
                           [value |-> FoldedNet(b),
                            overQuota |-> isOverQuota(FoldedNet(b), Allowance[b[2]])]
                      /\ selfRead(b[1], b[2], b[3], b[3] + BucketSecs).value >= 0
    BY DEF TotalsSurvive
  <2>1. UsageTyped /\ rollup[b].value = FoldedNet(b)
    BY DEF UsageInv, AccountsInv, Totals
  <2>2. rollup[b].value \in Int
    BY <2>1 DEF UsageTyped, TypeOK, Total
  <2>3. MapThenSumSet(LAMBDA c : rollup[c].value,
          readRollups(b[1], b[2], b[3], b[3] + BucketSecs)) = FoldedNet(b)
    BY <2>1, <2>2, ReadsOneBucket, QueryOfOne
  <2>4. FoldedNet(b) \in Int
    BY <2>1, <2>2
  <2>5. floorDisplay(FoldedNet(b)) >= 0
    <3>1. \A n \in Int : Max({0, n}) >= 0
      BY MaxOfTwo
    <3>2. Max({0, FoldedNet(b)}) >= 0
      BY <2>4, <3>1
    <3> QED
      BY <3>2 DEF floorDisplay
  <2> QED
    BY <2>3, <2>5 DEF operatorRead, selfRead, queryUsage
<1> QED
  BY <1>1, UsageInvariant, PTL
-----------------------------------------------------------------------------
(***************************************************************************)
(* The watermark.  Every stamp lies past the epoch it restarts from.  A    *)
(* stamp that is a whole millisecond lies on the watermark its own batch   *)
(* leaves: what a full batch splits from it is late from then on (Split).  *)
(***************************************************************************)
Stamped == \A r \in raw \union Reading : r.at > 0

Unfolded(r) == r \notin folded /\ r \notin late

(* What a sweep has not folded is of a tenant to come, or past the batch   *)
(* that holds the watermark back.                                          *)
Awaits(r, s) ==
  \/ r.ev.tenant \in s.todo
  \/ s.cappedMin # NoValue /\ s.cappedMin < r.at

Scanned == sweep.pc # "idle" => \A r \in raw : Unfolded(r) => Awaits(r, sweep)

(* What the batch of a tenant has left out is younger than all it has.     *)
Picked == sweep.pc = "fold" => \A r \in Of(sweep.tenant, raw) : Unfolded(r) =>
  \/ r \in sweep.rows
  \/ Cardinality(sweep.rows) >= MaxBatch /\ \A s \in sweep.rows : s.at <= r.at

Marks == WatermarkSafe /\ Scanned /\ Picked

WatermarkInv == UsageTyped /\ Stamped /\ Marks

LEMMA StampsAre ==
  ASSUME UsageTyped
  PROVE  /\ since \in Nat /\ \A r \in raw \union Reading : r \in Row /\ r.at \in Nat
         /\ (sweep.cappedMin # NoValue => sweep.cappedMin \in Nat)
<1>1. raw \subseteq Row /\ Reading \subseteq Row
  BY ReadingIs DEF UsageTyped, TypeOK
<1>2. Watermark \subseteq Nat
  BY StampType DEF Watermark, Stamp
<1> QED
  BY <1>1, <1>2, SinceType, RowShape, StampType DEF UsageTyped, TypeOK, SweepState

(* Rows that are taken away, or shown late, and what sweeps do not do.     *)
LEMMA MarksStand ==
  ASSUME UsageTyped, Marks, UNCHANGED <<since, sweep>>, UsageTyped',
         \A r \in raw' :
           \/ r \in raw /\ (Unfolded(r)' => Unfolded(r))
           \/ r \in late'
           \/ sweep.pc = "idle" /\ ~(r.at <= since)
  PROVE  Marks'
<1>1. WatermarkSafe'
  BY DEF Marks, WatermarkSafe, Unfolded
<1>2. Scanned'
  <2> SUFFICES ASSUME sweep.pc # "idle", NEW r \in raw', Unfolded(r)'
               PROVE  Awaits(r, sweep)
    BY DEF Scanned, Awaits
  <2>1. r \in raw /\ Unfolded(r)
    BY DEF Unfolded
  <2> QED
    BY <2>1 DEF Marks, Scanned
<1>3. Picked'
  <2> SUFFICES ASSUME sweep.pc = "fold", NEW r \in Of(sweep.tenant, raw'), Unfolded(r)'
               PROVE  \/ r \in sweep.rows
                      \/ Cardinality(sweep.rows) >= MaxBatch /\ \A s \in sweep.rows : s.at <= r.at
    BY DEF Picked, Of
  <2>1. r \in Of(sweep.tenant, raw) /\ Unfolded(r)
    BY DEF Unfolded, Of
  <2> QED
    BY <2>1 DEF Marks, Picked
<1> QED
  BY <1>1, <1>2, <1>3 DEF Marks

(* The end of a tenant, and of a sweep.                                    *)
LEMMA MarksGoOn ==
  ASSUME UsageTyped, Marks, NEW s \in SweepState, s.pc = "tenants", GoOn(s),
         raw' = raw, folded \subseteq folded', late \subseteq late',
         \A r \in raw : Unfolded(r)' => Awaits(r, s)
  PROVE  Marks'
<1>1. CASE s.todo = {}
  <2>1. sweep' = NoSweep /\ NoSweep.pc = "idle" /\ since' = nextSince(s)
    BY <1>1 DEF GoOn, NoSweep
  <2>2. WatermarkSafe'
    <3> SUFFICES ASSUME NEW r \in raw, r.at <= since', Unfolded(r)' PROVE FALSE
      BY DEF WatermarkSafe, Unfolded
    <3>1. s.cappedMin # NoValue /\ s.cappedMin < r.at
      BY <1>1 DEF Awaits
    <3>2. since' = s.cappedMin
      BY <2>1, <3>1 DEF nextSince
    <3>3. r.at \in Int /\ s.cappedMin \in Int
      <4>1. s.cappedMin \in Watermark
        BY <3>1 DEF SweepState
      <4> QED
        BY <4>1, StampsAre, StampType DEF Watermark, Stamp
    <3> QED
      BY <3>1, <3>2, <3>3
  <2> QED
    BY <2>1, <2>2 DEF Marks, Scanned, Picked
<1>2. CASE s.todo # {}
  <2>1. sweep' = s /\ since' = since
    BY <1>2 DEF GoOn
  <2>2. WatermarkSafe'
    BY <2>1 DEF Marks, WatermarkSafe
  <2>3. Scanned'
    BY <2>1 DEF Scanned, Awaits
  <2> QED
    BY <2>1, <2>2, <2>3 DEF Marks, Picked
<1> QED
  BY <1>1, <1>2

LEMMA StampedStays ==
  ASSUME Stamped, \A r \in raw' \union Reading' : r \in raw \union Reading \/ r.at > 0
  PROVE  Stamped'
BY DEF Stamped

LEMMA ReadingShrinks ==
  ASSUME UsageTyped, \A q \in Producers : request'[q] = request[q] \/ request'[q] = NoValue,
         sweep'.rows \subseteq sweep.rows \union raw
  PROVE  \A r \in Reading' : r \in Reading \/ r \in raw
<1>1. \A r : r \in Reading' <=>
         \/ r \in sweep'.rows
         \/ \E q \in Producers : request'[q] # NoValue /\ r \in request'[q]
  BY DEF Reading
<1> QED
  BY <1>1, ReadingIs

LEMMA IngestMarks ==
  ASSUME WatermarkInv, UsageTyped',
         NEW p \in Producers, NEW batch \in Batches, ingestBatch(p, batch)
  PROVE  WatermarkInv'
<1>1. PICK f \in Fractions : request' = [request EXCEPT ![p] = Accepted(batch, f)]
  BY DEF ingestBatch, Accepted
<1>2. UNCHANGED <<raw, since, sweep, folded, late>>
  BY DEF ingestBatch
<1>3. \A q \in Producers : request'[q] = IF q = p THEN Accepted(batch, f) ELSE request[q]
  BY <1>1 DEF WatermarkInv, UsageTyped, TypeOK
<1>4. \A r \in Accepted(batch, f) : r.at > 0
  <2>1. f \in {0, 1} /\ now \in Nat /\ now >= 1
    BY UsageBounds DEF WatermarkInv, UsageTyped, TypeOK, Time
  <2>2. 2 * now + f > 0
    BY <2>1
  <2> QED
    BY <2>2, AcceptedType DEF WatermarkInv
<1>5. \A r \in Reading' : r \in Reading \/ r \in Accepted(batch, f)
  <2>1. \A r : r \in Reading' <=>
           \/ r \in sweep'.rows
           \/ \E q \in Producers : request'[q] # NoValue /\ r \in request'[q]
    BY DEF Reading
  <2> QED
    BY <1>2, <1>3, <2>1, ReadingIs DEF WatermarkInv
<1>6. Stamped'
  BY <1>2, <1>4, <1>5, StampedStays DEF WatermarkInv
<1>7. Marks'
  BY <1>2, MarksStand DEF WatermarkInv, Unfolded
<1> QED
  BY <1>6, <1>7 DEF WatermarkInv

LEMMA AppendMarks ==
  ASSUME WatermarkInv, UsageTyped', NEW p \in Producers, appendBatch(p)
  PROVE  WatermarkInv'
<1>0. UsageTyped /\ Stamped /\ Marks
  BY DEF WatermarkInv
<1>1. PICK new : new = Fresh(request[p])
  OBVIOUS
<1>2. /\ raw' = raw \union new /\ request[p] # NoValue /\ request' = [request EXCEPT ![p] = NoValue]
      /\ late' = late \union {r \in new : sweep.pc # "idle" \/ r.at <= since}
      /\ UNCHANGED <<since, sweep, folded>>
  BY <1>1 DEF appendBatch
<1>3. \A r \in new : r \in Reading
  BY <1>0, <1>1, <1>2, ReadingIs DEF Fresh
<1>4. \A q \in Producers : request'[q] = request[q] \/ request'[q] = NoValue
  BY <1>0, <1>2 DEF UsageTyped, TypeOK
<1>5. Stamped'
  BY <1>0, <1>2, <1>3, <1>4, ReadingShrinks, StampedStays
<1>6. \A r \in raw' :
        \/ r \in raw /\ (Unfolded(r)' => Unfolded(r))
        \/ r \in late'
        \/ sweep.pc = "idle" /\ ~(r.at <= since)
  BY <1>2 DEF Unfolded
<1> QED
  BY <1>0, <1>2, <1>5, <1>6, MarksStand DEF WatermarkInv

LEMMA BeginMarks ==
  ASSUME WatermarkInv, SweepBegin, UsageTyped'
  PROVE  WatermarkInv'
<1>0. UsageTyped /\ Stamped /\ Marks
  BY DEF WatermarkInv
<1>1. /\ UNCHANGED <<request, raw, since, folded, late>>
      /\ sweep'.pc = "tenants" /\ sweep'.rows = {}
      /\ sweep'.todo = {r.ev.tenant : r \in {x \in raw : Due(x)}}
  BY DEF SweepBegin, NoSweep
<1>2. Stamped'
  BY <1>0, <1>1, ReadingShrinks, StampedStays
<1>3. WatermarkSafe'
  BY <1>0, <1>1 DEF Marks, WatermarkSafe
<1>4. Scanned'
  <2> SUFFICES ASSUME NEW r \in raw, Unfolded(r) PROVE r.ev.tenant \in sweep'.todo
    BY <1>1 DEF Scanned, Awaits, Unfolded
  <2>1. ~(r.at <= since)
    BY <1>0 DEF Marks, WatermarkSafe, Unfolded
  <2>2. Due(r)
    BY <1>0, <2>1, StampsAre DEF Due
  <2> QED
    BY <1>1, <2>2
<1> QED
  BY <1>1, <1>2, <1>3, <1>4 DEF WatermarkInv, Marks, Picked

LEMMA SelectMarks ==
  ASSUME WatermarkInv, NEW t \in Metered, selectRawSince(t), UsageTyped'
  PROVE  WatermarkInv'
<1>0. UsageTyped /\ Stamped /\ Marks
  BY DEF WatermarkInv
<1>1. PICK due : due = {r \in Of(t, raw) : Due(r)}
  OBVIOUS
<1>2. PICK S \in Oldest(due) : sweep' = [sweep EXCEPT !.pc = "fold", !.tenant = t, !.rows = S]
  BY <1>1 DEF selectRawSince
<1>3. sweep \in SweepState
  BY <1>0 DEF UsageTyped, TypeOK
<1>4. /\ sweep'.pc = "fold" /\ sweep'.tenant = t /\ sweep'.rows = S
      /\ sweep'.todo = sweep.todo /\ sweep'.cappedMin = sweep.cappedMin
      /\ sweep.pc = "tenants" /\ UNCHANGED <<request, raw, since, folded, late>>
  BY <1>2, <1>3 DEF selectRawSince, SweepState
<1>5. Stamped'
  <2>1. sweep'.rows \subseteq raw
    BY <1>1, <1>4 DEF Oldest, Of
  <2> QED
    BY <1>0, <1>4, <2>1, ReadingShrinks, StampedStays
<1>6. WatermarkSafe'
  BY <1>0, <1>4 DEF Marks, WatermarkSafe
<1>7. Scanned'
  BY <1>0, <1>4 DEF Marks, Scanned, Awaits, Unfolded
<1>8. Picked'
  <2> SUFFICES ASSUME NEW r \in Of(t, raw), Unfolded(r), r \notin S
               PROVE  Cardinality(S) >= MaxBatch /\ \A s \in S : s.at <= r.at
    BY <1>4 DEF Picked, Of, Unfolded
  <2>1. ~(r.at <= since) /\ r \in raw
    BY <1>0 DEF Marks, WatermarkSafe, Unfolded, Of
  <2>2. r \in due \ S
    BY <1>0, <1>1, <2>1, StampsAre DEF Due
  <2>3. \A s \in S : s.at <= r.at
    BY <2>2 DEF Oldest
  <2>4. due \in SUBSET raw /\ IsFiniteSet(due) /\ S \subseteq due
    <3>1. due \in SUBSET raw
      BY <1>1 DEF Of
    <3> QED
      BY <1>0, <3>1, FS_Subset DEF UsageTyped, Finite, Oldest
  <2>5. Cardinality(S) # Cardinality(due)
    BY <2>2, <2>4, FS_Subset
  <2>6. Cardinality(S) = MaxBatch
    BY <2>5 DEF Oldest
  <2> QED
    BY <2>3, <2>6, UsageBounds
<1> QED
  BY <1>5, <1>6, <1>7, <1>8 DEF WatermarkInv, Marks

(* What Done leaves behind of the tenant, and of the others.               *)
LEMMA DoneAwaits ==
  ASSUME UsageTyped, Marks, sweep.pc = "fold", NEW r \in raw, Unfolded(r), r \notin sweep.rows,
         r \notin Split(sweep)
  PROVE  Awaits(r, Done(sweep))
<1> DEFINE last == Max({since} \union {Ms(x.at) : x \in sweep.rows})
<1>1. last \in {since} \union {Ms(x.at) : x \in sweep.rows} /\ last \in Watermark
  BY LastIs
<1>2. sweep \in SweepState /\ sweep.todo \subseteq Metered
  BY DEF UsageTyped, TypeOK, SweepState
<1> HIDE DEF last
<1>3. /\ Done(sweep).todo = sweep.todo \ {sweep.tenant}
      /\ Done(sweep).cappedMin =
           CASE Cardinality(sweep.rows) < MaxBatch -> sweep.cappedMin
             [] sweep.cappedMin = NoValue -> last
             [] OTHER -> Min({sweep.cappedMin, last})
  BY <1>2 DEF Done, last, SweepState
<1>4. since \in Int /\ r.at \in Int /\ last \in Int /\ (sweep.cappedMin # NoValue => sweep.cappedMin \in Int)
  BY <1>1, StampsAre, StampType DEF Watermark, Stamp
<1>5. last # NoValue
  BY <1>1, UsageBounds, StampType DEF Watermark, Stamp
<1>6. CASE sweep.cappedMin # NoValue /\ sweep.cappedMin < r.at
  <2>1. Min({sweep.cappedMin, last}) \in Int /\ Min({sweep.cappedMin, last}) <= sweep.cappedMin
        /\ Min({sweep.cappedMin, last}) \in {sweep.cappedMin, last}
    BY <1>4, <1>6, MaxOfTwo
  <2>2. Done(sweep).cappedMin \in {sweep.cappedMin, Min({sweep.cappedMin, last})}
    BY <1>3, <1>6
  <2> QED
    BY <1>4, <1>5, <1>6, <2>1, <2>2 DEF Awaits
<1>7. CASE r.ev.tenant \in sweep.todo /\ r.ev.tenant # sweep.tenant
  BY <1>3, <1>7 DEF Awaits
<1>8. CASE r.ev.tenant = sweep.tenant
  <2>1. Cardinality(sweep.rows) >= MaxBatch /\ \A s \in sweep.rows : s.at <= r.at
    BY <1>8 DEF Marks, Picked, Of
  <2>2. ~(Cardinality(sweep.rows) < MaxBatch)
    <3>1. Cardinality(sweep.rows) \in Nat
      BY FS_CardinalityType DEF UsageTyped, Finite
    <3> QED
      BY <2>1, <3>1, UsageBounds
  <2>3. last < r.at
    <3>1. CASE last = since
      <4>1. ~(r.at <= since)
        BY DEF Marks, WatermarkSafe, Unfolded
      <4> QED
        BY <1>4, <3>1, <4>1
    <3>2. ASSUME NEW x \in sweep.rows, last = Ms(x.at) PROVE last < r.at
      <4>1. x \in Reading /\ x \in Row /\ x.at \in Stamp
        BY ReadingIs, RowShape
      <4>2. Ms(x.at) <= x.at /\ x.at \in Int /\ x.at <= r.at
        BY <2>1, <4>1, StampType
      <4>3. ~(r.at = Ms(r.at) /\ x.at = r.at)
        BY <1>8, <2>2 DEF Split, Of
      <4> QED
        BY <1>4, <3>2, <4>2, <4>3
    <3> QED
      BY <1>1, <3>1, <3>2
  <2>4. CASE sweep.cappedMin = NoValue
    <3>1. Done(sweep).cappedMin = last
      BY <1>3, <2>2, <2>4
    <3> QED
      BY <1>5, <2>3, <3>1 DEF Awaits
  <2>5. CASE sweep.cappedMin # NoValue
    <3>1. Done(sweep).cappedMin = Min({sweep.cappedMin, last})
      BY <1>3, <2>2, <2>5
    <3>2. /\ Min({sweep.cappedMin, last}) \in {sweep.cappedMin, last}
          /\ Min({sweep.cappedMin, last}) <= last
      BY <1>4, <2>5, MaxOfTwo
    <3>3. Done(sweep).cappedMin # NoValue /\ Done(sweep).cappedMin \in Int /\ Done(sweep).cappedMin <= last
      BY <1>4, <1>5, <2>5, <3>1, <3>2
    <3> QED
      BY <1>4, <2>3, <3>3 DEF Awaits
  <2> QED
    BY <2>4, <2>5
<1>9. Awaits(r, sweep)
  BY DEF Marks, Scanned
<1> QED
  BY <1>6, <1>7, <1>8, <1>9 DEF Awaits

LEMMA FoldMarks ==
  ASSUME WatermarkInv, rollupTenant, UsageTyped'
  PROVE  WatermarkInv'
<1>0. UsageTyped /\ Stamped /\ Marks
  BY DEF WatermarkInv
<1>1. /\ folded' = folded \union {r \in raw : BucketOf(r) \in Touched
                      /\ (Distinct(BucketOf(r)) => r \in sweep.rows)}
      /\ sweep.pc = "fold" /\ GoOn(Done(sweep)) /\ sweep'.rows = {}
      /\ UNCHANGED <<request, raw>> /\ late' = late \union Split(sweep)
  BY <1>0, FoldWrites, FoldTyped
<1>2. Done(sweep) \in SweepState /\ Done(sweep).pc = "tenants"
  BY <1>0, <1>1, DoneType
<1>3. ASSUME NEW r \in raw, Unfolded(r)' PROVE Awaits(r, Done(sweep))
  <2>1. Unfolded(r) /\ r \notin sweep.rows /\ r \notin Split(sweep)
    BY <1>1, <1>3 DEF Unfolded, Touched
  <2> QED
    BY <1>0, <1>1, <2>1, DoneAwaits
<1>4. Marks'
  BY <1>0, <1>1, <1>2, <1>3, MarksGoOn
<1>5. Stamped'
  BY <1>0, <1>1, ReadingShrinks, StampedStays
<1> QED
  BY <1>4, <1>5 DEF WatermarkInv

LEMMA FailsMarks ==
  ASSUME WatermarkInv, NEW t \in Metered, SweepFails(t), UsageTyped'
  PROVE  WatermarkInv'
<1>0. UsageTyped /\ Stamped /\ Marks /\ sweep \in SweepState
  BY DEF WatermarkInv, UsageTyped, TypeOK
<1> DEFINE s == [sweep EXCEPT !.pc = "tenants", !.todo = @ \ {t}, !.tenant = NoValue, !.rows = {}]
<1>1. /\ s.pc = "tenants" /\ s.todo = sweep.todo \ {t} /\ s.cappedMin = sweep.cappedMin
      /\ s \in SweepState
  BY <1>0 DEF SweepState
<1>2. /\ sweep.pc # "idle" /\ GoOn(s) /\ late' = late \union Of(t, raw)
      /\ UNCHANGED <<request, raw, folded>>
  BY DEF SweepFails
<1> HIDE DEF s
<1>3. ASSUME NEW r \in raw, Unfolded(r)' PROVE Awaits(r, s)
  <2>1. Unfolded(r) /\ r.ev.tenant # t
    BY <1>2, <1>3 DEF Unfolded, Of
  <2>2. Awaits(r, sweep)
    BY <1>0, <1>2, <2>1 DEF Marks, Scanned
  <2> QED
    BY <1>1, <2>1, <2>2 DEF Awaits
<1>4. Marks'
  BY <1>0, <1>1, <1>2, <1>3, MarksGoOn
<1>5. Stamped'
  <2>1. sweep'.rows = {}
    BY <1>0, FailsTyped
  <2> QED
    BY <1>0, <1>2, <2>1, ReadingShrinks, StampedStays
<1> QED
  BY <1>4, <1>5 DEF WatermarkInv

LEMMA RestartMarks ==
  ASSUME WatermarkInv, Restart, UsageTyped'
  PROVE  WatermarkInv'
<1>0. UsageTyped /\ Stamped /\ Marks
  BY DEF WatermarkInv
<1>1. /\ since' = 0 /\ sweep' = NoSweep /\ NoSweep.pc = "idle" /\ NoSweep.rows = {}
      /\ UNCHANGED <<raw, folded, late>> /\ \A q \in Producers : request'[q] = NoValue
  BY DEF Restart, NoSweep
<1>2. Stamped'
  BY <1>0, <1>1, ReadingShrinks, StampedStays
<1>3. WatermarkSafe'
  <2> SUFFICES ASSUME NEW r \in raw, r.at <= 0 PROVE FALSE
    BY <1>1 DEF WatermarkSafe
  <2>1. r.at \in Nat /\ r.at > 0
    BY <1>0, StampsAre DEF Stamped
  <2> QED
    BY <2>1
<1> QED
  BY <1>1, <1>2, <1>3 DEF WatermarkInv, Marks, Scanned, Picked

(* A step of the clock, a prune or an erasure.                             *)
LEMMA RowsGone ==
  ASSUME WatermarkInv, UsageTyped', UNCHANGED <<request, since, sweep>>, raw' \subseteq raw,
         \A r \in raw' : Unfolded(r)' => Unfolded(r)
  PROVE  WatermarkInv'
<1>1. Stamped'
  BY ReadingShrinks, StampedStays DEF WatermarkInv
<1>2. Marks'
  BY MarksStand DEF WatermarkInv
<1> QED
  BY <1>1, <1>2 DEF WatermarkInv

LEMMA InitWatermarkInv == Init => WatermarkInv
<1> SUFFICES ASSUME Init PROVE WatermarkInv
  OBVIOUS
<1>1. UsageTyped
  BY InitUsageInv DEF UsageInv
<1>2. raw = {} /\ sweep.pc = "idle" /\ sweep.rows = {} /\ \A p \in Producers : request[p] = NoValue
  BY DEF Init, NoSweep
<1>3. Stamped
  BY <1>1, <1>2, ReadingIs DEF Stamped
<1> QED
  BY <1>1, <1>2, <1>3 DEF WatermarkInv, Marks, WatermarkSafe, Scanned, Picked

LEMMA NextWatermarkInv == WatermarkInv /\ [Next]_vars => WatermarkInv'
<1> SUFFICES ASSUME WatermarkInv, [Next]_vars PROVE WatermarkInv'
  OBVIOUS
<1>0. UsageTyped
  BY DEF WatermarkInv
<1>1. CASE Tick
  BY <1>0, <1>1, TickTyped, RowsGone DEF Tick, Unfolded
<1>2. CASE Restart
  BY <1>0, <1>2, RestartTyped, RestartMarks
<1>3. CASE SweepBegin
  BY <1>0, <1>3, BeginTyped, BeginMarks
<1>4. CASE rollupTenant
  BY <1>0, <1>4, FoldTyped, FoldMarks
<1>5. ASSUME NEW t \in Metered, selectRawSince(t) PROVE WatermarkInv'
  BY <1>0, <1>5, SelectTyped, SelectMarks
<1>6. ASSUME NEW p \in Producers, appendBatch(p) PROVE WatermarkInv'
  BY <1>0, <1>6, AppendTyped, AppendMarks
<1>7. ASSUME NEW p \in Producers, NEW b \in Batches, ingestBatch(p, b) PROVE WatermarkInv'
  BY <1>0, <1>7, IngestTyped, IngestMarks
<1>8. ASSUME NEW t \in Metered, SweepFails(t) PROVE WatermarkInv'
  BY <1>0, <1>8, FailsTyped, FailsMarks
<1>9. ASSUME NEW t \in Metered, pruneTenant(t) PROVE WatermarkInv'
  <2>1. raw' \subseteq raw /\ \A r \in raw' : Unfolded(r)' => Unfolded(r)
    BY <1>9 DEF pruneTenant, Unfolded
  <2> QED
    BY <1>0, <1>9, <2>1, PruneTyped, RowsGone DEF pruneTenant
<1>10. ASSUME NEW t \in Metered, eraseTenantUsage(t) PROVE WatermarkInv'
  <2>1. raw' \subseteq raw /\ \A r \in raw' : Unfolded(r)' => Unfolded(r)
    BY <1>10 DEF eraseTenantUsage, Unfolded, Of
  <2> QED
    BY <1>0, <1>10, <2>1, EraseTyped, RowsGone DEF eraseTenantUsage
<1>11. CASE UNCHANGED vars
  <2>1. UsageTyped'
    BY <1>0, <1>11 DEF vars, UsageTyped, TypeOK, SweepShape, Finite
  <2> QED
    BY <1>11, <2>1, RowsGone DEF vars, Unfolded
<1> QED
  BY <1>1, <1>2, <1>3, <1>4, <1>5, <1>6, <1>7, <1>8, <1>9, <1>10, <1>11 DEF Next, Sweep

(* The watermark passes no row that has gone into no total, save those     *)
(* shown late, those of a tenant whose sweep failed and those that a full  *)
(* batch split from their whole millisecond, for any number of tenants and *)
(* producers, any batch, any stamps and any limit of a sweep (rollupSweep  *)
(* and its cappedMin).                                                     *)
THEOREM NoEventIsPassed == Spec => []WatermarkSafe
<1>1. Init => WatermarkInv
  BY InitWatermarkInv
<1>2. WatermarkInv /\ [Next]_vars => WatermarkInv'
  BY NextWatermarkInv
<1>3. WatermarkInv => WatermarkSafe
  BY DEF WatermarkInv, Marks
<1> QED
  BY <1>1, <1>2, <1>3, PTL DEF Spec
=============================================================================
