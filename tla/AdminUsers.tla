----------------------------- MODULE AdminUsers -----------------------------
(***************************************************************************)
(* The console users of one tenant (src/server/modules/admin/users.ts) and *)
(* the row locks updateUser takes before it removes an owner: first the    *)
(* row of the user, then, one after the other, those of all active owners. *)
(* Locks are held to the end of the transaction, and a cycle of waiting    *)
(* transactions is broken by the database, which aborts one of them.       *)
(***************************************************************************)
EXTENDS Integers, FiniteSets

CONSTANTS Users, Updates, NoOne

VARIABLES
  user,     \* user[u]: role and status, or NoOne
  rowLock,  \* rowLock[u]: the update whose transaction holds the row of u
  update    \* update[x]: how far x is and what it has read

usersVars == <<user, rowLock, update>>
-----------------------------------------------------------------------------
Roles == {"owner", "admin", "viewer"}
UserStatus == {"active", "invited", "deactivated"}
Account == [role : Roles, status : UserStatus]

ASSUME NoOneAssumption == NoOne \notin Account \union Roles \union Users \union Updates

Update == [pc : {"idle", "owners", "write"}, target : Users \union {NoOne},
           account : Account \union {NoOne},   \* what the target is to become
           rows : SUBSET Users,                \* owners still to be locked
           owners : SUBSET Users]              \* owners locked
NoUpdate == [pc |-> "idle", target |-> NoOne, account |-> NoOne, rows |-> {}, owners |-> {}]

UsersTypeOK ==
  /\ user \in [Users -> Account \union {NoOne}]
  /\ rowLock \in [Users -> Updates \union {NoOne}]
  /\ update \in [Updates -> Update]

ActiveOwner == [role |-> "owner", status |-> "active"]
activeOwners == {u \in Users : user[u] = ActiveOwner}

(* A tenant that has an administrator already (provisionFirstAdmin).       *)
UsersInit ==
  /\ \E first \in Users : user = [u \in Users |-> IF u = first THEN ActiveOwner ELSE NoOne]
  /\ rowLock = [u \in Users |-> NoOne]
  /\ update = [x \in Updates |-> NoUpdate]

createUser(u, role, status) ==
  /\ user[u] = NoOne /\ status # "deactivated"
  /\ user' = [user EXCEPT ![u] = [role |-> role, status |-> status]]
  /\ UNCHANGED <<rowLock, update>>
-----------------------------------------------------------------------------
Release(x) == rowLock' = [u \in Users |-> IF rowLock[u] = x THEN NoOne ELSE rowLock[u]]
Finish(x) == Release(x) /\ update' = [update EXCEPT ![x] = NoUpdate]

Locked_Ignored(x, u) == FALSE
Locked(x, u) == rowLock[u] \notin {NoOne, x}

(* What a request may ask for, NoOne where it leaves a thing alone.        *)
Changes == [role : Roles \union {NoOne}, status : {"active", "deactivated", NoOne}]
           \ {[role |-> NoOne, status |-> NoOne]}
Changed(account, change) ==
  [role   |-> IF change.role = NoOne THEN account.role ELSE change.role,
   status |-> IF change.status = NoOne THEN account.status ELSE change.status]

RemovesOwner(account, change) ==
  /\ account.role = "owner"
  /\ change.role \notin {"owner", NoOne} \/ change.status = "deactivated"

LockUser(x, u, change) ==
  /\ update[x].pc = "idle" /\ user[u] # NoOne /\ ~Locked(x, u)
  /\ rowLock' = [rowLock EXCEPT ![u] = x]
  /\ LET removes == RemovesOwner(user[u], change)
     IN  update' = [update EXCEPT ![x] =
           [NoUpdate EXCEPT !.target = u, !.account = Changed(user[u], change),
                            !.pc = IF removes THEN "owners" ELSE "write",
                            !.rows = IF removes THEN activeOwners ELSE {}]]
  /\ UNCHANGED user

(* A row that is no active owner's any more when its lock is granted is    *)
(* left out.                                                               *)
LockOwner(x, u) ==
  /\ update[x].pc = "owners" /\ u \in update[x].rows /\ ~Locked(x, u)
  /\ rowLock' = [rowLock EXCEPT ![u] = x]
  /\ update' = [update EXCEPT ![x].rows = @ \ {u},
                              ![x].owners = IF u \in activeOwners THEN @ \union {u} ELSE @]
  /\ UNCHANGED user

LastOwner(x) == update[x].owners \ {update[x].target} = {}

DecideOwners(x) ==
  /\ update[x].pc = "owners" /\ update[x].rows = {}
  /\ IF LastOwner(x) THEN Finish(x)
     ELSE update' = [update EXCEPT ![x].pc = "write"] /\ UNCHANGED rowLock
  /\ UNCHANGED user

WriteUser(x) ==
  /\ update[x].pc = "write"
  /\ user' = [user EXCEPT ![update[x].target] = update[x].account]
  /\ Finish(x)

(* x waits for a transaction that waits, in the end, for x.                *)
WaitsFor(x, y) ==
  x # y /\ update[x].pc = "owners" /\ \E u \in update[x].rows : rowLock[u] = y
InCycle(x) ==
  \E S \in SUBSET Updates : x \in S /\ \A y \in S : \E z \in S : WaitsFor(y, z)

(* The database aborts a transaction in a cycle; any may be cut off.       *)
AbortUpdate(x) == InCycle(x) /\ Finish(x) /\ UNCHANGED user
-----------------------------------------------------------------------------
UpdateStep(x) ==
  \/ \E u \in Users : LockOwner(x, u)
  \/ DecideOwners(x) \/ WriteUser(x) \/ AbortUpdate(x)

UsersNext ==
  \/ \E u \in Users, role \in Roles, status \in UserStatus : createUser(u, role, status)
  \/ \E x \in Updates, u \in Users, change \in Changes : LockUser(x, u, change)
  \/ \E x \in Updates : UpdateStep(x)

UsersSpec == UsersInit /\ [][UsersNext]_usersVars
-----------------------------------------------------------------------------
(* A tenant never loses its last active owner, whichever owners demote or  *)
(* deactivate one another at the same time.                                *)
OwnerRemains == activeOwners # {}
=============================================================================
