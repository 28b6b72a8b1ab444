------------------------------ MODULE Reseller ------------------------------
(***************************************************************************)
(* The reseller hierarchy (src/server/modules/reseller/lifecycle.ts): the  *)
(* tenants, those of them that are resellers, and the reseller each tenant *)
(* is under.                                                               *)
(*                                                                         *)
(* A handler is a sequence of transactions, each of which reads one thing  *)
(* or writes one thing; no row is locked and no condition is repeated in a *)
(* write.  What a handler has read, and how far it is, is kept in op.      *)
(***************************************************************************)
EXTENDS Integers, FiniteSets

CONSTANTS
  Tenants,       \* identifiers of tenants
  Operations,    \* requests a console may have under way at once
  Quotas,        \* sub-tenant quotas an operator sets
  None

ASSUME ResellerAssumption == Quotas \subseteq Nat /\ IsFiniteSet(Operations)

VARIABLES
  tenant,    \* the tenants that exist
  reseller,  \* reseller[t]: its status and quota, or None
  parent,    \* parent[t]: the reseller t is under, or None
  op,        \* op[r]: what the handler of r has read
  peak       \* peak[t]: the largest quota t has had

resellerVars == <<tenant, reseller, parent, op, peak>>
-----------------------------------------------------------------------------
ResellerRow == [status : {"active", "suspended", "offboarding"}, quota : Quotas]

ASSUME NoResellerAssumption == None \notin Tenants \union ResellerRow

Operation == [pc : {"idle", "create", "already", "parent", "count", "provision", "link",
                    "status", "source", "dest", "room", "move"},
              tenant : Tenants \union {None}, to : Tenants \union {None},
              source : Tenants \union {None}, quota : Quotas \union {None},
              status : {None, "active", "suspended", "offboarding"}]
Quiet == [pc |-> "idle", tenant |-> None, to |-> None, source |-> None, quota |-> None,
          status |-> None]

ResellerTypeOK ==
  /\ tenant \subseteq Tenants
  /\ reseller \in [Tenants -> ResellerRow \union {None}]
  /\ parent \in [Tenants -> Tenants \union {None}]
  /\ op \in [Operations -> Operation]
  /\ peak \in [Tenants -> Quotas \union {0}]

Resellers == {t \in tenant : reseller[t] # None}
SubTenants(p) == {t \in tenant : parent[t] = p}
countSubTenants(p) == Cardinality(SubTenants(p))

ResellerInit ==
  /\ tenant \in SUBSET Tenants
  /\ reseller = [t \in Tenants |-> None]
  /\ parent = [t \in Tenants |-> None]
  /\ op = [r \in Operations |-> Quiet]
  /\ peak = [t \in Tenants |-> 0]

At(r, pc) == op[r].pc = pc
Go(r, to) == op' = [op EXCEPT ![r] = to]
Proceed(r, pc) == Go(r, [op[r] EXCEPT !.pc = pc])
End(r) == Go(r, Quiet)
-----------------------------------------------------------------------------
(* onboardReseller: a new tenant, or one that exists, is not a reseller    *)
(* and is under none.                                                      *)
provisionTenant(t) == t \notin tenant /\ tenant' = tenant \union {t}

OnboardNew(r, t, q) ==
  /\ At(r, "idle") /\ provisionTenant(t)
  /\ Go(r, [Quiet EXCEPT !.pc = "create", !.tenant = t, !.quota = q])
  /\ UNCHANGED <<reseller, parent, peak>>

OnboardExisting(r, t, q) ==
  /\ At(r, "idle") /\ t \in tenant
  /\ Go(r, [Quiet EXCEPT !.pc = "already", !.tenant = t, !.quota = q])
  /\ UNCHANGED <<tenant, reseller, parent, peak>>

OnboardAlready(r) ==
  /\ At(r, "already")
  /\ IF reseller[op[r].tenant] = None THEN Proceed(r, "parent") ELSE End(r)
  /\ UNCHANGED <<tenant, reseller, parent, peak>>

OnboardParent(r) ==
  /\ At(r, "parent")
  /\ IF parent[op[r].tenant] = None THEN Proceed(r, "create") ELSE End(r)
  /\ UNCHANGED <<tenant, reseller, parent, peak>>

(* The primary key refuses a second row of the same tenant.                *)
createReseller(r) ==
  LET t == op[r].tenant
  IN  /\ At(r, "create")
      /\ IF reseller[t] = None
         THEN /\ reseller' = [reseller EXCEPT ![t] = [status |-> "active", quota |-> op[r].quota]]
              /\ peak' = [peak EXCEPT ![t] = op[r].quota]
         ELSE UNCHANGED <<reseller, peak>>
      /\ End(r)
      /\ UNCHANGED <<tenant, parent>>
-----------------------------------------------------------------------------
(* provisionSubTenant.  The status read and the count are of two           *)
(* transactions, the tenant and its link are written by two more.          *)
QuotaExceeded_Exclusive(used, quota) == used > quota
QuotaExceeded(used, quota) == used >= quota

ProvisionRead(r, p) ==
  /\ At(r, "idle") /\ p \in Resellers /\ reseller[p].status # "suspended"
  /\ Go(r, [Quiet EXCEPT !.pc = "count", !.to = p, !.quota = reseller[p].quota])
  /\ UNCHANGED <<tenant, reseller, parent, peak>>

ProvisionCount(r) ==
  /\ At(r, "count")
  /\ IF QuotaExceeded(countSubTenants(op[r].to), op[r].quota)
     THEN End(r) ELSE Proceed(r, "provision")
  /\ UNCHANGED <<tenant, reseller, parent, peak>>

ProvisionTenant(r, t) ==
  /\ At(r, "provision") /\ provisionTenant(t)
  /\ Go(r, [op[r] EXCEPT !.pc = "link", !.tenant = t])
  /\ UNCHANGED <<reseller, parent, peak>>

(* tenant_parent_reseller_not_self.                                        *)
NotSelf(t, p) == t # p

setParentReseller(t, p) ==
  parent' = IF NotSelf(t, p) THEN [parent EXCEPT ![t] = p] ELSE parent

ProvisionLink(r) ==
  /\ At(r, "link")
  /\ setParentReseller(op[r].tenant, op[r].to)
  /\ End(r)
  /\ UNCHANGED <<tenant, reseller, peak>>
-----------------------------------------------------------------------------
(* suspendReseller, reinstateReseller, offboardReseller: the status is     *)
(* read, and the new one written whatever it is by then.                   *)
From(to) ==
  CASE to = "suspended"   -> {"active"}
    [] to = "active"      -> {"suspended"}
    [] to = "offboarding" -> {"active", "offboarding"}

StatusRead(r, p, to) ==
  /\ At(r, "idle") /\ p \in Resellers /\ reseller[p].status \in From(to)
  /\ Go(r, [Quiet EXCEPT !.pc = "status", !.to = p, !.status = to])
  /\ UNCHANGED <<tenant, reseller, parent, peak>>

setStatus(r) ==
  /\ At(r, "status")
  /\ reseller' = [reseller EXCEPT ![op[r].to].status = op[r].status]
  /\ End(r)
  /\ UNCHANGED <<tenant, parent, peak>>

(* Lowering the quota below the number of sub-tenants is allowed.          *)
setQuota(p, q) ==
  /\ p \in Resellers
  /\ reseller' = [reseller EXCEPT ![p].quota = q]
  /\ peak' = [peak EXCEPT ![p] = IF q > @ THEN q ELSE @]
  /\ UNCHANGED <<tenant, parent, op>>
-----------------------------------------------------------------------------
(* moveSubTenant, to another reseller (to) or to none.                     *)
MoveRead(r, t, to) ==
  /\ At(r, "idle") /\ t \in tenant
  /\ Go(r, [Quiet EXCEPT !.tenant = t, !.to = to, !.source = parent[t],
                         !.pc = IF parent[t] # None THEN "source"
                                ELSE IF to # None THEN "dest" ELSE "move"])
  /\ UNCHANGED <<tenant, reseller, parent, peak>>

MoveSource(r) ==
  /\ At(r, "source")
  /\ IF reseller[op[r].source] # None /\ reseller[op[r].source].status = "suspended" THEN End(r)
     ELSE Proceed(r, IF op[r].to = None THEN "move" ELSE "dest")
  /\ UNCHANGED <<tenant, reseller, parent, peak>>

Receives(row) == row # None /\ row.status = "active"

MoveDestination(r) ==
  LET dest == reseller[op[r].to]
  IN  /\ At(r, "dest")
      /\ IF ~Receives(dest) THEN End(r)
         ELSE Go(r, [op[r] EXCEPT !.pc = IF op[r].to = op[r].source THEN "move" ELSE "room",
                                  !.quota = dest.quota])
      /\ UNCHANGED <<tenant, reseller, parent, peak>>

MoveCount(r) ==
  /\ At(r, "room")
  /\ IF QuotaExceeded(countSubTenants(op[r].to), op[r].quota)
     THEN End(r) ELSE Proceed(r, "move")
  /\ UNCHANGED <<tenant, reseller, parent, peak>>

MoveLink(r) ==
  /\ At(r, "move")
  /\ IF op[r].to = None THEN parent' = [parent EXCEPT ![op[r].tenant] = None]
     ELSE setParentReseller(op[r].tenant, op[r].to)
  /\ End(r)
  /\ UNCHANGED <<tenant, reseller, peak>>

(* The process stops between two of the transactions of r.                 *)
Abandon(r) == op[r] # Quiet /\ End(r) /\ UNCHANGED <<tenant, reseller, parent, peak>>
-----------------------------------------------------------------------------
Onboard(r) ==
  \/ \E t \in Tenants, q \in Quotas : OnboardNew(r, t, q) \/ OnboardExisting(r, t, q)
  \/ OnboardAlready(r) \/ OnboardParent(r) \/ createReseller(r)

Provision(r) ==
  \/ \E t \in Tenants : ProvisionRead(r, t) \/ ProvisionTenant(r, t)
  \/ ProvisionCount(r) \/ ProvisionLink(r)

Transition(r) ==
  \/ \E p \in Tenants, to \in {"active", "suspended", "offboarding"} : StatusRead(r, p, to)
  \/ setStatus(r)

Move(r) ==
  \/ \E t \in Tenants, to \in Tenants \union {None} : MoveRead(r, t, to)
  \/ MoveSource(r) \/ MoveDestination(r) \/ MoveCount(r) \/ MoveLink(r)

ResellerNext ==
  \/ \E r \in Operations : Onboard(r) \/ Provision(r) \/ Transition(r) \/ Move(r) \/ Abandon(r)
  \/ \E p \in Tenants, q \in Quotas : setQuota(p, q)

ResellerSpec == ResellerInit /\ [][ResellerNext]_resellerVars
-----------------------------------------------------------------------------
(* The quota of a reseller is kept but for the requests that race for its  *)
(* last place: it never has more sub-tenants than the largest quota it was *)
(* given and one for every other request that can be under way.            *)
QuotaHeld ==
  \A p \in Tenants : reseller[p] # None =>
    countSubTenants(p) <= peak[p] + Cardinality(Operations) - 1

(* The one-level rule (lifecycle.ts:136): a tenant cannot be both a        *)
(* reseller and a sub-tenant.                                              *)
OneLevel == \A t \in Resellers : parent[t] = None
-----------------------------------------------------------------------------
(* What the documents say and the code does not do.                        *)

(* "Provision a NEW sub-tenant under the acting reseller, subject to its   *)
(* HARD sub-tenant quota" (lifecycle.ts:177, FR-003), which it "cannot     *)
(* exceed" (00019, SC-008): two requests that have both counted before     *)
(* either links do.                                                        *)
HardQuota == \A p \in Tenants : reseller[p] # None => countSubTenants(p) <= peak[p]
=============================================================================
