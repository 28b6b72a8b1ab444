------------------------------ MODULE MCTenancy ------------------------------
(***************************************************************************)
(* Four tenants, at most two of them resellers, and the users of one       *)
(* tenant.  The parts are explored one at a time: users beside an empty    *)
(* hierarchy; the hierarchy by itself; branding on a hierarchy of three    *)
(* tenants in which only the sub-tenant moves.                             *)
(***************************************************************************)
EXTENDS Branding, AdminUsers, TLC

vars == <<resellerVars, brandingVars, usersVars>>
TypeOK == ResellerTypeOK /\ BrandingTypeOK /\ UsersTypeOK

Init == ResellerInit /\ BrandingInit /\ UsersInit

NoOps == \A r \in Operations : op[r] = Quiet
NoBranding == BrandingInit
NoUsers ==
  Cardinality({u \in Users : user[u] # NoOne}) = 1 /\ \A x \in Updates : update[x] = NoUpdate

Settled ==
  /\ tenant = 1 .. 3 /\ Cardinality(Resellers) = 2
  /\ \A p \in Resellers : reseller[p] = [status |-> "active", quota |-> 1] /\ parent[p] = None

(* Two calls at a time are claims of a host; a move goes on beside calls   *)
(* that read.                                                              *)
Claims == {c \in Calls : call[c].pc \in {"owner", "update"}}
Reads == {c \in Calls : call[c].pc \in {"parent", "layer", "own", "inherited"} /\ call[c].to = None}
Idle == {c \in Calls : call[c] = Waiting}

SomeBranding ==
  \/ \E c \in Calls : (Idle = Calls \/ c \notin Idle) /\ NoOps /\ BrandingStep(c)
  \/ \E c \in Reads : BrandingStep(c)
  \/ \E c \in Idle : NoOps /\ Claims \union {c} = Calls /\ \E b \in Bindings, to \in Bound : BindingRead(c, b, to)

SomeMove ==
  /\ Idle \union Reads = Calls
  /\ \E r \in Operations :
       \/ NoOps /\ Reads # {} /\ \E t \in tenant \ Resellers, p \in tenant \union {None} : MoveRead(r, t, p)
       \/ MoveSource(r) \/ MoveDestination(r) \/ MoveCount(r) \/ MoveLink(r)

Next ==
  \/ tenant = {} /\ NoOps /\ UsersNext /\ UNCHANGED <<resellerVars, brandingVars>>
  \/ NoUsers /\ Settled /\ SomeBranding /\ UNCHANGED <<resellerVars, usersVars>>
  \/ NoUsers /\ ~NoBranding /\ SomeMove /\ UNCHANGED <<brandingVars, usersVars>>
  \/ NoUsers /\ NoBranding /\ ResellerNext /\ UNCHANGED <<brandingVars, usersVars>>

Spec == Init /\ [][Next]_vars

(* At most two resellers, and one when there are four tenants, so that the *)
(* others are more than two requests can overrun its quota by; a status    *)
(* other than active, one at most, or a lowered quota with one request     *)
(* under way and three tenants; one lock of a branding field.              *)
(* Identifiers are fresh: they are given out in order.                     *)
Inactive == {p \in Resellers : reseller[p].status # "active"}
Lowered == {p \in Resellers : reseller[p].quota < peak[p]}
InOrder(S) == S = 1 .. Cardinality(S)
Bounded ==
  /\ Cardinality(Resellers) <= 2 /\ Cardinality(Inactive) <= 1
  /\ Inactive \union Lowered # {} \/ (\E r \in Operations : At(r, "status")) => \E r \in Operations : op[r] = Quiet
  /\ Cardinality(tenant) > 3 => Cardinality(Resellers) <= 1 /\ Inactive \union Lowered = {}
  /\ Cardinality({t \in Tenants : profile[t].locked}) <= 1
  /\ InOrder(tenant) /\ InOrder({u \in Users : user[u] # NoOne})
  /\ InOrder({b \in Bindings : binding[b] # None})

Symmetry == UNION {Permutations(S) : S \in {Operations, Calls, Updates, Hosts}}
=============================================================================
