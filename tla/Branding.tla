------------------------------ MODULE Branding ------------------------------
(***************************************************************************)
(* White-label domains (src/server/modules/reseller/verify.ts) and the     *)
(* branding they appear in (branding.ts, routes.ts), on top of the         *)
(* hierarchy of Reseller, which decides whose branding a tenant inherits.  *)
(* Of the branding fields the custom domain is the one modelled, with its  *)
(* lock: it takes effect only through an active binding.                   *)
(*                                                                         *)
(* Here too the reads and the writes of a handler are transactions of      *)
(* their own (the gate of a plane and the first read are one step here);   *)
(* what two handlers must not do together, an index refuses.               *)
(***************************************************************************)
EXTENDS Reseller

CONSTANTS Hosts, Bindings, Calls

VARIABLES
  binding,   \* binding[b]: tenant, host and status, or None
  profile,   \* profile[t]: the custom domain t has set, and whether t locks it
  call       \* call[c]: what the handler of c has read

brandingVars == <<binding, profile, call>>
-----------------------------------------------------------------------------
Binding == [tenant : Tenants, host : Hosts, status : {"pending", "verified", "active"}]
Profile == [domain : Hosts \union {None}, locked : BOOLEAN]
Bound == {"verified", "active"}

ASSUME NoBindingAssumption == None \notin Binding \union Bound

Call == [pc : {"idle", "insert", "owner", "update", "backed", "set",
               "parent", "layer", "own", "inherited", "shown"},
         tenant : Tenants \union {None}, parent : Tenants \union {None},
         binding : Bindings \union {None}, to : {None} \union Bound,
         host : Hosts \union {None}, locked : BOOLEAN,
         layer : Profile, active : BOOLEAN, from : Tenants \union {None}]
Unset == [domain |-> None, locked |-> FALSE]
Waiting == [pc |-> "idle", tenant |-> None, parent |-> None, binding |-> None, to |-> None,
            host |-> None, locked |-> FALSE, layer |-> Unset, active |-> FALSE, from |-> None]

BrandingTypeOK ==
  /\ binding \in [Bindings -> Binding \union {None}]
  /\ profile \in [Tenants -> Profile]
  /\ call \in [Calls -> Call]

BrandingInit ==
  /\ binding = [b \in Bindings |-> None]
  /\ profile = [t \in Tenants |-> Unset]
  /\ call = [c \in Calls |-> Waiting]

Is(c, pc) == call[c].pc = pc
Set(c, to) == call' = [call EXCEPT ![c] = to]
Continue(c, pc) == Set(c, [call[c] EXCEPT !.pc = pc])
Return(c) == Set(c, Waiting)
Refuses(t) == reseller[t] # None /\ reseller[t].status = "suspended"
-----------------------------------------------------------------------------
(* The tenant a host is bound to, as far as t is concerned.                *)
HeldByOther(t, h) ==
  \E b \in Bindings : binding[b] # None /\ binding[b].host = h
                        /\ binding[b].status \in Bound /\ binding[b].tenant # t

Initiate(c, t, h) ==
  /\ Is(c, "idle") /\ t \in Resellers /\ ~Refuses(t)
  /\ ~HeldByOther(t, h)
  /\ Set(c, [Waiting EXCEPT !.pc = "insert", !.tenant = t, !.host = h])
  /\ UNCHANGED <<binding, profile>>

InitiateInsert(c, b) ==
  /\ Is(c, "insert") /\ binding[b] = None
  /\ binding' = [binding EXCEPT ![b] =
       [tenant |-> call[c].tenant, host |-> call[c].host, status |-> "pending"]]
  /\ Return(c)
  /\ UNCHANGED profile

(* verify (to "verified") and activate (to "active").                      *)
Before == [verified |-> "pending", active |-> "verified"]

BindingRead(c, b, to) ==
  /\ Is(c, "idle") /\ binding[b] # None
  /\ LET t == binding[b].tenant
     IN  /\ t \in Resellers /\ ~Refuses(t)
         /\ binding[b].status = Before[to]
         /\ Set(c, [Waiting EXCEPT !.pc = "owner", !.tenant = t, !.binding = b, !.to = to,
                                   !.host = binding[b].host])
  /\ UNCHANGED <<binding, profile>>

(* The DNS does not show every record of the challenge.                    *)
checkDnsChallenge(c) ==
  /\ Is(c, "owner") /\ call[c].to = "verified"
  /\ Return(c)
  /\ UNCHANGED <<binding, profile>>

BindingOwner(c) ==
  /\ Is(c, "owner")
  /\ IF HeldByOther(call[c].tenant, call[c].host) THEN Return(c) ELSE Continue(c, "update")
  /\ UNCHANGED <<binding, profile>>

(* domain_binding_host_bound_uniq.                                         *)
HostIndex(b, h) ==
  \A o \in Bindings \ {b} :
    binding[o] # None => ~(binding[o].host = h /\ binding[o].status \in Bound)

BindingUpdate(c) ==
  LET b == call[c].binding
  IN  /\ Is(c, "update")
      /\ binding' = IF binding[b].status = Before[call[c].to] /\ HostIndex(b, call[c].host)
                    THEN [binding EXCEPT ![b].status = call[c].to] ELSE binding
      /\ Return(c)
      /\ UNCHANGED profile
-----------------------------------------------------------------------------
(* PUT /admin/reseller/branding and PUT /admin/branding.  The second also  *)
(* reads the reseller of the tenant, for its status and again for its      *)
(* locks; a call that sets and not only reads has "active" as its to.      *)
Backed_AnyHost(t, h) ==
  \E b \in Bindings : binding[b] # None /\ binding[b].tenant = t /\ binding[b].status = "active"
Backed(t, h) ==
  \E b \in Bindings : binding[b] = [tenant |-> t, host |-> h, status |-> "active"]

SetBrandingOfReseller(c, t, h, locked) ==
  /\ Is(c, "idle") /\ t \in Resellers /\ ~Refuses(t)
  /\ Set(c, [Waiting EXCEPT !.pc = "backed", !.tenant = t, !.host = h, !.locked = locked])
  /\ UNCHANGED <<binding, profile>>

SetBranding(c, t, h) ==
  /\ Is(c, "idle") /\ t \in tenant
  /\ parent[t] # None => ~Refuses(parent[t])
  /\ Set(c, [Waiting EXCEPT !.pc = "parent", !.tenant = t, !.host = h, !.to = "active"])
  /\ UNCHANGED <<binding, profile>>

SetBrandingLocks(c) ==
  /\ Is(c, "layer") /\ call[c].to # None
  /\ IF call[c].parent # None /\ profile[call[c].parent].locked /\ call[c].host # None
     THEN Return(c) ELSE Continue(c, "backed")
  /\ UNCHANGED <<binding, profile>>

assertBrandingFieldsBacked(c) ==
  /\ Is(c, "backed")
  /\ IF call[c].host = None \/ Backed(call[c].tenant, call[c].host)
     THEN Continue(c, "set") ELSE Return(c)
  /\ UNCHANGED <<binding, profile>>

setProfile(c) ==
  /\ Is(c, "set")
  /\ profile' = [profile EXCEPT ![call[c].tenant] =
       [domain |-> call[c].host, locked |-> call[c].locked]]
  /\ Return(c)
  /\ UNCHANGED binding
-----------------------------------------------------------------------------
(* GET /admin/branding: the tenant's profile, its reseller, that one's     *)
(* profile, the active bindings of both; then resolveField.                *)
HasActive(t) ==
  t # None /\ \E b \in Bindings : binding[b] # None /\ binding[b].tenant = t
                                    /\ binding[b].status = "active"

GetProfile(c, t) ==
  /\ Is(c, "idle") /\ t \in tenant
  /\ Set(c, [Waiting EXCEPT !.pc = "parent", !.tenant = t, !.host = profile[t].domain])
  /\ UNCHANGED <<binding, profile>>

GetParent(c) ==
  /\ Is(c, "parent")
  /\ Set(c, [call[c] EXCEPT !.pc = "layer", !.parent = parent[call[c].tenant]])
  /\ UNCHANGED <<binding, profile>>

GetLayer(c) ==
  /\ Is(c, "layer") /\ call[c].to = None
  /\ Set(c, [call[c] EXCEPT !.pc = "own",
       !.layer = IF call[c].parent = None THEN Unset ELSE profile[call[c].parent]])
  /\ UNCHANGED <<binding, profile>>

GetOwn(c) ==
  /\ Is(c, "own")
  /\ Set(c, [call[c] EXCEPT !.pc = "inherited", !.active = HasActive(call[c].tenant)])
  /\ UNCHANGED <<binding, profile>>

(* The layer that supplies the domain, once both have been read.           *)
resolveField(q) ==
  LET own == ~q.layer.locked /\ q.host # None
  IN  IF own THEN [from |-> q.tenant, host |-> q.host]
      ELSE IF q.layer.domain # None THEN [from |-> q.parent, host |-> q.layer.domain]
      ELSE [from |-> None, host |-> None]

GetInherited(c) ==
  /\ Is(c, "inherited")
  /\ LET field == resolveField(call[c])
         shown == call[c].active \/ HasActive(call[c].parent)
     IN  Set(c, [call[c] EXCEPT !.pc = "shown",
           !.from = IF shown THEN field.from ELSE None,
           !.host = IF shown THEN field.host ELSE None])
  /\ UNCHANGED <<binding, profile>>

Shown(c) == Is(c, "shown") /\ Return(c) /\ UNCHANGED <<binding, profile>>
-----------------------------------------------------------------------------
BrandingStep(c) ==
  \/ \E t \in Tenants, h \in Hosts : Initiate(c, t, h)
  \/ \E b \in Bindings : InitiateInsert(c, b)
  \/ \E b \in Bindings, to \in Bound : BindingRead(c, b, to)
  \/ checkDnsChallenge(c) \/ BindingOwner(c) \/ BindingUpdate(c)
  \/ \E t \in Tenants, h \in Hosts \union {None}, locked \in BOOLEAN :
       SetBrandingOfReseller(c, t, h, locked)
  \/ \E t \in Tenants, h \in Hosts \union {None} : SetBranding(c, t, h)
  \/ SetBrandingLocks(c) \/ assertBrandingFieldsBacked(c) \/ setProfile(c)
  \/ \E t \in Tenants : GetProfile(c, t)
  \/ GetParent(c) \/ GetLayer(c) \/ GetOwn(c) \/ GetInherited(c) \/ Shown(c)

BrandingNext == \E c \in Calls : BrandingStep(c)

(* The hierarchy goes on as it does, at any time.                          *)
BrandingSpec == ResellerSpec /\ BrandingInit /\ [][BrandingNext]_brandingVars
-----------------------------------------------------------------------------
(* A domain is shown in a tenant's branding only if the layer that         *)
(* supplies it, the tenant or its reseller, has it actively bound and      *)
(* nobody else has, through every interleaving with verifications, claims  *)
(* of the same host, moves and other edits: the read that answers only     *)
(* asks whether either layer has some active domain (routes.ts:706), and   *)
(* a claim asks who holds the host in a transaction before the one that    *)
(* takes it (verify.ts:476).                                               *)
ShownIsBound ==
  \A c \in Calls : call[c].pc = "shown" /\ call[c].host # None =>
    /\ \E b \in Bindings : binding[b] =
         [tenant |-> call[c].from, host |-> call[c].host, status |-> "active"]
    /\ ~HeldByOther(call[c].from, call[c].host)
=============================================================================
