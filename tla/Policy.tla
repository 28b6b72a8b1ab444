------------------------------- MODULE Policy -------------------------------
(***************************************************************************)
(* The rules of one entitlement of a plan (src/server/modules/policy): the *)
(* requests that author them, the catalog requests that change the value   *)
(* they start from and the bounds they keep, and the evaluation that       *)
(* decides the value a license is signed with.                             *)
(*                                                                         *)
(* A request reads in one transaction and writes in another, or reads and  *)
(* writes in one READ COMMITTED transaction without a lock: what it has    *)
(* read is kept with it.  Only an index on the versions of a rule refuses  *)
(* what two of them together would do.                                     *)
(***************************************************************************)
EXTENDS Condition

CONSTANTS
  RuleKeys,                \* rule keys, ordered as their text is
  Contents,                \* what an author may write in a version
  Bases,                   \* values of the plan
  Bounds,                  \* bounds of the entitlement
  Sources,                 \* what a license, plan or caller has to say of itself
  Licenses, Requests,
  MaxVersions,             \* bound on the versions of a rule
  MaxRulesPerEntitlement, MaxRulesPerTenant, MaxRulesPerIssuance, AbsoluteMax,
  MaxFields,               \* contextMaxFields
  None

ASSUME PolicyAssumption ==
  /\ RuleKeys \subseteq Nat /\ IsFiniteSet(RuleKeys) /\ Bases \subseteq Nat
  /\ Fields \subseteq Sources /\ {MaxFields, MaxVersions} \subseteq Nat /\ MaxVersions > 0
  /\ {MaxRulesPerEntitlement, MaxRulesPerTenant, MaxRulesPerIssuance, AbsoluteMax} \subseteq Nat
  /\ \A c \in Contents : /\ c.condition \in Nodes /\ {c.priority, c.value} \subseteq Nat
                         /\ c.kind \in {"adjust_limit", "select_tier"}
  /\ \A b \in Bounds : b.ruleMax \in Nat \union {None} /\ b.ruleTiers \subseteq Nat
  /\ None \notin Nat \union (Nat \X Nat) \union Licenses

VARIABLES
  rule,      \* rule[k]: the versions of rule k, oldest first
  base,      \* the plan's value of the entitlement
  bounds,    \* its rule_max and rule_tiers
  license,   \* license[l]: the value l was signed with, or None
  audit,     \* the rows of policy_evaluation
  request    \* request[r]: what r's handler has read

vars == <<rule, base, bounds, license, audit, request>>
-----------------------------------------------------------------------------
Status == {"active", "preview", "disabled"}
Version == [content : Contents, status : Status]

Versions == {p \in RuleKeys \X (1 .. MaxVersions) : p[2] <= Len(rule[p[1]])}
At(p) == rule[p[1]][p[2]]
LiveIn(versions) == {v \in DOMAIN versions : versions[v].status # "disabled"}
Live == {p \in Versions : p[2] \in LiveIn(rule[p[1]])}
WithStatus(S, status) == {p \in S : At(p).status = status}

Row == [license : Licenses \union {None}, mode : {"enforced", "preview", "dry_run"}, base : Bases, bounds : Bounds,
        fields : SUBSET Fields, fired : Versions \union {None}, considered : SUBSET Versions,
        decision : Nat]

Request == [pc : {"idle", "create", "edit", "status", "bounds", "select", "insert", "audit",
                   "dry_run"},
            key : RuleKeys \union {None}, version : 0 .. MaxVersions, other : 0 .. MaxVersions,
            status : Status,
            content : Contents \union {None}, license : Licenses \union {None},
            base : Bases \union {None}, bounds : Bounds \union {None},
            decision : Nat \union {None}, rows : SUBSET Row]
Idle == [pc |-> "idle", key |-> None, version |-> 0, other |-> 0, status |-> "disabled",
         content |-> None, license |-> None, base |-> None, bounds |-> None, decision |-> None, rows |-> {}]

TypeOK ==
  /\ rule \in [RuleKeys -> Seq(Version)]
  /\ base \in Bases /\ bounds \in Bounds
  /\ license \in [Licenses -> Nat \union {None}]
  /\ audit \subseteq Row
  /\ request \in [Requests -> Request]

Init ==
  /\ rule = [k \in RuleKeys |-> <<>>]
  /\ base \in Bases /\ bounds \in {b \in Bounds : b.ruleMax = None}
  /\ license = [l \in Licenses |-> None]
  /\ audit = {}
  /\ request = [r \in Requests |-> Idle]

Done(r) == request' = [request EXCEPT ![r] = Idle]
-----------------------------------------------------------------------------
(* The order in which rules are scanned, and the first n in that order.    *)
Candidate(p) == [id |-> p, content |-> At(p).content]
Candidates(S) == {Candidate(p) : p \in S}

Before(x, y) ==
  LET px == x.content.priority
      py == y.content.priority
  IN  \/ px > py
      \/ px = py /\ x.id[1] < y.id[1]
      \/ px = py /\ x.id[1] = y.id[1] /\ x.id[2] > y.id[2]

selectLiveRulesForEntitlement(n) ==
  {p \in Live : Cardinality({q \in Live : Before(Candidate(q), Candidate(p))}) < n}

(* The value an effect sets, or None where it is refused.                  *)
Lesser(x, y) == IF x <= y THEN x ELSE y
applyEffect(content, b) ==
  CASE content.kind = "adjust_limit" ->
         IF b.ruleMax = None THEN None ELSE Lesser(content.value, Lesser(b.ruleMax, AbsoluteMax))
    [] content.kind = "select_tier" -> IF content.value \in b.ruleTiers THEN content.value ELSE None

validateRule(content) ==
  validateCondition(content.condition) /\ applyEffect(content, bounds) = content.value

(* A condition that throws does not hold.                                  *)
Holds(content, F) == evaluateCondition[content.condition, F] = "true"

(* The highest-priority candidate whose condition holds decides.           *)
resolveEntitlementDecision(S, F, b, from) ==
  LET matching == {x \in S : Holds(x.content, F)}
      winner == CHOOSE x \in matching : \A y \in matching \ {x} : Before(x, y)
      applied == applyEffect(winner.content, b)
      Ids(C) == {x.id : x \in C}
  IN  IF matching = {} THEN [decision |-> from, fired |-> None, considered |-> {}]
      ELSE IF applied = None THEN [decision |-> from, fired |-> None, considered |-> Ids(matching)]
      ELSE [decision |-> applied, fired |-> winner.id, considered |-> Ids(matching \ {winner})]

(* More rules than the cap: none of them is applied.                       *)
Within(S, F, b, from) ==
  IF Cardinality(S) > MaxRulesPerIssuance
  THEN [decision |-> from, fired |-> None, considered |-> {}]
  ELSE resolveEntitlementDecision(Candidates(S), F, b, from)
-----------------------------------------------------------------------------
(* policy_rule_one_live.                                                   *)
OneLiveIndex(versions) == Cardinality(LiveIn(versions)) <= 1

updateStatus(versions, v, status) ==
  IF v = 0 THEN versions ELSE [versions EXCEPT ![v].status = status]

getLiveVersion(k) ==
  LET live == LiveIn(rule[k])
  IN  IF live = {} THEN 0 ELSE CHOOSE v \in live : \A w \in live : w <= v

(* The transaction that leaves k with these versions.                      *)
Commit(k, versions) ==
  rule' = IF OneLiveIndex(versions) THEN [rule EXCEPT ![k] = versions] ELSE rule

assertRuleSetWithinCaps ==
  Cardinality(Live) < MaxRulesPerEntitlement /\ Cardinality(Live) < MaxRulesPerTenant

CreateCheck(r, content, status) ==
  /\ request[r].pc = "idle"
  /\ validateRule(content)
  /\ status # "disabled" => assertRuleSetWithinCaps
  /\ request' = [request EXCEPT ![r] =
       [Idle EXCEPT !.pc = "create", !.content = content, !.status = status]]
  /\ UNCHANGED <<rule, base, bounds, license, audit>>

CreateInsert(r, k) ==
  /\ request[r].pc = "create" /\ rule[k] = <<>>
  /\ Commit(k, <<[content |-> request[r].content, status |-> request[r].status]>>)
  /\ Done(r)
  /\ UNCHANGED <<base, bounds, license, audit>>

EditRead(r, k, content) ==
  /\ request[r].pc = "idle" /\ rule[k] # <<>>
  /\ validateRule(content)
  /\ LET v == getLiveVersion(k)
     IN  request' = [request EXCEPT ![r] =
           [Idle EXCEPT !.pc = "edit", !.key = k, !.content = content, !.version = v,
                        !.status = IF v = 0 THEN "disabled" ELSE rule[k][v].status]]
  /\ UNCHANGED <<rule, base, bounds, license, audit>>

(* The version that was live gives way to a new one of the same status.    *)
NewVersions_InPlace(k, v, version) ==
  IF v = 0 THEN Append(rule[k], version) ELSE [rule[k] EXCEPT ![v] = version]
NewVersions_Live(k, v, version) ==
  Append(updateStatus(rule[k], getLiveVersion(k), "disabled"), version)
NewVersions(k, v, version) == Append(updateStatus(rule[k], v, "disabled"), version)

EditWrite(r) ==
  LET q == request[r]
  IN  /\ q.pc = "edit" /\ Len(rule[q.key]) < MaxVersions
      /\ Commit(q.key, NewVersions(q.key, q.version, [content |-> q.content, status |-> q.status]))
      /\ Done(r)
      /\ UNCHANGED <<base, bounds, license, audit>>

PERMITTED_TRANSITIONS ==
  [preview |-> {"active", "disabled"}, active |-> {"preview", "disabled"}, disabled |-> {"preview"}]

(* The newest version as it is read, and the version live at that time.    *)
StatusRead(r, k, to) ==
  /\ request[r].pc = "idle" /\ rule[k] # <<>>
  /\ to \in PERMITTED_TRANSITIONS[rule[k][Len(rule[k])].status]
  /\ LET head == Len(rule[k])
         live == getLiveVersion(k)
     IN  request' = [request EXCEPT ![r] =
           [Idle EXCEPT !.pc = "status", !.key = k, !.version = head, !.status = to,
                        !.other = IF to = "disabled" \/ live = head THEN 0 ELSE live]]
  /\ UNCHANGED <<rule, base, bounds, license, audit>>

StatusWrite(r) ==
  LET q == request[r]
  IN  /\ q.pc = "status"
      /\ Commit(q.key, updateStatus(updateStatus(rule[q.key], q.other, "disabled"),
                                    q.version, q.status))
      /\ Done(r)
      /\ UNCHANGED <<base, bounds, license, audit>>
-----------------------------------------------------------------------------
(* The catalog: the bounds are checked against the plan's value, the value *)
(* is not checked against the bounds.                                      *)
setEntitlementRuleBounds(b) ==
  /\ b.ruleMax # None => base <= b.ruleMax /\ b.ruleMax <= AbsoluteMax
  /\ bounds' = b
  /\ UNCHANGED <<rule, base, license, audit, request>>

setPlanEntitlementValue(v) ==
  /\ base' = v
  /\ UNCHANGED <<rule, bounds, license, audit, request>>
-----------------------------------------------------------------------------
(* issueLicense as far as the policy goes: the plan's value, the bounds,   *)
(* the rules, the license, and the rows that explain it.                   *)
IssueBase(r, l) ==
  /\ request[r].pc = "idle" /\ license[l] = None
  /\ \A o \in Requests : request[o].license # l
  /\ request' = [request EXCEPT ![r] =
       [Idle EXCEPT !.pc = "bounds", !.license = l, !.base = base]]
  /\ UNCHANGED <<rule, base, bounds, license, audit>>

loadEntitlementBounds(r) ==
  /\ request[r].pc = "bounds"
  /\ request' = [request EXCEPT ![r].pc = "select", ![r].bounds = bounds]
  /\ UNCHANGED <<rule, base, bounds, license, audit>>

(* The context a rule sees: the listed fields of the sources, as long as   *)
(* they are not too many.  One that a caller supplies has no others.       *)
buildDecisionContext(sources) == sources \intersect Fields
enforceContextBounds(F) == Cardinality(F) <= MaxFields
buildSuppliedContext(sources) == sources \subseteq Fields /\ enforceContextBounds(sources)

(* The enforced decision, of the active rules among those selected, the    *)
(* one there would be if those in preview were active, and the rows to     *)
(* write.                                                                  *)
Enforced_AnyLive(S) == S
Enforced(S) == WithStatus(S, "active")
Previewed(S) == WithStatus(S, "preview")

RowOf(q, mode, F, outcome) ==
  [license |-> q.license, mode |-> mode, base |-> q.base, bounds |-> q.bounds, fields |-> F,
   fired |-> outcome.fired, considered |-> outcome.considered, decision |-> outcome.decision]

evaluatePolicy(r, sources) ==
  LET q == request[r]
      F == buildDecisionContext(sources)
      selected == IF enforceContextBounds(F)
                  THEN selectLiveRulesForEntitlement(MaxRulesPerIssuance + 1) ELSE {}
      RowsOf(mode, S) == IF S = {} THEN {} ELSE {RowOf(q, mode, F, Within(S, F, q.bounds, q.base))}
  IN  /\ q.pc = "select"
      /\ request' = [request EXCEPT
           ![r].pc = "insert",
           ![r].decision = Within(Enforced(selected), F, q.bounds, q.base).decision,
           ![r].rows = RowsOf("enforced", Enforced(selected))
                         \union RowsOf("preview", Previewed(selected))]
      /\ UNCHANGED <<rule, base, bounds, license, audit>>

IssueInsert(r) ==
  /\ request[r].pc = "insert"
  /\ license' = [license EXCEPT ![request[r].license] = request[r].decision]
  /\ request' = [request EXCEPT ![r].pc = "audit"]
  /\ UNCHANGED <<rule, base, bounds, audit>>

(* A failure to write the rows is logged and goes no further.              *)
writeAudit(r) ==
  /\ request[r].pc = "audit"
  /\ audit' \in {audit, audit \union request[r].rows}
  /\ Done(r)
  /\ UNCHANGED <<rule, base, bounds, license>>

(* Rows past the retention age go; which those are is left open.           *)
policyRetentionSweep ==
  \E old \in SUBSET {row.license : row \in audit} :
    /\ old # {} /\ audit' = {row \in audit : row.license \notin old}
    /\ UNCHANGED <<rule, base, bounds, license, request>>
-----------------------------------------------------------------------------
(* A dry run of rule k: of its live version, else its newest, or of a      *)
(* content nobody has saved, which must be acceptable.                     *)
DryRunRead(r, k, candidate) ==
  /\ request[r].pc = "idle" /\ rule[k] # <<>>
  /\ candidate # None => validateRule(candidate)
  /\ LET v == IF getLiveVersion(k) = 0 THEN Len(rule[k]) ELSE getLiveVersion(k)
     IN  request' = [request EXCEPT ![r] =
           [Idle EXCEPT !.pc = "dry_run", !.key = k, !.version = v, !.bounds = bounds,
                        !.content = IF candidate = None THEN rule[k][v].content ELSE candidate]]
  /\ UNCHANGED <<rule, base, bounds, license, audit>>

(* The context of a license there is, or one that is supplied.             *)
assembleRealContext(q, l) == [q EXCEPT !.license = l, !.base = base]
SuppliedContext(q, from, b) == [q EXCEPT !.base = from, !.bounds = b]

(* All other live rules take part, those in preview too, and no cap        *)
(* applies.  What is read after the context is compared with nothing, so   *)
(* the rest of the handler is one step.                                    *)
DryRun(r, q, F) ==
  LET others == {p \in selectLiveRulesForEntitlement(MaxRulesPerIssuance + 1) : p[1] # q.key}
      target == [id |-> <<q.key, q.version>>, content |-> q.content]
      outcome == resolveEntitlementDecision({target} \union Candidates(others), F, q.bounds, q.base)
  IN  /\ audit' = audit \union {RowOf(q, "dry_run", F, outcome)}
      /\ Done(r)
      /\ UNCHANGED <<rule, base, bounds, license>>

DryRunStep(r, sources) ==
  LET F == buildDecisionContext(sources)
  IN  /\ request[r].pc = "dry_run"
      /\ \/ /\ enforceContextBounds(F)
            /\ \E l \in Licenses : license[l] # None /\ DryRun(r, assembleRealContext(request[r], l), F)
         \/ /\ buildSuppliedContext(sources)
            /\ \E from \in Bases, b \in Bounds : DryRun(r, SuppliedContext(request[r], from, b), F)
         \/ ~buildSuppliedContext(sources) /\ Done(r) /\ UNCHANGED <<rule, base, bounds, license, audit>>
-----------------------------------------------------------------------------
Author(r) ==
  \/ \E c \in Contents, s \in Status : CreateCheck(r, c, s)
  \/ \E k \in RuleKeys : CreateInsert(r, k)
  \/ \E k \in RuleKeys, c \in Contents : EditRead(r, k, c)
  \/ EditWrite(r)
  \/ \E k \in RuleKeys, s \in Status : StatusRead(r, k, s)
  \/ StatusWrite(r)
  \/ \E k \in RuleKeys, c \in Contents \union {None} : DryRunRead(r, k, c)
  \/ \E sources \in SUBSET Sources : DryRunStep(r, sources)

Issue(r) ==
  \/ \E l \in Licenses : IssueBase(r, l)
  \/ loadEntitlementBounds(r)
  \/ \E sources \in SUBSET Sources : evaluatePolicy(r, sources)
  \/ IssueInsert(r) \/ writeAudit(r)

Next ==
  \/ \E r \in Requests : Author(r) \/ Issue(r)
  \/ \E b \in Bounds : setEntitlementRuleBounds(b)
  \/ \E v \in Bases : setPlanEntitlementValue(v)
  \/ policyRetentionSweep

Spec == Init /\ [][Next]_vars
-----------------------------------------------------------------------------
(* Of two authors who change a rule at once one is refused, and nobody's   *)
(* work is lost: a live version gives way only to a request that had read  *)
(* that very version.  Neither handler compares anything when it writes;   *)
(* the partial unique index has to find out (policy_rule_one_live,         *)
(* 0013_policy_rules.sql; routes.ts, the PUT of a rule and of its status). *)
NoLostEdit ==
  [][\A k \in RuleKeys : \A v \in LiveIn(rule[k]) : LiveIn(rule'[k]) # {v} =>
       \E r \in Requests :
         /\ request[r].pc \in {"edit", "status"} /\ request'[r] = Idle
         /\ request[r].key = k /\ v \in {request[r].version, request[r].other}]_vars

(* What policy_evaluation says of a license can be recomputed for ever     *)
(* from the versions it names, whatever was edited, staged or re-bounded   *)
(* before or after: the license carries the decision; the version that     *)
(* fired matches and gives it under the bounds of the time; those          *)
(* considered match too and come after it; without one the plan's value    *)
(* stands.                                                                 *)
Explains(row) ==
  LET Matches(p) == Holds(At(p).content, row.fields)
  IN  /\ row.mode = "enforced" => license[row.license] = row.decision
      /\ \A p \in row.considered : Matches(p)
      /\ IF row.fired = None THEN row.decision = row.base
         ELSE /\ Matches(row.fired)
              /\ applyEffect(At(row.fired).content, row.bounds) = row.decision
              /\ \A p \in row.considered : Before(Candidate(row.fired), Candidate(p))
Explained == \A row \in audit : row.mode # "dry_run" => Explains(row)

(* At the moment of the evaluation the decision is the one of all active   *)
(* rules, as long as the live ones are within the cap: neither a preview   *)
(* rule nor a version that was replaced has a say in it.  Where it leaves  *)
(* no row (no rule, or a context out of bounds) the plan's value stands.   *)
Decides ==
  [][\A r \in Requests :
      request[r].pc = "select" /\ request'[r].pc = "insert" =>
        LET enforced == {row \in request'[r].rows : row.mode = "enforced"}
        IN  IF WithStatus(Live, "active") = {} \/ request'[r].rows = {}
            THEN request'[r].decision = request[r].base
            ELSE Cardinality(Live) <= MaxRulesPerIssuance =>
                   \E row \in enforced :
                     /\ row.decision = request'[r].decision
                     /\ resolveEntitlementDecision(Candidates(WithStatus(Live, "active")), row.fields,
                                                   row.bounds, row.base).decision = row.decision]_vars
-----------------------------------------------------------------------------
(* What the comments say and the code does not do.                         *)

(* evaluate.ts:256-258: rules in preview never displace a decision; it is  *)
(* the one that would be taken were they not there.  They share the LIMIT  *)
(* of the query with the active ones, and may leave no room for them.      *)
PreviewNeverDisplaces ==
  [][\A r \in Requests : \A row \in request'[r].rows :
      request[r].pc = "select" /\ request'[r].pc = "insert" /\ row.mode = "enforced" =>
        row.decision = Within(WithStatus(Live, "active"), row.fields, row.bounds, row.base).decision]_vars
=============================================================================
