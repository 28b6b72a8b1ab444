--------------------------- MODULE Policy_proofs ---------------------------
(***************************************************************************)
(* For every set of rules, contents, bounds and requests: a rule has one   *)
(* live version at most, and what policy_evaluation says of a decision can *)
(* be recomputed for ever from the versions it names.  The second rests on *)
(* two facts: the content of a version is never changed once it is saved   *)
(* (VersionsStand), and a request writes the license it alone issues and   *)
(* the rows about it from one evaluation (Fits, OneIssuer).  Among the     *)
(* rules that match there is always a first, because they are finitely     *)
(* many.                                                                   *)
(***************************************************************************)
EXTENDS Policy, FiniteSetTheorems, WellFoundedInduction, TLAPS

LEMMA Constants ==
  /\ RuleKeys \subseteq Nat /\ IsFiniteSet(RuleKeys) /\ Bases \subseteq Nat
  /\ MaxVersions \in Nat /\ MaxVersions > 0
  /\ AbsoluteMax \in Nat /\ MaxRulesPerIssuance \in Nat
  /\ None \notin Nat /\ None \notin Nat \X Nat /\ None \notin Licenses
BY PolicyAssumption

LEMMA ContentShape ==
  ASSUME NEW c \in Contents
  PROVE  /\ c.priority \in Nat /\ c.value \in Nat
         /\ c.kind \in {"adjust_limit", "select_tier"}
BY PolicyAssumption

LEMMA BoundShape ==
  ASSUME NEW b \in Bounds
  PROVE  b.ruleMax \in Nat \union {None} /\ b.ruleTiers \subseteq Nat
BY PolicyAssumption

USE Constants

Candidacy == [id : RuleKeys \X (1 .. MaxVersions), content : Contents]

(* What an evaluation says of the versions it names.                       *)
Matches(p, F) == Holds(At(p).content, F)

Backed(row) ==
  /\ \A p \in row.considered : Matches(p, row.fields)
  /\ row.fired = None => row.decision = row.base
  /\ row.fired # None =>
       /\ Matches(row.fired, row.fields)
       /\ applyEffect(At(row.fired).content, row.bounds) = row.decision
       /\ \A p \in row.considered : Before(Candidate(row.fired), Candidate(p))

(* The rows a request is about to write.                                   *)
Pending(q) ==
  \A row \in q.rows :
    /\ Backed(row)
    /\ row.mode \in {"enforced", "preview"} /\ row.license = q.license
    /\ row.mode = "enforced" => row.decision = q.decision

Issuing == {"bounds", "select", "insert", "audit"}

(* What a handler has in hand at each of its stops.                        *)
Fits(q) ==
  /\ q.pc \in {"create", "edit", "dry_run"} => q.content \in Contents
  /\ q.pc \in {"edit", "status", "dry_run"} => q.key \in RuleKeys
  /\ q.pc = "dry_run" => q.version \in 1 .. Len(rule[q.key]) /\ q.bounds \in Bounds
  /\ q.license # None <=> q.pc \in Issuing
  /\ q.pc \in Issuing => q.base \in Bases
  /\ q.pc \in Issuing \ {"bounds"} => q.bounds \in Bounds
  /\ q.pc \in {"insert", "audit"} => q.decision \in Nat /\ Pending(q)
  /\ q.pc \in Issuing \ {"audit"} => license[q.license] = None
  /\ q.pc = "audit" => license[q.license] = q.decision

Shaped == \A r \in Requests : Fits(request[r])

(* One request issues a license.                                           *)
OneIssuer ==
  \A r, o \in Requests :
    request[r].license # None /\ request[r].license = request[o].license => r = o

Faithful(row) ==
  row.mode # "dry_run" =>
    /\ Backed(row)
    /\ row.mode = "enforced" => row.license \in Licenses /\ license[row.license] = row.decision

Kept == \A row \in audit : Faithful(row)

Short == \A k \in RuleKeys : Len(rule[k]) <= MaxVersions

(* Every author acts on what was read before; the index allows one.        *)
OneLive == \A k \in RuleKeys : Cardinality(LiveIn(rule[k])) <= 1

PolicyInv == TypeOK /\ Short /\ Shaped /\ OneIssuer /\ Kept /\ OneLive
-----------------------------------------------------------------------------
(* Among finitely many candidates one comes before all others.             *)
LEMMA BeforeOrders ==
  ASSUME NEW x \in Candidacy, NEW y \in Candidacy, NEW z \in Candidacy
  PROVE  /\ ~Before(x, x)
         /\ x.id # y.id => Before(x, y) \/ Before(y, x)
         /\ Before(x, y) /\ Before(y, z) => Before(x, z)
<1>1. ASSUME NEW c \in Candidacy
      PROVE  c.content.priority \in Nat /\ c.id[1] \in Nat /\ c.id[2] \in Nat
             /\ c.id = <<c.id[1], c.id[2]>>
  <2>1. c.content \in Contents /\ c.id \in RuleKeys \X (1 .. MaxVersions)
    BY <1>1 DEF Candidacy
  <2>2. c.id = <<c.id[1], c.id[2]>> /\ c.id[1] \in RuleKeys /\ c.id[2] \in 1 .. MaxVersions
    BY <2>1
  <2>3. c.id[1] \in Nat /\ c.id[2] \in Nat
    <3>1. \A k \in RuleKeys : k \in Nat
      OBVIOUS
    <3>2. \A v \in 1 .. MaxVersions : v \in Nat
      OBVIOUS
    <3> QED
      BY <2>2, <3>1, <3>2
  <2>4. c.content.priority \in Nat
    BY <2>1, ContentShape
  <2> QED
    BY <2>2, <2>3, <2>4
<1>2. x.id # y.id => x.id[1] # y.id[1] \/ x.id[2] # y.id[2]
  BY <1>1
<1> QED
  BY <1>1, <1>2 DEF Before

LEMMA FirstExists ==
  ASSUME NEW S \in SUBSET Candidacy, IsFiniteSet(S), S # {},
         \A x, y \in S : x.id = y.id => x = y
  PROVE  \E x \in S : \A y \in S \ {x} : Before(x, y)
<1> DEFINE Ahead(x) == {z \in S : Before(z, x)}
           Aheads == {Ahead(x) : x \in S}
<1>1. Aheads \subseteq FiniteSubsetsOf(S) /\ Aheads # {}
  <2>1. \A x \in S : Ahead(x) \in SUBSET S
    OBVIOUS
  <2>2. \A x \in S : IsFiniteSet(Ahead(x))
    BY <2>1, FS_Subset
  <2> HIDE DEF Ahead
  <2> QED
    BY <2>1, <2>2 DEF FiniteSubsetsOf
<1>2. PICK T \in Aheads : \A U \in Aheads : ~(<<U, T>> \in StrictSubsetOrdering(S))
  BY <1>1, FS_StrictSubsetOrderingWellFounded, WFMin
<1>3. PICK x \in S : T = Ahead(x)
  OBVIOUS
<1>4. \A y \in S : ~(Ahead(y) \subseteq Ahead(x) /\ Ahead(y) # Ahead(x))
  <2>1. \A y \in S : Ahead(y) \in SUBSET S /\ Ahead(y) \in Aheads
    OBVIOUS
  <2> HIDE DEF Ahead
  <2>2. \A y \in S : ~(<<Ahead(y), Ahead(x)>> \in StrictSubsetOrdering(S))
    BY <1>2, <1>3, <2>1
  <2>3. ASSUME NEW U \in SUBSET S, NEW V \in SUBSET S, U \subseteq V, U # V
        PROVE  <<U, V>> \in StrictSubsetOrdering(S)
    BY <2>3 DEF StrictSubsetOrdering
  <2> QED
    BY <2>1, <2>2, <2>3
<1>5. ASSUME NEW y \in S \ {x}, ~Before(x, y) PROVE FALSE
  <2>1. x \in Candidacy /\ y \in Candidacy /\ x.id # y.id
    BY <1>5
  <2>2. Before(y, x)
    BY <1>5, <2>1, BeforeOrders
  <2>3. Ahead(y) \subseteq Ahead(x)
    BY <2>1, <2>2, BeforeOrders
  <2>4. y \in Ahead(x) /\ y \notin Ahead(y)
    BY <2>1, <2>2, BeforeOrders
  <2> HIDE DEF Ahead
  <2> QED
    BY <1>4, <2>3, <2>4
<1> QED
  BY <1>5

(* What a decision is worth: it matches, it comes first, it keeps within   *)
(* the bounds; else the value there was stands.                            *)
LEMMA EffectType ==
  ASSUME NEW c \in Contents, NEW b \in Bounds, applyEffect(c, b) # None
  PROVE  applyEffect(c, b) \in Nat
<1>1. /\ c.value \in Nat /\ c.kind \in {"adjust_limit", "select_tier"}
      /\ b.ruleMax \in Nat \union {None}
  BY ContentShape, BoundShape
<1>2. AbsoluteMax \in Nat
  OBVIOUS
<1>3. \A x, y \in Nat : Lesser(x, y) \in Nat
  BY DEF Lesser
<1>4. CASE c.kind = "adjust_limit"
  BY <1>1, <1>2, <1>3, <1>4 DEF applyEffect
<1>5. CASE c.kind = "select_tier"
  BY <1>1, <1>5 DEF applyEffect
<1> QED
  BY <1>1, <1>4, <1>5

(* What an evaluation of these candidates may come to.                     *)
Decided(outcome, S, F, b, from) ==
  /\ outcome.decision \in Nat
  /\ \A p \in outcome.considered :
       \E x \in S : x.id = p /\ Holds(x.content, F)
  /\ \/ outcome.fired = None /\ outcome.decision = from
     \/ \E x \in S :
          /\ outcome.fired = x.id
          /\ Holds(x.content, F)
          /\ applyEffect(x.content, b) = outcome.decision
          /\ \A p \in outcome.considered : \E y \in S : y.id = p /\ Before(x, y)

LEMMA DecisionIsBacked ==
  ASSUME NEW S \in SUBSET Candidacy, IsFiniteSet(S), \A x, y \in S : x.id = y.id => x = y,
         NEW F, NEW b \in Bounds, NEW from \in Nat,
         NEW outcome, outcome = resolveEntitlementDecision(S, F, b, from)
  PROVE  Decided(outcome, S, F, b, from)
<1> DEFINE matching == {x \in S : Holds(x.content, F)}
           winner == CHOOSE x \in matching : \A y \in matching \ {x} : Before(x, y)
           applied == applyEffect(winner.content, b)
           Ids(C) == {x.id : x \in C}
<1>1. CASE matching = {}
  <2>1. outcome = [decision |-> from, fired |-> None, considered |-> {}]
    BY <1>1 DEF resolveEntitlementDecision
  <2> QED
    BY <2>1 DEF Decided
<1>2. CASE matching # {}
  <2>1. matching \subseteq S /\ IsFiniteSet(matching)
    BY FS_Subset
  <2>2. \E x \in matching : \A y \in matching \ {x} : Before(x, y)
    <3>1. matching \in SUBSET Candidacy /\ \A x, y \in matching : x.id = y.id => x = y
      BY <2>1
    <3> HIDE DEF matching
    <3> QED
      BY <1>2, <2>1, <3>1, FirstExists
  <2>3. winner \in matching /\ \A y \in matching \ {winner} : Before(winner, y)
    BY <2>2
  <2>4. /\ winner \in S /\ winner.content \in Contents
        /\ Holds(winner.content, F)
    BY <2>1, <2>3 DEF Candidacy
  <2>5. CASE applied = None
    <3>1. outcome = [decision |-> from, fired |-> None, considered |-> Ids(matching)]
      BY <1>2, <2>5 DEF resolveEntitlementDecision
    <3>2. \A p \in Ids(matching) : \E x \in S : x.id = p /\ Holds(x.content, F)
      OBVIOUS
    <3> HIDE DEF Ids
    <3> QED
      BY <3>1, <3>2 DEF Decided
  <2>6. CASE applied # None
    <3>1. outcome = [decision |-> applied, fired |-> winner.id, considered |-> Ids(matching \ {winner})]
      BY <1>2, <2>6 DEF resolveEntitlementDecision
    <3>2. applied \in Nat
      BY <2>4, <2>6, EffectType
    <3> HIDE DEF winner
    <3>3. \A p \in outcome.considered : \E y \in matching \ {winner} : y.id = p
      BY <3>1
    <3>4. /\ outcome.decision = applyEffect(winner.content, b) /\ outcome.fired = winner.id
          /\ outcome.decision \in Nat
      BY <3>1, <3>2
    <3>5. \A p \in outcome.considered : \E y \in S : y.id = p /\ Before(winner, y)
      BY <2>1, <2>3, <3>3
    <3>6. \A p \in outcome.considered :
            \E x \in S : x.id = p /\ Holds(x.content, F)
      BY <3>3
    <3> QED
      BY <2>4, <3>4, <3>5, <3>6 DEF Decided
  <2> QED
    BY <2>5, <2>6
<1> QED
  BY <1>1, <1>2
-----------------------------------------------------------------------------
(* The versions of a rule: saved for good.                                 *)
LEMMA UpdateKeeps ==
  ASSUME NEW vs \in Seq(Version), NEW v, NEW s \in Status
  PROVE  /\ updateStatus(vs, v, s) \in Seq(Version)
         /\ Len(updateStatus(vs, v, s)) = Len(vs)
         /\ \A i \in 1 .. Len(vs) : /\ updateStatus(vs, v, s)[i].content = vs[i].content
                                    /\ i # v => updateStatus(vs, v, s)[i] = vs[i]
<1>0. PICK us : us = updateStatus(vs, v, s)
  OBVIOUS
<1>1. CASE v \notin 1 .. Len(vs)
  <2>1. us = vs
    BY <1>0, <1>1 DEF updateStatus
  <2> QED
    BY <1>0, <2>1
<1>2. CASE v \in 1 .. Len(vs)
  <2> DEFINE row == [vs[v] EXCEPT !.status = s]
  <2>0. vs[v] \in Version
    BY <1>2
  <2>1. row \in Version /\ row.content = vs[v].content
    BY <2>0 DEF Version
  <2>2. us = [vs EXCEPT ![v] = row]
    BY <1>0, <1>2 DEF updateStatus
  <2> HIDE DEF row
  <2>3. us \in Seq(Version) /\ Len(us) = Len(vs)
    BY <1>2, <2>1, <2>2
  <2>4. \A i \in 1 .. Len(vs) : us[i] = IF i = v THEN row ELSE vs[i]
    BY <1>2, <2>2
  <2> QED
    BY <1>0, <2>1, <2>3, <2>4
<1> QED
  BY <1>1, <1>2

VersionsStand ==
  /\ rule' \in [RuleKeys -> Seq(Version)] /\ Short' /\ OneLive'
  /\ \A k \in RuleKeys :
       /\ Len(rule[k]) <= Len(rule'[k])
       /\ \A v \in 1 .. Len(rule[k]) : rule'[k][v].content = rule[k][v].content

LEMMA SameVersionsStand ==
  ASSUME PolicyInv, UNCHANGED rule
  PROVE  VersionsStand
<1>1. rule' \in [RuleKeys -> Seq(Version)] /\ Short' /\ OneLive'
  BY DEF PolicyInv, TypeOK, Short, OneLive
<1>2. \A k \in RuleKeys : Len(rule[k]) \in Nat
  BY DEF PolicyInv, TypeOK
<1> QED
  BY <1>1, <1>2 DEF VersionsStand

(* Versions that a rule may be left with.                                  *)
Follows(vs, k) ==
  /\ vs \in Seq(Version) /\ Len(rule[k]) <= Len(vs) /\ Len(vs) <= MaxVersions
  /\ \A v \in 1 .. Len(rule[k]) : vs[v].content = rule[k][v].content

LEMMA CommitStands ==
  ASSUME PolicyInv, NEW k \in RuleKeys, NEW vs, Follows(vs, k),
         UNCHANGED rule \/ (OneLiveIndex(vs) /\ rule' = [rule EXCEPT ![k] = vs])
  PROVE  VersionsStand
<1>1. /\ rule \in [RuleKeys -> Seq(Version)] /\ Short /\ OneLive
      /\ vs \in Seq(Version) /\ Len(rule[k]) <= Len(vs) /\ Len(vs) <= MaxVersions
      /\ \A v \in 1 .. Len(rule[k]) : vs[v].content = rule[k][v].content
  BY DEF PolicyInv, TypeOK, Follows
<1>2. CASE UNCHANGED rule
  BY <1>2, SameVersionsStand
<1>3. CASE OneLiveIndex(vs) /\ rule' = [rule EXCEPT ![k] = vs]
  <2>1. /\ rule' \in [RuleKeys -> Seq(Version)] /\ rule'[k] = vs
        /\ \A j \in RuleKeys \ {k} : rule'[j] = rule[j]
    BY <1>1, <1>3
  <2>2. Short'
    BY <1>1, <2>1 DEF Short
  <2>3. OneLive'
    BY <1>1, <1>3, <2>1 DEF OneLive, OneLiveIndex
  <2>4. \A j \in RuleKeys : Len(rule[j]) \in Nat
    BY <1>1
  <2> QED
    BY <1>1, <2>1, <2>2, <2>3, <2>4 DEF VersionsStand
<1> QED
  BY <1>2, <1>3

(* What names a version today names it tomorrow, with what it says.        *)
LEMMA Standing ==
  ASSUME PolicyInv, VersionsStand
  PROVE  /\ Versions \subseteq Versions'
         /\ \A p \in Versions : Candidate(p)' = Candidate(p) /\ At(p)'.content = At(p).content
<1>1. ASSUME NEW p \in Versions PROVE p \in Versions' /\ At(p)'.content = At(p).content
  <2>1. p \in RuleKeys \X (1 .. MaxVersions) /\ p[2] <= Len(rule[p[1]])
    BY DEF Versions
  <2>2. p[1] \in RuleKeys /\ p[2] \in 1 .. MaxVersions
    BY <2>1
  <2>3. /\ Len(rule[p[1]]) \in Nat /\ Len(rule'[p[1]]) \in Nat
        /\ Len(rule[p[1]]) <= Len(rule'[p[1]])
    BY <2>2 DEF PolicyInv, TypeOK, VersionsStand
  <2>4. p[2] \in 1 .. Len(rule[p[1]]) /\ p[2] <= Len(rule'[p[1]])
    <3> DEFINE n == Len(rule[p[1]])
               m == Len(rule'[p[1]])
    <3>1. n \in Nat /\ m \in Nat /\ n <= m /\ p[2] <= n
      BY <2>1, <2>3
    <3>2. p[2] \in Int /\ 1 <= p[2]
      BY <2>2
    <3> HIDE DEF n, m
    <3>3. p[2] \in 1 .. n /\ p[2] <= m
      BY <3>1, <3>2
    <3> QED
      BY <3>3 DEF n, m
  <2> QED
    BY <2>1, <2>2, <2>4 DEF Versions, VersionsStand, At
<1> QED
  BY <1>1 DEF Candidate

LEMMA BackedStays ==
  ASSUME PolicyInv, VersionsStand, NEW row \in Row, Backed(row)
  PROVE  Backed(row)' /\ row \in Row'
<1>1. row.considered \subseteq Versions /\ row.fired \in Versions \union {None}
  BY DEF Row
<1>2. \A p \in Versions : Matches(p, row.fields) <=> Matches(p, row.fields)'
  BY Standing DEF Matches
<1>3. row \in Row'
  BY Standing DEF Row
<1>4. Backed(row)'
  BY <1>1, <1>2, Standing DEF Backed
<1> QED
  BY <1>3, <1>4

LEMMA FitsStays ==
  ASSUME PolicyInv, VersionsStand, NEW q \in Request, Fits(q),
         q.license # None => license'[q.license] = license[q.license]
  PROVE  Fits(q)' /\ q \in Request'
<1>1. Row \subseteq Row'
  BY Standing DEF Row
<1>2. q \in Request'
  BY <1>1 DEF Request
<1>3. q.rows \subseteq Row
  BY DEF Request
<1>4. Pending(q) => Pending(q)'
  BY <1>3, BackedStays DEF Pending
<1>5. ASSUME q.key \in RuleKeys, q.version \in 1 .. Len(rule[q.key])
      PROVE  q.version \in 1 .. Len(rule'[q.key])
  <2>1. Len(rule[q.key]) \in Nat /\ Len(rule'[q.key]) \in Nat /\ Len(rule[q.key]) <= Len(rule'[q.key])
    BY <1>5 DEF PolicyInv, TypeOK, VersionsStand
  <2> QED
    BY <1>5, <2>1
<1> QED
  BY <1>2, <1>4, <1>5 DEF Fits, Issuing

LEMMA IdleFits == Idle \in Request /\ Fits(Idle) /\ Idle.license = None /\ Idle.pc = "idle"
BY DEF Idle, Request, Fits, Status, Issuing

(* One request moves, and what it now has in hand is right.                *)
LEMMA OneMoves ==
  ASSUME PolicyInv, VersionsStand, UNCHANGED license,
         NEW r \in Requests, NEW q \in Request, request' = [request EXCEPT ![r] = q], Fits(q),
         \/ q.license \in {None, request[r].license}
         \/ \A o \in Requests : request[o].license # q.license
  PROVE  request' \in [Requests -> Request'] /\ Shaped' /\ OneIssuer'
<1>1. request \in [Requests -> Request] /\ Shaped /\ OneIssuer
  BY DEF PolicyInv, TypeOK
<1>2. request'[r] = q /\ \A o \in Requests \ {r} : request'[o] = request[o]
  BY <1>1
<1>3. \A v \in Request : Fits(v) => v \in Request' /\ Fits(v)'
  BY FitsStays
<1>4. request' \in [Requests -> Request']
  BY <1>1, <1>3 DEF Shaped
<1>5. Shaped'
  BY <1>1, <1>2, <1>3 DEF Shaped
<1>6. OneIssuer'
  BY <1>1, <1>2 DEF OneIssuer
<1> QED
  BY <1>4, <1>5, <1>6

(* A license that was signed stays what it is.                             *)
LicensesStand == \A l \in Licenses : license[l] # None => license'[l] = license[l]

LEMMA AuditStays ==
  ASSUME PolicyInv, VersionsStand, LicensesStand, \A row \in audit' : row \in Row /\ Faithful(row)
  PROVE  audit' \subseteq Row' /\ Kept'
<1>1. \A row \in audit' : row \in Row'
  BY Standing DEF Row
<1>2. ASSUME NEW row \in audit' PROVE Faithful(row)'
  <2>1. row \in Row /\ Faithful(row) /\ row.decision \in Nat
    BY DEF Row
  <2>2. row.mode # "dry_run" => Backed(row)'
    BY <2>1, BackedStays DEF Faithful
  <2>3. row.license \in Licenses /\ license[row.license] = row.decision
          => license'[row.license] = row.decision
    BY <2>1 DEF LicensesStand
  <2> QED
    BY <2>1, <2>2, <2>3 DEF Faithful
<1> QED
  BY <1>1, <1>2 DEF Kept
-----------------------------------------------------------------------------
(* Authors.                                                                *)
LEMMA AuthorWrites ==
  ASSUME PolicyInv, NEW r \in Requests,
         (\E k \in RuleKeys : CreateInsert(r, k)) \/ EditWrite(r) \/ StatusWrite(r)
  PROVE  VersionsStand /\ Done(r) /\ UNCHANGED <<base, bounds, license, audit>>
<1> DEFINE q == request[r]
<1>0. /\ q \in Request /\ Fits(q)
      /\ rule \in [RuleKeys -> Seq(Version)] /\ Short
  BY DEF PolicyInv, TypeOK, Shaped
<1>1. q.version \in Nat /\ q.other \in Nat /\ q.version <= MaxVersions /\ q.status \in Status
  BY <1>0 DEF Request
<1>2. ASSUME NEW k \in RuleKeys, CreateInsert(r, k) PROVE VersionsStand
  <2>0. PICK vs : vs = <<[content |-> q.content, status |-> q.status]>>
    OBVIOUS
  <2>1. rule[k] = <<>> /\ (UNCHANGED rule \/ (OneLiveIndex(vs) /\ rule' = [rule EXCEPT ![k] = vs])) /\ q.pc = "create"
    BY <1>2, <2>0 DEF CreateInsert, Commit
  <2>2. [content |-> q.content, status |-> q.status] \in Version
    BY <1>0, <1>1, <2>1 DEF Fits, Version
  <2>3. vs \in Seq(Version) /\ Len(vs) = 1 /\ Len(rule[k]) = 0
    BY <2>0, <2>1, <2>2
  <2>4. Follows(vs, k)
    BY <2>3 DEF Follows
  <2> QED
    BY <2>1, <2>4, CommitStands
<1>3. ASSUME EditWrite(r) PROVE VersionsStand
  <2>0. PICK k, us, v, vs :
          /\ k = q.key /\ us = updateStatus(rule[k], q.version, "disabled")
          /\ v = [content |-> q.content, status |-> q.status] /\ vs = Append(us, v)
    OBVIOUS
  <2>1. (UNCHANGED rule \/ (OneLiveIndex(vs) /\ rule' = [rule EXCEPT ![k] = vs])) /\ q.pc = "edit" /\ Len(rule[k]) < MaxVersions
    BY <1>3, <2>0 DEF EditWrite, NewVersions, Commit
  <2>2. k \in RuleKeys /\ v \in Version /\ rule[k] \in Seq(Version) /\ "disabled" \in Status
    BY <1>0, <1>1, <2>0, <2>1 DEF Fits, Version, Status
  <2>3. /\ us \in Seq(Version) /\ Len(us) = Len(rule[k])
        /\ \A i \in 1 .. Len(rule[k]) : us[i].content = rule[k][i].content
    BY <1>1, <2>0, <2>2, UpdateKeeps
  <2>4. /\ vs \in Seq(Version) /\ Len(vs) = Len(rule[k]) + 1
        /\ \A i \in 1 .. Len(rule[k]) : vs[i] = us[i]
    BY <2>0, <2>2, <2>3
  <2>5. Len(rule[k]) \in Nat /\ Len(rule[k]) <= Len(vs) /\ Len(vs) <= MaxVersions
    BY <2>1, <2>2, <2>4
  <2>6. Follows(vs, k)
    BY <2>3, <2>4, <2>5 DEF Follows
  <2> QED
    BY <2>1, <2>2, <2>6, CommitStands
<1>4. ASSUME StatusWrite(r) PROVE VersionsStand
  <2>0. PICK k, us, vs :
          /\ k = q.key /\ us = updateStatus(rule[k], q.other, "disabled")
          /\ vs = updateStatus(us, q.version, q.status)
    OBVIOUS
  <2>1. (UNCHANGED rule \/ (OneLiveIndex(vs) /\ rule' = [rule EXCEPT ![k] = vs])) /\ q.pc = "status"
    BY <1>4, <2>0 DEF StatusWrite, Commit
  <2>2. k \in RuleKeys /\ rule[k] \in Seq(Version) /\ "disabled" \in Status
    BY <1>0, <2>0, <2>1 DEF Fits, Status
  <2>3. /\ us \in Seq(Version) /\ Len(us) = Len(rule[k])
        /\ \A i \in 1 .. Len(rule[k]) : us[i].content = rule[k][i].content
    BY <1>1, <2>0, <2>2, UpdateKeeps
  <2>4. /\ vs \in Seq(Version) /\ Len(vs) = Len(us)
        /\ \A i \in 1 .. Len(us) : vs[i].content = us[i].content
    BY <1>1, <2>0, <2>3, UpdateKeeps
  <2>5. Len(rule[k]) \in Nat /\ Len(rule[k]) <= Len(vs) /\ Len(vs) <= MaxVersions
    BY <1>0, <2>2, <2>3, <2>4 DEF Short
  <2>6. \A i \in 1 .. Len(rule[k]) : vs[i].content = rule[k][i].content
    BY <2>3, <2>4
  <2>7. Follows(vs, k)
    BY <2>4, <2>5, <2>6 DEF Follows
  <2> QED
    BY <2>1, <2>2, <2>7, CommitStands
<1>5. Done(r) /\ UNCHANGED <<base, bounds, license, audit>>
  BY DEF CreateInsert, EditWrite, StatusWrite
<1> QED
  BY <1>2, <1>3, <1>4, <1>5

LEMMA LiveVersion ==
  ASSUME PolicyInv, NEW k \in RuleKeys
  PROVE  getLiveVersion(k) = 0 \/ getLiveVersion(k) \in 1 .. Len(rule[k])
<1> DEFINE live == LiveIn(rule[k])
<1>1. rule[k] \in Seq(Version) /\ Len(rule[k]) \in Nat /\ Cardinality(live) <= 1
  BY DEF PolicyInv, TypeOK, OneLive
<1>2. live \subseteq 1 .. Len(rule[k]) /\ IsFiniteSet(live)
  <2>1. live \subseteq 1 .. Len(rule[k])
    BY <1>1 DEF LiveIn
  <2>2. IsFiniteSet(1 .. Len(rule[k]))
    BY <1>1, FS_Interval
  <2> QED
    BY <2>1, <2>2, FS_Subset
<1>3. Cardinality(live) \in Nat /\ (live # {} => Cardinality(live) # 0)
  BY <1>2, FS_CardinalityType, FS_EmptySet
<1>4. live # {} => \E v : live = {v}
  <2> HIDE DEF live
  <2>1. live # {} => Cardinality(live) = 1
    BY <1>1, <1>3
  <2> QED
    BY <1>2, <2>1, FS_Singleton
<1> HIDE DEF live
<1>5. ASSUME live # {}
      PROVE  (CHOOSE v \in live : \A w \in live : w <= v) \in 1 .. Len(rule[k])
  <2>1. PICK v : live = {v}
    BY <1>4, <1>5
  <2>2. v \in 1 .. Len(rule[k]) /\ v <= v
    BY <1>1, <1>2, <2>1
  <2>3. (CHOOSE w \in live : \A u \in live : u <= w) = v
    BY <2>1, <2>2
  <2> QED
    BY <2>2, <2>3
<1> QED
  BY <1>5 DEF getLiveVersion, live

Moved == request' \in [Requests -> Request'] /\ Shaped' /\ OneIssuer'

LEMMA AuthorReads ==
  ASSUME PolicyInv, NEW r \in Requests,
         \/ \E c \in Contents, s \in Status : CreateCheck(r, c, s)
         \/ \E k \in RuleKeys, c \in Contents : EditRead(r, k, c)
         \/ \E k \in RuleKeys, s \in Status : StatusRead(r, k, s)
         \/ \E k \in RuleKeys, c \in Contents \union {None} : DryRunRead(r, k, c)
  PROVE  Moved
<1>0. VersionsStand /\ UNCHANGED license
  BY SameVersionsStand DEF CreateCheck, EditRead, StatusRead, DryRunRead
<1>1. ASSUME NEW q \in Request, q.license = None, q.pc \notin Issuing, Fits(q),
             request' = [request EXCEPT ![r] = q]
      PROVE  Moved
  BY <1>0, <1>1, OneMoves DEF Moved
<1>2. ASSUME NEW k \in RuleKeys
      PROVE  /\ rule[k] \in Seq(Version) /\ Len(rule[k]) \in 0 .. MaxVersions
             /\ getLiveVersion(k) \in 0 .. MaxVersions
             /\ getLiveVersion(k) # 0 => getLiveVersion(k) \in 1 .. Len(rule[k])
             /\ \A v \in 1 .. Len(rule[k]) : rule[k][v].status \in Status /\ rule[k][v].content \in Contents
  <2>1. rule[k] \in Seq(Version) /\ Len(rule[k]) \in Nat /\ Len(rule[k]) <= MaxVersions
    BY DEF PolicyInv, TypeOK, Short
  <2>2. \A v \in 1 .. Len(rule[k]) : rule[k][v] \in Version
    BY <2>1
  <2>3. Len(rule[k]) \in 0 .. MaxVersions
    BY <2>1
  <2>4. getLiveVersion(k) = 0 \/ getLiveVersion(k) \in 1 .. Len(rule[k])
    BY LiveVersion
  <2>5. \A v \in 1 .. Len(rule[k]) : v \in 0 .. MaxVersions /\ v # 0
    BY <2>1
  <2>6. 0 \in 0 .. MaxVersions
    OBVIOUS
  <2> QED
    BY <2>1, <2>2, <2>3, <2>4, <2>5, <2>6 DEF Version
<1>3. ASSUME NEW c \in Contents, NEW s \in Status, CreateCheck(r, c, s) PROVE Moved
  <2> DEFINE q == [Idle EXCEPT !.pc = "create", !.content = c, !.status = s]
  <2>1. q \in Request /\ q.license = None /\ q.pc = "create" /\ q.content = c
    BY ZenonT(40), IdleFits DEF Request
  <2>2. Fits(q) /\ q.pc \notin Issuing
    BY <2>1 DEF Fits, Issuing
  <2>3. request' = [request EXCEPT ![r] = q]
    BY <1>3 DEF CreateCheck
  <2> HIDE DEF q
  <2> QED
    BY <1>1, <2>1, <2>2, <2>3
<1>4. ASSUME NEW k \in RuleKeys, NEW c \in Contents, EditRead(r, k, c) PROVE Moved
  <2> DEFINE v == getLiveVersion(k)
             s == IF v = 0 THEN "disabled" ELSE rule[k][v].status
             q == [Idle EXCEPT !.pc = "edit", !.key = k, !.content = c, !.version = v, !.status = s]
  <2>1. v \in 0 .. MaxVersions /\ s \in Status
    BY <1>2 DEF Status
  <2>2. request' = [request EXCEPT ![r] = q]
    BY <1>4 DEF EditRead
  <2> HIDE DEF v, s
  <2>3. q \in Request /\ q.license = None /\ q.pc = "edit" /\ q.content = c /\ q.key = k
    BY ZenonT(40), <2>1, IdleFits DEF Request
  <2>4. Fits(q) /\ q.pc \notin Issuing
    BY <2>3 DEF Fits, Issuing
  <2> HIDE DEF q
  <2> QED
    BY <1>1, <2>2, <2>3, <2>4
<1>5. ASSUME NEW k \in RuleKeys, NEW s \in Status, StatusRead(r, k, s) PROVE Moved
  <2> DEFINE head == Len(rule[k])
             live == getLiveVersion(k)
             other == IF s = "disabled" \/ live = head THEN 0 ELSE live
             q == [Idle EXCEPT !.pc = "status", !.key = k, !.version = head, !.status = s,
                               !.other = other]
  <2>1. head \in 0 .. MaxVersions /\ other \in 0 .. MaxVersions
    BY <1>2
  <2>2. request' = [request EXCEPT ![r] = q]
    BY <1>5 DEF StatusRead
  <2> HIDE DEF head, other
  <2>3. q \in Request /\ q.license = None /\ q.pc = "status" /\ q.key = k
    BY ZenonT(40), <2>1, IdleFits DEF Request
  <2>4. Fits(q) /\ q.pc \notin Issuing
    BY <2>3 DEF Fits, Issuing
  <2> HIDE DEF q
  <2> QED
    BY <1>1, <2>2, <2>3, <2>4
<1>6. ASSUME NEW k \in RuleKeys, NEW c \in Contents \union {None}, DryRunRead(r, k, c) PROVE Moved
  <2> DEFINE v == IF getLiveVersion(k) = 0 THEN Len(rule[k]) ELSE getLiveVersion(k)
             d == IF c = None THEN rule[k][v].content ELSE c
             q == [Idle EXCEPT !.pc = "dry_run", !.key = k, !.version = v, !.bounds = bounds,
                               !.content = d]
  <2>1. v \in 1 .. Len(rule[k]) /\ v \in 0 .. MaxVersions
    <3>1. rule[k] # <<>> /\ rule[k] \in Seq(Version)
      BY <1>2, <1>6 DEF DryRunRead
    <3>2. Len(rule[k]) \in 1 .. Len(rule[k])
      BY <3>1
    <3> QED
      BY <1>2, <3>2
  <2>2. d \in Contents /\ bounds \in Bounds
    BY <1>2, <2>1 DEF PolicyInv, TypeOK
  <2>3. request' = [request EXCEPT ![r] = q]
    BY <1>6 DEF DryRunRead
  <2> HIDE DEF v, d
  <2>4. /\ q \in Request /\ q.license = None /\ q.pc = "dry_run" /\ q.content = d /\ q.key = k
        /\ q.version = v /\ q.bounds = bounds
    BY ZenonT(40), <2>1, <2>2, IdleFits DEF Request
  <2>5. Fits(q) /\ q.pc \notin Issuing
    BY <2>1, <2>2, <2>4 DEF Fits, Issuing
  <2> HIDE DEF q
  <2> QED
    BY <1>1, <2>3, <2>4, <2>5
<1> QED
  BY <1>3, <1>4, <1>5, <1>6
-----------------------------------------------------------------------------
(* The evaluation: its decision is backed by the versions it names.        *)
LEMMA CandidatesOf ==
  ASSUME PolicyInv, NEW S \in SUBSET Versions
  PROVE  /\ Candidates(S) \in SUBSET Candidacy /\ IsFiniteSet(S) /\ IsFiniteSet(Candidates(S))
         /\ \A x \in Candidates(S) : x.id \in S /\ x = Candidate(x.id)
<1>1. \A p \in S : /\ p \in RuleKeys \X (1 .. MaxVersions)
                   /\ p[1] \in RuleKeys /\ p[2] \in 1 .. Len(rule[p[1]])
  <2> SUFFICES ASSUME NEW p \in S
               PROVE  /\ p \in RuleKeys \X (1 .. MaxVersions)
                      /\ p[1] \in RuleKeys /\ p[2] \in 1 .. Len(rule[p[1]])
    OBVIOUS
  <2>1. p \in RuleKeys \X (1 .. MaxVersions) /\ p[2] <= Len(rule[p[1]])
    BY DEF Versions
  <2>2. p[1] \in RuleKeys /\ p[2] \in 1 .. MaxVersions
    BY <2>1
  <2>3. Len(rule[p[1]]) \in Nat
    BY <2>2 DEF PolicyInv, TypeOK
  <2> QED
    BY <2>1, <2>2, <2>3
<1>2. \A p \in S : At(p) \in Version
  <2> SUFFICES ASSUME NEW p \in S PROVE At(p) \in Version
    OBVIOUS
  <2>1. p[1] \in RuleKeys /\ p[2] \in 1 .. Len(rule[p[1]])
    BY <1>1
  <2>2. rule[p[1]] \in Seq(Version)
    BY <2>1 DEF PolicyInv, TypeOK
  <2> QED
    BY <2>1, <2>2 DEF At
<1>3. Candidates(S) \in SUBSET Candidacy
  BY <1>1, <1>2 DEF Candidates, Candidate, Candidacy, Version
<1>4. \A x \in Candidates(S) : x.id \in S /\ x = Candidate(x.id)
  BY DEF Candidates, Candidate
<1>5. IsFiniteSet(S)
  <2>1. IsFiniteSet(1 .. MaxVersions)
    BY FS_Interval
  <2>2. IsFiniteSet(RuleKeys \X (1 .. MaxVersions))
    BY <2>1, FS_Product
  <2>3. S \in SUBSET (RuleKeys \X (1 .. MaxVersions))
    BY <1>1
  <2> QED
    BY <2>2, <2>3, FS_Subset
<1>6. IsFiniteSet(Candidates(S))
  <2> DEFINE f == [x \in Candidates(S) |-> x.id]
  <2>1. f \in [Candidates(S) -> S] /\ \A x, y \in Candidates(S) : f[x] = f[y] => x = y
    BY <1>4
  <2>2. f \in Injection(Candidates(S), S)
    BY <2>1 DEF Injection, IsInjective
  <2> HIDE DEF f
  <2> QED
    BY <1>5, <2>2, FS_Injection
<1> QED
  BY <1>3, <1>4, <1>5, <1>6

LEMMA NoVersionIsNone == None \notin Versions
<1>1. RuleKeys \X (1 .. MaxVersions) \subseteq Nat \X Nat
  <2>1. RuleKeys \subseteq Nat /\ 1 .. MaxVersions \subseteq Nat
    OBVIOUS
  <2> QED
    BY <2>1
<1> QED
  BY <1>1 DEF Versions

(* An outcome of an evaluation.                                            *)
Sound(outcome, F, b, from) ==
  /\ outcome.decision \in Nat /\ outcome.fired \in Versions \union {None}
  /\ outcome.considered \subseteq Versions
  /\ \A p \in outcome.considered : Matches(p, F)
  /\ outcome.fired = None => outcome.decision = from
  /\ outcome.fired # None =>
       /\ Matches(outcome.fired, F)
       /\ applyEffect(At(outcome.fired).content, b) = outcome.decision
       /\ \A p \in outcome.considered : Before(Candidate(outcome.fired), Candidate(p))

LEMMA WithinIsSound ==
  ASSUME PolicyInv, NEW S \in SUBSET Versions, NEW F, NEW b \in Bounds, NEW from \in Bases
  PROVE  Sound(Within(S, F, b, from), F, b, from)
<1>0. PICK outcome : outcome = Within(S, F, b, from)
  OBVIOUS
<1> SUFFICES Sound(outcome, F, b, from)
  BY <1>0
<1>1. from \in Nat
  OBVIOUS
<1>2. CASE Cardinality(S) > MaxRulesPerIssuance
  <2>1. outcome = [decision |-> from, fired |-> None, considered |-> {}]
    BY <1>0, <1>2 DEF Within
  <2> QED
    BY <1>1, <2>1 DEF Sound
<1>3. CASE ~(Cardinality(S) > MaxRulesPerIssuance)
  <2>0. PICK C : C = Candidates(S)
    OBVIOUS
  <2>1. outcome = resolveEntitlementDecision(C, F, b, from)
    BY <1>0, <1>3, <2>0 DEF Within
  <2>2. /\ C \in SUBSET Candidacy /\ IsFiniteSet(C)
        /\ \A x \in C : x.id \in S /\ x = Candidate(x.id)
    BY <2>0, CandidatesOf
  <2>3. \A x, y \in C : x.id = y.id => x = y
    BY <2>2
  <2>4. /\ outcome.decision \in Nat
        /\ \A p \in outcome.considered : \E x \in C : x.id = p /\ Holds(x.content, F)
        /\ \/ outcome.fired = None /\ outcome.decision = from
           \/ \E x \in C :
                /\ outcome.fired = x.id
                /\ Holds(x.content, F)
                /\ applyEffect(x.content, b) = outcome.decision
                /\ \A p \in outcome.considered : \E y \in C : y.id = p /\ Before(x, y)
    <3>1. Decided(outcome, C, F, b, from)
      BY <1>1, <2>1, <2>2, <2>3, DecisionIsBacked
    <3> QED
      BY <3>1 DEF Decided
  <2>5. \A p : Candidate(p).content = At(p).content
    BY DEF Candidate
  <2>6. \A p \in outcome.considered : p \in Versions /\ Matches(p, F)
    BY <2>2, <2>4, <2>5 DEF Matches
  <2>7. None \notin Versions
    BY NoVersionIsNone
  <2>8. CASE outcome.fired = None
    BY <2>2, <2>4, <2>6, <2>7, <2>8 DEF Sound
  <2>9. ASSUME NEW x \in C, outcome.fired = x.id, Holds(x.content, F),
               applyEffect(x.content, b) = outcome.decision,
               \A p \in outcome.considered : \E y \in C : y.id = p /\ Before(x, y)
        PROVE  Sound(outcome, F, b, from)
    <3>1. x.id \in Versions /\ x = Candidate(x.id) /\ x.content = At(x.id).content
      BY <2>2, <2>5, <2>9
    <3>2. \A p \in outcome.considered : Before(Candidate(x.id), Candidate(p))
      BY <2>2, <2>9, <3>1
    <3> QED
      BY <2>4, <2>6, <2>7, <2>9, <3>1, <3>2 DEF Sound, Matches
  <2> QED
    BY <2>4, <2>8, <2>9
<1> QED
  BY <1>2, <1>3

(* The row of an outcome.                                                  *)
LEMMA RowIsBacked ==
  ASSUME NEW q \in Request, q.base \in Bases, q.bounds \in Bounds,
         NEW mode \in {"enforced", "preview", "dry_run"}, NEW F \in SUBSET Fields,
         NEW outcome, Sound(outcome, F, q.bounds, q.base),
         NEW row, row = RowOf(q, mode, F, outcome)
  PROVE  /\ row \in Row /\ Backed(row) /\ row.mode = mode /\ row.license = q.license
         /\ row.decision = outcome.decision /\ row.decision \in Nat
<1>1. /\ row.license = q.license /\ row.mode = mode /\ row.base = q.base /\ row.bounds = q.bounds
      /\ row.fields = F /\ row.fired = outcome.fired /\ row.considered = outcome.considered
      /\ row.decision = outcome.decision
  BY DEF RowOf
<1>2. q.license \in Licenses \union {None}
  BY DEF Request
<1>3. /\ outcome.decision \in Nat /\ outcome.fired \in Versions \union {None}
      /\ outcome.considered \subseteq Versions
  BY DEF Sound
<1>4. row \in Row
  BY <1>2, <1>3 DEF RowOf, Row
<1>5. Backed(row)
  BY <1>1 DEF Backed, Sound
<1> QED
  BY <1>1, <1>3, <1>4, <1>5

LEMMA SelectedAreVersions ==
  ASSUME NEW n
  PROVE  selectLiveRulesForEntitlement(n) \subseteq Live /\ Live \subseteq Versions
BY DEF selectLiveRulesForEntitlement, Live

(* What an evaluation takes away.                                          *)
LEMMA EvaluationFits ==
  ASSUME PolicyInv, NEW r \in Requests, NEW sources \in SUBSET Sources, evaluatePolicy(r, sources)
  PROVE  \E q \in Request : /\ request' = [request EXCEPT ![r] = q]
                            /\ q.license = request[r].license /\ Fits(q)
<1> DEFINE old == request[r]
<1>1. old \in Request /\ Fits(old) /\ old.pc = "select"
  BY DEF PolicyInv, TypeOK, Shaped, evaluatePolicy
<1>2. /\ old.base \in Bases /\ old.bounds \in Bounds /\ old.license \in Licenses
      /\ license[old.license] = None
  BY <1>1 DEF Fits, Issuing, Request
<1>3. PICK F, S, active, staged, enforced, decision, rows :
        /\ F = buildDecisionContext(sources)
        /\ S = IF enforceContextBounds(F)
               THEN selectLiveRulesForEntitlement(MaxRulesPerIssuance + 1) ELSE {}
        /\ active = Enforced(S) /\ staged = Previewed(S)
        /\ enforced = Within(active, F, old.bounds, old.base)
        /\ decision = enforced.decision
        /\ rows = (IF active = {} THEN {} ELSE {RowOf(old, "enforced", F, enforced)})
                    \union (IF staged = {} THEN {}
                            ELSE {RowOf(old, "preview", F, Within(staged, F, old.bounds, old.base))})
  OBVIOUS
<1>4. request' = [request EXCEPT ![r].pc = "insert", ![r].decision = decision, ![r].rows = rows]
  BY <1>3 DEF evaluatePolicy
<1>5. PICK q : q = [old EXCEPT !.pc = "insert", !.decision = decision, !.rows = rows]
  OBVIOUS
<1>6. request' = [request EXCEPT ![r] = q]
  BY <1>1, <1>4, <1>5 DEF Request
<1>7. F \in SUBSET Fields /\ active \in SUBSET Versions /\ staged \in SUBSET Versions
  BY <1>3, SelectedAreVersions DEF buildDecisionContext, Enforced, Previewed, WithStatus
<1>8. /\ Sound(enforced, F, old.bounds, old.base)
      /\ Sound(Within(staged, F, old.bounds, old.base), F, old.bounds, old.base)
  BY <1>2, <1>3, <1>7, WithinIsSound
<1>9. ASSUME NEW row \in rows
      PROVE  /\ row \in Row /\ Backed(row) /\ row.mode \in {"enforced", "preview"}
             /\ row.license = old.license
             /\ row.mode = "enforced" => row.decision = decision
  <2>1. CASE row = RowOf(old, "enforced", F, enforced)
    BY <1>1, <1>2, <1>3, <1>7, <1>8, <2>1, RowIsBacked
  <2>2. CASE row = RowOf(old, "preview", F, Within(staged, F, old.bounds, old.base))
    <3>1. PICK outcome : outcome = Within(staged, F, old.bounds, old.base)
      OBVIOUS
    <3>2. /\ row \in Row /\ Backed(row) /\ row.mode = "preview" /\ row.license = old.license
      BY <1>1, <1>2, <1>7, <1>8, <2>2, <3>1, RowIsBacked
    <3> QED
      BY <3>2
  <2> QED
    BY <1>3, <2>1, <2>2
<1>10. decision \in Nat
  BY <1>3, <1>8 DEF Sound
<1>11. /\ q \in Request /\ q.license = old.license /\ q.pc = "insert" /\ q.base = old.base
       /\ q.bounds = old.bounds /\ q.decision = decision /\ q.rows = rows
  <2>1. rows \in SUBSET Row
    BY <1>9
  <2> QED
    BY <1>1, <1>5, <1>10, <2>1 DEF Request
<1>12. Pending(q)
  BY <1>9, <1>11 DEF Pending
<1>13. Fits(q)
  BY <1>2, <1>10, <1>11, <1>12 DEF Fits, Issuing
<1> QED
  BY <1>6, <1>11, <1>13

LEMMA IssueReads ==
  ASSUME PolicyInv, NEW r \in Requests,
         \/ \E l \in Licenses : IssueBase(r, l)
         \/ loadEntitlementBounds(r)
         \/ \E sources \in SUBSET Sources : evaluatePolicy(r, sources)
  PROVE  Moved
<1>0. VersionsStand /\ UNCHANGED license
  BY SameVersionsStand DEF IssueBase, loadEntitlementBounds, evaluatePolicy
<1>1. ASSUME NEW l \in Licenses, IssueBase(r, l) PROVE Moved
  <2> DEFINE q == [Idle EXCEPT !.pc = "bounds", !.license = l, !.base = base]
  <2>1. base \in Bases /\ license[l] = None /\ \A o \in Requests : request[o].license # l
    BY <1>1 DEF PolicyInv, TypeOK, IssueBase
  <2>2. q \in Request /\ q.license = l /\ q.pc = "bounds" /\ q.base = base
    BY <2>1, IdleFits DEF Request
  <2>3. Fits(q)
    BY <2>1, <2>2 DEF Fits, Issuing
  <2>4. request' = [request EXCEPT ![r] = q]
    BY <1>1 DEF IssueBase
  <2> HIDE DEF q
  <2> QED
    BY <1>0, <2>1, <2>2, <2>3, <2>4, OneMoves DEF Moved
<1>2. CASE loadEntitlementBounds(r)
  <2> DEFINE old == request[r]
             q == [old EXCEPT !.pc = "select", !.bounds = bounds]
  <2>1. old \in Request /\ Fits(old) /\ old.pc = "bounds" /\ bounds \in Bounds
    BY <1>2 DEF PolicyInv, TypeOK, Shaped, loadEntitlementBounds
  <2>2. request' = [request EXCEPT ![r] = q]
    BY <1>2, <2>1 DEF loadEntitlementBounds, Request
  <2>3. /\ q \in Request /\ q.license = old.license /\ q.pc = "select" /\ q.bounds = bounds
        /\ q.base = old.base
    BY <2>1 DEF Request
  <2>4. Fits(q)
    BY <2>1, <2>3 DEF Fits, Issuing
  <2> HIDE DEF q
  <2> QED
    BY <1>0, <2>2, <2>3, <2>4, OneMoves DEF Moved
<1>3. ASSUME NEW sources \in SUBSET Sources, evaluatePolicy(r, sources) PROVE Moved
  BY <1>0, <1>3, EvaluationFits, OneMoves DEF Moved
<1> QED
  BY <1>1, <1>2, <1>3

LEMMA DoneMoves ==
  ASSUME PolicyInv, VersionsStand, UNCHANGED license, NEW r \in Requests, Done(r)
  PROVE  Moved
BY IdleFits, OneMoves DEF Done, Moved

LEMMA NobodyMoves ==
  ASSUME PolicyInv, VersionsStand, UNCHANGED <<license, request>>
  PROVE  Moved
<1>1. request \in [Requests -> Request] /\ Shaped /\ OneIssuer
  BY DEF PolicyInv, TypeOK
<1>2. \A r \in Requests : request[r] \in Request' /\ Fits(request[r])'
  <2> SUFFICES ASSUME NEW r \in Requests PROVE request[r] \in Request' /\ Fits(request[r])'
    OBVIOUS
  <2>0. PICK q : q = request[r]
    OBVIOUS
  <2>1. q \in Request' /\ Fits(q)'
    BY <1>1, <2>0, FitsStays DEF Shaped
  <2>2. q = request'[r]
    BY <2>0
  <2> QED
    BY <2>0, <2>1, <2>2
<1>3. request' \in [Requests -> Request'] /\ Shaped'
  BY <1>1, <1>2 DEF Shaped
<1>4. OneIssuer'
  BY <1>1 DEF OneIssuer
<1> QED
  BY <1>3, <1>4 DEF Moved

(* What a step leaves, part by part.                                       *)
LEMMA PartsMakeInv ==
  ASSUME VersionsStand, base' \in Bases, bounds' \in Bounds,
         license' \in [Licenses -> Nat \union {None}], audit' \subseteq Row', Kept', Moved
  PROVE  PolicyInv'
BY DEF VersionsStand, Moved, PolicyInv, TypeOK

LEMMA AuditUntouched ==
  ASSUME PolicyInv, VersionsStand, LicensesStand, audit' \subseteq audit
  PROVE  audit' \subseteq Row' /\ Kept'
BY AuditStays DEF PolicyInv, TypeOK, Kept

LEMMA InsertKeeps ==
  ASSUME PolicyInv, NEW r \in Requests, IssueInsert(r)
  PROVE  PolicyInv'
<1> DEFINE old == request[r]
<1>1. /\ old \in Request /\ Fits(old) /\ old.pc = "insert"
      /\ request \in [Requests -> Request] /\ Shaped /\ OneIssuer
      /\ license \in [Licenses -> Nat \union {None}]
  BY DEF PolicyInv, TypeOK, Shaped, IssueInsert
<1>2. PICK l, d, q : l = old.license /\ d = old.decision /\ q = [old EXCEPT !.pc = "audit"]
  OBVIOUS
<1>3. l \in Licenses /\ license[l] = None /\ d \in Nat /\ Pending(old)
  BY <1>1, <1>2 DEF Fits, Issuing, Request
<1>4. license' = [license EXCEPT ![l] = d] /\ UNCHANGED <<rule, base, bounds, audit>>
  BY <1>2 DEF IssueInsert
<1>5. request' = [request EXCEPT ![r] = q]
  BY <1>1, <1>2 DEF IssueInsert, Request
<1>6. VersionsStand
  BY <1>4, SameVersionsStand
<1>7. /\ license' \in [Licenses -> Nat \union {None}] /\ license'[l] = d
      /\ \A x \in Licenses \ {l} : license'[x] = license[x]
  BY <1>1, <1>3, <1>4
<1>8. LicensesStand
  BY <1>3, <1>7 DEF LicensesStand
<1>9. audit' \subseteq Row' /\ Kept'
  BY <1>4, <1>6, <1>8, AuditUntouched
<1>10. q \in Request' /\ Fits(q)'
  <2>1. /\ q \in Request /\ q.pc = "audit" /\ q.license = l /\ q.decision = d /\ q.rows = old.rows
        /\ q.base = old.base /\ q.bounds = old.bounds
    BY <1>1, <1>2 DEF Request
  <2>2. Row \subseteq Row'
    BY <1>6, Standing DEF Row
  <2>3. q \in Request'
    BY <2>1, <2>2 DEF Request
  <2>4. q.rows \subseteq Row /\ Pending(q)
    BY <1>2, <1>3, <2>1 DEF Request, Pending
  <2>5. Pending(q)'
    BY <1>6, <2>4, BackedStays DEF Pending
  <2>6. q.base \in Bases /\ q.bounds \in Bounds /\ l # None
    BY <1>1, <1>3, <2>1 DEF Fits, Issuing
  <2>7. Fits(q)'
    BY <1>3, <1>7, <2>1, <2>5, <2>6 DEF Fits, Issuing
  <2> QED
    BY <2>3, <2>7
<1>11. ASSUME NEW o \in Requests \ {r}
       PROVE  request[o] \in Request' /\ Fits(request[o])'
  <2>0. PICK v : v = request[o]
    OBVIOUS
  <2>1. v \in Request /\ Fits(v) /\ v.license # l
    BY <1>1, <1>2, <1>3, <2>0 DEF Shaped, OneIssuer
  <2>2. v.license # None => license'[v.license] = license[v.license]
    BY <1>7, <2>1 DEF Request
  <2>3. v \in Request' /\ Fits(v)'
    BY <1>6, <2>1, <2>2, FitsStays
  <2>4. request'[o] = v
    BY <1>1, <1>5, <2>0
  <2> QED
    BY <2>0, <2>3, <2>4
<1>12. Moved
  <2>1. request' \in [Requests -> Request'] /\ Shaped'
    BY <1>1, <1>5, <1>10, <1>11 DEF Shaped
  <2>2. q.license = old.license
    BY <1>1, <1>2 DEF Request
  <2>3. OneIssuer'
    BY <1>1, <1>5, <2>2 DEF OneIssuer
  <2> QED
    BY <2>1, <2>3 DEF Moved
<1> QED
  BY <1>4, <1>6, <1>7, <1>9, <1>12, PartsMakeInv DEF PolicyInv, TypeOK

LEMMA AuditKeeps ==
  ASSUME PolicyInv, NEW r \in Requests, writeAudit(r)
  PROVE  PolicyInv'
<1>1. /\ request[r] \in Request /\ Fits(request[r]) /\ request[r].pc = "audit"
      /\ audit \subseteq Row /\ Kept
  BY DEF PolicyInv, TypeOK, Shaped, writeAudit
<1>2. /\ audit' \subseteq audit \union request[r].rows
      /\ Done(r) /\ UNCHANGED <<rule, base, bounds, license>>
  BY DEF writeAudit
<1>3. VersionsStand /\ LicensesStand
  BY <1>2, SameVersionsStand DEF LicensesStand
<1>4. /\ request[r].license \in Licenses /\ Pending(request[r])
      /\ license[request[r].license] = request[r].decision
  BY <1>1 DEF Fits, Issuing, Request
<1>5. \A row \in request[r].rows : row \in Row /\ Faithful(row)
  BY <1>1, <1>4 DEF Pending, Request, Faithful
<1>6. \A row \in audit' : row \in Row /\ Faithful(row)
  BY <1>1, <1>2, <1>5 DEF Kept
<1>7. audit' \subseteq Row' /\ Kept'
  BY <1>3, <1>6, AuditStays
<1>8. Moved
  BY <1>2, <1>3, DoneMoves
<1> QED
  BY <1>2, <1>3, <1>7, <1>8, PartsMakeInv DEF PolicyInv, TypeOK

(* A dry run: the rule under test and all other live rules.                *)
LEMMA DryRunKeeps ==
  ASSUME PolicyInv, NEW r \in Requests, NEW q \in Request, NEW F \in SUBSET Fields,
         q.key \in RuleKeys, q.version \in 1 .. Len(rule[q.key]), q.content \in Contents,
         q.base \in Bases, q.bounds \in Bounds, DryRun(r, q, F)
  PROVE  PolicyInv'
<1>1. PICK others, target, C, S, outcome, row :
        /\ others = {p \in selectLiveRulesForEntitlement(MaxRulesPerIssuance + 1) : p[1] # q.key}
        /\ target = [id |-> <<q.key, q.version>>, content |-> q.content]
        /\ C = Candidates(others) /\ S = {target} \union C
        /\ outcome = resolveEntitlementDecision(S, F, q.bounds, q.base)
        /\ row = RowOf(q, "dry_run", F, outcome)
  OBVIOUS
<1>2. audit' = audit \union {row} /\ Done(r) /\ UNCHANGED <<rule, base, bounds, license>>
  BY <1>1 DEF DryRun
<1>3. others \in SUBSET Versions /\ \A p \in others : p[1] # q.key
  BY <1>1, SelectedAreVersions
<1>4. /\ C \in SUBSET Candidacy /\ IsFiniteSet(C)
      /\ \A x \in C : x.id \in others /\ x = Candidate(x.id)
  BY <1>1, <1>3, CandidatesOf
<1>5. target.id \in Versions /\ target \in Candidacy /\ target.id[1] = q.key
  <2>1. q.version \in 1 .. MaxVersions /\ q.version <= Len(rule[q.key])
    <3>1. rule[q.key] \in Seq(Version)
      BY DEF PolicyInv, TypeOK
    <3>2. Len(rule[q.key]) \in Nat
      BY <3>1
    <3>3. Len(rule[q.key]) <= MaxVersions
      BY DEF PolicyInv, Short
    <3>4. \A n \in Nat : \A v \in 1 .. n : n <= MaxVersions => v \in 1 .. MaxVersions /\ v <= n
      OBVIOUS
    <3> QED
      BY <3>2, <3>3, <3>4
  <2>2. target.id = <<q.key, q.version>> /\ target.content = q.content
    BY <1>1
  <2> QED
    BY <1>1, <2>1, <2>2 DEF Versions, Candidacy
<1>6. S \in SUBSET Candidacy /\ IsFiniteSet(S)
  BY <1>1, <1>4, <1>5, FS_Singleton, FS_Union
<1>7. \A x, y \in S : x.id = y.id => x = y
  <2>1. \A x \in C : x.id # target.id
    BY <1>3, <1>4, <1>5
  <2>2. \A x, y \in C : x.id = y.id => x = y
    BY <1>4
  <2> QED
    BY <1>1, <2>1, <2>2
<1>8. \A x \in S : x.id \in Versions
  BY <1>1, <1>3, <1>4, <1>5
<1>9. Decided(outcome, S, F, q.bounds, q.base)
  <2>1. q.base \in Nat
    OBVIOUS
  <2> QED
    BY <1>1, <1>6, <1>7, <2>1, DecisionIsBacked
<1>10. /\ outcome.decision \in Nat /\ outcome.fired \in Versions \union {None}
       /\ outcome.considered \subseteq Versions
  BY <1>8, <1>9 DEF Decided
<1>11. row \in Row /\ row.mode = "dry_run"
  BY <1>1, <1>10 DEF RowOf, Row, Request
<1>12. \A w \in audit' : w \in Row /\ Faithful(w)
  BY <1>2, <1>11 DEF PolicyInv, TypeOK, Kept, Faithful
<1>13. VersionsStand /\ LicensesStand
  BY <1>2, SameVersionsStand DEF LicensesStand
<1>14. audit' \subseteq Row' /\ Kept'
  BY <1>12, <1>13, AuditStays
<1>15. Moved
  BY <1>2, <1>13, DoneMoves
<1> QED
  BY <1>2, <1>13, <1>14, <1>15, PartsMakeInv DEF PolicyInv, TypeOK

LEMMA DryRunStepKeeps ==
  ASSUME PolicyInv, NEW r \in Requests, NEW sources \in SUBSET Sources, DryRunStep(r, sources)
  PROVE  PolicyInv'
<1> DEFINE old == request[r]
           F == buildDecisionContext(sources)
<1>1. /\ old \in Request /\ Fits(old) /\ old.pc = "dry_run" /\ base \in Bases
  BY DEF PolicyInv, TypeOK, Shaped, DryRunStep
<1>2. /\ old.key \in RuleKeys /\ old.version \in 1 .. Len(rule[old.key]) /\ old.content \in Contents
      /\ old.bounds \in Bounds
  BY <1>1 DEF Fits
<1>3. F \in SUBSET Fields
  BY DEF buildDecisionContext
<1>4. ASSUME NEW l \in Licenses, DryRun(r, assembleRealContext(old, l), F)
      PROVE  PolicyInv'
  <2>1. PICK q : q = assembleRealContext(old, l)
    OBVIOUS
  <2>2. /\ q \in Request /\ q.key = old.key /\ q.version = old.version /\ q.content = old.content
        /\ q.base = base /\ q.bounds = old.bounds
    BY <1>1, <2>1 DEF assembleRealContext, Request
  <2>3. DryRun(r, q, F)
    BY <1>4, <2>1
  <2> HIDE DEF F
  <2> QED
    BY <1>1, <1>2, <1>3, <2>2, <2>3, DryRunKeeps
<1>5. ASSUME NEW from \in Bases, NEW b \in Bounds, DryRun(r, SuppliedContext(old, from, b), F)
      PROVE  PolicyInv'
  <2>1. PICK q : q = SuppliedContext(old, from, b)
    OBVIOUS
  <2>2. /\ q \in Request /\ q.key = old.key /\ q.version = old.version /\ q.content = old.content
        /\ q.base = from /\ q.bounds = b
    BY <1>1, <2>1 DEF SuppliedContext, Request
  <2>3. DryRun(r, q, F)
    BY <1>5, <2>1
  <2> HIDE DEF F
  <2> QED
    BY <1>2, <1>3, <2>2, <2>3, DryRunKeeps
<1>6. ASSUME Done(r), UNCHANGED <<rule, base, bounds, license, audit>>
      PROVE  PolicyInv'
  <2>1. VersionsStand /\ LicensesStand
    BY <1>6, SameVersionsStand DEF LicensesStand
  <2>2. audit' \subseteq Row' /\ Kept'
    BY <1>6, <2>1, AuditUntouched
  <2>3. Moved
    BY <1>6, <2>1, DoneMoves
  <2> QED
    BY <1>6, <2>1, <2>2, <2>3, PartsMakeInv DEF PolicyInv, TypeOK
<1> QED
  BY <1>4, <1>5, <1>6 DEF DryRunStep
-----------------------------------------------------------------------------
LEMMA InitPolicyInv == Init => PolicyInv
<1> SUFFICES ASSUME Init PROVE PolicyInv
  OBVIOUS
<1>1. /\ rule = [k \in RuleKeys |-> <<>>] /\ audit = {}
      /\ base \in Bases /\ bounds \in Bounds
      /\ license = [l \in Licenses |-> None] /\ request = [r \in Requests |-> Idle]
  BY DEF Init
<1>2. rule \in [RuleKeys -> Seq(Version)]
  BY <1>1
<1>3. TypeOK
  BY <1>1, <1>2, IdleFits DEF TypeOK
<1>4. Short
  BY <1>1 DEF Short
<1>5. Shaped
  BY <1>1, IdleFits DEF Shaped
<1>6. OneIssuer
  BY <1>1, IdleFits DEF OneIssuer
<1>7. Kept
  BY <1>1 DEF Kept
<1>8. OneLive
  <2>1. ASSUME NEW k \in RuleKeys PROVE LiveIn(rule[k]) = {}
    <3>1. rule[k] = <<>>
      BY <1>1
    <3>2. DOMAIN rule[k] = {}
      BY <3>1
    <3> QED
      BY <3>2 DEF LiveIn
  <2> QED
    BY <2>1, FS_EmptySet DEF OneLive
<1> QED
  BY <1>3, <1>4, <1>5, <1>6, <1>7, <1>8 DEF PolicyInv

LEMMA NextPolicyInv == PolicyInv /\ [Next]_vars => PolicyInv'
<1> SUFFICES ASSUME PolicyInv, [Next]_vars PROVE PolicyInv'
  OBVIOUS
<1>1. /\ base \in Bases /\ bounds \in Bounds /\ license \in [Licenses -> Nat \union {None}]
  BY DEF PolicyInv, TypeOK
(* Rules, rows and licenses stand; only a request, or the plan, moves.     *)
<1>2. ASSUME VersionsStand, Moved, base' \in Bases, bounds' \in Bounds, UNCHANGED license,
             audit' \subseteq audit
      PROVE  PolicyInv'
  <2>1. LicensesStand
    BY <1>2 DEF LicensesStand
  <2>2. audit' \subseteq Row' /\ Kept'
    BY <1>2, <2>1, AuditUntouched
  <2> QED
    BY <1>1, <1>2, <2>2, PartsMakeInv
<1>3. ASSUME NEW r \in Requests, Author(r) PROVE PolicyInv'
  <2>1. CASE (\E k \in RuleKeys : CreateInsert(r, k)) \/ EditWrite(r) \/ StatusWrite(r)
    <3>1. VersionsStand /\ Done(r) /\ UNCHANGED <<base, bounds, license, audit>>
      BY <2>1, AuthorWrites
    <3>2. Moved
      BY <3>1, DoneMoves
    <3> QED
      BY <1>1, <1>2, <3>1, <3>2
  <2>2. CASE \/ \E c \in Contents, s \in Status : CreateCheck(r, c, s)
             \/ \E k \in RuleKeys, c \in Contents : EditRead(r, k, c)
             \/ \E k \in RuleKeys, s \in Status : StatusRead(r, k, s)
             \/ \E k \in RuleKeys, c \in Contents \union {None} : DryRunRead(r, k, c)
    <3>1. UNCHANGED <<rule, base, bounds, license, audit>>
      BY <2>2 DEF CreateCheck, EditRead, StatusRead, DryRunRead
    <3>2. Moved
      BY <2>2, AuthorReads
    <3> QED
      BY <1>1, <1>2, <3>1, <3>2, SameVersionsStand
  <2>3. CASE \E sources \in SUBSET Sources : DryRunStep(r, sources)
    BY <2>3, DryRunStepKeeps
  <2> QED
    BY <1>3, <2>1, <2>2, <2>3 DEF Author
<1>4. ASSUME NEW r \in Requests, Issue(r) PROVE PolicyInv'
  <2>1. CASE \/ \E l \in Licenses : IssueBase(r, l)
             \/ loadEntitlementBounds(r)
             \/ \E sources \in SUBSET Sources : evaluatePolicy(r, sources)
    <3>1. UNCHANGED <<rule, base, bounds, license, audit>>
      BY <2>1 DEF IssueBase, loadEntitlementBounds, evaluatePolicy
    <3>2. Moved
      BY <2>1, IssueReads
    <3> QED
      BY <1>1, <1>2, <3>1, <3>2, SameVersionsStand
  <2> QED
    BY <1>4, <2>1, InsertKeeps, AuditKeeps DEF Issue
<1>5. ASSUME UNCHANGED <<rule, license, request>>, base' \in Bases, bounds' \in Bounds,
             audit' \subseteq audit
      PROVE  PolicyInv'
  BY <1>2, <1>5, SameVersionsStand, NobodyMoves
<1>6. ASSUME NEW b \in Bounds, setEntitlementRuleBounds(b) PROVE PolicyInv'
  BY <1>1, <1>5, <1>6 DEF setEntitlementRuleBounds
<1>7. ASSUME NEW v \in Bases, setPlanEntitlementValue(v) PROVE PolicyInv'
  BY <1>1, <1>5, <1>7 DEF setPlanEntitlementValue
<1>8. CASE policyRetentionSweep
  BY <1>1, <1>5, <1>8 DEF policyRetentionSweep
<1>9. CASE UNCHANGED vars
  BY <1>1, <1>5, <1>9 DEF vars
<1> QED
  BY <1>3, <1>4, <1>6, <1>7, <1>8, <1>9 DEF Next
-----------------------------------------------------------------------------
(* The inductive invariant.                                                *)
THEOREM PolicyInvariant == Spec => []PolicyInv
<1>1. Init => PolicyInv
  BY InitPolicyInv
<1>2. PolicyInv /\ [Next]_vars => PolicyInv'
  BY NextPolicyInv
<1> QED
  BY <1>1, <1>2, PTL DEF Spec

(* Requests, licenses and rows are of their types, and a row names         *)
(* versions there are.                                                     *)
THEOREM PolicyTypeCorrect == Spec => []TypeOK
<1>1. PolicyInv => TypeOK
  BY DEF PolicyInv
<1> QED
  BY <1>1, PolicyInvariant, PTL

(* A rule is left with the versions a request makes of it, or as it was.   *)
LEMMA CommitReplaces ==
  ASSUME PolicyInv, NEW k \in RuleKeys, NEW vs \in Seq(Version),
         UNCHANGED rule \/ (OneLiveIndex(vs) /\ rule' = [rule EXCEPT ![k] = vs]),
         NEW j \in RuleKeys, NEW v \in LiveIn(rule[j]), LiveIn(rule'[j]) # {v}
  PROVE  j = k /\ v \notin LiveIn(vs)
<1>1. ASSUME NEW us \in Seq(Version), Cardinality(LiveIn(us)) <= 1, v \in LiveIn(us)
      PROVE  LiveIn(us) = {v}
  <2>1. IsFiniteSet(LiveIn(us))
    <3>1. LiveIn(us) \in SUBSET (1 .. Len(us)) /\ Len(us) \in Int /\ 1 \in Int
      BY DEF LiveIn
    <3>2. IsFiniteSet(1 .. Len(us))
      BY <3>1, FS_Interval
    <3> QED
      BY <3>1, <3>2, FS_Subset
  <2>2. Cardinality({v}) = 1
    BY FS_Singleton
  <2>3. Cardinality({v}) <= Cardinality(LiveIn(us)) /\ Cardinality(LiveIn(us)) \in Nat
    BY <1>1, <2>1, FS_Subset, FS_CardinalityType
  <2>4. Cardinality(LiveIn(us)) = Cardinality({v})
    BY <1>1, <2>2, <2>3
  <2> QED
    BY <1>1, <2>1, <2>4, FS_Subset
<1>2. rule \in [RuleKeys -> Seq(Version)] /\ Cardinality(LiveIn(rule[j])) <= 1
  BY DEF PolicyInv, TypeOK, OneLive
<1>3. rule'[j] # rule[j]
  BY <1>1, <1>2
<1>4. OneLiveIndex(vs) /\ j = k /\ rule'[j] = vs
  BY <1>2, <1>3
<1> QED
  BY <1>1, <1>4 DEF OneLiveIndex

(* Of two authors who change a rule at once, one is refused: a live        *)
(* version gives way only to a request that had read that version, for any *)
(* number of authors, rules and versions (PATCH of a rule, POST of its     *)
(* status).                                                                *)
THEOREM NobodysEditIsLost == Spec => NoLostEdit
<1>1. ASSUME PolicyInv, [Next]_vars, NEW k \in RuleKeys, NEW v \in LiveIn(rule[k]), LiveIn(rule'[k]) # {v}
      PROVE  \E r \in Requests :
               /\ request[r].pc \in {"edit", "status"} /\ request'[r] = Idle
               /\ request[r].key = k /\ v \in {request[r].version, request[r].other}
  <2>0. /\ rule \in [RuleKeys -> Seq(Version)] /\ request \in [Requests -> Request]
        /\ v \in 1 .. Len(rule[k]) /\ rule[k][v].status # "disabled"
        /\ \A r \in Requests : Fits(request[r])
    BY <1>1 DEF PolicyInv, TypeOK, LiveIn, Shaped
  <2>1. ~UNCHANGED rule
    <3>1. rule[k] \in Seq(Version)
      BY <2>0
    <3>2. ASSUME UNCHANGED rule PROVE FALSE
      BY <1>1, <3>1, <3>2, CommitReplaces
    <3> QED
      BY <3>2
  <2>2. PICK r \in Requests :
          (\E j \in RuleKeys : CreateInsert(r, j)) \/ EditWrite(r) \/ StatusWrite(r)
    <3>1. ASSUME NEW r \in Requests, Issue(r) PROVE FALSE
      BY <2>1, <3>1 DEF Issue, IssueBase, loadEntitlementBounds, evaluatePolicy, IssueInsert, writeAudit
    <3>2. ASSUME NEW r \in Requests, Author(r),
                 ~((\E j \in RuleKeys : CreateInsert(r, j)) \/ EditWrite(r) \/ StatusWrite(r))
          PROVE  FALSE
      <4>1. ASSUME NEW c, NEW t, CreateCheck(r, c, t) PROVE FALSE
        BY <2>1, <4>1 DEF CreateCheck
      <4>2. ASSUME NEW j, NEW c, EditRead(r, j, c) \/ StatusRead(r, j, c) \/ DryRunRead(r, j, c) PROVE FALSE
        BY <2>1, <4>2 DEF EditRead, StatusRead, DryRunRead
      <4>3. ASSUME NEW sources, DryRunStep(r, sources) PROVE FALSE
        BY <2>1, <4>3 DEF DryRunStep, DryRun
      <4> QED
        BY <3>2, <4>1, <4>2, <4>3 DEF Author
    <3>3. \E r \in Requests : Author(r) \/ Issue(r)
      BY <1>1, <2>1 DEF Next, setEntitlementRuleBounds, setPlanEntitlementValue, policyRetentionSweep, vars
    <3> QED
      BY <3>1, <3>2, <3>3
  <2> DEFINE q == request[r]
  <2>3. q \in Request /\ Fits(q)
    BY <2>0
  <2>4. q.version \in Nat /\ q.other \in Nat /\ q.status \in Status /\ "disabled" \in Status
    BY <2>3 DEF Request, Status
  <2>5. ASSUME NEW j \in RuleKeys, CreateInsert(r, j) PROVE FALSE
    <3>1. PICK vs : vs = <<[content |-> q.content, status |-> q.status]>>
      OBVIOUS
    <3>2. vs \in Seq(Version)
      <4>1. [content |-> q.content, status |-> q.status] \in Version
        BY <2>3, <2>4, <2>5 DEF CreateInsert, Fits, Version
      <4> QED
        BY <3>1, <4>1
    <3>3. k = j
      BY <1>1, <2>5, <3>1, <3>2, CommitReplaces DEF CreateInsert, Commit
    <3>4. rule[k] = <<>>
      BY <2>5, <3>3 DEF CreateInsert
    <3> QED
      BY <2>0, <3>4
  <2>6. ASSUME EditWrite(r) PROVE k = q.key /\ v = q.version
    <3>1. PICK j, us, row, vs :
            /\ j = q.key /\ us = updateStatus(rule[j], q.version, "disabled")
            /\ row = [content |-> q.content, status |-> q.status] /\ vs = Append(us, row)
      OBVIOUS
    <3>2. j \in RuleKeys /\ row \in Version /\ rule[j] \in Seq(Version)
      BY <2>0, <2>3, <2>4, <2>6, <3>1 DEF EditWrite, Fits, Version
    <3>3. /\ us \in Seq(Version) /\ Len(us) = Len(rule[j])
          /\ \A i \in 1 .. Len(rule[j]) : i # q.version => us[i] = rule[j][i]
      BY <2>4, <3>1, <3>2, UpdateKeeps
    <3>4. /\ vs \in Seq(Version) /\ Len(vs) = Len(rule[j]) + 1
          /\ \A i \in 1 .. Len(rule[j]) : vs[i] = us[i]
      BY <3>1, <3>2, <3>3
    <3>5. UNCHANGED rule \/ (OneLiveIndex(vs) /\ rule' = [rule EXCEPT ![j] = vs])
      BY <2>6, <3>1 DEF EditWrite, NewVersions, Commit
    <3>6. k = j /\ v \notin LiveIn(vs)
      BY <1>1, <3>2, <3>4, <3>5, CommitReplaces
    <3>7. v \in DOMAIN vs
      BY <2>0, <3>2, <3>4, <3>6
    <3>8. vs[v].status = "disabled"
      BY <3>6, <3>7 DEF LiveIn
    <3> QED
      BY <2>0, <3>1, <3>3, <3>4, <3>6, <3>8
  <2>7. ASSUME StatusWrite(r) PROVE k = q.key /\ v \in {q.version, q.other}
    <3>1. PICK j, us, vs :
            /\ j = q.key /\ us = updateStatus(rule[j], q.other, "disabled")
            /\ vs = updateStatus(us, q.version, q.status)
      OBVIOUS
    <3>2. j \in RuleKeys /\ rule[j] \in Seq(Version)
      BY <2>0, <2>3, <2>7, <3>1 DEF StatusWrite, Fits
    <3>3. /\ us \in Seq(Version) /\ Len(us) = Len(rule[j])
          /\ \A i \in 1 .. Len(rule[j]) : i # q.other => us[i] = rule[j][i]
      BY <2>4, <3>1, <3>2, UpdateKeeps
    <3>4. /\ vs \in Seq(Version) /\ Len(vs) = Len(us)
          /\ \A i \in 1 .. Len(us) : i # q.version => vs[i] = us[i]
      BY <2>4, <3>1, <3>3, UpdateKeeps
    <3>5. UNCHANGED rule \/ (OneLiveIndex(vs) /\ rule' = [rule EXCEPT ![j] = vs])
      BY <2>7, <3>1 DEF StatusWrite, Commit
    <3>6. k = j /\ v \notin LiveIn(vs)
      BY <1>1, <3>2, <3>4, <3>5, CommitReplaces
    <3>7. v \in DOMAIN vs
      BY <2>0, <3>2, <3>3, <3>4, <3>6
    <3>8. vs[v].status = "disabled"
      BY <3>6, <3>7 DEF LiveIn
    <3> QED
      BY <2>0, <3>1, <3>3, <3>4, <3>6, <3>8
  <2>8. EditWrite(r) \/ StatusWrite(r)
    BY <2>2, <2>5
  <2>9. q.pc \in {"edit", "status"} /\ request'[r] = Idle
    BY <2>0, <2>8 DEF EditWrite, StatusWrite, Done
  <2> QED
    BY <2>6, <2>7, <2>8, <2>9
<1>2. PolicyInv /\ [Next]_vars => [\A k \in RuleKeys : \A v \in LiveIn(rule[k]) : LiveIn(rule'[k]) # {v} =>
        \E r \in Requests :
          /\ request[r].pc \in {"edit", "status"} /\ request'[r] = Idle
          /\ request[r].key = k /\ v \in {request[r].version, request[r].other}]_vars
  BY <1>1
<1> QED
  BY <1>2, PolicyInvariant, PTL DEF Spec, NoLostEdit

(* What the audit says of a license can be recomputed for ever: the        *)
(* decision is on the license, and follows from the versions named.        *)
THEOREM DecisionsAreExplained == Spec => []Explained
<1>1. PolicyInv => Explained
  <2> SUFFICES ASSUME PolicyInv, NEW row \in audit, row.mode # "dry_run" PROVE Explains(row)
    BY DEF Explained
  <2>1. Faithful(row) /\ Backed(row)
    BY DEF PolicyInv, Kept, Faithful
  <2> QED
    BY <2>1 DEF Faithful, Backed, Explains, Matches
<1> QED
  BY <1>1, PolicyInvariant, PTL
-----------------------------------------------------------------------------
LEMMA FirstFew ==
  ASSUME PolicyInv, NEW n \in Nat, Cardinality(Live) <= n
  PROVE  IsFiniteSet(Live) /\ selectLiveRulesForEntitlement(n + 1) = Live
<1>1. IsFiniteSet(Live)
  BY CandidatesOf, SelectedAreVersions
<1>2. ASSUME NEW p \in Live
      PROVE  Cardinality({q \in Live : Before(Candidate(q), Candidate(p))}) < n + 1
  <2>1. PICK T : T = {q \in Live : Before(Candidate(q), Candidate(p))}
    OBVIOUS
  <2>2. T \in SUBSET Live
    BY <2>1
  <2>3. Cardinality(T) \in Nat /\ Cardinality(Live) \in Nat /\ Cardinality(T) <= Cardinality(Live)
    BY <1>1, <2>2, FS_Subset, FS_CardinalityType
  <2>4. Cardinality(T) < n + 1
    BY <2>3
  <2> QED
    BY <2>1, <2>4
<1> QED
  BY <1>1, <1>2 DEF selectLiveRulesForEntitlement

LEMMA NoCandidateNoDecision ==
  ASSUME NEW F, NEW b, NEW from
  PROVE  Within({}, F, b, from).decision = from
<1>1. Candidates({}) = {} /\ Cardinality({}) = 0 /\ ~(0 > MaxRulesPerIssuance)
  BY FS_EmptySet DEF Candidates
<1>2. Within({}, F, b, from) = [decision |-> from, fired |-> None, considered |-> {}]
  BY <1>1 DEF Within, resolveEntitlementDecision
<1> QED
  BY <1>2

(* Only an evaluation takes a request from its bounds to its decision.     *)
LEMMA OnlyEvaluation ==
  ASSUME PolicyInv, [Next]_vars, NEW r \in Requests,
         request[r].pc = "select", request'[r].pc = "insert"
  PROVE  \E sources \in SUBSET Sources : evaluatePolicy(r, sources)
<1>0. request \in [Requests -> Request]
  BY DEF PolicyInv, TypeOK
<1>1. Idle.pc = "idle"
  BY IdleFits
<1>2. ASSUME NEW o \in Requests, Done(o) PROVE FALSE
  <2>1. request'[r] = IF r = o THEN Idle ELSE request[r]
    BY <1>0, <1>2 DEF Done
  <2> QED
    BY <1>1, <2>1
<1>3. ASSUME NEW o \in Requests, NEW q, request' = [request EXCEPT ![o] = q], q.pc # "insert"
      PROVE  FALSE
  <2>1. request'[r] = IF r = o THEN q ELSE request[r]
    BY <1>0, <1>3
  <2> QED
    BY <1>3, <2>1
<1>4. request # request'
  OBVIOUS
<1>5. ASSUME NEW o \in Requests, Author(o) PROVE FALSE
  <2>1. CASE (\E k \in RuleKeys : CreateInsert(o, k)) \/ EditWrite(o) \/ StatusWrite(o)
    BY <1>2, <2>1 DEF CreateInsert, EditWrite, StatusWrite
  <2>2. CASE \E sources \in SUBSET Sources : DryRunStep(o, sources)
    BY <1>2, <2>2 DEF DryRunStep, DryRun
  <2>3. ASSUME NEW o2, request[o2].pc = "idle", \A i \in Requests \ {o2} : request'[i] = request[i]
        PROVE  FALSE
    BY <2>3
  <2>4. CASE \/ \E c \in Contents, s \in Status : CreateCheck(o, c, s)
             \/ \E k \in RuleKeys, c \in Contents : EditRead(o, k, c)
             \/ \E k \in RuleKeys, s \in Status : StatusRead(o, k, s)
             \/ \E k \in RuleKeys, c \in Contents \union {None} : DryRunRead(o, k, c)
    <3>1. request[o].pc = "idle" /\ \A i \in Requests \ {o} : request'[i] = request[i]
      BY <1>0, <2>4 DEF CreateCheck, EditRead, StatusRead, DryRunRead
    <3> QED
      BY <2>3, <3>1
  <2> QED
    BY <1>5, <2>1, <2>2, <2>4 DEF Author
<1>6. ASSUME NEW o \in Requests, Issue(o) PROVE \E sources \in SUBSET Sources : evaluatePolicy(r, sources)
  <2>1. CASE o # r
    <3>1. request'[r] = request[r]
      BY <1>0, <1>6, <2>1
      DEF Issue, IssueBase, loadEntitlementBounds, evaluatePolicy, IssueInsert, writeAudit, Done
    <3> QED
      BY <3>1
  <2>2. CASE o = r
    <3>1. request[r].pc = "select"
      OBVIOUS
    <3> QED
      BY <1>6, <2>2, <3>1 DEF Issue, IssueBase, loadEntitlementBounds, IssueInsert, writeAudit
  <2> QED
    BY <2>1, <2>2
<1> QED
  BY <1>4, <1>5, <1>6
  DEF Next, vars, setEntitlementRuleBounds, setPlanEntitlementValue, policyRetentionSweep

LEMMA EvaluationDecides ==
  ASSUME PolicyInv, NEW r \in Requests, NEW sources \in SUBSET Sources, evaluatePolicy(r, sources),
         NEW old, old = request[r], NEW new, new = request'[r]
  PROVE  IF WithStatus(Live, "active") = {} \/ new.rows = {}
         THEN new.decision = old.base
         ELSE Cardinality(Live) <= MaxRulesPerIssuance =>
                \E row \in new.rows :
                  /\ row.mode = "enforced" /\ row.decision = new.decision
                  /\ resolveEntitlementDecision(Candidates(WithStatus(Live, "active")), row.fields,
                                                row.bounds, row.base).decision = row.decision
<1>1. old \in Request /\ request \in [Requests -> Request]
  BY DEF PolicyInv, TypeOK
<1>2. PICK F, S, A, enforced, staged :
        /\ F = buildDecisionContext(sources)
        /\ S = IF enforceContextBounds(F)
               THEN selectLiveRulesForEntitlement(MaxRulesPerIssuance + 1) ELSE {}
        /\ A = Enforced(S)
        /\ enforced = Within(A, F, old.bounds, old.base)
        /\ staged = IF Previewed(S) = {} THEN {}
                    ELSE {RowOf(old, "preview", F, Within(Previewed(S), F, old.bounds, old.base))}
  OBVIOUS
<1>3. /\ new.decision = enforced.decision
      /\ new.rows = (IF A = {} THEN {} ELSE {RowOf(old, "enforced", F, enforced)}) \union staged
  BY <1>1, <1>2 DEF evaluatePolicy, Request
<1>4. S \subseteq Live /\ A = WithStatus(S, "active") /\ A \subseteq WithStatus(Live, "active")
  BY <1>2, SelectedAreVersions DEF Enforced, WithStatus
<1>5. ASSUME A = {} PROVE new.decision = old.base
  <2>1. enforced = Within({}, F, old.bounds, old.base)
    BY <1>2, <1>5
  <2>2. Within({}, F, old.bounds, old.base).decision = old.base
    BY NoCandidateNoDecision
  <2> QED
    BY <1>3, <2>1, <2>2
<1>6. CASE WithStatus(Live, "active") = {} \/ new.rows = {}
  BY <1>3, <1>4, <1>5, <1>6
<1>7. ASSUME WithStatus(Live, "active") # {}, new.rows # {},
             Cardinality(Live) <= MaxRulesPerIssuance
      PROVE  \E row \in new.rows :
               /\ row.mode = "enforced" /\ row.decision = new.decision
               /\ resolveEntitlementDecision(Candidates(WithStatus(Live, "active")), row.fields,
                                             row.bounds, row.base).decision = row.decision
  <2>1. S = Live /\ IsFiniteSet(Live)
    <3>1. MaxRulesPerIssuance \in Nat
      OBVIOUS
    <3>2. IsFiniteSet(Live) /\ selectLiveRulesForEntitlement(MaxRulesPerIssuance + 1) = Live
      BY <1>7, <3>1, FirstFew
    <3>3. S # {}
      <4>1. \A T : T = {} => Previewed(T) = {} /\ Enforced(T) = {}
        BY DEF Previewed, Enforced, WithStatus
      <4> QED
        BY <1>2, <1>3, <1>7, <4>1
    <3> QED
      BY <1>2, <3>2, <3>3
  <2>2. A = WithStatus(Live, "active") /\ A \in SUBSET Live
    BY <1>4, <2>1 DEF WithStatus
  <2>3. Cardinality(A) \in Nat /\ Cardinality(A) <= MaxRulesPerIssuance
    <3>1. Cardinality(A) \in Nat /\ Cardinality(Live) \in Nat /\ Cardinality(A) <= Cardinality(Live)
      BY <2>1, <2>2, FS_Subset, FS_CardinalityType
    <3> QED
      BY <1>7, <3>1
  <2>4. enforced = resolveEntitlementDecision(Candidates(A), F, old.bounds, old.base)
    BY <1>2, <2>3 DEF Within
  <2>5. PICK row : row = RowOf(old, "enforced", F, enforced)
    OBVIOUS
  <2>6. /\ row.mode = "enforced" /\ row.fields = F /\ row.bounds = old.bounds /\ row.base = old.base
        /\ row.decision = enforced.decision
    BY <2>5 DEF RowOf
  <2>7. row \in new.rows
    BY <1>3, <1>7, <2>2, <2>5
  <2> QED
    BY <1>3, <2>2, <2>4, <2>6, <2>7
<1> QED
  BY <1>6, <1>7

(* The moment of an evaluation: as long as the live rules are within the   *)
(* cap the decision is that of all active ones, and where there is nothing *)
(* to record the plan's value stands.                                      *)
THEOREM ActiveRulesDecide == Spec => Decides
<1> DEFINE Right(r, new) ==
      request[r].pc = "select" /\ new.pc = "insert" =>
        LET enforced == {row \in new.rows : row.mode = "enforced"}
        IN  IF WithStatus(Live, "active") = {} \/ new.rows = {}
            THEN new.decision = request[r].base
            ELSE Cardinality(Live) <= MaxRulesPerIssuance =>
                   \E row \in enforced :
                     /\ row.decision = new.decision
                     /\ resolveEntitlementDecision(Candidates(WithStatus(Live, "active")), row.fields,
                                                   row.bounds, row.base).decision = row.decision
<1>1. ASSUME PolicyInv, [Next]_vars PROVE \A r \in Requests : Right(r, request'[r])
  <2> SUFFICES ASSUME NEW r \in Requests, request[r].pc = "select", request'[r].pc = "insert",
                      NEW new, new = request'[r]
               PROVE  Right(r, new)
    OBVIOUS
  <2>1. PICK sources \in SUBSET Sources : evaluatePolicy(r, sources)
    BY <1>1, OnlyEvaluation
  <2>2. PICK old : old = request[r]
    OBVIOUS
  <2> QED
    BY <1>1, <2>1, <2>2, EvaluationDecides
<1>2. PolicyInv /\ [Next]_vars => [\A r \in Requests : Right(r, request'[r])]_vars
  BY <1>1
<1> QED
  BY <1>2, PolicyInvariant, PTL DEF Spec, Decides
=============================================================================
