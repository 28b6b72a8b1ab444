------------------------------ MODULE MCPolicy ------------------------------
(***************************************************************************)
(* Instances of Policy: conditions on both sides of every limit, two rules *)
(* that an author and two issuances meet in, one rule that two authors     *)
(* edit over and over, and, for the preview question, three rules above a  *)
(* cap of one.                                                             *)
(***************************************************************************)
EXTENDS Policy, TLC, FiniteSetsExt

CONSTANTS MaxTotal, MaxRows

True == Literal("true")
Has == Node("has", "seats", <<>>)
Default == Node("var", "seats", <<True>>)
Not(n) == Node("!", "", <<n>>)
Guarded == Node("and", "", <<Has, Node("var", "seats", <<>>)>>)
Same == Node("==", "", <<Default, True>>)
Wide == Node("or", "", <<Default, Default, Has>>)
Forbidden == Node("eval", "", <<>>)

Trees == {Guarded, Not(Has), Same, Not(Not(Not(Has))), Wide, Forbidden,
          Node("has", "secret", <<>>), Node("/", "", <<Has, Has>>)}
AllNodes == UNION {Trees, UNION {Children(n) : n \in Trees}, {True, Has, Not(Has)}}

Content(c, p, kind, v) == [condition |-> c, priority |-> p, kind |-> kind, value |-> v]
AllContents ==
  {Content(Guarded, 2, "adjust_limit", 3)}
    \union {Content(c, 1, "select_tier", 4) : c \in {Same, Not(Not(Not(Has))), Wide, Forbidden}}
Edited == {Content(Guarded, 2, "adjust_limit", 3), Content(Same, 1, "select_tier", 4)}
Always == {Content(Same, 1, "select_tier", 2)}

NoMax == [ruleMax |-> None, ruleTiers |-> {2, 4}]
SomeBounds == {NoMax, [ruleMax |-> 3, ruleTiers |-> {4}]}
TierBounds == {NoMax}

(* Evaluated once, for the nodes above.                                    *)
ASSUME AcceptedAssumption == AcceptedIsEvaluated

(* Two authors of one rule, which goes through MaxVersions versions while  *)
(* nothing is decided.                                                     *)
Edits ==
  /\ \A k \in RuleKeys \ {1} : rule[k] = <<>>
  /\ \A v \in DOMAIN rule[1] : rule[1][v].content \in Edited
  /\ \A r \in Requests :
       request[r].pc \in {"idle", "create", "edit", "status"}
         /\ request[r].content \in Edited \union {None}
  /\ audit = {} /\ \A l \in Licenses : license[l] = None

(* Or at most MaxTotal versions and MaxRows rows in all; a dry run, which  *)
(* changes nothing but the audit, goes on by itself and ends what is       *)
(* explored.                                                               *)
Decisions ==
  /\ \A row \in audit : row.mode # "dry_run"
  /\ \A r \in Requests : request[r].pc = "dry_run" =>
       audit = {} /\ \A o \in Requests \ {r} : request[o] = Idle
  /\ MapThenSumSet(LAMBDA k : Len(rule[k]), RuleKeys) <= MaxTotal
  /\ Cardinality(audit) <= MaxRows

Small == Decisions \/ Edits

Symmetry == Permutations(Requests)
=============================================================================
