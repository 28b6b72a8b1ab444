------------------------------ MODULE Condition ------------------------------
(***************************************************************************)
(* The conditions of policy rules (src/server/modules/policy): the walk    *)
(* that evaluates one (condition.ts) and the one that accepts it from an   *)
(* author (validate.ts).  A condition is a tree of nodes                   *)
(*     [op |-> operator, path |-> field, args |-> children]                *)
(* whose leaves are literals.  Strings and numbers are left out: a value   *)
(* is "true" or "false", as a number 1 or 0.                               *)
(***************************************************************************)
EXTENDS Integers, Sequences, FiniteSets

CONSTANTS
  Nodes,          \* the conditions that occur, with all their children
  Fields,         \* the field paths of the context schema
  MaxDepth,       \* conditionMaxDepth
  MaxComplexity   \* conditionMaxComplexity

Booleans == {"true", "false"}
ALLOWED_OPERATORS == {"and", "or", "!", "==", "/", "var", "has"}
Children(n) == {n.args[i] : i \in DOMAIN n.args}

ASSUME ConditionAssumption ==
  /\ {MaxDepth, MaxComplexity} \subseteq Nat
  /\ \A n \in Nodes : Children(n) \subseteq Nodes

Literal(b) == [op |-> b, path |-> "", args |-> <<>>]
Node(op, path, args) == [op |-> op, path |-> path, args |-> args]
-----------------------------------------------------------------------------
(* What the author-time walk counts: every node once, also those that an   *)
(* evaluation would not reach.                                             *)
Size[n \in Nodes] ==
  LET count[i \in 0 .. Len(n.args)] == IF i = 0 THEN 1 ELSE count[i - 1] + Size[n.args[i]]
  IN  count[Len(n.args)]

Height[n \in Nodes] ==
  LET below == {Height[c] : c \in Children(n)}
  IN  IF n.op \in Booleans THEN 0
      ELSE 1 + (IF below = {} THEN 0 ELSE CHOOSE h \in below : \A o \in below : o <= h)

Allowed[n \in Nodes] ==
  /\ n.op \in ALLOWED_OPERATORS \union Booleans
  /\ n.op \in {"var", "has"} => n.path \in Fields
  /\ \A c \in Children(n) : Allowed[c]

validateCondition(n) ==
  /\ n.op \notin Booleans
  /\ Allowed[n] /\ Height[n] <= MaxDepth /\ Size[n] <= MaxComplexity
-----------------------------------------------------------------------------
(* The evaluation of n, d operators deep, when k nodes have been evaluated *)
(* before it, in a context that has the fields F, all of them true.  What  *)
(* comes out is a value or the code of the error thrown.                   *)
evalNode[n \in Nodes, d \in Nat, k \in Nat, F \in SUBSET Fields] ==
  LET Out(out, ops) == [out |-> out, ops |-> ops]
      Arg(i, ops) == evalNode[n.args[i], d + 1, ops, F]
      (* the arguments in turn, as long as each comes out as on *)
      While[i \in 0 .. Len(n.args), on \in SUBSET Booleans] ==
        IF i = 0 THEN Out(CHOOSE b \in on : TRUE, k + 1)
        ELSE IF While[i - 1, on].out \in on THEN Arg(i, While[i - 1, on].ops)
        ELSE While[i - 1, on]
      a == Arg(1, k + 1)
      b == Arg(2, a.ops)
      last == While[Len(n.args), Booleans]
      Of(value) == IF last.out \in Booleans THEN Out(value, last.ops) ELSE last
      Truth(p) == IF p THEN "true" ELSE "false"
  IN  CASE k + 1 > MaxComplexity -> Out("max_complexity_exceeded", k + 1)
        [] n.op \in Booleans -> Out(n.op, k + 1)
        [] n.op \notin ALLOWED_OPERATORS -> Out("unsafe_operator", k + 1)
        [] d + 1 > MaxDepth -> Out("max_depth_exceeded", k + 1)
        [] n.op = "and" -> While[Len(n.args), {"true"}]
        [] n.op = "or"  -> While[Len(n.args), {"false"}]
        [] n.op = "!"   -> IF a.out \in Booleans THEN Out(Truth(a.out = "false"), a.ops) ELSE a
        [] n.op = "=="  -> Of(Truth(a.out = b.out))
        [] n.op = "/"   -> Of(IF b.out = "true" THEN a.out ELSE "arithmetic_error")
        [] n.op = "has" -> Out(Truth(n.path \in F), k + 1)
        [] n.op = "var" -> IF n.path \in F /\ last.out \in Booleans THEN Out("true", last.ops)
                           ELSE IF n.args = <<>> THEN Out("missing_field", k + 1) ELSE last

evaluateCondition[n \in Nodes, F \in SUBSET Fields] == evalNode[n, 0, 0, F].out

(* Errors that depend on the condition alone.                              *)
Refusals == {"max_complexity_exceeded", "max_depth_exceeded", "unsafe_operator"}

(* A condition an author got accepted is never skipped for its size, depth *)
(* or operators when it is evaluated, whatever the context: the walk that  *)
(* accepts counts at least what the walk that evaluates counts.            *)
AcceptedIsEvaluated ==
  \A n \in Nodes, F \in SUBSET Fields :
    validateCondition(n) => evaluateCondition[n, F] \notin Refusals
=============================================================================
