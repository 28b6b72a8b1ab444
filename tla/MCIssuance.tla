----------------------------- MODULE MCIssuance -----------------------------
(***************************************************************************)
(* Instances of Issuance and Signing for TLC.                              *)
(***************************************************************************)
EXTENDS Issuance, TLC

(* The life cycle goes round between suspended and active: the audit trail *)
(* is cut at a length that lets every action meet every other.             *)
CONSTANT MaxAudit

AuditBound == \A l \in Licenses : Len(audit[l]) <= MaxAudit

Symmetry == Permutations(Customers) \union Permutations(Requests)
              \union Permutations(Admins) \union Permutations(Keys)
              \union Permutations(Shares) \union Permutations(Licenses)
=============================================================================
