SPECIFICATION Spec
CONSTANTS
  None = None
  RuleKeys = {1, 2}
  Nodes <- AllNodes
  Fields = {"seats", "tier"}
  Sources = {"seats", "tier", "email"}
  MaxFields = 1
  MaxDepth = 2
  MaxComplexity = 5
  Contents <- AllContents
  Bases = {1}
  Bounds <- SomeBounds
  Licenses = {l1}
  Requests = {r1, r2}
  MaxVersions = 4
  MaxRulesPerEntitlement = 2
  MaxRulesPerTenant = 2
  MaxRulesPerIssuance = 2
  AbsoluteMax = 3
  MaxTotal = 2
  MaxRows = 2
CONSTRAINT Small
INVARIANT Explained
PROPERTIES Decides 
SYMMETRY Symmetry
CHECK_DEADLOCK FALSE
