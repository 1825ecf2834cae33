SPECIFICATION Spec
CONSTANTS
  Flows = {f1, f2}
  MaxTroubles = 2
INVARIANT TypeOK
INVARIANT SecretsConsistent
PROPERTY GetsSigned
PROPERTY MismatchOutlivesFlows
