SPECIFICATION Spec
CONSTANTS
  s1 = s1
  Sites = {s1}
  Codes = {c1, c2}
  SiteOf <- OneSite
  Pairs = {p1, p2}
  Signs = {g1}
  NoPair = NoPair  NoCode = NoCode  NoSite = NoSite
  MaxEras = 2
SYMMETRY Interchangeable
INVARIANT TypeOK
INVARIANT PairsConsistent
INVARIANT MutexHasOwner
INVARIANT TokensAreRegistered
INVARIANT SecretsAreDurable
INVARIANT MismatchMeansRotation
INVARIANT AckedSiteIsKept
