SPECIFICATION RegisteredSpec
CONSTANTS
  r1 = r1  r2 = r2  u1 = u1  u2 = u2
  invoice = invoice  upload = upload
  p1 = p1  alice = alice  bob = bob
  Requests = {r1}
  Sources = {invoice, upload}
  DocSigns = {upload}
  Profiles = {p1}
  Users = {alice}
  Managers = {}
  Certs = {k1}
  Sessions = {s1, s2}
  Calls = {c1, c2}
  NoUser = NoUser  NoCert = NoCert  NoRequest = NoRequest
  NoSession = NoSession  NoFile = NoFile
  SigningTimeout = 0  StaleInProgress = 1  SessionTTL = 2  AgeCap = 1
  SourceOf <- MCSourceOf
  RuleOf <- MCRuleOf
  ProfileOf <- MCProfileOf
  ExpectedSigner <- MCSigner
  focus = r1
SYMMETRY Attempts
INVARIANT TypeOK
INVARIANT SignedHasEvidence
INVARIANT FilesAreAudited
PROPERTY SettledStaysSettled
PROPERTY EvidenceIsKept
PROPERTY RefinesLifecycle
