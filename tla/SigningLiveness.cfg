SPECIFICATION LiveSpec
CONSTANTS
  r1 = r1  r2 = r2  u1 = u1  u2 = u2
  invoice = invoice  upload = upload
  p1 = p1  alice = alice  bob = bob
  Requests = {r1}
  Sources = {invoice, upload}
  DocSigns = {upload}
  Profiles = {p1}
  Users = {alice}
  Managers = {}
  Certs = {k1}
  Sessions = {s1}
  Calls = {c1}
  NoUser = NoUser  NoCert = NoCert  NoRequest = NoRequest
  NoSession = NoSession  NoFile = NoFile
  SigningTimeout = 0  StaleInProgress = 2  SessionTTL = 3  AgeCap = 2
  SourceOf <- MCSourceOf
  RuleOf <- MCRuleOf
  ProfileOf <- MCProfileOf
  ExpectedSigner <- MCSigner
  focus = r1
PROPERTY NoRequestFrozen
