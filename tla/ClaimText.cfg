SPECIFICATION Spec
CONSTANTS
  invoice = invoice  big = big  any = any  approval = approval
  alice = alice  bob = bob  blank = blank  none = none  acme = acme  globex = globex
  t0 = t0  t3 = t3  t5 = t5  t7 = t7  own = own  plain = plain
  profile = profile  company = company  left = left  right = right  c1 = c1  c2 = c2
  Texts <- MCTexts
  Numbers <- MCNumbers
  NoValue = NoValue
  Blank = blank  NoneText = none
  Numeral <- MCNumeral
  FloatOf <- MCFloatOf
  ItemsOf <- MCItemsOf
  PartsOf <- MCPartsOf
  Docs = {invoice}
  Fields <- MCFields
  Rules = {big, any, approval}
  RuleRec <- MCRules
  Companies = {company}  NoCompany = NoCompany
  States = {"Approved"}  NoState = NoState
  Requests = {q1, q2}
  Users = {alice, bob}  NoUser = NoUser
  Managers = {}
  Profiles = {profile}
  UserLists <- MCUserLists
  DefaultTracked = FALSE
  Formats = {own, plain}  DefaultFormat = plain
  Anchored = {own}
  Boxes = {left, right}
  BoxOf <- MCBoxOf
  AtAnchor = AtAnchor
  Templates <- MCTemplates
  Contents = {c1, c2}
  NoPdf = NoPdf
  DocStates <- MCTextStates
  Editable = {big}
SYMMETRY Alike
PROPERTY TextConditionsHold
