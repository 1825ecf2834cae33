SPECIFICATION FairSpec
CONSTANTS
  k1 = k1  k2 = k2  t1 = t1  t2 = t2
  vendor1 = vendor1  opensc1 = opensc1  vendor2 = vendor2
  Reqs = {q1, q2}
  Tokens = {t1, t2}
  Slots = {vendor1, opensc1, vendor2}
  Certs = {k1, k2}
  Pins = {a, b}
  NoPin = NoPin  NoCert = NoCert  NoSlot = NoSlot
  MaxTries = 2
  TokenOf <- MCTokenOf
  CardOf <- MCCardOf
  FirstKey <- MCFirstKey
INVARIANT TypeOK
INVARIANT LoginHasOneOwner
INVARIANT CachedPinsWereAccepted
INVARIANT RequestsConsistent
PROPERTY CachedPinsCostNothing
PROPERTY TokenReleased
PROPERTY RefinesLock
