SPECIFICATION Spec
CONSTANTS
  MaxEntries = 5
  i1 = i1
  i2 = i2
  Items = { i1, i2 }
  NoItem = NoItem
  MaxMishaps = 2
  k1 = k1
  k2 = k2
  k3 = k3
  Requests = { k1, k2, k3 }
  SignatureOf <- MCSignatureOf
  NoRequest = NoRequest
  o = o
  p = p
  q = q
  Processes = { o, p, q }
  Nobody = Nobody
  uFirst = uFirst
  uSecond = uSecond
  uLogin = uLogin
  uLogout = uLogout
  pFirst = pFirst
  pOther = pOther
  Users = { uFirst, uSecond, uLogin, uLogout }
  UserKind <- MCUserKind
  ProcessOf <- MCProcessOf
  Unlocked = Unlocked
  MaxTokens = 3
  MaxFaults = 2
CHECK_DEADLOCK FALSE
INVARIANT CrashesKeepPromises
INVARIANT InboxDelivers
INVARIANT KeyActsOnce
INVARIANT LockIsExclusive
INVARIANT CredentialsKept
