SPECIFICATION Spec
CONSTANTS
  k1 = k1
  k2 = k2
  list = list
  create = create
  Keys = {k1, k2}
  Calls = {list, create}
  Admins = {a1}
  KeyOf <- MCKeyOf
  Op <- MCOp
  Ops <- MCOps
  Perms <- MCPerms
  Admin <- MCAdmin
  Read <- MCRead
  Grants <- MCGrants
INVARIANTS
  TypeOK
  ToldIsOnDisk
  RevokedKeyRefused
  ServedIsAllowed
  AnsweredIsLogged
