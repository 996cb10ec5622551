SPECIFICATION Spec
CONSTANTS
  e1 = e1  p1 = p1  s1 = s1  a1 = a1  b1 = b1  w1 = w1  w2 = w2  w3 = w3
  o1 = o1  o2 = o2  x1 = x1  x2 = x2  q1 = q1  q2 = q2  m1 = m1  m2 = m2
  None = None
  Workers = {w1, w3}
  Owners = {o1, o2}
  OwnerOf <- MCOwnerOf
  TypeOf <- MCTypeOf
  IdemOf <- MCIdemOf
  Queries <- MCQueries
  Profiles <- MCProfiles
  Unsettled <- MCUnsettled
  NGrants = 3
  Jobs = {a1, b1}
  BoundTo <- MCBoundTo
  GrantOwner <- MCGrantOwner
  Allowance <- MCAllowance
  Ceiling <- MCCeiling
CHECK_DEADLOCK FALSE
INVARIANTS
  ClaimsAreOwnerScoped
