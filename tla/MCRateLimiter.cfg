SPECIFICATION Spec
CONSTANTS
  r1 = r1  r2 = r2  r3 = r3  r4 = r4  r5 = r5  r6 = r6
  k1 = k1  k2 = k2
  Requests = {r1, r2, r3, r4, r5, r6}
  Keys = {k1, k2}
  KeyOf <- TwoKeys
  Rpm <- TwoEach
  GlobalRpm = 3
  Window = 3
  Second = 2
  MaxTime = 7
SYMMETRY AlikeRequests
INVARIANTS
  TypeOK
  RateBounds
  RetryAfterIsHonest
PROPERTIES
  DecidesExactly
