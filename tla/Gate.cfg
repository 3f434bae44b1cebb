SPECIFICATION FairSpec
CONSTANTS
  Req = {r1, r2, r3}
  None = None
  Limit = 1
  Lines = 2
  MaxSession = 3
INVARIANT NoCollision
 
PROPERTY WireOrder
PROPERTY StopSettles
