CONSTANTS
  UsizeMax = 65535
  U32Max = 255
  MaxLen = 160
  NoLimit = NoLimit

SPECIFICATION Spec
INVARIANT FreshLimitInRange
