\* Every phone of up to four digits, rendered in four digits: like u64
\* phones in 20 digits, the longest ones fill the rendering with no
\* leading zero, and phone 0 is all zeros.
CONSTANTS
  Digits = 4
  PhoneMax = 9999

SPECIFICATION Spec
INVARIANT HashIsCanonical ConstantWork
