\* A kernel task that is interrupted.
CONSTANTS
  u1 = u1
  u2 = u2
  k = k
  Users <- TwoUsers
  Tasks <- OneTask
  PCS = 2
  Events <- Both
SPECIFICATION Spec
PROPERTY
  T0ComesBack

