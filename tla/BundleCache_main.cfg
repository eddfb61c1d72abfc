\* Three builds share a disk for one bundle, two calls at a time, two failures.
SPECIFICATION Spec
CONSTANTS
  Builds = {b1, b2, b3}
  Users = {u1, u2}
  Cap = 1
  MaxFaults = 2
INVARIANTS TypeOK InUseIsWhole
PROPERTIES AskedIsServed
