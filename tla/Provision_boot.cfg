\* A reboot, and requests while the routes are applied.
CONSTANTS
  k1 = k1  k2 = k2  k3 = k3  d1 = d1  d2 = d2
  PubKeys = {k1, k2, k3}
  Devices = {d1, d2}
  PoolStart = 103  PoolEnd = 104
  MaxAborts = 0  MaxReboots = 1
SYMMETRY Symmetric
SPECIFICATION Spec
INVARIANTS SurvivesReboot
