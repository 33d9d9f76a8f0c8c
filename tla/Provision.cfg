\* Three keys and two devices: requests that may end half-way, and a reboot.
CONSTANTS
  k1 = k1  k2 = k2  k3 = k3  d1 = d1  d2 = d2
  PubKeys = {k1, k2, k3}
  Devices = {d1, d2}
  PoolStart = 103  PoolEnd = 104
  MaxAborts = 1  MaxReboots = 1
SYMMETRY Symmetric
SPECIFICATION Spec
INVARIANTS TypeOK AllocationsDistinct ServedWorks
PROPERTIES DeviceKeepsIP
