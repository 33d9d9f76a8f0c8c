\* A request for one code is repeated while the first is still running.
CONSTANTS
  s1 = s1  s2 = s2  s3 = s3  c1 = c1  c2 = c2  p1 = p1  p2 = p2  r1 = r1  r2 = r2
  Serials = {s1}
  Codes = {c1, c2}
  PiKeys = {"k1"}
  Keys = {"g1"}
  Endpoints = {"e1"}
  PiReqs = {p1}
  CuReqs = {r1, r2}
  SerialsOf <- OneSerial
  CodesOf <- SharedSlots
  PiCap = 2540
  CustomerCap = 61950
  MaxLoad = 0
  Faults = FALSE
SPECIFICATION Spec
INVARIANTS ReplyIsRow
