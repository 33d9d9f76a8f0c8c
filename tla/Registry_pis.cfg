\* Three Pis register through two slots and exhaust a pool of two addresses,
\* while a customer registers.
CONSTANTS
  s1 = s1  s2 = s2  s3 = s3  c1 = c1  c2 = c2  p1 = p1  p2 = p2  r1 = r1  r2 = r2
  Serials = {s1, s2, s3}
  Codes = {c1}
  PiKeys = {"k1", "k2"}
  Keys = {"g1"}
  Endpoints = {"e1"}
  PiReqs = {p1, p2}
  CuReqs = {r1}
  SerialsOf <- OwnPiSlots
  CodesOf <- OneSlot
  PiCap = 2
  CustomerCap = 61950
  MaxLoad = 0
  Faults = FALSE
SPECIFICATION Spec
INVARIANTS ReplyIsRow
PROPERTIES PiBookSpec CustomerKeepsPi
