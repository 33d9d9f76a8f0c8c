\* Two keys with different limits; a window of three ticks.
CONSTANTS
  Keys = {"ip", "code"}
  Window = 3
  MaxOf <- MCMaxOf
  MaxTime = 7
SPECIFICATION Spec
INVARIANTS AtMostMaxPerWindow RefusedWithCause
