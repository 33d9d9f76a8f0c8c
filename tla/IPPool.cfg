\* The whole Pi pool with the first customers.
CONSTANTS
  MaxPis = 2600
  MaxCustomers = 2
SPECIFICATION Spec
INVARIANTS TypeOK NewestPiApart
\* A pool that is full stops issuing addresses: no step is left.
CHECK_DEADLOCK FALSE
