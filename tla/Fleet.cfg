\* Two Pis, two customers; a re-keying or a remapping between two faults of any kind.
CONSTANTS
  Pis = {"p", "q"}
  Codes = {"c", "d"}
  Keys = {"k", "k2", "l"}
  KeysOf <- OwnKeys
  Hosts = {"h1", "h2", "h3"}
  HostsOf <- OwnNats
  MaxChanges = 2
  MaxFaults = 2
SPECIFICATION FairSpec
INVARIANTS TypeOK KnownIsThere KnownHasAddress
PROPERTIES TickReachesAnswer EveryCustomerServed InterfaceIsTable ColumnsFollow
